------------------------------ MODULE SubAgent ------------------------------
(***************************************************************************)
(* AgentExecutor (packages/core/src/agents/executor.ts): the turns of a    *)
(* sub-agent, the calls it runs at once, and complete_task, which ends it. *)
(* Every tool call has a scheduler of its own (nonInteractiveToolExecutor);*)
(* nobody answers a confirmation such a scheduler asks for.                *)
(***************************************************************************)
EXTENDS Naturals, Sequences, FiniteSets, SequencesExt

CONSTANTS
    MaxAgentTurns,  \* runConfig.max_turns
    MaxAgentCalls   \* bound: calls of a turn

VARIABLES
    agentAt,        \* where run() is
    turnCounter,
    functionCalls,  \* the calls of the turn, in the model's order
    running,        \* calls whose promise is not settled
    nextMessage,    \* the calls answered by the message, in the order of its parts
    accepted,       \* submittedOutput: the call it comes from, 0 for none
    taskCompleted,
    reason,         \* terminateReason
    agentAborted,   \* the signal
    outOfTime       \* max_time_minutes have passed

agentVars == <<agentAt, turnCounter, functionCalls, running, nextMessage, accepted,
               taskCompleted, reason, agentAborted, outOfTime>>

\* complete_task with and without a valid output; a tool; a tool that asks for a
\* confirmation; a tool the agent does not have.
CallKind == {"valid", "invalid", "tool", "asks", "foreign"}
Turn == UNION {[1 .. n -> CallKind] : n \in 0 .. MaxAgentCalls}
Reason == {"none", "GOAL", "MAX_TURNS", "TIMEOUT", "ABORTED", "ERROR", "thrown"}

AgentInit ==
    /\ agentAt = "check" /\ turnCounter = 0
    /\ functionCalls = <<>> /\ running = {} /\ nextMessage = <<>>
    /\ accepted = 0 /\ taskCompleted = FALSE /\ reason = "none"
    /\ agentAborted = FALSE /\ outOfTime = FALSE

Ends(why) == agentAt' = "ended" /\ reason' = why
Goes(where) == agentAt' = where /\ UNCHANGED reason

-----------------------------------------------------------------------------
\* checkTermination, and the signal after it
CheckTermination ==
    /\ agentAt = "check"
    /\ IF turnCounter >= MaxAgentTurns THEN Ends("MAX_TURNS") /\ UNCHANGED turnCounter
       ELSE IF outOfTime THEN Ends("TIMEOUT") /\ UNCHANGED turnCounter
       ELSE IF agentAborted THEN Ends("ABORTED") /\ UNCHANGED turnCounter
       ELSE Goes("model") /\ turnCounter' = turnCounter + 1
    /\ UNCHANGED <<functionCalls, running, nextMessage, accepted, taskCompleted, agentAborted,
                   outOfTime>>

Completions(calls) == {i \in DOMAIN calls : calls[i] \in {"valid", "invalid"}}
Valid(calls) == {i \in DOMAIN calls : calls[i] = "valid"}
\* complete_task completes whatever it brings: a mistake the runs must notice.
AnyCompletes(calls) == Completions(calls) # {}
\* A completion without a valid output is revoked.
Completes(calls) == Valid(calls) # {}
Oldest(set) == IF set = {} THEN 0 ELSE CHOOSE i \in set : \A j \in set : i <= j

Executed(calls) == {i \in DOMAIN calls : calls[i] \in {"tool", "asks"}}
\* The parts that need no tool come first; those of the tools keep their order.
InOrder(set) ==
    CHOOSE s \in [1 .. Cardinality(set) -> set] : \A i, j \in DOMAIN s : i < j => s[i] < s[j]
Answers(calls) == InOrder(DOMAIN calls \ Executed(calls)) \o InOrder(Executed(calls))

\* callModel returns, and processFunctionCalls goes through the calls: after the
\* first valid output complete_task is refused, and is not looked at.
ModelReplies ==
    /\ agentAt = "model"
    /\ \E calls \in Turn :
         /\ functionCalls' = calls
         /\ IF agentAborted
              THEN Ends("ABORTED") /\ UNCHANGED <<running, taskCompleted, accepted>>
            ELSE IF calls = <<>>
              THEN Ends("ERROR") /\ UNCHANGED <<running, taskCompleted, accepted>>
            ELSE /\ Goes("tools")
                 /\ running' = Executed(calls)
                 /\ taskCompleted' = Completes(calls)
                 /\ accepted' = Oldest(Valid(calls))
    /\ nextMessage' = <<>>
    /\ UNCHANGED <<turnCounter, agentAborted, outOfTime>>

\* The stream of the model breaks.
ModelThrows ==
    /\ agentAt = "model"
    /\ Ends("thrown")
    /\ UNCHANGED <<turnCounter, functionCalls, running, nextMessage, accepted, taskCompleted,
                   agentAborted, outOfTime>>

\* processOutput throws: run() does, the tools that were started go on.
ProcessOutputThrows ==
    /\ agentAt = "model" /\ ~agentAborted
    /\ \E calls \in Turn :
         /\ Valid(calls) # {}
         /\ functionCalls' = calls
         /\ running' = {i \in Executed(calls) : i < Oldest(Valid(calls))}
    /\ Ends("thrown")
    /\ UNCHANGED <<turnCounter, nextMessage, accepted, taskCompleted, agentAborted, outOfTime>>

\* executeToolCall resolves; a call that asks for a confirmation waits for ever,
\* unless it was aborted while it was validated.
ToolResolves ==
    /\ \E i \in running :
         /\ functionCalls[i] = "tool" \/ agentAborted
         /\ running' = running \ {i}
    /\ UNCHANGED <<agentAt, turnCounter, functionCalls, nextMessage, accepted, taskCompleted,
                   reason, agentAborted, outOfTime>>

\* Promise.all has waited for the tools.
TurnEnds ==
    /\ agentAt = "tools" /\ running = {}
    /\ nextMessage' = Answers(functionCalls)
    /\ IF taskCompleted THEN Ends("GOAL") ELSE Goes("check")
    /\ UNCHANGED <<turnCounter, functionCalls, running, accepted, taskCompleted, agentAborted,
                   outOfTime>>

AbortAgent ==
    /\ ~agentAborted /\ agentAt # "ended"
    /\ agentAborted' = TRUE
    /\ UNCHANGED <<agentAt, turnCounter, functionCalls, running, nextMessage, accepted,
                   taskCompleted, reason, outOfTime>>

TimePasses ==
    /\ ~outOfTime /\ agentAt # "ended"
    /\ outOfTime' = TRUE
    /\ UNCHANGED <<agentAt, turnCounter, functionCalls, running, nextMessage, accepted,
                   taskCompleted, reason, agentAborted>>

AgentNext ==
    \/ CheckTermination \/ ModelReplies \/ ModelThrows \/ ProcessOutputThrows
    \/ ToolResolves \/ TurnEnds \/ AbortAgent \/ TimePasses

AgentSpec == AgentInit /\ [][AgentNext]_agentVars

-----------------------------------------------------------------------------
AgentTypeOK ==
    /\ agentAt \in {"check", "model", "tools", "ended"}
    /\ turnCounter \in 0 .. MaxAgentTurns
    /\ functionCalls \in Turn
    /\ running \subseteq DOMAIN functionCalls
    /\ nextMessage \in Seq(1 .. MaxAgentCalls)
    /\ accepted \in 0 .. MaxAgentCalls
    /\ taskCompleted \in BOOLEAN
    /\ reason \in Reason
    /\ agentAborted \in BOOLEAN /\ outOfTime \in BOOLEAN

(* A turn is left when all its tools have returned, and its message answers  *)
(* every call once; an agent that reports GOAL does so with the first valid  *)
(* output of its last turn, whatever completions came with it.               *)
TurnsAreComplete ==
    /\ (agentAt = "check" /\ turnCounter > 0) \/ reason = "GOAL" =>
         /\ running = {}
         /\ IsInjective(nextMessage) /\ ToSet(nextMessage) = DOMAIN functionCalls
    /\ reason = "GOAL" =>
         /\ accepted \in Valid(functionCalls)
         /\ \A i \in Valid(functionCalls) : accepted <= i
=============================================================================
