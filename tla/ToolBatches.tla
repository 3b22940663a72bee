---------------------------- MODULE ToolBatches ----------------------------
(***************************************************************************)
(* What CoreToolScheduler promises its client (coreToolScheduler.ts, the   *)
(* schedule() and onAllToolCallsComplete contract its tests state): batches*)
(* of tool calls are worked on one at a time and in the order they came; a *)
(* call is executed at most once; the calls worked on are reported         *)
(* together, once, when all of them are decided; the next batch is begun   *)
(* when the client has dealt with the report.  When the user's answers     *)
(* cross, a call may be executed again and a batch join the one worked on; *)
(* the rest holds all the same.                                            *)
(***************************************************************************)
EXTENDS Naturals, Sequences

CONSTANTS Call, Batch, BatchOf

VARIABLES
    phase,    \* unsent, queued, rejected or begun, for each batch
    line,     \* the batches that wait, first come first served
    open,     \* the calls being worked on
    starts,   \* how often a call was executed
    handed,   \* the calls whose report the client is dealing with
    verdict,  \* what was reported of a call
    crossed   \* answers have crossed

bvars == <<phase, line, open, starts, handed, verdict, crossed>>

Members(b) == {c \in Call : BatchOf[c] = b}

BInit ==
    /\ phase = [b \in Batch |-> "unsent"]
    /\ line = <<>>
    /\ open = {} /\ handed = {}
    /\ starts = [c \in Call |-> 0]
    /\ verdict = [c \in Call |-> "none"]
    /\ crossed = FALSE

\* The calls in S get their results; a success comes from an execution.
Report(S) ==
    /\ open' = {}
    /\ handed' = S
    /\ \A c \in Call :
          /\ c \in S => verdict'[c] \in {"success", "error", "cancelled"}
          /\ c \in S /\ verdict'[c] = "success" =>
                starts[c] = 1 \/ (crossed /\ starts[c] > 0)
          /\ c \notin S => verdict'[c] = verdict[c]
    /\ DOMAIN verdict' = Call

\* Some calls of S are executed: none a second time, unless answers cross.
Start(S) ==
    \E T \in SUBSET {c \in S : starts[c] = 0 \/ crossed'} :
        starts' = [c \in Call |-> IF c \in T THEN starts[c] + 1 ELSE starts[c]]

\* Work on b begins, or is over at once when none of its calls can run.
Take(b) ==
    /\ phase' = [phase EXCEPT ![b] = "begun"]
    /\ \/ /\ open' = open \cup Members(b) /\ handed' = {} /\ verdict' = verdict
          /\ Start(open')
       \/ Report(open \cup Members(b)) /\ UNCHANGED starts

Accept(b) ==
    /\ phase[b] = "unsent" /\ handed = {}
    /\ open = {} \/ crossed
    /\ Take(b)
    /\ line' = line

Wait(b) ==
    /\ phase[b] = "unsent" /\ open \cup handed # {}
    /\ phase' = [phase EXCEPT ![b] = "queued"]
    /\ line' = Append(line, b)
    /\ UNCHANGED <<open, starts, handed, verdict>>

Withdraw(b) ==
    /\ phase' = [phase EXCEPT ![b] = "rejected"]
    /\ \E i \in 1..Len(line) :
          line[i] = b /\ line' = SubSeq(line, 1, i - 1) \o SubSeq(line, i + 1, Len(line))
    /\ UNCHANGED <<open, starts, handed, verdict>>

Execute ==
    /\ Start(open)
    /\ UNCHANGED <<phase, line, open, handed, verdict>>

Complete ==
    /\ open # {} /\ handed = {}
    /\ Report(open)
    /\ UNCHANGED <<phase, line, starts>>

Resume ==
    /\ handed # {} /\ open = {}
    /\ \/ line = <<>> /\ handed' = {} /\ UNCHANGED <<phase, line, open, starts, verdict>>
       \/ line # <<>> /\ line' = Tail(line) /\ Take(Head(line))

\* Answers cross, and nothing else is to be seen of it.
Cross == UNCHANGED <<phase, line, open, starts, handed, verdict>>

BNext ==
    /\ crossed => crossed'
    /\ \/ \E b \in Batch : Accept(b) \/ Wait(b) \/ Withdraw(b)
       \/ Execute \/ Complete \/ Resume \/ Cross

BSpec == BInit /\ [][BNext]_bvars
=============================================================================
