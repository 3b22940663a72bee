------------------------------ MODULE Desktop ------------------------------
(***************************************************************************)
(* The generative desktop (runtime/): a browser tab posts a command, the   *)
(* backend runs a coding agent or a simulator, either of which rewrites    *)
(* the one generated page, and the reply unlocks the tab's input.          *)
(*                                                                         *)
(* A command goes through the handler of POST /api/command, which is cut   *)
(* at its awaits.  The agent is a launcher process that relaunches itself  *)
(* as a worker (packages/cli/src/utils/relaunch.ts); the backend can kill  *)
(* the launcher only, and hears of the end of both through one "close".    *)
(***************************************************************************)
EXTENDS Naturals, FiniteSets, FiniteSetsExt

CONSTANTS
    Command,     \* commands, each entered once
    Tab,         \* browser tabs
    Nothing,     \* no command
    Requests,    \* numbers of API requests an agent run may report
    MaxReload,   \* bound: reloads of a tab that waits for a reply
    MaxRestart   \* bound: restarts of the backend

ASSUME DesktopAssumption ==
    /\ Nothing \notin Command
    /\ IsFiniteSet(Command)
    /\ Requests \subseteq Nat \ {0}
    /\ MaxReload \in Nat /\ MaxRestart \in Nat

\* "dead": the backend stopped before it replied
Step == {"none", "sent", "launching", "agent", "simulating", "replied", "dead"}
Answer == {"none", "REAL", "SIMULATED", "SIMULATED_FALLBACK", "FAILED"}
\* "orphan": the worker of a launcher that was killed, or whose backend stopped;
\* "exited": no process is left; "closed": the backend got the close event;
\* "gone": it ended, or was forgotten, with an earlier backend
Process == {"none", "launcher", "worker", "orphan", "exited", "closed", "gone"}
Alive == {"launcher", "worker", "orphan"}
\* what the run left behind: exit code 0 with a response, with an API error on
\* stderr, or with empty output; or any other end
Result == {"response", "apiError", "nothing", "failed"}
Author == {"agent", "simulator"}
Page == [by : Author, of : Command]
        \cup [by : {"repository", "nobody", "several"}, of : {Nothing}]

VARIABLES
    \* the browser
    pending,       \* pendingCommand of a tab; the input is locked while it is set
    \* the backend
    useRealAgent,  \* USE_REAL_AGENT, read once from the environment
    handler,       \* where the handler of a command waits
    timer,         \* commands whose 45 s timeout is armed
    answer,        \* the mode a command was answered with
    usage,         \* aggregateUsage: sessions and requests
    \* the agent processes
    agent,         \* the processes of a command's agent
    result,        \* how the agent ended
    requests,      \* requests in the stats it printed, 0 when there are none
    \* GeneratedContent.tsx
    page,          \* whose contents it has; "nobody": truncated, "several": a mixture
    opened,        \* writers between truncating the file and writing it
    \* bounds and history
    reloads, restarts,
    timedOut       \* commands whose timeout fired

browserVars == <<pending, reloads>>
serverVars == <<handler, timer, answer, usage>>
agentVars == <<agent, result, requests>>
fileVars == <<page, opened>>
vars == <<browserVars, useRealAgent, serverVars, agentVars, fileVars, restarts, timedOut>>

TypeOK ==
    /\ pending \in [Tab -> Command \cup {Nothing}]
    /\ useRealAgent \in BOOLEAN
    /\ handler \in [Command -> Step]
    /\ timer \subseteq Command
    /\ answer \in [Command -> Answer]
    /\ usage \in [sessions : Nat, requests : Nat]
    /\ agent \in [Command -> Process]
    /\ result \in [Command -> Result]
    /\ requests \in [Command -> Requests \cup {0}]
    /\ page \in Page
    /\ opened \subseteq Author \X Command
    /\ reloads \in Nat /\ restarts \in Nat
    /\ timedOut \subseteq Command

NoUsage == [sessions |-> 0, requests |-> 0]

Init ==
    /\ pending = [t \in Tab |-> Nothing]
    /\ useRealAgent \in BOOLEAN
    /\ handler = [c \in Command |-> "none"]
    /\ timer = {}
    /\ answer = [c \in Command |-> "none"]
    /\ usage = NoUsage
    /\ agent = [c \in Command |-> "none"]
    /\ result = [c \in Command |-> "failed"]
    /\ requests = [c \in Command |-> 0]
    /\ page = [by |-> "repository", of |-> Nothing]
    /\ opened = {}
    /\ reloads = 0 /\ restarts = 0
    /\ timedOut = {}

-----------------------------------------------------------------------------
(* The browser *)

\* handleCommand: the input takes a command only while none is in flight
Submit(t, c) ==
    /\ pending[t] = Nothing
    /\ handler[c] = "none"
    /\ pending' = [pending EXCEPT ![t] = c]
    /\ handler' = [handler EXCEPT ![c] = "sent"]
    /\ UNCHANGED <<reloads, useRealAgent, timer, answer, usage, agentVars, fileVars, restarts, timedOut>>

\* the end of handleCommand: a reply, or a connection that broke
ReplyArrives(t) ==
    /\ pending[t] # Nothing
    /\ handler[pending[t]] \in {"replied", "dead"}
    /\ pending' = [pending EXCEPT ![t] = Nothing]
    /\ UNCHANGED <<reloads, useRealAgent, serverVars, agentVars, fileVars, restarts, timedOut>>

\* The user reloads the page: its state is new, and nobody awaits the reply.
Reload(t) ==
    /\ reloads < MaxReload
    /\ pending[t] # Nothing
    /\ reloads' = reloads + 1
    /\ pending' = [pending EXCEPT ![t] = Nothing]
    /\ UNCHANGED <<useRealAgent, serverVars, agentVars, fileVars, restarts, timedOut>>

-----------------------------------------------------------------------------
(* The handler of POST /api/command and invokeGeminiAgent *)

Receive(c) ==
    /\ handler[c] = "sent"
    /\ handler' = [handler EXCEPT ![c] = IF useRealAgent THEN "launching" ELSE "simulating"]
    /\ UNCHANGED <<browserVars, useRealAgent, timer, answer, usage, agentVars, fileVars, restarts, timedOut>>

\* A mistake the runs must notice: the handler does not await the agent.
LaunchUnawaited(c) ==
    /\ handler[c] = "launching"
    /\ handler' = [handler EXCEPT ![c] = "replied"]
    /\ agent' = [agent EXCEPT ![c] = "launcher"]
    /\ UNCHANGED <<browserVars, useRealAgent, timer, answer, usage, result, requests, fileVars, restarts, timedOut>>

\* behind the reads of the page and of the bundle: spawn and arm the timeout
Launch(c) ==
    /\ handler[c] = "launching"
    /\ handler' = [handler EXCEPT ![c] = "agent"]
    /\ agent' = [agent EXCEPT ![c] = "launcher"]
    /\ timer' = timer \cup {c}
    /\ UNCHANGED <<browserVars, useRealAgent, answer, usage, result, requests, fileVars, restarts, timedOut>>

\* no bundle, a Node version too old, or an "error" event instead of a process
LaunchFails(c) ==
    /\ handler[c] = "launching"
    /\ handler' = [handler EXCEPT ![c] = "simulating"]
    /\ UNCHANGED <<browserVars, useRealAgent, timer, answer, usage, agentVars, fileVars, restarts, timedOut>>

\* A mistake the runs must notice: on a timeout the agent is only killed.
OnlyKills(c) == handler

\* Rejecting the promise counts only while the handler awaits it; its catch
\* block goes to the simulator.
Reject(c) ==
    IF handler[c] = "agent" THEN [handler EXCEPT ![c] = "simulating"] ELSE handler

RejectOnTimeout(c) == Reject(c)

\* SIGTERM ends a launcher without a worker; a worker outlives its launcher
Killed(p) == CASE p = "launcher" -> "exited" [] p = "worker" -> "orphan" [] OTHER -> p

TimeOut(c) ==
    /\ c \in timer
    /\ timer' = timer \ {c}
    /\ timedOut' = timedOut \cup {c}
    /\ agent' = [agent EXCEPT ![c] = Killed(@)]
    /\ handler' = RejectOnTimeout(c)
    /\ UNCHANGED <<browserVars, useRealAgent, answer, usage, result, requests, fileVars, restarts>>

\* A mistake the runs must notice: usage of runs that failed over is not recorded.
RecordsAnswers(c) ==
    IF requests[c] = 0 \/ handler[c] # "agent" THEN usage
    ELSE [sessions |-> usage.sessions + 1, requests |-> usage.requests + requests[c]]

\* recordUsageStats, with the sums of mergeStats
RecordUsage(c) ==
    IF requests[c] = 0 THEN usage
    ELSE [sessions |-> usage.sessions + 1, requests |-> usage.requests + requests[c]]

\* A mistake the runs must notice: a run that ends late still settles the answer.
SettlesAgain(c) ==
    /\ handler' = [handler EXCEPT ![c] = IF result[c] = "response" THEN "replied" ELSE "simulating"]
    /\ answer' = [answer EXCEPT ![c] = IF result[c] = "response" THEN "REAL" ELSE @]

\* the first settlement of the promise wins
Settle(c) ==
    IF handler[c] = "agent" /\ result[c] = "response"
    THEN /\ handler' = [handler EXCEPT ![c] = "replied"]
         /\ answer' = [answer EXCEPT ![c] = "REAL"]
    ELSE /\ handler' = Reject(c)
         /\ UNCHANGED answer

\* the "close" event
Closed(c) ==
    /\ agent[c] = "exited"
    /\ handler[c] # "dead"
    /\ agent' = [agent EXCEPT ![c] = "closed"]
    /\ timer' = timer \ {c}
    /\ usage' = IF result[c] = "failed" THEN usage ELSE RecordUsage(c)
    /\ Settle(c)
    /\ UNCHANGED <<browserVars, useRealAgent, result, requests, fileVars, restarts, timedOut>>

-----------------------------------------------------------------------------
(* GeneratedContent.tsx: fs.writeFile truncates the file, then writes it *)

Open(w) ==
    /\ opened' = opened \cup {w}
    /\ page' = [by |-> "nobody", of |-> Nothing]

\* Contents written since the truncation are replaced from the first byte on:
\* the end of a longer text stays behind the new one.
Write(w) ==
    /\ w \in opened
    /\ opened' = opened \ {w}
    /\ \/ page' = [by |-> w[1], of |-> w[2]]
       \/ /\ page.by # "nobody"
          /\ page' = [by |-> "several", of |-> Nothing]

Reply(c, mode) ==
    /\ handler' = [handler EXCEPT ![c] = "replied"]
    /\ answer' = [answer EXCEPT ![c] = mode]
    /\ UNCHANGED <<timer, usage>>

\* A mistake the runs must notice: the reply leaves the mode out.
ModeLeftOut == "UNKNOWN"

SimulatedMode == IF useRealAgent THEN "SIMULATED_FALLBACK" ELSE "SIMULATED"

\* A mistake the runs must notice: the reply does not wait for the file.
RepliesEarly(c) ==
    /\ handler[c] = "simulating"
    /\ Open(<<"simulator", c>>)
    /\ Reply(c, SimulatedMode)
    /\ UNCHANGED <<browserVars, useRealAgent, agentVars, restarts, timedOut>>

\* smart-simulator.js, when simulateAgentResponse awaits it
SimulatorOpens(c) ==
    /\ handler[c] = "simulating"
    /\ <<"simulator", c>> \notin opened
    /\ Open(<<"simulator", c>>)
    /\ UNCHANGED <<browserVars, useRealAgent, serverVars, agentVars, restarts, timedOut>>

SimulatorWrites(c) ==
    /\ Write(<<"simulator", c>>)
    /\ Reply(c, SimulatedMode)
    /\ UNCHANGED <<browserVars, useRealAgent, agentVars, restarts, timedOut>>

\* the write fails, before or after the file was opened: status 500
SimulatorFails(c) ==
    /\ handler[c] = "simulating"
    /\ opened' = opened \ {<<"simulator", c>>}
    /\ Reply(c, "FAILED")
    /\ UNCHANGED <<browserVars, useRealAgent, agentVars, page, restarts, timedOut>>

-----------------------------------------------------------------------------
(* The agent: what its processes do is up to them *)

\* relaunchAppInChildProcess
Relaunch(c) ==
    /\ agent[c] = "launcher"
    /\ agent' = [agent EXCEPT ![c] = "worker"]
    /\ UNCHANGED <<browserVars, useRealAgent, serverVars, result, requests, fileVars, restarts, timedOut>>

\* its tools write files by fs.writeFile as well, as often as the model asks
AgentOpens(c) ==
    /\ agent[c] \in {"worker", "orphan"}
    /\ <<"agent", c>> \notin opened
    /\ Open(<<"agent", c>>)
    /\ UNCHANGED <<browserVars, useRealAgent, serverVars, agentVars, restarts, timedOut>>

AgentWrites(c) ==
    /\ agent[c] \in {"worker", "orphan"}
    /\ Write(<<"agent", c>>)
    /\ UNCHANGED <<browserVars, useRealAgent, serverVars, agentVars, restarts, timedOut>>

\* The worker finishes and its launcher with it, handing on the exit code.
AgentFinishes(c, r, n) ==
    /\ agent[c] = "worker"
    /\ <<"agent", c>> \notin opened
    /\ agent' = [agent EXCEPT ![c] = "exited"]
    /\ result' = [result EXCEPT ![c] = r]
    /\ requests' = [requests EXCEPT ![c] = n]
    /\ UNCHANGED <<browserVars, useRealAgent, serverVars, fileVars, restarts, timedOut>>

\* It ends in any other way, perhaps in the middle of a write.  An orphan's exit
\* code reaches nobody: its launcher ended by a signal.
AgentFails(c) ==
    /\ agent[c] \in Alive
    /\ agent' = [agent EXCEPT ![c] = "exited"]
    /\ opened' = opened \ {<<"agent", c>>}
    /\ UNCHANGED <<browserVars, useRealAgent, serverVars, result, requests, page, restarts, timedOut>>

-----------------------------------------------------------------------------
(* The backend stops and is started again *)

\* Handlers, timers and usage totals are gone; agents may survive.
Restart(survivors) ==
    /\ restarts < MaxRestart
    /\ restarts' = restarts + 1
    /\ survivors \subseteq {c \in Command : agent[c] \in Alive}
    /\ handler' = [c \in Command |->
                     IF handler[c] \in {"none", "replied"} THEN handler[c] ELSE "dead"]
    /\ timer' = {}
    /\ usage' = NoUsage
    /\ agent' = [c \in Command |-> CASE c \in survivors -> "orphan"
                                     [] agent[c] = "none" -> "none"
                                     [] OTHER -> "gone"]
    /\ opened' = {w \in opened : w[1] = "agent" /\ w[2] \in survivors}
    /\ UNCHANGED <<browserVars, useRealAgent, answer, result, requests, page, timedOut>>

-----------------------------------------------------------------------------
Browser == \E t \in Tab : (\E c \in Command : Submit(t, c)) \/ ReplyArrives(t) \/ Reload(t)

Invoking(c) == Receive(c) \/ Launch(c) \/ LaunchFails(c) \/ TimeOut(c) \/ Closed(c)

Simulating(c) == SimulatorOpens(c) \/ SimulatorWrites(c) \/ SimulatorFails(c)

Working(c) ==
    \/ Relaunch(c) \/ AgentOpens(c) \/ AgentWrites(c) \/ AgentFails(c)
    \/ \E r \in Result \ {"failed"}, n \in Requests \cup {0} : AgentFinishes(c, r, n)

Next ==
    \/ Browser
    \/ \E c \in Command : Invoking(c) \/ Simulating(c) \/ Working(c)
    \/ \E survivors \in SUBSET Command : Restart(survivors)

Spec == Init /\ [][Next]_vars

\* Timers fire, events are delivered, file operations end and replies arrive.
\* Nothing is assumed of an agent.
Fairness ==
    /\ \A c \in Command : WF_vars(Invoking(c)) /\ WF_vars(Simulating(c))
    /\ \A t \in Tab : WF_vars(ReplyArrives(t))

FairSpec == Spec /\ Fairness

-----------------------------------------------------------------------------
(* Properties *)

Simulated == {"SIMULATED", "SIMULATED_FALLBACK"}
Strays == {c \in Command : agent[c] \in Alive /\ handler[c] # "agent"}

\* An agent at work that no handler waits for was given up at its timeout, or
\* lost with the backend: no other way through the close and error events, the
\* fallback and the reply leaves one behind.
StraysAreGivenUp == \A c \in Strays : c \in timedOut \/ handler[c] = "dead"

\* A command answered as REAL had its run end with a response in time: neither
\* the timeout nor a close event behind it can turn an answer round.
RealAnswersAreTimely ==
    \A c \in Command : answer[c] = "REAL" =>
        /\ agent[c] \in {"closed", "gone"}
        /\ result[c] = "response"
        /\ c \notin timedOut

\* The totals count every run that this backend saw end with statistics, once:
\* also those that came in behind their timeout or ended in the fallback.
UsageAddsUp ==
    LET counted == {c \in Command : agent[c] = "closed" /\ requests[c] # 0}
    IN  /\ usage.sessions = Cardinality(counted)
        /\ usage.requests = MapThenSumSet(LAMBDA c : requests[c], counted)

GivenUp == {c \in Command : agent[c] # "none" /\ (c \in timedOut \/ handler[c] = "dead")}

\* With one tab that is not reloaded, only an agent that was given up can garble
\* the page: each handler ends its writes before the reply that lets the next
\* command in.
OnlyStraysGarble == page.by = "several" => GivenUp # {}

\* Under the same assumption, when a simulated answer is on its way the page is
\* the one written for it, or one that an agent given up has had its hands on;
\* never what the simulator wrote for another command.
SimulatedAnswersShow ==
    \A t \in Tab : LET c == pending[t] IN
        c # Nothing /\ handler[c] = "replied" /\ answer[c] \in Simulated =>
            \/ page = [by |-> "simulator", of |-> c]
            \/ GivenUp # {} /\ page.by \in {"agent", "nobody", "several"}

\* Every command that a tab waits for is answered, whatever the agent does: the
\* timeout covers the runs that never end.
EveryCommandIsAnswered ==
    \A t \in Tab, c \in Command : pending[t] = c ~> pending[t] # c
=============================================================================
