--------------------------- MODULE Desktop_proofs ---------------------------
(***************************************************************************)
(* Proofs about Desktop for every number of commands, tabs, reloads and    *)
(* restarts: its types, the life of a command, the sessions of one tab     *)
(* (TabsSpec of MCDesktop), and the totals of the agents' usage.           *)
(***************************************************************************)
EXTENDS MCDesktop, FiniteSetTheorems, WellFoundedInduction, TLAPS

-----------------------------------------------------------------------------
(* Types *)

LEMMA InitType == Init => TypeOK
<1> SUFFICES ASSUME Init PROVE TypeOK
  OBVIOUS
<1>1. pending \in [Tab -> Command \cup {Nothing}] /\ useRealAgent \in BOOLEAN
  BY DEF Init
<1>2. handler \in [Command -> Step] /\ timer \subseteq Command /\ answer \in [Command -> Answer]
  BY DEF Init, Step, Answer
<1>3. usage \in [sessions : Nat, requests : Nat]
  BY DEF Init, NoUsage
<1>4. /\ agent \in [Command -> Process] /\ result \in [Command -> Result]
      /\ requests \in [Command -> Requests \cup {0}]
  BY DEF Init, Process, Result
<1>5. page \in Page /\ opened \subseteq Author \X Command
  BY DEF Init, Page
<1>6. reloads \in Nat /\ restarts \in Nat /\ timedOut \subseteq Command
  BY DEF Init
<1> QED BY <1>1, <1>2, <1>3, <1>4, <1>5, <1>6 DEF TypeOK

LEMMA BrowserType == ASSUME TypeOK, Browser PROVE TypeOK'
<1>1. CASE \E t \in Tab, c \in Command : Submit(t, c)
  BY <1>1 DEF TypeOK, Submit, agentVars, fileVars, Step
<1>2. CASE \E t \in Tab : ReplyArrives(t)
  BY <1>2 DEF TypeOK, ReplyArrives, serverVars, agentVars, fileVars
<1>3. CASE \E t \in Tab : Reload(t)
  BY <1>3 DEF TypeOK, Reload, serverVars, agentVars, fileVars
<1> QED BY <1>1, <1>2, <1>3 DEF Browser

\* Rejecting the promise moves the handler to the simulator, or not at all.
LEMMA RejectType == ASSUME TypeOK, NEW c \in Command PROVE Reject(c) \in [Command -> Step]
BY DEF Reject, TypeOK, Step

LEMMA UsageType ==
    ASSUME TypeOK, NEW c \in Command
    PROVE  RecordUsage(c) \in [sessions : Nat, requests : Nat]
<1>1. requests[c] \in Nat
  <2>1. requests[c] \in Requests \cup {0}
    BY DEF TypeOK
  <2>2. Requests \subseteq Nat
    BY DesktopAssumption DEF DesktopAssumption
  <2>3. 0 \in Nat
    OBVIOUS
  <2> QED BY <2>1, <2>2, <2>3, Zenon
<1> QED BY <1>1 DEF RecordUsage, TypeOK

LEMMA InvokingType == ASSUME TypeOK, NEW c \in Command, Invoking(c) PROVE TypeOK'
<1>1. CASE Receive(c)
  BY <1>1 DEF TypeOK, Receive, browserVars, agentVars, fileVars, Step
<1>2. CASE Launch(c)
  BY <1>2 DEF TypeOK, Launch, browserVars, fileVars, Step, Process
<1>3. CASE LaunchFails(c)
  BY <1>3 DEF TypeOK, LaunchFails, browserVars, agentVars, fileVars, Step
<1>4. CASE TimeOut(c)
  <2>1. agent' \in [Command -> Process]
    BY <1>4 DEF TimeOut, TypeOK, Killed, Process
  <2>2. handler' \in [Command -> Step]
    BY <1>4, RejectType DEF TimeOut, RejectOnTimeout
  <2> QED BY <1>4, <2>1, <2>2 DEF TypeOK, TimeOut, browserVars, fileVars
<1>5. CASE Closed(c)
  <2>1. usage' \in [sessions : Nat, requests : Nat]
    BY <1>5, UsageType DEF Closed, TypeOK
  <2>2. Settle(c)
    BY <1>5 DEF Closed
  <2>4. handler' \in [Command -> Step] /\ answer' \in [Command -> Answer]
    <3>1. CASE handler[c] = "agent" /\ result[c] = "response"
      BY <2>2, <3>1 DEF Settle, TypeOK, Step, Answer
    <3>2. CASE ~(handler[c] = "agent" /\ result[c] = "response")
      BY <2>2, <3>2, RejectType DEF Settle, TypeOK
    <3> QED BY <3>1, <3>2
  <2>3. agent' \in [Command -> Process]
    BY <1>5 DEF Closed, TypeOK, Process
  <2> QED BY <1>5, <2>1, <2>3, <2>4 DEF TypeOK, Closed, browserVars, fileVars
<1> QED BY <1>1, <1>2, <1>3, <1>4, <1>5 DEF Invoking

LEMMA OpenType ==
    ASSUME TypeOK, NEW a \in Author, NEW c \in Command, Open(<<a, c>>)
    PROVE  page' \in Page /\ opened' \subseteq Author \X Command
BY DEF TypeOK, Open, Page

LEMMA WriteType ==
    ASSUME TypeOK, NEW a \in Author, NEW c \in Command, Write(<<a, c>>)
    PROVE  page' \in Page /\ opened' \subseteq Author \X Command
BY DEF TypeOK, Write, Page

LEMMA SimulatingType == ASSUME TypeOK, NEW c \in Command, Simulating(c) PROVE TypeOK'
<1>0. "simulator" \in Author /\ SimulatedMode \in Answer
  BY DEF Author, SimulatedMode, Answer
<1>1. CASE SimulatorOpens(c)
  BY <1>0, <1>1, OpenType DEF TypeOK, SimulatorOpens, browserVars, serverVars, agentVars
<1>2. CASE SimulatorWrites(c)
  <2>1. handler' \in [Command -> Step] /\ answer' \in [Command -> Answer]
    BY <1>0, <1>2 DEF SimulatorWrites, Reply, TypeOK, Step
  <2> QED BY <1>0, <1>2, <2>1, WriteType
          DEF TypeOK, SimulatorWrites, Reply, browserVars, agentVars
<1>3. CASE SimulatorFails(c)
  <2>1. handler' \in [Command -> Step] /\ answer' \in [Command -> Answer]
    BY <1>3 DEF SimulatorFails, Reply, TypeOK, Step, Answer
  <2> QED BY <1>3, <2>1 DEF TypeOK, SimulatorFails, Reply, browserVars, agentVars
<1> QED BY <1>1, <1>2, <1>3 DEF Simulating

LEMMA WorkingType == ASSUME TypeOK, NEW c \in Command, Working(c) PROVE TypeOK'
<1>0. "agent" \in Author
  BY DEF Author
<1>1. CASE Relaunch(c)
  BY <1>1 DEF TypeOK, Relaunch, browserVars, serverVars, fileVars, Process
<1>2. CASE AgentOpens(c)
  BY <1>0, <1>2, OpenType DEF TypeOK, AgentOpens, browserVars, serverVars, agentVars
<1>3. CASE AgentWrites(c)
  BY <1>0, <1>3, WriteType DEF TypeOK, AgentWrites, browserVars, serverVars, agentVars
<1>4. CASE AgentFails(c)
  BY <1>4 DEF TypeOK, AgentFails, browserVars, serverVars, Process
<1>5. ASSUME NEW r \in Result \ {"failed"}, NEW n \in Requests \cup {0}, AgentFinishes(c, r, n)
      PROVE  TypeOK'
  BY <1>5 DEF TypeOK, AgentFinishes, browserVars, serverVars, fileVars, Process
<1> QED BY <1>1, <1>2, <1>3, <1>4, <1>5 DEF Working

LEMMA RestartType ==
    ASSUME TypeOK, NEW survivors \in SUBSET Command, Restart(survivors)
    PROVE  TypeOK'
<1>1. handler' \in [Command -> Step] /\ agent' \in [Command -> Process]
  BY DEF Restart, TypeOK, Step, Process
<1>2. opened' \subseteq Author \X Command /\ usage' \in [sessions : Nat, requests : Nat]
  BY DEF Restart, TypeOK, NoUsage
<1> QED BY <1>1, <1>2 DEF TypeOK, Restart, browserVars

LEMMA StepType == TypeOK /\ [Next]_vars => TypeOK'
<1> SUFFICES ASSUME TypeOK, [Next]_vars PROVE TypeOK'
  OBVIOUS
<1>1. CASE Next
  BY <1>1, BrowserType, InvokingType, SimulatingType, WorkingType, RestartType DEF Next
<1>2. CASE UNCHANGED vars
  BY <1>2 DEF TypeOK, vars, browserVars, serverVars, agentVars, fileVars
<1> QED BY <1>1, <1>2

\* Every variable keeps its type, for every set of commands and tabs.
THEOREM DesktopTypeCorrect == Spec => []TypeOK
BY InitType, StepType, PTL DEF Spec

-----------------------------------------------------------------------------
(* The life of a command *)

\* The timeout is armed exactly while the handler awaits an agent that is not
\* given up; before, nothing was started; a REAL answer ends it.
Life(c) ==
    /\ c \in timer <=> handler[c] = "agent"
    /\ handler[c] \in {"none", "sent", "launching"} =>
         agent[c] = "none" /\ answer[c] = "none" /\ c \notin timedOut
    /\ handler[c] = "agent" =>
         agent[c] \in {"launcher", "worker", "exited"} /\ answer[c] = "none" /\ c \notin timedOut
    /\ agent[c] \in Alive /\ handler[c] # "agent" => c \in timedOut \/ handler[c] = "dead"
    /\ answer[c] = "REAL" =>
         /\ handler[c] = "replied"
         /\ agent[c] \in {"closed", "gone"}
         /\ result[c] = "response"
         /\ c \notin timedOut

Lives == \A c \in Command : Life(c)

LEMMA InitLives == Init => Lives
BY DEF Init, Lives, Life, Alive

LEMMA BrowserLives == ASSUME TypeOK, Lives, Browser PROVE Lives'
<1> SUFFICES ASSUME NEW d \in Command PROVE Life(d)'
  BY DEF Lives
<1> USE DEF Lives, Life, Alive
<1>1. CASE \E t \in Tab, c \in Command : Submit(t, c)
  BY <1>1 DEF TypeOK, Submit, agentVars, fileVars
<1>2. CASE \E t \in Tab : ReplyArrives(t)
  BY <1>2 DEF ReplyArrives, serverVars, agentVars
<1>3. CASE \E t \in Tab : Reload(t)
  BY <1>3 DEF Reload, serverVars, agentVars
<1> QED BY <1>1, <1>2, <1>3 DEF Browser

LEMMA InvokingLives == ASSUME TypeOK, Lives, NEW c \in Command, Invoking(c) PROVE Lives'
<1> SUFFICES ASSUME NEW d \in Command PROVE Life(d)'
  BY DEF Lives
<1> USE DEF Lives, Life, Alive
<1>1. CASE Receive(c)
  BY <1>1 DEF TypeOK, Receive, agentVars
<1>2. CASE Launch(c)
  BY <1>2 DEF TypeOK, Launch
<1>3. CASE LaunchFails(c)
  BY <1>3 DEF TypeOK, LaunchFails, agentVars
<1>4. CASE TimeOut(c)
  BY <1>4 DEF TypeOK, TimeOut, RejectOnTimeout, Reject, Killed
<1>5. CASE Closed(c)
  BY <1>5 DEF TypeOK, Closed, Settle, Reject
<1> QED BY <1>1, <1>2, <1>3, <1>4, <1>5 DEF Invoking

\* The simulator replies to its own command only: a truncated file belongs to a
\* handler that still simulates.
WritersSimulate ==
    \A c \in Command : <<"simulator", c>> \in opened => handler[c] = "simulating"

LEMMA SimulatingLives ==
    ASSUME TypeOK, Lives, WritersSimulate, NEW c \in Command, Simulating(c)
    PROVE  Lives'
<1> SUFFICES ASSUME NEW d \in Command PROVE Life(d)'
  BY DEF Lives
<1>1. handler[c] = "simulating"
  BY DEF Simulating, SimulatorOpens, SimulatorWrites, SimulatorFails, Write, WritersSimulate
<1>2. SimulatedMode # "REAL"
  BY DEF SimulatedMode
<1> USE <1>1, <1>2 DEF Lives, Life, Alive
<1>3. CASE SimulatorOpens(c)
  BY <1>3 DEF SimulatorOpens, serverVars, agentVars
<1>4. CASE SimulatorWrites(c)
  BY <1>4 DEF TypeOK, SimulatorWrites, Reply, agentVars
<1>5. CASE SimulatorFails(c)
  BY <1>5 DEF TypeOK, SimulatorFails, Reply, agentVars
<1> QED BY <1>3, <1>4, <1>5 DEF Simulating

LEMMA WorkingLives == ASSUME TypeOK, Lives, NEW c \in Command, Working(c) PROVE Lives'
<1> SUFFICES ASSUME NEW d \in Command PROVE Life(d)'
  BY DEF Lives
<1> USE DEF Lives, Life, Alive
<1>1. CASE Relaunch(c)
  BY <1>1 DEF TypeOK, Relaunch, serverVars
<1>2. CASE AgentOpens(c)
  BY <1>2 DEF AgentOpens, serverVars, agentVars
<1>3. CASE AgentWrites(c)
  BY <1>3 DEF AgentWrites, serverVars, agentVars
<1>4. CASE AgentFails(c)
  BY <1>4 DEF TypeOK, AgentFails, serverVars
<1>5. ASSUME NEW r \in Result \ {"failed"}, NEW n \in Requests \cup {0}, AgentFinishes(c, r, n)
      PROVE  Life(d)'
  BY <1>5 DEF TypeOK, AgentFinishes, serverVars
<1> QED BY <1>1, <1>2, <1>3, <1>4, <1>5 DEF Working

LEMMA RestartLives ==
    ASSUME TypeOK, Lives, NEW survivors \in SUBSET Command, Restart(survivors)
    PROVE  Lives'
<1> SUFFICES ASSUME NEW d \in Command PROVE Life(d)'
  BY DEF Lives
<1>1. /\ handler'[d] = IF handler[d] \in {"none", "replied"} THEN handler[d] ELSE "dead"
      /\ agent'[d] = CASE d \in survivors -> "orphan"
                       [] agent[d] = "none" -> "none"
                       [] OTHER -> "gone"
      /\ d \in survivors => agent[d] \in Alive
      /\ UNCHANGED <<answer, result, timedOut>> /\ timer' = {}
  BY DEF Restart, TypeOK
<1> QED BY <1>1 DEF Lives, Life, Alive

-----------------------------------------------------------------------------
(* Who has the file open *)

LEMMA StepWriters ==
    ASSUME TypeOK, WritersSimulate, [Next]_vars
    PROVE  WritersSimulate'
<1> SUFFICES ASSUME NEW d \in Command, <<"simulator", d>> \in opened' PROVE handler'[d] = "simulating"
  BY DEF WritersSimulate
<1>1. CASE Browser
  BY <1>1 DEF WritersSimulate, TypeOK, Browser, Submit, ReplyArrives, Reload, serverVars, fileVars
<1>2. ASSUME NEW c \in Command, Invoking(c) PROVE handler'[d] = "simulating"
  BY <1>2 DEF WritersSimulate, TypeOK, Invoking, Receive, Launch, LaunchFails, TimeOut, RejectOnTimeout,
              Closed, Settle, Reject, fileVars
<1>3. ASSUME NEW c \in Command, Simulating(c) PROVE handler'[d] = "simulating"
  BY <1>3 DEF WritersSimulate, TypeOK, Simulating, SimulatorOpens, SimulatorWrites, SimulatorFails, Open, Write,
              Reply, serverVars
<1>4. ASSUME NEW c \in Command, Working(c) PROVE handler'[d] = "simulating"
  <2>1. handler' = handler
    BY <1>4 DEF Working, Relaunch, AgentOpens, AgentWrites, AgentFails, AgentFinishes, serverVars
  <2>2. <<"simulator", d>> \in opened
    BY <1>4 DEF Working, Relaunch, AgentOpens, AgentWrites, AgentFails, AgentFinishes, Open, Write,
                fileVars
  <2> QED BY <2>1, <2>2 DEF WritersSimulate
<1>5. ASSUME NEW survivors \in SUBSET Command, Restart(survivors) PROVE handler'[d] = "simulating"
  BY <1>5 DEF Restart
<1>6. CASE UNCHANGED vars
  BY <1>6 DEF WritersSimulate, vars, serverVars, fileVars
<1> QED BY <1>1, <1>2, <1>3, <1>4, <1>5, <1>6 DEF Next

-----------------------------------------------------------------------------
DesktopInv == TypeOK /\ Lives /\ WritersSimulate

LEMMA InitDesktop == Init => DesktopInv
BY InitType, InitLives DEF DesktopInv, WritersSimulate, Init

LEMMA StepDesktop == DesktopInv /\ [Next]_vars => DesktopInv'
<1> SUFFICES ASSUME DesktopInv, [Next]_vars PROVE DesktopInv'
  OBVIOUS
<1>1. TypeOK' /\ WritersSimulate'
  BY StepType, StepWriters DEF DesktopInv
<1>2. ASSUME Browser PROVE Lives'
  BY <1>2, BrowserLives DEF DesktopInv
<1>3. ASSUME NEW c \in Command, Invoking(c) \/ Simulating(c) \/ Working(c) PROVE Lives'
  BY <1>3, InvokingLives, SimulatingLives, WorkingLives DEF DesktopInv
<1>4. ASSUME NEW survivors \in SUBSET Command, Restart(survivors) PROVE Lives'
  BY <1>4, RestartLives DEF DesktopInv
<1>5. ASSUME UNCHANGED vars PROVE Lives'
  BY <1>5 DEF vars, serverVars, agentVars, DesktopInv, Lives, Life
<1>6. Lives'
  BY <1>2, <1>3, <1>4, <1>5 DEF Next
<1> QED BY <1>1, <1>6 DEF DesktopInv

LEMMA DesktopInvariant == Spec => []DesktopInv
BY InitDesktop, StepDesktop, PTL DEF Spec

\* Agents at work for nobody were given up at their timeout or lost with the
\* backend: the fallback never races an agent in any other way.
THEOREM OnlyTimeoutsLeaveStrays == Spec => []StraysAreGivenUp
<1>1. DesktopInv => StraysAreGivenUp
  BY DEF DesktopInv, Lives, Life, StraysAreGivenUp, Strays
<1> QED BY <1>1, DesktopInvariant, PTL

\* The first settlement of invokeGeminiAgent's promise stands: a command that
\* timed out is never answered as REAL, and a REAL answer has a response.
THEOREM FirstSettlementStands == Spec => []RealAnswersAreTimely
<1>1. DesktopInv => RealAnswersAreTimely
  BY DEF DesktopInv, Lives, Life, RealAnswersAreTimely
<1> QED BY <1>1, DesktopInvariant, PTL

-----------------------------------------------------------------------------
(* One tab that is not reloaded                                            *)

\* Handlers at work are those of the command the tab t waits for.
OneUser(t) ==
    /\ \A u \in Tab \ {t} : pending[u] = Nothing
    /\ \A c \in Command :
          handler[c] \in {"sent", "launching", "agent", "simulating"} => pending[t] = c

\* Only processes that can still write have the file open.
WritersWork == \A c \in Command : <<"agent", c>> \in opened => agent[c] \in {"worker", "orphan"}

\* While no agent is given up, one writer at a time has the file open, and it finds
\* it truncated.
OneWriter ==
    GivenUp = {} =>
        /\ page.by # "several"
        /\ opened # {} => page.by = "nobody"
        /\ \A v, w \in opened : v = w

\* What the tab t shows behind a simulated answer.
Shows(t) ==
    LET c == pending[t] IN
        c # Nothing /\ handler[c] = "replied" /\ answer[c] \in Simulated =>
            \/ page = [by |-> "simulator", of |-> c]
            \/ GivenUp # {} /\ page.by \in {"agent", "nobody", "several"}

TabInv(t) == DesktopInv /\ WritersWork /\ OneUser(t) /\ OneWriter /\ Shows(t)

\* A step of a session of the tab t.
TabStep(t) == [Next]_vars /\ reloads' = 0 /\ \A u \in Tab \ {t} : pending'[u] = Nothing

\* An agent that was given up stays so.
LEMMA GivenUpStays ==
    ASSUME DesktopInv, [Next]_vars
    PROVE  GivenUp \subseteq GivenUp'
<1> SUFFICES ASSUME NEW c \in Command, agent[c] # "none", c \in timedOut \/ handler[c] = "dead"
             PROVE  agent'[c] # "none" /\ (c \in timedOut' \/ handler'[c] = "dead")
  BY DEF GivenUp
<1> USE DEF DesktopInv, TypeOK
<1>1. CASE Browser
  BY <1>1 DEF Browser, Submit, ReplyArrives, Reload, serverVars, agentVars
<1>2. ASSUME NEW d \in Command, Invoking(d)
      PROVE  agent'[c] # "none" /\ (c \in timedOut' \/ handler'[c] = "dead")
  <2>1. handler[c] = "dead" => handler'[c] = "dead"
    BY <1>2 DEF Invoking, Receive, Launch, LaunchFails, TimeOut, RejectOnTimeout, Closed, Settle, Reject
  <2>2. agent'[c] # "none"
    BY <1>2 DEF Invoking, Receive, Launch, LaunchFails, TimeOut, Closed, Killed, agentVars
  <2>3. timedOut \subseteq timedOut'
    BY <1>2 DEF Invoking, Receive, Launch, LaunchFails, TimeOut, Closed
  <2> QED BY <2>1, <2>2, <2>3
<1>3. ASSUME NEW d \in Command, Simulating(d)
      PROVE  agent'[c] # "none" /\ (c \in timedOut' \/ handler'[c] = "dead")
  <2>1. handler[d] = "simulating"
    BY <1>3 DEF Simulating, SimulatorOpens, SimulatorWrites, SimulatorFails, Write, WritersSimulate
  <2>2. handler[c] = "dead" => handler'[c] = "dead"
    BY <1>3, <2>1 DEF Simulating, SimulatorOpens, SimulatorWrites, SimulatorFails, Reply, serverVars
  <2> QED BY <1>3, <2>2 DEF Simulating, SimulatorOpens, SimulatorWrites, SimulatorFails, agentVars
<1>4. ASSUME NEW d \in Command, Working(d)
      PROVE  agent'[c] # "none" /\ (c \in timedOut' \/ handler'[c] = "dead")
  BY <1>4 DEF Working, Relaunch, AgentOpens, AgentWrites, AgentFails, AgentFinishes, serverVars, agentVars
<1>5. ASSUME NEW survivors \in SUBSET Command, Restart(survivors)
      PROVE  agent'[c] # "none" /\ (c \in timedOut' \/ handler'[c] = "dead")
  BY <1>5 DEF Restart
<1>6. CASE UNCHANGED vars
  BY <1>6 DEF vars, serverVars, agentVars
<1> QED BY <1>1, <1>2, <1>3, <1>4, <1>5, <1>6 DEF Next

LEMMA StepWritersWork ==
    ASSUME DesktopInv, WritersWork, [Next]_vars
    PROVE  WritersWork'
<1> SUFFICES ASSUME NEW d \in Command, <<"agent", d>> \in opened'
             PROVE  agent'[d] \in {"worker", "orphan"}
  BY DEF WritersWork
<1> USE DEF DesktopInv, TypeOK
<1>1. CASE Browser
  BY <1>1 DEF WritersWork, Browser, Submit, ReplyArrives, Reload, agentVars, fileVars
<1>2. ASSUME NEW c \in Command, Invoking(c) PROVE agent'[d] \in {"worker", "orphan"}
  <2>1. opened' = opened
    BY <1>2 DEF Invoking, Receive, Launch, LaunchFails, TimeOut, Closed, fileVars
  <2>2. agent[d] \in {"worker", "orphan"}
    BY <2>1 DEF WritersWork
  <2>3. Launch(c) => agent[c] = "none"
    BY DEF Launch, Lives, Life
  <2> QED BY <1>2, <2>2, <2>3
          DEF Invoking, Receive, Launch, LaunchFails, TimeOut, Closed, Killed, agentVars
<1>3. ASSUME NEW c \in Command, Simulating(c) PROVE agent'[d] \in {"worker", "orphan"}
  BY <1>3 DEF WritersWork, Simulating, SimulatorOpens, SimulatorWrites, SimulatorFails, Open, Write, agentVars
<1>4. ASSUME NEW c \in Command, Working(c) PROVE agent'[d] \in {"worker", "orphan"}
  BY <1>4 DEF WritersWork, Working, Relaunch, AgentOpens, AgentWrites, AgentFails, AgentFinishes, Open,
              Write, agentVars, fileVars
<1>5. ASSUME NEW survivors \in SUBSET Command, Restart(survivors)
      PROVE  agent'[d] \in {"worker", "orphan"}
  <2>1. d \in survivors
    BY <1>5 DEF Restart
  <2>2. /\ agent' = [e \in Command |-> CASE e \in survivors -> "orphan"
                                          [] agent[e] = "none" -> "none"
                                          [] OTHER -> "gone"]
        /\ agent[d] # "none"
    BY <1>5, <2>1 DEF Restart, Alive
  <2>3. agent'[d] = IF d \in survivors THEN "orphan" ELSE "gone"
    BY <2>2
  <2> QED BY <2>1, <2>3
<1>6. CASE UNCHANGED vars
  BY <1>6 DEF WritersWork, vars, agentVars, fileVars
<1> QED BY <1>1, <1>2, <1>3, <1>4, <1>5, <1>6 DEF Next

\* A tab that waits for its reply sends nothing.
LEMMA StepOneUser ==
    ASSUME NEW t \in Tab, TabInv(t), TabStep(t)
    PROVE  OneUser(t)'
<1>1. \A u \in Tab \ {t} : pending'[u] = Nothing
  BY DEF TabStep
<1> SUFFICES ASSUME NEW d \in Command,
                    handler'[d] \in {"sent", "launching", "agent", "simulating"}
             PROVE  pending'[t] = d
  BY <1>1 DEF OneUser
<1>2. handler[d] \in {"sent", "launching", "agent", "simulating"} => pending[t] = d
  BY DEF TabInv, OneUser
<1>3. Nothing \notin Command
  BY DesktopAssumption
<1> USE DEF TabInv, DesktopInv, TypeOK
<1>4. CASE Browser
  <2>1. ASSUME NEW u \in Tab, NEW c \in Command, Submit(u, c)
        PROVE  pending'[t] = d
    <3>1. u = t /\ pending' = [pending EXCEPT ![t] = c] /\ pending[t] = Nothing
      BY <1>1, <1>3, <2>1 DEF Submit
    <3>2. handler' = [handler EXCEPT ![c] = "sent"]
      BY <2>1 DEF Submit
    <3>3. d = c
      BY <1>2, <1>3, <3>1, <3>2
    <3> QED BY <3>1, <3>3
  <2>2. ASSUME NEW u \in Tab, ReplyArrives(u)
        PROVE  pending'[t] = d
    BY <1>2, <2>2 DEF ReplyArrives, serverVars
  <2>3. ASSUME NEW u \in Tab, Reload(u)
        PROVE  FALSE
    BY <2>3 DEF Reload, TabStep
  <2> QED BY <1>4, <2>1, <2>2, <2>3 DEF Browser
<1>5. ASSUME NEW c \in Command, Invoking(c) PROVE pending'[t] = d
  BY <1>2, <1>5 DEF Invoking, Receive, Launch, LaunchFails, TimeOut, RejectOnTimeout, Closed, Settle,
              Reject, browserVars
<1>6. ASSUME NEW c \in Command, Simulating(c) PROVE pending'[t] = d
  BY <1>2, <1>6 DEF Simulating, SimulatorOpens, SimulatorWrites, SimulatorFails, Reply, browserVars, serverVars
<1>7. ASSUME NEW c \in Command, Working(c) PROVE pending'[t] = d
  BY <1>2, <1>7 DEF Working, Relaunch, AgentOpens, AgentWrites, AgentFails, AgentFinishes, browserVars,
              serverVars
<1>8. ASSUME NEW survivors \in SUBSET Command, Restart(survivors) PROVE pending'[t] = d
  BY <1>2, <1>8 DEF Restart, browserVars
<1>9. CASE UNCHANGED vars
  BY <1>2, <1>9 DEF vars, browserVars, serverVars
<1> QED BY <1>4, <1>5, <1>6, <1>7, <1>8, <1>9 DEF TabStep, Next

\* While no agent is given up, whoever has the file open works for the tab's command.
LEMMA WritersAreAwaited ==
    ASSUME NEW t \in Tab, TabInv(t), GivenUp = {}, NEW w \in opened
    PROVE  /\ pending[t] = w[2] /\ w[2] \in Command
           /\ \/ w = <<"agent", w[2]>> /\ handler[w[2]] = "agent"
              \/ w = <<"simulator", w[2]>> /\ handler[w[2]] = "simulating"
<1>1. w[2] \in Command /\ (w = <<"agent", w[2]>> \/ w = <<"simulator", w[2]>>)
  BY DEF TabInv, DesktopInv, TypeOK, Author
<1>2. CASE w = <<"agent", w[2]>>
  <2>1. agent[w[2]] \in Alive
    BY <1>1, <1>2 DEF TabInv, WritersWork, Alive
  <2>2. handler[w[2]] = "agent"
    BY <1>1, <2>1 DEF TabInv, DesktopInv, Lives, Life, GivenUp, Alive
  <2> QED BY <1>1, <1>2, <2>2 DEF TabInv, OneUser
<1>3. CASE w = <<"simulator", w[2]>>
  <2>1. handler[w[2]] = "simulating"
    BY <1>1, <1>3 DEF TabInv, DesktopInv, WritersSimulate
  <2> QED BY <1>1, <1>3, <2>1 DEF TabInv, OneUser
<1> QED BY <1>1, <1>2, <1>3

\* So a writer that opens the file is alone, and one that writes finds it truncated.
LEMMA OpenAlone ==
    ASSUME NEW t \in Tab, TabInv(t), NEW a \in Author, NEW c \in Command, Open(<<a, c>>),
           <<a, c>> \notin opened, GivenUp' = {}, GivenUp = {},
           handler[c] = IF a = "agent" THEN "agent" ELSE "simulating"
    PROVE  OneWriter'
<1>1. opened = {}
  <2> SUFFICES ASSUME NEW w \in opened PROVE FALSE
    OBVIOUS
  <2>1. pending[t] = c
    BY DEF TabInv, OneUser
  <2> QED BY <2>1, WritersAreAwaited DEF Author
<1> QED BY <1>1 DEF Open, OneWriter

LEMMA WriteAlone ==
    ASSUME NEW t \in Tab, TabInv(t), NEW a \in Author, NEW c \in Command, Write(<<a, c>>),
           GivenUp' = {}, GivenUp = {}
    PROVE  OneWriter' /\ page' = [by |-> a, of |-> c]
<1>1. page.by = "nobody" /\ opened = {<<a, c>>}
  BY DEF TabInv, OneWriter, Write
<1>2. opened' = {} /\ page' = [by |-> a, of |-> c]
  BY <1>1 DEF Write
<1> QED BY <1>2 DEF OneWriter, Author

LEMMA StepOneWriter ==
    ASSUME NEW t \in Tab, TabInv(t), TabStep(t)
    PROVE  OneWriter'
<1> SUFFICES ASSUME GivenUp' = {} PROVE OneWriter'
  BY DEF OneWriter
<1>1. GivenUp = {}
  BY GivenUpStays DEF TabInv, TabStep
<1>2. ASSUME page' = page, opened' \subseteq opened
      PROVE  OneWriter'
  BY <1>1, <1>2 DEF TabInv, OneWriter
<1> USE DEF TabInv, DesktopInv, TypeOK
<1>3. CASE Browser
  BY <1>2, <1>3 DEF Browser, Submit, ReplyArrives, Reload, fileVars
<1>4. ASSUME NEW c \in Command, Invoking(c) PROVE OneWriter'
  BY <1>2, <1>4 DEF Invoking, Receive, Launch, LaunchFails, TimeOut, Closed, fileVars
<1>5. ASSUME NEW c \in Command, Simulating(c) PROVE OneWriter'
  <2>1. CASE SimulatorOpens(c)
    BY <1>1, <2>1, OpenAlone DEF SimulatorOpens, Author
  <2>2. CASE SimulatorWrites(c)
    BY <1>1, <2>2, WriteAlone DEF SimulatorWrites, Author
  <2>3. CASE SimulatorFails(c)
    BY <1>2, <2>3 DEF SimulatorFails
  <2> QED BY <1>5, <2>1, <2>2, <2>3 DEF Simulating
<1>6. ASSUME NEW c \in Command, Working(c) PROVE OneWriter'
  <2>1. CASE AgentOpens(c)
    <3>1. handler[c] = "agent"
      BY <1>1, <2>1 DEF AgentOpens, Lives, Life, GivenUp, Alive
    <3> QED BY <1>1, <2>1, <3>1, OpenAlone DEF AgentOpens, Author
  <2>2. CASE AgentWrites(c)
    BY <1>1, <2>2, WriteAlone DEF AgentWrites, Author
  <2>3. CASE ~AgentOpens(c) /\ ~AgentWrites(c)
    BY <1>2, <1>6, <2>3 DEF Working, Relaunch, AgentFails, AgentFinishes, fileVars
  <2> QED BY <2>1, <2>2, <2>3
<1>7. ASSUME NEW survivors \in SUBSET Command, Restart(survivors) PROVE OneWriter'
  BY <1>2, <1>7 DEF Restart
<1>8. CASE UNCHANGED vars
  BY <1>2, <1>8 DEF vars, fileVars
<1> QED BY <1>3, <1>4, <1>5, <1>6, <1>7, <1>8 DEF TabStep, Next

\* Behind a simulated answer only an agent that was given up touches the page.
LEMMA StepShows ==
    ASSUME NEW t \in Tab, TabInv(t), TabStep(t)
    PROVE  Shows(t)'
<1> DEFINE d == pending'[t]
<1> SUFFICES ASSUME d # Nothing, handler'[d] = "replied", answer'[d] \in Simulated
             PROVE  \/ page' = [by |-> "simulator", of |-> d]
                    \/ GivenUp' # {} /\ page'.by \in {"agent", "nobody", "several"}
  BY DEF Shows
<1> DEFINE Goal == \/ page' = [by |-> "simulator", of |-> d]
                   \/ GivenUp' # {} /\ page'.by \in {"agent", "nobody", "several"}
<1>1. GivenUp \subseteq GivenUp'
  BY GivenUpStays DEF TabInv, TabStep
<1>2. ASSUME page' = page, d = pending[t], handler[d] = "replied", answer[d] \in Simulated
      PROVE  Goal
  BY <1>1, <1>2 DEF TabInv, Shows
<1>3. ASSUME d = pending[t], handler[d] = "replied", NEW c \in Command,
             agent[c] \in {"worker", "orphan"}
      PROVE  GivenUp' # {}
  <2>1. handler[c] # "agent"
    BY <1>3 DEF TabInv, OneUser
  <2>2. c \in GivenUp
    BY <1>3, <2>1 DEF TabInv, DesktopInv, Lives, Life, GivenUp, Alive
  <2> QED BY <1>1, <2>2
<1>4. d \in Command
  BY StepType DEF TabInv, TabStep, DesktopInv, TypeOK
<1> HIDE DEF d
<1> SUFFICES Goal
  OBVIOUS
<1> USE DEF TabInv, DesktopInv, TypeOK
<1>5. CASE Browser
  <2>1. ASSUME NEW u \in Tab, NEW c \in Command, Submit(u, c)
        PROVE  Goal
    <3>1. handler' = [handler EXCEPT ![c] = "sent"] /\ UNCHANGED <<page, answer>>
      BY <2>1 DEF Submit, fileVars
    <3>2. d # c /\ handler[d] = "replied"
      BY <1>4, <3>1
    <3>3. pending'[t] = pending[t]
      BY <2>1, <3>2 DEF Submit, d
    <3> QED BY <1>2, <3>1, <3>2, <3>3 DEF d
  <2>2. ASSUME NEW u \in Tab, ReplyArrives(u)
        PROVE  Goal
    <3>1. pending'[t] = pending[t]
      BY <2>2 DEF ReplyArrives, d
    <3> QED BY <1>2, <2>2, <3>1 DEF ReplyArrives, d, serverVars, fileVars
  <2>3. ASSUME NEW u \in Tab, Reload(u)
        PROVE  FALSE
    BY <2>3 DEF Reload, TabStep
  <2> QED BY <1>5, <2>1, <2>2, <2>3 DEF Browser
<1>6. ASSUME NEW c \in Command, Invoking(c) PROVE Goal
  <2>1. page' = page /\ d = pending[t]
    BY <1>6 DEF Invoking, Receive, Launch, LaunchFails, TimeOut, Closed, fileVars, browserVars, d
  <2>2. handler[d] = "replied" /\ answer[d] = answer'[d]
    BY <1>4, <1>6 DEF Invoking, Receive, Launch, LaunchFails, TimeOut, RejectOnTimeout, Closed, Settle,
                 Reject, Simulated
  <2> QED BY <1>2, <2>1, <2>2
<1>7. ASSUME NEW c \in Command, Simulating(c) PROVE Goal
  <2>0. handler[c] = "simulating" /\ pending[t] = c
    BY <1>7 DEF Simulating, SimulatorOpens, SimulatorWrites, SimulatorFails, Write, WritersSimulate, OneUser
  <2>1. d = c
    BY <1>7, <2>0 DEF Simulating, SimulatorOpens, SimulatorWrites, SimulatorFails, browserVars, d
  <2>2. CASE SimulatorOpens(c)
    BY <2>0, <2>1, <2>2 DEF SimulatorOpens, serverVars
  <2>3. CASE SimulatorFails(c)
    BY <2>1, <2>3 DEF SimulatorFails, Reply, Simulated
  <2>4. CASE SimulatorWrites(c)
    <3>1. Write(<<"simulator", c>>)
      BY <2>4 DEF SimulatorWrites
    <3>2. CASE GivenUp' = {}
      BY <1>1, <2>1, <3>1, <3>2, WriteAlone DEF Author
    <3>3. CASE GivenUp' # {}
      BY <2>1, <3>1, <3>3 DEF Write
    <3> QED BY <3>2, <3>3
  <2> QED BY <1>7, <2>2, <2>3, <2>4 DEF Simulating
<1>8. ASSUME NEW c \in Command, Working(c) PROVE Goal
  <2>1. d = pending[t] /\ handler[d] = "replied" /\ answer[d] = answer'[d]
    BY <1>8 DEF Working, Relaunch, AgentOpens, AgentWrites, AgentFails, AgentFinishes, browserVars,
                serverVars, d
  <2>2. CASE AgentOpens(c)
    <3>1. GivenUp' # {}
      BY <1>3, <2>1, <2>2 DEF AgentOpens
    <3> QED BY <2>2, <3>1 DEF AgentOpens, Open
  <2>3. CASE AgentWrites(c)
    <3>1. GivenUp' # {}
      BY <1>3, <2>1, <2>3 DEF AgentWrites
    <3> QED BY <2>3, <3>1 DEF AgentWrites, Write
  <2>4. CASE ~AgentOpens(c) /\ ~AgentWrites(c)
    <3>1. page' = page
      BY <1>8, <2>4 DEF Working, Relaunch, AgentFails, AgentFinishes, fileVars
    <3> QED BY <1>2, <2>1, <3>1
  <2> QED BY <2>2, <2>3, <2>4
<1>9. ASSUME NEW survivors \in SUBSET Command, Restart(survivors) PROVE Goal
  <2>1. handler[d] = "replied"
    BY <1>4, <1>9 DEF Restart
  <2> QED BY <1>2, <1>9, <2>1 DEF Restart, browserVars, d
<1>10. CASE UNCHANGED vars
  BY <1>2, <1>10 DEF vars, browserVars, serverVars, fileVars, d
<1> QED BY <1>5, <1>6, <1>7, <1>8, <1>9, <1>10 DEF TabStep, Next

\* tabs tells which tab is used, as long as not all are.
SessionInv == DesktopInv /\ (tabs # Tab => \E t \in Tab : tabs = {t} /\ TabInv(t))

LEMMA InitSession == TabsInit => SessionInv
<1> SUFFICES ASSUME TabsInit PROVE SessionInv
  OBVIOUS
<1>1. DesktopInv /\ Init
  BY InitDesktop DEF TabsInit
<1>2. ASSUME NEW t \in Tab
      PROVE  TabInv(t)
  BY <1>1 DEF TabInv, WritersWork, OneUser, OneWriter, Shows, Init
<1> QED BY <1>1, <1>2 DEF SessionInv, TabsInit

LEMMA StepSession == SessionInv /\ [TabsNext]_<<vars, tabs>> => SessionInv'
<1> SUFFICES ASSUME SessionInv, [TabsNext]_<<vars, tabs>> PROVE SessionInv'
  OBVIOUS
<1>1. [Next]_vars /\ tabs' = tabs
  BY DEF TabsNext
<1>2. DesktopInv'
  BY <1>1, StepDesktop DEF SessionInv
<1>3. ASSUME NEW t \in Tab, tabs = {t}, TabInv(t), TabsNext, tabs # Tab
      PROVE  TabInv(t)'
  <2>1. TabStep(t)
    BY <1>1, <1>3 DEF TabsNext, TabStep
  <2>2. WritersWork'
    BY <1>1, <1>3, StepWritersWork DEF TabInv
  <2> QED BY <1>2, <1>3, <2>1, <2>2, StepOneUser, StepOneWriter, StepShows DEF TabInv
<1>4. ASSUME NEW t \in Tab, TabInv(t), UNCHANGED <<vars, tabs>>
      PROVE  TabInv(t)'
  BY <1>2, <1>4 DEF TabInv, WritersWork, OneUser, OneWriter, Shows, GivenUp, vars, browserVars, serverVars,
                    agentVars, fileVars
<1> QED BY <1>1, <1>2, <1>3, <1>4 DEF SessionInv

\* In a session of one tab that is not reloaded only an agent that timed out or
\* outlived its backend can garble GeneratedContent.tsx, and a simulated answer finds
\* the page that was written for it unless such an agent has had its hands on it.
THEOREM OneTabKeepsItsPage == TabsSpec => []PageIsKept
<1>1. SessionInv => PageIsKept
  <2> SUFFICES ASSUME SessionInv, tabs # Tab PROVE OnlyStraysGarble /\ SimulatedAnswersShow
    BY DEF PageIsKept
  <2>1. PICK t \in Tab : TabInv(t)
    BY DEF SessionInv
  <2>2. OnlyStraysGarble
    BY <2>1 DEF TabInv, OneWriter, OnlyStraysGarble
  <2>3. SimulatedAnswersShow
    BY <2>1 DEF TabInv, OneUser, Shows, SimulatedAnswersShow
  <2> QED BY <2>2, <2>3
<1> QED BY <1>1, InitSession, StepSession, PTL DEF TabsSpec

-----------------------------------------------------------------------------
(* Totals: what MapThenSumSet is of a finite set *)

\* Induction over a set of numbers.
LEMMA Induction == ASSUME NEW P, 0 \in P, \A n \in Nat : n \in P => n + 1 \in P PROVE Nat \subseteq P
<1> SUFFICES ASSUME Nat \ P # {} PROVE FALSE
  OBVIOUS
<1>1. PICK R : R = {p \in Nat \X Nat : p[1] < p[2]}
  OBVIOUS
<1>2. IsWellFoundedOn(R, Nat)
  BY <1>1, NatLessThanWellFounded DEF OpToRel
<1>3. PICK m \in Nat \ P : \A n \in Nat \ P : <<n, m>> \notin R
  <2>1. Nat \ P \subseteq Nat
    OBVIOUS
  <2>2. IsWellFoundedOn(R, Nat \ P)
    BY <1>2, <2>1, IsWellFoundedOnSubset
  <2> QED BY <1>2, <2>1, WFMin
<1>4. m # 0 /\ m - 1 \in Nat /\ m - 1 < m /\ m = (m - 1) + 1
  BY <1>3
<1>5. m - 1 \in P
  BY <1>1, <1>3, <1>4
<1> QED BY <1>3, <1>4, <1>5

\* The sum of f over S
Total(f, S) == MapThenSumSet(LAMBDA c : f[c], S)
Chosen(s) == CHOOSE x \in s : TRUE
\* One step of the fold, with the sums of smaller sets in g
Summed(f, g, s) == IF s = {} THEN 0 ELSE f[Chosen(s)] + g[s \ {Chosen(s)}]
Sums(f, S) == CHOOSE g : g = [s \in SUBSET S |-> Summed(f, g, s)]
LEMMA Unfold == ASSUME NEW f, NEW S PROVE Total(f, S) = Sums(f, S)[S]
BY DEF Total, Sums, Summed, Chosen, MapThenSumSet, MapThenFoldSet

LEMMA ChosenIn == ASSUME NEW s, s # {} PROVE Chosen(s) \in s
BY DEF Chosen

LEMMA Smaller == ASSUME NEW S, IsFiniteSet(S), NEW x \in S
  PROVE /\ IsFiniteSet(S \ {x}) /\ Cardinality(S) \in Nat /\ Cardinality(S \ {x}) \in Nat
        /\ Cardinality(S) = Cardinality(S \ {x}) + 1
BY FS_RemoveElement, FS_CardinalityType

\* The parts of S with at most n members
Upto(S, n) == {s \in SUBSET S : Cardinality(s) <= n}

\* The recursive function that MapThenSumSet folds with exists.
LEMMA SumsExist == ASSUME NEW f, NEW S, IsFiniteSet(S) PROVE \E g : g = [s \in SUBSET S |-> Summed(f, g, s)]
<1> DEFINE P == {n \in Nat : \E g : g = [s \in Upto(S, n) |-> Summed(f, g, s)]}
<1>0. ASSUME NEW s \in SUBSET S PROVE IsFiniteSet(s) /\ Cardinality(s) \in Nat
  BY FS_Subset, FS_CardinalityType
<1>1. 0 \in P
  <2>1. PICK g : g = [s \in Upto(S, 0) |-> 0]
    OBVIOUS
  <2>2. ASSUME NEW s \in Upto(S, 0) PROVE s = {}
    BY <1>0, FS_EmptySet DEF Upto
  <2>3. g = [s \in Upto(S, 0) |-> Summed(f, g, s)]
    BY <2>1, <2>2 DEF Summed
  <2> QED BY <2>3
<1>2. ASSUME NEW n \in Nat, n \in P PROVE n + 1 \in P
  <2>1. PICK g : g = [s \in Upto(S, n) |-> Summed(f, g, s)]
    BY <1>2
  <2>2. PICK h : h = [s \in Upto(S, n + 1) |-> Summed(f, g, s)]
    OBVIOUS
  <2>3. ASSUME NEW s \in Upto(S, n + 1) PROVE Summed(f, g, s) = Summed(f, h, s)
    <3>1. CASE s = {}
      BY <3>1 DEF Summed
    <3>2. CASE s # {}
      <4>1. PICK t : t = s \ {Chosen(s)}
        OBVIOUS
      <4>2. Cardinality(t) <= n
        BY <1>0, <2>3, <3>2, <4>1, ChosenIn, Smaller DEF Upto
      <4>3. t \in Upto(S, n) /\ t \in Upto(S, n + 1)
        BY <1>0, <2>3, <4>1, <4>2 DEF Upto
      <4>4. g[t] = h[t]
        BY <2>1, <2>2, <4>3
      <4> QED BY <4>1, <4>4 DEF Summed
    <3> QED BY <3>1, <3>2
  <2>4. h = [s \in Upto(S, n + 1) |-> Summed(f, h, s)]
    BY <2>2, <2>3
  <2> QED BY <2>4
<1>3. Nat \subseteq P
  <2> HIDE DEF P
  <2> QED BY <1>1, <1>2, Induction
<1>4. Cardinality(S) \in P
  BY <1>0, <1>3
<1>5. Upto(S, Cardinality(S)) = SUBSET S
  BY FS_Subset DEF Upto
<1> QED BY <1>4, <1>5

LEMMA SumsStep ==
    ASSUME NEW f, NEW S, IsFiniteSet(S), NEW s \in SUBSET S
    PROVE  Sums(f, S)[s] = Summed(f, Sums(f, S), s)
<1>1. Sums(f, S) = [t \in SUBSET S |-> Summed(f, Sums(f, S), t)]
  BY SumsExist DEF Sums
<1> QED BY <1>1

\* A part of a set has the same total in the larger set.
LEMMA SumsOfPart == ASSUME NEW f, NEW S, IsFiniteSet(S), NEW T \in SUBSET S PROVE Sums(f, S)[T] = Total(f, T)
<1> DEFINE P == {n \in Nat : \A s \in SUBSET T : Cardinality(s) = n => Sums(f, S)[s] = Sums(f, T)[s]}
<1>0. IsFiniteSet(T) /\ \A s \in SUBSET T : IsFiniteSet(s) /\ Cardinality(s) \in Nat
  BY FS_Subset, FS_CardinalityType
<1>1. 0 \in P
  <2> SUFFICES ASSUME NEW s \in SUBSET T, Cardinality(s) = 0 PROVE Sums(f, S)[s] = Sums(f, T)[s]
    OBVIOUS
  <2>1. s = {} /\ s \in SUBSET S
    BY <1>0, FS_EmptySet
  <2> QED BY <1>0, <2>1, SumsStep DEF Summed
<1>2. ASSUME NEW n \in Nat, n \in P PROVE n + 1 \in P
  <2> SUFFICES ASSUME NEW s \in SUBSET T, Cardinality(s) = n + 1 PROVE Sums(f, S)[s] = Sums(f, T)[s]
    OBVIOUS
  <2>0. s # {}
    BY FS_EmptySet
  <2>1. s \in SUBSET S
    BY Zenon
  <2>2. PICK t : t = s \ {Chosen(s)}
    OBVIOUS
  <2>3. t \in SUBSET T /\ Cardinality(t) = n
    BY <1>0, <2>0, <2>2, ChosenIn, Smaller
  <2>4. Sums(f, S)[t] = Sums(f, T)[t]
    BY <1>2, <2>3
  <2>5. Summed(f, Sums(f, S), s) = Summed(f, Sums(f, T), s)
    BY <2>2, <2>4 DEF Summed
  <2> QED BY <1>0, <2>1, <2>5, SumsStep
<1>3. Nat \subseteq P
  <2> HIDE DEF P
  <2> QED BY <1>1, <1>2, Induction
<1> QED BY <1>0, <1>3, Unfold

LEMMA TotalStep ==
    ASSUME NEW f, NEW S, IsFiniteSet(S), S # {}
    PROVE  Total(f, S) = f[Chosen(S)] + Total(f, S \ {Chosen(S)})
BY Unfold, SumsStep, SumsOfPart DEF Summed

LEMMA TotalOfNothing == ASSUME NEW f PROVE Total(f, {}) = 0
BY Unfold, SumsStep, FS_EmptySet DEF Summed

LEMMA TotalType == ASSUME NEW f, NEW S, IsFiniteSet(S), \A c \in S : f[c] \in Nat PROVE Total(f, S) \in Nat
<1> DEFINE P == {n \in Nat : \A s \in SUBSET S : Cardinality(s) = n => Total(f, s) \in Nat}
<1>0. \A s \in SUBSET S : IsFiniteSet(s) /\ Cardinality(s) \in Nat
  BY FS_Subset, FS_CardinalityType
<1>1. 0 \in P
  <2> SUFFICES ASSUME NEW s \in SUBSET S, Cardinality(s) = 0 PROVE Total(f, s) \in Nat
    OBVIOUS
  <2> QED BY <1>0, TotalOfNothing, FS_EmptySet
<1>2. ASSUME NEW n \in Nat, n \in P PROVE n + 1 \in P
  <2> SUFFICES ASSUME NEW s \in SUBSET S, Cardinality(s) = n + 1 PROVE Total(f, s) \in Nat
    OBVIOUS
  <2>1. s # {}
    BY FS_EmptySet
  <2>2. PICK t : t = s \ {Chosen(s)}
    OBVIOUS
  <2>3. t \in SUBSET S /\ Cardinality(t) = n /\ Chosen(s) \in S
    BY <1>0, <2>1, <2>2, ChosenIn, Smaller
  <2>4. Total(f, t) \in Nat /\ f[Chosen(s)] \in Nat
    BY <1>2, <2>3
  <2>5. Total(f, s) = f[Chosen(s)] + Total(f, t)
    BY <1>0, <2>1, <2>2, TotalStep
  <2> QED BY <2>4, <2>5
<1>3. Nat \subseteq P
  <2> HIDE DEF P
  <2> QED BY <1>1, <1>2, Induction
<1> QED BY <1>0, <1>3

\* The total grows by what any of its members adds.
LEMMA TotalOf == ASSUME NEW f, NEW S, IsFiniteSet(S), \A c \in S : f[c] \in Nat, NEW c \in S
  PROVE Total(f, S) = f[c] + Total(f, S \ {c})
<1> DEFINE P == {n \in Nat : \A s \in SUBSET S :
                                Cardinality(s) = n => \A d \in s : Total(f, s) = f[d] + Total(f, s \ {d})}
<1>0. \A s \in SUBSET S : IsFiniteSet(s) /\ Cardinality(s) \in Nat
  BY FS_Subset, FS_CardinalityType
<1>t. \A s \in SUBSET S : Total(f, s) \in Nat
  BY <1>0, TotalType
<1>1. 0 \in P
  <2> SUFFICES ASSUME NEW s \in SUBSET S, Cardinality(s) = 0 PROVE s = {}
    OBVIOUS
  <2> QED BY <1>0, FS_EmptySet
<1>2. ASSUME NEW n \in Nat, n \in P PROVE n + 1 \in P
  <2> SUFFICES ASSUME NEW s \in SUBSET S, Cardinality(s) = n + 1, NEW d \in s
               PROVE  Total(f, s) = f[d] + Total(f, s \ {d})
    OBVIOUS
  <2>1. PICK x : x = Chosen(s)
    OBVIOUS
  <2>2. x \in s /\ Total(f, s) = f[x] + Total(f, s \ {x})
    BY <1>0, <2>1, ChosenIn, TotalStep
  <2>3. CASE x = d
    BY <2>2, <2>3
  <2>4. CASE x # d
    <3>1. Cardinality(s \ {x}) = n /\ Cardinality(s \ {d}) = n
      BY <1>0, <2>2, Smaller
    <3>2. Total(f, s \ {x}) = f[d] + Total(f, (s \ {x}) \ {d})
      BY <1>2, <2>4, <3>1
    <3>3. Total(f, s \ {d}) = f[x] + Total(f, (s \ {d}) \ {x})
      BY <1>2, <2>2, <2>4, <3>1
    <3>4. (s \ {x}) \ {d} = (s \ {d}) \ {x}
      OBVIOUS
    <3>5. PICK u \in Nat : u = Total(f, (s \ {d}) \ {x})
      BY <1>t
    <3>6. f[x] \in Nat /\ f[d] \in Nat
      BY <2>2
    <3> QED BY <2>2, <3>2, <3>3, <3>4, <3>5, <3>6
  <2> QED BY <2>3, <2>4
<1>3. Nat \subseteq P
  <2> HIDE DEF P
  <2> QED BY <1>1, <1>2, Induction
<1>4. Cardinality(S) \in P
  BY <1>0, <1>3
<1> QED BY <1>4

\* It depends on its members only.
LEMMA TotalSame ==
    ASSUME NEW f, NEW g, NEW S, IsFiniteSet(S), \A c \in S : f[c] = g[c]
    PROVE  Total(f, S) = Total(g, S)
<1> DEFINE P == {n \in Nat : \A s \in SUBSET S : Cardinality(s) = n => Total(f, s) = Total(g, s)}
<1>0. \A s \in SUBSET S : IsFiniteSet(s) /\ Cardinality(s) \in Nat
  BY FS_Subset, FS_CardinalityType
<1>1. 0 \in P
  <2> SUFFICES ASSUME NEW s \in SUBSET S, Cardinality(s) = 0 PROVE Total(f, s) = Total(g, s)
    OBVIOUS
  <2> QED BY <1>0, TotalOfNothing, FS_EmptySet
<1>2. ASSUME NEW n \in Nat, n \in P PROVE n + 1 \in P
  <2> SUFFICES ASSUME NEW s \in SUBSET S, Cardinality(s) = n + 1 PROVE Total(f, s) = Total(g, s)
    OBVIOUS
  <2>1. s # {}
    BY FS_EmptySet
  <2>2. PICK t : t = s \ {Chosen(s)}
    OBVIOUS
  <2>3. t \in SUBSET S /\ Cardinality(t) = n /\ Chosen(s) \in S
    BY <1>0, <2>1, <2>2, ChosenIn, Smaller
  <2>4. Total(f, t) = Total(g, t) /\ f[Chosen(s)] = g[Chosen(s)]
    BY <1>2, <2>3
  <2> QED BY <1>0, <2>1, <2>2, <2>4, TotalStep
<1>3. Nat \subseteq P
  <2> HIDE DEF P
  <2> QED BY <1>1, <1>2, Induction
<1> QED BY <1>0, <1>3

-----------------------------------------------------------------------------
(* The totals of aggregateUsage *)

Counted == {c \in Command : agent[c] = "closed" /\ requests[c] # 0}

\* Only runs that end by themselves report requests; every run that reports some and
\* whose close event this backend got is in the totals.
UsageInv ==
    /\ \A c \in Command : result[c] = "failed" => requests[c] = 0
    /\ usage.sessions = Cardinality(Counted)
    /\ usage.requests = Total(requests, Counted)

LEMMA UsageIs == UsageInv => UsageAddsUp
BY DEF UsageInv, UsageAddsUp, Counted, Total

LEMMA CountedIsFinite == IsFiniteSet(Counted)
BY DesktopAssumption, FS_Subset DEF Counted, DesktopAssumption

LEMMA RequestsAreNat == ASSUME TypeOK PROVE \A c \in Command : requests[c] \in Nat
<1> SUFFICES ASSUME NEW c \in Command PROVE requests[c] \in Nat
  OBVIOUS
<1>1. requests[c] \in Requests \cup {0}
  BY DEF TypeOK
<1>2. Requests \subseteq Nat
  BY DesktopAssumption DEF DesktopAssumption
<1>3. 0 \in Nat
  OBVIOUS
<1> QED BY <1>1, <1>2, <1>3, Zenon

LEMMA InitUsage == Init => UsageInv
<1> SUFFICES ASSUME Init PROVE UsageInv
  OBVIOUS
<1>1. Counted = {}
  BY DEF Counted, Init
<1> QED BY <1>1, TotalOfNothing, FS_EmptySet DEF UsageInv, Init, NoUsage

\* A step that closes no run, and reports for none that is closed, leaves the totals.
LEMMA UsageStays ==
    ASSUME UsageInv, UNCHANGED usage,
           \A c \in Command : result'[c] = "failed" => requests'[c] = 0,
           \A c \in Command : agent'[c] = "closed" <=> agent[c] = "closed",
           \A c \in Command : agent[c] = "closed" => requests'[c] = requests[c]
    PROVE  UsageInv'
<1>1. Counted' = Counted
  BY DEF Counted
<1>2. \A c \in Counted : requests'[c] = requests[c]
  BY DEF Counted
<1>3. Total(requests', Counted) = Total(requests, Counted)
  BY <1>2, CountedIsFinite, TotalSame
<1> QED BY <1>1, <1>3 DEF UsageInv

\* The close event counts a run once.
LEMMA ClosedUsage == ASSUME TypeOK, UsageInv, NEW c \in Command, Closed(c) PROVE UsageInv'
<1>1. /\ agent[c] = "exited" /\ agent' = [agent EXCEPT ![c] = "closed"]
      /\ UNCHANGED <<result, requests>>
      /\ usage' = IF result[c] = "failed" THEN usage ELSE RecordUsage(c)
  BY DEF Closed
<1>2. CASE requests[c] = 0
  <2>1. Counted' = Counted
    BY <1>1, <1>2 DEF Counted, TypeOK
  <2>2. usage' = usage
    BY <1>1, <1>2 DEF RecordUsage
  <2> QED BY <1>1, <2>1, <2>2 DEF UsageInv
<1>3. CASE requests[c] # 0
  <2>1. Counted' = Counted \cup {c} /\ c \notin Counted
    BY <1>1, <1>3 DEF Counted, TypeOK
  <2>2. usage' = [sessions |-> usage.sessions + 1, requests |-> usage.requests + requests[c]]
    BY <1>1, <1>3 DEF RecordUsage, UsageInv
  <2>3. Cardinality(Counted') = Cardinality(Counted) + 1
    BY <2>1, CountedIsFinite, FS_AddElement
  <2>4. IsFiniteSet(Counted') /\ \A d \in Counted' : requests[d] \in Nat
    <3>1. Counted' \subseteq Command
      BY DEF Counted
    <3> QED BY <2>1, <3>1, CountedIsFinite, FS_AddElement, RequestsAreNat
  <2>5. Total(requests, Counted') = requests[c] + Total(requests, Counted' \ {c})
    BY <2>1, <2>4, TotalOf
  <2>6. Counted' \ {c} = Counted
    BY <2>1
  <2>7. requests[c] \in Nat /\ Total(requests, Counted) \in Nat
    BY RequestsAreNat, CountedIsFinite, TotalType DEF Counted
  <2>8. Total(requests', Counted') = Total(requests, Counted) + requests[c]
    <3>1. requests' = requests
      BY <1>1
    <3>2. Total(requests, Counted') = requests[c] + Total(requests, Counted)
      BY <2>5, <2>6
    <3>3. Total(requests, Counted') = Total(requests, Counted) + requests[c]
      BY <2>7, <3>2
    <3> QED BY <3>1, <3>3
  <2> QED BY <1>1, <2>2, <2>3, <2>8 DEF UsageInv
<1> QED BY <1>2, <1>3

\* What the backend counted is gone with it.
LEMMA RestartUsage ==
    ASSUME UsageInv, NEW survivors \in SUBSET Command, Restart(survivors)
    PROVE  UsageInv'
<1>1. Counted' = {}
  BY DEF Counted, Restart
<1>2. usage' = NoUsage /\ UNCHANGED <<result, requests>>
  BY DEF Restart
<1> QED BY <1>1, <1>2, TotalOfNothing, FS_EmptySet DEF UsageInv, NoUsage

LEMMA StepUsage == DesktopInv /\ UsageInv /\ [Next]_vars => UsageInv'
<1> SUFFICES ASSUME DesktopInv, UsageInv, [Next]_vars PROVE UsageInv'
  OBVIOUS
<1> USE DEF DesktopInv
<1>1. CASE Browser
  <2>1. UNCHANGED <<usage, agent, result, requests>>
    BY <1>1 DEF Browser, Submit, ReplyArrives, Reload, serverVars, agentVars
  <2> QED BY <2>1, UsageStays DEF UsageInv
<1>2. ASSUME NEW c \in Command, Invoking(c), ~Closed(c) PROVE UsageInv'
  <2>1. UNCHANGED <<usage, result, requests>>
    BY <1>2 DEF Invoking, Receive, Launch, LaunchFails, TimeOut, agentVars
  <2>2. \A d \in Command : agent'[d] = "closed" <=> agent[d] = "closed"
    BY <1>2 DEF Invoking, Receive, Launch, LaunchFails, TimeOut, agentVars, Killed, Lives, Life, TypeOK
  <2> QED BY <2>1, <2>2, UsageStays DEF UsageInv
<1>3. ASSUME NEW c \in Command, Simulating(c) PROVE UsageInv'
  <2>1. UNCHANGED <<usage, agent, result, requests>>
    BY <1>3 DEF Simulating, SimulatorOpens, SimulatorWrites, SimulatorFails, Reply, serverVars, agentVars
  <2> QED BY <2>1, UsageStays DEF UsageInv
<1>4. ASSUME NEW c \in Command, Relaunch(c) \/ AgentOpens(c) \/ AgentWrites(c) \/ AgentFails(c)
      PROVE  UsageInv'
  <2>1. UNCHANGED <<usage, result, requests>>
    BY <1>4 DEF Relaunch, AgentOpens, AgentWrites, AgentFails, serverVars, agentVars
  <2>2. \A d \in Command : agent'[d] = "closed" <=> agent[d] = "closed"
    BY <1>4 DEF Relaunch, AgentOpens, AgentWrites, AgentFails, agentVars, Alive, TypeOK
  <2> QED BY <2>1, <2>2, UsageStays DEF UsageInv
<1>5. ASSUME NEW c \in Command, NEW r \in Result \ {"failed"}, NEW n \in Requests \cup {0},
             AgentFinishes(c, r, n)
      PROVE  UsageInv'
  <2>1. /\ UNCHANGED usage
        /\ agent[c] = "worker" /\ agent' = [agent EXCEPT ![c] = "exited"]
        /\ result' = [result EXCEPT ![c] = r] /\ requests' = [requests EXCEPT ![c] = n]
    BY <1>5 DEF AgentFinishes, serverVars
  <2>2. \A d \in Command : result'[d] = "failed" => requests'[d] = 0
    BY <1>5, <2>1 DEF UsageInv, TypeOK
  <2>3. \A d \in Command : agent'[d] = "closed" <=> agent[d] = "closed"
    BY <2>1 DEF TypeOK
  <2>4. \A d \in Command : agent[d] = "closed" => requests'[d] = requests[d]
    BY <2>1 DEF TypeOK
  <2> QED BY <2>1, <2>2, <2>3, <2>4, UsageStays
<1>6. ASSUME NEW survivors \in SUBSET Command, Restart(survivors) PROVE UsageInv'
  BY <1>6, RestartUsage
<1>7. CASE UNCHANGED vars
  <2>1. UNCHANGED <<usage, agent, result, requests>>
    BY <1>7 DEF vars, serverVars, agentVars
  <2> QED BY <2>1, UsageStays DEF UsageInv
<1> QED BY <1>1, <1>2, <1>3, <1>4, <1>5, <1>6, <1>7, ClosedUsage DEF Next, Working

\* However often runs end late, fail over or outlive their backend, the totals that
\* recordUsageStats adds to are the runs this backend saw end with statistics, each once,
\* and the sum of their requests.
THEOREM TotalsCountEveryRun == Spec => []UsageAddsUp
BY DesktopInvariant, InitUsage, StepUsage, UsageIs, PTL DEF Spec

=============================================================================
