------------------------ MODULE ServiceParts_proofs ------------------------
(***************************************************************************)
(* Proofs about parts of Services: the turns of a sub-agent (SubAgent),    *)
(* the telemetry queue (Telemetry), a shell command (ShellExecution), the  *)
(* recordings of conversations (ChatRecording), the message log and the    *)
(* checkpoints (SessionLog), and the tools that edit a file (FileEdits).   *)
(* Each part is proved about alone; Services_proofs takes the results to   *)
(* all services together.                                                  *)
(***************************************************************************)
EXTENDS FiniteSetTheorems, SequenceTheorems, WellFoundedInduction, TLAPS

CONSTANTS
    MaxEvents, MaxRetry, MaxLogged,
    MaxChunks, ShellWorld,
    MaxAgentTurns, MaxAgentCalls,
    Chat, RecordingWorld, MaxReplies, MaxThoughts,
    Logger, LogWorld, MaxPrompts, Tag, MaxChatCommands,
    FileText, FileCalls, FileWorld, MaxSaves

VARIABLES
    agentAt, turnCounter, functionCalls, running, nextMessage, accepted, taskCompleted,
    reason, agentAborted, outOfTime,
    logged, events, sending, flushing, pendingFlush, due, received, unread,
    shellWorld, phase, command, pipe, processing, isWriting, outputChunks, screen, streaming,
    sniffing, renderTimeout, display, exited, delivered, shellAborted, listening, killDue,
    signals, shellResult,
    recordingWorld, conversationFile, queuedThoughts, queuedTokens, reply, spoken,
    logWorld, logFile, logger, prompts, disturbed, checkpoint, overwriting, chatCommands, kept,
    fileWorld, fileContent, approvalMode, fileCall, saves, raced, undone, faltered

Agent == INSTANCE SubAgent
Clearcut == INSTANCE Telemetry
Shell == INSTANCE ShellExecution
Record == INSTANCE ChatRecording
Log == INSTANCE SessionLog
Files == INSTANCE FileEdits

-----------------------------------------------------------------------------
(* Numbers *)

\* Induction over a set of numbers, and what follows for their least and greatest.
LEMMA Induction == ASSUME NEW P, 0 \in P, \A n \in Nat : n \in P => n + 1 \in P PROVE Nat \subseteq P
<1> SUFFICES ASSUME Nat \ P # {} PROVE FALSE
  OBVIOUS
<1>1. PICK R : R = {p \in Nat \X Nat : p[1] < p[2]}
  OBVIOUS
<1>2. IsWellFoundedOn(R, Nat)
  BY <1>1, NatLessThanWellFounded DEF OpToRel
<1>3. PICK m \in Nat \ P : \A n \in Nat \ P : <<n, m>> \notin R
  <2>1. Nat \ P \subseteq Nat
    OBVIOUS
  <2>2. IsWellFoundedOn(R, Nat \ P)
    BY <1>2, <2>1, IsWellFoundedOnSubset
  <2> QED BY <1>2, <2>1, WFMin
<1>4. m # 0 /\ m - 1 \in Nat /\ m - 1 < m /\ m = (m - 1) + 1
  BY <1>3
<1>5. m - 1 \in P
  BY <1>1, <1>3, <1>4
<1> QED BY <1>3, <1>4, <1>5

LEMMA NotEmpty == ASSUME NEW t, NEW n \in Nat, Cardinality(t) = n + 1 PROVE t # {}
<1>1. Cardinality({}) = 0
  BY FS_EmptySet
<1> QED BY <1>1

LEMMA LastOne == ASSUME NEW T, T \subseteq Nat, IsFiniteSet(T), T # {} PROVE \E m \in T : \A k \in T : k <= m
<1> DEFINE P == {n \in Nat : \A t \in SUBSET T : Cardinality(t) = n + 1 => \E m \in t : \A k \in t : k <= m}
<1>0. \A t \in SUBSET T : IsFiniteSet(t) /\ Cardinality(t) \in Nat
  BY FS_Subset, FS_CardinalityType
<1>1. 0 \in P
  <2> SUFFICES ASSUME NEW t \in SUBSET T, Cardinality(t) = 1 PROVE \E m \in t : \A k \in t : k <= m
    OBVIOUS
  <2>1. PICK m : t = {m}
    BY <1>0, FS_Singleton
  <2> QED BY <2>1
<1>2. ASSUME NEW n \in Nat, n \in P PROVE n + 1 \in P
  <2> SUFFICES ASSUME NEW t \in SUBSET T, Cardinality(t) = (n + 1) + 1, n + 1 \in Nat PROVE \E m \in t : \A k \in t : k <= m
    OBVIOUS
  <2>1. PICK x \in t : TRUE
    BY NotEmpty
  <2>2. Cardinality(t \ {x}) = n + 1 /\ t \ {x} \in SUBSET T
    BY <1>0, FS_RemoveElement
  <2>3. PICK m \in t \ {x} : \A k \in t \ {x} : k <= m
    BY <1>2, <2>2
  <2>4. x \in Nat /\ m \in Nat /\ \A k \in t : k \in Nat
    OBVIOUS
  <2>5. CASE x <= m
    BY <2>3, <2>5
  <2>6. CASE ~(x <= m)
    BY <2>1, <2>3, <2>4, <2>6
  <2> QED BY <2>5, <2>6
<1>3. Nat \subseteq P
  <2> HIDE DEF P
  <2> QED BY <1>1, <1>2, Induction
<1>4. Cardinality(T) \in Nat /\ Cardinality(T) # 0
  BY <1>0, FS_EmptySet
<1>5. Cardinality(T) - 1 \in P /\ (Cardinality(T) - 1) + 1 = Cardinality(T)
  BY <1>3, <1>4
<1> QED BY <1>5

LEMMA Least == ASSUME NEW T, T \subseteq Nat, T # {} PROVE \E m \in T : \A n \in T : m <= n
<1>1. PICK R : R = {p \in Nat \X Nat : p[1] < p[2]}
  OBVIOUS
<1>2. IsWellFoundedOn(R, Nat)
  BY <1>1, NatLessThanWellFounded DEF OpToRel
<1>3. PICK m \in T : \A n \in T : <<n, m>> \notin R
  BY <1>2, WFMin
<1>4. ASSUME NEW n \in T PROVE m <= n
  <2>1. n \in Nat /\ m \in Nat
    OBVIOUS
  <2>2. ~(n < m)
    BY <1>1, <1>3, <2>1
  <2> QED BY <2>1, <2>2
<1> QED BY <1>4

-----------------------------------------------------------------------------
(* The turns of a sub-agent (SubAgent) *)

AgentConstants == MaxAgentTurns \in Nat /\ MaxAgentCalls \in Nat

LEMMA SameCardinality == \A S : Agent!Cardinality(S) = Cardinality(S)
BY DEF Agent!Cardinality, Cardinality

Rises(s) == \A i, j \in DOMAIN s : i < j => s[i] < s[j]
\* s has the members of set, each once, in the order of their numbers
Lists(s, set) == s \in [1 .. Cardinality(set) -> set] /\ Rises(s)

LEMMA ListExists == ASSUME NEW T, T \subseteq Nat, IsFiniteSet(T) PROVE \E s : Lists(s, T)
<1> DEFINE P == {n \in Nat : \A t \in SUBSET T : Cardinality(t) = n => \E s : Lists(s, t)}
<1>0. \A t \in SUBSET T : IsFiniteSet(t) /\ Cardinality(t) \in Nat
  BY FS_Subset, FS_CardinalityType
<1>1. 0 \in P
  <2> SUFFICES ASSUME NEW t \in SUBSET T, Cardinality(t) = 0 PROVE \E s : Lists(s, t)
    OBVIOUS
  <2>1. PICK s : s = [i \in 1 .. 0 |-> i]
    OBVIOUS
  <2>2. Lists(s, t)
    BY <2>1 DEF Lists, Rises
  <2> QED BY <2>2
<1>2. ASSUME NEW n \in Nat, n \in P PROVE n + 1 \in P
  <2> SUFFICES ASSUME NEW t \in SUBSET T, Cardinality(t) = n + 1 PROVE \E s : Lists(s, t)
    OBVIOUS
  <2>0. t # {} /\ t \subseteq Nat /\ IsFiniteSet(t)
    BY <1>0, NotEmpty
  <2>1. PICK m \in t : \A k \in t : k <= m
    BY <2>0, LastOne
  <2>2. Cardinality(t \ {m}) = n /\ t \ {m} \in SUBSET T
    BY <1>0, FS_RemoveElement
  <2>3. PICK s : Lists(s, t \ {m})
    BY <1>2, <2>2
  <2>4. s \in [1 .. n -> t \ {m}] /\ \A i, j \in 1 .. n : i < j => s[i] < s[j]
    BY <2>2, <2>3 DEF Lists, Rises
  <2>5. PICK u : u = [i \in 1 .. n + 1 |-> IF i = n + 1 THEN m ELSE s[i]]
    OBVIOUS
  <2>6. \A i \in 1 .. n : u[i] = s[i] /\ s[i] \in t /\ s[i] < m
    <3> SUFFICES ASSUME NEW i \in 1 .. n PROVE u[i] = s[i] /\ s[i] \in t /\ s[i] < m
      OBVIOUS
    <3>1. u[i] = s[i] /\ s[i] \in t \ {m}
      BY <2>4, <2>5
    <3>2. s[i] <= m /\ s[i] # m /\ s[i] \in Nat /\ m \in Nat
      BY <2>1, <3>1
    <3> QED BY <3>1, <3>2
  <2>7. u[n + 1] = m
    BY <2>5
  <2>8. \A i \in 1 .. n + 1 : i = n + 1 \/ i \in 1 .. n
    OBVIOUS
  <2>9. u \in [1 .. n + 1 -> t]
    BY <2>5, <2>6, <2>7, <2>8
  <2>10. \A i, j \in 1 .. n + 1 : i < j => u[i] < u[j]
    <3> SUFFICES ASSUME NEW i \in 1 .. n + 1, NEW j \in 1 .. n + 1, i < j PROVE u[i] < u[j]
      OBVIOUS
    <3>1. i \in 1 .. n
      BY <2>8
    <3>2. CASE j = n + 1
      BY <2>6, <2>7, <3>1, <3>2
    <3>3. CASE j \in 1 .. n
      BY <2>4, <2>6, <3>1, <3>3
    <3> QED BY <2>8, <3>2, <3>3
  <2> QED BY <2>9, <2>10 DEF Lists, Rises
<1>3. Nat \subseteq P
  <2> HIDE DEF P
  <2> QED BY <1>1, <1>2, Induction
<1> QED BY <1>0, <1>3

\* What a list of a set is: its members, each once.
LEMMA InOrderLists == ASSUME NEW T, T \subseteq Nat, IsFiniteSet(T)
  PROVE  /\ Agent!InOrder(T) \in Seq(T) /\ Len(Agent!InOrder(T)) = Cardinality(T)
         /\ \A i, j \in 1 .. Cardinality(T) : Agent!InOrder(T)[i] = Agent!InOrder(T)[j] => i = j
         /\ \A x \in T : \E i \in 1 .. Cardinality(T) : Agent!InOrder(T)[i] = x
<1>1. PICK s : s = Agent!InOrder(T)
  OBVIOUS
<1>2. Lists(s, T)
  BY <1>1, ListExists, SameCardinality DEF Agent!InOrder, Lists, Rises
<1>3. Cardinality(T) \in Nat
  BY FS_CardinalityType
<1>4. s \in Seq(T) /\ Len(s) = Cardinality(T)
  BY <1>2, <1>3 DEF Lists
<1>5. \A i, j \in 1 .. Cardinality(T) : s[i] = s[j] => i = j
  <2> SUFFICES ASSUME NEW i \in 1 .. Cardinality(T), NEW j \in 1 .. Cardinality(T), s[i] = s[j] PROVE i = j
    OBVIOUS
  <2>1. s[i] \in Nat /\ s[j] \in Nat
    BY <1>2 DEF Lists
  <2>2. (i < j => s[i] < s[j]) /\ (j < i => s[j] < s[i])
    BY <1>2 DEF Lists, Rises
  <2> QED BY <1>3, <2>1, <2>2
<1>6. \A x \in T : \E i \in 1 .. Cardinality(T) : s[i] = x
  <2>1. s \in Injection(1 .. Cardinality(T), T)
    BY <1>2, <1>5 DEF Lists, Injection, IsInjective
  <2>2. IsFiniteSet(1 .. Cardinality(T)) /\ Cardinality(1 .. Cardinality(T)) = Cardinality(T)
    BY <1>3, FS_Interval
  <2>3. s \in Surjection(1 .. Cardinality(T), T)
    BY <2>1, <2>2, FS_Injection
  <2> QED BY <2>3 DEF Surjection
<1> QED BY <1>1, <1>4, <1>5, <1>6

\* Two lists of disjoint sets, one after the other
LEMMA ListsJoin ==
    ASSUME NEW A, A \subseteq Nat, IsFiniteSet(A), NEW B, B \subseteq Nat, IsFiniteSet(B), A \cap B = {}
    PROVE  /\ Agent!InOrder(A) \o Agent!InOrder(B) \in Seq(A \cup B)
           /\ Agent!IsInjective(Agent!InOrder(A) \o Agent!InOrder(B))
           /\ Agent!ToSet(Agent!InOrder(A) \o Agent!InOrder(B)) = A \cup B
<1>1. PICK s, t : s = Agent!InOrder(A) /\ t = Agent!InOrder(B)
  OBVIOUS
<1>2. PICK m, n : m = Cardinality(A) /\ n = Cardinality(B)
  OBVIOUS
<1>3. m \in Nat /\ n \in Nat
  BY <1>2, FS_CardinalityType
<1>4. /\ s \in Seq(A) /\ Len(s) = m /\ \A i, j \in 1 .. m : s[i] = s[j] => i = j
      /\ \A x \in A : \E i \in 1 .. m : s[i] = x
  BY <1>1, <1>2, InOrderLists
<1>5. /\ t \in Seq(B) /\ Len(t) = n /\ \A i, j \in 1 .. n : t[i] = t[j] => i = j
      /\ \A x \in B : \E i \in 1 .. n : t[i] = x
  BY <1>1, <1>2, InOrderLists
<1>6. s \in Seq(A \cup B) /\ t \in Seq(A \cup B)
  BY <1>4, <1>5, SeqMonotonic
<1>7. PICK u : u = s \o t
  OBVIOUS
<1>8. /\ u \in Seq(A \cup B) /\ Len(u) = m + n
      /\ \A i \in 1 .. m + n : u[i] = IF i <= m THEN s[i] ELSE t[i - m]
  BY <1>4, <1>5, <1>6, <1>7, ConcatProperties
<1>9. DOMAIN u = 1 .. m + n
  BY <1>8, LenProperties
<1>10. \A i \in 1 .. m : i \in 1 .. m + n /\ u[i] = s[i] /\ s[i] \in A
  BY <1>3, <1>4, <1>8, ElementOfSeq
<1>11. \A i \in 1 .. n : m + i \in 1 .. m + n /\ u[m + i] = t[i] /\ t[i] \in B
  <2> SUFFICES ASSUME NEW i \in 1 .. n PROVE m + i \in 1 .. m + n /\ u[m + i] = t[i] /\ t[i] \in B
    OBVIOUS
  <2>1. m + i \in 1 .. m + n /\ ~(m + i <= m) /\ (m + i) - m = i
    BY <1>3
  <2> QED BY <1>5, <1>8, <2>1, ElementOfSeq
<1>12. \A i \in 1 .. m + n : i \in 1 .. m \/ (i - m \in 1 .. n /\ m + (i - m) = i)
  BY <1>3
<1>13. \A i, j \in 1 .. m + n : u[i] = u[j] => i = j
  <2> SUFFICES ASSUME NEW i \in 1 .. m + n, NEW j \in 1 .. m + n, u[i] = u[j] PROVE i = j
    OBVIOUS
  <2>1. CASE i \in 1 .. m /\ j \in 1 .. m
    BY <1>4, <1>10, <2>1
  <2>2. CASE i - m \in 1 .. n /\ m + (i - m) = i /\ j - m \in 1 .. n /\ m + (j - m) = j
    <3>1. u[i] = t[i - m] /\ u[j] = t[j - m]
      BY <1>11, <2>2
    <3>2. i - m = j - m
      BY <1>5, <2>2, <3>1
    <3> QED BY <2>2, <3>2
  <2>3. CASE i \in 1 .. m /\ j - m \in 1 .. n /\ m + (j - m) = j
    <3>1. u[i] \in A
      BY <1>10, <2>3
    <3>2. u[j] \in B
      BY <1>11, <2>3
    <3> QED BY <3>1, <3>2
  <2>4. CASE j \in 1 .. m /\ i - m \in 1 .. n /\ m + (i - m) = i
    <3>1. u[j] \in A
      BY <1>10, <2>4
    <3>2. u[i] \in B
      BY <1>11, <2>4
    <3> QED BY <3>1, <3>2
  <2> QED BY <1>12, <2>1, <2>2, <2>3, <2>4
<1>14. \A x \in A \cup B : \E i \in 1 .. m + n : u[i] = x
  <2>1. \A x \in A : \E i \in 1 .. m + n : u[i] = x
    BY <1>4, <1>10
  <2>2. \A x \in B : \E i \in 1 .. m + n : u[i] = x
    BY <1>5, <1>11
  <2> QED BY <2>1, <2>2
<1>15. \A i \in 1 .. m + n : u[i] \in A \cup B
  BY <1>8, ElementOfSeq
<1>16. Agent!IsInjective(u)
  BY <1>9, <1>13 DEF Agent!IsInjective
<1>17. Agent!ToSet(u) = A \cup B
  BY <1>9, <1>14, <1>15 DEF Agent!ToSet
<1> QED BY <1>1, <1>7, <1>8, <1>16, <1>17

LEMMA AnswersAll ==
    ASSUME AgentConstants, NEW calls \in Agent!Turn
    PROVE  /\ Agent!Answers(calls) \in Seq(1 .. MaxAgentCalls)
           /\ Agent!IsInjective(Agent!Answers(calls)) /\ Agent!ToSet(Agent!Answers(calls)) = DOMAIN calls
<1>1. PICK n \in 0 .. MaxAgentCalls : calls \in [1 .. n -> Agent!CallKind]
  BY DEF Agent!Turn
<1>2. n \in Nat /\ DOMAIN calls = 1 .. n /\ 1 .. n \subseteq Nat /\ 1 .. n \subseteq 1 .. MaxAgentCalls
  BY <1>1 DEF AgentConstants
<1>3. PICK A, B : A = DOMAIN calls \ Agent!Executed(calls) /\ B = Agent!Executed(calls)
  OBVIOUS
<1>4. A \cup B = 1 .. n /\ A \cap B = {} /\ A \subseteq 1 .. n /\ B \subseteq 1 .. n
  BY <1>2, <1>3 DEF Agent!Executed
<1>5. IsFiniteSet(1 .. n)
  BY <1>2, FS_Interval
<1>6. IsFiniteSet(A) /\ IsFiniteSet(B) /\ A \subseteq Nat /\ B \subseteq Nat
  BY <1>2, <1>4, <1>5, FS_Subset
<1>7. Agent!Answers(calls) = Agent!InOrder(A) \o Agent!InOrder(B)
  BY <1>3 DEF Agent!Answers
<1>8. /\ Agent!InOrder(A) \o Agent!InOrder(B) \in Seq(1 .. n)
      /\ Agent!IsInjective(Agent!InOrder(A) \o Agent!InOrder(B)) /\ Agent!ToSet(Agent!InOrder(A) \o Agent!InOrder(B)) = 1 .. n
  BY <1>4, <1>6, ListsJoin
<1>9. Agent!Answers(calls) \in Seq(1 .. MaxAgentCalls)
  BY <1>2, <1>7, <1>8, SeqMonotonic
<1> QED BY <1>2, <1>7, <1>8, <1>9

LEMMA OldestIsFirst ==
    ASSUME AgentConstants, NEW calls \in Agent!Turn
    PROVE  /\ Agent!Oldest(Agent!Valid(calls)) \in 0 .. MaxAgentCalls
           /\ Agent!Completes(calls) => /\ Agent!Oldest(Agent!Valid(calls)) \in Agent!Valid(calls)
                                  /\ \A i \in Agent!Valid(calls) : Agent!Oldest(Agent!Valid(calls)) <= i
<1>1. PICK n \in 0 .. MaxAgentCalls : calls \in [1 .. n -> Agent!CallKind]
  BY DEF Agent!Turn
<1>2. Agent!Valid(calls) \subseteq 1 .. n /\ Agent!Valid(calls) \subseteq 1 .. MaxAgentCalls
  BY <1>1 DEF Agent!Valid, AgentConstants
<1>3. CASE Agent!Valid(calls) = {}
  BY <1>3 DEF Agent!Oldest, Agent!Completes, AgentConstants
<1>4. CASE Agent!Valid(calls) # {}
  <2>1. \E i \in Agent!Valid(calls) : \A j \in Agent!Valid(calls) : i <= j
    BY <1>2, <1>4, Least
  <2>2. Agent!Oldest(Agent!Valid(calls)) \in Agent!Valid(calls) /\ \A i \in Agent!Valid(calls) : Agent!Oldest(Agent!Valid(calls)) <= i
    BY <1>4, <2>1 DEF Agent!Oldest
  <2> QED BY <1>2, <2>2 DEF AgentConstants
<1> QED BY <1>3, <1>4

-----------------------------------------------------------------------------
\* What a turn has come to belongs to its calls; nothing runs when a turn begins.
AgentInv ==
    /\ Agent!AgentTypeOK
    /\ agentAt \in {"check", "model"} => running = {}
    /\ agentAt # "ended" => reason = "none"
    /\ agentAt = "tools" => /\ taskCompleted = Agent!Completes(functionCalls)
                            /\ accepted = Agent!Oldest(Agent!Valid(functionCalls))
    /\ (agentAt = "check" /\ turnCounter > 0) \/ reason = "GOAL" =>
         running = {} /\ nextMessage = Agent!Answers(functionCalls)
    /\ reason = "GOAL" => Agent!Completes(functionCalls) /\ accepted = Agent!Oldest(Agent!Valid(functionCalls))

LEMMA AgentInvImplies == AgentConstants /\ AgentInv => Agent!TurnsAreComplete
<1> SUFFICES ASSUME AgentConstants, AgentInv PROVE Agent!TurnsAreComplete
  OBVIOUS
<1>1. functionCalls \in Agent!Turn
  BY DEF AgentInv, Agent!AgentTypeOK
<1> QED BY <1>1, AnswersAll, OldestIsFirst DEF AgentInv, Agent!TurnsAreComplete

LEMMA AgentInitHolds == AgentConstants /\ Agent!AgentInit => AgentInv
<1> SUFFICES ASSUME AgentConstants, Agent!AgentInit PROVE AgentInv
  OBVIOUS
<1>1. <<>> \in [1 .. 0 -> Agent!CallKind] /\ <<>> \in Seq(1 .. MaxAgentCalls)
  OBVIOUS
<1>2. 0 \in 0 .. MaxAgentCalls /\ 0 \in 0 .. MaxAgentTurns
  BY DEF AgentConstants
<1>3. <<>> \in Agent!Turn
  BY <1>1, <1>2 DEF Agent!Turn
<1>4. Agent!AgentTypeOK
  BY <1>1, <1>2, <1>3 DEF Agent!AgentInit, Agent!AgentTypeOK, Agent!Reason
<1>5. agentAt = "check" /\ reason = "none" /\ running = {} /\ ~(turnCounter > 0)
  BY DEF Agent!AgentInit
<1> QED BY <1>4, <1>5 DEF AgentInv

LEMMA AgentStepKeeps == AgentConstants /\ AgentInv /\ [Agent!AgentNext]_(Agent!agentVars) => AgentInv'
<1> SUFFICES ASSUME AgentConstants, AgentInv, [Agent!AgentNext]_(Agent!agentVars) PROVE AgentInv'
  OBVIOUS
<1>0. functionCalls \in Agent!Turn
  BY DEF AgentInv, Agent!AgentTypeOK
<1>e. <<>> \in Seq(1 .. MaxAgentCalls)
  OBVIOUS
<1>1. CASE Agent!CheckTermination
  BY <1>1 DEF AgentInv, Agent!AgentTypeOK, Agent!CheckTermination, Agent!Ends, Agent!Goes,
     Agent!Reason, AgentConstants
<1>2. CASE Agent!ModelReplies
  <2>1. PICK calls \in Agent!Turn :
           /\ functionCalls' = calls
           /\ IF agentAborted
                THEN Agent!Ends("ABORTED") /\ UNCHANGED <<running, taskCompleted, accepted>>
              ELSE IF calls = <<>>
                THEN Agent!Ends("ERROR") /\ UNCHANGED <<running, taskCompleted, accepted>>
              ELSE /\ Agent!Goes("tools")
                   /\ running' = Agent!Executed(calls)
                   /\ taskCompleted' = Agent!Completes(calls)
                   /\ accepted' = Agent!Oldest(Agent!Valid(calls))
    BY <1>2 DEF Agent!ModelReplies
  <2>2. /\ agentAt = "model" /\ nextMessage' = <<>>
        /\ UNCHANGED <<turnCounter, agentAborted, outOfTime>>
    BY <1>2 DEF Agent!ModelReplies
  <2>3. Agent!Oldest(Agent!Valid(calls)) \in 0 .. MaxAgentCalls
    BY OldestIsFirst
  <2>4. Agent!Executed(calls) \subseteq DOMAIN calls /\ Agent!Completes(calls) \in BOOLEAN
    BY DEF Agent!Executed, Agent!Completes
  <2>5. running = {} /\ reason = "none"
    BY <2>2 DEF AgentInv
  <2>6. CASE agentAborted \/ calls = <<>>
    BY <1>e, <2>1, <2>2, <2>5, <2>6 DEF AgentInv, Agent!AgentTypeOK, Agent!Ends, Agent!Reason
  <2>7. CASE ~agentAborted /\ calls # <<>>
    BY <1>e, <2>1, <2>2, <2>3, <2>4, <2>5, <2>7 DEF AgentInv, Agent!AgentTypeOK, Agent!Goes,
       Agent!Reason
  <2> QED BY <2>6, <2>7
<1>3. CASE Agent!ModelThrows
  BY <1>3 DEF AgentInv, Agent!AgentTypeOK, Agent!ModelThrows, Agent!Ends, Agent!Reason
<1>4. CASE Agent!ProcessOutputThrows
  <2>1. PICK calls \in Agent!Turn :
           functionCalls' = calls /\ running' = {i \in Agent!Executed(calls) : i < Agent!Oldest(Agent!Valid(calls))}
    BY <1>4 DEF Agent!ProcessOutputThrows
  <2>2. running' \subseteq DOMAIN calls
    BY <2>1 DEF Agent!Executed
  <2> QED BY <1>4, <2>1, <2>2 DEF AgentInv, Agent!AgentTypeOK, Agent!ProcessOutputThrows,
             Agent!Ends, Agent!Reason
<1>5. CASE Agent!ToolResolves
  BY <1>5 DEF AgentInv, Agent!AgentTypeOK, Agent!ToolResolves
<1>6. CASE Agent!TurnEnds
  <2>1. Agent!Answers(functionCalls) \in Seq(1 .. MaxAgentCalls)
    BY <1>0, AnswersAll
  <2> QED BY <1>6, <2>1 DEF AgentInv, Agent!AgentTypeOK, Agent!TurnEnds, Agent!Ends, Agent!Goes,
             Agent!Reason
<1>7. CASE Agent!AbortAgent
  BY <1>7 DEF AgentInv, Agent!AgentTypeOK, Agent!AbortAgent
<1>8. CASE Agent!TimePasses
  BY <1>8 DEF AgentInv, Agent!AgentTypeOK, Agent!TimePasses
<1>9. CASE UNCHANGED Agent!agentVars
  BY <1>9 DEF AgentInv, Agent!AgentTypeOK, Agent!agentVars
<1> QED BY <1>1, <1>2, <1>3, <1>4, <1>5, <1>6, <1>7, <1>8, <1>9 DEF Agent!AgentNext
-----------------------------------------------------------------------------
(* The telemetry queue (Telemetry) *)

TelemetryConstants ==
    /\ MaxEvents \in Nat /\ MaxRetry \in Nat /\ MaxLogged \in Nat
    /\ MaxEvents > 0 /\ MaxRetry <= MaxEvents

Ascends(s) == \A i, j \in 1 .. Len(s) : i < j => s[i] < s[j]
Before(A, B) == \A x \in A, y \in B : x < y

LEMMA MembersOf == ASSUME NEW n \in Nat, NEW s \in Seq(1 .. n)
  PROVE /\ Len(s) \in Nat /\ Clearcut!ToSet(s) \subseteq 1 .. n /\ Clearcut!ToSet(s) = {s[i] : i \in 1 .. Len(s)}
        /\ \A i \in 1 .. Len(s) : s[i] \in Clearcut!ToSet(s) /\ s[i] \in 1 .. n
<1>1. Len(s) \in Nat /\ DOMAIN s = 1 .. Len(s) /\ \A i \in 1 .. Len(s) : s[i] \in 1 .. n
  BY LenProperties, ElementOfSeq
<1> QED BY <1>1 DEF Clearcut!ToSet

LEMMA Nothing == Clearcut!ToSet(<<>>) = {} /\ Ascends(<<>>) /\ Len(<<>>) = 0 /\ \A n \in Nat : <<>> \in Seq(1 .. n)
BY DEF Clearcut!ToSet, Ascends

LEMMA MoreNumbers == ASSUME NEW n \in Nat, NEW s \in Seq(1 .. n) PROVE s \in Seq(1 .. n + 1)
<1>1. 1 .. n \subseteq 1 .. n + 1
  OBVIOUS
<1> QED BY <1>1, SeqMonotonic

LEMMA Joined == ASSUME NEW n \in Nat, NEW s \in Seq(1 .. n), NEW t \in Seq(1 .. n)
  PROVE  /\ s \o t \in Seq(1 .. n) /\ Len(s \o t) = Len(s) + Len(t)
         /\ Clearcut!ToSet(s \o t) = Clearcut!ToSet(s) \cup Clearcut!ToSet(t)
         /\ Ascends(s) /\ Ascends(t) /\ Before(Clearcut!ToSet(s), Clearcut!ToSet(t)) => Ascends(s \o t)
<1>1. PICK u : u = s \o t
  OBVIOUS
<1>2. PICK p, q : p = Len(s) /\ q = Len(t)
  OBVIOUS
<1>3. p \in Nat /\ q \in Nat
  BY <1>2, MembersOf
<1>4. /\ u \in Seq(1 .. n) /\ Len(u) = p + q
      /\ \A i \in 1 .. p + q : u[i] = IF i <= p THEN s[i] ELSE t[i - p]
  BY <1>1, <1>2, ConcatProperties
<1>5. \A i \in 1 .. p : i \in 1 .. p + q /\ u[i] = s[i]
  BY <1>3, <1>4
<1>6. \A i \in 1 .. q : p + i \in 1 .. p + q /\ u[p + i] = t[i]
  <2> SUFFICES ASSUME NEW i \in 1 .. q PROVE p + i \in 1 .. p + q /\ u[p + i] = t[i]
    OBVIOUS
  <2>1. p + i \in 1 .. p + q /\ ~(p + i <= p) /\ (p + i) - p = i
    BY <1>3
  <2> QED BY <1>4, <2>1
<1>7. \A i \in 1 .. p + q : i \in 1 .. p \/ (i - p \in 1 .. q /\ p + (i - p) = i)
  BY <1>3
<1>8. Clearcut!ToSet(u) = Clearcut!ToSet(s) \cup Clearcut!ToSet(t)
  <2>1. Clearcut!ToSet(u) = {u[i] : i \in 1 .. p + q}
    BY <1>4, MembersOf
  <2>2. Clearcut!ToSet(s) = {s[i] : i \in 1 .. p} /\ Clearcut!ToSet(t) = {t[i] : i \in 1 .. q}
    BY <1>2, MembersOf
  <2>3. \A i \in 1 .. p + q : u[i] \in Clearcut!ToSet(s) \cup Clearcut!ToSet(t)
    <3> SUFFICES ASSUME NEW i \in 1 .. p + q PROVE u[i] \in Clearcut!ToSet(s) \cup Clearcut!ToSet(t)
      OBVIOUS
    <3>1. CASE i \in 1 .. p
      BY <1>5, <2>2, <3>1
    <3>2. CASE i - p \in 1 .. q /\ p + (i - p) = i
      <4>1. u[i] = t[i - p]
        BY <1>6, <3>2
      <4> QED BY <2>2, <3>2, <4>1
    <3> QED BY <1>7, <3>1, <3>2
  <2>4. \A i \in 1 .. p : s[i] \in Clearcut!ToSet(u)
    BY <1>5, <2>1
  <2>5. \A i \in 1 .. q : t[i] \in Clearcut!ToSet(u)
    BY <1>6, <2>1
  <2> QED BY <2>1, <2>2, <2>3, <2>4, <2>5
<1>9. ASSUME Ascends(s), Ascends(t), Before(Clearcut!ToSet(s), Clearcut!ToSet(t)) PROVE Ascends(u)
  <2> SUFFICES ASSUME NEW i \in 1 .. p + q, NEW j \in 1 .. p + q, i < j PROVE u[i] < u[j]
    BY <1>4 DEF Ascends
  <2>1. CASE j \in 1 .. p
    <3>1. i \in 1 .. p
      BY <1>3, <2>1
    <3> QED BY <1>2, <1>5, <1>9, <2>1, <3>1 DEF Ascends
  <2>2. CASE i - p \in 1 .. q /\ p + (i - p) = i
    <3>1. j - p \in 1 .. q /\ p + (j - p) = j /\ i - p < j - p
      BY <1>3, <2>2
    <3>2. u[i] = t[i - p] /\ u[j] = t[j - p]
      BY <1>6, <2>2, <3>1
    <3> QED BY <1>2, <1>9, <2>2, <3>1, <3>2 DEF Ascends
  <2>3. CASE i \in 1 .. p /\ j - p \in 1 .. q /\ p + (j - p) = j
    <3>1. u[i] = s[i] /\ u[j] = t[j - p]
      BY <1>5, <1>6, <2>3
    <3>2. s[i] \in Clearcut!ToSet(s) /\ t[j - p] \in Clearcut!ToSet(t)
      BY <1>2, <2>3, MembersOf
    <3> QED BY <1>9, <3>1, <3>2 DEF Before
  <2> QED BY <1>7, <2>1, <2>2, <2>3
<1> QED BY <1>1, <1>2, <1>4, <1>8, <1>9

\* A number below all of an ascending sequence is so by the sequence's length.
LEMMA FarBelow ==
    ASSUME NEW n \in Nat, NEW s \in Seq(1 .. n), Ascends(s), NEW x \in Nat, x <= n, Before({x}, Clearcut!ToSet(s))
    PROVE  x + Len(s) <= n
<1> DEFINE P == {k \in Nat : k + 1 \in 1 .. Len(s) => x + (k + 1) <= s[k + 1]}
<1>0. Len(s) \in Nat /\ \A i \in 1 .. Len(s) : s[i] \in Clearcut!ToSet(s) /\ s[i] \in 1 .. n
  BY MembersOf
<1>1. 0 \in P
  <2> SUFFICES ASSUME 1 \in 1 .. Len(s) PROVE x + 1 <= s[1]
    OBVIOUS
  <2>1. x < s[1] /\ s[1] \in Nat
    BY <1>0 DEF Before
  <2> QED BY <2>1
<1>2. ASSUME NEW k \in Nat, k \in P PROVE k + 1 \in P
  <2> SUFFICES ASSUME (k + 1) + 1 \in 1 .. Len(s) PROVE x + ((k + 1) + 1) <= s[(k + 1) + 1]
    OBVIOUS
  <2>1. k + 1 \in 1 .. Len(s) /\ k + 1 < (k + 1) + 1
    BY <1>0
  <2>2. s[k + 1] < s[(k + 1) + 1]
    BY <2>1 DEF Ascends
  <2>3. x + (k + 1) <= s[k + 1]
    BY <1>2, <2>1
  <2>4. s[k + 1] \in Nat /\ s[(k + 1) + 1] \in Nat
    BY <1>0, <2>1
  <2> QED BY <2>2, <2>3, <2>4
<1>3. Nat \subseteq P
  <2> HIDE DEF P
  <2> QED BY <1>1, <1>2, Induction
<1>4. CASE Len(s) = 0
  BY <1>4
<1>5. CASE Len(s) # 0
  <2>1. Len(s) - 1 \in Nat /\ (Len(s) - 1) + 1 = Len(s) /\ Len(s) \in 1 .. Len(s)
    BY <1>0, <1>5
  <2>2. Len(s) - 1 \in P
    BY <1>3, <2>1
  <2>3. x + Len(s) <= s[Len(s)] /\ s[Len(s)] \in 1 .. n
    BY <1>0, <2>1, <2>2
  <2> QED BY <1>0, <2>3
<1> QED BY <1>4, <1>5

LEMMA NewestOf ==
    ASSUME NEW n \in Nat, NEW s \in Seq(1 .. n), NEW m \in Nat
    PROVE  /\ Clearcut!Newest(m, s) \in Seq(1 .. n) /\ Clearcut!ToSet(Clearcut!Newest(m, s)) \subseteq Clearcut!ToSet(s)
           /\ Len(Clearcut!Newest(m, s)) <= m /\ Len(Clearcut!Newest(m, s)) <= Len(s)
           /\ Clearcut!ToSet(s) \ Clearcut!ToSet(Clearcut!Newest(m, s)) # {} => Len(Clearcut!Newest(m, s)) = m
           /\ Ascends(s) => /\ Ascends(Clearcut!Newest(m, s))
                            /\ Before(Clearcut!ToSet(s) \ Clearcut!ToSet(Clearcut!Newest(m, s)), Clearcut!ToSet(Clearcut!Newest(m, s)))
<1>1. PICK l : l = Len(s)
  OBVIOUS
<1>2. PICK d : d = IF l > m THEN l - m ELSE 0
  OBVIOUS
<1>3. l \in Nat /\ d \in Nat /\ d <= l /\ l - d <= m /\ l - d \in Nat /\ l - d <= l /\ (d # 0 => l - d = m)
  BY <1>1, <1>2, MembersOf
<1>4. PICK t : t = Clearcut!Newest(m, s)
  OBVIOUS
<1>5. t = SubSeq(s, d + 1, l)
  BY <1>1, <1>2, <1>3, <1>4 DEF Clearcut!Newest
<1>6. t \in Seq(1 .. n) /\ Len(t) = l - d /\ \A i \in 1 .. l - d : t[i] = s[d + i]
  <2>1. d + 1 \in 1 .. l + 1 /\ l \in d .. l
    BY <1>3
  <2>2. /\ SubSeq(s, d + 1, l) \in Seq(1 .. n)
        /\ Len(SubSeq(s, d + 1, l)) = IF d + 1 <= l THEN l - (d + 1) + 1 ELSE 0
        /\ \A i \in 1 .. l - (d + 1) + 1 : SubSeq(s, d + 1, l)[i] = s[(d + 1) + i - 1]
    BY <1>1, <1>3, <2>1, SubSeqProperties
  <2>3. (IF d + 1 <= l THEN l - (d + 1) + 1 ELSE 0) = l - d /\ l - (d + 1) + 1 = l - d
    BY <1>3
  <2>4. \A i \in 1 .. l - d : (d + 1) + i - 1 = d + i
    BY <1>3
  <2> QED BY <1>5, <2>2, <2>3, <2>4
<1>7. Clearcut!ToSet(s) = {s[i] : i \in 1 .. l} /\ Clearcut!ToSet(t) = {t[i] : i \in 1 .. l - d}
  BY <1>1, <1>6, MembersOf
<1>8. \A i \in 1 .. l - d : d + i \in 1 .. l
  BY <1>3
<1>9. Clearcut!ToSet(t) \subseteq Clearcut!ToSet(s)
  BY <1>6, <1>7, <1>8
<1>10. ASSUME NEW i \in 1 .. l, s[i] \notin Clearcut!ToSet(t) PROVE i <= d
  <2> SUFFICES ASSUME ~(i <= d) PROVE FALSE
    OBVIOUS
  <2>1. i - d \in 1 .. l - d /\ d + (i - d) = i
    BY <1>3
  <2>2. t[i - d] = s[i]
    BY <1>6, <2>1
  <2> QED BY <1>7, <1>10, <2>1, <2>2
<1>11. ASSUME Clearcut!ToSet(s) \ Clearcut!ToSet(t) # {} PROVE Len(t) = m
  <2>1. PICK i \in 1 .. l : s[i] \notin Clearcut!ToSet(t)
    BY <1>7, <1>11
  <2>2. d # 0
    BY <1>3, <1>10, <2>1
  <2> QED BY <1>3, <1>6, <2>2
<1>12. ASSUME Ascends(s) PROVE Ascends(t)
  <2> SUFFICES ASSUME NEW i \in 1 .. l - d, NEW j \in 1 .. l - d, i < j PROVE t[i] < t[j]
    BY <1>6 DEF Ascends
  <2>1. d + i \in 1 .. l /\ d + j \in 1 .. l /\ d + i < d + j
    BY <1>3, <1>8
  <2> QED BY <1>1, <1>6, <1>12, <2>1 DEF Ascends
<1>13. ASSUME Ascends(s) PROVE Before(Clearcut!ToSet(s) \ Clearcut!ToSet(t), Clearcut!ToSet(t))
  <2> SUFFICES ASSUME NEW x \in Clearcut!ToSet(s) \ Clearcut!ToSet(t), NEW y \in Clearcut!ToSet(t) PROVE x < y
    BY DEF Before
  <2>1. PICK i \in 1 .. l : x = s[i]
    BY <1>7
  <2>2. PICK j \in 1 .. l - d : y = t[j]
    BY <1>7
  <2>3. i <= d
    BY <1>10, <2>1
  <2>4. d + j \in 1 .. l /\ i < d + j
    BY <1>3, <1>8, <2>3
  <2> QED BY <1>1, <1>6, <1>13, <2>1, <2>2, <2>4 DEF Ascends
<1> QED BY <1>1, <1>3, <1>4, <1>6, <1>9, <1>11, <1>12, <1>13

\* What the server took, what is sent and what waits follow each other; the batches
\* that are kept back do so even when a reply was lost.
TelemetryInv ==
    /\ logged \in 0 .. MaxLogged
    /\ flushing \in BOOLEAN /\ pendingFlush \in BOOLEAN /\ due \in BOOLEAN /\ unread \in BOOLEAN
    /\ received \in Seq(1 .. logged) /\ sending \in Seq(1 .. logged) /\ events \in Seq(1 .. logged)
    /\ Len(sending) <= MaxEvents /\ Len(events) <= MaxEvents
    /\ ~flushing => sending = <<>>
    /\ Ascends(sending) /\ Ascends(events) /\ Before(Clearcut!ToSet(sending), Clearcut!ToSet(events))
    /\ ~unread => Ascends(received) /\ Before(Clearcut!ToSet(received), Clearcut!ToSet(sending) \cup Clearcut!ToSet(events))
    /\ \A e \in 1 .. logged : e + MaxRetry > logged =>
         e \in Clearcut!ToSet(received) \cup Clearcut!ToSet(sending) \cup Clearcut!ToSet(events)

LEMMA LoggedIsNat == TelemetryConstants /\ TelemetryInv => logged \in Nat
BY DEF TelemetryConstants, TelemetryInv

LEMMA AscendsIsIncreasing ==
    ASSUME NEW n \in Nat, NEW s \in Seq(1 .. n), Ascends(s)
    PROVE  Clearcut!Increasing(s)
<1>1. Len(s) \in Nat
  BY MembersOf
<1>2. \A i \in 1 .. Len(s) - 1 : i \in 1 .. Len(s) /\ i + 1 \in 1 .. Len(s) /\ i < i + 1
  BY <1>1
<1> QED BY <1>2 DEF Ascends, Clearcut!Increasing

LEMMA TelemetryInvImplies ==
    TelemetryConstants /\ TelemetryInv => Clearcut!TelemetryTypeOK /\ Clearcut!EventsArriveInOrder /\ Clearcut!NewestEventsSurvive
<1> SUFFICES ASSUME TelemetryConstants, TelemetryInv
             PROVE  Clearcut!TelemetryTypeOK /\ Clearcut!EventsArriveInOrder /\ Clearcut!NewestEventsSurvive
  OBVIOUS
<1>1. logged \in Nat /\ 1 .. logged \subseteq 1 .. MaxLogged
  BY DEF TelemetryConstants, TelemetryInv
<1>2. /\ received \in Seq(1 .. MaxLogged) /\ sending \in Seq(1 .. MaxLogged)
      /\ events \in Seq(1 .. MaxLogged)
  BY <1>1, SeqMonotonic DEF TelemetryInv
<1>3. Clearcut!TelemetryTypeOK
  BY <1>2 DEF TelemetryInv, Clearcut!TelemetryTypeOK
<1>4. /\ received \in Seq(1 .. logged) /\ sending \in Seq(1 .. logged) /\ events \in Seq(1 .. logged)
  BY DEF TelemetryInv
<1>5. /\ received \o sending \in Seq(1 .. logged)
      /\ Clearcut!ToSet(received \o sending) = Clearcut!ToSet(received) \cup Clearcut!ToSet(sending)
  BY <1>1, <1>4, Joined
<1>6. /\ (received \o sending) \o events \in Seq(1 .. logged)
      /\ Clearcut!ToSet((received \o sending) \o events) = Clearcut!ToSet(received) \cup Clearcut!ToSet(sending) \cup Clearcut!ToSet(events)
  BY <1>1, <1>4, <1>5, Joined
<1>7. ASSUME ~unread PROVE Clearcut!Increasing((received \o sending) \o events)
  <2>1. /\ Ascends(received) /\ Ascends(sending) /\ Ascends(events)
        /\ Before(Clearcut!ToSet(received), Clearcut!ToSet(sending)) /\ Before(Clearcut!ToSet(received) \cup Clearcut!ToSet(sending), Clearcut!ToSet(events))
    BY <1>7 DEF TelemetryInv, Before
  <2>2. Ascends(received \o sending)
    BY <1>1, <1>4, <2>1, Joined
  <2>3. Ascends((received \o sending) \o events)
    BY <1>1, <1>4, <1>5, <2>1, <2>2, Joined
  <2> QED BY <1>1, <1>6, <2>3, AscendsIsIncreasing
<1>8. Clearcut!NewestEventsSurvive
  BY <1>6 DEF Clearcut!NewestEventsSurvive, TelemetryInv
<1> QED BY <1>3, <1>7, <1>8 DEF Clearcut!EventsArriveInOrder

LEMMA TelemetryInitHolds == TelemetryConstants /\ Clearcut!TelemetryInit => TelemetryInv
<1> SUFFICES ASSUME TelemetryConstants, Clearcut!TelemetryInit PROVE TelemetryInv
  OBVIOUS
<1>1. logged = 0 /\ received = <<>> /\ sending = <<>> /\ events = <<>> /\ 0 \in Nat
  BY DEF Clearcut!TelemetryInit
<1>2. 0 \in 0 .. MaxLogged /\ 0 <= MaxEvents
  BY DEF TelemetryConstants
<1>3. /\ received \in Seq(1 .. logged) /\ sending \in Seq(1 .. logged) /\ events \in Seq(1 .. logged)
  BY <1>1, Nothing
<1>4. \A e \in 1 .. logged : FALSE
  BY <1>1
<1> QED BY <1>1, <1>2, <1>3, <1>4, Nothing DEF Clearcut!TelemetryInit, TelemetryInv, Before

\* The event is in the queue, behind those that were; one that is dropped is not among
\* the newest.
LEMMA EnqueuedIs ==
    ASSUME TelemetryConstants, TelemetryInv, NEW e, e = logged + 1
    PROVE  /\ Clearcut!Enqueued(e) \in Seq(1 .. e) /\ Len(Clearcut!Enqueued(e)) <= MaxEvents /\ Ascends(Clearcut!Enqueued(e))
           /\ Clearcut!ToSet(Clearcut!Enqueued(e)) \subseteq Clearcut!ToSet(events) \cup {e} /\ e \in Clearcut!ToSet(Clearcut!Enqueued(e))
           /\ \A x \in Clearcut!ToSet(events) \ Clearcut!ToSet(Clearcut!Enqueued(e)) : x + MaxRetry <= e
<1>1. logged \in Nat /\ MaxEvents - 1 \in Nat /\ events \in Seq(1 .. logged) /\ Ascends(events) /\ MaxRetry \in Nat
  BY DEF TelemetryConstants, TelemetryInv
<1>2. PICK t : t = Clearcut!Newest(MaxEvents - 1, events)
  OBVIOUS
<1>3. /\ t \in Seq(1 .. logged) /\ Clearcut!ToSet(t) \subseteq Clearcut!ToSet(events) /\ Len(t) <= MaxEvents - 1 /\ Ascends(t)
      /\ Clearcut!ToSet(events) \ Clearcut!ToSet(t) # {} => Len(t) = MaxEvents - 1
      /\ Before(Clearcut!ToSet(events) \ Clearcut!ToSet(t), Clearcut!ToSet(t))
  BY <1>1, <1>2, NewestOf
<1>4. e \in Nat /\ e \in 1 .. e /\ t \in Seq(1 .. e) /\ <<e>> \in Seq(1 .. e)
  BY <1>1, <1>3, MoreNumbers
<1>5. Clearcut!ToSet(<<e>>) = {e} /\ Ascends(<<e>>) /\ Len(<<e>>) = 1
  BY DEF Clearcut!ToSet, Ascends
<1>6. Clearcut!Enqueued(e) = t \o <<e>>
  BY <1>2, <1>4, AppendIsConcat DEF Clearcut!Enqueued
<1>7. \A x \in Clearcut!ToSet(t) : x < e
  <2>1. \A x \in Clearcut!ToSet(t) : x \in 1 .. logged
    BY <1>1, <1>3, MembersOf
  <2> QED BY <1>1, <2>1
<1>8. /\ Clearcut!Enqueued(e) \in Seq(1 .. e) /\ Len(Clearcut!Enqueued(e)) = Len(t) + 1
      /\ Clearcut!ToSet(Clearcut!Enqueued(e)) = Clearcut!ToSet(t) \cup {e} /\ Ascends(Clearcut!Enqueued(e))
  <2>1. Before(Clearcut!ToSet(t), Clearcut!ToSet(<<e>>))
    BY <1>5, <1>7 DEF Before
  <2>2. PICK u : u = <<e>>
    OBVIOUS
  <2>3. Before(Clearcut!ToSet(t), Clearcut!ToSet(u)) /\ Ascends(u) /\ u \in Seq(1 .. e)
    BY <1>4, <1>5, <2>1, <2>2
  <2>4. /\ t \o u \in Seq(1 .. e) /\ Len(t \o u) = Len(t) + Len(u)
        /\ Clearcut!ToSet(t \o u) = Clearcut!ToSet(t) \cup Clearcut!ToSet(u) /\ Ascends(t \o u)
    BY <1>3, <1>4, <2>3, Joined
  <2> QED BY <1>5, <1>6, <2>2, <2>4
<1>9. Len(t) \in Nat /\ MaxEvents \in Nat
  BY <1>1, <1>3, MembersOf DEF TelemetryConstants
<1>10. ASSUME NEW x \in Clearcut!ToSet(events) \ Clearcut!ToSet(Clearcut!Enqueued(e)) PROVE x + MaxRetry <= e
  <2>1. x \in Clearcut!ToSet(events) \ Clearcut!ToSet(t) /\ x # e
    BY <1>8, <1>10
  <2>2. x \in 1 .. logged
    BY <1>1, <2>1, MembersOf
  <2>3. Len(Clearcut!Enqueued(e)) = MaxEvents
    BY <1>3, <1>8, <1>9, <2>1
  <2>4. Before({x}, Clearcut!ToSet(Clearcut!Enqueued(e)))
    BY <1>1, <1>3, <1>8, <2>1, <2>2 DEF Before
  <2>5. x \in Nat /\ x <= e
    BY <1>1, <2>2
  <2>6. x + MaxEvents <= e
    BY <1>4, <1>8, <2>3, <2>4, <2>5, FarBelow
  <2> QED BY <1>1, <1>4, <1>9, <2>5, <2>6 DEF TelemetryConstants
<1> QED BY <1>3, <1>8, <1>9, <1>10

\* The events that failed come first, as many of the newest as there is room for.
LEMMA RequeuedIs ==
    ASSUME TelemetryConstants, TelemetryInv
    PROVE  /\ Clearcut!Requeued \in Seq(1 .. logged) /\ Len(Clearcut!Requeued) <= MaxEvents /\ Ascends(Clearcut!Requeued)
           /\ Clearcut!ToSet(Clearcut!Requeued) \subseteq Clearcut!ToSet(sending) \cup Clearcut!ToSet(events)
           /\ Clearcut!ToSet(events) \subseteq Clearcut!ToSet(Clearcut!Requeued)
           /\ \A x \in Clearcut!ToSet(sending) \ Clearcut!ToSet(Clearcut!Requeued) : x + MaxRetry <= logged
<1>1. /\ logged \in Nat /\ MaxEvents \in Nat /\ MaxRetry \in Nat
      /\ events \in Seq(1 .. logged) /\ Ascends(events) /\ sending \in Seq(1 .. logged) /\ Ascends(sending)
      /\ Len(events) <= MaxEvents /\ Before(Clearcut!ToSet(sending), Clearcut!ToSet(events))
  BY DEF TelemetryConstants, TelemetryInv
<1>2. Len(events) \in Nat
  BY <1>1, MembersOf
<1>3. PICK room \in Nat : room = MaxEvents - Len(events)
  BY <1>1, <1>2
<1>4. PICK t : t = Clearcut!ToRetry(sending)
  OBVIOUS
<1>5. /\ t \in Seq(1 .. logged) /\ Clearcut!ToSet(t) \subseteq Clearcut!ToSet(sending) /\ Ascends(t)
      /\ Clearcut!ToSet(sending) \ Clearcut!ToSet(t) # {} => Len(t) = MaxRetry
      /\ Before(Clearcut!ToSet(sending) \ Clearcut!ToSet(t), Clearcut!ToSet(t))
  BY <1>1, <1>4, NewestOf DEF Clearcut!ToRetry
<1>6. PICK k : k = Clearcut!Newest(room, t)
  OBVIOUS
<1>7. /\ k \in Seq(1 .. logged) /\ Clearcut!ToSet(k) \subseteq Clearcut!ToSet(t) /\ Len(k) <= room /\ Ascends(k)
      /\ Clearcut!ToSet(t) \ Clearcut!ToSet(k) # {} => Len(k) = room
      /\ Before(Clearcut!ToSet(t) \ Clearcut!ToSet(k), Clearcut!ToSet(k))
  BY <1>1, <1>5, <1>6, NewestOf
<1>8. Clearcut!Requeued = k \o events
  BY <1>3, <1>4, <1>6 DEF Clearcut!Requeued, Clearcut!Requeues
<1>9. Before(Clearcut!ToSet(k), Clearcut!ToSet(events))
  BY <1>1, <1>5, <1>7 DEF Before
<1>10. /\ Clearcut!Requeued \in Seq(1 .. logged) /\ Len(Clearcut!Requeued) = Len(k) + Len(events)
       /\ Clearcut!ToSet(Clearcut!Requeued) = Clearcut!ToSet(k) \cup Clearcut!ToSet(events) /\ Ascends(Clearcut!Requeued)
  BY <1>1, <1>7, <1>8, <1>9, Joined
<1>11. Len(k) \in Nat
  BY <1>1, <1>7, MembersOf
<1>12. Len(Clearcut!Requeued) <= MaxEvents
  BY <1>1, <1>2, <1>3, <1>7, <1>10, <1>11
<1>13. ASSUME NEW x \in Clearcut!ToSet(sending) \ Clearcut!ToSet(Clearcut!Requeued) PROVE x + MaxRetry <= logged
  <2>0. x \in 1 .. logged
    BY <1>1, MembersOf
  <2>1. x \in Nat /\ x <= logged
    BY <1>1, <2>0
  <2>2. CASE x \notin Clearcut!ToSet(t)
    <3>1. Len(t) = MaxRetry /\ Before({x}, Clearcut!ToSet(t))
      BY <1>5, <2>2 DEF Before
    <3>2. x + Len(t) <= logged
      BY <1>1, <1>5, <2>1, <3>1, FarBelow
    <3> QED BY <3>1, <3>2
  <2>3. CASE x \in Clearcut!ToSet(t)
    <3>1. x \in Clearcut!ToSet(t) \ Clearcut!ToSet(k)
      BY <1>10, <1>13, <2>3
    <3>2. Len(k) = room
      BY <1>7, <3>1
    <3>3. Before({x}, Clearcut!ToSet(Clearcut!Requeued))
      BY <1>1, <1>7, <1>10, <3>1 DEF Before
    <3>4. x + Len(Clearcut!Requeued) <= logged
      BY <1>1, <1>10, <2>1, <3>3, FarBelow
    <3>5. Len(Clearcut!Requeued) = MaxEvents
      BY <1>1, <1>2, <1>3, <1>10, <3>2
    <3> QED BY <1>1, <2>1, <3>4, <3>5 DEF TelemetryConstants
  <2> QED BY <2>2, <2>3
<1> QED BY <1>5, <1>7, <1>10, <1>12, <1>13

\* Where the queue q goes when it is not added to the batch that is sent: it is sent, or
\* it waits.
Placed(q) ==
    \/ sending' = q /\ events' = <<>> /\ flushing'
    \/ sending' = <<>> /\ events' = q

LEMMA PlacedIs ==
    ASSUME NEW q, Placed(q), NEW n \in Nat, q \in Seq(1 .. n), Ascends(q), Len(q) <= MaxEvents, TelemetryConstants
    PROVE  /\ sending' \in Seq(1 .. n) /\ events' \in Seq(1 .. n)
           /\ Len(sending') <= MaxEvents /\ Len(events') <= MaxEvents
           /\ ~flushing' => sending' = <<>>
           /\ Ascends(sending') /\ Ascends(events') /\ Before(Clearcut!ToSet(sending'), Clearcut!ToSet(events'))
           /\ Clearcut!ToSet(sending') \cup Clearcut!ToSet(events') = Clearcut!ToSet(q)
<1>1. <<>> \in Seq(1 .. n) /\ Len(<<>>) <= MaxEvents /\ Ascends(<<>>) /\ Clearcut!ToSet(<<>>) = {}
  BY Nothing DEF TelemetryConstants
<1>2. CASE sending' = q /\ events' = <<>> /\ flushing'
  BY <1>1, <1>2 DEF Before
<1>3. CASE sending' = <<>> /\ events' = q
  BY <1>1, <1>3 DEF Before
<1> QED BY <1>2, <1>3 DEF Placed

LEMMA LogKeeps == ASSUME TelemetryConstants, TelemetryInv, Clearcut!Log PROVE TelemetryInv'
<1>1. PICK e : e = logged + 1
  OBVIOUS
<1>2. PICK q : q = Clearcut!Enqueued(e)
  OBVIOUS
<1>3. logged \in Nat /\ e \in Nat /\ e \in 0 .. MaxLogged /\ logged' = e /\ UNCHANGED <<due, received, unread>>
  BY <1>1 DEF Clearcut!Log, TelemetryInv, TelemetryConstants
<1>4. /\ q \in Seq(1 .. e) /\ Len(q) <= MaxEvents /\ Ascends(q)
      /\ Clearcut!ToSet(q) \subseteq Clearcut!ToSet(events) \cup {e} /\ e \in Clearcut!ToSet(q)
      /\ \A x \in Clearcut!ToSet(events) \ Clearcut!ToSet(q) : x + MaxRetry <= e
  BY <1>1, <1>2, EnqueuedIs
<1>5. /\ flushing' \in BOOLEAN /\ pendingFlush' \in BOOLEAN
      /\ \/ Placed(q) /\ sending = <<>>
         \/ sending' = sending /\ events' = q /\ flushing' = flushing
  <2>1. Clearcut!Flush(q) \/ (events' = q /\ UNCHANGED <<sending, flushing, pendingFlush>>)
    BY <1>1, <1>2 DEF Clearcut!Log
  <2> QED BY <2>1 DEF Clearcut!Flush, Placed, TelemetryInv
<1>6. /\ received \in Seq(1 .. e) /\ sending \in Seq(1 .. e)
  BY <1>1, <1>3, MoreNumbers DEF TelemetryInv
<1>7. \A x \in Clearcut!ToSet(received) \cup Clearcut!ToSet(sending) : x < e
  <2>1. \A x \in Clearcut!ToSet(received) \cup Clearcut!ToSet(sending) : x \in 1 .. logged
    BY <1>3, MembersOf DEF TelemetryInv
  <2> QED BY <1>1, <1>3, <2>1
<1>8. /\ sending' \in Seq(1 .. e) /\ events' \in Seq(1 .. e)
      /\ Len(sending') <= MaxEvents /\ Len(events') <= MaxEvents
      /\ ~flushing' => sending' = <<>>
      /\ Ascends(sending') /\ Ascends(events') /\ Before(Clearcut!ToSet(sending'), Clearcut!ToSet(events'))
      /\ Clearcut!ToSet(sending') \cup Clearcut!ToSet(events') = Clearcut!ToSet(sending) \cup Clearcut!ToSet(q)
  <2>1. CASE Placed(q) /\ sending = <<>>
    BY <1>3, <1>4, <2>1, PlacedIs, Nothing
  <2>2. CASE sending' = sending /\ events' = q /\ flushing' = flushing
    <3>1. Before(Clearcut!ToSet(sending), Clearcut!ToSet(q))
      BY <1>4, <1>7 DEF Before, TelemetryInv
    <3> QED BY <1>4, <1>6, <2>2, <3>1 DEF TelemetryInv
  <2> QED BY <1>5, <2>1, <2>2
<1>9. ~unread' => Ascends(received') /\ Before(Clearcut!ToSet(received'), Clearcut!ToSet(sending') \cup Clearcut!ToSet(events'))
  BY <1>3, <1>4, <1>7, <1>8 DEF TelemetryInv, Before
<1>10. ASSUME NEW x \in 1 .. e, x + MaxRetry > e
       PROVE  x \in Clearcut!ToSet(received') \cup Clearcut!ToSet(sending') \cup Clearcut!ToSet(events')
  <2>1. CASE x = e
    BY <1>4, <1>8, <2>1
  <2>2. CASE x # e
    <3>1. x \in 1 .. logged /\ x + MaxRetry > logged /\ ~(x + MaxRetry <= e)
      BY <1>1, <1>3, <1>10, <2>2 DEF TelemetryConstants
    <3>2. x \in Clearcut!ToSet(received) \cup Clearcut!ToSet(sending) \cup Clearcut!ToSet(events)
      BY <3>1 DEF TelemetryInv
    <3> QED BY <1>3, <1>4, <1>8, <3>1, <3>2
  <2> QED BY <2>1, <2>2
<1> QED BY <1>3, <1>5, <1>6, <1>8, <1>9, <1>10 DEF TelemetryInv

LEMMA FlushEndsPlaces ==
    ASSUME TelemetryInv, NEW q, Clearcut!FlushEnds(q)
    PROVE  Placed(q) /\ flushing' \in BOOLEAN /\ pendingFlush' \in BOOLEAN
BY DEF Clearcut!FlushEnds, Placed, TelemetryInv

LEMMA FlushSucceedsKeeps == ASSUME TelemetryConstants, TelemetryInv, Clearcut!FlushSucceeds PROVE TelemetryInv'
<1>1. logged \in Nat /\ UNCHANGED <<logged, unread>> /\ due' = FALSE /\ received' = received \o sending /\ Clearcut!FlushEnds(events)
  BY LoggedIsNat DEF Clearcut!FlushSucceeds
<1>2. /\ received \in Seq(1 .. logged) /\ sending \in Seq(1 .. logged) /\ events \in Seq(1 .. logged)
      /\ Ascends(sending) /\ Ascends(events) /\ Len(events) <= MaxEvents
      /\ Before(Clearcut!ToSet(sending), Clearcut!ToSet(events))
  BY DEF TelemetryInv
<1>3. Placed(events) /\ flushing' \in BOOLEAN /\ pendingFlush' \in BOOLEAN
  BY <1>1, FlushEndsPlaces
<1>4. /\ sending' \in Seq(1 .. logged) /\ events' \in Seq(1 .. logged)
      /\ Len(sending') <= MaxEvents /\ Len(events') <= MaxEvents
      /\ ~flushing' => sending' = <<>>
      /\ Ascends(sending') /\ Ascends(events') /\ Before(Clearcut!ToSet(sending'), Clearcut!ToSet(events'))
      /\ Clearcut!ToSet(sending') \cup Clearcut!ToSet(events') = Clearcut!ToSet(events)
  BY <1>1, <1>2, <1>3, PlacedIs
<1>5. /\ received' \in Seq(1 .. logged) /\ Clearcut!ToSet(received') = Clearcut!ToSet(received) \cup Clearcut!ToSet(sending)
      /\ Ascends(received) /\ Before(Clearcut!ToSet(received), Clearcut!ToSet(sending)) => Ascends(received')
  BY <1>1, <1>2, Joined
<1>6. ~unread' => Ascends(received') /\ Before(Clearcut!ToSet(received'), Clearcut!ToSet(sending') \cup Clearcut!ToSet(events'))
  BY <1>1, <1>2, <1>4, <1>5 DEF TelemetryInv, Before
<1>7. \A x \in 1 .. logged : x + MaxRetry > logged => x \in Clearcut!ToSet(received') \cup Clearcut!ToSet(sending') \cup Clearcut!ToSet(events')
  BY <1>4, <1>5 DEF TelemetryInv
<1> QED BY <1>1, <1>3, <1>4, <1>5, <1>6, <1>7 DEF TelemetryInv

LEMMA FlushFailsKeeps == ASSUME TelemetryConstants, TelemetryInv, Clearcut!FlushFails PROVE TelemetryInv'
<1>1. logged \in Nat /\ logged' = logged /\ Clearcut!FlushEnds(Clearcut!Requeued)
  BY LoggedIsNat DEF Clearcut!FlushFails
<1>2. due' \in BOOLEAN /\ unread' \in BOOLEAN
  BY DEF Clearcut!FlushFails, TelemetryInv
<1>3. (received' = received /\ unread' = unread) \/ (received' = received \o sending /\ unread')
  BY DEF Clearcut!FlushFails
<1>4. PICK q : q = Clearcut!Requeued
  OBVIOUS
<1>5. /\ q \in Seq(1 .. logged) /\ Len(q) <= MaxEvents /\ Ascends(q)
      /\ Clearcut!ToSet(q) \subseteq Clearcut!ToSet(sending) \cup Clearcut!ToSet(events) /\ Clearcut!ToSet(events) \subseteq Clearcut!ToSet(q)
      /\ \A x \in Clearcut!ToSet(sending) \ Clearcut!ToSet(q) : x + MaxRetry <= logged
  BY <1>4, RequeuedIs
<1>6. Placed(q) /\ flushing' \in BOOLEAN /\ pendingFlush' \in BOOLEAN
  BY <1>1, <1>4, FlushEndsPlaces
<1>7. /\ sending' \in Seq(1 .. logged) /\ events' \in Seq(1 .. logged)
      /\ Len(sending') <= MaxEvents /\ Len(events') <= MaxEvents
      /\ ~flushing' => sending' = <<>>
      /\ Ascends(sending') /\ Ascends(events') /\ Before(Clearcut!ToSet(sending'), Clearcut!ToSet(events'))
      /\ Clearcut!ToSet(sending') \cup Clearcut!ToSet(events') = Clearcut!ToSet(q)
  BY <1>1, <1>5, <1>6, PlacedIs
<1>8. received' \in Seq(1 .. logged) /\ Clearcut!ToSet(received) \subseteq Clearcut!ToSet(received')
  <2>1. received \in Seq(1 .. logged) /\ sending \in Seq(1 .. logged)
    BY DEF TelemetryInv
  <2>2. CASE received' = received
    BY <1>1, <2>1, <2>2
  <2>3. CASE received' = received \o sending
    <3>1. received \o sending \in Seq(1 .. logged) /\ Clearcut!ToSet(received \o sending) = Clearcut!ToSet(received) \cup Clearcut!ToSet(sending)
      BY <1>1, <2>1, Joined
    <3> QED BY <2>3, <3>1
  <2> QED BY <1>3, <2>2, <2>3
<1>9. ~unread' => Ascends(received') /\ Before(Clearcut!ToSet(received'), Clearcut!ToSet(sending') \cup Clearcut!ToSet(events'))
  BY <1>3, <1>5, <1>7 DEF TelemetryInv, Before
<1>10. ASSUME NEW x \in 1 .. logged, x + MaxRetry > logged
       PROVE  x \in Clearcut!ToSet(received') \cup Clearcut!ToSet(sending') \cup Clearcut!ToSet(events')
  <2>1. ~(x + MaxRetry <= logged)
    BY <1>1, <1>10 DEF TelemetryConstants
  <2> QED BY <1>5, <1>7, <1>8, <1>10, <2>1 DEF TelemetryInv
<1> QED BY <1>1, <1>2, <1>6, <1>7, <1>8, <1>9, <1>10 DEF TelemetryInv

LEMMA TelemetryStepKeeps == TelemetryConstants /\ TelemetryInv /\ [Clearcut!TelemetryNext]_(Clearcut!telemetryVars) => TelemetryInv'
<1> SUFFICES ASSUME TelemetryConstants, TelemetryInv, [Clearcut!TelemetryNext]_(Clearcut!telemetryVars) PROVE TelemetryInv'
  OBVIOUS
<1>1. CASE Clearcut!MinutePasses
  BY <1>1 DEF Clearcut!MinutePasses, TelemetryInv
<1>2. CASE UNCHANGED Clearcut!telemetryVars
  BY <1>2 DEF Clearcut!telemetryVars, TelemetryInv
<1> QED BY <1>1, <1>2, LogKeeps, FlushSucceedsKeeps, FlushFailsKeeps DEF Clearcut!TelemetryNext
-----------------------------------------------------------------------------
(* A shell command (ShellExecution) *)

LEMMA SameInShell == \A S : Shell!Cardinality(S) = Cardinality(S)
BY DEF Shell!Cardinality, Cardinality

Chunks == [n : Nat, stream : Shell!Stream, binary : BOOLEAN]
AllOut(chunks) == \A i \in 1 .. Len(chunks) : chunks[i].stream = "out"
\* The text of stream s has the chunks of that stream: the k-th of them is the k-th.
HasChunks(text, chunks, s) ==
    /\ Shell!Cardinality(Shell!Of(chunks, s)) = Len(text)
    /\ \A i \in Shell!Of(chunks, s) : text[Shell!Cardinality(Shell!Of(chunks, s) \cap 1 .. i)] = chunks[i]
IsFrom(x, s) == x.stream = s
HasOneMoreChunk(new, chunks, x) == new = Append(chunks, x)

LEMMA OneMoreChunk ==
    ASSUME NEW chunks \in Seq(Chunks), NEW x \in Chunks, NEW new, HasOneMoreChunk(new, chunks, x), NEW s
    PROVE  /\ Len(chunks) \in Nat /\ new \in Seq(Chunks) /\ Len(new) = Len(chunks) + 1
           /\ new[Len(chunks) + 1] = x /\ \A i \in 1 .. Len(chunks) : new[i] = chunks[i]
           /\ IsFrom(x, s) => Shell!Of(new, s) = Shell!Of(chunks, s) \cup {Len(chunks) + 1}
           /\ ~IsFrom(x, s) => Shell!Of(new, s) = Shell!Of(chunks, s)
           /\ AllOut(chunks) /\ IsFrom(x, "out") => AllOut(new)
<1>1. PICK n \in Nat : n = Len(chunks)
  BY LenProperties
<1>2. /\ new \in Seq(Chunks) /\ Len(new) = n + 1
      /\ new[n + 1] = x /\ \A i \in 1 .. n : new[i] = chunks[i]
  BY <1>1, AppendProperties DEF HasOneMoreChunk
<1>3. \A i : i \in 1 .. n + 1 <=> i \in 1 .. n \/ i = n + 1
  BY <1>1
<1>4. \A i : i \in Shell!Of(new, s) <=> (i \in 1 .. n /\ chunks[i].stream = s) \/ (i = n + 1 /\ x.stream = s)
  BY <1>2, <1>3 DEF Shell!Of
<1>5. Shell!Of(chunks, s) = {i \in 1 .. n : chunks[i].stream = s}
  BY <1>1 DEF Shell!Of
<1>6. IsFrom(x, s) => Shell!Of(new, s) = Shell!Of(chunks, s) \cup {n + 1}
  BY <1>4, <1>5 DEF IsFrom
<1>7. ~IsFrom(x, s) => Shell!Of(new, s) = Shell!Of(chunks, s)
  BY <1>4, <1>5 DEF IsFrom
<1>8. AllOut(chunks) /\ IsFrom(x, "out") => AllOut(new)
  BY <1>1, <1>2, <1>3 DEF AllOut, IsFrom
<1> QED BY <1>1, <1>2, <1>6, <1>7, <1>8

LEMMA FewChunks ==
    ASSUME NEW chunks \in Seq(Chunks), NEW s
    PROVE  /\ Shell!Of(chunks, s) \subseteq 1 .. Len(chunks) /\ Len(chunks) \in Nat
           /\ IsFiniteSet(Shell!Of(chunks, s)) /\ Shell!Cardinality(Shell!Of(chunks, s)) \in Nat
<1>1. Len(chunks) \in Nat
  BY LenProperties
<1>2. Shell!Of(chunks, s) \subseteq 1 .. Len(chunks)
  BY DEF Shell!Of
<1>3. IsFiniteSet(1 .. Len(chunks))
  BY <1>1, FS_Interval, SameInShell
<1> QED BY <1>1, <1>2, <1>3, FS_Subset, FS_CardinalityType, SameInShell

\* What is decoded is added to the text of its stream only.
LEMMA OthersDecode ==
    ASSUME NEW chunks \in Seq(Chunks), NEW x \in Chunks, NEW new, HasOneMoreChunk(new, chunks, x), NEW s, ~IsFrom(x, s),
           NEW text, HasChunks(text, chunks, s)
    PROVE  HasChunks(text, new, s)
<1>1. /\ Shell!Of(new, s) = Shell!Of(chunks, s)
      /\ \A i \in Shell!Of(chunks, s) : new[i] = chunks[i]
  <2>1. /\ Len(chunks) \in Nat /\ new \in Seq(Chunks) /\ Len(new) = Len(chunks) + 1
        /\ new[Len(chunks) + 1] = x /\ \A i \in 1 .. Len(chunks) : new[i] = chunks[i]
        /\ IsFrom(x, s) => Shell!Of(new, s) = Shell!Of(chunks, s) \cup {Len(chunks) + 1}
        /\ ~IsFrom(x, s) => Shell!Of(new, s) = Shell!Of(chunks, s)
    BY OneMoreChunk
  <2> QED BY <2>1, FewChunks
<1> QED BY <1>1 DEF HasChunks

LEMMA StreamDecodes ==
    ASSUME NEW chunks \in Seq(Chunks), NEW x \in Chunks, NEW new, HasOneMoreChunk(new, chunks, x), NEW s, IsFrom(x, s),
           NEW text \in Seq(Chunks), HasChunks(text, chunks, s)
    PROVE  HasChunks(Append(text, x), new, s)
<1>1. PICK n \in Nat : n = Len(chunks)
  BY LenProperties
<1>2. PICK p : p = Shell!Of(chunks, s)
  OBVIOUS
<1>3. /\ Shell!Of(new, s) = p \cup {n + 1} /\ new[n + 1] = x
      /\ \A i \in 1 .. n : new[i] = chunks[i]
  <2>1. /\ Len(chunks) \in Nat /\ new \in Seq(Chunks) /\ Len(new) = Len(chunks) + 1
        /\ new[Len(chunks) + 1] = x /\ \A i \in 1 .. Len(chunks) : new[i] = chunks[i]
        /\ IsFrom(x, s) => Shell!Of(new, s) = Shell!Of(chunks, s) \cup {Len(chunks) + 1}
        /\ ~IsFrom(x, s) => Shell!Of(new, s) = Shell!Of(chunks, s)
    BY OneMoreChunk
  <2> QED BY <1>1, <1>2, <2>1
<1>4. p \subseteq 1 .. n /\ IsFiniteSet(p) /\ Shell!Cardinality(p) \in Nat
  BY <1>1, <1>2, FewChunks
<1>5. n + 1 \notin p
  BY <1>4
<1>6. Shell!Cardinality(p \cup {n + 1}) = Shell!Cardinality(p) + 1
  BY <1>4, <1>5, FS_AddElement, SameInShell
<1>8. PICK k \in Nat : k = Len(text)
  BY LenProperties
<1>9. PICK then : then = Append(text, x)
  OBVIOUS
<1>10. Len(then) = k + 1 /\ then[k + 1] = x /\ \A i \in 1 .. k : then[i] = text[i]
  BY <1>8, <1>9, AppendProperties
<1>11. Shell!Cardinality(p) = k /\ \A i \in p : chunks[i] = text[Shell!Cardinality(p \cap 1 .. i)]
  BY <1>2, <1>8 DEF HasChunks
<1>12. ASSUME NEW i \in p PROVE new[i] = then[Shell!Cardinality((p \cup {n + 1}) \cap 1 .. i)]
  <2>1. i \in 1 .. n /\ n + 1 \notin 1 .. i
    BY <1>4
  <2>2. (p \cup {n + 1}) \cap 1 .. i = p \cap 1 .. i
    BY <2>1
  <2>3. i \in p \cap 1 .. i
    BY <1>4
  <2>4. /\ IsFiniteSet(p \cap 1 .. i) /\ Shell!Cardinality(p \cap 1 .. i) <= Shell!Cardinality(p)
        /\ Shell!Cardinality(p \cap 1 .. i) \in Nat
    BY <1>4, FS_Subset, FS_CardinalityType, SameInShell
  <2>5. Shell!Cardinality(p \cap 1 .. i) # 0
    BY <2>3, <2>4, FS_EmptySet, SameInShell
  <2>6. Shell!Cardinality(p \cap 1 .. i) \in 1 .. k
    BY <1>11, <2>4, <2>5
  <2> QED BY <1>3, <1>10, <1>11, <2>1, <2>2, <2>6
<1>13. new[n + 1] = then[Shell!Cardinality((p \cup {n + 1}) \cap 1 .. n + 1)]
  <2>1. (p \cup {n + 1}) \cap 1 .. n + 1 = p \cup {n + 1}
    <3>1. \A i \in p \cup {n + 1} : i \in 1 .. n + 1
      BY <1>4
    <3> QED BY <3>1
  <2> QED BY <1>3, <1>6, <1>10, <1>11, <2>1
<1> QED BY <1>3, <1>6, <1>9, <1>10, <1>11, <1>12, <1>13 DEF HasChunks

\* Output that is all of stdout is its own text.
LEMMA OutIsText ==
    ASSUME NEW chunks \in Seq(Chunks), AllOut(chunks)
    PROVE  HasChunks(chunks, chunks, "out") /\ HasChunks(<<>>, chunks, "err")
<1>1. PICK n \in Nat : n = Len(chunks)
  BY LenProperties
<1>2. Shell!Of(chunks, "out") = 1 .. n /\ Shell!Of(chunks, "err") = {}
  BY <1>1 DEF Shell!Of, AllOut
<1>3. \A k \in Nat : Shell!Cardinality(1 .. k) = k
  BY FS_Interval, SameInShell
<1>4. ASSUME NEW i \in 1 .. n PROVE Shell!Cardinality((1 .. n) \cap 1 .. i) = i
  <2>1. (1 .. n) \cap 1 .. i = 1 .. i
    BY <1>1
  <2>2. i \in Nat
    BY <1>1
  <2>3. Shell!Cardinality(1 .. i) = i
    BY <1>3, <2>2
  <2> QED BY <2>1, <2>3
<1>5. Shell!Cardinality({}) = 0 /\ Len(<<>>) = 0
  BY FS_EmptySet, SameInShell
<1> QED BY <1>1, <1>2, <1>3, <1>4, <1>5 DEF HasChunks

\* The texts of both streams are the text of what was delivered.
LEMMA TextsJoin ==
    ASSUME NEW chunks \in Seq(Chunks), NEW a \in Seq(Chunks), NEW b \in Seq(Chunks),
           HasChunks(a, chunks, "out"), HasChunks(b, chunks, "err")
    PROVE  Shell!IsTextOf(a \o b, chunks)
<1>1. PICK n \in Nat : n = Len(chunks)
  BY LenProperties
<1>2. PICK p \in Nat : p = Len(a)
  BY LenProperties
<1>3. PICK q \in Nat : q = Len(b)
  BY LenProperties
<1>4. PICK t : t = a \o b
  OBVIOUS
<1>5. Len(t) = p + q /\ (\A i \in 1 .. p : t[i] = a[i]) /\ (\A i \in 1 .. q : t[p + i] = b[i])
  <2>1. /\ Len(t) = p + q /\ \A i \in 1 .. p + q : t[i] = IF i <= p THEN a[i] ELSE b[i - p]
    BY <1>2, <1>3, <1>4, ConcatProperties
  <2>2. \A i \in 1 .. q : p + i \in 1 .. p + q /\ ~(p + i <= p) /\ (p + i) - p = i
    BY <1>2, <1>3
  <2>3. \A i \in 1 .. p : i \in 1 .. p + q /\ i <= p
    BY <1>2, <1>3
  <2> QED BY <2>1, <2>2, <2>3
<1>6. PICK o : o = Shell!Of(chunks, "out")
  OBVIOUS
<1>7. PICK e : e = Shell!Of(chunks, "err")
  OBVIOUS
<1>8. /\ o \subseteq 1 .. n /\ e \subseteq 1 .. n /\ IsFiniteSet(o) /\ IsFiniteSet(e)
      /\ Shell!Cardinality(o) = p /\ Shell!Cardinality(e) = q
      /\ \A i \in o : a[Shell!Cardinality(o \cap 1 .. i)] = chunks[i]
      /\ \A i \in e : b[Shell!Cardinality(e \cap 1 .. i)] = chunks[i]
  BY <1>1, <1>2, <1>3, <1>6, <1>7, FewChunks DEF HasChunks
<1>9. /\ \A i \in 1 .. n : chunks[i].stream = "out" \/ chunks[i].stream = "err"
      /\ \A i \in 1 .. n : i \in o <=> chunks[i].stream = "out"
      /\ \A i \in 1 .. n : i \in e <=> chunks[i].stream = "err"
  <2>1. \A i \in 1 .. n : chunks[i] \in Chunks
    BY <1>1, ElementOfSeq
  <2> QED BY <1>1, <1>6, <1>7, <2>1 DEF Chunks, Shell!Stream, Shell!Of
<1>10. p + q = n
  <2>1. o \cup e = 1 .. n /\ o \cap e = {}
    BY <1>8, <1>9
  <2>2. Shell!Cardinality(o \cup e) = Shell!Cardinality(o) + Shell!Cardinality(e)
    <3>1. Shell!Cardinality(o \cup e) = Shell!Cardinality(o) + Shell!Cardinality(e) - Shell!Cardinality(o \cap e)
      BY <1>8, FS_Union, SameInShell
    <3>2. Shell!Cardinality(o \cap e) = 0
      BY <2>1, FS_EmptySet, SameInShell
    <3> QED BY <1>8, <3>1, <3>2
  <2>3. Shell!Cardinality(1 .. n) = n
    BY FS_Interval, SameInShell
  <2> QED BY <1>8, <2>1, <2>2, <2>3
<1>11. ASSUME NEW S, S \subseteq 1 .. n, IsFiniteSet(S), NEW i \in S
       PROVE  Shell!Cardinality(S \cap 1 .. i) \in 1 .. Shell!Cardinality(S)
  <2>1. /\ IsFiniteSet(S \cap 1 .. i) /\ Shell!Cardinality(S \cap 1 .. i) <= Shell!Cardinality(S)
        /\ Shell!Cardinality(S \cap 1 .. i) \in Nat /\ Shell!Cardinality(S) \in Nat
    BY <1>11, FS_Subset, FS_CardinalityType, SameInShell
  <2>2. i \in S \cap 1 .. i
    BY <1>11
  <2>3. Shell!Cardinality(S \cap 1 .. i) # 0
    BY <2>1, <2>2, FS_EmptySet, SameInShell
  <2> QED BY <2>1, <2>3
<1>12. ASSUME NEW i \in 1 .. n PROVE t[Shell!Place(chunks, i)] = chunks[i]
  <2>1. CASE chunks[i].stream = "out"
    <3>1. i \in o
      BY <1>9, <2>1
    <3>2. Shell!Place(chunks, i) = Shell!Cardinality(o \cap 1 .. i)
      BY <1>6, <2>1 DEF Shell!Place
    <3>3. Shell!Cardinality(o \cap 1 .. i) \in 1 .. p
      BY <1>8, <1>11, <3>1
    <3> QED BY <1>5, <1>8, <3>1, <3>2, <3>3
  <2>2. CASE chunks[i].stream = "err"
    <3>1. i \in e
      BY <1>9, <2>2
    <3>2. Shell!Place(chunks, i) = p + Shell!Cardinality(e \cap 1 .. i)
      BY <1>6, <1>7, <1>8, <2>2 DEF Shell!Place
    <3>3. Shell!Cardinality(e \cap 1 .. i) \in 1 .. q
      BY <1>8, <1>11, <3>1
    <3> QED BY <1>5, <1>8, <3>1, <3>2, <3>3
  <2> QED BY <1>9, <2>1, <2>2
<1> QED BY <1>1, <1>4, <1>5, <1>10, <1>12 DEF Shell!IsTextOf

-----------------------------------------------------------------------------
\* What was delivered and is not looked at yet, and what the terminal will have shown
Rest == IF isWriting THEN Tail(processing) ELSE processing
Seen == IF isWriting THEN Append(screen["out"], Head(processing)) ELSE screen["out"]
Showing(text) == IF text = <<>> THEN Shell!NoText ELSE [kind |-> "text", text |-> text]

ShellTypes ==
    /\ pipe \in Seq(Chunks) /\ processing \in Seq(Chunks) /\ delivered \in Seq(Chunks)
    /\ outputChunks \in Seq(Chunks) /\ screen \in [Shell!Stream -> Seq(Chunks)]
    /\ isWriting \in BOOLEAN /\ streaming \in BOOLEAN /\ renderTimeout \in BOOLEAN /\ exited \in BOOLEAN
PtyInv ==
    /\ AllOut(pipe) /\ AllOut(processing) /\ AllOut(outputChunks)
    /\ isWriting => streaming /\ processing # <<>>
    /\ delivered = outputChunks \o Rest
    /\ streaming => outputChunks = Seen
    /\ ~streaming => display = Shell!Binary
    /\ screen["err"] = <<>>
ChildInv ==
    /\ delivered = outputChunks /\ processing = <<>> /\ ~isWriting /\ ~renderTimeout
    /\ ~exited => display = Shell!NoText
    /\ streaming => \A s \in Shell!Stream : HasChunks(screen[s], outputChunks, s)
DisplayInv == streaming => display = Shell!NoText \/ (display.kind = "text" /\ Shell!Combined(screen) # <<>>)
EndInv ==
    shellResult.at = "done" =>
      /\ exited /\ phase = "done" /\ processing = <<>> /\ ~isWriting /\ ~renderTimeout
      /\ shellResult.raw = outputChunks /\ shellResult.output = Shell!Combined(screen)
      /\ streaming => display = Showing(Shell!Combined(screen))
      /\ ~streaming => display = Shell!Binary

\* A pseudo-terminal shows what it was given, in order, up to the chunk it is at; a
\* child's output is all there; and the result is not followed by any more of either.
ShellInv == ShellTypes /\ (Shell!Pty => PtyInv) /\ (~Shell!Pty => ChildInv) /\ DisplayInv /\ EndInv

-----------------------------------------------------------------------------
\* The chunks of a sequence one after the other
LEMMA FirstChunk ==
    ASSUME NEW chunks \in Seq(Chunks), chunks # <<>>
    PROVE  /\ Head(chunks) \in Chunks /\ Tail(chunks) \in Seq(Chunks)
           /\ AllOut(chunks) => AllOut(Tail(chunks)) /\ Head(chunks).stream = "out"
<1>1. PICK n \in Nat : n = Len(chunks)
  BY LenProperties
<1>2. n # 0
  BY <1>1, EmptySeq
<1>3. /\ Head(chunks) \in Chunks /\ Tail(chunks) \in Seq(Chunks)
      /\ Head(chunks) = chunks[1] /\ Len(Tail(chunks)) = n - 1
      /\ \A i \in 1 .. n - 1 : Tail(chunks)[i] = chunks[i + 1]
  BY <1>1, HeadTailProperties
<1>4. 1 \in 1 .. n /\ \A i \in 1 .. n - 1 : i + 1 \in 1 .. n
  BY <1>2
<1> QED BY <1>1, <1>3, <1>4 DEF AllOut

LEMMA ChunksMove ==
    ASSUME NEW s \in Seq(Chunks), NEW p \in Seq(Chunks), p # <<>>
    PROVE  Append(s, Head(p)) \o Tail(p) = s \o p
OBVIOUS

LEMMA ChunkAdded ==
    ASSUME NEW s \in Seq(Chunks), NEW p \in Seq(Chunks), NEW x \in Chunks
    PROVE  /\ s \o Append(p, x) = Append(s \o p, x) /\ Append(p, x) # <<>> /\ Append(p, x) \in Seq(Chunks)
           /\ p # <<>> => Tail(Append(p, x)) = Append(Tail(p), x) /\ Head(Append(p, x)) = Head(p)
OBVIOUS

\* What is decoded is text.
LEMMA DecodedIsText ==
    ASSUME screen \in [Shell!Stream -> Seq(Chunks)], NEW x \in Chunks, Shell!Decodes(x)
    PROVE  /\ screen' \in [Shell!Stream -> Seq(Chunks)] /\ Shell!Combined(screen)' # <<>>
           /\ \A s \in Shell!Stream : screen'[s] = IF IsFrom(x, s) THEN Append(screen[s], x) ELSE screen[s]
<1>1. x.stream \in {"out", "err"} /\ Shell!Stream = {"out", "err"}
  BY DEF Chunks, Shell!Stream
<1>2. screen["out"] \in Seq(Chunks) /\ screen["err"] \in Seq(Chunks)
  BY <1>1
<1>3. screen' = [screen EXCEPT ![x.stream] = Append(screen[x.stream], x)]
  BY DEF Shell!Decodes
<1>4. \A s \in Shell!Stream : screen'[s] = IF IsFrom(x, s) THEN Append(screen[s], x) ELSE screen[s]
  BY <1>1, <1>3 DEF IsFrom
<1>5. screen' \in [Shell!Stream -> Seq(Chunks)]
  <2>1. Append(screen[x.stream], x) \in Seq(Chunks)
    BY <1>1, AppendProperties
  <2> QED BY <1>1, <1>3, <2>1
<1>6. screen'["out"] # <<>> \/ screen'["err"] # <<>>
  <2>1. \A t \in Seq(Chunks) : Append(t, x) # <<>>
    BY ChunkAdded
  <2> QED BY <1>1, <1>2, <1>4, <2>1 DEF IsFrom
<1>7. screen'["out"] \in Seq(Chunks) /\ screen'["err"] \in Seq(Chunks)
  BY <1>1, <1>5
<1>8. screen'["out"] \o screen'["err"] # <<>>
  BY <1>6, <1>7, ConcatEqualIffEmpty, ConcatSimplifications
<1> QED BY <1>4, <1>5, <1>8 DEF Shell!Combined

LEMMA ShellInvImplies == ShellInv => Shell!OutputIsWhole
<1> SUFFICES ASSUME ShellInv, shellResult.at = "done" PROVE Shell!OutputIsWhole
  BY DEF Shell!OutputIsWhole
<1>1. /\ outputChunks \in Seq(Chunks) /\ screen["out"] \in Seq(Chunks) /\ screen["err"] \in Seq(Chunks)
      /\ processing = <<>> /\ ~isWriting /\ shellResult.raw = outputChunks /\ shellResult.output = Shell!Combined(screen)
  BY DEF ShellInv, ShellTypes, EndInv, Shell!Stream
<1>2. delivered = outputChunks
  BY <1>1, ConcatEmptySeq DEF ShellInv, PtyInv, ChildInv, Rest
<1>3. ASSUME streaming
      PROVE  HasChunks(screen["out"], delivered, "out") /\ HasChunks(screen["err"], delivered, "err")
  <2>1. CASE Shell!Pty
    <3>1. AllOut(outputChunks) /\ outputChunks = screen["out"] /\ screen["err"] = <<>>
      BY <1>1, <1>3, <2>1 DEF ShellInv, PtyInv, Seen
    <3> QED BY <1>1, <1>2, <3>1, OutIsText
  <2>2. CASE ~Shell!Pty
    BY <1>2, <1>3, <2>2 DEF ShellInv, ChildInv, Shell!Stream
  <2> QED BY <2>1, <2>2
<1>4. streaming => Shell!IsTextOf(Shell!Combined(screen), delivered)
  BY <1>1, <1>2, <1>3, TextsJoin DEF Shell!Combined
<1>5. streaming => (Shell!Combined(screen) = <<>> <=> delivered = <<>>)
  <2>1. Shell!Combined(screen) \in Seq(Chunks)
    BY <1>1, ConcatProperties DEF Shell!Combined
  <2>2. \A t \in Seq(Chunks) : t = <<>> <=> Len(t) = 0
    BY EmptySeq
  <2> QED BY <1>1, <1>2, <1>4, <2>1, <2>2 DEF Shell!IsTextOf
<1>6. /\ streaming => display = Showing(Shell!Combined(screen))
      /\ ~streaming => display = Shell!Binary
  BY DEF ShellInv, EndInv
<1>7. /\ [kind |-> "text", text |-> Shell!Combined(screen)].kind = "text"
      /\ [kind |-> "text", text |-> Shell!Combined(screen)].text = Shell!Combined(screen)
  OBVIOUS
<1> QED BY <1>1, <1>2, <1>4, <1>5, <1>6, <1>7 DEF Shell!OutputIsWhole, Showing

LEMMA ShellInitHolds == Shell!ShellInit => ShellInv
<1> SUFFICES ASSUME Shell!ShellInit PROVE ShellInv
  OBVIOUS
<1>1. <<>> \in Seq(Chunks) /\ AllOut(<<>>) /\ <<>> \o <<>> = <<>>
  BY EmptySeq, ConcatEmptySeq DEF AllOut
<1>2. ShellTypes
  BY <1>1 DEF Shell!ShellInit, ShellTypes
<1>3. PtyInv
  BY <1>1 DEF Shell!ShellInit, PtyInv, Rest, Seen, Shell!Stream
<1>4. \A s \in Shell!Stream : HasChunks(<<>>, <<>>, s)
  <2>1. Shell!Cardinality({}) = 0 /\ Len(<<>>) = 0 /\ \A s : Shell!Of(<<>>, s) = {}
    BY FS_EmptySet, SameInShell DEF Shell!Of
  <2> QED BY <2>1 DEF HasChunks
<1>5. ChildInv
  BY <1>4 DEF Shell!ShellInit, ChildInv
<1>6. DisplayInv /\ EndInv
  BY DEF Shell!ShellInit, DisplayInv, EndInv, Shell!NoResult, Shell!NoText
<1> QED BY <1>2, <1>3, <1>5, <1>6 DEF ShellInv

-----------------------------------------------------------------------------
\* What changes neither the output nor its result
LEMMA QuietKeeps ==
    ASSUME ShellInv, UNCHANGED <<shellWorld, Shell!terminal, renderTimeout, display, exited, delivered>>,
           pipe' \in Seq(Chunks), Shell!Pty => AllOut(pipe'),
           shellResult'.at = "done" => shellResult' = shellResult /\ phase' = phase
    PROVE  ShellInv'
<1>1. UNCHANGED <<shellWorld, processing, isWriting, outputChunks, screen, streaming, renderTimeout, display, exited,
                  delivered>>
  BY DEF Shell!terminal
<1>2. (Shell!Pty' <=> Shell!Pty) /\ Rest' = Rest /\ Seen' = Seen /\ Shell!Combined(screen)' = Shell!Combined(screen)
  BY <1>1 DEF Shell!Pty, Rest, Seen, Shell!Combined
<1>3. ShellTypes'
  BY <1>1 DEF ShellInv, ShellTypes
<1>4. Shell!Pty => PtyInv'
  BY <1>1, <1>2 DEF ShellInv, PtyInv
<1>5. ~Shell!Pty => ChildInv'
  BY <1>1 DEF ShellInv, ChildInv
<1>6. DisplayInv'
  BY <1>1, <1>2 DEF ShellInv, DisplayInv
<1>7. EndInv'
  BY <1>1, <1>2 DEF ShellInv, EndInv
<1> QED BY <1>2, <1>3, <1>4, <1>5, <1>6, <1>7 DEF ShellInv

LEMMA QuietStepKeeps ==
    ShellInv /\ (Shell!Execute \/ Shell!Spawn \/ Shell!SpawnFails \/ Shell!CommandEnds \/ Shell!Abort \/ Shell!KillTimeout) => ShellInv'
<1> SUFFICES ASSUME ShellInv, Shell!Execute \/ Shell!Spawn \/ Shell!SpawnFails \/ Shell!CommandEnds \/ Shell!Abort \/ Shell!KillTimeout
             PROVE  ShellInv'
  OBVIOUS
<1>1. UNCHANGED <<shellWorld, Shell!terminal, pipe, renderTimeout, display, exited, delivered>>
  BY DEF Shell!Execute, Shell!Spawn, Shell!SpawnFails, Shell!CommandEnds, Shell!Abort,
     Shell!KillTimeout, Shell!control
<1>2. pipe' \in Seq(Chunks) /\ (Shell!Pty => AllOut(pipe'))
  BY <1>1 DEF ShellInv, ShellTypes, PtyInv
<1>3. shellResult.at = "done" => phase = "done"
  BY DEF ShellInv, EndInv
<1>4. shellResult'.at = "done" => shellResult' = shellResult /\ phase' = phase
  <2>1. CASE Shell!Execute
    <3>1. [Shell!NoResult EXCEPT !.at = "cancelled"].at = "cancelled"
      BY DEF Shell!NoResult
    <3> QED BY <1>3, <2>1, <3>1 DEF Shell!Execute
  <2>2. CASE Shell!Spawn
    BY <1>3, <2>2 DEF Shell!Spawn
  <2>3. CASE Shell!SpawnFails
    <3>1. [Shell!NoResult EXCEPT !.at = "failed"].at = "failed"
      BY DEF Shell!NoResult
    <3> QED BY <1>3, <2>3, <3>1 DEF Shell!SpawnFails
  <2>4. CASE Shell!CommandEnds \/ Shell!Abort \/ Shell!KillTimeout
    BY <2>4 DEF Shell!CommandEnds, Shell!Abort, Shell!KillTimeout
  <2> QED BY <2>1, <2>2, <2>3, <2>4
<1> QED BY <1>1, <1>2, <1>4, QuietKeeps

LEMMA OutputsKeeps == ShellInv /\ Shell!Outputs => ShellInv'
<1> SUFFICES ASSUME ShellInv, Shell!Outputs PROVE ShellInv'
  OBVIOUS
<1>1. /\ UNCHANGED <<shellWorld, Shell!terminal, renderTimeout, display, exited, delivered>>
      /\ UNCHANGED <<shellResult, phase>>
  BY DEF Shell!Outputs, Shell!control
<1>2. PICK stream \in {"out"} \cup (IF Shell!Pty THEN {} ELSE {"err"}), binary \in BOOLEAN :
        pipe' = Append(pipe, [n |-> Len(delivered) + Len(pipe) + 1, stream |-> stream, binary |-> binary])
  BY DEF Shell!Outputs
<1>3. pipe \in Seq(Chunks) /\ Len(pipe) \in Nat /\ Len(delivered) \in Nat
  BY LenProperties DEF ShellInv, ShellTypes
<1>4. PICK n \in Nat : n = Len(delivered) + Len(pipe) + 1
  BY <1>3
<1>5. PICK x : x = [n |-> n, stream |-> stream, binary |-> binary]
  OBVIOUS
<1>6. x \in Chunks /\ (Shell!Pty => IsFrom(x, "out"))
  BY <1>5 DEF Chunks, Shell!Stream, IsFrom
<1>7. HasOneMoreChunk(pipe', pipe, x)
  BY <1>2, <1>4, <1>5 DEF HasOneMoreChunk
<1>8. pipe' \in Seq(Chunks) /\ (AllOut(pipe) /\ IsFrom(x, "out") => AllOut(pipe'))
  BY <1>3, <1>6, <1>7, OneMoreChunk
<1>9. Shell!Pty => AllOut(pipe')
  BY <1>6, <1>8 DEF ShellInv, PtyInv
<1> QED BY <1>1, <1>8, <1>9, QuietKeeps

\* A chunk that is looked at comes after those that were.
LEMMA SniffedIs ==
    ASSUME ShellInv, NEW x \in Chunks, Shell!Sniff(x)
    PROVE  /\ HasOneMoreChunk(outputChunks', outputChunks, x) /\ outputChunks' \in Seq(Chunks)
           /\ streaming' \in BOOLEAN /\ (streaming' => streaming)
           /\ AllOut(outputChunks) /\ IsFrom(x, "out") => AllOut(outputChunks')
<1>1. HasOneMoreChunk(outputChunks', outputChunks, x)
  BY DEF Shell!Sniff, HasOneMoreChunk
<1>2. outputChunks \in Seq(Chunks) /\ streaming \in BOOLEAN
  BY DEF ShellInv, ShellTypes
<1>3. outputChunks' \in Seq(Chunks) /\ (AllOut(outputChunks) /\ IsFrom(x, "out") => AllOut(outputChunks'))
  BY <1>1, <1>2, OneMoreChunk
<1>4. streaming' \in BOOLEAN /\ (streaming' => streaming)
  BY <1>2 DEF Shell!Sniff
<1> QED BY <1>1, <1>3, <1>4

LEMMA DataKeeps == ShellInv /\ Shell!Data => ShellInv'
<1> SUFFICES ASSUME ShellInv, Shell!Data PROVE ShellInv'
  OBVIOUS
<1>1. PICK x : x = Head(pipe)
  OBVIOUS
<1>2. /\ x \in Chunks /\ pipe' \in Seq(Chunks) /\ (AllOut(pipe) => AllOut(pipe') /\ IsFrom(x, "out"))
      /\ pipe' = Tail(pipe) /\ delivered' = Append(delivered, x) /\ ~exited
  <2>1. pipe \in Seq(Chunks) /\ pipe # <<>> /\ pipe' = Tail(pipe)
    BY DEF ShellInv, ShellTypes, Shell!Data
  <2> QED BY <1>1, <2>1, FirstChunk DEF Shell!Data, IsFrom
<1>3. /\ UNCHANGED <<shellWorld, isWriting, renderTimeout, display, exited, shellResult>>
      /\ (Shell!Pty' <=> Shell!Pty)
  BY DEF Shell!Data, Shell!control, Shell!Pty
<1>4. delivered \in Seq(Chunks) /\ delivered' \in Seq(Chunks)
  BY <1>2, AppendProperties DEF ShellInv, ShellTypes
<1>5. shellResult.at # "done"
  BY <1>2 DEF ShellInv, EndInv
<1>6. EndInv'
  BY <1>3, <1>5 DEF EndInv
<1>7. CASE Shell!Pty
  <2>1. processing' = Append(processing, x) /\ UNCHANGED <<outputChunks, screen, streaming, sniffing>>
    BY <1>1, <1>7 DEF Shell!Data
  <2>2. processing \in Seq(Chunks) /\ outputChunks \in Seq(Chunks) /\ isWriting \in BOOLEAN
    BY DEF ShellInv, ShellTypes
  <2>3. ShellTypes'
    BY <1>2, <1>3, <1>4, <2>1, <2>2, ChunkAdded DEF ShellInv, ShellTypes
  <2>4. HasOneMoreChunk(processing', processing, x)
    BY <2>1 DEF HasOneMoreChunk
  <2>5. /\ AllOut(pipe) /\ AllOut(processing) /\ AllOut(outputChunks) /\ delivered = outputChunks \o Rest
        /\ isWriting => streaming /\ processing # <<>>
        /\ streaming => outputChunks = Seen
    BY <1>7 DEF ShellInv, PtyInv
  <2>6. AllOut(processing')
    BY <1>2, <2>2, <2>4, <2>5, OneMoreChunk
  <2>7. Rest' = Append(Rest, x) /\ Seen' = Seen /\ Rest \in Seq(Chunks)
    <3>1. CASE isWriting
      <4>1. Tail(processing) \in Seq(Chunks)
        BY <2>2, <2>5, <3>1, FirstChunk
      <4>2. Tail(processing') = Append(Tail(processing), x) /\ Head(processing') = Head(processing)
        BY <1>2, <2>1, <2>2, <2>5, <3>1, ChunkAdded
      <4> QED BY <1>3, <2>1, <3>1, <4>1, <4>2 DEF Rest, Seen
    <3>2. CASE ~isWriting
      BY <1>3, <2>1, <2>2, <3>2 DEF Rest, Seen
    <3> QED BY <3>1, <3>2
  <2>8. delivered' = outputChunks' \o Rest'
    <3>1. outputChunks \o Append(Rest, x) = Append(outputChunks \o Rest, x)
      BY <1>2, <2>2, <2>7, ChunkAdded
    <3> QED BY <1>2, <2>1, <2>5, <2>7, <3>1
  <2>9. processing' # <<>>
    BY <1>2, <2>1, <2>2, ChunkAdded
  <2>10. PtyInv'
    <3>1. (~streaming => display = Shell!Binary) /\ screen["err"] = <<>>
      BY <1>7 DEF ShellInv, PtyInv
    <3> QED BY <1>2, <1>3, <2>1, <2>5, <2>6, <2>7, <2>8, <2>9, <3>1 DEF PtyInv, Shell!Binary
  <2>11. DisplayInv'
    BY <1>3, <2>1 DEF ShellInv, DisplayInv, Shell!Combined, Shell!NoText
  <2> QED BY <1>3, <1>6, <1>7, <2>3, <2>10, <2>11 DEF ShellInv
<1>8. CASE ~Shell!Pty
  <2>1. /\ Shell!Sniff(x) /\ processing' = processing
        /\ streaming' => Shell!Decodes(x)
        /\ ~streaming' => screen' = screen
    BY <1>1, <1>8 DEF Shell!Data
  <2>2. /\ HasOneMoreChunk(outputChunks', outputChunks, x) /\ outputChunks' \in Seq(Chunks)
        /\ streaming' \in BOOLEAN /\ (streaming' => streaming)
    BY <1>2, <2>1, SniffedIs
  <2>3. /\ delivered = outputChunks /\ processing = <<>> /\ ~isWriting /\ ~renderTimeout /\ display = Shell!NoText
        /\ streaming => \A s \in Shell!Stream : HasChunks(screen[s], outputChunks, s)
    BY <1>2, <1>8 DEF ShellInv, ChildInv
  <2>4. screen \in [Shell!Stream -> Seq(Chunks)] /\ outputChunks \in Seq(Chunks)
    BY DEF ShellInv, ShellTypes
  <2>5. ASSUME streaming'
        PROVE  /\ screen' \in [Shell!Stream -> Seq(Chunks)]
               /\ \A s \in Shell!Stream : screen'[s] = IF IsFrom(x, s) THEN Append(screen[s], x) ELSE screen[s]
    BY <1>2, <2>1, <2>4, <2>5, DecodedIsText
  <2>6. screen' \in [Shell!Stream -> Seq(Chunks)]
    BY <2>1, <2>2, <2>4, <2>5
  <2>7. ASSUME streaming', NEW s \in Shell!Stream PROVE HasChunks(screen'[s], outputChunks', s)
    <3>1. HasChunks(screen[s], outputChunks, s) /\ screen[s] \in Seq(Chunks)
      BY <2>2, <2>3, <2>4, <2>7
    <3>2. CASE IsFrom(x, s)
      <4>1. HasChunks(Append(screen[s], x), outputChunks', s)
        BY <1>2, <2>2, <2>4, <3>1, <3>2, StreamDecodes
      <4> QED BY <2>5, <2>7, <3>2, <4>1
    <3>3. CASE ~IsFrom(x, s)
      <4>1. HasChunks(screen[s], outputChunks', s)
        BY <1>2, <2>2, <2>4, <3>1, <3>3, OthersDecode
      <4> QED BY <2>5, <2>7, <3>3, <4>1
    <3> QED BY <3>2, <3>3
  <2>8. ShellTypes'
    BY <1>2, <1>3, <1>4, <2>1, <2>2, <2>6 DEF ShellInv, ShellTypes
  <2>9. delivered' = outputChunks'
    BY <1>2, <2>2, <2>3 DEF HasOneMoreChunk
  <2>10. ChildInv'
    BY <1>3, <2>1, <2>3, <2>7, <2>9 DEF ChildInv, Shell!NoText
  <2>11. DisplayInv'
    BY <1>3, <2>3 DEF DisplayInv, Shell!NoText
  <2> QED BY <1>3, <1>6, <1>8, <2>8, <2>10, <2>11 DEF ShellInv
<1> QED BY <1>7, <1>8

LEMMA ProcessKeeps == ShellInv /\ Shell!Process => ShellInv'
<1> SUFFICES ASSUME ShellInv, Shell!Process PROVE ShellInv'
  OBVIOUS
<1>1. PICK x : x = Head(processing)
  OBVIOUS
<1>2. /\ processing # <<>> /\ ~isWriting /\ Shell!Sniff(x) /\ isWriting' = streaming'
      /\ processing' = IF streaming' THEN processing ELSE Tail(processing)
      /\ display' = IF streaming' THEN display ELSE Shell!Binary
      /\ UNCHANGED <<shellWorld, pipe, screen, renderTimeout, exited, delivered, shellResult, phase>>
  BY <1>1 DEF Shell!Process, Shell!control, Shell!input
<1>3. /\ processing \in Seq(Chunks) /\ outputChunks \in Seq(Chunks) /\ pipe \in Seq(Chunks)
      /\ delivered \in Seq(Chunks) /\ screen \in [Shell!Stream -> Seq(Chunks)]
  BY DEF ShellInv, ShellTypes
<1>4. Shell!Pty
  BY <1>2 DEF ShellInv, ChildInv
<1>5. /\ AllOut(pipe) /\ AllOut(processing) /\ AllOut(outputChunks)
      /\ delivered = outputChunks \o processing
      /\ streaming => outputChunks = screen["out"]
      /\ screen["err"] = <<>>
  BY <1>2, <1>4 DEF ShellInv, PtyInv, Rest, Seen
<1>6. /\ x \in Chunks /\ Tail(processing) \in Seq(Chunks) /\ AllOut(Tail(processing)) /\ IsFrom(x, "out")
  BY <1>1, <1>2, <1>3, <1>5, FirstChunk DEF IsFrom
<1>7. /\ HasOneMoreChunk(outputChunks', outputChunks, x) /\ outputChunks' \in Seq(Chunks)
      /\ streaming' \in BOOLEAN /\ (streaming' => streaming) /\ AllOut(outputChunks')
  BY <1>2, <1>5, <1>6, SniffedIs
<1>8. outputChunks' = Append(outputChunks, x)
  BY <1>7 DEF HasOneMoreChunk
<1>9. Rest' = Tail(processing)
  BY <1>2 DEF Rest
<1>10. delivered' = outputChunks' \o Rest'
  BY <1>1, <1>2, <1>3, <1>5, <1>8, <1>9, ChunksMove
<1>11. streaming' => outputChunks' = Seen'
  BY <1>1, <1>2, <1>5, <1>7, <1>8 DEF Seen
<1>12. AllOut(processing') /\ processing' \in Seq(Chunks)
  BY <1>2, <1>3, <1>5, <1>6
<1>13. ShellTypes'
  BY <1>2, <1>7, <1>12 DEF ShellInv, ShellTypes
<1>14. PtyInv'
  BY <1>2, <1>5, <1>7, <1>10, <1>11, <1>12 DEF PtyInv, Shell!Binary
<1>15. DisplayInv'
  BY <1>2, <1>7 DEF ShellInv, DisplayInv, Shell!Combined, Shell!NoText
<1>16. EndInv'
  BY <1>2 DEF ShellInv, EndInv
<1>17. Shell!Pty'
  BY <1>2, <1>4 DEF Shell!Pty
<1> QED BY <1>13, <1>14, <1>15, <1>16, <1>17 DEF ShellInv

LEMMA WrittenKeeps == ShellInv /\ Shell!Written => ShellInv'
<1> SUFFICES ASSUME ShellInv, Shell!Written PROVE ShellInv'
  OBVIOUS
<1>1. PICK x : x = Head(processing)
  OBVIOUS
<1>2. /\ isWriting /\ isWriting' = FALSE /\ Shell!Decodes(x) /\ processing' = Tail(processing) /\ renderTimeout' = TRUE
      /\ UNCHANGED <<shellWorld, pipe, outputChunks, streaming, display, exited, delivered, shellResult, phase>>
  BY <1>1 DEF Shell!Written, Shell!control, Shell!input
<1>3. /\ processing \in Seq(Chunks) /\ outputChunks \in Seq(Chunks) /\ pipe \in Seq(Chunks)
      /\ delivered \in Seq(Chunks) /\ screen \in [Shell!Stream -> Seq(Chunks)]
  BY DEF ShellInv, ShellTypes
<1>4. Shell!Pty
  BY <1>2 DEF ShellInv, ChildInv
<1>5. /\ AllOut(pipe) /\ AllOut(processing) /\ AllOut(outputChunks) /\ streaming /\ processing # <<>>
      /\ delivered = outputChunks \o Tail(processing)
      /\ outputChunks = Append(screen["out"], x)
      /\ screen["err"] = <<>>
  BY <1>1, <1>2, <1>4 DEF ShellInv, PtyInv, Rest, Seen
<1>6. /\ x \in Chunks /\ Tail(processing) \in Seq(Chunks) /\ AllOut(Tail(processing)) /\ IsFrom(x, "out")
  BY <1>1, <1>3, <1>5, FirstChunk DEF IsFrom
<1>7. /\ screen' \in [Shell!Stream -> Seq(Chunks)] /\ Shell!Combined(screen)' # <<>>
      /\ \A s \in Shell!Stream : screen'[s] = IF IsFrom(x, s) THEN Append(screen[s], x) ELSE screen[s]
  BY <1>2, <1>3, <1>6, DecodedIsText
<1>8. screen'["out"] = Append(screen["out"], x) /\ screen'["err"] = <<>>
  BY <1>5, <1>6, <1>7 DEF Shell!Stream, IsFrom
<1>9. ShellTypes'
  BY <1>2, <1>6, <1>7 DEF ShellInv, ShellTypes
<1>10. PtyInv'
  BY <1>2, <1>5, <1>6, <1>8 DEF PtyInv, Rest, Seen
<1>11. DisplayInv'
  BY <1>2, <1>7 DEF ShellInv, DisplayInv, Shell!NoText
<1>12. EndInv'
  BY <1>2 DEF ShellInv, EndInv
<1>13. Shell!Pty'
  BY <1>2, <1>4 DEF Shell!Pty
<1> QED BY <1>9, <1>10, <1>11, <1>12, <1>13 DEF ShellInv

LEMMA ScrollKeeps == ShellInv /\ Shell!Scroll => ShellInv'
<1> SUFFICES ASSUME ShellInv, Shell!Scroll PROVE ShellInv'
  OBVIOUS
<1>1. /\ Shell!Pty /\ phase = "spawned" /\ renderTimeout' = TRUE
      /\ UNCHANGED <<shellWorld, pipe, processing, isWriting, outputChunks, screen, streaming, display, exited, delivered,
                     shellResult, phase>>
  BY DEF Shell!Scroll, Shell!control, Shell!input, Shell!terminal
<1>2. (Shell!Pty' <=> Shell!Pty) /\ Rest' = Rest /\ Seen' = Seen /\ Shell!Combined(screen)' = Shell!Combined(screen)
  BY <1>1 DEF Shell!Pty, Rest, Seen, Shell!Combined
<1>3. ShellTypes'
  BY <1>1 DEF ShellInv, ShellTypes
<1>4. PtyInv'
  BY <1>1, <1>2 DEF ShellInv, PtyInv
<1>5. DisplayInv'
  BY <1>1, <1>2 DEF ShellInv, DisplayInv
<1>6. EndInv'
  BY <1>1 DEF ShellInv, EndInv
<1> QED BY <1>1, <1>2, <1>3, <1>4, <1>5, <1>6 DEF ShellInv

\* What is shown while the output is text is text.
LEMMA ShownIs ==
    ASSUME DisplayInv, streaming
    PROVE  Shell!ShowText(Shell!Combined(screen)) = Showing(Shell!Combined(screen))
<1>1. display = Shell!NoText => display.kind = "none"
  BY DEF Shell!NoText
<1> QED BY <1>1 DEF DisplayInv, Shell!ShowText, Showing

LEMMA RenderKeeps == ShellInv /\ Shell!Render => ShellInv'
<1> SUFFICES ASSUME ShellInv, Shell!Render PROVE ShellInv'
  OBVIOUS
<1>1. /\ renderTimeout /\ renderTimeout' = FALSE /\ display' = Shell!Rendered
      /\ UNCHANGED <<shellWorld, pipe, processing, isWriting, outputChunks, screen, streaming, exited, delivered,
                     shellResult, phase>>
  BY DEF Shell!Render, Shell!control, Shell!input, Shell!terminal
<1>2. (Shell!Pty' <=> Shell!Pty) /\ Rest' = Rest /\ Seen' = Seen /\ Shell!Combined(screen)' = Shell!Combined(screen)
  BY <1>1 DEF Shell!Pty, Rest, Seen, Shell!Combined
<1>3. ShellTypes'
  BY <1>1 DEF ShellInv, ShellTypes
<1>4. Shell!Pty
  BY <1>1 DEF ShellInv, ChildInv
<1>5. /\ ~streaming => display' = display
      /\ streaming => display' = Showing(Shell!Combined(screen))
  BY <1>1, ShownIs DEF Shell!Rendered, ShellInv
<1>6. PtyInv'
  <2>1. ~streaming => display = Shell!Binary
    BY <1>4 DEF ShellInv, PtyInv
  <2>2. (~streaming)' => display' = Shell!Binary
    BY <1>1, <1>5, <2>1
  <2> QED BY <1>1, <1>2, <1>4, <2>2 DEF ShellInv, PtyInv, Shell!Binary
<1>7. DisplayInv'
  <2>1. [kind |-> "text", text |-> Shell!Combined(screen)].kind = "text"
    OBVIOUS
  <2> QED BY <1>1, <1>2, <1>5, <2>1 DEF DisplayInv, Showing, Shell!NoText
<1>8. EndInv'
  BY <1>1 DEF ShellInv, EndInv
<1> QED BY <1>2, <1>3, <1>4, <1>6, <1>7, <1>8 DEF ShellInv

LEMMA ExitKeeps == ShellInv /\ Shell!Exit => ShellInv'
<1> SUFFICES ASSUME ShellInv, Shell!Exit PROVE ShellInv'
  OBVIOUS
<1>1. /\ ~exited /\ exited' = TRUE
      /\ UNCHANGED <<shellWorld, pipe, processing, isWriting, outputChunks, screen, streaming, delivered, renderTimeout>>
  BY DEF Shell!Exit, Shell!terminal
<1>2. (Shell!Pty' <=> Shell!Pty) /\ Rest' = Rest /\ Seen' = Seen /\ Shell!Combined(screen)' = Shell!Combined(screen)
  BY <1>1 DEF Shell!Pty, Rest, Seen, Shell!Combined
<1>3. ShellTypes'
  BY <1>1 DEF ShellInv, ShellTypes
<1>4. CASE Shell!Pty
  <2>1. UNCHANGED <<phase, display, shellResult>>
    BY <1>4 DEF Shell!Exit
  <2>2. PtyInv'
    BY <1>1, <1>2, <1>4, <2>1 DEF ShellInv, PtyInv, Shell!Binary
  <2>3. DisplayInv'
    BY <1>1, <1>2, <2>1 DEF ShellInv, DisplayInv, Shell!NoText
  <2>4. EndInv'
    BY <1>1, <2>1 DEF ShellInv, EndInv
  <2> QED BY <1>2, <1>3, <1>4, <2>2, <2>3, <2>4 DEF ShellInv
<1>5. CASE ~Shell!Pty
  <2>1. /\ display' = IF streaming THEN Shell!ShowText(Shell!Combined(screen)) ELSE Shell!Binary
        /\ shellResult' = [at |-> "done", output |-> Shell!Combined(screen), raw |-> outputChunks]
        /\ phase' = "done"
    BY <1>5 DEF Shell!Exit
  <2>2. /\ ~streaming => display' = Shell!Binary
        /\ streaming => display' = Showing(Shell!Combined(screen))
    BY <2>1, ShownIs DEF ShellInv
  <2>3. ChildInv'
    BY <1>1, <1>5 DEF ShellInv, ChildInv
  <2>4. DisplayInv'
    <3>1. [kind |-> "text", text |-> Shell!Combined(screen)].kind = "text"
      OBVIOUS
    <3> QED BY <1>1, <1>2, <2>2, <3>1 DEF DisplayInv, Showing, Shell!NoText
  <2>5. shellResult'.raw = outputChunks /\ shellResult'.output = Shell!Combined(screen)
    BY <2>1
  <2>6. processing = <<>> /\ ~isWriting /\ ~renderTimeout
    BY <1>5 DEF ShellInv, ChildInv
  <2>7. Showing(Shell!Combined(screen))' = Showing(Shell!Combined(screen)) /\ Shell!Binary' = Shell!Binary
    BY <1>2 DEF Showing, Shell!NoText, Shell!Binary
  <2>8. EndInv'
    BY <1>1, <1>2, <2>1, <2>2, <2>5, <2>6, <2>7 DEF EndInv
  <2> QED BY <1>2, <1>3, <1>5, <2>3, <2>4, <2>8 DEF ShellInv
<1> QED BY <1>4, <1>5

LEMMA FinishKeeps == ShellInv /\ Shell!Finish => ShellInv'
<1> SUFFICES ASSUME ShellInv, Shell!Finish PROVE ShellInv'
  OBVIOUS
<1>1. /\ Shell!Pty /\ exited /\ processing = <<>> /\ renderTimeout' = FALSE /\ display' = Shell!Rendered /\ phase' = "done"
      /\ shellResult' = [at |-> "done", output |-> Shell!Combined(screen), raw |-> outputChunks]
      /\ UNCHANGED <<shellWorld, pipe, processing, isWriting, outputChunks, screen, streaming, exited, delivered>>
  BY DEF Shell!Finish, Shell!ChainIsOver, Shell!control, Shell!terminal
<1>2. (Shell!Pty' <=> Shell!Pty) /\ Rest' = Rest /\ Seen' = Seen /\ Shell!Combined(screen)' = Shell!Combined(screen)
  BY <1>1 DEF Shell!Pty, Rest, Seen, Shell!Combined
<1>3. ShellTypes'
  BY <1>1 DEF ShellInv, ShellTypes
<1>4. /\ ~isWriting
      /\ ~streaming => display = Shell!Binary
  BY <1>1 DEF ShellInv, PtyInv
<1>5. /\ ~streaming => display' = Shell!Binary
      /\ streaming => display' = Showing(Shell!Combined(screen))
  BY <1>1, <1>4, ShownIs DEF Shell!Rendered, ShellInv
<1>6. PtyInv'
  BY <1>1, <1>2, <1>5 DEF ShellInv, PtyInv, Shell!Binary
<1>7. DisplayInv'
  <2>1. [kind |-> "text", text |-> Shell!Combined(screen)].kind = "text"
    OBVIOUS
  <2> QED BY <1>1, <1>2, <1>5, <2>1 DEF DisplayInv, Showing, Shell!NoText
<1>8. EndInv'
  <2>1. shellResult'.raw = outputChunks /\ shellResult'.output = Shell!Combined(screen)
    BY <1>1
  <2>2. Showing(Shell!Combined(screen))' = Showing(Shell!Combined(screen)) /\ Shell!Binary' = Shell!Binary
    BY <1>2 DEF Showing, Shell!NoText, Shell!Binary
  <2> QED BY <1>1, <1>2, <1>4, <1>5, <2>1, <2>2 DEF EndInv
<1> QED BY <1>1, <1>2, <1>3, <1>6, <1>7, <1>8 DEF ShellInv

LEMMA ShellStepKeeps == ShellInv /\ [Shell!ShellNext]_(Shell!shellVars) => ShellInv'
<1> SUFFICES ASSUME ShellInv, [Shell!ShellNext]_(Shell!shellVars) PROVE ShellInv'
  OBVIOUS
<1>1. CASE Shell!Execute \/ Shell!Spawn \/ Shell!SpawnFails \/ Shell!CommandEnds \/ Shell!Abort \/ Shell!KillTimeout
  BY <1>1, QuietStepKeeps
<1>2. CASE Shell!Outputs
  BY <1>2, OutputsKeeps
<1>3. CASE Shell!Data
  BY <1>3, DataKeeps
<1>4. CASE Shell!Process
  BY <1>4, ProcessKeeps
<1>5. CASE Shell!Written
  BY <1>5, WrittenKeeps
<1>6. CASE Shell!Scroll
  BY <1>6, ScrollKeeps
<1>7. CASE Shell!Render
  BY <1>7, RenderKeeps
<1>8. CASE Shell!Exit
  BY <1>8, ExitKeeps
<1>9. CASE Shell!Finish
  BY <1>9, FinishKeeps
<1>10. CASE UNCHANGED Shell!shellVars
  <2>1. UNCHANGED <<shellWorld, Shell!terminal, renderTimeout, display, exited, delivered, pipe, shellResult, phase>>
    BY <1>10 DEF Shell!shellVars, Shell!terminal
  <2>2. pipe' \in Seq(Chunks) /\ (Shell!Pty => AllOut(pipe'))
    BY <2>1 DEF ShellInv, ShellTypes, PtyInv
  <2> QED BY <2>1, <2>2, QuietKeeps
<1> QED BY <1>1, <1>2, <1>3, <1>4, <1>5, <1>6, <1>7, <1>8, <1>9, <1>10 DEF Shell!ShellNext
-----------------------------------------------------------------------------
(* The recordings of conversations (ChatRecording) *)

LEMMA SameInRecord == \A S : Record!Cardinality(S) = Cardinality(S)
BY DEF Record!Cardinality, Cardinality


\* What the worlds are: a file for every chat
RecordingConstants == \A w \in RecordingWorld : w.file \in [Chat -> Chat]

RecordedLine == [type : {"user", "gemini"}, chat : Chat, number : Nat \ {0}]
RecordedTokens == [chat : Chat \cup {"none"}, number : Nat]
Message == [line : RecordedLine, thoughts : Seq(Nat), tokens : RecordedTokens]

IsOf(m, c) == m.line.chat = c

\* The messages of a file with one more
HasOneMore(new, ms, m) == new = Append(ms, m)
LEMMA OneMore ==
    ASSUME NEW ms \in Seq(Message), NEW m \in Message, NEW new, HasOneMore(new, ms, m), NEW c
    PROVE  /\ Len(ms) \in Nat /\ new \in Seq(Message) /\ Len(new) = Len(ms) + 1
           /\ new[Len(ms) + 1] = m /\ \A i \in 1 .. Len(ms) : new[i] = ms[i]
           /\ IsOf(m, c) => Record!PlacesOf(new, c) = Record!PlacesOf(ms, c) \cup {Len(ms) + 1}
           /\ ~IsOf(m, c) => Record!PlacesOf(new, c) = Record!PlacesOf(ms, c)
<1>1. PICK n \in Nat : n = Len(ms)
  BY LenProperties
<1>2. /\ new \in Seq(Message) /\ Len(new) = n + 1
      /\ new[n + 1] = m /\ \A i \in 1 .. n : new[i] = ms[i]
  BY <1>1, AppendProperties DEF HasOneMore
<1>3. \A i : i \in 1 .. n + 1 <=> i \in 1 .. n \/ i = n + 1
  BY <1>1
<1>4. \A i : i \in Record!PlacesOf(new, c) <=> (i \in 1 .. n /\ ms[i].line.chat = c) \/ (i = n + 1 /\ m.line.chat = c)
  BY <1>2, <1>3 DEF Record!PlacesOf
<1>5. Record!PlacesOf(ms, c) = {i \in 1 .. n : ms[i].line.chat = c}
  BY <1>1 DEF Record!PlacesOf
<1>6. IsOf(m, c) => Record!PlacesOf(new, c) = Record!PlacesOf(ms, c) \cup {n + 1}
  BY <1>4, <1>5 DEF IsOf
<1>7. ~IsOf(m, c) => Record!PlacesOf(new, c) = Record!PlacesOf(ms, c)
  BY <1>4, <1>5 DEF IsOf
<1> QED BY <1>1, <1>2, <1>6, <1>7

LEMMA PlacesAreFew ==
    ASSUME NEW ms \in Seq(Message), NEW c
    PROVE  /\ Record!PlacesOf(ms, c) \subseteq 1 .. Len(ms) /\ Len(ms) \in Nat
           /\ IsFiniteSet(Record!PlacesOf(ms, c)) /\ Record!Cardinality(Record!PlacesOf(ms, c)) \in Nat
           /\ Record!PlacesOf(ms, c) \cap 1 .. Len(ms) + 1 = Record!PlacesOf(ms, c)
<1>1. Len(ms) \in Nat
  BY LenProperties
<1>2. Record!PlacesOf(ms, c) \subseteq 1 .. Len(ms)
  BY DEF Record!PlacesOf
<1>3. IsFiniteSet(1 .. Len(ms))
  BY <1>1, FS_Interval, SameInRecord
<1>4. 1 .. Len(ms) \subseteq 1 .. Len(ms) + 1
  BY <1>1
<1> QED BY <1>1, <1>2, <1>3, <1>4, FS_Subset, FS_CardinalityType, SameInRecord

\* A message of another chat changes nothing for this one.
LEMMA OthersSpeak ==
    ASSUME NEW ms \in Seq(Message), NEW m \in Message, NEW new, HasOneMore(new, ms, m), NEW c, ~IsOf(m, c)
    PROVE  /\ \A said : Record!HasLines(ms, c, said) => Record!HasLines(new, c, said)
           /\ \A queue, n : Record!HasThoughts(ms, c, queue, n) => Record!HasThoughts(new, c, queue, n)
<1>1. /\ Record!PlacesOf(new, c) = Record!PlacesOf(ms, c)
      /\ \A i \in Record!PlacesOf(ms, c) : new[i] = ms[i]
  <2>1. /\ Len(ms) \in Nat /\ new \in Seq(Message) /\ Len(new) = Len(ms) + 1
        /\ new[Len(ms) + 1] = m /\ \A i \in 1 .. Len(ms) : new[i] = ms[i]
        /\ IsOf(m, c) => Record!PlacesOf(new, c) = Record!PlacesOf(ms, c) \cup {Len(ms) + 1}
        /\ ~IsOf(m, c) => Record!PlacesOf(new, c) = Record!PlacesOf(ms, c)
    BY OneMore
  <2> QED BY <2>1, PlacesAreFew
<1>2. ASSUME NEW said, Record!HasLines(ms, c, said) PROVE Record!HasLines(new, c, said)
  BY <1>1, <1>2 DEF Record!HasLines
<1>3. ASSUME NEW queue, NEW n, Record!HasThoughts(ms, c, queue, n) PROVE Record!HasThoughts(new, c, queue, n)
  BY <1>1, <1>3 DEF Record!HasThoughts
<1> QED BY <1>2, <1>3

LEMMA ChatSpeaks ==
    ASSUME NEW ms \in Seq(Message), NEW m \in Message, NEW new, HasOneMore(new, ms, m), NEW c, IsOf(m, c),
           NEW said \in Seq(RecordedLine), Record!HasLines(ms, c, said)
    PROVE  Record!HasLines(new, c, Append(said, m.line))
<1>1. PICK n \in Nat : n = Len(ms)
  BY LenProperties
<1>2. PICK p : p = Record!PlacesOf(ms, c)
  OBVIOUS
<1>3. /\ Record!PlacesOf(new, c) = p \cup {n + 1} /\ new[n + 1] = m
      /\ \A i \in 1 .. n : new[i] = ms[i]
  <2>1. /\ Len(ms) \in Nat /\ new \in Seq(Message) /\ Len(new) = Len(ms) + 1
        /\ new[Len(ms) + 1] = m /\ \A i \in 1 .. Len(ms) : new[i] = ms[i]
        /\ IsOf(m, c) => Record!PlacesOf(new, c) = Record!PlacesOf(ms, c) \cup {Len(ms) + 1}
        /\ ~IsOf(m, c) => Record!PlacesOf(new, c) = Record!PlacesOf(ms, c)
    BY OneMore
  <2> QED BY <1>1, <1>2, <2>1
<1>4. p \subseteq 1 .. n /\ IsFiniteSet(p) /\ Record!Cardinality(p) \in Nat
  BY <1>1, <1>2, PlacesAreFew
<1>5. n + 1 \notin p
  BY <1>4
<1>6. Record!Cardinality(p \cup {n + 1}) = Record!Cardinality(p) + 1
  BY <1>4, <1>5, FS_AddElement, SameInRecord
<1>7. m.line \in RecordedLine
  BY DEF Message
<1>8. PICK k \in Nat : k = Len(said)
  BY LenProperties
<1>9. PICK then : then = Append(said, m.line)
  OBVIOUS
<1>10. Len(then) = k + 1 /\ then[k + 1] = m.line /\ \A i \in 1 .. k : then[i] = said[i]
  BY <1>7, <1>8, <1>9, AppendProperties
<1>11. Record!Cardinality(p) = k /\ \A i \in p : ms[i].line = said[Record!Cardinality(p \cap 1 .. i)]
  BY <1>2, <1>8 DEF Record!HasLines
<1>12. ASSUME NEW i \in p PROVE new[i].line = then[Record!Cardinality((p \cup {n + 1}) \cap 1 .. i)]
  <2>1. i \in 1 .. n /\ n + 1 \notin 1 .. i
    BY <1>4
  <2>2. (p \cup {n + 1}) \cap 1 .. i = p \cap 1 .. i
    BY <2>1
  <2>3. i \in p \cap 1 .. i
    BY <1>4
  <2>4. /\ IsFiniteSet(p \cap 1 .. i) /\ Record!Cardinality(p \cap 1 .. i) <= Record!Cardinality(p)
        /\ Record!Cardinality(p \cap 1 .. i) \in Nat
    BY <1>4, FS_Subset, FS_CardinalityType, SameInRecord
  <2>5. Record!Cardinality(p \cap 1 .. i) # 0
    BY <2>3, <2>4, FS_EmptySet, SameInRecord
  <2>6. Record!Cardinality(p \cap 1 .. i) \in 1 .. k
    BY <1>11, <2>4, <2>5
  <2> QED BY <1>3, <1>10, <1>11, <2>1, <2>2, <2>6
<1>13. new[n + 1].line = then[Record!Cardinality((p \cup {n + 1}) \cap 1 .. n + 1)]
  <2>1. (p \cup {n + 1}) \cap 1 .. n + 1 = p \cup {n + 1}
    <3>1. \A i \in p \cup {n + 1} : i \in 1 .. n + 1
      BY <1>4
    <3> QED BY <3>1
  <2> QED BY <1>3, <1>6, <1>10, <1>11, <2>1
<1> QED BY <1>3, <1>6, <1>9, <1>10, <1>11, <1>12, <1>13 DEF Record!HasLines

\* A message takes the whole queue, or none of it.
LEMMA ThoughtsTaken ==
    ASSUME NEW ms \in Seq(Message), NEW m \in Message, NEW new, HasOneMore(new, ms, m), NEW c, IsOf(m, c),
           NEW queue, NEW n, Record!HasThoughts(ms, c, queue, n)
    PROVE  /\ m.thoughts = queue => Record!HasThoughts(new, c, <<>>, n)
           /\ m.thoughts = <<>> => Record!HasThoughts(new, c, queue, n)
<1>1. PICK k \in Nat : k = Len(ms)
  BY LenProperties
<1>2. PICK p : p = Record!PlacesOf(ms, c)
  OBVIOUS
<1>3. /\ Record!PlacesOf(new, c) = p \cup {k + 1} /\ new[k + 1] = m
      /\ \A i \in 1 .. k : new[i] = ms[i]
  <2>1. /\ Len(ms) \in Nat /\ new \in Seq(Message) /\ Len(new) = Len(ms) + 1
        /\ new[Len(ms) + 1] = m /\ \A i \in 1 .. Len(ms) : new[i] = ms[i]
        /\ IsOf(m, c) => Record!PlacesOf(new, c) = Record!PlacesOf(ms, c) \cup {Len(ms) + 1}
        /\ ~IsOf(m, c) => Record!PlacesOf(new, c) = Record!PlacesOf(ms, c)
    BY OneMore
  <2> QED BY <1>1, <1>2, <2>1
<1>4. p \subseteq 1 .. k
  BY <1>1, <1>2, PlacesAreFew
<1>5. \A i \in p : new[i] = ms[i] /\ i < k + 1 /\ ~(k + 1 < i) /\ i # k + 1
  BY <1>1, <1>3, <1>4
<1>6. ~(k + 1 < k + 1)
  BY <1>1
<1>7. Record!ToSet(<<>>) = {} /\ Record!Ascends(<<>>)
  BY DEF Record!ToSet, Record!Ascends
<1>8. /\ (UNION {Record!ToSet(ms[i].thoughts) : i \in p}) \cup Record!ToSet(queue) = 1 .. n
      /\ Record!Ascends(queue)
      /\ \A i \in p : Record!Ascends(ms[i].thoughts) /\ Record!Precede(ms[i].thoughts, queue)
      /\ \A i, j \in p : i < j => Record!Precede(ms[i].thoughts, ms[j].thoughts)
  BY <1>2 DEF Record!HasThoughts
<1>9. UNION {Record!ToSet(new[i].thoughts) : i \in p \cup {k + 1}} = (UNION {Record!ToSet(ms[i].thoughts) : i \in p}) \cup Record!ToSet(m.thoughts)
  <2>1. \A x : (\E i \in p \cup {k + 1} : x \in Record!ToSet(new[i].thoughts))
               <=> (\E i \in p : x \in Record!ToSet(ms[i].thoughts)) \/ x \in Record!ToSet(m.thoughts)
    BY <1>3, <1>5
  <2> QED BY <2>1
<1>10. ASSUME m.thoughts = queue PROVE Record!HasThoughts(new, c, <<>>, n)
  <2>1. (UNION {Record!ToSet(new[i].thoughts) : i \in p \cup {k + 1}}) \cup Record!ToSet(<<>>) = 1 .. n
    BY <1>7, <1>8, <1>9, <1>10
  <2>2. \A i \in p \cup {k + 1} : Record!Ascends(new[i].thoughts) /\ Record!Precede(new[i].thoughts, <<>>)
    BY <1>3, <1>5, <1>7, <1>8, <1>10 DEF Record!Precede
  <2>3. \A i, j \in p \cup {k + 1} : i < j => Record!Precede(new[i].thoughts, new[j].thoughts)
    BY <1>3, <1>5, <1>6, <1>8, <1>10
  <2> QED BY <1>3, <1>7, <2>1, <2>2, <2>3 DEF Record!HasThoughts
<1>11. ASSUME m.thoughts = <<>> PROVE Record!HasThoughts(new, c, queue, n)
  <2>1. (UNION {Record!ToSet(new[i].thoughts) : i \in p \cup {k + 1}}) \cup Record!ToSet(queue) = 1 .. n
    BY <1>7, <1>8, <1>9, <1>11
  <2>2. \A i \in p \cup {k + 1} : Record!Ascends(new[i].thoughts) /\ Record!Precede(new[i].thoughts, queue)
    BY <1>3, <1>5, <1>7, <1>8, <1>11 DEF Record!Precede
  <2>3. \A i, j \in p \cup {k + 1} : i < j => Record!Precede(new[i].thoughts, new[j].thoughts)
    BY <1>3, <1>5, <1>6, <1>7, <1>8, <1>11 DEF Record!Precede
  <2> QED BY <1>3, <1>8, <2>1, <2>2, <2>3 DEF Record!HasThoughts
<1> QED BY <1>10, <1>11

\* One thought more waits.
LEMMA ThoughtWaits ==
    ASSUME NEW ms \in Seq(Message), NEW c, NEW queue \in Seq(Nat), NEW n \in Nat, Record!HasThoughts(ms, c, queue, n)
    PROVE  Record!HasThoughts(ms, c, Append(queue, n + 1), n + 1) /\ Append(queue, n + 1) \in Seq(Nat)
<1>1. PICK p : p = Record!PlacesOf(ms, c)
  OBVIOUS
<1>2. PICK k \in Nat : k = Len(queue)
  BY LenProperties
<1>3. PICK then : then = Append(queue, n + 1)
  OBVIOUS
<1>4. /\ then \in Seq(Nat) /\ Len(then) = k + 1 /\ then[k + 1] = n + 1
      /\ \A i \in 1 .. k : then[i] = queue[i]
  BY <1>2, <1>3, AppendProperties
<1>5. /\ (UNION {Record!ToSet(ms[i].thoughts) : i \in p}) \cup Record!ToSet(queue) = 1 .. n
      /\ Record!Ascends(queue)
      /\ \A i \in p : Record!Ascends(ms[i].thoughts) /\ Record!Precede(ms[i].thoughts, queue)
      /\ \A i, j \in p : i < j => Record!Precede(ms[i].thoughts, ms[j].thoughts)
  BY <1>1 DEF Record!HasThoughts
<1>6. Record!ToSet(queue) = {queue[i] : i \in 1 .. k} /\ Record!ToSet(then) = {then[i] : i \in 1 .. k + 1}
  <2>1. DOMAIN queue = 1 .. k /\ DOMAIN then = 1 .. k + 1
    BY <1>2, <1>4, LenProperties
  <2> QED BY <2>1 DEF Record!ToSet
<1>7. \A i : i \in 1 .. k + 1 <=> i \in 1 .. k \/ i = k + 1
  BY <1>2
<1>8. Record!ToSet(then) = Record!ToSet(queue) \cup {n + 1}
  BY <1>4, <1>6, <1>7
<1>9. \A x \in 1 .. n : x < n + 1
  OBVIOUS
<1>10. 1 .. n + 1 = 1 .. n \cup {n + 1}
  OBVIOUS
<1>11. (UNION {Record!ToSet(ms[i].thoughts) : i \in p}) \cup Record!ToSet(then) = 1 .. n + 1
  <2>1. PICK u : u = UNION {Record!ToSet(ms[i].thoughts) : i \in p}
    OBVIOUS
  <2>2. u \cup Record!ToSet(queue) = 1 .. n
    BY <1>5, <2>1
  <2>3. u \cup Record!ToSet(then) = 1 .. n + 1
    BY <1>8, <1>10, <2>2
  <2> QED BY <2>1, <2>3
<1>12. Record!Ascends(then)
  <2> SUFFICES ASSUME NEW i \in 1 .. k + 1, NEW j \in 1 .. k + 1, i < j PROVE then[i] < then[j]
    BY <1>4 DEF Record!Ascends
  <2>1. i \in 1 .. k
    BY <1>2
  <2>2. then[i] = queue[i] /\ queue[i] \in Record!ToSet(queue)
    BY <1>4, <1>6, <2>1
  <2>3. queue[i] \in 1 .. n
    BY <1>5, <2>2
  <2>4. CASE j = k + 1
    BY <1>4, <1>9, <2>2, <2>3, <2>4
  <2>5. CASE j \in 1 .. k
    BY <1>2, <1>4, <1>5, <2>1, <2>5 DEF Record!Ascends
  <2> QED BY <1>7, <2>4, <2>5
<1>13. \A i \in p : Record!Precede(ms[i].thoughts, then)
  <2> SUFFICES ASSUME NEW i \in p, NEW x \in Record!ToSet(ms[i].thoughts), NEW y \in Record!ToSet(then) PROVE x < y
    BY DEF Record!Precede
  <2>1. x \in 1 .. n
    BY <1>5
  <2> QED BY <1>5, <1>8, <1>9, <2>1 DEF Record!Precede
<1> QED BY <1>1, <1>3, <1>4, <1>5, <1>11, <1>12, <1>13 DEF Record!HasThoughts

\* The tokens of a message do not matter to the rest.
LEMMA TokensAside ==
    ASSUME NEW ms, NEW new, Len(new) = Len(ms),
           \A i \in 1 .. Len(ms) : new[i].line = ms[i].line /\ new[i].thoughts = ms[i].thoughts
    PROVE  \A c : /\ \A said : Record!HasLines(ms, c, said) => Record!HasLines(new, c, said)
                  /\ \A queue, n : Record!HasThoughts(ms, c, queue, n) => Record!HasThoughts(new, c, queue, n)
<1> SUFFICES ASSUME NEW c
             PROVE  /\ \A said : Record!HasLines(ms, c, said) => Record!HasLines(new, c, said)
                    /\ \A queue, n : Record!HasThoughts(ms, c, queue, n) => Record!HasThoughts(new, c, queue, n)
  OBVIOUS
<1>1. Record!PlacesOf(new, c) = Record!PlacesOf(ms, c) /\ Record!PlacesOf(ms, c) \subseteq 1 .. Len(ms)
  BY DEF Record!PlacesOf
<1>2. \A i \in Record!PlacesOf(ms, c) : new[i].line = ms[i].line /\ new[i].thoughts = ms[i].thoughts
  BY <1>1
<1>3. ASSUME NEW said, Record!HasLines(ms, c, said) PROVE Record!HasLines(new, c, said)
  BY <1>1, <1>2, <1>3 DEF Record!HasLines
<1>4. ASSUME NEW queue, NEW n, Record!HasThoughts(ms, c, queue, n) PROVE Record!HasThoughts(new, c, queue, n)
  BY <1>1, <1>2, <1>4 DEF Record!HasThoughts
<1> QED BY <1>3, <1>4

-----------------------------------------------------------------------------
OwnTokens(c, n) == [chat |-> c, number |-> n]
TokensFit(usage, m) ==
    /\ usage /\ m.line.type = "gemini" => m.tokens = OwnTokens(m.line.chat, m.line.number)
    /\ m.line.type = "user" => m.tokens = Record!NoTokens
At == {"new", "idle", "streaming"}
RecordedReply == [at : At, number : Nat, thoughts : Nat, text : BOOLEAN, usage : BOOLEAN]

\* When usage always comes, what a stream has heard of it waits for its own text.
StreamFits(usage, c, r, tokens) ==
    /\ r.at = "streaming" => r.number # 0
    /\ r.at # "streaming" => ~r.usage /\ ~r.text
    /\ usage /\ r.usage => tokens = OwnTokens(c, r.number)

RecordingInv ==
    /\ recordingWorld \in RecordingWorld
    /\ conversationFile \in [Chat -> Seq(Message)]
    /\ queuedThoughts \in [Chat -> Seq(Nat)]
    /\ queuedTokens \in [Chat -> RecordedTokens]
    /\ spoken \in [Chat -> Seq(RecordedLine)]
    /\ reply \in [Chat -> RecordedReply]
    /\ \A c \in Chat : StreamFits(recordingWorld.usage, c, reply[c], queuedTokens[c])
    /\ Record!ConversationsAreWhole /\ Record!ThoughtsAreKept
    /\ \A f \in Chat : \A i \in 1 .. Len(conversationFile[f]) :
         TokensFit(recordingWorld.usage, conversationFile[f][i])

LEMMA RecordingInvImplies == RecordingInv => Record!RecordingsAreKept
BY DEF RecordingInv, Record!RecordingsAreKept, Record!TokensAreOwn, TokensFit, OwnTokens

LEMMA FileIsChat == RecordingConstants /\ RecordingInv => \A c \in Chat : Record!FileOf(c) \in Chat
BY DEF RecordingConstants, RecordingInv, Record!FileOf

LEMMA RecordingInitHolds == RecordingConstants /\ Record!RecordingInit => RecordingInv
<1> SUFFICES ASSUME RecordingConstants, Record!RecordingInit PROVE RecordingInv
  OBVIOUS
<1>1. \A c \in Chat : Record!FileOf(c) \in Chat
  BY DEF RecordingConstants, Record!RecordingInit, Record!FileOf
<1>2. \A c \in Chat : Record!HasLines(<<>>, c, <<>>) /\ Record!HasThoughts(<<>>, c, <<>>, 0)
  <2> SUFFICES ASSUME NEW c \in Chat PROVE Record!HasLines(<<>>, c, <<>>) /\ Record!HasThoughts(<<>>, c, <<>>, 0)
    OBVIOUS
  <2>1. Record!PlacesOf(<<>>, c) = {}
    BY DEF Record!PlacesOf
  <2>2. Record!ToSet(<<>>) = {} /\ Record!Ascends(<<>>) /\ 1 .. 0 = {}
    BY DEF Record!ToSet, Record!Ascends
  <2>3. Record!Cardinality({}) = 0
    BY FS_EmptySet, SameInRecord
  <2> QED BY <2>1, <2>2, <2>3 DEF Record!HasLines, Record!HasThoughts
<1>3. Record!ConversationsAreWhole /\ Record!ThoughtsAreKept
  BY <1>1, <1>2 DEF Record!ConversationsAreWhole, Record!ThoughtsAreKept, Record!RecordingInit
<1>4. Record!NoTokens \in RecordedTokens
  BY DEF Record!NoTokens, RecordedTokens
<1>5. reply \in [Chat -> RecordedReply]
  BY DEF Record!RecordingInit, RecordedReply, At
<1>6. \A c \in Chat : StreamFits(recordingWorld.usage, c, reply[c], queuedTokens[c])
  BY DEF Record!RecordingInit, StreamFits
<1> QED BY <1>3, <1>4, <1>5, <1>6 DEF Record!RecordingInit, RecordingInv

\* What recordMessage leaves in the file, in the queues and in what was said
LEMMA RecordedKeeps ==
    ASSUME RecordingConstants, RecordingInv, NEW c \in Chat, NEW n \in Nat \ {0}, NEW type \in {"user", "gemini"},
           Record!Recorded(c, type, n), recordingWorld' = recordingWorld,
           type = "gemini" /\ recordingWorld.usage => queuedTokens[c] = OwnTokens(c, n)
    PROVE  /\ conversationFile' \in [Chat -> Seq(Message)] /\ queuedThoughts' \in [Chat -> Seq(Nat)]
           /\ queuedTokens' \in [Chat -> RecordedTokens] /\ spoken' \in [Chat -> Seq(RecordedLine)]
           /\ \A d \in Chat : Record!HasLines(conversationFile'[Record!FileOf(d)], d, spoken'[d])
           /\ \A d \in Chat : Record!HasThoughts(conversationFile'[Record!FileOf(d)], d, queuedThoughts'[d], reply[d].thoughts)
           /\ \A f \in Chat : \A i \in 1 .. Len(conversationFile'[f]) :
                TokensFit(recordingWorld.usage, conversationFile'[f][i])
           /\ \A d \in Chat : d # c \/ type = "user" => queuedTokens'[d] = queuedTokens[d]
<1> DEFINE taken == type = "gemini"
<1>1. PICK m : m = [line |-> Record!Line(type, c, n),
                    thoughts |-> IF taken THEN queuedThoughts[c] ELSE <<>>,
                    tokens |-> IF taken THEN queuedTokens[c] ELSE Record!NoTokens]
  OBVIOUS
<1>2. Record!Line(type, c, n) \in RecordedLine /\ Record!NoTokens \in RecordedTokens
  BY DEF Record!Line, RecordedLine, Record!NoTokens, RecordedTokens
<1>3. /\ queuedThoughts \in [Chat -> Seq(Nat)] /\ queuedTokens \in [Chat -> RecordedTokens]
      /\ spoken \in [Chat -> Seq(RecordedLine)] /\ conversationFile \in [Chat -> Seq(Message)]
  BY DEF RecordingInv
<1>4. m \in Message /\ m.line = Record!Line(type, c, n) /\ IsOf(m, c) /\ \A d : d # c => ~IsOf(m, d)
  BY <1>1, <1>2, <1>3 DEF Message, IsOf, Record!Line
<1>5. /\ m.thoughts = IF taken THEN queuedThoughts[c] ELSE <<>>
      /\ m.tokens = IF taken THEN queuedTokens[c] ELSE Record!NoTokens
  BY <1>1
<1>6. PICK f \in Chat : f = Record!FileOf(c)
  BY FileIsChat
<1>7. PICK ms \in Seq(Message) : ms = conversationFile[f]
  BY <1>3
<1>8. PICK new : new = Append(ms, m)
  OBVIOUS
<1>9. HasOneMore(new, ms, m)
  BY <1>8 DEF HasOneMore
<1>10. /\ Len(ms) \in Nat /\ new \in Seq(Message) /\ Len(new) = Len(ms) + 1
       /\ new[Len(ms) + 1] = m /\ \A i \in 1 .. Len(ms) : new[i] = ms[i]
  BY <1>4, <1>9, OneMore
<1>11. conversationFile' = [conversationFile EXCEPT ![f] = new]
  BY <1>1, <1>6, <1>7, <1>8 DEF Record!Recorded
<1>12. /\ conversationFile' \in [Chat -> Seq(Message)] /\ conversationFile'[f] = new
       /\ \A g \in Chat : g # f => conversationFile'[g] = conversationFile[g]
  BY <1>3, <1>10, <1>11
<1>13. /\ queuedThoughts' \in [Chat -> Seq(Nat)] /\ queuedTokens' \in [Chat -> RecordedTokens]
       /\ \A d \in Chat : d # c \/ ~taken => queuedThoughts'[d] = queuedThoughts[d] /\ queuedTokens'[d] = queuedTokens[d]
       /\ taken => queuedThoughts'[c] = <<>>
  BY <1>2, <1>3 DEF Record!Recorded
<1>14. Append(spoken[c], m.line) \in Seq(RecordedLine)
  BY <1>2, <1>3, <1>4, AppendProperties
<1>15. /\ spoken' \in [Chat -> Seq(RecordedLine)] /\ spoken'[c] = Append(spoken[c], m.line)
       /\ \A d \in Chat : d # c => spoken'[d] = spoken[d]
  BY <1>3, <1>4, <1>14 DEF Record!Recorded
<1>16. ASSUME NEW d \in Chat
       PROVE  /\ Record!HasLines(conversationFile[Record!FileOf(d)], d, spoken[d])
              /\ Record!HasThoughts(conversationFile[Record!FileOf(d)], d, queuedThoughts[d], reply[d].thoughts)
              /\ Record!FileOf(d) \in Chat
  BY FileIsChat DEF RecordingInv, Record!ConversationsAreWhole, Record!ThoughtsAreKept
<1>17. ASSUME NEW d \in Chat
       PROVE  /\ Record!HasLines(conversationFile'[Record!FileOf(d)], d, spoken'[d])
              /\ Record!HasThoughts(conversationFile'[Record!FileOf(d)], d, queuedThoughts'[d], reply[d].thoughts)
  <2>1. CASE Record!FileOf(d) # f
    BY <1>6, <1>12, <1>13, <1>15, <1>16, <2>1
  <2>2. CASE Record!FileOf(d) = f /\ d # c
    <3>1. ~IsOf(m, d) /\ Record!HasLines(ms, d, spoken[d]) /\ Record!HasThoughts(ms, d, queuedThoughts[d], reply[d].thoughts)
      BY <1>4, <1>7, <1>16, <2>2
    <3>2. Record!HasLines(new, d, spoken[d]) /\ Record!HasThoughts(new, d, queuedThoughts[d], reply[d].thoughts)
      BY <1>4, <1>9, <3>1, OthersSpeak
    <3> QED BY <1>12, <1>13, <1>15, <2>2, <3>2
  <2>3. CASE d = c
    <3>1. Record!HasLines(ms, c, spoken[c]) /\ Record!HasThoughts(ms, c, queuedThoughts[c], reply[c].thoughts)
      BY <1>6, <1>7, <1>16
    <3>2. Record!HasLines(new, c, Append(spoken[c], m.line))
      BY <1>3, <1>4, <1>9, <3>1, ChatSpeaks
    <3>3. /\ m.thoughts = queuedThoughts[c] => Record!HasThoughts(new, c, <<>>, reply[c].thoughts)
          /\ m.thoughts = <<>> => Record!HasThoughts(new, c, queuedThoughts[c], reply[c].thoughts)
      BY <1>4, <1>9, <3>1, ThoughtsTaken
    <3>4. Record!HasThoughts(new, c, queuedThoughts'[c], reply[c].thoughts)
      BY <1>5, <1>13, <3>3
    <3> QED BY <1>6, <1>12, <1>15, <2>3, <3>2, <3>4
  <2> QED BY <1>6, <2>1, <2>2, <2>3
<1>18. TokensFit(recordingWorld.usage, m)
  <2>1. m.line.type = type /\ m.line.chat = c /\ m.line.number = n
    BY <1>4 DEF Record!Line
  <2> QED BY <1>5, <2>1 DEF TokensFit
<1>19. ASSUME NEW g \in Chat, NEW i \in 1 .. Len(conversationFile'[g])
       PROVE  TokensFit(recordingWorld.usage, conversationFile'[g][i])
  <2>1. CASE g # f
    BY <1>12, <1>19, <2>1 DEF RecordingInv
  <2>2. CASE g = f
    <3>1. i \in 1 .. Len(ms) \/ i = Len(ms) + 1
      BY <1>10, <1>12, <2>2
    <3>2. CASE i \in 1 .. Len(ms)
      BY <1>7, <1>10, <1>12, <2>2, <3>2 DEF RecordingInv
    <3> QED BY <1>10, <1>12, <1>18, <2>2, <3>1, <3>2
  <2> QED BY <2>1, <2>2
<1>20. \A d \in Chat : d # c \/ type = "user" => queuedTokens'[d] = queuedTokens[d]
  BY <1>13
<1> QED BY <1>12, <1>13, <1>15, <1>17, <1>19, <1>20

\* A step that writes nothing: the streams change, but no thought is had.
LEMMA NothingWritten ==
    ASSUME RecordingInv,
           UNCHANGED <<recordingWorld, conversationFile, queuedThoughts, queuedTokens, spoken>>,
           reply' \in [Chat -> RecordedReply],
           \A c \in Chat : reply'[c].thoughts = reply[c].thoughts,
           \A c \in Chat : StreamFits(recordingWorld.usage, c, reply'[c], queuedTokens[c])
    PROVE  RecordingInv'
<1>1. Record!ConversationsAreWhole' /\ Record!ThoughtsAreKept'
  BY DEF RecordingInv, Record!ConversationsAreWhole, Record!ThoughtsAreKept, Record!FileOf
<1> QED BY <1>1 DEF RecordingInv

LEMMA RepliesAre ==
    ASSUME RecordingInv, NEW c \in Chat
    PROVE  reply[c] \in RecordedReply /\ StreamFits(recordingWorld.usage, c, reply[c], queuedTokens[c])
BY DEF RecordingInv

\* The streams after one of them has changed
LEMMA StreamsChange ==
    ASSUME RecordingInv, NEW c \in Chat, NEW r \in RecordedReply, reply' = [reply EXCEPT ![c] = r],
           NEW tokens, \A d \in Chat : d # c => tokens[d] = queuedTokens[d],
           StreamFits(recordingWorld.usage, c, r, tokens[c])
    PROVE  /\ reply' \in [Chat -> RecordedReply] /\ reply'[c] = r
           /\ \A d \in Chat : d # c => reply'[d] = reply[d]
           /\ \A d \in Chat : StreamFits(recordingWorld.usage, d, reply'[d], tokens[d])
<1>1. /\ reply' \in [Chat -> RecordedReply] /\ reply'[c] = r
      /\ \A d \in Chat : d # c => reply'[d] = reply[d]
  BY DEF RecordingInv
<1> QED BY <1>1, RepliesAre

LEMMA NewConversationKeeps == ASSUME RecordingInv, NEW c \in Chat, Record!NewConversation(c) PROVE RecordingInv'
<1>1. PICK r : r = [reply[c] EXCEPT !.at = "idle"]
  OBVIOUS
<1>2. r \in RecordedReply /\ r.thoughts = reply[c].thoughts /\ StreamFits(recordingWorld.usage, c, r, queuedTokens[c])
  BY <1>1, RepliesAre DEF RecordedReply, At, StreamFits, Record!NewConversation
<1>3. reply' = [reply EXCEPT ![c] = r]
  BY <1>1 DEF Record!NewConversation
<1>4. UNCHANGED <<recordingWorld, conversationFile, queuedThoughts, queuedTokens, spoken>>
  BY DEF Record!NewConversation, Record!Initialized
<1> QED BY <1>2, <1>3, <1>4, StreamsChange, NothingWritten

LEMMA TextKeeps == ASSUME RecordingInv, NEW c \in Chat, Record!Text(c) PROVE RecordingInv'
<1>1. PICK r : r = [reply[c] EXCEPT !.text = TRUE]
  OBVIOUS
<1>2. r \in RecordedReply /\ r.thoughts = reply[c].thoughts /\ StreamFits(recordingWorld.usage, c, r, queuedTokens[c])
  BY <1>1, RepliesAre DEF RecordedReply, StreamFits, Record!Text
<1>3. reply' = [reply EXCEPT ![c] = r]
  BY <1>1 DEF Record!Text
<1>4. UNCHANGED <<recordingWorld, conversationFile, queuedThoughts, queuedTokens, spoken>>
  BY DEF Record!Text
<1> QED BY <1>2, <1>3, <1>4, StreamsChange, NothingWritten

LEMMA EndedIs ==
    ASSUME RecordingInv, NEW c \in Chat, Record!Ends(c), NEW tokens, \A d \in Chat : d # c => tokens[d] = queuedTokens[d]
    PROVE  /\ reply' \in [Chat -> RecordedReply] /\ \A d \in Chat : reply'[d].thoughts = reply[d].thoughts
           /\ \A d \in Chat : StreamFits(recordingWorld.usage, d, reply'[d], tokens[d])
<1>1. PICK r : r = [reply[c] EXCEPT !.at = "idle", !.text = FALSE, !.usage = FALSE]
  OBVIOUS
<1>2. r \in RecordedReply /\ r.thoughts = reply[c].thoughts /\ StreamFits(recordingWorld.usage, c, r, tokens[c])
  BY <1>1, RepliesAre DEF RecordedReply, At, StreamFits
<1>3. reply' = [reply EXCEPT ![c] = r]
  BY <1>1 DEF Record!Ends, RecordingInv
<1> QED BY <1>2, <1>3, StreamsChange

LEMMA StreamBreaksKeeps == ASSUME RecordingInv, NEW c \in Chat, Record!StreamBreaks(c) PROVE RecordingInv'
<1>1. /\ reply' \in [Chat -> RecordedReply] /\ \A d \in Chat : reply'[d].thoughts = reply[d].thoughts
      /\ \A d \in Chat : StreamFits(recordingWorld.usage, d, reply'[d], queuedTokens[d])
  BY EndedIs DEF Record!StreamBreaks
<1>2. UNCHANGED <<recordingWorld, conversationFile, queuedThoughts, queuedTokens, spoken>>
  BY DEF Record!StreamBreaks
<1> QED BY <1>1, <1>2, NothingWritten

\* A step that records a message
LEMMA MessageWritten ==
    ASSUME RecordingConstants, RecordingInv, NEW c \in Chat, NEW n \in Nat \ {0}, NEW type \in {"user", "gemini"},
           Record!Recorded(c, type, n), recordingWorld' = recordingWorld,
           type = "gemini" /\ recordingWorld.usage => queuedTokens[c] = OwnTokens(c, n),
           reply' \in [Chat -> RecordedReply],
           \A d \in Chat : reply'[d].thoughts = reply[d].thoughts,
           \A d \in Chat : StreamFits(recordingWorld.usage, d, reply'[d], queuedTokens'[d])
    PROVE  RecordingInv'
<1>1. /\ conversationFile' \in [Chat -> Seq(Message)] /\ queuedThoughts' \in [Chat -> Seq(Nat)]
      /\ queuedTokens' \in [Chat -> RecordedTokens] /\ spoken' \in [Chat -> Seq(RecordedLine)]
      /\ \A d \in Chat : Record!HasLines(conversationFile'[Record!FileOf(d)], d, spoken'[d])
      /\ \A d \in Chat : Record!HasThoughts(conversationFile'[Record!FileOf(d)], d, queuedThoughts'[d], reply[d].thoughts)
      /\ \A f \in Chat : \A i \in 1 .. Len(conversationFile'[f]) :
           TokensFit(recordingWorld.usage, conversationFile'[f][i])
  BY RecordedKeeps
<1>2. \A d \in Chat : Record!FileOf(d)' = Record!FileOf(d)
  BY DEF Record!FileOf
<1>3. Record!ConversationsAreWhole' /\ Record!ThoughtsAreKept'
  BY <1>1, <1>2 DEF Record!ConversationsAreWhole, Record!ThoughtsAreKept
<1> QED BY <1>1, <1>3 DEF RecordingInv

LEMMA SendKeeps == ASSUME RecordingConstants, RecordingInv, NEW c \in Chat, Record!Send(c) PROVE RecordingInv'
<1>0. reply[c] \in RecordedReply /\ ~reply[c].usage
  BY RepliesAre DEF StreamFits, Record!Send
<1>1. PICK n \in Nat \ {0} : n = reply[c].number + 1
  BY <1>0 DEF RecordedReply
<1>2. PICK r : r = [reply[c] EXCEPT !.at = "streaming", !.number = n]
  OBVIOUS
<1>3. /\ r \in RecordedReply /\ r.thoughts = reply[c].thoughts
      /\ \A tokens : StreamFits(recordingWorld.usage, c, r, tokens)
      /\ reply' = [reply EXCEPT ![c] = r]
  <2>1. r \in RecordedReply /\ r.thoughts = reply[c].thoughts
    BY <1>0, <1>2 DEF RecordedReply, At
  <2>2. r.at = "streaming" /\ r.number # 0 /\ ~r.usage
    BY <1>0, <1>2 DEF RecordedReply
  <2>3. \A tokens : StreamFits(recordingWorld.usage, c, r, tokens)
    BY <2>2 DEF StreamFits
  <2>4. reply' = [reply EXCEPT ![c] = r]
    BY <1>1, <1>2 DEF Record!Send, RecordingInv
  <2> QED BY <2>1, <2>3, <2>4
<1>4. ASSUME NEW tokens, \A d \in Chat : d # c => tokens[d] = queuedTokens[d]
      PROVE  /\ reply' \in [Chat -> RecordedReply] /\ \A d \in Chat : reply'[d].thoughts = reply[d].thoughts
             /\ \A d \in Chat : StreamFits(recordingWorld.usage, d, reply'[d], tokens[d])
  BY <1>3, <1>4, StreamsChange
<1>5. recordingWorld' = recordingWorld
  BY DEF Record!Send
<1>6. CASE UNCHANGED <<conversationFile, queuedThoughts, queuedTokens, spoken>>
  BY <1>4, <1>5, <1>6, NothingWritten
<1>7. CASE Record!Recorded(c, "user", n)
  <2>1. queuedTokens' = queuedTokens
    BY <1>7 DEF Record!Recorded
  <2> QED BY <1>4, <1>5, <1>7, <2>1, MessageWritten
<1> QED BY <1>1, <1>6, <1>7 DEF Record!Send

LEMMA StreamEndsKeeps == ASSUME RecordingConstants, RecordingInv, NEW c \in Chat, Record!StreamEnds(c) PROVE RecordingInv'
<1>1. ASSUME NEW tokens, \A d \in Chat : d # c => tokens[d] = queuedTokens[d]
      PROVE  /\ reply' \in [Chat -> RecordedReply] /\ \A d \in Chat : reply'[d].thoughts = reply[d].thoughts
             /\ \A d \in Chat : StreamFits(recordingWorld.usage, d, reply'[d], tokens[d])
  BY <1>1, EndedIs DEF Record!StreamEnds
<1>2. recordingWorld' = recordingWorld
  BY DEF Record!StreamEnds
<1>3. CASE ~reply[c].text
  <2>1. UNCHANGED <<conversationFile, queuedThoughts, queuedTokens, spoken>>
    BY <1>3 DEF Record!StreamEnds
  <2> QED BY <1>1, <1>2, <2>1, NothingWritten
<1>4. CASE reply[c].text
  <2>1. PICK n : n = reply[c].number
    OBVIOUS
  <2>2. Record!Recorded(c, "gemini", n) /\ (recordingWorld.usage => reply[c].usage) /\ reply[c].at = "streaming"
    BY <1>4, <2>1 DEF Record!StreamEnds
  <2>3. n \in Nat \ {0} /\ (recordingWorld.usage => queuedTokens[c] = OwnTokens(c, n))
    BY <2>1, <2>2, RepliesAre DEF RecordedReply, StreamFits
  <2>4. \A d \in Chat : d # c => queuedTokens'[d] = queuedTokens[d]
    BY <1>2, <2>2, <2>3, RecordedKeeps
  <2> QED BY <1>1, <1>2, <2>2, <2>3, <2>4, MessageWritten
<1> QED BY <1>3, <1>4

LEMMA ThoughtKeeps == ASSUME RecordingConstants, RecordingInv, NEW c \in Chat, Record!Thought(c) PROVE RecordingInv'
<1>1. PICK n \in Nat : n = reply[c].thoughts
  BY RepliesAre DEF RecordedReply
<1>2. PICK r : r = [reply[c] EXCEPT !.thoughts = n + 1]
  OBVIOUS
<1>3. r \in RecordedReply /\ r.thoughts = n + 1 /\ StreamFits(recordingWorld.usage, c, r, queuedTokens[c])
  BY <1>1, <1>2, RepliesAre DEF RecordedReply, StreamFits
<1>4. reply' = [reply EXCEPT ![c] = r] /\ UNCHANGED <<recordingWorld, conversationFile, queuedTokens, spoken>>
  BY <1>1, <1>2 DEF Record!Thought, RecordingInv
<1>5. /\ reply' \in [Chat -> RecordedReply] /\ reply'[c] = r
      /\ \A d \in Chat : d # c => reply'[d] = reply[d]
      /\ \A d \in Chat : StreamFits(recordingWorld.usage, d, reply'[d], queuedTokens[d])
  BY <1>3, <1>4, StreamsChange
<1>6. PICK queue : queue = Append(queuedThoughts[c], n + 1)
  OBVIOUS
<1>7. queuedThoughts[c] \in Seq(Nat) /\ conversationFile[Record!FileOf(c)] \in Seq(Message)
  BY FileIsChat DEF RecordingInv
<1>8. Record!HasThoughts(conversationFile[Record!FileOf(c)], c, queuedThoughts[c], n)
  BY <1>1 DEF RecordingInv, Record!ThoughtsAreKept
<1>9. Record!HasThoughts(conversationFile[Record!FileOf(c)], c, queue, n + 1) /\ queue \in Seq(Nat)
  BY <1>1, <1>6, <1>7, <1>8, ThoughtWaits
<1>10. queuedThoughts' = [queuedThoughts EXCEPT ![c] = queue]
  BY <1>1, <1>6 DEF Record!Thought, RecordingInv
<1>11. /\ queuedThoughts' \in [Chat -> Seq(Nat)] /\ queuedThoughts'[c] = queue
       /\ \A d \in Chat : d # c => queuedThoughts'[d] = queuedThoughts[d]
  BY <1>9, <1>10 DEF RecordingInv
<1>12. \A d \in Chat : Record!FileOf(d)' = Record!FileOf(d)
  BY <1>4 DEF Record!FileOf
<1>13. Record!ThoughtsAreKept'
  <2> SUFFICES ASSUME NEW d \in Chat
               PROVE  Record!HasThoughts(conversationFile[Record!FileOf(d)], d, queuedThoughts'[d], reply'[d].thoughts)
    BY <1>4, <1>12 DEF Record!ThoughtsAreKept
  <2>1. CASE d = c
    BY <1>3, <1>5, <1>9, <1>11, <2>1
  <2>2. CASE d # c
    BY <1>5, <1>11, <2>2 DEF RecordingInv, Record!ThoughtsAreKept
  <2> QED BY <2>1, <2>2
<1>14. Record!ConversationsAreWhole'
  BY <1>4, <1>12 DEF RecordingInv, Record!ConversationsAreWhole
<1> QED BY <1>4, <1>5, <1>11, <1>13, <1>14 DEF RecordingInv

\* The tokens go to a message only when usage need not come; then it is of the model.
LEMMA UsageKeeps == ASSUME RecordingConstants, RecordingInv, NEW c \in Chat, Record!Usage(c) PROVE RecordingInv'
<1>1. PICK tokens : tokens = OwnTokens(c, reply[c].number)
  OBVIOUS
<1>2. reply[c].at = "streaming" /\ UNCHANGED <<recordingWorld, queuedThoughts, spoken>>
  BY DEF Record!Usage
<1>3. reply[c].number \in Nat \ {0} /\ tokens \in RecordedTokens /\ tokens # Record!NoTokens
  BY <1>1, <1>2, RepliesAre DEF RecordedReply, StreamFits, OwnTokens, RecordedTokens,
     Record!NoTokens
<1>4. PICK r : r = [reply[c] EXCEPT !.usage = TRUE]
  OBVIOUS
<1>5. r \in RecordedReply /\ r.thoughts = reply[c].thoughts /\ StreamFits(recordingWorld.usage, c, r, tokens)
      /\ (~recordingWorld.usage => \A t : StreamFits(recordingWorld.usage, c, r, t))
  BY <1>1, <1>2, <1>4, RepliesAre DEF RecordedReply, StreamFits
<1>6. reply' = [reply EXCEPT ![c] = r]
  BY <1>4 DEF Record!Usage, RecordingInv
<1>7. PICK f \in Chat : f = Record!FileOf(c)
  BY FileIsChat
<1>8. PICK ms \in Seq(Message) : ms = conversationFile[f]
  BY DEF RecordingInv
<1>9. PICK n \in Nat : n = Len(ms)
  BY LenProperties
<1>10. \A d \in Chat : Record!FileOf(d)' = Record!FileOf(d) /\ Record!FileOf(d) \in Chat
  BY <1>2, FileIsChat DEF Record!FileOf
<1>11. CASE ~Record!AwaitsTokens(ms)
  <2>1. queuedTokens' = [queuedTokens EXCEPT ![c] = tokens] /\ conversationFile' = conversationFile
    BY <1>1, <1>7, <1>8, <1>11 DEF Record!Usage, OwnTokens
  <2>2. /\ queuedTokens' \in [Chat -> RecordedTokens] /\ queuedTokens'[c] = tokens
        /\ \A d \in Chat : d # c => queuedTokens'[d] = queuedTokens[d]
    BY <1>3, <2>1 DEF RecordingInv
  <2>3. /\ reply' \in [Chat -> RecordedReply] /\ reply'[c] = r
        /\ \A d \in Chat : d # c => reply'[d] = reply[d]
        /\ \A d \in Chat : StreamFits(recordingWorld.usage, d, reply'[d], queuedTokens'[d])
    BY <1>5, <1>6, <2>2, StreamsChange
  <2>4. \A d \in Chat : reply'[d].thoughts = reply[d].thoughts
    BY <1>5, <2>3
  <2>5. Record!ConversationsAreWhole' /\ Record!ThoughtsAreKept'
    BY <1>2, <1>10, <2>1, <2>4 DEF RecordingInv, Record!ConversationsAreWhole,
       Record!ThoughtsAreKept
  <2> QED BY <1>2, <2>1, <2>2, <2>3, <2>5 DEF RecordingInv
<1>12. CASE Record!AwaitsTokens(ms)
  <2>1. ms # <<>> /\ Record!Last(ms).line.type = "gemini" /\ Record!Last(ms).tokens = Record!NoTokens
    BY <1>12 DEF Record!AwaitsTokens
  <2>2. n # 0 /\ n \in 1 .. n
    BY <1>8, <1>9, <2>1, EmptySeq
  <2>3. ms[n].line.type = "gemini" /\ ms[n].tokens = Record!NoTokens /\ ms[n] \in Message
    BY <1>9, <2>1, <2>2, ElementOfSeq DEF Record!Last
  <2>4. ms[n].line.number # 0
    BY <2>3 DEF Message, RecordedLine
  <2>5. ~recordingWorld.usage
    <3>1. TokensFit(recordingWorld.usage, ms[n])
      BY <1>8, <1>9, <2>2 DEF RecordingInv
    <3> QED BY <2>3, <2>4, <3>1 DEF TokensFit, OwnTokens, Record!NoTokens
  <2>6. PICK m : m = [ms[n] EXCEPT !.tokens = tokens]
    OBVIOUS
  <2>7. m \in Message /\ m.line = ms[n].line /\ m.thoughts = ms[n].thoughts
    BY <1>3, <2>3, <2>6 DEF Message
  <2>8. PICK new : new = [ms EXCEPT ![n] = m]
    OBVIOUS
  <2>9. /\ new \in Seq(Message) /\ Len(new) = n /\ new[n] = m
        /\ \A i \in 1 .. n : i # n => new[i] = ms[i]
    BY <1>9, <2>2, <2>7, <2>8, ExceptSeq
  <2>10. /\ conversationFile' = [conversationFile EXCEPT ![f] = new]
         /\ queuedTokens' = [queuedTokens EXCEPT ![c] = Record!NoTokens]
    BY <1>1, <1>7, <1>8, <1>9, <1>12, <2>6, <2>8 DEF Record!Usage, OwnTokens
  <2>11. /\ conversationFile' \in [Chat -> Seq(Message)] /\ conversationFile'[f] = new
         /\ \A g \in Chat : g # f => conversationFile'[g] = conversationFile[g]
    BY <2>9, <2>10 DEF RecordingInv
  <2>12. Record!NoTokens \in RecordedTokens
    BY DEF Record!NoTokens, RecordedTokens
  <2>13. /\ queuedTokens' \in [Chat -> RecordedTokens]
         /\ \A d \in Chat : d # c => queuedTokens'[d] = queuedTokens[d]
    BY <2>10, <2>12 DEF RecordingInv
  <2>14. /\ reply' \in [Chat -> RecordedReply] /\ reply'[c] = r
         /\ \A d \in Chat : d # c => reply'[d] = reply[d]
         /\ \A d \in Chat : StreamFits(recordingWorld.usage, d, reply'[d], queuedTokens'[d])
    BY <1>5, <1>6, <2>5, <2>13, StreamsChange
  <2>15. \A d \in Chat : reply'[d].thoughts = reply[d].thoughts
    BY <1>5, <2>14
  <2>16. \A i \in 1 .. n : new[i].line = ms[i].line /\ new[i].thoughts = ms[i].thoughts
    BY <2>7, <2>9
  <2>17. \A d : /\ \A said : Record!HasLines(ms, d, said) => Record!HasLines(new, d, said)
                /\ \A queue, k : Record!HasThoughts(ms, d, queue, k) => Record!HasThoughts(new, d, queue, k)
    BY <1>9, <2>9, <2>16, TokensAside
  <2>18. ASSUME NEW d \in Chat
         PROVE  /\ Record!HasLines(conversationFile'[Record!FileOf(d)], d, spoken[d])
                /\ Record!HasThoughts(conversationFile'[Record!FileOf(d)], d, queuedThoughts[d], reply[d].thoughts)
    <3>1. /\ Record!HasLines(conversationFile[Record!FileOf(d)], d, spoken[d])
          /\ Record!HasThoughts(conversationFile[Record!FileOf(d)], d, queuedThoughts[d], reply[d].thoughts)
      BY DEF RecordingInv, Record!ConversationsAreWhole, Record!ThoughtsAreKept
    <3>2. CASE Record!FileOf(d) = f
      BY <1>8, <2>11, <2>17, <3>1, <3>2
    <3>3. CASE Record!FileOf(d) # f
      BY <1>10, <2>11, <3>1, <3>3
    <3> QED BY <3>2, <3>3
  <2>19. Record!ConversationsAreWhole' /\ Record!ThoughtsAreKept'
    BY <1>2, <1>10, <2>15, <2>18 DEF Record!ConversationsAreWhole, Record!ThoughtsAreKept
  <2>20. TokensFit(recordingWorld.usage, m)
    BY <2>3, <2>5, <2>7 DEF TokensFit
  <2>21. ASSUME NEW g \in Chat, NEW i \in 1 .. Len(conversationFile'[g])
         PROVE  TokensFit(recordingWorld.usage, conversationFile'[g][i])
    <3>1. CASE g # f
      BY <2>11, <2>21, <3>1 DEF RecordingInv
    <3>2. CASE g = f /\ i = n
      BY <2>9, <2>11, <2>20, <3>2
    <3>3. CASE g = f /\ i # n
      <4>1. i \in 1 .. n /\ conversationFile'[g][i] = ms[i]
        BY <2>9, <2>11, <3>3
      <4> QED BY <1>8, <1>9, <4>1 DEF RecordingInv
    <3> QED BY <3>1, <3>2, <3>3
  <2> QED BY <1>2, <2>11, <2>13, <2>14, <2>19, <2>21 DEF RecordingInv
<1> QED BY <1>11, <1>12

LEMMA RecordingStepKeeps == RecordingConstants /\ RecordingInv /\ [Record!RecordingNext]_(Record!recordingVars) => RecordingInv'
<1> SUFFICES ASSUME RecordingConstants, RecordingInv, [Record!RecordingNext]_(Record!recordingVars) PROVE RecordingInv'
  OBVIOUS
<1>1. CASE UNCHANGED Record!recordingVars
  <2>1. UNCHANGED <<recordingWorld, conversationFile, queuedThoughts, queuedTokens, reply, spoken>>
    BY <1>1 DEF Record!recordingVars
  <2>2. Record!ConversationsAreWhole' /\ Record!ThoughtsAreKept'
    BY <2>1 DEF RecordingInv, Record!ConversationsAreWhole, Record!ThoughtsAreKept, Record!FileOf
  <2> QED BY <2>1, <2>2 DEF RecordingInv
<1>2. CASE Record!RecordingNext
  BY <1>2, NewConversationKeeps, SendKeeps, ThoughtKeeps, TextKeeps, UsageKeeps, StreamEndsKeeps,
     StreamBreaksKeeps
     DEF Record!RecordingNext
<1> QED BY <1>1, <1>2
-----------------------------------------------------------------------------
(* The message log and the checkpoints (SessionLog) *)

LEMMA SameInLog == \A S : Log!Cardinality(S) = Cardinality(S)
BY DEF Log!Cardinality, Cardinality


Sessions == {p[1].session[p[2]] : p \in LogWorld \X Logger}
LogEntry == [session : Sessions, id : Nat, prompt : Nat]

LEMMA EntriesAreFew ==
    ASSUME NEW logs \in Seq(LogEntry), NEW s
    PROVE  /\ Log!EntriesOf(logs, s) \subseteq 1 .. Len(logs) /\ Len(logs) \in Nat
           /\ IsFiniteSet(Log!EntriesOf(logs, s)) /\ Log!Cardinality(Log!EntriesOf(logs, s)) \in Nat
           /\ \A i \in Log!EntriesOf(logs, s) : logs[i].id \in Nat /\ logs[i].session = s
<1>1. Len(logs) \in Nat /\ \A i \in 1 .. Len(logs) : logs[i].id \in Nat
  <2>1. Len(logs) \in Nat
    BY LenProperties
  <2>2. \A i \in 1 .. Len(logs) : logs[i] \in LogEntry
    BY ElementOfSeq
  <2> QED BY <2>1, <2>2 DEF LogEntry
<1>2. Log!EntriesOf(logs, s) \subseteq 1 .. Len(logs) /\ \A i \in Log!EntriesOf(logs, s) : logs[i].session = s
  BY DEF Log!EntriesOf
<1>3. IsFiniteSet(1 .. Len(logs))
  <2>1. \A n \in Nat : IsFiniteSet(1 .. n)
    BY FS_Interval, SameInLog
  <2> QED BY <1>1, <2>1
<1> QED BY <1>1, <1>2, <1>3, FS_Subset, FS_CardinalityType, SameInLog

\* The entries of a session that is in order are numbered from 0: the next number is
\* how many there are.
LEMMA NextIs ==
    ASSUME NEW logs \in Seq(LogEntry), Log!InOrder(logs), NEW s
    PROVE  Log!NextId(logs, s) = Log!Cardinality(Log!EntriesOf(logs, s))
<1>1. PICK p : p = Log!EntriesOf(logs, s)
  OBVIOUS
<1>2. /\ p \subseteq 1 .. Len(logs) /\ Len(logs) \in Nat /\ IsFiniteSet(p) /\ Log!Cardinality(p) \in Nat
      /\ \A i \in p : logs[i].id \in Nat /\ logs[i].session = s
  BY <1>1, EntriesAreFew
<1>3. \A i \in p : logs[i].id = Log!Cardinality(p \cap 1 .. i - 1)
  BY <1>1, <1>2 DEF Log!InOrder
<1>4. CASE p = {}
  <2>1. Log!Cardinality(p) = 0
    BY <1>4, FS_EmptySet, SameInLog
  <2> QED BY <1>1, <1>4, <2>1 DEF Log!NextId
<1>5. CASE p # {}
  <2>1. p \subseteq Nat
    BY <1>2
  <2>2. PICK m \in p : \A k \in p : k <= m
    BY <1>2, <1>5, <2>1, LastOne
  <2>3. Log!Cardinality(p \ {m}) = Log!Cardinality(p) - 1 /\ IsFiniteSet(p \ {m})
    BY <1>2, FS_RemoveElement, SameInLog
  <2>4. p \cap 1 .. m - 1 = p \ {m}
    <3>1. \A k \in p : k \in 1 .. m - 1 <=> k # m
      BY <1>2, <2>1, <2>2
    <3> QED BY <3>1
  <2>5. logs[m].id = Log!Cardinality(p) - 1
    BY <1>3, <2>3, <2>4
  <2>6. ASSUME NEW i \in p PROVE logs[i].id <= logs[m].id
    <3>1. p \cap 1 .. i - 1 \subseteq p \ {i}
      BY <2>1
    <3>2. IsFiniteSet(p \ {i}) /\ Log!Cardinality(p \ {i}) = Log!Cardinality(p) - 1
      BY <1>2, FS_RemoveElement, SameInLog
    <3>3. Log!Cardinality(p \cap 1 .. i - 1) <= Log!Cardinality(p \ {i})
      BY <3>1, <3>2, FS_Subset, SameInLog
    <3> QED BY <1>3, <2>5, <3>2, <3>3
  <2>7. PICK ids : ids = {logs[i].id : i \in p}
    OBVIOUS
  <2>8. logs[m].id \in ids /\ \A y \in ids : y <= logs[m].id /\ y \in Nat
    BY <1>2, <2>6, <2>7
  <2>9. Log!Max(ids) = logs[m].id
    <3>1. \A x \in ids : (\A y \in ids : x >= y) => x = logs[m].id
      BY <2>8
    <3>2. logs[m].id \in ids /\ \A y \in ids : logs[m].id >= y
      BY <2>8
    <3> QED BY <3>1, <3>2 DEF Log!Max
  <2>10. Log!NextId(logs, s) = logs[m].id + 1
    BY <1>1, <1>5, <2>7, <2>9 DEF Log!NextId
  <2> QED BY <1>1, <1>2, <2>5, <2>10
<1> QED BY <1>4, <1>5

\* An entry with the next number keeps a log in order.
LEMMA OneMoreEntry ==
    ASSUME NEW logs \in Seq(LogEntry), Log!InOrder(logs), NEW e \in LogEntry, e.id = Log!NextId(logs, e.session),
           NEW new, new = Append(logs, e)
    PROVE  new \in Seq(LogEntry) /\ Log!InOrder(new)
<1>1. PICK n \in Nat : n = Len(logs)
  BY LenProperties
<1>2. /\ new \in Seq(LogEntry) /\ Len(new) = n + 1
      /\ new[n + 1] = e /\ \A i \in 1 .. n : new[i] = logs[i]
  BY <1>1, AppendProperties
<1>3. \A i : i \in 1 .. n + 1 <=> i \in 1 .. n \/ i = n + 1
  BY <1>1
<1>4. ASSUME NEW s, NEW i \in 1 .. n + 1 PROVE Log!EntriesOf(new, s) \cap 1 .. i - 1 = Log!EntriesOf(logs, s) \cap 1 .. i - 1
  <2>1. \A j \in 1 .. i - 1 : j \in 1 .. n /\ j \in 1 .. n + 1
    BY <1>1
  <2>2. \A j \in 1 .. i - 1 : j \in Log!EntriesOf(new, s) <=> j \in Log!EntriesOf(logs, s)
    BY <1>1, <1>2, <2>1 DEF Log!EntriesOf
  <2> QED BY <2>2
<1>5. ASSUME NEW i \in 1 .. n PROVE new[i].id = Log!Cardinality(Log!EntriesOf(new, new[i].session) \cap 1 .. i - 1)
  <2>1. logs[i].id = Log!Cardinality(Log!EntriesOf(logs, logs[i].session) \cap 1 .. i - 1)
    BY <1>1 DEF Log!InOrder
  <2>2. i \in 1 .. n + 1 /\ new[i] = logs[i]
    BY <1>2, <1>3
  <2>3. Log!EntriesOf(new, logs[i].session) \cap 1 .. i - 1 = Log!EntriesOf(logs, logs[i].session) \cap 1 .. i - 1
    BY <1>4, <2>2
  <2> QED BY <2>1, <2>2, <2>3
<1>6. e.id = Log!Cardinality(Log!EntriesOf(new, e.session) \cap 1 .. (n + 1) - 1)
  <2>1. e.id = Log!Cardinality(Log!EntriesOf(logs, e.session))
    BY NextIs
  <2>2. (n + 1) - 1 = n /\ n + 1 \in 1 .. n + 1 /\ Log!EntriesOf(logs, e.session) \subseteq 1 .. n
    BY <1>1, EntriesAreFew
  <2>3. Log!EntriesOf(new, e.session) \cap 1 .. (n + 1) - 1 = Log!EntriesOf(logs, e.session) \cap 1 .. (n + 1) - 1
    BY <1>4, <2>2
  <2>4. Log!EntriesOf(logs, e.session) \cap 1 .. n = Log!EntriesOf(logs, e.session)
    BY <2>2
  <2> QED BY <2>1, <2>2, <2>3, <2>4
<1>7. \A i \in 1 .. n + 1 : new[i].id = Log!Cardinality(Log!EntriesOf(new, new[i].session) \cap 1 .. i - 1)
  BY <1>2, <1>3, <1>5, <1>6
<1> QED BY <1>2, <1>7 DEF Log!InOrder

-----------------------------------------------------------------------------
LoggerState ==
    [at : Log!AtWork \cup {"new", "ready", "gone"}, prompt : Nat, logs : Seq(LogEntry), existed : BOOLEAN, renamed : BOOLEAN]
FileState == [state : {"absent", "torn", "whole"}, logs : Seq(LogEntry)]

\* The log has the prompts 1 .. n.
Listed(logs, n) == Len(logs) = n /\ \A i \in 1 .. n : logs[i].prompt = i

\* What a logger at work relies on when nothing has disturbed it
LoggerFits(r, file, n) ==
    /\ r.at = "accessed" => file.state # "torn" /\ Listed(file.logs, n)
    /\ r.at = "reading" => file.state # "torn" /\ n > 0 /\ r.prompt = n /\ Listed(file.logs, n - 1)
    /\ r.at \in {"creating", "adding"} => Listed(r.logs, n)
    /\ r.at = "writing" => Listed(r.logs, n) /\ ~r.renamed /\ file.state = "torn"
    /\ r.at # "renaming"

LogShapes ==
    /\ logWorld \in LogWorld /\ prompts \in Nat
    /\ logFile \in FileState /\ Log!InOrder(logFile.logs)
    /\ logger \in [Logger -> LoggerState] /\ \A l \in Logger : Log!InOrder(logger[l].logs)
OneAtATime ==
    /\ \A l, o \in Logger : logger[l].at \in Log!AtWork /\ logger[o].at \in Log!AtWork => l = o
    /\ (\A l \in Logger : logger[l].at \notin Log!AtWork) => logFile.state # "torn" /\ Listed(logFile.logs, prompts)
    /\ \A l \in Logger : logger[l].at \in Log!AtWork => LoggerFits(logger[l], logFile, prompts)
LogInv == LogShapes /\ (~disturbed => OneAtATime)

LEMMA NoEntries == <<>> \in Seq(LogEntry) /\ Log!InOrder(<<>>) /\ Listed(<<>>, 0)
BY DEF Log!InOrder, Listed

LEMMA LogInvImplies == LogInv => Log!PromptsAreLogged /\ Log!IdsAreInOrder
<1> SUFFICES ASSUME LogInv PROVE Log!PromptsAreLogged /\ Log!IdsAreInOrder
  OBVIOUS
<1>1. ASSUME ~disturbed, \A l \in Logger : logger[l].at \notin Log!AtWork
      PROVE  [i \in 1 .. Len(logFile.logs) |-> logFile.logs[i].prompt] = [i \in 1 .. prompts |-> i]
  <2>1. Listed(logFile.logs, prompts)
    BY <1>1 DEF LogInv, OneAtATime
  <2> QED BY <2>1 DEF Listed
<1> QED BY <1>1 DEF LogInv, LogShapes, Log!PromptsAreLogged, Log!IdsAreInOrder

LEMMA LogInitHolds == Log!SessionLogInit => LogInv
<1> SUFFICES ASSUME Log!SessionLogInit PROVE LogInv
  OBVIOUS
<1>1. logFile \in FileState /\ logFile.logs = <<>> /\ logFile.state # "torn" /\ prompts = 0 /\ logWorld \in LogWorld
  BY NoEntries DEF Log!SessionLogInit, FileState
<1>2. /\ logger \in [Logger -> LoggerState]
      /\ \A l \in Logger : logger[l].logs = <<>> /\ logger[l].at \notin Log!AtWork
  BY NoEntries DEF Log!SessionLogInit, LoggerState, Log!AtWork
<1> QED BY <1>1, <1>2, NoEntries DEF LogInv, LogShapes, OneAtATime

\* A step of one logger, and of the file
LEMMA LoggerMoves ==
    ASSUME LogShapes, NEW l \in Logger, NEW r \in LoggerState, Log!InOrder(r.logs), logger' = [logger EXCEPT ![l] = r],
           logFile' \in FileState, Log!InOrder(logFile'.logs), prompts' \in Nat, logWorld' = logWorld
    PROVE  /\ LogShapes' /\ logger'[l] = r
           /\ \A o \in Logger : o # l => logger'[o] = logger[o]
<1>1. /\ logger' \in [Logger -> LoggerState] /\ logger'[l] = r
      /\ \A o \in Logger : o # l => logger'[o] = logger[o]
  BY DEF LogShapes
<1>2. \A o \in Logger : Log!InOrder(logger'[o].logs)
  BY <1>1 DEF LogShapes
<1> QED BY <1>1, <1>2 DEF LogShapes

LEMMA StaysOne ==
    ASSUME NEW l \in Logger, \A o \in Logger : o # l => logger'[o] = logger[o] /\ logger[o].at \notin Log!AtWork,
           logger'[l].at \in Log!AtWork => LoggerFits(logger'[l], logFile', prompts'),
           logger'[l].at \notin Log!AtWork => logFile'.state # "torn" /\ Listed(logFile'.logs, prompts')
    PROVE  OneAtATime'
BY DEF OneAtATime

LEMMA OthersRest ==
    ASSUME LogInv, ~disturbed, NEW l \in Logger, logger[l].at \in Log!AtWork
    PROVE  /\ \A o \in Logger : o # l => logger[o].at \notin Log!AtWork
           /\ LoggerFits(logger[l], logFile, prompts)
BY DEF LogInv, OneAtATime

LEMMA LoggersAre ==
    ASSUME LogShapes, NEW l \in Logger
    PROVE  logger[l] \in LoggerState /\ Log!InOrder(logger[l].logs) /\ logger[l].logs \in Seq(LogEntry)
BY DEF LogShapes, LoggerState

LEMMA FileIs == LogShapes => logFile.logs \in Seq(LogEntry) /\ Log!InOrder(logFile.logs) /\ logFile \in FileState /\ prompts \in Nat
BY DEF LogShapes, FileState

\* When an operation begins undisturbed, nobody is at work and the log is whole.
LEMMA BeginsAlone ==
    ASSUME LogInv, NEW l \in Logger, logger[l].at \notin Log!AtWork, Log!Begins(l), ~disturbed'
    PROVE  /\ \A o \in Logger : logger[o].at \notin Log!AtWork
           /\ logFile.state # "torn" /\ Listed(logFile.logs, prompts)
<1>1. ~disturbed /\ Log!Others(l) = {}
  BY DEF Log!Begins
<1>2. \A o \in Logger : logger[o].at \notin Log!AtWork
  BY <1>1 DEF Log!Others
<1> QED BY <1>1, <1>2 DEF LogInv, OneAtATime

LEMMA AccessKeeps == ASSUME LogInv, NEW l \in Logger, Log!Access(l) PROVE LogInv'
<1>1. PICK r : r = [logger[l] EXCEPT !.at = "accessed", !.existed = (logFile.state # "absent")]
  OBVIOUS
<1>2. r \in LoggerState /\ r.logs = logger[l].logs /\ r.at = "accessed" /\ Log!InOrder(r.logs)
  BY <1>1, LoggersAre DEF LogInv, LoggerState, Log!AtWork
<1>3. logger' = [logger EXCEPT ![l] = r] /\ prompts' = prompts /\ UNCHANGED <<logWorld, logFile>>
  BY <1>1 DEF Log!Access, Log!Begins, LogInv, LogShapes
<1>4. /\ LogShapes' /\ logger'[l] = r
      /\ \A o \in Logger : o # l => logger'[o] = logger[o]
  BY <1>2, <1>3, LoggerMoves, FileIs DEF LogInv
<1>5. ASSUME ~disturbed' PROVE OneAtATime'
  <2>1. logger[l].at \notin Log!AtWork /\ Log!Begins(l)
    BY DEF Log!Access, Log!AtWork
  <2>2. /\ \A o \in Logger : logger[o].at \notin Log!AtWork
        /\ logFile.state # "torn" /\ Listed(logFile.logs, prompts)
    BY <1>5, <2>1, BeginsAlone
  <2>3. LoggerFits(r, logFile, prompts) /\ r.at \in Log!AtWork
    BY <1>2, <2>2 DEF LoggerFits, Log!AtWork
  <2> QED BY <1>3, <1>4, <2>2, <2>3, StaysOne
<1> QED BY <1>4, <1>5 DEF LogInv

LEMMA LogMessageKeeps == ASSUME LogInv, NEW l \in Logger, Log!LogMessage(l) PROVE LogInv'
<1>0. PICK n \in Nat : n = prompts + 1
  BY DEF LogInv, LogShapes
<1>1. PICK r : r = [logger[l] EXCEPT !.at = "reading", !.prompt = n]
  OBVIOUS
<1>2. r \in LoggerState /\ r.logs = logger[l].logs /\ r.at = "reading" /\ r.prompt = n /\ Log!InOrder(r.logs)
  BY <1>1, LoggersAre DEF LogInv, LoggerState, Log!AtWork
<1>3. logger' = [logger EXCEPT ![l] = r] /\ prompts' = n /\ UNCHANGED <<logWorld, logFile>>
  BY <1>0, <1>1 DEF Log!LogMessage, Log!Begins, LogInv, LogShapes
<1>4. /\ LogShapes' /\ logger'[l] = r
      /\ \A o \in Logger : o # l => logger'[o] = logger[o]
  BY <1>2, <1>3, LoggerMoves, FileIs DEF LogInv
<1>5. ASSUME ~disturbed' PROVE OneAtATime'
  <2>1. logger[l].at \notin Log!AtWork /\ Log!Begins(l)
    BY DEF Log!LogMessage, Log!AtWork
  <2>2. /\ \A o \in Logger : logger[o].at \notin Log!AtWork
        /\ logFile.state # "torn" /\ Listed(logFile.logs, prompts)
    BY <1>5, <2>1, BeginsAlone
  <2>3. n - 1 = prompts /\ n > 0
    BY <1>0 DEF LogInv, LogShapes
  <2>4. LoggerFits(r, logFile, n) /\ r.at \in Log!AtWork
    BY <1>2, <2>2, <2>3 DEF LoggerFits, Log!AtWork
  <2> QED BY <1>3, <1>4, <2>2, <2>4, StaysOne
<1> QED BY <1>4, <1>5 DEF LogInv

\* What a read leaves: what is torn is renamed next.
LEMMA ReadIs ==
    ASSUME LogInv, NEW l \in Logger, NEW at \in Log!AtWork \cup {"ready"}, NEW logs \in Seq(LogEntry), Log!InOrder(logs),
           Log!Read(l, at, logs), logger[l].at \in Log!AtWork,
           ~disturbed => logFile.state # "torn" /\ (at = "ready" => Listed(logFile.logs, prompts))
                         /\ (at # "ready" => at \in {"creating", "adding"} /\ Listed(logs, prompts))
    PROVE  LogInv'
<1>1. PICK r : r = [logger[l] EXCEPT !.at = IF logFile.state = "torn" THEN "renaming" ELSE at, !.logs = logs]
  OBVIOUS
<1>2. r \in LoggerState /\ r.logs = logs /\ (logFile.state # "torn" => r.at = at)
  BY <1>1, LoggersAre DEF LogInv, LoggerState, Log!AtWork
<1>3. logger' = [logger EXCEPT ![l] = r] /\ UNCHANGED <<logWorld, logFile, prompts, disturbed>>
  BY <1>1 DEF Log!Read, LogInv, LogShapes
<1>4. /\ LogShapes' /\ logger'[l] = r
      /\ \A o \in Logger : o # l => logger'[o] = logger[o]
  BY <1>2, <1>3, LoggerMoves, FileIs DEF LogInv
<1>5. ASSUME ~disturbed' PROVE OneAtATime'
  <2>1. ~disturbed /\ r.at = at
    BY <1>2, <1>3, <1>5
  <2>2. \A o \in Logger : o # l => logger[o].at \notin Log!AtWork
    BY <2>1, OthersRest
  <2>3. CASE at = "ready"
    <3>1. r.at \notin Log!AtWork
      BY <2>1, <2>3 DEF Log!AtWork
    <3> QED BY <1>3, <1>4, <2>1, <2>2, <2>3, <3>1, StaysOne
  <2>4. CASE at # "ready"
    <3>1. LoggerFits(r, logFile, prompts) /\ r.at \in Log!AtWork
      BY <1>2, <2>1, <2>4 DEF LoggerFits, Log!AtWork
    <3> QED BY <1>3, <1>4, <2>2, <3>1, StaysOne
  <2> QED BY <2>3, <2>4
<1> QED BY <1>4, <1>5 DEF LogInv

LEMMA InitializeKeeps == ASSUME LogInv, NEW l \in Logger, Log!Initialize(l) PROVE LogInv'
<1>1. logger[l].at = "accessed" /\ logger[l].at \in Log!AtWork
  BY DEF Log!Initialize, Log!AtWork
<1>2. PICK at : at = IF logger[l].existed \/ logFile.logs # <<>> THEN "ready" ELSE "creating"
  OBVIOUS
<1>3. Log!Read(l, at, <<>>) /\ at \in Log!AtWork \cup {"ready"}
  BY <1>2 DEF Log!Initialize, Log!AtWork
<1>4. ASSUME ~disturbed
      PROVE  /\ logFile.state # "torn" /\ (at = "ready" => Listed(logFile.logs, prompts))
             /\ (at # "ready" => at \in {"creating", "adding"} /\ Listed(<<>>, prompts))
  <2>1. logFile.state # "torn" /\ Listed(logFile.logs, prompts)
    BY <1>1, <1>4, OthersRest DEF LoggerFits
  <2> QED BY <1>2, <2>1
<1> QED BY <1>1, <1>3, <1>4, NoEntries, ReadIs

LEMMA UpdateKeeps == ASSUME LogInv, NEW l \in Logger, Log!Update(l) PROVE LogInv'
<1>1. logger[l].at = "reading" /\ logger[l].at \in Log!AtWork
  BY DEF Log!Update, Log!AtWork
<1>2. PICK logs \in Seq(LogEntry) : logs = logFile.logs /\ Log!InOrder(logs)
  BY FileIs DEF LogInv
<1>3. PICK e : e = [session |-> logWorld.session[l], id |-> Log!NextId(logs, logWorld.session[l]), prompt |-> logger[l].prompt]
  OBVIOUS
<1>4. /\ e.session = logWorld.session[l] /\ e.id = Log!NextId(logs, e.session) /\ e.prompt = logger[l].prompt
      /\ e \in LogEntry
  <2>1. logWorld.session[l] \in Sessions
    <3>1. <<logWorld, l>> \in LogWorld \X Logger
      BY DEF LogInv, LogShapes
    <3>2. <<logWorld, l>>[1].session[<<logWorld, l>>[2]] = logWorld.session[l]
      OBVIOUS
    <3> QED BY <3>1, <3>2 DEF Sessions
  <2>2. Log!NextId(logs, logWorld.session[l]) \in Nat
    BY <1>2, NextIs, EntriesAreFew
  <2>3. logger[l].prompt \in Nat
    BY LoggersAre DEF LogInv, LoggerState
  <2> QED BY <1>3, <2>1, <2>2, <2>3 DEF LogEntry
<1>5. PICK new : new = Append(logs, e)
  OBVIOUS
<1>6. new = Log!Added(l)
  BY <1>2, <1>3, <1>5 DEF Log!Added
<1>7. new \in Seq(LogEntry) /\ Log!InOrder(new)
  BY <1>2, <1>4, <1>5, OneMoreEntry
<1>8. ASSUME ~disturbed PROVE logFile.state # "torn" /\ Listed(new, prompts)
  <2>1. logFile.state # "torn" /\ prompts > 0 /\ logger[l].prompt = prompts /\ Listed(logFile.logs, prompts - 1)
    BY <1>1, <1>8, OthersRest DEF LoggerFits
  <2>2. PICK n \in Nat : n = prompts - 1 /\ prompts = n + 1
    BY <2>1 DEF LogInv, LogShapes
  <2>3. Len(logs) = n /\ \A i \in 1 .. n : logs[i].prompt = i
    BY <1>2, <2>1, <2>2 DEF Listed
  <2>4. Len(new) = n + 1 /\ new[n + 1] = e /\ \A i \in 1 .. n : new[i] = logs[i]
    BY <1>2, <1>4, <1>5, <2>3, AppendProperties
  <2>5. \A i \in 1 .. n + 1 : i \in 1 .. n \/ i = n + 1
    BY <2>2
  <2>6. \A i \in 1 .. n + 1 : new[i].prompt = i
    BY <1>4, <2>1, <2>2, <2>3, <2>4, <2>5
  <2> QED BY <2>1, <2>2, <2>4, <2>6 DEF Listed
<1>9. Log!Read(l, "adding", new) /\ "adding" \in Log!AtWork \cup {"ready"} /\ "adding" # "ready"
  BY <1>6 DEF Log!Update, Log!AtWork
<1> QED BY <1>1, <1>7, <1>8, <1>9, ReadIs

\* Nobody renames an undisturbed log.
LEMMA BackupKeeps == ASSUME LogInv, NEW l \in Logger, Log!Backup(l) PROVE LogInv'
<1>1. logger[l].at = "renaming" /\ logger[l].at \in Log!AtWork /\ UNCHANGED <<logWorld, prompts, disturbed>>
  BY DEF Log!Backup, Log!AtWork
<1>2. disturbed
  BY <1>1, OthersRest DEF LoggerFits
<1>3. logFile' = [state |-> "absent", logs |-> <<>>]
  BY DEF Log!Backup
<1>4. logFile' \in FileState /\ Log!InOrder(logFile'.logs)
  BY <1>3, NoEntries DEF FileState
<1>5. PICK next : next = [o \in Logger |->
           IF o = l
             THEN [logger[l] EXCEPT !.at = CASE logger[l].logs # <<>> -> "adding"
                                             [] logger[l].existed     -> "ready"
                                             [] OTHER                 -> "creating"]
             ELSE [logger[o] EXCEPT !.renamed = @ \/ logger[o].at = "writing"]]
  OBVIOUS
<1>6. logger' = next
  BY <1>5 DEF Log!Backup
<1>7. ASSUME NEW o \in Logger PROVE next[o] \in LoggerState /\ next[o].logs = logger[o].logs
  <2>1. logger[o] \in LoggerState
    BY LoggersAre DEF LogInv
  <2>2. PICK at : at = CASE logger[l].logs # <<>> -> "adding"
                         [] logger[l].existed     -> "ready"
                         [] OTHER                 -> "creating"
    OBVIOUS
  <2>3. at \in Log!AtWork \cup {"ready"}
    BY <2>2 DEF Log!AtWork
  <2>4. CASE o = l
    <3>1. next[o] = [logger[o] EXCEPT !.at = at]
      BY <1>5, <2>2, <2>4
    <3> QED BY <2>1, <2>3, <3>1 DEF LoggerState
  <2>5. CASE o # l
    <3>1. PICK b : b = (logger[o].renamed \/ logger[o].at = "writing")
      OBVIOUS
    <3>2. b \in BOOLEAN
      BY <3>1
    <3>3. next[o] = [logger[o] EXCEPT !.renamed = b]
      BY <1>5, <2>5, <3>1
    <3> QED BY <2>1, <3>2, <3>3 DEF LoggerState
  <2> QED BY <2>4, <2>5
<1>8. next \in [Logger -> LoggerState]
  BY <1>5, <1>7
<1>9. \A o \in Logger : Log!InOrder(next[o].logs)
  BY <1>7, LoggersAre DEF LogInv
<1> QED BY <1>1, <1>2, <1>4, <1>6, <1>8, <1>9 DEF LogInv, LogShapes

LEMMA OpenKeeps == ASSUME LogInv, NEW l \in Logger, Log!Open(l) PROVE LogInv'
<1>1. PICK r : r = [logger[l] EXCEPT !.at = "writing", !.renamed = FALSE]
  OBVIOUS
<1>2. r \in LoggerState /\ r.logs = logger[l].logs /\ r.at = "writing" /\ ~r.renamed /\ Log!InOrder(r.logs)
  BY <1>1, LoggersAre DEF LogInv, LoggerState, Log!AtWork
<1>3. /\ logger' = [logger EXCEPT ![l] = r] /\ UNCHANGED <<logWorld, prompts, disturbed>> /\ logFile' = Log!Torn
      /\ logger[l].at \in {"creating", "adding"} /\ logger[l].at \in Log!AtWork
  BY <1>1 DEF Log!Open, LogInv, LogShapes, Log!AtWork
<1>4. logFile' \in FileState /\ Log!InOrder(logFile'.logs) /\ logFile'.state = "torn"
  BY <1>3, NoEntries DEF Log!Torn, FileState
<1>5. /\ LogShapes' /\ logger'[l] = r
      /\ \A o \in Logger : o # l => logger'[o] = logger[o]
  BY <1>2, <1>3, <1>4, LoggerMoves, FileIs DEF LogInv
<1>6. ASSUME ~disturbed' PROVE OneAtATime'
  <2>1. /\ \A o \in Logger : o # l => logger[o].at \notin Log!AtWork
        /\ LoggerFits(logger[l], logFile, prompts)
    BY <1>3, <1>6, OthersRest
  <2>2. LoggerFits(r, logFile', prompts) /\ r.at \in Log!AtWork
    BY <1>2, <1>3, <1>4, <2>1 DEF LoggerFits, Log!AtWork
  <2> QED BY <1>3, <1>5, <2>1, <2>2, StaysOne
<1> QED BY <1>5, <1>6 DEF LogInv

LEMMA WriteKeeps == ASSUME LogInv, NEW l \in Logger, Log!Write(l) PROVE LogInv'
<1>1. PICK r : r = [logger[l] EXCEPT !.at = "ready", !.logs = <<>>]
  OBVIOUS
<1>2. r \in LoggerState /\ r.logs = <<>> /\ r.at = "ready" /\ Log!InOrder(r.logs)
  BY <1>1, NoEntries, LoggersAre DEF LogInv, LoggerState
<1>3. /\ logger' = [logger EXCEPT ![l] = r] /\ UNCHANGED <<logWorld, prompts, disturbed>>
      /\ logger[l].at = "writing" /\ logger[l].at \in Log!AtWork
  BY <1>1 DEF Log!Write, LogInv, LogShapes, Log!AtWork
<1>4. PICK file : file = Log!Whole(logger[l].logs)
  OBVIOUS
<1>5. file \in FileState /\ file.logs = logger[l].logs /\ Log!InOrder(file.logs) /\ file.state = "whole"
  BY <1>4, LoggersAre DEF LogInv, Log!Whole, FileState
<1>6. Log!Torn \in FileState /\ Log!InOrder(Log!Torn.logs)
  BY NoEntries DEF Log!Torn, FileState
<1>7. /\ logFile' \in {logFile, file, Log!Torn}
      /\ ~logger[l].renamed /\ logFile.state = "torn" => logFile' = file
  BY <1>4 DEF Log!Write
<1>8. logFile' \in FileState /\ Log!InOrder(logFile'.logs)
  BY <1>5, <1>6, <1>7, FileIs DEF LogInv
<1>9. /\ LogShapes' /\ logger'[l] = r
      /\ \A o \in Logger : o # l => logger'[o] = logger[o]
  BY <1>2, <1>3, <1>8, LoggerMoves, FileIs DEF LogInv
<1>10. ASSUME ~disturbed' PROVE OneAtATime'
  <2>1. /\ \A o \in Logger : o # l => logger[o].at \notin Log!AtWork
        /\ LoggerFits(logger[l], logFile, prompts)
    BY <1>3, <1>10, OthersRest
  <2>2. logFile' = file /\ Listed(logger[l].logs, prompts)
    BY <1>3, <1>7, <2>1 DEF LoggerFits
  <2>3. logFile'.state # "torn" /\ Listed(logFile'.logs, prompts) /\ r.at \notin Log!AtWork
    BY <1>2, <1>5, <2>2 DEF Log!AtWork
  <2> QED BY <1>3, <1>9, <2>1, <2>3, StaysOne
<1> QED BY <1>9, <1>10 DEF LogInv

LEMMA CrashKeeps == ASSUME LogInv, NEW l \in Logger, Log!Crash(l) PROVE LogInv'
<1>1. PICK r : r = [logger[l] EXCEPT !.at = "gone"]
  OBVIOUS
<1>2. r \in LoggerState /\ Log!InOrder(r.logs)
  BY <1>1, LoggersAre DEF LogInv, LoggerState
<1>3. logger' = [logger EXCEPT ![l] = r] /\ UNCHANGED <<logWorld, logFile, prompts>> /\ disturbed'
  BY <1>1 DEF Log!Crash, Log!Goes, LogInv, LogShapes
<1>4. LogShapes'
  BY <1>2, <1>3, LoggerMoves, FileIs DEF LogInv
<1> QED BY <1>3, <1>4 DEF LogInv

LEMMA LogStays == ASSUME LogInv, UNCHANGED <<logWorld, logFile, logger, prompts, disturbed>> PROVE LogInv'
BY DEF LogInv, LogShapes, OneAtATime

-----------------------------------------------------------------------------
\* The checkpoints
CheckpointInv ==
    /\ checkpoint \in [Log!Path -> [state : {"none", "whole", "torn"}, saved : Nat]]
    /\ DOMAIN kept = Tag
    /\ overwriting # "none" => overwriting \in Tag
    /\ chatCommands \in Nat
    /\ Log!CheckpointsAreKept

LEMMA PathsAreOwn ==
    ASSUME NEW t \in Tag, NEW u
    PROVE  /\ Log!NewPath(t) \in Log!Path /\ Log!OldPath(t) \in Log!Path
           /\ u # t => Log!NewPath(u) # Log!NewPath(t) /\ Log!NewPath(u) # Log!OldPath(t) /\ Log!OldPath(u) # Log!NewPath(t) /\ Log!OldPath(u) # Log!OldPath(t)
           /\ Log!NewPath(t) # <<"bare", t>>
BY DEF Log!NewPath, Log!OldPath, Log!Path

LEMMA ContentsDiffer == \A n : Log!Holds(n) # Log!NoFile /\ Log!Holds(n) # Log!TornFile /\ Log!NoFile # Log!TornFile
BY DEF Log!Holds, Log!NoFile, Log!TornFile

LEMMA CheckpointInitHolds == Log!SessionLogInit => CheckpointInv
<1> SUFFICES ASSUME Log!SessionLogInit PROVE CheckpointInv
  OBVIOUS
<1>1. Log!NoFile \in [state : {"none", "whole", "torn"}, saved : Nat] /\ Log!Holds(0) \in [state : {"none", "whole", "torn"}, saved : Nat]
  BY DEF Log!NoFile, Log!Holds
<1>2. checkpoint = [p \in Log!Path |-> IF \E t \in logWorld.old : p = Log!OldPath(t) THEN Log!Holds(0) ELSE Log!NoFile]
  BY DEF Log!SessionLogInit
<1>3. checkpoint \in [Log!Path -> [state : {"none", "whole", "torn"}, saved : Nat]]
  BY <1>1, <1>2
<1>4. \A t \in Tag : kept[t] = IF t \in logWorld.old THEN Log!Holds(0) ELSE Log!NoFile
  BY DEF Log!SessionLogInit
<1>5. ASSUME NEW t \in Tag PROVE Log!Loaded(t) = kept[t]
  <2>1. checkpoint[Log!OldPath(t)] = IF t \in logWorld.old THEN Log!Holds(0) ELSE Log!NoFile
    BY <1>2, PathsAreOwn
  <2>2. checkpoint[Log!NewPath(t)] = Log!NoFile \/ Log!NewPath(t) = Log!OldPath(t)
    <3>1. CASE \E u \in logWorld.old : Log!NewPath(t) = Log!OldPath(u)
      <4>1. PICK u : Log!NewPath(t) = Log!OldPath(u)
        BY <3>1
      <4>2. u = t
        BY <4>1, PathsAreOwn
      <4> QED BY <4>1, <4>2
    <3>2. CASE ~(\E u \in logWorld.old : Log!NewPath(t) = Log!OldPath(u))
      BY <1>2, <3>2, PathsAreOwn
    <3> QED BY <3>1, <3>2
  <2>3. checkpoint[Log!PathOf(t)] = IF t \in logWorld.old THEN Log!Holds(0) ELSE Log!NoFile
    BY <2>1, <2>2 DEF Log!PathOf, Log!Exists
  <2> QED BY <1>4, <2>3, ContentsDiffer DEF Log!Loaded
<1>6. DOMAIN kept = Tag /\ overwriting = "none" /\ chatCommands = 0
  BY DEF Log!SessionLogInit
<1> QED BY <1>3, <1>5, <1>6 DEF CheckpointInv, Log!CheckpointsAreKept

\* What a tag finds depends on the files of its two paths.
LEMMA FindsSame ==
    ASSUME CheckpointInv, NEW t \in Tag, logWorld' = logWorld, kept'[t] = kept[t],
           checkpoint'[Log!NewPath(t)] = checkpoint[Log!NewPath(t)], checkpoint'[Log!OldPath(t)] = checkpoint[Log!OldPath(t)]
    PROVE  Log!Loaded(t)' = kept'[t] \/ (Log!May("full")' /\ checkpoint'[Log!NewPath(t)] = Log!TornFile)
<1>1. Log!Loaded(t) = kept[t] \/ (Log!May("full") /\ checkpoint[Log!NewPath(t)] = Log!TornFile)
  BY DEF CheckpointInv, Log!CheckpointsAreKept
<1>2. Log!NewPath(t)' = Log!NewPath(t) /\ Log!OldPath(t)' = Log!OldPath(t) /\ Log!May("full")' = Log!May("full")
  BY DEF Log!NewPath, Log!OldPath, Log!May
<1>3. Log!Loaded(t)' = Log!Loaded(t)
  BY <1>2 DEF Log!Loaded, Log!PathOf, Log!Exists
<1> QED BY <1>1, <1>2, <1>3

LEMMA SavesKeeps ==
    ASSUME CheckpointInv, NEW t \in Tag, Log!Saves(t), logWorld' = logWorld,
           chatCommands' \in Nat, overwriting' # "none" => overwriting' \in Tag
    PROVE  CheckpointInv'
<1>1. PICK n \in Nat : n = chatCommands'
  OBVIOUS
<1>2. PICK content : /\ checkpoint' = [checkpoint EXCEPT ![Log!NewPath(t)] = content]
                     /\ content = Log!Holds(n) \/ (Log!May("full") /\ content = Log!TornFile)
  BY <1>1 DEF Log!Saves
<1>3. content \in [state : {"none", "whole", "torn"}, saved : Nat] /\ content # Log!NoFile
  <2>1. Log!Holds(n) \in [state : {"none", "whole", "torn"}, saved : Nat] /\ Log!TornFile \in [state : {"none", "whole", "torn"}, saved : Nat]
    BY DEF Log!Holds, Log!TornFile
  <2> QED BY <1>2, <2>1, ContentsDiffer
<1>4. /\ checkpoint' \in [Log!Path -> [state : {"none", "whole", "torn"}, saved : Nat]]
      /\ checkpoint'[Log!NewPath(t)] = content
      /\ \A p \in Log!Path : p # Log!NewPath(t) => checkpoint'[p] = checkpoint[p]
  BY <1>2, <1>3, PathsAreOwn DEF CheckpointInv
<1>5. kept' = [kept EXCEPT ![t] = Log!Holds(n)]
  BY <1>1 DEF Log!Saves
<1>6. DOMAIN kept' = Tag /\ kept'[t] = Log!Holds(n) /\ \A u \in Tag : u # t => kept'[u] = kept[u]
  BY <1>5 DEF CheckpointInv
<1>7. ASSUME NEW u \in Tag PROVE Log!Loaded(u)' = kept'[u] \/ (Log!May("full")' /\ checkpoint'[Log!NewPath(u)] = Log!TornFile)
  <2>1. CASE u # t
    <3>1. checkpoint'[Log!NewPath(u)] = checkpoint[Log!NewPath(u)] /\ checkpoint'[Log!OldPath(u)] = checkpoint[Log!OldPath(u)]
      BY <1>4, <2>1, PathsAreOwn
    <3> QED BY <1>6, <2>1, <3>1, FindsSame
  <2>2. CASE u = t
    <3>1. Log!NewPath(t)' = Log!NewPath(t) /\ Log!May("full")' = Log!May("full")
      BY DEF Log!NewPath, Log!May
    <3>2. checkpoint'[Log!PathOf(t)'] = content
      BY <1>3, <1>4, <3>1 DEF Log!PathOf, Log!Exists
    <3>3. CASE content = Log!Holds(n)
      <4>1. Log!Loaded(t)' = Log!Holds(n)
        BY <3>2, <3>3, ContentsDiffer DEF Log!Loaded
      <4> QED BY <1>6, <2>2, <4>1
    <3>4. CASE Log!May("full") /\ content = Log!TornFile
      BY <1>4, <2>2, <3>1, <3>4
    <3> QED BY <1>2, <3>3, <3>4
  <2> QED BY <2>1, <2>2
<1>8. \A u \in Tag : Log!NewPath(u)' = Log!NewPath(u)
  BY DEF Log!NewPath
<1> QED BY <1>4, <1>6, <1>7, <1>8 DEF CheckpointInv, Log!CheckpointsAreKept

LEMMA CheckpointsStay ==
    ASSUME CheckpointInv, UNCHANGED <<logWorld, checkpoint, kept>>, chatCommands' \in Nat, overwriting' # "none" => overwriting' \in Tag
    PROVE  CheckpointInv'
<1>1. \A u \in Tag : Log!NewPath(u)' = Log!NewPath(u)
  BY DEF Log!NewPath
<1>2. \A u \in Tag : Log!Loaded(u)' = kept'[u] \/ (Log!May("full")' /\ checkpoint'[Log!NewPath(u)] = Log!TornFile)
  BY FindsSame
<1> QED BY <1>1, <1>2 DEF CheckpointInv, Log!CheckpointsAreKept

LEMMA DeleteKeeps == ASSUME CheckpointInv, NEW t \in Tag, Log!Delete(t) PROVE CheckpointInv'
<1>1. /\ checkpoint' = [checkpoint EXCEPT ![Log!NewPath(t)] = Log!NoFile, ![Log!OldPath(t)] = Log!NoFile]
      /\ kept' = [kept EXCEPT ![t] = Log!NoFile] /\ logWorld' = logWorld
      /\ overwriting' = overwriting /\ chatCommands' \in Nat
  BY DEF Log!Delete, Log!Deleted, Log!Given, CheckpointInv
<1>2. Log!NoFile \in [state : {"none", "whole", "torn"}, saved : Nat]
  BY DEF Log!NoFile
<1>3. /\ checkpoint' \in [Log!Path -> [state : {"none", "whole", "torn"}, saved : Nat]]
      /\ checkpoint'[Log!NewPath(t)] = Log!NoFile /\ checkpoint'[Log!OldPath(t)] = Log!NoFile
      /\ \A p \in Log!Path : p # Log!NewPath(t) /\ p # Log!OldPath(t) => checkpoint'[p] = checkpoint[p]
  BY <1>1, <1>2, PathsAreOwn DEF CheckpointInv
<1>4. DOMAIN kept' = Tag /\ kept'[t] = Log!NoFile /\ \A u \in Tag : u # t => kept'[u] = kept[u]
  BY <1>1 DEF CheckpointInv
<1>5. ASSUME NEW u \in Tag PROVE Log!Loaded(u)' = kept'[u] \/ (Log!May("full")' /\ checkpoint'[Log!NewPath(u)] = Log!TornFile)
  <2>1. CASE u # t
    <3>1. checkpoint'[Log!NewPath(u)] = checkpoint[Log!NewPath(u)] /\ checkpoint'[Log!OldPath(u)] = checkpoint[Log!OldPath(u)]
      BY <1>3, <2>1, PathsAreOwn
    <3> QED BY <1>1, <1>4, <2>1, <3>1, FindsSame
  <2>2. CASE u = t
    <3>1. Log!NewPath(t)' = Log!NewPath(t) /\ Log!OldPath(t)' = Log!OldPath(t)
      BY <1>1 DEF Log!NewPath, Log!OldPath
    <3>2. checkpoint'[Log!PathOf(t)'] = Log!NoFile
      BY <1>3, <3>1 DEF Log!PathOf, Log!Exists
    <3>3. Log!Loaded(t)' = Log!NoFile
      BY <3>2 DEF Log!Loaded
    <3> QED BY <1>4, <2>2, <3>3
  <2> QED BY <2>1, <2>2
<1>6. \A u \in Tag : Log!NewPath(u)' = Log!NewPath(u)
  BY DEF Log!NewPath
<1> QED BY <1>1, <1>3, <1>4, <1>5, <1>6 DEF CheckpointInv, Log!CheckpointsAreKept

LEMMA SaveKeeps == ASSUME CheckpointInv, NEW t \in Tag, Log!Save(t) PROVE CheckpointInv'
<1>1. chatCommands' \in Nat /\ logWorld' = logWorld /\ overwriting = "none"
  BY DEF Log!Save, Log!Given, CheckpointInv
<1>2. CASE overwriting' = t /\ UNCHANGED <<checkpoint, kept>>
  BY <1>1, <1>2, CheckpointsStay
<1>3. CASE Log!Saves(t) /\ UNCHANGED overwriting
  BY <1>1, <1>3, SavesKeeps
<1> QED BY <1>2, <1>3 DEF Log!Save

LEMMA OverwriteKeeps == ASSUME CheckpointInv, Log!Overwrite PROVE CheckpointInv'
<1>1. chatCommands' \in Nat /\ logWorld' = logWorld /\ overwriting' = "none" /\ overwriting \in Tag
  BY DEF Log!Overwrite, CheckpointInv
<1>2. CASE Log!Saves(overwriting)
  BY <1>1, <1>2, SavesKeeps
<1>3. CASE UNCHANGED <<checkpoint, kept>>
  BY <1>1, <1>3, CheckpointsStay
<1> QED BY <1>2, <1>3 DEF Log!Overwrite

SessionLogInv == LogInv /\ CheckpointInv

LEMMA SessionLogInvImplies == SessionLogInv => Log!LogIsKept
BY LogInvImplies DEF SessionLogInv, CheckpointInv, Log!LogIsKept

LEMMA SessionLogInitOK == Log!SessionLogInit => SessionLogInv
BY LogInitHolds, CheckpointInitHolds DEF SessionLogInv

LEMMA SessionLogStepKeeps == SessionLogInv /\ [Log!SessionLogNext]_(Log!sessionLogVars) => SessionLogInv'
<1> SUFFICES ASSUME SessionLogInv, [Log!SessionLogNext]_(Log!sessionLogVars) PROVE SessionLogInv'
  OBVIOUS
<1>1. ASSUME UNCHANGED <<logWorld, checkpoint, kept, overwriting, chatCommands>> PROVE CheckpointInv'
  BY <1>1, CheckpointsStay DEF SessionLogInv, CheckpointInv
<1>2. ASSUME UNCHANGED <<logWorld, logFile, logger, prompts, disturbed>> PROVE LogInv'
  BY <1>2, LogStays DEF SessionLogInv
<1>3. CASE UNCHANGED Log!sessionLogVars
  BY <1>1, <1>2, <1>3 DEF Log!sessionLogVars, Log!logFileVars, Log!checkpointVars, SessionLogInv
<1>4. ASSUME NEW l \in Logger,
             Log!Access(l) \/ Log!Initialize(l) \/ Log!LogMessage(l) \/ Log!Update(l) \/ Log!Backup(l) \/ Log!Open(l) \/ Log!Write(l) \/ Log!Crash(l)
      PROVE  SessionLogInv'
  <2>1. UNCHANGED <<logWorld, checkpoint, kept, overwriting, chatCommands>>
    BY <1>4 DEF Log!Access, Log!Initialize, Log!LogMessage, Log!Update, Log!Backup, Log!Open,
       Log!Write, Log!Crash, Log!Begins, Log!Read, Log!checkpointVars
  <2>2. LogInv'
    BY <1>4, AccessKeeps, InitializeKeeps, LogMessageKeeps, UpdateKeeps, BackupKeeps, OpenKeeps,
       WriteKeeps, CrashKeeps
       DEF SessionLogInv
  <2> QED BY <1>1, <2>1, <2>2 DEF SessionLogInv
<1>5. ASSUME NEW t \in Tag, Log!Save(t) \/ Log!Delete(t) PROVE SessionLogInv'
  <2>1. UNCHANGED <<logWorld, logFile, logger, prompts, disturbed>>
    BY <1>5 DEF Log!Save, Log!Delete, Log!Given, Log!logFileVars
  <2> QED BY <1>2, <1>5, <2>1, SaveKeeps, DeleteKeeps DEF SessionLogInv
<1>6. CASE Log!Overwrite
  <2>1. UNCHANGED <<logWorld, logFile, logger, prompts, disturbed>>
    BY <1>6 DEF Log!Overwrite, Log!logFileVars
  <2> QED BY <1>2, <1>6, <2>1, OverwriteKeeps DEF SessionLogInv
<1> QED BY <1>3, <1>4, <1>5, <1>6 DEF Log!SessionLogNext

-----------------------------------------------------------------------------
(* Edits of a file (FileEdits)                                             *)

\* No text that a file or an argument has is one of the words that stand for a file that is
\* not there, is empty, was not calculated or had its escapes removed.
Job == {<<"create">>, <<"write">>, <<"escaped">>} \cup {<<"replace", old>> : old \in FileText}
FileConstants ==
    /\ FileText \cap {"missing", "blank", "failed", "unsure", "unescaped"} = {}
    /\ \A w \in FileWorld :
         /\ \A c \in DOMAIN w.jobs : w.jobs[c] \in Job /\ FileCalls[c] \in FileText
         /\ w.text = <<>> \/ w.text \in [Files!Region -> FileText \cup {"blank"}]

\* What a file can be
CleanText == FileText \cup {"missing", "blank", "user", "unescaped"}
Clean == [Files!Region -> [text : CleanText, spacing : 0 .. 2]]
Params == [whole : BOOLEAN, old : Clean, new : Clean]
Fix == [content : Clean, result : Clean \cup {Files!Failed}]
CallState ==
    [at : {"queued", "looking", "asking", "scheduled", "fixing", "ready", "writing", "done"},
     params : Params, asked : {"no", "skipped", "shown", "changed"},
     looked : Clean, shown : Clean \cup {Files!Failed}, fixes : SUBSET Fix, read : Clean,
     result : Clean \cup {Files!Failed, Files!Unsure}]

\* Files!Calculated for any state of the call
CacheOf(call, content) == {f.result : f \in {g \in call.fixes : g.content = content}}
Direct(c, content, params) ==
    IF Files!IsWrite(c) THEN Files!Corrected(c, content, params) ELSE Files!Edited(content, params)
CalcOf(c, call, content) ==
    IF Direct(c, content, call.params) = Files!Unsure /\ CacheOf(call, content) # {}
      THEN Files!OneOf(CacheOf(call, content)) ELSE Direct(c, content, call.params)

\* The user saw the text, or made it, and nothing makes the tool mend it.
Honest(c, call) ==
    /\ call.asked \in {"shown", "changed"} /\ call.shown \notin {Files!Blank, call.looked}
    /\ ~(call.asked = "changed" /\ Files!LooksEscaped(c, call.shown))

\* What a model, or a cache, may answer to write_file
Fits(c, call, result) ==
    result \in Clean /\ (result = call.params.new \/ ~Files!LooksEscaped(c, result))
ParamsInv(c, call) ==
    /\ Files!IsWrite(c) => /\ call.params.whole /\ call.params.old = Files!Blank
                           /\ \A f \in call.fixes : Fits(c, call, f.result)
    /\ ~call.params.whole => call.params = Files!Arguments(c)
    /\ call.asked \in {"shown", "changed"} => call.shown \in Clean
\* A call that waits for its answer, or to be executed, would do what is shown if it were
\* executed on the file it was looked at.
AskedInv(c, call) ==
    /\ Files!IsWrite(c) /\ call.asked = "shown" /\ Files!LooksEscaped(c, call.shown) => call.shown = call.params.new
    /\ Honest(c, call) => CalcOf(c, call, call.looked) \in {call.shown, Files!Failed}
LookInv(c, call, failed) ==
    /\ call.at \in {"queued", "looking"} => call.fixes = {} /\ call.asked = "no"
    /\ call.at = "looking" => CalcOf(c, call, call.looked) = Files!Unsure
    /\ call.at = "asking" => call.asked \in {"shown", "changed"}
    /\ call.at \in {"asking", "scheduled"} => AskedInv(c, call)
    /\ call.at = "scheduled" /\ call.asked = "no" => c \in failed \/ CalcOf(c, call, call.looked) = Files!Failed
ExecuteInv(c, call, failed) ==
    call.at \in {"fixing", "ready", "writing"} =>
      /\ call.asked = "no" => call.read # call.looked \/ c \in failed
      /\ Honest(c, call) /\ call.read = call.looked => call.at # "fixing" /\ call.result = call.shown
      /\ call.at # "fixing" => call.result \in Clean
      /\ call.at # "fixing" /\ ~call.params.whole /\ CacheOf(call, call.read) = {} =>
           call.result = Files!Edited(call.read, call.params)
RaceInv(c, call, content, late) == call.at \in {"fixing", "ready"} /\ c \notin late => content = call.read

OwnInv(c, call, failed, content, late) ==
    /\ call \in CallState /\ ParamsInv(c, call) /\ LookInv(c, call, failed)
    /\ ExecuteInv(c, call, failed) /\ RaceInv(c, call, content, late)
CallInv(c, call) == OwnInv(c, call, faltered, fileContent, raced)
FilesInv ==
    /\ fileWorld \in FileWorld /\ fileContent \in Clean
    /\ DOMAIN fileCall = Files!Calls
    /\ \A c \in Files!Calls : CallInv(c, fileCall[c])
    /\ undone \subseteq raced

-----------------------------------------------------------------------------
LEMMA Contents ==
    ASSUME FileConstants
    PROVE
    /\ Files!Missing \in Clean /\ Files!Blank \in Clean /\ Files!Missing # Files!Blank
    /\ Files!Failed \notin Clean /\ Files!Unsure \notin Clean /\ Files!Failed # Files!Unsure
    /\ \A x \in FileText : Files!All(x) \in Clean /\ Files!All(x) \notin {Files!Missing, Files!Blank}
<1>1. \A x \in CleanText : Files!All(x) \in Clean
  BY DEF Clean, Files!All, Files!Plain
<1>2. \A x : Files!All(x)[1].text = x
  BY DEF Files!All, Files!Plain, Files!Region
<1>3. \A x \in Clean : x[1].text \notin {"failed", "unsure"}
  BY DEF Clean, CleanText, Files!Region, FileConstants
<1>4. /\ Files!Missing = Files!All("missing") /\ Files!Blank = Files!All("blank")
      /\ Files!Failed = Files!All("failed") /\ Files!Unsure = Files!All("unsure")
  BY DEF Files!Missing, Files!Blank, Files!Failed, Files!Unsure
<1>5. Files!Missing \in Clean /\ Files!Blank \in Clean
  BY <1>1, <1>4 DEF CleanText
<1>6. Files!Failed \notin Clean /\ Files!Unsure \notin Clean
  BY <1>2, <1>3, <1>4
<1>7. Files!Missing # Files!Blank /\ Files!Failed # Files!Unsure
  BY <1>2, <1>4
<1>8. \A x \in FileText : x \in CleanText /\ x # "missing" /\ x # "blank"
  BY DEF CleanText, FileConstants
<1>9. \A x \in FileText : Files!All(x) \in Clean /\ Files!All(x) \notin {Files!Missing, Files!Blank}
  BY <1>1, <1>2, <1>4, <1>8
<1> QED BY <1>5, <1>6, <1>7, <1>9

LEMMA CallTexts ==
    ASSUME FileConstants, fileWorld \in FileWorld, NEW c \in Files!Calls
    PROVE  /\ Files!Job(c) \in Job /\ Files!NewText(c) \in FileText
           /\ Files!Arguments(c) \in Params
           /\ Files!IsWrite(c) => Files!Arguments(c).whole /\ Files!Arguments(c).old = Files!Blank
           /\ ~Files!Arguments(c).whole =>
                \E old \in FileText : Files!Arguments(c) = [whole |-> FALSE, old |-> Files!All(old), new |-> Files!All(Files!NewText(c))]
<1>1. Files!Job(c) \in Job /\ Files!NewText(c) \in FileText
  BY DEF FileConstants, Files!Calls, Files!Job, Files!NewText
<1>2. CASE Files!Job(c) \in {<<"create">>, <<"write">>, <<"escaped">>}
  <2>1. Files!Job(c)[1] # "replace"
    BY <1>2
  <2>2. Files!Arguments(c) = [whole |-> TRUE, new |-> Files!All(Files!NewText(c)), old |-> Files!Blank]
    BY <2>1 DEF Files!Arguments
  <2> QED BY <1>1, <2>2, Contents DEF Params
<1>3. ASSUME NEW old \in FileText, Files!Job(c) = <<"replace", old>> PROVE Files!Job(c)[1] = "replace" /\ Files!Job(c)[2] = old
  BY <1>3
<1>4. ASSUME NEW old \in FileText, Files!Job(c) = <<"replace", old>> 
      PROVE  Files!Arguments(c) = [whole |-> FALSE, old |-> Files!All(old), new |-> Files!All(Files!NewText(c))] /\ ~Files!IsWrite(c)
  <2>1. Files!Arguments(c) = [whole |-> FALSE, old |-> Files!All(old), new |-> Files!All(Files!NewText(c))]
    BY <1>3, <1>4 DEF Files!Arguments
  <2>2. Files!Job(c) # <<"write">> /\ Files!Job(c) # <<"escaped">>
    BY <1>3, <1>4
  <2> QED BY <2>1, <2>2 DEF Files!IsWrite
<1>5. CASE \E old \in FileText : Files!Job(c) = <<"replace", old>>
  <2>1. PICK old \in FileText : Files!Job(c) = <<"replace", old>>
    BY <1>5
  <2>2. Files!Arguments(c) = [whole |-> FALSE, old |-> Files!All(old), new |-> Files!All(Files!NewText(c))] /\ ~Files!IsWrite(c)
    BY <1>4, <2>1
  <2>3. Files!All(old) \in Clean /\ Files!All(Files!NewText(c)) \in Clean
    BY <1>1, Contents
  <2>4. Files!Arguments(c) \in Params
    BY <2>2, <2>3 DEF Params
  <2> QED BY <1>1, <2>1, <2>2, <2>4
<1> QED BY <1>1, <1>2, <1>5 DEF Job

-----------------------------------------------------------------------------
(* What calculateReplacement finds and makes of it *)
LEMMA FirstIn == ASSUME NEW S \in SUBSET {{1}, {2}, {1, 2}}, S # {}, {1, 2} \notin S \/ S = {{1, 2}} PROVE Files!First(S) \in S
<1>1. \E s \in S : \A t \in S : \E r \in s : \A q \in t : r <= q
  <2>1. CASE S = {{1, 2}}
    BY <2>1
  <2>2. CASE {1} \in S /\ {1, 2} \notin S
    <3>1. \A t \in S : t = {1} \/ t = {2}
      BY <2>2
    <3>2. \A t \in S : \E r \in {1} : \A q \in t : r <= q
      BY <3>1
    <3> QED BY <2>2, <3>2
  <2>3. CASE {1} \notin S /\ {1, 2} \notin S
    <3>1. S \in SUBSET {{1}, {2}}
      BY <2>3
    <3>2. S = {{2}}
      BY <2>3, <3>1
    <3> QED BY <3>2
  <2> QED BY <2>1, <2>2, <2>3
<1> QED BY <1>1 DEF Files!First

LEMMA RegionFinite == IsFiniteSet({{r} : r \in Files!Region})
<1>1. {{r} : r \in Files!Region} = {{1}} \cup {{2}}
  BY DEF Files!Region
<1>2. IsFiniteSet({{1}})
  BY FS_Singleton
<1>3. IsFiniteSet({{1}} \cup {{2}})
  BY <1>2, FS_AddElement
<1> QED BY <1>1, <1>3

LEMMA OccurrencesFit ==
    ASSUME NEW x \in Clean, NEW p \in Params
    PROVE  /\ Files!Occurrences(x, p) \subseteq Files!Spots(p)
           /\ \A s \in Files!Occurrences(x, p) : \A r \in s : x[r].text = p.old[r].text
           /\ Files!Exact(x, p) # {} => Files!Occurrences(x, p) = Files!Exact(x, p)
<1>1. /\ Files!Spots(p) \in SUBSET {{1}, {2}, {1, 2}}
      /\ \A S \in SUBSET Files!Spots(p) : {1, 2} \notin S \/ S = {{1, 2}}
  <2>1. CASE p.whole
    BY <2>1 DEF Files!Spots, Files!Region
  <2>2. CASE ~p.whole
    BY <2>2 DEF Files!Spots, Files!Region
  <2> QED BY <2>1, <2>2
<1>2. \A S \in SUBSET Files!Spots(p) : S # {} => Files!First(S) \in S
  BY <1>1, FirstIn
<1>3. Files!Exact(x, p) \subseteq Files!Spots(p) /\ \A s \in Files!Exact(x, p) : \A r \in s : x[r].text = p.old[r].text
  BY DEF Files!Exact
<1>4. Files!Flexible(x, p) \subseteq Files!Spots(p) /\ \A s \in Files!Flexible(x, p) : \A r \in s : x[r].text = p.old[r].text
  <2> DEFINE all == {s \in Files!Spots(p) : \A r \in s : x[r].text = p.old[r].text /\ x[r].spacing < 2}
  <2>1. all \in SUBSET Files!Spots(p)
    OBVIOUS
  <2>2. all # {} => Files!First(all) \in all
    BY <1>2, <2>1
  <2>3. Files!Flexible(x, p) = IF fileWorld.longer /\ all # {} THEN {Files!First(all)} ELSE all
    BY DEF Files!Flexible
  <2>4. Files!Flexible(x, p) \subseteq all
    <3> HIDE DEF all
    <3> QED BY <2>2, <2>3
  <2> QED BY <2>4
<1>5. Files!Regex(x, p) \subseteq Files!Spots(p) /\ \A s \in Files!Regex(x, p) : \A r \in s : x[r].text = p.old[r].text
  <2> DEFINE all == {s \in Files!Spots(p) : \A r \in s : x[r].text = p.old[r].text}
  <2>1. all \in SUBSET Files!Spots(p)
    OBVIOUS
  <2>2. all # {} => Files!First(all) \in all
    BY <1>2, <2>1
  <2>3. Files!Regex(x, p) = IF all = {} THEN {} ELSE {Files!First(all)}
    BY DEF Files!Regex
  <2>4. Files!Regex(x, p) \subseteq all
    <3> HIDE DEF all
    <3> QED BY <2>2, <2>3
  <2> QED BY <2>4
<1> QED BY <1>3, <1>4, <1>5 DEF Files!Occurrences

LEMMA ReplacedIs ==
    ASSUME NEW x \in Clean, NEW p \in Params
    PROVE  /\ Files!Replaced(x, p) \in Clean
           /\ \A r \in Files!Region : Files!Replaced(x, p)[r].text =
                IF r \in UNION Files!Occurrences(x, p) THEN p.new[r].text ELSE x[r].text
<1> DEFINE at(r) == IF r \in UNION Files!Occurrences(x, p) THEN p.new[r]
                    ELSE IF Files!Glued(x, p, r) THEN [x[r] EXCEPT !.spacing = 2] ELSE x[r]
<1>1. Files!Replaced(x, p) = [r \in Files!Region |-> at(r)]
  BY DEF Files!Replaced
<1>2. ASSUME NEW r \in Files!Region
      PROVE  /\ at(r) \in [text : CleanText, spacing : 0 .. 2]
             /\ at(r).text = IF r \in UNION Files!Occurrences(x, p) THEN p.new[r].text ELSE x[r].text
  <2>1. x[r] \in [text : CleanText, spacing : 0 .. 2] /\ p.new[r] \in [text : CleanText, spacing : 0 .. 2]
    BY <1>2 DEF Clean, Params
  <2>2. [x[r] EXCEPT !.spacing = 2] \in [text : CleanText, spacing : 0 .. 2] /\ [x[r] EXCEPT !.spacing = 2].text = x[r].text
    BY <2>1
  <2> QED BY <2>1, <2>2
<1> HIDE DEF at
<1> QED BY <1>1, <1>2 DEF Clean

LEMMA EditedType == ASSUME NEW x \in Clean, NEW p \in Params PROVE Files!Edited(x, p) \in Clean \cup {Files!Failed, Files!Unsure}
BY ReplacedIs DEF Files!Edited, Params

\* One place: what an edit changes without help.
OneEdited(x, p, y) ==
    LET edited == {r \in Files!Region : y[r].text # x[r].text}
    IN /\ Cardinality(edited) = 1
       /\ \A r \in edited : x[r].text = p.old[r].text
       /\ Cardinality({r \in Files!Region : x[r] = p.old[r]}) < 2
LEMMA OnePlace ==
    ASSUME FileConstants, NEW x \in Clean, NEW old \in FileText, NEW new \in FileText, NEW p,
           p = [whole |-> FALSE, old |-> Files!All(old), new |-> Files!All(new)], Files!Edited(x, p) \in Clean
    PROVE  OneEdited(x, p, Files!Edited(x, p))
<1> DEFINE result == Files!Edited(x, p)
           found == Files!Occurrences(x, p)
           exact == {r \in Files!Region : x[r] = p.old[r]}
<1>0. p \in Params /\ p.whole = FALSE /\ p.old = Files!All(old) /\ p.new = Files!All(new)
  BY Contents DEF Params
<1>1. p.old # Files!Blank
  BY <1>0, Contents
<1>2. Cardinality(found) = 1 /\ p.old # p.new /\ result = Files!Replaced(x, p)
  BY <1>1, Contents DEF Files!Edited, Files!Cardinality, Cardinality
<1>3. old # new
  BY <1>0, <1>2
<1>4. found \subseteq {{r} : r \in Files!Region} /\ \A s \in found : \A r \in s : x[r].text = p.old[r].text
  BY <1>0, OccurrencesFit DEF Files!Spots
<1>5. \E s : found = {s}
  BY <1>2, <1>4, FS_Singleton, FS_Subset, RegionFinite
<1>6. PICK r \in Files!Region : found = {{r}}
  <2>1. PICK s : found = {s}
    BY <1>5
  <2>2. s \in {{r} : r \in Files!Region}
    BY <1>4, <2>1
  <2> QED BY <2>1, <2>2
<1>7. UNION found = {r} /\ x[r].text = old
  <2>1. p.old[r].text = old
    BY <1>0 DEF Files!All, Files!Plain
  <2> QED BY <1>4, <1>6, <2>1
<1>8. \A q \in Files!Region : p.new[q].text = new
  BY <1>0 DEF Files!All, Files!Plain
<1>9. \A q \in Files!Region : result[q].text # x[q].text <=> q = r
  <2>1. \A q \in Files!Region : result[q].text = IF q \in UNION found THEN p.new[q].text ELSE x[q].text
    <3>1. \A q \in Files!Region : Files!Replaced(x, p)[q].text =
            IF q \in UNION Files!Occurrences(x, p) THEN p.new[q].text ELSE x[q].text
      <4>1. p \in Params
        BY <1>0
      <4> HIDE <1>0
      <4> QED BY <4>1, ReplacedIs, Zenon
    <3> QED BY <1>2, <3>1
  <2> HIDE DEF found, result
  <2> QED BY <1>3, <1>7, <1>8, <2>1
<1>10. {q \in Files!Region : result[q].text # x[q].text} = {r}
  BY <1>6, <1>9
<1>11. ~(1 \in exact /\ 2 \in exact)
  <2> SUFFICES ASSUME 1 \in exact, 2 \in exact PROVE FALSE
    OBVIOUS
  <2>1. {1} \in Files!Exact(x, p) /\ {2} \in Files!Exact(x, p)
    BY <1>0 DEF Files!Exact, Files!Spots, Files!Region
  <2>2. found = Files!Exact(x, p)
    BY <1>0, <2>1, OccurrencesFit
  <2>3. {1} \in found /\ {2} \in found
    BY <2>1, <2>2
  <2>4. 1 \in UNION found /\ 2 \in UNION found
    BY <2>3
  <2> HIDE DEF found
  <2> QED BY <1>7, <2>4
<1>12. exact \in {{}, {1}, {2}}
  BY <1>11 DEF Files!Region
<1>13. Cardinality(exact) < 2
  <2>1. Cardinality({}) = 0 /\ Cardinality({1}) = 1 /\ Cardinality({2}) = 1
    BY FS_EmptySet, FS_Singleton
  <2> HIDE DEF exact
  <2> QED BY <1>12, <2>1
<1>14. Cardinality({r}) = 1
  BY FS_Singleton
<1>15. x[r].text = p.old[r].text
  BY <1>4, <1>6
<1> QED BY <1>10, <1>13, <1>14, <1>15 DEF OneEdited

-----------------------------------------------------------------------------
(* Steps of one call *)
LEMMA CalculatedIs ==
    ASSUME NEW c \in Files!Calls, NEW x PROVE Files!Calculated(c, x) = CalcOf(c, fileCall[c], x)
BY DEF Files!Calculated, CalcOf, Direct, CacheOf, Files!Cached

LEMMA OneOfIn == \A S : S # {} => Files!OneOf(S) \in S
BY DEF Files!OneOf

LEMMA CorrectedType ==
    ASSUME NEW c, NEW x, NEW p \in Params PROVE Files!Corrected(c, x, p) \in {p.new, Files!Unsure}
BY DEF Files!Corrected

LEMMA CacheType == ASSUME NEW call \in CallState, NEW x PROVE CacheOf(call, x) \subseteq Clean \cup {Files!Failed}
<1>1. call.fixes \subseteq Fix
  BY DEF CallState
<1> QED BY <1>1 DEF CacheOf, Fix

LEMMA CalcType ==
    ASSUME NEW c, NEW call \in CallState, NEW x \in Clean
    PROVE  CalcOf(c, call, x) \in Clean \cup {Files!Failed, Files!Unsure}
<1>1. call.params \in Params /\ call.params.new \in Clean
  BY DEF CallState, Params
<1>2. Direct(c, x, call.params) \in Clean \cup {Files!Failed, Files!Unsure}
  BY <1>1, CorrectedType, EditedType DEF Direct
<1>3. CacheOf(call, x) # {} => Files!OneOf(CacheOf(call, x)) \in Clean \cup {Files!Failed}
  BY CacheType, OneOfIn
<1> QED BY <1>2, <1>3 DEF CalcOf

\* The definitions depend on the world only.
LEMMA SameWorld ==
    ASSUME fileWorld' = fileWorld
    PROVE  \A c : /\ Files!IsWrite(c)' <=> Files!IsWrite(c)
                  /\ Files!Arguments(c)' = Files!Arguments(c)
                  /\ \A x : Files!LooksEscaped(c, x)' <=> Files!LooksEscaped(c, x)
                  /\ \A x, p : Files!Edited(x, p)' = Files!Edited(x, p)
                  /\ \A call, x : CalcOf(c, call, x)' = CalcOf(c, call, x)
<1>1. \A c : Files!Job(c)' = Files!Job(c)
  BY DEF Files!Job
<1>2. \A c : Files!IsWrite(c)' <=> Files!IsWrite(c)
  BY <1>1 DEF Files!IsWrite
<1>3. \A c : Files!Arguments(c)' = Files!Arguments(c)
  BY <1>1 DEF Files!Arguments
<1>4. \A c, x : Files!LooksEscaped(c, x)' <=> Files!LooksEscaped(c, x)
  BY <1>1 DEF Files!LooksEscaped
<1>5. \A x, p : Files!Flexible(x, p)' = Files!Flexible(x, p)
  BY DEF Files!Flexible
<1>6. \A x, p : Files!Occurrences(x, p)' = Files!Occurrences(x, p)
  BY <1>5 DEF Files!Occurrences
<1>7. \A x, p, r : Files!Glued(x, p, r)' <=> Files!Glued(x, p, r)
  BY <1>5, <1>6 DEF Files!Glued
<1>8. \A x, p : Files!Replaced(x, p)' = Files!Replaced(x, p)
  BY <1>6, <1>7 DEF Files!Replaced
<1>9. \A x, p : Files!Edited(x, p)' = Files!Edited(x, p)
  BY <1>6, <1>8 DEF Files!Edited
<1>10. \A c, x, p : Files!Corrected(c, x, p)' = Files!Corrected(c, x, p)
  BY <1>4 DEF Files!Corrected
<1>11. \A c, x, p : Direct(c, x, p)' = Direct(c, x, p)
  BY <1>2, <1>9, <1>10 DEF Direct
<1>12. \A c, call, x : CalcOf(c, call, x)' = CalcOf(c, call, x)
  BY <1>11 DEF CalcOf
<1> QED BY <1>2, <1>3, <1>4, <1>9, <1>12

LEMMA PiecesSame ==
    ASSUME fileWorld' = fileWorld, NEW c, NEW call, NEW failed, NEW more, failed \subseteq more
    PROVE  /\ ParamsInv(c, call) => ParamsInv(c, call)'
           /\ LookInv(c, call, failed) => LookInv(c, call, more)'
           /\ ExecuteInv(c, call, failed) => ExecuteInv(c, call, more)'
<1>1. Honest(c, call)' <=> Honest(c, call)
  BY SameWorld DEF Honest
<1>2. ParamsInv(c, call) => ParamsInv(c, call)'
  BY SameWorld DEF ParamsInv, Fits
<1>3. AskedInv(c, call) => AskedInv(c, call)'
  BY <1>1, SameWorld DEF AskedInv
<1>4. LookInv(c, call, failed) => LookInv(c, call, more)'
  BY <1>3, SameWorld DEF LookInv
<1>5. ExecuteInv(c, call, failed) => ExecuteInv(c, call, more)'
  BY <1>1, SameWorld DEF ExecuteInv
<1> QED BY <1>2, <1>4, <1>5

\* One call moves, and it or nobody changes the file.
LEMMA CallMoves ==
    ASSUME FilesInv, NEW c \in Files!Calls, NEW call, Files!Becomes(c, call), fileWorld' = fileWorld,
           faltered \subseteq faltered', fileContent' \in Clean,
           raced' = raced \cup (IF fileContent' = fileContent THEN {} ELSE Files!Executing \ {c}),
           OwnInv(c, call, faltered', fileContent', raced'), undone' \subseteq raced'
    PROVE  FilesInv'
<1>1. PICK failed, content, late : failed = faltered' /\ content = fileContent' /\ late = raced'
  OBVIOUS
<1>2. DOMAIN fileCall' = Files!Calls /\ Files!Calls' = Files!Calls /\ fileCall'[c] = call
  BY DEF Files!Becomes, FilesInv, Files!Calls
<1>3. ASSUME NEW d \in Files!Calls PROVE OwnInv(d, fileCall'[d], failed, content, late)
  <2>1. CASE d = c
    BY <1>1, <1>2, <2>1
  <2>2. CASE d # c
    <3>1. fileCall'[d] = fileCall[d]
      BY <2>2 DEF Files!Becomes, FilesInv
    <3>2. OwnInv(d, fileCall[d], faltered, fileContent, raced)
      BY DEF FilesInv, CallInv
    <3>3. LookInv(d, fileCall[d], failed) /\ ExecuteInv(d, fileCall[d], failed)
      BY <1>1, <3>2 DEF OwnInv, LookInv, ExecuteInv
    <3>4. RaceInv(d, fileCall[d], content, late)
      <4>1. fileCall[d].at \in {"fixing", "ready"} => d \in Files!Executing
        BY DEF Files!Executing, Files!At
      <4> QED BY <1>1, <2>2, <3>2, <4>1 DEF OwnInv, RaceInv
    <3> QED BY <3>1, <3>2, <3>3, <3>4 DEF OwnInv
  <2> QED BY <2>1, <2>2
<1>4. ASSUME NEW d, NEW other, OwnInv(d, other, failed, content, late) PROVE CallInv(d, other)'
  BY <1>1, <1>4, PiecesSame DEF OwnInv, CallInv, RaceInv, CallState, Params, Fix, Clean, CleanText
<1>5. \A d \in Files!Calls : CallInv(d, fileCall[d])'
  <2> SUFFICES ASSUME NEW d \in Files!Calls PROVE CallInv(d, fileCall[d])'
    OBVIOUS
  <2>1. PICK other : other = fileCall'[d]
    OBVIOUS
  <2>2. OwnInv(d, other, failed, content, late)
    BY <1>3, <2>1
  <2>3. CallInv(d, other)'
    BY <1>4, <2>2
  <2> QED BY <2>1, <2>3
<1> QED BY <1>1, <1>2, <1>5 DEF FilesInv

\* A call that does not touch the file
LEMMA CallMovesAlone ==
    ASSUME FilesInv, NEW c \in Files!Calls, NEW call, Files!Becomes(c, call), fileWorld' = fileWorld,
           UNCHANGED <<fileContent, raced, undone>>, faltered \subseteq faltered',
           OwnInv(c, call, faltered', fileContent, raced)
    PROVE  FilesInv'
<1>1. raced' = raced \cup (IF fileContent' = fileContent THEN {} ELSE Files!Executing \ {c})
  OBVIOUS
<1>2. fileContent' \in Clean /\ undone' \subseteq raced'
  BY DEF FilesInv
<1>3. OwnInv(c, call, faltered', fileContent', raced')
  OBVIOUS
<1> QED BY <1>1, <1>2, <1>3, CallMoves

LEMMA CallIs ==
    ASSUME FilesInv, NEW c \in Files!Calls
    PROVE  /\ OwnInv(c, fileCall[c], faltered, fileContent, raced)
           /\ fileCall[c] \in CallState /\ fileCall[c].params \in Params /\ fileContent \in Clean
           /\ \A x : Files!Calculated(c, x) = CalcOf(c, fileCall[c], x)
BY CalculatedIs DEF FilesInv, CallInv, OwnInv, CallState

LEMMA CalcByParts ==
    ASSUME NEW c, NEW x, NEW call, NEW other, other.params = call.params, other.fixes = call.fixes
    PROVE  CalcOf(c, other, x) = CalcOf(c, call, x)
BY DEF CalcOf, CacheOf

LEMMA FreshCalc ==
    ASSUME NEW c, NEW x, NEW call, call.fixes = {} PROVE CalcOf(c, call, x) = Direct(c, x, call.params)
BY DEF CalcOf, CacheOf

\* The text of a call with its escapes removed does not look escaped.
LEMMA UnescapedIs ==
    ASSUME FileConstants, fileWorld \in FileWorld, NEW c \in Files!Calls, NEW x \in Clean
    PROVE  Files!Unescaped(c, x) \in Clean /\ ~Files!LooksEscaped(c, Files!Unescaped(c, x))
<1>1. Files!NewText(c) \in FileText /\ Files!NewText(c) # "unescaped"
  BY CallTexts DEF FileConstants
<1>2. Files!Unescaped(c, x) = [r \in Files!Region |-> IF x[r].text = Files!NewText(c) THEN [text |-> "unescaped", spacing |-> 0] ELSE x[r]]
  BY DEF Files!Unescaped, Files!Plain
<1>3. \A r \in Files!Region : Files!Unescaped(c, x)[r].text # Files!NewText(c)
  BY <1>1, <1>2
<1> QED BY <1>2, <1>3 DEF Clean, CleanText, Files!LooksEscaped

LEMMA AnswersFit ==
    ASSUME FileConstants, FilesInv, NEW c \in Files!Calls, NEW x \in Clean, NEW result \in Files!Answers(c, x)
    PROVE  /\ result \in Clean \cup {Files!Failed}
           /\ Files!IsWrite(c) => Fits(c, fileCall[c], result)
<1>1. fileCall[c].params.new \in Clean /\ fileWorld \in FileWorld
  BY CallIs DEF Params, FilesInv
<1>2. CASE Files!IsWrite(c)
  BY <1>1, <1>2, UnescapedIs DEF Files!Answers, Fits
<1>3. CASE ~Files!IsWrite(c)
  <2>1. Files!NewText(c) \in CleanText
    BY <1>1, CallTexts DEF CleanText
  <2>2. \A r \in Files!Region : [x EXCEPT ![r] = Files!Plain(Files!NewText(c))] \in Clean
    BY <2>1 DEF Clean, Files!Plain
  <2> QED BY <1>3, <2>2 DEF Files!Answers
<1> QED BY <1>2, <1>3

\* What is shown is what the call would do.
LEMMA ShowingFits ==
    ASSUME FileConstants, NEW c, NEW call \in CallState, ParamsInv(c, call), call.asked = "no",
           NEW failed, NEW content, NEW late, NEW result \in Clean \cup {Files!Failed},
           \/ CalcOf(c, call, call.looked) = result
           \/ result = Files!Failed /\ c \in failed,
           Files!IsWrite(c) /\ result # Files!Failed => Fits(c, call, result)
    PROVE  OwnInv(c, Files!Showing(call, result), failed, content, late)
<1>1. PICK new : new = Files!Showing(call, result)
  OBVIOUS
<1>2. /\ new \in CallState /\ new.params = call.params /\ new.fixes = call.fixes /\ new.looked = call.looked
      /\ result = Files!Failed => new.at = "scheduled" /\ new.asked = "no" /\ new.shown = call.shown
      /\ result # Files!Failed => new.at = "asking" /\ new.asked = "shown" /\ new.shown = result
  BY <1>1 DEF Files!Showing, CallState
<1>3. CalcOf(c, new, new.looked) = CalcOf(c, call, call.looked)
  BY <1>2, CalcByParts
<1>4. ParamsInv(c, new)
  BY <1>2 DEF ParamsInv, Fits
<1>5. AskedInv(c, new)
  BY <1>2, <1>3, Contents DEF AskedInv, Honest, Fits
<1>6. LookInv(c, new, failed)
  BY <1>2, <1>3, <1>5, Contents DEF LookInv
<1>7. ExecuteInv(c, new, failed) /\ RaceInv(c, new, content, late)
  BY <1>2 DEF ExecuteInv, RaceInv
<1> QED BY <1>1, <1>2, <1>4, <1>6, <1>7 DEF OwnInv

LEMMA LookKeeps == ASSUME FileConstants, FilesInv, NEW c \in Files!Calls, Files!Look(c) PROVE FilesInv'
<1> DEFINE call == fileCall[c]
           looking == [call EXCEPT !.looked = fileContent]
           result == CalcOf(c, call, fileContent)
<1>1. call \in CallState /\ ParamsInv(c, call) /\ call.at = "queued" /\ call.fixes = {} /\ call.asked = "no"
  BY CallIs DEF OwnInv, LookInv, Files!Look, Files!At
<1>2. /\ looking \in CallState /\ looking.params = call.params /\ looking.fixes = {} /\ looking.asked = "no"
      /\ looking.looked = fileContent /\ looking.at = "queued"
  BY <1>1, CallIs DEF CallState
<1>3. ParamsInv(c, looking)
  BY <1>1, <1>2 DEF ParamsInv, Fits
<1>4. CalcOf(c, looking, fileContent) = result /\ result = Direct(c, fileContent, call.params)
  <2> HIDE DEF call, looking
  <2>1. CalcOf(c, looking, fileContent) = CalcOf(c, call, fileContent)
    BY <1>1, <1>2, CalcByParts
  <2>2. CalcOf(c, call, fileContent) = Direct(c, fileContent, call.params)
    BY <1>1, FreshCalc
  <2> QED BY <2>1, <2>2
<1>5. result \in Clean \cup {Files!Failed, Files!Unsure}
  BY <1>1, CallIs, CalcType
<1>6. Files!IsWrite(c) /\ result # Files!Unsure => result = call.params.new
  BY <1>4, CallIs, CorrectedType DEF Direct
<1>7. /\ UNCHANGED <<fileWorld, fileContent, raced, undone, faltered>>
      /\ Files!Becomes(c, IF approvalMode = "auto_edit" THEN [call EXCEPT !.at = "scheduled", !.asked = "skipped"]
                          ELSE IF result = Files!Unsure THEN [looking EXCEPT !.at = "looking"]
                          ELSE Files!Showing(looking, result))
  BY CallIs DEF Files!Look, Files!untouchedFile
<1>8. CASE approvalMode = "auto_edit"
  <2>1. PICK new : new = [call EXCEPT !.at = "scheduled", !.asked = "skipped"]
    OBVIOUS
  <2>2. new \in CallState /\ new.at = "scheduled" /\ new.asked = "skipped" /\ new.params = call.params /\ new.fixes = {}
    BY <1>1, <2>1 DEF CallState
  <2>3. OwnInv(c, new, faltered', fileContent, raced)
    BY <1>1, <2>2 DEF OwnInv, ParamsInv, Fits, LookInv, AskedInv, Honest, ExecuteInv, RaceInv
  <2>4. Files!Becomes(c, new)
    BY <1>7, <1>8, <2>1
  <2> QED BY <1>7, <2>3, <2>4, CallMovesAlone
<1>9. CASE approvalMode # "auto_edit" /\ result = Files!Unsure
  <2>1. PICK new : new = [looking EXCEPT !.at = "looking"]
    OBVIOUS
  <2>2. new \in CallState /\ new.at = "looking" /\ new.asked = "no" /\ new.params = call.params /\ new.fixes = {} /\ new.looked = fileContent
    BY <1>2, <2>1 DEF CallState
  <2>3. CalcOf(c, new, new.looked) = Files!Unsure
    BY <1>1, <1>9, <2>2, CalcByParts
  <2>4. OwnInv(c, new, faltered', fileContent, raced)
    BY <1>1, <2>2, <2>3 DEF OwnInv, ParamsInv, Fits, LookInv, ExecuteInv, RaceInv
  <2>5. Files!Becomes(c, new)
    BY <1>7, <1>9, <2>1
  <2> QED BY <1>7, <2>4, <2>5, CallMovesAlone
<1>10. CASE approvalMode # "auto_edit" /\ result # Files!Unsure
  <2>1. OwnInv(c, Files!Showing(looking, result), faltered', fileContent, raced)
    <3> HIDE DEF looking, result, call
    <3>1. result \in Clean \cup {Files!Failed}
      BY <1>5, <1>10
    <3>2. Files!IsWrite(c) => result = looking.params.new
      BY <1>2, <1>6, <1>10
    <3>3. Files!IsWrite(c) /\ result # Files!Failed => Fits(c, looking, result)
      BY <3>1, <3>2 DEF Fits
    <3> QED BY <1>2, <1>3, <1>4, <3>1, <3>3, ShowingFits
  <2>2. Files!Becomes(c, Files!Showing(looking, result))
    BY <1>7, <1>10
  <2> QED BY <1>7, <2>1, <2>2, CallMovesAlone
<1> QED BY <1>8, <1>9, <1>10

LEMMA OneFix ==
    ASSUME NEW call, NEW fix, call.fixes = {fix}
    PROVE  CacheOf(call, fix.content) = {fix.result}
BY DEF CacheOf

LEMMA LookFixedKeeps == ASSUME FileConstants, FilesInv, NEW c \in Files!Calls, Files!LookFixed(c) PROVE FilesInv'
<1>1. PICK call : call = fileCall[c]
  OBVIOUS
<1>2. /\ call \in CallState /\ ParamsInv(c, call) /\ call.at = "looking" /\ call.fixes = {} /\ call.asked = "no"
      /\ CalcOf(c, call, call.looked) = Files!Unsure /\ call.looked \in Clean
  BY <1>1, CallIs DEF OwnInv, LookInv, Files!LookFixed, Files!At, CallState
<1>3. PICK result \in Files!Answers(c, call.looked) :
        Files!Becomes(c, Files!Showing(Files!Answered(c, call.looked, result), result))
  BY <1>1 DEF Files!LookFixed
<1>4. UNCHANGED <<fileWorld, fileContent, raced, undone, faltered>>
  BY DEF Files!LookFixed, Files!untouchedFile
<1>5. /\ result \in Clean \cup {Files!Failed}
      /\ Files!IsWrite(c) => Fits(c, call, result)
  BY <1>1, <1>2, <1>3, AnswersFit
<1>6. PICK new : new = Files!Answered(c, call.looked, result)
  OBVIOUS
<1>7. new = [call EXCEPT !.fixes = {[content |-> call.looked, result |-> result]}]
  BY <1>1, <1>2, <1>6 DEF Files!Answered
<1>8. [content |-> call.looked, result |-> result] \in Fix
  BY <1>2, <1>5 DEF Fix
<1>9. /\ new \in CallState /\ new.params = call.params /\ new.asked = "no" /\ new.looked = call.looked
      /\ new.fixes = {[content |-> call.looked, result |-> result]} /\ new.shown = call.shown
  BY <1>2, <1>7, <1>8 DEF CallState
<1>10. ParamsInv(c, new)
  BY <1>2, <1>5, <1>9 DEF ParamsInv, Fits
<1>11. CalcOf(c, new, new.looked) = result
  <2>1. CacheOf(new, new.looked) = {result}
    <3>1. PICK fix : fix = [content |-> call.looked, result |-> result]
      OBVIOUS
    <3>2. new.fixes = {fix} /\ fix.content = new.looked /\ fix.result = result
      BY <1>9, <3>1
    <3>3. CacheOf(new, fix.content) = {fix.result}
      BY <3>2, OneFix
    <3> QED BY <3>2, <3>3
  <2>2. Files!OneOf({result}) = result
    BY OneOfIn
  <2>3. Direct(c, call.looked, call.params) = Files!Unsure
    BY <1>2, FreshCalc
  <2> QED BY <1>9, <2>1, <2>2, <2>3 DEF CalcOf
<1>12. OwnInv(c, Files!Showing(new, result), faltered', fileContent, raced)
  <2>1. Files!IsWrite(c) => Fits(c, new, result)
    BY <1>5, <1>9 DEF Fits
  <2> QED BY <1>5, <1>9, <1>10, <1>11, <2>1, ShowingFits
<1> QED BY <1>3, <1>4, <1>6, <1>12, CallMovesAlone

LEMMA LookFaltersKeeps == ASSUME FileConstants, FilesInv, NEW c \in Files!Calls, Files!LookFalters(c) PROVE FilesInv'
<1>1. PICK call : call = fileCall[c]
  OBVIOUS
<1>2. call \in CallState /\ ParamsInv(c, call) /\ call.asked = "no" /\ ~Files!IsWrite(c)
  BY <1>1, CallIs DEF OwnInv, LookInv, Files!LookFalters, Files!At
<1>3. /\ UNCHANGED <<fileWorld, fileContent, raced, undone>> /\ faltered' = faltered \cup {c}
      /\ Files!Becomes(c, Files!Showing(call, Files!Failed))
  BY <1>1 DEF Files!LookFalters, Files!untouchedFile
<1>4. OwnInv(c, Files!Showing(call, Files!Failed), faltered', fileContent, raced)
  BY <1>2, <1>3, ShowingFits
<1> QED BY <1>3, <1>4, CallMovesAlone

\* The user answers, or his answer to another call counts for this one.
LEMMA ScheduledFits ==
    ASSUME NEW c, NEW call \in CallState, ParamsInv(c, call), call.at = "asking", AskedInv(c, call),
           call.asked \in {"shown", "changed"}, NEW failed, NEW content, NEW late
    PROVE  OwnInv(c, [call EXCEPT !.at = "scheduled"], failed, content, late)
<1>1. PICK new : new = [call EXCEPT !.at = "scheduled"]
  OBVIOUS
<1>2. /\ new \in CallState /\ new.at = "scheduled" /\ new.params = call.params /\ new.fixes = call.fixes
      /\ new.asked = call.asked /\ new.shown = call.shown /\ new.looked = call.looked
  BY <1>1 DEF CallState
<1>3. ParamsInv(c, new)
  BY <1>2 DEF ParamsInv, Fits
<1>4. CalcOf(c, new, new.looked) = CalcOf(c, call, call.looked)
  BY <1>2, CalcByParts
<1>5. AskedInv(c, new)
  BY <1>2, <1>4 DEF AskedInv, Honest
<1> QED BY <1>1, <1>2, <1>3, <1>5 DEF OwnInv, LookInv, ExecuteInv, RaceInv

LEMMA AskingIs ==
    ASSUME FilesInv, NEW c \in Files!Calls, Files!At(c) = "asking"
    PROVE  /\ fileCall[c] \in CallState /\ ParamsInv(c, fileCall[c]) /\ AskedInv(c, fileCall[c])
           /\ fileCall[c].at = "asking" /\ fileCall[c].asked \in {"shown", "changed"}
BY CallIs DEF OwnInv, LookInv, Files!At

LEMMA DoneFits ==
    ASSUME NEW c, NEW call \in CallState, ParamsInv(c, call), NEW failed, NEW content, NEW late
    PROVE  OwnInv(c, [call EXCEPT !.at = "done"], failed, content, late)
<1>1. PICK new : new = [call EXCEPT !.at = "done"]
  OBVIOUS
<1>2. /\ new \in CallState /\ new.at = "done" /\ new.params = call.params /\ new.fixes = call.fixes
      /\ new.asked = call.asked /\ new.shown = call.shown
  BY <1>1 DEF CallState
<1> QED BY <1>1, <1>2 DEF OwnInv, ParamsInv, Fits, LookInv, ExecuteInv, RaceInv

LEMMA AnswersKeep ==
    ASSUME FilesInv, NEW c \in Files!Calls, Files!Proceed(c) \/ Files!AutoApproved(c) \/ Files!Refuse(c)
    PROVE  FilesInv'
<1>1. UNCHANGED <<fileWorld, fileContent, raced, undone, faltered>> /\ Files!At(c) = "asking"
  BY DEF Files!Proceed, Files!AutoApproved, Files!Refuse, Files!untouchedFile
<1>2. CASE Files!Proceed(c) \/ Files!AutoApproved(c)
  <2>1. Files!Becomes(c, [fileCall[c] EXCEPT !.at = "scheduled"])
    BY <1>2 DEF Files!Proceed, Files!AutoApproved
  <2>2. OwnInv(c, [fileCall[c] EXCEPT !.at = "scheduled"], faltered', fileContent, raced)
    BY <1>1, AskingIs, ScheduledFits
  <2> QED BY <1>1, <2>1, <2>2, CallMovesAlone
<1>3. CASE Files!Refuse(c)
  <2>1. Files!Becomes(c, [fileCall[c] EXCEPT !.at = "done"])
    BY <1>3 DEF Files!Refuse
  <2>2. OwnInv(c, [fileCall[c] EXCEPT !.at = "done"], faltered', fileContent, raced)
    BY <1>1, AskingIs, DoneFits
  <2> QED BY <1>1, <2>1, <2>2, CallMovesAlone
<1> QED BY <1>2, <1>3

\* What is done with a text that the user accepted for the whole file.
LEMMA AcceptedIs ==
    ASSUME FileConstants, NEW c, NEW x \in Clean, NEW text \in Clean, NEW p,
           p = [whole |-> TRUE, new |-> text, old |-> IF Files!IsWrite(c) \/ x = Files!Missing THEN Files!Blank ELSE x]
    PROVE  /\ p \in Params
           /\ ~Files!IsWrite(c) /\ text # x => Direct(c, x, p) \in {text, Files!Failed}
           /\ Files!IsWrite(c) /\ ~Files!LooksEscaped(c, text) => Direct(c, x, p) = text
<1>1. p \in Params /\ p.whole = TRUE /\ p.new = text
  BY Contents DEF Params
<1>2. ASSUME Files!IsWrite(c), ~Files!LooksEscaped(c, text) PROVE Direct(c, x, p) = text
  BY <1>1, <1>2 DEF Direct, Files!Corrected
<1>3. ASSUME ~Files!IsWrite(c), text # x PROVE Direct(c, x, p) \in {text, Files!Failed}
  <2>1. Direct(c, x, p) = Files!Edited(x, p)
    BY <1>3 DEF Direct
  <2>2. CASE x = Files!Missing
    BY <1>1, <2>1, <2>2 DEF Files!Edited
  <2>3. CASE x = Files!Blank
    BY <1>1, <1>3, <2>1, <2>3, Contents DEF Files!Edited
  <2>4. CASE x # Files!Missing /\ x # Files!Blank
    <3>1. p.old = x
      BY <1>3, <2>4
    <3>2. Files!Exact(x, p) = {Files!Region}
      BY <1>1, <3>1 DEF Files!Exact, Files!Spots
    <3>3. Files!Occurrences(x, p) = {Files!Region}
      BY <1>1, <3>2, OccurrencesFit
    <3>4. Cardinality(Files!Occurrences(x, p)) = 1
      BY <3>3, FS_Singleton
    <3>5. Files!Replaced(x, p) = [r \in Files!Region |-> text[r]]
      BY <1>1, <3>3 DEF Files!Replaced
    <3>6. Files!Replaced(x, p) = text
      BY <3>5 DEF Clean
    <3>7. Files!Edited(x, p) = Files!Replaced(x, p)
      BY <1>1, <1>3, <2>4, <3>1, <3>4 DEF Files!Edited, Files!Cardinality, Cardinality
    <3> QED BY <2>1, <3>6, <3>7
  <2> QED BY <2>2, <2>3, <2>4
<1> QED BY <1>1, <1>2, <1>3

\* An asking call with the text that the user made of what he was shown.  When he leaves
\* a text with escapes as it is, it is the one the call already has.
LEMMA ByUserFits ==
    ASSUME FileConstants, NEW c, NEW call \in CallState, ParamsInv(c, call), call.at = "asking",
           call.asked \in {"shown", "changed"}, NEW text \in Clean,
           Files!IsWrite(c) /\ call.asked = "shown" =>
             /\ Files!LooksEscaped(c, call.shown) => call.shown = call.params.new
             /\ Honest(c, call) => CalcOf(c, call, call.looked) \in {call.shown, Files!Failed},
           NEW new, new = Files!ByUser(call, c, call.looked, text)
    PROVE  /\ new \in CallState /\ ParamsInv(c, new) /\ AskedInv(c, new) /\ new.at = "asking"
           /\ new.asked \in {"shown", "changed"}
<1>1. PICK p : p = [whole |-> TRUE, new |-> text,
                    old |-> IF Files!IsWrite(c) \/ call.looked = Files!Missing THEN Files!Blank ELSE call.looked]
  OBVIOUS
<1>2. call.looked \in Clean /\ call.params \in Params /\ call.fixes \in SUBSET Fix
  BY DEF CallState
<1>3. /\ p \in Params /\ p.whole = TRUE /\ p.new = text
      /\ p.old = IF Files!IsWrite(c) \/ call.looked = Files!Missing THEN Files!Blank ELSE call.looked
  BY <1>1, <1>2, AcceptedIs
<1>4. new = [Files!WithParams(call, p) EXCEPT !.asked = IF text = call.shown THEN call.asked ELSE "changed", !.shown = text]
  BY <1>1 DEF Files!ByUser, Files!WithParams
<1>5. /\ new \in CallState /\ new.at = "asking" /\ new.params = p /\ new.looked = call.looked /\ new.shown = text
      /\ new.asked = (IF text = call.shown THEN call.asked ELSE "changed")
      /\ new.fixes = (IF p = call.params THEN call.fixes ELSE {})
  BY <1>2, <1>3, <1>4 DEF Files!WithParams, CallState
<1>6. ParamsInv(c, new)
  BY <1>3, <1>5 DEF ParamsInv, Fits
<1>7. ASSUME Files!IsWrite(c), new.asked = "shown", Files!LooksEscaped(c, text)
      PROVE  text = call.params.new /\ p = call.params /\ new.fixes = call.fixes
  <2>1. text = call.shown /\ call.asked = "shown" /\ text = call.params.new
    BY <1>5, <1>7
  <2>2. call.params.whole /\ call.params.old = Files!Blank
    BY <1>7 DEF ParamsInv, Fits
  <2>3. p = call.params
    BY <1>1, <1>2, <1>7, <2>1, <2>2 DEF Params
  <2> QED BY <1>5, <2>1, <2>3
<1>8. ASSUME Honest(c, new) PROVE CalcOf(c, new, new.looked) \in {new.shown, Files!Failed}
  <2>1. text # call.looked /\ text # Files!Blank
    BY <1>5, <1>8 DEF Honest
  <2>2. ASSUME Direct(c, call.looked, p) \in {text, Files!Failed} PROVE CalcOf(c, new, new.looked) \in {new.shown, Files!Failed}
    BY <1>5, <2>2, Contents DEF CalcOf
  <2>3. CASE ~Files!IsWrite(c) \/ ~Files!LooksEscaped(c, text)
    BY <1>1, <1>2, <2>1, <2>2, <2>3, AcceptedIs
  <2>4. CASE Files!IsWrite(c) /\ Files!LooksEscaped(c, text)
    <3>1. new.asked = "shown"
      BY <1>5, <1>8, <2>4 DEF Honest
    <3>2. text = call.shown /\ call.asked = "shown"
      BY <1>5, <3>1
    <3>3. new.params = call.params /\ new.fixes = call.fixes
      BY <1>5, <1>7, <2>4, <3>1
    <3>4. CalcOf(c, new, new.looked) = CalcOf(c, call, call.looked)
      BY <1>5, <3>3, CalcByParts
    <3>5. Honest(c, call)
      BY <2>1, <3>2 DEF Honest
    <3> QED BY <1>5, <2>4, <3>2, <3>4, <3>5
  <2> QED BY <2>3, <2>4
<1>9. AskedInv(c, new)
  BY <1>5, <1>7, <1>8 DEF AskedInv
<1> QED BY <1>5, <1>6, <1>9

LEMMA RetypedIs == ASSUME NEW x \in Clean PROVE Files!Retyped(x) \in Clean
BY DEF Files!Retyped, Files!Plain, Files!Region, Clean, CleanText

LEMMA AcceptInIdeKeeps == ASSUME FileConstants, FilesInv, NEW c \in Files!Calls, Files!AcceptInIde(c) PROVE FilesInv'
<1>1. PICK call : call = fileCall[c]
  OBVIOUS
<1>2. /\ call \in CallState /\ ParamsInv(c, call) /\ AskedInv(c, call) /\ call.at = "asking"
      /\ call.asked \in {"shown", "changed"} /\ call.shown \in Clean /\ call.looked \in Clean
  BY <1>1, AskingIs DEF Files!AcceptInIde, ParamsInv, CallState
<1>3. UNCHANGED <<fileWorld, fileContent, raced, undone, faltered>>
  BY DEF Files!AcceptInIde, Files!untouchedFile
<1>4. PICK text \in {call.shown, Files!Retyped(call.shown), call.looked, Files!Blank} :
        Files!Becomes(c, [(IF text = Files!Blank THEN [call EXCEPT !.asked = "changed", !.shown = Files!Blank]
                           ELSE Files!ByUser(call, c, call.looked, text)) EXCEPT !.at = "scheduled"])
  BY <1>1 DEF Files!AcceptInIde
<1>5. text \in Clean
  BY <1>2, RetypedIs, Contents
<1>6. PICK new : new = IF text = Files!Blank THEN [call EXCEPT !.asked = "changed", !.shown = Files!Blank]
                                             ELSE Files!ByUser(call, c, call.looked, text)
  OBVIOUS
<1>7. /\ new \in CallState /\ ParamsInv(c, new) /\ AskedInv(c, new) /\ new.at = "asking"
      /\ new.asked \in {"shown", "changed"}
  <2>1. CASE text = Files!Blank
    <3>1. /\ new \in CallState /\ new.at = "asking" /\ new.asked = "changed" /\ new.shown = Files!Blank
          /\ new.params = call.params /\ new.fixes = call.fixes
      BY <1>2, <1>6, <2>1, Contents DEF CallState
    <3>2. ParamsInv(c, new) /\ AskedInv(c, new)
      BY <1>2, <3>1, Contents DEF ParamsInv, Fits, AskedInv, Honest
    <3> QED BY <3>1, <3>2
  <2>2. CASE text # Files!Blank
    BY <1>2, <1>5, <1>6, <2>2, ByUserFits DEF AskedInv
  <2> QED BY <2>1, <2>2
<1>8. OwnInv(c, [new EXCEPT !.at = "scheduled"], faltered', fileContent, raced)
  BY <1>7, ScheduledFits
<1>9. Files!Becomes(c, [new EXCEPT !.at = "scheduled"])
  BY <1>4, <1>6
<1> QED BY <1>3, <1>8, <1>9, CallMovesAlone

\* What the editor opens with, and the call that has it
OpenedWith(c, call, content, proposed) ==
    [(IF Files!IsWrite(c) /\ CalcOf(c, call, content) = Files!Unsure
        THEN [call EXCEPT !.fixes = @ \cup {[content |-> content, result |-> proposed]}] ELSE call)
       EXCEPT !.looked = content, !.shown = proposed]
LEMMA ProposedIs ==
    ASSUME FileConstants, FilesInv, NEW c \in Files!Calls, NEW call, call = fileCall[c], call.asked = "shown", call.at = "asking",
           NEW proposed \in Files!Proposed(c, fileContent), NEW opened,
           opened = OpenedWith(c, call, fileContent, proposed)
    PROVE  /\ proposed \in Clean /\ opened \in CallState /\ ParamsInv(c, opened) /\ opened.at = "asking"
           /\ opened.asked = "shown" /\ opened.shown = proposed /\ opened.looked = fileContent
           /\ Files!IsWrite(c) => /\ Files!LooksEscaped(c, proposed) => proposed = opened.params.new
                                  /\ CalcOf(c, opened, fileContent) = proposed
<1>1. /\ call \in CallState /\ ParamsInv(c, call) /\ fileContent \in Clean /\ call.params \in Params
      /\ Files!Calculated(c, fileContent) = CalcOf(c, call, fileContent)
  BY CallIs DEF OwnInv
<1>2. CASE ~Files!IsWrite(c)
  <2>1. proposed \in Clean
    BY <1>1, <1>2, ReplacedIs DEF Files!Proposed
  <2>2. /\ opened \in CallState /\ opened.at = "asking" /\ opened.asked = "shown" /\ opened.shown = proposed
        /\ opened.looked = fileContent /\ opened.params = call.params
    BY <1>1, <1>2, <2>1 DEF CallState, OpenedWith
  <2>3. ParamsInv(c, opened)
    BY <1>1, <1>2, <2>1, <2>2 DEF ParamsInv
  <2> QED BY <1>2, <2>1, <2>2, <2>3
<1>3. CASE Files!IsWrite(c) /\ CalcOf(c, call, fileContent) = Files!Unsure
  <2>1. Fits(c, call, proposed)
    BY <1>1, <1>3, AnswersFit DEF Files!Proposed
  <2>2. PICK fix : fix = [content |-> fileContent, result |-> proposed]
    OBVIOUS
  <2>3. fix \in Fix /\ fix.content = fileContent /\ fix.result = proposed
    BY <1>1, <2>1, <2>2 DEF Fix, Fits
  <2>4. opened = [call EXCEPT !.fixes = call.fixes \cup {fix}, !.looked = fileContent, !.shown = proposed]
    BY <1>3, <2>2 DEF OpenedWith
  <2>5. /\ opened \in CallState /\ opened.at = "asking" /\ opened.asked = "shown" /\ opened.shown = proposed
        /\ opened.looked = fileContent /\ opened.params = call.params /\ opened.fixes = call.fixes \cup {fix}
    <3>1. call.fixes \cup {fix} \in SUBSET Fix /\ proposed \in Clean
      BY <1>1, <2>1, <2>3 DEF CallState, Fits
    <3> QED BY <1>1, <2>4, <3>1 DEF CallState
  <2>6. ParamsInv(c, opened)
    BY <1>1, <1>3, <2>1, <2>3, <2>5 DEF ParamsInv, Fits
  <2>7. Direct(c, fileContent, call.params) = Files!Unsure /\ CacheOf(call, fileContent) = {}
    <3>1. CacheOf(call, fileContent) # {} => Files!OneOf(CacheOf(call, fileContent)) # Files!Unsure
      BY <1>1, CacheType, OneOfIn, Contents
    <3> QED BY <1>3, <3>1 DEF CalcOf
  <2>8. CacheOf(opened, fileContent) = {proposed}
    <3>1. \A g \in call.fixes : g.content # fileContent
      BY <2>7 DEF CacheOf
    <3>2. {g \in opened.fixes : g.content = fileContent} = {fix}
      BY <2>3, <2>5, <3>1
    <3> QED BY <2>3, <3>2 DEF CacheOf
  <2>9. CalcOf(c, opened, fileContent) = proposed
    <3>1. Files!OneOf({proposed}) = proposed
      BY OneOfIn
    <3> QED BY <2>5, <2>7, <2>8, <3>1 DEF CalcOf
  <2> QED BY <2>1, <2>5, <2>6, <2>9 DEF Fits
<1>4. CASE Files!IsWrite(c) /\ CalcOf(c, call, fileContent) # Files!Unsure
  <2>1. proposed = CalcOf(c, call, fileContent)
    BY <1>1, <1>4 DEF Files!Proposed
  <2>2. Fits(c, call, proposed)
    <3>1. CASE Direct(c, fileContent, call.params) = Files!Unsure
      <4>1. CacheOf(call, fileContent) # {} /\ proposed = Files!OneOf(CacheOf(call, fileContent))
        BY <1>4, <2>1, <3>1 DEF CalcOf
      <4>2. proposed \in CacheOf(call, fileContent)
        BY <4>1, OneOfIn
      <4> QED BY <1>1, <1>4, <4>2 DEF CacheOf, ParamsInv
    <3>2. CASE Direct(c, fileContent, call.params) # Files!Unsure
      <4>1. proposed = Direct(c, fileContent, call.params)
        BY <2>1, <3>2 DEF CalcOf
      <4>2. proposed = call.params.new
        BY <1>1, <1>4, <3>2, <4>1, CorrectedType DEF Direct
      <4> QED BY <1>1, <4>2 DEF Fits, Params
    <3> QED BY <3>1, <3>2
  <2>3. opened = [call EXCEPT !.looked = fileContent, !.shown = proposed]
    BY <1>4 DEF OpenedWith
  <2>4. /\ opened \in CallState /\ opened.at = "asking" /\ opened.asked = "shown" /\ opened.shown = proposed
        /\ opened.looked = fileContent /\ opened.params = call.params /\ opened.fixes = call.fixes
    BY <1>1, <2>2, <2>3 DEF CallState, Fits
  <2>5. ParamsInv(c, opened)
    BY <1>1, <2>2, <2>4 DEF ParamsInv, Fits
  <2>6. CalcOf(c, opened, fileContent) = proposed
    <3>0. opened.params = call.params /\ opened.fixes = call.fixes
      BY <2>4
    <3>1. CalcOf(c, opened, fileContent) = CalcOf(c, call, fileContent)
      BY ONLY <3>0, CalcByParts
    <3> QED BY <2>1, <3>1
  <2> QED BY <2>2, <2>4, <2>5, <2>6 DEF Fits
<1> QED BY <1>2, <1>3, <1>4

LEMMA ModifyKeeps == ASSUME FileConstants, FilesInv, NEW c \in Files!Calls, Files!Modify(c) PROVE FilesInv'
<1>1. PICK call : call = fileCall[c]
  OBVIOUS
<1>2. call.asked = "shown" /\ call.at = "asking"
  BY <1>1 DEF Files!Modify, Files!At
<1>3. UNCHANGED <<fileWorld, fileContent, raced, undone, faltered>>
  BY DEF Files!Modify, Files!untouchedFile
<1>12. PICK proposed \in Files!Proposed(c, fileContent) : \E text \in {proposed, Files!Retyped(proposed)} :
        Files!Becomes(c, Files!ByUser(OpenedWith(c, call, fileContent, proposed), c, fileContent, text))
  <2>1. Files!Calculated(c, fileContent) = CalcOf(c, call, fileContent)
    BY <1>1, CallIs
  <2> QED BY <1>1, <2>1 DEF Files!Modify, OpenedWith, Files!Answered
<1>4. PICK text \in {proposed, Files!Retyped(proposed)} :
        Files!Becomes(c, Files!ByUser(OpenedWith(c, call, fileContent, proposed), c, fileContent, text))
  BY <1>12
<1>5. PICK opened : opened = OpenedWith(c, call, fileContent, proposed)
  OBVIOUS
<1>6. /\ proposed \in Clean /\ opened \in CallState /\ ParamsInv(c, opened) /\ opened.at = "asking"
      /\ opened.asked = "shown" /\ opened.shown = proposed /\ opened.looked = fileContent
      /\ Files!IsWrite(c) => /\ Files!LooksEscaped(c, proposed) => proposed = opened.params.new
                             /\ CalcOf(c, opened, fileContent) = proposed
  BY <1>1, <1>2, <1>5, ProposedIs
<1>7. PICK new : new = Files!ByUser(opened, c, opened.looked, text)
  OBVIOUS
<1>8. text \in Clean
  BY <1>6, RetypedIs
<1>9. new \in CallState /\ ParamsInv(c, new) /\ AskedInv(c, new) /\ new.at = "asking" /\ new.asked \in {"shown", "changed"}
  BY <1>6, <1>7, <1>8, ByUserFits
<1>10. OwnInv(c, new, faltered', fileContent, raced)
  BY <1>9 DEF OwnInv, LookInv, ExecuteInv, RaceInv
<1>11. Files!Becomes(c, new)
  BY <1>4, <1>5, <1>6, <1>7
<1> QED BY <1>3, <1>10, <1>11, CallMovesAlone

-----------------------------------------------------------------------------
(* What is executed *)
LEMMA ExecutedFits ==
    ASSUME FileConstants, NEW c, NEW call \in CallState, ParamsInv(c, call), NEW failed, NEW content, NEW late,
           NEW result \in Clean \cup {Files!Failed, Files!Unsure},
           call.asked = "no" => call.read # call.looked \/ c \in failed \/ result = Files!Failed,
           Honest(c, call) /\ call.read = call.looked => result \in {call.shown, Files!Failed},
           ~call.params.whole /\ CacheOf(call, call.read) = {} => result = Files!Edited(call.read, call.params),
           c \notin late => content = call.read
    PROVE  OwnInv(c, Files!Executed(call, result), failed, content, late)
<1>1. CASE result = Files!Failed
  BY <1>1, DoneFits DEF Files!Executed
<1>2. CASE result # Files!Failed
  <2>1. PICK new : new = Files!Executed(call, result)
    OBVIOUS
  <2>2. new = [call EXCEPT !.at = IF result = Files!Unsure THEN "fixing" ELSE "ready", !.result = result]
    BY <1>2, <2>1 DEF Files!Executed
  <2>3. /\ new \in CallState /\ new.at = (IF result = Files!Unsure THEN "fixing" ELSE "ready") /\ new.result = result
        /\ new.params = call.params /\ new.fixes = call.fixes /\ new.asked = call.asked /\ new.shown = call.shown
        /\ new.looked = call.looked /\ new.read = call.read
    BY <1>2, <2>2 DEF CallState
  <2>4. ParamsInv(c, new)
    BY <2>3 DEF ParamsInv, Fits
  <2>5. CacheOf(new, new.read) = CacheOf(call, call.read) /\ (Honest(c, new) <=> Honest(c, call))
    BY <2>3 DEF CacheOf, Honest
  <2>6. Honest(c, call) => call.shown \in Clean
    BY DEF Honest, ParamsInv
  <2>7. ExecuteInv(c, new, failed)
    BY <1>2, <2>3, <2>5, <2>6, Contents DEF ExecuteInv
  <2> QED BY <2>1, <2>3, <2>4, <2>7 DEF OwnInv, LookInv, RaceInv
<1> QED BY <1>1, <1>2

LEMMA ExecuteKeeps == ASSUME FileConstants, FilesInv, NEW c \in Files!Calls, Files!Execute(c) PROVE FilesInv'
<1>1. PICK call : call = fileCall[c]
  OBVIOUS
<1>2. /\ call \in CallState /\ ParamsInv(c, call) /\ AskedInv(c, call) /\ fileContent \in Clean
      /\ call.asked = "no" => c \in faltered \/ CalcOf(c, call, call.looked) = Files!Failed
  BY <1>1, CallIs DEF OwnInv, LookInv, Files!Execute, Files!At
<1>3. PICK new : new = [call EXCEPT !.read = fileContent]
  OBVIOUS
<1>4. /\ new \in CallState /\ new.read = fileContent /\ new.params = call.params /\ new.fixes = call.fixes
      /\ new.asked = call.asked /\ new.shown = call.shown /\ new.looked = call.looked
  BY <1>2, <1>3 DEF CallState
<1>5. PICK result : result = CalcOf(c, call, fileContent)
  OBVIOUS
<1>6. UNCHANGED <<fileWorld, fileContent, raced, undone, faltered>> /\ Files!Becomes(c, Files!Executed(new, result))
  BY <1>1, <1>3, <1>5, CallIs DEF Files!Execute, Files!untouchedFile
<1>7. result \in Clean \cup {Files!Failed, Files!Unsure}
  BY <1>2, <1>5, CalcType
<1>8. ParamsInv(c, new)
  BY <1>2, <1>4 DEF ParamsInv, Fits
<1>9. Honest(c, new) => Honest(c, call)
  BY <1>4 DEF Honest
<1>10. ASSUME ~new.params.whole, CacheOf(new, new.read) = {} PROVE result = Files!Edited(new.read, new.params)
  <2>1. ~Files!IsWrite(c)
    BY <1>8, <1>10 DEF ParamsInv
  <2>2. CacheOf(call, fileContent) = {}
    BY <1>4, <1>10 DEF CacheOf
  <2> QED BY <1>4, <1>5, <2>1, <2>2 DEF CalcOf, Direct
<1>11. OwnInv(c, Files!Executed(new, result), faltered', fileContent, raced)
  BY <1>2, <1>4, <1>5, <1>6, <1>7, <1>8, <1>9, <1>10, ExecutedFits DEF AskedInv
<1> QED BY <1>6, <1>11, CallMovesAlone

LEMMA ExecuteFixedKeeps == ASSUME FileConstants, FilesInv, NEW c \in Files!Calls, Files!ExecuteFixed(c) PROVE FilesInv'
<1>1. PICK call : call = fileCall[c]
  OBVIOUS
<1>2. /\ call \in CallState /\ ParamsInv(c, call) /\ ExecuteInv(c, call, faltered) /\ RaceInv(c, call, fileContent, raced)
      /\ call.at = "fixing" /\ call.read \in Clean
  BY <1>1, CallIs DEF OwnInv, Files!ExecuteFixed, Files!At, CallState
<1>3. PICK result \in Files!Answers(c, call.read) :
        Files!Becomes(c, Files!Executed(Files!Answered(c, call.read, result), result))
  BY <1>1 DEF Files!ExecuteFixed
<1>4. UNCHANGED <<fileWorld, fileContent, raced, undone, faltered>>
  BY DEF Files!ExecuteFixed, Files!untouchedFile
<1>5. result \in Clean \cup {Files!Failed} /\ (Files!IsWrite(c) => Fits(c, call, result))
  BY <1>1, <1>2, <1>3, AnswersFit
<1>6. PICK fix : fix = [content |-> call.read, result |-> result]
  OBVIOUS
<1>7. fix \in Fix /\ fix.content = call.read /\ fix.result = result
  BY <1>2, <1>5, <1>6 DEF Fix
<1>8. PICK new : new = Files!Answered(c, call.read, result)
  OBVIOUS
<1>9. new = [call EXCEPT !.fixes = call.fixes \cup {fix}]
  BY <1>1, <1>2, <1>6, <1>8 DEF Files!Answered, CallState
<1>10. /\ new \in CallState /\ new.read = call.read /\ new.params = call.params /\ new.fixes = call.fixes \cup {fix}
       /\ new.asked = call.asked /\ new.shown = call.shown /\ new.looked = call.looked
  BY <1>2, <1>7, <1>9 DEF CallState
<1>11. ParamsInv(c, new)
  BY <1>2, <1>5, <1>7, <1>10 DEF ParamsInv, Fits
<1>12. CacheOf(new, new.read) # {}
  BY <1>7, <1>10 DEF CacheOf
<1>13. ~(Honest(c, new) /\ new.read = new.looked)
  BY <1>2, <1>10 DEF Honest, ExecuteInv
<1>14. new.asked = "no" => new.read # new.looked \/ c \in faltered
  BY <1>2, <1>10 DEF ExecuteInv
<1>15. c \notin raced => fileContent = new.read
  BY <1>2, <1>10 DEF RaceInv
<1>16. OwnInv(c, Files!Executed(new, result), faltered', fileContent, raced)
  BY <1>4, <1>5, <1>10, <1>11, <1>12, <1>13, <1>14, <1>15, ExecutedFits
<1> QED BY <1>3, <1>4, <1>8, <1>16, CallMovesAlone

LEMMA EndsKeep ==
    ASSUME FilesInv, NEW c \in Files!Calls, Files!ExecuteFalters(c) \/ Files!WriteFails(c) PROVE FilesInv'
<1>1. /\ UNCHANGED <<fileWorld, fileContent, raced, undone, faltered>>
      /\ Files!Becomes(c, [fileCall[c] EXCEPT !.at = "done"])
  BY DEF Files!ExecuteFalters, Files!WriteFails, Files!Executed, Files!untouchedFile
<1>2. OwnInv(c, [fileCall[c] EXCEPT !.at = "done"], faltered', fileContent, raced)
  BY CallIs, DoneFits DEF OwnInv
<1> QED BY <1>1, <1>2, CallMovesAlone

LEMMA TruncateKeeps == ASSUME FileConstants, FilesInv, NEW c \in Files!Calls, Files!Truncate(c) PROVE FilesInv'
<1>1. PICK call : call = fileCall[c]
  OBVIOUS
<1>2. /\ call \in CallState /\ ParamsInv(c, call) /\ ExecuteInv(c, call, faltered) /\ RaceInv(c, call, fileContent, raced)
      /\ call.at = "ready"
  BY <1>1, CallIs DEF OwnInv, Files!Truncate, Files!At
<1>3. PICK new : new = [call EXCEPT !.at = "writing"]
  OBVIOUS
<1>4. /\ new \in CallState /\ new.at = "writing" /\ new.read = call.read /\ new.params = call.params /\ new.fixes = call.fixes
      /\ new.asked = call.asked /\ new.shown = call.shown /\ new.looked = call.looked /\ new.result = call.result
  BY <1>2, <1>3 DEF CallState
<1>5. /\ Files!Becomes(c, new) /\ UNCHANGED <<fileWorld, faltered>> /\ fileContent' = Files!Blank
      /\ raced' = raced \cup (IF fileContent' = fileContent THEN {} ELSE Files!Executing \ {c})
      /\ undone' = IF ~Files!IsWrite(c) /\ Files!Undoes(c) THEN undone \cup {c} ELSE undone
  BY <1>1, <1>3 DEF Files!Truncate, Files!Changes
<1>6. Files!Undoes(c) => c \in raced
  BY <1>1, <1>2 DEF RaceInv, Files!Undoes
<1>7. undone' \subseteq raced'
  BY <1>5, <1>6 DEF FilesInv
<1>8. ParamsInv(c, new)
  BY <1>2, <1>4 DEF ParamsInv, Fits
<1>9. ExecuteInv(c, new, faltered')
  BY <1>2, <1>4, <1>5 DEF ExecuteInv, Honest, CacheOf
<1>10. OwnInv(c, new, faltered', fileContent', raced')
  BY <1>4, <1>8, <1>9 DEF OwnInv, LookInv, RaceInv
<1> QED BY <1>5, <1>7, <1>10, Contents, CallMoves

LEMMA FileWriteKeeps == ASSUME FileConstants, FilesInv, NEW c \in Files!Calls, Files!Write(c) PROVE FilesInv'
<1>1. /\ fileCall[c] \in CallState /\ ParamsInv(c, fileCall[c]) /\ fileCall[c].result \in Clean /\ fileContent \in Clean
  BY CallIs DEF OwnInv, ExecuteInv, Files!Write, Files!At
<1>2. /\ Files!Becomes(c, [fileCall[c] EXCEPT !.at = "done"]) /\ UNCHANGED <<fileWorld, undone, faltered>>
      /\ raced' = raced \cup (IF fileContent' = fileContent THEN {} ELSE Files!Executing \ {c})
      /\ fileContent' \in {Files!Missing, fileCall[c].result, [fileCall[c].result EXCEPT ![2] = fileContent[2]]}
  BY DEF Files!Write, Files!Changes
<1>3. [fileCall[c].result EXCEPT ![2] = fileContent[2]] \in Clean
  BY <1>1 DEF Clean, Files!Region
<1>4. fileContent' \in Clean
  BY <1>1, <1>2, <1>3, Contents
<1>5. undone' \subseteq raced'
  BY <1>2 DEF FilesInv
<1>6. OwnInv(c, [fileCall[c] EXCEPT !.at = "done"], faltered', fileContent', raced')
  BY <1>1, DoneFits
<1> QED BY <1>2, <1>4, <1>5, <1>6, CallMoves

-----------------------------------------------------------------------------
(* The user saves the file: the calls that execute have seen it change. *)
LEMMA UserSavesKeeps == ASSUME FileConstants, FilesInv, Files!UserSaves PROVE FilesInv'
<1>1. /\ fileWorld' = fileWorld /\ fileCall' = fileCall /\ undone' = undone /\ faltered' = faltered
      /\ raced' = raced \cup (IF fileContent' = fileContent THEN {} ELSE Files!Executing \ {})
  BY DEF Files!UserSaves, Files!Changes
<1>2. fileContent' \in Clean
  <2>1. fileContent \in Clean /\ Files!Missing \in Clean /\ Files!All("user") \in Clean
    BY Contents DEF FilesInv, Clean, CleanText, Files!All, Files!Plain
  <2>2. \A q \in Files!Region, s \in {1, 2} : [text |-> fileContent[q].text, spacing |-> s] \in [text : CleanText, spacing : 0 .. 2]
    BY <2>1 DEF Clean
  <2>3. Files!Plain("user") \in [text : CleanText, spacing : 0 .. 2]
    BY DEF Files!Plain, CleanText
  <2>4. \A r \in Files!Region, token \in [text : CleanText, spacing : 0 .. 2] : [fileContent EXCEPT ![r] = token] \in Clean
    BY <2>1 DEF Clean
  <2>5. \/ fileContent' \in {Files!Missing, Files!All("user")}
        \/ \E r \in Files!Region, token \in {Files!Plain("user")} \cup
                {[text |-> fileContent[q].text, spacing |-> s] : q \in Files!Region, s \in {1, 2}} :
              fileContent' = [fileContent EXCEPT ![r] = token]
    BY DEF Files!UserSaves, Files!Changes
  <2> QED BY <2>1, <2>2, <2>3, <2>4, <2>5
<1>3. Files!Calls' = Files!Calls
  BY <1>1 DEF Files!Calls
<1>4. PICK failed, content, late : failed = faltered' /\ content = fileContent' /\ late = raced'
  OBVIOUS
<1>5. ASSUME NEW d \in Files!Calls PROVE CallInv(d, fileCall[d])'
  <2>1. OwnInv(d, fileCall[d], faltered, fileContent, raced)
    BY DEF FilesInv, CallInv
  <2>2. RaceInv(d, fileCall[d], content, late)
    <3>1. fileCall[d].at \in {"fixing", "ready"} => d \in Files!Executing
      BY DEF Files!Executing, Files!At
    <3> QED BY <1>1, <1>4, <2>1, <3>1 DEF OwnInv, RaceInv
  <2>3. LookInv(d, fileCall[d], failed) /\ ExecuteInv(d, fileCall[d], failed)
    BY <1>1, <1>4, <2>1 DEF OwnInv
  <2>4. PICK call : call = fileCall[d]
    OBVIOUS
  <2>5. OwnInv(d, call, failed, content, late)
    BY <2>1, <2>2, <2>3, <2>4 DEF OwnInv
  <2>6. CallInv(d, call)'
    BY <1>1, <1>4, <2>5, PiecesSame DEF OwnInv, CallInv, RaceInv, CallState, Params, Fix, Clean, CleanText
  <2> QED BY <1>1, <2>4, <2>6
<1>6. undone' \subseteq raced'
  BY <1>1 DEF FilesInv
<1> QED BY <1>1, <1>2, <1>3, <1>5, <1>6 DEF FilesInv

-----------------------------------------------------------------------------
LEMMA FilesStart == FileConstants /\ Files!FileInit => FilesInv
<1> SUFFICES ASSUME FileConstants, Files!FileInit PROVE FilesInv
  OBVIOUS
<1>1. fileWorld \in FileWorld /\ undone = {} /\ raced = {}
  BY DEF Files!FileInit
<1>2. fileContent \in Clean
  <2>1. CASE fileWorld.text = <<>>
    BY <2>1, Contents DEF Files!FileInit
  <2>2. CASE fileWorld.text # <<>>
    <3>1. fileWorld.text \in [Files!Region -> FileText \cup {"blank"}]
      BY <1>1, <2>2 DEF FileConstants
    <3>2. fileContent = [r \in Files!Region |-> Files!Plain(fileWorld.text[r])]
      BY <2>2 DEF Files!FileInit
    <3> QED BY <3>1, <3>2 DEF Clean, CleanText, Files!Plain
  <2> QED BY <2>1, <2>2
<1>3. ASSUME NEW c \in Files!Calls PROVE CallInv(c, fileCall[c])
  <2>1. PICK call : call = fileCall[c]
    OBVIOUS
  <2>2. call = [at |-> "queued", params |-> Files!Arguments(c), asked |-> "no", looked |-> Files!Missing,
                shown |-> Files!Failed, fixes |-> {}, read |-> Files!Missing, result |-> Files!Failed]
    BY <2>1 DEF Files!FileInit
  <2>3. /\ call.at = "queued" /\ call.asked = "no" /\ call.fixes = {} /\ call.params = Files!Arguments(c)
        /\ call \in CallState
    BY <1>1, <2>2, CallTexts, Contents DEF CallState
  <2>4. ParamsInv(c, call)
    BY <1>1, <2>3, CallTexts DEF ParamsInv, Fits
  <2> QED BY <2>1, <2>3, <2>4 DEF CallInv, OwnInv, LookInv, ExecuteInv, RaceInv
<1>4. DOMAIN fileCall = Files!Calls
  BY DEF Files!FileInit
<1> QED BY <1>1, <1>2, <1>3, <1>4 DEF FilesInv

LEMMA FilesStay == FilesInv /\ UNCHANGED Files!fileVars => FilesInv'
<1> SUFFICES ASSUME FilesInv, UNCHANGED Files!fileVars PROVE FilesInv'
  OBVIOUS
<1>1. /\ fileWorld' = fileWorld /\ fileContent' = fileContent /\ fileCall' = fileCall /\ raced' = raced
      /\ undone' = undone /\ faltered' = faltered /\ Files!Calls' = Files!Calls
  BY DEF Files!fileVars, Files!Calls
<1>2. ASSUME NEW d \in Files!Calls PROVE CallInv(d, fileCall[d])'
  <2>1. PICK call, failed, content, late :
          call = fileCall[d] /\ failed = faltered /\ content = fileContent /\ late = raced
    OBVIOUS
  <2>2. OwnInv(d, call, failed, content, late)
    BY <2>1 DEF FilesInv, CallInv
  <2>3. CallInv(d, call)'
    BY <1>1, <2>1, <2>2, PiecesSame DEF OwnInv, CallInv, RaceInv, CallState, Params, Fix, Clean, CleanText
  <2> QED BY <1>1, <2>1, <2>3
<1> QED BY <1>1, <1>2 DEF FilesInv, Clean, CleanText

LEMMA FilesStep == FileConstants /\ FilesInv /\ Files!FileNext => FilesInv'
<1> SUFFICES ASSUME FileConstants, FilesInv, Files!FileNext PROVE FilesInv'
  OBVIOUS
<1>1. CASE Files!UserSaves
  BY <1>1, UserSavesKeeps
<1>2. ASSUME NEW c \in Files!Calls,
             \/ Files!Look(c) \/ Files!LookFixed(c) \/ Files!LookFalters(c)
             \/ Files!Proceed(c) \/ Files!AutoApproved(c) \/ Files!Refuse(c) \/ Files!AcceptInIde(c) \/ Files!Modify(c)
             \/ Files!Execute(c) \/ Files!ExecuteFixed(c) \/ Files!ExecuteFalters(c)
             \/ Files!Truncate(c) \/ Files!Write(c) \/ Files!WriteFails(c)
      PROVE  FilesInv'
  <2>1. CASE Files!Look(c)
    BY <2>1, LookKeeps
  <2>2. CASE Files!LookFixed(c) \/ Files!LookFalters(c)
    BY <2>2, LookFixedKeeps, LookFaltersKeeps
  <2>3. CASE Files!Proceed(c) \/ Files!AutoApproved(c) \/ Files!Refuse(c)
    BY <2>3, AnswersKeep
  <2>4. CASE Files!AcceptInIde(c) \/ Files!Modify(c)
    BY <2>4, AcceptInIdeKeeps, ModifyKeeps
  <2>5. CASE Files!Execute(c) \/ Files!ExecuteFixed(c)
    BY <2>5, ExecuteKeeps, ExecuteFixedKeeps
  <2>6. CASE Files!ExecuteFalters(c) \/ Files!WriteFails(c)
    BY <2>6, EndsKeep
  <2>7. CASE Files!Truncate(c) \/ Files!Write(c)
    BY <2>7, TruncateKeeps, FileWriteKeeps
  <2> QED BY <1>2, <2>1, <2>2, <2>3, <2>4, <2>5, <2>6, <2>7
<1> QED BY <1>1, <1>2 DEF Files!FileNext

LEMMA FilesSay == FileConstants /\ FilesInv => Files!FilesAreKept
<1> SUFFICES ASSUME FileConstants, FilesInv PROVE Files!FilesAreKept
  OBVIOUS
<1>1. ASSUME NEW c \in Files!Writing
      PROVE  /\ c \in Files!Calls /\ fileCall[c].at = "writing" /\ fileCall[c] \in CallState
             /\ ParamsInv(c, fileCall[c]) /\ ExecuteInv(c, fileCall[c], faltered)
  BY CallIs DEF Files!Writing, Files!At, OwnInv
<1>2. Files!ChangesAreKept
  BY DEF Files!ChangesAreKept, FilesInv
<1>3. Files!OnePlaceIsEdited
  <2> SUFFICES ASSUME NEW c \in Files!Writing, ~fileCall[c].params.whole, ~Files!Consulted(c)
               PROVE  OneEdited(fileCall[c].read, fileCall[c].params, fileCall[c].result)
    BY DEF Files!OnePlaceIsEdited, OneEdited, Files!Cardinality, Cardinality
  <2>1. PICK call : call = fileCall[c]
    OBVIOUS
  <2>2. c \in Files!Calls /\ call.at = "writing" /\ call \in CallState /\ ParamsInv(c, call) /\ ExecuteInv(c, call, faltered)
    BY <1>1, <2>1
  <2>3. CacheOf(call, call.read) = {}
    BY <2>1 DEF CacheOf, Files!Consulted
  <2>4. call.result = Files!Edited(call.read, call.params) /\ call.result \in Clean /\ call.read \in Clean
    BY <2>1, <2>2, <2>3 DEF ExecuteInv, CallState
  <2>5. call.params = Files!Arguments(c)
    BY <2>1, <2>2 DEF ParamsInv
  <2>6. PICK old \in FileText :
          call.params = [whole |-> FALSE, old |-> Files!All(old), new |-> Files!All(Files!NewText(c))]
    BY <2>1, <2>2, <2>5, CallTexts DEF FilesInv
  <2>7. Files!NewText(c) \in FileText
    BY <2>2, CallTexts DEF FilesInv
  <2>8. OneEdited(call.read, call.params, call.result)
    BY <2>4, <2>6, <2>7, OnePlace
  <2> QED BY <2>1, <2>8
<1>4. Files!ShownIsWritten
  BY <1>1 DEF Files!ShownIsWritten, ExecuteInv, Honest
<1>5. Files!UnseenOnlyByChange
  BY <1>1 DEF Files!UnseenOnlyByChange, ExecuteInv
<1> QED BY <1>2, <1>3, <1>4, <1>5 DEF Files!FilesAreKept
=============================================================================
