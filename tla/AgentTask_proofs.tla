------------------------- MODULE AgentTask_proofs --------------------------
(***************************************************************************)
(* Proofs about AgentTask for every set of connections and calls.          *)
(***************************************************************************)
EXTENDS AgentTask, SequenceTheorems, TLAPS

-----------------------------------------------------------------------------
(* What the helpers return.                                                *)

LEMMA NewTaskType ==
    ASSUME NEW state \in State
    PROVE  NewTask(state) \in Task
BY DEF NewTask, Task

LEMMA NoRunType == NoRun \in Run
BY DEF NoRun, Run, Pc

LEMMA NoCallType == NoCall \in Call
BY DEF NoCall, Call, Status

LEMMA SplicedType ==
    ASSUME NEW queue \in Seq(SUBSET ToolCall), NEW found
    PROVE  Spliced(queue, found) \in Seq(SUBSET ToolCall)
<1>1. CASE \A i \in DOMAIN queue : queue[i] # found
  BY <1>1 DEF Spliced
<1>2. CASE \E i \in DOMAIN queue : queue[i] = found
  <2> DEFINE index == CHOOSE i \in DOMAIN queue : queue[i] = found
  <2>1. index \in 1 .. Len(queue)
    BY <1>2
  <2> HIDE DEF index
  <2>2. SubSeq(queue, 1, index - 1) \in Seq(SUBSET ToolCall)
    BY <2>1, SubSeqProperties
  <2>3. SubSeq(queue, index + 1, Len(queue)) \in Seq(SUBSET ToolCall)
    BY <2>1, SubSeqProperties
  <2> USE DEF index
  <2>4. Spliced(queue, found)
            = SubSeq(queue, 1, index - 1) \o SubSeq(queue, index + 1, Len(queue))
    BY <1>2 DEF Spliced
  <2> HIDE DEF index
  <2> QED BY <2>2, <2>3, <2>4
<1> QED BY <1>1, <1>2

LEMMA WokenType ==
    ASSUME NEW runs \in [Slot -> Run], NEW o, NEW pc \in Pc
    PROVE  Woken(runs, o, pc) \in [Slot -> Run]
BY DEF Woken, Run

\* A run goes on at pc.
LEMMA GoesOnType ==
    ASSUME TypeOK, NEW m \in Slot, NEW pc \in Pc
    PROVE  [run EXCEPT ![m].pc = pc] \in [Slot -> Run]
BY DEF TypeOK, Run

LEMMA BecomesType ==
    ASSUME TypeOK, NEW c \in ToolCall, NEW status \in Status
    PROVE  Becomes(c, status) \in [ToolCall -> Call]
BY DEF TypeOK, Becomes, Call

\* The fields a step writes, one run and one task at a time.
LEMMA RunFields ==
    ASSUME NEW r \in Run, NEW b \in BOOLEAN
    PROVE  /\ [r EXCEPT !.aborted = b] \in Run
           /\ [r EXCEPT !.main = b] \in Run
BY DEF Run

LEMMA TaskFields ==
    ASSUME NEW t \in Task, NEW found \in SUBSET ToolCall
    PROVE  /\ [t EXCEPT !.state = "working"] \in Task
           /\ [t EXCEPT !.list = @ \cup found, !.pending = @ \cup found] \in Task
           /\ [t EXCEPT !.completed = {}, !.state = "input-required"] \in Task
BY DEF Task, State

LEMMA WorksType ==
    ASSUME TypeOK, NEW o \in Slot
    PROVE  Works(o) \in [Slot -> Task]
<1>1. task \in [Slot -> Task]
  BY DEF TypeOK
<1>2. [task[o] EXCEPT !.state = "working"] \in Task
  BY <1>1, TaskFields
<1> QED BY <1>1, <1>2 DEF Works

LEMMA HandedOverType ==
    ASSUME TypeOK, NEW m
    PROVE  HandedOver(m) \in [ToolCall -> Call]
BY NoCallType DEF TypeOK, HandedOver, NoCall, Call, Status

LEMMA ClearedType ==
    ASSUME TypeOK, NEW o \in Slot
    PROVE  Cleared(o) \in Task
BY DEF TypeOK, Cleared, Task

LEMMA SaveType ==
    ASSUME TypeOK, NEW state \in State, Save(state)
    PROVE  store' \in State \cup {None} /\ writes' \in SUBSET State
BY DEF TypeOK, Save

\* What a change of its calls leaves of a task.
LEMMA UpdateType ==
    ASSUME TypeOK, NEW o \in Slot, NEW after \in [ToolCall -> Call],
           NEW first \in BOOLEAN, NEW runs \in [Slot -> Run], NEW decided,
           Update(o, after, first, runs, decided)
    PROVE  /\ call' \in [ToolCall -> Call]
           /\ task' \in [Slot -> Task]
           /\ run' \in [Slot -> Run]
<1> DEFINE left == Unresolved(o, after)
           over == Finished(o, after)
           next == IF over /\ task[o].queue # <<>> THEN Head(task[o].queue) ELSE {}
           awaiting == {c \in task[o].list : after[c].status = "awaiting"}
           state == IF AllAsk(left, after) THEN "input-required" ELSE task[o].state
           completed == IF over THEN Collected(o, after) ELSE task[o].completed
           list == IF over THEN next ELSE task[o].list
           queue == IF over /\ task[o].queue # <<>> THEN Tail(task[o].queue)
                    ELSE task[o].queue
           new == [state |-> state, pending |-> left \cup next,
                   asked |-> (task[o].asked \cup awaiting) \ decided,
                   completed |-> completed, list |-> list, queue |-> queue]
<1>1. task[o] \in Task
  BY DEF TypeOK
<1>2. /\ task[o].queue \in Seq(SUBSET ToolCall)
      /\ task[o].list \subseteq ToolCall /\ task[o].asked \subseteq ToolCall
      /\ task[o].completed \subseteq ToolCall /\ task[o].pending \subseteq ToolCall
      /\ task[o].state \in State
  BY <1>1 DEF Task
<1>3. left \subseteq ToolCall /\ awaiting \subseteq ToolCall
  BY <1>2 DEF Unresolved
<1>4. next \subseteq ToolCall
  BY <1>2
<1>5. task[o].queue # <<>> => Tail(task[o].queue) \in Seq(SUBSET ToolCall)
  BY <1>2
<1>6. Collected(o, after) \subseteq ToolCall
  BY <1>2 DEF Collected
<1>7. call' = [c \in ToolCall |->
          IF c \in next THEN [after[c] EXCEPT !.status = "validating"] ELSE after[c]]
  BY DEF Update
<1>8. \A c \in ToolCall : [after[c] EXCEPT !.status = "validating"] \in Call
  BY DEF Call, Status
<1>9. call' \in [ToolCall -> Call]
  BY <1>7, <1>8
<1>10. task' = [task EXCEPT ![o] = new]
  BY DEF Update
<1> HIDE DEF left, over, next, awaiting
<1>11. state \in State /\ completed \subseteq ToolCall /\ list \subseteq ToolCall
      /\ queue \in Seq(SUBSET ToolCall)
  BY <1>2, <1>4, <1>5, <1>6 DEF State
<1> HIDE DEF state, completed, list, queue
<1>12. new \in Task
  BY <1>2, <1>3, <1>4, <1>11 DEF Task
<1> HIDE DEF new
<1>13. task' \in [Slot -> Task]
  BY <1>10, <1>12 DEF TypeOK
<1>14. run' \in [Slot -> Run]
  BY WokenType DEF Update, Pc
<1> QED BY <1>9, <1>13, <1>14

LEMMA MovesType ==
    ASSUME TypeOK, NEW c \in ToolCall, NEW status \in Status, Moves(c, status)
    PROVE  /\ call' \in [ToolCall -> Call]
           /\ task' \in [Slot -> Task]
           /\ run' \in [Slot -> Run]
<1>1. PICK o \in Slot, first \in BOOLEAN : Update(o, Becomes(c, status), first, run, {})
  BY DEF Moves, Owner
<1>2. run \in [Slot -> Run]
  BY DEF TypeOK
<1> QED BY <1>1, <1>2, BecomesType, UpdateType

-----------------------------------------------------------------------------
(* Every step keeps the state well formed.                                 *)

LEMMA InitType == Init => TypeOK
BY NewTaskType, NoRunType, NoCallType DEF Init, TypeOK, State

LEMMA ToolType ==
    ASSUME TypeOK, NEW c \in ToolCall, ToolIsChecked(c) \/ ToolReturns(c)
    PROVE  TypeOK'
<1>1. /\ call' \in [ToolCall -> Call]
      /\ task' \in [Slot -> Task]
      /\ run' \in [Slot -> Run]
  <2>1. CASE ToolIsChecked(c)
    BY <2>1, MovesType DEF ToolIsChecked, Status
  <2>2. CASE ToolReturns(c)
    BY <2>2, MovesType DEF ToolReturns, Status
  <2> QED BY <2>1, <2>2
<1>2. UNCHANGED <<cached, executing, store, writes, world>>
  BY DEF ToolIsChecked, ToolReturns
<1> QED BY <1>1, <1>2 DEF TypeOK

LEMMA MessageType ==
    ASSUME TypeOK, NEW m \in Slot, Message(m)
    PROVE  TypeOK'
<1>1. PICK c \in ToolCall \cup {None}, outcome \in {"proceed", "cancel", "badEdit"},
           text \in BOOLEAN : Arrive(m, c, outcome, text)
  BY DEF Message
<1>2. run' = [run EXCEPT ![m] = [NoRun EXCEPT
          !.pc = IF cached = None THEN "making" ELSE "made",
          !.obj = cached, !.call = c, !.outcome = outcome, !.text = text]]
  BY <1>1 DEF Arrive
<1>3. [NoRun EXCEPT !.pc = IF cached = None THEN "making" ELSE "made",
          !.obj = cached, !.call = c, !.outcome = outcome, !.text = text] \in Run
  BY DEF TypeOK, NoRun, Run, Pc
<1>4. run' \in [Slot -> Run]
  BY <1>2, <1>3 DEF TypeOK
<1> QED BY <1>1, <1>4 DEF Arrive, TypeOK

LEMMA MakeType ==
    ASSUME TypeOK, NEW m \in Slot, Make(m)
    PROVE  TypeOK'
<1>1. Restored(store) \in State
  BY DEF TypeOK, Restored, State
<1>2. task' \in [Slot -> Task]
  BY <1>1, NewTaskType DEF Make, TypeOK
<1>3. run' \in [Slot -> Run]
  <2> DEFINE runs == [run EXCEPT ![m].pc = "made"]
  <2>1. run' = [runs EXCEPT ![m].obj = m]
    BY DEF Make
  <2>2. runs \in [Slot -> Run]
    BY GoesOnType DEF Pc
  <2> HIDE DEF runs
  <2> QED BY <2>1, <2>2 DEF Run
<1>4. store' \in State \cup {None} /\ writes' \in SUBSET State
  BY SaveType DEF Make, TypeOK, State
<1> QED BY <1>2, <1>3, <1>4 DEF Make, TypeOK

LEMMA QuietType ==
    ASSUME TypeOK, NEW m \in Slot,
           \/ MakeFails(m) \/ Ignore(m) \/ Start(m) \/ NoAnswer(m)
           \/ StreamEnds(m) \/ StreamBreaks(m) \/ WaitForPendingTools(m)
    PROVE  TypeOK'
<1>1. run' \in [Slot -> Run]
  <2>1. CASE MakeFails(m) \/ Ignore(m)
    BY <2>1, NoRunType DEF MakeFails, Ignore, TypeOK
  <2>2. CASE Start(m)
    <3> DEFINE runs == [run EXCEPT ![m].pc = "answer"]
    <3>1. run' = [runs EXCEPT ![m].main = ~executing]
      BY <2>2 DEF Start
    <3>2. runs \in [Slot -> Run] /\ (~executing) \in BOOLEAN
      BY GoesOnType DEF Pc, TypeOK
    <3>3. [runs[m] EXCEPT !.main = ~executing] \in Run
      BY <3>2, RunFields
    <3> HIDE DEF runs
    <3> QED BY <3>1, <3>2, <3>3
  <2>3. CASE NoAnswer(m)
    <3>1. run' = [Answered(m) EXCEPT ![m].call = None]
      BY <2>3 DEF NoAnswer
    <3>2. Answered(m) \in [Slot -> Run]
      BY GoesOnType DEF Answered, Pc
    <3> QED BY <3>1, <3>2 DEF Run
  <2>4. CASE StreamEnds(m)
    BY <2>4, NoRunType DEF StreamEnds, TypeOK, Run, Pc
  <2>5. CASE StreamBreaks(m)
    BY <2>5, NoRunType DEF StreamBreaks, TypeOK, Run, Pc
  <2>6. CASE WaitForPendingTools(m)
    BY <2>6 DEF WaitForPendingTools, TypeOK, Run, Pc
  <2> QED BY <2>1, <2>2, <2>3, <2>4, <2>5, <2>6
<1>2. UNCHANGED <<cached, task, call, store, writes, world>> /\ executing' \in BOOLEAN
  BY DEF MakeFails, Ignore, Start, NoAnswer, StreamEnds, StreamBreaks,
         WaitForPendingTools, TypeOK
<1> QED BY <1>1, <1>2 DEF TypeOK

LEMMA ConfirmType ==
    ASSUME TypeOK, NEW m \in Slot, Obj(m) \in Slot, Confirm(m)
    PROVE  TypeOK'
<1> DEFINE c == run[m].call
           status == IF run[m].outcome = "cancel" \/ call[c].hung
                     THEN "cancelled" ELSE "scheduled"
<1>1. c \in ToolCall
  BY SlotsAndCalls DEF Confirm, Knows, TypeOK, Run
<1>2. Answered(m) \in [Slot -> Run]
  BY DEF Answered, TypeOK, Run, Pc
<1>3. PICK first \in BOOLEAN :
          Update(Obj(m), Becomes(c, status), first, Answered(m), {c})
  BY DEF Confirm
<1>4. Becomes(c, status) \in [ToolCall -> Call]
  BY <1>1, BecomesType DEF Status
<1>5. /\ call' \in [ToolCall -> Call]
      /\ task' \in [Slot -> Task]
      /\ run' \in [Slot -> Run]
  BY <1>2, <1>3, <1>4, UpdateType
<1> QED BY <1>5 DEF Confirm, TypeOK

LEMMA ConfirmThrowsType ==
    ASSUME TypeOK, NEW m \in Slot, Obj(m) \in Slot, ConfirmThrows(m)
    PROVE  TypeOK'
<1> DEFINE o == Obj(m)
           runs == [Answered(m) EXCEPT ![m].call = None]
<1>1. runs \in [Slot -> Run]
  <2>1. Answered(m) \in [Slot -> Run]
    BY GoesOnType DEF Answered, Pc
  <2> QED BY <2>1 DEF Run
<1>2. task' \in [Slot -> Task]
  BY DEF ConfirmThrows, TypeOK, Task
<1>3. run' = IF task[o].pending = {run[m].call} THEN Woken(runs, o, "woken") ELSE runs
  BY DEF ConfirmThrows
<1> HIDE DEF runs
<1>4. run' \in [Slot -> Run]
  BY <1>1, <1>3, WokenType DEF Pc
<1> QED BY <1>2, <1>4 DEF ConfirmThrows, TypeOK

LEMMA SayType ==
    ASSUME TypeOK, NEW m \in Slot, Obj(m) \in Slot, Say(m)
    PROVE  TypeOK'
<1>1. task' = task \/ task' = Works(Obj(m))
  BY DEF Say
<1>2. task' \in [Slot -> Task]
  BY <1>1, WorksType DEF TypeOK
<1>3. \A pc \in Pc : Read(m, pc) \in Run
  BY DEF Read, TypeOK, Run
<1>4. run' \in [Slot -> Run]
  BY <1>3, NoRunType DEF Say, TypeOK, Pc
<1> QED BY <1>2, <1>4 DEF Say, TypeOK

LEMMA StreamRequestsType ==
    ASSUME TypeOK, NEW m \in Slot, StreamRequests(m)
    PROVE  TypeOK'
<1> DEFINE c == CHOOSE d \in Fresh : TRUE
<1>1. c \in ToolCall
  BY DEF StreamRequests, Fresh
<1>2. call' = [call EXCEPT ![c] = [NoCall EXCEPT
          !.status = IF run[m].main THEN "queued" ELSE "dropped", !.by = m]]
  BY DEF StreamRequests
<1>3. run' = IF run[m].main THEN [run EXCEPT ![m].found = @ \cup {c}] ELSE run
  BY DEF StreamRequests
<1> HIDE DEF c
<1>4. run' \in [Slot -> Run]
  BY <1>1, <1>3 DEF TypeOK, Run
<1>5. [NoCall EXCEPT !.status = IF run[m].main THEN "queued" ELSE "dropped", !.by = m]
          \in Call
  BY DEF NoCall, Call, Status
<1>6. call' \in [ToolCall -> Call]
  BY <1>2, <1>5 DEF TypeOK
<1> QED BY <1>4, <1>6 DEF StreamRequests, TypeOK

LEMMA ClearingType ==
    ASSUME TypeOK, NEW o \in Slot, NEW state \in State
    PROVE  /\ [task EXCEPT ![o] = Cleared(o)] \in [Slot -> Task]
           /\ [task EXCEPT ![o] = [Cleared(o) EXCEPT !.state = state]] \in [Slot -> Task]
<1>1. Cleared(o) \in Task
  BY ClearedType
<1>2. [Cleared(o) EXCEPT !.state = state] \in Task
  BY <1>1 DEF Task
<1> QED BY <1>1, <1>2 DEF TypeOK

LEMMA ScheduleType ==
    ASSUME TypeOK, NEW m \in Slot, Obj(m) \in Slot, ScheduleToolCalls(m)
    PROVE  TypeOK'
<1> DEFINE o == Obj(m)
           found == run[m].found
<1>1. found \subseteq ToolCall
  BY DEF TypeOK, Run
<1>2. Works(o) \in [Slot -> Task]
  BY WorksType
<1>3. run' \in [Slot -> Run]
  BY DEF ScheduleToolCalls, TypeOK, Run, Pc
<1>4. CASE IsRunning(o)
  <2>1. task' = [Works(o) EXCEPT ![o].queue = Append(@, found)] /\ call' = call
    BY <1>4 DEF ScheduleToolCalls
  <2>2. Works(o)[o].queue \in Seq(SUBSET ToolCall)
    BY <1>2 DEF Task
  <2>3. Append(Works(o)[o].queue, found) \in Seq(SUBSET ToolCall)
    BY <1>1, <2>2
  <2>4. task' \in [Slot -> Task]
    BY <1>2, <2>1, <2>3 DEF Task
  <2> QED BY <1>3, <2>1, <2>4 DEF ScheduleToolCalls, TypeOK
<1>5. CASE ~IsRunning(o)
  <2>1. /\ task' = [Works(o) EXCEPT ![o].list = @ \cup found, ![o].pending = @ \cup found]
        /\ call' = [c \in ToolCall |-> IF c \in found
               THEN [call[c] EXCEPT !.status = "validating"] ELSE call[c]]
    BY <1>5 DEF ScheduleToolCalls
  <2>2. task' \in [Slot -> Task]
    <3> DEFINE tasks == Works(o)
    <3>1. tasks \in [Slot -> Task] /\ task' = [tasks EXCEPT ![o].list = @ \cup found,
                                                          ![o].pending = @ \cup found]
      BY <1>2, <2>1
    <3> HIDE DEF tasks
    <3>2. [tasks[o] EXCEPT !.list = @ \cup found, !.pending = @ \cup found] \in Task
      BY <1>1, <3>1, TaskFields
    <3> QED BY <3>1, <3>2
  <2>3. \A c \in ToolCall : [call[c] EXCEPT !.status = "validating"] \in Call
    BY DEF TypeOK, Call, Status
  <2>4. call' \in [ToolCall -> Call]
    BY <2>1, <2>3 DEF TypeOK
  <2> QED BY <1>3, <2>2, <2>4 DEF ScheduleToolCalls, TypeOK
<1> QED BY <1>4, <1>5

LEMMA TurnEndsType ==
    ASSUME TypeOK, NEW m \in Slot, Obj(m) \in Slot,
           SendCompletedTools(m) \/ EndTurn(m) \/ Catch(m)
    PROVE  TypeOK'
<1>1. CASE SendCompletedTools(m)
  <2>1. Works(Obj(m)) \in [Slot -> Task]
    BY WorksType
  <2>2. task' \in [Slot -> Task]
    BY <1>1, <2>1 DEF SendCompletedTools, Task
  <2>3. run' \in [Slot -> Run]
    <3> DEFINE runs == [run EXCEPT ![m].pc = "stream"]
    <3>1. run' = [runs EXCEPT ![m].found = {}]
      BY <1>1 DEF SendCompletedTools
    <3>2. runs \in [Slot -> Run]
      BY GoesOnType DEF Pc
    <3> HIDE DEF runs
    <3> QED BY <3>1, <3>2 DEF Run
  <2>4. call' \in [ToolCall -> Call]
    BY <1>1, HandedOverType DEF SendCompletedTools
  <2> QED BY <1>1, <2>2, <2>3, <2>4 DEF SendCompletedTools, TypeOK
<1>2. CASE EndTurn(m)
  <2>1. task' \in [Slot -> Task]
    <3>1. [task[Obj(m)] EXCEPT !.completed = {}, !.state = "input-required"] \in Task
      BY TaskFields DEF TypeOK
    <3> QED BY <1>2, <3>1 DEF EndTurn, TypeOK
  <2>2. run' \in [Slot -> Run]
    BY <1>2, NoRunType DEF EndTurn, TypeOK
  <2>3. call' \in [ToolCall -> Call]
    BY <1>2, HandedOverType DEF EndTurn
  <2>4. store' \in State \cup {None} /\ writes' \in SUBSET State
    BY <1>2, SaveType DEF EndTurn, State
  <2> QED BY <1>2, <2>1, <2>2, <2>3, <2>4 DEF EndTurn, TypeOK
<1>3. CASE Catch(m)
  <2>1. PICK state \in State : Leave(m, state)
    BY <1>3 DEF Catch, IsFinal, TypeOK, Task, State
  <2>2. task' \in [Slot -> Task]
    BY <2>1, ClearingType DEF Leave
  <2>3. run' \in [Slot -> Run]
    BY <2>1, NoRunType DEF Leave, TypeOK
  <2>4. store' \in State \cup {None} /\ writes' \in SUBSET State
    BY <2>1, SaveType DEF Leave
  <2> QED BY <1>3, <2>1, <2>2, <2>3, <2>4 DEF Catch, Leave, TypeOK
<1> QED BY <1>1, <1>2, <1>3

\* Spliced changes the queue only.
LEMMA DisconnectType ==
    ASSUME TypeOK, NEW m \in Slot, At(m, "scheduling") => Obj(m) \in Slot, Disconnect(m)
    PROVE  TypeOK'
<1> DEFINE waits == At(m, "scheduling") /\ \E c \in run[m].found : Has(c, {"queued"})
           pc == IF waits THEN "failing" ELSE run[m].pc
           runs == [run EXCEPT ![m].aborted = TRUE]
<1>1. run' \in [Slot -> Run]
  <2>1. run' = [runs EXCEPT ![m].pc = pc]
    BY DEF Disconnect
  <2>2. runs \in [Slot -> Run]
    <3>1. [run[m] EXCEPT !.aborted = TRUE] \in Run
      BY RunFields DEF TypeOK
    <3> QED BY <3>1 DEF TypeOK
  <2>3. pc \in Pc
    BY DEF TypeOK, Run, Pc
  <2> HIDE DEF runs, pc
  <2> QED BY <2>1, <2>2, <2>3 DEF Run
<1>2. call' \in [ToolCall -> Call]
  BY DEF Disconnect, TypeOK, Call
<1>3. CASE waits
  <2> DEFINE queue == Spliced(task[Obj(m)].queue, run[m].found)
  <2>1. Obj(m) \in Slot /\ task[Obj(m)].queue \in Seq(SUBSET ToolCall)
    BY <1>3 DEF TypeOK, Task
  <2>2. queue \in Seq(SUBSET ToolCall)
    BY <2>1, SplicedType
  <2>3. task' = [task EXCEPT ![Obj(m)].queue = queue]
    BY <1>3 DEF Disconnect
  <2> HIDE DEF queue
  <2>4. task' \in [Slot -> Task]
    BY <2>1, <2>2, <2>3 DEF TypeOK, Task
  <2> QED BY <1>1, <1>2, <2>4 DEF Disconnect, TypeOK
<1>4. CASE ~waits
  <2>1. task' = task
    BY <1>4 DEF Disconnect
  <2> QED BY <1>1, <1>2, <2>1 DEF Disconnect, TypeOK
<1> QED BY <1>3, <1>4

LEMMA OutsideType ==
    ASSUME TypeOK, \/ CancelTask
                   \/ \E state \in State : Land(state) \/ SaveFails(state)
                   \/ Crash
    PROVE  TypeOK'
<1>1. CASE CancelTask
  <2>1. cached \in Slot
    BY <1>1 DEF CancelTask, TypeOK
  <2>2. task' \in [Slot -> Task]
    BY <1>1, <2>1, ClearingType DEF CancelTask, State
  <2>3. run' \in [Slot -> Run]
    BY <1>1, WokenType DEF CancelTask, Rejected, TypeOK, Pc
  <2>4. store' \in State \cup {None} /\ writes' \in SUBSET State
    BY <1>1, SaveType DEF CancelTask, State
  <2> QED BY <1>1, <2>2, <2>3, <2>4 DEF CancelTask, TypeOK
<1>2. CASE \E state \in State : Land(state) \/ SaveFails(state)
  BY <1>2 DEF Land, SaveFails, TypeOK
<1>3. CASE Crash
  <2>1. call' \in [ToolCall -> Call]
    BY <1>3, NoCallType DEF Crash, TypeOK, NoCall, Call, Status
  <2> QED BY <1>3, <2>1, NoRunType, NewTaskType DEF Crash, TypeOK, State
<1> QED BY <1>1, <1>2, <1>3

-----------------------------------------------------------------------------
(* An execution has found its Task object before it does anything with it. *)

ObjectsExist == \A m \in Slot : ~At(m, "idle") /\ ~At(m, "making") => Obj(m) \in Slot

TypeInv == TypeOK /\ ObjectsExist

LEMMA InitObjects == Init => ObjectsExist
BY DEF Init, ObjectsExist, NoRun, At

LEMMA WokenObjects ==
    ASSUME NEW runs \in [Slot -> Run], NEW o, NEW pc,
           \A m \in Slot : runs[m].pc \notin {"idle", "making"} => runs[m].obj \in Slot,
           run' = Woken(runs, o, pc)
    PROVE  ObjectsExist'
BY DEF ObjectsExist, At, Obj, Woken, Run

LEMMA UpdateObjects ==
    ASSUME NEW runs \in [Slot -> Run], NEW o, NEW after, NEW first, NEW decided,
           \A m \in Slot : runs[m].pc \notin {"idle", "making"} => runs[m].obj \in Slot,
           Update(o, after, first, runs, decided)
    PROVE  ObjectsExist'
<1>1. run' = runs \/ run' = Woken(runs, o, "woken")
  BY DEF Update
<1> QED BY <1>1, WokenObjects DEF ObjectsExist, At, Obj

\* Any step of one execution that keeps its object, or ends it.
LEMMA RunObjects ==
    ASSUME TypeInv, NEW m \in Slot, NEW r \in Run, run' = [run EXCEPT ![m] = r],
           r.pc \notin {"idle", "making"} => r.obj \in Slot
    PROVE  ObjectsExist'
BY DEF TypeInv, TypeOK, ObjectsExist, At, Obj, Run

LEMMA ExecutionObjects ==
    ASSUME TypeInv, NEW m \in Slot, Execution(m) \/ StreamRequests(m)
    PROVE  ObjectsExist'
<1> USE DEF TypeInv
<1>1. run[m] \in Run
  BY DEF TypeOK
<1>2. CASE Make(m)
  BY <1>2, <1>1, MakeType DEF Make, ObjectsExist, At, Obj, TypeOK, Run
<1>3. CASE MakeFails(m) \/ Ignore(m) \/ StreamErrs(m) \/ EndTurn(m)
  BY <1>3, <1>1 DEF MakeFails, Ignore, StreamErrs, EndTurn, ObjectsExist, At, Obj, NoRun,
                    TypeOK
<1>4. CASE Start(m) \/ NoAnswer(m)
  BY <1>4, <1>1 DEF Start, NoAnswer, Answered, ObjectsExist, At, Obj, TypeOK, Run
<1>5. CASE Say(m)
  BY <1>5, <1>1 DEF Say, Read, ObjectsExist, At, Obj, NoRun, TypeOK, Run
<1>6. CASE StreamEnds(m) \/ StreamBreaks(m)
  BY <1>6, <1>1 DEF StreamEnds, StreamBreaks, ObjectsExist, At, Obj, NoRun, TypeOK, Run
<1>7. CASE ScheduleToolCalls(m) \/ WaitForPendingTools(m) \/ SendCompletedTools(m)
  BY <1>7, <1>1 DEF ScheduleToolCalls, WaitForPendingTools, SendCompletedTools,
                    ObjectsExist, At, Obj, TypeOK, Run
<1>8. CASE Catch(m)
  <2>1. run' = [run EXCEPT ![m] = NoRun]
    BY <1>8 DEF Catch, Leave
  <2> QED BY <2>1 DEF ObjectsExist, At, Obj, NoRun, TypeOK
<1>9. CASE StreamRequests(m)
  BY <1>9, <1>1 DEF StreamRequests, ObjectsExist, At, Obj, TypeOK, Run
<1>10. CASE Confirm(m)
  <2>1. Answered(m) \in [Slot -> Run]
    BY GoesOnType DEF Answered, Pc
  <2>2. \A n \in Slot : Answered(m)[n].pc \notin {"idle", "making"}
                            => Answered(m)[n].obj \in Slot
    BY <1>10 DEF Answered, Confirm, ObjectsExist, At, Obj, TypeOK, Run
  <2> QED BY <1>10, <2>1, <2>2, UpdateObjects DEF Confirm
<1>11. CASE ConfirmThrows(m)
  <2> DEFINE runs == [Answered(m) EXCEPT ![m].call = None]
  <2>1. Answered(m) \in [Slot -> Run]
    BY GoesOnType DEF Answered, Pc
  <2>2. runs \in [Slot -> Run]
    BY <2>1 DEF Run
  <2>3. \A n \in Slot : runs[n].pc \notin {"idle", "making"} => runs[n].obj \in Slot
    BY <1>11, <2>1 DEF Answered, ConfirmThrows, ObjectsExist, At, Obj, TypeOK, Run
  <2>4. run' = runs \/ run' = Woken(runs, Obj(m), "woken")
    BY <1>11 DEF ConfirmThrows
  <2> HIDE DEF runs
  <2> QED BY <2>2, <2>3, <2>4, WokenObjects DEF ObjectsExist, At, Obj
<1> QED BY <1>2, <1>3, <1>4, <1>5, <1>6, <1>7, <1>8, <1>9, <1>10, <1>11 DEF Execution

LEMMA OtherObjects ==
    ASSUME TypeInv,
           \/ \E m \in Slot : Message(m) \/ Disconnect(m)
           \/ Tools \/ CancelTask
           \/ \E state \in State : Land(state) \/ SaveFails(state)
           \/ Crash \/ UNCHANGED vars
    PROVE  ObjectsExist'
<1> USE DEF TypeInv
<1>1. run \in [Slot -> Run]
  BY DEF TypeOK
<1>2. CASE \E m \in Slot : Message(m)
  <2>1. PICK m \in Slot, c \in ToolCall \cup {None},
             outcome \in {"proceed", "cancel", "badEdit"}, text \in BOOLEAN :
             Arrive(m, c, outcome, text)
    BY <1>2 DEF Message
  <2>2. /\ run'[m].pc = IF cached = None THEN "making" ELSE "made"
        /\ run'[m].obj = cached
        /\ \A n \in Slot \ {m} : run'[n] = run[n]
    BY <1>1, <2>1 DEF Arrive, NoRun
  <2> QED BY <1>1, <2>2 DEF ObjectsExist, At, Obj, TypeOK
<1>3. CASE \E m \in Slot : Disconnect(m)
  <2>1. PICK m \in Slot : Disconnect(m)
    BY <1>3
  <2> DEFINE waits == At(m, "scheduling") /\ \E c \in run[m].found : Has(c, {"queued"})
             runs == [run EXCEPT ![m].aborted = TRUE]
  <2>2. runs \in [Slot -> Run]
    <3>1. [run[m] EXCEPT !.aborted = TRUE] \in Run
      BY <1>1, RunFields
    <3> QED BY <1>1, <3>1
  <2>3. run' = [runs EXCEPT ![m].pc = IF waits THEN "failing" ELSE run[m].pc]
    BY <2>1 DEF Disconnect
  <2>4. \A n \in Slot : runs[n].pc = run[n].pc /\ runs[n].obj = run[n].obj
    BY <1>1 DEF Run
  <2>5. \A n \in Slot : run'[n].obj = run[n].obj
    BY <2>2, <2>3, <2>4 DEF Run
  <2>6. \A n \in Slot : run'[n].pc = run[n].pc
                        \/ run[n].pc = "scheduling"
    BY <2>2, <2>3, <2>4 DEF Run, At
  <2> QED BY <1>1, <2>5, <2>6 DEF ObjectsExist, At, Obj
<1>4. CASE Tools
  <2>1. PICK c \in ToolCall : ToolIsChecked(c) \/ ToolReturns(c)
    BY <1>4 DEF Tools
  <2>2. PICK status : Moves(c, status)
    BY <2>1 DEF ToolIsChecked, ToolReturns
  <2>3. PICK o \in Slot, first \in BOOLEAN :
             Update(o, Becomes(c, status), first, run, {})
    BY <2>2 DEF Moves, Owner
  <2> QED BY <1>1, <2>3, UpdateObjects DEF ObjectsExist, At, Obj
<1>5. CASE CancelTask
  BY <1>1, <1>5, WokenObjects DEF CancelTask, Rejected, ObjectsExist, At, Obj
<1>6. CASE \E state \in State : Land(state) \/ SaveFails(state)
  BY <1>6 DEF Land, SaveFails, ObjectsExist, At, Obj
<1>7. CASE Crash
  BY <1>7 DEF Crash, ObjectsExist, At, Obj, NoRun
<1>8. CASE UNCHANGED vars
  BY <1>8 DEF vars, ObjectsExist, At, Obj
<1> QED BY <1>2, <1>3, <1>4, <1>5, <1>6, <1>7, <1>8

LEMMA TypeStep == TypeInv /\ [Next]_vars => TypeInv'
<1> SUFFICES ASSUME TypeInv, [Next]_vars
             PROVE  TypeInv'
  OBVIOUS
<1>1. TypeOK /\ ObjectsExist
  BY DEF TypeInv
<1>2. ObjectsExist'
  BY ExecutionObjects, OtherObjects DEF Next
<1>3. TypeOK'
  <2>1. ASSUME NEW m \in Slot, Message(m)
        PROVE  TypeOK'
    BY <1>1, <2>1, MessageType
  <2>2. ASSUME NEW m \in Slot, Execution(m)
        PROVE  TypeOK'
    <3>1. CASE Make(m)
      BY <1>1, <3>1, MakeType
    <3>2. CASE \/ MakeFails(m) \/ Ignore(m) \/ Start(m) \/ NoAnswer(m)
               \/ StreamEnds(m) \/ StreamBreaks(m) \/ WaitForPendingTools(m)
      BY <1>1, <3>2, QuietType
    <3>3. CASE Confirm(m)
      BY <1>1, <3>3, ConfirmType DEF ObjectsExist, Confirm, At
    <3>4. CASE ConfirmThrows(m)
      BY <1>1, <3>4, ConfirmThrowsType DEF ObjectsExist, ConfirmThrows, At
    <3>5. CASE Say(m)
      BY <1>1, <3>5, SayType DEF ObjectsExist, Say, At
    <3>6. CASE StreamErrs(m)
      <4>1. Obj(m) \in Slot
        BY <1>1, <3>6 DEF ObjectsExist, StreamErrs, At
      <4> QED BY <1>1, <3>6, <4>1, ClearingType DEF StreamErrs, TypeOK, State
    <3>7. CASE ScheduleToolCalls(m)
      BY <1>1, <3>7, ScheduleType DEF ObjectsExist, ScheduleToolCalls, At
    <3>8. CASE SendCompletedTools(m) \/ EndTurn(m) \/ Catch(m)
      <4>1. Obj(m) \in Slot
        BY <1>1, <3>8 DEF ObjectsExist, SendCompletedTools, EndTurn, Catch, At
      <4> QED BY <1>1, <3>8, <4>1, TurnEndsType
    <3> QED BY <2>2, <3>1, <3>2, <3>3, <3>4, <3>5, <3>6, <3>7, <3>8 DEF Execution
  <2>3. ASSUME NEW m \in Slot, StreamRequests(m)
        PROVE  TypeOK'
    BY <1>1, <2>3, StreamRequestsType
  <2>4. ASSUME NEW m \in Slot, Disconnect(m)
        PROVE  TypeOK'
    BY <1>1, <2>4, DisconnectType DEF ObjectsExist, At
  <2>5. CASE Tools
    BY <1>1, <2>5, ToolType DEF Tools
  <2>6. CASE \/ CancelTask
             \/ \E state \in State : Land(state) \/ SaveFails(state)
             \/ Crash
    BY <1>1, <2>6, OutsideType
  <2>7. CASE UNCHANGED vars
    BY <1>1, <2>7 DEF TypeOK, vars
  <2> QED BY <2>1, <2>2, <2>3, <2>4, <2>5, <2>6, <2>7 DEF Next
<1> QED BY <1>2, <1>3 DEF TypeInv

\* Every variable of the executor, the task and its scheduler keeps its type in
\* every interleaving of messages, tools, cancellations, uploads and crashes.
THEOREM AgentTypeCorrect == Spec => []TypeOK
<1>1. Init => TypeInv
  BY InitType, InitObjects DEF TypeInv
<1> QED BY <1>1, TypeStep, PTL DEF Spec, TypeInv

-----------------------------------------------------------------------------
(* What reaches the store.                                                 *)

\* Neither the store nor an upload on its way to it says "working".
NothingWorks == store # "working" /\ "working" \notin writes

LEMMA SaveResumable ==
    ASSUME NothingWorks, NEW state \in State \ {"working"}, Save(state)
    PROVE  NothingWorks'
BY DEF NothingWorks, Save

LEMMA ExecutionResumable ==
    ASSUME TypeInv, NothingWorks, NEW m \in Slot, Execution(m)
    PROVE  NothingWorks'
<1>1. CASE Make(m)
  <2>1. Save("submitted") \/ UNCHANGED <<store, writes>>
    BY <1>1 DEF Make
  <2> QED BY <2>1, SaveResumable DEF NothingWorks, State
<1>2. CASE EndTurn(m)
  BY <1>2, SaveResumable DEF EndTurn, State
<1>3. CASE Catch(m)
  <2>1. PICK state \in {"failed", "canceled", "input-required"} : Leave(m, state)
    BY <1>3 DEF Catch, IsFinal
  <2> QED BY <2>1, SaveResumable DEF Leave, State
<1>4. CASE ~(Make(m) \/ EndTurn(m) \/ Catch(m))
  <2>1. UNCHANGED <<store, writes>>
    BY <1>4 DEF Execution, MakeFails, Ignore, Start, NoAnswer, Confirm, ConfirmThrows, Say,
                StreamErrs, StreamEnds, StreamBreaks, ScheduleToolCalls,
                WaitForPendingTools, SendCompletedTools
  <2> QED BY <2>1 DEF NothingWorks
<1> QED BY <1>1, <1>2, <1>3, <1>4

LEMMA StoreStep == TypeInv /\ NothingWorks /\ [Next]_vars => NothingWorks'
<1> SUFFICES ASSUME TypeInv, NothingWorks, [Next]_vars
             PROVE  NothingWorks'
  OBVIOUS
<1>1. CASE \E m \in Slot : Execution(m)
  BY <1>1, ExecutionResumable
<1>2. CASE \E m \in Slot : Message(m) \/ StreamRequests(m) \/ Disconnect(m)
  BY <1>2 DEF Message, Arrive, StreamRequests, Disconnect, NothingWorks
<1>3. CASE Tools
  BY <1>3 DEF Tools, ToolIsChecked, ToolReturns, NothingWorks
<1>4. CASE CancelTask
  BY <1>4, SaveResumable DEF CancelTask, State
<1>5. CASE \E state \in State : Land(state) \/ SaveFails(state)
  BY <1>5 DEF Land, SaveFails, NothingWorks
<1>6. CASE Crash
  BY <1>6 DEF Crash, NothingWorks
<1>7. CASE UNCHANGED vars
  BY <1>7 DEF vars, NothingWorks
<1> QED BY <1>1, <1>2, <1>3, <1>4, <1>5, <1>6, <1>7 DEF Next

\* Whatever is uploaded late, lost, or interrupted by a crash, a task that is
\* restored from the store can take the next message.
THEOREM TasksResume == Spec => []StoredTaskIsResumable
<1>1. Init => TypeInv /\ NothingWorks
  BY InitType, InitObjects, NothingStored DEF TypeInv, NothingWorks, Init, State
<1>2. NothingWorks => StoredTaskIsResumable
  BY DEF NothingWorks, StoredTaskIsResumable
<1> QED BY <1>1, <1>2, TypeStep, StoreStep, PTL DEF Spec

-----------------------------------------------------------------------------
(* The turns of the main execution when nobody leaves, cancels or fails:   *)
(* only the order of messages, tools and answers is left.                  *)

Undisturbed == world \subseteq {"mixed", "race"}

Main(m) == run[m].main
Live == {"queued", "validating", "awaiting", "scheduled", "success", "cancelled"}

\* The scheduler of o and the maps of o are empty, and no result waits.
Idle(o) ==
    /\ task[o].list = {} /\ task[o].pending = {} /\ task[o].asked = {}
    /\ task[o].queue = <<>>
Empty(o) == Idle(o) /\ task[o].completed = {}

\* The turn of m still collects requests, its batch is in the scheduler, or it is over.
Collecting(m) == Empty(Obj(m)) /\ \A c \in run[m].found : Has(c, {"queued"})
Busy(m) ==
    LET t == task[Obj(m)]
    IN  /\ t.list = run[m].found /\ t.completed = {} /\ t.queue = <<>>
        /\ t.pending # {} /\ t.pending \subseteq run[m].found
        /\ \A c \in run[m].found : c \in t.pending <=> ~Has(c, Terminal)
        /\ \A c \in t.asked : c \in run[m].found /\ Has(c, {"awaiting"})
        /\ \A c \in run[m].found : Has(c, Live \ {"queued"})
Over(m) ==
    /\ Idle(Obj(m)) /\ task[Obj(m)].completed = run[m].found
    /\ \A c \in run[m].found : Has(c, Terminal)

Turn(m) ==
    \/ run[m].pc \in {"answer", "answered"} /\ run[m].found = {} /\ Collecting(m)
    \/ run[m].pc \in {"stream", "streamed"} /\ Collecting(m)
    \/ run[m].pc \in {"scheduling", "waiting"} /\ Busy(m)
    \/ run[m].pc \in {"scheduling", "woken"} /\ Over(m)

\* An execution that does not hold the loop has no calls of its own.
Calm(m) ==
    /\ ~run[m].aborted /\ run[m].outcome # "badEdit"
    /\ Main(m) => executing /\ Turn(m)
    /\ ~Main(m) => /\ run[m].found = {}
                   /\ run[m].pc \in {"idle", "making", "made", "answer", "answered", "stream"}

CalmRuns == \A m \in Slot : Calm(m)
OneLoop == \A m, n \in Slot : Main(m) /\ Main(n) => m = n
CallsSettle == \A c \in ToolCall : ~call[c].hung /\ ~Has(c, {"lost"})
CallsAreSought ==
    \A c \in ToolCall : Has(c, Live) => \E m \in Slot : Main(m) /\ c \in run[m].found
OthersAreEmpty ==
    \A o \in Slot : (\A m \in Slot : Main(m) => Obj(m) # o) => Empty(o)

InTurn == CalmRuns /\ OneLoop /\ CallsSettle /\ CallsAreSought /\ OthersAreEmpty
TurnInv == Undisturbed => InTurn

\* What a step leaves alone.
SameTask(o) ==
    /\ task'[o].list = task[o].list /\ task'[o].pending = task[o].pending
    /\ task'[o].asked = task[o].asked /\ task'[o].queue = task[o].queue
    /\ task'[o].completed = task[o].completed
SameCall(c) ==
    /\ ~call'[c].hung
    /\ \/ call'[c].status = call[c].status
       \/ call[c].status = "none" /\ call'[c].status = "dropped"

LEMMA TurnKept ==
    ASSUME TypeInv, NEW m \in Slot, run'[m] = run[m], SameTask(Obj(m)),
           \A c \in ToolCall : SameCall(c), Turn(m)
    PROVE  Turn(m)'
<1>1. Obj(m)' = Obj(m) /\ run[m].found \subseteq ToolCall
  BY DEF Obj, TypeInv, TypeOK, Run
<1>2. Collecting(m) => Collecting(m)'
  BY <1>1 DEF Collecting, Empty, Idle, Has, SameTask, SameCall
<1>3. Busy(m) => Busy(m)'
  BY <1>1 DEF Busy, Live, Terminal, Has, SameTask, SameCall
<1>4. Over(m) => Over(m)'
  BY <1>1 DEF Over, Idle, Terminal, Has, SameTask, SameCall
<1> QED BY <1>2, <1>3, <1>4 DEF Turn

\* A step of an execution that does not hold the loop.
LEMMA Aside ==
    ASSUME TypeInv, InTurn, NEW m \in Slot, ~Main(m), NEW r \in Run,
           run' = [run EXCEPT ![m] = r],
           ~r.main, ~r.aborted, r.outcome # "badEdit", r.found = {},
           r.pc \in {"idle", "making", "made", "answer", "answered", "stream"},
           executing' = executing, \A o \in Slot : SameTask(o),
           \A c \in ToolCall : SameCall(c)
    PROVE  InTurn'
<1>1. run'[m] = r /\ \A n \in Slot \ {m} : run'[n] = run[n]
  BY DEF TypeInv, TypeOK
<1>2. ~Main(m)' /\ \A n \in Slot \ {m} : (Main(n)' <=> Main(n)) /\ Obj(n)' = Obj(n)
  BY <1>1 DEF Main, Obj
<1>3. \A n \in Slot : Main(n) => Obj(n) \in Slot
  BY DEF InTurn, CalmRuns, Calm, Turn, TypeInv, ObjectsExist, At
<1>4. CalmRuns'
  <2>1. Calm(m)'
    BY <1>1, <1>2 DEF Calm
  <2>2. ASSUME NEW n \in Slot \ {m}
        PROVE  Calm(n)'
    <3>1. Calm(n)
      BY DEF InTurn, CalmRuns
    <3>2. Main(n) => Turn(n)'
      BY <1>1, <1>3, <3>1, TurnKept DEF Calm
    <3> QED BY <1>1, <1>2, <3>1, <3>2 DEF Calm
  <2> QED BY <2>1, <2>2 DEF CalmRuns
<1>5. OneLoop'
  BY <1>2 DEF InTurn, OneLoop
<1>6. CallsSettle'
  BY DEF InTurn, CallsSettle, SameCall, Has
<1>7. CallsAreSought'
  <2>1. \A c \in ToolCall : Has(c, Live)' => Has(c, Live)
    BY DEF SameCall, Has, Live
  <2> QED BY <1>1, <1>2, <2>1 DEF InTurn, CallsAreSought
<1>8. OthersAreEmpty'
  BY <1>2 DEF InTurn, OthersAreEmpty, Empty, Idle, SameTask
<1> QED BY <1>4, <1>5, <1>6, <1>7, <1>8 DEF InTurn

\* A step of the execution that holds the loop.
LEMMA Ahead ==
    ASSUME TypeInv, InTurn, NEW m \in Slot, Main(m), NEW r \in Run,
           run' = [run EXCEPT ![m] = r],
           r.main, ~r.aborted, r.outcome # "badEdit", r.obj = Obj(m),
           Turn(m)', executing' = executing,
           \A o \in Slot \ {Obj(m)} : SameTask(o),
           \A c \in ToolCall : ~call'[c].hung /\ call'[c].status # "lost",
           \A c \in ToolCall : Has(c, Live)' => c \in r.found
    PROVE  InTurn'
<1>1. run'[m] = r /\ \A n \in Slot \ {m} : run'[n] = run[n]
  BY DEF TypeInv, TypeOK
<1>2. Main(m)' /\ Obj(m)' = Obj(m) /\ \A n \in Slot \ {m} : ~Main(n) /\ ~Main(n)'
  BY <1>1 DEF Main, Obj, InTurn, OneLoop
<1>3. CalmRuns'
  <2>1. Calm(m)'
    BY <1>1, <1>2 DEF Calm, InTurn, CalmRuns
  <2>2. \A n \in Slot \ {m} : Calm(n)'
    BY <1>1, <1>2 DEF Calm, InTurn, CalmRuns
  <2> QED BY <2>1, <2>2 DEF CalmRuns
<1>4. OneLoop'
  BY <1>2 DEF OneLoop
<1>5. CallsSettle'
  BY DEF CallsSettle, Has
<1>6. CallsAreSought'
  BY <1>1, <1>2 DEF CallsAreSought
<1>7. OthersAreEmpty'
  BY <1>2 DEF InTurn, OthersAreEmpty, Empty, Idle, SameTask
<1> QED BY <1>3, <1>4, <1>5, <1>6, <1>7 DEF InTurn

\* What the invariant says of one execution.
LEMMA MainTurn ==
    ASSUME TypeInv, InTurn, NEW m \in Slot
    PROVE  /\ run[m] \in Run /\ run[m].found \subseteq ToolCall
           /\ ~run[m].aborted /\ run[m].outcome # "badEdit"
           /\ Main(m) => executing /\ Turn(m) /\ Obj(m) \in Slot
                            /\ \A c \in ToolCall : Has(c, Live) => c \in run[m].found
           /\ ~Main(m) => /\ run[m].found = {}
                          /\ run[m].pc \in {"idle", "making", "made", "answer", "answered",
                                            "stream"}
BY DEF TypeInv, TypeOK, ObjectsExist, At, Run, InTurn, CalmRuns, Calm, Turn,
       CallsAreSought, OneLoop

\* A main execution that answers or streams has a clean object.
LEMMA EarlyTurn ==
    ASSUME TypeInv, InTurn, NEW m \in Slot, Main(m),
           run[m].pc \in {"answer", "answered", "stream", "streamed"}
    PROVE  /\ Collecting(m)
           /\ run[m].pc \in {"answer", "answered"} => run[m].found = {}
BY MainTurn DEF Turn

LEMMA StillSame ==
    ASSUME UNCHANGED task
    PROVE  \A o \in Slot : SameTask(o)
BY DEF SameTask

LEMMA StillSameCalls ==
    ASSUME TypeInv, InTurn, UNCHANGED call
    PROVE  /\ \A c \in ToolCall : SameCall(c)
           /\ \A c \in ToolCall : ~call'[c].hung /\ call'[c].status # "lost"
BY DEF SameCall, InTurn, CallsSettle, Has

LEMMA MessageTurn ==
    ASSUME TypeInv, InTurn, Undisturbed, NEW m \in Slot, Message(m)
    PROVE  InTurn'
<1>1. PICK c \in ToolCall \cup {None}, outcome \in {"proceed", "cancel", "badEdit"},
           text \in BOOLEAN : Arrive(m, c, outcome, text)
  BY DEF Message
<1> DEFINE r == [NoRun EXCEPT
          !.pc = IF cached = None THEN "making" ELSE "made",
          !.obj = cached, !.call = c, !.outcome = outcome, !.text = text]
<1>2. run' = [run EXCEPT ![m] = r]
  BY <1>1 DEF Arrive
<1>3. r \in Run
  BY DEF TypeInv, TypeOK, NoRun, Run, Pc
<1>4. outcome # "badEdit"
  BY <1>1 DEF Arrive, May, Undisturbed
<1>5. ~r.main /\ ~r.aborted /\ r.outcome # "badEdit" /\ r.found = {}
      /\ r.pc \in {"making", "made"}
  BY <1>4 DEF NoRun
<1>6. ~Main(m)
  BY <1>1, MainTurn DEF Arrive, At, Turn
<1>7. UNCHANGED <<task, call, executing>>
  BY <1>1 DEF Arrive
<1> HIDE DEF r
<1> QED BY <1>2, <1>3, <1>5, <1>6, <1>7, StillSame, StillSameCalls, Aside

\* What ends an execution that does not hold the loop.
LEMMA AsideEnds ==
    ASSUME TypeInv, InTurn, NEW m \in Slot, ~Main(m), run' = [run EXCEPT ![m] = NoRun],
           executing' = executing, \A o \in Slot : SameTask(o),
           \A c \in ToolCall : SameCall(c)
    PROVE  InTurn'
<1>1. NoRun \in Run
  BY NoRunType
<1>2. /\ ~NoRun.main /\ ~NoRun.aborted /\ NoRun.outcome # "badEdit" /\ NoRun.found = {}
      /\ NoRun.pc = "idle"
  BY DEF NoRun
<1> QED BY <1>1, <1>2, Aside

LEMMA MakeTurn ==
    ASSUME TypeInv, InTurn, Undisturbed, NEW m \in Slot, Make(m)
    PROVE  InTurn'
<1> DEFINE r == [[run[m] EXCEPT !.pc = "made"] EXCEPT !.obj = m]
<1>1. run[m] \in Run /\ run \in [Slot -> Run] /\ task \in [Slot -> Task]
  BY DEF TypeInv, TypeOK
<1>2. ~Main(m) /\ run[m].found = {} /\ ~run[m].aborted /\ run[m].outcome # "badEdit"
  BY MainTurn DEF Make, At, Turn
<1>3. run' = [run EXCEPT ![m].pc = "made", ![m].obj = m]
  BY DEF Make
<1>4. /\ run'[m].pc = "made" /\ ~run'[m].main /\ ~run'[m].aborted
      /\ run'[m].outcome # "badEdit" /\ run'[m].found = {}
      /\ \A n \in Slot \ {m} : run'[n] = run[n]
  BY <1>1, <1>2, <1>3 DEF Main, Run
<1>5. UNCHANGED <<executing, call>> /\ \A n \in Slot : Obj(n) # m
  BY DEF Make, Holds
<1>6. task' = [task EXCEPT ![m] = NewTask(Restored(store))]
  BY DEF Make
<1>7. \A o \in Slot \ {m} : SameTask(o)
  BY <1>1, <1>6 DEF SameTask
<1>8. Empty(m)'
  BY <1>1, <1>6 DEF Empty, Idle, NewTask
<1>9. \A c \in ToolCall : SameCall(c)
  BY <1>5, StillSameCalls
<1>10. ~Main(m)' /\ \A n \in Slot \ {m} : (Main(n)' <=> Main(n)) /\ Obj(n)' = Obj(n)
  BY <1>4 DEF Main, Obj
<1>11. CalmRuns'
  <2>1. Calm(m)'
    BY <1>4, <1>10 DEF Calm
  <2>2. ASSUME NEW n \in Slot \ {m}
        PROVE  Calm(n)'
    <3>1. Calm(n)
      BY DEF InTurn, CalmRuns
    <3>2. Main(n) => Turn(n)'
      BY <1>4, <1>5, <1>7, <1>9, <3>1, MainTurn, TurnKept DEF Calm
    <3> QED BY <1>4, <1>5, <1>10, <3>1, <3>2 DEF Calm
  <2> QED BY <2>1, <2>2 DEF CalmRuns
<1>12. OneLoop' /\ CallsSettle'
  BY <1>5, <1>10 DEF InTurn, OneLoop, CallsSettle, Has
<1>13. CallsAreSought'
  <2>1. ASSUME NEW c \in ToolCall, Has(c, Live)'
        PROVE  \E n \in Slot : Main(n)' /\ c \in run'[n].found
    <3>1. Has(c, Live)
      BY <1>5, <2>1 DEF Has, Live
    <3>2. PICK n \in Slot : Main(n) /\ c \in run[n].found
      BY <3>1 DEF InTurn, CallsAreSought
    <3> QED BY <1>2, <1>4, <1>10, <3>2
  <2> QED BY <2>1 DEF CallsAreSought
<1>14. OthersAreEmpty'
  <2>1. ASSUME NEW o \in Slot \ {m}, \A n \in Slot : Main(n)' => Obj(n)' # o
        PROVE  Empty(o)'
    <3>1. Empty(o)
      BY <1>2, <1>10, <2>1 DEF InTurn, OthersAreEmpty
    <3> QED BY <1>7, <3>1 DEF Empty, Idle, SameTask
  <2> QED BY <1>8, <2>1 DEF OthersAreEmpty
<1> QED BY <1>11, <1>12, <1>13, <1>14 DEF InTurn

LEMMA StartTurn ==
    ASSUME TypeInv, InTurn, NEW m \in Slot, Start(m)
    PROVE  InTurn'
<1>1. run \in [Slot -> Run] /\ Obj(m) \in Slot
  BY DEF Start, At, TypeInv, TypeOK, ObjectsExist
<1>2. ~Main(m) /\ run[m].found = {} /\ ~run[m].aborted /\ run[m].outcome # "badEdit"
  BY MainTurn DEF Start, At, Turn
<1> DEFINE r == [[run[m] EXCEPT !.pc = "answer"] EXCEPT !.main = ~executing]
<1>3. run' = [run EXCEPT ![m].pc = "answer", ![m].main = ~executing]
  BY DEF Start
<1>4. /\ run' = [run EXCEPT ![m] = r] /\ r \in Run
      /\ r.pc = "answer" /\ r.main = (~executing) /\ ~r.aborted
      /\ r.outcome # "badEdit" /\ r.found = {} /\ r.obj = Obj(m)
  <2>1. [run[m] EXCEPT !.pc = "answer"] \in Run
    BY <1>1 DEF Run, Pc
  <2>2. (~executing) \in BOOLEAN
    BY DEF TypeInv, TypeOK
  <2>3. r \in Run
    BY <2>1, <2>2 DEF Run
  <2>4. run' = [run EXCEPT ![m] = r]
    BY <1>1, <1>3
  <2> QED BY <1>1, <1>2, <2>1, <2>3, <2>4 DEF Run, Obj
<1>5. UNCHANGED <<task, call>> /\ executing'
  BY DEF Start
<1> HIDE DEF r
<1>6. CASE executing
  BY <1>2, <1>4, <1>5, <1>6, StillSame, StillSameCalls, Aside DEF TypeInv, TypeOK
<1>7. CASE ~executing
  <2>1. \A n \in Slot : ~Main(n)
    BY <1>7, MainTurn
  <2>2. /\ run'[m] = r /\ \A n \in Slot \ {m} : run'[n] = run[n]
    BY <1>1, <1>4
  <2>3. Main(m)' /\ Obj(m)' = Obj(m) /\ \A n \in Slot \ {m} : ~Main(n)'
    BY <1>4, <1>7, <2>1, <2>2 DEF Main, Obj
  <2>4. Empty(Obj(m))
    BY <1>1, <2>1 DEF InTurn, OthersAreEmpty
  <2>5. Turn(m)'
    BY <1>4, <1>5, <2>2, <2>3, <2>4 DEF Turn, Collecting, Empty, Idle
  <2>6. CalmRuns'
    <3>1. Calm(m)'
      BY <1>4, <1>5, <2>2, <2>3, <2>5 DEF Calm
    <3>2. \A n \in Slot \ {m} : Calm(n)'
      BY <2>1, <2>2, <2>3 DEF Calm, InTurn, CalmRuns
    <3> QED BY <3>1, <3>2 DEF CalmRuns
  <2>7. OneLoop' /\ CallsSettle'
    BY <1>5, <2>3 DEF InTurn, OneLoop, CallsSettle, Has
  <2>8. CallsAreSought'
    BY <1>5, <2>1 DEF InTurn, CallsAreSought, Has
  <2>9. OthersAreEmpty'
    BY <1>5, <2>1 DEF InTurn, OthersAreEmpty, Empty, Idle
  <2> QED BY <2>6, <2>7, <2>8, <2>9 DEF InTurn
<1> QED BY <1>6, <1>7

LEMMA NoAnswerTurn ==
    ASSUME TypeInv, InTurn, NEW m \in Slot, NoAnswer(m)
    PROVE  InTurn'
<1> DEFINE r == [[run[m] EXCEPT !.pc = "answered"] EXCEPT !.call = None]
<1>1. run \in [Slot -> Run] /\ run[m] \in Run
  BY DEF TypeInv, TypeOK
<1>2. run' = [Answered(m) EXCEPT ![m].call = None] /\ UNCHANGED <<task, call, executing>>
  BY DEF NoAnswer
<1>3. run' = [run EXCEPT ![m] = r]
  BY <1>1, <1>2 DEF Answered
<1>4. /\ r \in Run /\ r.pc = "answered" /\ r.main = run[m].main /\ r.obj = run[m].obj
      /\ r.found = run[m].found /\ r.aborted = run[m].aborted
      /\ r.outcome = run[m].outcome
  <2>1. [run[m] EXCEPT !.pc = "answered"] \in Run
    BY <1>1 DEF Run, Pc
  <2> QED BY <2>1 DEF Run
<1>5. run'[m] = r
  BY <1>1, <1>3
<1> HIDE DEF r
<1>6. run[m].pc = "answer"
  BY DEF NoAnswer, At
<1>7. CASE ~Main(m)
  BY <1>2, <1>3, <1>4, <1>7, MainTurn, StillSame, StillSameCalls, Aside DEF Main
<1>8. CASE Main(m)
  <2>1. Collecting(m) /\ run[m].found = {}
    BY <1>6, <1>8, EarlyTurn
  <2>2. Turn(m)'
    BY <1>2, <1>4, <1>5, <2>1 DEF Turn, Collecting, Empty, Idle, Obj, Has
  <2>3. \A c \in ToolCall : Has(c, Live)' => c \in r.found
    BY <1>2, <1>4, <1>8, MainTurn DEF Has
  <2> QED BY <1>2, <1>3, <1>4, <1>8, <2>2, <2>3, MainTurn, StillSame, StillSameCalls,
             Ahead DEF Main, Obj
<1> QED BY <1>7, <1>8

LEMMA SayTurn ==
    ASSUME TypeInv, InTurn, NEW m \in Slot, Say(m)
    PROVE  InTurn'
<1>1. run \in [Slot -> Run] /\ run[m] \in Run /\ task \in [Slot -> Task]
  BY DEF TypeInv, TypeOK
<1>2. run[m].pc = "answered" /\ UNCHANGED <<call, executing>>
  BY DEF Say, At
<1>3. \A o \in Slot : SameTask(o)
  <2>1. task' = task \/ task' = Works(Obj(m))
    BY DEF Say
  <2>2. task'= Works(Obj(m)) => \A o \in Slot : SameTask(o)
    BY <1>1 DEF Works, SameTask, Task
  <2> QED BY <2>1, <2>2, StillSame
<1>4. run' = [run EXCEPT ![m] = IF run[m].text THEN Read(m, "stream")
                  ELSE IF run[m].main THEN Read(m, "streamed") ELSE NoRun]
  BY DEF Say
<1>5. CASE run' = [run EXCEPT ![m] = NoRun] /\ ~Main(m)
  BY <1>2, <1>3, <1>5, StillSameCalls, AsideEnds
<1>6. ASSUME NEW pc \in {"stream", "streamed"}, pc = "streamed" => Main(m),
             run' = [run EXCEPT ![m] = Read(m, pc)]
      PROVE  InTurn'
  <2> DEFINE r == Read(m, pc)
  <2>2. /\ r \in Run /\ r.pc = pc /\ r.main = run[m].main /\ r.obj = run[m].obj
        /\ r.found = run[m].found /\ r.aborted = run[m].aborted
        /\ r.outcome = "proceed"
    BY <1>1 DEF Read, Run, Pc
  <2>3. run' = [run EXCEPT ![m] = r] /\ run'[m] = r
    BY <1>1, <1>6
  <2> HIDE DEF r
  <2>4. CASE ~Main(m)
    BY <1>2, <1>3, <1>6, <2>2, <2>3, <2>4, MainTurn, StillSameCalls, Aside DEF Main
  <2>5. CASE Main(m)
    <3>1. Collecting(m) /\ run[m].found = {} /\ Obj(m) \in Slot
      BY <1>2, <2>5, EarlyTurn, MainTurn
    <3>2. Turn(m)'
      BY <1>2, <1>3, <1>6, <2>2, <2>3, <3>1
         DEF Turn, Collecting, Empty, Idle, Obj, Has, SameTask
    <3>3. \A c \in ToolCall : Has(c, Live)' => c \in r.found
      BY <1>2, <2>2, <2>5, MainTurn DEF Has
    <3> QED BY <1>2, <1>3, <2>2, <2>3, <2>5, <3>2, <3>3, MainTurn, StillSameCalls,
               Ahead DEF Main, Obj
  <2> QED BY <2>4, <2>5
<1> QED BY <1>4, <1>5, <1>6 DEF Main

LEMMA StreamRequestsTurn ==
    ASSUME TypeInv, InTurn, NEW m \in Slot, StreamRequests(m)
    PROVE  InTurn'
<1> DEFINE c == CHOOSE d \in Fresh : TRUE
           r == [run[m] EXCEPT !.found = @ \cup {c}]
<1>1. c \in ToolCall /\ call[c].status = "none"
  BY DEF StreamRequests, Fresh, Has
<1>2. call' = [call EXCEPT ![c] = [NoCall EXCEPT
          !.status = IF run[m].main THEN "queued" ELSE "dropped", !.by = m]]
  BY DEF StreamRequests
<1>3. run' = IF run[m].main THEN [run EXCEPT ![m].found = @ \cup {c}] ELSE run
  BY DEF StreamRequests
<1>4. run[m].pc = "stream" /\ UNCHANGED <<task, executing>>
  BY DEF StreamRequests, At
<1> HIDE DEF c
<1>5. run \in [Slot -> Run] /\ run[m] \in Run /\ call \in [ToolCall -> Call]
  BY DEF TypeInv, TypeOK
<1>6. /\ call'[c].status = IF run[m].main THEN "queued" ELSE "dropped"
      /\ ~call'[c].hung
      /\ \A d \in ToolCall \ {c} : call'[d] = call[d]
  BY <1>1, <1>2, <1>5 DEF NoCall
<1>7. \A d \in ToolCall : ~call[d].hung /\ call[d].status # "lost"
  BY DEF InTurn, CallsSettle, Has
<1>8. CASE ~Main(m)
  <2>1. \A d \in ToolCall : SameCall(d)
    BY <1>1, <1>6, <1>7, <1>8 DEF Main, SameCall
  <2>2. run' = [run EXCEPT ![m] = run[m]]
    BY <1>3, <1>5, <1>8 DEF Main
  <2> QED BY <1>4, <1>5, <1>8, <2>1, <2>2, MainTurn, StillSame, Aside DEF Main
<1>9. CASE Main(m)
  <2>1. /\ run' = [run EXCEPT ![m] = r] /\ r \in Run /\ r.pc = "stream" /\ r.main
        /\ r.obj = run[m].obj /\ r.found = run[m].found \cup {c}
        /\ r.aborted = run[m].aborted /\ r.outcome = run[m].outcome
    BY <1>1, <1>3, <1>4, <1>5, <1>9 DEF Main, Run
  <2>2. run'[m] = r
    BY <1>5, <2>1
  <2> HIDE DEF r
  <2>3. Collecting(m)
    BY <1>4, <1>9, EarlyTurn
  <2>4. Turn(m)'
    BY <1>1, <1>4, <1>5, <1>6, <1>9, <2>1, <2>2, <2>3
       DEF Turn, Collecting, Empty, Idle, Obj, Has, Main, Run
  <2>5. \A d \in ToolCall : ~call'[d].hung /\ call'[d].status # "lost"
    BY <1>6, <1>7, <1>9 DEF Main
  <2>6. \A d \in ToolCall : Has(d, Live)' => d \in r.found
    BY <1>6, <1>9, <2>1, MainTurn DEF Has
  <2> QED BY <1>4, <1>9, <2>1, <2>4, <2>5, <2>6, MainTurn, StillSame, Ahead DEF Obj
<1> QED BY <1>8, <1>9

LEMMA StreamEndsTurn ==
    ASSUME TypeInv, InTurn, NEW m \in Slot, StreamEnds(m)
    PROVE  InTurn'
<1>1. run \in [Slot -> Run] /\ run[m] \in Run
  BY DEF TypeInv, TypeOK
<1>2. run[m].pc = "stream" /\ UNCHANGED <<task, call, executing>>
  BY DEF StreamEnds, At
<1>3. CASE ~Main(m)
  <2>1. run' = [run EXCEPT ![m] = NoRun]
    BY <1>3 DEF StreamEnds, Main
  <2> QED BY <1>2, <1>3, <2>1, StillSame, StillSameCalls, AsideEnds
<1>4. CASE Main(m)
  <2> DEFINE r == [run[m] EXCEPT !.pc = "streamed"]
  <2>1. run' = [run EXCEPT ![m] = r]
    BY <1>4 DEF StreamEnds, Main
  <2>2. /\ r \in Run /\ r.pc = "streamed" /\ r.main /\ r.obj = run[m].obj
        /\ r.found = run[m].found
        /\ r.aborted = run[m].aborted /\ r.outcome = run[m].outcome
    BY <1>1, <1>4 DEF Main, Run, Pc
  <2>3. run'[m] = r
    BY <1>1, <2>1
  <2> HIDE DEF r
  <2>4. Collecting(m)
    BY <1>2, <1>4, EarlyTurn
  <2>5. Turn(m)'
    BY <1>2, <2>2, <2>3, <2>4 DEF Turn, Collecting, Empty, Idle, Obj, Has
  <2>6. \A c \in ToolCall : Has(c, Live)' => c \in r.found
    BY <1>2, <1>4, <2>2, MainTurn DEF Has
  <2> QED BY <1>2, <1>4, <2>1, <2>2, <2>5, <2>6, MainTurn, StillSame, StillSameCalls,
             Ahead DEF Obj
<1> QED BY <1>3, <1>4

LEMMA ScheduleTurn ==
    ASSUME TypeInv, InTurn, NEW m \in Slot, ScheduleToolCalls(m)
    PROVE  InTurn'
<1> DEFINE o == Obj(m)
           found == run[m].found
           r == [run[m] EXCEPT !.pc = "scheduling"]
<1>1. run \in [Slot -> Run] /\ run[m] \in Run /\ task \in [Slot -> Task]
      /\ call \in [ToolCall -> Call]
  BY DEF TypeInv, TypeOK
<1>2. /\ run[m].pc = "streamed" /\ found # {}
      /\ run' = [run EXCEPT ![m].pc = "scheduling"] /\ executing' = executing
  BY DEF ScheduleToolCalls, At
<1>3. Main(m) /\ o \in Slot /\ found \subseteq ToolCall
  BY <1>2, MainTurn
<1>4. Collecting(m)
  BY <1>2, <1>3, EarlyTurn
<1>5. ~IsRunning(o)
  BY <1>4 DEF IsRunning, Collecting, Empty, Idle
<1>6. /\ task' = [Works(o) EXCEPT ![o].list = @ \cup found, ![o].pending = @ \cup found]
      /\ call' = [c \in ToolCall |-> IF c \in found
             THEN [call[c] EXCEPT !.status = "validating"] ELSE call[c]]
  BY <1>5 DEF ScheduleToolCalls
<1>7. Works(o) \in [Slot -> Task]
  BY <1>3, WorksType DEF TypeInv
<1>8. /\ Works(o)[o].list = {} /\ Works(o)[o].pending = {} /\ Works(o)[o].asked = {}
      /\ Works(o)[o].queue = <<>> /\ Works(o)[o].completed = {}
      /\ \A p \in Slot \ {o} : Works(o)[p] = task[p]
  BY <1>1, <1>3, <1>4 DEF Works, Task, Collecting, Empty, Idle
<1>9. /\ task'[o].list = found /\ task'[o].pending = found /\ task'[o].asked = {}
      /\ task'[o].queue = <<>> /\ task'[o].completed = {}
      /\ \A p \in Slot \ {o} : task'[p] = task[p]
  <2> DEFINE w == [Works(o) EXCEPT ![o].list = @ \cup found]
  <2>1. /\ w \in [Slot -> Task]
        /\ w[o].list = found /\ w[o].pending = {} /\ w[o].asked = {}
        /\ w[o].queue = <<>> /\ w[o].completed = {}
        /\ \A p \in Slot \ {o} : w[p] = Works(o)[p]
    BY <1>3, <1>7, <1>8 DEF Task
  <2>2. task' = [w EXCEPT ![o].pending = Works(o)[o].pending \cup found]
    BY <1>3, <1>6, <1>7, <2>1
  <2> HIDE DEF w
  <2> QED BY <1>3, <1>8, <2>1, <2>2 DEF Task
<1>10. /\ run' = [run EXCEPT ![m] = r] /\ r \in Run /\ r.pc = "scheduling" /\ r.main
       /\ r.obj = o /\ r.found = found
       /\ r.aborted = run[m].aborted /\ r.outcome = run[m].outcome
  BY <1>1, <1>2, <1>3 DEF Run, Pc, Main, Obj
<1>11. run'[m] = r
  BY <1>1, <1>10
<1> HIDE DEF r
<1>12. /\ \A c \in found : call'[c].status = "validating"
       /\ \A c \in ToolCall \ found : call'[c] = call[c]
       /\ \A c \in ToolCall : call'[c].hung = call[c].hung
  BY <1>1, <1>3, <1>6 DEF Call
<1>13. Busy(m)'
  BY <1>2, <1>9, <1>10, <1>11, <1>12 DEF Busy, Obj, Has, Live, Terminal
<1>14. Turn(m)'
  BY <1>10, <1>11, <1>13 DEF Turn
<1>15. \A p \in Slot \ {o} : SameTask(p)
  BY <1>9 DEF SameTask
<1>16. \A c \in ToolCall : ~call'[c].hung /\ call'[c].status # "lost"
  BY <1>12 DEF InTurn, CallsSettle, Has
<1>17. \A c \in ToolCall : Has(c, Live)' => c \in found
  BY <1>3, <1>12, MainTurn DEF Has
<1> QED BY <1>2, <1>3, <1>10, <1>14, <1>15, <1>16, <1>17, MainTurn, Ahead

LEMMA WaitTurn ==
    ASSUME TypeInv, InTurn, NEW m \in Slot, WaitForPendingTools(m)
    PROVE  InTurn'
<1> DEFINE pc == IF task[Obj(m)].pending = {} THEN "woken" ELSE "waiting"
           r == [run[m] EXCEPT !.pc = pc]
<1>1. run \in [Slot -> Run] /\ run[m] \in Run
  BY DEF TypeInv, TypeOK
<1>2. /\ UNCHANGED <<task, call, executing>> /\ run' = [run EXCEPT ![m].pc = pc]
      /\ \/ run[m].pc = "streamed" /\ run[m].found = {}
         \/ run[m].pc = "scheduling"
  BY DEF WaitForPendingTools, At
<1>3. Main(m) /\ Turn(m)
  BY <1>2, MainTurn
<1>4. /\ run' = [run EXCEPT ![m] = r] /\ r \in Run /\ r.pc = pc /\ r.main
      /\ r.obj = Obj(m) /\ r.found = run[m].found
      /\ r.aborted = run[m].aborted /\ r.outcome = run[m].outcome
  BY <1>1, <1>2, <1>3 DEF Run, Pc, Main, Obj
<1>5. run'[m] = r
  BY <1>1, <1>4
<1> HIDE DEF r
<1>6. \/ pc = "woken" /\ Over(m)
      \/ pc = "waiting" /\ Busy(m)
  <2>1. CASE run[m].pc = "streamed"
    <3>1. Collecting(m)
      BY <1>3, <2>1, EarlyTurn
    <3> QED BY <1>2, <2>1, <3>1 DEF Collecting, Over, Empty, Idle
  <2>2. CASE run[m].pc = "scheduling"
    <3>1. Busy(m) \/ Over(m)
      BY <1>3, <2>2 DEF Turn
    <3> QED BY <3>1 DEF Busy, Over, Idle
  <2> QED BY <1>2, <2>1, <2>2
<1>7. /\ Over(m) => Over(m)'
      /\ Busy(m) => Busy(m)'
  BY <1>2, <1>4, <1>5 DEF Over, Busy, Idle, Obj, Has
<1>8. Turn(m)'
  BY <1>4, <1>5, <1>6, <1>7 DEF Turn
<1>9. \A c \in ToolCall : Has(c, Live)' => c \in r.found
  BY <1>2, <1>3, <1>4, MainTurn DEF Has
<1> QED BY <1>2, <1>3, <1>4, <1>8, <1>9, MainTurn, StillSame, StillSameCalls, Ahead

LEMMA OverTurn ==
    ASSUME TypeInv, InTurn, NEW m \in Slot, run[m].pc = "woken"
    PROVE  /\ Main(m) /\ Obj(m) \in Slot /\ Over(m)
           /\ \A c \in ToolCall : c \notin run[m].found => ~Has(c, Live)
           /\ \A c \in run[m].found : HandedOver(m)[c].status = "answered"
           /\ \A c \in ToolCall \ run[m].found : HandedOver(m)[c] = call[c]
           /\ \A c \in ToolCall : ~HandedOver(m)[c].hung
<1>1. Main(m)
  BY MainTurn
<1>2. Over(m) /\ Obj(m) \in Slot
  BY <1>1, MainTurn DEF Turn
<1>3. run[m].found \subseteq ToolCall /\ Completed(m) = run[m].found
  BY <1>2, MainTurn DEF Over, Completed
<1>4. [NoCall EXCEPT !.status = "answered"].status = "answered"
      /\ ~[NoCall EXCEPT !.status = "answered"].hung
  BY DEF NoCall
<1>5. \A c \in ToolCall : ~call[c].hung
  BY DEF InTurn, CallsSettle
<1> QED BY <1>1, <1>2, <1>3, <1>4, <1>5, MainTurn DEF HandedOver

LEMMA SendTurn ==
    ASSUME TypeInv, InTurn, NEW m \in Slot, SendCompletedTools(m)
    PROVE  InTurn'
<1> DEFINE o == Obj(m)
           r == [[run[m] EXCEPT !.pc = "stream"] EXCEPT !.found = {}]
<1>1. run \in [Slot -> Run] /\ run[m] \in Run /\ task \in [Slot -> Task]
  BY DEF TypeInv, TypeOK
<1>2. /\ run[m].pc = "woken" /\ executing' = executing /\ call' = HandedOver(m)
      /\ task' = [Works(o) EXCEPT ![o].completed = {}]
      /\ run' = [run EXCEPT ![m].pc = "stream", ![m].found = {}]
  BY DEF SendCompletedTools, At
<1>3. /\ Main(m) /\ o \in Slot /\ Over(m)
      /\ \A c \in ToolCall : c \notin run[m].found => ~Has(c, Live)
      /\ \A c \in run[m].found : call'[c].status = "answered"
      /\ \A c \in ToolCall \ run[m].found : call'[c] = call[c]
      /\ \A c \in ToolCall : ~call'[c].hung
  BY <1>2, OverTurn
<1>4. Works(o) \in [Slot -> Task]
  BY <1>3, WorksType DEF TypeInv
<1>5. /\ Works(o)[o].list = {} /\ Works(o)[o].pending = {} /\ Works(o)[o].asked = {}
      /\ Works(o)[o].queue = <<>>
      /\ \A p \in Slot \ {o} : Works(o)[p] = task[p]
  BY <1>1, <1>3 DEF Works, Task, Over, Idle
<1>6. /\ task'[o].list = {} /\ task'[o].pending = {} /\ task'[o].asked = {}
      /\ task'[o].queue = <<>> /\ task'[o].completed = {}
      /\ \A p \in Slot \ {o} : task'[p] = task[p]
  BY <1>2, <1>3, <1>4, <1>5 DEF Task
<1>7. run' = [run EXCEPT ![m] = r]
  BY <1>1, <1>2
<1>8. /\ r \in Run /\ r.pc = "stream" /\ r.main /\ r.obj = o /\ r.found = {}
      /\ r.aborted = run[m].aborted /\ r.outcome = run[m].outcome
  <2>1. [run[m] EXCEPT !.pc = "stream"] \in Run
    BY <1>1 DEF Run, Pc
  <2> QED BY <1>1, <1>3, <2>1 DEF Run, Main, Obj
<1>9. run'[m] = r
  BY <1>1, <1>7
<1> HIDE DEF r
<1>10. Turn(m)'
  BY <1>6, <1>8, <1>9 DEF Turn, Collecting, Empty, Idle, Obj
<1>11. \A p \in Slot \ {o} : SameTask(p)
  BY <1>6 DEF SameTask
<1>12. \A c \in ToolCall : ~Has(c, Live)'
  BY <1>3 DEF Has, Live
<1>13. \A c \in ToolCall : ~call'[c].hung /\ call'[c].status # "lost"
  BY <1>3 DEF InTurn, CallsSettle, Has
<1> QED BY <1>2, <1>3, <1>7, <1>8, <1>10, <1>11, <1>12, <1>13, MainTurn, Ahead

LEMMA EndTurnTurn ==
    ASSUME TypeInv, InTurn, NEW m \in Slot, EndTurn(m)
    PROVE  InTurn'
<1> DEFINE o == Obj(m)
<1>1. run \in [Slot -> Run] /\ run[m] \in Run /\ task \in [Slot -> Task]
  BY DEF TypeInv, TypeOK
<1>2. /\ run[m].pc = "woken" /\ call' = HandedOver(m)
      /\ task' = [task EXCEPT ![o] = [@ EXCEPT !.completed = {}, !.state = "input-required"]]
      /\ run' = [run EXCEPT ![m] = NoRun]
  BY DEF EndTurn, At
<1>3. /\ Main(m) /\ o \in Slot /\ Over(m)
      /\ \A c \in ToolCall : c \notin run[m].found => ~Has(c, Live)
      /\ \A c \in run[m].found : call'[c].status = "answered"
      /\ \A c \in ToolCall \ run[m].found : call'[c] = call[c]
      /\ \A c \in ToolCall : ~call'[c].hung
  BY <1>2, OverTurn
<1>4. run'[m] = NoRun /\ \A n \in Slot \ {m} : run'[n] = run[n] /\ ~Main(n)
  BY <1>1, <1>2, <1>3 DEF InTurn, OneLoop
<1>5. \A n \in Slot : ~Main(n)'
  BY <1>4 DEF Main, NoRun
<1>6. CalmRuns'
  <2>1. Calm(m)'
    BY <1>4, <1>5 DEF Calm, NoRun
  <2>2. \A n \in Slot \ {m} : Calm(n)'
    BY <1>4, <1>5 DEF Calm, InTurn, CalmRuns
  <2> QED BY <2>1, <2>2 DEF CalmRuns
<1>7. OneLoop'
  BY <1>5 DEF OneLoop
<1>8. CallsSettle'
  BY <1>3 DEF InTurn, CallsSettle, Has
<1>9. CallsAreSought'
  BY <1>3 DEF CallsAreSought, Has, Live
<1>10. OthersAreEmpty'
  <2>1. /\ task'[o].list = {} /\ task'[o].pending = {} /\ task'[o].asked = {}
        /\ task'[o].queue = <<>> /\ task'[o].completed = {}
    BY <1>1, <1>2, <1>3 DEF Over, Idle, Task
  <2>2. \A p \in Slot \ {o} : Empty(p) /\ task'[p] = task[p]
    BY <1>1, <1>2, <1>3, <1>4 DEF InTurn, OthersAreEmpty
  <2>3. ASSUME NEW p \in Slot
        PROVE  Empty(p)'
    <3>1. CASE p = o
      BY <2>1, <3>1 DEF Empty, Idle
    <3>2. CASE p # o
      BY <2>2, <3>2 DEF Empty, Idle
    <3> QED BY <3>1, <3>2
  <2> QED BY <2>3 DEF OthersAreEmpty
<1> QED BY <1>6, <1>7, <1>8, <1>9, <1>10 DEF InTurn

\* A call of the batch of n moves on, and no other execution takes the loop.
Advances(n, c, status, decided, first, runs) ==
    /\ Main(n) /\ Obj(n) \in Slot
    /\ c \in task[Obj(n)].list /\ ~Has(c, Terminal)
    /\ status \in {"awaiting", "scheduled", "success", "cancelled"}
    /\ decided \in {{}, {c}}
    /\ Has(c, {"awaiting"}) => decided = {c}
    /\ status = "awaiting" => decided = {}
    /\ runs \in [Slot -> Run] /\ runs[n] = run[n]
    /\ \A m \in Slot \ {n} :
           /\ ~runs[m].main /\ runs[m].found = {} /\ ~runs[m].aborted
           /\ runs[m].outcome # "badEdit"
           /\ runs[m].pc \in {"idle", "making", "made", "answer", "answered", "stream"}
    /\ Update(Obj(n), Becomes(c, status), first, runs, decided)
    /\ executing' = executing

\* The loop wakes with the whole batch or not at all.
LEMMA UpdateTurn ==
    ASSUME TypeInv, InTurn, NEW n \in Slot, NEW c, NEW status, NEW decided,
           NEW first \in BOOLEAN, NEW runs, Advances(n, c, status, decided, first, runs)
    PROVE  InTurn'
<1> USE DEF Advances
<1> DEFINE o == Obj(n)
           found == run[n].found
           after == Becomes(c, status)
           left == Unresolved(o, after)
           over == Finished(o, after)
<1>1. run \in [Slot -> Run] /\ run[n] \in Run /\ task \in [Slot -> Task]
      /\ call \in [ToolCall -> Call] /\ found \subseteq ToolCall
  BY MainTurn DEF TypeInv, TypeOK
<1>2. run[n].pc \in {"scheduling", "waiting"} /\ Busy(n) /\ executing
  BY MainTurn DEF Turn, Collecting, Over, Empty, Idle
<1>3. c \in found /\ task[o].list = found /\ task[o].queue = <<>> /\ c \in ToolCall
  BY <1>1, <1>2 DEF Busy
<1>4. /\ after[c].status = status /\ after[c].hung = call[c].hung
      /\ \A d \in ToolCall \ {c} : after[d] = call[d]
      /\ after \in [ToolCall -> Call]
      /\ Update(o, after, first, runs, decided)
  BY <1>1, <1>3 DEF Becomes, Call, Status
<1> HIDE DEF after
<1>5. left = {d \in found : after[d].status \notin Terminal}
  BY <1>2, <1>3 DEF Unresolved, Busy
<1>6. over <=> left = {}
  BY <1>3, <1>5 DEF Finished
<1>7. task[o].pending # {} /\ left \subseteq task[o].pending
  BY <1>1, <1>2, <1>3, <1>4, <1>5 DEF Busy, Has
<1>8. ~first
  BY <1>4, <1>7 DEF Update
<1>9. call' = after
  BY <1>3, <1>4 DEF Update
<1>10. /\ task'[o].pending = left
       /\ task'[o].completed = IF over THEN found ELSE {}
       /\ task'[o].list = IF over THEN {} ELSE found
       /\ task'[o].queue = <<>>
       /\ task'[o].asked = (task[o].asked
              \cup {d \in found : after[d].status = "awaiting"}) \ decided
       /\ \A p \in Slot \ {o} : task'[p] = task[p]
  BY <1>1, <1>2, <1>3, <1>4 DEF Update, Collected, Busy
<1>11. run' = IF over THEN Woken(runs, o, "woken") ELSE runs
  BY <1>4, <1>6, <1>7, <1>8 DEF Update
<1>12. \A m \in Slot \ {n} : run'[m] = runs[m]
  BY <1>11 DEF Woken
<1>13. /\ run'[n].main /\ Obj(n)' = o /\ run'[n].found = found
       /\ run'[n].aborted = run[n].aborted /\ run'[n].outcome = run[n].outcome
       /\ run'[n].pc = IF over /\ run[n].pc = "waiting" THEN "woken" ELSE run[n].pc
  BY <1>1, <1>11 DEF Woken, Run, Obj, Main
<1>14. Turn(n)'
  <2>1. CASE over
    <3>1. \A d \in found : after[d].status \in Terminal
      BY <1>5, <1>6, <2>1
    <3>2. task'[o].asked = {}
      <4>1. \A d \in found : after[d].status # "awaiting"
        BY <3>1 DEF Terminal
      <4>2. task[o].asked \subseteq decided
        BY <1>1, <1>2, <1>3, <1>4, <4>1 DEF Busy, Has
      <4> QED BY <1>10, <4>1, <4>2
    <3>3. Over(n)'
      BY <1>6, <1>9, <1>10, <1>13, <2>1, <3>1, <3>2 DEF Over, Idle, Has, Obj
    <3> QED BY <1>2, <1>13, <2>1, <3>3 DEF Turn
  <2>2. CASE ~over
    <3>1. \A d \in task'[o].asked : d \in found /\ after[d].status = "awaiting"
      BY <1>1, <1>2, <1>3, <1>4, <1>10 DEF Busy, Has
    <3>2. \A d \in found : after[d].status \in Live \ {"queued"}
      BY <1>1, <1>2, <1>4 DEF Busy, Has, Live
    <3>3. Busy(n)'
      BY <1>5, <1>6, <1>9, <1>10, <1>13, <2>2, <3>1, <3>2 DEF Busy, Has, Obj
    <3> QED BY <1>2, <1>13, <2>2, <3>3 DEF Turn
  <2> QED BY <2>1, <2>2
<1>15. Main(n)' /\ \A m \in Slot \ {n} : ~Main(m)' /\ ~Main(m)
  BY <1>12, <1>13 DEF Main, InTurn, OneLoop
<1>16. CalmRuns'
  <2>1. Calm(n)'
    BY <1>2, <1>13, <1>14, <1>15, MainTurn DEF Calm
  <2>2. \A m \in Slot \ {n} : Calm(m)'
    BY <1>12, <1>15 DEF Calm
  <2> QED BY <2>1, <2>2 DEF CalmRuns
<1>17. OneLoop'
  BY <1>15 DEF OneLoop
<1>18. CallsSettle'
  BY <1>3, <1>4, <1>9 DEF InTurn, CallsSettle, Has
<1>19. CallsAreSought'
  <2>1. \A d \in ToolCall : Has(d, Live)' => d \in found
    BY <1>3, <1>4, <1>9, MainTurn DEF Has
  <2> QED BY <1>13, <1>15, <2>1 DEF CallsAreSought
<1>20. OthersAreEmpty'
  BY <1>10, <1>13, <1>15 DEF InTurn, OthersAreEmpty, Empty, Idle
<1> QED BY <1>16, <1>17, <1>18, <1>19, <1>20 DEF InTurn

\* Who holds a call in its lists holds the loop.
LEMMA HoldsTheLoop ==
    ASSUME TypeInv, InTurn, NEW o \in Slot, ~Empty(o)
    PROVE  \E n \in Slot : Main(n) /\ Obj(n) = o
BY DEF InTurn, OthersAreEmpty

LEMMA ConfirmTurn ==
    ASSUME TypeInv, InTurn, NEW m \in Slot, Confirm(m)
    PROVE  InTurn'
<1> DEFINE o == Obj(m)
           c == run[m].call
           status == IF run[m].outcome = "cancel" \/ call[c].hung
                     THEN "cancelled" ELSE "scheduled"
<1>1. run[m].pc = "answer" /\ c \in task[o].asked /\ o \in Slot
  BY DEF Confirm, Knows, At, TypeInv, ObjectsExist
<1>2. ~Empty(o)
  BY <1>1 DEF Empty, Idle
<1>3. PICK n \in Slot : Main(n) /\ Obj(n) = o
  BY <1>1, <1>2, HoldsTheLoop
<1>4. Busy(n)
  BY <1>1, <1>3, MainTurn DEF Turn, Collecting, Over, Empty, Idle
<1>5. c \in task[o].list /\ Has(c, {"awaiting"})
  BY <1>1, <1>3, <1>4 DEF Busy
<1>6. ~Has(c, Terminal)
  BY <1>5 DEF Has, Terminal
<1>7. m # n
  BY <1>1, <1>3, <1>4, EarlyTurn DEF Collecting, Empty, Idle, Busy
<1>8. ~Main(m)
  BY <1>3, <1>7 DEF InTurn, OneLoop
<1>9. run \in [Slot -> Run] /\ Answered(m) \in [Slot -> Run]
  BY GoesOnType DEF Answered, TypeInv, TypeOK, Pc
<1>10. /\ Answered(m)[n] = run[n]
       /\ \A p \in Slot \ {n} :
               /\ ~Answered(m)[p].main /\ Answered(m)[p].found = {}
               /\ ~Answered(m)[p].aborted /\ Answered(m)[p].outcome # "badEdit"
               /\ Answered(m)[p].pc \in {"idle", "making", "made", "answer", "answered",
                                         "stream"}
  <2>1. \A p \in Slot \ {m} : Answered(m)[p] = run[p]
    BY <1>9 DEF Answered
  <2>2. /\ Answered(m)[m].pc = "answered" /\ Answered(m)[m].main = run[m].main
        /\ Answered(m)[m].found = run[m].found /\ Answered(m)[m].aborted = run[m].aborted
        /\ Answered(m)[m].outcome = run[m].outcome
    BY <1>9 DEF Answered, Run
  <2>3. \A p \in Slot \ {n} : ~Main(p)
    BY <1>3 DEF InTurn, OneLoop
  <2> QED BY <1>7, <2>1, <2>2, <2>3, MainTurn DEF Main
<1>11. PICK first \in BOOLEAN :
           Update(o, Becomes(c, status), first, Answered(m), {c})
  BY DEF Confirm
<1>12. status \in {"scheduled", "cancelled"} /\ executing' = executing
  BY DEF Confirm
<1>13. Obj(n) \in Slot /\ c \in task[Obj(n)].list
       /\ Update(Obj(n), Becomes(c, status), first, Answered(m), {c})
  BY <1>1, <1>3, <1>5, <1>11
<1> HIDE DEF o, c, status
<1>14. Advances(n, c, status, {c}, first, Answered(m))
  BY <1>3, <1>5, <1>6, <1>9, <1>10, <1>12, <1>13 DEF Advances
<1> QED BY <1>14, UpdateTurn

LEMMA ToolTurn ==
    ASSUME TypeInv, InTurn, NEW c \in ToolCall, ToolIsChecked(c) \/ ToolReturns(c)
    PROVE  InTurn'
<1>1. PICK status \in {"awaiting", "scheduled", "success", "cancelled"} : Moves(c, status)
  BY DEF ToolIsChecked, ToolReturns
<1>2. PICK o \in Slot, first \in BOOLEAN :
           c \in task[o].list /\ Update(o, Becomes(c, status), first, run, {})
  BY <1>1 DEF Moves, Owner
<1>3. PICK n \in Slot : Main(n) /\ Obj(n) = o
  BY <1>2, HoldsTheLoop DEF Empty, Idle
<1>4. ~Has(c, Terminal) /\ ~Has(c, {"awaiting"}) /\ executing' = executing
  BY DEF ToolIsChecked, ToolReturns, Has, Terminal
<1>5. run \in [Slot -> Run]
  BY DEF TypeInv, TypeOK
<1>6. \A p \in Slot \ {n} :
          /\ ~run[p].main /\ run[p].found = {}
          /\ ~run[p].aborted /\ run[p].outcome # "badEdit"
          /\ run[p].pc \in {"idle", "making", "made", "answer", "answered", "stream"}
  <2>1. \A p \in Slot \ {n} : ~Main(p)
    BY <1>3 DEF InTurn, OneLoop
  <2> QED BY <2>1, MainTurn DEF Main
<1>7. Obj(n) \in Slot /\ c \in task[Obj(n)].list
      /\ Update(Obj(n), Becomes(c, status), first, run, {})
  BY <1>2, <1>3
<1>8. Advances(n, c, status, {}, first, run)
  BY <1>3, <1>4, <1>5, <1>6, <1>7 DEF Advances
<1> QED BY <1>8, UpdateTurn

LEMMA TurnStep == TypeInv /\ TurnInv /\ [Next]_vars => TurnInv'
<1> SUFFICES ASSUME TypeInv, TurnInv, [Next]_vars, Undisturbed'
             PROVE  InTurn'
  BY DEF TurnInv
<1>1. world' = world
  <2>1. ASSUME NEW m \in Slot, Execution(m)
        PROVE  world' = world
    BY <2>1 DEF Execution, Make, MakeFails, Ignore, Start, NoAnswer, Confirm, ConfirmThrows,
                Say, StreamErrs, StreamEnds, StreamBreaks, ScheduleToolCalls,
                WaitForPendingTools, SendCompletedTools, EndTurn, Catch
  <2>2. ASSUME NEW m \in Slot, Message(m) \/ StreamRequests(m) \/ Disconnect(m)
        PROVE  world' = world
    BY <2>2 DEF Message, Arrive, StreamRequests, Disconnect
  <2>3. CASE Tools
    BY <2>3 DEF Tools, ToolIsChecked, ToolReturns
  <2>4. CASE \/ \E state \in State : Land(state) \/ SaveFails(state)
             \/ CancelTask \/ Crash \/ UNCHANGED vars
    BY <2>4 DEF Land, SaveFails, CancelTask, Crash, vars
  <2> QED BY <2>1, <2>2, <2>3, <2>4 DEF Next
<1>2. Undisturbed /\ InTurn
  BY <1>1 DEF Undisturbed, TurnInv
<1>3. ~May("broken") /\ ~May("disconnect") /\ ~May("cancel") /\ ~May("crash")
  BY <1>2 DEF Undisturbed, May
<1>4. ASSUME NEW m \in Slot, Execution(m)
      PROVE  InTurn'
  <2>1. CASE Make(m)
    BY <1>2, <2>1, MakeTurn
  <2>2. CASE Ignore(m)
    <3>1. ~Main(m)
      BY <1>2, <2>2, MainTurn DEF Ignore, At, Turn
    <3> QED BY <1>2, <2>2, <3>1, StillSame, StillSameCalls, AsideEnds DEF Ignore
  <2>3. CASE Start(m)
    BY <1>2, <2>3, StartTurn
  <2>4. CASE NoAnswer(m)
    BY <1>2, <2>4, NoAnswerTurn
  <2>5. CASE Confirm(m)
    BY <1>2, <2>5, ConfirmTurn
  <2>6. CASE Say(m)
    BY <1>2, <2>6, SayTurn
  <2>7. CASE StreamEnds(m)
    BY <1>2, <2>7, StreamEndsTurn
  <2>8. CASE ScheduleToolCalls(m)
    BY <1>2, <2>8, ScheduleTurn
  <2>9. CASE WaitForPendingTools(m)
    BY <1>2, <2>9, WaitTurn
  <2>10. CASE SendCompletedTools(m)
    BY <1>2, <2>10, SendTurn
  <2>11. CASE EndTurn(m)
    BY <1>2, <2>11, EndTurnTurn
  <2>12. ~(MakeFails(m) \/ StreamErrs(m) \/ StreamBreaks(m))
    BY <1>3 DEF MakeFails, StreamErrs, StreamBreaks
  <2>13. ~ConfirmThrows(m) /\ ~Catch(m)
    <3>1. run[m].pc # "failing"
      BY <1>2, MainTurn DEF Turn
    <3> QED BY <1>2, <3>1, MainTurn DEF ConfirmThrows, Catch, At
  <2> QED BY <1>4, <2>1, <2>2, <2>3, <2>4, <2>5, <2>6, <2>7, <2>8, <2>9, <2>10, <2>11,
             <2>12, <2>13 DEF Execution
<1>5. ASSUME NEW m \in Slot, Message(m) \/ StreamRequests(m) \/ Disconnect(m)
      PROVE  InTurn'
  BY <1>2, <1>3, <1>5, MessageTurn, StreamRequestsTurn DEF Disconnect
<1>6. CASE Tools
  BY <1>2, <1>6, ToolTurn DEF Tools
<1>7. CASE \/ \E state \in State : Land(state) \/ SaveFails(state)
           \/ UNCHANGED vars
  <2>1. UNCHANGED <<executing, run, task, call>>
    BY <1>7 DEF Land, SaveFails, vars
  <2>2. \A m \in Slot : (Turn(m)' <=> Turn(m)) /\ (Main(m)' <=> Main(m)) /\ Obj(m)' = Obj(m)
    BY <2>1 DEF Turn, Collecting, Busy, Over, Empty, Idle, Main, Obj, Has
  <2>3. CalmRuns'
    BY <1>2, <2>1, <2>2 DEF InTurn, CalmRuns, Calm
  <2>4. OneLoop' /\ CallsSettle' /\ CallsAreSought'
    BY <1>2, <2>1, <2>2 DEF InTurn, OneLoop, CallsSettle, CallsAreSought, Has
  <2>5. OthersAreEmpty'
    BY <1>2, <2>1, <2>2 DEF InTurn, OthersAreEmpty, Empty, Idle
  <2> QED BY <2>3, <2>4, <2>5 DEF InTurn
<1> QED BY <1>3, <1>4, <1>5, <1>6, <1>7 DEF Next, CancelTask, Crash

LEMMA InitTurn == Init => TurnInv
<1> SUFFICES ASSUME Init
             PROVE  InTurn
  BY DEF TurnInv
<1>1. \A m \in Slot : ~Main(m) /\ Calm(m)
  BY DEF Init, NoRun, Main, Calm
<1>2. \A o \in Slot : Empty(o)
  BY DEF Init, NewTask, Empty, Idle
<1>3. \A c \in ToolCall : ~call[c].hung /\ ~Has(c, {"lost"}) /\ ~Has(c, Live)
  BY DEF Init, NoCall, Has, Live
<1> QED BY <1>1, <1>2, <1>3 DEF InTurn, CalmRuns, OneLoop, CallsSettle, CallsAreSought,
                               OthersAreEmpty

\* However messages, answers and tools interleave, the loop goes on with the results
\* of exactly the calls its turn requested, and none is left when it is over.
THEOREM TurnsGetTheirResults == Spec => []ResultsReachTheirTurn
<1>1. Init => TypeInv /\ TurnInv
  BY InitType, InitObjects, InitTurn DEF TypeInv
<1>2. TypeInv /\ TurnInv => ResultsReachTheirTurn
  <2> SUFFICES ASSUME TypeInv, InTurn, Undisturbed
               PROVE  /\ \A m \in Slot : At(m, "woken") => Completed(m) = run[m].found
                      /\ ~executing =>
                             \A c \in ToolCall : Has(c, {"none", "answered", "dropped"})
    BY DEF TurnInv, Undisturbed, ResultsReachTheirTurn
  <2>1. \A m \in Slot : At(m, "woken") => Completed(m) = run[m].found
    BY OverTurn DEF At, Over, Completed
  <2>2. ASSUME ~executing, NEW c \in ToolCall
        PROVE  Has(c, {"none", "answered", "dropped"})
    <3>1. ~Has(c, Live) /\ ~Has(c, {"lost"})
      BY <2>2, MainTurn DEF InTurn, CallsAreSought, CallsSettle
    <3>2. call[c].status \in Status
      BY DEF TypeInv, TypeOK, Call
    <3> QED BY <3>1, <3>2 DEF Has, Live, Status
  <2> QED BY <2>1, <2>2
<1> QED BY <1>1, <1>2, TypeStep, TurnStep, PTL DEF Spec

=============================================================================
