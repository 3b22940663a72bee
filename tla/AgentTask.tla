----------------------------- MODULE AgentTask -----------------------------
(***************************************************************************)
(* One task of the a2a server: CoderAgentExecutor (agent/executor.ts) and  *)
(* Task (agent/task.ts) under packages/a2a-server/src/, over the tool      *)
(* scheduler and the task store.                                           *)
(*                                                                         *)
(* Each message of a client runs execute().  The first one becomes the     *)
(* main execution, which alternates between the model and its tools; a     *)
(* message that finds one under way only hands over its parts.  Between    *)
(* two awaits a message may find the task being rebuilt from the store, so *)
(* there can be more than one Task object, named by the message that made  *)
(* it.  How the scheduler treats one call is in ToolScheduler.             *)
(***************************************************************************)
EXTENDS FiniteSets, Sequences, Naturals

CONSTANTS
    Slot,      \* connections a client sends messages on
    ToolCall,  \* calls the model may request
    None,
    World      \* the mishaps of a behaviour are a member of World

ASSUME SlotsAndCalls == None \notin Slot \cup ToolCall

VARIABLES
    cached,     \* tasks.get(taskId)
    executing,  \* executingTasks.has(taskId)
    run,        \* the execution of the message on each connection
    task,       \* the Task objects
    call,       \* what became of each call
    store,      \* the state the task store holds
    writes,     \* saves that have not landed yet
    world

vars == <<cached, executing, run, task, call, store, writes, world>>

\* bucket: the task store is a bucket; brief: a bound, the model requests one call
Mishap == {"disconnect", "cancel", "broken", "badEdit", "mixed", "race", "crash", "bucket", "brief"}
May(event) == event \in world

State == {"submitted", "working", "input-required", "canceled", "failed"}
ASSUME NothingStored == None \notin State
Pc == {"idle", "making", "made", "answer", "answered", "stream", "streamed",
       "scheduling", "waiting", "woken", "failing"}
Status == {"none", "queued", "validating", "awaiting", "scheduled", "success",
           "cancelled", "answered", "dropped", "lost"}
Undecided == {"validating", "awaiting"}
Terminal == {"success", "cancelled"}

\* call, outcome: the confirmation the message carries; text: whether it has text;
\* found: toolCallRequests
Run == [pc : Pc, obj : Slot \cup {None}, main : BOOLEAN, call : ToolCall \cup {None},
        outcome : {"proceed", "cancel", "badEdit"}, text : BOOLEAN,
        found : SUBSET ToolCall, aborted : BOOLEAN]
NoRun == [pc |-> "idle", obj |-> None, main |-> FALSE, call |-> None,
          outcome |-> "proceed", text |-> FALSE, found |-> {}, aborted |-> FALSE]
\* pending: pendingToolCalls; asked: pendingToolConfirmationDetails;
\* completed: completedToolCalls; list, queue: those of the scheduler
Task == [state : State, pending : SUBSET ToolCall, asked : SUBSET ToolCall,
         completed : SUBSET ToolCall, list : SUBSET ToolCall,
         queue : Seq(SUBSET ToolCall)]
NewTask(state) == [state |-> state, pending |-> {}, asked |-> {},
                   completed |-> {}, list |-> {}, queue |-> <<>>]
\* hung: the signal the call was scheduled with is aborted
Call == [status : Status, by : Slot \cup {None}, hung : BOOLEAN]
NoCall == [status |-> "none", by |-> None, hung |-> FALSE]

TypeOK ==
    /\ cached \in Slot \cup {None}
    /\ executing \in BOOLEAN
    /\ run \in [Slot -> Run]
    /\ task \in [Slot -> Task]
    /\ call \in [ToolCall -> Call]
    /\ store \in State \cup {None}
    /\ writes \in SUBSET State
    /\ world \in World

Init ==
    /\ cached = None
    /\ executing = FALSE
    /\ run = [m \in Slot |-> NoRun]
    /\ task = [o \in Slot |-> NewTask("submitted")]
    /\ call = [c \in ToolCall |-> NoCall]
    /\ store = None
    /\ writes = {}
    /\ world \in World

At(m, pc) == run[m].pc = pc
Obj(m) == run[m].obj
Has(c, S) == call[c].status \in S
Fresh == {c \in ToolCall : Has(c, {"none"})}
\* The bucket is written in the background, the memory store at once.
Save(state) ==
    IF May("bucket") THEN writes' = writes \cup {state} /\ UNCHANGED store
    ELSE store' = state /\ UNCHANGED writes
Holds(o) == \E m \in Slot : Obj(m) = o

-----------------------------------------------------------------------------
(* What a Task does with its scheduler's news.                             *)

\* Whoever waits for the tools of o goes on at pc.
Woken(runs, o, pc) ==
    [m \in Slot |-> IF runs[m].obj = o /\ runs[m].pc = "waiting"
                    THEN [runs[m] EXCEPT !.pc = pc] ELSE runs[m]]

\* _schedulerToolCallsUpdate and _schedulerAllToolCallsComplete after the calls
\* of o have changed to "after": those that go on are registered, the others
\* resolved.  A map that runs empty resolves the promise, also when a later call
\* of the same update is registered again ("first").
\* A mistake the runs must notice: only calls that ran are resolved.
ResolvesOnlySuccess(o, after) ==
    {c \in task[o].pending \cup task[o].list : after[c].status # "success"}
\* A mistake the runs must notice: only a call that needs the client is registered.
RegistersAwaiting(o, after) ==
    {c \in task[o].list : after[c].status \in Undecided}
Unresolved(o, after) ==
    (task[o].pending \ task[o].list)
        \cup {c \in task[o].list : after[c].status \notin Terminal}

Finished(o, after) == \A c \in task[o].list : after[c].status \in Terminal
AllAsk(S, after) ==
    (\E c \in S : after[c].status = "awaiting")
        /\ \A c \in S : after[c].status = "awaiting"

Collected(o, after) == task[o].completed \cup task[o].list

\* A complete batch is handed over, and the next one leaves the queue.  "runs" are
\* the executions as they go on, "decided" the calls whose answer arrived.
Update(o, after, first, runs, decided) ==
    LET left == Unresolved(o, after)
        over == Finished(o, after)
        queue == task[o].queue
        next == IF over /\ queue # <<>> THEN Head(queue) ELSE {}
        awaiting == {c \in task[o].list : after[c].status = "awaiting"}
    IN  /\ first => task[o].pending # {} /\ left # {} /\ task[o].pending \cap left = {}
        /\ call' = [c \in ToolCall |->
               IF c \in next THEN [after[c] EXCEPT !.status = "validating"] ELSE after[c]]
        /\ task' = [task EXCEPT ![o] =
               [state |-> IF AllAsk(left, after) THEN "input-required" ELSE task[o].state,
                pending |-> left \cup next,
                asked |-> (task[o].asked \cup awaiting) \ decided,
                completed |-> IF over THEN Collected(o, after) ELSE task[o].completed,
                list |-> IF over THEN next ELSE task[o].list,
                queue |-> IF over /\ queue # <<>> THEN Tail(queue) ELSE queue]]
        /\ run' = IF first \/ (task[o].pending # {} /\ left = {})
                  THEN Woken(runs, o, "woken") ELSE runs

IsRunning(o) == \E c \in task[o].list : Has(c, {"awaiting", "scheduled"})

\* The call moves on inside the scheduler.
Becomes(c, status) == [call EXCEPT ![c].status = status]
Owner(c) == {o \in Slot : c \in task[o].list}
Moves(c, status) ==
    \E o \in Owner(c), first \in BOOLEAN :
        Update(o, Becomes(c, status), first, run, {})

\* Validated: it needs an approval, needs none, or is refused at once.
ToolIsChecked(c) ==
    /\ Has(c, {"validating"})
    /\ \/ ~call[c].hung /\ Moves(c, "awaiting")
       \/ ~call[c].hung /\ Moves(c, "scheduled")
       \/ call[c].hung /\ Moves(c, "cancelled")
    /\ UNCHANGED <<cached, executing, store, writes, world>>

\* Every call of the batch is decided, and this one has run.
ToolReturns(c) ==
    /\ Has(c, {"scheduled"})
    /\ \A o \in Owner(c) : \A d \in task[o].list : ~Has(d, Undecided)
    /\ \/ Moves(c, "success")
       \/ call[c].hung /\ Moves(c, "cancelled")
    /\ UNCHANGED <<cached, executing, store, writes, world>>

\* cancelPendingTools: whoever waits fails; the calls themselves go on.
Cleared(o) == [task[o] EXCEPT !.pending = {}]
Rejected(o) == IF task[o].pending # {} THEN Woken(run, o, "failing") ELSE run

-----------------------------------------------------------------------------
(* execute: a message arrives.                                             *)

\* A client answers a call it was asked about, says something, or both.
Arrive(m, c, outcome, text) ==
    /\ At(m, "idle")
    /\ c # None => cached # None /\ c \in task[cached].asked /\ Has(c, {"awaiting"})
    /\ c = None => text /\ outcome = "proceed"
    /\ outcome = "badEdit" => May("badEdit")
    /\ c # None /\ text => May("mixed")
    /\ cached = None => May("race") \/ \A n \in Slot : ~At(n, "making")
    /\ run' = [run EXCEPT ![m] = [NoRun EXCEPT
           !.pc = IF cached = None THEN "making" ELSE "made",
           !.obj = cached, !.call = c, !.outcome = outcome, !.text = text]]
    /\ UNCHANGED <<cached, executing, task, call, store, writes, world>>

\* A mistake the runs must notice: the state is taken over even if none is stored.
TakenOver(state) == state
Restored(state) == IF state = None THEN "submitted" ELSE state

\* reconstruct and createTask: the Task enters the map only after their awaits.
Make(m) ==
    /\ At(m, "making") /\ ~Holds(m)
    /\ cached' = m
    /\ task' = [task EXCEPT ![m] = NewTask(Restored(store))]
    /\ run' = [run EXCEPT ![m].pc = "made", ![m].obj = m]
    /\ IF store = None THEN Save("submitted") ELSE UNCHANGED <<store, writes>>
    /\ UNCHANGED <<executing, call, world>>

\* The configuration cannot be loaded: pushTaskStateFailed.
MakeFails(m) ==
    /\ At(m, "making") /\ May("broken")
    /\ run' = [run EXCEPT ![m] = NoRun]
    /\ UNCHANGED <<cached, executing, task, call, store, writes, world>>

IsFinal(o) == task[o].state \in {"canceled", "failed"}

Ignore(m) ==
    /\ At(m, "made") /\ IsFinal(Obj(m))
    /\ run' = [run EXCEPT ![m] = NoRun]
    /\ UNCHANGED <<cached, executing, task, call, store, writes, world>>

\* The main execution, or one that hands over its parts and ends.
Start(m) ==
    /\ At(m, "made") /\ ~IsFinal(Obj(m))
    /\ executing' = TRUE
    /\ run' = [run EXCEPT ![m].pc = "answer", ![m].main = ~executing]
    /\ UNCHANGED <<cached, task, call, store, writes, world>>

\* _handleToolConfirmationPart.  How onConfirm is overtaken by another answer is
\* in ToolScheduler; here it decides the call at once or throws.
Knows(m) == run[m].call # None /\ run[m].call \in task[Obj(m)].asked
Answered(m) == [run EXCEPT ![m].pc = "answered"]

NoAnswer(m) ==
    /\ At(m, "answer") /\ ~Knows(m)
    /\ run' = [Answered(m) EXCEPT ![m].call = None]
    /\ UNCHANGED <<cached, executing, task, call, store, writes, world>>

\* A call whose signal is aborted is cancelled whatever the answer.
Confirm(m) ==
    /\ At(m, "answer") /\ Knows(m) /\ run[m].outcome # "badEdit"
    /\ LET c == run[m].call
           status == IF run[m].outcome = "cancel" \/ call[c].hung
                     THEN "cancelled" ELSE "scheduled"
       IN  \E first \in BOOLEAN :
               Update(Obj(m), Becomes(c, status), first, Answered(m), {c})
    /\ UNCHANGED <<cached, executing, store, writes, world>>

\* The content sent with the confirmation cannot be applied: the Task resolves a
\* call that its scheduler still holds.
ConfirmThrows(m) ==
    /\ At(m, "answer") /\ Knows(m) /\ run[m].outcome = "badEdit"
    /\ LET o == Obj(m)
           c == run[m].call
           runs == [Answered(m) EXCEPT ![m].call = None]
       IN  /\ task' = [task EXCEPT ![o].pending = @ \ {c}]
           /\ run' = IF task[o].pending = {c} THEN Woken(runs, o, "woken") ELSE runs
    /\ UNCHANGED <<cached, executing, call, store, writes, world>>

\* The rest of acceptUserMessage: text goes to the model.
Works(o) == [task EXCEPT ![o].state = "working"]
Read(m, pc) == [run[m] EXCEPT !.pc = pc, !.call = None, !.outcome = "proceed",
                              !.text = FALSE]

Say(m) ==
    /\ At(m, "answered")
    /\ LET o == Obj(m)
       IN  /\ task' = IF \/ run[m].text
                         \/ run[m].call # None /\ task[o].pending # {}
                                /\ task[o].state # "input-required"
                      THEN Works(o) ELSE task
           /\ run' = [run EXCEPT ![m] =
                  IF run[m].text THEN Read(m, "stream")
                  ELSE IF run[m].main THEN Read(m, "streamed") ELSE NoRun]
    /\ UNCHANGED <<cached, executing, call, store, writes, world>>

-----------------------------------------------------------------------------
(* The model answers.                                                      *)

\* Only the main execution collects the calls the model requests.
StreamRequests(m) ==
    /\ At(m, "stream") /\ ~run[m].aborted
    /\ Fresh # {} /\ (May("brief") => Fresh = ToolCall)
    /\ LET c == CHOOSE d \in Fresh : TRUE
       IN  /\ call' = [call EXCEPT ![c] =
                  [NoCall EXCEPT !.status = IF run[m].main THEN "queued" ELSE "dropped",
                                 !.by = m]]
           /\ run' = IF run[m].main THEN [run EXCEPT ![m].found = @ \cup {c}] ELSE run
    /\ UNCHANGED <<cached, executing, task, store, writes, world>>

\* acceptAgentMessage, an error event; the secondary loop looks at none.
StreamErrs(m) ==
    /\ At(m, "stream") /\ May("broken") /\ run[m].main /\ ~run[m].aborted
    /\ task' = [task EXCEPT ![Obj(m)] = Cleared(Obj(m))]
    /\ UNCHANGED <<cached, executing, run, call, store, writes, world>>

StreamEnds(m) ==
    /\ At(m, "stream")
    /\ run' = [run EXCEPT ![m] = IF @.main THEN [@ EXCEPT !.pc = "streamed"] ELSE NoRun]
    /\ UNCHANGED <<cached, executing, task, call, store, writes, world>>

StreamBreaks(m) ==
    /\ At(m, "stream") /\ May("broken")
    /\ run' = [run EXCEPT ![m] = IF @.main THEN [@ EXCEPT !.pc = "failing"] ELSE NoRun]
    /\ UNCHANGED <<cached, executing, task, call, store, writes, world>>

-----------------------------------------------------------------------------
(* The main execution and its tools.                                       *)

\* scheduleToolCalls: the batch begins, or waits for the scheduler.
ScheduleToolCalls(m) ==
    /\ At(m, "streamed") /\ ~run[m].aborted /\ run[m].found # {}
    /\ LET o == Obj(m)
           found == run[m].found
       IN  IF IsRunning(o)
           THEN /\ task' = [Works(o) EXCEPT ![o].queue = Append(@, found)]
                /\ UNCHANGED call
           ELSE /\ task' = [Works(o) EXCEPT ![o].list = @ \cup found,
                                            ![o].pending = @ \cup found]
                /\ call' = [c \in ToolCall |-> IF c \in found
                                THEN [call[c] EXCEPT !.status = "validating"] ELSE call[c]]
    /\ run' = [run EXCEPT ![m].pc = "scheduling"]
    /\ UNCHANGED <<cached, executing, store, writes, world>>

\* waitForPendingTools, once schedule() has looked at every call.
WaitForPendingTools(m) ==
    /\ \/ At(m, "streamed") /\ ~run[m].aborted /\ run[m].found = {}
       \/ At(m, "scheduling") /\ \A c \in run[m].found : ~Has(c, {"queued", "validating"})
    /\ run' = [run EXCEPT ![m].pc =
           IF task[Obj(m)].pending = {} THEN "woken" ELSE "waiting"]
    /\ UNCHANGED <<cached, executing, task, call, store, writes, world>>

\* The results go to the model, or, when all are cancelled, into the history.
Completed(m) == task[Obj(m)].completed
HandedOver(m) == [c \in ToolCall |-> IF c \in Completed(m)
                     THEN [NoCall EXCEPT !.status = "answered"] ELSE call[c]]

SendCompletedTools(m) ==
    /\ At(m, "woken") /\ ~run[m].aborted
    /\ \E c \in Completed(m) : Has(c, {"success"})
    /\ call' = HandedOver(m)
    /\ task' = [Works(Obj(m)) EXCEPT ![Obj(m)].completed = {}]
    /\ run' = [run EXCEPT ![m].pc = "stream", ![m].found = {}]
    /\ UNCHANGED <<cached, executing, store, writes, world>>

\* The execution ends and saves the task.
\* A mistake the runs must notice: the task is saved before its state is set.
SavesFirst(m, state) ==
    /\ executing' = FALSE
    /\ run' = [run EXCEPT ![m] = NoRun]
    /\ task' = [task EXCEPT ![Obj(m)] = [Cleared(Obj(m)) EXCEPT !.state = state]]
    /\ Save(task[Obj(m)].state)

Leave(m, state) ==
    /\ executing' = FALSE
    /\ run' = [run EXCEPT ![m] = NoRun]
    /\ task' = [task EXCEPT ![Obj(m)] = [Cleared(Obj(m)) EXCEPT !.state = state]]
    /\ Save(state)

EndTurn(m) ==
    /\ At(m, "woken") /\ ~run[m].aborted
    /\ \A c \in Completed(m) : Has(c, {"cancelled"})
    /\ call' = HandedOver(m)
    /\ executing' = FALSE
    /\ run' = [run EXCEPT ![m] = NoRun]
    /\ task' = [task EXCEPT ![Obj(m)] = [@ EXCEPT !.completed = {},
                                                  !.state = "input-required"]]
    /\ Save("input-required")
    /\ UNCHANGED <<cached, world>>

\* The catch clause: the loop saw the signal, or something was thrown.
Catch(m) ==
    /\ \/ At(m, "failing")
       \/ run[m].aborted /\ run[m].main /\ run[m].pc \in {"stream", "streamed", "woken"}
    /\ LET state == task[Obj(m)].state
       IN  Leave(m, IF ~run[m].aborted THEN "failed"
                    ELSE IF IsFinal(Obj(m)) THEN state ELSE "input-required")
    /\ UNCHANGED <<cached, call, world>>

-----------------------------------------------------------------------------
(* Clients that leave or cancel, and the store.                            *)

\* abortHandler: the request leaves the scheduler's queue if it is still there.
Spliced(queue, found) ==
    IF \A i \in DOMAIN queue : queue[i] # found THEN queue
    ELSE LET index == CHOOSE i \in DOMAIN queue : queue[i] = found
         IN  SubSeq(queue, 1, index - 1) \o SubSeq(queue, index + 1, Len(queue))

\* The socket ends: calls of this execution see the signal, a batch that waits in
\* the scheduler's queue is rejected.
Disconnect(m) ==
    /\ May("disconnect") /\ ~At(m, "idle") /\ ~run[m].aborted
    /\ LET waits == At(m, "scheduling") /\ \E c \in run[m].found : Has(c, {"queued"})
       IN  /\ run' = [run EXCEPT ![m].aborted = TRUE,
                                 ![m].pc = IF waits THEN "failing" ELSE @]
           /\ call' = [c \in ToolCall |-> IF call[c].by = m /\ ~Has(c, {"answered"})
                           THEN [call[c] EXCEPT !.hung = TRUE] ELSE call[c]]
           /\ task' = IF waits THEN [task EXCEPT ![Obj(m)].queue =
                                         Spliced(@, run[m].found)]
                      ELSE task
    /\ UNCHANGED <<cached, executing, store, writes, world>>

CancelTask ==
    /\ May("cancel") /\ cached # None /\ ~IsFinal(cached)
    /\ task' = [task EXCEPT ![cached] = [Cleared(cached) EXCEPT !.state = "canceled"]]
    /\ run' = Rejected(cached)
    /\ Save("canceled")
    /\ UNCHANGED <<cached, executing, call, world>>

\* GCSTaskStore.save: an upload lands, or it fails and is only logged.
Land(state) ==
    /\ state \in writes
    /\ store' = state
    /\ writes' = writes \ {state}
    /\ UNCHANGED <<cached, executing, run, task, call, world>>

SaveFails(state) ==
    /\ state \in writes
    /\ writes' = writes \ {state}
    /\ UNCHANGED <<cached, executing, run, task, call, store, world>>

\* Only what has been stored outlives the server.
Crash ==
    /\ May("crash") /\ cached # None
    /\ cached' = None
    /\ executing' = FALSE
    /\ run' = [m \in Slot |-> NoRun]
    /\ task' = [o \in Slot |-> NewTask("submitted")]
    /\ call' = [c \in ToolCall |-> IF Has(c, {"none", "answered", "dropped"}) THEN call[c]
                                   ELSE [NoCall EXCEPT !.status = "lost"]]
    /\ writes' = {}
    /\ UNCHANGED <<store, world>>

-----------------------------------------------------------------------------
Message(m) ==
    \E c \in ToolCall \cup {None}, outcome \in {"proceed", "cancel", "badEdit"},
       text \in BOOLEAN : Arrive(m, c, outcome, text)

Execution(m) ==
    \/ Make(m) \/ MakeFails(m) \/ Ignore(m) \/ Start(m)
    \/ NoAnswer(m) \/ Confirm(m) \/ ConfirmThrows(m) \/ Say(m)
    \/ StreamErrs(m) \/ StreamEnds(m) \/ StreamBreaks(m)
    \/ ScheduleToolCalls(m) \/ WaitForPendingTools(m)
    \/ SendCompletedTools(m) \/ EndTurn(m) \/ Catch(m)

Tools == \E c \in ToolCall : ToolIsChecked(c) \/ ToolReturns(c)

Next ==
    \/ \E m \in Slot : Message(m) \/ Execution(m) \/ StreamRequests(m) \/ Disconnect(m)
    \/ Tools
    \/ CancelTask
    \/ \E state \in State : Land(state) \/ SaveFails(state)
    \/ Crash

Spec == Init /\ [][Next]_vars

\* Clients go on answering the calls they are asked about, tools return, and awaited
\* promises are resolved.
Answer ==
    \E m \in Slot, c \in ToolCall, outcome \in {"proceed", "cancel"} :
        Arrive(m, c, outcome, FALSE)

FairSpec ==
    /\ Spec
    /\ \A m \in Slot : WF_vars(Execution(m))
    /\ WF_vars(Tools)
    /\ SF_vars(Answer)

-----------------------------------------------------------------------------
(* What should hold.                                                       *)

\* The main execution goes on with the results of exactly the calls its turn
\* requested, and when it is over each of them has been answered: neither a call
\* that is decided by another message, nor one that completes while its siblings
\* wait, wakes the loop too early.
ResultsReachTheirTurn ==
    world \subseteq {"mixed", "race"} =>
        /\ \A m \in Slot : At(m, "woken") => Completed(m) = run[m].found
        /\ ~executing => \A c \in ToolCall : Has(c, {"none", "answered", "dropped"})

\* waitForPendingTools ends: the promise the loop awaits is resolved or rejected
\* whatever is registered, resolved, cleared and registered again, unless the task
\* is canceled or its object has been superseded (then nobody can answer).
WaitsEnd ==
    \A m \in Slot :
        At(m, "waiting") ~>
            \/ ~At(m, "waiting")
            \/ Obj(m) # cached \/ task[Obj(m)].state = "canceled"

\* Whatever lands in the store, a task restored from it is not "working": nothing
\* would be at work on it.
StoredTaskIsResumable == store # "working"

\* A canceled task stays canceled.
CanceledIsFinal ==
    [][\A o \in Slot : task[o].state = "canceled" /\ cached' = cached
                           => task'[o].state = "canceled"]_vars
=============================================================================
