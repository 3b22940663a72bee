--------------------------- MODULE ToolScheduler ---------------------------
(***************************************************************************)
(* CoreToolScheduler (packages/core/src/core/coreToolScheduler.ts): it     *)
(* validates the tool calls of a batch, asks for confirmation, waits until *)
(* every call is decided, executes the approved ones together, hands the   *)
(* results to its client and then takes the next batch from its queue.     *)
(*                                                                         *)
(* JavaScript runs to completion between two awaits, so an action is the   *)
(* code from one await to the next.  Answers to a confirmation prompt come *)
(* from independent channels and may be repeated; each runs its own        *)
(* handleConfirmationResponse, which is suspended at up to four awaits, and*)
(* nothing keeps several from being at work on the same call.              *)
(***************************************************************************)
EXTENDS Naturals, Sequences, FiniteSets

CONSTANTS
    Call,          \* tool call ids, numbered in the order of the model's reply
    Batch,         \* one argument of schedule(), with its own AbortSignal
    NoBatch,       \* no batch is being scheduled
    BatchOf,       \* the batch a call arrives in
    KindOf,        \* what its approval covers: "edit", or a command root / tool
    Preapproved,   \* kinds whose tools never ask (read-only tools)
    AllowedTools,  \* kinds named in the allowedTools setting
    Channel,       \* who may answer a prompt: subset of AllChannels
    HandlerRejects,\* whether onAllToolCallsComplete may reject
    MaxAtWork,     \* bound: answers to one call that are at work at a time
    MaxModify,     \* bound: ModifyWithEditor answers per call
    MaxSwitch      \* bound: changes of the approval mode by the user

\* "ui": the terminal's prompt, with its options and its cancel key; "mode":
\* handleApprovalModeChange; "ide": the diff view of the IDE; "client":
\* confirmations sent to an a2a-server Task.
AllChannels == {"ui", "mode", "ide", "client"}

ASSUME CallsAssumption == Call \subseteq Nat /\ IsFiniteSet(Call)
ASSUME BatchAssumption ==
    /\ NoBatch \notin Batch
    /\ BatchOf \in [Call -> Batch]
    /\ \A b \in Batch : \E c \in Call : BatchOf[c] = b
ASSUME ChannelAssumption == Channel \subseteq AllChannels
ASSUME SettingsAssumption ==
    /\ HandlerRejects \in BOOLEAN
    /\ MaxAtWork \in Nat
    /\ MaxModify \in Nat
    /\ MaxSwitch \in Nat

Kind == {KindOf[c] : c \in Call} \cup {"edit"} \cup Preapproved
Terminal == {"success", "error", "cancelled"}
Undecided == {"validating", "awaiting", "modifying"}
Status == Terminal \cup Undecided \cup {"none", "scheduled", "executing"}
Mode == {"default", "auto_edit", "yolo"}
Outcome == {"ProceedOnce", "ProceedWithContent", "ProceedAlways", "Modify", "Cancel"}
Pc == {"idle", "confirm", "auto", "inline", "proceed", "editor"}
Slot == 1..MaxAtWork
Response == [pc : Pc, by : AllChannels, outcome : Outcome, todo : SUBSET Call, asks : BOOLEAN]
Idle == [pc |-> "idle", by |-> "ui", outcome |-> "Cancel", todo |-> {}, asks |-> FALSE]

CallsOf(b) == {c \in Call : BatchOf[c] = b}

VARIABLES
    \* the scheduler's own fields
    status,     \* toolCalls: a call's status, "none" when it is not in the list;
                \* "modifying" is awaiting_approval with isModifying
    scheduling, \* the batch whose _schedule loop runs (isScheduling), or NoBatch
    asks,       \* the loop's pending shouldConfirmExecute will ask
    queue,      \* requestQueue
    handed,     \* the calls onAllToolCallsComplete is working on (isFinalizing)
    dead,       \* the completion handler rejected: isFinalizing stays true
    \* the promises and settings around it
    phase,      \* what became of a batch's schedule() call
    aborted,    \* batches whose AbortSignal fired
    running,    \* execute() calls in flight, by call and by the signal they got
    saving,     \* settled shell results being written by truncateAndSaveToFile
    resp,       \* the handleConfirmationResponse calls at work, by call and slot
    ideDiff,    \* the ideConfirmation promise of a call; "queued" behind the diff mutex
    pressed,    \* answers in the terminal that close the diff view first
    mode,       \* getApprovalMode()
    allowlist,  \* kinds that no longer ask
    offered,    \* pendingToolConfirmationDetails of the a2a Task
    modeTodo,   \* calls handleApprovalModeChange has still to answer
    modifies, switches, \* bounded counters of user inputs
    \* history
    verdict,    \* the status a call had when it was reported, or "none"
    starts,     \* how many times execute() was called
    granted,    \* calls some answer, setting or tool said may run
    refused,    \* calls some answer cancelled
    crossed     \* an answer came while another one was at work, or too late

fields == <<status, scheduling, asks, queue, handed, dead>>
work == <<running, saving>>
users == <<ideDiff, pressed, mode, allowlist, offered, modeTodo, modifies, switches>>
history == <<verdict, starts, granted, refused, crossed>>
vars == <<fields, phase, aborted, work, resp, users, history>>

Init ==
    /\ status = [c \in Call |-> "none"]
    /\ scheduling = NoBatch
    /\ asks = FALSE
    /\ queue = <<>>
    /\ handed = {}
    /\ dead = FALSE
    /\ phase = [b \in Batch |-> "unsent"]
    /\ aborted = {}
    /\ running = [c \in Call |-> [b \in Batch |-> 0]]
    /\ saving = [c \in Call |-> [b \in Batch |-> 0]]
    /\ resp = [c \in Call |-> [s \in Slot |-> Idle]]
    /\ ideDiff = [c \in Call |-> "none"]
    /\ pressed = [c \in Call |-> {}]
    /\ mode = "default"
    /\ allowlist = Preapproved
    /\ offered = {}
    /\ modeTodo = {}
    /\ modifies = [c \in Call |-> 0]
    /\ switches = 0
    /\ verdict = [c \in Call |-> "none"]
    /\ starts = [c \in Call |-> 0]
    /\ granted = {}
    /\ refused = {}
    /\ crossed = FALSE

-----------------------------------------------------------------------------
(* Helpers of the scheduler, on a status function st.                      *)

InList(st) == {c \in Call : st[c] # "none"}
IsFirst(c, S) == c \in S /\ \A d \in S : c <= d
Waiting(st) == {c \in Call : st[c] \in {"awaiting", "modifying"}}

\* isRunning.  Mistakes the runs must notice (here and before other operators):
\* it forgets that the client is still busy, or that a prompt is open.
ForgetsFinalizing ==
    \E c \in Call : status[c] \in {"executing", "awaiting", "modifying"}
ForgetsPrompts == handed # {} \/ \E c \in Call : status[c] = "executing"
IsRunning == handed # {} \/ \E c \in Call : status[c] \in {"executing", "awaiting", "modifying"}

\* setStatusInternal: calls that are gone or terminal are left alone.
\* Mistake: a result is overwritten.
OverwritesResults(st, c, s) == IF st[c] = "none" THEN st ELSE [st EXCEPT ![c] = s]
SetStatus(st, c, s) ==
    IF st[c] \in Terminal \cup {"none"} THEN st ELSE [st EXCEPT ![c] = s]

\* The guard of attemptExecutionOfScheduledCalls.  Mistake: errors are not final.
ForgetsErrors(st) == \A c \in InList(st) : st[c] \in {"success", "cancelled", "scheduled"}
AllReady(st) == \A c \in InList(st) : st[c] \in Terminal \cup {"scheduled"}

\* The guard of checkAndNotifyCompletion.  Mistakes: it counts scheduled calls as
\* complete, or reports when the first call is.
CountsScheduled(st) == InList(st) # {} /\ AllReady(st)
ReportsFirst(st) == \E c \in InList(st) : st[c] \in Terminal
Complete(st) == InList(st) # {} /\ \A c \in InList(st) : st[c] \in Terminal

\* checkAndNotifyCompletion up to its await: the list is emptied and its calls
\* are handed to the client, while the calls in h still are.
Deliver(st, h) ==
    /\ status' = [c \in Call |-> "none"]
    /\ handed' = h \cup InList(st)
    /\ verdict' = [c \in Call |-> IF st[c] # "none" THEN st[c] ELSE verdict[c]]

\* What follows a change of status: report a complete list.
Notify(st) ==
    IF Complete(st) THEN Deliver(st, handed)
    ELSE status' = st /\ UNCHANGED <<handed, verdict>>

\* attemptExecutionOfScheduledCalls(signal of b) after the status changes of a
\* segment gave st: every scheduled call starts, unless one is not decided.
\* Mistake: the started calls are not marked as executing.
StartsUnmarked(st, b, h) ==
    LET go == IF AllReady(st) THEN {c \in Call : st[c] = "scheduled"} ELSE {}
    IN  IF Complete(st)
        THEN Deliver(st, h) /\ UNCHANGED <<running, starts>>
        ELSE /\ status' = st /\ handed' = h
             /\ running' = [c \in Call |-> [d \in Batch |->
                               running[c][d] + IF c \in go /\ d = b THEN 1 ELSE 0]]
             /\ starts' = [c \in Call |-> IF c \in go THEN starts[c] + 1 ELSE starts[c]]
             /\ UNCHANGED verdict
Launch(st, b, h) ==
    LET go == IF AllReady(st) THEN {c \in Call : st[c] = "scheduled"} ELSE {}
    IN  IF Complete(st)
        THEN Deliver(st, h) /\ UNCHANGED <<running, starts>>
        ELSE /\ status' = [c \in Call |-> IF c \in go THEN "executing" ELSE st[c]]
             /\ handed' = h
             /\ running' = [c \in Call |-> IF c \in go
                              THEN [running[c] EXCEPT ![b] = @ + 1] ELSE running[c]]
             /\ starts' = [c \in Call |-> IF c \in go THEN starts[c] + 1 ELSE starts[c]]
             /\ UNCHANGED verdict

\* What a tool's shouldConfirmExecute decides from the settings it reads first.
Asks(c) == IF KindOf[c] = "edit" THEN mode # "auto_edit"
           ELSE KindOf[c] \notin allowlist

\* The call autoApproveCompatiblePendingTools is at is an edit whose file is being
\* read; every other tool answers at once.
Preparing(r) == r.asks /\ \E d \in r.todo : IsFirst(d, r.todo) /\ KindOf[d] = "edit"

AtWork(c, s) == resp[c][s].pc # "idle"
ModeAtWork == \E c \in Call, s \in Slot : AtWork(c, s) /\ resp[c][s].by = "mode"

\* Promise callbacks run before the next key press, file read or message: no
\* response can go on by itself and handleApprovalModeChange is not between two
\* answers.
Drained ==
    /\ \A c \in Call, s \in Slot :
          CASE resp[c][s].pc = "confirm" -> ideDiff[c] \in {"queued", "open"}
            [] resp[c][s].pc = "auto"    -> Preparing(resp[c][s])
            [] OTHER                     -> resp[c][s].pc # "proceed"
    /\ modeTodo # {} => ModeAtWork

-----------------------------------------------------------------------------
(* schedule and _schedule.                                                 *)

\* The loop validates the next call of rest, unless its signal fired.
\* Mistake: it never looks at the signal.
IgnoresSignal(rest, b) == rest # {}
GoesOn(rest, b) == rest # {} /\ b \notin aborted

\* The loop of _schedule from one await to the next: an aborted batch cancels
\* what it has not reached; otherwise the next call's shouldConfirmExecute is
\* started, and after the last one the scheduled calls may be executed.
Continue(st, b, h) ==
    LET rest == {c \in CallsOf(b) : st[c] = "validating"}
    IN  IF GoesOn(rest, b)
        THEN /\ status' = st
             /\ scheduling' = b
             /\ \E c \in rest : IsFirst(c, rest) /\ asks' = Asks(c)
             /\ handed' = h
             /\ UNCHANGED <<running, starts, verdict>>
        ELSE /\ scheduling' = NoBatch
             /\ asks' = FALSE
             /\ Launch([c \in Call |-> IF c \in rest THEN "cancelled" ELSE st[c]], b, h)

\* _schedule up to its first await.  The calls in bad name an unregistered tool
\* or have invalid arguments.  The "Cannot schedule new tool calls" exception is
\* left out: ListFreeWhileFinalizing shows that it cannot be raised.
Begin(b, h) ==
    /\ phase' = [phase EXCEPT ![b] = "begun"]
    /\ \E bad \in SUBSET CallsOf(b) :
          Continue([c \in Call |-> IF c \in bad THEN "error"
                                   ELSE IF c \in CallsOf(b) THEN "validating"
                                   ELSE status[c]], b, h)

Schedule(b) ==
    /\ phase[b] = "unsent"
    /\ ~IsRunning /\ scheduling = NoBatch
    /\ Drained
    /\ Begin(b, handed)
    /\ UNCHANGED <<queue, dead, aborted, saving, resp, users, granted, refused, crossed>>

Enqueue(b) ==
    /\ phase[b] = "unsent" /\ Drained
    /\ IsRunning \/ scheduling # NoBatch
    /\ queue' = Append(queue, b)
    /\ phase' = [phase EXCEPT ![b] = "queued"]
    /\ UNCHANGED <<status, scheduling, asks, handed, dead, aborted, work, resp, users, history>>

\* The signal of a batch fires; the abort handler takes its request off the
\* queue, if it is still there, and rejects the promise.
Abort(b) ==
    /\ b \notin aborted
    /\ Drained
    /\ aborted' = aborted \cup {b}
    /\ \/ \E i \in 1..Len(queue) :
             /\ queue[i] = b
             /\ queue' = SubSeq(queue, 1, i - 1) \o SubSeq(queue, i + 1, Len(queue))
             /\ phase' = [phase EXCEPT ![b] = "rejected"]
       \/ /\ \A i \in 1..Len(queue) : queue[i] # b
          /\ UNCHANGED <<queue, phase>>
    /\ UNCHANGED <<status, scheduling, asks, handed, dead, work, resp, users, history>>

\* The call whose shouldConfirmExecute the loop is waiting for.
Validating(c) == /\ scheduling # NoBatch
                 /\ IsFirst(c, {d \in CallsOf(scheduling) : status[d] = "validating"})

\* It needs no confirmation: a tool that does not ask, or an edit that cannot be
\* prepared (execute() reports that error later).
ConfirmationNotNeeded(c) ==
    /\ Validating(c)
    /\ ~asks \/ KindOf[c] = "edit"
    /\ granted' = granted \cup {c}
    /\ Continue([status EXCEPT ![c] = "scheduled"], scheduling, handed)
    /\ UNCHANGED <<queue, dead, phase, aborted, saving, resp, users, refused, crossed>>

SettingsConfirm(c) ==
    /\ Validating(c)
    /\ asks
    /\ mode = "yolo" \/ KindOf[c] \in AllowedTools
    /\ granted' = granted \cup {c}
    /\ Continue([status EXCEPT ![c] = "scheduled"], scheduling, handed)
    /\ UNCHANGED <<queue, dead, phase, aborted, saving, resp, users, refused, crossed>>

\* An edit is shown in the IDE if one is connected at that moment.
AskForApproval(c) ==
    /\ Validating(c)
    /\ asks
    /\ mode # "yolo" /\ KindOf[c] \notin AllowedTools
    /\ \/ UNCHANGED ideDiff
       \/ /\ "ide" \in Channel /\ KindOf[c] = "edit"
          /\ ideDiff' = [ideDiff EXCEPT ![c] = "queued"]
    /\ offered' = IF "client" \in Channel THEN offered \cup {c} ELSE offered
    /\ Continue([status EXCEPT ![c] = "awaiting"], scheduling, handed)
    /\ UNCHANGED <<queue, dead, phase, aborted, saving, resp, pressed, mode, allowlist,
                   modeTodo, modifies, switches, granted, refused, crossed>>

\* shouldConfirmExecute fails.  Mistake: the call is scheduled all the same.
SchedulesUnconfirmed(c) ==
    /\ Validating(c)
    /\ Continue([status EXCEPT ![c] = "scheduled"], scheduling, handed)
    /\ UNCHANGED <<queue, dead, phase, aborted, saving, resp, users, granted, refused, crossed>>
ConfirmationThrows(c) ==
    /\ Validating(c)
    /\ Continue([status EXCEPT ![c] = IF scheduling \in aborted THEN "cancelled" ELSE "error"],
                scheduling, handed)
    /\ UNCHANGED <<queue, dead, phase, aborted, saving, resp, users, granted, refused, crossed>>

-----------------------------------------------------------------------------
(* Executions and the completion handler.                                  *)

\* execute() resolves or rejects.  A settled call never starts a sibling.
Settle(c, b) ==
    /\ running[c][b] > 0
    /\ running' = [running EXCEPT ![c][b] = @ - 1]
    /\ \E s \in IF b \in aborted THEN {"cancelled"} ELSE {"success", "error"} :
          Notify(SetStatus(status, c, s))
    /\ UNCHANGED <<scheduling, asks, queue, dead, phase, aborted, saving, resp, users,
                   starts, granted, refused, crossed>>

\* A long shell output is written to a file first: the abort check is behind it.
SettleLongOutput(c, b) ==
    /\ running[c][b] > 0
    /\ b \notin aborted
    /\ KindOf[c] # "edit"
    /\ running' = [running EXCEPT ![c][b] = @ - 1]
    /\ saving' = [saving EXCEPT ![c][b] = @ + 1]
    /\ UNCHANGED <<fields, phase, aborted, resp, users, history>>

OutputSaved(c, b) ==
    /\ saving[c][b] > 0
    /\ saving' = [saving EXCEPT ![c][b] = @ - 1]
    /\ \E s \in {"success", IF b \in aborted THEN "cancelled" ELSE "error"} :
          Notify(SetStatus(status, c, s))
    /\ UNCHANGED <<scheduling, asks, queue, dead, phase, aborted, running, resp, users,
                   starts, granted, refused, crossed>>

\* The rest of checkAndNotifyCompletion: the next batch leaves the queue.
\* Mistakes: the queue is forgotten, or its last batch is taken.
ForgetsQueue ==
    /\ handed # {} /\ ~dead
    /\ handed' = {}
    /\ UNCHANGED <<status, scheduling, asks, queue, dead, phase, aborted, work, resp, users,
                   history>>
TakesLast ==
    /\ handed # {} /\ ~dead
    /\ \/ queue = <<>> /\ ForgetsQueue
       \/ /\ queue # <<>>
          /\ queue' = SubSeq(queue, 1, Len(queue) - 1)
          /\ Begin(queue[Len(queue)], {})
          /\ UNCHANGED <<dead, aborted, saving, resp, users, granted, refused, crossed>>
HandlerReturns ==
    /\ handed # {} /\ ~dead
    /\ \/ /\ queue = <<>>
          /\ handed' = {}
          /\ UNCHANGED <<status, scheduling, asks, queue, phase, running, starts, verdict>>
       \/ /\ queue # <<>>
          /\ queue' = Tail(queue)
          /\ Begin(Head(queue), {})
    /\ UNCHANGED <<dead, aborted, saving, resp, users, granted, refused, crossed>>

HandlerThrows ==
    /\ HandlerRejects /\ handed # {} /\ ~dead
    /\ dead' = TRUE
    /\ UNCHANGED <<status, scheduling, asks, queue, handed, phase, aborted, work, resp,
                   users, history>>

-----------------------------------------------------------------------------
(* handleConfirmationResponse.                                             *)

Respond(c, s, r) == resp' = [resp EXCEPT ![c][s] = r]

\* Mistake: only the signal can cancel.
OnlySignalRefuses(outcome, signal) == signal \in aborted
Refuses(outcome, signal) == outcome = "Cancel" \/ signal \in aborted

\* The part after the awaits of onConfirm and autoApproveCompatiblePendingTools;
\* r is the response as it was, found says that the call awaited approval when
\* the answer came.  If it did not, a Modify answer raises a TypeError here.
Decide(c, s, r, found) ==
    LET signal == BatchOf[c]
        no == Refuses(r.outcome, signal)
        inline == found /\ r.outcome = "ProceedWithContent" /\ KindOf[c] = "edit"
    IN  \/ /\ no
           /\ Launch(SetStatus(status, c, "cancelled"), signal, handed)
           /\ Respond(c, s, Idle)
        \/ /\ r.outcome = "Modify" /\ ~no /\ found
           /\ status' = SetStatus(status, c, "modifying")
           /\ Respond(c, s, [r EXCEPT !.pc = "editor"])
           /\ UNCHANGED <<handed, verdict, running, starts>>
        \/ \* no editor is configured, or the TypeError: the response ends there
           /\ r.outcome = "Modify" /\ ~no
           /\ Respond(c, s, Idle)
           /\ UNCHANGED <<status, handed, verdict, running, starts>>
        \/ /\ inline /\ ~no
           /\ Respond(c, s, [r EXCEPT !.pc = "inline"])
           /\ UNCHANGED <<status, handed, verdict, running, starts>>
        \/ /\ r.outcome # "Modify" /\ ~inline /\ ~no
           /\ Launch(SetStatus(status, c, "scheduled"), signal, handed)
           /\ Respond(c, s, Idle)

\* The next shouldConfirmExecute of autoApproveCompatiblePendingTools, in the
\* order of the list.
NextAsks(todo) == \E d \in todo : IsFirst(d, todo) /\ Asks(d)

\* handleConfirmationResponse behind its first await: ProceedAlways goes on with
\* a snapshot of the other pending calls.
AfterConfirm(c, s, r, found) ==
    LET todo == Waiting(status) \ {c}
    IN  \/ /\ r.outcome = "ProceedAlways"
           /\ Respond(c, s, [r EXCEPT !.pc = "auto", !.todo = todo, !.asks = NextAsks(todo)])
           /\ UNCHANGED <<status, handed, verdict, running, starts>>
        \/ /\ r.outcome # "ProceedAlways"
           /\ Decide(c, s, r, found)

\* An answer arrives: handleConfirmationResponse up to its first await, which does
\* not ask whether another answer is at work.  Only a call that awaits approval has
\* its onConfirm called; ProceedAlways changes the settings there and then.
Answer(c, ch, o) ==
    LET found == c \in Waiting(status)
        r == [pc |-> "confirm", by |-> ch, outcome |-> o, todo |-> {}, asks |-> FALSE]
        always == found /\ o = "ProceedAlways"
        free == {s \in Slot : ~AtWork(c, s)}
    IN  /\ \E s \in free :
              /\ IsFirst(s, free)
              /\ \/ /\ found
                    /\ Respond(c, s, r)
                    /\ UNCHANGED <<status, handed, verdict, running, starts>>
                 \/ /\ ~found
                    /\ AfterConfirm(c, s, r, FALSE)
        /\ mode' = IF always /\ KindOf[c] = "edit" THEN "auto_edit" ELSE mode
        /\ allowlist' = IF always /\ KindOf[c] # "edit" THEN allowlist \cup {KindOf[c]}
                        ELSE allowlist
        /\ granted' = IF o \in {"Cancel", "Modify"} THEN granted ELSE granted \cup {c}
        /\ refused' = IF o = "Cancel" THEN refused \cup {c} ELSE refused
        /\ crossed' = (crossed \/ ~found \/ \E d \in Call, s \in Slot : AtWork(d, s))
        /\ UNCHANGED <<scheduling, asks, queue, dead, phase, aborted, saving>>

\* The prompt in the terminal (ToolConfirmationMessage) is shown for the first
\* call that waits, and stays live while an answer is at work.  It offers no editor
\* while the IDE shows the diff, and while an editor is open only its cancel key.
\* With a diff view the IDE is asked to close it first, and the answer comes when
\* that request has returned.
UiOffers(c, o) ==
    /\ "ui" \in Channel
    /\ \/ status[c] = "awaiting" /\ o # "ProceedWithContent"
       \/ status[c] = "modifying" /\ o = "Cancel"
    /\ \A d \in Waiting(status) : c <= d
    /\ o = "Modify" => KindOf[c] = "edit" /\ ideDiff[c] = "none" /\ modifies[c] < MaxModify
    /\ Drained

UiAnswers(c, o) ==
    /\ UiOffers(c, o)
    /\ ideDiff[c] \notin {"queued", "open"}
    /\ Answer(c, "ui", o)
    /\ modifies' = [modifies EXCEPT ![c] = IF o = "Modify" THEN @ + 1 ELSE @]
    /\ UNCHANGED <<ideDiff, pressed, offered, modeTodo, switches>>

UiClosesDiff(c, o) ==
    /\ ideDiff[c] \in {"queued", "open"}
    /\ UiOffers(c, o)
    /\ pressed' = [pressed EXCEPT ![c] = @ \cup {o}]
    /\ UNCHANGED <<fields, phase, aborted, work, resp, ideDiff, mode, allowlist, offered,
                   modeTodo, modifies, switches, history>>

\* resolveDiffFromCli has returned.  The diff may have been resolved meanwhile; an
\* open one is resolved by that function, and the answer of its promise follows.
UiAnswersLate(c, o) ==
    /\ "ui" \in Channel
    /\ o \in pressed[c]
    /\ Answer(c, "ui", o)
    /\ pressed' = [pressed EXCEPT ![c] = @ \ {o}]
    /\ UNCHANGED <<ideDiff, offered, modeTodo, modifies, switches>>

\* A client of the a2a server confirms a call it was asked about.  The Task
\* forgets the prompt once it is answered (unless by Modify), not when the call is
\* decided in another way.
ClientAnswers(c, o) ==
    /\ "client" \in Channel
    /\ c \in offered
    /\ o = "Modify" => KindOf[c] = "edit" /\ modifies[c] < MaxModify
    /\ o = "ProceedWithContent" => KindOf[c] = "edit"
    /\ Drained
    /\ Answer(c, "client", o)
    /\ offered' = IF o = "Modify" THEN offered ELSE offered \ {c}
    /\ modifies' = [modifies EXCEPT ![c] = IF o = "Modify" THEN @ + 1 ELSE @]
    /\ UNCHANGED <<ideDiff, pressed, modeTodo, switches>>

\* The user changes the approval mode; handleApprovalModeChange takes the
\* pending calls of that moment and will answer them one after the other.  A
\* change while it is still at work is left out (bound: one at a time).
SwitchMode(m) ==
    /\ "mode" \in Channel
    /\ m # mode /\ switches < MaxSwitch
    /\ modeTodo = {} /\ ~ModeAtWork
    /\ \A c \in Waiting(status) : \E s \in Slot : ~AtWork(c, s)
    /\ Drained
    /\ mode' = m
    /\ switches' = switches + 1
    /\ modeTodo' = CASE m = "yolo"      -> Waiting(status)
                     [] m = "auto_edit" -> {c \in Waiting(status) : KindOf[c] = "edit"}
                     [] m = "default"   -> {}
    /\ UNCHANGED <<fields, phase, aborted, work, resp, ideDiff, pressed, allowlist, offered,
                   modifies, history>>

ModeAnswers(c) ==
    /\ "mode" \in Channel
    /\ IsFirst(c, modeTodo) /\ ~ModeAtWork
    /\ Answer(c, "mode", "ProceedOnce")
    /\ modeTodo' = modeTodo \ {c}
    /\ UNCHANGED <<ideDiff, pressed, offered, modifies, switches>>

\* The mutex of openDiff lets one diff view open at a time.
IdeOpens(c) ==
    /\ ideDiff[c] = "queued" /\ \A d \in Call : ideDiff[d] # "open"
    /\ ideDiff' = [ideDiff EXCEPT ![c] = "open"]
    /\ UNCHANGED <<fields, phase, aborted, work, resp, pressed, mode, allowlist, offered,
                   modeTodo, modifies, switches, history>>

\* The diff is accepted or rejected, in the IDE or (as the answer in the terminal
\* says) by resolveDiffFromCli: the callback _schedule attached to the promise
\* answers the prompt, whatever became of the call in between.
IdeResolves(c, accepted) ==
    /\ "ide" \in Channel
    /\ ideDiff[c] = "open"
    /\ Drained
    /\ ideDiff' = [ideDiff EXCEPT ![c] = "resolved"]
    /\ Answer(c, "ide", IF accepted THEN "ProceedOnce" ELSE "Cancel")
    /\ UNCHANGED <<pressed, offered, modeTodo, modifies, switches>>

\* The openDiff request fails: the promise rejects and nothing handles it.
IdeFails(c) ==
    /\ ideDiff[c] \in {"queued", "open"}
    /\ Drained
    /\ ideDiff' = [ideDiff EXCEPT ![c] = "failed"]
    /\ UNCHANGED <<fields, phase, aborted, work, resp, pressed, mode, allowlist, offered,
                   modeTodo, modifies, switches, history>>

-----------------------------------------------------------------------------
(* The later segments of handleConfirmationResponse.                       *)

\* onConfirm returns, for an edit shown in the IDE after the diff is resolved.
OnConfirmReturns(c, s) ==
    /\ resp[c][s].pc = "confirm"
    /\ ideDiff[c] \in {"none", "resolved"}
    /\ AfterConfirm(c, s, resp[c][s], TRUE)
    /\ UNCHANGED <<scheduling, asks, queue, dead, phase, aborted, saving, users, granted,
                   refused, crossed>>

OnConfirmThrows(c, s) ==
    /\ resp[c][s].pc = "confirm"
    /\ ideDiff[c] = "failed"
    /\ Respond(c, s, Idle)
    /\ UNCHANGED <<fields, phase, aborted, work, users, history>>

\* One shouldConfirmExecute of autoApproveCompatiblePendingTools returns: its
\* call is scheduled if it no longer asks (or is an edit that cannot be
\* prepared), and left alone if it asks or throws.
AutoApprove(c, s, d) ==
    LET r == resp[c][s]
        rest == r.todo \ {d}
    IN  /\ r.pc = "auto" /\ IsFirst(d, r.todo)
        /\ Preparing(r) => Drained
        /\ Respond(c, s, [r EXCEPT !.todo = rest, !.asks = NextAsks(rest)])
        /\ \/ /\ ~r.asks \/ KindOf[d] = "edit"
              /\ Notify(SetStatus(status, d, "scheduled"))
              /\ granted' = granted \cup {d}
           \/ UNCHANGED <<status, handed, verdict, granted>>
        /\ UNCHANGED <<scheduling, asks, queue, dead, phase, aborted, work, users, starts,
                       refused, crossed>>

AutoApproveReturns(c, s) ==
    /\ resp[c][s].pc = "auto" /\ resp[c][s].todo = {}
    /\ Decide(c, s, resp[c][s], TRUE)
    /\ UNCHANGED <<scheduling, asks, queue, dead, phase, aborted, saving, users, granted,
                   refused, crossed>>

\* setArgsInternal: built tells whether the tool accepts the new arguments.
SetArgs(st, c, built) ==
    IF ~built /\ st[c] \notin {"none", "error"} THEN [st EXCEPT ![c] = "error"] ELSE st

EditorCloses(c, s) ==
    /\ resp[c][s].pc = "editor"
    /\ Drained
    /\ \E built \in BOOLEAN :
          Launch(SetStatus(SetArgs(status, c, built), c, "awaiting"), BatchOf[c], handed)
    /\ Respond(c, s, Idle)
    /\ UNCHANGED <<scheduling, asks, queue, dead, phase, aborted, saving, users, granted,
                   refused, crossed>>

\* The editor exits with an error: the call keeps its isModifying mark.
EditorFails(c, s) ==
    /\ resp[c][s].pc = "editor"
    /\ Drained
    /\ Respond(c, s, Idle)
    /\ UNCHANGED <<fields, phase, aborted, work, users, history>>

\* _applyInlineModify puts the client's content into the arguments ...
InlineModify(c, s) ==
    LET r == resp[c][s]
    IN  /\ r.pc = "inline"
        /\ Drained
        /\ \E built \in BOOLEAN :
              Notify(SetStatus(SetArgs(status, c, built), c, "awaiting"))
        /\ Respond(c, s, [r EXCEPT !.pc = "proceed"])
        /\ UNCHANGED <<scheduling, asks, queue, dead, phase, aborted, work, users, starts,
                       granted, refused, crossed>>

\* ... or the file cannot be read, the response ends there and the Task keeps the
\* prompt.
InlineModifyFails(c, s) ==
    /\ resp[c][s].pc = "inline"
    /\ Drained
    /\ Respond(c, s, Idle)
    /\ offered' = offered \cup {c}
    /\ UNCHANGED <<fields, phase, aborted, work, ideDiff, pressed, mode, allowlist, modeTodo,
                   modifies, switches, history>>

InlineProceeds(c, s) ==
    /\ resp[c][s].pc = "proceed"
    /\ Launch(SetStatus(status, c, "scheduled"), BatchOf[c], handed)
    /\ Respond(c, s, Idle)
    /\ UNCHANGED <<scheduling, asks, queue, dead, phase, aborted, saving, users, granted,
                   refused, crossed>>

-----------------------------------------------------------------------------

Validation(c) ==
    \/ ConfirmationNotNeeded(c) \/ SettingsConfirm(c)
    \/ AskForApproval(c) \/ ConfirmationThrows(c)

Execution(c, b) == Settle(c, b) \/ SettleLongOutput(c, b) \/ OutputSaved(c, b)

Prompted(c) ==
    \/ \E o \in Outcome :
          UiAnswers(c, o) \/ UiClosesDiff(c, o) \/ UiAnswersLate(c, o) \/ ClientAnswers(c, o)
    \/ ModeAnswers(c)
    \/ IdeOpens(c)
    \/ \E accepted \in BOOLEAN : IdeResolves(c, accepted)
    \/ IdeFails(c)

Resumed(c, s) ==
    /\ AtWork(c, s)
    /\ \/ OnConfirmReturns(c, s) \/ OnConfirmThrows(c, s)
       \/ \E d \in Call : AutoApprove(c, s, d)
       \/ AutoApproveReturns(c, s)
       \/ EditorCloses(c, s) \/ EditorFails(c, s)
       \/ InlineModify(c, s) \/ InlineModifyFails(c, s) \/ InlineProceeds(c, s)

Next ==
    \/ \E b \in Batch : Schedule(b) \/ Enqueue(b) \/ Abort(b)
    \/ \E c \in Call : Validation(c) \/ Prompted(c)
    \/ \E c \in Call, b \in Batch : Execution(c, b)
    \/ \E c \in Call, s \in Slot : Resumed(c, s)
    \/ \E m \in Mode : SwitchMode(m)
    \/ HandlerReturns
    \/ HandlerThrows

Spec == Init /\ [][Next]_vars

TypeOK ==
    /\ status \in [Call -> Status]
    /\ scheduling \in Batch \cup {NoBatch}
    /\ asks \in BOOLEAN
    /\ queue \in Seq(Batch)
    /\ handed \subseteq Call
    /\ dead \in BOOLEAN
    /\ phase \in [Batch -> {"unsent", "queued", "rejected", "begun"}]
    /\ aborted \subseteq Batch
    /\ running \in [Call -> [Batch -> Nat]]
    /\ saving \in [Call -> [Batch -> Nat]]
    /\ resp \in [Call -> [Slot -> Response]]
    /\ ideDiff \in [Call -> {"none", "queued", "open", "resolved", "failed"}]
    /\ pressed \in [Call -> SUBSET Outcome]
    /\ mode \in Mode
    /\ allowlist \subseteq Kind
    /\ offered \subseteq Call
    /\ modeTodo \subseteq Call
    /\ modifies \in [Call -> Nat]
    /\ switches \in Nat
    /\ verdict \in [Call -> Terminal \cup {"none"}]
    /\ starts \in [Call -> Nat]
    /\ granted \subseteq Call
    /\ refused \subseteq Call
    /\ crossed \in BOOLEAN

-----------------------------------------------------------------------------
(* Safety.                                                                 *)

InFlight(c) == \E b \in Batch : running[c][b] + saving[c][b] > 0

\* A call is executed once, however its answer, its siblings' answers and the
\* automatic approval of pending calls interleave: always, if answers do not cross ...
ExecutesAtMostOnce == \A c \in Call : starts[c] <= 1
AnsweredCallsRunOnce == ~crossed => ExecutesAtMostOnce

\* ... and then nothing a batch started is still at work when it is reported.
ReportedWorkIsOver == ~crossed => \A c \in Call : verdict[c] # "none" => ~InFlight(c)

\* The list, the _schedule loop and the completion handler exclude each other,
\* so _schedule never finds calls of another batch and never throws "Cannot
\* schedule new tool calls while other tool calls are actively running".
ListFreeWhileFinalizing ==
    handed # {} => InList(status) = {} /\ scheduling = NoBatch

\* The calls in the list are those of one batch, unless answers cross: a late one
\* puts an executing call back to "scheduled", which isRunning does not count.
OneBatchInList ==
    \A c, d \in Call : BatchOf[c] = BatchOf[d] \/ status[c] = "none" \/ status[d] = "none"
OneBatchAtATime == ~crossed => OneBatchInList

\* No call is left behind at the barrier, whatever answers cross, unless batches mix:
\* a scheduled call has an undecided sibling whose decision will run
\* attemptExecutionOfScheduledCalls again, or a response is about to run it, or it is
\* one that a late answer put back while it executes.
AboutToLaunch == \E c \in Call, s \in Slot : resp[c][s].pc \in {"auto", "proceed"}
NoCallLeftBehind ==
    OneBatchInList => \A c \in Call : status[c] = "scheduled" =>
        AboutToLaunch \/ InFlight(c) \/ \E d \in Call : status[d] \in Undecided

\* A tool runs only after it, a setting or an answer allowed it.
OnlyGrantedCallsRun == \A c \in Call : starts[c] > 0 => c \in granted

-----------------------------------------------------------------------------
(* What a step may never do.                                               *)

\* A call the loop has not reached when its batch is aborted is never validated, asked
\* about or started: it waits in the list until it is cancelled.
AbortedCallsStop ==
    [][\A c \in Call : status[c] = "validating" /\ ~Validating(c) /\ BatchOf[c] \in aborted
                       => \/ status'[c] = "validating" /\ ~Validating(c)'
                          \/ "cancelled" \in {status'[c], verdict'[c]}]_vars

\* A call that was refused at the prompt is not started any more, whatever other
\* answers are at work on it and on its siblings.
RefusalsStand == [][\A c \in refused : starts'[c] = starts[c]]_vars

\* Once decided, a result stays as it is until it is reported, and what was
\* reported once is never reported again.  The one exception is in the code:
\* setArgsInternal spares errored calls only, so arguments that come late from
\* an editor or a client and are invalid turn any other result into an error.
ArgsPending(c) == \E s \in Slot : resp[c][s].pc \in {"editor", "inline"}

ResultsAreFinal ==
    [][\A c \in Call :
          /\ status[c] \in Terminal =>
                \/ status'[c] = status[c] \/ verdict'[c] = status[c]
                \/ ArgsPending(c) /\ "error" \in {status'[c], verdict'[c]}
          /\ verdict[c] # "none" => verdict'[c] = verdict[c] /\ c \notin InList(status')]_vars

-----------------------------------------------------------------------------
(* The contract of ToolBatches, from the list and the queue of this module.     *)

Contract == INSTANCE ToolBatches WITH
    line <- queue, open <- InList(status)

\* Every behaviour of the scheduler is one its contract allows.
ImplementsContract == Contract!BSpec

-----------------------------------------------------------------------------
(* Liveness, for a user who answers every prompt in the end.               *)

Decides(c) == \E o \in {"ProceedOnce", "ProceedAlways", "Cancel"} : UiAnswers(c, o)

Fairness ==
    /\ \A c \in Call :
          WF_vars(Validation(c)) /\ WF_vars(Decides(c)) /\ WF_vars(ModeAnswers(c))
    /\ \A c \in Call, b \in Batch : WF_vars(Execution(c, b))
    /\ \A c \in Call, s \in Slot : WF_vars(Resumed(c, s))
    /\ WF_vars(HandlerReturns)

FairSpec == Spec /\ Fairness

\* Every call of a batch that was begun is reported, unless batches mix.
EveryCallIsReported ==
    \A c \in Call : phase[BatchOf[c]] = "begun" ~> verdict[c] # "none" \/ ~OneBatchInList

\* A queued batch is begun, or rejected because of its abort.
QueuedBatchIsBegun ==
    \A b \in Batch : phase[b] = "queued" ~> phase[b] \in {"begun", "rejected"}

=============================================================================
