------------------------ MODULE ToolScheduler_proofs ------------------------
(***************************************************************************)
(* Proofs about ToolScheduler for every set of calls, batches and kinds.   *)
(***************************************************************************)
EXTENDS ToolScheduler, SequenceTheorems, TLAPS

-----------------------------------------------------------------------------
(* What the helpers return.                                                *)

\* setStatusInternal keeps the list well formed.
LEMMA SetStatusType ==
    ASSUME NEW st \in [Call -> Status], NEW c \in Call, NEW s \in Status
    PROVE  SetStatus(st, c, s) \in [Call -> Status]
BY DEF SetStatus

\* The report of a complete list names results only.
LEMMA DeliverType ==
    ASSUME TypeOK, NEW st \in [Call -> Status], NEW h \in SUBSET Call,
           Complete(st), Deliver(st, h)
    PROVE  /\ status' \in [Call -> Status]
           /\ handed' \subseteq Call
           /\ verdict' \in [Call -> Terminal \cup {"none"}]
BY DEF TypeOK, Deliver, Complete, InList, Status

LEMMA NotifyType ==
    ASSUME TypeOK, NEW st \in [Call -> Status], Notify(st)
    PROVE  /\ status' \in [Call -> Status]
           /\ handed' \subseteq Call
           /\ verdict' \in [Call -> Terminal \cup {"none"}]
<1>1. CASE Complete(st)
  BY <1>1, DeliverType DEF Notify, TypeOK
<1>2. CASE ~Complete(st)
  BY <1>2 DEF Notify, TypeOK
<1> QED BY <1>1, <1>2

LEMMA LaunchType ==
    ASSUME TypeOK, NEW st \in [Call -> Status], NEW b \in Batch, NEW h \in SUBSET Call,
           Launch(st, b, h)
    PROVE  /\ status' \in [Call -> Status]
           /\ handed' \subseteq Call
           /\ verdict' \in [Call -> Terminal \cup {"none"}]
           /\ running' \in [Call -> [Batch -> Nat]]
           /\ starts' \in [Call -> Nat]
<1>1. CASE Complete(st)
  BY <1>1, DeliverType DEF Launch, TypeOK
<1>2. CASE ~Complete(st)
  <2> DEFINE go == IF AllReady(st) THEN {c \in Call : st[c] = "scheduled"} ELSE {}
  <2>1. /\ status' = [c \in Call |-> IF c \in go THEN "executing" ELSE st[c]]
        /\ handed' = h
        /\ running' = [c \in Call |-> IF c \in go
                         THEN [running[c] EXCEPT ![b] = @ + 1] ELSE running[c]]
        /\ starts' = [c \in Call |-> IF c \in go THEN starts[c] + 1 ELSE starts[c]]
        /\ verdict' = verdict
    BY <1>2 DEF Launch
  <2> HIDE DEF go
  <2>2. status' \in [Call -> Status]
    BY <2>1 DEF Status
  <2>3. running' \in [Call -> [Batch -> Nat]]
    BY <2>1 DEF TypeOK
  <2>4. starts' \in [Call -> Nat]
    BY <2>1 DEF TypeOK
  <2> QED BY <2>1, <2>2, <2>3, <2>4 DEF TypeOK
<1> QED BY <1>1, <1>2

LEMMA ContinueType ==
    ASSUME TypeOK, NEW st \in [Call -> Status], NEW b \in Batch, NEW h \in SUBSET Call,
           Continue(st, b, h)
    PROVE  /\ status' \in [Call -> Status]
           /\ scheduling' \in Batch \cup {NoBatch}
           /\ asks' \in BOOLEAN
           /\ handed' \subseteq Call
           /\ verdict' \in [Call -> Terminal \cup {"none"}]
           /\ running' \in [Call -> [Batch -> Nat]]
           /\ starts' \in [Call -> Nat]
<1> DEFINE rest == {c \in CallsOf(b) : st[c] = "validating"}
           stopped == [c \in Call |-> IF c \in rest THEN "cancelled" ELSE st[c]]
<1>1. CASE GoesOn(rest, b)
  BY <1>1 DEF Continue, TypeOK, Asks, CallsOf
<1>2. CASE ~GoesOn(rest, b)
  <2>1. stopped \in [Call -> Status]
    BY DEF Status, Terminal
  <2>2. Launch(stopped, b, h) /\ scheduling' = NoBatch /\ asks' = FALSE
    BY <1>2 DEF Continue
  <2> HIDE DEF stopped
  <2> QED BY <2>1, <2>2, LaunchType
<1> QED BY <1>1, <1>2

LEMMA BeginType ==
    ASSUME TypeOK, NEW b \in Batch, NEW h \in SUBSET Call, Begin(b, h)
    PROVE  /\ phase' \in [Batch -> {"unsent", "queued", "rejected", "begun"}]
           /\ status' \in [Call -> Status]
           /\ scheduling' \in Batch \cup {NoBatch}
           /\ asks' \in BOOLEAN
           /\ handed' \subseteq Call
           /\ verdict' \in [Call -> Terminal \cup {"none"}]
           /\ running' \in [Call -> [Batch -> Nat]]
           /\ starts' \in [Call -> Nat]
<1> DEFINE st(bad) == [c \in Call |-> IF c \in bad THEN "error"
                                      ELSE IF c \in CallsOf(b) THEN "validating"
                                      ELSE status[c]]
<1>1. PICK bad \in SUBSET CallsOf(b) : Continue(st(bad), b, h)
  BY DEF Begin
<1>2. st(bad) \in [Call -> Status]
  BY DEF TypeOK, Status, Terminal, Undecided
<1> HIDE DEF st
<1>3. phase' \in [Batch -> {"unsent", "queued", "rejected", "begun"}]
  BY DEF Begin, TypeOK
<1> QED BY <1>1, <1>2, <1>3, ContinueType

\* The answers in flight keep their shape.
LEMMA RespondType ==
    ASSUME TypeOK, NEW c \in Call, NEW k \in Slot, NEW r \in Response, Respond(c, k, r)
    PROVE  resp' \in [Call -> [Slot -> Response]]
BY DEF TypeOK, Respond

LEMMA IdleType == Idle \in Response
BY DEF Idle, Response, Pc, Outcome, AllChannels

LEMMA DecideType ==
    ASSUME TypeOK, NEW c \in Call, NEW k \in Slot, NEW r \in Response, NEW found,
           Decide(c, k, r, found)
    PROVE  /\ status' \in [Call -> Status]
           /\ handed' \subseteq Call
           /\ verdict' \in [Call -> Terminal \cup {"none"}]
           /\ running' \in [Call -> [Batch -> Nat]]
           /\ starts' \in [Call -> Nat]
           /\ resp' \in [Call -> [Slot -> Response]]
<1> DEFINE no == Refuses(r.outcome, BatchOf[c])
           inline == found /\ r.outcome = "ProceedWithContent" /\ KindOf[c] = "edit"
<1>0. BatchOf[c] \in Batch /\ handed \in SUBSET Call
  BY BatchAssumption DEF TypeOK
<1>1. ASSUME NEW s \in {"cancelled", "scheduled"},
             Launch(SetStatus(status, c, s), BatchOf[c], handed), Respond(c, k, Idle)
      PROVE  /\ status' \in [Call -> Status]
             /\ handed' \subseteq Call
             /\ verdict' \in [Call -> Terminal \cup {"none"}]
             /\ running' \in [Call -> [Batch -> Nat]]
             /\ starts' \in [Call -> Nat]
             /\ resp' \in [Call -> [Slot -> Response]]
  <2>1. SetStatus(status, c, s) \in [Call -> Status]
    BY <1>1, SetStatusType DEF TypeOK, Status, Terminal
  <2> QED BY <1>0, <1>1, <2>1, LaunchType, RespondType, IdleType
<1>2. CASE r.outcome = "Modify" /\ ~no /\ found
           /\ status' = SetStatus(status, c, "modifying")
           /\ Respond(c, k, [r EXCEPT !.pc = "editor"])
           /\ UNCHANGED <<handed, verdict, running, starts>>
  <2>1. status' \in [Call -> Status]
    BY <1>2, SetStatusType DEF TypeOK, Status, Undecided
  <2>2. [r EXCEPT !.pc = "editor"] \in Response
    BY DEF Response, Pc
  <2> QED BY <1>2, <2>1, <2>2, RespondType DEF TypeOK
<1>3. CASE Respond(c, k, Idle) /\ UNCHANGED <<status, handed, verdict, running, starts>>
  BY <1>3, RespondType, IdleType DEF TypeOK
<1>4. CASE /\ Respond(c, k, [r EXCEPT !.pc = "inline"])
           /\ UNCHANGED <<status, handed, verdict, running, starts>>
  <2>1. [r EXCEPT !.pc = "inline"] \in Response
    BY DEF Response, Pc
  <2> QED BY <1>4, <2>1, RespondType DEF TypeOK
<1> QED BY <1>1, <1>2, <1>3, <1>4 DEF Decide

LEMMA AfterConfirmType ==
    ASSUME TypeOK, NEW c \in Call, NEW k \in Slot, NEW r \in Response, NEW found,
           AfterConfirm(c, k, r, found)
    PROVE  /\ status' \in [Call -> Status]
           /\ handed' \subseteq Call
           /\ verdict' \in [Call -> Terminal \cup {"none"}]
           /\ running' \in [Call -> [Batch -> Nat]]
           /\ starts' \in [Call -> Nat]
           /\ resp' \in [Call -> [Slot -> Response]]
<1> DEFINE todo == Waiting(status) \ {c}
           next == [r EXCEPT !.pc = "auto", !.todo = todo, !.asks = NextAsks(todo)]
<1>1. CASE Decide(c, k, r, found)
  BY <1>1, DecideType
<1>2. CASE Respond(c, k, next) /\ UNCHANGED <<status, handed, verdict, running, starts>>
  <2>1. next \in Response
    BY DEF Response, Pc, Waiting, NextAsks, Asks
  <2> HIDE DEF next
  <2> QED BY <1>2, <2>1, RespondType DEF TypeOK
<1> QED BY <1>1, <1>2 DEF AfterConfirm

LEMMA AnswerType ==
    ASSUME TypeOK, NEW c \in Call, NEW ch \in AllChannels, NEW o \in Outcome, Answer(c, ch, o)
    PROVE  /\ status' \in [Call -> Status]
           /\ handed' \subseteq Call
           /\ verdict' \in [Call -> Terminal \cup {"none"}]
           /\ running' \in [Call -> [Batch -> Nat]]
           /\ starts' \in [Call -> Nat]
           /\ resp' \in [Call -> [Slot -> Response]]
           /\ mode' \in Mode
           /\ allowlist' \subseteq Kind
           /\ granted' \subseteq Call
           /\ refused' \subseteq Call
           /\ crossed' \in BOOLEAN
           /\ UNCHANGED <<scheduling, asks, queue, dead, phase, aborted, saving>>
<1> DEFINE r == [pc |-> "confirm", by |-> ch, outcome |-> o, todo |-> {}, asks |-> FALSE]
<1>1. r \in Response
  BY DEF Response, Pc
<1>2. /\ mode' \in Mode
      /\ allowlist' \subseteq Kind
      /\ granted' \subseteq Call
      /\ refused' \subseteq Call
      /\ UNCHANGED <<scheduling, asks, queue, dead, phase, aborted, saving>>
  BY DEF Answer, TypeOK, Mode, Kind
<1>3. crossed' \in BOOLEAN
  BY DEF Answer
<1>4. PICK k \in Slot :
          \/ c \in Waiting(status) /\ Respond(c, k, r)
             /\ UNCHANGED <<status, handed, verdict, running, starts>>
          \/ AfterConfirm(c, k, r, FALSE)
  BY DEF Answer
<1> HIDE DEF r
<1>5. CASE c \in Waiting(status) /\ Respond(c, k, r)
           /\ UNCHANGED <<status, handed, verdict, running, starts>>
  BY <1>1, <1>2, <1>3, <1>5, RespondType DEF TypeOK
<1>6. CASE AfterConfirm(c, k, r, FALSE)
  BY <1>1, <1>2, <1>3, <1>6, AfterConfirmType
<1> QED BY <1>4, <1>5, <1>6

-----------------------------------------------------------------------------
(* Type correctness.                                                       *)

LEMMA InitType == Init => TypeOK
<1> SUFFICES ASSUME Init PROVE TypeOK
  OBVIOUS
<1>1. resp \in [Call -> [Slot -> Response]]
  BY IdleType DEF Init
<1>2. status \in [Call -> Status] /\ verdict \in [Call -> Terminal \cup {"none"}]
  BY DEF Init, Status
<1>3. queue \in Seq(Batch)
  BY EmptySeq DEF Init
<1>4. mode \in Mode /\ allowlist \subseteq Kind /\ scheduling \in Batch \cup {NoBatch}
  BY DEF Init, Mode, Kind
<1>5. /\ running \in [Call -> [Batch -> Nat]]
      /\ saving \in [Call -> [Batch -> Nat]]
      /\ starts \in [Call -> Nat]
      /\ modifies \in [Call -> Nat]
      /\ switches \in Nat
  BY DEF Init
<1>6. /\ phase \in [Batch -> {"unsent", "queued", "rejected", "begun"}]
      /\ ideDiff \in [Call -> {"none", "queued", "open", "resolved", "failed"}]
      /\ pressed \in [Call -> SUBSET Outcome]
      /\ crossed \in BOOLEAN
      /\ asks \in BOOLEAN /\ dead \in BOOLEAN
  BY DEF Init
<1>7. /\ handed \subseteq Call /\ aborted \subseteq Batch /\ offered \subseteq Call
      /\ modeTodo \subseteq Call /\ granted \subseteq Call /\ refused \subseteq Call
  BY DEF Init
<1> QED BY <1>1, <1>2, <1>3, <1>4, <1>5, <1>6, <1>7 DEF TypeOK

\* Taking a request off the queue leaves a queue.
LEMMA SpliceType ==
    ASSUME NEW q \in Seq(Batch), NEW i \in 1..Len(q)
    PROVE  SubSeq(q, 1, i - 1) \o SubSeq(q, i + 1, Len(q)) \in Seq(Batch)
<1>1. Len(q) \in Nat /\ \A j \in 1..Len(q) : q[j] \in Batch
  BY LenProperties, ElementOfSeq
<1>2. SubSeq(q, 1, i - 1) \in Seq(Batch)
  BY <1>1, SubSeqProperties
<1>3. SubSeq(q, i + 1, Len(q)) \in Seq(Batch)
  BY <1>1, SubSeqProperties
<1> QED BY <1>2, <1>3, ConcatProperties

\* Schedule, Enqueue and Abort.
LEMMA RequestType ==
    ASSUME TypeOK, NEW b \in Batch, Schedule(b) \/ Enqueue(b) \/ Abort(b)
    PROVE  TypeOK'
<1>1. CASE Schedule(b)
  BY <1>1, BeginType DEF Schedule, TypeOK, users
<1>2. CASE Enqueue(b)
  BY <1>2, AppendProperties DEF Enqueue, TypeOK, work, users, history
<1>3. CASE Abort(b)
  <2>1. queue \in Seq(Batch) /\ phase' \in [Batch -> {"unsent", "queued", "rejected", "begun"}]
    BY <1>3 DEF Abort, TypeOK
  <2>2. queue' \in Seq(Batch)
    <3>1. CASE \E i \in 1..Len(queue) :
                 queue' = SubSeq(queue, 1, i - 1) \o SubSeq(queue, i + 1, Len(queue))
      BY <2>1, <3>1, SpliceType
    <3>2. CASE queue' = queue
      BY <2>1, <3>2
    <3> QED BY <1>3, <3>1, <3>2 DEF Abort
  <2> QED BY <1>3, <2>1, <2>2 DEF Abort, TypeOK, work, users, history
<1> QED BY <1>1, <1>2, <1>3

LEMMA ValidationType ==
    ASSUME TypeOK, NEW c \in Call, Validation(c)
    PROVE  TypeOK'
<1>1. scheduling \in Batch /\ handed \in SUBSET Call
  BY DEF Validation, ConfirmationNotNeeded, SettingsConfirm, AskForApproval,
         ConfirmationThrows, Validating, TypeOK
<1>2. \A s \in Status : [status EXCEPT ![c] = s] \in [Call -> Status]
  BY DEF TypeOK
<1>3. {"scheduled", "awaiting", "cancelled", "error"} \subseteq Status
  BY DEF Status, Terminal, Undecided
<1>4. CASE ConfirmationNotNeeded(c)
  BY <1>1, <1>2, <1>3, <1>4, ContinueType DEF ConfirmationNotNeeded, TypeOK, users
<1>5. CASE SettingsConfirm(c)
  BY <1>1, <1>2, <1>3, <1>5, ContinueType DEF SettingsConfirm, TypeOK, users
<1>6. CASE AskForApproval(c)
  BY <1>1, <1>2, <1>3, <1>6, ContinueType DEF AskForApproval, TypeOK
<1>7. CASE ConfirmationThrows(c)
  BY <1>1, <1>2, <1>3, <1>7, ContinueType DEF ConfirmationThrows, TypeOK, users
<1> QED BY <1>4, <1>5, <1>6, <1>7 DEF Validation

LEMMA ExecutionType ==
    ASSUME TypeOK, NEW c \in Call, NEW b \in Batch, Execution(c, b)
    PROVE  TypeOK'
<1>1. \A s \in Terminal : SetStatus(status, c, s) \in [Call -> Status]
  BY SetStatusType DEF TypeOK, Status
<1>2. running[c][b] > 0 => [running EXCEPT ![c][b] = @ - 1] \in [Call -> [Batch -> Nat]]
  BY DEF TypeOK
<1>3. saving[c][b] > 0 => [saving EXCEPT ![c][b] = @ - 1] \in [Call -> [Batch -> Nat]]
  BY DEF TypeOK
<1>4. CASE Settle(c, b)
  <2>1. PICK s \in Terminal : Notify(SetStatus(status, c, s))
    BY <1>4 DEF Settle, Terminal
  <2> QED BY <1>1, <1>2, <1>4, <2>1, NotifyType DEF Settle, TypeOK, users
<1>5. CASE SettleLongOutput(c, b)
  <2>1. running' \in [Call -> [Batch -> Nat]]
    BY <1>2, <1>5 DEF SettleLongOutput
  <2>2. saving' \in [Call -> [Batch -> Nat]]
    BY <1>5 DEF SettleLongOutput, TypeOK
  <2> QED BY <1>5, <2>1, <2>2 DEF SettleLongOutput, TypeOK, fields, users, history
<1>6. CASE OutputSaved(c, b)
  <2>1. PICK s \in Terminal : Notify(SetStatus(status, c, s))
    BY <1>6 DEF OutputSaved, Terminal
  <2> QED BY <1>1, <1>3, <1>6, <2>1, NotifyType DEF OutputSaved, TypeOK, users
<1> QED BY <1>4, <1>5, <1>6 DEF Execution

LEMMA HandlerType ==
    ASSUME TypeOK, HandlerReturns \/ HandlerThrows
    PROVE  TypeOK'
<1>1. CASE HandlerReturns
  <2>1. CASE queue = <<>>
    BY <1>1, <2>1 DEF HandlerReturns, TypeOK, users
  <2>2. CASE queue # <<>>
    <3>1. Head(queue) \in Batch /\ Tail(queue) \in Seq(Batch)
      BY <2>2, HeadTailProperties DEF TypeOK
    <3> QED BY <1>1, <2>2, <3>1, BeginType DEF HandlerReturns, TypeOK, users
  <2> QED BY <2>1, <2>2
<1>2. CASE HandlerThrows
  BY <1>2 DEF HandlerThrows, TypeOK, work, users, history
<1> QED BY <1>1, <1>2

LEMMA PromptedType ==
    ASSUME TypeOK, NEW c \in Call, Prompted(c)
    PROVE  TypeOK'
<1>1. /\ "ui" \in AllChannels /\ "mode" \in AllChannels
      /\ "ide" \in AllChannels /\ "client" \in AllChannels
  BY DEF AllChannels
<1>2. ASSUME NEW o \in Outcome, UiAnswers(c, o)
      PROVE  TypeOK'
  BY <1>1, <1>2, AnswerType, SMTT(30) DEF UiAnswers, TypeOK
<1>3. ASSUME NEW o \in Outcome, UiClosesDiff(c, o)
      PROVE  TypeOK'
  <2>1. pressed' \in [Call -> SUBSET Outcome]
    BY <1>3 DEF UiClosesDiff, TypeOK
  <2> QED BY <1>3, <2>1 DEF UiClosesDiff, TypeOK, fields, work, history
<1>4. ASSUME NEW o \in Outcome, ClientAnswers(c, o)
      PROVE  TypeOK'
  <2>1. Answer(c, "client", o)
    BY <1>4 DEF ClientAnswers
  <2>2. offered' \subseteq Call /\ modifies' \in [Call -> Nat]
    BY <1>4 DEF ClientAnswers, TypeOK
  <2>3. UNCHANGED <<ideDiff, pressed, modeTodo, switches>>
    BY <1>4 DEF ClientAnswers
  <2> QED BY <1>1, <2>1, <2>2, <2>3, AnswerType DEF TypeOK
<1>5. ASSUME NEW o \in Outcome, UiAnswersLate(c, o)
      PROVE  TypeOK'
  <2>1. Answer(c, "ui", o) /\ pressed' \in [Call -> SUBSET Outcome]
    BY <1>5 DEF UiAnswersLate, TypeOK
  <2> QED BY <1>1, <1>5, <2>1, AnswerType DEF UiAnswersLate, TypeOK
<1>7. CASE ModeAnswers(c)
  <2>1. "ProceedOnce" \in Outcome
    BY DEF Outcome
  <2> QED BY <1>1, <1>7, <2>1, AnswerType DEF ModeAnswers, TypeOK
<1>8. CASE IdeOpens(c)
  BY <1>8 DEF IdeOpens, TypeOK, fields, work, history
<1>9. ASSUME NEW accepted \in BOOLEAN, IdeResolves(c, accepted)
      PROVE  TypeOK'
  <2>1. \E o \in Outcome : Answer(c, "ide", o)
    BY <1>9 DEF IdeResolves, Outcome
  <2>2. ideDiff' \in [Call -> {"none", "queued", "open", "resolved", "failed"}]
    BY <1>9 DEF IdeResolves, TypeOK
  <2>3. UNCHANGED <<pressed, offered, modeTodo, modifies, switches>>
    BY <1>9 DEF IdeResolves
  <2> QED BY <1>1, <2>1, <2>2, <2>3, AnswerType DEF TypeOK
<1>10. CASE IdeFails(c)
  BY <1>10 DEF IdeFails, TypeOK, fields, work, history
<1> QED BY <1>2, <1>3, <1>4, <1>5, <1>7, <1>8, <1>9, <1>10 DEF Prompted

LEMMA ResumedType ==
    ASSUME TypeOK, NEW c \in Call, NEW k \in Slot, Resumed(c, k)
    PROVE  TypeOK'
<1> DEFINE r == resp[c][k]
<1>0. r \in Response /\ BatchOf[c] \in Batch /\ handed \in SUBSET Call
  BY BatchAssumption DEF TypeOK
<1>1. CASE OnConfirmReturns(c, k)
  BY <1>0, <1>1, AfterConfirmType DEF OnConfirmReturns, TypeOK, users
<1>2. CASE OnConfirmThrows(c, k)
  BY <1>2, RespondType, IdleType DEF OnConfirmThrows, TypeOK, fields, work, users, history
<1>3. ASSUME NEW d \in Call, AutoApprove(c, k, d)
      PROVE  TypeOK'
  <2> DEFINE rest == r.todo \ {d}
             next == [r EXCEPT !.todo = rest, !.asks = NextAsks(rest)]
  <2>1. next \in Response
    BY <1>0 DEF Response, NextAsks, Asks
  <2>2. Respond(c, k, next)
    BY <1>3 DEF AutoApprove
  <2> HIDE DEF next
  <2>3. resp' \in [Call -> [Slot -> Response]]
    BY <2>1, <2>2, RespondType
  <2>4. SetStatus(status, d, "scheduled") \in [Call -> Status]
    BY SetStatusType DEF TypeOK, Status
  <2>5. /\ status' \in [Call -> Status]
        /\ handed' \subseteq Call
        /\ verdict' \in [Call -> Terminal \cup {"none"}]
        /\ granted' \subseteq Call
    BY <1>3, <2>4, NotifyType DEF AutoApprove, TypeOK
  <2> QED BY <1>3, <2>3, <2>5 DEF AutoApprove, TypeOK, work, users
<1>4. CASE AutoApproveReturns(c, k)
  BY <1>0, <1>4, DecideType DEF AutoApproveReturns, TypeOK, users
<1>5. \A built \in BOOLEAN : SetArgs(status, c, built) \in [Call -> Status]
  BY DEF SetArgs, TypeOK, Status, Terminal
<1>6. \A built \in BOOLEAN : SetStatus(SetArgs(status, c, built), c, "awaiting") \in [Call -> Status]
  BY <1>5, SetStatusType DEF Status, Undecided
<1>7. CASE EditorCloses(c, k)
  BY <1>0, <1>6, <1>7, LaunchType, RespondType, IdleType DEF EditorCloses, TypeOK, users
<1>8. CASE EditorFails(c, k)
  BY <1>8, RespondType, IdleType DEF EditorFails, TypeOK, fields, work, users, history
<1>9. CASE InlineModify(c, k)
  <2>1. [r EXCEPT !.pc = "proceed"] \in Response
    BY <1>0 DEF Response, Pc
  <2> QED BY <1>6, <1>9, <2>1, NotifyType, RespondType DEF InlineModify, TypeOK, work, users
<1>10. CASE InlineModifyFails(c, k)
  BY <1>10, RespondType, IdleType DEF InlineModifyFails, TypeOK, fields, work, history
<1>11. CASE InlineProceeds(c, k)
  <2>1. SetStatus(status, c, "scheduled") \in [Call -> Status]
    BY SetStatusType DEF TypeOK, Status
  <2> QED BY <1>0, <1>11, <2>1, LaunchType, RespondType, IdleType DEF InlineProceeds, TypeOK, users
<1> QED BY <1>1, <1>2, <1>3, <1>4, <1>7, <1>8, <1>9, <1>10, <1>11 DEF Resumed

LEMMA SwitchModeType ==
    ASSUME TypeOK, NEW m \in Mode, SwitchMode(m)
    PROVE  TypeOK'
BY DEF SwitchMode, TypeOK, Mode, Waiting, fields, work, history

LEMMA StepType == TypeOK /\ [Next]_vars => TypeOK'
<1> SUFFICES ASSUME TypeOK, [Next]_vars PROVE TypeOK'
  OBVIOUS
<1>1. CASE Next
  BY <1>1, RequestType, ValidationType, PromptedType, ExecutionType, ResumedType,
     SwitchModeType, HandlerType DEF Next
<1>2. CASE UNCHANGED vars
  BY <1>2 DEF TypeOK, vars, fields, work, users, history
<1> QED BY <1>1, <1>2

\* Every reachable state of the scheduler is well typed: whatever the answers and
\* their interleaving, a call only ever has a status, a verdict and responses of
\* the kinds that coreToolScheduler.ts distinguishes.
THEOREM TypeCorrect == Spec => []TypeOK
BY InitType, StepType, PTL DEF Spec

-----------------------------------------------------------------------------
(* The inductive invariant of a scheduler whose answers do not cross,      *)
(* whoever gives them.                                                     *)

Open(st) == {c \in Call : st[c] \in Undecided}

\* A request waits in the queue once, and only before its batch is begun.
QueueInv ==
    /\ \A i \in 1..Len(queue) : phase[queue[i]] = "queued"
    /\ \A i, j \in 1..Len(queue) : queue[i] = queue[j] => i = j

\* Nothing happened to a call before its batch is begun, and nothing is left of
\* it in the list after its report.
HistoryInv ==
    \A c \in Call :
        /\ phase[BatchOf[c]] # "begun" => status[c] = "none" /\ verdict[c] = "none" /\ starts[c] = 0
        /\ verdict[c] # "none" => status[c] = "none"

\* The loop runs exactly while a call of its batch is to be validated.
LoopInv ==
    /\ \A c \in Call : status[c] = "validating" => scheduling = BatchOf[c]
    /\ scheduling # NoBatch => \E c \in Call : status[c] = "validating"

\* The barrier: the list is never complete between two steps, nothing waits once
\* execution has started ...
BarrierInv ==
    /\ ~Complete(status)
    /\ \A c, d \in Call : status[c] = "executing" =>
                          status[d] \in Terminal \cup {"none", "executing"}

\* ... and scheduled calls wait for an undecided one.
BarrierHeld == (\E c \in Call : status[c] = "scheduled") => Open(status) # {}

\* A call starts when it is decided, and its one execution keeps it executing; only
\* an execution succeeds.
Flights(st, run, sav, n) ==
    \A c \in Call :
        /\ n[c] <= 1
        /\ st[c] \in Undecided \cup {"scheduled"} => n[c] = 0
        /\ st[c] \in {"executing", "success"} => n[c] = 1
        /\ \A b \in Batch :
              /\ run[c][b] + sav[c][b] <= 1
              /\ run[c][b] + sav[c][b] > 0 => st[c] = "executing"
              /\ \A d \in Batch : /\ run[c][b] + sav[c][b] > 0
                                  /\ run[c][d] + sav[c][d] > 0
                                  => b = d
FlightInv == Flights(status, running, saving, starts)

\* One answer is at work, for a call that waits and stays undecided until the answer
\* is done, and its snapshot is of waiting calls.  Behind the content a client sent
\* the call may have its result, or be gone.
AnswerInv ==
    /\ \A c, d \in Call, k, l \in Slot : AtWork(c, k) /\ AtWork(d, l) => c = d /\ k = l
    /\ \A c \in Call, k \in Slot : AtWork(c, k) =>
          /\ phase[BatchOf[c]] = "begun"
          /\ status[c] \notin {"validating", "scheduled", "executing"}
          /\ resp[c][k].pc # "proceed" =>
                c \in Waiting(status) /\ resp[c][k].todo \subseteq Waiting(status) \ {c}

Proceeding == \E c \in Call, k \in Slot : resp[c][k].pc = "proceed"

IInv == /\ TypeOK /\ QueueInv /\ HistoryInv /\ LoopInv /\ BarrierInv
        /\ FlightInv /\ AnswerInv
        /\ BarrierHeld \/ Proceeding
        /\ ListFreeWhileFinalizing /\ OneBatchInList

\* A list st that a step may leave to attemptExecutionOfScheduledCalls.
Ready(st) ==
    /\ Flights(st, running, saving, starts)
    /\ \A c \in Call : verdict[c] # "none" => st[c] = "none"
    /\ \A c, d \in Call : st[c] = "executing" => st[d] \in Terminal \cup {"none", "executing"}

\* What becomes of it: the invariants of the list and of the executions hold, an
\* undecided list stays as it is, and a decided one has nothing undecided.
Effect(st, h) ==
    /\ BarrierInv' /\ FlightInv'
    /\ Open(st) # {} => status' = st
    /\ Open(st) = {} => Open(status') = {}
    /\ \A c \in Call :
          /\ status'[c] # "none" => st[c] # "none"
          /\ verdict'[c] # "none" => status'[c] = "none" /\ (verdict[c] # "none" \/ st[c] # "none")
          /\ starts'[c] # starts[c] => st[c] # "none"
          /\ st[c] \in Terminal \cup {"none"} => status'[c] \in {st[c], "none"}
    /\ handed' = h \/ InList(status') = {}

LEMMA DeliverInv ==
    ASSUME TypeOK, NEW st \in [Call -> Status], NEW h \in SUBSET Call, Ready(st),
           Complete(st), Deliver(st, h), UNCHANGED <<running, starts, saving>>
    PROVE  Effect(st, h) /\ BarrierHeld'
<1>1. \A c \in Call : status'[c] = "none" /\ st[c] \in Terminal \cup {"none"}
  BY DEF Deliver, Complete, InList
<1>2. BarrierInv' /\ BarrierHeld'
  BY <1>1 DEF BarrierInv, BarrierHeld, Complete, InList
<1>3. FlightInv'
  <2>1. \A c \in Call, b \in Batch : ~(running[c][b] + saving[c][b] > 0)
    BY <1>1 DEF Ready, Flights, Terminal
  <2> QED BY <1>1, <2>1 DEF FlightInv, Flights, Ready, Undecided
<1>4. Open(st) = {} /\ Open(status') = {}
  BY <1>1 DEF Open, Undecided, Terminal
<1>5. InList(status') = {}
  BY <1>1 DEF InList
<1> QED BY <1>1, <1>2, <1>3, <1>4, <1>5 DEF Effect, Deliver

LEMMA LaunchInv ==
    ASSUME TypeOK, NEW st \in [Call -> Status], NEW b \in Batch, NEW h \in SUBSET Call,
           Ready(st), Launch(st, b, h), saving' = saving
    PROVE  Effect(st, h) /\ BarrierHeld'
<1>1. CASE Complete(st)
  BY <1>1, DeliverInv DEF Launch
<1>2. CASE ~Complete(st)
  <2> DEFINE go == IF AllReady(st) THEN {c \in Call : st[c] = "scheduled"} ELSE {}
  <2>1. /\ status' = [c \in Call |-> IF c \in go THEN "executing" ELSE st[c]]
        /\ handed' = h /\ verdict' = verdict
        /\ running' = [c \in Call |-> IF c \in go
                         THEN [running[c] EXCEPT ![b] = @ + 1] ELSE running[c]]
        /\ starts' = [c \in Call |-> IF c \in go THEN starts[c] + 1 ELSE starts[c]]
    BY <1>2 DEF Launch
  <2> HIDE DEF go
  <2>2. \A c \in Call : ~(st[c] = "executing") =>
            \A d \in Batch : running[c][d] = 0 /\ saving[c][d] = 0
    BY DEF Ready, Flights, TypeOK
  <2>3. CASE AllReady(st)
    <3>1. \A c \in Call : st[c] \in Terminal \cup {"none", "scheduled"}
      BY <2>3 DEF AllReady, InList
    <3>2. \A c \in Call : c \in go <=> st[c] = "scheduled"
      BY <2>3 DEF go
    <3>3. \A c \in Call : status'[c] \in Terminal \cup {"none", "executing"}
      BY <2>1, <3>1, <3>2
    <3>4. Open(st) = {} /\ Open(status') = {}
      BY <3>1, <3>3 DEF Open, Undecided, Terminal
    <3>5. ~Complete(status')
      <4> SUFFICES ASSUME Complete(status') PROVE FALSE
        OBVIOUS
      <4>1. \A c \in Call : c \notin go
        BY <2>1 DEF Complete, InList, Terminal
      <4>2. status' = st
        BY <2>1, <4>1
      <4> QED BY <1>2, <4>2
    <3>6. BarrierInv' /\ BarrierHeld'
      BY <3>3, <3>5 DEF BarrierInv, BarrierHeld, Terminal
    <3>7. FlightInv'
      <4> SUFFICES ASSUME NEW c \in Call
                   PROVE  /\ starts'[c] <= 1
                          /\ status'[c] \notin Undecided \cup {"scheduled"}
                          /\ status'[c] \in {"executing", "success"} => starts'[c] = 1
                          /\ \A d \in Batch :
                                /\ running'[c][d] + saving'[c][d] <= 1
                                /\ running'[c][d] + saving'[c][d] > 0 => status'[c] = "executing"
                                /\ \A e \in Batch : /\ running'[c][d] + saving'[c][d] > 0
                                                    /\ running'[c][e] + saving'[c][e] > 0
                                                    => d = e
        BY DEF FlightInv, Flights
      <4>1. status'[c] \notin Undecided \cup {"scheduled"}
        BY <3>3 DEF Undecided, Terminal
      <4>2. \A d \in Batch : running[c][d] = 0 /\ saving[c][d] = 0
        BY <2>2, <3>1 DEF Terminal
      <4>3. CASE c \in go
        <5>1. starts'[c] = 1 /\ status'[c] = "executing"
          BY <2>1, <3>2, <4>3 DEF Ready, Flights, Undecided, TypeOK
        <5>2. \A d \in Batch : running'[c][d] = IF d = b THEN 1 ELSE 0
          BY <2>1, <4>2, <4>3 DEF TypeOK
        <5> QED BY <4>1, <4>2, <5>1, <5>2
      <4>4. CASE c \notin go
        BY <2>1, <4>1, <4>2, <4>4 DEF Ready, Flights
      <4> QED BY <4>3, <4>4
    <3>8. \A c \in Call : /\ status'[c] # "none" => st[c] # "none"
                         /\ starts'[c] # starts[c] => st[c] # "none"
      BY <2>1, <3>2
    <3>9. \A c \in Call : st[c] \in Terminal \cup {"none"} => status'[c] = st[c]
      BY <2>1, <3>2 DEF Terminal
    <3> QED BY <2>1, <3>4, <3>6, <3>7, <3>8, <3>9 DEF Effect, Ready
  <2>4. CASE ~AllReady(st)
    <3>1. go = {} /\ status' = st /\ running' = running /\ starts' = starts
      BY <2>1, <2>4 DEF go, TypeOK
    <3>2. (\E c \in Call : st[c] = "scheduled") => Open(st) # {}
      BY <2>4 DEF AllReady, InList, Open, Ready, Terminal, Status
    <3>3. BarrierInv' /\ BarrierHeld'
      BY <1>2, <3>1, <3>2 DEF BarrierInv, BarrierHeld, Ready, Open
    <3>4. FlightInv'
      BY <3>1 DEF FlightInv, Ready
    <3> QED BY <2>1, <3>1, <3>3, <3>4 DEF Effect, Ready
  <2> QED BY <2>3, <2>4
<1> QED BY <1>1, <1>2

\* A step that may report the list but starts nothing.
LEMMA NotifyInv ==
    ASSUME TypeOK, NEW st \in [Call -> Status], Notify(st), starts' = starts,
           Flights(st, running', saving', starts),
           running' \in [Call -> [Batch -> Nat]], saving' \in [Call -> [Batch -> Nat]],
           \A c \in Call : verdict[c] # "none" => st[c] = "none",
           \A c, d \in Call : st[c] = "executing" => st[d] \in Terminal \cup {"none", "executing"}
    PROVE  /\ Effect(st, handed)
           /\ ((\E c \in Call : st[c] = "scheduled") => Open(st) # {}) => BarrierHeld'
<1>1. CASE Complete(st)
  <2>1. \A c \in Call : status'[c] = "none" /\ st[c] \in Terminal \cup {"none"}
    BY <1>1 DEF Notify, Deliver, Complete, InList
  <2>2. BarrierInv' /\ BarrierHeld'
    BY <2>1 DEF BarrierInv, BarrierHeld, Complete, InList
  <2>3. FlightInv'
    <3>1. \A c \in Call, b \in Batch : ~(running'[c][b] + saving'[c][b] > 0)
      BY <2>1 DEF Flights, Terminal
    <3> QED BY <2>1, <3>1 DEF FlightInv, Flights, Undecided
  <2>4. Open(st) = {} /\ Open(status') = {} /\ InList(status') = {}
    BY <2>1 DEF Open, InList, Undecided, Terminal
  <2> QED BY <1>1, <2>1, <2>2, <2>3, <2>4 DEF Effect, Notify, Deliver
<1>2. CASE ~Complete(st)
  <2>1. status' = st /\ UNCHANGED <<handed, verdict>>
    BY <1>2 DEF Notify
  <2>2. BarrierInv'
    BY <1>2, <2>1 DEF BarrierInv
  <2>3. FlightInv'
    BY <2>1 DEF FlightInv
  <2>4. ((\E c \in Call : st[c] = "scheduled") => Open(st) # {}) => BarrierHeld'
    BY <2>1 DEF BarrierHeld, Open
  <2> QED BY <2>1, <2>2, <2>3, <2>4 DEF Effect
<1> QED BY <1>1, <1>2

\* Steps of answers and executions leave the loop, the queue and the batches alone,
\* and neither bring a call into the list nor make one a call to be validated.
LEMMA ListStep ==
    ASSUME IInv, NEW st \in [Call -> Status], Effect(st, handed),
           UNCHANGED <<queue, phase, scheduling>>,
           \A c \in Call : /\ st[c] = "validating" <=> status[c] = "validating"
                           /\ st[c] # "none" <=> status[c] # "none"
    PROVE  /\ QueueInv' /\ HistoryInv' /\ LoopInv' /\ BarrierInv' /\ FlightInv'
           /\ ListFreeWhileFinalizing' /\ OneBatchInList'
<1>1. QueueInv'
  BY DEF IInv, QueueInv
<1>2. HistoryInv'
  BY DEF IInv, HistoryInv, Effect
<1>3. scheduling # NoBatch => status' = st
  BY DEF IInv, LoopInv, Effect, Open, Undecided
<1>4. \A c \in Call : status'[c] = "validating" => status[c] = "validating"
  BY DEF Effect, Open, Undecided
<1>5. LoopInv'
  BY <1>3, <1>4 DEF IInv, LoopInv
<1>6. ListFreeWhileFinalizing'
  <2> SUFFICES ASSUME handed' # {} PROVE InList(status') = {} /\ scheduling = NoBatch
    BY DEF ListFreeWhileFinalizing
  <2>1. CASE handed' = handed
    BY <2>1 DEF IInv, ListFreeWhileFinalizing, InList, Effect
  <2>2. CASE InList(status') = {}
    BY <1>3, <2>2 DEF IInv, LoopInv, InList
  <2> QED BY <2>1, <2>2 DEF Effect
<1>7. OneBatchInList'
  BY DEF IInv, OneBatchInList, Effect
<1> QED BY <1>1, <1>2, <1>5, <1>6, <1>7 DEF Effect

\* Nothing is between the client's content and its approval when a key is pressed.
LEMMA DrainedIsQuiet ==
    ASSUME Drained, NEW c \in Call, NEW k \in Slot
    PROVE  resp[c][k].pc # "proceed"
<1>1. CASE resp[c][k].pc = "confirm"
  BY <1>1
<1>2. CASE resp[c][k].pc = "auto"
  BY <1>2
<1>3. CASE resp[c][k].pc # "confirm" /\ resp[c][k].pc # "auto"
  BY <1>3 DEF Drained
<1> QED BY <1>1, <1>2, <1>3

\* Between two batches the list is empty.
LEMMA EmptyList ==
    ASSUME IInv, scheduling = NoBatch, Drained,
           \A c \in Call : status[c] \notin {"executing", "awaiting", "modifying"}
    PROVE  \A c \in Call : status[c] = "none"
<1>0. BarrierHeld
  BY DrainedIsQuiet DEF IInv, Proceeding
<1>1. \A c \in Call : BatchOf[c] # NoBatch
  BY BatchAssumption
<1>2. Open(status) = {}
  BY <1>1 DEF IInv, LoopInv, Open, Undecided
<1>3. \A c \in Call : status[c] \in Terminal \cup {"none"}
  BY <1>0, <1>2 DEF IInv, TypeOK, Status, BarrierHeld, Open
<1> QED BY <1>3 DEF IInv, BarrierInv, Complete, InList

\* One segment of the loop.
LEMMA ContinueInv ==
    ASSUME IInv, NEW st \in [Call -> Status], NEW b \in Batch, NEW h \in SUBSET Call,
           Ready(st), Continue(st, b, h), saving' = saving,
           h = {},
           \A c \in Call : st[c] = "validating" => BatchOf[c] = b,
           \A c \in Call : st[c] # "none" => BatchOf[c] = b
    PROVE  /\ BarrierInv' /\ BarrierHeld' /\ FlightInv' /\ LoopInv'
           /\ ListFreeWhileFinalizing' /\ OneBatchInList'
           /\ \A c \in Call : /\ status'[c] # "none" => st[c] # "none"
                              /\ status'[c] = "validating" => st[c] = "validating"
                              /\ verdict'[c] # "none" =>
                                    status'[c] = "none" /\ (verdict[c] # "none" \/ st[c] # "none")
                              /\ starts'[c] # starts[c] => st[c] # "none"
                              /\ st[c] \in Terminal \cup {"none"} =>
                                    status'[c] \in {st[c], "none"}
           /\ Waiting(st) # {} => Waiting(status') = Waiting(st)
           /\ Waiting(status') \subseteq Waiting(st)
<1> DEFINE rest == {c \in CallsOf(b) : st[c] = "validating"}
           stopped == [c \in Call |-> IF c \in rest THEN "cancelled" ELSE st[c]]
<1>1. CASE GoesOn(rest, b)
  <2>1. /\ status' = st /\ scheduling' = b /\ handed' = {} /\ rest # {}
        /\ UNCHANGED <<running, starts, verdict>>
    BY <1>1 DEF Continue, GoesOn
  <2>2. PICK c \in Call : st[c] = "validating"
    BY <2>1 DEF CallsOf
  <2>3. BarrierInv' /\ BarrierHeld'
    BY <2>1, <2>2 DEF BarrierInv, BarrierHeld, Ready, Complete, InList, Open, Undecided, Terminal
  <2>4. FlightInv'
    BY <2>1 DEF FlightInv, Ready
  <2>5. LoopInv'
    BY <2>1, <2>2 DEF LoopInv
  <2>6. ListFreeWhileFinalizing' /\ OneBatchInList'
    BY <2>1 DEF ListFreeWhileFinalizing, OneBatchInList
  <2> QED BY <2>1, <2>3, <2>4, <2>5, <2>6 DEF Ready
<1>2. CASE ~GoesOn(rest, b)
  <2>1. stopped \in [Call -> Status] /\ \A c \in Call : stopped[c] # "validating"
    BY DEF Status, Terminal, CallsOf
  <2>2. Launch(stopped, b, {}) /\ scheduling' = NoBatch
    BY <1>2 DEF Continue
  <2>3. \A c \in Call : stopped[c] = IF c \in rest THEN "cancelled" ELSE st[c]
    OBVIOUS
  <2> HIDE DEF stopped
  <2>4. Ready(stopped)
    <3>1. Flights(stopped, running, saving, starts)
      BY <2>3 DEF Ready, Flights, Undecided
    <3> QED BY <2>3, <3>1 DEF Ready, Terminal
  <2>5. Effect(stopped, {}) /\ BarrierHeld'
    BY <2>1, <2>2, <2>4, LaunchInv DEF IInv
  <2>6. \A c \in Call : status'[c] # "validating"
    BY <2>1, <2>5 DEF Effect, Open, Undecided
  <2>7. LoopInv'
    BY <2>2, <2>6 DEF LoopInv
  <2>8. \A c \in Call : stopped[c] # "none" => st[c] # "none"
    BY <2>3
  <2>9. ListFreeWhileFinalizing' /\ OneBatchInList'
    BY <2>2, <2>5, <2>8 DEF ListFreeWhileFinalizing, OneBatchInList, Effect
  <2>10. Waiting(stopped) = Waiting(st)
    BY <2>3 DEF Waiting
  <2>11. Waiting(st) # {} => Waiting(status') = Waiting(st)
    BY <2>5, <2>10 DEF Effect, Waiting, Open, Undecided
  <2>12. Waiting(status') \subseteq Waiting(st)
    BY <2>5, <2>10 DEF Effect, Waiting, Open, Undecided
  <2>13. \A c \in Call : st[c] \in Terminal \cup {"none"} => stopped[c] = st[c]
    BY <2>3 DEF Terminal
  <2> QED BY <2>5, <2>6, <2>7, <2>8, <2>9, <2>11, <2>12, <2>13 DEF Effect
<1> QED BY <1>1, <1>2

\* The first segment of the loop, on an empty list.
LEMMA BeginInv ==
    ASSUME IInv, NEW b \in Batch, phase[b] # "begun",
           \A c \in Call : status[c] = "none",
           Begin(b, {}), UNCHANGED <<saving, resp>>
    PROVE  /\ HistoryInv' /\ BarrierInv' /\ BarrierHeld' /\ FlightInv' /\ LoopInv' /\ AnswerInv'
           /\ ListFreeWhileFinalizing' /\ OneBatchInList'
<1>1. PICK bad \in SUBSET CallsOf(b) :
          Continue([c \in Call |-> IF c \in bad THEN "error"
                                   ELSE IF c \in CallsOf(b) THEN "validating"
                                   ELSE status[c]], b, {})
  BY DEF Begin
<1> DEFINE st == [c \in Call |-> IF c \in bad THEN "error"
                                 ELSE IF c \in CallsOf(b) THEN "validating"
                                 ELSE status[c]]
<1>2. st \in [Call -> Status]
  BY DEF IInv, TypeOK, Status, Terminal, Undecided
<1>3. \A c \in Call : /\ st[c] \in {"none", "error", "validating"}
                      /\ st[c] # "none" => BatchOf[c] = b
  BY DEF CallsOf
<1>4. Continue(st, b, {})
  BY <1>1
<1> HIDE DEF st
<1>5. \A c \in Call : verdict[c] # "none" => st[c] = "none"
  BY <1>3 DEF IInv, HistoryInv
<1>6. Ready(st)
  <2>1. Flights(st, running, saving, starts)
    BY <1>3 DEF IInv, FlightInv, Flights, HistoryInv, Undecided
  <2> QED BY <1>3, <1>5, <2>1 DEF Ready
<1>7. /\ BarrierInv' /\ BarrierHeld' /\ FlightInv' /\ LoopInv'
      /\ ListFreeWhileFinalizing' /\ OneBatchInList'
      /\ \A c \in Call : /\ status'[c] # "none" => st[c] # "none"
                         /\ verdict'[c] # "none" =>
                               status'[c] = "none" /\ (verdict[c] # "none" \/ st[c] # "none")
                         /\ starts'[c] # starts[c] => st[c] # "none"
      /\ Waiting(status') \subseteq Waiting(st)
  BY <1>2, <1>3, <1>4, <1>6, ContinueInv
<1>8. HistoryInv'
  <2>1. \A d \in Batch : phase'[d] # "begun" => d # b /\ phase[d] # "begun"
    BY DEF Begin, IInv, TypeOK
  <2>2. \A c \in Call : BatchOf[c] \in Batch
    BY BatchAssumption
  <2> QED BY <1>3, <1>7, <2>1, <2>2 DEF IInv, HistoryInv
<1>9. AnswerInv'
  <2>1. \A d \in Batch : phase[d] = "begun" => d # b /\ phase'[d] = "begun"
    BY DEF Begin, IInv, TypeOK
  <2>2. ASSUME NEW c \in Call, NEW k \in Slot, AtWork(c, k)
        PROVE  phase'[BatchOf[c]] = "begun" /\ status'[c] = "none" /\ resp[c][k].pc = "proceed"
    <3>1. phase[BatchOf[c]] = "begun" /\ BatchOf[c] \in Batch /\ resp[c][k].pc = "proceed"
      BY <2>2, BatchAssumption DEF IInv, AnswerInv, Waiting
    <3>2. st[c] = "none"
      BY <1>3, <2>1, <3>1
    <3> QED BY <1>7, <2>1, <3>1, <3>2
  <2> QED BY <2>2 DEF IInv, AnswerInv, AtWork
<1> QED BY <1>7, <1>8, <1>9

-----------------------------------------------------------------------------
(* The actions, one by one.                                                 *)

LEMMA InitInv == Init => IInv
<1> SUFFICES ASSUME Init PROVE IInv
  OBVIOUS
<1>1. TypeOK
  BY InitType
<1>2. QueueInv /\ HistoryInv /\ LoopInv
  BY DEF Init, QueueInv, HistoryInv, LoopInv
<1>3. BarrierInv /\ BarrierHeld
  BY DEF Init, BarrierInv, BarrierHeld, Complete, InList
<1>4. FlightInv
  BY DEF Init, FlightInv, Flights
<1>5. AnswerInv
  BY DEF Init, AnswerInv, AtWork, Idle
<1>6. ListFreeWhileFinalizing /\ OneBatchInList
  BY DEF Init, ListFreeWhileFinalizing, OneBatchInList
<1> QED BY <1>1, <1>2, <1>3, <1>4, <1>5, <1>6 DEF IInv

\* Withdrawing a request keeps the others distinct and waiting.
LEMMA SpliceInv ==
    ASSUME NEW q \in Seq(Batch), NEW i \in 1..Len(q),
           \A m, n \in 1..Len(q) : q[m] = q[n] => m = n
    PROVE  LET t == SubSeq(q, 1, i - 1) \o SubSeq(q, i + 1, Len(q))
           IN  /\ \A m \in 1..Len(t) : \E n \in 1..Len(q) : n # i /\ t[m] = q[n]
               /\ \A m, n \in 1..Len(t) : t[m] = t[n] => m = n
<1>1. Len(q) \in Nat /\ \A j \in 1..Len(q) : q[j] \in Batch
  BY LenProperties, ElementOfSeq
<1>a. PICK u, v, t : u = SubSeq(q, 1, i - 1) /\ v = SubSeq(q, i + 1, Len(q)) /\ t = u \o v
  OBVIOUS
<1>2. /\ u \in Seq(Batch) /\ Len(u) = i - 1
      /\ \A j \in 1..(i - 1) : u[j] = q[j]
  BY <1>1, <1>a, SubSeqProperties
<1>3. /\ v \in Seq(Batch) /\ Len(v) = Len(q) - i
      /\ \A j \in 1..(Len(q) - i) : v[j] = q[i + j]
  BY <1>1, <1>a, SubSeqProperties
<1>4. /\ Len(t) = Len(q) - 1
      /\ \A j \in 1..Len(t) : t[j] = IF j < i THEN q[j] ELSE q[j + 1]
  <2>1. /\ Len(t) = Len(u) + Len(v)
        /\ \A j \in 1..(Len(u) + Len(v)) : t[j] = IF j <= Len(u) THEN u[j] ELSE v[j - Len(u)]
    <3>0. u \in Seq(Batch) /\ v \in Seq(Batch)
      BY <1>2, <1>3
    <3>1. Len(u \o v) = Len(u) + Len(v)
      BY <3>0, ConcatProperties
    <3>2. \A j \in 1..(Len(u) + Len(v)) :
              (u \o v)[j] = IF j <= Len(u) THEN u[j] ELSE v[j - Len(u)]
      BY <3>0, ConcatProperties, Zenon
    <3> QED BY <1>a, <3>1, <3>2
  <2>2. Len(t) = Len(q) - 1
    BY <1>1, <1>2, <1>3, <2>1
  <2>3. ASSUME NEW j \in 1..Len(t)
        PROVE  t[j] = IF j < i THEN q[j] ELSE q[j + 1]
    <3>1. t[j] = IF j <= i - 1 THEN u[j] ELSE v[j - (i - 1)]
      BY <1>1, <1>2, <1>3, <2>1, <2>2
    <3>2. CASE j < i
      BY <1>1, <1>2, <3>1, <3>2
    <3>3. CASE ~(j < i)
      <4>1. j - (i - 1) \in 1..(Len(q) - i) /\ i + (j - (i - 1)) = j + 1
        BY <1>1, <2>2, <3>3
      <4> QED BY <1>1, <1>3, <3>1, <3>3, <4>1
    <3> QED BY <3>2, <3>3
  <2> QED BY <2>2, <2>3
<1>5. \A m \in 1..Len(t) : \E n \in 1..Len(q) : n # i /\ t[m] = q[n]
  <2> TAKE m \in 1..Len(t)
  <2>1. CASE m < i
    BY <1>1, <1>4, <2>1
  <2>2. CASE ~(m < i)
    BY <1>1, <1>4, <2>2
  <2> QED BY <2>1, <2>2
<1>6. ASSUME NEW m \in 1..Len(t), NEW n \in 1..Len(t), t[m] = t[n]
      PROVE  m = n
  <2> DEFINE at(j) == IF j < i THEN j ELSE j + 1
  <2>1. at(m) \in 1..Len(q) /\ at(n) \in 1..Len(q) /\ q[at(m)] = q[at(n)]
    BY <1>1, <1>4, <1>6
  <2>2. at(m) = at(n)
    <3> HIDE DEF at
    <3> QED BY <2>1
  <2> QED BY <1>1, <1>4, <2>2
<1> QED BY <1>a, <1>5, <1>6

\* A step that touches neither the list nor an answer.
LEMMA SameList ==
    ASSUME IInv, UNCHANGED <<status, scheduling, handed, verdict, starts, running, saving,
                             resp>>,
           \A b \in Batch : phase[b] = "begun" => phase'[b] = "begun"
    PROVE  /\ HistoryInv' /\ BarrierInv' /\ FlightInv' /\ LoopInv' /\ AnswerInv'
           /\ (BarrierHeld \/ Proceeding)'
           /\ ListFreeWhileFinalizing' /\ OneBatchInList'
<1>1. \A c \in Call : BatchOf[c] \in Batch
  BY BatchAssumption
<1>2. HistoryInv' /\ LoopInv'
  BY <1>1 DEF IInv, HistoryInv, LoopInv
<1>3. BarrierInv'
  BY DEF IInv, BarrierInv
<1>4. FlightInv'
  BY DEF IInv, FlightInv
<1>5. AnswerInv' /\ (BarrierHeld \/ Proceeding)'
  BY <1>1 DEF IInv, AnswerInv, AtWork, BarrierHeld, Proceeding
<1>6. ListFreeWhileFinalizing' /\ OneBatchInList'
  BY DEF IInv, ListFreeWhileFinalizing, OneBatchInList
<1> QED BY <1>2, <1>3, <1>4, <1>5, <1>6

\* Requests wait once, and only before their batch is begun: schedule() and its abort
\* handler ...
LEMMA RequestQueue ==
    ASSUME TypeOK, QueueInv, NEW b \in Batch, Schedule(b) \/ Enqueue(b) \/ Abort(b)
    PROVE  /\ QueueInv'
           /\ \A d \in Batch : phase[d] = "begun" => phase'[d] = "begun"
<1>1. CASE Schedule(b)
  BY <1>1 DEF Schedule, Begin, TypeOK, QueueInv
<1>2. CASE Enqueue(b)
  <2>1. /\ Len(queue') = Len(queue) + 1 /\ Len(queue) \in Nat
        /\ \A i \in 1..Len(queue) : queue'[i] = queue[i] /\ queue[i] \in Batch
        /\ queue'[Len(queue) + 1] = b
    BY <1>2, AppendProperties, LenProperties, ElementOfSeq DEF Enqueue, TypeOK
  <2>2. \A i \in 1..Len(queue) : queue[i] # b
    BY <1>2 DEF Enqueue, QueueInv
  <2>3. phase' = [phase EXCEPT ![b] = "queued"] /\ phase[b] = "unsent"
    BY <1>2 DEF Enqueue
  <2>4. /\ phase'[b] = "queued"
        /\ \A i \in 1..Len(queue) : phase'[queue[i]] = "queued"
        /\ \A d \in Batch : phase[d] = "begun" => phase'[d] = "begun"
    BY <2>1, <2>3 DEF TypeOK, QueueInv
  <2>5. \A i \in 1..Len(queue') : phase'[queue'[i]] = "queued"
    BY <2>1, <2>4
  <2>6. \A i, j \in 1..Len(queue') : queue'[i] = queue'[j] => i = j
    <3>1. \A i, j \in 1..Len(queue) : queue[i] = queue[j] => i = j
      BY DEF QueueInv
    <3> QED BY <2>1, <2>2, <3>1
  <2> QED BY <2>4, <2>5, <2>6 DEF QueueInv
<1>3. CASE Abort(b)
  <2>1. CASE UNCHANGED <<queue, phase>>
    BY <2>1 DEF QueueInv
  <2>2. ASSUME NEW i \in 1..Len(queue), queue[i] = b,
               queue' = SubSeq(queue, 1, i - 1) \o SubSeq(queue, i + 1, Len(queue)),
               phase' = [phase EXCEPT ![b] = "rejected"]
        PROVE  QueueInv' /\ \A d \in Batch : phase[d] = "begun" => phase'[d] = "begun"
    <3>1. /\ \A m \in 1..Len(queue') : \E n \in 1..Len(queue) : n # i /\ queue'[m] = queue[n]
          /\ \A m, n \in 1..Len(queue') : queue'[m] = queue'[n] => m = n
      <4>1. queue \in Seq(Batch) /\ \A m, n \in 1..Len(queue) : queue[m] = queue[n] => m = n
        BY DEF TypeOK, QueueInv
      <4>2. LET t == SubSeq(queue, 1, i - 1) \o SubSeq(queue, i + 1, Len(queue))
            IN  /\ \A m \in 1..Len(t) : \E n \in 1..Len(queue) : n # i /\ t[m] = queue[n]
                /\ \A m, n \in 1..Len(t) : t[m] = t[n] => m = n
        BY <4>1, SpliceInv
      <4> QED BY <2>2, <4>2
    <3>2. phase[b] = "queued"
      BY <2>2 DEF QueueInv
    <3>3. \A n \in 1..Len(queue) : queue[n] \in Batch /\ (n # i => queue[n] # b)
      BY <2>2, ElementOfSeq DEF TypeOK, QueueInv
    <3>4. \A n \in 1..Len(queue) : n # i => phase'[queue[n]] = "queued"
      BY <2>2, <3>3 DEF TypeOK, QueueInv
    <3>5. \A d \in Batch : phase[d] = "begun" => phase'[d] = "begun"
      BY <2>2, <3>2 DEF TypeOK
    <3> QED BY <3>1, <3>4, <3>5 DEF QueueInv
  <2> QED BY <1>3, <2>1, <2>2 DEF Abort
<1> QED BY <1>1, <1>2, <1>3

\* ... and the completion handler, which takes the first of them.
LEMMA HandlerQueue ==
    ASSUME TypeOK, QueueInv, HandlerReturns, queue # <<>>
    PROVE  /\ Head(queue) \in Batch /\ phase[Head(queue)] # "begun"
           /\ QueueInv'
<1>1. Head(queue) \in Batch /\ queue' = Tail(queue) /\ Begin(Head(queue), {})
  BY HeadTailProperties DEF HandlerReturns, TypeOK
<1>2. /\ Len(queue) \in Nat \ {0} /\ Head(queue) = queue[1]
      /\ Len(queue') = Len(queue) - 1
      /\ \A i \in 1..Len(queue') : queue'[i] = queue[i + 1]
  BY <1>1, HeadTailProperties, EmptySeq, LenProperties DEF TypeOK
<1>3. phase[Head(queue)] # "begun"
  BY <1>2 DEF QueueInv
<1>4. \A i \in 1..Len(queue') : queue'[i] = queue[i + 1] /\ i + 1 \in 1..Len(queue) /\ i + 1 # 1
  BY <1>2
<1>5. \A i \in 1..Len(queue') : queue'[i] \in Batch /\ queue'[i] # Head(queue)
  <2>1. /\ \A i \in 1..Len(queue) : queue[i] \in Batch
        /\ \A i, j \in 1..Len(queue) : queue[i] = queue[j] => i = j
        /\ 1 \in 1..Len(queue)
    BY <1>2, ElementOfSeq DEF TypeOK, QueueInv
  <2> QED BY <1>2, <1>4, <2>1
<1>6. phase' = [phase EXCEPT ![Head(queue)] = "begun"]
  BY <1>1 DEF Begin
<1>7. \A i \in 1..Len(queue') : phase'[queue'[i]] = "queued"
  <2>1. \A i \in 1..Len(queue') : phase[queue'[i]] = "queued"
    BY <1>4 DEF QueueInv
  <2> QED BY <1>1, <1>5, <1>6, <2>1 DEF TypeOK
<1>8. ASSUME NEW i \in 1..Len(queue'), NEW j \in 1..Len(queue'), queue'[i] = queue'[j]
      PROVE  i = j
  <2>1. i + 1 = j + 1
    BY <1>4, <1>8 DEF QueueInv
  <2> QED BY <1>2, <2>1
<1> QED BY <1>1, <1>3, <1>7, <1>8 DEF QueueInv

LEMMA RequestInv ==
    ASSUME IInv, NEW b \in Batch, Schedule(b) \/ Enqueue(b) \/ Abort(b)
    PROVE  IInv'
<1>0. TypeOK'
  BY RequestType DEF IInv
<1>1. QueueInv' /\ \A d \in Batch : phase[d] = "begun" => phase'[d] = "begun"
  BY RequestQueue DEF IInv
<1>2. CASE Schedule(b)
  <2>1. \A c \in Call : status[c] = "none"
    BY <1>2, EmptyList DEF Schedule, IsRunning
  <2>2. phase[b] # "begun" /\ Begin(b, {}) /\ UNCHANGED <<saving, resp>>
    BY <1>2 DEF Schedule, IsRunning
  <2> QED BY <1>0, <1>1, <2>1, <2>2, BeginInv DEF IInv
<1>3. CASE Enqueue(b) \/ Abort(b)
  <2>1. UNCHANGED <<status, scheduling, handed, verdict, starts, running, saving, resp>>
    BY <1>3 DEF Enqueue, Abort, work, history
  <2> QED BY <1>0, <1>1, <2>1, SameList DEF IInv
<1> QED BY <1>2, <1>3

LEMMA HandlerInv ==
    ASSUME IInv, HandlerReturns \/ HandlerThrows
    PROVE  IInv'
<1>0. TypeOK'
  BY HandlerType DEF IInv
<1>1. handed # {} /\ \A c \in Call : status[c] = "none"
  BY DEF HandlerReturns, HandlerThrows, IInv, ListFreeWhileFinalizing, InList
<1>2. CASE HandlerReturns /\ queue # <<>>
  <2>1. Begin(Head(queue), {}) /\ UNCHANGED <<saving, resp>>
    BY <1>2 DEF HandlerReturns
  <2>2. Head(queue) \in Batch /\ phase[Head(queue)] # "begun" /\ QueueInv'
    BY <1>2, HandlerQueue DEF IInv
  <2> QED BY <1>0, <1>1, <2>1, <2>2, BeginInv DEF IInv
<1>3. CASE HandlerReturns /\ queue = <<>>
  <2>1. /\ handed' = {}
        /\ UNCHANGED <<status, scheduling, queue, phase, running, saving, starts, verdict, resp>>
    BY <1>3 DEF HandlerReturns
  <2>2. QueueInv' /\ HistoryInv' /\ LoopInv' /\ OneBatchInList' /\ ListFreeWhileFinalizing'
    BY <2>1 DEF IInv, QueueInv, HistoryInv, LoopInv, OneBatchInList, ListFreeWhileFinalizing
  <2>3. BarrierInv'
    BY <2>1 DEF IInv, BarrierInv
  <2>4. FlightInv'
    BY <2>1 DEF IInv, FlightInv
  <2>5. AnswerInv' /\ (BarrierHeld \/ Proceeding)'
    BY <2>1 DEF IInv, AnswerInv, AtWork, BarrierHeld, Proceeding
  <2> QED BY <1>0, <2>2, <2>3, <2>4, <2>5 DEF IInv
<1>4. CASE HandlerThrows
  <2>1. UNCHANGED <<status, scheduling, handed, verdict, starts, running, saving, resp,
                    phase, queue>>
    BY <1>4 DEF HandlerThrows, work, history
  <2>2. QueueInv'
    BY <2>1 DEF IInv, QueueInv
  <2> QED BY <1>0, <2>1, <2>2, SameList DEF IInv
<1> QED BY <1>2, <1>3, <1>4

\* Validation moves the loop on by one call.
LEMMA ValidationInv ==
    ASSUME IInv, NEW c \in Call, Validation(c)
    PROVE  IInv'
<1>0. TypeOK'
  BY ValidationType DEF IInv
<1>1. PICK s \in {"scheduled", "awaiting", "error", "cancelled"} :
          Continue([status EXCEPT ![c] = s], scheduling, handed)
  BY DEF Validation, ConfirmationNotNeeded, SettingsConfirm, AskForApproval, ConfirmationThrows
<1>2. Validating(c) /\ UNCHANGED <<queue, phase, saving, resp>>
  BY DEF Validation, ConfirmationNotNeeded, SettingsConfirm, AskForApproval, ConfirmationThrows
<1>3. scheduling \in Batch /\ status[c] = "validating" /\ BatchOf[c] = scheduling
  BY <1>2 DEF Validating, IsFirst, CallsOf, IInv, TypeOK
<1>4. handed = {}
  BY <1>3 DEF IInv, ListFreeWhileFinalizing, InList
<1>5. \A d \in Call : status[d] # "executing"
  BY <1>3 DEF IInv, BarrierInv, Terminal
<1>6. PICK st : st = [status EXCEPT ![c] = s]
  OBVIOUS
<1>7. /\ st \in [Call -> Status] /\ st[c] = s
      /\ \A d \in Call : d # c => st[d] = status[d]
  BY <1>6 DEF IInv, TypeOK, Status, Terminal, Undecided
<1>8. Ready(st)
  <2>1. Flights(st, running, saving, starts)
    BY <1>3, <1>5, <1>7 DEF IInv, FlightInv, Flights, Undecided
  <2> QED BY <1>3, <1>5, <1>7, <2>1 DEF Ready, IInv, HistoryInv
<1>9. \A d \in Call : /\ st[d] # "none" => BatchOf[d] = scheduling
                      /\ st[d] # "none" => status[d] # "none"
                      /\ st[d] = "validating" => status[d] = "validating" /\ d # c
  BY <1>3, <1>7 DEF IInv, OneBatchInList
<1>10. /\ BarrierInv' /\ BarrierHeld' /\ FlightInv' /\ LoopInv' /\ ListFreeWhileFinalizing' /\ OneBatchInList'
       /\ \A d \in Call : /\ status'[d] # "none" => st[d] # "none"
                          /\ status'[d] = "validating" => st[d] = "validating"
                          /\ verdict'[d] # "none" =>
                                status'[d] = "none" /\ (verdict[d] # "none" \/ st[d] # "none")
                          /\ starts'[d] # starts[d] => st[d] # "none"
                          /\ st[d] \in Terminal \cup {"none"} => status'[d] \in {st[d], "none"}
       /\ Waiting(st) # {} => Waiting(status') = Waiting(st)
       /\ Waiting(status') \subseteq Waiting(st)
  <2>1. Continue(st, scheduling, {}) /\ saving' = saving
    BY <1>1, <1>2, <1>4, <1>6
  <2>2. \A d \in Call : st[d] = "validating" => BatchOf[d] = scheduling
    BY <1>9
  <2> QED BY <1>3, <1>7, <1>8, <1>9, <2>1, <2>2, ContinueInv
<1>11. QueueInv'
  BY <1>2 DEF IInv, QueueInv
<1>12. HistoryInv'
  BY <1>2, <1>9, <1>10 DEF IInv, HistoryInv
<1>13. AnswerInv'
  <2>1. Waiting(status) \subseteq Waiting(st)
    BY <1>3, <1>7 DEF Waiting
  <2>2. ASSUME NEW d \in Call, NEW k \in Slot, AtWork(d, k)
        PROVE  /\ phase'[BatchOf[d]] = "begun"
               /\ status'[d] \notin {"validating", "scheduled", "executing"}
               /\ resp'[d][k].pc # "proceed" =>
                     d \in Waiting(status') /\ resp'[d][k].todo \subseteq Waiting(status') \ {d}
    <3>1. /\ phase[BatchOf[d]] = "begun"
          /\ status[d] \notin {"validating", "scheduled", "executing"}
          /\ resp[d][k].pc # "proceed" =>
                d \in Waiting(status) /\ resp[d][k].todo \subseteq Waiting(status) \ {d}
      BY <2>2 DEF IInv, AnswerInv
    <3>2. d # c /\ st[d] = status[d] /\ status[d] \in Status
      BY <1>3, <1>7, <3>1 DEF IInv, TypeOK
    <3>3. Waiting(status) # {} => Waiting(status') = Waiting(st)
      BY <1>10, <2>1
    <3>4. status'[d] \notin {"validating", "scheduled", "executing"}
      <4>1. CASE d \in Waiting(status)
        BY <3>3, <2>1, <4>1 DEF Waiting
      <4>2. CASE d \notin Waiting(status)
        <5>1. st[d] \in Terminal \cup {"none"}
          BY <3>1, <3>2, <4>2 DEF Status, Undecided, Waiting
        <5> QED BY <1>10, <5>1 DEF Terminal
      <4> QED BY <4>1, <4>2
    <3> QED BY <1>2, <2>1, <3>1, <3>3, <3>4
  <2> QED BY <1>2, <2>2 DEF IInv, AnswerInv, AtWork
<1> QED BY <1>0, <1>10, <1>11, <1>12, <1>13 DEF IInv

\* The end of the only answer that is at work.
LEMMA AnswerEnds ==
    ASSUME IInv, NEW c \in Call, NEW k \in Slot, AtWork(c, k), Respond(c, k, Idle)
    PROVE  AnswerInv'
<1>1. /\ resp'[c][k] = Idle
      /\ \A d \in Call, l \in Slot : d # c \/ l # k => resp'[d][l] = resp[d][l]
  BY DEF Respond, IInv, TypeOK
<1>2. \A d \in Call, l \in Slot : AtWork(d, l) => d = c /\ l = k
  BY DEF IInv, AnswerInv
<1>3. \A d \in Call, l \in Slot : resp'[d][l].pc = "idle"
  BY <1>1, <1>2 DEF AtWork, Idle
<1> QED BY <1>3 DEF AnswerInv, AtWork

LEMMA ExecutionInv ==
    ASSUME IInv, NEW c \in Call, NEW b \in Batch, Execution(c, b)
    PROVE  IInv'
<1>0. TypeOK'
  BY ExecutionType DEF IInv
<1>1. status[c] = "executing" /\ running[c][b] + saving[c][b] = 1
  <2>1. running[c][b] \in Nat /\ saving[c][b] \in Nat /\ running[c][b] + saving[c][b] > 0
    BY DEF Execution, Settle, SettleLongOutput, OutputSaved, IInv, TypeOK
  <2> QED BY <2>1 DEF IInv, FlightInv, Flights
<1>2. ASSUME NEW d \in Batch, d # b
      PROVE  running[c][d] = 0 /\ saving[c][d] = 0
  <2>1. running[c][d] \in Nat /\ saving[c][d] \in Nat /\ ~(running[c][d] + saving[c][d] > 0)
    BY <1>1, <1>2 DEF IInv, TypeOK, FlightInv, Flights
  <2> QED BY <2>1
<1>3. /\ Waiting(status) = {}
      /\ \A d \in Call : status[d] \in Terminal \cup {"none", "executing"}
  BY <1>1 DEF IInv, BarrierInv, Waiting, Terminal
<1>4. resp' = resp /\ phase' = phase /\ BarrierHeld
  <2>1. resp' = resp /\ phase' = phase
    BY DEF Execution, Settle, SettleLongOutput, OutputSaved
  <2> QED BY <1>3, <2>1 DEF BarrierHeld, Terminal
<1>5. CASE SettleLongOutput(c, b)
  <2>1. /\ running' = [running EXCEPT ![c][b] = @ - 1]
        /\ saving' = [saving EXCEPT ![c][b] = @ + 1]
        /\ running[c][b] > 0
        /\ UNCHANGED <<status, scheduling, queue, handed, phase, resp, verdict, starts>>
    BY <1>5 DEF SettleLongOutput, fields, history
  <2>2. \A d \in Call, e \in Batch :
            running'[d][e] + saving'[d][e] = running[d][e] + saving[d][e]
    BY <2>1 DEF IInv, TypeOK
  <2>3. FlightInv'
    BY <2>1, <2>2 DEF IInv, FlightInv, Flights
  <2>4. QueueInv' /\ HistoryInv' /\ LoopInv' /\ OneBatchInList' /\ ListFreeWhileFinalizing'
    BY <2>1 DEF IInv, QueueInv, HistoryInv, LoopInv, OneBatchInList, ListFreeWhileFinalizing
  <2>5. BarrierInv' /\ AnswerInv' /\ BarrierHeld'
    BY <1>4, <2>1 DEF IInv, BarrierInv, AnswerInv, AtWork, BarrierHeld
  <2> QED BY <1>0, <2>3, <2>4, <2>5 DEF IInv
<1>6. CASE Settle(c, b) \/ OutputSaved(c, b)
  <2>1. PICK s \in Terminal : Notify(SetStatus(status, c, s))
    BY <1>6 DEF Settle, OutputSaved, Terminal
  <2>2. PICK st : st = SetStatus(status, c, s)
    OBVIOUS
  <2>3. /\ st \in [Call -> Status] /\ st[c] \in Terminal
        /\ \A d \in Call : d # c => st[d] = status[d]
    BY <1>1, <2>2 DEF SetStatus, IInv, TypeOK, Status, Terminal
  <2>4. UNCHANGED <<queue, phase, scheduling, resp, starts>>
    BY <1>6 DEF Settle, OutputSaved
  <2>5. \A d \in Batch : running'[c][d] + saving'[c][d] = 0
    BY <1>1, <1>2, <1>6, SMTT(30) DEF Settle, OutputSaved, IInv, TypeOK
  <2>6. \A d \in Call, e \in Batch : d # c =>
            running'[d][e] = running[d][e] /\ saving'[d][e] = saving[d][e]
    BY <1>6 DEF Settle, OutputSaved, IInv, TypeOK
  <2>7. Flights(st, running', saving', starts)
    <3> SUFFICES ASSUME NEW d \in Call
                 PROVE  /\ starts[d] <= 1
                        /\ st[d] \in Undecided \cup {"scheduled"} => starts[d] = 0
                        /\ st[d] \in {"executing", "success"} => starts[d] = 1
                        /\ \A e \in Batch :
                              /\ running'[d][e] + saving'[d][e] <= 1
                              /\ running'[d][e] + saving'[d][e] > 0 => st[d] = "executing"
                              /\ \A f \in Batch : /\ running'[d][e] + saving'[d][e] > 0
                                                  /\ running'[d][f] + saving'[d][f] > 0
                                                  => e = f
      BY DEF Flights
    <3>1. CASE d = c
      <4>1. starts[c] = 1
        BY <1>1 DEF IInv, FlightInv, Flights
      <4>2. st[c] \notin Undecided \cup {"scheduled"}
        BY <2>3 DEF Undecided, Terminal
      <4>3. \A e \in Batch : ~(running'[c][e] + saving'[c][e] > 0)
        BY <2>5
      <4> QED BY <2>5, <3>1, <4>1, <4>2, <4>3
    <3>2. CASE d # c
      BY <2>3, <2>6, <3>2 DEF IInv, FlightInv, Flights
    <3> QED BY <3>1, <3>2
  <2>8. \A d \in Call : st[d] \in Terminal \cup {"none", "executing"}
    BY <1>3, <2>3
  <2>9. \A d \in Call : verdict[d] # "none" => st[d] = "none"
    BY <1>1, <2>3 DEF IInv, HistoryInv
  <2>10. running' \in [Call -> [Batch -> Nat]] /\ saving' \in [Call -> [Batch -> Nat]]
    BY <1>0 DEF TypeOK
  <2>11. Effect(st, handed) /\ BarrierHeld'
    BY <2>1, <2>2, <2>3, <2>4, <2>7, <2>8, <2>9, <2>10, NotifyInv DEF IInv, Terminal
  <2>12. \A d \in Call : /\ st[d] = "validating" <=> status[d] = "validating"
                         /\ st[d] # "none" <=> status[d] # "none"
    BY <1>1, <2>3 DEF Terminal
  <2>14. AnswerInv'
    <3>1. ASSUME NEW d \in Call, NEW k \in Slot, AtWork(d, k)
          PROVE  /\ phase[BatchOf[d]] = "begun" /\ resp[d][k].pc = "proceed"
                 /\ status'[d] \notin {"validating", "scheduled", "executing"}
      <4>1. /\ phase[BatchOf[d]] = "begun" /\ resp[d][k].pc = "proceed"
            /\ status[d] \notin {"validating", "scheduled", "executing"}
        BY <1>3, <3>1 DEF IInv, AnswerInv
      <4>2. st[d] \in Terminal \cup {"none"}
        BY <1>1, <1>3, <2>3, <4>1
      <4> QED BY <2>11, <4>1, <4>2 DEF Effect, Terminal
    <3> QED BY <2>4, <3>1 DEF IInv, AnswerInv, AtWork
  <2> QED BY <1>0, <2>3, <2>4, <2>11, <2>12, <2>14, ListStep DEF IInv
<1> QED BY <1>5, <1>6 DEF Execution

\* What the end of the answer to c makes of the list: st.
LEMMA DecisionInv ==
    ASSUME IInv, NEW c \in Call, NEW k \in Slot, AtWork(c, k),
           NEW st \in [Call -> Status],
           \A d \in Call : d # c => st[d] = status[d],
           \/ st[c] = status[c]
           \/ /\ c \in Waiting(status)
              /\ st[c] \in {"error", "cancelled", "scheduled", "awaiting"},
           NEW b \in Batch, Launch(st, b, handed), Respond(c, k, Idle),
           UNCHANGED <<queue, phase, scheduling, saving>>, TypeOK'
    PROVE  IInv'
<1>1. CASE st[c] = status[c]
  <2>1. st = status
    BY <1>1 DEF IInv, TypeOK
  <2>2. Ready(st)
    BY <2>1 DEF Ready, IInv, FlightInv, BarrierInv, HistoryInv
  <2>3. Effect(st, handed) /\ BarrierHeld'
    BY <2>2, LaunchInv DEF IInv, TypeOK
  <2> QED BY <2>1, <2>3, ListStep, AnswerEnds DEF IInv
<1>2. CASE /\ c \in Waiting(status)
           /\ st[c] \in {"error", "cancelled", "scheduled", "awaiting"}
  <2>1. status[c] \in {"awaiting", "modifying"}
    BY <1>2 DEF Waiting
  <2>2. \A d \in Call : status[d] # "executing"
    BY <2>1 DEF IInv, BarrierInv, Terminal
  <2>3. Ready(st)
    <3>1. Flights(st, running, saving, starts)
      BY <1>2, <2>1, <2>2 DEF IInv, FlightInv, Flights, Undecided
    <3> QED BY <1>2, <2>1, <2>2, <3>1 DEF Ready, IInv, HistoryInv, Terminal
  <2>4. Effect(st, handed) /\ BarrierHeld'
    BY <2>3, LaunchInv DEF IInv, TypeOK
  <2>5. \A d \in Call : /\ st[d] = "validating" <=> status[d] = "validating"
                        /\ st[d] # "none" <=> status[d] # "none"
    BY <1>2, <2>1
  <2> QED BY <2>4, <2>5, ListStep, AnswerEnds DEF IInv
<1> QED BY <1>1, <1>2

\* A step that leaves the list as it is and moves only an answer to c: the one that is
\* at work, or the first.
LEMMA AnswerMoves ==
    ASSUME IInv, NEW c \in Call, NEW k \in Slot, NEW r \in Response, Respond(c, k, r),
           \A d \in Call, l \in Slot : AtWork(d, l) => d = c /\ l = k,
           resp[c][k].pc # "proceed",
           \/ r.pc = "idle"
           \/ /\ r.pc # "proceed" /\ c \in Waiting(status)
              /\ r.todo \subseteq Waiting(status) \ {c},
           UNCHANGED <<queue, phase, scheduling, status, handed, verdict, running, saving,
                       starts>>, TypeOK'
    PROVE  IInv'
<1>1. QueueInv' /\ HistoryInv' /\ LoopInv' /\ OneBatchInList' /\ ListFreeWhileFinalizing'
  BY DEF IInv, QueueInv, HistoryInv, LoopInv, OneBatchInList, ListFreeWhileFinalizing
<1>2. BarrierInv'
  BY DEF IInv, BarrierInv
<1>3. FlightInv'
  BY DEF IInv, FlightInv
<1>4. BarrierHeld'
  <2>1. ~Proceeding
    BY DEF Proceeding, AtWork
  <2> QED BY <2>1 DEF IInv, BarrierHeld
<1>5. /\ resp'[c][k] = r
      /\ \A d \in Call, l \in Slot : d # c \/ l # k => resp'[d][l].pc = "idle"
  BY DEF Respond, IInv, TypeOK, AtWork
<1>6. AnswerInv'
  <2>1. \A d \in Call, l \in Slot : AtWork(d, l)' => d = c /\ l = k
    BY <1>5 DEF AtWork
  <2>2. c \in Waiting(status) =>
            /\ phase[BatchOf[c]] = "begun"
            /\ status[c] \notin {"validating", "scheduled", "executing"}
    BY DEF IInv, HistoryInv, Waiting
  <2>3. AtWork(c, k)' => c \in Waiting(status) /\ r.todo \subseteq Waiting(status) \ {c}
    BY <1>5 DEF AtWork
  <2> QED BY <1>5, <2>1, <2>2, <2>3 DEF AnswerInv
<1> QED BY <1>1, <1>2, <1>3, <1>4, <1>6 DEF IInv

\* The answer that is at work.
LEMMA AnswerFor ==
    ASSUME IInv, NEW c \in Call, NEW k \in Slot, AtWork(c, k)
    PROVE  /\ resp[c][k] \in Response /\ BatchOf[c] \in Batch
           /\ status \in [Call -> Status] /\ handed \in SUBSET Call
           /\ \A d \in Call, l \in Slot : AtWork(d, l) => d = c /\ l = k
           /\ status[c] \notin {"validating", "scheduled", "executing"}
           /\ resp[c][k].pc # "proceed" =>
                 /\ status[c] \in {"awaiting", "modifying"} /\ c \in Waiting(status)
                 /\ resp[c][k].todo \subseteq Waiting(status) \ {c}
<1>1. /\ resp[c][k] \in Response /\ BatchOf[c] \in Batch
      /\ status \in [Call -> Status] /\ handed \in SUBSET Call
  <2>1. TypeOK
    BY DEF IInv
  <2>2. resp[c][k] \in Response
    BY <2>1 DEF TypeOK
  <2> QED BY <2>1, <2>2, BatchAssumption DEF TypeOK
<1>2. \A d \in Call, l \in Slot : AtWork(d, l) => d = c /\ l = k
  BY DEF IInv, AnswerInv
<1>3. /\ status[c] \notin {"validating", "scheduled", "executing"}
      /\ resp[c][k].pc # "proceed" =>
            c \in Waiting(status) /\ resp[c][k].todo \subseteq Waiting(status) \ {c}
  BY DEF IInv, AnswerInv
<1>4. c \in Waiting(status) => status[c] \in {"awaiting", "modifying"}
  BY DEF Waiting
<1> QED BY <1>1, <1>2, <1>3, <1>4

LEMMA DecideInv ==
    ASSUME IInv, NEW c \in Call, NEW k \in Slot, AtWork(c, k), resp[c][k].pc # "proceed",
           NEW found \in BOOLEAN, Decide(c, k, resp[c][k], found),
           UNCHANGED <<queue, phase, scheduling, saving>>, TypeOK'
    PROVE  IInv'
<1> DEFINE r == resp[c][k]
<1>1. /\ r \in Response /\ BatchOf[c] \in Batch /\ status \in [Call -> Status]
      /\ \A d \in Call, l \in Slot : AtWork(d, l) => d = c /\ l = k
      /\ status[c] \in {"awaiting", "modifying"} /\ c \in Waiting(status)
      /\ r.todo \subseteq Waiting(status) \ {c}
  BY AnswerFor
<1>2. ASSUME NEW s \in {"cancelled", "scheduled"},
             Launch(SetStatus(status, c, s), BatchOf[c], handed), Respond(c, k, Idle)
      PROVE  IInv'
  <2>1. PICK st : st = SetStatus(status, c, s)
    OBVIOUS
  <2>2. /\ st \in [Call -> Status] /\ st[c] = s
        /\ \A d \in Call : d # c => st[d] = status[d]
    BY <1>1, <2>1 DEF SetStatus, Status, Terminal
  <2> QED BY <1>1, <1>2, <2>1, <2>2, DecisionInv
<1>3. CASE /\ status' = SetStatus(status, c, "modifying")
           /\ Respond(c, k, [r EXCEPT !.pc = "editor"])
           /\ UNCHANGED <<handed, verdict, running, starts>>
  <2>1. /\ status'[c] = "modifying" /\ status' \in [Call -> Status]
        /\ \A d \in Call : d # c => status'[d] = status[d]
    BY <1>1, <1>3 DEF SetStatus, Terminal, Status, Undecided
  <2>2. Waiting(status') = Waiting(status)
    BY <1>1, <2>1 DEF Waiting
  <2>3. /\ resp'[c][k] = [r EXCEPT !.pc = "editor"]
        /\ \A d \in Call, l \in Slot : d # c \/ l # k => resp'[d][l] = resp[d][l]
    BY <1>3 DEF Respond, IInv, TypeOK
  <2>4. resp'[c][k].pc = "editor" /\ resp'[c][k].todo = r.todo
    BY <1>1, <2>3 DEF Response
  <2>5. AnswerInv'
    <3>1. \A d \in Call, l \in Slot : AtWork(d, l)' => d = c /\ l = k
      BY <1>1, <2>3 DEF AtWork
    <3>2. phase'[BatchOf[c]] = "begun"
      BY <1>1 DEF IInv, HistoryInv
    <3> QED BY <1>1, <2>1, <2>2, <2>4, <3>1, <3>2 DEF AnswerInv
  <2>6. BarrierInv' /\ BarrierHeld'
    <3>1. ~Complete(status')
      BY <2>1 DEF Complete, InList, Terminal
    <3>2. Open(status') # {}
      BY <2>1 DEF Open, Undecided
    <3>3. \A d \in Call : status'[d] # "executing"
      BY <1>1, <2>1 DEF IInv, BarrierInv, Terminal
    <3> QED BY <3>1, <3>2, <3>3 DEF BarrierInv, BarrierHeld
  <2>7. FlightInv'
    BY <1>1, <1>3, <2>1 DEF IInv, FlightInv, Flights, Undecided
  <2>8. QueueInv' /\ HistoryInv' /\ LoopInv' /\ OneBatchInList' /\ ListFreeWhileFinalizing'
    BY <1>1, <1>3, <2>1 DEF IInv, QueueInv, HistoryInv, LoopInv, OneBatchInList,
                            ListFreeWhileFinalizing, InList
  <2> QED BY <2>5, <2>6, <2>7, <2>8 DEF IInv
<1>4. CASE /\ Respond(c, k, Idle)
           /\ UNCHANGED <<status, handed, verdict, running, starts>>
  <2>1. Idle.pc = "idle"
    BY DEF Idle
  <2> QED BY <1>1, <1>4, <2>1, AnswerMoves, IdleType
<1>5. CASE /\ Respond(c, k, [r EXCEPT !.pc = "inline"])
           /\ UNCHANGED <<status, handed, verdict, running, starts>>
  <2>1. PICK n : n = [r EXCEPT !.pc = "inline"]
    OBVIOUS
  <2>2. n \in Response /\ n.pc = "inline" /\ n.todo = r.todo
    BY <1>1, <2>1 DEF Response, Pc
  <2> QED BY <1>1, <1>5, <2>1, <2>2, AnswerMoves
<1> QED BY <1>2, <1>3, <1>4, <1>5 DEF Decide

\* autoApproveCompatiblePendingTools at the waiting call d.
LEMMA AutoApproveInv ==
    ASSUME IInv, NEW c \in Call, NEW k \in Slot, NEW d \in Call, AutoApprove(c, k, d), TypeOK'
    PROVE  IInv'
<1> DEFINE r == resp[c][k]
           rest == r.todo \ {d}
           next == [r EXCEPT !.todo = rest, !.asks = NextAsks(rest)]
<1>1. /\ Respond(c, k, next) /\ d \in r.todo /\ r.pc = "auto"
      /\ UNCHANGED <<queue, phase, scheduling, running, saving, starts>>
  BY DEF AutoApprove, IsFirst, work
<1>2. AtWork(c, k)
  BY <1>1 DEF AtWork
<1>3. /\ r \in Response /\ status \in [Call -> Status]
      /\ \A e \in Call, l \in Slot : AtWork(e, l) => e = c /\ l = k
      /\ status[c] \in {"awaiting", "modifying"} /\ c \in Waiting(status)
      /\ r.todo \subseteq Waiting(status) \ {c}
  BY <1>1, <1>2, AnswerFor
<1>4. next \in Response /\ next.pc = "auto" /\ next.todo = rest
  BY <1>1, <1>3 DEF Response, NextAsks, Asks
<1> HIDE DEF next
<1>5. CASE UNCHANGED <<status, handed, verdict>>
  BY <1>1, <1>3, <1>4, <1>5, AnswerMoves
<1>6. CASE Notify(SetStatus(status, d, "scheduled"))
  <2>1. status[d] \in {"awaiting", "modifying"} /\ d # c
    BY <1>1, <1>3 DEF Waiting
  <2>2. PICK st : st = SetStatus(status, d, "scheduled")
    OBVIOUS
  <2>3. /\ st[d] = "scheduled" /\ st[c] = status[c] /\ st \in [Call -> Status]
        /\ \A e \in Call : e # d => st[e] = status[e]
    BY <1>3, <2>1, <2>2 DEF SetStatus, Status, Terminal
  <2>4. ~Complete(st)
    BY <1>3, <2>3 DEF Complete, InList, Terminal
  <2>5. status' = st /\ UNCHANGED <<handed, verdict>>
    BY <1>6, <2>2, <2>4 DEF Notify
  <2>6. /\ resp'[c][k] = next
        /\ \A e \in Call, l \in Slot : e # c \/ l # k => resp'[e][l] = resp[e][l]
    BY <1>1 DEF Respond, IInv, TypeOK
  <2>7. Waiting(status') = Waiting(status) \ {d}
    BY <2>3, <2>5 DEF Waiting
  <2>8. AnswerInv'
    <3>1. \A e \in Call, l \in Slot : AtWork(e, l)' => e = c /\ l = k
      BY <1>3, <2>6 DEF AtWork
    <3>2. phase'[BatchOf[c]] = "begun"
      BY <1>1, <1>3 DEF IInv, HistoryInv
    <3>3. c \in Waiting(status') /\ resp'[c][k].todo \subseteq Waiting(status') \ {c}
      BY <1>3, <1>4, <2>1, <2>6, <2>7
    <3>4. status'[c] \notin {"validating", "scheduled", "executing"}
      BY <1>3, <2>3, <2>5
    <3> QED BY <3>1, <3>2, <3>3, <3>4 DEF AnswerInv
  <2>9. BarrierInv' /\ BarrierHeld'
    <3>1. \A e \in Call : status'[e] # "executing"
      BY <1>3, <2>3, <2>5 DEF IInv, BarrierInv, Terminal
    <3>2. Open(status') # {}
      BY <1>3, <2>3, <2>5 DEF Open, Undecided
    <3> QED BY <2>4, <2>5, <3>1, <3>2 DEF BarrierInv, BarrierHeld
  <2>10. FlightInv'
    BY <1>1, <2>1, <2>3, <2>5 DEF IInv, FlightInv, Flights, Undecided
  <2>11. QueueInv' /\ HistoryInv' /\ LoopInv' /\ OneBatchInList' /\ ListFreeWhileFinalizing'
    BY <1>1, <2>1, <2>3, <2>5 DEF IInv, QueueInv, HistoryInv, LoopInv, OneBatchInList,
                                  ListFreeWhileFinalizing, InList
  <2> QED BY <2>8, <2>9, <2>10, <2>11 DEF IInv
<1> QED BY <1>5, <1>6 DEF AutoApprove

\* The content a client sent is put into the arguments; the approval is to follow.
LEMMA InlineModifyInv ==
    ASSUME IInv, NEW c \in Call, NEW k \in Slot, InlineModify(c, k), TypeOK'
    PROVE  IInv'
<1> DEFINE r == resp[c][k]
           next == [r EXCEPT !.pc = "proceed"]
<1>1. /\ Respond(c, k, next) /\ r.pc = "inline"
      /\ UNCHANGED <<queue, phase, scheduling, running, saving, starts>>
  BY DEF InlineModify, work
<1>2. AtWork(c, k)
  BY <1>1 DEF AtWork
<1>3. /\ r \in Response /\ status \in [Call -> Status]
      /\ \A e \in Call, l \in Slot : AtWork(e, l) => e = c /\ l = k
      /\ status[c] \in {"awaiting", "modifying"}
  BY <1>1, <1>2, AnswerFor
<1>4. next.pc = "proceed"
  BY <1>3 DEF Response
<1> HIDE DEF next
<1>5. PICK built \in BOOLEAN : Notify(SetStatus(SetArgs(status, c, built), c, "awaiting"))
  BY DEF InlineModify
<1>6. PICK st : st = SetStatus(SetArgs(status, c, built), c, "awaiting")
  OBVIOUS
<1>7. /\ st[c] \in {"error", "awaiting"} /\ st \in [Call -> Status]
      /\ \A e \in Call : e # c => st[e] = status[e]
  BY <1>3, <1>6 DEF SetArgs, SetStatus, Status, Terminal, Undecided
<1>8. \A e \in Call : st[e] # "executing"
  BY <1>3, <1>7 DEF IInv, BarrierInv, Terminal
<1>9. Flights(st, running', saving', starts)
  BY <1>1, <1>3, <1>7, <1>8 DEF IInv, FlightInv, Flights, Undecided
<1>10. \A e \in Call : verdict[e] # "none" => st[e] = "none"
  BY <1>3, <1>7 DEF IInv, HistoryInv
<1>11. running' \in [Call -> [Batch -> Nat]] /\ saving' \in [Call -> [Batch -> Nat]]
  BY DEF TypeOK
<1>12. Effect(st, handed)
  BY <1>1, <1>5, <1>6, <1>7, <1>8, <1>9, <1>10, <1>11, NotifyInv DEF IInv
<1>13. \A e \in Call : /\ st[e] = "validating" <=> status[e] = "validating"
                       /\ st[e] # "none" <=> status[e] # "none"
  BY <1>3, <1>7
<1>14. /\ resp'[c][k] = next
       /\ \A e \in Call, l \in Slot : e # c \/ l # k => resp'[e][l] = resp[e][l]
  BY <1>1 DEF Respond, IInv, TypeOK
<1>15. Proceeding'
  BY <1>4, <1>14 DEF Proceeding
<1>16. AnswerInv'
  <2>1. \A e \in Call, l \in Slot : AtWork(e, l)' => e = c /\ l = k
    BY <1>3, <1>14 DEF AtWork
  <2>2. phase'[BatchOf[c]] = "begun"
    BY <1>1, <1>3 DEF IInv, HistoryInv
  <2>3. status'[c] \notin {"validating", "scheduled", "executing"}
    BY <1>7, <1>12 DEF Effect, Open, Undecided, Terminal
  <2> QED BY <1>4, <1>14, <2>1, <2>2, <2>3 DEF AnswerInv
<1> QED BY <1>1, <1>7, <1>12, <1>13, <1>15, <1>16, ListStep DEF IInv

LEMMA ResumedInv ==
    ASSUME IInv, NEW c \in Call, NEW k \in Slot, Resumed(c, k)
    PROVE  IInv'
<1> DEFINE r == resp[c][k]
<1>0. TypeOK' /\ AtWork(c, k)
  BY ResumedType DEF IInv, Resumed
<1>1. /\ r \in Response /\ BatchOf[c] \in Batch /\ status \in [Call -> Status]
      /\ \A d \in Call, l \in Slot : AtWork(d, l) => d = c /\ l = k
      /\ status[c] \notin {"validating", "scheduled", "executing"}
      /\ r.pc # "proceed" => /\ status[c] \in {"awaiting", "modifying"} /\ c \in Waiting(status)
                             /\ r.todo \subseteq Waiting(status) \ {c}
  BY <1>0, AnswerFor
<1>2. CASE OnConfirmReturns(c, k)
  <2> DEFINE todo == Waiting(status) \ {c}
             next == [r EXCEPT !.pc = "auto", !.todo = todo, !.asks = NextAsks(todo)]
  <2>1. /\ UNCHANGED <<queue, phase, scheduling, saving>> /\ r.pc = "confirm"
        /\ AfterConfirm(c, k, r, TRUE)
    BY <1>2 DEF OnConfirmReturns
  <2>2. CASE Decide(c, k, r, TRUE)
    BY <1>0, <2>1, <2>2, DecideInv
  <2>3. CASE Respond(c, k, next) /\ UNCHANGED <<status, handed, verdict, running, starts>>
    <3>1. next \in Response /\ next.pc = "auto" /\ next.todo = todo
      BY <1>1 DEF Response, Pc, Waiting, NextAsks, Asks
    <3> HIDE DEF next
    <3> QED BY <1>0, <1>1, <2>1, <2>3, <3>1, AnswerMoves
  <2> QED BY <2>1, <2>2, <2>3 DEF AfterConfirm
<1>3. CASE OnConfirmThrows(c, k) \/ EditorFails(c, k) \/ InlineModifyFails(c, k)
  <2>1. /\ Respond(c, k, Idle) /\ Idle.pc = "idle" /\ r.pc # "proceed"
        /\ UNCHANGED <<queue, phase, scheduling, status, handed, verdict, running, saving,
                       starts>>
    BY <1>3 DEF OnConfirmThrows, EditorFails, InlineModifyFails, fields, work, history, Idle
  <2> QED BY <1>0, <1>1, <2>1, AnswerMoves, IdleType
<1>4. ASSUME NEW d \in Call, AutoApprove(c, k, d)
      PROVE  IInv'
  BY <1>0, <1>4, AutoApproveInv
<1>5. CASE AutoApproveReturns(c, k)
  <2>1. /\ UNCHANGED <<queue, phase, scheduling, saving>> /\ r.pc = "auto"
        /\ Decide(c, k, r, TRUE)
    BY <1>5 DEF AutoApproveReturns
  <2> QED BY <1>0, <2>1, DecideInv
<1>6. CASE EditorCloses(c, k)
  <2>1. PICK built \in BOOLEAN :
            Launch(SetStatus(SetArgs(status, c, built), c, "awaiting"), BatchOf[c], handed)
    BY <1>6 DEF EditorCloses
  <2>2. PICK st : st = SetStatus(SetArgs(status, c, built), c, "awaiting")
    OBVIOUS
  <2>3. /\ Respond(c, k, Idle) /\ r.pc = "editor"
        /\ UNCHANGED <<queue, phase, scheduling, saving>>
    BY <1>6 DEF EditorCloses
  <2>4. /\ st[c] \in {"error", "awaiting"} /\ st \in [Call -> Status]
        /\ \A e \in Call : e # c => st[e] = status[e]
    BY <1>1, <2>2, <2>3 DEF SetArgs, SetStatus, Status, Terminal, Undecided
  <2> QED BY <1>0, <1>1, <2>1, <2>2, <2>3, <2>4, DecisionInv
<1>7. CASE InlineModify(c, k)
  BY <1>0, <1>7, InlineModifyInv
<1>8. CASE InlineProceeds(c, k)
  <2>1. PICK st : st = SetStatus(status, c, "scheduled")
    OBVIOUS
  <2>2. /\ Respond(c, k, Idle) /\ Launch(st, BatchOf[c], handed)
        /\ UNCHANGED <<queue, phase, scheduling, saving>>
    BY <1>8, <2>1 DEF InlineProceeds
  <2>3. st \in [Call -> Status] /\ \A e \in Call : e # c => st[e] = status[e]
    BY <1>1, <2>1 DEF SetStatus, Status
  <2>4. st[c] = status[c] \/ (c \in Waiting(status) /\ st[c] = "scheduled")
    BY <1>1, <2>1 DEF SetStatus, Status, Undecided, Waiting
  <2> QED BY <1>0, <1>1, <2>2, <2>3, <2>4, DecisionInv
<1> QED BY <1>0, <1>2, <1>3, <1>4, <1>5, <1>6, <1>7, <1>8 DEF Resumed

\* An answer that crosses no other one.
LEMMA FirstAnswer ==
    ASSUME TypeOK, NEW c \in Call, NEW ch \in AllChannels, NEW o \in Outcome, Answer(c, ch, o),
           ~crossed'
    PROVE  /\ ~crossed /\ c \in Waiting(status)
           /\ \A d \in Call, k \in Slot : ~AtWork(d, k)
           /\ \E k \in Slot, r \in Response :
                 /\ Respond(c, k, r) /\ r.pc = "confirm" /\ r.outcome = o /\ r.todo = {}
                 /\ r.by = ch
           /\ UNCHANGED <<queue, phase, scheduling, status, handed, verdict, running, saving,
                          starts>>
           /\ refused' = IF o = "Cancel" THEN refused \cup {c} ELSE refused
<1> DEFINE r == [pc |-> "confirm", by |-> ch, outcome |-> o, todo |-> {}, asks |-> FALSE]
<1>1. ~crossed /\ c \in Waiting(status) /\ \A d \in Call, k \in Slot : ~AtWork(d, k)
  BY DEF Answer
<1>2. \E k \in Slot : Respond(c, k, r) /\ UNCHANGED <<status, handed, verdict, running, starts>>
  BY <1>1 DEF Answer
<1>3. r \in Response /\ r.pc = "confirm" /\ r.outcome = o /\ r.todo = {} /\ r.by = ch
  BY DEF Response, Pc
<1>4. /\ UNCHANGED <<queue, phase, scheduling, saving>>
      /\ refused' = IF o = "Cancel" THEN refused \cup {c} ELSE refused
  BY DEF Answer
<1> HIDE DEF r
<1> QED BY <1>1, <1>2, <1>3, <1>4

\* The answers, and the steps of prompts and diff views between them.
LEMMA PromptedSteps ==
    ASSUME NEW c \in Call, Prompted(c)
    PROVE  \/ \E ch \in AllChannels, o \in Outcome : Answer(c, ch, o)
           \/ UNCHANGED <<fields, phase, aborted, work, resp, history>>
<1>1. /\ "ui" \in AllChannels /\ "mode" \in AllChannels
      /\ "ide" \in AllChannels /\ "client" \in AllChannels
  BY DEF AllChannels
<1>2. ASSUME NEW o \in Outcome,
             UiAnswers(c, o) \/ UiAnswersLate(c, o) \/ ClientAnswers(c, o)
      PROVE  \E ch \in AllChannels, x \in Outcome : Answer(c, ch, x)
  BY <1>1, <1>2 DEF UiAnswers, UiAnswersLate, ClientAnswers
<1>3. ASSUME NEW o \in Outcome, UiClosesDiff(c, o)
      PROVE  UNCHANGED <<fields, phase, aborted, work, resp, history>>
  BY <1>3 DEF UiClosesDiff
<1>4. CASE ModeAnswers(c)
  BY <1>1, <1>4 DEF ModeAnswers, Outcome
<1>5. ASSUME NEW accepted \in BOOLEAN, IdeResolves(c, accepted)
      PROVE  \E ch \in AllChannels, o \in Outcome : Answer(c, ch, o)
  <2>1. \E o \in Outcome : Answer(c, "ide", o)
    BY <1>5 DEF IdeResolves, Outcome
  <2> QED BY <1>1, <2>1
<1>6. CASE IdeOpens(c) \/ IdeFails(c)
  BY <1>6 DEF IdeOpens, IdeFails
<1> QED BY <1>2, <1>3, <1>4, <1>5, <1>6 DEF Prompted

LEMMA StandingInv ==
    ASSUME IInv, TypeOK',
           UNCHANGED <<status, scheduling, handed, verdict, starts, running, saving, resp,
                       phase, queue>>
    PROVE  IInv'
<1>1. QueueInv'
  BY DEF IInv, QueueInv
<1> QED BY <1>1, SameList DEF IInv

LEMMA PromptedInv ==
    ASSUME IInv, NEW c \in Call, Prompted(c), ~crossed'
    PROVE  IInv'
<1>0. TypeOK /\ TypeOK'
  BY PromptedType DEF IInv
<1>1. ASSUME NEW ch \in AllChannels, NEW o \in Outcome, Answer(c, ch, o)
      PROVE  IInv'
  <2>1. /\ c \in Waiting(status) /\ \A d \in Call, k \in Slot : ~AtWork(d, k)
        /\ UNCHANGED <<queue, phase, scheduling, status, handed, verdict, running, saving,
                       starts>>
    BY <1>0, <1>1, FirstAnswer
  <2>2. PICK k \in Slot, r \in Response : Respond(c, k, r) /\ r.pc = "confirm" /\ r.todo = {}
    BY <1>0, <1>1, FirstAnswer
  <2>3. resp[c][k].pc # "proceed" /\ r.pc # "proceed"
    BY <2>1, <2>2 DEF AtWork
  <2> QED BY <1>0, <2>1, <2>2, <2>3, AnswerMoves
<1>2. CASE UNCHANGED <<fields, phase, aborted, work, resp, history>>
  BY <1>0, <1>2, StandingInv DEF fields, work, history
<1> QED BY <1>1, <1>2, PromptedSteps

\* Answers that have crossed stay crossed.
LEMMA CrossedStays == TypeOK /\ [Next]_vars /\ crossed => crossed'
<1> SUFFICES ASSUME TypeOK, [Next]_vars, crossed PROVE crossed'
  OBVIOUS
<1>1. ASSUME NEW c \in Call, Prompted(c) PROVE crossed'
  <2>1. \A ch \in AllChannels, o \in Outcome : Answer(c, ch, o) => crossed'
    BY DEF Answer
  <2> QED BY <1>1, <2>1, PromptedSteps DEF history
<1>2. ASSUME NEW c \in Call, Validation(c) PROVE crossed'
  BY <1>2 DEF Validation, ConfirmationNotNeeded, SettingsConfirm, AskForApproval,
              ConfirmationThrows
<1>3. ASSUME NEW c \in Call, NEW b \in Batch, Execution(c, b) PROVE crossed'
  BY <1>3 DEF Execution, Settle, SettleLongOutput, OutputSaved, history
<1>4. ASSUME NEW c \in Call, NEW k \in Slot, Resumed(c, k) PROVE crossed'
  BY <1>4 DEF Resumed, OnConfirmReturns, OnConfirmThrows, AutoApprove, AutoApproveReturns,
         EditorCloses, EditorFails, InlineModify, InlineModifyFails, InlineProceeds, history
<1>5. ASSUME NEW b \in Batch, Schedule(b) \/ Enqueue(b) \/ Abort(b) PROVE crossed'
  BY <1>5 DEF Schedule, Enqueue, Abort, history
<1>6. CASE HandlerReturns \/ HandlerThrows \/ \E m \in Mode : SwitchMode(m)
  BY <1>6 DEF HandlerReturns, HandlerThrows, SwitchMode, history
<1>7. CASE UNCHANGED vars
  BY <1>7 DEF vars, history
<1> QED BY <1>1, <1>2, <1>3, <1>4, <1>5, <1>6, <1>7 DEF Next

LEMMA StepInv == TypeOK /\ (~crossed => IInv) /\ [Next]_vars => (~crossed' => IInv')
<1> SUFFICES ASSUME TypeOK, ~crossed => IInv, [Next]_vars, ~crossed' PROVE IInv'
  OBVIOUS
<1>1. IInv /\ TypeOK'
  BY CrossedStays, StepType
<1>2. CASE UNCHANGED vars \/ \E m \in Mode : SwitchMode(m)
  BY <1>1, <1>2, StandingInv DEF SwitchMode, vars, fields, work, history
<1>3. CASE Next
  BY <1>1, <1>2, <1>3, RequestInv, HandlerInv, ValidationInv, PromptedInv, ExecutionInv, ResumedInv
     DEF Next
<1> QED BY <1>2, <1>3

LEMMA InvariantHolds == Spec => [](TypeOK /\ (~crossed => IInv))
<1>1. Init => TypeOK /\ (~crossed => IInv)
  BY InitInv DEF IInv
<1>2. (TypeOK /\ (~crossed => IInv)) /\ [Next]_vars => (TypeOK /\ (~crossed => IInv))'
  BY StepInv, StepType
<1> QED BY <1>1, <1>2, PTL DEF Spec

-----------------------------------------------------------------------------
(* What holds as long as answers do not cross.                             *)

\* A confirmed tool is executed at most once, whoever answers, unless an answer comes
\* while another one is at work or when the call is decided:
\* handleConfirmationResponse and autoApproveCompatiblePendingTools then never
\* schedule a call that attemptExecutionOfScheduledCalls has started.
THEOREM ExecutionIsUnique == Spec => []AnsweredCallsRunOnce
<1>1. (~crossed => IInv) => AnsweredCallsRunOnce
  BY DEF IInv, FlightInv, Flights, AnsweredCallsRunOnce, ExecutesAtMostOnce
<1> QED BY <1>1, InvariantHolds, PTL

\* Then onAllToolCallsComplete hears of a call only when no execution of it is in
\* flight.
THEOREM ReportIsFinal == Spec => []ReportedWorkIsOver
<1>1. (~crossed => IInv) => ReportedWorkIsOver
  BY DEF IInv, HistoryInv, FlightInv, Flights, ReportedWorkIsOver, InFlight
<1> QED BY <1>1, InvariantHolds, PTL

\* And calls of two batches are never in the list together.
THEOREM BatchesAreSeparate == Spec => []OneBatchAtATime
<1>1. (~crossed => IInv) => OneBatchAtATime
  BY DEF IInv, OneBatchAtATime
<1> QED BY <1>1, InvariantHolds, PTL

-----------------------------------------------------------------------------
(* What is guaranteed whoever answers the prompts: theorems for every set  *)
(* of answer channels, with no assumption on how the answers interleave.   *)

(* The invariant.                                                          *)

\* The loop has not reached the call, or its batch is not begun.
Ahead(c) == status[c] = "validating" \/ phase[BatchOf[c]] # "begun"

\* No answer, diff view or snapshot of pending calls knows of c.
Unknown(c) ==
    /\ \A k \in Slot : resp[c][k].pc = "idle"
    /\ ideDiff[c] = "none" /\ pressed[c] = {}
    /\ c \notin offered /\ c \notin modeTodo
    /\ \A d \in Call, k \in Slot : c \notin resp[d][k].todo

AheadInv == \A c \in Call : Ahead(c) => Unknown(c)

\* Where an answer may be.
Fits(pc, o) == /\ pc \in {"inline", "proceed"} => o = "ProceedWithContent"
               /\ pc = "auto" => o = "ProceedAlways"

\* Somebody allowed what is scheduled, was started, or is about to be scheduled.
Allowed(c) ==
    /\ status[c] = "scheduled" \/ starts[c] > 0 => c \in granted
    /\ \A k \in Slot :
          /\ resp[c][k].outcome \notin {"Cancel", "Modify"} => c \in granted
          /\ Fits(resp[c][k].pc, resp[c][k].outcome)
GrantInv == \A c \in Call : Allowed(c)

\* What is at work or succeeded was started, and nothing ahead of the loop was.
StartInv ==
    \A c \in Call :
        /\ Ahead(c) => starts[c] = 0
        /\ status[c] = "success" => starts[c] > 0
        /\ \A b \in Batch : running[c][b] > 0 \/ saving[c][b] > 0 => starts[c] > 0

ChannelsInv ==
    /\ TypeOK /\ QueueInv /\ HistoryInv /\ LoopInv /\ ListFreeWhileFinalizing
    /\ AheadInv /\ GrantInv /\ StartInv

-----------------------------------------------------------------------------
(* What a segment makes of the list.                                       *)

\* Calls that are scheduled in st may be started; what is at work was started.
Started(st) ==
    /\ \A c \in Call : \/ starts'[c] = starts[c]
                       \/ st[c] = "scheduled" /\ starts'[c] = starts[c] + 1
    /\ \A c \in Call, b \in Batch : running'[c][b] > 0 => running[c][b] > 0 \/ starts'[c] > 0

\* The list st is reported, or its scheduled calls may be executing; h is what the
\* client is still working on.
Listed(st, h) ==
    \/ /\ Complete(st)
       /\ handed' = h \cup InList(st)
       /\ \A c \in Call : /\ status'[c] = "none"
                          /\ verdict'[c] = IF st[c] # "none" THEN st[c] ELSE verdict[c]
    \/ /\ handed' = h /\ verdict' = verdict
       /\ \A c \in Call : \/ status'[c] = st[c]
                          \/ st[c] = "scheduled" /\ status'[c] = "executing"

Settled(st, h) == Started(st) /\ Listed(st, h)

\* What an answer or an execution may do to a call.
Changed(c, st) ==
    \/ st[c] = status[c]
    \/ /\ status[c] \notin {"none", "validating"}
       /\ st[c] \notin {"none", "validating", "executing"}
       /\ status[c] \in Terminal => st[c] = "error" /\ ArgsPending(c)
       /\ st[c] = "scheduled" => c \in granted'
       /\ st[c] = "success" => starts[c] > 0

AnswerStep ==
    /\ \E st \in [Call -> Status] : Settled(st, handed) /\ \A c \in Call : Changed(c, st)
    /\ UNCHANGED <<queue, phase, scheduling, aborted>>

LEMMA LaunchSettles ==
    ASSUME TypeOK, NEW st \in [Call -> Status], NEW b \in Batch, NEW h, Launch(st, b, h)
    PROVE  Settled(st, h)
<1>1. CASE Complete(st)
  <2>1. Started(st)
    BY <1>1 DEF Launch, Started
  <2>2. Listed(st, h)
    BY <1>1 DEF Launch, Deliver, Listed
  <2> QED BY <2>1, <2>2 DEF Settled
<1>2. CASE ~Complete(st)
  <2> DEFINE go == IF AllReady(st) THEN {c \in Call : st[c] = "scheduled"} ELSE {}
  <2>1. /\ status' = [c \in Call |-> IF c \in go THEN "executing" ELSE st[c]]
        /\ handed' = h /\ verdict' = verdict
        /\ running' = [c \in Call |-> IF c \in go
                         THEN [running[c] EXCEPT ![b] = @ + 1] ELSE running[c]]
        /\ starts' = [c \in Call |-> IF c \in go THEN starts[c] + 1 ELSE starts[c]]
    BY <1>2 DEF Launch
  <2>2. \A c \in go : st[c] = "scheduled"
    OBVIOUS
  <2> HIDE DEF go
  <2>3. \A c \in Call : IF c \in go THEN starts'[c] = starts[c] + 1 /\ starts'[c] > 0
                                     ELSE starts'[c] = starts[c] /\ running'[c] = running[c]
    BY <2>1 DEF TypeOK
  <2>4. Started(st)
    BY <2>2, <2>3 DEF Started
  <2>5. Listed(st, h)
    BY <2>1, <2>2 DEF Listed
  <2> QED BY <2>4, <2>5 DEF Settled
<1> QED BY <1>1, <1>2

LEMMA NotifySettles ==
    ASSUME NEW st \in [Call -> Status], Notify(st), starts' = starts,
           \A c \in Call, b \in Batch : running'[c][b] > 0 => running[c][b] > 0
    PROVE  Settled(st, handed)
<1>1. Started(st)
  BY DEF Started
<1>2. CASE Complete(st)
  BY <1>1, <1>2 DEF Notify, Deliver, Settled, Listed
<1>3. CASE ~Complete(st)
  BY <1>1, <1>3 DEF Notify, Settled, Listed
<1> QED BY <1>2, <1>3

\* A step that leaves the list alone.
LEMMA StillSettled ==
    ASSUME UNCHANGED <<status, handed, verdict, starts>>,
           \A c \in Call, b \in Batch : running'[c][b] > 0 => running[c][b] > 0
    PROVE  Settled(status, handed) /\ \A c \in Call : Changed(c, status)
BY DEF Settled, Started, Listed, Changed

\* setStatusInternal keeps the results.
LEMMA SetStatusChanges ==
    ASSUME TypeOK, NEW c \in Call, NEW s \in Status, status[c] # "validating",
           s \notin {"none", "validating", "executing"}, s = "scheduled" => c \in granted',
           s = "success" => starts[c] > 0
    PROVE  \A d \in Call : Changed(d, SetStatus(status, c, s))
BY DEF SetStatus, Changed, TypeOK

-----------------------------------------------------------------------------
(* The segments of handleConfirmationResponse.                             *)

LEMMA DecideChanges ==
    ASSUME TypeOK, NEW c \in Call, NEW k \in Slot, NEW r \in Response, NEW found,
           Decide(c, k, r, found), status[c] # "validating",
           r.outcome \notin {"Cancel", "Modify"} => c \in granted'
    PROVE  \E st \in [Call -> Status] : Settled(st, handed) /\ \A d \in Call : Changed(d, st)
<1>0. BatchOf[c] \in Batch
  BY BatchAssumption
<1>1. ASSUME NEW s \in {"cancelled", "scheduled"}, s = "scheduled" => c \in granted',
             Launch(SetStatus(status, c, s), BatchOf[c], handed)
      PROVE  \E st \in [Call -> Status] : Settled(st, handed) /\ \A d \in Call : Changed(d, st)
  <2>1. SetStatus(status, c, s) \in [Call -> Status] /\ s \in Status
    BY SetStatusType DEF TypeOK, Status, Terminal
  <2>2. \A d \in Call : Changed(d, SetStatus(status, c, s))
    BY <1>1, <2>1, SetStatusChanges
  <2>3. Settled(SetStatus(status, c, s), handed)
    BY <1>0, <1>1, <2>1, LaunchSettles
  <2> QED BY <2>1, <2>2, <2>3
<1>2. CASE /\ status' = SetStatus(status, c, "modifying")
           /\ UNCHANGED <<handed, verdict, running, starts>>
  <2>1. "modifying" \in Status
    BY DEF Status, Undecided
  <2>2. SetStatus(status, c, "modifying") \in [Call -> Status]
    BY <2>1, SetStatusType DEF TypeOK
  <2>3. \A d \in Call : Changed(d, SetStatus(status, c, "modifying"))
    BY <2>1, SetStatusChanges
  <2>4. Settled(SetStatus(status, c, "modifying"), handed)
    BY <1>2 DEF Settled, Started, Listed
  <2> QED BY <2>2, <2>3, <2>4
<1>3. CASE UNCHANGED <<status, handed, verdict, running, starts>>
  <2>1. Settled(status, handed) /\ \A d \in Call : Changed(d, status)
    BY <1>3, StillSettled
  <2> QED BY <2>1 DEF TypeOK
<1>4. CASE r.outcome # "Modify" /\ ~Refuses(r.outcome, BatchOf[c])
           /\ Launch(SetStatus(status, c, "scheduled"), BatchOf[c], handed)
  BY <1>1, <1>4 DEF Refuses
<1> QED BY <1>1, <1>2, <1>3, <1>4 DEF Decide

LEMMA AfterConfirmChanges ==
    ASSUME TypeOK, NEW c \in Call, NEW k \in Slot, NEW r \in Response, NEW found,
           AfterConfirm(c, k, r, found), status[c] # "validating",
           r.outcome \notin {"Cancel", "Modify"} => c \in granted'
    PROVE  \E st \in [Call -> Status] : Settled(st, handed) /\ \A d \in Call : Changed(d, st)
<1>1. CASE Decide(c, k, r, found)
  BY <1>1, DecideChanges
<1>2. CASE UNCHANGED <<status, handed, verdict, running, starts>>
  <2>1. Settled(status, handed) /\ \A d \in Call : Changed(d, status)
    BY <1>2, StillSettled
  <2> QED BY <2>1 DEF TypeOK
<1> QED BY <1>1, <1>2 DEF AfterConfirm

\* What becomes of the responses: those of other calls are left alone, and the one
\* at work is idle, or stands for the same answer.
Responded(c, k, o) ==
    \E r \in Response :
        /\ Respond(c, k, r)
        /\ \/ r = Idle
           \/ r.outcome = o /\ Fits(r.pc, o)
        /\ r.todo \subseteq Waiting(status) \cup resp[c][k].todo

LEMMA DecideResponds ==
    ASSUME TypeOK, NEW c \in Call, NEW k \in Slot, NEW r \in Response, NEW found,
           Decide(c, k, r, found), r.todo \subseteq resp[c][k].todo
    PROVE  Responded(c, k, r.outcome)
<1>1. CASE Respond(c, k, Idle)
  <2>1. Idle \in Response /\ Idle.todo = {}
    BY IdleType DEF Idle
  <2> QED BY <1>1, <2>1 DEF Responded
<1>2. CASE Respond(c, k, [r EXCEPT !.pc = "editor"])
  <2>1. PICK n : n = [r EXCEPT !.pc = "editor"]
    OBVIOUS
  <2>2. n \in Response /\ n.pc = "editor" /\ n.outcome = r.outcome /\ n.todo = r.todo
    BY <2>1 DEF Response, Pc
  <2> QED BY <1>2, <2>1, <2>2 DEF Responded, Fits
<1>3. CASE r.outcome = "ProceedWithContent" /\ Respond(c, k, [r EXCEPT !.pc = "inline"])
  <2>1. PICK n : n = [r EXCEPT !.pc = "inline"]
    OBVIOUS
  <2>2. n \in Response /\ n.pc = "inline" /\ n.outcome = r.outcome /\ n.todo = r.todo
    BY <2>1 DEF Response, Pc
  <2> QED BY <1>3, <2>1, <2>2 DEF Responded, Fits
<1> QED BY <1>1, <1>2, <1>3 DEF Decide

LEMMA AfterConfirmResponds ==
    ASSUME TypeOK, NEW c \in Call, NEW k \in Slot, NEW r \in Response, NEW found,
           AfterConfirm(c, k, r, found), r.todo \subseteq resp[c][k].todo
    PROVE  Responded(c, k, r.outcome)
<1> DEFINE todo == Waiting(status) \ {c}
           next == [r EXCEPT !.pc = "auto", !.todo = todo, !.asks = NextAsks(todo)]
<1>1. CASE Decide(c, k, r, found)
  BY <1>1, DecideResponds
<1>2. CASE Respond(c, k, next) /\ r.outcome = "ProceedAlways"
  <2>1. next \in Response /\ next.pc = "auto" /\ next.outcome = r.outcome /\ next.todo = todo
    BY DEF Response, Pc, Waiting, NextAsks, Asks
  <2> HIDE DEF next
  <2> QED BY <1>2, <2>1 DEF Responded, Fits
<1> QED BY <1>1, <1>2 DEF AfterConfirm

LEMMA AnswerChanges ==
    ASSUME TypeOK, NEW c \in Call, NEW ch \in AllChannels, NEW o \in Outcome,
           Answer(c, ch, o), status[c] # "validating"
    PROVE  /\ AnswerStep
           /\ \E k \in Slot : Responded(c, k, o)
           /\ granted \subseteq granted'
           /\ o \notin {"Cancel", "Modify"} => c \in granted'
<1> DEFINE r == [pc |-> "confirm", by |-> ch, outcome |-> o, todo |-> {}, asks |-> FALSE]
<1>1. r \in Response /\ r.outcome = o /\ r.todo = {} /\ r.pc = "confirm"
  BY DEF Response, Pc
<1>2. granted \subseteq granted' /\ (o \notin {"Cancel", "Modify"} => c \in granted')
      /\ UNCHANGED <<queue, phase, scheduling, aborted>>
  BY DEF Answer
<1>5. PICK k \in Slot :
          \/ c \in Waiting(status) /\ Respond(c, k, r)
             /\ UNCHANGED <<status, handed, verdict, running, starts>>
          \/ c \notin Waiting(status) /\ AfterConfirm(c, k, r, FALSE)
  BY DEF Answer
<1> HIDE DEF r
<1>3. CASE c \in Waiting(status)
  <2>1. Respond(c, k, r) /\ UNCHANGED <<status, handed, verdict, running, starts>>
    BY <1>3, <1>5
  <2>2. Settled(status, handed) /\ \A d \in Call : Changed(d, status)
    BY <2>1, StillSettled
  <2>3. status \in [Call -> Status]
    BY DEF TypeOK
  <2>4. AnswerStep
    BY <1>2, <2>2, <2>3 DEF AnswerStep
  <2>5. Responded(c, k, o)
    BY <1>1, <2>1 DEF Responded, Fits
  <2> QED BY <1>2, <2>4, <2>5
<1>4. CASE c \notin Waiting(status)
  <2>1. AfterConfirm(c, k, r, FALSE)
    BY <1>4, <1>5
  <2>2. AnswerStep
    BY <1>1, <1>2, <2>1, AfterConfirmChanges DEF AnswerStep
  <2>3. Responded(c, k, o)
    BY <1>1, <2>1, AfterConfirmResponds
  <2> QED BY <1>2, <2>2, <2>3
<1> QED BY <1>3, <1>4

-----------------------------------------------------------------------------
(* Steps that leave the loop and the batches alone.                        *)

\* What such a step keeps: the loop's calls, the history, and who is at work.
Kept ==
    /\ AnswerStep
    /\ granted \subseteq granted'
    /\ \A c \in Call : Ahead(c) => Unknown(c)'
    /\ \A c \in Call, k \in Slot :
          /\ resp'[c][k].outcome \notin {"Cancel", "Modify"} => c \in granted'
          /\ Fits(resp'[c][k].pc, resp'[c][k].outcome)

LEMMA RespondedKeeps ==
    ASSUME ChannelsInv, NEW c \in Call, NEW k \in Slot, NEW o, Responded(c, k, o),
           ~Ahead(c), granted \subseteq granted',
           o \notin {"Cancel", "Modify"} => c \in granted'
    PROVE  /\ \A d \in Call, x \in Slot :
                 /\ resp'[d][x].outcome \notin {"Cancel", "Modify"} => d \in granted'
                 /\ Fits(resp'[d][x].pc, resp'[d][x].outcome)
           /\ \A d \in Call : Ahead(d) =>
                 /\ \A x \in Slot : resp'[d][x].pc = "idle"
                 /\ \A e \in Call, x \in Slot : d \notin resp'[e][x].todo
<1>1. PICK r \in Response :
          /\ Respond(c, k, r)
          /\ \/ r = Idle
             \/ r.outcome = o /\ Fits(r.pc, o)
          /\ r.todo \subseteq Waiting(status) \cup resp[c][k].todo
  BY DEF Responded
<1>2. /\ resp'[c][k] = r
      /\ \A x \in Slot : x # k => resp'[c][x] = resp[c][x]
      /\ \A d \in Call : d # c => resp'[d] = resp[d]
  BY <1>1 DEF Respond, ChannelsInv, TypeOK
<1>3. /\ r.outcome \notin {"Cancel", "Modify"} => c \in granted'
      /\ Fits(r.pc, r.outcome)
  BY <1>1 DEF Idle, Fits
<1>4. \A d \in Call, x \in Slot :
          /\ resp'[d][x].outcome \notin {"Cancel", "Modify"} => d \in granted'
          /\ Fits(resp'[d][x].pc, resp'[d][x].outcome)
  BY <1>2, <1>3 DEF ChannelsInv, GrantInv, Allowed
<1>5. ASSUME NEW d \in Call, Ahead(d)
      PROVE  /\ \A x \in Slot : resp'[d][x].pc = "idle"
             /\ \A e \in Call, x \in Slot : d \notin resp'[e][x].todo
  <2>1. d # c /\ Unknown(d)
    BY <1>5 DEF ChannelsInv, AheadInv
  <2>2. d \notin Waiting(status)
    BY <1>5 DEF Ahead, Waiting, ChannelsInv, HistoryInv
  <2>3. d \notin r.todo
    BY <1>1, <2>1, <2>2 DEF Unknown
  <2> QED BY <1>2, <2>1, <2>3 DEF Unknown
<1> QED BY <1>4, <1>5

\* A call that waits, or that an answer or a diff knows of, is behind the loop.
LEMMA KnownIsBehind ==
    ASSUME ChannelsInv, NEW c \in Call,
           \/ c \in Waiting(status)
           \/ ~Unknown(c)
    PROVE  ~Ahead(c)
BY DEF ChannelsInv, AheadInv, HistoryInv, Ahead, Waiting

\* A segment of the answer o to c, which touches no other call's prompt.
LEMMA AnswerKeeps ==
    ASSUME ChannelsInv, NEW c \in Call, NEW k \in Slot, NEW o, ~Ahead(c),
           AnswerStep, Responded(c, k, o), granted \subseteq granted',
           o \notin {"Cancel", "Modify"} => c \in granted',
           \A d \in Call : d # c => ideDiff'[d] = ideDiff[d] /\ pressed'[d] = pressed[d],
           offered' \subseteq offered \cup {c}, modeTodo' \subseteq modeTodo
    PROVE  Kept
<1>1. /\ \A d \in Call, x \in Slot :
             /\ resp'[d][x].outcome \notin {"Cancel", "Modify"} => d \in granted'
             /\ Fits(resp'[d][x].pc, resp'[d][x].outcome)
      /\ \A d \in Call : Ahead(d) =>
             /\ \A x \in Slot : resp'[d][x].pc = "idle"
             /\ \A e \in Call, x \in Slot : d \notin resp'[e][x].todo
  BY RespondedKeeps
<1>2. \A d \in Call : Ahead(d) => Unknown(d)'
  BY <1>1 DEF ChannelsInv, AheadInv, Unknown
<1> QED BY <1>1, <1>2 DEF Kept

LEMMA PromptedKeeps == ASSUME ChannelsInv, NEW c \in Call, Prompted(c) PROVE Kept
<1> USE DEF users
<1>0. TypeOK
  BY DEF ChannelsInv
<1>1. ASSUME NEW ch \in AllChannels, NEW o \in Outcome, Answer(c, ch, o), ~Ahead(c),
             \A d \in Call : d # c => /\ ideDiff'[d] = ideDiff[d]
                                      /\ pressed'[d] = pressed[d],
             offered' \subseteq offered, modeTodo' \subseteq modeTodo
      PROVE  Kept
  <2>1. status[c] # "validating"
    BY <1>1 DEF Ahead
  <2>2. /\ AnswerStep /\ granted \subseteq granted'
        /\ o \notin {"Cancel", "Modify"} => c \in granted'
        /\ \E k \in Slot : Responded(c, k, o)
    BY <1>0, <1>1, <2>1, AnswerChanges
  <2> QED BY <1>1, <2>2, AnswerKeeps
<1>2. ASSUME UNCHANGED <<fields, phase, aborted, work, resp, offered, modeTodo, history>>,
             ~Ahead(c),
             \A d \in Call : d # c => /\ ideDiff'[d] = ideDiff[d]
                                      /\ pressed'[d] = pressed[d]
      PROVE  Kept
  <2>1. AnswerStep
    BY <1>0, <1>2, StillSettled DEF AnswerStep, fields, work, history, TypeOK
  <2>2. \A d \in Call : Ahead(d) => Unknown(d)'
    BY <1>2 DEF ChannelsInv, AheadInv, Unknown
  <2> QED BY <1>2, <2>1, <2>2 DEF Kept, ChannelsInv, GrantInv, Allowed, history
<1>3. ASSUME NEW o \in Outcome, UiAnswers(c, o) PROVE Kept
  <2>1. c \in Waiting(status) /\ "ui" \in AllChannels
    BY <1>3 DEF UiAnswers, UiOffers, Waiting, AllChannels
  <2> QED BY <1>1, <1>3, <2>1, KnownIsBehind DEF UiAnswers
<1>4. ASSUME NEW o \in Outcome, UiClosesDiff(c, o) PROVE Kept
  <2>1. c \in Waiting(status) /\ pressed' = [pressed EXCEPT ![c] = @ \cup {o}]
    BY <1>4 DEF UiClosesDiff, UiOffers, Waiting
  <2> QED BY <1>0, <1>2, <1>4, <2>1, KnownIsBehind DEF UiClosesDiff, TypeOK
<1>5. ASSUME NEW o \in Outcome, UiAnswersLate(c, o) PROVE Kept
  <2>1. /\ ~Ahead(c) /\ "ui" \in AllChannels
        /\ pressed' = [pressed EXCEPT ![c] = @ \ {o}]
    BY <1>0, <1>5, KnownIsBehind DEF UiAnswersLate, Unknown, AllChannels
  <2> QED BY <1>0, <1>1, <1>5, <2>1 DEF UiAnswersLate, TypeOK
<1>7. ASSUME NEW o \in Outcome, ClientAnswers(c, o) PROVE Kept
  <2>1. /\ ~Ahead(c) /\ "client" \in AllChannels /\ Answer(c, "client", o)
        /\ offered' \subseteq offered /\ UNCHANGED <<ideDiff, pressed, modeTodo>>
    BY <1>7, KnownIsBehind DEF ClientAnswers, Unknown, AllChannels
  <2> QED BY <1>1, <2>1
<1>8. CASE ModeAnswers(c)
  <2>1. ~Ahead(c) /\ "mode" \in AllChannels /\ "ProceedOnce" \in Outcome
    BY <1>8, KnownIsBehind DEF ModeAnswers, IsFirst, Unknown, Outcome, AllChannels
  <2> QED BY <1>1, <1>8, <2>1 DEF ModeAnswers
<1>9. CASE IdeOpens(c)
  <2>1. ~Ahead(c) /\ ideDiff' = [ideDiff EXCEPT ![c] = "open"]
    BY <1>9, KnownIsBehind DEF IdeOpens, Unknown
  <2> QED BY <1>0, <1>2, <1>9, <2>1 DEF IdeOpens, TypeOK
<1>10. ASSUME NEW accepted \in BOOLEAN, IdeResolves(c, accepted) PROVE Kept
  <2>1. PICK o \in Outcome : Answer(c, "ide", o)
    BY <1>10 DEF IdeResolves, Outcome
  <2>2. /\ ~Ahead(c) /\ "ide" \in AllChannels
        /\ ideDiff' = [ideDiff EXCEPT ![c] = "resolved"]
        /\ UNCHANGED <<pressed, offered, modeTodo>>
    BY <1>10, KnownIsBehind DEF IdeResolves, Unknown, AllChannels
  <2> QED BY <1>0, <1>1, <2>1, <2>2 DEF TypeOK
<1>11. CASE IdeFails(c)
  <2>1. ~Ahead(c) /\ ideDiff' = [ideDiff EXCEPT ![c] = "failed"]
    BY <1>11, KnownIsBehind DEF IdeFails, Unknown
  <2> QED BY <1>0, <1>2, <1>11, <2>1 DEF IdeFails, TypeOK
<1> QED BY <1>3, <1>4, <1>5, <1>7, <1>8, <1>9, <1>10, <1>11 DEF Prompted

LEMMA SwitchModeKeeps == ASSUME ChannelsInv, NEW m \in Mode, SwitchMode(m) PROVE Kept
<1>1. UNCHANGED <<fields, phase, aborted, work, resp, ideDiff, pressed, offered, history>>
      /\ modeTodo' \subseteq Waiting(status)
  BY DEF SwitchMode, Mode
<1>2. AnswerStep
  BY <1>1, StillSettled DEF AnswerStep, fields, work, history, TypeOK, ChannelsInv
<1>3. ASSUME NEW d \in Call, Ahead(d) PROVE Unknown(d)'
  <2>1. Unknown(d) /\ d \notin Waiting(status)
    BY <1>3, KnownIsBehind
  <2> QED BY <1>1, <2>1 DEF Unknown
<1> QED BY <1>1, <1>2, <1>3 DEF Kept, ChannelsInv, GrantInv, Allowed, history

LEMMA ExecutionKeeps ==
    ASSUME ChannelsInv, NEW c \in Call, NEW b \in Batch, Execution(c, b)
    PROVE  Kept
<1>0. TypeOK
  BY DEF ChannelsInv
<1>1. UNCHANGED <<queue, phase, scheduling, aborted, resp, users, granted, starts>>
  BY DEF Execution, Settle, SettleLongOutput, OutputSaved, fields, history
<1>2. \A d \in Call, e \in Batch : running'[d][e] > 0 => running[d][e] > 0
  <2>1. CASE running' = running
    BY <2>1
  <2>2. CASE running' = [running EXCEPT ![c][b] = @ - 1] /\ running[c][b] > 0
    BY <1>0, <2>2 DEF TypeOK
  <2> QED BY <2>1, <2>2 DEF Execution, Settle, SettleLongOutput, OutputSaved
<1>3. status[c] # "validating" /\ starts[c] > 0
  <2>1. running[c][b] > 0 \/ saving[c][b] > 0
    BY DEF Execution, Settle, SettleLongOutput, OutputSaved
  <2>2. starts[c] \in Nat /\ starts[c] > 0
    BY <1>0, <2>1 DEF ChannelsInv, StartInv, TypeOK
  <2> QED BY <2>2 DEF ChannelsInv, StartInv, Ahead
<1>4. AnswerStep
  <2>1. CASE SettleLongOutput(c, b)
    <3>1. UNCHANGED <<status, handed, verdict, starts>>
      BY <2>1 DEF SettleLongOutput, fields, history
    <3>2. Settled(status, handed) /\ \A d \in Call : Changed(d, status)
      BY <1>2, <3>1, StillSettled
    <3> QED BY <1>0, <1>1, <3>2 DEF AnswerStep, TypeOK
  <2>2. CASE \E s \in Terminal : Notify(SetStatus(status, c, s))
    <3>1. PICK s \in Terminal : Notify(SetStatus(status, c, s))
      BY <2>2
    <3>2. SetStatus(status, c, s) \in [Call -> Status] /\ s \in Status
      BY <1>0, SetStatusType DEF TypeOK, Status
    <3>3. \A d \in Call : Changed(d, SetStatus(status, c, s))
      BY <1>0, <1>3, <3>2, SetStatusChanges DEF Terminal
    <3>4. Settled(SetStatus(status, c, s), handed)
      BY <1>0, <1>1, <1>2, <3>1, <3>2, NotifySettles
    <3> QED BY <1>1, <3>2, <3>3, <3>4 DEF AnswerStep
  <2>3. Settle(c, b) \/ OutputSaved(c, b) => \E s \in Terminal : Notify(SetStatus(status, c, s))
    BY DEF Settle, OutputSaved, Terminal
  <2> QED BY <2>1, <2>2, <2>3 DEF Execution
<1>5. \A d \in Call : Ahead(d) => Unknown(d)'
  BY <1>1 DEF ChannelsInv, AheadInv, Unknown, users
<1> QED BY <1>1, <1>4, <1>5 DEF Kept, ChannelsInv, GrantInv, Allowed

\* What setArgsInternal and setStatusInternal make of a call whose arguments come.
LEMMA SetArgsChanges ==
    ASSUME TypeOK, NEW c \in Call, NEW k \in Slot, NEW built \in BOOLEAN,
           resp[c][k].pc \in {"editor", "inline"}, status[c] # "validating"
    PROVE  /\ SetStatus(SetArgs(status, c, built), c, "awaiting") \in [Call -> Status]
           /\ \A d \in Call : Changed(d, SetStatus(SetArgs(status, c, built), c, "awaiting"))
<1>1. SetArgs(status, c, built) \in [Call -> Status]
  BY DEF SetArgs, TypeOK, Status, Terminal
<1>2. SetStatus(SetArgs(status, c, built), c, "awaiting") \in [Call -> Status]
  BY <1>1, SetStatusType DEF Status, Undecided
<1>3. ArgsPending(c)
  BY DEF ArgsPending, TypeOK
<1>4. CASE ~built /\ status[c] \notin {"none", "error"}
  <2>1. SetArgs(status, c, built) = [status EXCEPT ![c] = "error"]
    BY <1>4 DEF SetArgs
  <2>2. SetStatus(SetArgs(status, c, built), c, "awaiting") = [status EXCEPT ![c] = "error"]
    BY <2>1 DEF SetStatus, Terminal, TypeOK
  <2>3. \A d \in Call : Changed(d, [status EXCEPT ![c] = "error"])
    BY <1>3, <1>4 DEF Changed, TypeOK
  <2> QED BY <1>2, <2>2, <2>3
<1>5. CASE built \/ status[c] \in {"none", "error"}
  <2>1. SetArgs(status, c, built) = status
    BY <1>5 DEF SetArgs
  <2>2. \A d \in Call : Changed(d, SetStatus(status, c, "awaiting"))
    BY SetStatusChanges DEF Status, Undecided
  <2> QED BY <1>2, <2>1, <2>2
<1> QED BY <1>4, <1>5

LEMMA ResumedKeeps ==
    ASSUME ChannelsInv, NEW c \in Call, NEW k \in Slot, Resumed(c, k)
    PROVE  Kept
<1> DEFINE r == resp[c][k]
<1> USE DEF users
<1>0. TypeOK
  BY DEF ChannelsInv
<1>1. /\ r \in Response /\ BatchOf[c] \in Batch /\ Idle \in Response /\ Idle.todo = {}
      /\ r.outcome \notin {"Cancel", "Modify"} => c \in granted
      /\ Fits(r.pc, r.outcome)
  BY <1>0, BatchAssumption, IdleType DEF TypeOK, ChannelsInv, GrantInv, Allowed, Idle
<1>2. ~Ahead(c) /\ status[c] # "validating"
  <2>1. r.pc # "idle"
    BY DEF Resumed, AtWork
  <2> QED BY <2>1, KnownIsBehind DEF Unknown, Ahead
<1>3. UNCHANGED <<queue, phase, scheduling, aborted, ideDiff, pressed, modeTodo>>
      /\ offered' \subseteq offered \cup {c} /\ granted \subseteq granted'
  BY DEF Resumed, OnConfirmReturns, OnConfirmThrows, AutoApprove, AutoApproveReturns,
         EditorCloses, EditorFails, InlineModify, InlineModifyFails, InlineProceeds,
         fields, history
<1>4. ASSUME Responded(c, k, r.outcome),
             \E st \in [Call -> Status] : Settled(st, handed) /\ \A d \in Call : Changed(d, st)
      PROVE  Kept
  <2>1. AnswerStep
    BY <1>3, <1>4 DEF AnswerStep
  <2> HIDE DEF r
  <2> QED BY <1>1, <1>2, <1>3, <1>4, <2>1, AnswerKeeps
<1>5. ASSUME UNCHANGED <<status, handed, verdict, running, starts>>
      PROVE  \E st \in [Call -> Status] : Settled(st, handed) /\ \A d \in Call : Changed(d, st)
  <2>1. Settled(status, handed) /\ \A d \in Call : Changed(d, status)
    BY <1>5, StillSettled
  <2> QED BY <1>0, <2>1 DEF TypeOK
<1>6. Respond(c, k, Idle) => Responded(c, k, r.outcome)
  BY <1>1 DEF Responded
<1>7. CASE OnConfirmReturns(c, k)
  <2>1. AfterConfirm(c, k, r, TRUE) /\ granted' = granted
    BY <1>7 DEF OnConfirmReturns
  <2> HIDE DEF r
  <2>2. Responded(c, k, r.outcome)
    BY <1>0, <1>1, <2>1, AfterConfirmResponds DEF r
  <2> QED BY <1>0, <1>1, <1>2, <1>4, <2>1, <2>2, AfterConfirmChanges
<1>8. CASE OnConfirmThrows(c, k) \/ EditorFails(c, k) \/ InlineModifyFails(c, k)
  <2>1. Respond(c, k, Idle) /\ UNCHANGED <<status, handed, verdict, running, starts>>
    BY <1>8 DEF OnConfirmThrows, EditorFails, InlineModifyFails, fields, work, history
  <2> QED BY <1>4, <1>5, <1>6, <2>1
<1>9. ASSUME NEW d \in Call, AutoApprove(c, k, d)
      PROVE  Kept
  <2> DEFINE rest == r.todo \ {d}
             next == [r EXCEPT !.todo = rest, !.asks = NextAsks(rest)]
  <2>1. /\ next \in Response /\ next.pc = r.pc /\ next.todo = rest /\ next.outcome = r.outcome
    BY <1>1 DEF Response, NextAsks, Asks
  <2>2. Respond(c, k, next) /\ d \in r.todo /\ r.pc = "auto"
        /\ UNCHANGED <<running, starts>>
    BY <1>9 DEF AutoApprove, IsFirst, work
  <2> HIDE DEF next
  <2>3. Responded(c, k, r.outcome)
    BY <1>1, <2>1, <2>2 DEF Responded
  <2>4. status[d] # "validating"
    BY <2>2, KnownIsBehind DEF Unknown, Ahead
  <2>5. CASE UNCHANGED <<status, handed, verdict>>
    BY <1>4, <1>5, <2>2, <2>3, <2>5
  <2>6. CASE Notify(SetStatus(status, d, "scheduled")) /\ granted' = granted \cup {d}
    <3>1. SetStatus(status, d, "scheduled") \in [Call -> Status]
      BY <1>0, SetStatusType DEF TypeOK, Status
    <3>2. Settled(SetStatus(status, d, "scheduled"), handed)
      BY <2>2, <2>6, <3>1, NotifySettles
    <3>3. \A e \in Call : Changed(e, SetStatus(status, d, "scheduled"))
      BY <1>0, <2>4, <2>6, SetStatusChanges DEF Status
    <3> QED BY <1>4, <2>3, <3>1, <3>2, <3>3
  <2> QED BY <1>9, <2>5, <2>6 DEF AutoApprove
<1>10. CASE AutoApproveReturns(c, k)
  <2>1. Decide(c, k, r, TRUE) /\ granted' = granted
    BY <1>10 DEF AutoApproveReturns
  <2> HIDE DEF r
  <2>2. Responded(c, k, r.outcome)
    BY <1>0, <1>1, <2>1, DecideResponds DEF r
  <2> QED BY <1>0, <1>1, <1>2, <1>4, <2>1, <2>2, DecideChanges
<1>11. CASE EditorCloses(c, k)
  <2>1. PICK built \in BOOLEAN :
            Launch(SetStatus(SetArgs(status, c, built), c, "awaiting"), BatchOf[c], handed)
    BY <1>11 DEF EditorCloses
  <2>2. PICK st : st = SetStatus(SetArgs(status, c, built), c, "awaiting")
    OBVIOUS
  <2>3. st \in [Call -> Status] /\ \A d \in Call : Changed(d, st)
    BY <1>0, <1>2, <1>11, <2>2, SetArgsChanges DEF EditorCloses
  <2>4. Settled(st, handed)
    BY <1>0, <1>1, <2>1, <2>2, <2>3, LaunchSettles
  <2>5. Respond(c, k, Idle)
    BY <1>11 DEF EditorCloses
  <2> QED BY <1>4, <1>6, <2>3, <2>4, <2>5
<1>12. CASE InlineModify(c, k)
  <2> DEFINE next == [r EXCEPT !.pc = "proceed"]
  <2>1. PICK built \in BOOLEAN : Notify(SetStatus(SetArgs(status, c, built), c, "awaiting"))
    BY <1>12 DEF InlineModify
  <2>2. PICK st : st = SetStatus(SetArgs(status, c, built), c, "awaiting")
    OBVIOUS
  <2>3. st \in [Call -> Status] /\ \A d \in Call : Changed(d, st)
    BY <1>0, <1>2, <1>12, <2>2, SetArgsChanges DEF InlineModify
  <2>4. Respond(c, k, next) /\ UNCHANGED <<running, starts>> /\ r.pc = "inline"
        /\ r.outcome = "ProceedWithContent"
    BY <1>1, <1>12 DEF InlineModify, work, Fits
  <2>5. Settled(st, handed)
    BY <2>1, <2>2, <2>3, <2>4, NotifySettles
  <2>6. next \in Response /\ next.outcome = r.outcome /\ next.todo = r.todo
        /\ next.pc = "proceed"
    BY <1>1 DEF Response, Pc
  <2> HIDE DEF next
  <2>7. Responded(c, k, r.outcome)
    BY <1>1, <2>4, <2>6 DEF Responded, Fits
  <2> QED BY <1>4, <2>3, <2>5, <2>7
<1>13. CASE InlineProceeds(c, k)
  <2>1. /\ Launch(SetStatus(status, c, "scheduled"), BatchOf[c], handed)
        /\ Respond(c, k, Idle) /\ c \in granted'
    BY <1>1, <1>13 DEF InlineProceeds, Fits
  <2>2. SetStatus(status, c, "scheduled") \in [Call -> Status]
    BY <1>0, SetStatusType DEF TypeOK, Status
  <2>3. Settled(SetStatus(status, c, "scheduled"), handed)
    BY <1>0, <1>1, <2>1, <2>2, LaunchSettles
  <2>4. \A e \in Call : Changed(e, SetStatus(status, c, "scheduled"))
    BY <1>0, <1>2, <2>1, SetStatusChanges DEF Status
  <2> QED BY <1>4, <1>6, <2>1, <2>2, <2>3, <2>4
<1> QED BY <1>7, <1>8, <1>9, <1>10, <1>11, <1>12, <1>13 DEF Resumed

\* Every segment of an answer and every execution that settles.
LEMMA StepKeeps ==
    ASSUME ChannelsInv,
           \/ \E c \in Call : Prompted(c)
           \/ \E c \in Call, b \in Batch : Execution(c, b)
           \/ \E c \in Call, k \in Slot : Resumed(c, k)
           \/ \E m \in Mode : SwitchMode(m)
    PROVE  Kept
BY PromptedKeeps, ExecutionKeeps, ResumedKeeps, SwitchModeKeeps

-----------------------------------------------------------------------------
(* The invariant is inductive.                                             *)

\* What a step that keeps the loop's calls says of one call.
LEMMA KeptCall ==
    ASSUME ChannelsInv, Kept, NEW c \in Call
    PROVE  /\ status'[c] = "validating" <=> status[c] = "validating"
           /\ status'[c] # "none" => status[c] # "none"
           /\ status[c] = "none" => verdict'[c] = verdict[c]
           /\ verdict'[c] # "none" => status'[c] = "none"
           /\ Ahead(c)' <=> Ahead(c)
           /\ starts'[c] # starts[c] => ~Ahead(c) /\ c \in granted'
           /\ status'[c] = "scheduled" => c \in granted'
<1>1. PICK st \in [Call -> Status] : Settled(st, handed) /\ \A d \in Call : Changed(d, st)
  BY DEF Kept, AnswerStep
<1>2. Changed(c, st) /\ Started(st) /\ Listed(st, handed)
  BY <1>1 DEF Settled
<1>3. st[c] = "validating" <=> status[c] = "validating"
  BY <1>2 DEF Changed
<1>4. st[c] = "none" <=> status[c] = "none"
  BY <1>2 DEF Changed
<1>5. st[c] = "scheduled" => c \in granted'
  BY <1>2 DEF Changed, Kept, ChannelsInv, GrantInv, Allowed
<1>6. status'[c] = "validating" <=> status[c] = "validating"
  <2>1. CASE Complete(st)
    BY <1>2, <1>3, <2>1 DEF Listed, Complete, InList, Terminal
  <2> QED BY <1>2, <1>3, <2>1 DEF Listed
<1>7. /\ status'[c] # "none" => status[c] # "none"
      /\ status[c] = "none" => verdict'[c] = verdict[c]
      /\ verdict'[c] # "none" => status'[c] = "none"
  BY <1>2, <1>4 DEF Listed, ChannelsInv, HistoryInv
<1>8. Ahead(c)' <=> Ahead(c)
  BY <1>6 DEF Ahead, Kept, AnswerStep
<1>9. starts'[c] # starts[c] => ~Ahead(c) /\ c \in granted'
  BY <1>2, <1>3, <1>4, <1>5 DEF Started, Ahead, ChannelsInv, HistoryInv
<1>10. status'[c] = "scheduled" => c \in granted'
  BY <1>2, <1>5 DEF Listed
<1> QED BY <1>6, <1>7, <1>8, <1>9, <1>10

\* saving grows only with the execution that settles.
LEMMA SavingStarted ==
    ASSUME ChannelsInv, NEW c \in Call, NEW b \in Batch,
           \/ saving' = saving
           \/ \E d \in Call, e \in Batch : Execution(d, e)
    PROVE  saving'[c][b] > 0 => saving[c][b] > 0 \/ running[c][b] > 0
<1>1. ASSUME NEW d \in Call, NEW e \in Batch, Execution(d, e)
      PROVE  saving'[c][b] > 0 => saving[c][b] > 0 \/ running[c][b] > 0
  <2>0. saving \in [Call -> [Batch -> Nat]]
    BY DEF ChannelsInv, TypeOK
  <2>1. CASE saving' = saving
    BY <2>1
  <2>2. CASE saving' = [saving EXCEPT ![d][e] = @ - 1] /\ saving[d][e] > 0
    BY <2>0, <2>2
  <2>3. CASE saving' = [saving EXCEPT ![d][e] = @ + 1] /\ running[d][e] > 0
    BY <2>0, <2>3
  <2> QED BY <1>1, <2>1, <2>2, <2>3 DEF Execution, Settle, SettleLongOutput, OutputSaved
<1> QED BY <1>1

LEMMA KeptInv ==
    ASSUME ChannelsInv, Kept, TypeOK',
           \/ saving' = saving
           \/ \E d \in Call, e \in Batch : Execution(d, e)
    PROVE  ChannelsInv'
<1>0. TypeOK
  BY DEF ChannelsInv
<1>1. QueueInv'
  BY DEF Kept, AnswerStep, ChannelsInv, QueueInv
<1>2. HistoryInv'
  <2> SUFFICES ASSUME NEW c \in Call
               PROVE  /\ phase'[BatchOf[c]] # "begun" =>
                            status'[c] = "none" /\ verdict'[c] = "none" /\ starts'[c] = 0
                      /\ verdict'[c] # "none" => status'[c] = "none"
    BY DEF HistoryInv
  <2>1. phase' = phase
    BY DEF Kept, AnswerStep
  <2>2. phase[BatchOf[c]] # "begun" => /\ Ahead(c) /\ status[c] = "none" /\ verdict[c] = "none"
                                       /\ starts[c] = 0
    BY DEF ChannelsInv, HistoryInv, Ahead
  <2> QED BY <2>1, <2>2, KeptCall
<1>3. LoopInv'
  BY KeptCall DEF Kept, AnswerStep, ChannelsInv, LoopInv
<1>4. ListFreeWhileFinalizing'
  <2> SUFFICES ASSUME handed' # {} PROVE InList(status') = {} /\ scheduling' = NoBatch
    BY DEF ListFreeWhileFinalizing
  <2>1. PICK st \in [Call -> Status] : Settled(st, handed)
    BY DEF Kept, AnswerStep
  <2>2. scheduling' = scheduling
    BY DEF Kept, AnswerStep
  <2>3. CASE \A c \in Call : status'[c] = "none"
    <3>1. \A c \in Call : status[c] # "validating"
      BY <2>3, KeptCall
    <3> QED BY <2>2, <2>3, <3>1 DEF InList, ChannelsInv, LoopInv
  <2>4. CASE handed' = handed
    BY <2>2, <2>4, KeptCall DEF InList, ChannelsInv, ListFreeWhileFinalizing
  <2> QED BY <2>1, <2>3, <2>4 DEF Settled, Listed
<1>5. AheadInv'
  <2> SUFFICES ASSUME NEW c \in Call, Ahead(c)' PROVE Unknown(c)'
    BY DEF AheadInv
  <2> QED BY KeptCall DEF Kept
<1>6. GrantInv'
  <2> SUFFICES ASSUME NEW c \in Call PROVE Allowed(c)'
    BY DEF GrantInv
  <2>1. starts'[c] > 0 => c \in granted'
    BY KeptCall DEF Kept, ChannelsInv, GrantInv, Allowed
  <2>2. status'[c] = "scheduled" => c \in granted'
    BY KeptCall
  <2> QED BY <2>1, <2>2 DEF Allowed, Kept
<1>7. StartInv'
  <2>1. PICK st \in [Call -> Status] : Started(st)
    BY DEF Kept, AnswerStep, Settled
  <2>2. \A c \in Call : Ahead(c)' => starts'[c] = 0
    BY KeptCall DEF ChannelsInv, StartInv
  <2>3. ASSUME NEW c \in Call, starts[c] > 0
        PROVE  starts'[c] > 0
    <3>1. starts[c] \in Nat
      BY <1>0 DEF TypeOK
    <3>2. starts'[c] = starts[c] \/ starts'[c] = starts[c] + 1
      BY <2>1 DEF Started
    <3> QED BY <2>3, <3>1, <3>2
  <2>4. ASSUME NEW c \in Call, NEW b \in Batch, running'[c][b] > 0 \/ saving'[c][b] > 0
        PROVE  starts'[c] > 0
    <3>1. running[c][b] > 0 \/ saving[c][b] > 0 => starts[c] > 0
      BY DEF ChannelsInv, StartInv
    <3>2. saving'[c][b] > 0 => saving[c][b] > 0 \/ running[c][b] > 0
      BY SavingStarted
    <3>3. running'[c][b] > 0 => running[c][b] > 0 \/ starts'[c] > 0
      BY <2>1 DEF Started
    <3> QED BY <2>3, <2>4, <3>1, <3>2, <3>3
  <2>5. ASSUME NEW c \in Call, status'[c] = "success"
        PROVE  starts'[c] > 0
    <3>1. PICK end \in [Call -> Status] : Settled(end, handed) /\ Changed(c, end)
      BY DEF Kept, AnswerStep
    <3>2. end[c] = "success"
      BY <2>5, <3>1 DEF Settled, Listed
    <3>3. starts[c] > 0
      BY <3>1, <3>2 DEF Changed, ChannelsInv, StartInv
    <3> QED BY <2>3, <3>3
  <2> QED BY <2>2, <2>4, <2>5 DEF StartInv
<1> QED BY <1>1, <1>2, <1>3, <1>4, <1>5, <1>6, <1>7 DEF ChannelsInv

\* One segment of the loop of _schedule on the list st: it stands at a call of b, or it
\* has cancelled what is left and is over.
Looped(st, b) ==
    \E end \in [Call -> Status] :
        /\ Settled(end, {})
        /\ \A c \in Call : \/ end[c] = st[c]
                           \/ BatchOf[c] = b /\ st[c] = "validating" /\ end[c] = "cancelled"
        /\ \/ /\ scheduling' = b /\ b \notin aborted /\ end = st /\ status' = st
              /\ handed' = {}
              /\ \E c \in Call : BatchOf[c] = b /\ st[c] = "validating"
           \/ /\ scheduling' = NoBatch
              /\ \A c \in Call : BatchOf[c] = b => end[c] # "validating"

LEMMA ContinueLoops ==
    ASSUME TypeOK, NEW st \in [Call -> Status], NEW b \in Batch, Continue(st, b, {})
    PROVE  Looped(st, b)
<1> DEFINE rest == {c \in CallsOf(b) : st[c] = "validating"}
           stopped == [c \in Call |-> IF c \in rest THEN "cancelled" ELSE st[c]]
<1>0. \A c \in Call : c \in rest <=> BatchOf[c] = b /\ st[c] = "validating"
  BY DEF CallsOf
<1>1. CASE GoesOn(rest, b)
  <2>1. /\ status' = st /\ scheduling' = b /\ handed' = {}
        /\ UNCHANGED <<running, starts, verdict>>
    BY <1>1 DEF Continue
  <2>2. rest # {} /\ b \notin aborted
    BY <1>1 DEF GoesOn
  <2>3. \E c \in Call : BatchOf[c] = b /\ st[c] = "validating"
    BY <2>2 DEF CallsOf
  <2>4. Settled(st, {})
    BY <2>1 DEF Settled, Started, Listed
  <2> QED BY <2>1, <2>2, <2>3, <2>4 DEF Looped
<1>2. CASE ~GoesOn(rest, b)
  <2>1. stopped \in [Call -> Status]
    BY DEF Status, Terminal
  <2>2. Launch(stopped, b, {}) /\ scheduling' = NoBatch
    BY <1>2 DEF Continue
  <2>3. \A c \in Call : stopped[c] = IF c \in rest THEN "cancelled" ELSE st[c]
    OBVIOUS
  <2> HIDE DEF stopped, rest
  <2>4. Settled(stopped, {})
    BY <2>1, <2>2, LaunchSettles
  <2>5. /\ \A c \in Call : \/ stopped[c] = st[c]
                           \/ BatchOf[c] = b /\ st[c] = "validating" /\ stopped[c] = "cancelled"
        /\ \A c \in Call : BatchOf[c] = b => stopped[c] # "validating"
    BY <1>0, <2>3
  <2> QED BY <2>1, <2>2, <2>4, <2>5 DEF Looped
<1> QED BY <1>1, <1>2

\* A segment of the loop of b on a list st that respects the invariant.
LEMMA LoopedInv ==
    ASSUME ChannelsInv, TypeOK', QueueInv', NEW st \in [Call -> Status], NEW b \in Batch,
           Looped(st, b), UNCHANGED <<saving, resp>>, granted \subseteq granted',
           \A c \in Call :
              /\ st[c] = "validating" => BatchOf[c] = b /\ Ahead(c) /\ Unknown(c)'
              /\ st[c] = "scheduled" => c \in granted' /\ ~(phase'[BatchOf[c]] # "begun")
              /\ st[c] = "success" => starts[c] > 0
              /\ verdict[c] # "none" => st[c] = "none"
              /\ phase'[BatchOf[c]] # "begun" =>
                    /\ phase[BatchOf[c]] # "begun" /\ st[c] = "none" /\ Unknown(c)'
    PROVE  ChannelsInv'
<1>0. TypeOK
  BY DEF ChannelsInv
<1>1. PICK end \in [Call -> Status] :
          /\ Settled(end, {})
          /\ \A c \in Call : \/ end[c] = st[c]
                             \/ BatchOf[c] = b /\ st[c] = "validating" /\ end[c] = "cancelled"
          /\ \/ /\ scheduling' = b /\ b \notin aborted /\ end = st /\ status' = st
                /\ handed' = {}
                /\ \E c \in Call : BatchOf[c] = b /\ st[c] = "validating"
             \/ /\ scheduling' = NoBatch
                /\ \A c \in Call : BatchOf[c] = b => end[c] # "validating"
  BY DEF Looped
<1>2. Started(end) /\ Listed(end, {})
  BY <1>1 DEF Settled
<1>3. \A c \in Call : end[c] = "none" <=> st[c] = "none"
  BY <1>1
<1>4. \A c \in Call : end[c] = "scheduled" <=> st[c] = "scheduled"
  BY <1>1
<1>5. \A c \in Call : status'[c] = "validating" => end[c] = "validating" /\ st[c] = "validating"
  BY <1>1, <1>2 DEF Listed
<1>6. \A c \in Call : /\ st[c] = "none" => status'[c] = "none" /\ verdict'[c] = verdict[c]
                      /\ verdict'[c] # "none" => status'[c] = "none"
  <2>1. CASE Complete(end)
    BY <1>2, <1>3, <2>1 DEF Listed
  <2> QED BY <1>2, <1>3, <2>1 DEF Listed
<1>7. \A c \in Call : Ahead(c)' => Ahead(c) /\ Unknown(c)' /\ st[c] # "scheduled"
  BY <1>5 DEF Ahead
<1>8. \A c \in Call : starts'[c] # starts[c] => st[c] = "scheduled"
  BY <1>2, <1>4 DEF Started
<1>9. HistoryInv'
  BY <1>6, <1>8 DEF HistoryInv, ChannelsInv
<1>10. LoopInv'
  <2>1. CASE scheduling' = b /\ status' = st /\ \E c \in Call : st[c] = "validating"
    BY <2>1 DEF LoopInv
  <2>2. CASE scheduling' = NoBatch /\ \A c \in Call : BatchOf[c] = b => end[c] # "validating"
    BY <1>5, <2>2 DEF LoopInv
  <2> QED BY <1>1, <2>1, <2>2
<1>11. ListFreeWhileFinalizing'
  <2>1. CASE handed' = {}
    BY <2>1 DEF ListFreeWhileFinalizing
  <2>2. CASE \A c \in Call : status'[c] = "none"
    BY <1>1, <2>2 DEF ListFreeWhileFinalizing, InList
  <2> QED BY <1>2, <2>1, <2>2 DEF Listed
<1>12. AheadInv'
  BY <1>7 DEF AheadInv
<1>13. GrantInv'
  <2> SUFFICES ASSUME NEW c \in Call PROVE Allowed(c)'
    BY DEF GrantInv
  <2>1. Allowed(c)
    BY DEF ChannelsInv, GrantInv
  <2>2. status'[c] = "scheduled" => c \in granted'
    BY <1>2, <1>4 DEF Listed
  <2>3. starts'[c] > 0 => c \in granted'
    BY <1>8, <2>1 DEF Allowed
  <2> QED BY <2>1, <2>2, <2>3 DEF Allowed
<1>14. StartInv'
  <2>1. \A c \in Call : Ahead(c)' => starts'[c] = 0
    BY <1>7, <1>8 DEF ChannelsInv, StartInv
  <2>2. ASSUME NEW c \in Call, starts[c] > 0
        PROVE  starts'[c] > 0
    <3>1. starts[c] \in Nat
      BY <1>0 DEF TypeOK
    <3>2. starts'[c] = starts[c] \/ starts'[c] = starts[c] + 1
      BY <1>2 DEF Started
    <3> QED BY <2>2, <3>1, <3>2
  <2>3. ASSUME NEW c \in Call, NEW e \in Batch, running'[c][e] > 0 \/ saving'[c][e] > 0
        PROVE  starts'[c] > 0
    <3>1. running[c][e] > 0 \/ saving[c][e] > 0 => starts[c] > 0
      BY DEF ChannelsInv, StartInv
    <3>2. running'[c][e] > 0 => running[c][e] > 0 \/ starts'[c] > 0
      BY <1>2 DEF Started
    <3> QED BY <2>2, <2>3, <3>1, <3>2
  <2>4. \A c \in Call : status'[c] = "success" => st[c] = "success"
    <3>1. \A c \in Call : status'[c] = "success" => end[c] = "success"
      BY <1>2 DEF Listed
    <3> QED BY <1>1, <3>1
  <2> QED BY <2>1, <2>2, <2>3, <2>4 DEF StartInv
<1> QED BY <1>9, <1>10, <1>11, <1>12, <1>13, <1>14 DEF ChannelsInv

\* The loop is at c, the first call of its batch that is to be validated.
LEMMA ValidatingCall ==
    ASSUME ChannelsInv, NEW c \in Call, Validating(c)
    PROVE  /\ scheduling \in Batch /\ BatchOf[c] = scheduling /\ status[c] = "validating"
           /\ handed = {} /\ phase[BatchOf[c]] = "begun" /\ verdict[c] = "none"
<1>1. scheduling \in Batch /\ BatchOf[c] = scheduling /\ status[c] = "validating"
  BY DEF Validating, IsFirst, CallsOf, ChannelsInv, TypeOK
<1> QED BY <1>1 DEF ChannelsInv, HistoryInv, ListFreeWhileFinalizing, InList

LEMMA ValidationLoops ==
    ASSUME ChannelsInv, NEW c \in Call, Validation(c)
    PROVE  \E st \in [Call -> Status] :
              /\ Looped(st, scheduling)
              /\ st[c] \notin {"none", "validating", "executing", "success"}
              /\ st[c] = "scheduled" => c \in granted'
              /\ \A d \in Call : d # c => st[d] = status[d]
<1>0. TypeOK
  BY DEF ChannelsInv
<1>1. Validating(c)
  BY DEF Validation, ConfirmationNotNeeded, SettingsConfirm, AskForApproval, ConfirmationThrows
<1>2. PICK s \in {"scheduled", "awaiting", "error", "cancelled"} :
          /\ Continue([status EXCEPT ![c] = s], scheduling, handed)
          /\ s = "scheduled" => c \in granted'
  BY <1>0 DEF Validation, ConfirmationNotNeeded, SettingsConfirm, AskForApproval,
              ConfirmationThrows, TypeOK
<1>3. PICK st : st = [status EXCEPT ![c] = s]
  OBVIOUS
<1>4. st \in [Call -> Status] /\ st[c] = s /\ \A d \in Call : d # c => st[d] = status[d]
  BY <1>0, <1>3 DEF TypeOK, Status, Terminal, Undecided
<1>5. Looped(st, scheduling)
  <2>1. scheduling \in Batch /\ handed = {}
    BY <1>1, ValidatingCall
  <2>2. Continue(st, scheduling, {})
    BY <1>2, <1>3, <2>1
  <2> QED BY <1>0, <1>4, <2>1, <2>2, ContinueLoops
<1> QED BY <1>2, <1>4, <1>5

LEMMA ValidationSteps ==
    ASSUME ChannelsInv, NEW c \in Call, Validation(c)
    PROVE  ChannelsInv'
<1>0. TypeOK /\ TypeOK'
  BY ValidationType DEF ChannelsInv
<1>1. Validating(c)
  BY DEF Validation, ConfirmationNotNeeded, SettingsConfirm, AskForApproval, ConfirmationThrows
<1>2. PICK st \in [Call -> Status] :
          /\ Looped(st, scheduling)
          /\ st[c] \notin {"none", "validating", "success"}
          /\ st[c] = "scheduled" => c \in granted'
          /\ \A d \in Call : d # c => st[d] = status[d]
  BY ValidationLoops
<1>3. /\ UNCHANGED <<queue, phase, saving, resp, pressed, modeTodo>> /\ granted \subseteq granted'
      /\ \A d \in Call : d # c => ideDiff'[d] = ideDiff[d] /\ (d \in offered' <=> d \in offered)
  BY <1>0, SMTT(30) DEF Validation, ConfirmationNotNeeded, SettingsConfirm, AskForApproval,
              ConfirmationThrows, users, TypeOK
<1>4. QueueInv'
  BY <1>3 DEF ChannelsInv, QueueInv
<1>5. ASSUME NEW d \in Call
      PROVE  /\ st[d] = "validating" => BatchOf[d] = scheduling /\ Ahead(d) /\ Unknown(d)'
             /\ st[d] = "scheduled" => d \in granted' /\ ~(phase'[BatchOf[d]] # "begun")
             /\ st[d] = "success" => starts[d] > 0
             /\ verdict[d] # "none" => st[d] = "none"
             /\ phase'[BatchOf[d]] # "begun" =>
                   /\ phase[BatchOf[d]] # "begun" /\ st[d] = "none" /\ Unknown(d)'
  <2>1. CASE d = c
    BY <1>1, <1>2, <1>3, <2>1, ValidatingCall
  <2>2. CASE d # c
    <3>1. Ahead(d) => Unknown(d)'
      BY <1>3, <2>2 DEF ChannelsInv, AheadInv, Unknown
    <3>2. st[d] = "scheduled" => d \in granted'
      BY <1>2, <1>3, <2>2 DEF ChannelsInv, GrantInv, Allowed
    <3>3. st[d] = "success" => starts[d] > 0
      BY <1>2, <2>2 DEF ChannelsInv, StartInv
    <3> QED BY <1>2, <1>3, <2>2, <3>1, <3>2, <3>3 DEF ChannelsInv, HistoryInv, LoopInv, Ahead
  <2> QED BY <2>1, <2>2
<1> QED BY <1>0, <1>1, <1>2, <1>3, <1>4, <1>5, ValidatingCall, LoopedInv

LEMMA BeginLoops ==
    ASSUME TypeOK, NEW b \in Batch, Begin(b, {})
    PROVE  \E st \in [Call -> Status] :
              /\ Looped(st, b)
              /\ \A c \in Call : /\ BatchOf[c] = b => st[c] \in {"error", "validating"}
                                 /\ BatchOf[c] # b => st[c] = status[c]
<1>1. PICK bad \in SUBSET CallsOf(b) :
          Continue([c \in Call |-> IF c \in bad THEN "error"
                                   ELSE IF c \in CallsOf(b) THEN "validating"
                                   ELSE status[c]], b, {})
  BY DEF Begin
<1>2. PICK st : st = [c \in Call |-> IF c \in bad THEN "error"
                                     ELSE IF c \in CallsOf(b) THEN "validating"
                                     ELSE status[c]]
  OBVIOUS
<1>3. st \in [Call -> Status]
  BY <1>2 DEF TypeOK, Status, Terminal, Undecided
<1>4. \A c \in Call : /\ BatchOf[c] = b => st[c] \in {"error", "validating"}
                      /\ BatchOf[c] # b => st[c] = status[c]
  BY <1>2 DEF CallsOf
<1>5. Looped(st, b)
  BY <1>1, <1>2, <1>3, ContinueLoops
<1> QED BY <1>3, <1>4, <1>5

\* _schedule begins a batch that nothing knows of, when the list is free of the others.
LEMMA BeginSteps ==
    ASSUME ChannelsInv, TypeOK', QueueInv', NEW b \in Batch, phase[b] # "begun",
           scheduling = NoBatch, Begin(b, {}), UNCHANGED <<saving, resp, users, granted>>
    PROVE  ChannelsInv'
<1>0. TypeOK
  BY DEF ChannelsInv
<1>1. PICK st \in [Call -> Status] :
          /\ Looped(st, b)
          /\ \A c \in Call : /\ BatchOf[c] = b => st[c] \in {"error", "validating"}
                             /\ BatchOf[c] # b => st[c] = status[c]
  BY <1>0, BeginLoops
<1>2. phase'[b] = "begun" /\ \A d \in Batch : d # b => phase'[d] = phase[d]
  BY <1>0 DEF Begin, TypeOK
<1>3. \A c \in Call : status[c] # "validating"
  BY BatchAssumption DEF ChannelsInv, LoopInv
<1>4. ASSUME NEW d \in Call
      PROVE  /\ st[d] = "validating" => BatchOf[d] = b /\ Ahead(d) /\ Unknown(d)'
             /\ st[d] = "scheduled" => d \in granted' /\ ~(phase'[BatchOf[d]] # "begun")
             /\ st[d] = "success" => starts[d] > 0
             /\ verdict[d] # "none" => st[d] = "none"
             /\ phase'[BatchOf[d]] # "begun" =>
                   /\ phase[BatchOf[d]] # "begun" /\ st[d] = "none" /\ Unknown(d)'
  <2>1. Ahead(d) => Unknown(d)'
    BY DEF ChannelsInv, AheadInv, Unknown, users
  <2>2. BatchOf[d] \in Batch
    BY BatchAssumption
  <2>3. CASE BatchOf[d] = b
    BY <1>1, <1>2, <2>1, <2>3 DEF ChannelsInv, HistoryInv, Ahead
  <2>4. CASE BatchOf[d] # b
    <3>1. st[d] = status[d] /\ phase'[BatchOf[d]] = phase[BatchOf[d]]
      BY <1>1, <1>2, <2>2, <2>4
    <3>2. st[d] = "scheduled" => d \in granted'
      BY <3>1 DEF ChannelsInv, GrantInv, Allowed
    <3>3. st[d] = "success" => starts[d] > 0
      BY <3>1 DEF ChannelsInv, StartInv
    <3> QED BY <1>3, <2>1, <3>1, <3>2, <3>3 DEF ChannelsInv, HistoryInv, Ahead
  <2> QED BY <2>3, <2>4
<1> QED BY <1>1, <1>4, LoopedInv

\* A step that leaves the list, the answers and the work alone.
LEMMA SameInv ==
    ASSUME ChannelsInv, TypeOK', QueueInv',
           UNCHANGED <<status, scheduling, verdict, starts, running, saving, resp, ideDiff,
                       pressed, offered, modeTodo, granted>>,
           handed' \subseteq handed,
           \A b \in Batch : phase[b] = "begun" => phase'[b] = "begun"
    PROVE  ChannelsInv'
<1>1. \A c \in Call : BatchOf[c] \in Batch /\ (Ahead(c)' => Ahead(c))
  BY BatchAssumption DEF Ahead
<1>2. HistoryInv' /\ LoopInv' /\ ListFreeWhileFinalizing'
  BY <1>1 DEF ChannelsInv, HistoryInv, LoopInv, ListFreeWhileFinalizing
<1>3. AheadInv'
  BY <1>1 DEF ChannelsInv, AheadInv, Unknown
<1>4. GrantInv' /\ StartInv'
  BY <1>1 DEF ChannelsInv, GrantInv, Allowed, StartInv
<1> QED BY <1>2, <1>3, <1>4 DEF ChannelsInv

LEMMA RequestSteps ==
    ASSUME ChannelsInv, NEW b \in Batch, Schedule(b) \/ Enqueue(b) \/ Abort(b)
    PROVE  ChannelsInv'
<1>0. TypeOK' /\ QueueInv' /\ \A d \in Batch : phase[d] = "begun" => phase'[d] = "begun"
  BY RequestType, RequestQueue DEF ChannelsInv
<1>1. CASE Schedule(b)
  BY <1>0, <1>1, BeginSteps DEF Schedule, IsRunning
<1>2. CASE Enqueue(b) \/ Abort(b)
  BY <1>0, <1>2, SameInv DEF Enqueue, Abort, work, users, history
<1> QED BY <1>1, <1>2

LEMMA HandlerSteps ==
    ASSUME ChannelsInv, HandlerReturns \/ HandlerThrows
    PROVE  ChannelsInv'
<1>0. TypeOK'
  BY HandlerType DEF ChannelsInv
<1>1. scheduling = NoBatch
  BY DEF HandlerReturns, HandlerThrows, ChannelsInv, ListFreeWhileFinalizing
<1>2. CASE HandlerReturns /\ queue # <<>>
  <2>1. Begin(Head(queue), {}) /\ UNCHANGED <<saving, resp, users, granted>>
    BY <1>2 DEF HandlerReturns
  <2>2. Head(queue) \in Batch /\ phase[Head(queue)] # "begun" /\ QueueInv'
    BY <1>2, HandlerQueue DEF ChannelsInv
  <2> QED BY <1>0, <1>1, <2>1, <2>2, BeginSteps
<1>3. CASE (HandlerReturns /\ queue = <<>>) \/ HandlerThrows
  <2>1. UNCHANGED <<queue, phase>> /\ handed' \subseteq handed
    BY <1>3 DEF HandlerReturns, HandlerThrows
  <2>2. QueueInv'
    BY <2>1 DEF ChannelsInv, QueueInv
  <2> QED BY <1>0, <1>3, <2>1, <2>2, SameInv DEF HandlerReturns, HandlerThrows, work, users, history
<1> QED BY <1>2, <1>3

LEMMA ChannelsInvInit == Init => ChannelsInv
<1> SUFFICES ASSUME Init PROVE ChannelsInv
  OBVIOUS
<1>1. TypeOK
  BY InitType
<1>2. QueueInv /\ HistoryInv /\ LoopInv /\ ListFreeWhileFinalizing
  BY DEF Init, QueueInv, HistoryInv, LoopInv, ListFreeWhileFinalizing
<1>3. AheadInv
  BY DEF Init, AheadInv, Unknown, Idle
<1>4. GrantInv
  BY DEF Init, GrantInv, Allowed, Idle, Fits
<1>5. StartInv
  BY DEF Init, StartInv
<1> QED BY <1>1, <1>2, <1>3, <1>4, <1>5 DEF ChannelsInv

LEMMA ChannelsInvStep == ChannelsInv /\ [Next]_vars => ChannelsInv'
<1> SUFFICES ASSUME ChannelsInv, [Next]_vars PROVE ChannelsInv'
  OBVIOUS
<1>0. TypeOK'
  BY StepType DEF ChannelsInv
<1>1. ASSUME \/ \E c \in Call : Prompted(c)
             \/ \E c \in Call, k \in Slot : Resumed(c, k)
             \/ \E m \in Mode : SwitchMode(m)
      PROVE  ChannelsInv'
  <2>1. ASSUME NEW c \in Call, Prompted(c)
        PROVE  saving' = saving
    BY <2>1 DEF Prompted, UiAnswers, UiClosesDiff, UiAnswersLate, ClientAnswers,
       ModeAnswers, IdeOpens, IdeResolves, IdeFails, Answer, work
  <2>2. ASSUME NEW c \in Call, NEW k \in Slot, Resumed(c, k)
        PROVE  saving' = saving
    BY <2>2 DEF Resumed, OnConfirmReturns, OnConfirmThrows, AutoApprove, AutoApproveReturns,
       EditorCloses, EditorFails, InlineModify, InlineModifyFails, InlineProceeds, work
  <2>3. ASSUME NEW m \in Mode, SwitchMode(m)
        PROVE  saving' = saving
    BY <2>3 DEF SwitchMode, work
  <2> QED BY <1>0, <1>1, <2>1, <2>2, <2>3, StepKeeps, KeptInv
<1>2. ASSUME NEW c \in Call, NEW b \in Batch, Execution(c, b)
      PROVE  ChannelsInv'
  BY <1>0, <1>2, StepKeeps, KeptInv
<1>3. CASE UNCHANGED vars
  <2>1. QueueInv'
    BY <1>3 DEF ChannelsInv, QueueInv, vars, fields
  <2> QED BY <1>0, <1>3, <2>1, SameInv DEF vars, fields, work, users, history
<1> QED BY <1>1, <1>2, <1>3, RequestSteps, HandlerSteps, ValidationSteps DEF Next

LEMMA ChannelsInvHolds == Spec => []ChannelsInv
BY ChannelsInvInit, ChannelsInvStep, PTL DEF Spec

-----------------------------------------------------------------------------
(* The theorems.                                                           *)

\* Whoever answers, the list is empty and the loop stands still while
\* onAllToolCallsComplete works, so _schedule never throws "Cannot schedule new tool
\* calls while other tool calls are actively running".
THEOREM ScheduleNeverThrows == Spec => []ListFreeWhileFinalizing
BY ChannelsInvHolds, PTL DEF ChannelsInv

\* No tool runs that no setting, no answer and not the tool itself allowed, however
\* the answers of all the channels and the automatic approval interleave.
THEOREM NothingRunsUnasked == Spec => []OnlyGrantedCallsRun
<1>1. ChannelsInv => OnlyGrantedCallsRun
  BY DEF ChannelsInv, GrantInv, Allowed, OnlyGrantedCallsRun
<1> QED BY <1>1, ChannelsInvHolds, PTL

-----------------------------------------------------------------------------
(* What no step does.                                                      *)

\* One call of ResultsAreFinal, and one of AbortedCallsStop.
ResultStays(c) ==
    /\ status[c] \in Terminal =>
          \/ status'[c] = status[c] \/ verdict'[c] = status[c]
          \/ ArgsPending(c) /\ "error" \in {status'[c], verdict'[c]}
    /\ verdict[c] # "none" => verdict'[c] = verdict[c] /\ c \notin InList(status')
AbortedStops(c) ==
    status[c] = "validating" /\ ~Validating(c) /\ BatchOf[c] \in aborted
        => \/ status'[c] = "validating" /\ ~Validating(c)'
           \/ "cancelled" \in {status'[c], verdict'[c]}

\* Answers and executions change a result only through late arguments.
LEMMA KeptResults ==
    ASSUME ChannelsInv, Kept, NEW c \in Call
    PROVE  ResultStays(c) /\ AbortedStops(c)
<1>1. PICK st \in [Call -> Status] : Settled(st, handed) /\ \A d \in Call : Changed(d, st)
  BY DEF Kept, AnswerStep
<1>2. Changed(c, st) /\ Listed(st, handed)
  BY <1>1 DEF Settled
<1>3. status[c] \in Terminal =>
          \/ status'[c] = status[c] \/ verdict'[c] = status[c]
          \/ ArgsPending(c) /\ "error" \in {status'[c], verdict'[c]}
  <2> SUFFICES ASSUME status[c] \in Terminal
               PROVE  \/ status'[c] = status[c] \/ verdict'[c] = status[c]
                      \/ ArgsPending(c) /\ "error" \in {status'[c], verdict'[c]}
    OBVIOUS
  <2>1. st[c] = status[c] \/ (st[c] = "error" /\ ArgsPending(c))
    BY <1>2 DEF Changed
  <2>2. st[c] \in Terminal
    BY <2>1 DEF Terminal
  <2>3. status'[c] = st[c] \/ verdict'[c] = st[c]
    BY <1>2, <2>2 DEF Listed, Terminal
  <2> QED BY <2>1, <2>3
<1>4. verdict[c] # "none" => verdict'[c] = verdict[c] /\ status'[c] = "none"
  BY KeptCall DEF ChannelsInv, HistoryInv
<1>5. \A d \in Call : status'[d] = "validating" <=> status[d] = "validating"
  BY KeptCall
<1>6. Validating(c)' => Validating(c)
  BY <1>5 DEF Validating, IsFirst, CallsOf, Kept, AnswerStep
<1> QED BY <1>3, <1>4, <1>5, <1>6 DEF ResultStays, AbortedStops, InList

\* A segment of the loop changes no result, and it cancels what it leaves behind.
LEMMA LoopedResults ==
    ASSUME NEW st \in [Call -> Status], NEW b \in Batch, Looped(st, b), NEW c \in Call,
           status[c] \in Terminal => st[c] = status[c],
           verdict[c] # "none" => st[c] = "none"
    PROVE  /\ ResultStays(c)
           /\ st[c] = "validating" /\ BatchOf[c] = b /\ b \in aborted =>
                 "cancelled" \in {status'[c], verdict'[c]}
<1>1. PICK end \in [Call -> Status] :
          /\ Settled(end, {})
          /\ \A d \in Call : \/ end[d] = st[d]
                             \/ BatchOf[d] = b /\ st[d] = "validating" /\ end[d] = "cancelled"
          /\ \/ b \notin aborted
             \/ \A d \in Call : BatchOf[d] = b => end[d] # "validating"
  BY DEF Looped
<1>2. Listed(end, {})
  BY <1>1 DEF Settled
<1>3. end[c] = st[c] \/ (BatchOf[c] = b /\ st[c] = "validating" /\ end[c] = "cancelled")
  BY <1>1
<1>4. end[c] \in Terminal => status'[c] = end[c] \/ verdict'[c] = end[c]
  BY <1>2 DEF Listed, Terminal
<1>5. status[c] \in Terminal => status'[c] = status[c] \/ verdict'[c] = status[c]
  BY <1>3, <1>4 DEF Terminal
<1>6. verdict[c] # "none" => verdict'[c] = verdict[c] /\ status'[c] = "none"
  BY <1>2, <1>3 DEF Listed
<1>7. st[c] = "validating" /\ BatchOf[c] = b /\ b \in aborted =>
          "cancelled" \in {status'[c], verdict'[c]}
  BY <1>1, <1>3, <1>4 DEF Terminal
<1> QED BY <1>5, <1>6, <1>7 DEF ResultStays, InList

LEMMA BeginResults ==
    ASSUME ChannelsInv, NEW b \in Batch, phase[b] # "begun", scheduling = NoBatch,
           Begin(b, {}), NEW c \in Call
    PROVE  ResultStays(c) /\ AbortedStops(c)
<1>1. PICK st \in [Call -> Status] :
          /\ Looped(st, b)
          /\ \A d \in Call : /\ BatchOf[d] = b => st[d] \in {"error", "validating"}
                             /\ BatchOf[d] # b => st[d] = status[d]
  BY BeginLoops DEF ChannelsInv
<1>2. BatchOf[c] = b => status[c] = "none" /\ verdict[c] = "none"
  BY DEF ChannelsInv, HistoryInv
<1>3. status[c] # "validating"
  BY BatchAssumption DEF ChannelsInv, LoopInv
<1>4. /\ status[c] \in Terminal => st[c] = status[c]
      /\ verdict[c] # "none" => st[c] = "none"
  BY <1>1, <1>2 DEF Terminal, ChannelsInv, HistoryInv
<1> QED BY <1>1, <1>3, <1>4, LoopedResults DEF AbortedStops

LEMMA ValidationResults ==
    ASSUME ChannelsInv, NEW d \in Call, Validation(d), NEW c \in Call
    PROVE  ResultStays(c) /\ AbortedStops(c)
<1>1. Validating(d)
  BY DEF Validation, ConfirmationNotNeeded, SettingsConfirm, AskForApproval, ConfirmationThrows
<1>2. PICK st \in [Call -> Status] :
          Looped(st, scheduling) /\ \A e \in Call : e # d => st[e] = status[e]
  BY ValidationLoops
<1>3. /\ scheduling \in Batch /\ status[d] = "validating" /\ verdict[d] = "none"
      /\ status[c] = "validating" => BatchOf[c] = scheduling
  BY <1>1, ValidatingCall DEF ChannelsInv, LoopInv
<1>4. /\ status[c] \in Terminal => st[c] = status[c]
      /\ verdict[c] # "none" => st[c] = "none"
  BY <1>2, <1>3 DEF Terminal, ChannelsInv, HistoryInv
<1>5. ~Validating(c) => st[c] = status[c]
  BY <1>1, <1>2
<1> QED BY <1>2, <1>3, <1>4, <1>5, LoopedResults DEF AbortedStops

\* A step that changes neither the list nor what was reported of it.
LEMMA SameResults ==
    ASSUME ChannelsInv, UNCHANGED <<status, verdict, scheduling>>, NEW c \in Call
    PROVE  ResultStays(c) /\ AbortedStops(c)
<1>1. ResultStays(c)
  BY DEF ResultStays, InList, ChannelsInv, HistoryInv
<1>2. AbortedStops(c)
  BY DEF AbortedStops, Validating, IsFirst, CallsOf
<1> QED BY <1>1, <1>2

LEMMA StepResults ==
    ASSUME ChannelsInv, [Next]_vars, NEW c \in Call
    PROVE  ResultStays(c) /\ AbortedStops(c)
<1>1. ASSUME NEW b \in Batch, Schedule(b) \/ Enqueue(b) \/ Abort(b)
      PROVE  ResultStays(c) /\ AbortedStops(c)
  <2>1. CASE Schedule(b)
    <3>1. phase[b] # "begun" /\ scheduling = NoBatch /\ Begin(b, {})
      BY <2>1 DEF Schedule, IsRunning
    <3> QED BY <3>1, BeginResults
  <2>2. CASE Enqueue(b) \/ Abort(b)
    BY <2>2, SameResults DEF Enqueue, Abort, history
  <2> QED BY <1>1, <2>1, <2>2
<1>2. CASE HandlerReturns \/ HandlerThrows
  <2>1. scheduling = NoBatch
    BY <1>2 DEF HandlerReturns, HandlerThrows, ChannelsInv, ListFreeWhileFinalizing
  <2>2. CASE HandlerReturns /\ queue # <<>>
    <3>1. Begin(Head(queue), {})
      BY <2>2 DEF HandlerReturns
    <3>2. Head(queue) \in Batch /\ phase[Head(queue)] # "begun"
      BY <2>2, HandlerQueue DEF ChannelsInv
    <3> QED BY <2>1, <3>1, <3>2, BeginResults
  <2>3. CASE (HandlerReturns /\ queue = <<>>) \/ HandlerThrows
    BY <2>3, SameResults DEF HandlerReturns, HandlerThrows, history
  <2> QED BY <1>2, <2>2, <2>3
<1>3. CASE UNCHANGED vars
  BY <1>3, SameResults DEF vars, fields, history
<1> QED BY <1>1, <1>2, <1>3, StepKeeps, KeptResults, ValidationResults DEF Next

\* Once decided, a result stays until it is reported, and what was reported stays
\* reported: of all the awaits that setStatusInternal and setArgsInternal may follow,
\* only the editor and the client's file change a result, into an error.
THEOREM ResultsStand == Spec => ResultsAreFinal
<1>1. ChannelsInv /\ [Next]_vars =>
      [\A c \in Call :
          /\ status[c] \in Terminal =>
                \/ status'[c] = status[c] \/ verdict'[c] = status[c]
                \/ ArgsPending(c) /\ "error" \in {status'[c], verdict'[c]}
          /\ verdict[c] # "none" => verdict'[c] = verdict[c] /\ c \notin InList(status')]_vars
  BY StepResults DEF ResultStays
<1> QED BY <1>1, ChannelsInvHolds, PTL DEF Spec, ResultsAreFinal

\* Calls the loop of _schedule has not reached when their signal fires are cancelled,
\* whatever the tool at the head of the loop answers and whoever else is at work.
THEOREM AbortStopsTheLoop == Spec => AbortedCallsStop
<1>1. ChannelsInv /\ [Next]_vars =>
      [\A c \in Call : status[c] = "validating" /\ ~Validating(c) /\ BatchOf[c] \in aborted
                       => \/ status'[c] = "validating" /\ ~Validating(c)'
                          \/ "cancelled" \in {status'[c], verdict'[c]}]_vars
  BY StepResults DEF AbortedStops
<1> QED BY <1>1, ChannelsInvHolds, PTL DEF Spec, AbortedCallsStop

-----------------------------------------------------------------------------
(* The contract, whoever answers.                                          *)

\* What a state says: the invariant of all channels, and while answers have not
\* crossed that of a scheduler whose answers do not.
Sound == ChannelsInv /\ (~crossed => IInv)

LEMMA SoundHolds == Spec => []Sound
<1>1. ChannelsInv /\ (TypeOK /\ (~crossed => IInv)) => Sound
  BY DEF Sound
<1> QED BY <1>1, ChannelsInvHolds, InvariantHolds, PTL

\* A list that a step leaves to the barrier has the calls of the contract's open
\* batch, and what succeeded in it was executed.
Same(st) ==
    \A c \in Call : /\ st[c] # "none" <=> status[c] # "none"
                    /\ st[c] = "success" => starts[c] > 0

\* Some calls of S start: a second time only when answers cross.
LEMMA StartContract ==
    ASSUME Sound, Sound', NEW st, Started(st), NEW S,
           \A c \in Call : st[c] = "scheduled" => c \in S
    PROVE  Contract!Start(S)
<1> DEFINE T == {c \in Call : starts'[c] # starts[c]}
<1>1. starts \in [Call -> Nat] /\ starts' \in [Call -> Nat]
  BY DEF Sound, ChannelsInv, TypeOK
<1>2. \A c \in T : st[c] = "scheduled" /\ starts'[c] = starts[c] + 1 /\ c \in S
  BY DEF Started
<1>3. \A c \in T : starts[c] = 0 \/ crossed'
  <2> SUFFICES ASSUME NEW c \in T, ~crossed' PROVE starts[c] = 0
    OBVIOUS
  <2>1. starts'[c] <= 1
    BY DEF Sound, IInv, FlightInv, Flights
  <2> QED BY <1>1, <1>2, <2>1
<1>4. starts' = [c \in Call |-> IF c \in T THEN starts[c] + 1 ELSE starts[c]]
  BY <1>1, <1>2
<1>5. T \in SUBSET {c \in S : starts[c] = 0 \/ crossed'}
  BY <1>2, <1>3
<1> HIDE DEF T
<1> QED BY <1>4, <1>5 DEF Contract!Start

\* The list st is complete and reported.
LEMMA ReportContract ==
    ASSUME Sound, Sound', NEW st \in [Call -> Status], Complete(st),
           \A c \in Call : st[c] = "success" => starts[c] > 0,
           handed' = InList(st),
           \A c \in Call : /\ status'[c] = "none"
                           /\ verdict'[c] = IF st[c] # "none" THEN st[c] ELSE verdict[c]
    PROVE  Contract!Report(InList(st))
<1>1. InList(status') = {} /\ DOMAIN verdict' = Call
  BY DEF InList, Sound, ChannelsInv, TypeOK
<1>2. ASSUME NEW c \in Call
      PROVE  /\ c \in InList(st) => verdict'[c] \in {"success", "error", "cancelled"}
             /\ c \in InList(st) /\ verdict'[c] = "success" =>
                   starts[c] = 1 \/ (crossed /\ starts[c] > 0)
             /\ c \notin InList(st) => verdict'[c] = verdict[c]
  <2>1. c \in InList(st) => verdict'[c] = st[c] /\ st[c] \in {"success", "error", "cancelled"}
    BY DEF Complete, InList, Terminal
  <2>2. c \notin InList(st) => verdict'[c] = verdict[c]
    BY DEF InList
  <2>3. ~crossed => starts[c] <= 1
    BY DEF Sound, IInv, FlightInv, Flights
  <2>4. starts[c] \in Nat
    BY DEF Sound, ChannelsInv, TypeOK
  <2>5. st[c] = "success" => starts[c] = 1 \/ (crossed /\ starts[c] > 0)
    BY <2>3, <2>4
  <2> QED BY <2>1, <2>2, <2>5
<1> QED BY <1>1, <1>2 DEF Contract!Report

\* A complete list starts nothing.
LEMMA CompleteStarts ==
    ASSUME TypeOK, TypeOK', NEW st, Complete(st), Started(st)
    PROVE  starts' = starts
<1>1. \A c \in Call : starts'[c] = starts[c]
  BY DEF Started, Complete, InList, Terminal
<1> QED BY <1>1 DEF TypeOK

\* Within a batch, such a step reports it, starts calls of it, or changes nothing
\* the contract tells.
LEMMA SettledContract ==
    ASSUME Sound, Sound', crossed => crossed', NEW st \in [Call -> Status],
           Settled(st, handed), Same(st), UNCHANGED <<phase, queue>>
    PROVE  [Contract!BNext]_(Contract!bvars)
<1>0. Started(st) /\ InList(st) = InList(status)
  BY DEF Settled, Same, InList
<1>1. CASE /\ Complete(st)
           /\ handed' = handed \cup InList(st)
           /\ \A c \in Call : /\ status'[c] = "none"
                              /\ verdict'[c] = IF st[c] # "none" THEN st[c] ELSE verdict[c]
  <2>1. InList(status) # {}
    BY <1>0, <1>1 DEF Complete
  <2>2. handed = {} /\ handed' = InList(st)
    BY <1>1, <2>1 DEF Sound, ChannelsInv, ListFreeWhileFinalizing
  <2>3. starts' = starts
    BY <1>0, <1>1, CompleteStarts DEF Sound, ChannelsInv
  <2>4. Contract!Report(InList(status))
    BY <1>0, <1>1, <2>2, ReportContract DEF Same
  <2>5. Contract!Complete
    BY <2>1, <2>2, <2>3, <2>4 DEF Contract!Complete
  <2> QED BY <2>5 DEF Contract!BNext
<1>2. CASE /\ handed' = handed /\ verdict' = verdict
           /\ \A c \in Call : \/ status'[c] = st[c]
                              \/ st[c] = "scheduled" /\ status'[c] = "executing"
  <2>1. InList(status') = InList(status)
    BY <1>2 DEF Same, InList
  <2>2. \A c \in Call : st[c] = "scheduled" => c \in InList(status)
    BY DEF Same, InList
  <2>3. Contract!Start(InList(status))
    BY <1>0, <2>2, StartContract
  <2>4. Contract!Execute
    BY <1>2, <2>1, <2>3 DEF Contract!Execute
  <2> QED BY <2>4 DEF Contract!BNext
<1> QED BY <1>1, <1>2 DEF Settled, Listed

\* Answers and executions.
LEMMA KeptContract ==
    ASSUME Sound, Sound', crossed => crossed', Kept
    PROVE  [Contract!BNext]_(Contract!bvars)
<1>1. PICK st \in [Call -> Status] : Settled(st, handed) /\ \A d \in Call : Changed(d, st)
  BY DEF Kept, AnswerStep
<1>2. Same(st)
  BY <1>1 DEF Same, Changed, Sound, ChannelsInv, StartInv
<1>3. UNCHANGED <<phase, queue>>
  BY DEF Kept, AnswerStep
<1> QED BY <1>1, <1>2, <1>3, SettledContract

\* The loop of _schedule behind its first segment.
LEMMA ValidationContract ==
    ASSUME Sound, Sound', crossed => crossed', NEW c \in Call, Validation(c)
    PROVE  [Contract!BNext]_(Contract!bvars)
<1>0. ChannelsInv
  BY DEF Sound
<1>1. PICK st \in [Call -> Status] :
          /\ Looped(st, scheduling)
          /\ st[c] \notin {"none", "validating", "executing", "success"}
          /\ \A d \in Call : d # c => st[d] = status[d]
  BY <1>0, ValidationLoops
<1>2. status[c] = "validating" /\ handed = {}
  BY <1>0, ValidatingCall DEF Validation, ConfirmationNotNeeded, SettingsConfirm,
                              AskForApproval, ConfirmationThrows
<1>3. PICK end \in [Call -> Status] :
          /\ Settled(end, {})
          /\ \A d \in Call : \/ end[d] = st[d]
                             \/ st[d] = "validating" /\ end[d] = "cancelled"
  BY <1>1 DEF Looped
<1>4. Same(end)
  BY <1>0, <1>1, <1>2, <1>3 DEF Same, ChannelsInv, StartInv
<1>5. UNCHANGED <<phase, queue>>
  BY DEF Validation, ConfirmationNotNeeded, SettingsConfirm, AskForApproval, ConfirmationThrows
<1> QED BY <1>2, <1>3, <1>4, <1>5, SettledContract

\* The first segment takes a batch, or is done with it and with what it joins at once.
LEMMA BeginContract ==
    ASSUME Sound, Sound', NEW b \in Batch, phase[b] # "begun", Begin(b, {})
    PROVE  Contract!Take(b)
<1>0. ChannelsInv /\ TypeOK /\ TypeOK'
  BY DEF Sound, ChannelsInv
<1>1. PICK st \in [Call -> Status] :
          /\ Looped(st, b)
          /\ \A c \in Call : /\ BatchOf[c] = b => st[c] \in {"error", "validating"}
                             /\ BatchOf[c] # b => st[c] = status[c]
  BY <1>0, BeginLoops
<1>2. PICK end \in [Call -> Status] :
          /\ Settled(end, {})
          /\ \A c \in Call : \/ end[c] = st[c]
                             \/ st[c] = "validating" /\ end[c] = "cancelled"
  BY <1>1 DEF Looped
<1>3. \A c \in Call : /\ end[c] # "none" <=> status[c] # "none" \/ BatchOf[c] = b
                      /\ end[c] = "success" => status[c] = "success"
  BY <1>1, <1>2
<1>4. InList(end) = InList(status) \cup Contract!Members(b)
  BY <1>3 DEF InList, Contract!Members
<1>5. \A c \in Call : end[c] = "success" => starts[c] > 0
  BY <1>0, <1>3 DEF ChannelsInv, StartInv
<1>6. phase' = [phase EXCEPT ![b] = "begun"] /\ Started(end)
  BY <1>2 DEF Begin, Settled
<1>7. CASE /\ Complete(end)
           /\ handed' = {} \cup InList(end)
           /\ \A c \in Call : /\ status'[c] = "none"
                              /\ verdict'[c] = IF end[c] # "none" THEN end[c] ELSE verdict[c]
  <2>1. Contract!Report(InList(end))
    BY <1>2, <1>5, <1>7, ReportContract
  <2>2. starts' = starts
    BY <1>0, <1>6, <1>7, CompleteStarts
  <2> QED BY <1>4, <1>6, <2>1, <2>2 DEF Contract!Take
<1>8. CASE /\ handed' = {} /\ verdict' = verdict
           /\ \A c \in Call : \/ status'[c] = end[c]
                              \/ end[c] = "scheduled" /\ status'[c] = "executing"
  <2>1. InList(status') = InList(end)
    BY <1>8 DEF InList
  <2>2. \A c \in Call : end[c] = "scheduled" => c \in InList(status')
    BY <2>1 DEF InList
  <2>3. Contract!Start(InList(status'))
    BY <1>6, <2>2, StartContract
  <2> QED BY <1>4, <1>6, <1>8, <2>1, <2>3 DEF Contract!Take
<1> QED BY <1>2, <1>7, <1>8 DEF Settled, Listed

\* Requests come, wait and are withdrawn as the contract says.
LEMMA RequestContract ==
    ASSUME Sound, Sound', crossed => crossed', NEW b \in Batch,
           Schedule(b) \/ Enqueue(b) \/ Abort(b)
    PROVE  [Contract!BNext]_(Contract!bvars)
<1>1. CASE Schedule(b)
  <2>1. InList(status) = {} \/ crossed
    BY <1>1, EmptyList DEF Sound, Schedule, IsRunning, InList
  <2>2. handed = {} /\ phase[b] = "unsent" /\ queue' = queue
    BY <1>1 DEF Schedule, IsRunning
  <2>3. Contract!Take(b)
    BY <1>1, <2>2, BeginContract DEF Schedule
  <2>4. Contract!Accept(b)
    BY <2>1, <2>2, <2>3 DEF Contract!Accept
  <2> QED BY <2>4 DEF Contract!BNext
<1>2. CASE Enqueue(b)
  <2>1. InList(status) \cup handed # {}
    BY <1>2 DEF Enqueue, IsRunning, InList, Sound, ChannelsInv, LoopInv
  <2>2. Contract!Wait(b)
    BY <1>2, <2>1 DEF Enqueue, history, Contract!Wait
  <2> QED BY <2>2 DEF Contract!BNext
<1>3. CASE Abort(b)
  <2>1. UNCHANGED <<status, handed, starts, verdict, crossed>>
    BY <1>3 DEF Abort, history
  <2>2. CASE UNCHANGED <<queue, phase>>
    BY <2>1, <2>2 DEF Contract!bvars
  <2>3. CASE /\ phase' = [phase EXCEPT ![b] = "rejected"]
             /\ \E i \in 1..Len(queue) :
                   /\ queue[i] = b
                   /\ queue' = SubSeq(queue, 1, i - 1) \o SubSeq(queue, i + 1, Len(queue))
    <3>1. Contract!Withdraw(b)
      BY <2>1, <2>3 DEF Contract!Withdraw
    <3> QED BY <3>1 DEF Contract!BNext
  <2> QED BY <1>3, <2>2, <2>3 DEF Abort
<1> QED BY <1>1, <1>2, <1>3

LEMMA HandlerContract ==
    ASSUME Sound, Sound', crossed => crossed', HandlerReturns \/ HandlerThrows
    PROVE  [Contract!BNext]_(Contract!bvars)
<1>1. handed # {} /\ InList(status) = {}
  BY DEF HandlerReturns, HandlerThrows, Sound, ChannelsInv, ListFreeWhileFinalizing
<1>2. CASE HandlerReturns /\ queue # <<>>
  <2>1. /\ Head(queue) \in Batch /\ phase[Head(queue)] # "begun"
        /\ Begin(Head(queue), {}) /\ queue' = Tail(queue)
    BY <1>2, HandlerQueue DEF HandlerReturns, Sound, ChannelsInv
  <2>2. Contract!Take(Head(queue))
    BY <2>1, BeginContract
  <2>3. Contract!Resume
    BY <1>1, <1>2, <2>1, <2>2 DEF Contract!Resume
  <2> QED BY <2>3 DEF Contract!BNext
<1>3. CASE HandlerReturns /\ queue = <<>>
  <2>1. Contract!Resume
    BY <1>1, <1>3 DEF HandlerReturns, Contract!Resume
  <2> QED BY <2>1 DEF Contract!BNext
<1>4. CASE HandlerThrows
  BY <1>4 DEF HandlerThrows, history, Contract!bvars
<1> QED BY <1>2, <1>3, <1>4

LEMMA ContractInit == Init => Contract!BInit
BY DEF Init, InList, Contract!BInit

LEMMA ContractStep ==
    ASSUME Sound, Sound', [Next]_vars
    PROVE  [Contract!BNext]_(Contract!bvars)
<1>0. ChannelsInv /\ (crossed => crossed')
  BY CrossedStays DEF Sound, ChannelsInv
<1>1. CASE UNCHANGED vars
  BY <1>1 DEF vars, fields, history, Contract!bvars
<1>2. CASE \/ \E c \in Call : Prompted(c)
           \/ \E c \in Call, b \in Batch : Execution(c, b)
           \/ \E c \in Call, k \in Slot : Resumed(c, k)
           \/ \E m \in Mode : SwitchMode(m)
  BY <1>0, <1>2, StepKeeps, KeptContract
<1>3. CASE \E c \in Call : Validation(c)
  BY <1>0, <1>3, ValidationContract
<1>4. CASE \E b \in Batch : Schedule(b) \/ Enqueue(b) \/ Abort(b)
  BY <1>0, <1>4, RequestContract
<1>5. CASE HandlerReturns \/ HandlerThrows
  BY <1>0, <1>5, HandlerContract
<1> QED BY <1>1, <1>2, <1>3, <1>4, <1>5 DEF Next

\* The scheduler implements ToolBatches whoever answers and however often: batches are
\* worked on one at a time and in the order they came, calls run at most once, and a
\* batch is reported as a whole when all of it is decided; when answers have crossed, a
\* call may be started again and a batch join another, and nothing else.
THEOREM ContractIsKept == Spec => ImplementsContract
<1>1. Sound /\ Sound' /\ [Next]_vars => [Contract!BNext]_(Contract!bvars)
  BY ContractStep
<1> QED BY <1>1, ContractInit, SoundHolds, PTL DEF Spec, ImplementsContract, Contract!BSpec

-----------------------------------------------------------------------------
(* The barrier of attemptExecutionOfScheduledCalls, whoever answers.       *)

Unmixed(st) == \A c, d \in Call : BatchOf[c] = BatchOf[d] \/ st[c] = "none" \/ st[d] = "none"
Over(st, c) == st[c] \in Terminal \cup {"none"}

\* What was started is at work until it is decided, and the calls of a list of one
\* batch start together.
Flying(st) == \A c \in Call : starts[c] > 0 => Over(st, c) \/ InFlight(c)
Together(st) ==
    /\ \A c \in Call : st[c] = "executing" => starts[c] > 0
    /\ Unmixed(st) => \A c, d \in Call : st[d] # "none" /\ starts[d] > 0 =>
                                         Over(st, c) \/ starts[c] > 0

\* A scheduled call that was not started waits for another, or for a response.
Held(st) ==
    Unmixed(st) => \A c \in Call : st[c] = "scheduled" /\ starts[c] = 0 =>
                                   AboutToLaunch \/ Open(st) # {}

HeldInv == Flying(status) /\ Together(status) /\ Held(status)

LEMMA LaunchHeld ==
    ASSUME TypeOK, TypeOK', NEW st \in [Call -> Status], NEW b \in Batch, NEW h,
           Flying(st), Together(st), Launch(st, b, h), saving' = saving
    PROVE  HeldInv'
<1> DEFINE go == IF AllReady(st) THEN {c \in Call : st[c] = "scheduled"} ELSE {}
<1>1. CASE Complete(st)
  <2>1. \A c \in Call : status'[c] = "none"
    BY <1>1 DEF Launch, Deliver
  <2> QED BY <2>1 DEF HeldInv, Flying, Together, Held, Over
<1>2. CASE ~Complete(st)
  <2>1. /\ status' = [c \in Call |-> IF c \in go THEN "executing" ELSE st[c]]
        /\ running' = [c \in Call |-> IF c \in go
                         THEN [running[c] EXCEPT ![b] = @ + 1] ELSE running[c]]
        /\ starts' = [c \in Call |-> IF c \in go THEN starts[c] + 1 ELSE starts[c]]
    BY <1>2 DEF Launch
  <2> HIDE DEF go
  <2>2. CASE AllReady(st)
    <3>1. \A c \in Call : c \in go <=> ~Over(st, c)
      BY <2>2 DEF go, AllReady, InList, Over, Terminal
    <3>2. ASSUME NEW c \in Call, c \in go
          PROVE  starts'[c] > 0 /\ InFlight(c)' /\ status'[c] = "executing"
      <4>1. starts'[c] > 0 /\ status'[c] = "executing"
        BY <2>1, <3>2 DEF TypeOK
      <4>2. running'[c][b] + saving'[c][b] > 0
        BY <2>1, <3>2 DEF TypeOK
      <4> QED BY <4>1, <4>2 DEF InFlight
    <3>3. \A c \in Call : c \notin go => status'[c] = st[c] /\ Over(status, c)'
      BY <2>1, <3>1 DEF Over
    <3> QED BY <3>2, <3>3 DEF HeldInv, Flying, Together, Held, Over, Terminal
  <2>3. CASE ~AllReady(st)
    <3>1. status' = st /\ running' = running /\ starts' = starts
      BY <2>1, <2>3 DEF go, TypeOK
    <3>2. Flying(status)'
      BY <3>1 DEF Flying, Over, InFlight
    <3>3. Together(status)'
      BY <3>1 DEF Together, Over, Unmixed
    <3>4. Held(status)'
      <4> SUFFICES ASSUME Unmixed(st), NEW c \in Call, st[c] = "scheduled", starts[c] = 0
                   PROVE  Open(st) # {}
        BY <3>1 DEF Held, Unmixed, Open
      <4>1. PICK d \in Call : st[d] \notin Terminal \cup {"none", "scheduled"}
        BY <2>3 DEF AllReady, InList
      <4>2. st[d] # "executing"
        BY DEF Together, Over, Terminal
      <4> QED BY <4>1, <4>2 DEF Open, Status
    <3> QED BY <3>2, <3>3, <3>4 DEF HeldInv
  <2> QED BY <2>2, <2>3
<1> QED BY <1>1, <1>2

\* A step that may report the list but starts nothing.
LEMMA NotifyHeld ==
    ASSUME NEW st \in [Call -> Status], Notify(st), starts' = starts,
           \A c \in Call : starts[c] > 0 => Over(st, c) \/ InFlight(c)',
           Together(st),
           Unmixed(st) => \A c \in Call : st[c] = "scheduled" /\ starts[c] = 0 =>
                                          AboutToLaunch' \/ Open(st) # {}
    PROVE  HeldInv'
<1>1. CASE Complete(st)
  <2>1. \A c \in Call : status'[c] = "none"
    BY <1>1 DEF Notify, Deliver
  <2> QED BY <2>1 DEF HeldInv, Flying, Together, Held, Over
<1>2. CASE ~Complete(st)
  <2>1. status' = st
    BY <1>2 DEF Notify
  <2>2. Flying(status)'
    BY <2>1 DEF Flying, Over
  <2>3. Together(status)'
    BY <2>1 DEF Together, Over, Unmixed
  <2>4. Held(status)'
    BY <2>1 DEF Held, Unmixed, Open
  <2> QED BY <2>2, <2>3, <2>4 DEF HeldInv
<1> QED BY <1>1, <1>2

\* A step that leaves the list and its executions alone.
LEMMA StillHeld ==
    ASSUME HeldInv, UNCHANGED <<status, starts, running, saving>>,
           AboutToLaunch => AboutToLaunch'
    PROVE  HeldInv'
<1>1. Flying(status)'
  BY DEF HeldInv, Flying, Over, InFlight
<1>2. Together(status)'
  BY DEF HeldInv, Together, Over, Unmixed
<1>3. Held(status)'
  BY DEF HeldInv, Held, Unmixed, Open
<1> QED BY <1>1, <1>2, <1>3 DEF HeldInv

\* A change of the list that neither brings a call in, starts it nor takes a result
\* back.
Moved(st) ==
    \A c \in Call : \/ st[c] = status[c]
                    \/ /\ status[c] # "none" /\ st[c] \notin {"none", "executing"}
                       /\ status[c] \in Terminal => st[c] \in Terminal

LEMMA MovedHeld ==
    ASSUME HeldInv, NEW st \in [Call -> Status], Moved(st)
    PROVE  Flying(st) /\ Together(st) /\ (Unmixed(st) <=> Unmixed(status))
<1>1. \A c \in Call : /\ Over(status, c) => Over(st, c)
                      /\ st[c] = "none" <=> status[c] = "none"
                      /\ st[c] = "executing" => status[c] = "executing"
  BY DEF Moved, Over, Terminal
<1>2. Unmixed(st) <=> Unmixed(status)
  BY <1>1 DEF Unmixed
<1>3. Flying(st)
  BY <1>1 DEF HeldInv, Flying
<1>4. Together(st)
  BY <1>1, <1>2 DEF HeldInv, Together
<1> QED BY <1>2, <1>3, <1>4

LEMMA SetStatusMoves ==
    ASSUME TypeOK, NEW c \in Call, NEW s \in Status \ {"none", "executing"}
    PROVE  /\ SetStatus(status, c, s) \in [Call -> Status]
           /\ Moved(SetStatus(status, c, s))
BY SetStatusType DEF SetStatus, Moved, TypeOK

LEMMA SetArgsMoves ==
    ASSUME TypeOK, NEW c \in Call, NEW built \in BOOLEAN
    PROVE  /\ SetStatus(SetArgs(status, c, built), c, "awaiting") \in [Call -> Status]
           /\ Moved(SetStatus(SetArgs(status, c, built), c, "awaiting"))
<1>1. CASE ~built /\ status[c] \notin {"none", "error"}
  <2>1. SetArgs(status, c, built) = [status EXCEPT ![c] = "error"]
    BY <1>1 DEF SetArgs
  <2>2. SetStatus(SetArgs(status, c, built), c, "awaiting") = [status EXCEPT ![c] = "error"]
    BY <2>1 DEF SetStatus, Terminal, TypeOK
  <2>3. [status EXCEPT ![c] = "error"] \in [Call -> Status]
    BY DEF TypeOK, Status, Terminal
  <2>4. Moved([status EXCEPT ![c] = "error"])
    BY <1>1 DEF Moved, Terminal, TypeOK
  <2> QED BY <2>2, <2>3, <2>4
<1>2. CASE built \/ status[c] \in {"none", "error"}
  <2>1. SetArgs(status, c, built) = status
    BY <1>2 DEF SetArgs
  <2> QED BY <2>1, SetStatusMoves DEF Status, Undecided
<1> QED BY <1>1, <1>2

\* The response at (c, k) is replaced: the others are still about to launch.
LEMMA OthersLaunch ==
    ASSUME TypeOK, NEW c \in Call, NEW k \in Slot, NEW r, Respond(c, k, r),
           resp[c][k].pc \notin {"auto", "proceed"}
    PROVE  AboutToLaunch => AboutToLaunch'
<1>1. \A d \in Call, l \in Slot : d # c \/ l # k => resp'[d][l] = resp[d][l]
  BY DEF Respond, TypeOK
<1> QED BY <1>1 DEF AboutToLaunch

LEMMA DecideHeld ==
    ASSUME TypeOK, TypeOK', HeldInv, NEW c \in Call, NEW k \in Slot, NEW r, NEW found,
           Decide(c, k, r, found), saving' = saving,
           \/ r.outcome = "ProceedAlways"
           \/ resp[c][k].pc \notin {"auto", "proceed"}
    PROVE  HeldInv'
<1>0. BatchOf[c] \in Batch
  BY BatchAssumption
<1>1. ASSUME NEW s \in {"cancelled", "scheduled"},
             Launch(SetStatus(status, c, s), BatchOf[c], handed)
      PROVE  HeldInv'
  <2>1. PICK st : st = SetStatus(status, c, s)
    OBVIOUS
  <2>2. st \in [Call -> Status] /\ Moved(st)
    BY <2>1, SetStatusMoves DEF Status, Terminal
  <2>3. Flying(st) /\ Together(st)
    BY <2>2, MovedHeld
  <2> QED BY <1>0, <1>1, <2>1, <2>2, <2>3, LaunchHeld
<1>2. CASE /\ UNCHANGED <<status, running, starts>>
           /\ resp[c][k].pc \notin {"auto", "proceed"}
           /\ \E x : Respond(c, k, x)
  BY <1>2, OthersLaunch, StillHeld
<1>3. CASE /\ status' = SetStatus(status, c, "modifying")
           /\ UNCHANGED <<handed, verdict, running, starts>>
           /\ resp[c][k].pc \notin {"auto", "proceed"}
           /\ \E x : Respond(c, k, x)
  <2>1. CASE status' = status
    BY <1>3, <2>1, OthersLaunch, StillHeld
  <2>2. CASE status' # status
    <3>1. status' \in [Call -> Status] /\ Moved(status') /\ status'[c] = "modifying"
      <4>1. status' \in [Call -> Status] /\ Moved(status')
        BY <1>3, SetStatusMoves DEF Status, Undecided
      <4>2. status' = [status EXCEPT ![c] = "modifying"]
        BY <1>3, <2>2 DEF SetStatus
      <4> QED BY <4>1, <4>2 DEF TypeOK
    <3>2. Flying(status') /\ Together(status')
      BY <3>1, MovedHeld
    <3>3. Flying(status)'
      BY <1>3, <3>2 DEF Flying, Over, InFlight
    <3>4. Together(status)'
      BY <1>3, <3>2 DEF Together, Over, Unmixed
    <3>5. Held(status)'
      BY <3>1 DEF Held, Open, Undecided
    <3> QED BY <3>3, <3>4, <3>5 DEF HeldInv
  <2> QED BY <2>1, <2>2
<1> QED BY <1>1, <1>2, <1>3 DEF Decide

LEMMA AfterConfirmHeld ==
    ASSUME TypeOK, TypeOK', HeldInv, NEW c \in Call, NEW k \in Slot, NEW r, NEW found,
           AfterConfirm(c, k, r, found), saving' = saving,
           resp[c][k].pc \notin {"auto", "proceed"}
    PROVE  HeldInv'
BY DecideHeld, OthersLaunch, StillHeld DEF AfterConfirm

LEMMA PromptedHeld ==
    ASSUME ChannelsInv, TypeOK', HeldInv, NEW c \in Call, Prompted(c)
    PROVE  HeldInv'
<1>0. TypeOK
  BY DEF ChannelsInv
<1>1. ASSUME NEW ch \in AllChannels, NEW o \in Outcome, Answer(c, ch, o)
      PROVE  HeldInv'
  <2>1. PICK k \in Slot : /\ resp[c][k].pc = "idle"
                          /\ \/ /\ \E x : Respond(c, k, x)
                                /\ UNCHANGED <<status, running, starts>>
                             \/ \E x : AfterConfirm(c, k, x, FALSE)
    BY <1>1 DEF Answer, AtWork
  <2>2. saving' = saving
    BY <1>1 DEF Answer
  <2> QED BY <1>0, <2>1, <2>2, AfterConfirmHeld, OthersLaunch, StillHeld
<1>2. CASE UNCHANGED <<fields, phase, aborted, work, resp, history>>
  BY <1>2, StillHeld DEF fields, work, history, AboutToLaunch
<1> QED BY <1>1, <1>2, PromptedSteps

LEMMA ExecutionHeld ==
    ASSUME ChannelsInv, TypeOK', HeldInv, NEW c \in Call, NEW b \in Batch, Execution(c, b)
    PROVE  HeldInv'
<1>0. TypeOK
  BY DEF ChannelsInv
<1>1. starts[c] > 0 /\ UNCHANGED <<starts, resp>>
  <2>1. running[c][b] > 0 \/ saving[c][b] > 0
    BY DEF Execution, Settle, SettleLongOutput, OutputSaved
  <2> QED BY <2>1 DEF Execution, Settle, SettleLongOutput, OutputSaved, ChannelsInv, StartInv,
                      history
<1>2. \A d \in Call, e \in Batch : d # c => running'[d][e] = running[d][e]
                                            /\ saving'[d][e] = saving[d][e]
  BY <1>0 DEF Execution, Settle, SettleLongOutput, OutputSaved, TypeOK
<1>3. CASE SettleLongOutput(c, b)
  <2>1. saving'[c][b] > 0 /\ running'[c][b] \in Nat /\ status' = status
    BY <1>0, <1>3 DEF SettleLongOutput, TypeOK, fields
  <2>2. InFlight(c)'
    <3>1. running'[c][b] + saving'[c][b] > 0
      BY <1>0, <1>3, <2>1 DEF SettleLongOutput, TypeOK
    <3> QED BY <3>1 DEF InFlight
  <2>3. Flying(status)'
    BY <1>1, <1>2, <2>1, <2>2 DEF HeldInv, Flying, Over, InFlight
  <2>4. Together(status)'
    BY <1>1, <2>1 DEF HeldInv, Together, Over, Unmixed
  <2>5. Held(status)'
    BY <1>1, <2>1 DEF HeldInv, Held, Unmixed, Open, AboutToLaunch
  <2> QED BY <2>3, <2>4, <2>5 DEF HeldInv
<1>4. CASE Settle(c, b) \/ OutputSaved(c, b)
  <2>1. PICK s \in Terminal : Notify(SetStatus(status, c, s))
    BY <1>4 DEF Settle, OutputSaved, Terminal
  <2>2. PICK st : st = SetStatus(status, c, s)
    OBVIOUS
  <2>3. st \in [Call -> Status] /\ Moved(st)
    BY <1>0, <2>2, SetStatusMoves DEF Status, Terminal
  <2>4. Flying(st) /\ Together(st) /\ (Unmixed(st) <=> Unmixed(status))
    BY <2>3, MovedHeld
  <2>5. Over(st, c)
    BY <1>0, <2>2 DEF SetStatus, Over, Terminal, TypeOK
  <2>6. \A d \in Call : d # c => st[d] = status[d] /\ (InFlight(d) => InFlight(d)')
    BY <1>0, <1>2, <2>2 DEF SetStatus, InFlight, TypeOK
  <2>7. \A d \in Call : starts[d] > 0 => Over(st, d) \/ InFlight(d)'
    BY <2>4, <2>5, <2>6 DEF Flying
  <2>8. ASSUME Unmixed(st), NEW d \in Call, st[d] = "scheduled", starts[d] = 0
        PROVE  AboutToLaunch' \/ Open(st) # {}
    <3>1. ~Over(st, d)
      BY <2>8 DEF Over, Terminal
    <3>2. st[c] = "none"
      BY <1>1, <2>4, <2>8, <3>1 DEF Together
    <3>3. st = status
      <4>1. status[c] = "none"
        BY <2>3, <3>2 DEF Moved
      <4> QED BY <2>2, <4>1 DEF SetStatus
    <3> QED BY <1>1, <2>4, <2>8, <3>3 DEF HeldInv, Held, AboutToLaunch
  <2> QED BY <1>1, <2>1, <2>2, <2>3, <2>4, <2>7, <2>8, NotifyHeld
<1> QED BY <1>3, <1>4 DEF Execution

LEMMA ResumedHeld ==
    ASSUME ChannelsInv, TypeOK', HeldInv, NEW c \in Call, NEW k \in Slot, Resumed(c, k)
    PROVE  HeldInv'
<1> DEFINE r == resp[c][k]
<1>0. TypeOK /\ BatchOf[c] \in Batch
  BY BatchAssumption DEF ChannelsInv
<1>1. r \in Response /\ Fits(r.pc, r.outcome)
  BY <1>0 DEF TypeOK, ChannelsInv, GrantInv, Allowed
<1>2. CASE OnConfirmReturns(c, k)
  BY <1>0, <1>2, AfterConfirmHeld DEF OnConfirmReturns
<1>3. CASE OnConfirmThrows(c, k) \/ EditorFails(c, k) \/ InlineModifyFails(c, k)
  <2>1. /\ r.pc \notin {"auto", "proceed"} /\ Respond(c, k, Idle)
        /\ UNCHANGED <<status, starts, running, saving>>
    BY <1>3 DEF OnConfirmThrows, EditorFails, InlineModifyFails, fields, work, history
  <2> QED BY <1>0, <2>1, OthersLaunch, StillHeld
<1>4. ASSUME NEW d \in Call, AutoApprove(c, k, d)
      PROVE  HeldInv'
  <2> DEFINE rest == r.todo \ {d}
             next == [r EXCEPT !.todo = rest, !.asks = NextAsks(rest)]
  <2>1. /\ Respond(c, k, next) /\ r.pc = "auto"
        /\ UNCHANGED <<running, saving, starts>>
    BY <1>4 DEF AutoApprove, work
  <2>2. next.pc = "auto"
    BY <1>1, <2>1 DEF Response
  <2> HIDE DEF next
  <2>3. AboutToLaunch'
    <3>1. resp'[c][k] = next
      BY <1>0, <2>1 DEF Respond, TypeOK
    <3> QED BY <2>2, <3>1 DEF AboutToLaunch
  <2>4. CASE status' = status
    BY <2>1, <2>3, <2>4, StillHeld
  <2>5. CASE Notify(SetStatus(status, d, "scheduled"))
    <3>1. PICK st : st = SetStatus(status, d, "scheduled")
      OBVIOUS
    <3>2. st \in [Call -> Status] /\ Moved(st)
      BY <1>0, <3>1, SetStatusMoves DEF Status
    <3>3. Flying(st) /\ Together(st)
      BY <3>2, MovedHeld
    <3>4. \A e \in Call : starts[e] > 0 => Over(st, e) \/ InFlight(e)'
      BY <2>1, <3>3 DEF Flying, InFlight
    <3> QED BY <2>1, <2>3, <2>5, <3>1, <3>2, <3>3, <3>4, NotifyHeld
  <2> QED BY <1>4, <2>4, <2>5 DEF AutoApprove
<1>5. CASE AutoApproveReturns(c, k)
  BY <1>0, <1>1, <1>5, DecideHeld DEF AutoApproveReturns, Fits
<1>6. CASE EditorCloses(c, k)
  <2>1. PICK built \in BOOLEAN :
            Launch(SetStatus(SetArgs(status, c, built), c, "awaiting"), BatchOf[c], handed)
    BY <1>6 DEF EditorCloses
  <2>2. PICK st : st = SetStatus(SetArgs(status, c, built), c, "awaiting")
    OBVIOUS
  <2>3. st \in [Call -> Status] /\ Moved(st)
    BY <1>0, <2>2, SetArgsMoves
  <2>4. saving' = saving
    BY <1>6 DEF EditorCloses
  <2> QED BY <1>0, <2>1, <2>2, <2>3, <2>4, MovedHeld, LaunchHeld
<1>7. CASE InlineModify(c, k)
  <2> DEFINE next == [r EXCEPT !.pc = "proceed"]
  <2>1. PICK built \in BOOLEAN : Notify(SetStatus(SetArgs(status, c, built), c, "awaiting"))
    BY <1>7 DEF InlineModify
  <2>2. PICK st : st = SetStatus(SetArgs(status, c, built), c, "awaiting")
    OBVIOUS
  <2>3. st \in [Call -> Status] /\ Moved(st)
    BY <1>0, <2>2, SetArgsMoves
  <2>4. Respond(c, k, next) /\ UNCHANGED <<running, saving, starts>>
    BY <1>7 DEF InlineModify, work
  <2>5. next.pc = "proceed"
    BY <1>1 DEF Response
  <2> HIDE DEF next
  <2>6. AboutToLaunch'
    <3>1. resp'[c][k] = next
      BY <1>0, <2>4 DEF Respond, TypeOK
    <3> QED BY <2>5, <3>1 DEF AboutToLaunch
  <2>7. Flying(st) /\ Together(st)
    BY <2>3, MovedHeld
  <2>8. \A e \in Call : starts[e] > 0 => Over(st, e) \/ InFlight(e)'
    BY <2>4, <2>7 DEF Flying, InFlight
  <2> QED BY <2>1, <2>2, <2>3, <2>4, <2>6, <2>7, <2>8, NotifyHeld
<1>8. CASE InlineProceeds(c, k)
  <2>1. PICK st : st = SetStatus(status, c, "scheduled")
    OBVIOUS
  <2>2. st \in [Call -> Status] /\ Moved(st)
    BY <1>0, <2>1, SetStatusMoves DEF Status
  <2>3. Launch(st, BatchOf[c], handed) /\ saving' = saving
    BY <1>8, <2>1 DEF InlineProceeds
  <2> QED BY <1>0, <2>2, <2>3, MovedHeld, LaunchHeld
<1> QED BY <1>2, <1>3, <1>4, <1>5, <1>6, <1>7, <1>8 DEF Resumed

\* One segment of the loop.
LEMMA ContinueHeld ==
    ASSUME TypeOK, TypeOK', NEW st \in [Call -> Status], NEW b \in Batch, NEW h,
           Flying(st), Together(st), Continue(st, b, h), saving' = saving
    PROVE  HeldInv'
<1> DEFINE rest == {c \in CallsOf(b) : st[c] = "validating"}
           stopped == [c \in Call |-> IF c \in rest THEN "cancelled" ELSE st[c]]
<1>1. CASE GoesOn(rest, b)
  <2>1. status' = st /\ rest # {} /\ UNCHANGED <<running, starts>>
    BY <1>1 DEF Continue, GoesOn
  <2>2. Open(status') # {}
    BY <2>1 DEF Open, Undecided, CallsOf
  <2>3. Flying(status)'
    BY <2>1 DEF Flying, Over, InFlight
  <2>4. Together(status)'
    BY <2>1 DEF Together, Over, Unmixed
  <2> QED BY <2>2, <2>3, <2>4 DEF HeldInv, Held
<1>2. CASE ~GoesOn(rest, b)
  <2>1. stopped \in [Call -> Status]
    BY DEF Status, Terminal
  <2>2. Launch(stopped, b, h)
    BY <1>2 DEF Continue
  <2>3. \A c \in Call : \/ stopped[c] = st[c]
                        \/ st[c] = "validating" /\ stopped[c] = "cancelled"
    OBVIOUS
  <2> HIDE DEF stopped
  <2>4. \A c \in Call : /\ Over(st, c) => Over(stopped, c)
                        /\ stopped[c] = "none" <=> st[c] = "none"
                        /\ stopped[c] = "executing" => st[c] = "executing"
    BY <2>3 DEF Over, Terminal
  <2>5. Flying(stopped)
    BY <2>4 DEF Flying
  <2>6. Unmixed(stopped) <=> Unmixed(st)
    BY <2>4 DEF Unmixed
  <2>7. Together(stopped)
    BY <2>4, <2>6 DEF Together
  <2> QED BY <2>1, <2>2, <2>5, <2>7, LaunchHeld
<1> QED BY <1>1, <1>2

LEMMA ValidationHeld ==
    ASSUME ChannelsInv, TypeOK', HeldInv, NEW c \in Call, Validation(c)
    PROVE  HeldInv'
<1>0. TypeOK
  BY DEF ChannelsInv
<1>1. Validating(c) /\ saving' = saving
  BY DEF Validation, ConfirmationNotNeeded, SettingsConfirm, AskForApproval, ConfirmationThrows
<1>2. scheduling \in Batch /\ status[c] = "validating" /\ starts[c] = 0
  BY <1>1, ValidatingCall DEF ChannelsInv, StartInv, Ahead
<1>3. PICK s \in {"scheduled", "awaiting", "error", "cancelled"} :
          Continue([status EXCEPT ![c] = s], scheduling, handed)
  BY DEF Validation, ConfirmationNotNeeded, SettingsConfirm, AskForApproval, ConfirmationThrows
<1>4. PICK st : st = [status EXCEPT ![c] = s]
  OBVIOUS
<1>5. st \in [Call -> Status] /\ st[c] = s /\ \A d \in Call : d # c => st[d] = status[d]
  BY <1>0, <1>4 DEF TypeOK, Status, Terminal, Undecided
<1>6. Moved(st)
  BY <1>2, <1>5 DEF Moved, Terminal
<1> QED BY <1>0, <1>1, <1>2, <1>3, <1>4, <1>5, <1>6, MovedHeld, ContinueHeld

\* A batch that begins has not been started, and it is alone or it mixes with others.
LEMMA BeginHeld ==
    ASSUME ChannelsInv, TypeOK', HeldInv, NEW b \in Batch, phase[b] # "begun", NEW h,
           Begin(b, h), saving' = saving
    PROVE  HeldInv'
<1>0. TypeOK /\ \A c \in Call : BatchOf[c] = b => starts[c] = 0 /\ status[c] = "none"
  BY DEF ChannelsInv, HistoryInv
<1>1. PICK bad \in SUBSET CallsOf(b) :
          Continue([c \in Call |-> IF c \in bad THEN "error"
                                   ELSE IF c \in CallsOf(b) THEN "validating"
                                   ELSE status[c]], b, h)
  BY DEF Begin
<1>2. PICK st : st = [c \in Call |-> IF c \in bad THEN "error"
                                     ELSE IF c \in CallsOf(b) THEN "validating"
                                     ELSE status[c]]
  OBVIOUS
<1>3. st \in [Call -> Status]
  BY <1>0, <1>2 DEF TypeOK, Status, Terminal, Undecided
<1>4. \A c \in Call : /\ BatchOf[c] = b => st[c] \in {"error", "validating"}
                      /\ BatchOf[c] # b => st[c] = status[c]
  BY <1>2 DEF CallsOf
<1>5. Flying(st)
  BY <1>0, <1>4 DEF HeldInv, Flying, Over
<1>6. Together(st)
  <2>1. \A c \in Call : st[c] = "executing" => starts[c] > 0
    BY <1>4 DEF HeldInv, Together
  <2>2. ASSUME Unmixed(st), NEW d \in Call, st[d] # "none", starts[d] > 0
        PROVE  FALSE
    <3>1. PICK c \in Call : BatchOf[c] = b
      BY BatchAssumption
    <3>2. BatchOf[d] = b
      BY <1>4, <2>2, <3>1 DEF Unmixed
    <3> QED BY <1>0, <2>2, <3>2
  <2> QED BY <2>1, <2>2 DEF Together
<1> QED BY <1>0, <1>1, <1>2, <1>3, <1>5, <1>6, ContinueHeld

LEMMA HeldInit == Init => HeldInv
BY DEF Init, HeldInv, Flying, Together, Held

LEMMA HeldStep ==
    ASSUME ChannelsInv, HeldInv, [Next]_vars
    PROVE  HeldInv'
<1>0. TypeOK'
  BY StepType DEF ChannelsInv
<1>1. ASSUME UNCHANGED <<status, starts, running, saving, resp>>
      PROVE  HeldInv'
  BY <1>1, StillHeld DEF AboutToLaunch
<1>2. ASSUME NEW b \in Batch, Schedule(b) \/ Enqueue(b) \/ Abort(b)
      PROVE  HeldInv'
  <2>1. CASE Schedule(b)
    BY <1>0, <2>1, BeginHeld DEF Schedule
  <2>2. CASE Enqueue(b) \/ Abort(b)
    BY <1>1, <2>2 DEF Enqueue, Abort, work, history
  <2> QED BY <1>2, <2>1, <2>2
<1>3. CASE HandlerReturns
  <2>1. CASE queue # <<>>
    <3>1. /\ Head(queue) \in Batch /\ phase[Head(queue)] # "begun"
          /\ Begin(Head(queue), {}) /\ saving' = saving
      BY <1>3, <2>1, HandlerQueue DEF HandlerReturns, ChannelsInv
    <3> QED BY <1>0, <3>1, BeginHeld
  <2>2. CASE queue = <<>>
    BY <1>1, <1>3, <2>2 DEF HandlerReturns
  <2> QED BY <2>1, <2>2
<1>4. CASE HandlerThrows \/ UNCHANGED vars \/ \E m \in Mode : SwitchMode(m)
  BY <1>1, <1>4 DEF HandlerThrows, SwitchMode, vars, fields, work, history
<1> QED BY <1>0, <1>2, <1>3, <1>4, PromptedHeld, ExecutionHeld, ResumedHeld, ValidationHeld
    DEF Next

\* A scheduled call is started in the end, however many answers cross, as long as the
\* list holds one batch: some call is still to be decided, or a response is about to
\* run attemptExecutionOfScheduledCalls, or the call is executing already.
THEOREM BarrierIsReached == Spec => []NoCallLeftBehind
<1>1. ASSUME ChannelsInv, HeldInv
      PROVE  NoCallLeftBehind
  <2> SUFFICES ASSUME OneBatchInList, NEW c \in Call, status[c] = "scheduled",
                      ~AboutToLaunch, ~InFlight(c)
               PROVE  \E d \in Call : status[d] \in Undecided
    BY DEF NoCallLeftBehind
  <2>1. starts[c] \in Nat
    BY <1>1 DEF ChannelsInv, TypeOK
  <2>2. starts[c] = 0
    BY <1>1, <2>1 DEF HeldInv, Flying, Over, Terminal
  <2>3. Open(status) # {}
    BY <1>1, <2>2 DEF HeldInv, Held, OneBatchInList, Unmixed
  <2> QED BY <2>3 DEF Open
<1>2. ChannelsInv /\ HeldInv /\ [Next]_vars => HeldInv'
  BY HeldStep
<1> QED BY <1>1, <1>2, HeldInit, ChannelsInvHolds, PTL DEF Spec

=====
