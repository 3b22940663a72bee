-------------------------- MODULE TerminalSession --------------------------
(***************************************************************************)
(* The interactive session: useGeminiStream, useMessageQueue and           *)
(* useQuotaAndFallback (packages/cli/src/ui/hooks/) over the client and    *)
(* its chat.                                                               *)
(*                                                                         *)
(* A submission is one call of submitQuery, named by its first request: it *)
(* has an AbortController of its own, reads the events of its requests and *)
(* then schedules the calls they ask for.  The batches of calls run one    *)
(* after the other, as ToolScheduler shows in detail.                      *)
(***************************************************************************)
EXTENDS GeminiClient

VARIABLES
    ui,     \* typed: the message queue is not empty; responding: isResponding;
            \* cancelled: turnCancelledRef; controller: the latest submission;
            \* open: submissions that read events
    work,   \* the requests whose calls are scheduled, in order
    batch   \* what became of the calls a request asked for

vars == <<clientVars, ui, work, batch>>

Batch == {"none", "scheduled", "doomed", "added", "withheld", "sent"}

TypeOK ==
    /\ history \in Seq(Entry)
    /\ sendPromise \in Request \cup {None}
    /\ turn \in [Request -> Turn]
    /\ quota \in [fallback : BOOLEAN, occurred : BOOLEAN, switched : BOOLEAN,
                  dialog : Request \cup {None}]
    /\ call \in [Request -> Call]
    /\ captured \subseteq Request
    /\ client \in [prompt : Prompt \cup {None}, turns : Nat, failed : BOOLEAN,
                   model : {"none", "pro", "flash"}]
    /\ loop \in [repeats : Nat, found : BOOLEAN, turns : Nat, disabled : BOOLEAN]
    /\ ui \in [typed : BOOLEAN, responding : BOOLEAN, cancelled : BOOLEAN,
               controller : Request \cup {None}, open : SUBSET Request]
    /\ work \in Seq(Request)
    /\ batch \in [Request -> Batch]
    /\ world \in World

Init ==
    /\ ClientInit
    /\ ui = [typed |-> FALSE, responding |-> FALSE, cancelled |-> FALSE,
             controller |-> None, open |-> {}]
    /\ work = <<>>
    /\ batch = [r \in Request |-> "none"]

\* streamingState is Idle: nothing is read, and no call is scheduled.
IsIdle == ~ui.responding /\ work = <<>>
Of(root) == {q \in Request : call[q].root = root}
Aborted(root) == \E q \in Of(root) : turn[q].aborted
Preparing == {r \in Request : In(r, "preparing")}
UnusedPrompts == {p \in Prompt : \A r \in Request : call[r].prompt # p}

-----------------------------------------------------------------------------
(* Submissions.                                                            *)

\* handleFinalSubmit and addMessage; there is no input during a slash command.
Type ==
    /\ ~ui.typed
    /\ \A r \in Request : In(r, "compressing") => call[r].kind = "prompt"
    /\ Fresh # {} /\ UnusedPrompts # {}
    /\ Preparing = {} \/ May("overlap")
    /\ ui' = [ui EXCEPT !.typed = TRUE]
    /\ UNCHANGED <<clientVars, work, batch>>

\* The effect of useMessageQueue: all messages become one query, which is looked
\* at (slash command, shell mode, @ files) before anything shows that it is under
\* way.  "stale": the modelSwitchedFromQuotaError this closure has seen.
Submit(kind) ==
    /\ kind = "prompt" \/ May("command")
    /\ IsIdle /\ ui.typed
    /\ Fresh # {} /\ UnusedPrompts # {}
    /\ LET r == NextRequest
           prompt == CHOOSE p \in UnusedPrompts : TRUE
       IN  /\ call' = [call EXCEPT ![r] = [NoCall EXCEPT !.phase = "preparing",
                            !.kind = kind, !.root = r, !.prompt = prompt,
                            !.message = User("text", None), !.left = MaxTurns,
                            !.stale = quota.switched]]
           /\ ui' = [ui EXCEPT !.typed = FALSE, !.cancelled = FALSE, !.controller = r]
    /\ quota' = [quota EXCEPT !.switched = FALSE, !.occurred = FALSE]
    /\ UNCHANGED <<history, sendPromise, turn, captured, client, loop, work, batch, world>>

Responds(r) == [ui EXCEPT !.responding = TRUE, !.open = @ \cup {r}]

\* prepareQueryForGemini is done with a prompt.
SendPrompt(r) ==
    /\ In(r, "preparing") /\ call[r].kind = "prompt"
    /\ Send(r, call[r], call)
    /\ ui' = Responds(r)
    /\ UNCHANGED <<work, batch, world>>

\* /compress and /clear.
RunCommand(r) ==
    /\ In(r, "preparing")
    /\ \/ /\ call[r].kind = "compress"
          /\ call' = [call EXCEPT ![r].phase = "compressing", ![r].copy = history]
          /\ UNCHANGED <<chatVars, captured, client, loop>>
       \/ call[r].kind = "clear" /\ ResetChat /\ Ends(r)
    /\ UNCHANGED <<ui, work, batch, world>>

\* A command of the shell mode starts, and its output is told to the model.
RunShell(r) ==
    /\ In(r, "preparing") /\ call[r].kind = "shell"
    /\ call' = [call EXCEPT ![r].phase = "shell"]
    /\ ui' = [ui EXCEPT !.responding = TRUE]
    /\ UNCHANGED <<chatVars, captured, client, loop, work, batch, world>>
ShellOver(r) ==
    /\ In(r, "shell")
    /\ Ends(r)
    /\ AddHistory(User("note", None))
    /\ ui' = [ui EXCEPT !.responding = FALSE]
    /\ UNCHANGED <<captured, client, loop, work, batch, world>>

\* The last event is read: the calls asked for are scheduled, however the stream
\* ended, with the signal of the submission.
ReplyOver(r) ==
    /\ r \in ui.open
    /\ \A q \in Of(r) : In(q, "over")
    /\ LET asking == {q \in Of(r) : turn[q].got.asked}
       IN  /\ work' = work \o SetToSeq(asking)
           /\ batch' = [q \in Request |-> IF q \notin asking THEN batch[q]
                        ELSE IF Aborted(r) THEN "doomed" ELSE "scheduled"]
    /\ ui' = [ui EXCEPT !.responding = FALSE, !.open = @ \ {r}]
    /\ UNCHANGED clientVars

-----------------------------------------------------------------------------
(* handleCompletedTools, for the first batch of the scheduler.             *)

\* Every call was cancelled: the responses are only noted.
ToolsCancelled ==
    /\ work # <<>>
    /\ AddHistory(User("responses", Head(work)))
    /\ work' = Tail(work)
    /\ batch' = [batch EXCEPT ![Head(work)] = "added"]
    /\ UNCHANGED <<call, captured, client, loop, ui, world>>

\* The submission began before the last render learned that the flag was reset.
ToolsWithheld ==
    /\ work # <<>> /\ batch[Head(work)] = "scheduled"
    /\ call[Head(work)].stale
    /\ work' = Tail(work)
    /\ batch' = [batch EXCEPT ![Head(work)] = "withheld"]
    /\ UNCHANGED <<clientVars, ui>>

\* A continuation: a submission with a new controller and the same prompt.
ToolsContinue ==
    /\ work # <<>> /\ batch[Head(work)] = "scheduled"
    /\ ~call[Head(work)].stale
    /\ Fresh # {}
    /\ LET q == Head(work)
           n == NextRequest
       IN  /\ Send(n, [call[q] EXCEPT !.root = n, !.left = MaxTurns,
                                      !.message = User("responses", q)], call)
           /\ ui' = [Responds(n) EXCEPT !.controller = n, !.cancelled = FALSE]
           /\ batch' = [batch EXCEPT ![q] = "sent"]
    /\ work' = Tail(work)
    /\ UNCHANGED world

\* cancelOngoingRequest: the latest controller is aborted, and the queue is
\* cleared unless a tool or a shell command runs.
Escape ==
    /\ ~IsIdle /\ ~ui.cancelled
    /\ May("esc") \/ (ui.open = {} /\ ~ui.responding)
    /\ turn' = [q \in Request |-> IF call[q].root = ui.controller
                                  THEN [turn[q] EXCEPT !.aborted = TRUE] ELSE turn[q]]
    /\ ui' = [ui EXCEPT !.cancelled = TRUE, !.responding = FALSE,
                        !.typed = @ /\ (work # <<>> \/ \E r \in Request : In(r, "shell"))]
    /\ UNCHANGED <<history, sendPromise, quota, call, captured, client, loop,
                   work, batch, world>>

\* The dialog after a loop: disableForSession.
DisableLoopDetection ==
    /\ loop.found /\ ~loop.disabled
    /\ loop' = [loop EXCEPT !.disabled = TRUE]
    /\ UNCHANGED <<chatVars, call, captured, client, ui, work, batch, world>>

-----------------------------------------------------------------------------
\* What the client and the chat do with a request.
ClientStep(r) ==
    /\ \/ Inflated(r) \/ Compress(r)
       \/ CompressionThrows(r)
       \/ NoLoopSeen(r) \/ LoopSeen(r)
       \/ \E model \in Models : Route(r, model, Aborted(call[r].root))
       \/ TurnOver(r) \/ UserSpeaks(r) \/ ModelSpeaks(r)
    /\ UNCHANGED <<ui, work, batch, world>>

ReadChunk(r) ==
    /\ \E c \in Chunk, verdict \in [repeats : 0 .. LoopThreshold, found : BOOLEAN] :
          Read(r, c, verdict)
    /\ UNCHANGED <<ui, work, batch, world>>

\* The stream of an attempt ends, one way or another.
StreamStops(r) ==
    /\ \/ StreamEnds(r) \/ SeesAbort(r)
       \/ (turn[r].attempt < MaxAttempts \/ ~IsCalm) /\ StreamIsInvalid(r)
       \/ (May("break") \/ turn[r].aborted) /\ StreamBreaks(r)
    /\ UNCHANGED <<call, captured, client, loop, ui, work, batch, world>>

ChatStep(r) ==
    /\ \/ Proceed(r) \/ CallSucceeds(r) \/ CallIsRetried(r) \/ DelayEnds(r)
       \/ (May("break") \/ turn[r].aborted \/ Refused(r)) /\ CallFails(r)
       \/ May("quota") /\ QuotaExhausted(r)
       \/ FallbackGranted(r) \/ FallbackDeclined(r)
    /\ UNCHANGED <<call, captured, client, loop, ui, work, batch, world>>

SubmitStep == \E kind \in Kind : Submit(kind)
ToolStep == ToolsCancelled \/ ToolsWithheld \/ ToolsContinue
RequestStep(r) ==
    \/ SendPrompt(r) \/ RunCommand(r) \/ RunShell(r) \/ ShellOver(r) \/ ReplyOver(r)
    \/ ClientStep(r) \/ ChatStep(r)

Next ==
    \/ Type \/ Escape \/ DisableLoopDetection \/ SubmitStep \/ ToolStep
    \/ \E r \in Request : RequestStep(r) \/ ReadChunk(r) \/ StreamStops(r)

Spec == Init /\ [][Next]_vars

\* The model, the tools and the dialogs answer, streams end, and the runtime runs
\* what can run; the user need not type or press anything.
FairSpec ==
    /\ Spec
    /\ WF_vars(SubmitStep) /\ WF_vars(ToolStep)
    /\ \A r \in Request : WF_vars(RequestStep(r)) /\ WF_vars(StreamStops(r))

-----------------------------------------------------------------------------
(* Properties.                                                             *)

Sends(r) == At(r, "waiting") /\ ~turn[r].detached /\ turn'[r].step = "calling"

\* Whenever a message is sent to the model, every call in the history it goes
\* with is directly followed by its responses, and no response is without its
\* call, as the interface of the model demands.
RequestsArePaired ==
    [][\A r \in Request : Sends(r) => Paired(history')]_vars

\* As long as nothing goes wrong, that is so: whatever notes of the IDE and the
\* shell, compressions, continuations, cancelled calls and /clear come between.
CalmRequestsArePaired ==
    [][IsCalm => \A r \in Request : Sends(r) => Paired(history')]_vars

\* A loop is the end of a prompt: until another prompt is sent, whatever its
\* scheduled calls still submit, the history gets no further reply for it.  Where
\* prompts are sent side by side (two that are prepared at once, or one behind a
\* cancelled reply that is still read) the verdict on one is held against another.
ALoopStaysStopped ==
    [][loop.found /\ loop'.found /\ ~May("overlap") /\ ~May("esc") =>
       \A r \in Request : turn'[r].step = "done" /\ call[r].prompt = client.prompt
                             => turn[r].step = "done"]_vars

\* What is typed while the session is busy is submitted in the end, or handed
\* back by Esc: no error, cancellation or dialog leaves the session busy.
TypedIsSubmitted == ~IsCalm /\ ui.typed ~> (~ui.typed \/ Fresh = {})
=============================================================================
