----------------------------- MODULE GeminiChat -----------------------------
(***************************************************************************)
(* One GeminiChat (packages/core/src/core/geminiChat.ts): the history, the *)
(* promise that makes senders wait for each other, the attempts of a       *)
(* request and the requests of an attempt (utils/retry.ts, fallback/), and *)
(* the Turn (core/turn.ts) that reads the stream.                          *)
(*                                                                         *)
(* A request is one call of Turn.run.  Its async functions are cut at      *)
(* their awaits: sendPromise, the API call, the fallback dialog, the next  *)
(* chunk, and the delay before another attempt.                            *)
(***************************************************************************)
EXTENDS Naturals, Sequences, SequencesExt

CONSTANTS
    Request,      \* requests, each sent once
    None,         \* no request
    Chunk,        \* the chunks a stream may deliver
    MaxAttempts,  \* INVALID_CONTENT_RETRY_OPTIONS.maxAttempts
    MaxTries      \* maxAttempts of retryWithBackoff

ASSUME ChatAssumption ==
    /\ None \notin Request
    /\ Chunk \subseteq [thought : BOOLEAN, text : BOOLEAN, finish : BOOLEAN,
                        call : {"no", "reader", "mutator"}]
    /\ MaxAttempts \in Nat \ {0} /\ MaxTries \in Nat \ {0}

VARIABLES
    history,      \* GeminiChat.history
    sendPromise,  \* the request whose stream resolves sendPromise, or None
    turn,         \* what is suspended of each request
    quota         \* fallback mode, quotaErrorOccurred, modelSwitchedFromQuotaError
                  \* and the request whose fallback dialog is open

chatVars == <<history, sendPromise, turn, quota>>

\* A user entry is a prompt, an added note, or the responses to the calls of a
\* request; a model entry has calls or has none.  "of" is that request.
Entry == [role : {"user"}, kind : {"text", "responses", "note"}, of : Request \cup {None}]
         \cup [role : {"model"}, kind : {"reply", "calls"}, of : Request \cup {None}]
Message == {e \in Entry : e.role = "user"}
User(kind, r) == [role |-> "user", kind |-> kind, of |-> r]
Model(kind, r) == [role |-> "model", kind |-> kind, of |-> r]

\* "calling": in fn() of retryWithBackoff; "asking": in the fallback dialog;
\* "delay": before the next attempt.  A stream is over in the last four.
Step == {"idle", "waiting", "calling", "asking", "streaming", "delay",
         "done", "failed", "cancelled", "stopped"}
Over == {"done", "failed", "cancelled", "stopped"}

\* what an attempt has received; asked: a ToolCallRequest was yielded
Received == [text : BOOLEAN, call : BOOLEAN, asked : BOOLEAN, mutator : BOOLEAN,
             finish : BOOLEAN, cut : BOOLEAN]
Nothing == [text |-> FALSE, call |-> FALSE, asked |-> FALSE, mutator |-> FALSE,
            finish |-> FALSE, cut |-> FALSE]

Turn == [step : Step, message : Message, after : Request \cup {None},
         model : {"pro", "flash"}, aborted : BOOLEAN, detached : BOOLEAN,
         attempt : 0 .. MaxAttempts, tries : 0 .. MaxTries, got : Received]
NoTurn == [step |-> "idle", message |-> User("note", None), after |-> None,
           model |-> "pro", aborted |-> FALSE, detached |-> FALSE,
           attempt |-> 0, tries |-> 0, got |-> Nothing]

\* What remains of a request that is over: its outcome, its signal and its calls.
Finished(t, step) == [NoTurn EXCEPT !.step = step, !.aborted = t.aborted,
                                    !.detached = t.detached, !.got.asked = t.got.asked]

At(r, step) == turn[r].step = step

\* Only a reply resolves the promise: a mistake the runs must notice.
ResolvesOnSuccess(r) == r # None => turn[r].step = "done"
\* streamDoneResolver is called however the stream ends.
Resolved(r) == r # None => turn[r].step \in Over

\* getEffectiveModel
ModelToUse(r) == IF quota.fallback THEN "flash" ELSE turn[r].model

-----------------------------------------------------------------------------
\* No request is under way; the history is the caller's.
ChatInit ==
    /\ sendPromise = None
    /\ turn = [r \in Request |-> NoTurn]
    /\ quota = [fallback |-> FALSE, occurred |-> FALSE, switched |-> FALSE,
                dialog |-> None]

\* sendMessageStream up to "await this.sendPromise".  A detached request belongs
\* to a chat that the client has replaced: nobody waits for it there.
Begin(r, message, model, detached, aborted) ==
    /\ At(r, "idle")
    /\ turn' = [turn EXCEPT ![r] =
            [NoTurn EXCEPT !.step = "waiting", !.message = message, !.model = model,
                           !.after = IF detached THEN None ELSE sendPromise,
                           !.detached = detached, !.aborted = aborted]]
    /\ UNCHANGED <<history, sendPromise, quota>>

\* sendPromise resolved: the user content is added and the first call is made.
Proceed(r) ==
    /\ At(r, "waiting")
    /\ Resolved(turn[r].after)
    /\ IF turn[r].detached
       THEN UNCHANGED <<history, sendPromise>>
       ELSE /\ sendPromise' = r
            /\ history' = Append(history, turn[r].message)
    /\ turn' = [turn EXCEPT ![r].step = "calling", ![r].attempt = 1, ![r].tries = 1]
    /\ UNCHANGED quota

\* The request is given up: user content that is still the last entry is
\* removed, the promise resolves, and the turn reports a cancellation or an error.
GiveUp(r) ==
    /\ history' = IF /\ ~turn[r].detached
                     /\ history # <<>>
                     /\ Last(history) = turn[r].message
                  THEN Front(history)
                  ELSE history
    /\ turn' = [turn EXCEPT ![r] =
            Finished(@, IF turn[r].aborted THEN "cancelled" ELSE "failed")]
    /\ UNCHANGED sendPromise

\* apiCall refuses the fallback model until a new query is submitted.
Refused(r) == quota.occurred /\ ModelToUse(r) = "flash"

CallSucceeds(r) ==
    /\ At(r, "calling")
    /\ ~Refused(r)
    /\ turn' = [turn EXCEPT ![r].step = "streaming", ![r].got = Nothing]
    /\ UNCHANGED <<history, sendPromise, quota>>

\* An error that is not retried, an abort, or the refusal above.
CallFails(r) ==
    /\ At(r, "calling")
    /\ GiveUp(r)
    /\ UNCHANGED quota

\* The tries are not counted: a mistake the runs must notice.
RetriesForever(r) ==
    /\ At(r, "calling")
    /\ ~Refused(r)
    /\ turn' = [turn EXCEPT ![r].tries = @ + 1]
    /\ UNCHANGED <<history, sendPromise, quota>>

\* 429, 5xx or a per-minute limit: after a delay that no abort ends, once more.
CallIsRetried(r) ==
    /\ At(r, "calling")
    /\ ~Refused(r)
    /\ turn[r].tries < MaxTries
    /\ turn' = [turn EXCEPT ![r].tries = @ + 1]
    /\ UNCHANGED <<history, sendPromise, quota>>

\* A daily quota is used up: handleFallback.  Only a "pro" request of a session
\* that has not fallen back yet opens the dialog, one at a time; another one
\* meanwhile is told to stop.
QuotaExhausted(r) ==
    /\ At(r, "calling")
    /\ ~Refused(r)
    /\ IF turn[r].model = "flash" \/ quota.fallback
       THEN GiveUp(r) /\ UNCHANGED quota
       ELSE IF quota.dialog # None
       THEN /\ GiveUp(r)
            /\ quota' = [quota EXCEPT !.occurred = TRUE, !.switched = TRUE,
                                      !.fallback = TRUE]
       ELSE /\ turn' = [turn EXCEPT ![r].step = "asking"]
            /\ quota' = [quota EXCEPT !.occurred = TRUE, !.switched = TRUE, !.dialog = r]
            /\ UNCHANGED <<history, sendPromise>>

\* handleProQuotaChoice: "continue" starts the tries over with the fallback model.
FallbackGranted(r) ==
    /\ At(r, "asking")
    /\ turn' = [turn EXCEPT ![r].step = "calling", ![r].tries = 1]
    /\ quota' = [quota EXCEPT !.fallback = TRUE, !.dialog = None]
    /\ UNCHANGED <<history, sendPromise>>

\* handleProQuotaChoice: "auth".
FallbackDeclined(r) ==
    /\ At(r, "asking")
    /\ GiveUp(r)
    /\ quota' = [quota EXCEPT !.dialog = None]

\* A chunk as stopBeforeSecondMutator lets it through: from the second mutator
\* call on the stream is cut off, with a finish reason.
Cut(r, c) == turn[r].got.mutator /\ c.call = "mutator"
Passed(r, c) == IF Cut(r, c) THEN [c EXCEPT !.call = "no", !.finish = TRUE] ELSE c

\* processStreamResponse takes a chunk and Turn.run yields its events.  A chunk
\* whose first part is a thought yields only the thought.
Receive(r, chunk) ==
    LET c == Passed(r, chunk)
    IN  /\ At(r, "streaming")
        /\ ~turn[r].got.cut
        /\ ~turn[r].aborted
        /\ turn' = [turn EXCEPT ![r].got =
                [text |-> @.text \/ c.text,
                 call |-> @.call \/ c.call # "no",
                 asked |-> @.asked \/ (c.call # "no" /\ ~c.thought),
                 mutator |-> @.mutator \/ c.call = "mutator",
                 finish |-> c.finish,
                 cut |-> Cut(r, chunk)]]
        /\ UNCHANGED <<history, sendPromise, quota>>

\* The chunk's events are not read: Turn.run sees the signal and returns, or the
\* client stops reading.  The user content stays.
StopReading(r, step) ==
    /\ turn' = [turn EXCEPT ![r] = Finished(@, step)]
    /\ UNCHANGED <<history, sendPromise, quota>>

SeesAbort(r) ==
    /\ At(r, "streaming")
    /\ turn[r].aborted /\ ~turn[r].got.cut
    /\ StopReading(r, "cancelled")

\* A stream without a call needs a finish reason in its last chunk, and text.
ValidStream(r) == turn[r].got.call \/ (turn[r].got.finish /\ turn[r].got.text)

StreamEnds(r) ==
    /\ At(r, "streaming")
    /\ ValidStream(r)
    /\ history' = IF turn[r].detached THEN history
                  ELSE Append(history, Model(IF turn[r].got.call THEN "calls" ELSE "reply", r))
    /\ turn' = [turn EXCEPT ![r] = Finished(@, "done")]
    /\ UNCHANGED <<sendPromise, quota>>

StreamIsInvalid(r) ==
    /\ At(r, "streaming")
    /\ ~ValidStream(r)
    /\ IF turn[r].attempt < MaxAttempts
       THEN /\ turn' = [turn EXCEPT ![r].step = "delay"]
            /\ UNCHANGED <<history, sendPromise>>
       ELSE GiveUp(r)
    /\ UNCHANGED quota

\* The connection fails, or the abort reaches it: no further attempt.
StreamBreaks(r) ==
    /\ At(r, "streaming")
    /\ ~turn[r].got.cut
    /\ GiveUp(r)
    /\ UNCHANGED quota

\* Another attempt; its RETRY event is where Turn.run sees an abort.
DelayEnds(r) ==
    /\ At(r, "delay")
    /\ IF turn[r].aborted
       THEN StopReading(r, "cancelled")
       ELSE /\ turn' = [turn EXCEPT ![r].step = "calling", ![r].tries = 1,
                                    ![r].attempt = @ + 1, ![r].got = Nothing]
            /\ UNCHANGED <<history, sendPromise, quota>>

AddHistory(entry) ==
    /\ history' = Append(history, entry)
    /\ UNCHANGED <<sendPromise, turn, quota>>

-----------------------------------------------------------------------------
(* A history the model accepts.                                            *)

\* Every content with calls is directly followed by its responses, and every
\* responses content directly follows its calls.
Answered(h, i) == /\ i < Len(h)
                  /\ h[i + 1].kind = "responses" /\ h[i + 1].of = h[i].of
Called(h, i) == /\ i > 1
                /\ h[i - 1].kind = "calls" /\ h[i - 1].of = h[i].of
Paired(h) == \A i \in DOMAIN h :
    /\ h[i].kind = "calls" => Answered(h, i)
    /\ h[i].kind = "responses" => Called(h, i)
=============================================================================
