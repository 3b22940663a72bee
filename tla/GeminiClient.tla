---------------------------- MODULE GeminiClient ----------------------------
(***************************************************************************)
(* GeminiClient (packages/core/src/core/client.ts) with its                *)
(* LoopDetectionService: what sendMessageStream does before and after the  *)
(* Turn of a request, the compression of the chat and its replacement.     *)
(*                                                                         *)
(* A request is one call of sendMessageStream; a continuation ("Please     *)
(* continue.") is a request of its own.  Requests are numbered in the      *)
(* order in which they are made.  The consumer fills in a call.            *)
(***************************************************************************)
EXTENDS GeminiChat

CONSTANTS
    Prompt,           \* prompt ids
    MaxSessionTurns,  \* the setting model.maxSessionTurns
    MaxTurns,         \* MAX_TURNS
    LoopThreshold,    \* TOOL_CALL_LOOP_THRESHOLD
    LlmCheckAfter,    \* LLM_CHECK_AFTER_TURNS
    SkipSpeakerCheck, \* the setting skipNextSpeakerCheck
    Models,           \* what the router decides
    World             \* what may happen: sets of events, one for each behaviour

\* "long": the chat is compressed.  "ide": ide.enabled and an IDE that has news.
\* "command": /compress, /clear, shell commands.  "overlap": a prompt is typed
\* while an earlier one is still being prepared.  "thought": a chunk begins with a
\* thought and holds a call as well.  "limit": MaxSessionTurns is set.
Calm == {"long", "ide", "command"}
Mishap == {"break", "loop", "esc", "quota", "overlap", "thought", "limit"}

ASSUME ClientAssumption ==
    /\ Request \subseteq Nat /\ None \notin Prompt
    /\ MaxSessionTurns \in Nat /\ MaxTurns \in Nat \ {0}
    /\ LoopThreshold \in Nat /\ LlmCheckAfter \in Nat
    /\ SkipSpeakerCheck \in BOOLEAN
    /\ World \subseteq SUBSET (Calm \cup Mishap)
    /\ Models \subseteq {"pro", "flash"} /\ Models # {}

VARIABLES
    call,      \* the sendMessageStream of each request
    captured,  \* requests whose Turn was made for the present chat
    client,    \* lastPromptId, sessionTurnCount, currentSequenceModel,
               \* hasFailedCompressionAttempt
    loop,      \* LoopDetectionService
    world      \* what may happen, chosen once

clientVars == <<chatVars, call, captured, client, loop, world>>
May(event) == event \in world
IsCalm == world \subseteq Calm

\* The awaits of sendMessageStream: the summary of the chat, the loop check of
\* the model, the router, the events of the Turn, checkNextSpeaker.  "shell":
\* a command of the shell mode, which never reaches the client.
Phase == {"none", "preparing", "shell", "compressing", "checking", "routing",
          "reading", "speaking", "over"}
Kind == {"prompt", "compress", "clear", "shell"}
Call == [phase : Phase, kind : Kind, root : Request \cup {None},
         prompt : Prompt \cup {None}, message : Message, left : 0 .. MaxTurns,
         copy : Seq(Entry), stale : BOOLEAN]
NoCall == [phase |-> "none", kind |-> "prompt", root |-> None, prompt |-> None,
           message |-> User("note", None), left |-> 0, copy |-> <<>>, stale |-> FALSE]

Fresh == {r \in Request : call[r].phase = "none"}
NextRequest == CHOOSE r \in Fresh : \A q \in Fresh : r <= q
In(r, phase) == call[r].phase = phase
Ends(r) == call' = [call EXCEPT ![r].phase = "over", ![r].copy = <<>>]

\* startChat: the environment context and its acknowledgement
NewChat == <<User("note", None), Model("reply", None)>>
NoLoop == [repeats |-> 0, found |-> FALSE, turns |-> 0, disabled |-> FALSE]

ClientInit ==
    /\ ChatInit
    /\ history = NewChat
    /\ call = [r \in Request |-> NoCall]
    /\ captured = {}
    /\ client = [prompt |-> None, turns |-> 0, model |-> "none", failed |-> FALSE]
    /\ loop = NoLoop
    /\ world \in World

-----------------------------------------------------------------------------
\* The note is added whatever the last entry is: a mistake the runs must notice.
AlwaysWithIdeContext(h) == IF May("ide") THEN {h, Append(h, User("note", None))} ELSE {h}

\* getIdeContextParts and the note it adds, unless a call waits for its response:
\* there may be nothing new to tell.
WithIdeContext(h) ==
    IF May("ide") /\ Last(h).kind # "calls" THEN {h, Append(h, User("note", None))} ELSE {h}

\* From the end of the compression to the next await: the Turn is made for the
\* present chat and the loop detector told.  How often it asks the model once the
\* prompt is long depends on the model's answers.
ToTheModel(r, c, h, calls, detector) ==
    LET turns == detector.turns + IF detector.disabled THEN 0 ELSE 1
    IN  /\ history' \in WithIdeContext(h)
        /\ loop' = [detector EXCEPT !.turns = turns]
        /\ \E phase \in {"routing"} \cup IF turns >= LlmCheckAfter THEN {"checking"} ELSE {} :
              call' = [calls EXCEPT ![r] = [c EXCEPT !.phase = phase, !.copy = <<>>]]

\* findCompressSplitPoint on a history whose sizes are not known: what is kept
\* begins with a user content that is not a response, or nothing is kept.
SplitsAnywhere(h) ==  \* any user content: a mistake the runs must notice
    {i \in DOMAIN h : i > 1 /\ h[i].role = "user"}
    \cup IF Last(h).kind = "reply" THEN {Len(h) + 1} ELSE {}
SplitPoints(h) ==
    LET users == {i \in DOMAIN h : h[i].kind \in {"text", "note"}}
        lastOne == CHOOSE i \in users : \A j \in users : j <= i
    IN  (users \ {1}) \cup IF Last(h).kind = "reply" THEN {Len(h) + 1} ELSE {lastOne}

\* The new chat: environment, summary and acknowledgements, then what is kept.
Compressed(h, split) ==
    NewChat \o <<User("note", None), Model("reply", None)>> \o SubSeq(h, split, Len(h))

\* sendMessageStream: a new prompt id resets the loop detector ("disabled" stays),
\* and the counters may refuse the message.  tryCompressChat makes its copy of the
\* history at once, and awaits a summary if the chat is too long and no attempt
\* failed.  "calls" is call as the caller leaves it.
Send(r, c, calls) ==
    LET new == client.prompt # c.prompt
        turns == client.turns + 1
        detector == IF new THEN [NoLoop EXCEPT !.disabled = loop.disabled] ELSE loop
    IN  /\ client' = [client EXCEPT !.prompt = c.prompt, !.turns = turns,
                                    !.model = IF new THEN "none" ELSE @]
        /\ IF c.left = 0 \/ (May("limit") /\ turns > MaxSessionTurns)
           THEN /\ call' = [calls EXCEPT ![r] = [c EXCEPT !.phase = "over"]]
                /\ loop' = detector
                /\ UNCHANGED <<history, captured>>
           ELSE \/ /\ ToTheModel(r, c, history, calls, detector)
                   /\ captured' = captured \cup {r}
                \/ /\ May("long") /\ ~client.failed
                   /\ call' = [calls EXCEPT ![r] =
                           [c EXCEPT !.phase = "compressing", !.copy = history]]
                   /\ loop' = detector
                   /\ UNCHANGED <<history, captured>>
        /\ UNCHANGED <<sendPromise, turn, quota>>

\* The summary is longer than what it replaces: no further attempt, unless
\* /compress asks for one, whose failure is forgotten.
Inflated(r) ==
    /\ In(r, "compressing")
    /\ client' = [client EXCEPT !.failed = call[r].kind = "prompt"]
    /\ IF call[r].kind = "prompt"
       THEN ToTheModel(r, call[r], history, call, loop) /\ captured' = captured \cup {r}
       ELSE Ends(r) /\ UNCHANGED <<history, captured, loop>>
    /\ UNCHANGED <<sendPromise, turn, quota>>

\* this.chat is replaced by a chat made from the copy: whoever runs goes on with
\* the old one, and nobody waits for them in the new one.
Compress(r) ==
    LET detached == [q \in Request |-> [turn[q] EXCEPT !.detached = @ \/ ~At(q, "idle")]]
    IN  /\ In(r, "compressing")
        /\ \E split \in SplitPoints(call[r].copy) :
              IF call[r].kind = "prompt"
              THEN ToTheModel(r, call[r], Compressed(call[r].copy, split), call, loop) /\ captured' = {r}
              ELSE /\ history' = Compressed(call[r].copy, split)
                   /\ Ends(r) /\ captured' = {}
                   /\ UNCHANGED loop
        /\ turn' = detached
        /\ sendPromise' = None
        /\ client' = [client EXCEPT !.failed = FALSE]
        /\ UNCHANGED quota

\* The summary cannot be had: sendMessageStream throws.
CompressionThrows(r) ==
    /\ May("break")
    /\ In(r, "compressing")
    /\ Ends(r)
    /\ UNCHANGED <<chatVars, captured, client, loop>>

\* The model sees no loop, or could not be asked.
NoLoopSeen(r) ==
    /\ In(r, "checking")
    /\ call' = [call EXCEPT ![r].phase = "routing"]
    /\ UNCHANGED <<chatVars, captured, client, loop>>

\* The model sees a loop: the message is dropped.
LoopSeen(r) ==
    /\ May("loop")
    /\ In(r, "checking")
    /\ Ends(r)
    /\ UNCHANGED <<chatVars, captured, client, loop>>

\* The router's decision stays for all requests of a prompt; then Turn.run.
Route(r, routed, aborted) ==
    LET model == IF client.model # "none" THEN client.model
                 ELSE IF quota.fallback THEN "flash" ELSE routed
    IN  /\ In(r, "routing")
        /\ Begin(r, call[r].message, model, r \notin captured, aborted)
        /\ client' = [client EXCEPT !.model = model]
        /\ call' = [call EXCEPT ![r].phase = "reading"]
        /\ UNCHANGED <<captured, loop>>

-----------------------------------------------------------------------------
(* The events of the Turn and addAndCheck.                                 *)

Yields(c) == c.thought \/ c.text \/ c.call # "no" \/ c.finish
Asks(c) == c.call # "no" /\ ~c.thought

\* The verdict on this chunk replaces that on the last: a mistake the runs must
\* notice.
JudgesAnew(c, verdict) == verdict.found /\ ~loop.disabled /\ Yields(c)

\* Once a loop was found every event is one.
Verdict(c, verdict) ==
    Yields(c) /\ (loop.found \/ (~loop.disabled /\ verdict.found))

\* What addAndCheck makes of a chunk: identical calls are counted, and a text may
\* repeat itself.
Verdicts(c) ==
    LET counted == {[repeats |-> n, found |-> n >= LoopThreshold] :
                    n \in {1} \cup IF loop.repeats > 0 THEN {loop.repeats + 1} ELSE {}}
        same(found) == [repeats |-> loop.repeats, found |-> found]
    IN  IF Asks(c) THEN counted
        ELSE {same(FALSE)} \cup IF c.text /\ ~c.thought THEN {same(TRUE)} ELSE {}

\* A chunk, its events, and for each whether it is a loop; if so the client
\* aborts its own controller and stops reading.
Read(r, chunk, verdict) ==
    LET c == Passed(r, chunk)
        found == Verdict(c, verdict)
    IN  /\ In(r, "reading")
        /\ verdict \in Verdicts(c)
        /\ verdict.found => May("loop")
        /\ c.thought /\ c.call # "no" => May("thought")
        /\ loop' = IF loop.disabled \/ loop.found THEN loop
                   ELSE [loop EXCEPT !.repeats = verdict.repeats, !.found = found]
        /\ IF found
           THEN /\ At(r, "streaming") /\ ~turn[r].aborted /\ ~turn[r].got.cut
                /\ StopReading(r, "stopped")
                /\ Ends(r)
           ELSE Receive(r, chunk) /\ UNCHANGED call
        /\ UNCHANGED <<captured, client>>

\* The Turn has returned.  Without a call to answer, an abort or an error, the
\* model may be asked whether it wants to go on.
TurnOver(r) ==
    /\ In(r, "reading")
    /\ turn[r].step \in Over
    /\ IF \/ turn[r].step # "done" \/ turn[r].got.asked \/ turn[r].aborted
          \/ quota.occurred \/ SkipSpeakerCheck
       THEN Ends(r)
       ELSE call' = [call EXCEPT ![r].phase = "speaking"]
    /\ UNCHANGED <<chatVars, captured, client, loop>>

\* checkNextSpeaker: the user is next, or the check fails.
UserSpeaks(r) ==
    /\ In(r, "speaking")
    /\ Last(history).kind # "responses" \/ Fresh = {}
    /\ Ends(r)
    /\ UNCHANGED <<chatVars, captured, client, loop>>

\* checkNextSpeaker: the model is next, after a responses content in any case.
ModelSpeaks(r) ==
    /\ In(r, "speaking")
    /\ Last(history).role = "model" \/ Last(history).kind = "responses"
    /\ Fresh # {}
    /\ Send(NextRequest, [call[r] EXCEPT !.message = User("text", None), !.left = @ - 1],
            [call EXCEPT ![r].phase = "over"])

\* /clear: resetChat.
ResetChat ==
    /\ history' = NewChat
    /\ sendPromise' = None
    /\ turn' = [q \in Request |-> [turn[q] EXCEPT !.detached = @ \/ ~At(q, "idle")]]
    /\ captured' = {}
    /\ client' = [client EXCEPT !.failed = FALSE]
    /\ UNCHANGED <<quota, loop>>
=============================================================================
