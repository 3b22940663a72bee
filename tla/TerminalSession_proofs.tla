----------------------- MODULE TerminalSession_proofs -----------------------
(***************************************************************************)
(* Proofs about TerminalSession for every number of requests and prompts.  *)
(* Three invariants: TInv, the types and what they rest on; CalmInv, for   *)
(* the session in which nothing goes wrong; SteadyInv, for the one that    *)
(* nobody interrupts.                                                      *)
(***************************************************************************)
EXTENDS TerminalSession, FiniteSetTheorems, SequenceTheorems, WellFoundedInduction, TLAPS

-----------------------------------------------------------------------------
(* Types.                                                                  *)

RequestOrNone == Request \cup {None}

\* The least of a set of numbers, by the order of the natural numbers.
LEMMA HasLeast ==
    ASSUME NEW T \in SUBSET Nat, T # {}
    PROVE  \E n \in T : \A m \in T : n <= m
<1>1. PICK n \in T : \A m \in T : ~(<<m, n>> \in OpToRel(<, Nat))
  <2> DEFINE less == OpToRel(<, Nat)
  <2>1. IsWellFoundedOn(less, Nat)
    BY NatLessThanWellFounded
  <2> HIDE DEF less
  <2>2. \E n \in T : \A m \in T : ~(<<m, n>> \in less)
    BY <2>1, WFMin
  <2> QED BY <2>2 DEF less
<1>2. ASSUME NEW m \in T PROVE ~(m < n)
  BY <1>1, Zenon DEF OpToRel
<1> QED BY <1>2

LEMMA NextIsFresh ==
    ASSUME Fresh # {}
    PROVE  NextRequest \in Fresh
<1>1. \E r \in Fresh : \A q \in Fresh : r <= q
  BY HasLeast, ClientAssumption DEF Fresh
<1> QED BY <1>1 DEF NextRequest

LEMMA UserType ==
    ASSUME NEW kind \in {"text", "responses", "note"}, NEW r \in RequestOrNone
    PROVE  User(kind, r) \in Message /\ User(kind, r) \in Entry
BY DEF User, Message, Entry, RequestOrNone

LEMMA ModelType ==
    ASSUME NEW kind \in {"reply", "calls"}, NEW r \in RequestOrNone
    PROVE  Model(kind, r) \in Entry
BY DEF Model, Entry, RequestOrNone

LEMMA NothingType == Nothing \in Received
BY DEF Nothing, Received

LEMMA NoTurnType == NoTurn \in Turn
BY UserType, NothingType, ChatAssumption DEF NoTurn, Turn, Step, RequestOrNone

LEMMA FinishedType ==
    ASSUME NEW t \in Turn, NEW step \in Over
    PROVE  /\ Finished(t, step) \in Turn
           /\ Finished(t, step).step = step
           /\ Finished(t, step).aborted = t.aborted
           /\ Finished(t, step).detached = t.detached
           /\ Finished(t, step).got.asked = t.got.asked
<1>1. t.aborted \in BOOLEAN /\ t.detached \in BOOLEAN /\ t.got.asked \in BOOLEAN
  BY DEF Turn, Received
<1>2. step \in Step
  BY DEF Over, Step
<1>3. NoTurn \in Turn /\ NoTurn.got \in Received
  BY NoTurnType DEF Turn
<1> QED BY <1>1, <1>2, <1>3 DEF Finished, Turn, Received

LEMMA NoCallType == NoCall \in Call
<1>1. User("note", None) \in Message
  BY UserType DEF RequestOrNone
<1>2. 0 \in 0 .. MaxTurns /\ <<>> \in Seq(Entry)
  BY ClientAssumption
<1> QED BY <1>1, <1>2 DEF NoCall, Call, Phase, Kind

LEMMA NewChatType == NewChat \in Seq(Entry)
BY UserType, ModelType DEF NewChat, RequestOrNone

\* A chat begins with its environment and the model's acknowledgement.
History == {h \in Seq(Entry) : Len(h) >= 2 /\ h[1].kind = "note" /\ h[2].role = "model"}

LEMMA NewChatIsHistory == NewChat \in History
BY NewChatType DEF History, NewChat, User, Model

LEMMA AppendIsHistory ==
    ASSUME NEW h \in History, NEW e \in Entry
    PROVE  Append(h, e) \in History
<1>1. h \in Seq(Entry) /\ Len(h) \in Nat /\ Len(h) >= 2
  BY LenProperties DEF History
<1>2. /\ Append(h, e) \in Seq(Entry) /\ Len(Append(h, e)) = Len(h) + 1
      /\ \A i \in 1 .. Len(h) : Append(h, e)[i] = h[i]
  BY <1>1, AppendProperties
<1>3. 1 \in 1 .. Len(h) /\ 2 \in 1 .. Len(h) /\ Len(h) + 1 >= 2
  BY <1>1
<1> DEFINE g == Append(h, e)
<1>4. g \in Seq(Entry) /\ Len(g) >= 2 /\ g[1] = h[1] /\ g[2] = h[2]
  BY <1>2, <1>3
<1> HIDE DEF g
<1>5. g \in History
  BY <1>4 DEF History
<1> QED BY <1>5 DEF g

LEMMA FrontType ==
    ASSUME NEW h \in Seq(Entry), h # <<>>
    PROVE  /\ Front(h) \in Seq(Entry) /\ Len(Front(h)) = Len(h) - 1
           /\ \A i \in 1 .. Len(h) - 1 : Front(h)[i] = h[i]
<1> DEFINE n == Len(h) - 1
<1>1. n \in Nat /\ 1 \in Int /\ \A i \in 1 .. n : h[i] \in Entry
  BY EmptySeq
<1> HIDE DEF n
<1>2. /\ SubSeq(h, 1, n) \in Seq(Entry) /\ Len(SubSeq(h, 1, n)) = n
      /\ \A i \in 1 .. n : SubSeq(h, 1, n)[i] = h[i]
  <2>1. /\ SubSeq(h, 1, n) \in Seq(Entry)
        /\ Len(SubSeq(h, 1, n)) = IF 1 <= n THEN n - 1 + 1 ELSE 0
        /\ \A i \in 1 .. n - 1 + 1 : SubSeq(h, 1, n)[i] = h[1 + i - 1]
    BY <1>1, SubSeqProperties
  <2> QED BY <1>1, <2>1
<1> QED BY <1>2 DEF Front, n

LEMMA FrontIsHistory ==
    ASSUME NEW h \in History, NEW m \in Message, Last(h) = m
    PROVE  Front(h) \in History
<1>1. h \in Seq(Entry) /\ Len(h) \in Nat /\ Len(h) >= 2 /\ h # <<>>
  BY LenProperties, EmptySeq DEF History
<1>2. Len(h) # 2
  BY DEF Last, History, Message
<1>3. Len(h) - 1 >= 2 /\ Len(h) - 1 \in Nat /\ 1 \in 1 .. Len(h) - 1 /\ 2 \in 1 .. Len(h) - 1
  <2> DEFINE n == Len(h)
  <2>1. n \in Nat /\ n >= 2 /\ n # 2
    BY <1>1, <1>2
  <2> HIDE DEF n
  <2>2. n - 1 >= 2 /\ n - 1 \in Nat /\ 1 \in 1 .. n - 1 /\ 2 \in 1 .. n - 1
    BY <2>1
  <2> QED BY <2>2 DEF n
<1>4. Front(h)[1] = h[1] /\ Front(h)[2] = h[2] /\ Len(Front(h)) = Len(h) - 1
  BY <1>1, <1>3, FrontType
<1> QED BY <1>1, <1>3, <1>4, FrontType DEF History

-----------------------------------------------------------------------------
(* What the chat does keeps the types.                                     *)

ChatTypes ==
    /\ history \in History
    /\ sendPromise \in RequestOrNone
    /\ turn \in [Request -> Turn]
    /\ quota \in [fallback : BOOLEAN, occurred : BOOLEAN, switched : BOOLEAN,
                  dialog : RequestOrNone]
    /\ \A r \in Request : At(r, "delay") => turn[r].attempt < MaxAttempts

LEMMA GiveUpTypes ==
    ASSUME ChatTypes, NEW r \in Request, GiveUp(r), quota' \in [fallback : BOOLEAN,
               occurred : BOOLEAN, switched : BOOLEAN, dialog : RequestOrNone]
    PROVE  ChatTypes'
<1>1. turn[r] \in Turn
  BY DEF ChatTypes
<1>2. \A step \in Over : Finished(turn[r], step) \in Turn /\ Finished(turn[r], step).step = step
  BY <1>1, FinishedType
<1>3. turn' \in [Request -> Turn] /\ \A q \in Request : At(q, "delay")' => turn'[q] = turn[q]
  BY <1>2 DEF GiveUp, ChatTypes, Over, At
<1>4. history' \in History
  <2>1. turn[r].message \in Message
    BY <1>1 DEF Turn
  <2> QED BY <2>1, FrontIsHistory DEF GiveUp, ChatTypes
<1> QED BY <1>3, <1>4 DEF GiveUp, ChatTypes, At

\* A turn that takes a step.
LEMMA TurnTypes ==
    ASSUME ChatTypes, NEW r \in Request, NEW t \in Turn, turn' = [turn EXCEPT ![r] = t],
           t.step = "delay" => t.attempt < MaxAttempts,
           history' \in History, sendPromise' \in RequestOrNone,
           quota' \in [fallback : BOOLEAN, occurred : BOOLEAN, switched : BOOLEAN,
                       dialog : RequestOrNone]
    PROVE  ChatTypes'
BY DEF ChatTypes, At

LEMMA TurnAloneTypes ==
    ASSUME ChatTypes, NEW r \in Request, NEW t \in Turn, turn' = [turn EXCEPT ![r] = t],
           t.step = "delay" => t.attempt < MaxAttempts,
           UNCHANGED <<history, sendPromise, quota>>
    PROVE  ChatTypes'
BY TurnTypes DEF ChatTypes

LEMMA BeginTypes ==
    ASSUME ChatTypes, NEW r \in Request, NEW message \in Message, NEW model \in {"pro", "flash"},
           NEW detached \in BOOLEAN, NEW aborted \in BOOLEAN,
           Begin(r, message, model, detached, aborted)
    PROVE  ChatTypes'
<1> DEFINE after == IF detached THEN None ELSE sendPromise
           t == [NoTurn EXCEPT !.step = "waiting", !.message = message, !.model = model,
                               !.after = after, !.detached = detached, !.aborted = aborted]
<1>1. turn' = [turn EXCEPT ![r] = t]
  BY DEF Begin
<1>2. after \in Request \cup {None}
  BY DEF ChatTypes, RequestOrNone
<1> HIDE DEF after
<1>3. "waiting" \in Step
  BY DEF Step
<1>4. t \in Turn /\ t.step = "waiting"
  BY <1>2, <1>3, NoTurnType DEF Turn
<1> HIDE DEF t
<1> QED BY <1>1, <1>4, TurnTypes DEF Begin, ChatTypes

LEMMA ChatStepTypes ==
    ASSUME ChatTypes, NEW r \in Request,
           \/ Proceed(r) \/ CallSucceeds(r) \/ CallIsRetried(r) \/ DelayEnds(r) \/ CallFails(r)
           \/ QuotaExhausted(r) \/ FallbackGranted(r) \/ FallbackDeclined(r)
    PROVE  ChatTypes'
<1> DEFINE t == turn[r]
<1>0. /\ t \in Turn /\ r \in RequestOrNone
      /\ t.step \in Step /\ t.message \in Message /\ t.after \in RequestOrNone
      /\ t.model \in {"pro", "flash"} /\ t.aborted \in BOOLEAN /\ t.detached \in BOOLEAN
      /\ t.attempt \in 0 .. MaxAttempts /\ t.tries \in 0 .. MaxTries /\ t.got \in Received
      /\ MaxAttempts \in Nat \ {0} /\ MaxTries \in Nat \ {0}
      /\ 1 \in 0 .. MaxAttempts /\ 1 \in 0 .. MaxTries
  BY ChatAssumption DEF ChatTypes, Turn, RequestOrNone
<1>00. "calling" \in Step /\ "asking" \in Step
  BY DEF Step
<1>1. ASSUME Proceed(r) PROVE ChatTypes'
  <2> DEFINE u == [t EXCEPT !.step = "calling", !.attempt = 1, !.tries = 1]
  <2>1. u \in Turn /\ u.step = "calling"
    BY <1>0, <1>00 DEF Turn
  <2>2. turn' = [turn EXCEPT ![r] = u]
    BY <1>1 DEF Proceed, ChatTypes
  <2>3. turn[r].message \in Entry
    BY <1>0 DEF Message
  <2>4. history' \in History /\ sendPromise' \in RequestOrNone
    <3>1. CASE turn[r].detached
      BY <1>1, <3>1 DEF Proceed, ChatTypes
    <3>2. CASE ~turn[r].detached
      <4>1. history' = Append(history, turn[r].message) /\ sendPromise' = r
        BY <1>1, <3>2 DEF Proceed
      <4> QED BY <2>3, <4>1, AppendIsHistory DEF ChatTypes, RequestOrNone
    <3> QED BY <3>1, <3>2
  <2> HIDE DEF u
  <2>5. quota' = quota
    BY <1>1 DEF Proceed
  <2> QED BY <2>1, <2>2, <2>4, <2>5, TurnTypes DEF ChatTypes
<1>2. ASSUME CallSucceeds(r) PROVE ChatTypes'
  <2> DEFINE u == [t EXCEPT !.step = "streaming", !.got = Nothing]
  <2>1. u \in Turn /\ u.step = "streaming"
    BY <1>0, NothingType DEF Turn, Step
  <2>2. turn' = [turn EXCEPT ![r] = u]
    BY <1>2 DEF CallSucceeds, ChatTypes
  <2> HIDE DEF u
  <2>3. UNCHANGED <<history, sendPromise, quota>>
    BY <1>2 DEF CallSucceeds
  <2> QED BY <2>1, <2>2, <2>3, TurnAloneTypes
<1>3. ASSUME CallIsRetried(r) PROVE ChatTypes'
  <2> DEFINE u == [t EXCEPT !.tries = @ + 1]
  <2>1. u \in Turn /\ u.step = "calling"
    BY <1>0, <1>3 DEF Turn, CallIsRetried, At
  <2>2. turn' = [turn EXCEPT ![r] = u]
    BY <1>3 DEF CallIsRetried, ChatTypes
  <2> HIDE DEF u
  <2>3. UNCHANGED <<history, sendPromise, quota>>
    BY <1>3 DEF CallIsRetried
  <2> QED BY <2>1, <2>2, <2>3, TurnAloneTypes
<1>4. ASSUME DelayEnds(r), ~turn[r].aborted PROVE ChatTypes'
  <2> DEFINE u == [t EXCEPT !.step = "calling", !.tries = 1, !.attempt = @ + 1, !.got = Nothing]
  <2>1. t.attempt < MaxAttempts
    BY <1>4 DEF ChatTypes, DelayEnds
  <2>2. t.attempt + 1 \in 0 .. MaxAttempts
    BY <1>0, <2>1
  <2>4. u \in Turn /\ u.step = "calling"
    BY <1>0, <1>00, <2>2, NothingType DEF Turn
  <2>3. turn' = [turn EXCEPT ![r] = u]
    BY <1>4 DEF DelayEnds, ChatTypes
  <2> HIDE DEF u
  <2>5. UNCHANGED <<history, sendPromise, quota>>
    BY <1>4 DEF DelayEnds
  <2> QED BY <2>3, <2>4, <2>5, TurnAloneTypes
<1>5. ASSUME DelayEnds(r), turn[r].aborted PROVE ChatTypes'
  <2>1. /\ turn' = [turn EXCEPT ![r] = Finished(turn[r], "cancelled")]
        /\ UNCHANGED <<history, sendPromise, quota>>
    BY <1>5 DEF DelayEnds, StopReading, ChatTypes
  <2> QED BY <1>0, <2>1, FinishedType, TurnTypes DEF ChatTypes, Over
<1>6. ASSUME CallFails(r) PROVE ChatTypes'
  BY <1>6, GiveUpTypes DEF CallFails, ChatTypes
<1>7. ASSUME QuotaExhausted(r) PROVE ChatTypes'
  <2>1. CASE GiveUp(r) /\ UNCHANGED quota
    BY <2>1, GiveUpTypes DEF ChatTypes
  <2>2. CASE /\ GiveUp(r)
             /\ quota' = [quota EXCEPT !.occurred = TRUE, !.switched = TRUE, !.fallback = TRUE]
    BY <2>2, GiveUpTypes DEF ChatTypes
  <2>3. CASE /\ turn' = [turn EXCEPT ![r].step = "asking"]
             /\ quota' = [quota EXCEPT !.occurred = TRUE, !.switched = TRUE, !.dialog = r]
             /\ UNCHANGED <<history, sendPromise>>
    <3> DEFINE u == [t EXCEPT !.step = "asking"]
    <3>1. u \in Turn /\ u.step = "asking"
      BY <1>0 DEF Turn, Step
    <3>2. turn' = [turn EXCEPT ![r] = u]
      BY <2>3 DEF ChatTypes
    <3>3. /\ history' \in History /\ sendPromise' \in RequestOrNone
          /\ quota' \in [fallback : BOOLEAN, occurred : BOOLEAN, switched : BOOLEAN,
                        dialog : RequestOrNone]
      BY <1>0, <2>3 DEF ChatTypes
    <3> HIDE DEF u
    <3> QED BY <3>1, <3>2, <3>3, TurnTypes
  <2> QED BY <1>7, <2>1, <2>2, <2>3 DEF QuotaExhausted
<1>8. ASSUME FallbackGranted(r) PROVE ChatTypes'
  <2> DEFINE u == [t EXCEPT !.step = "calling", !.tries = 1]
  <2>1. u \in Turn /\ u.step = "calling"
    BY <1>0, <1>00 DEF Turn
  <2>2. turn' = [turn EXCEPT ![r] = u]
    BY <1>8 DEF FallbackGranted, ChatTypes
  <2> HIDE DEF u
  <2>3. /\ history' \in History /\ sendPromise' \in RequestOrNone
        /\ quota' \in [fallback : BOOLEAN, occurred : BOOLEAN, switched : BOOLEAN,
                      dialog : RequestOrNone]
    BY <1>8 DEF FallbackGranted, ChatTypes, RequestOrNone
  <2> QED BY <2>1, <2>2, <2>3, TurnTypes
<1>9. ASSUME FallbackDeclined(r) PROVE ChatTypes'
  BY <1>9, GiveUpTypes DEF FallbackDeclined, ChatTypes, RequestOrNone
<1> QED BY <1>1, <1>2, <1>3, <1>4, <1>5, <1>6, <1>7, <1>8, <1>9

LEMMA StreamStopsTypes ==
    ASSUME ChatTypes, NEW r \in Request,
           StreamEnds(r) \/ SeesAbort(r) \/ StreamIsInvalid(r) \/ StreamBreaks(r)
    PROVE  ChatTypes'
<1>0. turn[r] \in Turn /\ r \in RequestOrNone
  BY DEF ChatTypes, RequestOrNone
<1>1. ASSUME StreamEnds(r) PROVE ChatTypes'
  <2>1. history' \in History
    BY <1>0, <1>1, ModelType, AppendIsHistory DEF StreamEnds, ChatTypes
  <2> QED BY <1>0, <1>1, <2>1, FinishedType, TurnTypes DEF StreamEnds, ChatTypes, Over
<1>2. ASSUME SeesAbort(r) PROVE ChatTypes'
  BY <1>0, <1>2, FinishedType, TurnTypes DEF SeesAbort, StopReading, ChatTypes, Over
<1>3. ASSUME StreamIsInvalid(r), turn[r].attempt < MaxAttempts PROVE ChatTypes'
  <2> DEFINE u == [turn[r] EXCEPT !.step = "delay"]
  <2>1. u \in Turn /\ u.step = "delay" /\ u.attempt = turn[r].attempt
    BY <1>0 DEF Turn, Step
  <2>2. turn' = [turn EXCEPT ![r] = u]
    BY <1>3 DEF StreamIsInvalid, ChatTypes
  <2> HIDE DEF u
  <2> QED BY <1>3, <2>1, <2>2, TurnTypes DEF StreamIsInvalid, ChatTypes
<1>4. ASSUME StreamIsInvalid(r), ~(turn[r].attempt < MaxAttempts) PROVE ChatTypes'
  BY <1>4, GiveUpTypes DEF StreamIsInvalid, ChatTypes
<1>5. ASSUME StreamBreaks(r) PROVE ChatTypes'
  BY <1>5, GiveUpTypes DEF StreamBreaks, ChatTypes
<1> QED BY <1>1, <1>2, <1>3, <1>4, <1>5
-----------------------------------------------------------------------------
(* What the client does keeps the types.                                   *)

\* A request that may still be continued has a turn left; what is compressed is the
\* history of a chat.
Sane(c) ==
    /\ c.phase \in {"preparing", "compressing", "checking", "routing", "reading", "speaking"}
       => c.left > 0
    /\ c.phase = "compressing" => c.copy \in History

Loop == [repeats : Nat, found : BOOLEAN, turns : Nat, disabled : BOOLEAN]
ClientTypes ==
    /\ call \in [Request -> Call]
    /\ \A r \in Request : Sane(call[r])
    /\ captured \subseteq Request
    /\ client \in [prompt : Prompt \cup {None}, turns : Nat, failed : BOOLEAN,
                   model : {"none", "pro", "flash"}]
    /\ loop \in Loop

\* A call in another phase.
LEMMA PhaseTypes ==
    ASSUME NEW c \in Call, NEW phase \in Phase, NEW d, d = [c EXCEPT !.phase = phase]
    PROVE  d \in Call /\ d.phase = phase /\ d.left = c.left /\ d.kind = c.kind
BY DEF Call

LEMMA CallTypes ==
    ASSUME NEW calls \in [Request -> Call], \A q \in Request : Sane(calls[q]),
           NEW r \in Request, NEW c \in Call, Sane(c), call' = [calls EXCEPT ![r] = c]
    PROVE  call' \in [Request -> Call] /\ \A q \in Request : Sane(call'[q])
OBVIOUS

LEMMA EndsTypes ==
    ASSUME ClientTypes, NEW r \in Request, Ends(r)
    PROVE  call' \in [Request -> Call] /\ \A q \in Request : Sane(call'[q])
<1> DEFINE c == [call[r] EXCEPT !.phase = "over", !.copy = <<>>]
<1>1. call' = [call EXCEPT ![r] = c]
  BY DEF Ends, ClientTypes
<1>2. call[r] \in Call /\ "over" \in Phase /\ <<>> \in Seq(Entry)
  BY DEF ClientTypes, Phase
<1>3. c = [call[r] EXCEPT !.phase = "over", !.copy = <<>>]
  OBVIOUS
<1> HIDE DEF c
<1>4. c \in Call /\ c.phase = "over"
  BY <1>2, <1>3 DEF Call
<1> QED BY <1>1, <1>4, CallTypes DEF ClientTypes, Sane

LEMMA ToTheModelTypes ==
    ASSUME NEW calls \in [Request -> Call], \A q \in Request : Sane(calls[q]),
           NEW r \in Request, NEW c \in Call, c.left > 0,
           NEW h \in History,
           NEW detector \in Loop, ToTheModel(r, c, h, calls, detector)
    PROVE  /\ call' \in [Request -> Call] /\ \A q \in Request : Sane(call'[q])
           /\ history' \in History
           /\ loop' \in Loop
<1>1. history' \in History
  <2>1. User("note", None) \in Entry
    BY UserType DEF RequestOrNone
  <2>2. Append(h, User("note", None)) \in History
    BY <2>1, AppendIsHistory
  <2> QED BY <2>2 DEF ToTheModel, WithIdeContext
<1>2. loop' \in Loop
  BY DEF ToTheModel, Loop
<1>3. PICK phase \in {"routing", "checking"} :
          call' = [calls EXCEPT ![r] = [c EXCEPT !.phase = phase, !.copy = <<>>]]
  BY DEF ToTheModel
<1> DEFINE d == [c EXCEPT !.phase = phase, !.copy = <<>>]
<1>4. phase \in Phase /\ <<>> \in Seq(Entry)
  BY DEF Phase
<1>5. call' = [calls EXCEPT ![r] = d] /\ d = [c EXCEPT !.phase = phase, !.copy = <<>>]
  BY <1>3
<1> HIDE DEF d
<1>6. d \in Call /\ d.left = c.left /\ d.kind = c.kind /\ d.phase = phase
  BY <1>4, <1>5 DEF Call
<1>7. Sane(d)
  BY <1>6 DEF Sane
<1> QED BY <1>1, <1>2, <1>5, <1>6, <1>7, CallTypes

LEMMA SendTypes ==
    ASSUME ChatTypes, ClientTypes, NEW calls \in [Request -> Call],
           \A q \in Request : Sane(calls[q]),
           NEW r \in Request, NEW c \in Call, Send(r, c, calls)
    PROVE  ChatTypes' /\ ClientTypes'
<1> DEFINE new == client.prompt # c.prompt
           detector == IF new THEN [NoLoop EXCEPT !.disabled = loop.disabled] ELSE loop
<1>1. detector \in Loop
  BY DEF ClientTypes, Loop, NoLoop
<1>2. client' \in [prompt : Prompt \cup {None}, turns : Nat, failed : BOOLEAN,
                   model : {"none", "pro", "flash"}]
  <2>1. c.prompt \in Prompt \cup {None}
    BY DEF Call
  <2>2. client' = [client EXCEPT !.prompt = c.prompt, !.turns = client.turns + 1,
                                 !.model = IF new THEN "none" ELSE @]
    BY DEF Send
  <2>3. client.turns + 1 \in Nat
    BY DEF ClientTypes
  <2> HIDE DEF new
  <2> QED BY <2>1, <2>2, <2>3 DEF ClientTypes
<1>3. c.left \in Nat
  BY ClientAssumption DEF Call
<1> DEFINE refused == c.left = 0 \/ (May("limit") /\ client.turns + 1 > MaxSessionTurns)
<1>4. /\ call' \in [Request -> Call] /\ \A q \in Request : Sane(call'[q])
      /\ history' \in History /\ captured' \subseteq Request /\ loop' \in Loop
  <2>1. CASE refused
    <3> DEFINE d == [c EXCEPT !.phase = "over"]
    <3>1. /\ call' = [calls EXCEPT ![r] = d] /\ loop' = detector
          /\ UNCHANGED <<history, captured>>
      BY <2>1 DEF Send
    <3>2. d \in Call /\ d.phase = "over"
      BY PhaseTypes DEF Phase
    <3> HIDE DEF d, detector
    <3>3. Sane(d)
      BY <3>2 DEF Sane
    <3> QED BY <1>1, <3>1, <3>2, <3>3, CallTypes DEF ClientTypes, ChatTypes
  <2>2. CASE ~refused /\ ToTheModel(r, c, history, calls, detector)
                      /\ captured' = captured \cup {r}
    <3> HIDE DEF detector
    <3> QED BY <1>1, <1>3, <2>2, ToTheModelTypes DEF ChatTypes, ClientTypes
  <2>3. CASE /\ ~refused
             /\ call' = [calls EXCEPT ![r] = [c EXCEPT !.phase = "compressing", !.copy = history]]
             /\ loop' = detector
             /\ UNCHANGED <<history, captured>>
    <3> DEFINE d == [c EXCEPT !.phase = "compressing", !.copy = history]
    <3>1. "compressing" \in Phase /\ history \in Seq(Entry) /\ history \in History
      BY DEF Phase, ChatTypes, History
    <3>3. /\ call' = [calls EXCEPT ![r] = d]
          /\ d = [c EXCEPT !.phase = "compressing", !.copy = history]
      BY <2>3
    <3> HIDE DEF d, detector
    <3>2. d \in Call /\ d.left = c.left /\ d.copy = history /\ d.phase = "compressing"
      BY <3>1, <3>3 DEF Call
    <3>4. Sane(d)
      BY <1>3, <2>3, <3>1, <3>2 DEF Sane
    <3> QED BY <1>1, <2>3, <3>2, <3>3, <3>4, CallTypes DEF ClientTypes, ChatTypes
  <2> QED BY <2>1, <2>2, <2>3 DEF Send
<1>5. UNCHANGED <<sendPromise, turn, quota>>
  BY DEF Send
<1> QED BY <1>2, <1>4, <1>5 DEF ChatTypes, ClientTypes, At

LEMMA PassedType ==
    ASSUME NEW r, NEW chunk \in Chunk
    PROVE  Passed(r, chunk) \in [thought : BOOLEAN, text : BOOLEAN, finish : BOOLEAN,
                                 call : {"no", "reader", "mutator"}]
BY ChatAssumption DEF Passed

LEMMA ReceiveTypes ==
    ASSUME ChatTypes, NEW r \in Request, NEW chunk \in Chunk, Receive(r, chunk)
    PROVE  ChatTypes'
<1> DEFINE c == Passed(r, chunk)
           got == turn[r].got
           g == [text |-> got.text \/ c.text,
                 call |-> got.call \/ c.call # "no",
                 asked |-> got.asked \/ (c.call # "no" /\ ~c.thought),
                 mutator |-> got.mutator \/ c.call = "mutator",
                 finish |-> c.finish,
                 cut |-> Cut(r, chunk)]
           u == [turn[r] EXCEPT !.got = g]
<1>1. turn[r] \in Turn /\ got \in Received
  BY DEF ChatTypes, Turn
<1>2. g \in Received
  <2>1. c.text \in BOOLEAN /\ c.finish \in BOOLEAN /\ c.thought \in BOOLEAN /\ Cut(r, chunk) \in BOOLEAN
    BY <1>1, PassedType DEF Cut, Received
  <2> HIDE DEF c
  <2> QED BY <1>1, <2>1 DEF Received
<1>3. turn' = [turn EXCEPT ![r] = u] /\ UNCHANGED <<history, sendPromise, quota>>
  BY DEF Receive, ChatTypes
<1> HIDE DEF g
<1>4. u \in Turn /\ u.step = turn[r].step /\ u.attempt = turn[r].attempt
  BY <1>1, <1>2 DEF Turn
<1> HIDE DEF u
<1> QED BY <1>3, <1>4, TurnTypes DEF ChatTypes, At

LEMMA StopReadingTypes ==
    ASSUME ChatTypes, NEW r \in Request, NEW step \in Over, StopReading(r, step)
    PROVE  ChatTypes'
<1>1. turn[r] \in Turn /\ step # "delay"
  BY DEF ChatTypes, Over
<1>2. turn' = [turn EXCEPT ![r] = Finished(turn[r], step)] /\ UNCHANGED <<history, sendPromise, quota>>
  BY DEF StopReading, ChatTypes
<1>3. Finished(turn[r], step) \in Turn /\ Finished(turn[r], step).step # "delay"
  BY <1>1, FinishedType
<1> QED BY <1>2, <1>3, TurnTypes DEF ChatTypes

LEMMA ReadTypes ==
    ASSUME ChatTypes, ClientTypes, NEW r \in Request, NEW chunk \in Chunk,
           NEW verdict \in [repeats : 0 .. LoopThreshold, found : BOOLEAN],
           Read(r, chunk, verdict)
    PROVE  ChatTypes' /\ ClientTypes'
<1> DEFINE found == Verdict(Passed(r, chunk), verdict)
<1>1. ChatTypes' /\ call' \in [Request -> Call] /\ \A q \in Request : Sane(call'[q])
  <2>1. CASE found
    <3>1. StopReading(r, "stopped") /\ Ends(r)
      BY <2>1 DEF Read
    <3> QED BY <3>1, StopReadingTypes, EndsTypes DEF Over
  <2>2. CASE ~found
    <3>1. Receive(r, chunk) /\ UNCHANGED call
      BY <2>2 DEF Read
    <3> QED BY <3>1, ReceiveTypes DEF ClientTypes
  <2> QED BY <2>1, <2>2
<1>2. loop' \in Loop
  <2>1. verdict.repeats \in Nat /\ found \in BOOLEAN
    BY ClientAssumption DEF Verdict
  <2>2. loop' = loop \/ loop' = [loop EXCEPT !.repeats = verdict.repeats, !.found = found]
    BY DEF Read
  <2> HIDE DEF found
  <2> QED BY <2>1, <2>2 DEF ClientTypes, Loop
<1> QED BY <1>1, <1>2 DEF Read, ClientTypes

\* A new chat: whoever runs goes on with the old one.
LEMMA DetachedTypes ==
    ASSUME ChatTypes, history' \in History, sendPromise' = None, quota' = quota,
           turn' = [q \in Request |-> [turn[q] EXCEPT !.detached = @ \/ ~At(q, "idle")]]
    PROVE  /\ ChatTypes'
           /\ \A q \in Request : /\ turn'[q].step = turn[q].step
                                 /\ turn'[q].aborted = turn[q].aborted
                                 /\ turn'[q].got = turn[q].got
<1>1. ASSUME NEW q \in Request
      PROVE  turn'[q] \in Turn /\ turn'[q].step = turn[q].step /\ turn'[q].aborted = turn[q].aborted
             /\ turn'[q].got = turn[q].got /\ turn'[q].attempt = turn[q].attempt
  <2> DEFINE b == turn[q].detached \/ ~At(q, "idle")
  <2>1. turn[q] \in Turn /\ b \in BOOLEAN /\ turn'[q] = [turn[q] EXCEPT !.detached = b]
    BY DEF ChatTypes, Turn
  <2> HIDE DEF b
  <2> QED BY <2>1 DEF Turn
<1>2. turn' \in [Request -> Turn]
  BY <1>1
<1> QED BY <1>1, <1>2 DEF ChatTypes, At, RequestOrNone

-----------------------------------------------------------------------------
(* The compressed history.                                                 *)

\* A set of positions has a last one.
LEMMA HasGreatest ==
    ASSUME NEW n \in Nat, NEW T \in SUBSET (1 .. n), T # {}
    PROVE  \E i \in T : \A j \in T : j <= i
<1> DEFINE R == {n - i : i \in T}
<1>1. R \in SUBSET Nat /\ R # {}
  <2>1. \A i \in T : n - i \in Nat
    OBVIOUS
  <2> QED BY <2>1
<1>2. PICK m \in R : \A k \in R : m <= k
  BY <1>1, HasLeast
<1>3. PICK i \in T : m = n - i
  BY <1>2
<1>4. ASSUME NEW j \in T PROVE j <= i
  <2>1. n - j \in R
    OBVIOUS
  <2>2. n - i <= n - j
    BY <1>2, <1>3, <2>1
  <2> QED BY <2>2
<1> QED BY <1>4

LEMMA SplitIsSafe ==
    ASSUME NEW h \in History, NEW split \in SplitPoints(h)
    PROVE  /\ split \in 1 .. Len(h) + 1
           /\ split <= Len(h) => h[split].kind \in {"text", "note"}
           /\ split = Len(h) + 1 => Last(h).kind = "reply"
<1> DEFINE users == {i \in DOMAIN h : h[i].kind \in {"text", "note"}}
           lastOne == CHOOSE i \in users : \A j \in users : j <= i
<1>1. DOMAIN h = 1 .. Len(h) /\ Len(h) \in Nat /\ Len(h) >= 2
  BY LenProperties DEF History
<1>2. 1 \in users
  BY <1>1 DEF History
<1>3. users \in SUBSET (1 .. Len(h))
  BY <1>1
<1>4. \E i \in users : \A j \in users : j <= i
  <2> HIDE DEF users
  <2> QED BY <1>1, <1>2, <1>3, HasGreatest
<1>5. lastOne \in users
  <2> HIDE DEF users
  <2> QED BY <1>4
<1>6. split \in users \/ (split = Len(h) + 1 /\ Last(h).kind = "reply")
  <2> HIDE DEF lastOne, users
  <2>1. split \in (users \ {1}) \cup IF Last(h).kind = "reply" THEN {Len(h) + 1} ELSE {lastOne}
    BY DEF SplitPoints, users, lastOne
  <2> QED BY <1>5, <2>1
<1>7. \A i \in users : i \in 1 .. Len(h) + 1 /\ i # Len(h) + 1 /\ h[i].kind \in {"text", "note"}
  BY <1>1
<1> HIDE DEF users
<1> QED BY <1>1, <1>6, <1>7

LEMMA Joined ==
    ASSUME NEW a, NEW b, NEW k, a \in Seq(Entry), b \in Seq(Entry), k = a \o b
    PROVE  /\ k \in Seq(Entry) /\ Len(k) = Len(a) + Len(b)
           /\ \A i \in 1 .. Len(a) + Len(b) : k[i] = IF i <= Len(a) THEN a[i] ELSE b[i - Len(a)]
BY ConcatProperties

\* The first four entries are new, the rest is what is kept.
LEMMA CompressedEntries ==
    ASSUME NEW h \in History, NEW split \in SplitPoints(h)
    PROVE  LET k == Compressed(h, split) IN
           /\ k \in History
           /\ Len(k) = 5 + Len(h) - split
           /\ \A i \in 1 .. 4 : k[i].kind \in {"note", "reply"}
           /\ k[4].kind = "reply"
           /\ \A i \in 5 .. Len(k) : k[i] = h[i - 5 + split]
<1> DEFINE n == Len(h)
           pre == NewChat \o <<User("note", None), Model("reply", None)>>
           kept == SubSeq(h, split, n)
<1>1. n \in Nat /\ split \in 1 .. n + 1 /\ \A i \in 1 .. n : h[i] \in Entry
  BY SplitIsSafe, LenProperties, ElementOfSeq DEF History
<1>2. User("note", None) \in Entry /\ Model("reply", None) \in Entry
  BY UserType, ModelType DEF RequestOrNone
<1> DEFINE summary == <<User("note", None), Model("reply", None)>>
<1>3. /\ NewChat \in Seq(Entry) /\ Len(NewChat) = 2 /\ summary \in Seq(Entry) /\ Len(summary) = 2
      /\ NewChat[1] = User("note", None) /\ NewChat[2] = Model("reply", None)
      /\ summary[1] = User("note", None) /\ summary[2] = Model("reply", None)
  BY <1>2 DEF NewChat
<1>4. /\ pre \in Seq(Entry) /\ Len(pre) = 4
      /\ pre[1].kind = "note" /\ pre[2].role = "model" /\ pre[4].kind = "reply"
      /\ \A i \in 1 .. 4 : pre[i].kind \in {"note", "reply"}
  <2> HIDE DEF summary
  <2> DEFINE q == NewChat \o summary
  <2>1. /\ q \in Seq(Entry) /\ Len(q) = 4
        /\ q[1] = NewChat[1] /\ q[2] = NewChat[2] /\ q[3] = summary[1] /\ q[4] = summary[2]
    <3>1. q = NewChat \o summary /\ NewChat \in Seq(Entry) /\ summary \in Seq(Entry)
      BY <1>3
    <3> HIDE DEF q
    <3>2. /\ q \in Seq(Entry) /\ Len(q) = Len(NewChat) + Len(summary)
          /\ \A i \in 1 .. Len(NewChat) + Len(summary) :
                q[i] = IF i <= Len(NewChat) THEN NewChat[i] ELSE summary[i - Len(NewChat)]
      BY <3>1, Joined
    <3> QED BY <1>3, <3>2
  <2>2. q = pre
    BY DEF summary
  <2> HIDE DEF q, pre
  <2> QED BY <1>3, <2>1, <2>2 DEF User, Model
<1> HIDE DEF pre, n
<1>5. /\ kept \in Seq(Entry) /\ Len(kept) = n + 1 - split
      /\ \A i \in 1 .. n + 1 - split : kept[i] = h[split + i - 1]
  <2>1. \A i \in split .. n : h[i] \in Entry
    BY <1>1
  <2>2. split \in Int /\ n \in Int
    BY <1>1
  <2>3. /\ SubSeq(h, split, n) \in Seq(Entry)
        /\ Len(SubSeq(h, split, n)) = IF split <= n THEN n - split + 1 ELSE 0
        /\ \A i \in 1 .. n - split + 1 : SubSeq(h, split, n)[i] = h[split + i - 1]
    BY <2>1, <2>2, SubSeqProperties
  <2> QED BY <1>1, <2>3
<1> HIDE DEF kept
<1> DEFINE k == pre \o kept
<1>6. /\ k \in Seq(Entry) /\ Len(k) = 4 + Len(kept)
      /\ \A i \in 1 .. 4 + Len(kept) : k[i] = IF i <= 4 THEN pre[i] ELSE kept[i - 4]
  <2>1. k = pre \o kept /\ pre \in Seq(Entry) /\ kept \in Seq(Entry)
    BY <1>4, <1>5
  <2> HIDE DEF k
  <2>2. /\ k \in Seq(Entry) /\ Len(k) = Len(pre) + Len(kept)
        /\ \A i \in 1 .. Len(pre) + Len(kept) :
              k[i] = IF i <= Len(pre) THEN pre[i] ELSE kept[i - Len(pre)]
    BY <2>1, Joined
  <2> QED BY <1>4, <2>2
<1> HIDE DEF k
<1>7. /\ Len(k) = 5 + n - split /\ Len(k) \in Nat /\ Len(k) >= 4
      /\ \A i \in 1 .. 4 : k[i] = pre[i]
      /\ \A i \in 5 .. Len(k) : k[i] = h[i - 5 + split]
  <2>1. Len(k) = 5 + n - split /\ Len(k) >= 4
    BY <1>1, <1>5, <1>6
  <2>2. \A i \in 1 .. 4 : k[i] = pre[i]
    BY <1>1, <1>5, <1>6
  <2>3. ASSUME NEW i \in 5 .. Len(k) PROVE k[i] = h[i - 5 + split]
    <3>1. i - 4 \in 1 .. n + 1 - split /\ i \in 1 .. 4 + Len(kept) /\ ~(i <= 4)
      BY <1>1, <1>5, <2>1
    <3>2. k[i] = kept[i - 4]
      BY <1>6, <3>1
    <3>3. kept[i - 4] = h[split + (i - 4) - 1]
      BY <1>5, <3>1
    <3>4. split + (i - 4) - 1 = i - 5 + split
      BY <1>1, <3>1
    <3> QED BY <3>2, <3>3, <3>4
  <2> QED BY <1>1, <2>1, <2>2, <2>3
<1>8. k \in History
  BY <1>4, <1>6, <1>7 DEF History
<1>9. k = Compressed(h, split)
  BY DEF k, pre, kept, n, Compressed
<1> QED BY <1>4, <1>7, <1>8, <1>9 DEF n

-----------------------------------------------------------------------------
(* How the calls move.                                                     *)

\* What a call keeps while it is served.
Same(c, d) ==
    /\ d.kind = c.kind /\ d.root = c.root /\ d.prompt = c.prompt
    /\ d.message = c.message /\ d.left = c.left /\ d.stale = c.stale

\* The call of r, begun as c, is in one of the phases; the others are as in calls.
Moved(calls, r, c, phases) ==
    /\ call'[r].phase \in phases /\ Same(c, call'[r])
    /\ \A q \in Request \ {r} : call'[q] = calls[q]

LEMMA Moves ==
    ASSUME NEW calls \in [Request -> Call], NEW r \in Request, NEW c \in Call, NEW phases,
           NEW phase \in phases, NEW copy,
           call' = [calls EXCEPT ![r] = [c EXCEPT !.phase = phase, !.copy = copy]]
    PROVE  Moved(calls, r, c, phases) /\ call'[r].copy = copy
<1> DEFINE d == [c EXCEPT !.phase = phase, !.copy = copy]
<1>1. d.phase = phase /\ Same(c, d) /\ d.copy = copy
  BY DEF Call, Same
<1>2. call'[r] = d /\ \A q \in Request \ {r} : call'[q] = calls[q]
  OBVIOUS
<1> HIDE DEF d
<1> QED BY <1>1, <1>2 DEF Moved

LEMMA MovesOn ==
    ASSUME NEW calls \in [Request -> Call], NEW r \in Request, NEW c \in Call, NEW phases,
           NEW phase \in phases, call' = [calls EXCEPT ![r] = [c EXCEPT !.phase = phase]]
    PROVE  Moved(calls, r, c, phases) /\ call'[r].copy = c.copy
<1> DEFINE d == [c EXCEPT !.phase = phase]
<1>1. d.phase = phase /\ Same(c, d) /\ d.copy = c.copy
  BY DEF Call, Same
<1>2. call'[r] = d /\ \A q \in Request \ {r} : call'[q] = calls[q]
  OBVIOUS
<1> HIDE DEF d
<1> QED BY <1>1, <1>2 DEF Moved

LEMMA EndsMoves ==
    ASSUME ClientTypes, NEW r \in Request, Ends(r)
    PROVE  Moved(call, r, call[r], {"over"})
<1>1. call' = [call EXCEPT ![r] = [call[r] EXCEPT !.phase = "over", !.copy = <<>>]]
  BY DEF Ends, ClientTypes
<1>2. call \in [Request -> Call] /\ call[r] \in Call
  BY DEF ClientTypes
<1> QED BY <1>1, <1>2, Moves

LEMMA ToTheModelMoves ==
    ASSUME NEW calls \in [Request -> Call], NEW r \in Request, NEW c \in Call,
           NEW h, NEW detector, ToTheModel(r, c, h, calls, detector)
    PROVE  Moved(calls, r, c, {"routing", "checking"})
<1>1. PICK phase \in {"routing", "checking"} :
          call' = [calls EXCEPT ![r] = [c EXCEPT !.phase = phase, !.copy = <<>>]]
  BY DEF ToTheModel
<1> QED BY <1>1, Moves

LEMMA SendMoves ==
    ASSUME NEW calls \in [Request -> Call], NEW r \in Request, NEW c \in Call, Send(r, c, calls)
    PROVE  Moved(calls, r, c, {"routing", "checking", "compressing", "over"})
<1> DEFINE phases == {"routing", "checking", "compressing", "over"}
<1>1. ASSUME NEW detector, ToTheModel(r, c, history, calls, detector)
      PROVE  Moved(calls, r, c, phases)
  BY <1>1, ToTheModelMoves DEF Moved
<1>2. ASSUME call' = [calls EXCEPT ![r] = [c EXCEPT !.phase = "compressing", !.copy = history]]
      PROVE  Moved(calls, r, c, phases)
  BY <1>2, Moves
<1>3. ASSUME call' = [calls EXCEPT ![r] = [c EXCEPT !.phase = "over"]]
      PROVE  Moved(calls, r, c, phases)
  BY <1>3, MovesOn
<1> HIDE DEF phases
<1>4. Moved(calls, r, c, phases)
  BY <1>1, <1>2, <1>3 DEF Send
<1> QED BY <1>4 DEF phases

-----------------------------------------------------------------------------
(* What has not begun is untouched.                                        *)

Begun == Request \ Fresh
FreshInv ==
    /\ IsFiniteSet(Begun)
    /\ \A q \in Fresh : call[q].root = None /\ At(q, "idle") /\ ~turn[q].got.asked
    /\ \A q \in Begun : call[q].root \in Begun

\* A step of a request that has begun.
LEMMA BegunMoves ==
    ASSUME FreshInv, NEW r \in Begun, NEW phases, "none" \notin phases,
           Moved(call, r, call[r], phases),
           \A q \in Fresh : turn'[q].step = turn[q].step /\ turn'[q].got = turn[q].got
    PROVE  FreshInv' /\ Fresh' = Fresh
<1>1. \A q \in Request : call'[q].root = call[q].root /\ (call'[q].phase = "none" <=> call[q].phase = "none")
  BY DEF Moved, Same, Begun, Fresh
<1>2. Fresh' = Fresh /\ Begun' = Begun /\ Fresh \subseteq Request /\ Begun \subseteq Request
  BY <1>1 DEF Fresh, Begun
<1> QED BY <1>1, <1>2 DEF FreshInv, At

\* A step that touches no call.
LEMMA BegunStays ==
    ASSUME FreshInv, call' = call,
           \A q \in Fresh : turn'[q].step = turn[q].step /\ turn'[q].got = turn[q].got
    PROVE  FreshInv' /\ Fresh' = Fresh
<1>1. Fresh' = Fresh /\ Begun' = Begun /\ Fresh \subseteq Request /\ Begun \subseteq Request
  BY DEF Fresh, Begun
<1> QED BY <1>1 DEF FreshInv, At

\* A request begins.
LEMMA BegunGrows ==
    ASSUME FreshInv, NEW n \in Fresh, call'[n].phase # "none",
           call'[n].root \in Begun \cup {n},
           \A q \in Request \ {n} : /\ call'[q].root = call[q].root
                                    /\ call'[q].phase = "none" <=> call[q].phase = "none",
           \A q \in Fresh : turn'[q].step = turn[q].step /\ turn'[q].got = turn[q].got
    PROVE  FreshInv' /\ Fresh' = Fresh \ {n}
<1>1. Fresh' = Fresh \ {n} /\ Begun' = Begun \cup {n} /\ Fresh \subseteq Request
  BY DEF Fresh, Begun
<1>2. IsFiniteSet(Begun \cup {n})
  BY FS_AddElement DEF FreshInv
<1> QED BY <1>1, <1>2 DEF FreshInv, At, Begun

-----------------------------------------------------------------------------
(* Every step keeps the types.                                             *)

Ui == [typed : BOOLEAN, responding : BOOLEAN, cancelled : BOOLEAN,
       controller : RequestOrNone, open : SUBSET Request]
SessionTypes ==
    /\ ui \in Ui
    /\ work \in Seq(Request)
    /\ batch \in [Request -> Batch]
    /\ world \in World
TInv == ChatTypes /\ ClientTypes /\ SessionTypes /\ FreshInv

\* What the chat does is seen in the request alone, which has begun.
LEMMA ChatStepFrame ==
    ASSUME ChatTypes, NEW r \in Request,
           \/ Proceed(r) \/ CallSucceeds(r) \/ CallIsRetried(r) \/ DelayEnds(r) \/ CallFails(r)
           \/ QuotaExhausted(r) \/ FallbackGranted(r) \/ FallbackDeclined(r)
           \/ StreamEnds(r) \/ SeesAbort(r) \/ StreamIsInvalid(r) \/ StreamBreaks(r)
    PROVE  turn[r].step # "idle" /\ \A q \in Request \ {r} : turn'[q] = turn[q]
<1>1. CASE Proceed(r) \/ CallSucceeds(r) \/ CallIsRetried(r) \/ DelayEnds(r)
  BY <1>1 DEF Proceed, CallSucceeds, CallIsRetried, DelayEnds, StopReading, At, ChatTypes
<1>2. CASE CallFails(r) \/ QuotaExhausted(r) \/ FallbackGranted(r) \/ FallbackDeclined(r)
  BY <1>2 DEF CallFails, QuotaExhausted, FallbackGranted, FallbackDeclined, GiveUp, At, ChatTypes
<1>3. CASE StreamEnds(r) \/ SeesAbort(r) \/ StreamIsInvalid(r) \/ StreamBreaks(r)
  BY <1>3 DEF StreamEnds, SeesAbort, StreamIsInvalid, StreamBreaks, GiveUp, StopReading, At, ChatTypes
<1> QED BY <1>1, <1>2, <1>3

LEMMA ChatKeepsTypes ==
    ASSUME TInv, NEW r \in Request, ChatStep(r) \/ StreamStops(r)
    PROVE  TInv'
<1>1. UNCHANGED <<call, captured, client, loop, ui, work, batch, world>>
  BY DEF ChatStep, StreamStops
<1>2. /\ ChatTypes' /\ turn[r].step # "idle"
      /\ \A q \in Request \ {r} : turn'[q] = turn[q]
  <2>1. CASE ChatStep(r)
    <3>1. \/ Proceed(r) \/ CallSucceeds(r) \/ CallIsRetried(r) \/ DelayEnds(r) \/ CallFails(r)
          \/ QuotaExhausted(r) \/ FallbackGranted(r) \/ FallbackDeclined(r)
      BY <2>1 DEF ChatStep
    <3> QED BY <3>1, ChatStepTypes, ChatStepFrame DEF TInv
  <2>2. CASE StreamStops(r)
    <3>1. StreamEnds(r) \/ SeesAbort(r) \/ StreamIsInvalid(r) \/ StreamBreaks(r)
      BY <2>2 DEF StreamStops
    <3> QED BY <3>1, StreamStopsTypes, ChatStepFrame DEF TInv
  <2> QED BY <2>1, <2>2
<1>3. r \notin Fresh /\ Fresh \subseteq Request
  BY <1>2 DEF TInv, FreshInv, At, Fresh
<1>4. FreshInv'
  BY <1>1, <1>2, <1>3, BegunStays DEF TInv
<1> QED BY <1>1, <1>2, <1>4 DEF TInv, ClientTypes, SessionTypes

LEMMA ReadKeepsTypes ==
    ASSUME TInv, NEW r \in Request, ReadChunk(r)
    PROVE  TInv'
<1>1. PICK c \in Chunk, verdict \in [repeats : 0 .. LoopThreshold, found : BOOLEAN] :
          Read(r, c, verdict)
  BY DEF ReadChunk
<1>2. ChatTypes' /\ ClientTypes'
  BY <1>1, ReadTypes DEF TInv
<1>3. r \in Begun /\ call[r].phase = "reading"
  BY <1>1 DEF Read, In, Begun, Fresh
<1>4. \A q \in Request \ {r} : turn'[q] = turn[q]
  BY <1>1 DEF Read, Receive, StopReading, TInv, ChatTypes
<1>5. \A q \in Fresh : q \in Request \ {r}
  BY <1>3 DEF Fresh, Begun
<1>6. Moved(call, r, call[r], {"over", "reading"})
  <2>1. CASE Ends(r)
    BY <2>1, EndsMoves DEF TInv, Moved
  <2>2. CASE call' = call
    BY <1>3, <2>2 DEF Moved, Same
  <2> QED BY <1>1, <2>1, <2>2 DEF Read
<1>7. FreshInv'
  BY <1>3, <1>4, <1>5, <1>6, BegunMoves DEF TInv
<1> QED BY <1>2, <1>7 DEF TInv, SessionTypes, ReadChunk

\* The compression gives a history, to the model or to the chat.
LEMMA CompressTypes ==
    ASSUME TInv, NEW r \in Request, Compress(r)
    PROVE  /\ ChatTypes' /\ ClientTypes'
           /\ Moved(call, r, call[r], {"routing", "checking", "over"})
           /\ \A q \in Request : turn'[q].step = turn[q].step /\ turn'[q].got = turn[q].got
                                 /\ turn'[q].aborted = turn[q].aborted
<1> DEFINE c == call[r]
<1>1. c \in Call /\ Sane(c) /\ c.phase = "compressing" /\ c.copy \in History
  BY DEF TInv, ClientTypes, Sane, Compress, In
<1>2. PICK split \in SplitPoints(c.copy) :
        IF c.kind = "prompt"
        THEN ToTheModel(r, c, Compressed(c.copy, split), call, loop) /\ captured' = {r}
        ELSE /\ history' = Compressed(c.copy, split)
             /\ Ends(r) /\ captured' = {}
             /\ UNCHANGED loop
  BY DEF Compress
<1>3. Compressed(c.copy, split) \in History
  BY <1>1, CompressedEntries
<1> HIDE DEF c
<1>4. /\ history' \in History /\ captured' \subseteq Request /\ loop' \in Loop
      /\ call' \in [Request -> Call] /\ \A q \in Request : Sane(call'[q])
      /\ Moved(call, r, call[r], {"routing", "checking", "over"})
  <2>1. CASE c.kind = "prompt"
    <3>1. ToTheModel(r, c, Compressed(c.copy, split), call, loop) /\ captured' = {r}
      BY <1>2, <2>1
    <3>2. c.left > 0
      BY <1>1 DEF Sane
    <3>3. /\ call' \in [Request -> Call] /\ \A q \in Request : Sane(call'[q])
          /\ history' \in History /\ loop' \in Loop
      BY <1>1, <1>3, <2>1, <3>1, <3>2, ToTheModelTypes DEF TInv, ClientTypes
    <3>4. Moved(call, r, c, {"routing", "checking"})
      BY <1>1, <3>1, ToTheModelMoves DEF TInv, ClientTypes
    <3> QED BY <3>1, <3>3, <3>4 DEF Moved, c
  <2>2. CASE c.kind # "prompt"
    <3>1. Ends(r) /\ history' = Compressed(c.copy, split) /\ captured' = {} /\ loop' = loop
      BY <1>2, <2>2
    <3>2. Moved(call, r, call[r], {"over"})
      BY <3>1, EndsMoves DEF TInv
    <3> QED BY <1>3, <3>1, <3>2, EndsTypes DEF TInv, ClientTypes, Moved
  <2> QED BY <2>1, <2>2
<1>5. /\ turn' = [q \in Request |-> [turn[q] EXCEPT !.detached = @ \/ ~At(q, "idle")]]
      /\ sendPromise' = None /\ quota' = quota /\ client' = [client EXCEPT !.failed = FALSE]
  BY DEF Compress
<1>6. /\ ChatTypes'
      /\ \A q \in Request : turn'[q].step = turn[q].step /\ turn'[q].got = turn[q].got
                            /\ turn'[q].aborted = turn[q].aborted
  BY <1>4, <1>5, DetachedTypes DEF TInv
<1> QED BY <1>4, <1>5, <1>6 DEF TInv, ClientTypes

\* A call that goes on in another phase.
LEMMA GoesOnTypes ==
    ASSUME ClientTypes, NEW r \in Request, NEW phase \in {"routing", "reading", "speaking", "over"},
           call' = [call EXCEPT ![r].phase = phase],
           phase # "over" => call[r].left > 0
    PROVE  /\ call' \in [Request -> Call] /\ \A q \in Request : Sane(call'[q])
           /\ Moved(call, r, call[r], {phase})
<1> DEFINE d == [call[r] EXCEPT !.phase = phase]
<1>1. call' = [call EXCEPT ![r] = d] /\ call \in [Request -> Call] /\ call[r] \in Call
  BY DEF ClientTypes
<1>2. phase \in Phase
  BY DEF Phase
<1>3. d \in Call /\ d.phase = phase /\ d.left = call[r].left /\ d.kind = call[r].kind
  BY <1>1, <1>2, PhaseTypes
<1>4. Moved(call, r, call[r], {phase})
  BY <1>1, MovesOn
<1> HIDE DEF d
<1>5. Sane(d)
  BY <1>3 DEF Sane
<1> QED BY <1>1, <1>3, <1>4, <1>5, CallTypes DEF ClientTypes

\* Inflated, CompressionThrows, NoLoopSeen, LoopSeen, TurnOver, UserSpeaks
LEMMA QuietClientTypes ==
    ASSUME TInv, NEW r \in Request,
           \/ Inflated(r) \/ CompressionThrows(r) \/ NoLoopSeen(r) \/ LoopSeen(r)
           \/ TurnOver(r) \/ UserSpeaks(r)
    PROVE  /\ ChatTypes' /\ ClientTypes'
           /\ Moved(call, r, call[r], Phase \ {"none"}) /\ turn' = turn
<1> DEFINE c == call[r]
<1>0. c \in Call /\ Sane(c) /\ r \in Request
  BY DEF TInv, ClientTypes
<1>1. ASSUME Ends(r)
      PROVE  /\ call' \in [Request -> Call] /\ \A q \in Request : Sane(call'[q])
             /\ Moved(call, r, call[r], Phase \ {"none"})
  BY <1>1, EndsTypes, EndsMoves DEF TInv, Moved, Phase
<1>2. ASSUME NEW phase \in {"routing", "speaking"}, call' = [call EXCEPT ![r].phase = phase],
             c.phase \in {"checking", "reading"}
      PROVE  /\ call' \in [Request -> Call] /\ \A q \in Request : Sane(call'[q])
             /\ Moved(call, r, call[r], Phase \ {"none"})
  <2>1. c.left > 0
    BY <1>0, <1>2 DEF Sane
  <2>2. /\ call' \in [Request -> Call] /\ \A q \in Request : Sane(call'[q])
        /\ Moved(call, r, call[r], {phase})
    BY <1>2, <2>1, GoesOnTypes DEF TInv
  <2> QED BY <2>2 DEF Moved, Phase
<1>3. ASSUME c.phase = "compressing", c.kind = "prompt",
             ToTheModel(r, c, history, call, loop)
      PROVE  /\ call' \in [Request -> Call] /\ \A q \in Request : Sane(call'[q])
             /\ Moved(call, r, call[r], Phase \ {"none"})
             /\ history' \in History /\ loop' \in Loop
  <2>1. c.left > 0
    BY <1>0, <1>3 DEF Sane
  <2> HIDE DEF c
  <2>2. /\ call' \in [Request -> Call] /\ \A q \in Request : Sane(call'[q])
        /\ history' \in History /\ loop' \in Loop
    BY <1>0, <1>3, <2>1, ToTheModelTypes DEF TInv, ClientTypes, ChatTypes
  <2>3. Moved(call, r, c, {"routing", "checking"})
    BY <1>0, <1>3, ToTheModelMoves DEF TInv, ClientTypes
  <2> QED BY <2>2, <2>3 DEF Moved, Phase, c
<1>4. ASSUME Inflated(r)
      PROVE  ChatTypes' /\ ClientTypes' /\ Moved(call, r, call[r], Phase \ {"none"}) /\ turn' = turn
  <2>1. /\ c.phase = "compressing" /\ UNCHANGED <<sendPromise, turn, quota>>
        /\ client' = [client EXCEPT !.failed = c.kind = "prompt"]
    BY <1>4 DEF Inflated, In
  <2>2. CASE c.kind = "prompt"
    <3>1. ToTheModel(r, c, history, call, loop) /\ captured' = captured \cup {r}
      BY <1>4, <2>2 DEF Inflated
    <3> QED BY <1>3, <2>1, <2>2, <3>1 DEF TInv, ChatTypes, ClientTypes, At
  <2>3. CASE c.kind # "prompt"
    <3>1. Ends(r) /\ UNCHANGED <<history, captured, loop>>
      BY <1>4, <2>3 DEF Inflated
    <3> QED BY <1>1, <2>1, <3>1 DEF TInv, ChatTypes, ClientTypes, At
  <2> QED BY <2>2, <2>3
<1>5. ASSUME CompressionThrows(r) \/ LoopSeen(r) \/ UserSpeaks(r) \/ (TurnOver(r) /\ Ends(r))
      PROVE  ChatTypes' /\ ClientTypes' /\ Moved(call, r, call[r], Phase \ {"none"}) /\ turn' = turn
  <2>1. Ends(r) /\ UNCHANGED <<chatVars, captured, client, loop>>
    BY <1>5 DEF CompressionThrows, LoopSeen, UserSpeaks, TurnOver
  <2> QED BY <1>1, <2>1 DEF TInv, ChatTypes, ClientTypes, chatVars, At
<1>6. ASSUME NoLoopSeen(r) \/ (TurnOver(r) /\ call' = [call EXCEPT ![r].phase = "speaking"])
      PROVE  ChatTypes' /\ ClientTypes' /\ Moved(call, r, call[r], Phase \ {"none"}) /\ turn' = turn
  <2>1. /\ UNCHANGED <<chatVars, captured, client, loop>> /\ c.phase \in {"checking", "reading"}
        /\ \E phase \in {"routing", "speaking"} : call' = [call EXCEPT ![r].phase = phase]
    BY <1>6 DEF NoLoopSeen, TurnOver, In
  <2> QED BY <1>2, <2>1 DEF TInv, ChatTypes, ClientTypes, chatVars, At
<1>7. TurnOver(r) => Ends(r) \/ call' = [call EXCEPT ![r].phase = "speaking"]
  BY DEF TurnOver
<1> QED BY <1>4, <1>5, <1>6, <1>7

LEMMA RouteTypes ==
    ASSUME TInv, NEW r \in Request, NEW routed \in Models, NEW aborted \in BOOLEAN,
           Route(r, routed, aborted)
    PROVE  /\ ChatTypes' /\ ClientTypes'
           /\ Moved(call, r, call[r], {"reading"})
           /\ \A q \in Request \ {r} : turn'[q] = turn[q]
<1> DEFINE model == IF client.model # "none" THEN client.model
                    ELSE IF quota.fallback THEN "flash" ELSE routed
<1>1. model \in {"pro", "flash"}
  BY ClientAssumption DEF TInv, ClientTypes
<1>2. call[r] \in Call /\ Sane(call[r]) /\ call[r].phase = "routing" /\ call[r].message \in Message
  BY DEF TInv, ClientTypes, Route, In, Call
<1>3. /\ Begin(r, call[r].message, model, r \notin captured, aborted)
      /\ client' = [client EXCEPT !.model = model]
      /\ call' = [call EXCEPT ![r].phase = "reading"] /\ UNCHANGED <<captured, loop>>
  BY DEF Route
<1> HIDE DEF model
<1>4. ChatTypes'
  BY <1>1, <1>2, <1>3, BeginTypes DEF TInv
<1>5. call[r].left > 0
  BY <1>2 DEF Sane
<1>6. /\ call' \in [Request -> Call] /\ \A q \in Request : Sane(call'[q])
      /\ Moved(call, r, call[r], {"reading"})
  BY <1>3, <1>5, GoesOnTypes DEF TInv
<1>7. \A q \in Request \ {r} : turn'[q] = turn[q]
  BY <1>3 DEF Begin, TInv, ChatTypes
<1> QED BY <1>1, <1>3, <1>4, <1>6, <1>7 DEF TInv, ClientTypes

\* The model goes on: the next request, for what is left of the turns.
LEMMA ModelSpeaksTypes ==
    ASSUME TInv, NEW r \in Request, ModelSpeaks(r)
    PROVE  /\ ChatTypes' /\ ClientTypes' /\ turn' = turn
           /\ NextRequest \in Fresh /\ NextRequest # r
           /\ call'[r].phase = "over" /\ Same(call[r], call'[r])
           /\ call'[NextRequest].phase \in {"routing", "checking", "compressing", "over"}
           /\ call'[NextRequest].kind = call[r].kind
           /\ call'[NextRequest].message = User("text", None)
           /\ call'[NextRequest].root = call[r].root
           /\ call'[NextRequest].stale = call[r].stale
           /\ \A q \in Request \ {r, NextRequest} : call'[q] = call[q]
<1> DEFINE n == NextRequest
           calls == [call EXCEPT ![r].phase = "over"]
           c == [call[r] EXCEPT !.message = User("text", None), !.left = @ - 1]
           d == [call[r] EXCEPT !.phase = "over"]
<1>1. /\ call[r] \in Call /\ Sane(call[r]) /\ call[r].phase = "speaking"
      /\ call \in [Request -> Call] /\ \A q \in Request : Sane(call[q])
  BY DEF TInv, ClientTypes, ModelSpeaks, In
<1>2. n \in Fresh /\ n \in Request /\ n # r
  BY <1>1, NextIsFresh DEF ModelSpeaks, Fresh
<1>3. Send(n, c, calls)
  BY DEF ModelSpeaks
<1>4. call[r].left \in 1 .. MaxTurns
  BY <1>1, ClientAssumption DEF Sane, Call
<1>5. call[r].left - 1 \in 0 .. MaxTurns
  BY <1>4, ClientAssumption
<1>6. /\ c \in Call /\ c.kind = call[r].kind /\ c.message = User("text", None)
      /\ c.root = call[r].root /\ c.stale = call[r].stale
  <2>1. User("text", None) \in Message
    BY UserType DEF RequestOrNone
  <2> QED BY <1>1, <1>4, <1>5, <2>1 DEF Call
<1>7. d \in Call /\ d.phase = "over" /\ Sane(d) /\ Same(call[r], d)
  BY <1>1 DEF Call, Phase, Sane, Same
<1>8. calls = [call EXCEPT ![r] = d]
  BY <1>1
<1> HIDE DEF c, d, n
<1>9. calls \in [Request -> Call] /\ \A q \in Request : Sane(calls[q])
  BY <1>1, <1>7, <1>8
<1>10. calls[r] = d /\ \A q \in Request \ {r} : calls[q] = call[q]
  BY <1>1, <1>8
<1> HIDE DEF calls
<1>11. ChatTypes' /\ ClientTypes'
  BY <1>2, <1>3, <1>6, <1>9, SendTypes DEF TInv
<1>12. Moved(calls, n, c, {"routing", "checking", "compressing", "over"})
  BY <1>2, <1>3, <1>6, <1>9, SendMoves
<1>13. turn' = turn
  BY <1>3 DEF Send
<1> QED BY <1>2, <1>6, <1>7, <1>10, <1>11, <1>12, <1>13 DEF Moved, Same, n

\* What the client does.
LEMMA ClientKeepsTypes ==
    ASSUME TInv, NEW r \in Request, ClientStep(r)
    PROVE  TInv'
<1>1. SessionTypes'
  BY DEF ClientStep, TInv, SessionTypes
<1>2. ASSUME NEW phases, "none" \notin phases, Moved(call, r, call[r], phases), r \in Begun,
             \A q \in Request \ {r} : turn'[q].step = turn[q].step /\ turn'[q].got = turn[q].got
      PROVE  FreshInv'
  <2>1. \A q \in Fresh : q \in Request \ {r}
    BY <1>2 DEF Begun, Fresh
  <2> QED BY <1>2, <2>1, BegunMoves DEF TInv
<1>3. ASSUME \/ Inflated(r) \/ CompressionThrows(r) \/ NoLoopSeen(r) \/ LoopSeen(r)
             \/ TurnOver(r) \/ UserSpeaks(r)
      PROVE  TInv'
  <2>1. r \in Begun
    BY <1>3 DEF Inflated, CompressionThrows, NoLoopSeen, LoopSeen, TurnOver, UserSpeaks, In,
                Begun, Fresh
  <2>2. /\ ChatTypes' /\ ClientTypes'
        /\ Moved(call, r, call[r], Phase \ {"none"}) /\ turn' = turn
    BY <1>3, QuietClientTypes
  <2> QED BY <1>1, <1>2, <2>1, <2>2 DEF TInv
<1>4. ASSUME Compress(r) PROVE TInv'
  <2>1. r \in Begun
    BY <1>4 DEF Compress, In, Begun, Fresh
  <2> QED BY <1>1, <1>2, <1>4, <2>1, CompressTypes DEF TInv
<1>5. ASSUME NEW model \in Models, Route(r, model, Aborted(call[r].root)) PROVE TInv'
  <2>1. r \in Begun /\ Aborted(call[r].root) \in BOOLEAN
    BY <1>5 DEF Route, In, Begun, Fresh, Aborted
  <2> QED BY <1>1, <1>2, <1>5, <2>1, RouteTypes DEF TInv
<1>6. ASSUME ModelSpeaks(r) PROVE TInv'
  <2> DEFINE n == NextRequest
  <2>1. r \in Begun /\ call[r].phase # "none" /\ call[r].root \in Begun
    BY <1>6 DEF ModelSpeaks, In, Begun, Fresh, TInv, FreshInv
  <2>2. /\ ChatTypes' /\ ClientTypes' /\ turn' = turn
        /\ n \in Fresh /\ n # r
        /\ call'[r].phase = "over" /\ Same(call[r], call'[r])
        /\ call'[n].phase \in {"routing", "checking", "compressing", "over"}
        /\ call'[n].root = call[r].root
        /\ \A q \in Request \ {r, n} : call'[q] = call[q]
    BY <1>6, ModelSpeaksTypes
  <2> HIDE DEF n
  <2>3. call'[n].phase # "none" /\ call'[n].root \in Begun \cup {n}
    BY <2>1, <2>2
  <2>4. \A q \in Request \ {n} : /\ call'[q].root = call[q].root
                                 /\ call'[q].phase = "none" <=> call[q].phase = "none"
    BY <2>1, <2>2 DEF Same
  <2>5. FreshInv'
    BY <2>2, <2>3, <2>4, BegunGrows DEF TInv
  <2> QED BY <1>1, <2>2, <2>5 DEF TInv
<1> QED BY <1>3, <1>4, <1>5, <1>6 DEF ClientStep

-----------------------------------------------------------------------------
(* What the user and the hooks do.                                         *)

LEMMA AddHistoryTypes ==
    ASSUME ChatTypes, NEW e \in Entry, AddHistory(e)
    PROVE  ChatTypes'
BY AppendIsHistory DEF AddHistory, ChatTypes, At

\* A call that begins, from one that exists.
LEMMA SubmitTypes ==
    ASSUME TInv, NEW kind \in Kind, Submit(kind)
    PROVE  TInv'
<1> DEFINE r == NextRequest
           prompt == CHOOSE p \in UnusedPrompts : TRUE
           c == [NoCall EXCEPT !.phase = "preparing", !.kind = kind, !.root = r,
                               !.prompt = prompt, !.message = User("text", None),
                               !.left = MaxTurns, !.stale = quota.switched]
<1>1. r \in Fresh /\ r \in Request
  BY NextIsFresh DEF Submit, Fresh
<1>2. prompt \in Prompt
  BY DEF Submit, UnusedPrompts
<1>3. /\ call' = [call EXCEPT ![r] = c]
      /\ ui' = [ui EXCEPT !.typed = FALSE, !.cancelled = FALSE, !.controller = r]
      /\ quota' = [quota EXCEPT !.switched = FALSE, !.occurred = FALSE]
      /\ UNCHANGED <<history, sendPromise, turn, captured, client, loop, work, batch, world>>
  BY DEF Submit
<1> HIDE DEF r, prompt
<1>4. c \in Call /\ c.phase = "preparing" /\ c.root = r /\ c.left = MaxTurns
  <2>1. User("text", None) \in Message /\ quota.switched \in BOOLEAN /\ MaxTurns \in 0 .. MaxTurns
    <3>1. User("text", None) \in Message
      BY UserType DEF RequestOrNone
    <3>2. quota.switched \in BOOLEAN
      BY DEF TInv, ChatTypes
    <3>3. MaxTurns \in 0 .. MaxTurns
      BY ClientAssumption
    <3> QED BY <3>1, <3>2, <3>3
  <2>2. "preparing" \in Phase
    BY DEF Phase
  <2> QED BY <1>1, <1>2, <2>1, <2>2, NoCallType DEF Call
<1> HIDE DEF c
<1>5. call' \in [Request -> Call] /\ \A q \in Request : Sane(call'[q])
  BY <1>1, <1>3, <1>4, CallTypes, ClientAssumption DEF TInv, ClientTypes, Sane
<1>6. ChatTypes'
  BY <1>3 DEF TInv, ChatTypes, At
<1>7. ui' \in Ui
  BY <1>1, <1>3 DEF TInv, SessionTypes, Ui, RequestOrNone
<1>8. FreshInv'
  BY <1>1, <1>3, <1>4, BegunGrows DEF TInv, ClientTypes
<1> QED BY <1>3, <1>5, <1>6, <1>7, <1>8 DEF TInv, ClientTypes, SessionTypes

LEMMA SendPromptTypes ==
    ASSUME TInv, NEW r \in Request, SendPrompt(r)
    PROVE  TInv'
<1>1. /\ call[r] \in Call /\ call[r].phase = "preparing" /\ call[r].kind = "prompt"
      /\ call \in [Request -> Call] /\ \A q \in Request : Sane(call[q])
      /\ r \in Begun
  BY DEF SendPrompt, In, TInv, ClientTypes, Begun, Fresh
<1>2. Send(r, call[r], call) /\ ui' = Responds(r) /\ UNCHANGED <<work, batch, world>>
  BY DEF SendPrompt
<1>3. ChatTypes' /\ ClientTypes'
  BY <1>1, <1>2, SendTypes DEF TInv
<1>4. Moved(call, r, call[r], {"routing", "checking", "compressing", "over"})
  BY <1>1, <1>2, SendMoves
<1>5. turn' = turn
  BY <1>2 DEF Send
<1>6. FreshInv'
  BY <1>1, <1>4, <1>5, BegunMoves DEF TInv
<1>7. ui' \in Ui
  BY <1>2 DEF TInv, SessionTypes, Ui, Responds
<1> QED BY <1>2, <1>3, <1>6, <1>7 DEF TInv, SessionTypes

LEMMA CommandTypes ==
    ASSUME TInv, NEW r \in Request, RunCommand(r)
    PROVE  TInv'
<1>1. r \in Begun /\ call[r] \in Call /\ call[r].phase = "preparing" /\ call \in [Request -> Call]
  BY DEF RunCommand, In, TInv, ClientTypes, Begun, Fresh
<1>2. UNCHANGED <<ui, work, batch, world>>
  BY DEF RunCommand
<1>3. CASE /\ call[r].kind = "compress"
           /\ call' = [call EXCEPT ![r].phase = "compressing", ![r].copy = history]
           /\ UNCHANGED <<chatVars, captured, client, loop>>
  <2> DEFINE c == [call[r] EXCEPT !.phase = "compressing", !.copy = history]
  <2>1. call' = [call EXCEPT ![r] = c]
    BY <1>1, <1>3
  <2>2. Moved(call, r, call[r], {"compressing"})
    BY <1>1, <2>1, Moves
  <2>3. "compressing" \in Phase /\ history \in Seq(Entry) /\ history \in History
    BY DEF Phase, TInv, ChatTypes, History
  <2>4. c \in Call /\ c.copy = history /\ c.phase = "compressing" /\ c.left = call[r].left
    BY <1>1, <2>3 DEF Call
  <2> HIDE DEF c
  <2>5. Sane(c)
    <3>1. call[r].left > 0
      BY <1>1 DEF Sane, TInv, ClientTypes
    <3> QED BY <2>3, <2>4, <3>1 DEF Sane
  <2>6. call' \in [Request -> Call] /\ \A q \in Request : Sane(call'[q])
    BY <2>1, <2>4, <2>5, CallTypes DEF TInv, ClientTypes
  <2>7. FreshInv'
    BY <1>1, <1>3, <2>2, BegunMoves DEF TInv, chatVars
  <2> QED BY <1>2, <1>3, <2>6, <2>7 DEF TInv, ClientTypes, ChatTypes, SessionTypes, chatVars, At
<1>4. CASE call[r].kind = "clear" /\ ResetChat /\ Ends(r)
  <2>1. /\ history' = NewChat /\ sendPromise' = None /\ captured' = {}
        /\ turn' = [q \in Request |-> [turn[q] EXCEPT !.detached = @ \/ ~At(q, "idle")]]
        /\ client' = [client EXCEPT !.failed = FALSE] /\ UNCHANGED <<quota, loop>>
    BY <1>4 DEF ResetChat
  <2>2. /\ ChatTypes'
        /\ \A q \in Request : turn'[q].step = turn[q].step /\ turn'[q].got = turn[q].got
    BY <2>1, NewChatIsHistory, DetachedTypes DEF TInv
  <2>3. call' \in [Request -> Call] /\ \A q \in Request : Sane(call'[q])
    BY <1>4, EndsTypes DEF TInv
  <2>4. Moved(call, r, call[r], {"over"})
    BY <1>4, EndsMoves DEF TInv
  <2>5. FreshInv'
    BY <1>1, <2>2, <2>4, BegunMoves DEF TInv, Fresh
  <2> QED BY <1>2, <2>1, <2>2, <2>3, <2>5 DEF TInv, ClientTypes, SessionTypes
<1> QED BY <1>3, <1>4 DEF RunCommand

LEMMA ShellTypes ==
    ASSUME TInv, NEW r \in Request, RunShell(r) \/ ShellOver(r)
    PROVE  TInv'
<1>1. r \in Begun /\ call[r] \in Call /\ call \in [Request -> Call]
  BY DEF RunShell, ShellOver, In, TInv, ClientTypes, Begun, Fresh
<1>2. CASE RunShell(r)
  <2> DEFINE c == [call[r] EXCEPT !.phase = "shell"]
  <2>1. call' = [call EXCEPT ![r] = c] /\ call[r].kind = "shell"
    BY <1>1, <1>2 DEF RunShell
  <2>2. Moved(call, r, call[r], {"shell"})
    BY <1>1, <2>1, MovesOn
  <2>3. c \in Call /\ c.phase = "shell"
    BY <1>1, PhaseTypes DEF Phase
  <2> HIDE DEF c
  <2>4. call' \in [Request -> Call] /\ \A q \in Request : Sane(call'[q])
    BY <2>1, <2>3, CallTypes DEF TInv, ClientTypes, Sane
  <2>5. FreshInv'
    BY <1>1, <1>2, <2>2, BegunMoves DEF TInv, RunShell, chatVars
  <2>6. ui' \in Ui
    BY <1>2 DEF RunShell, TInv, SessionTypes, Ui
  <2> QED BY <1>2, <2>4, <2>5, <2>6
          DEF RunShell, TInv, ClientTypes, ChatTypes, SessionTypes, chatVars, At
<1>3. CASE ShellOver(r)
  <2>1. /\ Ends(r) /\ AddHistory(User("note", None))
        /\ ui' = [ui EXCEPT !.responding = FALSE]
        /\ UNCHANGED <<captured, client, loop, work, batch, world>>
    BY <1>3 DEF ShellOver
  <2>2. User("note", None) \in Entry
    BY UserType DEF RequestOrNone
  <2>3. ChatTypes' /\ turn' = turn
    BY <2>1, <2>2, AddHistoryTypes DEF TInv, AddHistory
  <2>4. call' \in [Request -> Call] /\ \A q \in Request : Sane(call'[q])
    BY <2>1, EndsTypes DEF TInv
  <2>5. FreshInv'
    BY <1>1, <2>1, <2>3, EndsMoves, BegunMoves DEF TInv
  <2>6. ui' \in Ui
    BY <2>1 DEF TInv, SessionTypes, Ui
  <2> QED BY <2>1, <2>3, <2>4, <2>5, <2>6 DEF TInv, ClientTypes, SessionTypes
<1> QED BY <1>2, <1>3

\* A set of requests as a sequence, each of them once.
LEMMA SequenceOfSet ==
    ASSUME NEW S \in SUBSET Request, IsFiniteSet(S)
    PROVE  /\ SetToSeq(S) \in Seq(Request)
           /\ SetToSeq(S) \in [1 .. Cardinality(S) -> S]
<1>1. Cardinality(S) \in Nat /\ ExistsBijection(1 .. Cardinality(S), S)
  BY FS_CardinalityType
<1>2. \E f \in [1 .. Cardinality(S) -> S] : IsInjective(f)
  BY <1>1 DEF ExistsBijection, Bijection, Injection
<1>3. SetToSeq(S) \in [1 .. Cardinality(S) -> S]
  BY <1>2 DEF SetToSeq
<1>4. \A f \in [1 .. Cardinality(S) -> S] : f \in Seq(Request)
  <2> TAKE f \in [1 .. Cardinality(S) -> S]
  <2>1. f \in [1 .. Cardinality(S) -> Request]
    OBVIOUS
  <2> QED BY <1>1, <2>1
<1> QED BY <1>3, <1>4

LEMMA ReplyOverTypes ==
    ASSUME TInv, NEW r \in Request, ReplyOver(r)
    PROVE  TInv'
<1> DEFINE asking == {q \in Of(r) : turn[q].got.asked}
<1>1. /\ work' = work \o SetToSeq(asking)
      /\ batch' = [q \in Request |-> IF q \notin asking THEN batch[q]
                        ELSE IF Aborted(r) THEN "doomed" ELSE "scheduled"]
      /\ ui' = [ui EXCEPT !.responding = FALSE, !.open = @ \ {r}]
      /\ UNCHANGED clientVars
  BY DEF ReplyOver
<1>2. asking \subseteq Begun /\ asking \in SUBSET Request
  BY DEF Of, TInv, FreshInv, Begun
<1>3. IsFiniteSet(asking)
  BY <1>2, FS_Subset DEF TInv, FreshInv
<1> HIDE DEF asking
<1>4. SetToSeq(asking) \in Seq(Request)
  BY <1>2, <1>3, SequenceOfSet
<1>5. work' \in Seq(Request)
  BY <1>1, <1>4, ConcatProperties DEF TInv, SessionTypes
<1>6. batch' \in [Request -> Batch]
  BY <1>1 DEF TInv, SessionTypes, Batch
<1>7. ui' \in Ui
  BY <1>1 DEF TInv, SessionTypes, Ui
<1>8. FreshInv'
  BY <1>1, BegunStays DEF TInv, clientVars, chatVars
<1>9. ChatTypes' /\ ClientTypes'
  BY <1>1 DEF TInv, ChatTypes, ClientTypes, clientVars, chatVars, At
<1>10. world' = world
  BY <1>1 DEF clientVars
<1> QED BY <1>5, <1>6, <1>7, <1>8, <1>9, <1>10 DEF TInv, SessionTypes

LEMMA ToolTypes ==
    ASSUME TInv, ToolStep
    PROVE  TInv'
<1> DEFINE q == Head(work)
<1>1. work # <<>>
  BY DEF ToolStep, ToolsCancelled, ToolsWithheld, ToolsContinue
<1>2. q \in Request /\ work' \in Seq(Request) /\ work' = Tail(work)
  BY <1>1, HeadTailProperties DEF ToolStep, ToolsCancelled, ToolsWithheld, ToolsContinue, TInv, SessionTypes
<1>3. CASE ToolsCancelled
  <2>1. AddHistory(User("responses", q)) /\ batch' = [batch EXCEPT ![q] = "added"]
        /\ UNCHANGED <<call, captured, client, loop, ui, world>>
    BY <1>3 DEF ToolsCancelled
  <2>2. User("responses", q) \in Entry
    BY <1>2, UserType DEF RequestOrNone
  <2>3. ChatTypes' /\ turn' = turn
    BY <2>1, <2>2, AddHistoryTypes DEF TInv, AddHistory
  <2>4. FreshInv'
    BY <2>1, <2>3, BegunStays DEF TInv
  <2> QED BY <1>2, <2>1, <2>3, <2>4 DEF TInv, ClientTypes, SessionTypes, Batch
<1>4. CASE ToolsWithheld
  <2>1. batch' = [batch EXCEPT ![q] = "withheld"] /\ UNCHANGED <<clientVars, ui>>
    BY <1>4 DEF ToolsWithheld
  <2>2. FreshInv'
    BY <2>1, BegunStays DEF TInv, clientVars, chatVars
  <2> QED BY <1>2, <2>1, <2>2
          DEF TInv, ChatTypes, ClientTypes, SessionTypes, Batch, clientVars, chatVars, At
<1>5. CASE ToolsContinue
  <2> DEFINE n == NextRequest
             c == [call[q] EXCEPT !.root = n, !.left = MaxTurns, !.message = User("responses", q)]
  <2>1. /\ Send(n, c, call) /\ ui' = [Responds(n) EXCEPT !.controller = n, !.cancelled = FALSE]
        /\ batch' = [batch EXCEPT ![q] = "sent"] /\ world' = world /\ Fresh # {}
    BY <1>5 DEF ToolsContinue
  <2>2. n \in Fresh /\ n \in Request
    BY <2>1, NextIsFresh DEF Fresh
  <2>3. User("responses", q) \in Message
    BY <1>2, UserType DEF RequestOrNone
  <2>10. MaxTurns \in 0 .. MaxTurns
    BY ClientAssumption
  <2> HIDE DEF n, q
  <2>4. call \in [Request -> Call] /\ call[q] \in Call /\ \A x \in Request : Sane(call[x])
    BY <1>2 DEF TInv, ClientTypes
  <2>5. c \in Call /\ c.root = n
    BY <2>2, <2>3, <2>4, <2>10 DEF Call
  <2> HIDE DEF c
  <2>6. Moved(call, n, c, {"routing", "checking", "compressing", "over"})
    BY <2>1, <2>2, <2>4, <2>5, SendMoves
  <2>7. turn' = turn
    BY <2>1 DEF Send
  <2>8. FreshInv'
    BY <2>2, <2>5, <2>6, <2>7, BegunGrows DEF TInv, Moved, Same
  <2>9. ui' \in Ui
    BY <2>1, <2>2 DEF TInv, SessionTypes, Ui, Responds, RequestOrNone
  <2>11. ChatTypes' /\ ClientTypes'
    BY <2>1, <2>2, <2>4, <2>5, SendTypes DEF TInv
  <2>12. batch' \in [Request -> Batch]
    BY <2>1 DEF TInv, SessionTypes, Batch
  <2> QED BY <1>2, <2>1, <2>8, <2>9, <2>11, <2>12 DEF TInv, SessionTypes
<1> QED BY <1>3, <1>4, <1>5 DEF ToolStep

LEMMA UserTypes ==
    ASSUME TInv, Type \/ Escape \/ DisableLoopDetection
    PROVE  TInv'
<1>1. CASE Type
  <2>1. ui' \in Ui /\ UNCHANGED <<clientVars, work, batch>>
    BY <1>1 DEF Type, TInv, SessionTypes, Ui
  <2>2. FreshInv'
    BY <2>1, BegunStays DEF TInv, clientVars, chatVars
  <2> QED BY <2>1, <2>2 DEF TInv, ChatTypes, ClientTypes, SessionTypes, clientVars, chatVars, At
<1>2. CASE Escape
  <2> DEFINE hit(q) == call[q].root = ui.controller
  <2>1. /\ turn' = [q \in Request |-> IF hit(q) THEN [turn[q] EXCEPT !.aborted = TRUE] ELSE turn[q]]
        /\ UNCHANGED <<history, sendPromise, quota, call, captured, client, loop, work, batch, world>>
    BY <1>2 DEF Escape
  <2>2. ui' \in Ui
    <3> DEFINE typed == ui.typed /\ (work # <<>> \/ \E r \in Request : In(r, "shell"))
    <3>1. ui' = [ui EXCEPT !.cancelled = TRUE, !.responding = FALSE, !.typed = typed]
      BY <1>2 DEF Escape
    <3>2. typed \in BOOLEAN
      BY DEF TInv, SessionTypes, Ui
    <3> HIDE DEF typed
    <3> QED BY <3>1, <3>2 DEF TInv, SessionTypes, Ui
  <2>3. ASSUME NEW q \in Request
        PROVE  /\ turn'[q] \in Turn /\ turn'[q].step = turn[q].step
               /\ turn'[q].got = turn[q].got /\ turn'[q].attempt = turn[q].attempt
    <3>1. turn[q] \in Turn
      BY DEF TInv, ChatTypes
    <3>2. /\ [turn[q] EXCEPT !.aborted = TRUE] \in Turn
          /\ [turn[q] EXCEPT !.aborted = TRUE].step = turn[q].step
          /\ [turn[q] EXCEPT !.aborted = TRUE].got = turn[q].got
          /\ [turn[q] EXCEPT !.aborted = TRUE].attempt = turn[q].attempt
      BY <3>1 DEF Turn
    <3> HIDE DEF hit
    <3> QED BY <2>1, <3>1, <3>2
  <2>4. turn' \in [Request -> Turn]
    BY <2>1, <2>3
  <2>5. ChatTypes'
    BY <2>1, <2>3, <2>4 DEF TInv, ChatTypes, At
  <2>6. FreshInv'
    BY <2>1, <2>3, BegunStays DEF TInv, Fresh
  <2> QED BY <2>1, <2>2, <2>5, <2>6 DEF TInv, ClientTypes, SessionTypes
<1>3. CASE DisableLoopDetection
  <2>1. loop' \in Loop /\ UNCHANGED <<chatVars, call, captured, client, ui, work, batch, world>>
    BY <1>3 DEF DisableLoopDetection, TInv, ClientTypes, Loop
  <2>2. FreshInv'
    BY <2>1, BegunStays DEF TInv, chatVars
  <2> QED BY <2>1, <2>2 DEF TInv, ChatTypes, ClientTypes, SessionTypes, chatVars, At
<1> QED BY <1>1, <1>2, <1>3

-----------------------------------------------------------------------------
(* Type correctness.                                                       *)

LEMMA TInvInit == Init => TInv
<1> SUFFICES ASSUME Init PROVE TInv
  OBVIOUS
<1> USE DEF Init, ClientInit, ChatInit
<1>1. ChatTypes
  <2>1. turn \in [Request -> Turn] /\ \A r \in Request : ~At(r, "delay")
    BY NoTurnType DEF At, NoTurn
  <2> QED BY <2>1, NewChatIsHistory DEF ChatTypes, RequestOrNone
<1>2. ClientTypes
  <2>1. call \in [Request -> Call] /\ \A r \in Request : Sane(call[r])
    BY NoCallType DEF Sane, NoCall
  <2> QED BY <2>1 DEF ClientTypes, Loop, NoLoop
<1>3. SessionTypes
  BY DEF SessionTypes, Ui, RequestOrNone, Batch
<1>4. FreshInv
  <2>1. Begun = {} /\ Fresh = Request
    BY DEF Begun, Fresh, NoCall
  <2> QED BY <2>1, FS_EmptySet DEF FreshInv, At, NoTurn, NoCall, Nothing
<1> QED BY <1>1, <1>2, <1>3, <1>4 DEF TInv

LEMMA TInvNext == TInv /\ [Next]_vars => TInv'
<1> SUFFICES ASSUME TInv, [Next]_vars PROVE TInv'
  OBVIOUS
<1>1. CASE UNCHANGED vars
  <2>1. FreshInv'
    BY <1>1, BegunStays DEF TInv, vars, clientVars, chatVars
  <2> QED BY <1>1, <2>1
          DEF TInv, ChatTypes, ClientTypes, SessionTypes, vars, clientVars, chatVars, At
<1>2. CASE Type \/ Escape \/ DisableLoopDetection
  BY <1>2, UserTypes
<1>3. CASE SubmitStep
  BY <1>3, SubmitTypes DEF SubmitStep
<1>4. CASE ToolStep
  BY <1>4, ToolTypes
<1>5. CASE \E r \in Request : RequestStep(r) \/ ReadChunk(r) \/ StreamStops(r)
  <2>1. PICK r \in Request : RequestStep(r) \/ ReadChunk(r) \/ StreamStops(r)
    BY <1>5
  <2>2. CASE RequestStep(r)
    BY <2>2, SendPromptTypes, CommandTypes, ShellTypes, ReplyOverTypes, ClientKeepsTypes,
       ChatKeepsTypes DEF RequestStep
  <2>3. CASE ReadChunk(r) \/ StreamStops(r)
    BY <2>3, ReadKeepsTypes, ChatKeepsTypes
  <2> QED BY <2>1, <2>2, <2>3
<1> QED BY <1>1, <1>2, <1>3, <1>4, <1>5 DEF Next

\* The session's variables have the values the code gives them: a history is made
\* of contents, an attempt and its tries stay within their limits, and what is
\* scheduled is requests (GeminiChat, GeminiClient, useGeminiStream).
THEOREM SessionTypeCorrect == Spec => []TypeOK
<1>1. TInv => TypeOK
  BY DEF TInv, ChatTypes, ClientTypes, SessionTypes, TypeOK, History, Loop, Ui, RequestOrNone
<1> QED BY <1>1, TInvInit, TInvNext, PTL DEF Spec

-----------------------------------------------------------------------------
(* Histories whose calls are answered.                                     *)

Closed(h) == Last(h).kind # "calls"

\* Every call but the last entry is answered, and every response follows its call.
Whole(h) ==
    \A i \in 1 .. Len(h) :
        /\ h[i].kind = "calls" /\ i < Len(h) => Answered(h, i)
        /\ h[i].kind = "responses" => Called(h, i)

\* A content that may come next.
Fits(h, m) ==
    IF m.kind = "responses" THEN Last(h).kind = "calls" /\ Last(h).of = m.of ELSE Closed(h)

LEMMA WholeIsPaired ==
    ASSUME NEW h \in History, Whole(h), Closed(h)
    PROVE  Paired(h)
<1>1. DOMAIN h = 1 .. Len(h) /\ Len(h) \in Nat /\ Last(h) = h[Len(h)]
  BY LenProperties DEF History, Last
<1>2. ASSUME NEW i \in 1 .. Len(h), h[i].kind = "calls" PROVE i < Len(h)
  BY <1>1, <1>2 DEF Closed
<1> QED BY <1>1, <1>2 DEF Whole, Paired

LEMMA WholeAppend ==
    ASSUME NEW h \in History, Whole(h), NEW e \in Entry, Fits(h, e)
    PROVE  Whole(Append(h, e)) /\ Last(Append(h, e)) = e
<1> DEFINE g == Append(h, e)
           n == Len(h)
<1>1. /\ g \in Seq(Entry) /\ Len(g) = n + 1 /\ n \in Nat /\ n >= 2
      /\ g[n + 1] = e /\ \A i \in 1 .. n : g[i] = h[i]
  BY AppendProperties, LenProperties DEF History
<1>2. Last(h) = h[n]
  BY DEF Last
<1> HIDE DEF g, n
<1>3. Last(g) = e
  BY <1>1 DEF Last
<1>4. ASSUME NEW i \in 1 .. n + 1, g[i].kind = "calls", i < n + 1
      PROVE  Answered(g, i)
  <2>1. i \in 1 .. n /\ h[i].kind = "calls"
    BY <1>1, <1>4
  <2>2. CASE i = n
    <3>1. e.kind = "responses" /\ e.of = h[i].of
      BY <1>2, <2>1, <2>2 DEF Fits, Closed
    <3> QED BY <1>1, <2>1, <2>2, <3>1 DEF Answered
  <2>3. CASE i # n
    <3>1. i < n /\ i + 1 \in 1 .. n
      BY <1>1, <2>1, <2>3
    <3>2. h[i + 1].kind = "responses" /\ h[i + 1].of = h[i].of
      BY <2>1, <3>1 DEF Whole, Answered, n
    <3> QED BY <1>1, <2>1, <3>1, <3>2 DEF Answered
  <2> QED BY <2>2, <2>3
<1>5. ASSUME NEW i \in 1 .. n + 1, g[i].kind = "responses"
      PROVE  Called(g, i)
  <2>1. CASE i = n + 1
    <3>1. h[n].kind = "calls" /\ h[n].of = e.of
      BY <1>1, <1>2, <1>5, <2>1 DEF Fits
    <3>2. i > 1 /\ i - 1 = n /\ n \in 1 .. n
      BY <1>1, <2>1
    <3> QED BY <1>1, <2>1, <3>1, <3>2 DEF Called
  <2>2. CASE i # n + 1
    <3>1. i \in 1 .. n
      BY <1>1, <2>2
    <3>2. i > 1 /\ h[i - 1].kind = "calls" /\ h[i - 1].of = h[i].of
      BY <1>1, <1>5, <3>1 DEF Whole, Called, n
    <3>3. i - 1 \in 1 .. n
      BY <1>1, <3>1, <3>2
    <3> QED BY <1>1, <3>1, <3>2, <3>3 DEF Called
  <2> QED BY <2>1, <2>2
<1>6. Whole(g)
  BY <1>1, <1>4, <1>5 DEF Whole
<1> QED BY <1>3, <1>6 DEF g

LEMMA NoteIsEntry == User("note", None) \in Entry /\ User("note", None).kind = "note"
BY UserType DEF RequestOrNone, User

\* The note of the IDE goes nowhere between a call and its responses.
LEMMA WholeWithIde ==
    ASSUME NEW h \in History, Whole(h), NEW g \in WithIdeContext(h)
    PROVE  Whole(g) /\ \A m : Fits(h, m) => Fits(g, m)
<1>1. CASE g = h
  BY <1>1
<1>2. CASE g = Append(h, User("note", None)) /\ Closed(h)
  <2>1. Fits(h, User("note", None))
    BY <1>2, NoteIsEntry DEF Fits
  <2>2. Whole(g) /\ Last(g) = User("note", None)
    BY <1>2, <2>1, NoteIsEntry, WholeAppend
  <2> QED BY <1>2, <2>2, NoteIsEntry DEF Fits, Closed
<1> QED BY <1>1, <1>2 DEF WithIdeContext, Closed

\* What is kept begins with no response, and ends as the history does.
LEMMA WholeCompressed ==
    ASSUME NEW h \in History, Whole(h), NEW split \in SplitPoints(h)
    PROVE  /\ Whole(Compressed(h, split))
           /\ \A m : Fits(h, m) => Fits(Compressed(h, split), m)
<1> DEFINE k == Compressed(h, split)
           n == Len(h)
<1>1. /\ n \in Nat /\ split \in 1 .. n + 1 /\ Last(h) = h[n]
      /\ split <= n => h[split].kind \in {"text", "note"}
      /\ split = n + 1 => Last(h).kind = "reply"
  BY SplitIsSafe, LenProperties DEF History, Last
<1>2. /\ Len(k) = 5 + n - split /\ k[4].kind = "reply" /\ Last(k) = k[Len(k)]
      /\ \A i \in 1 .. 4 : k[i].kind \in {"note", "reply"}
      /\ \A i \in 5 .. Len(k) : k[i] = h[i - 5 + split]
  BY CompressedEntries DEF Last
<1> HIDE DEF k, n
<1>3. Len(k) \in Nat /\ Len(k) >= 4
  BY <1>1, <1>2
<1>4. ASSUME NEW i \in 1 .. Len(k), k[i].kind \in {"calls", "responses"}
      PROVE  i \in 5 .. Len(k) /\ i - 5 + split \in 1 .. n /\ k[i] = h[i - 5 + split]
  <2>1. i \notin 1 .. 4
    BY <1>2, <1>4
  <2>2. i \in 5 .. Len(k)
    BY <1>3, <2>1
  <2>3. i - 5 + split \in 1 .. n
    BY <1>1, <1>2, <2>2
  <2> QED BY <1>2, <2>2, <2>3
<1>5. ASSUME NEW i \in 1 .. Len(k), k[i].kind = "calls", i < Len(k)
      PROVE  Answered(k, i)
  <2> DEFINE j == i - 5 + split
  <2>1. i \in 5 .. Len(k) /\ j \in 1 .. n /\ k[i] = h[j]
    BY <1>4, <1>5
  <2>2. j < n /\ i + 1 \in 5 .. Len(k) /\ (i + 1) - 5 + split = j + 1
    BY <1>1, <1>2, <1>5, <2>1
  <2> HIDE DEF j
  <2>3. h[j + 1].kind = "responses" /\ h[j + 1].of = h[j].of
    BY <1>5, <2>1, <2>2 DEF Whole, Answered, n
  <2>4. k[i + 1] = h[j + 1]
    BY <1>2, <2>2
  <2> QED BY <1>5, <2>1, <2>3, <2>4 DEF Answered
<1>6. ASSUME NEW i \in 1 .. Len(k), k[i].kind = "responses"
      PROVE  Called(k, i)
  <2> DEFINE j == i - 5 + split
  <2>1. i \in 5 .. Len(k) /\ j \in 1 .. n /\ k[i] = h[j]
    BY <1>4, <1>6
  <2>2. j # split
    <3> HIDE DEF j
    <3> QED BY <1>1, <1>6, <2>1
  <2>3. i - 1 \in 5 .. Len(k) /\ (i - 1) - 5 + split = j - 1 /\ i > 1
    BY <1>1, <1>3, <2>1, <2>2
  <2> HIDE DEF j
  <2>4. h[j - 1].kind = "calls" /\ h[j - 1].of = h[j].of
    BY <1>6, <2>1 DEF Whole, Called, n
  <2>5. k[i - 1] = h[j - 1]
    BY <1>2, <2>3
  <2> QED BY <2>1, <2>3, <2>4, <2>5 DEF Called
<1>7. Whole(k)
  BY <1>5, <1>6 DEF Whole
<1>8. ASSUME NEW m, Fits(h, m) PROVE Fits(k, m)
  <2>1. CASE split = n + 1
    <3>1. Len(k) = 4
      BY <1>1, <1>2, <2>1
    <3>2. Last(k).kind = "reply" /\ Last(h).kind = "reply"
      BY <1>1, <1>2, <2>1, <3>1
    <3> QED BY <1>8, <3>2 DEF Fits, Closed
  <2>2. CASE split # n + 1
    <3>1. Len(k) \in 5 .. Len(k) /\ Len(k) - 5 + split = n
      BY <1>1, <1>2, <2>2
    <3>2. Last(k) = Last(h)
      BY <1>1, <1>2, <3>1
    <3> QED BY <1>8, <3>2 DEF Fits, Closed
  <2> QED BY <2>1, <2>2
<1> QED BY <1>7, <1>8 DEF k

-----------------------------------------------------------------------------
(* The calm session: one thing at a time.                                  *)

Rests(q) == call[q].phase \in {"none", "over"}
OnlyOne(r) == \A q \in Request \ {r} : Rests(q)
AtWork(q) == turn[q].step \in {"waiting", "calling", "asking", "streaming", "delay"}

\* Of the submission root: none asked for a call, only r did, none was aborted.
Quiet(root) == \A q \in Request : call[q].root = root => ~turn[q].got.asked
OnlyAsks(root, r) == \A q \in Request : call[q].root = root /\ turn[q].got.asked => q = r
Unaborted(root) == \A q \in Request : call[q].root = root => ~turn[q].aborted

Calls(h, r) == Last(h).kind = "calls" /\ Last(h).of = r

\* What holds whatever goes on.
CalmNow ==
    /\ Whole(history)
    /\ ~quota.occurred /\ ~quota.fallback /\ ~quota.switched
    /\ ~loop.found
    /\ \A q \in Request : /\ ~call[q].stale
                          /\ ~At(q, "asking")
                          /\ AtWork(q) => In(q, "reading")
    /\ \A q \in Fresh : ~turn[q].aborted
    /\ ui.controller = None => Begun = {}

Idles ==
    /\ \A q \in Request : Rests(q)
    /\ ui.open = {} /\ work = <<>> /\ Closed(history)

\* A prompt or a command is looked at, a shell command runs, or /compress does.
Prepares(r) ==
    \/ /\ In(r, "preparing") /\ ~ui.typed
       /\ call[r].root = r /\ call[r].message.kind = "text"
       /\ At(r, "idle") /\ Quiet(r) /\ Unaborted(r)
    \/ In(r, "shell") /\ ui.responding
    \/ /\ In(r, "compressing") /\ call[r].kind = "compress" /\ ~ui.typed
       /\ call[r].copy = history
Commands(r) ==
    /\ OnlyOne(r) /\ ui.open = {} /\ work = <<>> /\ Closed(history)
    /\ Prepares(r)

\* A request is served: its message fits until it is in the history.
Opens(r) ==
    /\ At(r, "idle") /\ Fits(history, call[r].message) /\ Quiet(call[r].root)
    /\ \/ In(r, "compressing") /\ call[r].copy = history
       \/ (In(r, "checking") \/ In(r, "routing")) /\ r \in captured
Waits(r) ==
    /\ In(r, "reading") /\ At(r, "waiting") /\ ~turn[r].detached
    /\ turn[r].message = call[r].message
    /\ Fits(history, call[r].message) /\ Quiet(call[r].root)
Streams(r) ==
    /\ In(r, "reading") /\ turn[r].step \in {"calling", "streaming", "delay"}
    /\ ~turn[r].detached /\ Closed(history)
    /\ OnlyAsks(call[r].root, r)
    /\ At(r, "streaming") => (turn[r].got.call <=> turn[r].got.asked)
\* What a reply leaves to do.
Leaves(root, r) ==
    \/ Closed(history) /\ Quiet(root)
    \/ /\ Calls(history, r) /\ OnlyAsks(root, r)
       /\ r \in Request /\ call[r].root = root /\ call[r].kind = "prompt" /\ turn[r].got.asked
Replied(r) == In(r, "reading") /\ At(r, "done") /\ Leaves(call[r].root, r)
Speaks(r) == In(r, "speaking") /\ ~AtWork(r) /\ Closed(history) /\ Quiet(call[r].root)
Serves(r) ==
    /\ OnlyOne(r) /\ ui.open = {call[r].root} /\ work = <<>> /\ ui.responding
    /\ call[r].kind = "prompt" /\ Unaborted(call[r].root)
    /\ Opens(r) \/ Waits(r) \/ Streams(r) \/ Replied(r) \/ Speaks(r)

\* The reply is over, and its calls are to be scheduled.
Closes(root) ==
    /\ \A q \in Request : Rests(q)
    /\ ui.open = {root} /\ work = <<>> /\ ui.responding
    /\ \E r \in Request : Leaves(root, r)

\* The calls run; Esc may cancel them.
Works(q) ==
    /\ \A x \in Request : Rests(x)
    /\ ui.open = {} /\ work = <<q>>
    /\ Calls(history, q) /\ In(q, "over") /\ call[q].kind = "prompt"

Stage == Idles \/ \E r \in Request : Commands(r) \/ Serves(r) \/ Closes(r) \/ Works(r)
CalmInv == IsCalm => CalmNow /\ Stage

LEMMA NoMishap ==
    ASSUME IsCalm, NEW e \in Mishap
    PROVE  ~May(e)
BY DEF IsCalm, Calm, Mishap, May

LEMMA StageOf ==
    ASSUME Stage, NEW q \in Request, ~Rests(q)
    PROVE  Commands(q) \/ Serves(q)
BY DEF Stage, Idles, Commands, Serves, Closes, Works, OnlyOne

\* What is served when, by the phase of the call.
LEMMA ServesPhase ==
    ASSUME NEW q \in Request, Serves(q)
    PROVE  /\ call[q].phase \in {"compressing", "checking", "routing", "reading", "speaking"}
           /\ call[q].phase \in {"compressing", "checking", "routing"} => Opens(q)
           /\ call[q].phase = "reading" => Waits(q) \/ Streams(q) \/ Replied(q)
           /\ call[q].phase = "speaking" => Speaks(q)
BY DEF Serves, Opens, Waits, Streams, Replied, Speaks, In

LEMMA CommandsPhase ==
    ASSUME NEW q \in Request, Commands(q)
    PROVE  /\ call[q].phase \in {"preparing", "shell", "compressing"}
           /\ call[q].phase = "compressing" => call[q].kind = "compress" /\ call[q].copy = history
BY DEF Commands, Prepares, In

\* A step that only the input line sees.
LEMMA NothingHappens ==
    ASSUME CalmNow, Stage, UNCHANGED <<history, turn, call, captured, quota, loop, work>>,
           ui'.open = ui.open, ui'.responding = ui.responding, ui'.controller = ui.controller,
           \A r \in Request : \/ In(r, "preparing")
                              \/ In(r, "compressing") /\ call[r].kind = "compress"
                              => ui'.typed = ui.typed
    PROVE  CalmNow' /\ Stage'
<1>1. CalmNow'
  BY DEF CalmNow, At, AtWork, In, Fresh, Begun
<1>2. CASE Idles
  <2>1. Idles'
    BY <1>2 DEF Idles, Rests
  <2> QED BY <1>1, <2>1 DEF Stage
<1>3. ASSUME NEW r \in Request, Commands(r) PROVE Stage'
  <2>1. Prepares(r)'
    BY <1>3 DEF Commands, Prepares, In, At, Quiet, Unaborted
  <2>2. Commands(r)'
    BY <1>3, <2>1 DEF Commands, OnlyOne, Rests
  <2> QED BY <2>2 DEF Stage
<1>4. ASSUME NEW r \in Request, Serves(r) PROVE Stage'
  <2>1. /\ Opens(r) => Opens(r)'
        /\ Waits(r) => Waits(r)'
        /\ Streams(r) => Streams(r)'
    BY DEF Opens, Waits, Streams, In, At, Quiet, OnlyAsks
  <2>2. /\ Replied(r) => Replied(r)'
        /\ Speaks(r) => Speaks(r)'
    BY DEF Replied, Leaves, Speaks, In, At, AtWork, Quiet, OnlyAsks
  <2>3. Serves(r)'
    BY <1>4, <2>1, <2>2 DEF Serves, OnlyOne, Rests, Unaborted
  <2> QED BY <2>3 DEF Stage
<1>5. ASSUME NEW r \in Request, Closes(r) PROVE Stage'
  <2>1. Closes(r)'
    BY <1>5 DEF Closes, Leaves, Rests, Quiet, OnlyAsks
  <2> QED BY <2>1 DEF Stage
<1>6. ASSUME NEW r \in Request, Works(r) PROVE Stage'
  <2>1. Works(r)'
    BY <1>6 DEF Works, Rests, In
  <2> QED BY <2>1 DEF Stage
<1> QED BY <1>1, <1>2, <1>3, <1>4, <1>5, <1>6 DEF Stage

-----------------------------------------------------------------------------
(* Requests begin.                                                         *)

LEMMA ToTheModelOpens ==
    ASSUME NEW calls \in [Request -> Call], NEW r \in Request, NEW c \in Call,
           NEW h \in History, Whole(h), Fits(h, c.message),
           NEW detector \in Loop, ~detector.found, ToTheModel(r, c, h, calls, detector)
    PROVE  /\ Whole(history') /\ Fits(history', c.message) /\ ~loop'.found
           /\ Moved(calls, r, c, {"routing", "checking"})
<1>1. history' \in WithIdeContext(h) /\ ~loop'.found
  BY DEF ToTheModel, Loop
<1>2. Whole(history') /\ Fits(history', c.message)
  BY <1>1, WholeWithIde
<1> QED BY <1>1, <1>2, ToTheModelMoves

LEMMA SendOpens ==
    ASSUME TInv, IsCalm, CalmNow, NEW calls \in [Request -> Call],
           NEW n \in Request, NEW c \in Call, c.left > 0, Fits(history, c.message),
           Send(n, c, calls)
    PROVE  /\ Whole(history') /\ Fits(history', c.message) /\ ~loop'.found
           /\ UNCHANGED <<turn, quota>>
           /\ Moved(calls, n, c, {"routing", "checking", "compressing"})
           /\ \/ call'[n].phase = "compressing" /\ call'[n].copy = history'
              \/ call'[n].phase \in {"routing", "checking"} /\ n \in captured'
<1> DEFINE new == client.prompt # c.prompt
           detector == IF new THEN [NoLoop EXCEPT !.disabled = loop.disabled] ELSE loop
           phases == {"routing", "checking", "compressing"}
<1>1. detector \in Loop /\ ~detector.found
  BY DEF TInv, ClientTypes, Loop, NoLoop, CalmNow
<1>2. ~May("limit") /\ c.left # 0
  BY NoMishap, ClientAssumption DEF Mishap, Call
<1>3. UNCHANGED <<turn, quota>>
  BY DEF Send
<1>4. CASE ToTheModel(n, c, history, calls, detector) /\ captured' = captured \cup {n}
  <2> HIDE DEF detector
  <2>1. /\ Whole(history') /\ Fits(history', c.message) /\ ~loop'.found
        /\ Moved(calls, n, c, {"routing", "checking"})
    BY <1>1, <1>4, ToTheModelOpens DEF TInv, ChatTypes, CalmNow
  <2> QED BY <1>3, <1>4, <2>1 DEF Moved
<1>5. CASE /\ call' = [calls EXCEPT ![n] = [c EXCEPT !.phase = "compressing", !.copy = history]]
           /\ loop' = detector /\ UNCHANGED <<history, captured>>
  <2> HIDE DEF detector
  <2>1. Moved(calls, n, c, phases) /\ call'[n].copy = history
    BY <1>5, Moves
  <2>2. Moved(calls, n, c, {"compressing"})
    BY <1>5, Moves
  <2> QED BY <1>1, <1>3, <1>5, <2>1, <2>2 DEF Moved, CalmNow
<1> QED BY <1>2, <1>4, <1>5 DEF Send

\* The request that begins is the only one.
LEMMA OpensServes ==
    ASSUME CalmNow, NEW n \in Request,
           Whole(history'), ~loop'.found, UNCHANGED <<turn, quota>>,
           call'[n].kind = "prompt", ~call'[n].stale, call'[n].root \in Request,
           Fits(history', call'[n].message),
           \/ call'[n].phase = "compressing" /\ call'[n].copy = history'
           \/ call'[n].phase \in {"routing", "checking"} /\ n \in captured',
           \A q \in Request \ {n} : call'[q].phase \in {"none", "over"} /\ ~call'[q].stale,
           At(n, "idle"), \A q \in Request : ~AtWork(q),
           \A q \in Request : call'[q].root = call'[n].root
                                 => ~turn[q].got.asked /\ ~turn[q].aborted,
           Fresh' \subseteq Fresh, ui'.controller # None,
           ui'.open = {call'[n].root}, ui'.responding, work' = <<>>
    PROVE  CalmNow' /\ Serves(n)'
<1>1. CalmNow'
  BY DEF CalmNow, At, AtWork, In
<1>2. Opens(n)'
  BY DEF Opens, At, In, Quiet
<1>3. Serves(n)'
  BY <1>2 DEF Serves, OnlyOne, Rests, Unaborted
<1> QED BY <1>1, <1>3

-----------------------------------------------------------------------------
(* Every step of the calm session.                                         *)

LEMMA CalmType ==
    ASSUME TInv, IsCalm, CalmNow, Stage, Type
    PROVE  CalmNow' /\ Stage'
<1>1. /\ UNCHANGED <<clientVars, work, batch>> /\ ui' = [ui EXCEPT !.typed = TRUE]
      /\ \A r \in Request : In(r, "compressing") => call[r].kind = "prompt"
      /\ Preparing = {} \/ May("overlap")
  BY DEF Type
<1>2. \A r \in Request : ~In(r, "preparing")
  BY <1>1, NoMishap DEF Mishap, Preparing
<1>3. /\ ui'.open = ui.open /\ ui'.responding = ui.responding /\ ui'.controller = ui.controller
  BY <1>1 DEF TInv, SessionTypes, Ui
<1> QED BY <1>1, <1>2, <1>3, NothingHappens DEF clientVars, chatVars

\* Nothing else goes on when a prompt is taken from the queue.
LEMMA CalmSubmit ==
    ASSUME TInv, IsCalm, CalmNow, Stage, NEW kind \in Kind, Submit(kind)
    PROVE  CalmNow' /\ Stage'
<1>0. PICK r \in Fresh : r = NextRequest
  BY NextIsFresh DEF Submit
<1> DEFINE prompt == CHOOSE p \in UnusedPrompts : TRUE
           c == [NoCall EXCEPT !.phase = "preparing", !.kind = kind, !.root = r,
                               !.prompt = prompt, !.message = User("text", None),
                               !.left = MaxTurns, !.stale = quota.switched]
<1>1. r \in Fresh /\ r \in Request
  BY DEF Fresh
<1>2. /\ call' = [call EXCEPT ![r] = c] /\ call \in [Request -> Call]
      /\ ui' = [ui EXCEPT !.typed = FALSE, !.cancelled = FALSE, !.controller = r]
      /\ quota' = [quota EXCEPT !.switched = FALSE, !.occurred = FALSE]
      /\ UNCHANGED <<history, sendPromise, turn, captured, client, loop, work, batch, world>>
  BY <1>0 DEF Submit, TInv, ClientTypes
<1>3. Idles
  <2>1. work = <<>> /\ ~ui.responding /\ ui.typed
    BY DEF Submit, IsIdle
  <2> QED BY <2>1 DEF Stage, Commands, Prepares, Serves, Closes, Works
<1> HIDE DEF prompt
<1>4. c.phase = "preparing" /\ c.root = r /\ c.message.kind = "text" /\ ~c.stale
  BY DEF NoCall, User, CalmNow
<1> HIDE DEF c
<1>5. /\ call'[r] = c /\ \A q \in Request \ {r} : call'[q] = call[q]
      /\ ~ui'.typed /\ ui'.controller = r /\ ui'.open = {} /\ r # None
      /\ ~quota'.occurred /\ ~quota'.switched /\ quota'.fallback = quota.fallback
  BY <1>1, <1>2, <1>3, ChatAssumption DEF TInv, SessionTypes, ChatTypes, Ui, Idles
<1>6. \A q \in Request \ {r} : call'[q].root # r
  BY <1>1, <1>5 DEF TInv, FreshInv, Begun, ChatAssumption
<1>7. At(r, "idle") /\ ~turn[r].got.asked /\ ~turn[r].aborted
  BY <1>1 DEF TInv, FreshInv, CalmNow
<1>8. Fresh' \subseteq Fresh
  BY <1>1, <1>4, <1>5 DEF Fresh
<1>9. CalmNow'
  BY <1>1, <1>2, <1>4, <1>5, <1>7, <1>8 DEF CalmNow, At, AtWork, In
<1>10. Commands(r)'
  <2>1. Prepares(r)'
    BY <1>2, <1>4, <1>5, <1>6, <1>7 DEF Prepares, In, At, Quiet, Unaborted
  <2>2. OnlyOne(r)' /\ Closed(history)' /\ work' = <<>>
    BY <1>2, <1>3, <1>5 DEF Idles, OnlyOne, Rests
  <2> QED BY <1>5, <2>1, <2>2 DEF Commands
<1> QED BY <1>1, <1>9, <1>10 DEF Stage

LEMMA CalmSendPrompt ==
    ASSUME TInv, TInv', IsCalm, CalmNow, Stage, NEW r \in Request, SendPrompt(r)
    PROVE  CalmNow' /\ Stage'
<1>1. /\ call \in [Request -> Call] /\ call[r] \in Call /\ call[r].left > 0
      /\ call[r].phase = "preparing" /\ call[r].kind = "prompt"
      /\ Send(r, call[r], call) /\ ui' = Responds(r) /\ work' = work
  BY DEF SendPrompt, In, TInv, ClientTypes, Sane
<1>2. Commands(r)
  BY <1>1, StageOf, ServesPhase DEF Rests
<1>3. /\ ~ui.typed /\ call[r].root = r /\ call[r].message.kind = "text"
      /\ At(r, "idle") /\ Quiet(r) /\ Unaborted(r) /\ OnlyOne(r) /\ ui.open = {} /\ work = <<>>
      /\ Closed(history)
  BY <1>1, <1>2 DEF Commands, Prepares, In
<1>4. Fits(history, call[r].message)
  BY <1>3 DEF Fits
<1>5. /\ Whole(history') /\ Fits(history', call[r].message) /\ ~loop'.found
      /\ UNCHANGED <<turn, quota>>
      /\ Moved(call, r, call[r], {"routing", "checking", "compressing"})
      /\ \/ call'[r].phase = "compressing" /\ call'[r].copy = history'
         \/ call'[r].phase \in {"routing", "checking"} /\ r \in captured'
  BY <1>1, <1>4, SendOpens
<1>6. /\ Same(call[r], call'[r]) /\ \A q \in Request \ {r} : call'[q] = call[q]
  BY <1>5 DEF Moved
<1>7. \A q \in Request : ~AtWork(q)
  BY <1>1, <1>3 DEF CalmNow, In, OnlyOne, Rests
<1>8. \A q \in Request : call'[q].root = call'[r].root => ~turn[q].got.asked /\ ~turn[q].aborted
  BY <1>3, <1>6 DEF Same, Quiet, Unaborted
<1>9. \A q \in Request \ {r} : call'[q].phase \in {"none", "over"} /\ ~call'[q].stale
  BY <1>3, <1>6 DEF OnlyOne, Rests, CalmNow
<1>10. Fresh' \subseteq Fresh
  BY <1>1, <1>5, <1>6 DEF Fresh
<1>11. ui'.controller # None /\ ui'.open = {r} /\ ui'.responding
  <2>1. Begun # {}
    BY <1>1 DEF Begun, Fresh
  <2>2. ui.controller # None
    BY <2>1 DEF CalmNow
  <2> QED BY <1>1, <1>3, <2>2 DEF Responds, TInv, SessionTypes, Ui
<1>12. /\ call'[r].kind = "prompt" /\ ~call'[r].stale /\ call'[r].root = r
       /\ call'[r].message = call[r].message
  BY <1>1, <1>3, <1>6 DEF Same, CalmNow
<1>13. CalmNow' /\ Serves(r)'
  BY <1>1, <1>3, <1>5, <1>7, <1>8, <1>9, <1>10, <1>11, <1>12, OpensServes
<1> QED BY <1>13 DEF Stage

\* The command is over and nothing goes on.
LEMMA CommandEnds ==
    ASSUME TInv, CalmNow, NEW r \in Request, Commands(r), Moved(call, r, call[r], {"over"}),
           Whole(history'), Closed(history'), loop' = loop, quota' = quota,
           \A q \in Request : turn'[q].step = turn[q].step /\ turn'[q].aborted = turn[q].aborted,
           ui'.open = ui.open, ui'.controller = ui.controller, work' = work
    PROVE  CalmNow' /\ Stage'
<1>1. /\ call'[r].phase = "over" /\ Same(call[r], call'[r])
      /\ \A q \in Request \ {r} : call'[q] = call[q]
      /\ \A q \in Request \ {r} : Rests(q)
      /\ call[r].phase # "none" /\ call[r].phase # "reading"
  BY CommandsPhase DEF Moved, Commands, OnlyOne
<1>2. Fresh' = Fresh
  BY <1>1 DEF Fresh
<1>3. \A q \in Request : Rests(q)' /\ ~AtWork(q)' /\ ~At(q, "asking")' /\ ~call'[q].stale
  BY <1>1 DEF Rests, AtWork, At, CalmNow, In, Same
<1>4. CalmNow'
  BY <1>2, <1>3 DEF CalmNow, Begun, Fresh
<1>5. Idles'
  BY <1>3 DEF Idles, Commands
<1> QED BY <1>4, <1>5 DEF Stage

LEMMA CommandGoesOn ==
    ASSUME CalmNow, NEW r \in Request, Commands(r),
           Moved(call, r, call[r], {"compressing", "shell"}), Prepares(r)',
           UNCHANGED <<history, turn, quota, loop, work>>,
           ui'.open = ui.open, ui'.controller = ui.controller
    PROVE  CalmNow' /\ Stage'
<1>1. /\ call'[r].phase \in {"compressing", "shell"} /\ Same(call[r], call'[r])
      /\ \A q \in Request \ {r} : call'[q] = call[q]
      /\ \A q \in Request \ {r} : Rests(q)
      /\ call[r].phase # "none" /\ call[r].phase # "reading"
  BY CommandsPhase DEF Moved, Commands, OnlyOne
<1>2. Fresh' = Fresh
  BY <1>1 DEF Fresh
<1>3. \A q \in Request : ~AtWork(q)' /\ ~At(q, "asking")' /\ ~call'[q].stale
  BY <1>1 DEF Rests, AtWork, At, CalmNow, In, Same
<1>4. CalmNow'
  BY <1>2, <1>3 DEF CalmNow, Begun, Fresh
<1>5. Commands(r)'
  BY <1>1 DEF Commands, OnlyOne, Rests
<1> QED BY <1>4, <1>5 DEF Stage

LEMMA NewChatIsWhole == Whole(NewChat) /\ Closed(NewChat)
<1>1. Len(NewChat) = 2 /\ NewChat[1].kind = "note" /\ NewChat[2].kind = "reply"
  BY DEF NewChat, User, Model
<1>2. \A i \in 1 .. 2 : i = 1 \/ i = 2
  OBVIOUS
<1> QED BY <1>1, <1>2 DEF Whole, Closed, Last

LEMMA CalmCommand ==
    ASSUME TInv, IsCalm, CalmNow, Stage, NEW r \in Request, RunCommand(r)
    PROVE  CalmNow' /\ Stage'
<1>1. In(r, "preparing") /\ UNCHANGED <<ui, work>> /\ call \in [Request -> Call] /\ call[r] \in Call
  BY DEF RunCommand, TInv, ClientTypes
<1>2. Commands(r) /\ ~ui.typed
  <2>1. Commands(r)
    BY <1>1, StageOf, ServesPhase DEF Rests, In
  <2> QED BY <1>1, <2>1 DEF Commands, Prepares, In
<1>3. CASE /\ call[r].kind = "compress"
           /\ call' = [call EXCEPT ![r].phase = "compressing", ![r].copy = history]
           /\ UNCHANGED <<chatVars, captured, client, loop>>
  <2>1. call' = [call EXCEPT ![r] = [call[r] EXCEPT !.phase = "compressing", !.copy = history]]
    BY <1>1, <1>3
  <2>2. Moved(call, r, call[r], {"compressing", "shell"}) /\ call'[r].copy = history
    BY <1>1, <2>1, Moves
  <2>3. call'[r].phase = "compressing"
    BY <1>1, <2>1 DEF Call
  <2>4. Prepares(r)'
    BY <1>1, <1>2, <1>3, <2>2, <2>3 DEF Prepares, In, Moved, Same, chatVars
  <2> QED BY <1>1, <1>2, <1>3, <2>2, <2>4, CommandGoesOn DEF chatVars
<1>4. CASE call[r].kind = "clear" /\ ResetChat /\ Ends(r)
  <2>1. Moved(call, r, call[r], {"over"})
    BY <1>4, EndsMoves DEF TInv
  <2>2. Whole(history') /\ Closed(history')
    BY <1>4, NewChatIsWhole DEF ResetChat
  <2>3. \A q \in Request : turn'[q].step = turn[q].step /\ turn'[q].aborted = turn[q].aborted
    <3>1. /\ turn' = [q \in Request |-> [turn[q] EXCEPT !.detached = @ \/ ~At(q, "idle")]]
          /\ history' \in History /\ sendPromise' = None /\ quota' = quota
      BY <1>4, NewChatIsHistory DEF ResetChat
    <3> QED BY <3>1, DetachedTypes DEF TInv
  <2> QED BY <1>1, <1>2, <1>4, <2>1, <2>2, <2>3, CommandEnds DEF ResetChat
<1> QED BY <1>3, <1>4 DEF RunCommand

LEMMA CalmShell ==
    ASSUME TInv, IsCalm, CalmNow, Stage, NEW r \in Request, RunShell(r) \/ ShellOver(r)
    PROVE  CalmNow' /\ Stage'
<1>1. CASE RunShell(r)
  <2>1. /\ In(r, "preparing") /\ call' = [call EXCEPT ![r].phase = "shell"]
        /\ call \in [Request -> Call] /\ call[r] \in Call
        /\ UNCHANGED <<chatVars, loop, work>> /\ ui' = [ui EXCEPT !.responding = TRUE]
    BY <1>1 DEF RunShell, TInv, ClientTypes
  <2>2. Commands(r)
    BY <2>1, StageOf, ServesPhase DEF Rests, In
  <2>3. call' = [call EXCEPT ![r] = [call[r] EXCEPT !.phase = "shell"]]
    BY <2>1
  <2>4. Moved(call, r, call[r], {"compressing", "shell"}) /\ Moved(call, r, call[r], {"shell"})
    BY <2>1, <2>3, MovesOn
  <2>5. ui'.responding /\ ui'.open = ui.open /\ ui'.controller = ui.controller
    BY <2>1 DEF TInv, SessionTypes, Ui
  <2>6. Prepares(r)'
    BY <2>4, <2>5 DEF Prepares, In, Moved
  <2> QED BY <2>1, <2>2, <2>4, <2>5, <2>6, CommandGoesOn DEF chatVars
<1>2. CASE ShellOver(r)
  <2>1. /\ In(r, "shell") /\ Ends(r) /\ history' = Append(history, User("note", None))
        /\ UNCHANGED <<turn, quota, loop, work>> /\ ui' = [ui EXCEPT !.responding = FALSE]
    BY <1>2 DEF ShellOver, AddHistory
  <2>2. Commands(r)
    BY <2>1, StageOf, ServesPhase DEF Rests, In
  <2>3. Moved(call, r, call[r], {"over"})
    BY <2>1, EndsMoves DEF TInv
  <2>4. Fits(history, User("note", None))
    BY <2>2, NoteIsEntry DEF Commands, Fits
  <2>5. Whole(history') /\ Last(history') = User("note", None)
    BY <2>1, <2>4, NoteIsEntry, WholeAppend DEF TInv, ChatTypes, CalmNow
  <2>6. ui'.open = ui.open /\ ui'.controller = ui.controller
    BY <2>1 DEF TInv, SessionTypes, Ui
  <2> QED BY <2>1, <2>2, <2>3, <2>5, <2>6, NoteIsEntry, CommandEnds DEF Closed
<1> QED BY <1>1, <1>2

\* The sequence of a set of at most one.
LEMMA SequenceOfNone == <<>> \o SetToSeq({}) = <<>>
<1>1. SetToSeq({}) \in Seq(Request) /\ SetToSeq({}) \in [1 .. 0 -> {}]
  BY SequenceOfSet, FS_EmptySet
<1>2. Len(SetToSeq({})) = 0
  BY <1>1
<1>3. SetToSeq({}) = <<>>
  BY <1>1, <1>2, EmptySeq
<1> QED BY <1>3

LEMMA SequenceOfOne ==
    ASSUME NEW q \in Request
    PROVE  <<>> \o SetToSeq({q}) = <<q>>
<1>1. SetToSeq({q}) \in Seq(Request) /\ SetToSeq({q}) \in [1 .. 1 -> {q}]
  BY SequenceOfSet, FS_Singleton
<1>2. ASSUME NEW s \in Seq(Request), s \in [1 .. 1 -> {q}] PROVE <<>> \o s = <<q>>
  <2>1. Len(s) = 1 /\ s[1] = q
    BY <1>2
  <2>2. s = <<q>>
    BY <2>1, <1>2
  <2> QED BY <2>2
<1> QED BY <1>1, <1>2

\* The reply is read to its end, and the calls it asked for are scheduled.
LEMMA CalmReplyOver ==
    ASSUME TInv, IsCalm, CalmNow, Stage, NEW r \in Request, ReplyOver(r)
    PROVE  CalmNow' /\ Stage'
<1> DEFINE asking == {q \in Of(r) : turn[q].got.asked}
<1>1. /\ r \in ui.open /\ \A q \in Of(r) : In(q, "over")
      /\ work' = work \o SetToSeq(asking) /\ UNCHANGED clientVars
      /\ ui'.open = ui.open \ {r} /\ ui'.controller = ui.controller
  BY DEF ReplyOver, TInv, SessionTypes, Ui
<1>2. Closes(r)
  <2>1. ASSUME NEW q \in Request, Serves(q) PROVE FALSE
    <3>1. call[q].root = r /\ call[q].phase # "over"
      BY <1>1, <2>1, ServesPhase DEF Serves
    <3> QED BY <1>1, <3>1 DEF Of, In
  <2> QED BY <1>1, <2>1 DEF Stage, Idles, Commands, Closes, Works
<1>3. PICK m \in Request : Leaves(r, m)
  BY <1>2 DEF Closes
<1>4. CalmNow'
  BY <1>1 DEF clientVars, chatVars, CalmNow, At, AtWork, In, Fresh, Begun
<1>5. (\A q \in Request : Rests(q)') /\ ui'.open = {} /\ history' = history /\ work = <<>>
  BY <1>1, <1>2 DEF clientVars, chatVars, Closes, Rests
<1> HIDE DEF asking
<1>6. CASE Closed(history) /\ Quiet(r)
  <2>1. asking = {}
    BY <1>6 DEF asking, Of, Quiet
  <2>2. work' = <<>>
    BY <1>1, <1>5, <2>1, SequenceOfNone
  <2>3. Idles'
    BY <1>5, <1>6, <2>2 DEF Idles
  <2> QED BY <1>4, <2>3 DEF Stage
<1>7. CASE /\ Calls(history, m) /\ OnlyAsks(r, m)
           /\ call[m].root = r /\ call[m].kind = "prompt" /\ turn[m].got.asked
  <2>1. asking = {m}
    BY <1>7 DEF asking, Of, OnlyAsks
  <2>2. work' = <<m>>
    BY <1>1, <1>5, <2>1, SequenceOfOne
  <2>3. In(m, "over")'
    BY <1>1, <1>7 DEF Of, In, clientVars
  <2>4. Works(m)'
    BY <1>1, <1>5, <1>7, <2>2, <2>3 DEF Works, clientVars
  <2> QED BY <1>4, <2>4 DEF Stage
<1> QED BY <1>3, <1>6, <1>7 DEF Leaves

-----------------------------------------------------------------------------
(* What the client does in the calm session.                               *)

\* The others are left alone while r is served.
LEMMA ServesOn ==
    ASSUME CalmNow, NEW r \in Request, Serves(r),
           Moved(call, r, call[r], {"routing", "checking", "reading", "speaking"}),
           Whole(history'), ~loop'.found, quota' = quota,
           \A q \in Request \ {r} : /\ turn'[q].step = turn[q].step
                                    /\ turn'[q].aborted = turn[q].aborted,
           ~turn'[r].aborted, turn'[r].step # "asking", AtWork(r)' => In(r, "reading")',
           UNCHANGED <<ui, work>>,
           Opens(r)' \/ Waits(r)' \/ Streams(r)' \/ Replied(r)' \/ Speaks(r)'
    PROVE  CalmNow' /\ Stage'
<1>1. /\ call'[r].phase \in {"routing", "checking", "reading", "speaking"}
      /\ Same(call[r], call'[r])
      /\ \A q \in Request \ {r} : call'[q] = call[q] /\ Rests(q)
      /\ call[r].phase # "none"
  BY ServesPhase DEF Moved, Serves, OnlyOne
<1>2. Fresh' = Fresh
  BY <1>1 DEF Fresh
<1>3. \A q \in Request : /\ AtWork(q)' => In(q, "reading")'
                         /\ ~At(q, "asking")' /\ ~call'[q].stale
  BY <1>1 DEF Rests, AtWork, At, CalmNow, In, Same
<1>4. \A q \in Fresh' : ~turn'[q].aborted
  BY <1>1, <1>2 DEF CalmNow, Fresh
<1>5. CalmNow'
  BY <1>2, <1>3, <1>4 DEF CalmNow, Begun
<1>6. Unaborted(call[r].root)'
  BY <1>1 DEF Serves, Unaborted, Same
<1>7. OnlyOne(r)'
  BY <1>1 DEF OnlyOne, Rests
<1>8. Serves(r)'
  BY <1>1, <1>6, <1>7 DEF Serves, Same
<1> QED BY <1>5, <1>8 DEF Stage

\* The request is over, and with it the reply unless the model goes on.
LEMMA ServesEnds ==
    ASSUME TInv, CalmNow, NEW r \in Request, Serves(r), ~AtWork(r), Leaves(call[r].root, r),
           Moved(call, r, call[r], {"over"}),
           UNCHANGED <<history, turn, quota, loop, ui, work>>
    PROVE  CalmNow' /\ Stage'
<1> DEFINE root == call[r].root
<1>1. /\ call'[r].phase = "over" /\ Same(call[r], call'[r])
      /\ \A q \in Request \ {r} : call'[q] = call[q] /\ Rests(q)
      /\ call[r].phase # "none"
  BY ServesPhase DEF Moved, Serves, OnlyOne
<1>2. Fresh' = Fresh
  BY <1>1 DEF Fresh
<1>3. \A q \in Request : /\ AtWork(q)' => In(q, "reading")'
                         /\ ~At(q, "asking")' /\ ~call'[q].stale
  BY <1>1 DEF Rests, AtWork, At, CalmNow, In, Same
<1>4. CalmNow'
  BY <1>2, <1>3 DEF CalmNow, Begun
<1>5. \A q \in Request : Rests(q)' /\ call'[q].root = call[q].root /\ call'[q].kind = call[q].kind
  BY <1>1 DEF Rests, Same
<1>6. PICK x \in Request : x = root
  BY DEF Serves, TInv, SessionTypes, Ui
<1>7. Leaves(x, r)'
  BY <1>5, <1>6 DEF Leaves, Quiet, OnlyAsks
<1>8. Closes(x)'
  BY <1>5, <1>6, <1>7 DEF Closes, Serves
<1> QED BY <1>4, <1>8 DEF Stage

\* On the way to the model: the message still fits, and the turns are as before.
LEMMA OpensOn ==
    ASSUME TInv, CalmNow, NEW r \in Request, Serves(r), Opens(r), r \in captured',
           Moved(call, r, call[r], {"routing", "checking"}),
           Whole(history'), Fits(history', call[r].message), ~loop'.found, quota' = quota,
           \A q \in Request : /\ turn'[q].step = turn[q].step /\ turn'[q].got = turn[q].got
                              /\ turn'[q].aborted = turn[q].aborted,
           UNCHANGED <<ui, work>>
    PROVE  CalmNow' /\ Stage'
<1>1. /\ call'[r].phase \in {"routing", "checking"} /\ Same(call[r], call'[r])
      /\ \A q \in Request \ {r} : call'[q] = call[q]
  BY DEF Moved
<1>2. \A q \in Request : call'[q].root = call[q].root
  BY <1>1 DEF Same
<1>3. ~turn'[r].aborted /\ At(r, "idle")'
  BY DEF Serves, Unaborted, Opens, At
<1>4. Opens(r)'
  BY <1>1, <1>2, <1>3 DEF Opens, Quiet, In, Same
<1>5. Moved(call, r, call[r], {"routing", "checking", "reading", "speaking"})
  BY DEF Moved
<1>6. turn'[r].step # "asking" /\ ~AtWork(r)'
  BY <1>3 DEF At, AtWork
<1> QED BY <1>3, <1>4, <1>5, <1>6, ServesOn

LEMMA CalmInflated ==
    ASSUME TInv, IsCalm, CalmNow, Stage, NEW r \in Request, Inflated(r), UNCHANGED <<ui, work>>
    PROVE  CalmNow' /\ Stage'
<1>1. /\ In(r, "compressing") /\ UNCHANGED <<turn, quota>>
      /\ call \in [Request -> Call] /\ call[r] \in Call
  BY DEF Inflated, TInv, ClientTypes
<1>2. Commands(r) \/ Serves(r)
  BY <1>1, StageOf DEF Rests, In
<1>3. CASE call[r].kind = "prompt"
  <2>1. ToTheModel(r, call[r], history, call, loop) /\ captured' = captured \cup {r}
    BY <1>3 DEF Inflated
  <2>2. Serves(r) /\ Opens(r)
    BY <1>1, <1>2, <1>3, CommandsPhase, ServesPhase DEF In
  <2>3. /\ Whole(history') /\ Fits(history', call[r].message) /\ ~loop'.found
        /\ Moved(call, r, call[r], {"routing", "checking"})
    BY <1>1, <2>1, <2>2, ToTheModelOpens DEF CalmNow, Opens, TInv, ChatTypes, ClientTypes
  <2> QED BY <1>1, <2>1, <2>2, <2>3, OpensOn
<1>4. CASE call[r].kind # "prompt"
  <2>1. Ends(r) /\ UNCHANGED <<history, loop>>
    BY <1>4 DEF Inflated
  <2>2. Commands(r) /\ Closed(history)
    BY <1>2, <1>4 DEF Serves, Commands
  <2>3. Moved(call, r, call[r], {"over"})
    BY <2>1, EndsMoves DEF TInv
  <2> QED BY <1>1, <2>1, <2>2, <2>3, CommandEnds DEF CalmNow
<1> QED BY <1>3, <1>4

\* The history that the compression puts in place is whole, and the message of the
\* request still fits it.
LEMMA CalmCompress ==
    ASSUME TInv, IsCalm, CalmNow, Stage, NEW r \in Request, Compress(r), UNCHANGED <<ui, work>>
    PROVE  CalmNow' /\ Stage'
<1>1. /\ In(r, "compressing") /\ quota' = quota
      /\ call \in [Request -> Call] /\ call[r] \in Call
  BY DEF Compress, TInv, ClientTypes
<1>2. \A q \in Request : turn'[q].step = turn[q].step /\ turn'[q].got = turn[q].got
                          /\ turn'[q].aborted = turn[q].aborted
  BY CompressTypes
<1>3. Commands(r) \/ (Serves(r) /\ Opens(r))
  BY <1>1, StageOf, ServesPhase DEF Rests, In
<1>4. call[r].copy = history
  BY <1>1, <1>3, CommandsPhase DEF Opens, In
<1>5. PICK split \in SplitPoints(history) :
        IF call[r].kind = "prompt"
        THEN ToTheModel(r, call[r], Compressed(history, split), call, loop) /\ captured' = {r}
        ELSE /\ history' = Compressed(history, split)
             /\ Ends(r) /\ captured' = {}
             /\ UNCHANGED loop
  BY <1>4 DEF Compress
<1> DEFINE h == Compressed(history, split)
<1>6. h \in History
  BY CompressedEntries DEF TInv, ChatTypes
<1>7. Whole(h) /\ \A m : Fits(history, m) => Fits(h, m)
  BY WholeCompressed DEF TInv, ChatTypes, CalmNow
<1>8. CASE call[r].kind = "prompt"
  <2> HIDE DEF h
  <2>1. ToTheModel(r, call[r], h, call, loop) /\ captured' = {r}
    BY <1>5, <1>8 DEF h
  <2>2. Serves(r) /\ Opens(r)
    BY <1>1, <1>3, <1>8, CommandsPhase DEF In
  <2>3. /\ Whole(history') /\ Fits(history', call[r].message) /\ ~loop'.found
        /\ Moved(call, r, call[r], {"routing", "checking"})
    BY <1>1, <1>6, <1>7, <2>1, <2>2, ToTheModelOpens DEF CalmNow, Opens, TInv, ClientTypes
  <2> QED BY <1>1, <1>2, <2>1, <2>2, <2>3, OpensOn
<1>9. CASE call[r].kind # "prompt"
  <2> HIDE DEF h
  <2>1. Ends(r) /\ history' = h /\ loop' = loop
    BY <1>5, <1>9 DEF h
  <2>2. Commands(r) /\ Closed(history)
    BY <1>3, <1>9 DEF Serves, Commands
  <2>3. Moved(call, r, call[r], {"over"})
    BY <2>1, EndsMoves DEF TInv
  <2>4. Closed(h)
    <3>1. Fits(history, User("note", None))
      BY <2>2, NoteIsEntry DEF Fits
    <3>2. Fits(h, User("note", None))
      BY <1>7, <3>1
    <3> QED BY <3>2, NoteIsEntry DEF Fits
  <2> QED BY <1>1, <1>2, <1>7, <2>1, <2>2, <2>3, <2>4, CommandEnds
<1> QED BY <1>8, <1>9

LEMMA CalmNoLoopSeen ==
    ASSUME TInv, IsCalm, CalmNow, Stage, NEW r \in Request, NoLoopSeen(r), UNCHANGED <<ui, work>>
    PROVE  CalmNow' /\ Stage'
<1>1. /\ In(r, "checking") /\ call' = [call EXCEPT ![r].phase = "routing"]
      /\ UNCHANGED <<chatVars, captured, loop>> /\ call \in [Request -> Call] /\ call[r] \in Call
  BY DEF NoLoopSeen, TInv, ClientTypes
<1>2. Serves(r) /\ Opens(r) /\ r \in captured
  <2>1. Serves(r) /\ Opens(r)
    BY <1>1, StageOf, CommandsPhase, ServesPhase DEF Rests, In
  <2> QED BY <1>1, <2>1 DEF Opens, In
<1>3. call' = [call EXCEPT ![r] = [call[r] EXCEPT !.phase = "routing"]]
  BY <1>1
<1>4. Moved(call, r, call[r], {"routing", "checking"})
  BY <1>1, <1>3, MovesOn
<1> QED BY <1>1, <1>2, <1>4, OpensOn DEF chatVars, CalmNow, Opens

\* The turn begins where the message still fits, and nobody has aborted it.
LEMMA CalmRoute ==
    ASSUME TInv, IsCalm, CalmNow, Stage, NEW r \in Request, NEW routed \in Models,
           Route(r, routed, Aborted(call[r].root)), UNCHANGED <<ui, work>>
    PROVE  CalmNow' /\ Stage'
<1> DEFINE model == IF client.model # "none" THEN client.model
                    ELSE IF quota.fallback THEN "flash" ELSE routed
           aborted == Aborted(call[r].root)
           t == [NoTurn EXCEPT !.step = "waiting", !.message = call[r].message, !.model = model,
                               !.after = IF r \notin captured THEN None ELSE sendPromise,
                               !.detached = r \notin captured, !.aborted = aborted]
<1>1. /\ In(r, "routing") /\ call' = [call EXCEPT ![r].phase = "reading"]
      /\ turn' = [turn EXCEPT ![r] = t] /\ UNCHANGED <<history, quota, loop>>
      /\ call \in [Request -> Call] /\ call[r] \in Call /\ turn \in [Request -> Turn]
  BY DEF Route, Begin, TInv, ClientTypes, ChatTypes
<1>2. Serves(r) /\ Opens(r) /\ r \in captured
  <2>1. Serves(r) /\ Opens(r)
    BY <1>1, StageOf, CommandsPhase, ServesPhase DEF Rests, In
  <2> QED BY <1>1, <2>1 DEF Opens, In
<1>3. ~aborted
  BY <1>2 DEF Serves, Unaborted, Aborted, Of
<1>4. /\ t.step = "waiting" /\ t.message = call[r].message /\ ~t.detached /\ ~t.aborted
      /\ ~t.got.asked
  BY <1>2, <1>3 DEF NoTurn, Nothing
<1> HIDE DEF t, aborted, model
<1>5. turn'[r] = t /\ \A q \in Request \ {r} : turn'[q] = turn[q]
  BY <1>1
<1>6. call' = [call EXCEPT ![r] = [call[r] EXCEPT !.phase = "reading"]]
  BY <1>1
<1>7. /\ Moved(call, r, call[r], {"routing", "checking", "reading", "speaking"})
      /\ Moved(call, r, call[r], {"reading"})
  BY <1>1, <1>6, MovesOn
<1>8. call'[r].phase = "reading" /\ \A q \in Request : call'[q].root = call[q].root
  BY <1>7 DEF Moved, Same
<1>9. Waits(r)'
  <2>1. In(r, "reading")' /\ At(r, "waiting")' /\ call'[r].message = call[r].message
    BY <1>4, <1>5, <1>7, <1>8 DEF In, At, Moved, Same
  <2>2. Quiet(call[r].root)'
    BY <1>2, <1>4, <1>5, <1>8 DEF Opens, Quiet
  <2> QED BY <1>1, <1>2, <1>4, <1>5, <1>8, <2>1, <2>2 DEF Waits, Opens
<1> QED BY <1>1, <1>2, <1>4, <1>5, <1>7, <1>8, <1>9, ServesOn DEF CalmNow, In

LEMMA CalmTurnOver ==
    ASSUME TInv, IsCalm, CalmNow, Stage, NEW r \in Request, TurnOver(r) \/ UserSpeaks(r),
           UNCHANGED <<ui, work>>
    PROVE  CalmNow' /\ Stage'
<1>1. /\ In(r, "reading") \/ In(r, "speaking")
      /\ UNCHANGED <<chatVars, captured, loop>>
      /\ call \in [Request -> Call] /\ call[r] \in Call
  BY DEF TurnOver, UserSpeaks, TInv, ClientTypes
<1>2. Serves(r)
  BY <1>1, StageOf, CommandsPhase DEF Rests, In
<1>3. ASSUME UserSpeaks(r) \/ TurnOver(r)
      PROVE  UNCHANGED <<history, turn, quota, loop>> /\ ~AtWork(r) /\ Leaves(call[r].root, r)
  <2>1. CASE UserSpeaks(r)
    <3>1. Speaks(r) /\ UNCHANGED <<history, turn, quota, loop>>
      BY <1>2, <2>1, ServesPhase DEF UserSpeaks, In, chatVars
    <3> QED BY <3>1 DEF Speaks, Leaves
  <2>2. CASE TurnOver(r)
    <3>1. /\ In(r, "reading") /\ turn[r].step \in Over /\ UNCHANGED <<history, turn, quota, loop>>
      BY <2>2 DEF TurnOver, chatVars
    <3>2. Replied(r)
      BY <1>2, <3>1, ServesPhase DEF In, Waits, Streams, Over, At
    <3> QED BY <3>1, <3>2 DEF Replied, At, AtWork
  <2> QED BY <1>3, <2>1, <2>2
<1>4. CASE Ends(r)
  <2>1. Moved(call, r, call[r], {"over"})
    BY <1>4, EndsMoves DEF TInv
  <2> QED BY <1>2, <1>3, <2>1, ServesEnds
<1>5. CASE TurnOver(r) /\ ~Ends(r)
  <2>1. call' = [call EXCEPT ![r] = [call[r] EXCEPT !.phase = "speaking"]] /\ ~turn[r].got.asked
    BY <1>1, <1>5 DEF TurnOver
  <2>2. /\ Moved(call, r, call[r], {"routing", "checking", "reading", "speaking"})
        /\ Moved(call, r, call[r], {"speaking"})
    BY <1>1, <2>1, MovesOn
  <2>3. call'[r].phase = "speaking" /\ \A q \in Request : call'[q].root = call[q].root
    BY <2>2 DEF Moved, Same
  <2>4. Closed(history) /\ Quiet(call[r].root)
    BY <1>3, <1>5, <2>1 DEF Leaves
  <2>5. UNCHANGED <<history, turn, quota, loop>> /\ ~AtWork(r)'
    BY <1>3, <1>5 DEF AtWork
  <2>6. Speaks(r)'
    BY <2>3, <2>4, <2>5 DEF Speaks, In, Quiet
  <2>7. ~turn'[r].aborted /\ turn'[r].step # "asking"
    BY <1>2, <2>5 DEF Serves, Unaborted, CalmNow, At
  <2> QED BY <1>2, <2>2, <2>5, <2>6, <2>7, ServesOn DEF CalmNow
<1> QED BY <1>4, <1>5 DEF UserSpeaks

\* The model goes on with a text, which fits the closed history, or no turn is left.
LEMMA CalmModelSpeaks ==
    ASSUME TInv, IsCalm, CalmNow, Stage, NEW r \in Request, ModelSpeaks(r), UNCHANGED <<ui, work>>
    PROVE  CalmNow' /\ Stage'
<1>0. PICK n \in Fresh : n = NextRequest
  BY NextIsFresh DEF ModelSpeaks
<1> DEFINE calls == [call EXCEPT ![r].phase = "over"]
           c == [call[r] EXCEPT !.message = User("text", None), !.left = @ - 1]
           d == [call[r] EXCEPT !.phase = "over"]
           root == call[r].root
<1>1. /\ call \in [Request -> Call] /\ call[r] \in Call /\ Sane(call[r])
      /\ call[r].phase = "speaking" /\ r \in Begun
  BY DEF ModelSpeaks, In, TInv, ClientTypes, Begun, Fresh
<1>2. Serves(r) /\ Speaks(r)
  BY <1>1, StageOf, CommandsPhase, ServesPhase DEF Rests
<1>3. Send(n, c, calls)
  BY <1>0 DEF ModelSpeaks
<1>4. n \in Request /\ n # r /\ call[n].phase = "none"
  BY <1>1 DEF Fresh
<1>5. At(n, "idle") /\ ~turn[n].got.asked /\ ~turn[n].aborted
  BY DEF TInv, FreshInv, CalmNow
<1>6. call[r].left - 1 \in 0 .. MaxTurns
  BY <1>1, ClientAssumption DEF Sane, Call
<1>7. /\ c \in Call /\ c.kind = call[r].kind /\ c.message = User("text", None)
      /\ c.root = root /\ c.stale = call[r].stale /\ c.left = call[r].left - 1
  <2>1. User("text", None) \in Message
    BY UserType DEF RequestOrNone
  <2> QED BY <1>1, <1>6, <2>1 DEF Call
<1>8. d \in Call /\ d.phase = "over" /\ Same(call[r], d)
  BY <1>1 DEF Call, Phase, Same
<1>9. calls = [call EXCEPT ![r] = d]
  BY <1>1
<1> HIDE DEF c, d
<1>10. calls \in [Request -> Call] /\ calls[r] = d /\ \A q \in Request \ {r} : calls[q] = call[q]
  BY <1>1, <1>8, <1>9
<1>11. Fits(history, c.message)
  BY <1>2, <1>7 DEF Speaks, Fits, User
<1> HIDE DEF calls
<1>12. \A q \in Request : ~AtWork(q)
  BY <1>1, <1>2 DEF CalmNow, In, Serves, OnlyOne, Rests
<1>13. root \in Request /\ ui.controller # None
  BY <1>1, <1>2 DEF CalmNow, Serves, TInv, SessionTypes, Ui
<1>14. ASSUME NEW phases \in SUBSET (Phase \ {"none"}), Moved(calls, n, c, phases)
       PROVE  /\ call'[n].phase \in phases
              /\ call'[n].kind = "prompt" /\ ~call'[n].stale /\ call'[n].root = root
              /\ call'[n].message = c.message
              /\ \A q \in Request \ {n} : call'[q].phase \in {"none", "over"} /\ ~call'[q].stale
              /\ \A q \in Request \ {n} : call'[q].root = call[q].root
              /\ Fresh' \subseteq Fresh
  <2>1. /\ call'[n].phase \in phases /\ Same(c, call'[n]) /\ call'[r] = d
        /\ \A q \in Request \ {n, r} : call'[q] = call[q]
    BY <1>4, <1>10, <1>14 DEF Moved
  <2>2. call'[n].phase \in phases /\ call'[n].phase # "none"
    BY <1>14, <2>1
  <2>3. \A q \in Request \ {n} : call'[q].phase \in {"none", "over"} /\ ~call'[q].stale
                                 /\ call'[q].root = call[q].root
    BY <1>2, <1>8, <2>1 DEF Serves, OnlyOne, Rests, Same, CalmNow
  <2>4. /\ call'[n].kind = "prompt" /\ ~call'[n].stale /\ call'[n].root = root
        /\ call'[n].message = c.message
    BY <1>2, <1>7, <2>1 DEF Same, Serves, CalmNow
  <2>5. Fresh' \subseteq Fresh
    BY <1>1, <1>8, <2>1 DEF Fresh
  <2> QED BY <2>2, <2>3, <2>4, <2>5
<1>15. CASE c.left > 0
  <2>1. /\ Whole(history') /\ Fits(history', c.message) /\ ~loop'.found
        /\ UNCHANGED <<turn, quota>>
        /\ Moved(calls, n, c, {"routing", "checking", "compressing"})
        /\ \/ call'[n].phase = "compressing" /\ call'[n].copy = history'
           \/ call'[n].phase \in {"routing", "checking"} /\ n \in captured'
    BY <1>3, <1>4, <1>7, <1>10, <1>11, <1>15, SendOpens
  <2>2. /\ call'[n].kind = "prompt" /\ ~call'[n].stale /\ call'[n].root = root
        /\ call'[n].message = c.message
        /\ \A q \in Request \ {n} : call'[q].phase \in {"none", "over"} /\ ~call'[q].stale
        /\ \A q \in Request \ {n} : call'[q].root = call[q].root
        /\ Fresh' \subseteq Fresh
    BY <1>14, <2>1 DEF Phase
  <2>3. \A q \in Request : call'[q].root = call'[n].root => ~turn[q].got.asked /\ ~turn[q].aborted
    BY <1>2, <1>5, <2>2 DEF Speaks, Serves, Quiet, Unaborted
  <2>4. ui'.controller # None /\ ui'.open = {call'[n].root} /\ ui'.responding /\ work' = <<>>
    BY <1>2, <1>13, <2>2 DEF Serves
  <2>5. CalmNow' /\ Serves(n)'
    BY <1>4, <1>5, <1>12, <1>13, <2>1, <2>2, <2>3, <2>4, OpensServes
  <2> QED BY <1>4, <2>5 DEF Stage
<1>16. CASE c.left = 0
  <2>1. /\ call' = [calls EXCEPT ![n] = [c EXCEPT !.phase = "over"]]
        /\ UNCHANGED <<history, turn, quota>>
    BY <1>3, <1>16 DEF Send, ToTheModel
  <2>2. ~loop'.found
    BY <1>3, <1>16 DEF Send, NoLoop, TInv, ClientTypes, Loop, CalmNow
  <2>3. Moved(calls, n, c, {"over"})
    BY <1>4, <1>7, <1>10, <2>1, MovesOn
  <2>4. /\ call'[n].phase = "over" /\ ~call'[n].stale /\ call'[n].root = root
        /\ \A q \in Request \ {n} : call'[q].phase \in {"none", "over"} /\ ~call'[q].stale
        /\ \A q \in Request \ {n} : call'[q].root = call[q].root
        /\ Fresh' \subseteq Fresh
    BY <1>14, <2>3 DEF Phase
  <2>5. CalmNow'
    BY <1>12, <1>13, <2>1, <2>2, <2>4 DEF CalmNow, At, AtWork, In
  <2>6. PICK x \in Request : x = root
    BY <1>13
  <2>7. Leaves(x, n)'
    BY <1>2, <1>5, <2>1, <2>4, <2>6 DEF Leaves, Speaks, Quiet
  <2>8. Closes(x)'
    BY <1>2, <1>4, <2>4, <2>6, <2>7 DEF Closes, Serves, Rests
  <2> QED BY <2>5, <2>8 DEF Stage
<1>17. c.left > 0 \/ c.left = 0
  <2>1. c.left \in 0 .. MaxTurns
    BY <1>6, <1>7
  <2>2. ASSUME NEW k \in 0 .. MaxTurns PROVE k > 0 \/ k = 0
    BY ClientAssumption
  <2> QED BY <2>1, <2>2
<1> QED BY <1>15, <1>16, <1>17

LEMMA CalmClient ==
    ASSUME TInv, IsCalm, CalmNow, Stage, NEW r \in Request, ClientStep(r)
    PROVE  CalmNow' /\ Stage'
<1>1. UNCHANGED <<ui, work>>
  BY DEF ClientStep
<1>2. ~CompressionThrows(r) /\ ~LoopSeen(r)
  BY NoMishap DEF CompressionThrows, LoopSeen, Mishap
<1> QED BY <1>1, <1>2, CalmInflated, CalmCompress, CalmNoLoopSeen, CalmRoute, CalmTurnOver,
           CalmModelSpeaks DEF ClientStep

-----------------------------------------------------------------------------
(* What the chat does in the calm session.                                 *)

\* A step of the turn of r: the calls stay as they are.
LEMMA TurnGoesOn ==
    ASSUME TInv, CalmNow, NEW r \in Request, Serves(r), In(r, "reading"), call' = call,
           NEW t, turn' = [turn EXCEPT ![r] = t], ~t.aborted, t.step # "asking",
           Whole(history'), ~loop'.found, quota' = quota, UNCHANGED <<ui, work>>,
           Streams(r)' \/ Replied(r)'
    PROVE  CalmNow' /\ Stage'
<1>1. turn'[r] = t /\ \A q \in Request \ {r} : turn'[q] = turn[q]
  BY DEF TInv, ChatTypes
<1>2. Moved(call, r, call[r], {"routing", "checking", "reading", "speaking"})
  BY DEF Moved, Same, In
<1> QED BY <1>1, <1>2, ServesOn DEF In

\* Who is in a turn is served, and nobody has aborted it.
LEMMA InATurn ==
    ASSUME TInv, CalmNow, Stage, NEW r \in Request, AtWork(r)
    PROVE  /\ Serves(r) /\ In(r, "reading") /\ (Waits(r) \/ Streams(r))
           /\ turn \in [Request -> Turn] /\ turn[r] \in Turn /\ ~turn[r].aborted
           /\ call[r].root \in Request
<1>1. In(r, "reading")
  BY DEF CalmNow
<1>2. Serves(r)
  BY <1>1, StageOf, CommandsPhase DEF Rests, In
<1>3. Waits(r) \/ Streams(r)
  BY <1>1, <1>2, ServesPhase DEF In, Replied, At, AtWork
<1> QED BY <1>1, <1>2, <1>3 DEF Serves, Unaborted, TInv, ChatTypes, SessionTypes, Ui

\* The message follows what it answers: a whole history is sent.
LEMMA CalmProceed ==
    ASSUME TInv, TInv', IsCalm, CalmNow, Stage, NEW r \in Request, Proceed(r),
           UNCHANGED <<call, loop, ui, work>>
    PROVE  CalmNow' /\ Stage' /\ Paired(history')
<1> DEFINE t == [turn[r] EXCEPT !.step = "calling", !.attempt = 1, !.tries = 1]
<1>1. At(r, "waiting") /\ AtWork(r) /\ quota' = quota
  BY DEF Proceed, At, AtWork
<1>2. /\ Serves(r) /\ In(r, "reading") /\ Waits(r)
      /\ turn \in [Request -> Turn] /\ turn[r] \in Turn /\ ~turn[r].aborted
  BY <1>1, InATurn DEF Streams, At
<1>3. history' = Append(history, turn[r].message) /\ turn' = [turn EXCEPT ![r] = t]
  BY <1>2 DEF Proceed, Waits
<1>4. turn[r].message \in Entry /\ turn[r].message.kind # "calls"
  BY <1>2 DEF Turn, Message, Entry
<1>5. Whole(history') /\ Last(history') = turn[r].message
  BY <1>2, <1>3, <1>4, WholeAppend DEF TInv, ChatTypes, CalmNow, Waits
<1>6. Closed(history')
  BY <1>4, <1>5 DEF Closed
<1>7. t.step = "calling" /\ ~t.aborted /\ ~t.detached /\ t.got = turn[r].got
  BY <1>2 DEF Turn, Waits
<1> HIDE DEF t
<1>8. Streams(r)'
  <2>1. turn'[r] = t /\ \A q \in Request \ {r} : turn'[q] = turn[q]
    BY <1>2, <1>3
  <2>2. OnlyAsks(call[r].root, r)'
    BY <1>2, <1>7, <2>1 DEF Waits, Quiet, OnlyAsks
  <2> QED BY <1>2, <1>6, <1>7, <2>1, <2>2 DEF Streams, In, At
<1>9. CalmNow' /\ Stage'
  BY <1>1, <1>2, <1>3, <1>5, <1>7, <1>8, TurnGoesOn DEF CalmNow
<1> QED BY <1>5, <1>6, <1>9, WholeIsPaired DEF TInv, ChatTypes

\* The stream of r is asked for.
LEMMA CallGoesOn ==
    ASSUME TInv, CalmNow, NEW r \in Request, Serves(r), In(r, "reading"), Streams(r),
           UNCHANGED <<history, quota, call, loop, ui, work>>,
           NEW t, turn' = [turn EXCEPT ![r] = t], ~t.aborted, ~t.detached,
           t.step = "calling" \/ t.step = "streaming",
           t.got = Nothing \/ (t.step = "calling" /\ t.got = turn[r].got)
    PROVE  CalmNow' /\ Stage'
<1>1. turn'[r] = t /\ \A q \in Request \ {r} : turn'[q] = turn[q]
  BY DEF TInv, ChatTypes
<1>2. OnlyAsks(call[r].root, r)'
  BY <1>1 DEF Streams, OnlyAsks
<1>3. Streams(r)'
  BY <1>1, <1>2 DEF Streams, In, At, Nothing
<1> QED BY <1>3, TurnGoesOn DEF CalmNow

\* The request is made, made once more, or made anew.
LEMMA CalmCalls ==
    ASSUME TInv, IsCalm, CalmNow, Stage, NEW r \in Request,
           CallSucceeds(r) \/ CallIsRetried(r) \/ DelayEnds(r), UNCHANGED <<call, loop, ui, work>>
    PROVE  CalmNow' /\ Stage'
<1>1. AtWork(r) /\ ~At(r, "waiting")
  BY DEF CallSucceeds, CallIsRetried, DelayEnds, At, AtWork
<1>2. /\ Serves(r) /\ In(r, "reading") /\ Streams(r) /\ ~turn[r].detached
      /\ turn \in [Request -> Turn] /\ turn[r] \in Turn /\ ~turn[r].aborted
  BY <1>1, InATurn DEF Waits, Streams
<1>3. PICK t : /\ turn' = [turn EXCEPT ![r] = t] /\ ~t.aborted /\ ~t.detached
               /\ t.step = "calling" \/ t.step = "streaming"
               /\ t.got = Nothing \/ (t.step = "calling" /\ t.got = turn[r].got)
  <2>1. CASE CallSucceeds(r)
    <3> DEFINE t == [turn[r] EXCEPT !.step = "streaming", !.got = Nothing]
    <3>1. t.step = "streaming" /\ ~t.aborted /\ ~t.detached /\ t.got = Nothing
      BY <1>2 DEF Turn
    <3>2. turn' = [turn EXCEPT ![r] = t]
      BY <1>2, <2>1 DEF CallSucceeds
    <3> HIDE DEF t
    <3> QED BY <3>1, <3>2
  <2>2. CASE CallIsRetried(r)
    <3> DEFINE t == [turn[r] EXCEPT !.tries = @ + 1]
    <3>1. t.step = "calling" /\ ~t.aborted /\ ~t.detached /\ t.got = turn[r].got
      BY <1>2, <2>2 DEF Turn, CallIsRetried, At
    <3>2. turn' = [turn EXCEPT ![r] = t]
      BY <1>2, <2>2 DEF CallIsRetried
    <3> HIDE DEF t
    <3> QED BY <3>1, <3>2
  <2>3. CASE DelayEnds(r)
    <3> DEFINE t == [turn[r] EXCEPT !.step = "calling", !.tries = 1, !.attempt = @ + 1,
                                    !.got = Nothing]
    <3>1. t.step = "calling" /\ ~t.aborted /\ ~t.detached /\ t.got = Nothing
      BY <1>2 DEF Turn
    <3>2. turn' = [turn EXCEPT ![r] = t]
      BY <1>2, <2>3 DEF DelayEnds
    <3> HIDE DEF t
    <3> QED BY <3>1, <3>2
  <2> QED BY <2>1, <2>2, <2>3
<1>4. UNCHANGED <<history, quota>>
  BY <1>2 DEF CallSucceeds, CallIsRetried, DelayEnds
<1> QED BY <1>2, <1>3, <1>4, CallGoesOn

LEMMA CalmChat ==
    ASSUME TInv, TInv', IsCalm, CalmNow, Stage, NEW r \in Request, ChatStep(r)
    PROVE  CalmNow' /\ Stage' /\ (Proceed(r) => Paired(history'))
<1>1. UNCHANGED <<call, loop, ui, work>>
  BY DEF ChatStep
<1>2. ~QuotaExhausted(r) \/ ~May("quota")
  BY NoMishap DEF Mishap
<1>3. ~FallbackGranted(r) /\ ~FallbackDeclined(r)
  BY DEF FallbackGranted, FallbackDeclined, CalmNow
<1>4. ~((May("break") \/ turn[r].aborted \/ Refused(r)) /\ CallFails(r))
  <2>1. ~May("break") /\ ~Refused(r)
    BY NoMishap DEF Mishap, Refused, CalmNow
  <2>2. CallFails(r) => ~turn[r].aborted
    BY InATurn DEF CallFails, At, AtWork
  <2> QED BY <2>1, <2>2
<1>5. Proceed(r) \/ CallSucceeds(r) \/ CallIsRetried(r) \/ DelayEnds(r)
  BY <1>2, <1>3, <1>4 DEF ChatStep
<1>6. Proceed(r) => ~CallSucceeds(r) /\ ~CallIsRetried(r) /\ ~DelayEnds(r)
  BY DEF Proceed, CallSucceeds, CallIsRetried, DelayEnds, At
<1> QED BY <1>1, <1>5, <1>6, CalmProceed, CalmCalls

\* The reply is in the history, with its calls or without.
LEMMA CalmStream ==
    ASSUME TInv, IsCalm, CalmNow, Stage, NEW r \in Request, StreamStops(r)
    PROVE  CalmNow' /\ Stage'
<1>1. UNCHANGED <<call, loop, ui, work>> /\ AtWork(r) /\ At(r, "streaming")
  BY DEF StreamStops, StreamEnds, SeesAbort, StreamIsInvalid, StreamBreaks, At, AtWork
<1>2. /\ Serves(r) /\ In(r, "reading") /\ Streams(r) /\ ~turn[r].detached
      /\ turn \in [Request -> Turn] /\ turn[r] \in Turn /\ ~turn[r].aborted
      /\ turn[r].got.call <=> turn[r].got.asked
  BY <1>1, InATurn DEF Waits, Streams, At
<1>3. StreamEnds(r) \/ (turn[r].attempt < MaxAttempts /\ StreamIsInvalid(r))
  BY <1>2, NoMishap DEF StreamStops, SeesAbort, Mishap
<1>4. CASE StreamIsInvalid(r) /\ turn[r].attempt < MaxAttempts
  <2> DEFINE t == [turn[r] EXCEPT !.step = "delay"]
  <2>1. turn' = [turn EXCEPT ![r] = t] /\ UNCHANGED <<history, quota>>
    BY <1>2, <1>4 DEF StreamIsInvalid
  <2>2. t.step = "delay" /\ ~t.aborted /\ ~t.detached /\ t.got = turn[r].got
    BY <1>2 DEF Turn
  <2> HIDE DEF t
  <2>3. turn'[r] = t /\ \A q \in Request \ {r} : turn'[q] = turn[q]
    BY <1>2, <2>1
  <2>4. OnlyAsks(call[r].root, r)'
    BY <1>1, <1>2, <2>2, <2>3 DEF Streams, OnlyAsks
  <2>5. Streams(r)'
    BY <1>1, <1>2, <2>1, <2>2, <2>3, <2>4 DEF Streams, In, At
  <2> QED BY <1>1, <1>2, <2>1, <2>2, <2>5, TurnGoesOn DEF CalmNow
<1>5. CASE StreamEnds(r)
  <2> DEFINE t == Finished(turn[r], "done")
             e == Model(IF turn[r].got.call THEN "calls" ELSE "reply", r)
  <2>1. turn' = [turn EXCEPT ![r] = t] /\ quota' = quota /\ history' = Append(history, e)
    BY <1>2, <1>5 DEF StreamEnds
  <2>2. t.step = "done" /\ ~t.aborted /\ t.got.asked = turn[r].got.asked
    BY <1>2, FinishedType DEF Over
  <2>3. /\ e \in Entry /\ e.of = r
        /\ e.kind = IF turn[r].got.call THEN "calls" ELSE "reply"
    BY ModelType DEF Model, RequestOrNone
  <2> HIDE DEF t, e
  <2>4. Fits(history, e)
    BY <1>2, <2>3 DEF Streams, Fits
  <2>5. Whole(history') /\ Last(history') = e
    BY <2>1, <2>3, <2>4, WholeAppend DEF TInv, ChatTypes, CalmNow
  <2>6. turn'[r] = t /\ \A q \in Request \ {r} : turn'[q] = turn[q]
    BY <1>2, <2>1
  <2>7. OnlyAsks(call[r].root, r)'
    BY <1>1, <1>2, <2>2, <2>6 DEF Streams, OnlyAsks
  <2>8. CASE turn[r].got.call
    <3>1. Calls(history', r) /\ turn'[r].got.asked /\ call'[r].kind = "prompt"
      BY <1>1, <1>2, <2>2, <2>3, <2>5, <2>6, <2>8 DEF Calls, Serves
    <3>2. Leaves(call[r].root, r)'
      BY <2>7, <3>1 DEF Leaves
    <3>3. Replied(r)'
      BY <1>1, <1>2, <2>2, <2>6, <3>2 DEF Replied, In, At
    <3> QED BY <1>1, <1>2, <2>1, <2>2, <2>5, <3>3, TurnGoesOn DEF CalmNow
  <2>9. CASE ~turn[r].got.call
    <3>1. Closed(history') /\ ~turn'[r].got.asked
      BY <1>2, <2>2, <2>3, <2>5, <2>6, <2>9 DEF Closed
    <3>2. Quiet(call[r].root)'
      BY <2>7, <3>1 DEF Quiet, OnlyAsks
    <3>3. Leaves(call[r].root, r)'
      BY <3>1, <3>2 DEF Leaves
    <3>4. Replied(r)'
      BY <1>1, <1>2, <2>2, <2>6, <3>3 DEF Replied, In, At
    <3> QED BY <1>1, <1>2, <2>1, <2>2, <2>5, <3>4, TurnGoesOn DEF CalmNow
  <2> QED BY <2>8, <2>9
<1> QED BY <1>3, <1>4, <1>5

\* A chunk is received: a call that comes is asked for, and nothing is a loop.
LEMMA CalmRead ==
    ASSUME TInv, IsCalm, CalmNow, Stage, NEW r \in Request, ReadChunk(r)
    PROVE  CalmNow' /\ Stage'
<1>1. PICK chunk \in Chunk, verdict \in [repeats : 0 .. LoopThreshold, found : BOOLEAN] :
          Read(r, chunk, verdict)
  BY DEF ReadChunk
<1>2. UNCHANGED <<ui, work>>
  BY DEF ReadChunk
<1>3. PICK c : c = Passed(r, chunk)
  OBVIOUS
<1>4. ~verdict.found /\ ~loop.found /\ ~(c.thought /\ c.call # "no")
  BY <1>1, <1>3, NoMishap DEF Read, Mishap, CalmNow
<1>5. ~Verdict(c, verdict)
  BY <1>4 DEF Verdict
<1>6. Receive(r, chunk) /\ call' = call
  BY <1>1, <1>3, <1>5 DEF Read
<1>7. ~loop'.found
  BY <1>1, <1>3, <1>4, <1>5 DEF Read, TInv, ClientTypes, Loop
<1>8. AtWork(r) /\ At(r, "streaming")
  BY <1>6 DEF Receive, At, AtWork
<1>9. /\ Serves(r) /\ In(r, "reading") /\ Streams(r) /\ ~turn[r].detached
      /\ turn \in [Request -> Turn] /\ turn[r] \in Turn /\ ~turn[r].aborted
      /\ turn[r].got.call <=> turn[r].got.asked
  BY <1>8, InATurn DEF Waits, Streams, At
<1> DEFINE got == [text |-> turn[r].got.text \/ c.text,
                   call |-> turn[r].got.call \/ c.call # "no",
                   asked |-> turn[r].got.asked \/ (c.call # "no" /\ ~c.thought),
                   mutator |-> turn[r].got.mutator \/ c.call = "mutator",
                   finish |-> c.finish,
                   cut |-> Cut(r, chunk)]
           t == [turn[r] EXCEPT !.got = got]
<1>10. turn' = [turn EXCEPT ![r] = t] /\ UNCHANGED <<history, quota>>
  BY <1>3, <1>6, <1>9 DEF Receive
<1>11. got.call <=> got.asked
  BY <1>4, <1>9
<1> HIDE DEF got
<1>12. t.step = "streaming" /\ ~t.aborted /\ ~t.detached /\ t.got = got
  BY <1>8, <1>9 DEF Turn, At
<1> HIDE DEF t
<1>13. turn'[r] = t /\ \A q \in Request \ {r} : turn'[q] = turn[q]
  BY <1>9, <1>10
<1>14. OnlyAsks(call[r].root, r)'
  BY <1>6, <1>9, <1>13 DEF Streams, OnlyAsks
<1>15. Streams(r)'
  BY <1>6, <1>9, <1>10, <1>11, <1>12, <1>13, <1>14 DEF Streams, In, At
<1> QED BY <1>2, <1>6, <1>7, <1>9, <1>10, <1>12, <1>15, TurnGoesOn DEF CalmNow

-----------------------------------------------------------------------------
(* What becomes of the calls in the calm session.                          *)

LEMMA AtWorks ==
    ASSUME TInv, CalmNow, Stage, work # <<>>
    PROVE  \E q \in Request : /\ Works(q) /\ Head(work) = q /\ Tail(work) = <<>>
                              /\ ui.controller # None
<1>1. PICK q \in Request : Works(q)
  BY DEF Stage, Idles, Commands, Serves, Closes
<1>2. Head(work) = q /\ Tail(work) = <<>>
  BY <1>1 DEF Works
<1>3. Begun # {}
  BY <1>1 DEF Works, In, Begun, Fresh
<1> QED BY <1>1, <1>2, <1>3 DEF CalmNow

\* Nobody is in a turn while the calls run.
LEMMA NobodyAtWork ==
    ASSUME CalmNow, NEW q \in Request, Works(q)
    PROVE  \A x \in Request : ~AtWork(x)
BY DEF CalmNow, Works, Rests, In

\* All calls were cancelled: their responses follow them all the same.
LEMMA CalmToolsCancelled ==
    ASSUME TInv, IsCalm, CalmNow, Stage, ToolsCancelled
    PROVE  CalmNow' /\ Stage'
<1>1. PICK q \in Request : Works(q) /\ Head(work) = q /\ Tail(work) = <<>>
  BY AtWorks DEF ToolsCancelled
<1> DEFINE e == User("responses", q)
<1>2. /\ history' = Append(history, e) /\ work' = <<>>
      /\ UNCHANGED <<turn, quota, call, loop, ui>>
  BY <1>1 DEF ToolsCancelled, AddHistory
<1>3. e \in Entry /\ e.kind = "responses" /\ e.of = q
  BY UserType DEF RequestOrNone, User
<1> HIDE DEF e
<1>4. Fits(history, e)
  BY <1>1, <1>3 DEF Works, Calls, Fits
<1>5. Whole(history') /\ Last(history') = e
  BY <1>2, <1>3, <1>4, WholeAppend DEF TInv, ChatTypes, CalmNow
<1>6. CalmNow'
  BY <1>2, <1>5 DEF CalmNow, At, AtWork, In, Fresh, Begun
<1>7. Idles'
  BY <1>1, <1>2, <1>3, <1>5 DEF Works, Idles, Rests, Closed
<1> QED BY <1>6, <1>7 DEF Stage

\* The responses are sent: they fit the history, which ends with their calls.
LEMMA CalmToolsContinue ==
    ASSUME TInv, IsCalm, CalmNow, Stage, ToolsContinue
    PROVE  CalmNow' /\ Stage'
<1>0. PICK n \in Fresh : n = NextRequest
  BY NextIsFresh DEF ToolsContinue
<1>1. PICK q \in Request : Works(q) /\ Head(work) = q /\ Tail(work) = <<>> /\ ui.controller # None
  BY AtWorks DEF ToolsContinue
<1> DEFINE c == [call[q] EXCEPT !.root = n, !.left = MaxTurns, !.message = User("responses", q)]
<1>2. /\ Send(n, c, call) /\ work' = <<>>
      /\ ui' = [Responds(n) EXCEPT !.controller = n, !.cancelled = FALSE]
  BY <1>0, <1>1 DEF ToolsContinue
<1>3. call \in [Request -> Call] /\ call[q] \in Call /\ n \in Request
  BY DEF TInv, ClientTypes, Fresh
<1>4. /\ c \in Call /\ c.kind = "prompt" /\ ~c.stale /\ c.root = n /\ c.left > 0
      /\ c.message = User("responses", q)
  <2>1. User("responses", q) \in Message /\ MaxTurns \in 0 .. MaxTurns /\ MaxTurns > 0
    BY UserType, ClientAssumption DEF RequestOrNone
  <2> QED BY <1>1, <1>3, <2>1 DEF Call, Works, CalmNow
<1> HIDE DEF c
<1>5. Fits(history, c.message)
  BY <1>1, <1>4 DEF Works, Calls, Fits, User
<1>6. /\ Whole(history') /\ Fits(history', c.message) /\ ~loop'.found
      /\ UNCHANGED <<turn, quota>>
      /\ Moved(call, n, c, {"routing", "checking", "compressing"})
      /\ \/ call'[n].phase = "compressing" /\ call'[n].copy = history'
         \/ call'[n].phase \in {"routing", "checking"} /\ n \in captured'
  BY <1>2, <1>3, <1>4, <1>5, SendOpens
<1>7. Same(c, call'[n]) /\ \A x \in Request \ {n} : call'[x] = call[x]
  BY <1>6 DEF Moved
<1>8. /\ call'[n].kind = "prompt" /\ ~call'[n].stale /\ call'[n].root = n
      /\ call'[n].message = c.message
  BY <1>4, <1>7 DEF Same
<1>9. \A x \in Request \ {n} : call'[x].phase \in {"none", "over"} /\ ~call'[x].stale
  BY <1>1, <1>7 DEF Works, Rests, CalmNow
<1>10. At(n, "idle") /\ ~turn[n].got.asked /\ ~turn[n].aborted
  BY DEF TInv, FreshInv, CalmNow
<1>11. \A x \in Request \ {n} : call'[x].root # n
  BY <1>3, <1>7, ChatAssumption DEF TInv, FreshInv, Begun
<1>12. \A x \in Request : call'[x].root = call'[n].root => ~turn[x].got.asked /\ ~turn[x].aborted
  BY <1>8, <1>10, <1>11
<1>13. Fresh' \subseteq Fresh
  BY <1>3, <1>7 DEF Fresh
<1>14. ui'.controller # None /\ ui'.open = {call'[n].root} /\ ui'.responding
  BY <1>1, <1>2, <1>3, <1>8, ChatAssumption DEF Responds, Works, TInv, SessionTypes, Ui
<1>15. \A x \in Request : ~AtWork(x)
  BY <1>1, NobodyAtWork
<1>16. CalmNow' /\ Serves(n)'
  BY <1>2, <1>3, <1>6, <1>8, <1>9, <1>10, <1>12, <1>13, <1>14, <1>15, OpensServes
<1> QED BY <1>3, <1>16 DEF Stage

LEMMA CalmTools ==
    ASSUME TInv, IsCalm, CalmNow, Stage, ToolStep
    PROVE  CalmNow' /\ Stage'
<1>1. ~ToolsWithheld
  BY AtWorks DEF ToolsWithheld, CalmNow
<1> QED BY <1>1, CalmToolsCancelled, CalmToolsContinue DEF ToolStep

\* Esc finds calls that run, and aborts the signal of their submission or of none.
LEMMA CalmEscape ==
    ASSUME TInv, IsCalm, CalmNow, Stage, Escape
    PROVE  CalmNow' /\ Stage'
<1>1. ui.open = {} /\ work # <<>>
  BY NoMishap DEF Escape, Mishap, IsIdle
<1>2. PICK q \in Request : Works(q) /\ ui.controller # None
  BY <1>1, AtWorks
<1>3. /\ turn' = [x \in Request |-> IF call[x].root = ui.controller
                                  THEN [turn[x] EXCEPT !.aborted = TRUE] ELSE turn[x]]
      /\ UNCHANGED <<history, quota, call, loop, work>>
  BY DEF Escape
<1>4. ui'.open = ui.open /\ ui'.controller = ui.controller
  BY DEF Escape, TInv, SessionTypes, Ui
<1>5. \A x \in Request : turn'[x].step = turn[x].step
  BY <1>3 DEF TInv, ChatTypes, Turn
<1>6. \A x \in Fresh : ~turn'[x].aborted
  BY <1>2, <1>3 DEF TInv, FreshInv, CalmNow, Fresh
<1>7. CalmNow'
  BY <1>3, <1>4, <1>5, <1>6 DEF CalmNow, At, AtWork, In, Fresh, Begun
<1>8. Works(q)'
  BY <1>2, <1>3, <1>4 DEF Works, Rests, In
<1> QED BY <1>7, <1>8 DEF Stage

LEMMA CalmDisable ==
    ASSUME TInv, IsCalm, CalmNow, Stage
    PROVE  ~DisableLoopDetection
BY DEF DisableLoopDetection, CalmNow

-----------------------------------------------------------------------------
(* The calm session sends paired histories.                                *)

LEMMA CalmInit ==
    ASSUME Init
    PROVE  CalmNow /\ Stage
<1>1. /\ history = NewChat /\ turn = [r \in Request |-> NoTurn] /\ call = [r \in Request |-> NoCall]
      /\ ~quota.occurred /\ ~quota.fallback /\ ~quota.switched /\ ~loop.found
      /\ ui.controller = None /\ ui.open = {} /\ work = <<>>
  BY DEF Init, ClientInit, ChatInit, NoLoop
<1>2. \A q \in Request : /\ call[q].phase = "none" /\ ~call[q].stale
                         /\ turn[q].step = "idle" /\ ~turn[q].aborted
  BY <1>1 DEF NoCall, NoTurn
<1>3. CalmNow
  BY <1>1, <1>2, NewChatIsWhole DEF CalmNow, At, AtWork, In, Begun, Fresh
<1>4. Idles
  BY <1>1, <1>2, NewChatIsWhole DEF Idles, Rests
<1> QED BY <1>3, <1>4 DEF Stage

\* Only Proceed sends a message.
LEMMA SendsProceeds ==
    ASSUME TInv, [Next]_vars, NEW r \in Request, Sends(r)
    PROVE  Proceed(r) /\ ChatStep(r)
<1>1. turn[r].step = "waiting" /\ turn'[r].step = "calling" /\ turn \in [Request -> Turn]
  BY DEF Sends, At, TInv, ChatTypes
<1>2. ~UNCHANGED turn
  BY <1>1
<1>3. ~Type /\ ~DisableLoopDetection /\ ~SubmitStep /\ ~UNCHANGED vars
  BY <1>2 DEF Type, DisableLoopDetection, SubmitStep, Submit, vars, clientVars, chatVars
<1>4. ~ToolStep
  BY <1>2 DEF ToolStep, ToolsCancelled, ToolsWithheld, ToolsContinue, AddHistory, Send, ToTheModel,
              clientVars, chatVars
<1>5. ~Escape
  BY <1>1 DEF Escape, Turn
<1>6. ASSUME NEW x \in Request, ReadChunk(x) \/ StreamStops(x) PROVE FALSE
  <2>1. turn[x].step = "streaming" /\ \A q \in Request \ {x} : turn'[q] = turn[q]
    <3>1. CASE ReadChunk(x)
      BY <1>1, <3>1 DEF ReadChunk, Read, Receive, StopReading, At
    <3>2. CASE StreamStops(x)
      BY <1>1, <3>2, ChatStepFrame DEF StreamStops, StreamEnds, SeesAbort, StreamIsInvalid,
                                       StreamBreaks, At, TInv
    <3> QED BY <1>6, <3>1, <3>2
  <2> QED BY <1>1, <2>1
<1>7. ASSUME NEW x \in Request, \/ SendPrompt(x) \/ RunShell(x) \/ ShellOver(x) \/ ReplyOver(x)
      PROVE  FALSE
  BY <1>2, <1>7 DEF SendPrompt, Send, ToTheModel, RunShell, ShellOver, AddHistory, ReplyOver,
                    clientVars, chatVars
<1>8. ASSUME NEW x \in Request, RunCommand(x) PROVE FALSE
  <2>1. turn' = [q \in Request |-> [turn[q] EXCEPT !.detached = @ \/ ~At(q, "idle")]]
    BY <1>2, <1>8 DEF RunCommand, ResetChat, chatVars
  <2> QED BY <1>1, <2>1 DEF Turn
<1>9. ASSUME NEW x \in Request, ClientStep(x) PROVE FALSE
  <2>1. CASE \/ Inflated(x) \/ CompressionThrows(x) \/ NoLoopSeen(x) \/ LoopSeen(x)
             \/ TurnOver(x) \/ UserSpeaks(x) \/ ModelSpeaks(x)
    BY <1>2, <2>1 DEF Inflated, CompressionThrows, NoLoopSeen, LoopSeen, TurnOver, UserSpeaks,
                      ModelSpeaks, Send, ToTheModel, chatVars
  <2>2. CASE Compress(x)
    BY <1>1, <2>2, CompressTypes
  <2>3. ASSUME NEW model \in Models, Route(x, model, Aborted(call[x].root)) PROVE FALSE
    BY <1>1, <2>3 DEF Route, Begin, At
  <2> QED BY <1>9, <2>1, <2>2, <2>3 DEF ClientStep
<1>10. PICK x \in Request : ChatStep(x)
  BY <1>3, <1>4, <1>5, <1>6, <1>7, <1>8, <1>9 DEF Next, RequestStep
<1>11. x = r
  BY <1>1, <1>10, ChatStepFrame DEF ChatStep, TInv
<1>12. Proceed(r)
  BY <1>1, <1>10, <1>11 DEF ChatStep, CallSucceeds, CallIsRetried, DelayEnds, CallFails,
                            QuotaExhausted, FallbackGranted, FallbackDeclined, At
<1> QED BY <1>10, <1>11, <1>12

\* One step of the calm session.
LEMMA CalmStep ==
    ASSUME TInv, TInv', IsCalm, CalmNow, Stage, [Next]_vars
    PROVE  CalmNow' /\ Stage'
<1>1. CASE UNCHANGED vars
  BY <1>1, NothingHappens DEF vars, clientVars, chatVars
<1>2. CASE Type \/ Escape \/ DisableLoopDetection \/ SubmitStep \/ ToolStep
  BY <1>2, CalmType, CalmEscape, CalmDisable, CalmSubmit, CalmTools DEF SubmitStep
<1>3. ASSUME NEW r \in Request, RequestStep(r) \/ ReadChunk(r) \/ StreamStops(r)
      PROVE  CalmNow' /\ Stage'
  BY <1>3, CalmSendPrompt, CalmCommand, CalmShell, CalmReplyOver, CalmClient, CalmChat,
     CalmRead, CalmStream DEF RequestStep
<1> QED BY <1>1, <1>2, <1>3 DEF Next

\* What may happen is chosen once.
LEMMA WorldStays ==
    ASSUME TInv, [Next]_vars
    PROVE  world' = world
<1>1. CASE UNCHANGED vars
  BY <1>1 DEF vars, clientVars
<1>2. CASE Type \/ Escape \/ DisableLoopDetection \/ SubmitStep \/ ToolStep
  BY <1>2 DEF Type, Escape, DisableLoopDetection, SubmitStep, Submit, ToolStep, ToolsCancelled,
              ToolsWithheld, ToolsContinue, clientVars
<1>3. ASSUME NEW r \in Request, RequestStep(r) \/ ReadChunk(r) \/ StreamStops(r)
      PROVE  world' = world
  BY <1>3 DEF RequestStep, SendPrompt, RunCommand, RunShell, ShellOver, ReplyOver, ClientStep,
              ChatStep, ReadChunk, StreamStops, clientVars
<1> QED BY <1>1, <1>2, <1>3 DEF Next

LEMMA CalmNext == TInv /\ TInv' /\ CalmInv /\ [Next]_vars => CalmInv'
BY WorldStays, CalmStep DEF CalmInv, IsCalm

\* In a session without a mishap the chat never sends a history in which a call and
\* its responses are apart (geminiChat.ts), whatever the client compresses, notes and
\* continues, for every number of prompts, requests and turns.
THEOREM CalmSessionsArePaired == Spec => CalmRequestsArePaired
<1>1. Init => CalmInv
  BY CalmInit DEF CalmInv
<1>2. TInv /\ TInv' /\ CalmInv /\ [Next]_vars
      => (IsCalm => \A r \in Request : Sends(r) => Paired(history'))
  <2> SUFFICES ASSUME TInv, TInv', CalmInv, [Next]_vars, IsCalm, NEW r \in Request, Sends(r)
               PROVE  Paired(history')
    OBVIOUS
  <2> QED BY SendsProceeds, CalmChat DEF CalmInv
<1> QED BY <1>1, <1>2, CalmNext, TInvInit, TInvNext, PTL DEF Spec, CalmRequestsArePaired

-----------------------------------------------------------------------------
(* The session nobody interrupts: whatever breaks, one prompt at a time.   *)

Steady == ~May("overlap") /\ ~May("esc")
Served == {"compressing", "checking", "routing", "reading", "speaking"}

\* A prompt or a command is looked at, a shell command runs, or /compress does.
Looks(r) ==
    /\ OnlyOne(r) /\ ui.open = {} /\ work = <<>>
    /\ \/ In(r, "preparing") /\ ~ui.typed /\ call[r].root = r /\ Quiet(r)
       \/ In(r, "shell") /\ ui.responding
       \/ In(r, "compressing") /\ call[r].kind = "compress" /\ ~ui.typed

\* A request of a submission whose other requests asked for nothing.
Goes(r) ==
    /\ OnlyOne(r) /\ ui.open = {call[r].root} /\ work = <<>> /\ ui.responding
    /\ call[r].phase \in Served /\ call[r].kind = "prompt"
    /\ OnlyAsks(call[r].root, r)
    /\ In(r, "speaking") => ~turn[r].got.asked

\* The requests of the submission are over.
Ceases(root) ==
    /\ \A q \in Request : Rests(q)
    /\ ui.open = {root} /\ work = <<>> /\ ui.responding
    /\ \E r \in Request : OnlyAsks(root, r)

\* Nothing is read: the calls of one request run, or none.
Pauses ==
    /\ \A q \in Request : Rests(q)
    /\ ui.open = {}
    /\ work = <<>> \/ \E q \in Request : work = <<q>> /\ call[q].kind = "prompt"

OneByOne == Pauses \/ \E r \in Request : Looks(r) \/ Goes(r) \/ Ceases(r)
\* Who is in a turn is read, and only a prompt asks for calls.
Ordered ==
    \A q \in Request : /\ AtWork(q) => In(q, "reading")
                       /\ turn[q].got.asked => call[q].kind = "prompt"
\* Nothing that was received since the loop was found makes a reply.
LoopHolds ==
    loop.found => \A q \in Request :
        At(q, "streaming") /\ call[q].prompt = client.prompt => ~ValidStream(q)
SteadyInv == Steady => Ordered /\ OneByOne /\ LoopHolds

LEMMA GoesOf ==
    ASSUME OneByOne, NEW q \in Request, ~Rests(q)
    PROVE  Looks(q) \/ Goes(q)
BY DEF OneByOne, Pauses, Looks, Goes, Ceases, OnlyOne

\* A turn takes a step, or none.
LEMMA TurnSteps ==
    ASSUME TInv, Ordered, OneByOne, NEW r \in Request, AtWork(r),
           \A q \in Request \ {r} : turn'[q] = turn[q], UNCHANGED <<call, ui, work>>
    PROVE  Ordered' /\ OneByOne'
<1>1. In(r, "reading") /\ Goes(r)
  <2>1. In(r, "reading")
    BY DEF Ordered
  <2> QED BY <2>1, GoesOf DEF Looks, Rests, In
<1>2. Ordered'
  BY <1>1 DEF Ordered, AtWork, In, Goes
<1>3. Goes(r)'
  BY <1>1 DEF Goes, OnlyOne, Rests, OnlyAsks, In
<1> QED BY <1>2, <1>3 DEF OneByOne

\* Only the input line sees it.
LEMMA NothingMoves ==
    ASSUME Ordered, OneByOne, UNCHANGED <<call, work>>, ui'.open = ui.open,
           ui'.responding = ui.responding \/ Pauses,
           \A q \in Request : turn'[q].step = turn[q].step /\ turn'[q].got = turn[q].got,
           \A r \in Request : \/ In(r, "preparing")
                              \/ In(r, "compressing") /\ call[r].kind = "compress"
                              => ui'.typed = ui.typed
    PROVE  Ordered' /\ OneByOne'
<1>1. Ordered'
  BY DEF Ordered, AtWork, In
<1>2. CASE Pauses
  <2>1. Pauses'
    BY <1>2 DEF Pauses, Rests
  <2> QED BY <1>1, <2>1 DEF OneByOne
<1>3. CASE ~Pauses
  <2>1. PICK r \in Request : Looks(r) \/ Goes(r) \/ Ceases(r)
    BY <1>3 DEF OneByOne
  <2>2. Looks(r) => Looks(r)'
    BY <1>3 DEF Looks, OnlyOne, Rests, In, Quiet
  <2>3. Goes(r) => Goes(r)'
    BY <1>3 DEF Goes, OnlyOne, Rests, In, OnlyAsks
  <2>4. Ceases(r) => Ceases(r)'
    BY <1>3 DEF Ceases, Rests, OnlyAsks
  <2> QED BY <1>1, <2>1, <2>2, <2>3, <2>4 DEF OneByOne
<1> QED BY <1>2, <1>3

\* A request goes on or begins, and is then the only one, or it is over.
LEMMA OneGoes ==
    ASSUME TInv, Ordered, NEW n \in Request, NEW root \in Request,
           \A q \in Request \ {n} : Rests(q)' /\ ~AtWork(q)',
           \A q \in Request : turn'[q].got.asked => call'[q].kind = "prompt",
           AtWork(n)' => In(n, "reading")',
           call'[n].kind = "prompt", call'[n].root = root,
           call'[n].phase \in Served \cup {"over"},
           OnlyAsks(root, n)', In(n, "speaking")' => ~turn'[n].got.asked,
           ui'.open = {root}, ui'.responding, work' = <<>>
    PROVE  Ordered' /\ OneByOne'
<1>1. Ordered'
  BY DEF Ordered
<1>2. CASE call'[n].phase \in Served
  <2>1. Goes(n)'
    BY <1>2 DEF Goes, OnlyOne
  <2> QED BY <1>1, <2>1 DEF OneByOne
<1>3. CASE call'[n].phase = "over"
  <2>1. Ceases(root)'
    BY <1>3 DEF Ceases, Rests
  <2> QED BY <1>1, <2>1 DEF OneByOne
<1> QED BY <1>2, <1>3

\* The command is over.
LEMMA LooksNoMore ==
    ASSUME Ordered, NEW r \in Request, Looks(r), Moved(call, r, call[r], {"over"}),
           \A q \in Request : turn'[q].step = turn[q].step /\ turn'[q].got = turn[q].got,
           ui'.open = ui.open, work' = work
    PROVE  Ordered' /\ OneByOne'
<1>1. /\ call'[r].phase = "over" /\ Same(call[r], call'[r])
      /\ \A q \in Request \ {r} : call'[q] = call[q] /\ Rests(q)
      /\ call[r].phase # "reading"
  BY DEF Moved, Looks, OnlyOne, In
<1>2. \A q \in Request : Rests(q)' /\ call'[q].kind = call[q].kind
  BY <1>1 DEF Rests, Same
<1>3. Ordered'
  BY <1>1, <1>2 DEF Ordered, AtWork, In
<1>4. Pauses'
  BY <1>2 DEF Pauses, Looks
<1> QED BY <1>3, <1>4 DEF OneByOne

\* What the client does with /compress ends it.
LEMMA LooksClient ==
    ASSUME TInv, Ordered, OneByOne, NEW r \in Request, Looks(r), ClientStep(r)
    PROVE  Ordered' /\ OneByOne'
<1>1. call[r].phase = "compressing" /\ call[r].kind # "prompt"
  BY DEF Looks, In, ClientStep, Inflated, Compress, CompressionThrows, NoLoopSeen, LoopSeen, Route,
         TurnOver, UserSpeaks, ModelSpeaks
<1>2. Inflated(r) \/ Compress(r) \/ CompressionThrows(r)
  BY <1>1 DEF In, ClientStep, NoLoopSeen, LoopSeen, Route, TurnOver, UserSpeaks, ModelSpeaks
<1>3. Ends(r)
  BY <1>1, <1>2 DEF Inflated, Compress, CompressionThrows
<1>4. \A q \in Request : turn'[q].step = turn[q].step /\ turn'[q].got = turn[q].got
  BY <1>2, CompressTypes DEF Inflated, CompressionThrows, chatVars
<1> QED BY <1>3, <1>4, EndsMoves, LooksNoMore DEF TInv, ClientStep

\* The request of a prompt goes on.
LEMMA ClientMoves ==
    ASSUME TInv, Ordered, NEW r \in Request, Goes(r), ClientStep(r), ~ModelSpeaks(r)
    PROVE  /\ Moved(call, r, call[r], {"checking", "routing", "reading", "speaking", "over"})
           /\ \A q \in Request \ {r} : turn'[q].step = turn[q].step /\ turn'[q].got = turn[q].got
           /\ turn'[r].got.asked => turn[r].got.asked
           /\ AtWork(r)' => In(r, "reading")'
           /\ In(r, "speaking")' => ~turn'[r].got.asked
<1> DEFINE phases == {"checking", "routing", "reading", "speaking", "over"}
           same == \A q \in Request : turn'[q].step = turn[q].step /\ turn'[q].got = turn[q].got
<1>0. call \in [Request -> Call] /\ call[r] \in Call /\ call[r].kind = "prompt"
  BY DEF TInv, ClientTypes, Goes
<1>1. CASE Inflated(r) \/ Compress(r)
  <2>1. In(r, "compressing") /\ ~AtWork(r)
    BY <1>1 DEF Inflated, Compress, Ordered, In
  <2>2. same
    BY <1>1, CompressTypes DEF Inflated
  <2>3. Moved(call, r, call[r], {"routing", "checking"})
    BY <1>0, <1>1, ToTheModelMoves DEF Inflated, Compress
  <2> QED BY <2>1, <2>2, <2>3 DEF Moved, In, AtWork
<1>2. CASE Ends(r) /\ (CompressionThrows(r) \/ LoopSeen(r) \/ UserSpeaks(r) \/ TurnOver(r))
  <2>1. turn' = turn /\ ~AtWork(r)
    BY <1>2 DEF CompressionThrows, LoopSeen, UserSpeaks, TurnOver, chatVars, Ordered, In, AtWork, Over
  <2>2. Moved(call, r, call[r], {"over"})
    BY <1>2, EndsMoves DEF TInv
  <2> QED BY <2>1, <2>2 DEF Moved, In, AtWork
<1>3. CASE NoLoopSeen(r)
  <2>1. turn' = turn /\ ~AtWork(r)
    BY <1>3 DEF NoLoopSeen, chatVars, Ordered, In
  <2>2. call' = [call EXCEPT ![r] = [call[r] EXCEPT !.phase = "routing"]]
    BY <1>0, <1>3 DEF NoLoopSeen
  <2>3. Moved(call, r, call[r], {"routing"})
    BY <1>0, <2>2, MovesOn
  <2> QED BY <2>1, <2>3 DEF Moved, In, AtWork
<1>4. CASE TurnOver(r) /\ ~Ends(r)
  <2>1. turn' = turn /\ ~AtWork(r) /\ ~turn[r].got.asked
    BY <1>4 DEF TurnOver, chatVars, AtWork, Over
  <2>2. call' = [call EXCEPT ![r] = [call[r] EXCEPT !.phase = "speaking"]]
    BY <1>0, <1>4 DEF TurnOver
  <2>3. Moved(call, r, call[r], {"speaking"})
    BY <1>0, <2>2, MovesOn
  <2> QED BY <2>1, <2>3 DEF Moved, In, AtWork
<1>5. ASSUME NEW model \in Models, Route(r, model, Aborted(call[r].root))
      PROVE  /\ Moved(call, r, call[r], {"reading"}) /\ ~turn'[r].got.asked
             /\ \A q \in Request \ {r} : turn'[q] = turn[q]
  <2>1. Aborted(call[r].root) \in BOOLEAN
    BY DEF Aborted
  <2>2. ~turn'[r].got.asked
    BY <1>5 DEF Route, Begin, NoTurn, Nothing, TInv, ChatTypes
  <2> QED BY <1>5, <2>1, <2>2, RouteTypes
<1>6. CASE \E model \in Models : Route(r, model, Aborted(call[r].root))
  BY <1>5, <1>6 DEF Moved, In
<1>7. UserSpeaks(r) \/ LoopSeen(r) \/ CompressionThrows(r) => Ends(r)
  BY DEF UserSpeaks, LoopSeen, CompressionThrows
<1> QED BY <1>1, <1>2, <1>3, <1>4, <1>6, <1>7 DEF ClientStep

LEMMA ClientGoes ==
    ASSUME TInv, Ordered, NEW r \in Request, Goes(r), ClientStep(r), ~ModelSpeaks(r)
    PROVE  Ordered' /\ OneByOne'
<1>1. /\ Moved(call, r, call[r], {"checking", "routing", "reading", "speaking", "over"})
      /\ \A q \in Request \ {r} : turn'[q].step = turn[q].step /\ turn'[q].got = turn[q].got
      /\ turn'[r].got.asked => turn[r].got.asked
      /\ AtWork(r)' => In(r, "reading")'
      /\ In(r, "speaking")' => ~turn'[r].got.asked
  BY ClientMoves
<1>2. /\ call'[r].phase \in {"checking", "routing", "reading", "speaking", "over"}
      /\ Same(call[r], call'[r]) /\ \A q \in Request \ {r} : call'[q] = call[q]
  BY <1>1 DEF Moved
<1>3. PICK root \in Request : root = call[r].root
  BY DEF Goes, TInv, SessionTypes, Ui
<1>4. \A q \in Request \ {r} : Rests(q)' /\ ~AtWork(q)'
  BY <1>1, <1>2 DEF Goes, OnlyOne, Rests, Ordered, AtWork, In
<1>5. \A q \in Request : turn'[q].got.asked => call'[q].kind = "prompt"
  BY <1>1, <1>2 DEF Same, Ordered
<1>6. OnlyAsks(root, r)'
  BY <1>1, <1>2, <1>3 DEF Same, Goes, OnlyAsks
<1>7. call'[r].kind = "prompt" /\ call'[r].root = root /\ call'[r].phase \in Served \cup {"over"}
  BY <1>2, <1>3 DEF Same, Goes, Served
<1>8. ui'.open = {root} /\ ui'.responding /\ work' = <<>>
  BY <1>3 DEF Goes, ClientStep
<1> QED BY <1>1, <1>4, <1>5, <1>6, <1>7, <1>8, OneGoes

\* The model goes on in a request of the same submission.
LEMMA ModelGoes ==
    ASSUME TInv, Ordered, OneByOne, NEW r \in Request, ModelSpeaks(r), UNCHANGED <<ui, work>>
    PROVE  Ordered' /\ OneByOne'
<1>1. PICK n \in Fresh : n = NextRequest
  BY NextIsFresh DEF ModelSpeaks
<1>2. Goes(r) /\ In(r, "speaking") /\ n \in Request
  <2>1. In(r, "speaking") /\ ~Rests(r)
    BY DEF ModelSpeaks, In, Rests
  <2> QED BY <2>1, GoesOf DEF Looks, In, Fresh
<1>3. /\ turn' = turn /\ n # r
      /\ call'[r].phase = "over" /\ Same(call[r], call'[r])
      /\ call'[n].phase \in {"routing", "checking", "compressing", "over"}
      /\ call'[n].kind = call[r].kind /\ call'[n].root = call[r].root
      /\ \A q \in Request \ {r, n} : call'[q] = call[q]
  BY <1>1, ModelSpeaksTypes
<1>4. At(n, "idle") /\ ~turn[n].got.asked
  BY DEF TInv, FreshInv
<1>5. PICK root \in Request : root = call[r].root
  BY <1>2 DEF Goes, TInv, SessionTypes, Ui
<1>6. \A q \in Request \ {n} : Rests(q)' /\ ~AtWork(q)'
  <2>1. ~AtWork(r)
    BY <1>2 DEF Ordered, In
  <2>2. \A q \in Request \ {r, n} : Rests(q) /\ ~AtWork(q)
    BY <1>2 DEF Goes, OnlyOne, Ordered, Rests, In
  <2> QED BY <1>3, <2>1, <2>2 DEF Rests, AtWork
<1>7. \A q \in Request : turn'[q].got.asked => call'[q].kind = "prompt"
  BY <1>3, <1>4 DEF Same, Ordered
<1>8. OnlyAsks(root, n)'
  BY <1>2, <1>3, <1>4, <1>5 DEF Same, Goes, OnlyAsks
<1>9. call'[n].kind = "prompt" /\ call'[n].phase \in Served \cup {"over"} /\ ~In(n, "speaking")'
  BY <1>2, <1>3 DEF Goes, Served, In
<1>10. ~AtWork(n)'
  BY <1>3, <1>4 DEF AtWork, At
<1>11. ui'.open = {root} /\ ui'.responding /\ work' = <<>>
  BY <1>2, <1>5 DEF Goes
<1> QED BY <1>2, <1>3, <1>5, <1>6, <1>7, <1>8, <1>9, <1>10, <1>11, OneGoes

\* What is typed waits until nothing goes on.
LEMMA SteadySubmit ==
    ASSUME TInv, Ordered, OneByOne, NEW kind \in Kind, Submit(kind)
    PROVE  Ordered' /\ OneByOne'
<1>0. PICK r \in Fresh : r = NextRequest
  BY NextIsFresh DEF Submit
<1> DEFINE prompt == CHOOSE p \in UnusedPrompts : TRUE
           c == [NoCall EXCEPT !.phase = "preparing", !.kind = kind, !.root = r,
                               !.prompt = prompt, !.message = User("text", None),
                               !.left = MaxTurns, !.stale = quota.switched]
<1>1. /\ call' = [call EXCEPT ![r] = c] /\ call \in [Request -> Call] /\ r \in Request
      /\ ui' = [ui EXCEPT !.typed = FALSE, !.cancelled = FALSE, !.controller = r]
      /\ turn' = turn /\ work' = work
  BY <1>0 DEF Submit, TInv, ClientTypes, Fresh
<1> HIDE DEF prompt
<1>2. c.phase = "preparing" /\ c.root = r
  BY DEF NoCall
<1> HIDE DEF c
<1>3. /\ call'[r] = c /\ \A q \in Request \ {r} : call'[q] = call[q]
      /\ ~ui'.typed /\ ui'.open = ui.open
  BY <1>1 DEF TInv, SessionTypes, Ui
<1>4. Pauses /\ work = <<>>
  <2>1. work = <<>> /\ ~ui.responding /\ ui.typed
    BY DEF Submit, IsIdle
  <2> QED BY <2>1 DEF OneByOne, Looks, Goes, Ceases
<1>5. At(r, "idle") /\ ~turn[r].got.asked
  BY DEF TInv, FreshInv
<1>6. \A q \in Request \ {r} : call'[q].root # r
  BY <1>1, <1>3, ChatAssumption DEF TInv, FreshInv, Begun
<1>7. Ordered'
  BY <1>1, <1>3, <1>5 DEF Ordered, AtWork, At, In
<1>8. Looks(r)'
  <2>1. OnlyOne(r)'
    BY <1>3, <1>4 DEF Pauses, OnlyOne, Rests
  <2>2. Quiet(r)'
    BY <1>1, <1>5, <1>6 DEF Quiet
  <2> QED BY <1>1, <1>2, <1>3, <1>4, <2>1, <2>2 DEF Looks, Pauses, In
<1> QED BY <1>1, <1>7, <1>8 DEF OneByOne

LEMMA SteadySendPrompt ==
    ASSUME TInv, Ordered, OneByOne, NEW r \in Request, SendPrompt(r)
    PROVE  Ordered' /\ OneByOne'
<1>1. /\ call \in [Request -> Call] /\ call[r] \in Call
      /\ call[r].phase = "preparing" /\ call[r].kind = "prompt"
      /\ Send(r, call[r], call) /\ ui' = Responds(r) /\ work' = work /\ turn' = turn
  BY DEF SendPrompt, In, TInv, ClientTypes, Send
<1>2. OnlyOne(r) /\ ui.open = {} /\ work = <<>> /\ call[r].root = r /\ Quiet(r)
  <2>1. Looks(r)
    BY <1>1, GoesOf DEF Rests, Goes, Served
  <2> QED BY <1>1, <2>1 DEF Looks, In
<1>3. Moved(call, r, call[r], {"routing", "checking", "compressing", "over"})
  BY <1>1, SendMoves
<1>4. /\ call'[r].phase \in {"routing", "checking", "compressing", "over"}
      /\ Same(call[r], call'[r]) /\ \A q \in Request \ {r} : call'[q] = call[q]
  BY <1>3 DEF Moved
<1>5. \A q \in Request \ {r} : Rests(q)' /\ ~AtWork(q)'
  BY <1>1, <1>2, <1>4 DEF OnlyOne, Rests, Ordered, AtWork, In
<1>6. \A q \in Request : turn'[q].got.asked => call'[q].kind = "prompt"
  BY <1>1, <1>4 DEF Same, Ordered
<1>7. OnlyAsks(r, r)'
  BY <1>1, <1>2, <1>4 DEF Same, Quiet, OnlyAsks
<1>8. /\ call'[r].kind = "prompt" /\ call'[r].root = r
      /\ call'[r].phase \in Served \cup {"over"} /\ ~In(r, "speaking")'
  BY <1>1, <1>2, <1>4 DEF Same, Served, In
<1>9. ~AtWork(r)'
  BY <1>1 DEF Ordered, AtWork, In
<1>10. ui'.open = {r} /\ ui'.responding /\ work' = <<>>
  BY <1>1, <1>2 DEF Responds, TInv, SessionTypes, Ui
<1> QED BY <1>5, <1>6, <1>7, <1>8, <1>9, <1>10, OneGoes

LEMMA SteadyCommand ==
    ASSUME TInv, Ordered, OneByOne, NEW r \in Request,
           RunCommand(r) \/ RunShell(r) \/ ShellOver(r)
    PROVE  Ordered' /\ OneByOne'
<1>1. /\ In(r, "preparing") \/ In(r, "shell")
      /\ call \in [Request -> Call] /\ call[r] \in Call
      /\ ui'.open = ui.open /\ ui'.typed = ui.typed /\ work' = work
  BY DEF RunCommand, RunShell, ShellOver, TInv, ClientTypes, SessionTypes, Ui
<1>2. Looks(r)
  BY <1>1, GoesOf DEF Rests, In, Goes, Served
<1>3. ASSUME NEW phase \in {"compressing", "shell"}, Moved(call, r, call[r], {phase}),
             turn' = turn, phase = "shell" => ui'.responding,
             phase = "compressing" => ~ui'.typed /\ call[r].kind = "compress"
      PROVE  Ordered' /\ OneByOne'
  <2>1. /\ call'[r].phase = phase /\ Same(call[r], call'[r])
        /\ \A q \in Request \ {r} : call'[q] = call[q]
    BY <1>3 DEF Moved
  <2>2. Ordered'
    BY <1>1, <1>3, <2>1 DEF Ordered, AtWork, In, Same
  <2>3. OnlyOne(r)'
    BY <1>2, <2>1 DEF Looks, OnlyOne, Rests
  <2>4. Looks(r)'
    BY <1>1, <1>2, <1>3, <2>1, <2>3 DEF Looks, In, Same
  <2> QED BY <2>2, <2>4 DEF OneByOne
<1>4. CASE RunCommand(r)
  <2>1. In(r, "preparing") /\ ui' = ui
    BY <1>4 DEF RunCommand
  <2>2. ~ui.typed
    BY <1>2, <2>1 DEF Looks, In
  <2>3. CASE /\ call[r].kind = "compress"
             /\ call' = [call EXCEPT ![r].phase = "compressing", ![r].copy = history]
             /\ UNCHANGED <<chatVars, captured, client, loop>>
    <3>1. call' = [call EXCEPT ![r] = [call[r] EXCEPT !.phase = "compressing", !.copy = history]]
      BY <1>1, <2>3
    <3>2. Moved(call, r, call[r], {"compressing"})
      BY <1>1, <3>1, Moves
    <3> QED BY <1>3, <2>1, <2>2, <2>3, <3>2 DEF chatVars
  <2>4. CASE ResetChat /\ Ends(r)
    <3>1. /\ turn' = [q \in Request |-> [turn[q] EXCEPT !.detached = @ \/ ~At(q, "idle")]]
          /\ history' \in History /\ sendPromise' = None /\ quota' = quota
      BY <2>4, NewChatIsHistory DEF ResetChat
    <3>2. \A q \in Request : turn'[q].step = turn[q].step /\ turn'[q].got = turn[q].got
      BY <3>1, DetachedTypes DEF TInv
    <3> QED BY <1>1, <1>2, <2>4, <3>2, EndsMoves, LooksNoMore DEF TInv
  <2> QED BY <1>4, <2>3, <2>4 DEF RunCommand
<1>5. CASE RunShell(r)
  <2>1. call' = [call EXCEPT ![r] = [call[r] EXCEPT !.phase = "shell"]]
    BY <1>1, <1>5 DEF RunShell
  <2>2. Moved(call, r, call[r], {"shell"})
    BY <1>1, <2>1, MovesOn
  <2>3. ui'.responding /\ turn' = turn
    BY <1>5 DEF RunShell, chatVars, TInv, SessionTypes, Ui
  <2> QED BY <1>3, <2>2, <2>3
<1>6. CASE ShellOver(r)
  BY <1>1, <1>2, <1>6, EndsMoves, LooksNoMore DEF ShellOver, AddHistory, TInv
<1> QED BY <1>4, <1>5, <1>6

\* At most one request of a submission has asked for calls.
LEMMA SteadyReplyOver ==
    ASSUME TInv, Ordered, OneByOne, NEW r \in Request, ReplyOver(r)
    PROVE  Ordered' /\ OneByOne'
<1> DEFINE asking == {q \in Of(r) : turn[q].got.asked}
<1>1. /\ r \in ui.open /\ \A q \in Of(r) : In(q, "over")
      /\ work' = work \o SetToSeq(asking) /\ UNCHANGED <<turn, call>>
      /\ ui'.open = ui.open \ {r}
  BY DEF ReplyOver, TInv, SessionTypes, Ui, clientVars, chatVars
<1>2. Ceases(r)
  <2>1. ASSUME NEW q \in Request, Goes(q) PROVE FALSE
    BY <1>1, <2>1 DEF Goes, Served, Of, In
  <2> QED BY <1>1, <2>1 DEF OneByOne, Pauses, Looks, Ceases
<1>3. PICK m \in Request : OnlyAsks(r, m)
  BY <1>2 DEF Ceases
<1>4. Ordered'
  BY <1>1 DEF Ordered, AtWork, In
<1>5. (\A q \in Request : Rests(q)') /\ ui'.open = {} /\ work = <<>>
  BY <1>1, <1>2 DEF Ceases, Rests
<1>6. asking = {} \/ (asking = {m} /\ turn[m].got.asked)
  BY <1>3 DEF Of, OnlyAsks
<1> HIDE DEF asking
<1>7. CASE asking = {}
  <2>1. work' = <<>>
    BY <1>1, <1>5, <1>7, SequenceOfNone
  <2> QED BY <1>4, <1>5, <2>1 DEF Pauses, OneByOne
<1>8. CASE asking = {m} /\ turn[m].got.asked
  <2>1. work' = <<m>>
    BY <1>1, <1>5, <1>8, SequenceOfOne
  <2>2. call'[m].kind = "prompt"
    BY <1>1, <1>8 DEF Ordered
  <2> QED BY <1>4, <1>5, <2>1, <2>2 DEF Pauses, OneByOne
<1> QED BY <1>6, <1>7, <1>8

LEMMA SteadyTools ==
    ASSUME TInv, Ordered, OneByOne, ToolStep
    PROVE  Ordered' /\ OneByOne'
<1>1. work # <<>>
  BY DEF ToolStep, ToolsCancelled, ToolsWithheld, ToolsContinue
<1>2. PICK q \in Request : Head(work) = q /\ Tail(work) = <<>> /\ call[q].kind = "prompt" /\ Pauses
  <2>1. Pauses
    BY <1>1 DEF OneByOne, Looks, Goes, Ceases
  <2>2. PICK m \in Request : work = <<m>> /\ call[m].kind = "prompt"
    BY <1>1, <2>1 DEF Pauses
  <2>3. Head(work) = m /\ Tail(work) = <<>>
    BY <2>2
  <2> QED BY <2>1, <2>2, <2>3
<1>3. CASE ToolsCancelled \/ ToolsWithheld
  <2>1. UNCHANGED <<turn, call, ui>> /\ work' = <<>>
    BY <1>2, <1>3 DEF ToolsCancelled, ToolsWithheld, AddHistory, clientVars, chatVars
  <2>2. Ordered' /\ Pauses'
    BY <1>2, <2>1 DEF Ordered, AtWork, In, Pauses, Rests
  <2> QED BY <2>2 DEF OneByOne
<1>4. CASE ToolsContinue
  <2>0. PICK n \in Fresh : n = NextRequest
    BY <1>4, NextIsFresh DEF ToolsContinue
  <2> DEFINE c == [call[q] EXCEPT !.root = n, !.left = MaxTurns, !.message = User("responses", q)]
  <2>1. /\ Send(n, c, call) /\ work' = <<>>
        /\ ui' = [Responds(n) EXCEPT !.controller = n, !.cancelled = FALSE]
    BY <1>2, <1>4, <2>0 DEF ToolsContinue
  <2>2. call \in [Request -> Call] /\ call[q] \in Call /\ n \in Request
    BY DEF TInv, ClientTypes, Fresh
  <2>3. c \in Call /\ c.kind = "prompt" /\ c.root = n
    <3>1. User("responses", q) \in Message /\ MaxTurns \in 0 .. MaxTurns
      BY UserType, ClientAssumption DEF RequestOrNone
    <3> QED BY <1>2, <2>2, <3>1 DEF Call
  <2> HIDE DEF c
  <2>4. turn' = turn /\ Moved(call, n, c, {"routing", "checking", "compressing", "over"})
    BY <2>1, <2>2, <2>3, SendMoves DEF Send
  <2>5. /\ call'[n].phase \in {"routing", "checking", "compressing", "over"}
        /\ call'[n].kind = "prompt" /\ call'[n].root = n
        /\ \A x \in Request \ {n} : call'[x] = call[x]
    BY <2>3, <2>4 DEF Moved, Same
  <2>6. At(n, "idle") /\ ~turn[n].got.asked
    BY DEF TInv, FreshInv
  <2>7. \A x \in Request \ {n} : Rests(x)' /\ ~AtWork(x)'
    BY <1>2, <2>4, <2>5 DEF Pauses, Rests, Ordered, AtWork, In
  <2>8. \A x \in Request : turn'[x].got.asked => call'[x].kind = "prompt"
    BY <2>4, <2>5 DEF Ordered
  <2>9. OnlyAsks(n, n)'
    <3>1. \A x \in Request \ {n} : call'[x].root # n
      BY <2>2, <2>5, ChatAssumption DEF TInv, FreshInv, Begun
    <3> QED BY <3>1 DEF OnlyAsks
  <2>10. call'[n].phase \in Served \cup {"over"} /\ ~In(n, "speaking")' /\ ~AtWork(n)'
    BY <2>4, <2>5, <2>6 DEF Served, In, At, AtWork
  <2>11. ui'.open = {n} /\ ui'.responding
    BY <1>2, <2>1 DEF Responds, Pauses, TInv, SessionTypes, Ui
  <2> QED BY <2>1, <2>2, <2>5, <2>7, <2>8, <2>9, <2>10, <2>11, OneGoes
<1> QED BY <1>3, <1>4 DEF ToolStep

\* Esc reaches no reply, only calls that run.
LEMMA SteadyUser ==
    ASSUME TInv, Steady, Ordered, OneByOne,
           Type \/ Escape \/ DisableLoopDetection \/ UNCHANGED vars
    PROVE  Ordered' /\ OneByOne'
<1>1. CASE Type
  <2>1. /\ UNCHANGED <<turn, call, work>> /\ ui' = [ui EXCEPT !.typed = TRUE]
        /\ \A r \in Request : In(r, "compressing") => call[r].kind = "prompt"
        /\ Preparing = {}
    BY <1>1 DEF Type, clientVars, chatVars, Steady
  <2>2. ui'.open = ui.open /\ ui'.responding = ui.responding
    BY <2>1 DEF TInv, SessionTypes, Ui
  <2> QED BY <2>1, <2>2, NothingMoves DEF Preparing
<1>2. CASE Escape
  <2>1. ~IsIdle /\ ui.open = {} /\ ~ui.responding
    BY <1>2 DEF Escape, Steady
  <2>2. Pauses
    BY <2>1 DEF IsIdle, OneByOne, Looks, Goes, Ceases
  <2>3. UNCHANGED <<call, work>> /\ ui'.open = ui.open
    BY <1>2 DEF Escape, TInv, SessionTypes, Ui
  <2>4. \A q \in Request : turn'[q].step = turn[q].step /\ turn'[q].got = turn[q].got
    BY <1>2 DEF Escape, TInv, ChatTypes, Turn
  <2>5. Ordered'
    BY <2>3, <2>4 DEF Ordered, AtWork, In
  <2>6. Pauses'
    BY <2>2, <2>3 DEF Pauses, Rests
  <2> QED BY <2>5, <2>6 DEF OneByOne
<1>3. CASE DisableLoopDetection \/ UNCHANGED vars
  BY <1>3, NothingMoves DEF DisableLoopDetection, vars, clientVars, chatVars
<1> QED BY <1>1, <1>2, <1>3

LEMMA SteadyTurn ==
    ASSUME TInv, Ordered, OneByOne, NEW r \in Request,
           ChatStep(r) \/ StreamStops(r) \/ ReadChunk(r)
    PROVE  Ordered' /\ OneByOne'
<1>1. CASE ChatStep(r) \/ StreamStops(r)
  <2>1. UNCHANGED <<call, ui, work>> /\ AtWork(r)
    BY <1>1 DEF ChatStep, StreamStops, Proceed, CallSucceeds, CallIsRetried, DelayEnds, CallFails,
                QuotaExhausted, FallbackGranted, FallbackDeclined, StreamEnds, SeesAbort,
                StreamIsInvalid, StreamBreaks, At, AtWork
  <2>2. \A q \in Request \ {r} : turn'[q] = turn[q]
    BY <1>1, ChatStepFrame DEF ChatStep, StreamStops, TInv
  <2> QED BY <2>1, <2>2, TurnSteps
<1>2. CASE ReadChunk(r)
  <2>1. PICK c \in Chunk, verdict \in [repeats : 0 .. LoopThreshold, found : BOOLEAN] :
            Read(r, c, verdict)
    BY <1>2 DEF ReadChunk
  <2>2. UNCHANGED <<ui, work>> /\ In(r, "reading") /\ At(r, "streaming") /\ AtWork(r)
    BY <1>2, <2>1 DEF ReadChunk, Read, Receive, At, AtWork
  <2>3. \A q \in Request \ {r} : turn'[q] = turn[q]
    BY <2>1 DEF Read, Receive, StopReading, TInv, ChatTypes
  <2>4. CASE call' = call
    BY <2>2, <2>3, <2>4, TurnSteps
  <2>5. CASE Ends(r) /\ StopReading(r, "stopped")
    <3>1. Goes(r)
      BY <2>2, GoesOf DEF Looks, Rests, In
    <3>2. /\ call'[r].phase = "over" /\ Same(call[r], call'[r])
          /\ \A q \in Request \ {r} : call'[q] = call[q]
      BY <2>5, EndsMoves DEF TInv, Moved
    <3>3. turn'[r].step = "stopped" /\ turn'[r].got.asked = turn[r].got.asked
      BY <2>5, FinishedType DEF StopReading, TInv, ChatTypes, Over
    <3>4. PICK root \in Request : root = call[r].root
      BY <3>1 DEF Goes, TInv, SessionTypes, Ui
    <3>5. \A q \in Request \ {r} : Rests(q)' /\ ~AtWork(q)'
      BY <2>3, <3>1, <3>2 DEF Goes, OnlyOne, Rests, Ordered, AtWork, In
    <3>6. \A q \in Request : turn'[q].got.asked => call'[q].kind = "prompt"
      BY <2>3, <3>2, <3>3 DEF Same, Ordered
    <3>7. OnlyAsks(root, r)'
      BY <2>3, <3>1, <3>2, <3>3, <3>4 DEF Same, Goes, OnlyAsks
    <3>8. /\ call'[r].kind = "prompt" /\ call'[r].root = root
          /\ call'[r].phase \in Served \cup {"over"} /\ ~In(r, "speaking")' /\ ~AtWork(r)'
      BY <3>1, <3>2, <3>3, <3>4 DEF Same, Goes, Served, In, AtWork
    <3>9. ui'.open = {root} /\ ui'.responding /\ work' = <<>>
      BY <2>2, <3>1, <3>4 DEF Goes
    <3> QED BY <3>5, <3>6, <3>7, <3>8, <3>9, OneGoes
  <2> QED BY <2>1, <2>4, <2>5 DEF Read
<1> QED BY <1>1, <1>2

LEMMA SteadyStep ==
    ASSUME TInv, Steady, Ordered, OneByOne, [Next]_vars
    PROVE  Ordered' /\ OneByOne'
<1>1. CASE Type \/ Escape \/ DisableLoopDetection \/ SubmitStep \/ ToolStep \/ UNCHANGED vars
  BY <1>1, SteadyUser, SteadySubmit, SteadyTools DEF SubmitStep
<1>2. ASSUME NEW r \in Request, ClientStep(r) PROVE Ordered' /\ OneByOne'
  <2>1. ~Rests(r)
    BY <1>2 DEF ClientStep, Inflated, Compress, CompressionThrows, NoLoopSeen, LoopSeen, Route,
                TurnOver, UserSpeaks, ModelSpeaks, In, Rests
  <2>2. UNCHANGED <<ui, work>>
    BY <1>2 DEF ClientStep
  <2> QED BY <1>2, <2>1, <2>2, GoesOf, LooksClient, ClientGoes, ModelGoes
<1>3. ASSUME NEW r \in Request, RequestStep(r) \/ ReadChunk(r) \/ StreamStops(r)
      PROVE  Ordered' /\ OneByOne'
  BY <1>2, <1>3, SteadySendPrompt, SteadyCommand, SteadyReplyOver, SteadyTurn DEF RequestStep
<1> QED BY <1>1, <1>3 DEF Next

\* A step after which only what streamed before streams, with the same received.
LEMMA LoopKeeps ==
    ASSUME LoopHolds, loop'.found => loop.found, client'.prompt = client.prompt,
           \A q \in Request : turn'[q].step = "streaming" =>
               /\ turn[q].step = "streaming" /\ turn'[q].got = turn[q].got
               /\ call'[q].prompt = call[q].prompt
    PROVE  LoopHolds'
BY DEF LoopHolds, At, ValidStream

\* What the detector is told about a request finds no loop.
LEMMA ToTheModelKeeps ==
    ASSUME NEW r, NEW c, NEW h, NEW calls, NEW detector \in Loop,
           ToTheModel(r, c, h, calls, detector)
    PROVE  loop'.found = detector.found
<1>1. \E turns : loop' = [detector EXCEPT !.turns = turns]
  BY DEF ToTheModel
<1> QED BY <1>1 DEF Loop

\* A new prompt forgets the loop, another request of the prompt does not.
LEMMA LoopSends ==
    ASSUME TInv, LoopHolds, NEW r \in Request, NEW c \in Call, NEW calls \in [Request -> Call],
           Send(r, c, calls), ~At(r, "streaming") \/ c.prompt = call[r].prompt,
           \A q \in Request \ {r} : calls[q].prompt = call[q].prompt
    PROVE  LoopHolds'
<1>1. turn' = turn /\ client'.prompt = c.prompt
  BY DEF Send, TInv, ClientTypes
<1>2. PICK detector \in Loop :
        /\ detector = IF client.prompt # c.prompt THEN [NoLoop EXCEPT !.disabled = loop.disabled]
                                                  ELSE loop
  BY DEF NoLoop, Loop, TInv, ClientTypes
<1>3. loop'.found = detector.found
  <2>1. loop' = detector \/ ToTheModel(r, c, history, calls, detector)
    BY <1>2 DEF Send
  <2> QED BY <2>1, ToTheModelKeeps DEF Loop
<1>4. CASE client.prompt # c.prompt
  <2>1. ~detector.found
    BY <1>2, <1>4 DEF NoLoop
  <2> QED BY <1>3, <2>1 DEF LoopHolds
<1>5. CASE client.prompt = c.prompt
  <2>1. loop'.found = loop.found
    BY <1>2, <1>3, <1>5
  <2>2. call'[r].prompt = c.prompt /\ \A q \in Request \ {r} : call'[q].prompt = call[q].prompt
    BY SendMoves DEF Moved, Same
  <2> QED BY <1>1, <1>5, <2>1, <2>2, LoopKeeps DEF At
<1> QED BY <1>4, <1>5

LEMMA LoopUser ==
    ASSUME TInv, LoopHolds, Type \/ Escape \/ DisableLoopDetection \/ UNCHANGED vars
    PROVE  LoopHolds'
<1>1. UNCHANGED <<call, client>> /\ loop'.found = loop.found
  BY DEF Type, Escape, DisableLoopDetection, vars, clientVars, TInv, ClientTypes, Loop
<1>2. \A q \in Request : turn'[q].step = turn[q].step /\ turn'[q].got = turn[q].got
  BY DEF Type, Escape, DisableLoopDetection, vars, clientVars, chatVars, TInv, ChatTypes, Turn
<1> QED BY <1>1, <1>2, LoopKeeps

LEMMA LoopSubmit ==
    ASSUME TInv, LoopHolds, SubmitStep \/ ToolStep
    PROVE  LoopHolds'
<1>1. ASSUME NEW kind \in Kind, Submit(kind) PROVE LoopHolds'
  <2>1. PICK r \in Fresh : r = NextRequest
    BY <1>1, NextIsFresh DEF Submit
  <2>2. UNCHANGED <<turn, client, loop>> /\ \A q \in Request \ {r} : call'[q] = call[q]
    BY <1>1, <2>1 DEF Submit, TInv, ClientTypes
  <2>3. turn[r].step = "idle"
    BY DEF TInv, FreshInv, At
  <2> QED BY <2>2, <2>3, LoopKeeps
<1>2. CASE ToolsCancelled \/ ToolsWithheld
  BY <1>2, LoopKeeps DEF ToolsCancelled, ToolsWithheld, AddHistory, clientVars, chatVars
<1>3. CASE ToolsContinue
  <2>1. PICK n \in Fresh : n = NextRequest
    BY <1>3, NextIsFresh DEF ToolsContinue
  <2>2. PICK q \in Request : q = Head(work)
    BY <1>3 DEF ToolsContinue, TInv, SessionTypes
  <2> DEFINE c == [call[q] EXCEPT !.root = n, !.left = MaxTurns, !.message = User("responses", q)]
  <2>3. Send(n, c, call)
    BY <1>3, <2>1, <2>2 DEF ToolsContinue
  <2>4. call \in [Request -> Call] /\ call[q] \in Call /\ n \in Request
    BY DEF TInv, ClientTypes, Fresh
  <2>5. c \in Call
    <3>1. User("responses", q) \in Message /\ MaxTurns \in 0 .. MaxTurns
      BY UserType, ClientAssumption DEF RequestOrNone
    <3> QED BY <2>4, <3>1 DEF Call
  <2> HIDE DEF c
  <2>6. ~At(n, "streaming")
    BY DEF TInv, FreshInv, At
  <2> QED BY <2>3, <2>4, <2>5, <2>6, LoopSends
<1> QED BY <1>1, <1>2, <1>3 DEF SubmitStep, ToolStep

LEMMA LoopCommand ==
    ASSUME TInv, LoopHolds, NEW r \in Request,
           SendPrompt(r) \/ RunCommand(r) \/ RunShell(r) \/ ShellOver(r) \/ ReplyOver(r)
    PROVE  LoopHolds'
<1>0. call \in [Request -> Call] /\ call[r] \in Call
  BY DEF TInv, ClientTypes
<1>1. CASE SendPrompt(r)
  BY <1>0, <1>1, LoopSends DEF SendPrompt
<1>2. CASE ReplyOver(r)
  BY <1>2, LoopKeeps DEF ReplyOver, clientVars, chatVars
<1>3. ASSUME NEW phase, Moved(call, r, call[r], {phase}), loop' = loop,
             client'.prompt = client.prompt,
             \A q \in Request : turn'[q].step = turn[q].step /\ turn'[q].got = turn[q].got
      PROVE  LoopHolds'
  BY <1>3, LoopKeeps DEF Moved, Same
<1>4. CASE ShellOver(r)
  BY <1>3, <1>4, EndsMoves DEF ShellOver, AddHistory, TInv
<1>5. CASE RunShell(r)
  <2>1. call' = [call EXCEPT ![r] = [call[r] EXCEPT !.phase = "shell"]]
    BY <1>0, <1>5 DEF RunShell
  <2>2. Moved(call, r, call[r], {"shell"})
    BY <1>0, <2>1, MovesOn
  <2> QED BY <1>3, <1>5, <2>2 DEF RunShell, chatVars
<1>6. CASE RunCommand(r)
  <2>1. CASE /\ call' = [call EXCEPT ![r].phase = "compressing", ![r].copy = history]
             /\ UNCHANGED <<chatVars, captured, client, loop>>
    <3>1. call' = [call EXCEPT ![r] = [call[r] EXCEPT !.phase = "compressing", !.copy = history]]
      BY <1>0, <2>1
    <3>2. Moved(call, r, call[r], {"compressing"})
      BY <1>0, <3>1, Moves
    <3> QED BY <1>3, <2>1, <3>2 DEF chatVars
  <2>2. CASE ResetChat /\ Ends(r)
    <3>1. /\ turn' = [q \in Request |-> [turn[q] EXCEPT !.detached = @ \/ ~At(q, "idle")]]
          /\ history' \in History /\ sendPromise' = None /\ quota' = quota
      BY <2>2, NewChatIsHistory DEF ResetChat
    <3>2. \A q \in Request : turn'[q].step = turn[q].step /\ turn'[q].got = turn[q].got
      BY <3>1, DetachedTypes DEF TInv
    <3>3. client'.prompt = client.prompt /\ loop' = loop
      BY <2>2 DEF ResetChat, TInv, ClientTypes
    <3> QED BY <1>3, <2>2, <3>2, <3>3, EndsMoves DEF TInv
  <2> QED BY <1>6, <2>1, <2>2 DEF RunCommand
<1> QED BY <1>1, <1>2, <1>4, <1>5, <1>6

LEMMA LoopClient ==
    ASSUME TInv, LoopHolds, NEW r \in Request, ClientStep(r)
    PROVE  LoopHolds'
<1>0. call \in [Request -> Call] /\ call[r] \in Call
  BY DEF TInv, ClientTypes
<1>1. ASSUME NEW phases, Moved(call, r, call[r], phases), loop'.found = loop.found,
             client'.prompt = client.prompt,
             \A q \in Request : turn'[q].step = turn[q].step /\ turn'[q].got = turn[q].got
      PROVE  LoopHolds'
  BY <1>1, LoopKeeps DEF Moved, Same
<1>2. CASE Inflated(r) \/ Compress(r)
  <2>1. \A q \in Request : turn'[q].step = turn[q].step /\ turn'[q].got = turn[q].got
    BY <1>2, CompressTypes DEF Inflated
  <2>2. client'.prompt = client.prompt
    BY <1>2 DEF Inflated, Compress, TInv, ClientTypes
  <2>3. loop'.found = loop.found
    <3>1. loop' = loop \/ \E h : ToTheModel(r, call[r], h, call, loop)
      BY <1>2 DEF Inflated, Compress
    <3> QED BY <3>1, ToTheModelKeeps DEF TInv, ClientTypes
  <2>4. \E phases : Moved(call, r, call[r], phases)
    BY <1>2, CompressTypes, QuietClientTypes
  <2> QED BY <1>1, <2>1, <2>2, <2>3, <2>4
<1>3. CASE CompressionThrows(r) \/ NoLoopSeen(r) \/ LoopSeen(r) \/ TurnOver(r) \/ UserSpeaks(r)
  <2>1. UNCHANGED <<turn, loop, client>>
    BY <1>3 DEF CompressionThrows, NoLoopSeen, LoopSeen, TurnOver, UserSpeaks, chatVars
  <2>2. \E phases : Moved(call, r, call[r], phases)
    BY <1>3, QuietClientTypes
  <2> QED BY <1>1, <2>1, <2>2
<1>4. ASSUME NEW model \in Models, Route(r, model, Aborted(call[r].root)) PROVE LoopHolds'
  <2>1. Aborted(call[r].root) \in BOOLEAN
    BY DEF Aborted
  <2>2. /\ Moved(call, r, call[r], {"reading"})
        /\ \A q \in Request \ {r} : turn'[q] = turn[q]
    BY <1>4, <2>1, RouteTypes
  <2>3. turn'[r].step = "waiting" /\ loop' = loop /\ client'.prompt = client.prompt
    BY <1>4 DEF Route, Begin, NoTurn, TInv, ChatTypes, ClientTypes
  <2> QED BY <2>2, <2>3, LoopKeeps DEF Moved, Same
<1>5. CASE ModelSpeaks(r)
  <2>1. PICK n \in Fresh : n = NextRequest
    BY <1>5, NextIsFresh DEF ModelSpeaks
  <2> DEFINE c == [call[r] EXCEPT !.message = User("text", None), !.left = @ - 1]
             calls == [call EXCEPT ![r].phase = "over"]
  <2>2. Send(n, c, calls) /\ In(r, "speaking")
    BY <1>5, <2>1 DEF ModelSpeaks
  <2>3. c \in Call
    <3>1. call[r].left > 0 /\ Sane(call[r])
      BY <2>2 DEF TInv, ClientTypes, Sane, In
    <3>2. User("text", None) \in Message
      BY UserType DEF RequestOrNone
    <3>3. call[r].left - 1 \in 0 .. MaxTurns
      BY <1>0, <3>1, ClientAssumption DEF Call
    <3> QED BY <1>0, <3>2, <3>3 DEF Call
  <2>4. calls \in [Request -> Call] /\ \A q \in Request : calls[q].prompt = call[q].prompt
    <3> DEFINE d == [call[r] EXCEPT !.phase = "over"]
    <3>1. d \in Call /\ d.prompt = call[r].prompt
      BY <1>0 DEF Call, Phase
    <3>2. calls = [call EXCEPT ![r] = d]
      BY <1>0
    <3> HIDE DEF d
    <3> QED BY <1>0, <3>1, <3>2
  <2> HIDE DEF c, calls
  <2>5. n \in Request /\ ~At(n, "streaming")
    BY DEF TInv, FreshInv, At, Fresh
  <2> QED BY <2>2, <2>3, <2>4, <2>5, LoopSends
<1> QED BY <1>2, <1>3, <1>4, <1>5 DEF ClientStep

\* A new attempt has received nothing.
LEMMA LoopTurn ==
    ASSUME TInv, LoopHolds, NEW r \in Request, ChatStep(r) \/ StreamStops(r)
    PROVE  LoopHolds'
<1>1. UNCHANGED <<call, loop, client>>
  BY DEF ChatStep, StreamStops
<1>2. \A q \in Request \ {r} : turn'[q] = turn[q]
  BY ChatStepFrame DEF ChatStep, StreamStops, TInv
<1>3. turn'[r].step # "streaming" \/ turn'[r].got = Nothing
  <2>1. CASE CallSucceeds(r)
    BY <2>1 DEF CallSucceeds, TInv, ChatTypes
  <2>2. \A step \in Over : Finished(turn[r], step).step = step
    BY FinishedType DEF TInv, ChatTypes
  <2>3. CASE GiveUp(r) \/ (\E step \in Over : turn' = [turn EXCEPT ![r] = Finished(@, step)])
    BY <2>2, <2>3 DEF GiveUp, Over, TInv, ChatTypes
  <2>4. CASE \E step \in {"calling", "asking", "delay"} : turn' = [turn EXCEPT ![r].step = step]
    BY <2>4 DEF TInv, ChatTypes, Turn
  <2>5. CASE Proceed(r) \/ FallbackGranted(r) \/ CallIsRetried(r)
    BY <2>5 DEF Proceed, FallbackGranted, CallIsRetried, At, TInv, ChatTypes, Turn
  <2>6. CASE DelayEnds(r) /\ ~turn[r].aborted
    BY <2>6 DEF DelayEnds, TInv, ChatTypes, Turn
  <2>7. CASE StreamEnds(r) \/ SeesAbort(r) \/ (DelayEnds(r) /\ turn[r].aborted)
    BY <2>3, <2>7 DEF StreamEnds, SeesAbort, DelayEnds, StopReading, Over
  <2>8. CASE \/ CallFails(r) \/ QuotaExhausted(r) \/ FallbackDeclined(r)
             \/ StreamIsInvalid(r) \/ StreamBreaks(r)
    BY <2>3, <2>4, <2>8 DEF CallFails, QuotaExhausted, FallbackDeclined, StreamIsInvalid, StreamBreaks
  <2> QED BY <2>1, <2>5, <2>6, <2>7, <2>8 DEF ChatStep, StreamStops
<1> QED BY <1>1, <1>2, <1>3 DEF LoopHolds, At, ValidStream, Nothing

\* The loop is found in the only request that is read, which is then stopped; after
\* that every event stops its request, and a chunk without an event makes no reply.
LEMMA LoopReads ==
    ASSUME TInv, Ordered, OneByOne, LoopHolds, NEW r \in Request, ReadChunk(r)
    PROVE  LoopHolds'
<1>1. PICK chunk \in Chunk, verdict \in [repeats : 0 .. LoopThreshold, found : BOOLEAN] :
          Read(r, chunk, verdict)
  BY DEF ReadChunk
<1> DEFINE c == Passed(r, chunk)
<1>2. /\ In(r, "reading") /\ At(r, "streaming") /\ client' = client
      /\ \A q \in Request \ {r} : turn'[q] = turn[q]
  BY <1>1 DEF Read, Receive, StopReading, TInv, ChatTypes
<1>3. /\ loop' = IF loop.disabled \/ loop.found THEN loop
                 ELSE [loop EXCEPT !.repeats = verdict.repeats, !.found = Verdict(c, verdict)]
      /\ IF Verdict(c, verdict) THEN StopReading(r, "stopped") /\ Ends(r)
                                ELSE Receive(r, chunk) /\ UNCHANGED call
  BY <1>1 DEF Read
<1>4. CASE Verdict(c, verdict)
  <2>1. turn'[r].step = "stopped"
    BY <1>3, <1>4, FinishedType DEF StopReading, TInv, ChatTypes, Over
  <2>2. \A q \in Request \ {r} : turn[q].step # "streaming"
    <3>1. Goes(r)
      BY <1>2, GoesOf DEF Looks, Rests, In
    <3> QED BY <3>1 DEF Goes, OnlyOne, Rests, Ordered, AtWork, In
  <2> QED BY <1>2, <2>1, <2>2 DEF LoopHolds, At
<1>5. CASE ~Verdict(c, verdict)
  <2>1. loop'.found => loop.found
    BY <1>3, <1>5 DEF TInv, ClientTypes, Loop
  <2>2. call' = call /\ Receive(r, chunk)
    BY <1>3, <1>5
  <2>3. ASSUME loop.found, ~ValidStream(r) PROVE ~ValidStream(r)'
    <3>1. ~c.text /\ c.call = "no" /\ ~c.finish
      BY <1>5, <2>3 DEF Verdict, Yields
    <3> DEFINE got == turn[r].got
               g == [text |-> got.text \/ c.text,
                     call |-> got.call \/ c.call # "no",
                     asked |-> got.asked \/ (c.call # "no" /\ ~c.thought),
                     mutator |-> got.mutator \/ c.call = "mutator",
                     finish |-> c.finish,
                     cut |-> Cut(r, chunk)]
    <3>2. ~g.call /\ ~g.finish
      BY <2>3, <3>1 DEF ValidStream
    <3>3. turn' = [turn EXCEPT ![r] = [turn[r] EXCEPT !.got = g]]
      BY <2>2 DEF Receive, TInv, ChatTypes
    <3> HIDE DEF g
    <3>4. turn'[r].got = g
      BY <3>3 DEF TInv, ChatTypes, Turn
    <3> QED BY <3>2, <3>4 DEF ValidStream
  <2> QED BY <1>2, <2>1, <2>2, <2>3 DEF LoopHolds, At, ValidStream
<1> QED BY <1>4, <1>5

LEMMA LoopStep ==
    ASSUME TInv, Ordered, OneByOne, LoopHolds, [Next]_vars
    PROVE  LoopHolds'
<1>1. CASE Type \/ Escape \/ DisableLoopDetection \/ SubmitStep \/ ToolStep \/ UNCHANGED vars
  BY <1>1, LoopUser, LoopSubmit
<1>2. ASSUME NEW r \in Request, RequestStep(r) \/ ReadChunk(r) \/ StreamStops(r)
      PROVE  LoopHolds'
  BY <1>2, LoopCommand, LoopClient, LoopTurn, LoopReads DEF RequestStep
<1> QED BY <1>1, <1>2 DEF Next

LEMMA SteadyInit == Init => SteadyInv
<1> SUFFICES ASSUME Init PROVE Ordered /\ OneByOne /\ LoopHolds
  BY DEF SteadyInv
<1>1. /\ turn = [q \in Request |-> NoTurn] /\ call = [q \in Request |-> NoCall]
      /\ ~loop.found /\ ui.open = {} /\ work = <<>>
  BY DEF Init, ClientInit, ChatInit, NoLoop
<1>2. \A q \in Request : Rests(q) /\ ~AtWork(q) /\ ~turn[q].got.asked
  BY <1>1 DEF Rests, AtWork, NoCall, NoTurn, Nothing
<1>3. Pauses
  BY <1>1, <1>2 DEF Pauses
<1> QED BY <1>1, <1>2, <1>3 DEF Ordered, OneByOne, LoopHolds

LEMMA SteadyNext == TInv /\ SteadyInv /\ [Next]_vars => SteadyInv'
<1> SUFFICES ASSUME TInv, SteadyInv, [Next]_vars PROVE SteadyInv'
  OBVIOUS
<1>1. Steady' => Steady
  BY WorldStays DEF Steady, May
<1> QED BY <1>1, SteadyStep, LoopStep DEF SteadyInv

\* Only StreamEnds makes a reply.
LEMMA DoneByStreamEnds ==
    ASSUME TInv, [Next]_vars, NEW r \in Request, turn'[r].step = "done", turn[r].step # "done"
    PROVE  At(r, "streaming") /\ ValidStream(r)
<1>1. turn'[r].step # turn[r].step /\ ~UNCHANGED turn /\ turn \in [Request -> Turn]
  BY DEF TInv, ChatTypes
<1>2. ~Type /\ ~DisableLoopDetection /\ ~SubmitStep /\ ~UNCHANGED vars
  BY <1>1 DEF Type, DisableLoopDetection, SubmitStep, Submit, vars, clientVars, chatVars
<1>3. ~ToolStep
  BY <1>1 DEF ToolStep, ToolsCancelled, ToolsWithheld, ToolsContinue, AddHistory, Send, ToTheModel,
              clientVars, chatVars
<1>4. ~Escape
  BY <1>1 DEF Escape, Turn
<1>5. ASSUME NEW x \in Request, SendPrompt(x) \/ RunShell(x) \/ ShellOver(x) \/ ReplyOver(x)
      PROVE  FALSE
  BY <1>1, <1>5 DEF SendPrompt, Send, ToTheModel, RunShell, ShellOver, AddHistory, ReplyOver,
                    clientVars, chatVars
<1>6. ASSUME NEW x \in Request, RunCommand(x) PROVE FALSE
  <2>1. turn' = [q \in Request |-> [turn[q] EXCEPT !.detached = @ \/ ~At(q, "idle")]]
    BY <1>1, <1>6 DEF RunCommand, ResetChat, chatVars
  <2> QED BY <1>1, <2>1 DEF Turn
<1>7. ASSUME NEW x \in Request, ClientStep(x) PROVE FALSE
  <2>1. CASE \/ Inflated(x) \/ CompressionThrows(x) \/ NoLoopSeen(x) \/ LoopSeen(x)
             \/ TurnOver(x) \/ UserSpeaks(x) \/ ModelSpeaks(x)
    BY <1>1, <2>1 DEF Inflated, CompressionThrows, NoLoopSeen, LoopSeen, TurnOver, UserSpeaks,
                      ModelSpeaks, Send, ToTheModel, chatVars
  <2>2. CASE Compress(x)
    BY <1>1, <2>2, CompressTypes
  <2>3. ASSUME NEW model \in Models, Route(x, model, Aborted(call[x].root)) PROVE FALSE
    BY <1>1, <2>3 DEF Route, Begin, NoTurn
  <2> QED BY <1>7, <2>1, <2>2, <2>3 DEF ClientStep
<1>8. ASSUME NEW x \in Request, ReadChunk(x) PROVE FALSE
  <2>1. CASE \E chunk \in Chunk : Receive(x, chunk)
    BY <1>1, <2>1 DEF Receive, Turn
  <2>2. CASE StopReading(x, "stopped")
    <3>1. turn' = [turn EXCEPT ![x] = Finished(turn[x], "stopped")]
      BY <1>1, <2>2 DEF StopReading
    <3>2. Finished(turn[x], "stopped").step = "stopped"
      BY <1>1, FinishedType DEF Over
    <3> QED BY <1>1, <3>1, <3>2
  <2> QED BY <1>8, <2>1, <2>2 DEF ReadChunk, Read
<1>9. PICK x \in Request : ChatStep(x) \/ StreamStops(x)
  BY <1>2, <1>3, <1>4, <1>5, <1>6, <1>7, <1>8 DEF Next, RequestStep
<1>10. x = r
  BY <1>1, <1>9, ChatStepFrame DEF ChatStep, StreamStops, TInv
<1>11. StreamEnds(r)
  <2>1. \A step \in Over : Finished(turn[r], step).step = step
    BY <1>1, FinishedType
  <2>2. ~StopReading(r, "cancelled") /\ ~GiveUp(r)
    BY <1>1, <2>1 DEF StopReading, GiveUp, Over
  <2>3. /\ ~Proceed(r) /\ ~CallSucceeds(r) /\ ~CallIsRetried(r) /\ ~FallbackGranted(r)
        /\ ~(DelayEnds(r) /\ ~turn[r].aborted)
    BY <1>1 DEF Proceed, CallSucceeds, CallIsRetried, FallbackGranted, DelayEnds, At, Turn
  <2>4. ~(\E step \in {"asking", "delay"} : turn' = [turn EXCEPT ![r].step = step])
    BY <1>1 DEF Turn
  <2> QED BY <1>9, <1>10, <2>2, <2>3, <2>4 DEF ChatStep, StreamStops, DelayEnds, CallFails,
             QuotaExhausted, FallbackDeclined, SeesAbort, StreamIsInvalid, StreamBreaks
<1> QED BY <1>11 DEF StreamEnds

\* In a session without Esc and without prompts prepared side by side, whatever else
\* breaks, a loop is the end of its prompt: once the detector has found one
\* (loopDetectionService.ts), no request of that prompt completes a reply until
\* another prompt is sent, however many calls are still answered.
THEOREM LoopsEndTheirPrompt == Spec => ALoopStaysStopped
<1>1. TInv /\ SteadyInv /\ [Next]_vars
      => (loop.found /\ loop'.found /\ ~May("overlap") /\ ~May("esc") =>
          \A r \in Request : turn'[r].step = "done" /\ call[r].prompt = client.prompt
                                => turn[r].step = "done")
  <2> SUFFICES ASSUME TInv, SteadyInv, [Next]_vars, loop.found, ~May("overlap"), ~May("esc"),
                      NEW r \in Request, turn'[r].step = "done",
                      call[r].prompt = client.prompt, turn[r].step # "done"
               PROVE  FALSE
    OBVIOUS
  <2> QED BY DoneByStreamEnds DEF SteadyInv, Steady, LoopHolds
<1> QED BY <1>1, SteadyInit, SteadyNext, TInvInit, TInvNext, PTL DEF Spec, ALoopStaysStopped
=============================================================================
