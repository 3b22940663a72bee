----------------------------- MODULE Telemetry -----------------------------
(***************************************************************************)
(* The queue of ClearcutLogger                                             *)
(* (packages/core/src/telemetry/clearcut-logger/clearcut-logger.ts): what  *)
(* its log functions enqueue, the flush that sends everything at once, and *)
(* the events a failed flush puts back.  Events are numbered in the order  *)
(* in which they are logged.                                               *)
(***************************************************************************)
EXTENDS Naturals, Sequences, SequencesExt

CONSTANTS
    MaxEvents,  \* MAX_EVENTS
    MaxRetry,   \* MAX_RETRY_EVENTS
    MaxLogged   \* bound: events of a session

VARIABLES
    logged,        \* how many events were logged
    events,        \* the queue
    sending,       \* eventsToSend of the flush under way
    flushing,
    pendingFlush,
    due,           \* FLUSH_INTERVAL_MS have passed since lastFlushTime
    received,      \* ghost: what the server has taken, in order
    unread         \* ghost: a reply to something the server took was not read

telemetryVars == <<logged, events, sending, flushing, pendingFlush, due, received, unread>>

TelemetryInit ==
    /\ logged = 0 /\ events = <<>> /\ sending = <<>>
    /\ flushing = FALSE /\ pendingFlush = FALSE /\ due = FALSE
    /\ received = <<>> /\ unread = FALSE

\* The newest events, at most n of them
Newest(n, s) == SubSeq(s, IF Len(s) > n THEN Len(s) - n + 1 ELSE 1, Len(s))
\* eventsToRetry
ToRetry(s) == Newest(MaxRetry, s)

\* One event too many is let in: a mistake the runs must notice.
EvictsLate(e) == Append(Newest(MaxEvents, events), e)
\* enqueueLogEvent: when the queue is full its oldest event goes.  (The comment of
\* MAX_EVENTS has it that the new event is dropped; the code and its test do not.)
Enqueued(e) == Append(Newest(MaxEvents - 1, events), e)

\* flushToClearcut, up to the request
Flush(queue) ==
    IF flushing
      THEN /\ pendingFlush' = TRUE
           /\ events' = queue
           /\ UNCHANGED <<sending, flushing>>
      ELSE /\ flushing' = TRUE /\ sending' = queue /\ events' = <<>>
           /\ UNCHANGED pendingFlush

\* A log function; the first and the last event of a session, and a fallback,
\* are flushed at once, the others when a minute has passed.
Log ==
    /\ logged < MaxLogged
    /\ logged' = logged + 1
    /\ \E atOnce \in BOOLEAN :
         IF atOnce \/ due
           THEN Flush(Enqueued(logged + 1))
           ELSE /\ events' = Enqueued(logged + 1)
                /\ UNCHANGED <<sending, flushing, pendingFlush>>
    /\ UNCHANGED <<due, received, unread>>

MinutePasses ==
    /\ ~due
    /\ due' = TRUE
    /\ UNCHANGED <<logged, events, sending, flushing, pendingFlush, received, unread>>

\* The end of flushToClearcut: a flush that was asked for meanwhile follows.
FlushEnds(queue) ==
    /\ pendingFlush' = FALSE
    /\ IF pendingFlush
         THEN flushing' = TRUE /\ sending' = queue /\ events' = <<>>
         ELSE flushing' = FALSE /\ sending' = <<>> /\ events' = queue

FlushSucceeds ==
    /\ flushing
    /\ received' = received \o sending
    /\ due' = FALSE
    /\ FlushEnds(events)
    /\ UNCHANGED <<logged, unread>>

\* The failed events follow what was logged since: a mistake the runs must notice.
RequeuesLast(failed) == events \o failed
\* The failed events come before what was logged since.
Requeues(failed) == failed \o events

\* requeueFailedEvents: the newest that may be retried and for which there is room
Requeued == Requeues(Newest(MaxEvents - Len(events), ToRetry(sending)))

\* The request fails, or the server refuses it, or the events are taken and the
\* reply is lost or is not what it should be (bound: once).
FlushFails ==
    /\ flushing
    /\ FlushEnds(Requeued)
    /\ \/ UNCHANGED <<received, unread>>
       \/ ~unread /\ received' = received \o sending /\ unread' = TRUE
    /\ due' \in {due} \cup (IF received' # received THEN {FALSE} ELSE {})
    /\ UNCHANGED logged

TelemetryNext == Log \/ MinutePasses \/ FlushSucceeds \/ FlushFails
TelemetrySpec == TelemetryInit /\ [][TelemetryNext]_telemetryVars

-----------------------------------------------------------------------------
TelemetryTypeOK ==
    /\ logged \in 0 .. MaxLogged
    /\ events \in Seq(1 .. MaxLogged) /\ Len(events) <= MaxEvents
    /\ sending \in Seq(1 .. MaxLogged) /\ Len(sending) <= MaxEvents
    /\ flushing \in BOOLEAN /\ pendingFlush \in BOOLEAN /\ due \in BOOLEAN
    /\ received \in Seq(1 .. MaxLogged)
    /\ unread \in BOOLEAN

Increasing(s) == \A i \in 1 .. Len(s) - 1 : s[i] < s[i + 1]

(* The server sees the events in the order in which they were logged, and   *)
(* none of them twice, whatever fails and is put back: only a reply that is *)
(* lost after the server has taken a batch, or cannot be parsed, has it     *)
(* sent again.                                                              *)
EventsArriveInOrder == ~unread => Increasing(received \o sending \o events)

(* However the limits of the queue and of a retry combine, the newest       *)
(* events are never among those that are dropped (enqueueLogEvent evicts    *)
(* the oldest, where the comment of MAX_EVENTS drops what is added).        *)
NewestEventsSurvive ==
    \A e \in 1 .. logged :
      e + MaxRetry > logged => e \in ToSet(received \o sending \o events)
=============================================================================
