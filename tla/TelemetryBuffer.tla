--------------------------- MODULE TelemetryBuffer --------------------------
(* The bounded buffer between the MCP tools and the telemetry sink           *)
(* (packages/mcp/src/telemetry.ts, BoundedTelemetrySink).  Records wait in a  *)
(* queue bounded in depth and in bytes; at most MaxPending writes are in      *)
(* flight, each under a deadline that frees its slot although the sink never  *)
(* answers.  An abandoned write may still settle, at any time.                *)
(*                                                                           *)
(* JavaScript runs each of these handlers to its end, so every action is a    *)
(* whole handler: a submission, a write that settles, a deadline that fires.  *)
EXTENDS Integers, FiniteSets, Sequences

CONSTANTS
  MaxPending,      \* writes in flight
  MaxQueued,       \* records that wait
  MaxQueuedBytes,  \* serialized bytes that wait
  Bytes,           \* the sizes of the submitted records
  MaxSubmissions   \* bound: submissions per behaviour

ASSUME LimitAssumption ==
  /\ {MaxPending, MaxQueued, MaxQueuedBytes} \subseteq Nat \ {0}
  /\ Bytes \subseteq Nat \ {0}
  /\ MaxSubmissions \in Nat

VARIABLES
  queue,       \* waiting records, oldest first: [id, bytes], ids in accepted order
  queuedBytes, \* #queuedBytes
  pending,     \* #pending
  dropped,     \* #dropped
  expired,     \* #expired
  inFlight,    \* writes in flight: started and their slot not released
  abandoned,   \* writes whose slot the deadline released and which have not settled
  accepted,    \* how many records the queue ever took; numbers them
  refused,     \* how many submissions it never took
  settled      \* how many writes released their slot by settling

counters == <<dropped, expired, accepted, refused, settled>>
bufferVars == <<queue, queuedBytes, pending, inFlight, abandoned, counters>>

bytesOf(s) ==
  LET sum[n \in 0..Len(s)] == IF n = 0 THEN 0 ELSE sum[n - 1] + s[n].bytes
  IN sum[Len(s)]

BufferInit ==
  /\ queue = <<>> /\ queuedBytes = 0 /\ pending = 0
  /\ inFlight = {} /\ abandoned = {}
  /\ dropped = 0 /\ expired = 0 /\ accepted = 0 /\ refused = 0 /\ settled = 0

-----------------------------------------------------------------------------
(* #drain: starts the oldest waiting records while a slot is free.  A sink    *)
(* that throws at once gives its slot back before the next record is looked   *)
(* at: thrown are the records whose write throws.                             *)

taken(q, free, thrown) ==
  CHOOSE n \in 0..Len(q) :
    LET kept(i) == Cardinality({j \in 1..i : q[j].id \notin thrown})
    IN /\ n = Len(q) \/ kept(n) = free
       /\ \A i \in 0..(n - 1) : kept(i) # free

\* The queue q, counted as b bytes, is drained; up are the writes in flight,
\* p their count, ended the writes that have settled.
Drain(q, b, p, up, ended) ==
  \E thrown \in SUBSET {q[i].id : i \in DOMAIN q} :
    LET n == taken(q, MaxPending - p, thrown)
        started == {q[i].id : i \in 1..n}
    IN /\ thrown \subseteq started
       /\ queue' = SubSeq(q, n + 1, Len(q))
       /\ queuedBytes' = b - bytesOf(SubSeq(q, 1, n))
       /\ pending' = p + Cardinality(started \ thrown)
       /\ inFlight' = up \cup (started \ thrown)
       /\ settled' = ended + Cardinality(thrown)

-----------------------------------------------------------------------------
(* writeExecution                                                            *)

\* A record over a field limit, or larger than the whole buffer.
Refuse ==
  /\ dropped' = dropped + 1
  /\ refused' = refused + 1
  /\ UNCHANGED <<queue, queuedBytes, pending, inFlight, abandoned, expired, accepted, settled>>

fits(q, b, bytes) == Len(q) < MaxQueued /\ b + bytes <= MaxQueuedBytes

\* How many of the oldest records make room for a record of the given size.
evicted(bytes) ==
  CHOOSE n \in 0..Len(queue) :
    LET room(i) == \/ i = Len(queue)
                   \/ fits(SubSeq(queue, i + 1, Len(queue)),
                           queuedBytes - bytesOf(SubSeq(queue, 1, i)), bytes)
    IN room(n) /\ \A i \in 0..(n - 1) : ~room(i)

\* The oldest records make room until both bounds hold.
Accept(bytes) ==
  LET n == evicted(bytes)
      record == [id |-> accepted + 1, bytes |-> bytes]
  IN /\ dropped' = dropped + n
     /\ accepted' = accepted + 1
     /\ Drain(Append(SubSeq(queue, n + 1, Len(queue)), record),
              queuedBytes - bytesOf(SubSeq(queue, 1, n)) + bytes, pending, inFlight, settled)
     /\ UNCHANGED <<abandoned, expired, refused>>

WriteExecution(bytes) ==
  /\ accepted + refused < MaxSubmissions
  /\ \/ Refuse
     \/ bytes <= MaxQueuedBytes /\ Accept(bytes)

-----------------------------------------------------------------------------
(* The end of a write: it settles, or its deadline fires; whichever comes     *)
(* first releases the slot.                                                   *)

\* Mutant: a late answer releases the slot again.
SettleTwice(r) ==
  /\ r \in inFlight \cup abandoned
  /\ abandoned' = abandoned \ {r}
  /\ Drain(queue, queuedBytes, pending - 1, inFlight \ {r}, settled + 1)
  /\ UNCHANGED <<dropped, expired, accepted, refused>>

\* The sink answered, with or without an error.
Settle(r) ==
  \/ /\ r \in inFlight
     /\ Drain(queue, queuedBytes, pending - 1, inFlight \ {r}, settled + 1)
     /\ UNCHANGED <<abandoned, dropped, expired, accepted, refused>>
  \/ /\ r \in abandoned
     /\ abandoned' = abandoned \ {r}
     /\ UNCHANGED <<queue, queuedBytes, pending, inFlight, counters>>

\* Mutant: the deadline only aborts the write, which keeps its slot until it settles.
DeadlineAborts(r) == r \in inFlight /\ UNCHANGED bufferVars

\* The deadline of a write fires; the write is abandoned.
Deadline(r) ==
  /\ r \in inFlight
  /\ abandoned' = abandoned \cup {r}
  /\ expired' = expired + 1
  /\ Drain(queue, queuedBytes, pending - 1, inFlight \ {r}, settled)
  /\ UNCHANGED <<dropped, accepted, refused>>

BufferNext ==
  \/ \E bytes \in Bytes : WriteExecution(bytes)
  \/ \E r \in inFlight \cup abandoned : Settle(r) \/ Deadline(r)

BufferSpec == BufferInit /\ [][BufferNext]_bufferVars

\* The timers of a running process fire; no sink is assumed to answer.
FairBufferSpec == BufferSpec /\ \A r \in 1..MaxSubmissions : WF_bufferVars(Deadline(r))

-----------------------------------------------------------------------------
(* Properties                                                                *)

waiting == {queue[i].id : i \in DOMAIN queue}

\* The counters the limits are enforced by are what they count: a slot is
\* released exactly once, although a write may settle after its deadline, and
\* the bytes of a record leave the count exactly when the record leaves the
\* queue.  The limits hold, and no record is lost without being counted: every
\* submission waits, is in flight, was dropped, expired, or was answered by the
\* sink.
CountersAreExact ==
  /\ pending = Cardinality(inFlight) /\ pending \in 0..MaxPending
  /\ queuedBytes = bytesOf(queue) /\ queuedBytes \in 0..MaxQueuedBytes
  /\ Len(queue) <= MaxQueued
  /\ accepted + refused = Len(queue) + pending + dropped + expired + settled

\* A record does not wait for ever behind a sink that never answers.
NobodyWaitsForEver ==
  \A r \in 1..MaxSubmissions : r \in waiting ~> r \notin waiting
=============================================================================
