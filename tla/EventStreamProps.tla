--------------------------- MODULE EventStreamProps ---------------------------
(***************************************************************************)
(* What the pipeline from the stream to the audit table promises.          *)
(***************************************************************************)
EXTENDS EventStream

TypeOK ==
  /\ published \in 0..MaxEvents
  /\ group \in BOOLEAN
  /\ delivered \in 0..published
  /\ pending \subseteq 1..delivered
  /\ aged \subseteq pending
  /\ dead \in [Messages -> Nat]
  /\ rows \in [Messages -> Nat]
  /\ failures \in [Messages -> Nat]
  /\ dbUp \in BOOLEAN
  /\ pc \in [Consumers -> Stages]
  /\ batch \in [Consumers -> SUBSET Messages]
  /\ \A c \in Consumers : pc[c] \in {"handle", "toDLQ", "ack"} <=> batch[c] # {}
  /\ attempts \in [Consumers -> Nat]
  /\ scan \in [Consumers -> 0..MaxEvents]
  /\ resume \in [Consumers -> {"claim", "read"}]
  /\ faults \in 0..MaxFaults
  /\ outages \in 0..MaxOutages

-----------------------------------------------------------------------------
\* The event of message m is in the audit table or among the dead letters.
Settled(m) == rows[m] > 0 \/ dead[m] > 0

\* A message that was delivered is pending until its event is settled:
\* consumers may be killed, be slow or find the database down, and no event
\* falls between the read and the acknowledgement (stream.go:172-208).
NoEventLost == \A m \in 1..delivered : m \in pending \/ Settled(m)

\* database-spec.md:61, NFR-5: while the database is away the events stay in the
\* stream, and the processor catches up when it is back: what is acknowledged
\* is in the table.
OutagesAreCaughtUp == \A m \in (1..delivered) \ (pending \cup Malformed) : rows[m] > 0

\* Every record of an event beyond the first, and every event that is
\* acknowledged without a record, has a fault of its own: a killed consumer,
\* one that was too slow, an INSERT reported as failed although it was
\* applied, a Redis call that failed.  Without faults each event is recorded
\* exactly once, however long the database is away.
Records(m) == rows[m] + dead[m]

SurplusRecords == UNION {{m} \X (2..Records(m)) : m \in Messages}

Lost == {m \in 1..delivered : m \notin pending /\ ~Settled(m)}

FaultsHarmOneEventEach == Cardinality(SurplusRecords) + Cardinality(Lost) <= faults

\* Each dead letter of a well-formed message stands for MaxRetries failed
\* attempts at that very message (stream.go:189-205): no consumer gives a
\* message up on account of another message's failures.
DeadLettersWereRetried ==
  \A m \in Messages \ Malformed : MaxRetries * dead[m] <= failures[m]

\* The attempts are counted per delivery (stream.go:190-200), so nothing in
\* handleMessage bounds how often an event is tried: what does is that each
\* delivery beyond the first has a fault of its own, a killed or slow consumer
\* or an XACK that failed, however long the database is away.
RetriesHaveCauses ==
  \A m \in Messages : failures[m] <= MaxRetries * (1 + faults)

\* Every event that reaches the stream is eventually settled and
\* acknowledged, although consumers crash with messages in hand, because
\* claimPending goes through the idle pending messages on every round.
EveryEventSettles ==
  \A m \in Messages :
    published >= m ~> Settled(m) /\ m \in (1..delivered) \ pending

=============================================================================
