---------------------------- MODULE EventStream_proofs ----------------------------
(***************************************************************************)
(* Theorems about EventStream for any number of consumers and events, any  *)
(* retry and batch sizes, any malformed messages and any bounds.           *)
(***************************************************************************)
EXTENDS EventStreamProps, FiniteSetTheorems, WellFoundedInduction, TLAPS

-----------------------------------------------------------------------------
(* Batches are sets of messages: their first element exists. *)

LEMMA FirstIsMember ==
  ASSUME NEW S \in SUBSET Nat, S # {}
  PROVE  First(S) \in S
<1> DEFINE less == {p \in Nat \X Nat : p[1] < p[2]}
<1>1. IsWellFoundedOn(less, Nat)
  BY NatLessThanWellFounded DEF OpToRel
<1>2. PICK m \in S : \A n \in S : ~ (<<n, m>> \in less)
  <2> HIDE DEF less
  <2>1. QED
    BY <1>1, WFMin
<1>3. \A n \in S : m <= n
  <2>1. TAKE n \in S
  <2>2. m \in Nat /\ n \in Nat
    OBVIOUS
  <2>3. ~ (n < m)
    BY <1>2, <2>2
  <2>4. QED
    BY <2>2, <2>3
<1>4. QED
  BY <1>3 DEF First

LEMMA Bounds ==
  /\ MaxEvents \in Nat /\ MaxFaults \in Nat /\ MaxOutages \in Nat
  /\ ReadCount \in Nat /\ MaxRetries \in Nat /\ MaxRetries > 0
BY BoundAssumption, CountAssumption

LEMMA MessagesAreNats == Messages = 1..MaxEvents /\ Messages \subseteq Nat
BY Bounds DEF Messages

LEMMA CurrentIsMessage ==
  ASSUME TypeOK, NEW c \in Consumers, pc[c] \in {"handle", "toDLQ", "ack"}
  PROVE  Current(c) \in batch[c] /\ Current(c) \in Messages
<1>1. batch[c] \in SUBSET Messages /\ batch[c] # {}
  BY DEF TypeOK
<1>2. QED
  BY <1>1, FirstIsMember, MessagesAreNats DEF Current

\* What XREADGROUP delivers are the published messages that follow.
LEMMA UnreadIsInterval ==
  ASSUME published \in Nat, delivered \in 0..published, ReadCount \in Nat
  PROVE  /\ delivered + Cardinality(Unread) \in delivered..published
         /\ Unread = (delivered + 1)..(delivered + Cardinality(Unread))
<1> DEFINE last == IF published < delivered + ReadCount THEN published ELSE delivered + ReadCount
<1>1. last \in Nat /\ delivered <= last /\ last <= published /\ delivered \in Nat
  OBVIOUS
<1>2. Unread = (delivered + 1)..last
  BY DEF Unread
<1>3. Cardinality(Unread) = last - delivered
  BY <1>1, <1>2, FS_Interval
<1>4. QED
  BY <1>1, <1>2, <1>3

-----------------------------------------------------------------------------
(* Type correctness, action by action. *)

LEMMA TypeInit == Init => TypeOK
<1> SUFFICES ASSUME Init PROVE TypeOK
  OBVIOUS
<1>1. group \in BOOLEAN /\ dbUp \in BOOLEAN
  BY Zenon DEF Init
<1>2. \A c \in Consumers : pc[c] = "down" /\ batch[c] = {}
  BY DEF Init
<1>3. QED
  BY <1>1, <1>2, Bounds DEF Init, TypeOK, Stages

LEMMA EnvironmentKeepsType ==
  ASSUME TypeOK,
         \/ Publish \/ DatabaseFails \/ DatabaseRecovers
         \/ \E m \in Messages : Age(m)
  PROVE  TypeOK'
<1> USE Bounds DEF TypeOK, vars, redisVars, dbVars, consumerVars, NoFault, Fault
<1>1. CASE Publish
  BY <1>1 DEF Publish
<1>2. CASE DatabaseFails
  <2>1. dbUp' = FALSE /\ outages' = outages + 1 /\ outages < MaxOutages
        /\ UNCHANGED <<redisVars, rows, failures, consumerVars, faults>>
    BY <1>2, Zenon DEF DatabaseFails
  <2>2. outages' \in 0..MaxOutages
    BY <2>1
  <2>3. QED
    BY <2>1, <2>2
<1>3. CASE DatabaseRecovers
  BY <1>3 DEF DatabaseRecovers
<1>4. ASSUME NEW m \in Messages, Age(m) PROVE TypeOK'
  BY <1>4 DEF Age
<1>5. QED
  BY <1>1, <1>2, <1>3, <1>4

LEMMA StartAndStopKeepType ==
  ASSUME TypeOK, NEW c \in Consumers, Start(c) \/ StartWithoutGroup(c) \/ Stop(c)
  PROVE  TypeOK'
<1> USE Bounds
    DEF TypeOK, redisVars, dbVars, consumerVars, NoFault, Fault, Goto, Stages
<1>1. CASE Start(c)
  BY <1>1 DEF Start
<1>2. CASE StartWithoutGroup(c)
  BY <1>2 DEF StartWithoutGroup
<1>3. CASE Stop(c)
  BY <1>3 DEF Stop
<1>4. QED
  BY <1>1, <1>2, <1>3

LEMMA ClaimKeepsType ==
  ASSUME TypeOK, NEW c \in Consumers, Claim(c) \/ ClaimFails(c)
  PROVE  TypeOK'
<1> USE Bounds
    DEF TypeOK, redisVars, dbVars, consumerVars, NoFault, Fault, Goto, Stages
<1>1. CASE Claim(c)
  <2> DEFINE msgs == Claimable(scan[c])
             again == Cardinality(msgs) = PendingClaimBatch /\ NextCursor(msgs) # scan[c]
  <2>1. msgs \subseteq aged /\ msgs \subseteq Messages
    <3>1. pending \subseteq 1..MaxEvents
      OBVIOUS
    <3>2. msgs \subseteq aged
      BY Zenon DEF Claimable
    <3>3. QED
      BY <3>1, <3>2, MessagesAreNats
  <2>2. NextCursor(msgs) \in 0..MaxEvents
    <3> DEFINE rest == {m \in pending : \A n \in msgs : m > n}
    <3>1. rest \subseteq pending
      BY Zenon
    <3>2. pending \subseteq 1..MaxEvents
      OBVIOUS
    <3>3. NextCursor(msgs) = IF rest = {} THEN 0 ELSE First(rest)
      BY DEF NextCursor
    <3> HIDE DEF rest
    <3>4. rest \in SUBSET Nat
      BY <3>1, <3>2
    <3>5. rest # {} => First(rest) \in 1..MaxEvents
      BY <3>1, <3>2, <3>4, FirstIsMember
    <3>6. QED
      BY <3>3, <3>5
  <2> HIDE DEF msgs
  <2>3. /\ batch' = [batch EXCEPT ![c] = msgs]
        /\ aged' = aged \ msgs
        /\ scan' = [scan EXCEPT ![c] = IF again THEN NextCursor(msgs) ELSE 0]
        /\ resume' = [resume EXCEPT ![c] = IF again THEN "claim" ELSE "read"]
        /\ pc' = [pc EXCEPT ![c] = IF msgs = {} THEN "read" ELSE "handle"]
        /\ UNCHANGED <<published, group, delivered, pending, dead, dbVars, attempts, faults, outages>>
    BY <1>1 DEF Claim, msgs
  <2> HIDE DEF again
  <2>4. aged' \subseteq pending' /\ resume' \in [Consumers -> {"claim", "read"}]
    BY <2>1, <2>3
  <2>5. batch' \in [Consumers -> SUBSET Messages] /\ scan' \in [Consumers -> 0..MaxEvents]
    BY <2>1, <2>2, <2>3
  <2>6. /\ pc' \in [Consumers -> Stages]
        /\ \A d \in Consumers : pc'[d] \in {"handle", "toDLQ", "ack"} <=> batch'[d] # {}
    BY <2>3
  <2>7. QED
    BY <2>3, <2>4, <2>5, <2>6
<1>2. CASE ClaimFails(c)
  BY <1>2 DEF ClaimFails
<1>3. QED
  BY <1>1, <1>2

LEMMA DeliverKeepsType ==
  ASSUME published \in 0..MaxEvents, delivered \in 0..published, pending \subseteq 1..delivered,
         aged \subseteq pending, Deliver
  PROVE  /\ delivered' \in delivered..published
         /\ pending' = pending \cup Unread
         /\ pending' \subseteq 1..delivered'
         /\ aged' \subseteq pending'
         /\ Unread \subseteq Messages
         /\ UNCHANGED <<published, group, dead>>
<1>1. published \in Nat /\ ReadCount \in Nat
  BY Bounds
<1>2. delivered' \in delivered..published /\ Unread = (delivered + 1)..delivered'
  BY <1>1, UnreadIsInterval DEF Deliver
<1>3. QED
  <2>1. Unread \subseteq 1..delivered' /\ delivered' \in 0..MaxEvents
    BY <1>1, <1>2, Bounds
  <2>2. /\ pending' = pending \cup Unread
        /\ UNCHANGED <<published, group, aged, dead>>
    BY DEF Deliver
  <2>3. pending' \subseteq 1..delivered'
    BY <1>1, <1>2, <2>1, <2>2
  <2>4. Unread \subseteq Messages
    BY <1>1, <2>1, MessagesAreNats, Bounds
  <2>5. aged' \subseteq pending'
    BY <2>2
  <2>6. QED
    BY <1>2, <2>2, <2>3, <2>4, <2>5, Zenon

LEMMA ReadKeepsType ==
  ASSUME TypeOK, NEW c \in Consumers, Read(c) \/ ReadNothing(c) \/ ReadFails(c)
  PROVE  TypeOK'
<1> USE Bounds
    DEF TypeOK, redisVars, dbVars, consumerVars, NoFault, Fault, Goto, Stages
<1>1. CASE Read(c)
  <2>1. Deliver /\ Unread # {}
    BY <1>1 DEF Read
  <2>2. /\ delivered' \in 0..published'
        /\ pending' \subseteq 1..delivered'
        /\ aged' \subseteq pending'
        /\ Unread \subseteq Messages
        /\ UNCHANGED <<published, group, dead>>
    BY <2>1, DeliverKeepsType
  <2> HIDE DEF Goto
  <2>3. QED
    BY <1>1, <2>1, <2>2 DEF Read, Goto
<1>2. CASE ReadNothing(c)
  BY <1>2 DEF ReadNothing
<1>3. CASE ReadFails(c)
  <2>1. CASE Deliver
    <3>1. /\ delivered' \in 0..published'
          /\ pending' \subseteq 1..delivered'
          /\ aged' \subseteq pending'
          /\ UNCHANGED <<published, group, dead>>
      BY <2>1, DeliverKeepsType
    <3>2. QED
      BY <1>3, <3>1 DEF ReadFails
  <2>2. CASE UNCHANGED redisVars
    BY <1>3, <2>2 DEF ReadFails
  <2>3. QED
    BY <1>3, <2>1, <2>2 DEF ReadFails
<1>4. QED
  BY <1>1, <1>2, <1>3

LEMMA HandleKeepsType ==
  ASSUME TypeOK, NEW c \in Consumers,
         Reject(c) \/ Insert(c) \/ InsertFails(c) \/ ToDLQ(c) \/ ToDLQFails(c)
  PROVE  TypeOK'
<1> DEFINE m == Current(c)
<1>1. m \in Messages
  BY CurrentIsMessage DEF Reject, Insert, InsertFails, ToDLQ, ToDLQFails
<1> HIDE DEF m
<1> USE Bounds
    DEF TypeOK, redisVars, dbVars, consumerVars, NoFault, Fault, Goto, Stages
<1>2. CASE Reject(c)
  BY <1>2 DEF Reject
<1>3. CASE Insert(c)
  BY <1>1, <1>3 DEF Insert, Inserted, m
<1>4. CASE InsertFails(c)
  BY <1>1, <1>4 DEF InsertFails, Inserted, m
<1>5. CASE ToDLQ(c)
  BY <1>1, <1>5 DEF ToDLQ, m
<1>6. CASE ToDLQFails(c)
  BY <1>6 DEF ToDLQFails
<1>7. QED
  BY <1>2, <1>3, <1>4, <1>5, <1>6

LEMMA AckKeepsType ==
  ASSUME TypeOK, NEW c \in Consumers, Ack(c) \/ AckFails(c)
  PROVE  TypeOK'
<1> USE Bounds
    DEF TypeOK, redisVars, dbVars, consumerVars, NoFault, Fault, Goto, Stages
<1>1. batch[c] # {}
  BY DEF Ack, AckFails
<1>2. CASE Ack(c)
  BY <1>1, <1>2, ZenonT(40) DEF Ack, NextMessage
<1>3. CASE AckFails(c)
  BY <1>1, <1>3 DEF AckFails, NextMessage
<1>4. QED
  BY <1>2, <1>3

LEMMA TypeStep == TypeOK /\ [Next]_vars => TypeOK'
<1> SUFFICES ASSUME TypeOK, [Next]_vars PROVE TypeOK'
  OBVIOUS
<1>1. ASSUME NEW c \in Consumers, ConsumerStep(c) PROVE TypeOK'
  BY <1>1, ClaimKeepsType, ReadKeepsType, HandleKeepsType, AckKeepsType DEF ConsumerStep
<1>2. CASE UNCHANGED vars
  BY <1>2 DEF TypeOK, vars, redisVars, dbVars, consumerVars
<1>3. QED
  BY <1>1, <1>2, EnvironmentKeepsType, StartAndStopKeepType DEF Next

\* Every reachable state of the pipeline is well typed: in particular every
\* pending message was delivered, none is delivered before it is published,
\* and a consumer has a message at hand exactly when it works on one.
THEOREM TypeCorrect == Spec => []TypeOK
BY TypeInit, TypeStep, PTL DEF Spec

-----------------------------------------------------------------------------
(* No event is lost unless a Redis call fails.  The invariant adds what an  *)
(* acknowledgement relies on: by the time a consumer acknowledges a         *)
(* message, its event is settled.                                           *)

AckedIsSettled == \A c \in Consumers : pc[c] = "ack" => Settled(Current(c))

LossInv == TypeOK /\ NoEventLost /\ AckedIsSettled

\* Nothing removes a row or a dead letter.
LEMMA SettledStays ==
  ASSUME TypeOK, [Next]_vars, NEW m \in Messages, Settled(m)
  PROVE  Settled(m)'
<1> SUFFICES rows'[m] >= rows[m] /\ dead'[m] >= dead[m]
  <2>1. rows[m] \in Nat /\ dead[m] \in Nat
    BY DEF TypeOK
  <2>2. rows'[m] \in Nat /\ dead'[m] \in Nat
    BY TypeStep DEF TypeOK
  <2>3. QED
    BY <2>1, <2>2 DEF Settled
<1> USE DEF redisVars, dbVars, consumerVars
<1>1. rows \in [Messages -> Nat] /\ dead \in [Messages -> Nat]
  BY DEF TypeOK
<1>2. CASE UNCHANGED <<rows, dead>>
  BY <1>1, <1>2
<1>3. ASSUME NEW k \in Messages, Inserted(k), UNCHANGED dead
      PROVE  rows'[m] >= rows[m] /\ dead'[m] >= dead[m]
  BY <1>1, <1>3 DEF Inserted
<1>4. ASSUME NEW k \in Messages, dead' = [dead EXCEPT ![k] = @ + 1], UNCHANGED rows
      PROVE  rows'[m] >= rows[m] /\ dead'[m] >= dead[m]
  BY <1>1, <1>4
<1>5. ASSUME NEW c \in Consumers, ConsumerStep(c)
      PROVE  \/ UNCHANGED <<rows, dead>>
             \/ \E k \in Messages : Inserted(k) /\ UNCHANGED dead
             \/ \E k \in Messages : dead' = [dead EXCEPT ![k] = @ + 1] /\ UNCHANGED rows
  <2>1. CASE Claim(c) \/ ClaimFails(c)
    BY <2>1 DEF Claim, ClaimFails
  <2>2. CASE Read(c) \/ ReadNothing(c) \/ ReadFails(c)
    BY <2>2 DEF Read, ReadNothing, ReadFails, Deliver
  <2>3. CASE Reject(c) \/ ToDLQFails(c) \/ Ack(c) \/ AckFails(c)
    BY <2>3 DEF Reject, ToDLQFails, Ack, AckFails
  <2>4. CASE Insert(c) \/ InsertFails(c) \/ ToDLQ(c)
    <3>1. Current(c) \in Messages
      BY <2>4, CurrentIsMessage DEF Insert, InsertFails, ToDLQ
    <3>2. QED
      BY <2>4, <3>1 DEF Insert, InsertFails, ToDLQ
  <2>5. QED
    BY <1>5, <2>1, <2>2, <2>3, <2>4 DEF ConsumerStep
<1>6. ASSUME NEW c \in Consumers, Start(c) \/ StartWithoutGroup(c) \/ Stop(c)
      PROVE  UNCHANGED <<rows, dead>>
  BY <1>6 DEF Start, StartWithoutGroup, Stop
<1>7. CASE Publish \/ DatabaseFails \/ DatabaseRecovers \/ (\E k \in Messages : Age(k))
  BY <1>2, <1>7 DEF Publish, DatabaseFails, DatabaseRecovers, Age
<1>8. CASE UNCHANGED vars
  BY <1>2, <1>8 DEF vars
<1>9. QED
  BY <1>2, <1>3, <1>4, <1>5, <1>6, <1>7, <1>8 DEF Next

\* A step that takes nothing off the pending list but one settled message
\* loses no event.
LEMMA NothingTakenNothingLost ==
  ASSUME LossInv, [Next]_vars,
         \A m \in (1..delivered') \ pending' : m \in 1..delivered /\ (m \notin pending \/ Settled(m))
  PROVE  NoEventLost'
<1>1. delivered \in 0..MaxEvents
  BY Bounds DEF LossInv, TypeOK
<1>2. SUFFICES ASSUME NEW m \in 1..delivered', m \notin pending' PROVE Settled(m)'
  BY DEF NoEventLost
<1>3. m \in 1..delivered /\ Settled(m)
  BY <1>2 DEF LossInv, NoEventLost
<1>4. m \in Messages
  BY <1>1, <1>3, MessagesAreNats, Bounds
<1>5. QED
  BY <1>3, <1>4, SettledStays DEF LossInv

\* A consumer whose work does not change still has its message settled.
LEMMA IdleConsumerStaysSettled ==
  ASSUME LossInv, [Next]_vars, NEW d \in Consumers, pc'[d] = pc[d], batch'[d] = batch[d]
  PROVE  pc'[d] = "ack" => Settled(Current(d))'
<1>1. SUFFICES ASSUME pc[d] = "ack" PROVE Settled(Current(d))'
  OBVIOUS
<1>2. Current(d) \in Messages
  BY <1>1, CurrentIsMessage DEF LossInv
<1>3. Current(d)' = Current(d)
  BY DEF Current
<1>4. PICK m \in Messages : m = Current(d)
  BY <1>2
<1>5. Settled(m)'
  BY <1>1, <1>4, SettledStays DEF LossInv, AckedIsSettled
<1>6. QED
  BY <1>3, <1>4, <1>5 DEF Settled

\* A step of consumer c that does not leave c at an acknowledgement.
LEMMA OneConsumerMoves ==
  ASSUME LossInv, [Next]_vars, NEW c \in Consumers, NEW stage, NEW msgs,
         pc' = [pc EXCEPT ![c] = stage], stage # "ack",
         batch' = [batch EXCEPT ![c] = msgs] \/ UNCHANGED batch
  PROVE  AckedIsSettled'
<1>1. pc \in [Consumers -> Stages] /\ batch \in [Consumers -> SUBSET Messages]
  BY DEF LossInv, TypeOK
<1>2. SUFFICES ASSUME NEW d \in Consumers, pc'[d] = "ack" PROVE Settled(Current(d))'
  BY DEF AckedIsSettled
<1>3. d # c
  BY <1>1, <1>2
<1>4. pc'[d] = pc[d] /\ batch'[d] = batch[d]
  BY <1>1, <1>3
<1>5. QED
  BY <1>2, <1>4, IdleConsumerStaysSettled

\* A step of consumer c that leaves it to acknowledge a message just settled.
LEMMA ConsumerSettles ==
  ASSUME LossInv, [Next]_vars, NEW c \in Consumers, pc[c] \in {"handle", "toDLQ"},
         pc' = [pc EXCEPT ![c] = "ack"], UNCHANGED batch,
         \/ Inserted(Current(c))
         \/ dead' = [dead EXCEPT ![Current(c)] = @ + 1]
  PROVE  AckedIsSettled'
<1>1. pc \in [Consumers -> Stages] /\ rows \in [Messages -> Nat] /\ dead \in [Messages -> Nat]
  BY DEF LossInv, TypeOK
<1>2. Current(c) \in Messages
  BY CurrentIsMessage DEF LossInv
<1>3. PICK m \in Messages : m = Current(c)
  BY <1>2
<1>4. Settled(m)'
  <2>1. rows'[m] = rows[m] + 1 \/ dead'[m] = dead[m] + 1
    BY <1>1, <1>3 DEF Inserted
  <2>2. rows[m] \in Nat /\ dead[m] \in Nat
    BY <1>1
  <2>3. QED
    BY <2>1, <2>2 DEF Settled
<1>5. Current(c)' = Current(c)
  BY DEF Current
<1>6. SUFFICES ASSUME NEW d \in Consumers, pc'[d] = "ack" PROVE Settled(Current(d))'
  BY DEF AckedIsSettled
<1>7. CASE d = c
  BY <1>3, <1>4, <1>5, <1>7 DEF Settled
<1>8. CASE d # c
  <2>1. pc'[d] = pc[d] /\ batch'[d] = batch[d]
    BY <1>1, <1>8
  <2>2. QED
    BY <1>6, <2>1, IdleConsumerStaysSettled
<1>9. QED
  BY <1>7, <1>8

LEMMA AckedStep ==
  ASSUME "redis" \notin FaultKinds, LossInv, [Next]_vars
  PROVE  AckedIsSettled'
<1> USE DEF redisVars, dbVars, consumerVars, Goto
<1>1. CASE UNCHANGED <<pc, batch>>
  BY <1>1, IdleConsumerStaysSettled DEF AckedIsSettled
<1>2. CASE Publish \/ DatabaseFails \/ DatabaseRecovers \/ (\E m \in Messages : Age(m))
  BY <1>1, <1>2 DEF Publish, DatabaseFails, DatabaseRecovers, Age
<1>3. ASSUME NEW c \in Consumers, Start(c) \/ StartWithoutGroup(c) \/ Stop(c)
      PROVE  AckedIsSettled'
  BY <1>3, OneConsumerMoves DEF Start, StartWithoutGroup, Stop
<1>4. ASSUME NEW c \in Consumers, ConsumerStep(c) PROVE AckedIsSettled'
  <2>1. CASE Claim(c)
    <3>1. PICK stage, msgs : /\ stage \in {"read", "handle"}
                            /\ pc' = [pc EXCEPT ![c] = stage]
                            /\ batch' = [batch EXCEPT ![c] = msgs]
      BY <2>1 DEF Claim
    <3>2. QED
      BY <3>1, OneConsumerMoves
  <2>2. CASE ClaimFails(c) \/ ReadNothing(c) \/ ReadFails(c)
    BY <2>2, OneConsumerMoves DEF ClaimFails, ReadNothing, ReadFails
  <2>3. CASE Read(c)
    BY <2>3, OneConsumerMoves DEF Read
  <2>4. CASE Reject(c)
    BY <2>4, OneConsumerMoves DEF Reject
  <2>5. CASE Insert(c)
    BY <2>5, ConsumerSettles DEF Insert
  <2>6. CASE InsertFails(c)
    BY <1>1, <2>6, OneConsumerMoves DEF InsertFails
  <2>7. CASE ToDLQ(c)
    BY <2>7, ConsumerSettles DEF ToDLQ
  <2>8. CASE ToDLQFails(c)
    BY <2>8 DEF ToDLQFails, Fault
  <2>9. CASE Ack(c) \/ AckFails(c)
    <3>1. resume[c] # "ack"
      BY DEF LossInv, TypeOK
    <3>2. PICK stage, msgs : /\ stage \in {"handle", resume[c]}
                            /\ pc' = [pc EXCEPT ![c] = stage]
                            /\ batch' = [batch EXCEPT ![c] = msgs]
      BY <2>9 DEF Ack, AckFails, NextMessage
    <3>3. QED
      BY <3>1, <3>2, OneConsumerMoves
  <2>10. QED
    BY <1>4, <2>1, <2>2, <2>3, <2>4, <2>5, <2>6, <2>7, <2>8, <2>9 DEF ConsumerStep
<1>5. CASE UNCHANGED vars
  BY <1>1, <1>5 DEF vars
<1>6. QED
  BY <1>2, <1>3, <1>4, <1>5 DEF Next

LEMMA LossStep ==
  ASSUME LossInv, [Next]_vars
  PROVE  NoEventLost'
<1> USE DEF redisVars, dbVars, consumerVars
<1>1. CASE UNCHANGED <<delivered, pending>>
  <2>1. \A m \in (1..delivered') \ pending' : m \in 1..delivered /\ m \notin pending
    BY <1>1
  <2>2. QED
    BY <2>1, NothingTakenNothingLost, Zenon
<1>2. ASSUME Deliver PROVE NoEventLost'
  <2>1. /\ delivered' \in delivered..published
        /\ Unread = (delivered + 1)..delivered'
        /\ pending' = pending \cup Unread
    <3>1. published \in Nat /\ delivered \in 0..published
      BY Bounds DEF LossInv, TypeOK
    <3>2. QED
      BY <1>2, <3>1, Bounds, UnreadIsInterval DEF Deliver
  <2>2. delivered \in Nat /\ published \in Nat
    BY Bounds DEF LossInv, TypeOK
  <2>3. \A m \in (1..delivered') \ pending' : m \in 1..delivered /\ m \notin pending
    BY <2>1, <2>2
  <2>4. QED
    BY <2>3, NothingTakenNothingLost, Zenon
<1>3. ASSUME NEW c \in Consumers, Ack(c) PROVE NoEventLost'
  <2>1. pc[c] = "ack" /\ pending' = pending \ {Current(c)} /\ UNCHANGED delivered
    BY <1>3 DEF Ack
  <2>2. Settled(Current(c))
    BY <2>1 DEF LossInv, AckedIsSettled
  <2>3. \A m \in (1..delivered') \ pending' : m \in 1..delivered /\ (m \notin pending \/ m = Current(c))
    BY <2>1
  <2>4. \A m \in (1..delivered') \ pending' : m \in 1..delivered /\ (m \notin pending \/ Settled(m))
    BY <2>2, <2>3 DEF Settled
  <2>5. QED
    BY <2>4, NothingTakenNothingLost, Zenon
<1>4. CASE Publish \/ DatabaseFails \/ DatabaseRecovers \/ (\E m \in Messages : Age(m))
  BY <1>1, <1>4 DEF Publish, DatabaseFails, DatabaseRecovers, Age
<1>5. ASSUME NEW c \in Consumers, Start(c) \/ StartWithoutGroup(c) \/ Stop(c)
      PROVE  NoEventLost'
  BY <1>1, <1>5 DEF Start, StartWithoutGroup, Stop
<1>6. ASSUME NEW c \in Consumers, ConsumerStep(c) PROVE NoEventLost'
  <2>1. CASE Claim(c) \/ ClaimFails(c)
    BY <1>1, <2>1 DEF Claim, ClaimFails
  <2>2. CASE Read(c) \/ ReadNothing(c) \/ ReadFails(c)
    BY <1>1, <1>2, <2>2 DEF Read, ReadNothing, ReadFails
  <2>3. CASE Reject(c) \/ Insert(c) \/ InsertFails(c)
    BY <1>1, <2>3 DEF Reject, Insert, InsertFails
  <2>4. CASE ToDLQ(c) \/ ToDLQFails(c)
    BY <1>1, <2>4 DEF ToDLQ, ToDLQFails
  <2>5. CASE AckFails(c)
    BY <1>1, <2>5 DEF AckFails
  <2>6. QED
    BY <1>3, <1>6, <2>1, <2>2, <2>3, <2>4, <2>5 DEF ConsumerStep
<1>7. CASE UNCHANGED vars
  BY <1>1, <1>7 DEF vars
<1>8. QED
  BY <1>4, <1>5, <1>6, <1>7 DEF Next

\* As long as no Redis call of the loop fails, a delivered message is pending
\* until its event is in the table or among the dead letters: however many
\* consumers there are, wherever they are killed, however slow they are and
\* whatever the database does (stream.go:172-208).
THEOREM NothingLost ==
  ASSUME "redis" \notin FaultKinds
  PROVE  Spec => []NoEventLost
<1>1. Init => LossInv
  <2>1. ASSUME Init PROVE NoEventLost /\ AckedIsSettled
    BY <2>1 DEF Init, NoEventLost, AckedIsSettled
  <2>2. QED
    BY <2>1, TypeInit DEF LossInv
<1>2. LossInv /\ [Next]_vars => LossInv'
  BY TypeStep, AckedStep, LossStep DEF LossInv
<1>3. LossInv => NoEventLost
  BY DEF LossInv
<1>4. QED
  BY <1>1, <1>2, <1>3, PTL DEF Spec

-----------------------------------------------------------------------------
(* What the steps do to the deliveries of a message.  A message is free for *)
(* delivery when some consumer will get it although no further fault        *)
(* occurs: it is unread, it can be claimed, or nobody holds it any more.    *)

Free(m) == m > delivered \/ m \in aged \/ (m \in pending /\ m \notin Held)

Others(c) == UNION {batch[d] : d \in Consumers \ {c}}

\* The others do nothing while consumer c acts.
LEMMA OthersRest ==
  ASSUME TypeOK, NEW c \in Consumers,
         Start(c) \/ StartWithoutGroup(c) \/ Stop(c) \/ ConsumerStep(c)
  PROVE  \A d \in Consumers \ {c} :
           pc'[d] = pc[d] /\ batch'[d] = batch[d] /\ attempts'[d] = attempts[d]
<1> USE DEF consumerVars, Goto
<1>1. /\ pc \in [Consumers -> Stages]
      /\ batch \in [Consumers -> SUBSET Messages]
      /\ attempts \in [Consumers -> Nat]
  BY DEF TypeOK
<1>2. CASE Start(c) \/ StartWithoutGroup(c) \/ Stop(c)
  BY <1>1, <1>2 DEF Start, StartWithoutGroup, Stop
<1>3. CASE ConsumerStep(c)
  <2>1. CASE Claim(c) \/ ClaimFails(c)
    BY <1>1, <2>1 DEF Claim, ClaimFails
  <2>2. CASE Read(c) \/ ReadNothing(c) \/ ReadFails(c)
    BY <1>1, <2>2 DEF Read, ReadNothing, ReadFails
  <2>3. CASE Reject(c) \/ Insert(c) \/ InsertFails(c)
    BY <1>1, <2>3 DEF Reject, Insert, InsertFails
  <2>4. CASE ToDLQ(c) \/ ToDLQFails(c)
    BY <1>1, <2>4 DEF ToDLQ, ToDLQFails
  <2>5. CASE Ack(c) \/ AckFails(c)
    BY <1>1, <2>5 DEF Ack, AckFails, NextMessage
  <2>6. QED
    BY <1>3, <2>1, <2>2, <2>3, <2>4, <2>5 DEF ConsumerStep
<1>4. QED
  BY <1>2, <1>3

LEMMA HeldByOthers ==
  ASSUME NEW c \in Consumers, \A d \in Consumers \ {c} : batch'[d] = batch[d]
  PROVE  /\ Held = Others(c) \cup batch[c]
         /\ Held' = Others(c) \cup batch'[c]
<1>1. Others(c)' = Others(c)
  BY DEF Others
<1>2. Held = Others(c) \cup batch[c]
  BY Zenon DEF Held, Others
<1>3. Held' = Others(c)' \cup batch'[c]
  BY Zenon DEF Held, Others
<1>4. QED
  BY <1>1, <1>2, <1>3

LEMMA FreeKept ==
  ASSUME UNCHANGED <<delivered, pending, aged, batch>>, NEW m \in Messages
  PROVE  Free(m)' = Free(m)
BY DEF Free, Held

\* A delivery takes up the one that was free.
LEMMA FreeTaken ==
  ASSUME TypeOK, NEW c \in Consumers, Claim(c) \/ Read(c), NEW m \in Messages
  PROVE  /\ batch[c] = {}
         /\ IF m \in batch'[c] THEN Free(m) /\ ~ Free(m)' ELSE Free(m)' => Free(m)
<1>1. batch[c] = {} /\ batch \in [Consumers -> SUBSET Messages]
  BY DEF TypeOK, Claim, Read
<1>2. \A d \in Consumers \ {c} : batch'[d] = batch[d]
  BY OthersRest DEF ConsumerStep
<1>3. Held = Others(c) /\ Held' = Others(c) \cup batch'[c]
  BY <1>1, <1>2, HeldByOthers, ZenonT(40)
<1>4. m \in Nat /\ delivered \in Nat /\ published \in Nat
  BY MessagesAreNats, Bounds DEF TypeOK
<1>5. pending \subseteq 1..delivered /\ aged \subseteq pending
  BY DEF TypeOK
<1>6. CASE Claim(c)
  <2> DEFINE msgs == Claimable(scan[c])
  <2>1. msgs \subseteq aged
    BY Zenon DEF Claimable
  <2> HIDE DEF msgs
  <2>2. batch'[c] = msgs /\ aged' = aged \ msgs /\ UNCHANGED <<delivered, pending>>
    BY <1>1, <1>6 DEF Claim, msgs
  <2>3. CASE m \in msgs
    <3>1. Free(m) /\ m \notin aged' /\ m \in Held' /\ ~ (m > delivered')
      BY <1>3, <1>4, <1>5, <2>1, <2>2, <2>3 DEF Free
    <3>2. QED
      BY <1>1, <2>2, <2>3, <3>1 DEF Free
  <2>4. CASE m \notin msgs
    <3>1. m \in Held' <=> m \in Held
      BY <1>3, <2>2, <2>4
    <3>2. QED
      BY <1>1, <2>2, <2>4, <3>1 DEF Free
  <2>5. QED
    BY <2>3, <2>4
<1>7. CASE Read(c)
  <2>1. /\ delivered' \in delivered..published
        /\ Unread = (delivered + 1)..delivered'
        /\ pending' = pending \cup Unread
        /\ aged' = aged
    <3>1. published \in Nat /\ delivered \in 0..published
      BY <1>4 DEF TypeOK
    <3>2. QED
      BY <1>7, <3>1, Bounds, UnreadIsInterval DEF Read, Deliver
  <2>2. batch'[c] = Unread
    BY <1>1, <1>7 DEF Read
  <2>3. CASE m \in Unread
    <3>1. m > delivered /\ ~ (m > delivered') /\ m \notin aged' /\ m \in Held'
      BY <1>3, <1>4, <1>5, <2>1, <2>2, <2>3
    <3>2. QED
      BY <1>1, <2>2, <2>3, <3>1 DEF Free
  <2>4. CASE m \notin Unread
    <3>1. (m \in Held' <=> m \in Held) /\ (m \in pending' <=> m \in pending)
      BY <1>3, <2>1, <2>2, <2>4
    <3>2. m > delivered' => m > delivered
      BY <1>4, <2>1
    <3>3. QED
      BY <1>1, <2>1, <2>2, <2>4, <3>1, <3>2 DEF Free
  <2>5. QED
    BY <2>3, <2>4
<1>8. QED
  BY <1>6, <1>7

\* A read whose answer is lost leaves what it delivered to be claimed.
LEMMA FreeUnanswered ==
  ASSUME TypeOK, NEW c \in Consumers, ReadFails(c), NEW m \in Messages
  PROVE  Free(m)' => Free(m)
<1>1. CASE UNCHANGED redisVars
  BY <1>1, FreeKept DEF ReadFails, redisVars, consumerVars
<1>2. CASE Deliver
  <2>1. m \in Nat /\ delivered \in Nat /\ published \in Nat
    BY MessagesAreNats, Bounds DEF TypeOK
  <2>2. /\ delivered' \in delivered..published
        /\ Unread = (delivered + 1)..delivered'
        /\ pending' = pending \cup Unread
        /\ aged' = aged
    <3>1. published \in Nat /\ delivered \in 0..published
      BY <2>1 DEF TypeOK
    <3>2. QED
      BY <1>2, <3>1, Bounds, UnreadIsInterval DEF Deliver
  <2>3. Held' = Held
    BY DEF ReadFails, Held
  <2>4. m > delivered' => m > delivered
    BY <2>1, <2>2
  <2>5. m \in Unread => m > delivered
    BY <2>1, <2>2
  <2>6. QED
    BY <2>2, <2>3, <2>4, <2>5 DEF Free
<1>3. QED
  BY <1>1, <1>2 DEF ReadFails

\* Going on to the next message: the current one leaves the batch.
LEMMA CurrentLeaves ==
  ASSUME TypeOK, NEW c \in Consumers, Ack(c) \/ AckFails(c)
  PROVE  /\ Current(c) \in batch[c]
         /\ batch'[c] = batch[c] \ {Current(c)}
         /\ attempts'[c] = 0
         /\ pc[c] = "ack" /\ pc'[c] # "ack"
<1>1. /\ pc \in [Consumers -> Stages]
      /\ batch \in [Consumers -> SUBSET Messages]
      /\ attempts \in [Consumers -> Nat]
      /\ resume[c] # "ack"
  BY DEF TypeOK
<1>2. pc[c] = "ack" /\ Current(c) \in batch[c]
  BY CurrentIsMessage DEF Ack, AckFails
<1>3. /\ batch' = [batch EXCEPT ![c] = @ \ {Current(c)}]
      /\ attempts' = [attempts EXCEPT ![c] = 0]
      /\ pc' = [pc EXCEPT ![c] = IF batch[c] = {Current(c)} THEN resume[c] ELSE "handle"]
  BY DEF Ack, AckFails, NextMessage, Goto
<1>4. batch'[c] = batch[c] \ {Current(c)} /\ attempts'[c] = 0
  BY <1>1, <1>3
<1>5. pc'[c] # "ack"
  BY <1>1, <1>3
<1>6. QED
  BY <1>2, <1>4, <1>5

LEMMA FreeAfterAck ==
  ASSUME TypeOK, NEW c \in Consumers, Ack(c), NEW m \in Messages
  PROVE  Free(m)' => Free(m)
<1>1. \A d \in Consumers \ {c} : batch'[d] = batch[d]
  BY OthersRest DEF ConsumerStep
<1>2. Held = Others(c) \cup batch[c] /\ Held' = Others(c) \cup batch'[c]
  BY <1>1, HeldByOthers
<1>3. batch'[c] = batch[c] \ {Current(c)}
  BY CurrentLeaves
<1>4. /\ pending' = pending \ {Current(c)}
      /\ aged' = aged \ {Current(c)}
      /\ delivered' = delivered
  BY DEF Ack
<1>5. QED
  BY <1>2, <1>3, <1>4 DEF Free

-----------------------------------------------------------------------------
(* Dead letters.  The failed attempts at a message are spent on a dead      *)
(* letter or held by a consumer that is still trying; they are counted as   *)
(* pairs of a consumer and the number of an attempt.                        *)

AttemptsCounted ==
  \A c \in Consumers :
    /\ attempts[c] <= MaxRetries
    /\ pc[c] \in {"down", "claim", "read"} => attempts[c] = 0
    /\ pc[c] = "handle" => attempts[c] < MaxRetries
    /\ pc[c] = "toDLQ" => Current(c) \in Malformed \/ attempts[c] = MaxRetries

Trying(c, m) == pc[c] \in {"handle", "toDLQ"} /\ Current(c) = m

Attempts == Consumers \X (1..MaxRetries)

SpentOn(m) == {p \in Attempts : Trying(p[1], m) /\ p[2] <= attempts[p[1]]}

DeadLettersPaid ==
  \A m \in Messages \ Malformed :
    MaxRetries * dead[m] + Cardinality(SpentOn(m)) <= failures[m]

DeadLetterInv == TypeOK /\ AttemptsCounted /\ DeadLettersPaid

LEMMA RetriesCounted == IsFiniteSet(1..MaxRetries) /\ Cardinality(1..MaxRetries) = MaxRetries
<1>1. MaxRetries \in Int /\ 1 \in Int /\ ~ (1 > MaxRetries) /\ MaxRetries - 1 + 1 = MaxRetries
  BY Bounds
<1>2. QED
  BY <1>1, FS_Interval, Zenon

LEMMA AttemptsAreFinite == IsFiniteSet(Attempts)
BY RetriesCounted, ConsumerAssumption, FS_Product DEF Attempts

LEMMA SpentIsFinite ==
  ASSUME NEW m \in Messages
  PROVE  /\ IsFiniteSet(SpentOn(m)) /\ Cardinality(SpentOn(m)) \in Nat
         /\ SpentOn(m)' \subseteq Attempts
         /\ IsFiniteSet(SpentOn(m)') /\ Cardinality(SpentOn(m)') \in Nat
<1>1. SpentOn(m) \in SUBSET Attempts /\ SpentOn(m)' \in SUBSET Attempts
  BY DEF SpentOn, Attempts
<1>2. QED
  BY <1>1, AttemptsAreFinite, FS_Subset, FS_CardinalityType

\* A consumer whose batch does not change works on the same message.
LEMMA CurrentKept ==
  ASSUME NEW c \in Consumers, batch'[c] = batch[c]
  PROVE  Current(c)' = Current(c)
BY DEF Current

\* The attempts are counted correctly through every step.
LEMMA AttemptsOfOthers ==
  ASSUME TypeOK, AttemptsCounted, NEW c \in Consumers,
         \A d \in Consumers \ {c} :
           pc'[d] = pc[d] /\ batch'[d] = batch[d] /\ attempts'[d] = attempts[d],
         attempts'[c] <= MaxRetries,
         pc'[c] \in {"down", "claim", "read"} => attempts'[c] = 0,
         pc'[c] = "handle" => attempts'[c] < MaxRetries,
         pc'[c] = "toDLQ" => Current(c)' \in Malformed \/ attempts'[c] = MaxRetries
  PROVE  AttemptsCounted'
<1>1. SUFFICES ASSUME NEW d \in Consumers
      PROVE  /\ attempts'[d] <= MaxRetries
             /\ pc'[d] \in {"down", "claim", "read"} => attempts'[d] = 0
             /\ pc'[d] = "handle" => attempts'[d] < MaxRetries
             /\ pc'[d] = "toDLQ" => Current(d)' \in Malformed \/ attempts'[d] = MaxRetries
  BY DEF AttemptsCounted
<1>2. CASE d = c
  BY <1>2
<1>3. CASE d # c
  <2>1. pc'[d] = pc[d] /\ attempts'[d] = attempts[d] /\ Current(d)' = Current(d)
    BY <1>3, CurrentKept
  <2>2. QED
    BY <2>1 DEF AttemptsCounted
<1>4. QED
  BY <1>2, <1>3

LEMMA AttemptsStep ==
  ASSUME TypeOK, AttemptsCounted, [Next]_vars
  PROVE  AttemptsCounted'
<1> USE DEF redisVars, dbVars, consumerVars, Goto
<1>1. CASE UNCHANGED <<pc, batch, attempts>>
  BY <1>1 DEF AttemptsCounted, Current
<1>2. CASE Publish \/ DatabaseFails \/ DatabaseRecovers \/ (\E m \in Messages : Age(m))
  BY <1>1, <1>2 DEF Publish, DatabaseFails, DatabaseRecovers, Age
<1>3. ASSUME NEW c \in Consumers,
             Start(c) \/ StartWithoutGroup(c) \/ Stop(c) \/ ConsumerStep(c)
      PROVE  AttemptsCounted'
  <2>1. \A d \in Consumers \ {c} :
          pc'[d] = pc[d] /\ batch'[d] = batch[d] /\ attempts'[d] = attempts[d]
    BY <1>3, OthersRest
  <2>2. /\ pc \in [Consumers -> Stages]
        /\ attempts \in [Consumers -> Nat]
        /\ resume[c] \in {"claim", "read"}
        /\ MaxRetries \in Nat /\ MaxRetries > 0
    BY Bounds DEF TypeOK
  <2>3. /\ attempts[c] <= MaxRetries
        /\ pc[c] \in {"down", "claim", "read"} => attempts[c] = 0
        /\ pc[c] = "handle" => attempts[c] < MaxRetries
        /\ pc[c] = "toDLQ" => Current(c) \in Malformed \/ attempts[c] = MaxRetries
    BY DEF AttemptsCounted
  <2>4. ASSUME attempts'[c] = 0, pc'[c] # "toDLQ" PROVE AttemptsCounted'
    BY <2>1, <2>2, <2>4, AttemptsOfOthers
  <2>5. CASE Start(c) \/ StartWithoutGroup(c) \/ Stop(c)
    BY <2>2, <2>3, <2>4, <2>5 DEF Start, StartWithoutGroup, Stop
  <2>6. CASE Claim(c) \/ ClaimFails(c)
    BY <2>2, <2>3, <2>4, <2>6 DEF Claim, ClaimFails
  <2>7. CASE Read(c) \/ ReadNothing(c) \/ ReadFails(c)
    BY <2>2, <2>3, <2>4, <2>7 DEF Read, ReadNothing, ReadFails
  <2>8. CASE Reject(c)
    <3>1. Current(c)' \in Malformed /\ attempts'[c] = attempts[c] /\ pc'[c] = "toDLQ"
      BY <2>2, <2>8, CurrentKept DEF Reject
    <3>2. QED
      BY <2>1, <2>3, <3>1, AttemptsOfOthers
  <2>9. CASE Insert(c) \/ ToDLQ(c) \/ ToDLQFails(c)
    <3>1. attempts'[c] = attempts[c] /\ pc'[c] = "ack"
      BY <2>2, <2>9 DEF Insert, ToDLQ, ToDLQFails
    <3>2. QED
      BY <2>1, <2>3, <3>1, AttemptsOfOthers
  <2>10. CASE InsertFails(c)
    <3>1. /\ pc[c] = "handle"
          /\ attempts' = [attempts EXCEPT ![c] = @ + 1]
          /\ IF attempts[c] + 1 < MaxRetries THEN UNCHANGED pc ELSE pc' = [pc EXCEPT ![c] = "toDLQ"]
      BY <2>10 DEF InsertFails
    <3>2. attempts'[c] = attempts[c] + 1 /\ attempts[c] \in Nat
      BY <2>2, <3>1
    <3>3. IF attempts[c] + 1 < MaxRetries THEN pc'[c] = "handle" ELSE pc'[c] = "toDLQ"
      BY <2>2, <3>1
    <3>4. attempts'[c] <= MaxRetries
      BY <2>2, <2>3, <3>1, <3>2
    <3>5. pc'[c] = "handle" => attempts'[c] < MaxRetries
      BY <3>2, <3>3
    <3>6. pc'[c] = "toDLQ" => attempts'[c] = MaxRetries
      BY <2>2, <3>2, <3>3, <3>4
    <3>7. pc'[c] \notin {"down", "claim", "read"}
      BY <3>3
    <3>8. QED
      BY <2>1, <3>4, <3>5, <3>6, <3>7, AttemptsOfOthers
  <2>11. CASE Ack(c) \/ AckFails(c)
    <3>1. attempts'[c] = 0 /\ pc'[c] # "toDLQ"
      BY <2>2, <2>11, CurrentLeaves DEF Ack, AckFails, NextMessage
    <3>2. QED
      BY <2>4, <3>1
  <2>12. QED
    BY <1>3, <2>5, <2>6, <2>7, <2>8, <2>9, <2>10, <2>11 DEF ConsumerStep
<1>4. CASE UNCHANGED vars
  BY <1>1, <1>4 DEF vars
<1>5. QED
  BY <1>2, <1>3, <1>4 DEF Next

\* Nothing is spent on a message by a step that starts no attempt at it.
LEMMA SpentKept ==
  ASSUME NEW m \in Messages, NEW c \in Consumers,
         \A d \in Consumers \ {c} :
           pc'[d] = pc[d] /\ batch'[d] = batch[d] /\ attempts'[d] = attempts[d],
         \/ attempts'[c] = 0
         \/ pc'[c] \notin {"handle", "toDLQ"}
         \/ /\ pc[c] \in {"handle", "toDLQ"} /\ batch'[c] = batch[c]
            /\ Current(c) # m \/ attempts'[c] = attempts[c]
  PROVE  SpentOn(m)' \subseteq SpentOn(m)
<1>1. SUFFICES ASSUME NEW d \in Consumers, NEW k \in 1..MaxRetries,
                      Trying(d, m)', k <= attempts'[d]
               PROVE  Trying(d, m) /\ k <= attempts[d]
  BY DEF SpentOn, Attempts
<1>2. pc'[d] \in {"handle", "toDLQ"} /\ Current(d)' = m
  BY <1>1 DEF Trying
<1>3. CASE d = c
  <2>1. k > 0 /\ k \in Nat
    BY Bounds
  <2>2. attempts'[c] # 0
    BY <1>1, <1>3, <2>1
  <2>3. pc[c] \in {"handle", "toDLQ"} /\ batch'[c] = batch[c]
        /\ (Current(c) # m \/ attempts'[c] = attempts[c])
    BY <1>2, <1>3, <2>2
  <2>4. QED
    BY <1>1, <1>2, <1>3, <2>3, CurrentKept DEF Trying
<1>4. CASE d # c
  BY <1>1, <1>2, <1>4, CurrentKept DEF Trying
<1>5. QED
  BY <1>3, <1>4

LEMMA PaidByLess ==
  ASSUME TypeOK, NEW m \in Messages, SpentOn(m)' \subseteq SpentOn(m),
         dead'[m] = dead[m], failures'[m] = failures[m],
         MaxRetries * dead[m] + Cardinality(SpentOn(m)) <= failures[m]
  PROVE  MaxRetries * dead'[m] + Cardinality(SpentOn(m)') <= failures'[m]
<1>1. Cardinality(SpentOn(m)') <= Cardinality(SpentOn(m))
  BY SpentIsFinite, FS_Subset
<1>2. dead[m] \in Nat /\ failures[m] \in Nat /\ MaxRetries * dead[m] \in Nat
  BY Bounds DEF TypeOK
<1>3. QED
  BY <1>1, <1>2, SpentIsFinite

\* A failed INSERT is one attempt more at the current message.
LEMMA PaidByFailure ==
  ASSUME TypeOK, AttemptsCounted, NEW c \in Consumers, InsertFails(c), NEW m \in Messages,
         MaxRetries * dead[m] + Cardinality(SpentOn(m)) <= failures[m]
  PROVE  MaxRetries * dead'[m] + Cardinality(SpentOn(m)') <= failures'[m]
<1>1. \A d \in Consumers \ {c} :
        pc'[d] = pc[d] /\ batch'[d] = batch[d] /\ attempts'[d] = attempts[d]
  BY OthersRest DEF ConsumerStep
<1>2. /\ pc \in [Consumers -> Stages]
      /\ attempts \in [Consumers -> Nat]
      /\ failures \in [Messages -> Nat]
      /\ dead[m] \in Nat /\ MaxRetries * dead[m] \in Nat /\ failures[m] \in Nat
  BY Bounds DEF TypeOK
<1>3. /\ pc[c] = "handle" /\ batch' = batch /\ dead' = dead
      /\ attempts'[c] = attempts[c] + 1
      /\ failures' = [failures EXCEPT ![Current(c)] = @ + 1]
  BY <1>2 DEF InsertFails, redisVars, consumerVars
<1>4. CASE m # Current(c)
  <2>1. failures'[m] = failures[m]
    BY <1>2, <1>3, <1>4
  <2>2. SpentOn(m)' \subseteq SpentOn(m)
    BY <1>1, <1>3, <1>4, SpentKept
  <2>3. QED
    BY <1>3, <2>1, <2>2, PaidByLess
<1>5. CASE m = Current(c)
  <2>1. failures'[m] = failures[m] + 1
    BY <1>2, <1>3, <1>5
  <2>2. PICK k : k = attempts[c] + 1
    OBVIOUS
  <2>3. SpentOn(m)' \subseteq SpentOn(m) \cup {<<c, k>>}
    <3>1. SUFFICES ASSUME NEW d \in Consumers, NEW i \in 1..MaxRetries,
                          Trying(d, m)', i <= attempts'[d], <<d, i>> # <<c, k>>
                   PROVE  Trying(d, m) /\ i <= attempts[d]
      BY DEF SpentOn, Attempts
    <3>2. CASE d = c
      <4>1. i # k /\ i <= k /\ i \in Nat /\ attempts[c] \in Nat
        BY <1>2, <1>3, <2>2, <3>1, <3>2, Bounds
      <4>2. i <= attempts[c]
        BY <2>2, <4>1
      <4>3. QED
        BY <1>3, <1>5, <3>2, <4>2 DEF Trying
    <3>3. CASE d # c
      BY <1>1, <3>1, <3>3, CurrentKept DEF Trying
    <3>4. QED
      BY <3>2, <3>3
  <2>4. Cardinality(SpentOn(m)') <= Cardinality(SpentOn(m)) + 1
    <3>1. /\ IsFiniteSet(SpentOn(m) \cup {<<c, k>>})
          /\ Cardinality(SpentOn(m) \cup {<<c, k>>}) <= Cardinality(SpentOn(m)) + 1
      <4>1. IsFiniteSet(SpentOn(m)) /\ Cardinality(SpentOn(m)) \in Nat
        BY SpentIsFinite
      <4>2. /\ IsFiniteSet(SpentOn(m) \cup {<<c, k>>})
            /\ Cardinality(SpentOn(m) \cup {<<c, k>>}) =
                 IF <<c, k>> \in SpentOn(m) THEN Cardinality(SpentOn(m)) ELSE Cardinality(SpentOn(m)) + 1
        BY <4>1, FS_AddElement, Zenon
      <4>3. QED
        BY <4>1, <4>2
    <3>2. SpentOn(m)' \in SUBSET (SpentOn(m) \cup {<<c, k>>})
      BY <2>3
    <3>3. Cardinality(SpentOn(m)') <= Cardinality(SpentOn(m) \cup {<<c, k>>})
      BY <3>1, <3>2, FS_Subset
    <3>4. Cardinality(SpentOn(m) \cup {<<c, k>>}) \in Nat
      BY <3>1, FS_CardinalityType
    <3>5. QED
      BY <3>1, <3>3, <3>4, SpentIsFinite
  <2>5. QED
    BY <1>2, <1>3, <2>1, <2>4, SpentIsFinite
<1>6. QED
  BY <1>4, <1>5

\* A dead letter takes the MaxRetries attempts of the consumer that writes it.
LEMMA PaidByDeadLetter ==
  ASSUME TypeOK, AttemptsCounted, NEW c \in Consumers, ToDLQ(c), NEW m \in Messages \ Malformed,
         MaxRetries * dead[m] + Cardinality(SpentOn(m)) <= failures[m]
  PROVE  MaxRetries * dead'[m] + Cardinality(SpentOn(m)') <= failures'[m]
<1>1. \A d \in Consumers \ {c} :
        pc'[d] = pc[d] /\ batch'[d] = batch[d] /\ attempts'[d] = attempts[d]
  BY OthersRest DEF ConsumerStep
<1>2. /\ pc \in [Consumers -> Stages]
      /\ dead \in [Messages -> Nat]
      /\ dead[m] \in Nat /\ failures[m] \in Nat
  BY Bounds DEF TypeOK
<1>3. /\ pc[c] = "toDLQ" /\ pc'[c] = "ack" /\ batch' = batch /\ failures' = failures
      /\ dead' = [dead EXCEPT ![Current(c)] = @ + 1]
  BY <1>2 DEF ToDLQ, dbVars, Goto
<1>4. SpentOn(m)' \subseteq SpentOn(m)
  BY <1>1, <1>3, SpentKept
<1>5. CASE m # Current(c)
  <2>1. dead'[m] = dead[m]
    BY <1>2, <1>3, <1>5
  <2>2. QED
    BY <1>3, <1>4, <2>1, PaidByLess
<1>6. CASE m = Current(c)
  <2> DEFINE own == {c} \X (1..MaxRetries)
  <2>1. dead'[m] = dead[m] + 1
    BY <1>2, <1>3, <1>6
  <2>2. attempts[c] = MaxRetries
    BY <1>3, <1>6 DEF AttemptsCounted
  <2>3. own \subseteq SpentOn(m)
    <3>1. \A k \in 1..MaxRetries : k <= MaxRetries
      BY Bounds
    <3>2. QED
      BY <1>3, <1>6, <2>2, <3>1 DEF SpentOn, Attempts, Trying
  <2>4. SpentOn(m)' \cap own = {}
    BY <1>3 DEF SpentOn, Trying
  <2>5. IsFiniteSet(own) /\ Cardinality(own) = MaxRetries
    <3>1. IsFiniteSet(1..MaxRetries) /\ Cardinality(1..MaxRetries) = MaxRetries
      BY RetriesCounted
    <3>2. IsFiniteSet({c}) /\ Cardinality({c}) = 1
      BY FS_Singleton
    <3>3. IsFiniteSet(own) /\ Cardinality(own) = Cardinality({c}) * Cardinality(1..MaxRetries)
      BY <3>1, <3>2, FS_Product
    <3>4. QED
      BY <3>1, <3>2, <3>3, Bounds
  <2> HIDE DEF own
  <2>6. Cardinality(SpentOn(m)') + MaxRetries <= Cardinality(SpentOn(m))
    <3>1. /\ IsFiniteSet(SpentOn(m)' \cup own)
          /\ Cardinality(SpentOn(m)' \cup own) =
               Cardinality(SpentOn(m)') + Cardinality(own) - Cardinality(SpentOn(m)' \cap own)
      BY <2>5, SpentIsFinite, FS_Union
    <3>2. Cardinality(SpentOn(m)' \cap own) = 0
      BY <2>4, FS_EmptySet
    <3>3. SpentOn(m)' \cup own \in SUBSET SpentOn(m)
      BY <1>4, <2>3
    <3>4. Cardinality(SpentOn(m)' \cup own) <= Cardinality(SpentOn(m))
      BY <3>3, SpentIsFinite, FS_Subset
    <3>5. QED
      BY <2>5, <3>1, <3>2, <3>4, SpentIsFinite, Bounds
  <2>7. MaxRetries * dead'[m] = MaxRetries * dead[m] + MaxRetries /\ MaxRetries * dead[m] \in Nat
    BY <1>2, <2>1, Bounds
  <2>8. QED
    BY <1>2, <1>3, <2>6, <2>7, SpentIsFinite, Bounds
<1>7. QED
  BY <1>5, <1>6

LEMMA PaidStep ==
  ASSUME DeadLetterInv, [Next]_vars
  PROVE  DeadLettersPaid'
<1> USE DEF redisVars, dbVars, consumerVars, Goto
<1>1. TypeOK /\ AttemptsCounted
  BY DEF DeadLetterInv
<1>2. SUFFICES ASSUME NEW m \in Messages \ Malformed
      PROVE  MaxRetries * dead'[m] + Cardinality(SpentOn(m)') <= failures'[m]
  BY DEF DeadLettersPaid
<1>3. MaxRetries * dead[m] + Cardinality(SpentOn(m)) <= failures[m]
  BY DEF DeadLetterInv, DeadLettersPaid
<1>4. CASE UNCHANGED <<dead, failures, pc, batch, attempts>>
  <2>1. SpentOn(m)' = SpentOn(m)
    BY <1>4 DEF SpentOn, Trying, Current
  <2>2. QED
    BY <1>1, <1>3, <1>4, <2>1, PaidByLess
<1>5. CASE Publish \/ DatabaseFails \/ DatabaseRecovers \/ (\E k \in Messages : Age(k))
  BY <1>4, <1>5 DEF Publish, DatabaseFails, DatabaseRecovers, Age
<1>6. ASSUME NEW c \in Consumers,
             Start(c) \/ StartWithoutGroup(c) \/ Stop(c) \/ ConsumerStep(c)
      PROVE  MaxRetries * dead'[m] + Cardinality(SpentOn(m)') <= failures'[m]
  <2>1. \A d \in Consumers \ {c} :
          pc'[d] = pc[d] /\ batch'[d] = batch[d] /\ attempts'[d] = attempts[d]
    BY <1>1, <1>6, OthersRest
  <2>2. pc \in [Consumers -> Stages] /\ attempts \in [Consumers -> Nat]
    BY <1>1 DEF TypeOK
  <2>3. pc[c] \in {"down", "claim", "read"} => attempts[c] = 0
    BY <1>1 DEF AttemptsCounted
  <2>4. ASSUME UNCHANGED <<dead, failures>>,
               \/ attempts'[c] = 0
               \/ pc'[c] \notin {"handle", "toDLQ"}
               \/ pc[c] \in {"handle", "toDLQ"} /\ batch'[c] = batch[c] /\ attempts'[c] = attempts[c]
        PROVE  MaxRetries * dead'[m] + Cardinality(SpentOn(m)') <= failures'[m]
    <3>1. SpentOn(m)' \subseteq SpentOn(m)
      BY <2>1, <2>4, SpentKept
    <3>2. QED
      BY <1>1, <1>3, <2>4, <3>1, PaidByLess
  <2>5. CASE Start(c) \/ StartWithoutGroup(c) \/ Stop(c)
    BY <2>2, <2>4, <2>5 DEF Start, StartWithoutGroup, Stop
  <2>6. CASE Claim(c) \/ ClaimFails(c)
    BY <2>2, <2>3, <2>4, <2>6 DEF Claim, ClaimFails
  <2>7. CASE Read(c) \/ ReadNothing(c) \/ ReadFails(c)
    <3>1. UNCHANGED <<dead, failures, attempts>> /\ pc[c] = "read"
      BY <2>7 DEF Read, ReadNothing, ReadFails, Deliver
    <3>2. QED
      BY <2>3, <2>4, <3>1
  <2>8. CASE Reject(c) \/ Insert(c) \/ ToDLQFails(c)
    BY <2>2, <2>4, <2>8 DEF Reject, Insert, ToDLQFails
  <2>9. CASE InsertFails(c)
    BY <1>1, <1>3, <2>9, PaidByFailure
  <2>10. CASE ToDLQ(c)
    BY <1>1, <1>3, <2>10, PaidByDeadLetter
  <2>11. CASE Ack(c) \/ AckFails(c)
    <3>1. attempts'[c] = 0 /\ UNCHANGED <<dead, failures>>
      BY <1>1, <2>11, CurrentLeaves DEF Ack, AckFails
    <3>2. QED
      BY <2>4, <3>1
  <2>12. QED
    BY <1>6, <2>5, <2>6, <2>7, <2>8, <2>9, <2>10, <2>11 DEF ConsumerStep
<1>7. CASE UNCHANGED vars
  BY <1>4, <1>7 DEF vars
<1>8. QED
  BY <1>5, <1>6, <1>7 DEF Next

\* However many consumers there are and whichever of them hold the same
\* message, every dead letter of a well-formed message stands for MaxRetries
\* failed attempts at it (stream.go:189-205).
THEOREM DeadLettersRetried == Spec => []DeadLettersWereRetried
<1>1. Init => DeadLetterInv
  <2>1. SUFFICES ASSUME Init PROVE AttemptsCounted /\ DeadLettersPaid
    BY TypeInit DEF DeadLetterInv
  <2>2. \A c \in Consumers : pc[c] = "down" /\ attempts[c] = 0
    BY <2>1 DEF Init
  <2>3. AttemptsCounted
    BY <2>2, Bounds DEF AttemptsCounted
  <2>4. ASSUME NEW m \in Messages \ Malformed
        PROVE  MaxRetries * dead[m] + Cardinality(SpentOn(m)) <= failures[m]
    <3>1. SpentOn(m) = {}
      BY <2>2 DEF SpentOn, Attempts, Trying
    <3>2. dead[m] = 0 /\ failures[m] = 0 /\ Cardinality(SpentOn(m)) = 0
      BY <2>1, <3>1, FS_EmptySet DEF Init
    <3>3. QED
      BY <3>2, Bounds
  <2>5. QED
    BY <2>3, <2>4 DEF DeadLettersPaid
<1>2. DeadLetterInv /\ [Next]_vars => DeadLetterInv'
  BY TypeStep, AttemptsStep, PaidStep DEF DeadLetterInv
<1>3. DeadLetterInv => DeadLettersWereRetried
  <2>1. SUFFICES ASSUME DeadLetterInv, NEW m \in Messages \ Malformed
        PROVE  MaxRetries * dead[m] <= failures[m]
    BY DEF DeadLettersWereRetried
  <2>2. dead[m] \in Nat /\ failures[m] \in Nat /\ MaxRetries * dead[m] \in Nat
    BY <2>1, Bounds DEF DeadLetterInv, TypeOK
  <2>3. MaxRetries * dead[m] + Cardinality(SpentOn(m)) <= failures[m]
    BY <2>1 DEF DeadLetterInv, DeadLettersPaid
  <2>4. QED
    BY <2>2, <2>3, SpentIsFinite
<1>4. QED
  BY <1>1, <1>2, <1>3, PTL DEF Spec

-----------------------------------------------------------------------------
(* Retries.  The failures of a message, the attempts its holders have left  *)
(* and those of a delivery that is still free are paid for by the first     *)
(* delivery and by the faults.                                              *)

LeftFor(m) ==
  {p \in Attempts : m \in batch[p[1]] /\ (m = Current(p[1]) => p[2] > attempts[p[1]])}

FreeAttempts(m) == IF Free(m) THEN MaxRetries ELSE 0

Budget == MaxRetries * (1 + faults)

WithinBudget(m) == failures[m] + Cardinality(LeftFor(m)) + FreeAttempts(m) <= Budget

RetryInv == TypeOK /\ AttemptsCounted /\ \A m \in Messages : WithinBudget(m)

LEMMA LeftIsFinite ==
  ASSUME NEW m \in Messages
  PROVE  /\ IsFiniteSet(LeftFor(m)) /\ Cardinality(LeftFor(m)) \in Nat
         /\ IsFiniteSet(LeftFor(m)') /\ Cardinality(LeftFor(m)') \in Nat
<1>1. LeftFor(m) \in SUBSET Attempts /\ LeftFor(m)' \in SUBSET Attempts
  BY DEF LeftFor, Attempts
<1>2. QED
  BY <1>1, AttemptsAreFinite, FS_Subset, FS_CardinalityType

LEMMA LeftKept ==
  ASSUME NEW m \in Messages, NEW c \in Consumers,
         \A d \in Consumers \ {c} : batch'[d] = batch[d] /\ attempts'[d] = attempts[d],
         attempts[c] \in Nat, attempts'[c] \in Nat,
         m \in batch'[c] => /\ m \in batch[c]
                            /\ m = Current(c) => batch'[c] = batch[c] /\ attempts'[c] >= attempts[c]
  PROVE  LeftFor(m)' \subseteq LeftFor(m)
<1>1. SUFFICES ASSUME NEW d \in Consumers, NEW k \in 1..MaxRetries,
                      m \in batch'[d], m = Current(d)' => k > attempts'[d]
               PROVE  m \in batch[d] /\ (m = Current(d) => k > attempts[d])
  BY DEF LeftFor, Attempts
<1>2. CASE d = c
  <2>1. m \in batch[c]
    BY <1>1, <1>2
  <2>2. ASSUME m = Current(c) PROVE k > attempts[c]
    <3>1. batch'[c] = batch[c] /\ attempts'[c] >= attempts[c]
      BY <1>1, <1>2, <2>2
    <3>2. Current(c)' = m
      BY <2>2, <3>1, CurrentKept
    <3>3. k > attempts'[c] /\ k \in Nat
      BY <1>1, <1>2, <3>2, Bounds
    <3>4. QED
      BY <3>1, <3>3
  <2>3. QED
    BY <1>2, <2>1, <2>2
<1>3. CASE d # c
  BY <1>1, <1>3, CurrentKept
<1>4. QED
  BY <1>2, <1>3

LEMMA BudgetGrows ==
  ASSUME TypeOK
  PROVE  /\ Budget \in Nat /\ MaxRetries \in Nat
         /\ faults' = faults => Budget' = Budget
         /\ faults' = faults + 1 => Budget' = Budget + MaxRetries
<1>1. faults \in Nat /\ MaxRetries \in Nat
  BY Bounds DEF TypeOK
<1>2. Budget \in Nat
  BY <1>1 DEF Budget
<1>3. faults' = faults => Budget' = Budget
  BY DEF Budget
<1>4. ASSUME faults' = faults + 1 PROVE Budget' = Budget + MaxRetries
  <2>1. Budget' = MaxRetries * (1 + (faults + 1))
    BY <1>4 DEF Budget
  <2>2. MaxRetries * (1 + (faults + 1)) = MaxRetries * (1 + faults) + MaxRetries
    BY <1>1
  <2>3. QED
    BY <2>1, <2>2 DEF Budget
<1>5. QED
  BY <1>1, <1>2, <1>3, <1>4

\* A step without a fault that sets no delivery free, and one with a fault,
\* which pays for the delivery it may set free.
LEMMA QuietOrPaid ==
  ASSUME TypeOK, NEW m \in Messages, WithinBudget(m),
         LeftFor(m)' \subseteq LeftFor(m), failures'[m] = failures[m],
         \/ faults' = faults /\ (Free(m)' => Free(m))
         \/ faults' = faults + 1
  PROVE  WithinBudget(m)'
<1>1. Cardinality(LeftFor(m)') <= Cardinality(LeftFor(m))
  BY LeftIsFinite, FS_Subset
<1>2. /\ failures[m] \in Nat /\ Budget \in Nat /\ MaxRetries \in Nat
      /\ Cardinality(LeftFor(m)) \in Nat /\ Cardinality(LeftFor(m)') \in Nat
  BY BudgetGrows, LeftIsFinite DEF TypeOK
<1>3. failures[m] + Cardinality(LeftFor(m)) + FreeAttempts(m) <= Budget
  BY DEF WithinBudget
<1>4. /\ FreeAttempts(m) \in {0, MaxRetries} /\ FreeAttempts(m)' \in {0, MaxRetries}
      /\ (Free(m)' => Free(m)) => FreeAttempts(m)' <= FreeAttempts(m)
  BY <1>2 DEF FreeAttempts
<1>5. failures'[m] + Cardinality(LeftFor(m)') + FreeAttempts(m)' <= Budget'
  <2>1. CASE faults' = faults /\ (Free(m)' => Free(m))
    <3>1. Budget' = Budget /\ FreeAttempts(m)' <= FreeAttempts(m)
      BY <1>4, <2>1, BudgetGrows
    <3>2. QED
      BY <1>1, <1>2, <1>3, <1>4, <3>1
  <2>2. CASE faults' = faults + 1
    <3>1. Budget' = Budget + MaxRetries
      BY <2>2, BudgetGrows
    <3>2. QED
      BY <1>1, <1>2, <1>3, <1>4, <3>1
  <2>3. QED
    BY <2>1, <2>2
<1>6. QED
  BY <1>5 DEF WithinBudget

\* A consumer that is given the message has MaxRetries attempts, those of the
\* delivery that was free.
LEMMA DeliveryWithinBudget ==
  ASSUME TypeOK, NEW c \in Consumers, Claim(c) \/ Read(c), NEW m \in Messages,
         m \in batch'[c], WithinBudget(m)
  PROVE  WithinBudget(m)'
<1> DEFINE own == {c} \X (1..MaxRetries)
<1>1. \A d \in Consumers \ {c} : batch'[d] = batch[d] /\ attempts'[d] = attempts[d]
  BY OthersRest DEF ConsumerStep
<1>2. LeftFor(m)' \subseteq LeftFor(m) \cup own
  <2>1. SUFFICES ASSUME NEW d \in Consumers, NEW k \in 1..MaxRetries, d # c,
                        m \in batch'[d], m = Current(d)' => k > attempts'[d]
                 PROVE  m \in batch[d] /\ (m = Current(d) => k > attempts[d])
    BY DEF LeftFor, Attempts
  <2>2. QED
    BY <1>1, <2>1, CurrentKept
<1>3. IsFiniteSet(own) /\ Cardinality(own) = MaxRetries
  <2>1. IsFiniteSet({c}) /\ Cardinality({c}) = 1
    BY FS_Singleton
  <2>2. IsFiniteSet(own) /\ Cardinality(own) = Cardinality({c}) * Cardinality(1..MaxRetries)
    BY <2>1, RetriesCounted, FS_Product
  <2>3. QED
    BY <2>1, <2>2, RetriesCounted, Bounds
<1> HIDE DEF own
<1>4. /\ failures[m] \in Nat /\ Budget \in Nat /\ MaxRetries \in Nat
      /\ Cardinality(LeftFor(m)) \in Nat /\ Cardinality(LeftFor(m)') \in Nat
  BY BudgetGrows, LeftIsFinite DEF TypeOK
<1>5. Cardinality(LeftFor(m)') <= Cardinality(LeftFor(m)) + MaxRetries
  <2>1. IsFiniteSet(LeftFor(m)) /\ IsFiniteSet(own)
    BY <1>3, LeftIsFinite
  <2>2. /\ IsFiniteSet(LeftFor(m) \cup own)
        /\ Cardinality(LeftFor(m) \cup own) =
             Cardinality(LeftFor(m)) + Cardinality(own) - Cardinality(LeftFor(m) \cap own)
    BY <2>1, FS_Union
  <2>3. Cardinality(LeftFor(m) \cap own) \in Nat
    BY <2>1, FS_Intersection, FS_CardinalityType
  <2>4. LeftFor(m)' \in SUBSET (LeftFor(m) \cup own)
    BY <1>2
  <2>5. Cardinality(LeftFor(m)') <= Cardinality(LeftFor(m) \cup own)
    BY <2>2, <2>4, FS_Subset
  <2>6. QED
    BY <1>3, <1>4, <2>2, <2>3, <2>5
<1>6. FreeAttempts(m) = MaxRetries /\ FreeAttempts(m)' = 0
  BY FreeTaken DEF FreeAttempts
<1>7. failures' = failures /\ Budget' = Budget
  BY BudgetGrows DEF Claim, Read, dbVars, NoFault
<1>8. failures[m] + Cardinality(LeftFor(m)) + FreeAttempts(m) <= Budget
  BY DEF WithinBudget
<1>9. failures'[m] + Cardinality(LeftFor(m)') + FreeAttempts(m)' <= Budget'
  BY <1>4, <1>5, <1>6, <1>7, <1>8
<1>10. QED
  BY <1>9 DEF WithinBudget

\* A failure is an attempt that its consumer had left.
LEMMA FailureWithinBudget ==
  ASSUME TypeOK, AttemptsCounted, NEW c \in Consumers, InsertFails(c), NEW m \in Messages,
         WithinBudget(m)
  PROVE  WithinBudget(m)'
<1>1. \A d \in Consumers \ {c} : batch'[d] = batch[d] /\ attempts'[d] = attempts[d]
  BY OthersRest DEF ConsumerStep
<1>2. attempts \in [Consumers -> Nat] /\ failures \in [Messages -> Nat]
  BY DEF TypeOK
<1>3. /\ pc[c] = "handle" /\ batch' = batch
      /\ attempts'[c] = attempts[c] + 1
      /\ failures' = [failures EXCEPT ![Current(c)] = @ + 1]
      /\ faults' \in {faults, faults + 1}
  BY <1>2 DEF InsertFails, Fault, NoFault, consumerVars
<1>4. Free(m)' = Free(m)
  BY FreeKept DEF InsertFails, redisVars
<1>5. LeftFor(m)' \subseteq LeftFor(m)
  <2>1. attempts[c] \in Nat /\ attempts'[c] \in Nat /\ attempts'[c] >= attempts[c]
    BY <1>2, <1>3
  <2>2. QED
    BY <1>1, <1>3, <2>1, LeftKept
<1>6. CASE m # Current(c)
  <2>1. failures'[m] = failures[m]
    BY <1>2, <1>3, <1>6
  <2>2. QED
    BY <1>3, <1>4, <1>5, <2>1, QuietOrPaid
<1>7. CASE m = Current(c)
  <2>1. PICK k : k = attempts[c] + 1
    OBVIOUS
  <2>2. k \in 1..MaxRetries /\ attempts[c] \in Nat
    BY <1>2, <1>3, <2>1, Bounds DEF AttemptsCounted
  <2>3. m \in batch[c]
    BY <1>3, <1>7, CurrentIsMessage
  <2>4. <<c, k>> \in LeftFor(m)
    <3>1. k > attempts[c]
      BY <2>1, <2>2
    <3>2. QED
      BY <2>2, <2>3, <3>1 DEF LeftFor, Attempts
  <2>5. <<c, k>> \notin LeftFor(m)'
    <3>1. Current(c)' = m /\ ~ (k > attempts'[c])
      BY <1>3, <1>7, <2>1, <2>2, CurrentKept
    <3>2. QED
      BY <3>1 DEF LeftFor
  <2>6. Cardinality(LeftFor(m)') + 1 <= Cardinality(LeftFor(m))
    <3>1. IsFiniteSet(LeftFor(m)) /\ Cardinality(LeftFor(m)) \in Nat
          /\ Cardinality(LeftFor(m)') \in Nat
      BY LeftIsFinite
    <3>2. /\ IsFiniteSet(LeftFor(m) \ {<<c, k>>})
          /\ Cardinality(LeftFor(m) \ {<<c, k>>}) = Cardinality(LeftFor(m)) - 1
      BY <2>4, <3>1, FS_RemoveElement, Zenon
    <3>3. LeftFor(m)' \in SUBSET (LeftFor(m) \ {<<c, k>>})
      BY <1>5, <2>5
    <3>4. Cardinality(LeftFor(m)') <= Cardinality(LeftFor(m) \ {<<c, k>>})
      BY <3>2, <3>3, FS_Subset
    <3>5. QED
      BY <3>1, <3>2, <3>4
  <2>7. failures'[m] = failures[m] + 1 /\ failures[m] \in Nat
    BY <1>2, <1>3, <1>7
  <2>8. Budget \in Nat /\ MaxRetries \in Nat /\ Budget' \in {Budget, Budget + MaxRetries}
    BY <1>3, BudgetGrows
  <2>9. FreeAttempts(m)' = FreeAttempts(m) /\ FreeAttempts(m) \in Nat
    BY <1>4, <2>8 DEF FreeAttempts
  <2>10. failures[m] + Cardinality(LeftFor(m)) + FreeAttempts(m) <= Budget
    BY DEF WithinBudget
  <2>11. failures'[m] + Cardinality(LeftFor(m)') + FreeAttempts(m)' <= Budget'
    BY <2>6, <2>7, <2>8, <2>9, <2>10, LeftIsFinite
  <2>12. QED
    BY <2>11 DEF WithinBudget
<1>8. QED
  BY <1>6, <1>7

LEMMA RetryStep ==
  ASSUME RetryInv, [Next]_vars, NEW m \in Messages
  PROVE  WithinBudget(m)'
<1> USE DEF redisVars, dbVars, consumerVars, Goto, NoFault, Fault
<1>1. TypeOK /\ AttemptsCounted /\ WithinBudget(m)
  BY DEF RetryInv
<1>2. ASSUME UNCHANGED <<failures, batch, attempts>>,
             (faults' = faults /\ (Free(m)' => Free(m))) \/ faults' = faults + 1
      PROVE  WithinBudget(m)'
  <2>1. LeftFor(m)' = LeftFor(m)
    BY <1>2 DEF LeftFor, Current
  <2>2. QED
    BY <1>1, <1>2, <2>1, QuietOrPaid
<1>3. ASSUME UNCHANGED <<failures, batch, attempts, delivered, pending, aged>>,
             faults' = faults \/ faults' = faults + 1
      PROVE  WithinBudget(m)'
  BY <1>2, <1>3, FreeKept
<1>4. CASE Publish \/ DatabaseFails \/ DatabaseRecovers
  BY <1>3, <1>4 DEF Publish, DatabaseFails, DatabaseRecovers
<1>5. ASSUME NEW k \in Messages, Age(k) PROVE WithinBudget(m)'
  <2>1. UNCHANGED <<failures, batch, attempts>>
    BY <1>5 DEF Age
  <2>2. CASE k \in Held
    BY <1>2, <1>5, <2>1, <2>2 DEF Age
  <2>3. CASE k \notin Held
    <3>1. Free(m)' => Free(m)
      BY <1>5, <2>3 DEF Age, Free, Held
    <3>2. QED
      BY <1>2, <1>5, <2>1, <2>3, <3>1 DEF Age
  <2>4. QED
    BY <2>2, <2>3
<1>6. ASSUME NEW c \in Consumers,
             Start(c) \/ StartWithoutGroup(c) \/ Stop(c) \/ ConsumerStep(c)
      PROVE  WithinBudget(m)'
  <2>1. \A d \in Consumers \ {c} : batch'[d] = batch[d] /\ attempts'[d] = attempts[d]
    BY <1>1, <1>6, OthersRest
  <2>2. batch \in [Consumers -> SUBSET Messages] /\ attempts \in [Consumers -> Nat]
    BY <1>1 DEF TypeOK
  <2>3. attempts'[c] \in Nat
    BY <1>1, TypeStep DEF RetryInv, TypeOK
  <2>4. CASE Start(c) \/ StartWithoutGroup(c)
    BY <1>3, <2>4 DEF Start, StartWithoutGroup
  <2>5. CASE Stop(c)
    <3>1. batch'[c] = {} /\ failures' = failures /\ faults' = faults + 1
      BY <2>2, <2>5 DEF Stop
    <3>2. LeftFor(m)' \subseteq LeftFor(m)
      BY <2>1, <2>2, <2>3, <3>1, LeftKept
    <3>3. QED
      BY <1>1, <3>1, <3>2, QuietOrPaid
  <2>6. CASE Claim(c) \/ Read(c)
    <3>1. CASE m \in batch'[c]
      BY <1>1, <2>6, <3>1, DeliveryWithinBudget
    <3>2. CASE m \notin batch'[c]
      <4>1. LeftFor(m)' \subseteq LeftFor(m)
        BY <2>1, <2>2, <2>3, <3>2, LeftKept
      <4>2. Free(m)' => Free(m)
        BY <1>1, <2>6, <3>2, FreeTaken
      <4>3. failures' = failures /\ faults' = faults
        BY <2>6 DEF Claim, Read
      <4>4. QED
        BY <1>1, <4>1, <4>2, <4>3, QuietOrPaid
    <3>3. QED
      BY <3>1, <3>2
  <2>7. CASE ClaimFails(c) \/ ReadNothing(c)
    BY <1>3, <2>7 DEF ClaimFails, ReadNothing
  <2>8. CASE ReadFails(c)
    BY <1>2, <2>8 DEF ReadFails
  <2>9. CASE Reject(c) \/ Insert(c) \/ ToDLQ(c) \/ ToDLQFails(c)
    BY <1>3, <2>9 DEF Reject, Insert, ToDLQ, ToDLQFails
  <2>10. CASE InsertFails(c)
    BY <1>1, <2>10, FailureWithinBudget
  <2>11. CASE Ack(c) \/ AckFails(c)
    <3>1. batch'[c] = batch[c] \ {Current(c)}
      BY <1>1, <2>11, CurrentLeaves
    <3>2. LeftFor(m)' \subseteq LeftFor(m)
      BY <2>1, <2>2, <2>3, <3>1, LeftKept
    <3>3. failures' = failures
      BY <2>11 DEF Ack, AckFails
    <3>4. CASE Ack(c)
      <4>1. Free(m)' => Free(m)
        BY <1>1, <3>4, FreeAfterAck
      <4>2. QED
        BY <1>1, <3>2, <3>3, <3>4, <4>1, QuietOrPaid DEF Ack
    <3>5. CASE AckFails(c)
      BY <1>1, <3>2, <3>3, <3>5, QuietOrPaid DEF AckFails
    <3>6. QED
      BY <2>11, <3>4, <3>5
  <2>12. QED
    BY <1>6, <2>4, <2>5, <2>6, <2>7, <2>8, <2>9, <2>10, <2>11 DEF ConsumerStep
<1>7. CASE UNCHANGED vars
  BY <1>3, <1>7 DEF vars
<1>8. QED
  BY <1>4, <1>5, <1>6, <1>7 DEF Next

\* However many consumers there are and however long the database is away, an
\* event is tried MaxRetries times and, for each fault, MaxRetries times more:
\* every delivery but the first is the doing of a fault (stream.go:190-200).
THEOREM RetriesAreCaused == Spec => []RetriesHaveCauses
<1>1. Init => RetryInv
  <2>1. SUFFICES ASSUME Init PROVE AttemptsCounted /\ \A m \in Messages : WithinBudget(m)
    BY TypeInit DEF RetryInv
  <2>2. \A c \in Consumers : pc[c] = "down" /\ attempts[c] = 0 /\ batch[c] = {}
    BY <2>1 DEF Init
  <2>3. AttemptsCounted
    BY <2>2, Bounds DEF AttemptsCounted
  <2>4. ASSUME NEW m \in Messages PROVE WithinBudget(m)
    <3>1. LeftFor(m) = {}
      BY <2>2 DEF LeftFor, Attempts
    <3>2. failures[m] = 0 /\ faults = 0 /\ Cardinality(LeftFor(m)) = 0
      BY <2>1, <3>1, FS_EmptySet DEF Init
    <3>3. FreeAttempts(m) \in {0, MaxRetries} /\ Budget = MaxRetries
      BY <3>2, Bounds DEF FreeAttempts, Budget
    <3>4. QED
      BY <3>2, <3>3, Bounds DEF WithinBudget
  <2>5. QED
    BY <2>3, <2>4
<1>2. RetryInv /\ [Next]_vars => RetryInv'
  BY TypeStep, AttemptsStep, RetryStep DEF RetryInv
<1>3. RetryInv => RetriesHaveCauses
  <2>1. SUFFICES ASSUME RetryInv, NEW m \in Messages
        PROVE  failures[m] <= MaxRetries * (1 + faults)
    BY DEF RetriesHaveCauses
  <2>2. failures[m] \in Nat /\ Budget \in Nat /\ FreeAttempts(m) \in Nat
    BY <2>1, BudgetGrows DEF RetryInv, TypeOK, FreeAttempts
  <2>3. failures[m] + Cardinality(LeftFor(m)) + FreeAttempts(m) <= Budget
    BY <2>1 DEF RetryInv, WithinBudget
  <2>4. failures[m] <= Budget
    BY <2>2, <2>3, LeftIsFinite
  <2>5. QED
    BY <2>4 DEF Budget
<1>4. QED
  BY <1>1, <1>2, <1>3, PTL DEF Spec

-----------------------------------------------------------------------------
(* Faults and records.  The claims on a message are the records it has, the *)
(* consumers that will record it and the delivery that is still free.  One  *)
(* claim is its due; what exceeds it, or the loss of the only one, is the   *)
(* share of a fault.                                                        *)

Works(c, m) == m \in batch[c] /\ ~ (pc[c] = "ack" /\ m = Current(c))

Workers(m) == {c \in Consumers : Works(c, m)}

Claims(m) == Records(m) + Cardinality(Workers(m)) + (IF Free(m) THEN 1 ELSE 0)

\* It is acknowledged without a record, or a consumer is about to do so.
Doomed(m) ==
  /\ ~ Settled(m)
  /\ \/ m \in Lost
     \/ \E c \in Consumers : pc[c] = "ack" /\ Current(c) = m

Share(m) == IF Claims(m) > 1 THEN Claims(m) ELSE IF Doomed(m) THEN 2 ELSE 1

Shares == UNION {{m} \X (2..Share(m)) : m \in Messages}

HarmInv == TypeOK /\ IsFiniteSet(Shares) /\ Cardinality(Shares) <= faults

OthersKept(c) ==
  \A d \in Consumers \ {c} : pc'[d] = pc[d] /\ batch'[d] = batch[d]

\* What one consumer contributes to the claims on a message.
LEMMA ClaimsOfOne ==
  ASSUME NEW c \in Consumers, NEW m \in Messages, OthersKept(c)
  PROVE  \E n \in Nat :
           /\ Claims(m) = Records(m) + (n + (IF Works(c, m) THEN 1 ELSE 0)) + (IF Free(m) THEN 1 ELSE 0)
           /\ Claims(m)' = Records(m)' + (n + (IF Works(c, m)' THEN 1 ELSE 0)) + (IF Free(m)' THEN 1 ELSE 0)
<1> DEFINE rest == {d \in Consumers \ {c} : Works(d, m)}
<1>1. rest \in SUBSET Consumers
  OBVIOUS
<1>2. IsFiniteSet(rest) /\ Cardinality(rest) \in Nat /\ c \notin rest
  BY <1>1, ConsumerAssumption, FS_Subset, FS_CardinalityType
<1>3. Workers(m) = IF Works(c, m) THEN rest \cup {c} ELSE rest
  BY DEF Workers
<1>4. Workers(m)' = IF Works(c, m)' THEN rest \cup {c} ELSE rest
  <2>1. \A d \in Consumers \ {c} : Works(d, m)' <=> Works(d, m)
    BY CurrentKept DEF OthersKept, Works
  <2>2. QED
    BY <2>1 DEF Workers
<1> HIDE DEF rest
<1>5. Cardinality(rest \cup {c}) = Cardinality(rest) + 1
  BY <1>2, FS_AddElement, Zenon
<1>6. Cardinality(Workers(m)) = Cardinality(rest) + (IF Works(c, m) THEN 1 ELSE 0)
  BY <1>2, <1>3, <1>5
<1>7. Cardinality(Workers(m)') = Cardinality(rest) + (IF Works(c, m)' THEN 1 ELSE 0)
  BY <1>2, <1>4, <1>5
<1>8. QED
  BY <1>2, <1>6, <1>7 DEF Claims

LEMMA ClaimsType ==
  ASSUME TypeOK, NEW m \in Messages
  PROVE  Records(m) \in Nat /\ Claims(m) \in Nat /\ Share(m) \in Nat /\ Share(m) >= 1
<1>1. Records(m) \in Nat
  BY DEF Records, TypeOK
<1>2. Workers(m) \in SUBSET Consumers
  BY DEF Workers
<1>3. Cardinality(Workers(m)) \in Nat
  BY <1>2, ConsumerAssumption, FS_Subset, FS_CardinalityType
<1>4. Claims(m) \in Nat
  BY <1>1, <1>3 DEF Claims
<1>5. QED
  BY <1>1, <1>4 DEF Share

LEMMA ClaimsTypeNext ==
  ASSUME TypeOK, [Next]_vars, NEW m \in Messages
  PROVE  Records(m)' \in Nat /\ Claims(m)' \in Nat /\ Share(m)' \in Nat
<1>1. TypeOK => Records(m) \in Nat /\ Claims(m) \in Nat /\ Share(m) \in Nat
  BY ClaimsType
<1>2. TypeOK'
  BY TypeStep
<1>3. Records(m)' \in Nat
  BY <1>2 DEF Records, TypeOK
<1>4. Workers(m)' \in SUBSET Consumers
  BY DEF Workers
<1>5. Cardinality(Workers(m)') \in Nat
  BY <1>4, ConsumerAssumption, FS_Subset, FS_CardinalityType
<1>6. Claims(m)' \in Nat
  BY <1>3, <1>5 DEF Claims
<1>7. QED
  BY <1>3, <1>6 DEF Share

LEMMA ShareKept ==
  ASSUME TypeOK, [Next]_vars, NEW m \in Messages,
         Claims(m)' <= Claims(m), Doomed(m)' => Doomed(m)
  PROVE  Share(m)' <= Share(m)
<1>1. Claims(m) \in Nat /\ Claims(m)' \in Nat
  BY ClaimsType, ClaimsTypeNext
<1>2. QED
  BY <1>1 DEF Share

LEMMA ShareRises ==
  ASSUME TypeOK, [Next]_vars, NEW m \in Messages, Claims(m)' <= Claims(m) + 1
  PROVE  Share(m)' <= Share(m) + 1
<1>1. Claims(m) \in Nat /\ Claims(m)' \in Nat
  BY ClaimsType, ClaimsTypeNext
<1>2. QED
  BY <1>1 DEF Share

\* A message is doomed by the consumer that gives it up, not by a consumer
\* that acknowledges it.
LEMMA DoomedKept ==
  ASSUME NEW c \in Consumers, NEW m \in Messages, OthersKept(c),
         Settled(m) => Settled(m)',
         m \in 1..delivered' /\ m \notin pending' =>
           \/ m \in 1..delivered /\ m \notin pending
           \/ pc[c] = "ack" /\ Current(c) = m,
         pc'[c] = "ack" /\ Current(c)' = m => (pc[c] = "ack" /\ Current(c) = m) \/ Settled(m)'
  PROVE  Doomed(m)' => Doomed(m)
<1>1. SUFFICES ASSUME Doomed(m)' PROVE Doomed(m)
  OBVIOUS
<1>2. ~ Settled(m)' /\ ~ Settled(m)
  BY <1>1 DEF Doomed
<1>3. CASE m \in Lost'
  BY <1>2, <1>3 DEF Doomed, Lost
<1>4. ASSUME NEW d \in Consumers, pc'[d] = "ack", Current(d)' = m PROVE Doomed(m)
  <2>1. CASE d = c
    BY <1>2, <1>4, <2>1 DEF Doomed
  <2>2. CASE d # c
    <3>1. pc[d] = "ack" /\ Current(d) = m
      BY <1>4, <2>2, CurrentKept DEF OthersKept
    <3>2. QED
      BY <1>2, <3>1 DEF Doomed
  <2>3. QED
    BY <2>1, <2>2
<1>5. QED
  BY <1>1, <1>3, <1>4 DEF Doomed

One(P) == IF P THEN 1 ELSE 0

LEMMA ClaimsCompare ==
  ASSUME TypeOK, [Next]_vars, NEW c \in Consumers, NEW m \in Messages, OthersKept(c), NEW i \in Nat,
         Records(m)' + One(Works(c, m)') + One(Free(m)') <= Records(m) + One(Works(c, m)) + One(Free(m)) + i
  PROVE  Claims(m)' <= Claims(m) + i
<1>1. PICK n \in Nat :
        /\ Claims(m) = Records(m) + (n + (IF Works(c, m) THEN 1 ELSE 0)) + (IF Free(m) THEN 1 ELSE 0)
        /\ Claims(m)' = Records(m)' + (n + (IF Works(c, m)' THEN 1 ELSE 0)) + (IF Free(m)' THEN 1 ELSE 0)
  BY ClaimsOfOne
<1>2. Records(m) \in Nat /\ Records(m)' \in Nat
  BY ClaimsType, ClaimsTypeNext
<1>3. QED
  BY <1>1, <1>2 DEF One

\* Nothing is claimed that was not claimed before.
LEMMA QuietMove ==
  ASSUME TypeOK, [Next]_vars, NEW c \in Consumers, NEW m \in Messages, OthersKept(c),
         Records(m)' = Records(m), Works(c, m)' => Works(c, m), Free(m)' => Free(m),
         Doomed(m)' => Doomed(m)
  PROVE  Share(m)' <= Share(m)
<1>1. Records(m) \in Nat
  BY ClaimsType
<1>2. Records(m)' + One(Works(c, m)') + One(Free(m)') <= Records(m) + One(Works(c, m)) + One(Free(m)) + 0
  BY <1>1 DEF One
<1>3. Claims(m)' <= Claims(m) + 0
  BY <1>2, ClaimsCompare
<1>4. Claims(m) \in Nat /\ Claims(m)' \in Nat
  BY ClaimsType, ClaimsTypeNext
<1>5. QED
  BY <1>3, <1>4, ShareKept

\* One claim takes the place of another.
LEMMA HandOver ==
  ASSUME TypeOK, [Next]_vars, NEW c \in Consumers, NEW m \in Messages, OthersKept(c),
         Doomed(m)' => Doomed(m),
         \/ /\ Records(m)' = Records(m) + 1 /\ Works(c, m) /\ ~ Works(c, m)' /\ (Free(m)' => Free(m))
         \/ /\ Records(m)' = Records(m) /\ Free(m) /\ ~ Free(m)'
         \/ /\ Records(m)' = Records(m) /\ Works(c, m) /\ ~ Works(c, m)'
  PROVE  Share(m)' <= Share(m)
<1>1. Records(m) \in Nat
  BY ClaimsType
<1>2. Records(m)' + One(Works(c, m)') + One(Free(m)') <= Records(m) + One(Works(c, m)) + One(Free(m)) + 0
  BY <1>1 DEF One
<1>3. Claims(m)' <= Claims(m) + 0
  BY <1>2, ClaimsCompare
<1>4. Claims(m) \in Nat /\ Claims(m)' \in Nat
  BY ClaimsType, ClaimsTypeNext
<1>5. QED
  BY <1>3, <1>4, ShareKept

\* A fault adds one claim at most to the message it strikes.
LEMMA Struck ==
  ASSUME TypeOK, [Next]_vars, NEW c \in Consumers, NEW m \in Messages, OthersKept(c),
         \/ /\ Records(m)' = Records(m) + 1 /\ (Works(c, m)' => Works(c, m)) /\ (Free(m)' => Free(m))
         \/ /\ Records(m)' = Records(m) /\ (Works(c, m)' => Works(c, m))
  PROVE  Share(m)' <= Share(m) + 1
<1>1. Records(m) \in Nat
  BY ClaimsType
<1>2. Records(m)' + One(Works(c, m)') + One(Free(m)') <= Records(m) + One(Works(c, m)) + One(Free(m)) + 1
  BY <1>1 DEF One
<1>3. Claims(m)' <= Claims(m) + 1
  BY <1>2, ClaimsCompare
<1>4. QED
  BY <1>3, ShareRises

-----------------------------------------------------------------------------
(* What each step does to the shares of the messages. *)

\* No share grows, or the step is a fault and one share grows by one.
NoShareGrows ==
  /\ faults' \in {faults, faults + 1}
  /\ \A m \in Messages : Share(m)' <= Share(m)

OneShareGrows ==
  /\ faults' = faults + 1
  /\ \E k \in Messages :
       /\ Share(k)' <= Share(k) + 1
       /\ \A m \in Messages \ {k} : Share(m)' <= Share(m)

LEMMA EnvironmentShares ==
  ASSUME TypeOK, [Next]_vars,
         \/ Publish \/ DatabaseFails \/ DatabaseRecovers \/ UNCHANGED vars
         \/ \E k \in Messages : Age(k)
  PROVE  NoShareGrows \/ OneShareGrows
<1> USE DEF vars, redisVars, dbVars, consumerVars, NoFault, Fault
<1>1. UNCHANGED <<delivered, pending, dead, rows, pc, batch>>
  BY DEF Publish, DatabaseFails, DatabaseRecovers, Age
<1>2. \A m \in Messages : /\ Records(m)' = Records(m) /\ Workers(m)' = Workers(m)
                          /\ Doomed(m)' = Doomed(m)
  BY <1>1 DEF Records, Workers, Works, Current, Doomed, Settled, Lost
<1>3. ASSUME NEW m \in Messages, Free(m)' => Free(m) PROVE Share(m)' <= Share(m)
  <2>1. Claims(m)' <= Claims(m)
    <3>1. Records(m) \in Nat /\ Claims(m) \in Nat
      BY ClaimsType
    <3>2. Workers(m) \in SUBSET Consumers
      BY DEF Workers
    <3>3. Cardinality(Workers(m)) \in Nat
      BY <3>2, ConsumerAssumption, FS_Subset, FS_CardinalityType
    <3>4. QED
      BY <1>2, <1>3, <3>1, <3>3 DEF Claims
  <2>2. QED
    BY <1>2, <2>1, ShareKept
<1>4. CASE Publish \/ DatabaseFails \/ DatabaseRecovers \/ UNCHANGED vars
  <2>1. UNCHANGED <<aged, faults>>
    BY <1>4 DEF Publish, DatabaseFails, DatabaseRecovers
  <2>2. \A m \in Messages : Free(m)' = Free(m)
    BY <1>1, <2>1, FreeKept
  <2>3. QED
    BY <1>3, <2>1, <2>2 DEF NoShareGrows
<1>5. ASSUME NEW k \in Messages, Age(k) PROVE NoShareGrows \/ OneShareGrows
  <2>1. \A m \in Messages \ {k} : Free(m)' => Free(m)
    BY <1>1, <1>5 DEF Age, Free, Held
  <2>2. CASE k \notin Held
    <3>1. Free(k)' => Free(k)
      BY <1>1, <1>5, <2>2 DEF Age, Free, Held
    <3>2. faults' = faults
      BY <1>5, <2>2 DEF Age
    <3>3. QED
      BY <1>3, <2>1, <3>1, <3>2 DEF NoShareGrows
  <2>3. CASE k \in Held
    <3>1. Claims(k)' <= Claims(k) + 1
      <4>1. Records(k) \in Nat /\ Claims(k) \in Nat
        BY ClaimsType
      <4>2. Workers(k) \in SUBSET Consumers
        BY DEF Workers
      <4>3. Cardinality(Workers(k)) \in Nat
        BY <4>2, ConsumerAssumption, FS_Subset, FS_CardinalityType
      <4>4. QED
        BY <1>2, <4>1, <4>3 DEF Claims
    <3>2. Share(k)' <= Share(k) + 1
      BY <3>1, ShareRises
    <3>3. faults' = faults + 1
      BY <1>5, <2>3 DEF Age
    <3>4. QED
      BY <1>3, <2>1, <3>2, <3>3 DEF OneShareGrows
  <2>4. QED
    BY <2>2, <2>3
<1>6. QED
  BY <1>4, <1>5

\* Steps of a consumer that touch neither its batch nor the list.
LEMMA IdleShares ==
  ASSUME TypeOK, [Next]_vars, NEW c \in Consumers,
         Start(c) \/ StartWithoutGroup(c) \/ ClaimFails(c) \/ ReadNothing(c) \/ Reject(c)
  PROVE  NoShareGrows
<1> USE DEF redisVars, dbVars, consumerVars, NoFault, Fault, Goto
<1>1. OthersKept(c) /\ pc \in [Consumers -> Stages]
  BY OthersRest DEF OthersKept, ConsumerStep, TypeOK
<1>2. /\ UNCHANGED <<delivered, pending, aged, dead, rows, batch>>
      /\ pc[c] # "ack" /\ pc'[c] # "ack"
      /\ faults' \in {faults, faults + 1}
  BY <1>1 DEF Start, StartWithoutGroup, ClaimFails, ReadNothing, Reject
<1>3. ASSUME NEW m \in Messages PROVE Share(m)' <= Share(m)
  <2>1. Records(m)' = Records(m) /\ (Settled(m) => Settled(m)')
    BY <1>2 DEF Records, Settled
  <2>2. Works(c, m)' => Works(c, m)
    BY <1>2, CurrentKept DEF Works
  <2>3. Free(m)' => Free(m)
    BY <1>2, FreeKept
  <2>4. Doomed(m)' => Doomed(m)
    BY <1>1, <1>2, <2>1, DoomedKept
  <2>5. QED
    BY <1>1, <2>1, <2>2, <2>3, <2>4, QuietMove
<1>4. QED
  BY <1>2, <1>3 DEF NoShareGrows

\* A consumer that is killed lets go of what it holds; what it had recorded
\* but not acknowledged is claimed once more.
LEMMA StopShares ==
  ASSUME TypeOK, [Next]_vars, NEW c \in Consumers, Stop(c)
  PROVE  NoShareGrows \/ OneShareGrows
<1> USE DEF redisVars, dbVars, consumerVars, NoFault, Fault, Goto
<1>1. OthersKept(c) /\ pc \in [Consumers -> Stages] /\ batch \in [Consumers -> SUBSET Messages]
  BY OthersRest DEF OthersKept, ConsumerStep, TypeOK
<1>2. /\ UNCHANGED <<delivered, pending, aged, dead, rows>>
      /\ pc'[c] = "down" /\ batch'[c] = {}
      /\ faults' = faults + 1
  BY <1>1 DEF Stop
<1>3. ASSUME NEW m \in Messages
      PROVE  /\ Records(m)' = Records(m) /\ ~ Works(c, m)'
             /\ Doomed(m)' => Doomed(m)
  <2>1. Settled(m) => Settled(m)'
    BY <1>2 DEF Settled
  <2>2. Doomed(m)' => Doomed(m)
    BY <1>1, <1>2, <2>1, DoomedKept
  <2>3. QED
    BY <1>2, <2>2 DEF Records, Works
<1>4. ASSUME NEW m \in Messages, m \in batch[c] => Works(c, m) PROVE Share(m)' <= Share(m)
  <2>1. CASE m \in batch[c]
    BY <1>1, <1>3, <1>4, <2>1, HandOver
  <2>2. CASE m \notin batch[c]
    <3>1. Held = Others(c) \cup batch[c] /\ Held' = Others(c) \cup batch'[c]
      BY <1>1, HeldByOthers DEF OthersKept
    <3>2. Free(m)' => Free(m)
      BY <1>2, <2>2, <3>1 DEF Free
    <3>3. QED
      BY <1>1, <1>3, <3>2, QuietMove
  <2>3. QED
    BY <2>1, <2>2
<1>5. CASE pc[c] = "ack"
  <2>1. Current(c) \in Messages
    BY <1>5, CurrentIsMessage
  <2>2. PICK k \in Messages : k = Current(c)
    BY <2>1
  <2>3. \A m \in Messages \ {k} : Share(m)' <= Share(m)
    BY <1>4, <2>2 DEF Works
  <2>4. Share(k)' <= Share(k) + 1
    BY <1>1, <1>3, Struck
  <2>5. QED
    BY <1>2, <2>3, <2>4 DEF OneShareGrows
<1>6. CASE pc[c] # "ack"
  <2>1. \A m \in Messages : Share(m)' <= Share(m)
    BY <1>4, <1>6 DEF Works
  <2>2. QED
    BY <1>2, <2>1 DEF NoShareGrows
<1>7. QED
  BY <1>5, <1>6

\* What is read is off the stream and on the pending list.
LEMMA ListedIsPending ==
  ASSUME TypeOK, Deliver, NEW m \in 1..delivered', m \notin pending'
  PROVE  m \in 1..delivered /\ m \notin pending
<1>1. /\ delivered' \in delivered..published
      /\ Unread = (delivered + 1)..delivered'
      /\ pending' = pending \cup Unread
  <2>1. published \in Nat /\ delivered \in 0..published
    BY Bounds DEF TypeOK
  <2>2. QED
    BY <2>1, Bounds, UnreadIsInterval DEF Deliver
<1>2. delivered \in Nat /\ published \in Nat
  BY Bounds DEF TypeOK
<1>3. QED
  BY <1>1, <1>2

LEMMA DeliveryShares ==
  ASSUME TypeOK, [Next]_vars, NEW c \in Consumers, Claim(c) \/ Read(c) \/ ReadFails(c)
  PROVE  NoShareGrows
<1> USE DEF redisVars, dbVars, consumerVars, NoFault, Fault, Goto
<1>1. OthersKept(c) /\ pc \in [Consumers -> Stages]
  BY OthersRest DEF OthersKept, ConsumerStep, TypeOK
<1>2. /\ UNCHANGED <<dead, rows>>
      /\ pc[c] # "ack" /\ pc'[c] # "ack"
      /\ faults' \in {faults, faults + 1}
  <2>1. CASE Claim(c)
    <3>1. \E stage \in {"read", "handle"} : pc' = [pc EXCEPT ![c] = stage]
      BY <2>1 DEF Claim
    <3>2. pc'[c] # "ack"
      BY <1>1, <3>1
    <3>3. pc[c] = "claim" /\ UNCHANGED <<dead, rows, faults>>
      BY <2>1 DEF Claim
    <3>4. QED
      BY <3>2, <3>3
  <2>2. CASE Read(c) \/ ReadFails(c)
    BY <1>1, <2>2 DEF Read, ReadFails, Deliver
  <2>3. QED
    BY <2>1, <2>2
<1>3. UNCHANGED <<delivered, pending>> \/ Deliver
  BY DEF Claim, Read, ReadFails
<1>4. ASSUME NEW m \in Messages PROVE Share(m)' <= Share(m)
  <2>1. Records(m)' = Records(m) /\ (Settled(m) => Settled(m)')
    BY <1>2 DEF Records, Settled
  <2>2. m \in 1..delivered' /\ m \notin pending' => m \in 1..delivered /\ m \notin pending
    BY <1>3, ListedIsPending
  <2>3. Doomed(m)' => Doomed(m)
    BY <1>1, <1>2, <2>1, <2>2, DoomedKept
  <2>4. CASE ReadFails(c)
    <3>1. batch' = batch
      BY <2>4 DEF ReadFails
    <3>2. Works(c, m)' => Works(c, m)
      BY <1>2, <3>1, CurrentKept DEF Works
    <3>3. Free(m)' => Free(m)
      BY <2>4, FreeUnanswered
    <3>4. QED
      BY <1>1, <2>1, <2>3, <3>2, <3>3, QuietMove
  <2>5. CASE Claim(c) \/ Read(c)
    <3>1. CASE m \in batch'[c]
      BY <1>1, <2>1, <2>3, <2>5, <3>1, FreeTaken, HandOver
    <3>2. CASE m \notin batch'[c]
      <4>1. ~ Works(c, m)'
        BY <3>2 DEF Works
      <4>2. Free(m)' => Free(m)
        BY <2>5, <3>2, FreeTaken
      <4>3. QED
        BY <1>1, <2>1, <2>3, <4>1, <4>2, QuietMove
    <3>3. QED
      BY <3>1, <3>2
  <2>6. QED
    BY <2>4, <2>5
<1>5. QED
  BY <1>2, <1>4 DEF NoShareGrows

\* One record of the current message: a row or a dead letter.
OneRecord(c) ==
  \/ Inserted(Current(c)) /\ dead' = dead
  \/ dead' = [dead EXCEPT ![Current(c)] = @ + 1] /\ rows' = rows

LEMMA OneRecordMore ==
  ASSUME TypeOK, NEW c \in Consumers, Current(c) \in Messages, OneRecord(c), NEW m \in Messages
  PROVE  /\ m = Current(c) => Records(m)' = Records(m) + 1
         /\ m # Current(c) => Records(m)' = Records(m)
         /\ m = Current(c) => Settled(m)'
         /\ Settled(m) => Settled(m)'
<1>1. rows \in [Messages -> Nat] /\ dead \in [Messages -> Nat]
  BY DEF TypeOK
<1>2. PICK k \in Messages : k = Current(c)
  OBVIOUS
<1>3. \/ rows' = [rows EXCEPT ![k] = @ + 1] /\ dead' = dead
      \/ dead' = [dead EXCEPT ![k] = @ + 1] /\ rows' = rows
  BY <1>2 DEF OneRecord, Inserted
<1>4. /\ m = k => rows'[m] + dead'[m] = rows[m] + dead[m] + 1
      /\ m # k => rows'[m] = rows[m] /\ dead'[m] = dead[m]
      /\ m = k => rows'[m] > 0 \/ dead'[m] > 0
      /\ rows'[m] >= rows[m] /\ dead'[m] >= dead[m]
      /\ rows[m] \in Nat /\ dead[m] \in Nat /\ rows'[m] \in Nat /\ dead'[m] \in Nat
  BY <1>1, <1>3
<1>5. QED
  BY <1>2, <1>4 DEF Records, Settled

\* A consumer at work on its current message.
LEMMA AtWork ==
  ASSUME TypeOK, NEW c \in Consumers,
         Insert(c) \/ InsertFails(c) \/ ToDLQ(c) \/ ToDLQFails(c)
  PROVE  /\ Current(c) \in Messages /\ Current(c) \in batch[c]
         /\ OthersKept(c) /\ pc \in [Consumers -> Stages]
         /\ pc[c] \in {"handle", "toDLQ"}
         /\ UNCHANGED <<delivered, pending, aged, batch>>
         /\ Current(c)' = Current(c)
         /\ \A m \in Messages : Free(m)' = Free(m)
<1> USE DEF redisVars, consumerVars
<1>1. pc[c] \in {"handle", "toDLQ"} /\ UNCHANGED <<delivered, pending, aged, batch>>
  BY DEF Insert, InsertFails, ToDLQ, ToDLQFails
<1>2. Current(c) \in Messages /\ Current(c) \in batch[c]
  BY <1>1, CurrentIsMessage
<1>3. OthersKept(c) /\ pc \in [Consumers -> Stages]
  BY OthersRest DEF OthersKept, ConsumerStep, TypeOK
<1>4. Current(c)' = Current(c) /\ \A m \in Messages : Free(m)' = Free(m)
  BY <1>1, FreeKept, CurrentKept
<1>5. QED
  BY <1>1, <1>2, <1>3, <1>4

\* A consumer that records its message has no further claim on it.
LEMMA RecordShares ==
  ASSUME TypeOK, [Next]_vars, NEW c \in Consumers, Insert(c) \/ ToDLQ(c)
  PROVE  NoShareGrows
<1> USE DEF redisVars, dbVars, consumerVars, NoFault, Goto
<1>1. /\ Current(c) \in Messages /\ Current(c) \in batch[c]
      /\ OthersKept(c) /\ pc \in [Consumers -> Stages]
      /\ pc[c] \in {"handle", "toDLQ"}
      /\ UNCHANGED <<delivered, pending, aged, batch>>
      /\ Current(c)' = Current(c)
      /\ \A m \in Messages : Free(m)' = Free(m)
  BY AtWork
<1>2. pc'[c] = "ack" /\ faults' = faults /\ OneRecord(c)
  BY <1>1 DEF Insert, ToDLQ, OneRecord
<1>3. ASSUME NEW m \in Messages PROVE Share(m)' <= Share(m)
  <2>1. Doomed(m)' => Doomed(m)
    BY <1>1, <1>2, DoomedKept, OneRecordMore
  <2>2. CASE m = Current(c)
    <3>1. Records(m)' = Records(m) + 1
      BY <1>1, <1>2, <2>2, OneRecordMore
    <3>2. Works(c, m) /\ ~ Works(c, m)'
      BY <1>1, <1>2, <2>2 DEF Works
    <3>3. QED
      BY <1>1, <2>1, <3>1, <3>2, HandOver
  <2>3. CASE m # Current(c)
    <3>1. Records(m)' = Records(m)
      BY <1>1, <1>2, <2>3, OneRecordMore
    <3>2. Works(c, m)' => Works(c, m)
      BY <1>1, <2>3 DEF Works
    <3>3. QED
      BY <1>1, <2>1, <3>1, <3>2, QuietMove
  <2>4. QED
    BY <2>2, <2>3
<1>4. QED
  BY <1>2, <1>3 DEF NoShareGrows

\* A failed attempt changes nothing, unless the INSERT was applied.
LEMMA FailureShares ==
  ASSUME TypeOK, [Next]_vars, NEW c \in Consumers, InsertFails(c)
  PROVE  NoShareGrows \/ OneShareGrows
<1> USE DEF redisVars, dbVars, consumerVars, NoFault, Fault, Goto
<1>1. /\ Current(c) \in Messages /\ Current(c) \in batch[c]
      /\ OthersKept(c) /\ pc \in [Consumers -> Stages]
      /\ pc[c] \in {"handle", "toDLQ"}
      /\ UNCHANGED <<delivered, pending, aged, batch>>
      /\ Current(c)' = Current(c)
      /\ \A m \in Messages : Free(m)' = Free(m)
  BY AtWork
<1>2. pc'[c] # "ack" /\ dead' = dead
  BY <1>1 DEF InsertFails
<1>3. ASSUME NEW m \in Messages PROVE Works(c, m)' => Works(c, m)
  BY <1>1 DEF Works
<1>4. CASE rows' = rows /\ faults' = faults
  <2>1. ASSUME NEW m \in Messages PROVE Share(m)' <= Share(m)
    <3>1. Records(m)' = Records(m) /\ (Settled(m) => Settled(m)')
      BY <1>2, <1>4 DEF Records, Settled
    <3>2. Doomed(m)' => Doomed(m)
      BY <1>1, <1>2, <3>1, DoomedKept
    <3>3. QED
      BY <1>1, <1>3, <3>1, <3>2, QuietMove
  <2>2. QED
    BY <1>4, <2>1 DEF NoShareGrows
<1>5. CASE Inserted(Current(c)) /\ faults' = faults + 1
  <2>1. OneRecord(c)
    BY <1>2, <1>5 DEF OneRecord
  <2>2. PICK k \in Messages : k = Current(c)
    BY <1>1
  <2>3. ASSUME NEW m \in Messages \ {k} PROVE Share(m)' <= Share(m)
    <3>1. Records(m)' = Records(m) /\ (Settled(m) => Settled(m)')
      BY <1>1, <2>1, <2>2, OneRecordMore
    <3>2. Doomed(m)' => Doomed(m)
      BY <1>1, <1>2, <3>1, DoomedKept
    <3>3. QED
      BY <1>1, <1>3, <3>1, <3>2, QuietMove
  <2>4. Share(k)' <= Share(k) + 1
    <3>1. Records(k)' = Records(k) + 1
      BY <1>1, <2>1, <2>2, OneRecordMore
    <3>2. QED
      BY <1>1, <1>3, <3>1, Struck
  <2>5. QED
    BY <1>5, <2>3, <2>4 DEF OneShareGrows
<1>6. QED
  BY <1>4, <1>5 DEF InsertFails

\* A dead letter that is not written leaves its message without a record.
LEMMA LostLetterShares ==
  ASSUME TypeOK, [Next]_vars, NEW c \in Consumers, ToDLQFails(c)
  PROVE  OneShareGrows
<1> USE DEF redisVars, dbVars, consumerVars, Fault, Goto
<1>1. /\ Current(c) \in Messages /\ Current(c) \in batch[c]
      /\ OthersKept(c) /\ pc \in [Consumers -> Stages]
      /\ pc[c] \in {"handle", "toDLQ"}
      /\ UNCHANGED <<delivered, pending, aged, batch>>
      /\ Current(c)' = Current(c)
      /\ \A m \in Messages : Free(m)' = Free(m)
  BY AtWork
<1>2. pc'[c] = "ack" /\ UNCHANGED <<dead, rows>> /\ faults' = faults + 1
  BY <1>1 DEF ToDLQFails
<1>3. PICK k \in Messages : k = Current(c)
  BY <1>1
<1>4. ASSUME NEW m \in Messages
      PROVE  /\ Records(m)' = Records(m) /\ (Settled(m) => Settled(m)')
             /\ Works(c, m)' => Works(c, m)
  BY <1>1, <1>2 DEF Records, Settled, Works
<1>5. Share(k)' <= Share(k) + 1
  BY <1>1, <1>4, Struck
<1>6. ASSUME NEW m \in Messages \ {k} PROVE Share(m)' <= Share(m)
  <2>1. Doomed(m)' => Doomed(m)
    BY <1>1, <1>3, <1>4, DoomedKept
  <2>2. QED
    BY <1>1, <1>4, <2>1, QuietMove
<1>7. QED
  BY <1>2, <1>5, <1>6 DEF OneShareGrows

\* An acknowledgement ends the claims on a message, unless XACK fails.
LEMMA AckShares ==
  ASSUME TypeOK, [Next]_vars, NEW c \in Consumers, Ack(c) \/ AckFails(c)
  PROVE  NoShareGrows \/ OneShareGrows
<1> USE DEF redisVars, dbVars, consumerVars, NoFault, Fault
<1>1. OthersKept(c) /\ pc \in [Consumers -> Stages]
  BY OthersRest DEF OthersKept, ConsumerStep, TypeOK
<1>2. /\ Current(c) \in batch[c]
      /\ batch'[c] = batch[c] \ {Current(c)}
      /\ pc[c] = "ack" /\ pc'[c] # "ack"
  BY CurrentLeaves
<1>3. Current(c) \in Messages
  BY <1>2, CurrentIsMessage
<1>4. PICK k \in Messages : k = Current(c)
  BY <1>3
<1>5. UNCHANGED <<delivered, dead, rows>>
  BY DEF Ack, AckFails
<1>6. ASSUME NEW m \in Messages
      PROVE  /\ Records(m)' = Records(m) /\ (Settled(m) => Settled(m)')
             /\ Works(c, m)' => Works(c, m)
  BY <1>2, <1>5 DEF Records, Settled, Works
<1>7. CASE Ack(c)
  <2>1. pending' = pending \ {k} /\ faults' = faults
    BY <1>4, <1>7 DEF Ack
  <2>2. ASSUME NEW m \in Messages PROVE Share(m)' <= Share(m)
    <3>1. Doomed(m)' => Doomed(m)
      BY <1>1, <1>2, <1>4, <1>5, <1>6, <2>1, DoomedKept
    <3>2. Free(m)' => Free(m)
      BY <1>7, FreeAfterAck
    <3>3. QED
      BY <1>1, <1>6, <3>1, <3>2, QuietMove
  <2>3. QED
    BY <2>1, <2>2 DEF NoShareGrows
<1>8. CASE AckFails(c)
  <2>1. UNCHANGED <<pending, aged>> /\ faults' = faults + 1
    BY <1>8 DEF AckFails
  <2>2. Held = Others(c) \cup batch[c] /\ Held' = Others(c) \cup batch'[c]
    BY <1>1, HeldByOthers DEF OthersKept
  <2>3. ASSUME NEW m \in Messages \ {k} PROVE Share(m)' <= Share(m)
    <3>1. Doomed(m)' => Doomed(m)
      BY <1>1, <1>2, <1>5, <1>6, <2>1, DoomedKept
    <3>2. Free(m)' => Free(m)
      BY <1>2, <1>4, <1>5, <2>1, <2>2 DEF Free
    <3>3. QED
      BY <1>1, <1>6, <3>1, <3>2, QuietMove
  <2>4. Share(k)' <= Share(k) + 1
    BY <1>1, <1>6, Struck
  <2>5. QED
    BY <2>1, <2>3, <2>4 DEF OneShareGrows
<1>9. QED
  BY <1>7, <1>8

LEMMA SharesStep ==
  ASSUME TypeOK, [Next]_vars
  PROVE  NoShareGrows \/ OneShareGrows
<1>1. ASSUME NEW c \in Consumers, ConsumerStep(c) PROVE NoShareGrows \/ OneShareGrows
  BY <1>1, IdleShares, DeliveryShares, RecordShares, FailureShares, LostLetterShares, AckShares
     DEF ConsumerStep
<1>2. ASSUME NEW c \in Consumers, Start(c) \/ StartWithoutGroup(c) \/ Stop(c)
      PROVE  NoShareGrows \/ OneShareGrows
  BY <1>2, IdleShares, StopShares
<1>3. QED
  BY <1>1, <1>2, EnvironmentShares DEF Next

-----------------------------------------------------------------------------
(* The shares are counted as pairs <<m, i>>, 2 <= i <= Share(m). *)

LEMMA SharesGrowByOne ==
  ASSUME TypeOK, [Next]_vars, IsFiniteSet(Shares), Cardinality(Shares) <= faults
  PROVE  IsFiniteSet(Shares)' /\ (Cardinality(Shares) <= faults)'
<1>1. faults \in Nat /\ Cardinality(Shares) \in Nat
  BY FS_CardinalityType DEF TypeOK
<1>2. CASE NoShareGrows
  <2>1. \A m \in Messages : 2..Share(m)' \subseteq 2..Share(m)
    <3>1. \A m \in Messages : Share(m)' <= Share(m) /\ Share(m) \in Nat /\ Share(m)' \in Nat
      BY <1>2, ClaimsType, ClaimsTypeNext DEF NoShareGrows
    <3>2. QED
      BY <3>1
  <2>2. Shares' \in SUBSET Shares
    BY <2>1 DEF Shares
  <2>3. IsFiniteSet(Shares') /\ Cardinality(Shares') <= Cardinality(Shares)
    BY <2>2, FS_Subset
  <2>4. Cardinality(Shares') \in Nat /\ faults' \in {faults, faults + 1}
    BY <1>2, <2>3, FS_CardinalityType DEF NoShareGrows
  <2>5. QED
    BY <1>1, <2>3, <2>4
<1>3. CASE OneShareGrows
  <2>1. PICK k \in Messages :
          /\ Share(k)' <= Share(k) + 1
          /\ \A m \in Messages \ {k} : Share(m)' <= Share(m)
    BY <1>3 DEF OneShareGrows
  <2>2. \A m \in Messages : Share(m) \in Nat /\ Share(m)' \in Nat
    BY ClaimsType, ClaimsTypeNext
  <2>3. PICK last : last = Share(k) + 1
    OBVIOUS
  <2>4. \A m \in Messages : \A i \in 2..Share(m)' : i \in 2..Share(m) \/ (m = k /\ i = last)
    BY <2>1, <2>2, <2>3
  <2>5. Shares' \in SUBSET (Shares \cup {<<k, last>>})
    BY <2>4 DEF Shares
  <2>6. /\ IsFiniteSet(Shares \cup {<<k, last>>})
        /\ Cardinality(Shares \cup {<<k, last>>}) =
             IF <<k, last>> \in Shares THEN Cardinality(Shares) ELSE Cardinality(Shares) + 1
    BY FS_AddElement, Zenon
  <2>7. IsFiniteSet(Shares') /\ Cardinality(Shares') <= Cardinality(Shares \cup {<<k, last>>})
    BY <2>5, <2>6, FS_Subset
  <2>8. Cardinality(Shares') \in Nat /\ faults' = faults + 1
    BY <1>3, <2>7, FS_CardinalityType DEF OneShareGrows
  <2>9. QED
    BY <1>1, <2>6, <2>7, <2>8
<1>4. QED
  BY <1>2, <1>3, SharesStep

\* Each surplus record and each lost event has its own place in a share.
LEMMA HarmIsShared ==
  ASSUME TypeOK, IsFiniteSet(Shares)
  PROVE  /\ Cardinality(SurplusRecords) + Cardinality(Lost) <= Cardinality(Shares)
         /\ Cardinality(SurplusRecords) \in Nat /\ Cardinality(Lost) \in Nat
<1> DEFINE lost == Lost \X {2}
<1>1. Lost \subseteq Messages
  <2>1. delivered \in 0..published /\ published \in 0..MaxEvents
    BY DEF TypeOK
  <2>2. QED
    BY <2>1, MessagesAreNats, Bounds DEF Lost
<1>2. \A m \in Messages : /\ Records(m) \in Nat /\ Share(m) \in Nat
                          /\ Records(m) <= Share(m)
                          /\ m \in Lost => Records(m) = 0 /\ Share(m) >= 2
  <2>1. TAKE m \in Messages
  <2>2. Records(m) \in Nat /\ Claims(m) \in Nat /\ Share(m) \in Nat /\ Share(m) >= 1
    BY ClaimsType
  <2>3. Records(m) <= Claims(m)
    <3>1. Workers(m) \in SUBSET Consumers
      BY DEF Workers
    <3>2. Cardinality(Workers(m)) \in Nat
      BY <3>1, ConsumerAssumption, FS_Subset, FS_CardinalityType
    <3>3. QED
      BY <2>2, <3>2 DEF Claims
  <2>4. Records(m) <= Share(m)
    BY <2>2, <2>3 DEF Share
  <2>5. m \in Lost => Doomed(m) /\ ~ Settled(m)
    BY DEF Lost, Doomed
  <2>6. ~ Settled(m) => Records(m) = 0
    BY DEF Settled, Records, TypeOK
  <2>7. Doomed(m) => Share(m) >= 2
    BY <2>2 DEF Share
  <2>8. QED
    BY <2>2, <2>4, <2>5, <2>6, <2>7
<1>3. SurplusRecords \subseteq Shares
  <2>1. \A m \in Messages : 2..Records(m) \subseteq 2..Share(m)
    BY <1>2
  <2>2. QED
    BY <2>1 DEF SurplusRecords, Shares
<1>4. lost \subseteq Shares
  <2>1. \A m \in Lost : m \in Messages /\ 2 \in 2..Share(m)
    BY <1>1, <1>2
  <2>2. QED
    BY <2>1 DEF Shares
<1>5. SurplusRecords \cap lost = {}
  <2>1. \A m \in Lost : 2..Records(m) = {}
    BY <1>1, <1>2
  <2>2. QED
    BY <2>1 DEF SurplusRecords
<1>6. Lost \in SUBSET (1..delivered) /\ delivered \in Nat
  BY Bounds DEF Lost, TypeOK
<1>7. IsFiniteSet(Lost) /\ Cardinality(Lost) \in Nat
  <2>1. IsFiniteSet(1..delivered)
    BY <1>6, FS_Interval
  <2>2. QED
    BY <1>6, <2>1, FS_Subset, FS_CardinalityType
<1>8. IsFiniteSet(lost) /\ Cardinality(lost) = Cardinality(Lost)
  <2>1. IsFiniteSet({2}) /\ Cardinality({2}) = 1
    BY FS_Singleton
  <2>2. IsFiniteSet(lost) /\ Cardinality(lost) = Cardinality(Lost) * Cardinality({2})
    BY <1>7, <2>1, FS_Product
  <2>3. QED
    BY <1>7, <2>1, <2>2
<1> HIDE DEF lost
<1>9. SurplusRecords \cup lost \in SUBSET Shares /\ SurplusRecords \in SUBSET Shares
  BY <1>3, <1>4
<1>10. IsFiniteSet(SurplusRecords) /\ Cardinality(SurplusRecords) \in Nat
  BY <1>9, FS_Subset, FS_CardinalityType
<1>11. Cardinality(SurplusRecords \cup lost) =
         Cardinality(SurplusRecords) + Cardinality(lost) - Cardinality(SurplusRecords \cap lost)
  BY <1>8, <1>10, FS_Union
<1>12. Cardinality(SurplusRecords \cap lost) = 0
  BY <1>5, FS_EmptySet
<1>13. Cardinality(SurplusRecords \cup lost) <= Cardinality(Shares)
  BY <1>9, FS_Subset
<1>14. QED
  BY <1>7, <1>8, <1>10, <1>11, <1>12, <1>13

\* However many consumers there are and whatever goes wrong, the records
\* beyond the first of every event and the events acknowledged without one
\* are together no more than the faults (stream.go:172-208): each has a fault
\* of its own, even when several consumers hold the same message.
THEOREM HarmIsBounded == Spec => []FaultsHarmOneEventEach
<1>1. Init => HarmInv
  <2>1. SUFFICES ASSUME Init PROVE IsFiniteSet(Shares) /\ Cardinality(Shares) <= faults
    BY TypeInit DEF HarmInv
  <2>2. \A c \in Consumers : pc[c] = "down" /\ batch[c] = {}
    BY <2>1 DEF Init
  <2>3. delivered = 0 /\ faults = 0 /\ \A m \in Messages : rows[m] = 0 /\ dead[m] = 0
    BY <2>1 DEF Init
  <2>4. \A m \in Messages : 2..Share(m) = {}
    <3>1. TAKE m \in Messages
    <3>2. Workers(m) = {}
      BY <2>2 DEF Workers, Works
    <3>3. Cardinality(Workers(m)) = 0 /\ Records(m) = 0
      BY <2>3, <3>2, FS_EmptySet DEF Records
    <3>4. Claims(m) \in {0, 1}
      BY <3>3 DEF Claims
    <3>5. ~ Doomed(m)
      BY <2>2, <2>3 DEF Doomed, Lost
    <3>6. QED
      BY <3>4, <3>5 DEF Share
  <2>5. Shares = {}
    BY <2>4 DEF Shares
  <2>6. QED
    BY <2>3, <2>5, FS_EmptySet
<1>2. HarmInv /\ [Next]_vars => HarmInv'
  BY TypeStep, SharesGrowByOne DEF HarmInv
<1>3. HarmInv => FaultsHarmOneEventEach
  <2>1. SUFFICES ASSUME HarmInv PROVE FaultsHarmOneEventEach
    OBVIOUS
  <2>2. Cardinality(SurplusRecords) + Cardinality(Lost) <= Cardinality(Shares)
        /\ Cardinality(SurplusRecords) \in Nat /\ Cardinality(Lost) \in Nat
        /\ Cardinality(Shares) <= faults
    BY <2>1, HarmIsShared DEF HarmInv
  <2>3. faults \in Nat /\ Cardinality(Shares) \in Nat
    BY <2>1, FS_CardinalityType DEF HarmInv, TypeOK
  <2>4. QED
    BY <2>2, <2>3 DEF FaultsHarmOneEventEach
<1>4. QED
  BY <1>1, <1>2, <1>3, PTL DEF Spec
=============================================================================
