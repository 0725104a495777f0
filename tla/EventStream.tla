------------------------------ MODULE EventStream ------------------------------
(***************************************************************************)
(* From the stream pacs:events to the audit table: the consumer loop of    *)
(* backend/internal/queue/stream.go run by the replicas of                 *)
(* backend/cmd/event-processor/main.go, with InsertEvent of                *)
(* backend/internal/db/postgres.go as its handler.                         *)
(*                                                                         *)
(* Messages are numbered in stream order.  Redis keeps, for the group      *)
(* event-processors, the last message delivered and the list of pending    *)
(* ones (delivered, not acknowledged).  Each Redis or database call is a   *)
(* step of its own.                                                        *)
(*                                                                         *)
(* Faults.  A consumer is killed or told to stop (once its context is      *)
(* cancelled every later call fails, so nothing it does has an effect);    *)
(* a consumer is so slow that a message it holds has been idle long enough *)
(* for another one to claim; an INSERT is applied but reported as failed;  *)
(* a Redis call of the loop fails; the database is down for a while.       *)
(***************************************************************************)
EXTENDS Naturals, FiniteSets

CONSTANTS
  Consumers,         \* consumer names, one per event-processor replica
  MaxRetries,        \* attempts at one delivery before the dead letter stream
  ReadCount,         \* COUNT of XREADGROUP
  PendingClaimBatch, \* COUNT of XAUTOCLAIM
  Malformed,         \* messages whose data does not decode
  FaultKinds,        \* which faults may occur, out of AllFaultKinds
  MaxEvents,         \* bound: messages published
  MaxFaults,         \* bound: faults that occur
  MaxOutages         \* bound: times the database goes down

AllFaultKinds == {"crash", "slow", "ambiguous", "redis"}

ASSUME ConsumerAssumption == IsFiniteSet(Consumers)
ASSUME CountAssumption == {MaxRetries, ReadCount, PendingClaimBatch} \subseteq Nat \ {0}
ASSUME BoundAssumption == {MaxEvents, MaxFaults, MaxOutages} \subseteq Nat
ASSUME FaultAssumption == FaultKinds \subseteq AllFaultKinds

Messages == 1..MaxEvents

ASSUME MalformedAssumption == Malformed \subseteq Messages

VARIABLES
  published,   \* the stream holds messages 1..published
  group,       \* the consumer group exists
  delivered,   \* its last-delivered-id
  pending,     \* its pending entries list
  aged,        \* pending messages idle for at least pendingMinIdle
  dead,        \* per message: entries of pacs:events:dead
  rows,        \* per message: rows of access_events
  failures,    \* per message: failed handler calls (errCount, told apart)
  dbUp,        \* the database answers
  pc,          \* what each consumer is about to do
  batch,       \* the messages it still has to handle, in stream order
  attempts,    \* failed attempts at the current one
  scan,        \* XAUTOCLAIM start cursor, 0 is "0-0"
  resume,      \* where it goes once the batch is handled
  faults, outages

redisVars == <<published, group, delivered, pending, aged, dead>>
dbVars == <<rows, failures, dbUp>>
consumerVars == <<pc, batch, attempts, scan, resume>>
vars == <<redisVars, dbVars, consumerVars, faults, outages>>

-----------------------------------------------------------------------------
Stages == {"down", "claim", "read", "handle", "toDLQ", "ack"}

Held == UNION {batch[c] : c \in Consumers}

First(msgs) == CHOOSE m \in msgs : \A n \in msgs : m <= n

Current(c) == First(batch[c])

Fault(kind) ==
  /\ kind \in FaultKinds
  /\ faults < MaxFaults
  /\ faults' = faults + 1
  /\ UNCHANGED outages

NoFault == UNCHANGED <<faults, outages>>

Goto(c, stage) == pc' = [pc EXCEPT ![c] = stage]

Init ==
  /\ published = 0
  /\ group = FALSE
  /\ delivered = 0
  /\ pending = {}
  /\ aged = {}
  /\ dead = [m \in Messages |-> 0]
  /\ rows = [m \in Messages |-> 0]
  /\ failures = [m \in Messages |-> 0]
  /\ dbUp = TRUE
  /\ pc = [c \in Consumers |-> "down"]
  /\ batch = [c \in Consumers |-> {}]
  /\ attempts = [c \in Consumers |-> 0]
  /\ scan = [c \in Consumers |-> 0]
  /\ resume = [c \in Consumers |-> "claim"]
  /\ faults = 0
  /\ outages = 0

-----------------------------------------------------------------------------
\* access-api appends an event.
Publish ==
  /\ published < MaxEvents
  /\ published' = published + 1
  /\ NoFault
  /\ UNCHANGED <<group, delivered, pending, aged, dead, dbVars, consumerVars>>

\* A pending message has gone unacknowledged for pendingMinIdle.  That takes
\* a fault if a consumer is still at work on it.
Age(m) ==
  /\ m \in pending \ aged
  /\ aged' = aged \cup {m}
  /\ IF m \in Held THEN Fault("slow") ELSE NoFault
  /\ UNCHANGED <<published, group, delivered, pending, dead, dbVars, consumerVars>>

DatabaseFails ==
  /\ dbUp
  /\ outages < MaxOutages
  /\ outages' = outages + 1
  /\ dbUp' = FALSE
  /\ UNCHANGED <<redisVars, rows, failures, consumerVars, faults>>

DatabaseRecovers ==
  /\ ~dbUp
  /\ dbUp' = TRUE
  /\ NoFault
  /\ UNCHANGED <<redisVars, rows, failures, consumerVars>>

-----------------------------------------------------------------------------
\* Start-up creates the group at the start of the stream unless it exists.
Start(c) ==
  /\ pc[c] = "down"
  /\ group' = TRUE
  /\ Goto(c, "claim")
  /\ NoFault
  /\ UNCHANGED <<published, delivered, pending, aged, dead, dbVars,
                 batch, attempts, scan, resume>>

\* Failing to create it is only a warning: the loop starts all the same.
StartWithoutGroup(c) ==
  /\ pc[c] = "down"
  /\ Fault("redis")
  /\ Goto(c, "claim")
  /\ UNCHANGED <<redisVars, dbVars, batch, attempts, scan, resume>>

\* Killed, or told to stop: what it holds stays pending.
Stop(c) ==
  /\ pc[c] # "down"
  /\ Fault("crash")
  /\ Goto(c, "down")
  /\ batch' = [batch EXCEPT ![c] = {}]
  /\ attempts' = [attempts EXCEPT ![c] = 0]
  /\ scan' = [scan EXCEPT ![c] = 0]
  /\ resume' = [resume EXCEPT ![c] = "claim"]
  /\ UNCHANGED <<redisVars, dbVars>>

-----------------------------------------------------------------------------
\* Mutant: pending messages are never claimed.
Claimable_Never(start) == {}

\* The messages XAUTOCLAIM returns from cursor start on.
Claimable(start) ==
  {m \in aged : m >= start /\ Cardinality({n \in aged : start <= n /\ n <= m}) <= PendingClaimBatch}

\* The cursor XAUTOCLAIM returns after a full batch: the next pending entry,
\* 0 when the list has been scanned to its end.
NextCursor(msgs) ==
  LET rest == {m \in pending : \A n \in msgs : m > n}
  IN  IF rest = {} THEN 0 ELSE First(rest)

\* claimPending: one pass of XAUTOCLAIM.  It passes again after a full batch
\* unless the cursor has not moved (or is back at the start it began with).
Claim(c) ==
  /\ pc[c] = "claim"
  /\ group
  /\ LET msgs == Claimable(scan[c])
         again == Cardinality(msgs) = PendingClaimBatch /\ NextCursor(msgs) # scan[c]
     IN  /\ batch' = [batch EXCEPT ![c] = msgs]
         /\ aged' = aged \ msgs
         /\ scan' = [scan EXCEPT ![c] = IF again THEN NextCursor(msgs) ELSE 0]
         /\ resume' = [resume EXCEPT ![c] = IF again THEN "claim" ELSE "read"]
         /\ Goto(c, IF msgs = {} THEN "read" ELSE "handle")
  /\ NoFault
  /\ UNCHANGED <<published, group, delivered, pending, dead, dbVars, attempts>>

\* An error of XAUTOCLAIM (no such group, Redis away) ends the pass.
ClaimFails(c) ==
  /\ pc[c] = "claim"
  /\ IF group THEN Fault("redis") ELSE NoFault
  /\ Goto(c, "read")
  /\ scan' = [scan EXCEPT ![c] = 0]
  /\ UNCHANGED <<redisVars, dbVars, batch, attempts, resume>>

\* The messages XREADGROUP ">" delivers next.
Unread ==
  (delivered + 1)..(IF published < delivered + ReadCount THEN published
                                                         ELSE delivered + ReadCount)

\* Mutant: the cursor moves by the size asked for, not the size delivered.
Deliver_Overshoots ==
  /\ delivered' = delivered + ReadCount
  /\ pending' = pending \cup Unread
  /\ UNCHANGED <<published, group, aged, dead>>

Deliver ==
  /\ delivered' = delivered + Cardinality(Unread)
  /\ pending' = pending \cup Unread
  /\ UNCHANGED <<published, group, aged, dead>>

Read(c) ==
  /\ pc[c] = "read"
  /\ group
  /\ Unread # {}
  /\ Deliver
  /\ batch' = [batch EXCEPT ![c] = Unread]
  /\ resume' = [resume EXCEPT ![c] = "claim"]
  /\ Goto(c, "handle")
  /\ NoFault
  /\ UNCHANGED <<dbVars, attempts, scan>>

\* Nothing new within the block time, or no group to read for.
ReadNothing(c) ==
  /\ pc[c] = "read"
  /\ ~group \/ Unread = {}
  /\ Goto(c, "claim")
  /\ NoFault
  /\ UNCHANGED <<redisVars, dbVars, batch, attempts, scan, resume>>

\* The read fails; Redis may have delivered the messages nevertheless.
ReadFails(c) ==
  /\ pc[c] = "read"
  /\ group
  /\ Fault("redis")
  /\ Deliver \/ UNCHANGED redisVars
  /\ Goto(c, "claim")
  /\ UNCHANGED <<dbVars, batch, attempts, scan, resume>>

-----------------------------------------------------------------------------
\* handleMessage: a message that does not decode goes to the dead letters.
Reject(c) ==
  /\ pc[c] = "handle"
  /\ Current(c) \in Malformed
  /\ Goto(c, "toDLQ")
  /\ NoFault
  /\ UNCHANGED <<redisVars, dbVars, batch, attempts, scan, resume>>

Inserted(m) == rows' = [rows EXCEPT ![m] = @ + 1]

Insert(c) ==
  /\ pc[c] = "handle"
  /\ Current(c) \notin Malformed
  /\ dbUp
  /\ Inserted(Current(c))
  /\ Goto(c, "ack")
  /\ NoFault
  /\ UNCHANGED <<redisVars, failures, dbUp, batch, attempts, scan, resume>>

\* Mutant: a message that is given up is acknowledged without a dead letter.
InsertFails_NoDLQ(c) ==
  /\ pc[c] = "handle"
  /\ Current(c) \notin Malformed
  /\ \/ ~dbUp /\ NoFault /\ UNCHANGED rows
     \/ dbUp /\ Fault("ambiguous") /\ Inserted(Current(c))
  /\ attempts' = [attempts EXCEPT ![c] = @ + 1]
  /\ failures' = [failures EXCEPT ![Current(c)] = @ + 1]
  /\ IF attempts[c] + 1 < MaxRetries THEN UNCHANGED pc ELSE Goto(c, "ack")
  /\ UNCHANGED <<redisVars, dbUp, batch, scan, resume>>

\* The INSERT reports an error, with the database down or, rarely, after it
\* was applied.  After MaxRetries attempts the message is given up.
InsertFails(c) ==
  /\ pc[c] = "handle"
  /\ Current(c) \notin Malformed
  /\ \/ ~dbUp /\ NoFault /\ UNCHANGED rows
     \/ dbUp /\ Fault("ambiguous") /\ Inserted(Current(c))
  /\ attempts' = [attempts EXCEPT ![c] = @ + 1]
  /\ failures' = [failures EXCEPT ![Current(c)] = @ + 1]
  /\ IF attempts[c] + 1 < MaxRetries THEN UNCHANGED pc ELSE Goto(c, "toDLQ")
  /\ UNCHANGED <<redisVars, dbUp, batch, scan, resume>>

ToDLQ(c) ==
  /\ pc[c] = "toDLQ"
  /\ dead' = [dead EXCEPT ![Current(c)] = @ + 1]
  /\ Goto(c, "ack")
  /\ NoFault
  /\ UNCHANGED <<published, group, delivered, pending, aged, dbVars,
                 batch, attempts, scan, resume>>

\* toDLQ only logs its error, and the message is acknowledged all the same.
ToDLQFails(c) ==
  /\ pc[c] = "toDLQ"
  /\ Fault("redis")
  /\ Goto(c, "ack")
  /\ UNCHANGED <<redisVars, dbVars, batch, attempts, scan, resume>>

\* Mutant: the attempts of one message count against the next.
NextMessage_KeepsAttempts(c) ==
  /\ batch' = [batch EXCEPT ![c] = @ \ {Current(c)}]
  /\ Goto(c, IF batch[c] = {Current(c)} THEN resume[c] ELSE "handle")
  /\ UNCHANGED attempts

\* On to the next message of the batch, or around the loop.
NextMessage(c) ==
  /\ batch' = [batch EXCEPT ![c] = @ \ {Current(c)}]
  /\ attempts' = [attempts EXCEPT ![c] = 0]
  /\ Goto(c, IF batch[c] = {Current(c)} THEN resume[c] ELSE "handle")

\* Mutant: XACK is left out.
Ack_Never(c) ==
  /\ pc[c] = "ack"
  /\ NextMessage(c)
  /\ NoFault
  /\ UNCHANGED <<redisVars, dbVars, scan, resume>>

Ack(c) ==
  /\ pc[c] = "ack"
  /\ pending' = pending \ {Current(c)}
  /\ aged' = aged \ {Current(c)}
  /\ NextMessage(c)
  /\ NoFault
  /\ UNCHANGED <<published, group, delivered, dead, dbVars, scan, resume>>

\* The error of XACK is not looked at: the message stays pending.
AckFails(c) ==
  /\ pc[c] = "ack"
  /\ Fault("redis")
  /\ NextMessage(c)
  /\ UNCHANGED <<redisVars, dbVars, scan, resume>>

-----------------------------------------------------------------------------
ConsumerStep(c) ==
  \/ Claim(c) \/ ClaimFails(c)
  \/ Read(c) \/ ReadNothing(c) \/ ReadFails(c)
  \/ Reject(c) \/ Insert(c) \/ InsertFails(c)
  \/ ToDLQ(c) \/ ToDLQFails(c) \/ Ack(c) \/ AckFails(c)

Next ==
  \/ Publish
  \/ \E m \in Messages : Age(m)
  \/ DatabaseFails \/ DatabaseRecovers
  \/ \E c \in Consumers : Start(c) \/ StartWithoutGroup(c) \/ Stop(c) \/ ConsumerStep(c)

Spec == Init /\ [][Next]_vars

\* The deployment restarts a consumer that is down, a running one keeps
\* going round its loop, idle time passes, the database comes back.
Fairness ==
  /\ \A c \in Consumers : WF_vars(Start(c)) /\ WF_vars(ConsumerStep(c))
  /\ \A m \in Messages : WF_vars(Age(m) /\ m \notin Held)
  /\ WF_vars(DatabaseRecovers)

FairSpec == Spec /\ Fairness
=============================================================================
