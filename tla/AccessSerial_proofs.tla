--------------------------- MODULE AccessSerial_proofs ---------------------------
(***************************************************************************)
(* The anti-passback rules proper, proved for any constants when the       *)
(* swipes of one badge come one after the other and Redis keeps its keys.  *)
(* Handlers of different badges still interleave, and every other fault    *)
(* (failed reads, late, lost and repeated writes, killed replicas) may     *)
(* occur.                                                                  *)
(***************************************************************************)
EXTENDS AccessApi_proofs

-----------------------------------------------------------------------------
(* Who changes a recorded direction. *)

LEMMA GrantLands ==
  ASSUME TypeOK, [Next]_vars, NEW i \in DOMAIN stream', i \notin DOMAIN stream,
         stream'[i].status = "SUCCESS"
  PROVE  \E g \in Handlers :
           /\ pc[g] \in {"commit", "lateCommit"}
           /\ stream'[i].req = Req(g)
           /\ apb' = [apb EXCEPT ![ApbKey(Req(g))] = Req(g).direction]
<1>1. stream' # stream
  OBVIOUS
<1>2. ASSUME NEW h \in Handlers, pc[h] # "idle", NEW st \in Statuses,
             stream' = Append(stream, Event(h, st))
      PROVE  stream'[i].status = st /\ stream'[i].req = Req(h)
  <2> DEFINE e == Event(h, st)
  <2>1. e \in AccessEvents /\ e.req = Req(h) /\ e.status = st
    BY <1>2, CurrentSwipe DEF Event
  <2>2. stream' = Append(stream, e)
    BY <1>2
  <2> HIDE DEF e
  <2>3. DOMAIN stream = 1..Len(stream) /\ DOMAIN stream' = 1..(Len(stream) + 1)
        /\ Len(stream) \in Nat /\ stream'[Len(stream) + 1] = e
    BY <2>1, <2>2, Appended DEF TypeOK
  <2>4. i = Len(stream) + 1
    BY <2>3
  <2>5. QED
    BY <2>1, <2>3, <2>4
<1>3. ASSUME NEW h \in Handlers, pc[h] \in {"publish", "latePublish"},
             PublishEvent(Event(h, "REJECTED_APB"))
      PROVE  FALSE
  BY <1>2, <1>3 DEF PublishEvent, Statuses
<1>4. ASSUME NEW h \in Handlers, pc[h] \in {"commit", "lateCommit"},
             SetDirectionAndPublishEvent(ApbKey(Req(h)), Req(h).direction, Event(h, "SUCCESS"))
      PROVE  /\ stream'[i].req = Req(h)
             /\ apb' = [apb EXCEPT ![ApbKey(Req(h))] = Req(h).direction]
  BY <1>2, <1>4 DEF SetDirectionAndPublishEvent, Statuses
<1>5. QED
  BY <1>1, <1>3, <1>4, RedisSteps
     DEF redisVars, WriteActiveSite, SetActiveSite, ClearActiveSite, RedisDropsKey, DropApbKey,
         DropActiveSite

\* Without dropped keys only a commit changes a direction, and that handler
\* is past its commit then.
LEMMA CommitLands ==
  ASSUME TypeOK, [Next]_vars, "drop" \notin FaultKinds, apb' # apb
  PROVE  \E g \in Handlers :
           /\ pc[g] \in {"commit", "lateCommit"}
           /\ pc'[g] \in {"idle", "setActive"}
           /\ apb' = [apb EXCEPT ![ApbKey(Req(g))] = Req(g).direction]
<1>1. pc \in [Handlers -> Stages]
  BY DEF TypeOK, HandlersTypeOK
<1>2. ASSUME NEW g \in Handlers, HandlerStep(g)
      PROVE  /\ pc[g] \in {"commit", "lateCommit"}
             /\ pc'[g] \in {"idle", "setActive"}
             /\ apb' = [apb EXCEPT ![ApbKey(Req(g))] = Req(g).direction]
  <2>1. ~ (CrossSiteCheck(g) \/ TierCheck(g) \/ ApbCheck(g) \/ ReadFails(g)
           \/ WriteFails(g) \/ LateWriteLost(g) \/ UpdateActiveSite(g)
           \/ PublishRejection(g) \/ PublishRepeats(g))
    BY DEF CrossSiteCheck, TierCheck, ApbCheck, ReadFails, WriteFails, LateWriteLost,
       UpdateActiveSite, WriteActiveSite, SetActiveSite, ClearActiveSite, redisVars,
       PublishRejection, PublishRepeats, PublishEvent
  <2>2. CASE CommitSwipe(g)
    BY <1>1, <2>2 DEF CommitSwipe, SetDirectionAndPublishEvent, Done, Goto
  <2>3. CASE LateWrite(g)
    BY <1>1, <2>3 DEF LateWrite, PublishEvent, SetDirectionAndPublishEvent, Done, Goto,
       WriteActiveSite, SetActiveSite, ClearActiveSite
  <2>4. QED
    BY <1>2, <2>1, <2>2, <2>3 DEF HandlerStep
<1>3. ~RedisDropsKey
  BY DEF RedisDropsKey, Fault
<1>4. QED
  BY <1>2, <1>3 DEF Next, BadRequest, Receive, Crash, vars, redisVars

-----------------------------------------------------------------------------
(* Swipes of one badge come one after the other.                            *)

Alone ==
  \A h, g \in Handlers : pc[h] # "idle" /\ pc[g] # "idle" /\ h # g =>
    Req(h).badge # Req(g).badge

LEMMA AloneStep ==
  ASSUME TypeOK, Alone, [Next]_vars, ~Overlap
  PROVE  Alone'
<1>1. ASSUME NEW h \in Handlers, NEW g \in Handlers, NEW r \in Requests, Receive(h, r),
             pc'[g] # "idle", h # g
      PROVE  current'[h].req.badge # current'[g].req.badge
  <2>1. current'[h].req = r /\ current'[g] = current[g] /\ pc[g] # "idle"
    BY <1>1, Received
  <2>2. ~InFlight(r.badge)
    BY <1>1 DEF Receive
  <2>3. QED
    BY <2>1, <2>2 DEF InFlight, Req
<1>2. ASSUME NEW h \in Handlers, NEW g \in Handlers, pc'[h] # "idle", pc'[g] # "idle", h # g
      PROVE  current'[h].req.badge # current'[g].req.badge
  <2>1. CASE \E r \in Requests : Receive(h, r) \/ Receive(g, r)
    BY <1>1, <1>2, <2>1
  <2>2. CASE ~ \E r \in Requests : Receive(h, r) \/ Receive(g, r)
    BY <1>2, <2>2, HandlerMoves DEF Alone, Req
  <2>3. QED
    BY <2>1, <2>2
<1>3. QED
  BY <1>2 DEF Alone, Req

\* While a handler is on its way to its commit nobody moves its badge.
LEMMA OwnKeysStay ==
  ASSUME TypeOK, Alone, [Next]_vars, "drop" \notin FaultKinds,
         NEW h \in Handlers, pc[h] # "idle", pc'[h] \notin {"idle", "setActive"},
         NEW t \in Tiers
  PROVE  apb'[TierKey(Req(h), t)] = apb[TierKey(Req(h), t)]
<1> DEFINE k == TierKey(Req(h), t)
<1>1. CASE apb' = apb
  BY <1>1
<1>2. CASE apb' # apb
  <2>1. PICK g \in Handlers :
          /\ pc[g] \in {"commit", "lateCommit"}
          /\ pc'[g] \in {"idle", "setActive"}
          /\ apb' = [apb EXCEPT ![ApbKey(Req(g))] = Req(g).direction]
    BY <1>2, CommitLands
  <2>2. Req(g).badge # Req(h).badge
    BY <2>1 DEF Alone
  <2>3. k # ApbKey(Req(g))
    BY <2>2 DEF TierKey, ApbKey
  <2>4. k \in ApbKeys
    BY CurrentSwipe, KeysAreKeys
  <2> HIDE DEF k
  <2>5. apb'[k] = apb[k]
    BY <2>1, <2>3, <2>4 DEF TypeOK, CacheTypeOK
  <2>6. QED
    BY <2>5 DEF k
<1>3. QED
  BY <1>1, <1>2
-----------------------------------------------------------------------------
(* What a check found still holds when its handler commits.                 *)

\* The anti-passback check.
ApbCheckHolds ==
  \A h \in Handlers : pc[h] \in {"commit", "lateCommit"} =>
    apb[ApbKey(Req(h))] # Req(h).direction

\* The tier check, also between it and the anti-passback check.
TierCheckHolds ==
  \A h \in Handlers :
    /\ pc[h] \in {"crossSite", "apbCheck", "commit", "lateCommit"}
    /\ <<Req(h).direction, Tier(h)>> \in {<<"IN", 2>>, <<"OUT", 1>>}
    => ~TierViolation(Req(h))

LEMMA ApbCheckHoldsStep ==
  ASSUME TypeOK, Alone, ApbCheckHolds, [Next]_vars, "drop" \notin FaultKinds
  PROVE  ApbCheckHolds'
<1> SUFFICES ASSUME NEW h \in Handlers, pc'[h] \in {"commit", "lateCommit"},
                    NEW k, k = ApbKey(Req(h))'
             PROVE  apb'[k] # Req(h)'.direction
  BY DEF ApbCheckHolds
<1>1. ASSUME NEW r \in Requests, Receive(h, r) PROVE FALSE
  BY <1>1, Received DEF Reading
<1>2. /\ pc[h] # "idle"
      /\ Req(h)' = Req(h)
      /\ \/ pc'[h] = pc[h]
         \/ CrossSiteCheck(h) \/ TierCheck(h) \/ ApbCheck(h) \/ CommitSwipe(h)
         \/ pc[h] \in Writing /\ pc'[h] = LateOf(pc[h])
  BY <1>1, HandlerMoves DEF Req
<1>3. k = ApbKey(Req(h)) /\ k = TierKey(Req(h), Tier(h)) /\ Tier(h) \in Tiers
  BY <1>2, CurrentSwipe, KeysAreKeys DEF ApbKey, TierKey, Tier
<1>4. apb'[k] = apb[k]
  BY <1>2, <1>3, OwnKeysStay
<1>5. CASE pc[h] \in {"commit", "lateCommit"}
  BY <1>2, <1>3, <1>4, <1>5 DEF ApbCheckHolds
<1>6. CASE ApbCheck(h)
  <2>1. CheckAntiPassback(ApbKey(Req(h)), Req(h).direction)
    BY <1>6 DEF ApbCheck, Reject, Goto, TypeOK, HandlersTypeOK
  <2>2. QED
    BY <1>2, <1>3, <1>4, <2>1 DEF CheckAntiPassback
<1>7. CASE CrossSiteCheck(h) \/ TierCheck(h)
  <2>1. pc'[h] \in {"apbCheck", "publish"}
    BY <1>7 DEF CrossSiteCheck, TierCheck, Reject, Pass, Goto, TypeOK, HandlersTypeOK
  <2>2. QED
    BY <2>1
<1>8. CASE CommitSwipe(h)
  BY <1>5, <1>8, StagesApart
<1>9. CASE pc[h] \in Writing /\ pc'[h] = LateOf(pc[h])
  BY <1>5, <1>9 DEF Writing, LateOf
<1>10. QED
  BY <1>2, <1>5, <1>6, <1>7, <1>8, <1>9

LEMMA TierCheckHoldsStep ==
  ASSUME TypeOK, Alone, TierCheckHolds, [Next]_vars, "drop" \notin FaultKinds
  PROVE  TierCheckHolds'
<1> SUFFICES ASSUME NEW h \in Handlers,
                    pc'[h] \in {"crossSite", "apbCheck", "commit", "lateCommit"},
                    NEW r, r = Req(h)',
                    <<r.direction, GateTier(r.gate)>> \in {<<"IN", 2>>, <<"OUT", 1>>}
             PROVE  ~TierViolation(r)'
  BY DEF TierCheckHolds, Tier, TierViolation, GetState, TierKey
<1>1. ASSUME NEW q \in Requests, Receive(h, q) PROVE FALSE
  <2>1. pc'[h] = FirstCheck(q) /\ r = q
    BY <1>1, Received DEF Req
  <2>2. QED
    BY <2>1 DEF FirstCheck
<1>2. /\ pc[h] # "idle"
      /\ r = Req(h)
      /\ \/ pc'[h] = pc[h]
         \/ CrossSiteCheck(h) \/ TierCheck(h) \/ ApbCheck(h) \/ CommitSwipe(h)
         \/ pc[h] \in Writing /\ pc'[h] = LateOf(pc[h])
  BY <1>1, HandlerMoves DEF Req
<1>3. \A t \in Tiers : apb'[TierKey(r, t)] = apb[TierKey(r, t)]
  BY <1>2, OwnKeysStay
<1>4. TierViolation(r)' <=> TierViolation(r)
  <2>1. apb'[TierKey(r, 1)] = apb[TierKey(r, 1)] /\ apb'[TierKey(r, 2)] = apb[TierKey(r, 2)]
    BY <1>3 DEF Tiers
  <2>2. QED
    BY <2>1 DEF TierViolation, GetState
<1>5. CASE pc[h] \in {"crossSite", "apbCheck", "commit", "lateCommit"}
  BY <1>2, <1>4, <1>5 DEF TierCheckHolds, Tier
<1>6. CASE TierCheck(h)
  BY <1>2, <1>4, <1>6 DEF TierCheck, Reject, Goto, TypeOK, HandlersTypeOK
<1>7. CASE CommitSwipe(h)
  BY <1>5, <1>7, StagesApart
<1>8. CASE pc[h] \in Writing /\ pc'[h] = LateOf(pc[h])
  BY <1>5, <1>8 DEF Writing, LateOf
<1>9. QED
  BY <1>2, <1>5, <1>6, <1>7, <1>8, StagesApart
-----------------------------------------------------------------------------
(* FR-2: the directions alternate.                                          *)

\* A key without a record was never granted anything.
NothingForgotten ==
  \A k \in ApbKeys : apb[k] = "" => \A i \in DOMAIN stream : ~GrantedFor(k, i)

LEMMA GrantOfKey ==
  ASSUME TypeOK, [Next]_vars, NEW i \in DOMAIN stream', i \notin DOMAIN stream,
         NEW k, GrantedFor(k, i)'
  PROVE  \E g \in Handlers :
           /\ pc[g] \in {"commit", "lateCommit"}
           /\ k = ApbKey(Req(g))
           /\ k \in ApbKeys
           /\ stream'[i].req.direction = Req(g).direction
           /\ apb'[k] = Req(g).direction
           /\ Req(g).direction \in Directions
<1>1. stream'[i].status = "SUCCESS" /\ k = ApbKey(stream'[i].req)
  BY DEF GrantedFor, Granted
<1>2. PICK g \in Handlers :
        /\ pc[g] \in {"commit", "lateCommit"}
        /\ stream'[i].req = Req(g)
        /\ apb' = [apb EXCEPT ![ApbKey(Req(g))] = Req(g).direction]
  BY <1>1, GrantLands
<1>3. Req(g) \in Requests
  BY <1>2, CurrentSwipe
<1>4. ApbKey(Req(g)) \in ApbKeys /\ Req(g).direction \in Directions
  BY <1>3, KeysAreKeys
<1>5. QED
  BY <1>1, <1>2, <1>4 DEF TypeOK, CacheTypeOK

LEMMA NothingForgottenStep ==
  ASSUME TypeOK, NothingForgotten, [Next]_vars, "drop" \notin FaultKinds
  PROVE  NothingForgotten'
<1> SUFFICES ASSUME NEW k \in ApbKeys, apb'[k] = "", NEW i \in DOMAIN stream', GrantedFor(k, i)'
             PROVE  FALSE
  BY DEF NothingForgotten
<1>1. i \in DOMAIN stream
  BY GrantOfKey DEF Directions
<1>2. apb[k] # ""
  BY <1>1, StreamGrows DEF NothingForgotten, GrantedFor, Granted
<1>3. PICK g \in Handlers :
        /\ pc[g] \in {"commit", "lateCommit"}
        /\ apb' = [apb EXCEPT ![ApbKey(Req(g))] = Req(g).direction]
  BY <1>2, CommitLands
<1>4. Req(g).direction \in Directions
  BY <1>3, CurrentSwipe, KeysAreKeys
<1>5. QED
  BY <1>2, <1>3, <1>4 DEF Directions, TypeOK, CacheTypeOK

\* The direction two granted swipes of a key have with no other in between.
LEMMA AlternationStep ==
  ASSUME TypeOK, ApbMatchesStream, ApbCheckHolds, NothingForgotten, Alternation, [Next]_vars
  PROVE  Alternation'
<1> SUFFICES ASSUME NEW i \in DOMAIN stream', NEW j \in DOMAIN stream', i < j,
                    Granted(i)', NEW k, k = ApbKey(stream'[i].req), GrantedFor(k, j)',
                    \A m \in (i + 1)..(j - 1) : ~GrantedFor(k, m)'
             PROVE  stream'[i].req.direction # stream'[j].req.direction
  BY DEF Alternation
<1>1. /\ DOMAIN stream = 1..Len(stream)
      /\ Len(stream) \in Nat
  BY LenProperties DEF TypeOK, CacheTypeOK
<1>2. \A n \in DOMAIN stream' : n \notin DOMAIN stream => n = Len(stream) + 1
                                /\ DOMAIN stream' = 1..(Len(stream) + 1)
  BY NewEntry
<1>3. i \in DOMAIN stream /\ stream'[i] = stream[i]
  BY <1>1, <1>2, StreamGrows
<1>4. i \in Nat /\ j \in Nat
  BY <1>1, <1>2, <1>3
<1>5. \A m \in DOMAIN stream : i < m /\ m < j => ~GrantedFor(k, m)
  BY <1>1, <1>4, StreamGrows DEF GrantedFor, Granted
<1>6. CASE j \in DOMAIN stream
  <2>1. stream'[j] = stream[j]
    BY <1>6, StreamGrows
  <2>2. \A m \in (i + 1)..(j - 1) : ~GrantedFor(k, m)
    BY <1>1, <1>4, <1>5, <1>6
  <2>3. QED
    BY <1>3, <1>6, <2>1, <2>2 DEF Alternation, GrantedFor, Granted
<1>7. CASE j \notin DOMAIN stream
  <2>1. PICK g \in Handlers :
          /\ pc[g] \in {"commit", "lateCommit"}
          /\ k = ApbKey(Req(g))
          /\ k \in ApbKeys
          /\ stream'[j].req.direction = Req(g).direction
    BY <1>7, GrantOfKey
  <2>2. GrantedFor(k, i)
    BY <1>3 DEF GrantedFor, Granted
  <2>3. apb[k] # "" /\ apb[k] # Req(g).direction
    BY <1>3, <2>1, <2>2 DEF NothingForgotten, ApbCheckHolds
  <2>4. PICK n \in DOMAIN stream : /\ GrantedFor(k, n)
                                   /\ stream[n].req.direction = apb[k]
                                   /\ \A m \in DOMAIN stream : m > n => ~GrantedFor(k, m)
    BY <2>1, <2>3 DEF ApbMatchesStream
  <2>5. n = i
    <3>1. ~ (i > n)
      BY <1>3, <2>2, <2>4
    <3>2. n < j
      BY <1>1, <1>2, <1>7
    <3>3. ~ (i < n)
      BY <1>5, <2>4, <3>2
    <3>4. QED
      BY <1>1, <1>4, <3>1, <3>3
  <2>6. QED
    BY <1>3, <2>1, <2>3, <2>4, <2>5
<1>8. QED
  BY <1>6, <1>7

\* FR-2 of the gate: when the swipes of a badge do not overlap and Redis
\* keeps its keys, two consecutive granted swipes of a badge at one tier of
\* a site are never in the same direction, whatever else fails (main.go:221-265).
THEOREM DirectionsAlternate ==
  ASSUME ~Overlap, "drop" \notin FaultKinds
  PROVE  Spec => []Alternation
<1> DEFINE Inv == Alone /\ ApbCheckHolds /\ NothingForgotten /\ Alternation
<1>1. Init => Inv
  BY NothingAtFirst DEF Alone, ApbCheckHolds, NothingForgotten, Alternation
<1>2. TypeOK /\ ApbMatchesStream /\ Inv /\ [Next]_vars => Inv'
  BY AloneStep, ApbCheckHoldsStep, NothingForgottenStep, AlternationStep
<1>3. QED
  BY <1>1, <1>2, TypeCorrect, ApbAgreesWithStream, PTL DEF Spec

-----------------------------------------------------------------------------
(* The tiers nest.                                                          *)

LEMMA TierNestingStep ==
  ASSUME TypeOK, TierCheckHolds, TierNesting, [Next]_vars, "drop" \notin FaultKinds
  PROVE  TierNesting'
<1> SUFFICES ASSUME NEW s \in SiteKeys, NEW b \in Badges, apb'[<<s, 2, b>>] = "IN"
             PROVE  apb'[<<s, 1, b>>] = "IN"
  BY DEF TierNesting
<1> DEFINE k1 == <<s, 1, b>>
           k2 == <<s, 2, b>>
<1>1. k1 \in ApbKeys /\ k2 \in ApbKeys
  BY DEF ApbKeys, Tiers
<1>2. CASE apb' = apb
  BY <1>2 DEF TierNesting
<1>3. CASE apb' # apb
  <2>1. PICK g \in Handlers :
          /\ pc[g] \in {"commit", "lateCommit"}
          /\ apb' = [apb EXCEPT ![ApbKey(Req(g))] = Req(g).direction]
    BY <1>3, CommitLands
  <2>2. Req(g).direction \in Directions
    BY <2>1, CurrentSwipe, KeysAreKeys
  <2>3. CASE ApbKey(Req(g)) = k2
    <3>1. Tier(g) = 2 /\ TierKey(Req(g), 1) = k1
      BY <2>3 DEF ApbKey, TierKey, Tier
    <3>2. Req(g).direction = "IN"
      BY <1>1, <2>1, <2>3 DEF TypeOK, CacheTypeOK
    <3>3. apb[k1] = "IN"
      BY <2>1, <3>1, <3>2 DEF TierCheckHolds, TierViolation, GetState
    <3>4. k1 # k2
      OBVIOUS
    <3>5. QED
      BY <1>1, <2>1, <2>3, <3>3, <3>4 DEF TypeOK, CacheTypeOK
  <2>4. CASE ApbKey(Req(g)) = k1
    <3>1. Tier(g) = 1 /\ TierKey(Req(g), 2) = k2
      BY <2>4 DEF ApbKey, TierKey, Tier
    <3>2. k1 # k2
      OBVIOUS
    <3>3. apb[k2] = "IN"
      BY <1>1, <2>1, <2>4, <3>2 DEF TypeOK, CacheTypeOK
    <3>4. Req(g).direction # "OUT"
      BY <2>1, <3>1, <3>3 DEF TierCheckHolds, TierViolation, GetState
    <3>5. QED
      BY <1>1, <2>1, <2>2, <2>4, <3>4 DEF Directions, TypeOK, CacheTypeOK
  <2>5. CASE ApbKey(Req(g)) \notin {k1, k2}
    BY <1>1, <2>1, <2>5 DEF TierNesting, TypeOK, CacheTypeOK
  <2>6. QED
    BY <2>3, <2>4, <2>5
<1>4. QED
  BY <1>2, <1>3

\* A badge that is inside tier 2 of a site is inside its tier 1, when its
\* swipes do not overlap and Redis keeps its keys, whatever else fails
\* (main.go:155-187).
THEOREM TiersNest ==
  ASSUME ~Overlap, "drop" \notin FaultKinds
  PROVE  Spec => []TierNesting
<1> DEFINE Inv == Alone /\ TierCheckHolds /\ TierNesting
<1>1. Init => Inv
  <2>1. Init => \A k \in ApbKeys : apb[k] = ""
    BY DEF Init, EmptyRedis
  <2>2. \A s \in SiteKeys, b \in Badges : <<s, 2, b>> \in ApbKeys
    BY DEF ApbKeys, Tiers
  <2>3. QED
    BY <2>1, <2>2, NothingAtFirst DEF Alone, TierCheckHolds, TierNesting
<1>2. TypeOK /\ Inv /\ [Next]_vars => Inv'
  BY AloneStep, TierCheckHoldsStep, TierNestingStep
<1>3. QED
  BY <1>1, <1>2, TypeCorrect, PTL DEF Spec
-----------------------------------------------------------------------------
(* The active site.                                                         *)

InsideOrLeaving(b) ==
  \/ activeSite[b] \in SiteKeys /\ apb[<<activeSite[b], 1, b>>] = "IN"
  \/ \E h \in Handlers : pc[h] = "setActive" /\ Req(h).badge = b /\ Req(h).direction = "OUT"

\* A badge on record at a site is inside it, unless its exit is being
\* written; an entry that is being written has been committed.
ActiveOrLeaving ==
  /\ \A b \in Badges : activeSite[b] # "" => InsideOrLeaving(b)
  /\ \A h \in Handlers : pc[h] = "setActive" /\ Req(h).direction = "IN" =>
       apb[TierKey(Req(h), 1)] = "IN"
  /\ \A h \in Handlers : pc[h] # "lateSetActive" /\ pc[h] # "lateCommit"

\* Without failed writes and crashes a handler leaves the active_site update
\* by making it, and nothing else writes active_site.
LEMMA ActiveSteps ==
  ASSUME TypeOK, ActiveOrLeaving, [Next]_vars, FaultKinds \subseteq {"read", "repeat"}
  PROVE  /\ \A h \in Handlers : pc'[h] # "lateSetActive" /\ pc'[h] # "lateCommit"
         /\ \/ \E g \in Handlers : UpdateActiveSite(g)
            \/ /\ activeSite' = activeSite
               /\ \A h \in Handlers : pc[h] = "setActive" =>
                    pc'[h] = "setActive" /\ current'[h] = current[h]
<1>1. pc \in [Handlers -> Stages] /\ current \in [Handlers -> Swipes \cup {NoSwipe}]
  BY DEF TypeOK, HandlersTypeOK
<1> USE <1>1 DEF Goto, Done
<1>2. ~RedisDropsKey /\ \A p \in Replicas : ~Crash(p)
  BY DEF RedisDropsKey, Crash, Fault
<1>3. ASSUME NEW g \in Handlers, HandlerStep(g) PROVE ~WriteFails(g)
  BY DEF WriteFails, Fault
<1>4. ASSUME NEW g \in Handlers, BadRequest(g) PROVE pc' = pc /\ current' = current /\ activeSite' = activeSite
  BY <1>4 DEF BadRequest, redisVars
<1>5. ASSUME NEW g \in Handlers, NEW r \in Requests, Receive(g, r)
      PROVE  /\ \A h \in Handlers : pc[h] = "setActive" =>
                    pc'[h] = "setActive" /\ current'[h] = current[h]
             /\ \A h \in Handlers : pc'[h] # "lateSetActive" /\ pc'[h] # "lateCommit"
             /\ activeSite' = activeSite
  <2>1. /\ pc[g] = "idle"
        /\ pc'[g] \in Reading
        /\ \A h \in Handlers : h # g => pc'[h] = pc[h] /\ current'[h] = current[h]
        /\ UNCHANGED redisVars
    BY <1>5, Received
  <2>2. pc'[g] \notin {"lateSetActive", "lateCommit"}
    BY <2>1 DEF Reading
  <2>3. activeSite' = activeSite
    BY <2>1 DEF redisVars
  <2>4. ASSUME NEW h \in Handlers
        PROVE  /\ pc[h] = "setActive" => pc'[h] = "setActive" /\ current'[h] = current[h]
               /\ pc'[h] # "lateSetActive" /\ pc'[h] # "lateCommit"
    <3>1. CASE h = g
      BY <2>1, <2>2, <3>1
    <3>2. CASE h # g
      <4>1. pc'[h] = pc[h] /\ current'[h] = current[h]
        BY <2>1, <3>2
      <4>2. QED
        BY <4>1 DEF ActiveOrLeaving
    <3>3. QED
      BY <3>1, <3>2
  <2>5. QED
    BY <2>3, <2>4
<1>6. ASSUME NEW g \in Handlers,
             \/ CrossSiteCheck(g) \/ TierCheck(g) \/ ApbCheck(g) \/ ReadFails(g)
             \/ PublishRejection(g) \/ PublishRepeats(g) \/ CommitSwipe(g)
             \/ LateWriteLost(g) \/ LateWrite(g) \/ UpdateActiveSite(g)
      PROVE  /\ \A h \in Handlers : h # g => pc'[h] = pc[h] /\ current'[h] = current[h]
             /\ pc'[g] \in {"idle", "apbCheck", "publish", "commit", "setActive"}
  <2>1. CASE CrossSiteCheck(g) \/ TierCheck(g) \/ ApbCheck(g)
    BY <2>1 DEF CrossSiteCheck, TierCheck, ApbCheck, Pass, Reject
  <2>2. CASE ReadFails(g) \/ PublishRejection(g) \/ PublishRepeats(g) \/ LateWriteLost(g)
             \/ LateWrite(g) \/ UpdateActiveSite(g)
    BY <2>2 DEF ReadFails, PublishRejection, PublishRepeats, LateWriteLost, LateWrite, UpdateActiveSite
  <2>3. CASE CommitSwipe(g)
    BY <2>3 DEF CommitSwipe
  <2>4. QED
    BY <1>6, <2>1, <2>2, <2>3
<1>7. ASSUME NEW g \in Handlers,
             \/ CrossSiteCheck(g) \/ TierCheck(g) \/ ApbCheck(g) \/ ReadFails(g)
             \/ PublishRejection(g) \/ PublishRepeats(g) \/ CommitSwipe(g)
             \/ LateWriteLost(g) \/ LateWrite(g)
      PROVE  pc[g] # "setActive" /\ activeSite' = activeSite
  <2>1. CASE CrossSiteCheck(g) \/ TierCheck(g) \/ ApbCheck(g) \/ ReadFails(g) \/ LateWriteLost(g)
    BY <2>1 DEF CrossSiteCheck, TierCheck, ApbCheck, ReadFails, LateWriteLost, redisVars, Reading, Late
  <2>2. CASE PublishRejection(g) \/ PublishRepeats(g) \/ CommitSwipe(g)
    BY <2>2 DEF PublishRejection, PublishRepeats, CommitSwipe, PublishEvent, SetDirectionAndPublishEvent
  <2>3. CASE LateWrite(g)
    BY <2>3 DEF LateWrite, PublishEvent, ActiveOrLeaving
  <2>4. QED
    BY <1>7, <2>1, <2>2, <2>3
<1>8. ASSUME NEW g \in Handlers, HandlerStep(g)
      PROVE  /\ \A h \in Handlers : pc'[h] # "lateSetActive" /\ pc'[h] # "lateCommit"
             /\ \/ UpdateActiveSite(g)
                \/ /\ activeSite' = activeSite
                   /\ \A h \in Handlers : pc[h] = "setActive" =>
                        pc'[h] = "setActive" /\ current'[h] = current[h]
  <2>1. /\ \A h \in Handlers : h # g => pc'[h] = pc[h] /\ current'[h] = current[h]
        /\ pc'[g] \notin {"lateSetActive", "lateCommit"}
    <3>1. pc'[g] \in {"idle", "apbCheck", "publish", "commit", "setActive"}
      BY <1>3, <1>6, <1>8 DEF HandlerStep
    <3>2. QED
      BY <1>3, <1>6, <1>8, <3>1 DEF HandlerStep
  <2>2. UpdateActiveSite(g) \/ (pc[g] # "setActive" /\ activeSite' = activeSite)
    BY <1>3, <1>7, <1>8 DEF HandlerStep
  <2>3. QED
    BY <2>1, <2>2 DEF ActiveOrLeaving
<1>9. CASE UNCHANGED vars
  BY <1>9 DEF vars, redisVars, apiVars, ActiveOrLeaving
<1>10. QED
  BY <1>2, <1>4, <1>5, <1>8, <1>9 DEF Next, ActiveOrLeaving
LEMMA ActiveOrLeavingStep ==
  ASSUME TypeOK, Alone, ActiveOrLeaving, [Next]_vars, FaultKinds \subseteq {"read", "repeat"}
  PROVE  ActiveOrLeaving'
<1>1. \A h \in Handlers : pc'[h] # "lateSetActive" /\ pc'[h] # "lateCommit"
  BY ActiveSteps
<1>2. ASSUME NEW h \in Handlers, pc'[h] = "setActive", NEW r, r = Req(h)', r.direction = "IN"
      PROVE  apb'[TierKey(r, 1)] = "IN"
  <2>1. ASSUME NEW q \in Requests, Receive(h, q) PROVE FALSE
    BY <1>2, <2>1, Received DEF Reading
  <2>2. /\ pc[h] # "idle"
        /\ r = Req(h)
        /\ \/ pc'[h] = pc[h]
           \/ CrossSiteCheck(h) \/ TierCheck(h) \/ ApbCheck(h) \/ CommitSwipe(h)
           \/ pc[h] \in Writing /\ pc'[h] = LateOf(pc[h])
    BY <1>2, <2>1, HandlerMoves DEF Req
  <2>3. ~ (CrossSiteCheck(h) \/ TierCheck(h) \/ ApbCheck(h))
    BY <1>2 DEF CrossSiteCheck, TierCheck, ApbCheck, Pass, Reject, Goto, TypeOK, HandlersTypeOK
  <2>4. TierKey(r, 1) \in ApbKeys
    BY <2>2, CurrentSwipe, KeysAreKeys DEF Tiers
  <2>5. CASE CommitSwipe(h)
    <3>1. Tier(h) = 1 /\ apb' = [apb EXCEPT ![ApbKey(r)] = r.direction]
      BY <1>2, <2>2, <2>5
         DEF CommitSwipe, SetDirectionAndPublishEvent, Done, Goto, TypeOK, HandlersTypeOK
    <3>2. ApbKey(r) = TierKey(r, 1)
      BY <2>2, <3>1 DEF ApbKey, Tier
    <3>3. QED
      BY <1>2, <2>4, <3>1, <3>2 DEF TypeOK, CacheTypeOK
  <2>6. CASE pc[h] = "setActive"
    <3>1. apb[TierKey(r, 1)] = "IN"
      BY <1>2, <2>2, <2>6 DEF ActiveOrLeaving
    <3>2. CASE apb' = apb
      BY <3>1, <3>2
    <3>3. ASSUME NEW g \in Handlers, pc[g] \in {"commit", "lateCommit"},
                 apb' = [apb EXCEPT ![ApbKey(Req(g))] = Req(g).direction]
          PROVE  apb'[TierKey(r, 1)] = "IN"
      <4>1. Req(g).badge # r.badge
        BY <2>2, <2>6, <3>3 DEF Alone
      <4>2. TierKey(r, 1) # ApbKey(Req(g))
        BY <4>1 DEF TierKey, ApbKey
      <4>3. QED
        BY <2>4, <3>1, <3>3, <4>2 DEF TypeOK, CacheTypeOK
    <3>4. QED
      BY <3>2, <3>3, CommitLands
  <2>7. QED
    BY <1>2, <2>2, <2>3, <2>5, <2>6 DEF LateOf
<1>3. ASSUME NEW b \in Badges, activeSite'[b] # ""
      PROVE  InsideOrLeaving(b)'
  <2>1. ASSUME NEW g \in Handlers, UpdateActiveSite(g)
        PROVE  InsideOrLeaving(b)'
    <3> DEFINE r == Req(g)
               k == <<activeSite'[b], 1, b>>
    <3>1. r \in Requests /\ r.badge \in Badges /\ SiteKey(r.site) \in SiteKeys /\ pc[g] = "setActive"
      BY <2>1, CurrentSwipe, KeysAreKeys DEF UpdateActiveSite
    <3>2. apb' = apb
      BY <2>1 DEF UpdateActiveSite, WriteActiveSite, SetActiveSite, ClearActiveSite
    <3>3. CASE b = r.badge
      <4>1. r.direction = "IN" /\ activeSite'[b] = SiteKey(r.site)
        BY <1>3, <2>1, <3>1, <3>3
           DEF UpdateActiveSite, WriteActiveSite, SetActiveSite, ClearActiveSite, TypeOK, CacheTypeOK
      <4>2. k = TierKey(r, 1)
        BY <3>3, <4>1 DEF TierKey
      <4>3. apb[k] = "IN"
        BY <3>1, <4>1, <4>2 DEF ActiveOrLeaving
      <4>4. QED
        BY <3>1, <3>2, <4>1, <4>3 DEF InsideOrLeaving
    <3>4. CASE b # r.badge
      <4>1. activeSite'[b] = activeSite[b]
        BY <2>1, <3>1, <3>4
           DEF UpdateActiveSite, WriteActiveSite, SetActiveSite, ClearActiveSite, TypeOK, CacheTypeOK
      <4>2. CASE activeSite[b] \in SiteKeys /\ apb[<<activeSite[b], 1, b>>] = "IN"
        BY <3>2, <4>1, <4>2 DEF InsideOrLeaving
      <4>3. ASSUME NEW h \in Handlers, pc[h] = "setActive", Req(h).badge = b,
                   Req(h).direction = "OUT"
            PROVE  pc'[h] = "setActive" /\ Req(h)' = Req(h)
        <5>1. h # g
          BY <3>4, <4>3
        <5>2. QED
          BY <2>1, <4>3, <5>1 DEF UpdateActiveSite, Done, Goto, Req, TypeOK, HandlersTypeOK
      <4>4. CASE \E h \in Handlers :
                   pc[h] = "setActive" /\ Req(h).badge = b /\ Req(h).direction = "OUT"
        <5>1. PICK h \in Handlers :
                pc[h] = "setActive" /\ Req(h).badge = b /\ Req(h).direction = "OUT"
          BY <4>4
        <5>2. pc'[h] = "setActive" /\ Req(h)'.badge = b /\ Req(h)'.direction = "OUT"
          BY <4>3, <5>1
        <5>3. QED
          BY <5>2 DEF InsideOrLeaving
      <4>5. InsideOrLeaving(b)
        BY <1>3, <4>1 DEF ActiveOrLeaving
      <4>6. QED
        BY <4>2, <4>4, <4>5 DEF InsideOrLeaving
    <3>5. QED
      BY <3>3, <3>4
  <2>2. CASE /\ activeSite' = activeSite
             /\ \A h \in Handlers : pc[h] = "setActive" =>
                  pc'[h] = "setActive" /\ current'[h] = current[h]
    <3>1. CASE \E h \in Handlers :
                 pc[h] = "setActive" /\ Req(h).badge = b /\ Req(h).direction = "OUT"
      BY <2>2, <3>1 DEF Req, InsideOrLeaving
    <3>2. CASE activeSite[b] \in SiteKeys /\ apb[<<activeSite[b], 1, b>>] = "IN" /\ apb' = apb
      BY <2>2, <3>2 DEF InsideOrLeaving
    <3>3. CASE activeSite[b] \in SiteKeys /\ apb[<<activeSite[b], 1, b>>] = "IN" /\ apb' # apb
      <4> DEFINE k == <<activeSite[b], 1, b>>
      <4>1. k \in ApbKeys
        BY <3>3 DEF ApbKeys, Tiers
      <4>2. CASE apb'[k] = "IN"
        BY <2>2, <3>3, <4>2 DEF InsideOrLeaving
      <4>3. CASE apb'[k] # "IN"
        <5>1. ~RedisDropsKey
          BY DEF RedisDropsKey, Fault
        <5>2. PICK g \in Handlers : CommitSwipe(g)
          <6>1. ASSUME NEW g \in Handlers, HandlerStep(g) PROVE CommitSwipe(g)
            BY <1>1, <3>3, <6>1
               DEF HandlerStep, CrossSiteCheck, TierCheck, ApbCheck, ReadFails, PublishRejection,
                   PublishRepeats, UpdateActiveSite, WriteFails, LateWrite, LateWriteLost,
                   PublishEvent, WriteActiveSite, SetActiveSite, ClearActiveSite, redisVars,
                   ActiveOrLeaving
          <6>2. QED
            BY <3>3, <5>1, <6>1 DEF Next, BadRequest, Receive, Crash, vars, redisVars
        <5>3. apb' = [apb EXCEPT ![ApbKey(Req(g))] = Req(g).direction]
          BY <5>2 DEF CommitSwipe, SetDirectionAndPublishEvent
        <5>4. ApbKey(Req(g)) = k /\ Req(g).direction # "IN"
          BY <3>3, <4>1, <4>3, <5>3 DEF TypeOK, CacheTypeOK
        <5>5. Req(g) \in Requests /\ Req(g).direction = "OUT" /\ Req(g).badge = b /\ Tier(g) = 1
          <6>1. pc[g] # "idle"
            BY <5>2, StagesApart
          <6>2. Req(g) \in Requests /\ Req(g).direction \in Directions
            BY <6>1, CurrentSwipe, KeysAreKeys
          <6>3. QED
            BY <5>4, <6>2 DEF Directions, ApbKey, TierKey, Tier
        <5>6. pc'[g] = "setActive" /\ Req(g)' = Req(g)
          BY <5>2, <5>5 DEF CommitSwipe, Goto, Req, TypeOK, HandlersTypeOK
        <5>7. QED
          BY <5>5, <5>6 DEF InsideOrLeaving
      <4>4. QED
        BY <4>2, <4>3
    <3>4. QED
      BY <1>3, <2>2, <3>1, <3>2, <3>3 DEF ActiveOrLeaving, InsideOrLeaving
  <2>3. QED
    BY <2>1, <2>2, ActiveSteps
<1>4. QED
  BY <1>1, <1>2, <1>3 DEF ActiveOrLeaving
\* A site on record as active is one the badge is inside, whenever no swipe
\* of the badge is under way, as long as no write and no replica is lost
\* between the commit and the update of active_site (main.go:261-273).
THEOREM ActiveSitesAreInside ==
  ASSUME ~Overlap, FaultKinds \subseteq {"read", "repeat"}
  PROVE  Spec => []ActiveSiteIsInside
<1> DEFINE Inv == Alone /\ ActiveOrLeaving
<1>1. Init => Inv
  <2>1. Init => \A b \in Badges : activeSite[b] = ""
    BY DEF Init, EmptyRedis
  <2>2. QED
    BY <2>1, NothingAtFirst DEF Alone, ActiveOrLeaving
<1>2. TypeOK /\ Inv /\ [Next]_vars => Inv'
  BY AloneStep, ActiveOrLeavingStep
<1>3. Inv => ActiveSiteIsInside
  BY ZenonT(40) DEF ActiveOrLeaving, InsideOrLeaving, ActiveSiteIsInside, InFlight, Inside
<1>4. QED
  BY <1>1, <1>2, <1>3, TypeCorrect, PTL DEF Spec

-----------------------------------------------------------------------------
(***************************************************************************)
(* AccessApi implements Turnstile, for any constants, when the swipes of   *)
(* one badge do not overlap and Redis keeps its keys: the refinement       *)
(* mapping is the one of AccessApiProps!Gate, and the step of the handler  *)
(* that writes its verdict is the one in which the gate decides.           *)
(***************************************************************************)

-----------------------------------------------------------------------------
(* The abstract gate speaks of the same keys.                               *)

LEMMA SameData ==
  /\ Gate!Requests = Requests
  /\ Gate!ApbKeys = ApbKeys
  /\ \A r : Gate!ApbKey(r) = ApbKey(r) /\ Gate!GateTier(r.gate) = GateTier(r.gate)
  /\ \A r, t : Gate!TierKey(r, t) = TierKey(r, t)
BY DEF Gate!Requests, Requests, Gate!ApbKeys, ApbKeys, Gate!ApbKey, ApbKey, Gate!TierKey, TierKey,
   Gate!GateTier, GateTier, Gate!SiteKeys, SiteKeys, Gate!SiteKey, SiteKey, Gate!Tiers, Tiers,
   Gate!Directions, Directions

\* The rules of the gate, in the gate's state.
LEMMA Rules ==
  ASSUME NEW r \in Requests
  PROVE  /\ Gate!MayPass(r) <=>
              /\ apb[ApbKey(r)] # r.direction
              /\ <<r.direction, GateTier(r.gate)>> \in {<<"IN", 2>>, <<"OUT", 1>>} =>
                   ~TierViolation(r)
         /\ Gate!EntersSite(r) <=> r.direction = "IN" /\ GateTier(r.gate) = 1
<1>1. r.direction \in {"IN", "OUT"}
  BY KeysAreKeys DEF Directions
<1>2. QED
  BY <1>1, SameData DEF Gate!MayPass, Gate!EntersSite, TierViolation, GetState

-----------------------------------------------------------------------------
(* The stages a request goes through fit its tier and direction.            *)

ChecksFit ==
  \A h \in Handlers :
    /\ pc[h] = "crossSite" => Req(h).direction = "IN" /\ Tier(h) = 1
    /\ pc[h] = "tierCheck" => <<Req(h).direction, Tier(h)>> \in {<<"IN", 2>>, <<"OUT", 1>>}

LEMMA ChecksFitStep ==
  ASSUME TypeOK, ChecksFit, [Next]_vars
  PROVE  ChecksFit'
<1> SUFFICES ASSUME NEW h \in Handlers, pc'[h] \in {"crossSite", "tierCheck"}, NEW r, r = Req(h)'
             PROVE  /\ pc'[h] = "crossSite" => r.direction = "IN" /\ GateTier(r.gate) = 1
                    /\ pc'[h] = "tierCheck" =>
                         <<r.direction, GateTier(r.gate)>> \in {<<"IN", 2>>, <<"OUT", 1>>}
  BY DEF ChecksFit, Tier
<1>1. ASSUME NEW q \in Requests, Receive(h, q) PROVE r = q /\ pc'[h] = FirstCheck(r)
  BY <1>1, Received DEF Req
<1>2. CASE \E q \in Requests : Receive(h, q)
  BY <1>1, <1>2 DEF FirstCheck
<1>3. CASE ~ \E q \in Requests : Receive(h, q)
  <2>1. /\ pc[h] # "idle"
        /\ r = Req(h)
        /\ \/ pc'[h] = pc[h]
           \/ CrossSiteCheck(h) \/ TierCheck(h) \/ ApbCheck(h) \/ CommitSwipe(h)
           \/ pc[h] \in Writing /\ pc'[h] = LateOf(pc[h])
    BY <1>3, HandlerMoves DEF Req
  <2>2. ~ (CrossSiteCheck(h) \/ TierCheck(h) \/ ApbCheck(h) \/ CommitSwipe(h))
    BY DEF CrossSiteCheck, TierCheck, ApbCheck, CommitSwipe, Reject, Pass, Done, Goto, TypeOK,
       HandlersTypeOK
  <2>3. pc'[h] = pc[h]
    BY <2>1, <2>2 DEF LateOf
  <2>4. QED
    BY <2>1, <2>3 DEF ChecksFit, Tier
<1>4. QED
  BY <1>2, <1>3

\* A handler that is about to publish a rejection has its reason still.
RejectionsHold ==
  \A h \in Handlers : pc[h] \in {"publish", "latePublish"} =>
    \/ apb[ApbKey(Req(h))] = Req(h).direction
    \/ /\ <<Req(h).direction, Tier(h)>> \in {<<"IN", 2>>, <<"OUT", 1>>}
       /\ TierViolation(Req(h))
    \/ Req(h).direction = "IN" /\ Tier(h) = 1

LEMMA RejectionsHoldStep ==
  ASSUME TypeOK, Alone, ChecksFit, RejectionsHold, [Next]_vars, "drop" \notin FaultKinds
  PROVE  RejectionsHold'
<1> SUFFICES ASSUME NEW h \in Handlers, pc'[h] \in {"publish", "latePublish"},
                    NEW r, r = Req(h)'
             PROVE  \/ apb'[ApbKey(r)] = r.direction
                    \/ /\ <<r.direction, GateTier(r.gate)>> \in {<<"IN", 2>>, <<"OUT", 1>>}
                       /\ TierViolation(r)'
                    \/ r.direction = "IN" /\ GateTier(r.gate) = 1
  BY DEF RejectionsHold, Tier, TierViolation, GetState, TierKey, ApbKey
<1>1. ASSUME NEW q \in Requests, Receive(h, q) PROVE FALSE
  BY <1>1, Received DEF Reading
<1>2. /\ pc[h] # "idle"
      /\ r = Req(h)
      /\ \/ pc'[h] = pc[h]
         \/ CrossSiteCheck(h) \/ TierCheck(h) \/ ApbCheck(h) \/ CommitSwipe(h)
         \/ pc[h] \in Writing /\ pc'[h] = LateOf(pc[h])
  BY <1>1, HandlerMoves DEF Req
<1>3. \A t \in Tiers : apb'[TierKey(r, t)] = apb[TierKey(r, t)]
  BY <1>2, OwnKeysStay
<1>4. TierViolation(r)' <=> TierViolation(r)
  <2>1. apb'[TierKey(r, 1)] = apb[TierKey(r, 1)] /\ apb'[TierKey(r, 2)] = apb[TierKey(r, 2)]
    BY <1>3 DEF Tiers
  <2>2. QED
    BY <2>1 DEF TierViolation, GetState
<1>5. apb'[ApbKey(r)] = apb[ApbKey(r)]
  <2>1. GateTier(r.gate) \in Tiers
    BY <1>2, CurrentSwipe, KeysAreKeys
  <2>2. QED
    BY <1>3, <2>1 DEF ApbKey
<1>6. CASE pc[h] \in {"publish", "latePublish"}
  BY <1>2, <1>4, <1>5, <1>6 DEF RejectionsHold, Tier
<1>7. CASE CrossSiteCheck(h)
  BY <1>2, <1>7, StagesApart DEF ChecksFit, Tier
<1>8. CASE TierCheck(h)
  <2>1. TierViolation(r)
    BY <1>2, <1>8 DEF TierCheck, Pass, Goto, TypeOK, HandlersTypeOK
  <2>2. QED
    BY <1>2, <1>4, <1>8, <2>1, StagesApart DEF ChecksFit, Tier
<1>9. CASE ApbCheck(h)
  <2>1. ~CheckAntiPassback(ApbKey(r), r.direction)
    BY <1>2, <1>9 DEF ApbCheck, Pass, Goto, TypeOK, HandlersTypeOK
  <2>2. QED
    BY <1>5, <2>1 DEF CheckAntiPassback
<1>10. CASE CommitSwipe(h)
  BY <1>10 DEF CommitSwipe, Done, Goto, TypeOK, HandlersTypeOK
<1>11. CASE pc[h] \in Writing /\ pc'[h] = LateOf(pc[h])
  BY <1>6, <1>11 DEF Writing, LateOf
<1>12. QED
  BY <1>2, <1>6, <1>7, <1>8, <1>9, <1>10, <1>11
-----------------------------------------------------------------------------
(* The numbers of the swipes are those the abstract gate counts.            *)

NumbersInBound ==
  /\ received <= MaxSwipes
  /\ \A h \in Handlers : pc[h] # "idle" => current[h].swipe \in 1..MaxSwipes

LEMMA NumbersInBoundStep ==
  ASSUME TypeOK, NumbersInBound, [Next]_vars
  PROVE  NumbersInBound'
<1>1. received' <= MaxSwipes
  <2>1. received \in Nat /\ MaxSwipes \in Nat
    BY BoundAssumption DEF TypeOK
  <2>2. received' = received \/ (received < MaxSwipes /\ received' = received + 1)
    BY DEF Next, BadRequest, Receive, HandlerStep, CrossSiteCheck, TierCheck, ApbCheck, ReadFails,
       PublishRejection, PublishRepeats, CommitSwipe, UpdateActiveSite, WriteFails, LateWrite,
       LateWriteLost, Crash, RedisDropsKey, vars, apiVars
  <2>3. QED
    BY <2>1, <2>2 DEF NumbersInBound
<1>2. ASSUME NEW h \in Handlers, pc'[h] # "idle" PROVE current'[h].swipe \in 1..MaxSwipes
  <2>1. CASE \E r \in Requests : Receive(h, r)
    <3>1. current'[h].swipe = received + 1 /\ received' = received + 1
      BY <2>1, Received
    <3>2. QED
      BY <1>1, <3>1, BoundAssumption DEF TypeOK
  <2>2. CASE ~ \E r \in Requests : Receive(h, r)
    BY <1>2, <2>2, HandlerMoves DEF NumbersInBound
  <2>3. QED
    BY <2>1, <2>2
<1>3. QED
  BY <1>1, <1>2 DEF NumbersInBound

-----------------------------------------------------------------------------
(* Every step of the handlers is a step of the gate, or none.               *)

LEMMA GateStep ==
  ASSUME TypeOK, ApbCheckHolds, TierCheckHolds, RejectionsHold, NumbersInBound,
         "drop" \notin FaultKinds, [Next]_vars
  PROVE  [Gate!Next]_<<apb, stream>>
<1>1. ASSUME NEW h \in Handlers, pc[h] \in {"publish", "latePublish"},
             PublishEvent(Event(h, "REJECTED_APB"))
      PROVE  Gate!Next
  <2>1. Req(h) \in Requests /\ current[h].swipe \in 1..MaxSwipes
    BY <1>1, CurrentSwipe DEF NumbersInBound
  <2>2. ~Gate!MayPass(Req(h)) \/ Gate!EntersSite(Req(h))
    BY <1>1, <2>1, Rules DEF RejectionsHold, Tier
  <2>3. Gate!Record(current[h].swipe, Req(h), "REJECTED_APB") /\ apb' = apb
    BY <1>1 DEF PublishEvent, Event, Gate!Record
  <2>4. Gate!Refuse(current[h].swipe, Req(h))
    BY <2>2, <2>3 DEF Gate!Refuse
  <2>5. QED
    BY <2>1, <2>4, SameData DEF Gate!Next
<1>2. ASSUME NEW h \in Handlers, pc[h] \in {"commit", "lateCommit"},
             SetDirectionAndPublishEvent(ApbKey(Req(h)), Req(h).direction, Event(h, "SUCCESS"))
      PROVE  Gate!Next
  <2>1. Req(h) \in Requests /\ current[h].swipe \in 1..MaxSwipes
    BY <1>2, CurrentSwipe DEF NumbersInBound
  <2>2. Gate!MayPass(Req(h))
    BY <1>2, <2>1, Rules DEF ApbCheckHolds, TierCheckHolds, Tier
  <2>3. Gate!Record(current[h].swipe, Req(h), "SUCCESS")
    BY <1>2 DEF SetDirectionAndPublishEvent, Event, Gate!Record
  <2>4. Gate!Grant(current[h].swipe, Req(h))
    BY <1>2, <2>2, <2>3, SameData DEF SetDirectionAndPublishEvent, Gate!Grant
  <2>5. QED
    BY <2>1, <2>4, SameData DEF Gate!Next
<1>3. ~RedisDropsKey
  BY DEF RedisDropsKey, Fault
<1>4. QED
  BY <1>1, <1>2, <1>3, RedisSteps
     DEF redisVars, WriteActiveSite, SetActiveSite, ClearActiveSite

\* The handlers, their failed calls, late writes and crashes included,
\* implement the gate that decides and records each swipe in one step, as
\* long as swipes of one badge do not overlap and Redis keeps its keys.
THEOREM HandlersImplementTurnstile ==
  ASSUME ~Overlap, "drop" \notin FaultKinds
  PROVE  Spec => ImplementsTurnstile
<1> DEFINE Inv == /\ Alone /\ ChecksFit /\ NumbersInBound
                  /\ ApbCheckHolds /\ TierCheckHolds /\ RejectionsHold
<1>1. Init => Inv
  BY NothingAtFirst, BoundAssumption
     DEF Init, Alone, ChecksFit, NumbersInBound, ApbCheckHolds, TierCheckHolds, RejectionsHold
<1>2. TypeOK /\ Inv /\ [Next]_vars => Inv'
  BY AloneStep, ChecksFitStep, NumbersInBoundStep, ApbCheckHoldsStep, TierCheckHoldsStep,
     RejectionsHoldStep
<1>3. Init => Gate!Init
  BY SameData DEF Init, EmptyRedis, Gate!Init
<1>4. TypeOK /\ Inv /\ [Next]_vars => [Gate!Next]_<<apb, stream>>
  BY GateStep
<1>5. QED
  BY <1>1, <1>2, <1>3, <1>4, TypeCorrect, PTL DEF Spec, ImplementsTurnstile, Gate!Spec

-----------------------------------------------------------------------------
(* What the cross-site check achieves: without a stray exit a badge is      *)
(* inside one site at a time, when no write, key or replica is lost.        *)

LEMMA NoSiteIsEmpty == "" \notin SiteKeys
BY DEF SiteKeys, SiteKey

LEMMA SerialSteps ==
  ASSUME TypeOK, ActiveOrLeaving, [Next]_vars, FaultKinds \subseteq {"read", "repeat"}
  PROVE  \/ \E g \in Handlers : UpdateActiveSite(g) \/ CommitSwipe(g)
         \/ /\ apb' = apb /\ activeSite' = activeSite
            /\ \A h \in Handlers : pc'[h] = "setActive" => pc[h] = "setActive"
            /\ \A h \in Handlers : pc[h] = "setActive" =>
                 pc'[h] = "setActive" /\ current'[h] = current[h]
<1> SUFFICES ASSUME \A g \in Handlers : ~UpdateActiveSite(g) /\ ~CommitSwipe(g)
             PROVE  /\ apb' = apb
                    /\ \A h \in Handlers : pc'[h] = "setActive" => pc[h] = "setActive"
  BY ActiveSteps
<1>1. apb' = apb
  <2>1. ~RedisDropsKey
    BY DEF RedisDropsKey, Fault
  <2>2. ASSUME NEW g \in Handlers, HandlerStep(g) PROVE apb' = apb
    BY <2>2
       DEF HandlerStep, CrossSiteCheck, TierCheck, ApbCheck, ReadFails, PublishRejection,
           PublishRepeats, WriteFails, LateWrite, LateWriteLost, PublishEvent, WriteActiveSite,
           SetActiveSite, ClearActiveSite, redisVars, ActiveOrLeaving
  <2>3. QED
    BY <2>1, <2>2 DEF Next, BadRequest, Receive, Crash, vars, redisVars
<1>2. ASSUME NEW h \in Handlers, pc'[h] = "setActive" PROVE pc[h] = "setActive"
  <2>1. ASSUME NEW q \in Requests, Receive(h, q) PROVE FALSE
    BY <1>2, <2>1, Received DEF Reading
  <2>2. \/ pc'[h] = pc[h]
        \/ CrossSiteCheck(h) \/ TierCheck(h) \/ ApbCheck(h)
        \/ pc[h] \in Writing /\ pc'[h] = LateOf(pc[h])
    BY <1>2, <2>1, HandlerMoves
  <2>3. ~ (CrossSiteCheck(h) \/ TierCheck(h) \/ ApbCheck(h))
    BY <1>2 DEF CrossSiteCheck, TierCheck, ApbCheck, Pass, Reject, Goto, TypeOK, HandlersTypeOK
  <2>4. QED
    BY <1>2, <2>2, <2>3 DEF LateOf
<1>3. QED
  BY <1>1, <1>2

\* A commit, key by key and handler by handler.
LEMMA CommitEffect ==
  ASSUME TypeOK, NEW g \in Handlers, CommitSwipe(g)
  PROVE  /\ pc[g] = "commit"
         /\ Req(g) \in Requests
         /\ apb'[ApbKey(Req(g))] = Req(g).direction
         /\ \A k \in ApbKeys : k # ApbKey(Req(g)) => apb'[k] = apb[k]
         /\ activeSite' = activeSite
         /\ \A h \in Handlers : h # g => pc'[h] = pc[h] /\ current'[h] = current[h]
         /\ Tier(g) = 1 => pc'[g] = "setActive" /\ current'[g] = current[g]
         /\ Tier(g) # 1 => pc'[g] = "idle"
<1>1. pc[g] = "commit"
  BY StagesApart
<1>2. Req(g) \in Requests /\ ApbKey(Req(g)) \in ApbKeys
  BY <1>1, CurrentSwipe, KeysAreKeys
<1>3. QED
  BY <1>1, <1>2 DEF CommitSwipe, SetDirectionAndPublishEvent, Done, Goto, TypeOK, CacheTypeOK,
     HandlersTypeOK

LEMMA UpdateEffect ==
  ASSUME TypeOK, NEW g \in Handlers, UpdateActiveSite(g)
  PROVE  /\ pc[g] = "setActive" /\ pc'[g] = "idle"
         /\ Req(g) \in Requests
         /\ apb' = apb /\ stream' = stream
         /\ Req(g).direction = "IN" => activeSite'[Req(g).badge] = SiteKey(Req(g).site)
         /\ \A b \in Badges : b # Req(g).badge => activeSite'[b] = activeSite[b]
         /\ \A h \in Handlers : h # g => pc'[h] = pc[h] /\ current'[h] = current[h]
<1>1. pc[g] = "setActive"
  BY DEF UpdateActiveSite
<1>2. Req(g) \in Requests /\ Req(g).badge \in Badges
  BY <1>1, CurrentSwipe, KeysAreKeys
<1>3. QED
  BY <1>1, <1>2 DEF UpdateActiveSite, WriteActiveSite, SetActiveSite, ClearActiveSite, Done, Goto,
     TypeOK, CacheTypeOK, HandlersTypeOK

-----------------------------------------------------------------------------
(* The cross-site check still holds when its handler updates active_site.   *)

EntryChecked ==
  \A h \in Handlers :
    /\ pc[h] \in {"apbCheck", "commit", "setActive"}
    /\ Req(h).direction = "IN" /\ Tier(h) = 1
    => activeSite[Req(h).badge] \in {"", SiteKey(Req(h).site)}

\* Only a tier-1 swipe updates active_site.
UpdatesAreOuter == \A h \in Handlers : pc[h] = "setActive" => Tier(h) = 1

LEMMA UpdatesAreOuterStep ==
  ASSUME TypeOK, ActiveOrLeaving, UpdatesAreOuter, [Next]_vars,
         FaultKinds \subseteq {"read", "repeat"}
  PROVE  UpdatesAreOuter'
<1>1. ASSUME NEW g \in Handlers, UpdateActiveSite(g) PROVE UpdatesAreOuter'
  BY <1>1, UpdateEffect DEF UpdatesAreOuter, Tier, Req
<1>2. ASSUME NEW g \in Handlers, CommitSwipe(g) PROVE UpdatesAreOuter'
  BY <1>2, CommitEffect DEF UpdatesAreOuter, Tier, Req
<1>3. QED
  BY <1>1, <1>2, SerialSteps DEF UpdatesAreOuter, Tier, Req

LEMMA EntryCheckedStep ==
  ASSUME TypeOK, Alone, ChecksFit, ActiveOrLeaving, EntryChecked, [Next]_vars,
         FaultKinds \subseteq {"read", "repeat"}
  PROVE  EntryChecked'
<1> SUFFICES ASSUME NEW h \in Handlers, pc'[h] \in {"apbCheck", "commit", "setActive"},
                    NEW r, r = Req(h)', r.direction = "IN", GateTier(r.gate) = 1
             PROVE  activeSite'[r.badge] \in {"", SiteKey(r.site)}
  BY DEF EntryChecked, Tier
<1>1. ASSUME NEW q \in Requests, Receive(h, q) PROVE FALSE
  <2>1. pc'[h] = FirstCheck(q) /\ r = q
    BY <1>1, Received DEF Req
  <2>2. QED
    BY <2>1 DEF FirstCheck
<1>2. /\ pc[h] # "idle"
      /\ r = Req(h)
      /\ \/ pc'[h] = pc[h]
         \/ CrossSiteCheck(h) \/ TierCheck(h) \/ ApbCheck(h) \/ CommitSwipe(h)
         \/ pc[h] \in Writing /\ pc'[h] = LateOf(pc[h])
  BY <1>1, HandlerMoves DEF Req
<1>3. r.badge \in Badges
  BY <1>2, CurrentSwipe, KeysAreKeys
<1>4. activeSite'[r.badge] = activeSite[r.badge]
  <2>1. ASSUME NEW g \in Handlers, UpdateActiveSite(g)
        PROVE  activeSite'[r.badge] = activeSite[r.badge]
    <3>1. g # h /\ pc[g] # "idle"
      BY <2>1, UpdateEffect
    <3>2. Req(g).badge # r.badge
      BY <1>2, <3>1 DEF Alone
    <3>3. QED
      BY <1>3, <2>1, <3>2, UpdateEffect
  <2>2. QED
    BY <2>1, CommitEffect, SerialSteps
<1>5. activeSite[r.badge] \in {"", SiteKey(r.site)}
  <2>1. CASE pc[h] \in {"apbCheck", "commit", "setActive"}
    BY <1>2, <2>1 DEF EntryChecked, Tier
  <2>2. CASE CrossSiteCheck(h)
    BY <1>2, <2>2 DEF CrossSiteCheck, Reject, Goto, InsideAnotherSite, GetActiveSite, TypeOK,
       HandlersTypeOK
  <2>3. ~TierCheck(h)
    BY <1>2, StagesApart DEF ChecksFit, Tier
  <2>4. CASE pc[h] \in Writing /\ pc'[h] = LateOf(pc[h])
    BY <2>4 DEF LateOf
  <2>5. QED
    BY <1>2, <2>1, <2>2, <2>3, <2>4, StagesApart
<1>6. QED
  BY <1>4, <1>5

-----------------------------------------------------------------------------
(* A badge without stray exits is inside its active site, or on its way.    *)

StrayFree(b) == \A i \in DOMAIN stream : StrayExit(i) => stream[i].req.badge # b

LEMMA StrayFreeBefore ==
  ASSUME TypeOK, [Next]_vars, NEW b \in Badges, StrayFree(b)'
  PROVE  StrayFree(b)
<1> SUFFICES ASSUME NEW i \in DOMAIN stream, StrayExit(i)
             PROVE  stream[i].req.badge # b
  BY DEF StrayFree
<1>1. \A j \in DOMAIN stream : j \in DOMAIN stream' /\ stream'[j] = stream[j]
  BY StreamGrows
<1>2. ASSUME NEW j \in DOMAIN stream', j < i PROVE j \in DOMAIN stream
  <2>1. DOMAIN stream = 1..Len(stream) /\ Len(stream) \in Nat
    BY LenProperties DEF TypeOK, CacheTypeOK
  <2>2. j \notin DOMAIN stream => j = Len(stream) + 1
    BY NewEntry
  <2>3. QED
    BY <1>2, <2>1, <2>2
<1>3. StrayExit(i)'
  BY <1>1, <1>2 DEF StrayExit, Granted, GrantedFor
<1>4. QED
  BY <1>1, <1>3 DEF StrayFree

\* The tier-1 entry of b at s is committed, and active_site is next.
Entering(b, s) ==
  \E h \in Handlers : /\ pc[h] = "setActive" /\ Req(h).badge = b
                      /\ Req(h).direction = "IN" /\ SiteKey(Req(h).site) = s

SitesTracked ==
  \A b \in Badges : StrayFree(b) =>
    /\ \A s \in Inside(b) : activeSite[b] = s \/ Entering(b, s)
    /\ \A h \in Handlers : pc[h] = "setActive" /\ Req(h).badge = b /\ Req(h).direction = "OUT" =>
         Inside(b) = {}

LEMMA OneInside ==
  ASSUME Alone, EntryChecked, UpdatesAreOuter, SitesTracked,
         NEW b \in Badges, StrayFree(b), NEW s \in Inside(b), NEW t \in Inside(b)
  PROVE  s = t
<1>1. activeSite[b] = s \/ Entering(b, s)
  BY DEF SitesTracked
<1>2. activeSite[b] = t \/ Entering(b, t)
  BY DEF SitesTracked
<1>3. ASSUME NEW x \in Inside(b), NEW y, Entering(b, x), activeSite[b] = y, y # ""
      PROVE  x = y
  BY <1>3 DEF Entering, EntryChecked, UpdatesAreOuter
<1>4. ASSUME Entering(b, s), Entering(b, t) PROVE s = t
  BY <1>4 DEF Entering, Alone
<1>5. s # "" /\ t # ""
  BY NoSiteIsEmpty DEF Inside
<1>6. QED
  BY <1>1, <1>2, <1>3, <1>4, <1>5

LEMMA TrackedAfterUpdate ==
  ASSUME TypeOK, Alone, EntryChecked, UpdatesAreOuter, SitesTracked,
         NEW b \in Badges, StrayFree(b), NEW g \in Handlers, UpdateActiveSite(g)
  PROVE  /\ \A s \in Inside(b)' : activeSite'[b] = s \/ Entering(b, s)'
         /\ \A h \in Handlers : pc'[h] = "setActive" /\ Req(h)'.badge = b /\ Req(h)'.direction = "OUT" =>
              Inside(b)' = {}
<1>1. Inside(b)' = Inside(b)
  BY UpdateEffect DEF Inside
<1>2. CASE Req(g).badge # b
  <2>1. activeSite'[b] = activeSite[b]
    BY <1>2, UpdateEffect
  <2>2. \A h \in Handlers : pc'[h] = "setActive" => pc[h] = "setActive" /\ Req(h)' = Req(h)
    BY UpdateEffect DEF Req
  <2>3. \A h \in Handlers : pc[h] = "setActive" /\ Req(h).badge = b =>
          pc'[h] = "setActive" /\ Req(h)' = Req(h)
    BY <1>2, UpdateEffect DEF Req
  <2>4. \A s : Entering(b, s) => Entering(b, s)'
    BY <2>3 DEF Entering
  <2>5. QED
    BY <1>1, <2>1, <2>2, <2>4 DEF SitesTracked
<1>3. CASE Req(g).badge = b
  <2>1. \A h \in Handlers : pc[h] # "idle" /\ Req(h).badge = b => h = g
    BY <1>3, UpdateEffect DEF Alone
  <2>2. \A h \in Handlers : pc'[h] = "setActive" => h # g /\ pc[h] = "setActive" /\ Req(h)' = Req(h)
    BY UpdateEffect DEF Req
  <2>3. \A h \in Handlers : pc'[h] = "setActive" => Req(h)'.badge # b
    BY <2>1, <2>2
  <2>4. CASE Req(g).direction = "OUT"
    <3>1. Inside(b) = {}
      BY <1>3, <2>4, UpdateEffect DEF SitesTracked
    <3>2. QED
      BY <1>1, <3>1
  <2>5. CASE Req(g).direction = "IN"
    <3>1. activeSite'[b] = SiteKey(Req(g).site)
      BY <1>3, <2>5, UpdateEffect
    <3>2. activeSite[b] \in {"", SiteKey(Req(g).site)}
      BY <1>3, <2>5, UpdateEffect DEF EntryChecked, UpdatesAreOuter
    <3>3. ASSUME NEW s \in Inside(b) PROVE s = SiteKey(Req(g).site)
      <4>1. activeSite[b] = s \/ Entering(b, s)
        BY DEF SitesTracked
      <4>2. s # ""
        BY NoSiteIsEmpty DEF Inside
      <4>3. Entering(b, s) => s = SiteKey(Req(g).site)
        BY <2>1 DEF Entering
      <4>4. QED
        BY <3>2, <4>1, <4>2, <4>3
    <3>4. QED
      BY <1>1, <2>3, <3>1, <3>3
  <2>6. QED
    BY <2>4, <2>5, UpdateEffect, KeysAreKeys DEF Directions
<1>4. QED
  BY <1>2, <1>3

\* A tier-1 exit that is not stray leaves a site the badge is inside.
LEMMA ExitFromInside ==
  ASSUME TypeOK, [Next]_vars, NothingForgotten, ApbCheckHolds,
         NEW g \in Handlers, CommitSwipe(g), Tier(g) = 1, Req(g).direction = "OUT",
         NEW b, b = Req(g).badge, StrayFree(b)'
  PROVE  apb[ApbKey(Req(g))] = "IN"
<1> DEFINE r == Req(g)
           k == ApbKey(r)
           e == Event(g, "SUCCESS")
<1>1. /\ pc[g] = "commit"
      /\ r \in Requests
      /\ e \in AccessEvents /\ e.req = r /\ e.status = "SUCCESS"
      /\ stream' = Append(stream, e)
  <2>1. pc[g] = "commit" /\ r \in Requests
    BY CommitEffect
  <2>2. e \in AccessEvents /\ e.req = r /\ e.status = "SUCCESS"
    BY <2>1, CurrentSwipe DEF Event, Statuses
  <2>3. QED
    BY <2>1, <2>2 DEF CommitSwipe, SetDirectionAndPublishEvent
<1>2. k \in ApbKeys
  BY <1>1, KeysAreKeys
<1>3. GateTier(r.gate) = 1 /\ r.direction = "OUT"
  BY DEF Tier
<1> HIDE DEF e
<1>4. PICK n :
      /\ n \in DOMAIN stream' /\ stream'[n] = e
      /\ DOMAIN stream = 1..Len(stream) /\ Len(stream) \in Nat
      /\ \A j \in DOMAIN stream' : j < n => j \in DOMAIN stream
      /\ \A j \in DOMAIN stream : stream'[j] = stream[j]
  <2>1. /\ DOMAIN stream = 1..Len(stream)
        /\ DOMAIN stream' = 1..(Len(stream) + 1)
        /\ Len(stream) \in Nat
        /\ stream'[Len(stream) + 1] = e
        /\ \A i \in DOMAIN stream : i \in DOMAIN stream' /\ stream'[i] = stream[i]
    BY <1>1, Appended DEF TypeOK
  <2>2. QED
    BY <2>1
<1>5. ~StrayExit(n)'
  BY <1>1, <1>4 DEF StrayFree
<1>6. PICK j \in DOMAIN stream' :
        j < n /\ stream'[j].status = "SUCCESS" /\ ApbKey(stream'[j].req) = ApbKey(stream'[n].req)
  BY <1>1, <1>3, <1>4, <1>5 DEF StrayExit, Granted, GrantedFor
<1>7. j \in DOMAIN stream /\ GrantedFor(k, j)
  BY <1>1, <1>4, <1>6 DEF Granted, GrantedFor
<1>8. apb[k] # "" /\ apb[k] # "OUT"
  BY <1>1, <1>2, <1>3, <1>7 DEF NothingForgotten, ApbCheckHolds
<1>9. QED
  BY <1>2, <1>8 DEF TypeOK, CacheTypeOK, Directions

LEMMA TrackedAfterCommit ==
  ASSUME TypeOK, [Next]_vars, Alone, NothingForgotten, ApbCheckHolds, EntryChecked,
         UpdatesAreOuter, SitesTracked,
         NEW b \in Badges, StrayFree(b), StrayFree(b)', NEW g \in Handlers, CommitSwipe(g)
  PROVE  /\ \A s \in Inside(b)' : activeSite'[b] = s \/ Entering(b, s)'
         /\ \A h \in Handlers : pc'[h] = "setActive" /\ Req(h)'.badge = b /\ Req(h)'.direction = "OUT" =>
              Inside(b)' = {}
<1>1. \A h \in Handlers : pc[h] = "setActive" => h # g /\ pc'[h] = "setActive" /\ Req(h)' = Req(h)
  BY CommitEffect DEF Req
<1>2. \A h \in Handlers : h # g /\ pc'[h] = "setActive" => pc[h] = "setActive" /\ Req(h)' = Req(h)
  BY CommitEffect DEF Req
<1>3. \A s : Entering(b, s) => Entering(b, s)'
  BY <1>1 DEF Entering
<1>4. \A s \in SiteKeys : <<s, 1, b>> \in ApbKeys
  BY DEF ApbKeys, Tiers
<1>5. ApbKey(Req(g)) = <<SiteKey(Req(g).site), Tier(g), Req(g).badge>>
  BY DEF ApbKey, TierKey, Tier
<1>6. CASE Req(g).badge # b \/ Tier(g) # 1
  <2>1. \A s \in SiteKeys : <<s, 1, b>> # ApbKey(Req(g))
    BY <1>5, <1>6
  <2>2. Inside(b)' = Inside(b)
    BY <1>4, <2>1, CommitEffect DEF Inside
  <2>3. \A h \in Handlers : pc'[h] = "setActive" /\ Req(h)'.badge = b => pc[h] = "setActive" /\ Req(h)' = Req(h)
    BY <1>2, <1>6, CommitEffect DEF Req
  <2>4. QED
    BY <1>3, <2>2, <2>3, CommitEffect DEF SitesTracked
<1>7. CASE Req(g).badge = b /\ Tier(g) = 1
  <2> DEFINE t == SiteKey(Req(g).site)
  <2>1. ApbKey(Req(g)) = <<t, 1, b>> /\ t \in SiteKeys
    BY <1>5, <1>7, CommitEffect, KeysAreKeys
  <2>2. \A h \in Handlers : pc[h] # "idle" /\ Req(h).badge = b => h = g
    BY <1>7, CommitEffect DEF Alone
  <2>3. \A s \in Inside(b) : activeSite[b] = s
    BY <2>2, CommitEffect DEF SitesTracked, Entering
  <2>4. \A s \in Inside(b)' : s # t => s \in Inside(b)
    BY <1>4, <2>1, CommitEffect DEF Inside
  <2>5. \A h \in Handlers : pc'[h] = "setActive" /\ Req(h)'.badge = b => h = g
    BY <1>2, <2>2
  <2>6. pc'[g] = "setActive" /\ Req(g)' = Req(g)
    BY <1>7, CommitEffect DEF Req
  <2>7. CASE Req(g).direction = "IN"
    <3>1. Entering(b, t)'
      BY <1>7, <2>6, <2>7 DEF Entering
    <3>2. QED
      BY <2>3, <2>4, <2>5, <2>6, <2>7, <3>1, CommitEffect
  <2>8. CASE Req(g).direction = "OUT"
    <3>1. t \in Inside(b)
      BY <1>7, <2>1, <2>8, ExitFromInside DEF Inside
    <3>2. t \notin Inside(b)'
      BY <2>1, <2>8, CommitEffect DEF Inside
    <3>3. Inside(b)' = {}
      BY <2>3, <2>4, <3>1, <3>2
    <3>4. QED
      BY <3>3
  <2>9. QED
    BY <2>7, <2>8, CommitEffect, KeysAreKeys DEF Directions
<1>8. QED
  BY <1>6, <1>7

LEMMA SitesTrackedStep ==
  ASSUME TypeOK, [Next]_vars, Alone, NothingForgotten, ApbCheckHolds, ActiveOrLeaving,
         EntryChecked, UpdatesAreOuter, SitesTracked, FaultKinds \subseteq {"read", "repeat"}
  PROVE  SitesTracked'
<1> SUFFICES ASSUME NEW b \in Badges, StrayFree(b)'
             PROVE  /\ \A s \in Inside(b)' : activeSite'[b] = s \/ Entering(b, s)'
                    /\ \A h \in Handlers :
                         pc'[h] = "setActive" /\ Req(h)'.badge = b /\ Req(h)'.direction = "OUT" =>
                           Inside(b)' = {}
  BY DEF SitesTracked
<1>1. StrayFree(b)
  BY StrayFreeBefore
<1>2. CASE \E g \in Handlers : UpdateActiveSite(g) \/ CommitSwipe(g)
  BY <1>1, <1>2, TrackedAfterUpdate, TrackedAfterCommit
<1>3. CASE /\ apb' = apb /\ activeSite' = activeSite
           /\ \A h \in Handlers : pc'[h] = "setActive" => pc[h] = "setActive"
           /\ \A h \in Handlers : pc[h] = "setActive" =>
                pc'[h] = "setActive" /\ current'[h] = current[h]
  <2>1. Inside(b)' = Inside(b)
    BY <1>3 DEF Inside
  <2>2. \A h \in Handlers : /\ pc'[h] = "setActive" <=> pc[h] = "setActive"
                            /\ pc[h] = "setActive" => Req(h)' = Req(h)
    BY <1>3 DEF Req
  <2>3. \A s : Entering(b, s) => Entering(b, s)'
    BY <2>2 DEF Entering
  <2>4. QED
    BY <1>1, <1>3, <2>1, <2>2, <2>3 DEF SitesTracked
<1>4. QED
  BY <1>2, <1>3, SerialSteps

\* What holds of "a badge may only be physically inside one site at a time"
\* (main.go:121): a badge gets inside two sites only after a stray exit, an
\* exit at a gate it had no record of, as long as its swipes do not overlap
\* and no write, key or replica is lost.
THEOREM SitesAreExclusive ==
  ASSUME ~Overlap, FaultKinds \subseteq {"read", "repeat"}
  PROVE  Spec => []TwoSitesNeedStrayExit
<1> DEFINE Inv == /\ Alone /\ ChecksFit /\ NothingForgotten /\ ApbCheckHolds /\ ActiveOrLeaving
                  /\ EntryChecked /\ UpdatesAreOuter /\ SitesTracked
<1>1. Init => Inv
  <2> SUFFICES ASSUME Init PROVE Inv
    OBVIOUS
  <2>1. (\A b \in Badges : activeSite[b] = "") /\ (\A k \in ApbKeys : apb[k] = "")
    BY DEF Init, EmptyRedis
  <2>2. \A b \in Badges, s \in SiteKeys : <<s, 1, b>> \in ApbKeys
    BY DEF ApbKeys, Tiers
  <2>3. \A b \in Badges : Inside(b) = {}
    BY <2>1, <2>2 DEF Inside
  <2>4. QED
    BY <2>1, <2>3, NothingAtFirst
       DEF Alone, ChecksFit, NothingForgotten, ApbCheckHolds, ActiveOrLeaving, EntryChecked,
           UpdatesAreOuter, SitesTracked
<1>2. TypeOK /\ Inv /\ [Next]_vars => Inv'
  <2>1. "drop" \notin FaultKinds
    OBVIOUS
  <2>2. QED
    BY <2>1, AloneStep, ChecksFitStep, NothingForgottenStep, ApbCheckHoldsStep,
       ActiveOrLeavingStep, EntryCheckedStep, UpdatesAreOuterStep, SitesTrackedStep
<1>3. Inv => TwoSitesNeedStrayExit
  <2> SUFFICES ASSUME Inv, NEW b \in Badges, StrayFree(b) PROVE ~ (Cardinality(Inside(b)) > 1)
    BY DEF TwoSitesNeedStrayExit, StrayFree
  <2>1. CASE Inside(b) = {}
    BY <2>1, FS_EmptySet
  <2>2. CASE \E s : s \in Inside(b)
    <3>1. PICK s : s \in Inside(b)
      BY <2>2
    <3>2. Inside(b) = {s}
      BY <3>1, OneInside
    <3>3. Cardinality({s}) = 1
      BY FS_Singleton
    <3>4. QED
      BY <3>2, <3>3
  <2>3. QED
    BY <2>1, <2>2
<1>4. QED
  BY <1>1, <1>2, <1>3, TypeCorrect, PTL DEF Spec
=============================================================================
