---------------------------- MODULE AccessApi_proofs ----------------------------
(***************************************************************************)
(* Theorems about AccessApi for any badges, sites, gates, handlers and     *)
(* replicas, any bounds and any set of faults.                             *)
(***************************************************************************)
EXTENDS AccessApiProps, Totals_proofs, SequenceTheorems

-----------------------------------------------------------------------------
(* The keys a request touches are keys of the cache. *)

LEMMA GateTierInTiers == \A g \in Gates : GateTier(g) \in Tiers
BY GatesAssumption DEF GateIdentifiers, GateTier, Tiers

LEMMA KeysAreKeys ==
  ASSUME NEW r \in Requests
  PROVE  /\ SiteKey(r.site) \in SiteKeys
         /\ r.badge \in Badges
         /\ r.direction \in Directions
         /\ GateTier(r.gate) \in Tiers
         /\ ApbKey(r) \in ApbKeys
         /\ \A t \in Tiers : TierKey(r, t) \in ApbKeys
<1>1. SiteKey(r.site) \in SiteKeys /\ r.badge \in Badges /\ r.direction \in Directions
  BY DEF Requests, SiteKeys
<1>2. r.gate \in Gates
  BY DEF Requests
<1>3. GateTier(r.gate) \in Tiers
  BY <1>2, GateTierInTiers
<1>4. \A t \in Tiers : TierKey(r, t) \in ApbKeys
  BY <1>1 DEF TierKey, ApbKeys
<1>5. QED
  BY <1>1, <1>3, <1>4 DEF ApbKey

\* What a handler that is not idle holds.
LEMMA CurrentSwipe ==
  ASSUME TypeOK, NEW h \in Handlers, pc[h] # "idle"
  PROVE  /\ current[h] \in Swipes
         /\ Req(h) \in Requests
         /\ \A st \in Statuses : Event(h, st) \in AccessEvents
<1>1. current[h] \in Swipes
  BY DEF TypeOK, HandlersTypeOK
<1>2. QED
  BY <1>1 DEF Swipes, Req, Event, AccessEvents

-----------------------------------------------------------------------------
(* Type correctness, first of the operations the actions are made of. *)

LEMMA CommitKeepsType ==
  ASSUME CacheTypeOK, NEW k \in ApbKeys, NEW d \in Directions, NEW e \in AccessEvents,
         SetDirectionAndPublishEvent(k, d, e)
  PROVE  CacheTypeOK'
BY AppendProperties DEF CacheTypeOK, SetDirectionAndPublishEvent

LEMMA PublishKeepsType ==
  ASSUME CacheTypeOK, NEW e \in AccessEvents, PublishEvent(e)
  PROVE  CacheTypeOK'
BY AppendProperties DEF CacheTypeOK, PublishEvent

LEMMA WriteActiveSiteKeepsType ==
  ASSUME CacheTypeOK, NEW h \in Handlers, Req(h) \in Requests, WriteActiveSite(h)
  PROVE  CacheTypeOK'
<1>1. Req(h).badge \in Badges /\ SiteKey(Req(h).site) \in SiteKeys
  BY KeysAreKeys
<1>2. QED
  BY <1>1 DEF CacheTypeOK, WriteActiveSite, SetActiveSite, ClearActiveSite

LEMMA GotoKeepsType ==
  ASSUME HandlersTypeOK, NEW h \in Handlers, NEW stage \in Stages, Goto(h, stage),
         \/ UNCHANGED current /\ current[h] \in Swipes
         \/ \E s \in Swipes : current' = [current EXCEPT ![h] = s],
         stage \in {"publish", "latePublish"} => current'[h].code \in RejectCodes
  PROVE  HandlersTypeOK'
BY DEF HandlersTypeOK, Goto

LEMMA DoneKeepsType ==
  ASSUME HandlersTypeOK, NEW h \in Handlers, Done(h)
  PROVE  HandlersTypeOK'
BY DEF HandlersTypeOK, Done, Goto, Stages

LEMMA RespondKeepsType ==
  ASSUME responses \subseteq Responses, NEW n \in Nat, NEW status, NEW code,
         \/ status = "SUCCESS" /\ code = ""
         \/ status = "REJECTED_APB" /\ code \in RejectCodes
         \/ status = "ERROR" /\ code \in ErrorCodes,
         Respond(n, status, code)
  PROVE  responses' \subseteq Responses
<1>1. [swipe |-> n, status |-> status, code |-> code] \in Responses
  BY DEF Responses
<1>2. QED
  BY <1>1 DEF Respond

LEMMA FaultKeepsType ==
  ASSUME faults \in Nat, NEW kind, Fault(kind)
  PROVE  faults' \in Nat
BY DEF Fault

LEMMA CountKeepsType ==
  ASSUME NEW counter \in [Replicas -> Nat], NEW p \in Replicas
  PROVE  [counter EXCEPT ![p] = @ + 1] \in [Replicas -> Nat]
OBVIOUS

LEMMA CheckKeepsType ==
  ASSUME TypeOK, NEW h \in Handlers, pc[h] # "idle", NEW stage \in Stages,
         stage \notin {"publish", "latePublish"},
         NEW code \in RejectCodes, Reject(h, code) \/ Pass(h, stage)
  PROVE  HandlersTypeOK' /\ swipeFail' \in [Replicas -> Nat]
<1>1. current[h] \in Swipes
  BY CurrentSwipe
<1>2. CASE Pass(h, stage)
  BY <1>1, <1>2, GotoKeepsType DEF TypeOK, Pass
<1>3. CASE Reject(h, code)
  <2>1. [current[h] EXCEPT !.code = code] \in Swipes
    BY <1>1 DEF Swipes
  <2>2. /\ current' = [current EXCEPT ![h] = [current[h] EXCEPT !.code = code]]
        /\ current'[h].code = code
    BY <1>1, <1>3 DEF Reject, TypeOK, HandlersTypeOK, Swipes
  <2>3. "publish" \in Stages
    BY DEF Stages, Writing
  <2>4. HandlersTypeOK'
    BY <1>3, <2>1, <2>2, <2>3, GotoKeepsType DEF TypeOK, Reject
  <2>5. QED
    BY <1>3, <2>4, ReplicaAssumption DEF TypeOK, Reject
<1>4. QED
  BY <1>2, <1>3

LEMMA InitTypeOK == Init => TypeOK
<1> SUFFICES ASSUME Init PROVE TypeOK
  OBVIOUS
<1> USE DEF Init
<1>1. stream \in Seq(AccessEvents)
  BY EmptySeq DEF EmptyRedis
<1>2. CacheTypeOK
  BY <1>1 DEF EmptyRedis, CacheTypeOK
<1>3. HandlersTypeOK
  BY DEF HandlersTypeOK, Stages
<1>4. QED
  BY <1>2, <1>3 DEF TypeOK

\* Every step of a handler that serves a request keeps the types.
LEMMA HandlerStepTypeOK ==
  ASSUME TypeOK, NEW h \in Handlers, HandlerStep(h)
  PROVE  TypeOK'
<1>1. pc[h] # "idle"
  BY DEF HandlerStep, CrossSiteCheck, TierCheck, ApbCheck, ReadFails,
     PublishRejection, PublishRepeats, CommitSwipe, UpdateActiveSite, WriteFails,
     LateWrite, LateWriteLost, Reading, Writing, Late
<1>2. /\ current[h] \in Swipes
      /\ Req(h) \in Requests
      /\ \A st \in Statuses : Event(h, st) \in AccessEvents
  BY <1>1, CurrentSwipe
<1>3. /\ current[h].swipe \in Nat
      /\ current[h].code \in RejectCodes \cup {""}
  BY <1>2 DEF Swipes
<1>4. ReplicaOf[h] \in Replicas
  BY ReplicaAssumption
<1>5. ApbKey(Req(h)) \in ApbKeys /\ Req(h).direction \in Directions
  BY <1>2, KeysAreKeys
<1>6. Event(h, "SUCCESS") \in AccessEvents /\ Event(h, "REJECTED_APB") \in AccessEvents
  BY <1>2 DEF Statuses
<1>7. CASE ReadFails(h)
  <2>1. responses' \subseteq Responses
    BY <1>3, <1>7, RespondKeepsType DEF ReadFails, Answer, TypeOK, ErrorCodes
  <2>2. HandlersTypeOK'
    BY <1>7, DoneKeepsType DEF ReadFails, TypeOK
  <2>3. QED
    BY <1>7, <2>1, <2>2, FaultKeepsType DEF ReadFails, TypeOK, CacheTypeOK, redisVars
<1>8. CASE CrossSiteCheck(h)
  BY <1>1, <1>8, CheckKeepsType
     DEF CrossSiteCheck, TypeOK, CacheTypeOK, redisVars, Stages, Reading, RejectCodes
<1>9. CASE TierCheck(h)
  BY <1>1, <1>9, CheckKeepsType
     DEF TierCheck, TypeOK, CacheTypeOK, redisVars, Stages, Reading, RejectCodes
<1>10. CASE ApbCheck(h)
  <2>1. "commit" \in Stages /\ "ERR_ANTI_PASSBACK" \in RejectCodes
    BY DEF Stages, Writing, RejectCodes
  <2>2. HandlersTypeOK' /\ swipeFail' \in [Replicas -> Nat]
    BY <1>1, <1>10, <2>1, CheckKeepsType DEF ApbCheck
  <2>3. QED
    BY <1>10, <2>2 DEF ApbCheck, TypeOK, CacheTypeOK, redisVars
<1>11. CASE PublishRejection(h)
  <2>1. CacheTypeOK'
    BY <1>6, <1>11, PublishKeepsType DEF PublishRejection, TypeOK
  <2>2. HandlersTypeOK'
    BY <1>11, DoneKeepsType DEF PublishRejection, TypeOK
  <2>3. current[h].code \in RejectCodes
    BY <1>11 DEF PublishRejection, TypeOK, HandlersTypeOK
  <2>4. responses' \subseteq Responses
    BY <1>3, <1>11, <2>3, RespondKeepsType DEF PublishRejection, Answer, TypeOK
  <2>5. QED
    BY <1>11, <2>1, <2>2, <2>4 DEF PublishRejection, TypeOK
<1>12. CASE PublishRepeats(h)
  <2>1. CacheTypeOK'
    BY <1>6, <1>12, PublishKeepsType DEF PublishRepeats, TypeOK
  <2>2. QED
    BY <1>12, <2>1, FaultKeepsType DEF PublishRepeats, TypeOK, HandlersTypeOK
<1>13. CASE CommitSwipe(h)
  <2>1. CacheTypeOK'
    BY <1>5, <1>6, <1>13, CommitKeepsType DEF CommitSwipe, TypeOK
  <2>2. swipeOK' \in [Replicas -> Nat]
    BY <1>4, <1>13, CountKeepsType DEF CommitSwipe, TypeOK
  <2>3. CASE Tier(h) = 1
    <3>1. HandlersTypeOK'
      BY <1>2, <1>13, <2>3, GotoKeepsType DEF CommitSwipe, TypeOK, Stages, Writing
    <3>2. QED
      BY <1>13, <2>1, <2>2, <2>3, <3>1 DEF CommitSwipe, TypeOK
  <2>4. CASE Tier(h) # 1
    <3>1. HandlersTypeOK'
      BY <1>13, <2>4, DoneKeepsType DEF CommitSwipe, TypeOK
    <3>2. responses' \subseteq Responses
      BY <1>3, <1>13, <2>4, RespondKeepsType DEF CommitSwipe, Answer, TypeOK
    <3>3. QED
      BY <1>13, <2>1, <2>2, <2>4, <3>1, <3>2 DEF CommitSwipe, TypeOK
  <2>5. QED
    BY <2>3, <2>4
<1>14. CASE UpdateActiveSite(h)
  <2>1. CacheTypeOK'
    BY <1>2, <1>14, WriteActiveSiteKeepsType DEF UpdateActiveSite, TypeOK
  <2>2. HandlersTypeOK'
    BY <1>14, DoneKeepsType DEF UpdateActiveSite, TypeOK
  <2>3. responses' \subseteq Responses
    BY <1>3, <1>14, RespondKeepsType DEF UpdateActiveSite, Answer, TypeOK
  <2>4. QED
    BY <1>14, <2>1, <2>2, <2>3 DEF UpdateActiveSite, TypeOK
<1>15. CASE WriteFails(h)
  <2>1. LateOf(pc[h]) \in Stages
    BY <1>15 DEF WriteFails, LateOf, Stages, Writing, Late
  <2>2. HandlersTypeOK'
    <3>1. LateOf(pc[h]) \in {"publish", "latePublish"} => current[h].code \in RejectCodes
      BY <1>15 DEF WriteFails, LateOf, Writing, TypeOK, HandlersTypeOK
    <3>2. QED
      BY <1>2, <1>15, <2>1, <3>1, GotoKeepsType DEF WriteFails, TypeOK
  <2>3. responses' \subseteq Responses
    BY <1>3, <1>15, RespondKeepsType DEF WriteFails, Answer, TypeOK, ErrorCodes
  <2>4. QED
    BY <1>15, <2>2, <2>3, FaultKeepsType DEF WriteFails, TypeOK, CacheTypeOK, redisVars
<1>16. CASE LateWrite(h)
  <2>1. CacheTypeOK'
    BY <1>2, <1>5, <1>6, <1>16, CommitKeepsType, PublishKeepsType, WriteActiveSiteKeepsType
       DEF LateWrite, TypeOK
  <2>2. HandlersTypeOK'
    BY <1>16, DoneKeepsType DEF LateWrite, TypeOK
  <2>3. QED
    BY <1>16, <2>1, <2>2 DEF LateWrite, TypeOK
<1>17. CASE LateWriteLost(h)
  BY <1>17, DoneKeepsType DEF LateWriteLost, TypeOK, CacheTypeOK, redisVars
<1>18. QED
  BY <1>7, <1>8, <1>9, <1>10, <1>11, <1>12, <1>13, <1>14, <1>15, <1>16, <1>17
     DEF HandlerStep

LEMMA NextTypeOK == TypeOK /\ [Next]_vars => TypeOK'
<1> SUFFICES ASSUME TypeOK, [Next]_vars PROVE TypeOK'
  OBVIOUS
<1>1. ASSUME NEW h \in Handlers, BadRequest(h) PROVE TypeOK'
  <2>1. received + 1 \in Nat
    BY DEF TypeOK
  <2>2. responses' \subseteq Responses
    BY <1>1, <2>1, RespondKeepsType DEF BadRequest, TypeOK, ErrorCodes
  <2>3. QED
    BY <1>1, <2>1, <2>2 DEF BadRequest, TypeOK, CacheTypeOK, HandlersTypeOK, redisVars
<1>2. ASSUME NEW h \in Handlers, NEW r \in Requests, Receive(h, r) PROVE TypeOK'
  <2>1. FirstCheck(r) \in Reading
    BY DEF FirstCheck, Reading
  <2>2. FirstCheck(r) \in Stages /\ FirstCheck(r) \notin {"publish", "latePublish"}
    BY <2>1 DEF Stages, Reading
  <2>3. received + 1 \in Nat
    BY DEF TypeOK
  <2>4. [swipe |-> received + 1, req |-> r, code |-> ""] \in Swipes
    BY <2>3 DEF Swipes
  <2>5. HandlersTypeOK'
    BY <1>2, <2>2, <2>4, GotoKeepsType DEF TypeOK, Receive
  <2>6. QED
    BY <1>2, <2>3, <2>5 DEF TypeOK, Receive, CacheTypeOK, redisVars
<1>3. ASSUME NEW h \in Handlers, HandlerStep(h) PROVE TypeOK'
  BY <1>3, HandlerStepTypeOK
<1>4. ASSUME NEW p \in Replicas, Crash(p) PROVE TypeOK'
  <2>1. \A stage \in Stages : AfterCrash(stage) \in Stages
    BY DEF AfterCrash, Stages, Writing, Late, LateOf
  <2>2. /\ AfterCrash("idle") = "idle"
        /\ \A stage \in Stages : AfterCrash(stage) # "publish"
        /\ \A stage \in Stages : AfterCrash(stage) = "latePublish" =>
                                  stage \in {"publish", "latePublish"}
    BY DEF AfterCrash, Stages, Reading, Writing, Late, LateOf
  <2>3. HandlersTypeOK'
    BY <1>4, <2>1, <2>2 DEF TypeOK, HandlersTypeOK, Crash
  <2>4. QED
    BY <1>4, <2>3, FaultKeepsType DEF TypeOK, Crash, CacheTypeOK, redisVars
<1>5. CASE RedisDropsKey
  BY <1>5, FaultKeepsType DEF TypeOK, CacheTypeOK, HandlersTypeOK, RedisDropsKey, DropApbKey,
     DropActiveSite, ClearActiveSite
<1>6. CASE UNCHANGED vars
  BY <1>6 DEF TypeOK, CacheTypeOK, HandlersTypeOK, vars, redisVars, apiVars
<1>7. QED
  BY <1>1, <1>2, <1>3, <1>4, <1>5, <1>6 DEF Next

\* The variables keep their types in every behaviour.
THEOREM TypeCorrect == Spec => []TypeOK
BY InitTypeOK, NextTypeOK, PTL DEF Spec

-----------------------------------------------------------------------------
(* What a step can do to Redis, whatever the handlers do meanwhile. *)

LEMMA RedisSteps ==
  ASSUME [Next]_vars
  PROVE  \/ UNCHANGED redisVars
         \/ \E h \in Handlers : /\ pc[h] \in {"publish", "latePublish"}
                                /\ PublishEvent(Event(h, "REJECTED_APB"))
         \/ \E h \in Handlers : /\ pc[h] \in {"commit", "lateCommit"}
                                /\ SetDirectionAndPublishEvent(ApbKey(Req(h)), Req(h).direction,
                                                               Event(h, "SUCCESS"))
         \/ \E h \in Handlers : /\ pc[h] \in {"setActive", "lateSetActive"}
                                /\ WriteActiveSite(h)
         \/ RedisDropsKey
<1>1. ASSUME NEW h \in Handlers, BadRequest(h) PROVE UNCHANGED redisVars
  BY <1>1 DEF BadRequest
<1>2. ASSUME NEW h \in Handlers, NEW r \in Requests, Receive(h, r) PROVE UNCHANGED redisVars
  BY <1>2 DEF Receive
<1>3. ASSUME NEW p \in Replicas, Crash(p) PROVE UNCHANGED redisVars
  BY <1>3 DEF Crash
<1>4. ASSUME NEW h \in Handlers,
             CrossSiteCheck(h) \/ TierCheck(h) \/ ApbCheck(h) \/ ReadFails(h)
             \/ WriteFails(h) \/ LateWriteLost(h)
      PROVE  UNCHANGED redisVars
  BY <1>4 DEF CrossSiteCheck, TierCheck, ApbCheck, ReadFails, WriteFails, LateWriteLost
<1>5. CASE UNCHANGED vars
  BY <1>5 DEF vars
<1>6. ASSUME NEW h \in Handlers, HandlerStep(h) PROVE
        \/ UNCHANGED redisVars
        \/ pc[h] \in {"publish", "latePublish"} /\ PublishEvent(Event(h, "REJECTED_APB"))
        \/ /\ pc[h] \in {"commit", "lateCommit"}
           /\ SetDirectionAndPublishEvent(ApbKey(Req(h)), Req(h).direction, Event(h, "SUCCESS"))
        \/ pc[h] \in {"setActive", "lateSetActive"} /\ WriteActiveSite(h)
  BY <1>4, <1>6 DEF HandlerStep, PublishRejection, PublishRepeats, CommitSwipe,
     UpdateActiveSite, LateWrite
<1>7. QED
  BY <1>1, <1>2, <1>3, <1>5, <1>6 DEF Next

LEMMA OldEntry ==
  ASSUME NEW n \in Nat, NEW j \in 1..(n + 1), j # n + 1
  PROVE  j \in 1..n
OBVIOUS

\* The stream after an append, entry by entry.
LEMMA Appended ==
  ASSUME CacheTypeOK, NEW e \in AccessEvents, stream' = Append(stream, e)
  PROVE  /\ DOMAIN stream = 1..Len(stream)
         /\ DOMAIN stream' = 1..(Len(stream) + 1)
         /\ Len(stream) \in Nat
         /\ stream'[Len(stream) + 1] = e
         /\ \A i \in DOMAIN stream : i \in DOMAIN stream' /\ stream'[i] = stream[i]
<1>1. stream \in Seq(AccessEvents)
  BY DEF CacheTypeOK
<1>2. stream' \in Seq(AccessEvents) /\ Len(stream') = Len(stream) + 1
  BY <1>1, AppendProperties
<1>3. QED
  BY <1>1, <1>2, AppendProperties, LenProperties

\* Entries are never taken back or changed.
LEMMA StreamGrows ==
  ASSUME TypeOK, [Next]_vars
  PROVE  \A i \in DOMAIN stream : i \in DOMAIN stream' /\ stream'[i] = stream[i]
<1>1. CASE stream' = stream
  BY <1>1
<1>2. ASSUME NEW h \in Handlers, pc[h] # "idle", NEW st \in Statuses,
             stream' = Append(stream, Event(h, st))
      PROVE  \A i \in DOMAIN stream : i \in DOMAIN stream' /\ stream'[i] = stream[i]
  BY <1>2, CurrentSwipe, Appended DEF TypeOK
<1>3. QED
  BY <1>1, <1>2, RedisSteps DEF redisVars, PublishEvent, SetDirectionAndPublishEvent, Statuses,
     WriteActiveSite, SetActiveSite, ClearActiveSite, RedisDropsKey, DropApbKey, DropActiveSite

-----------------------------------------------------------------------------
(* The gate's state agrees with the audit trail. *)

\* A step that only drops keys.
LEMMA ApbMatchesSameStream ==
  ASSUME ApbMatchesStream, stream' = stream, \A k \in ApbKeys : apb'[k] \in {"", apb[k]}
  PROVE  ApbMatchesStream'
<1> SUFFICES ASSUME NEW k \in ApbKeys, apb'[k] # ""
             PROVE  \E i \in DOMAIN stream' :
                      /\ GrantedFor(k, i)'
                      /\ stream'[i].req.direction = apb'[k]
                      /\ \A j \in DOMAIN stream' : j > i => ~GrantedFor(k, j)'
  BY DEF ApbMatchesStream
<1>1. apb'[k] = apb[k]
  OBVIOUS
<1>2. PICK i \in DOMAIN stream :
        /\ GrantedFor(k, i)
        /\ stream[i].req.direction = apb[k]
        /\ \A j \in DOMAIN stream : j > i => ~GrantedFor(k, j)
  BY <1>1 DEF ApbMatchesStream
<1>3. \A j \in DOMAIN stream : GrantedFor(k, j)' <=> GrantedFor(k, j)
  BY DEF GrantedFor, Granted
<1>4. QED
  BY <1>1, <1>2, <1>3

\* An entry that is not a grant for key k leaves the last grant for k in place.
LEMMA ApbMatchesOtherAppend ==
  ASSUME TypeOK, ApbMatchesStream, NEW e \in AccessEvents, stream' = Append(stream, e),
         NEW k \in ApbKeys, apb[k] # "", e.status # "SUCCESS" \/ ApbKey(e.req) # k
  PROVE  \E i \in DOMAIN stream' :
           /\ GrantedFor(k, i)'
           /\ stream'[i].req.direction = apb[k]
           /\ \A j \in DOMAIN stream' : j > i => ~GrantedFor(k, j)'
<1> USE DEF GrantedFor, Granted
<1>1. PICK i \in DOMAIN stream :
        /\ GrantedFor(k, i)
        /\ stream[i].req.direction = apb[k]
        /\ \A j \in DOMAIN stream : j > i => ~GrantedFor(k, j)
  BY DEF ApbMatchesStream
<1>2. /\ DOMAIN stream = 1..Len(stream)
      /\ DOMAIN stream' = 1..(Len(stream) + 1)
      /\ Len(stream) \in Nat
      /\ stream'[Len(stream) + 1] = e
      /\ \A j \in DOMAIN stream : j \in DOMAIN stream' /\ stream'[j] = stream[j]
  BY Appended DEF TypeOK
<1>3. i \in DOMAIN stream' /\ GrantedFor(k, i)' /\ stream'[i].req.direction = apb[k]
  BY <1>1, <1>2
<1>4. ASSUME NEW j \in DOMAIN stream', j > i PROVE ~GrantedFor(k, j)'
  <2>1. CASE j = Len(stream) + 1
    BY <1>2, <2>1
  <2>2. CASE j # Len(stream) + 1
    <3>1. j \in 1..Len(stream)
      BY <1>2, <2>2, OldEntry
    <3>2. j \in DOMAIN stream
      BY <1>2, <3>1
    <3>3. QED
      BY <1>1, <1>2, <1>4, <3>2
  <2>3. QED
    BY <2>1, <2>2
<1>5. QED
  BY <1>3, <1>4

LEMMA ApbMatchesStreamStep ==
  ASSUME TypeOK, ApbMatchesStream, [Next]_vars
  PROVE  ApbMatchesStream'
<1>1. CASE UNCHANGED redisVars
  BY <1>1, ApbMatchesSameStream DEF redisVars
<1>2. ASSUME NEW h \in Handlers, pc[h] \in {"publish", "latePublish"},
             PublishEvent(Event(h, "REJECTED_APB"))
      PROVE  ApbMatchesStream'
  <2> DEFINE e == Event(h, "REJECTED_APB")
  <2>1. e \in AccessEvents /\ e.status = "REJECTED_APB"
    BY <1>2, CurrentSwipe DEF Statuses, Event
  <2>2. stream' = Append(stream, e) /\ apb' = apb
    BY <1>2 DEF PublishEvent
  <2> HIDE DEF e
  <2>3. QED
    BY <2>1, <2>2, ApbMatchesOtherAppend DEF ApbMatchesStream
<1>3. ASSUME NEW h \in Handlers, pc[h] \in {"commit", "lateCommit"},
             SetDirectionAndPublishEvent(ApbKey(Req(h)), Req(h).direction, Event(h, "SUCCESS"))
      PROVE  ApbMatchesStream'
  <2> DEFINE e == Event(h, "SUCCESS")
             k0 == ApbKey(e.req)
  <2>1. e \in AccessEvents /\ e.status = "SUCCESS" /\ e.req = Req(h) /\ Req(h) \in Requests
    BY <1>3, CurrentSwipe DEF Statuses, Event
  <2>2. stream' = Append(stream, e) /\ apb' = [apb EXCEPT ![k0] = e.req.direction]
    BY <1>3, <2>1 DEF SetDirectionAndPublishEvent
  <2> HIDE DEF e
  <2>3. ASSUME NEW k \in ApbKeys, apb'[k] # ""
        PROVE  \E i \in DOMAIN stream' :
                 /\ GrantedFor(k, i)'
                 /\ stream'[i].req.direction = apb'[k]
                 /\ \A j \in DOMAIN stream' : j > i => ~GrantedFor(k, j)'
    <3>1. CASE k = k0
      <4>1. apb'[k] = e.req.direction
        BY <2>2, <3>1 DEF TypeOK, CacheTypeOK
      <4>2. PICK n \in Nat : DOMAIN stream' = 1..n /\ n \in 1..n /\ stream'[n] = e
        BY <2>1, <2>2, Appended DEF TypeOK
      <4>3. GrantedFor(k, n)'
        BY <2>1, <3>1, <4>2 DEF GrantedFor, Granted
      <4>4. \A j \in DOMAIN stream' : ~(j > n)
        BY <4>2
      <4>5. QED
        BY <4>1, <4>2, <4>3, <4>4
    <3>2. CASE k # k0
      <4>1. apb'[k] = apb[k]
        BY <2>2, <3>2 DEF TypeOK, CacheTypeOK
      <4>2. QED
        BY <2>1, <2>2, <2>3, <3>2, <4>1, ApbMatchesOtherAppend
    <3>3. QED
      BY <3>1, <3>2
  <2>4. QED
    BY <2>3 DEF ApbMatchesStream
<1>4. ASSUME NEW h \in Handlers, WriteActiveSite(h) PROVE ApbMatchesStream'
  BY <1>4, ApbMatchesSameStream DEF WriteActiveSite, SetActiveSite, ClearActiveSite
<1>5. CASE RedisDropsKey
  <2>1. stream' = stream /\ \A k \in ApbKeys : apb'[k] \in {"", apb[k]}
    BY <1>5 DEF RedisDropsKey, DropApbKey, DropActiveSite, ClearActiveSite, TypeOK, CacheTypeOK
  <2>2. QED
    BY <2>1, ApbMatchesSameStream
<1>6. QED
  BY <1>1, <1>2, <1>3, <1>4, <1>5, RedisSteps

\* Whatever interleaves, is delayed or fails, a recorded direction is that of
\* the last granted swipe in the event stream (SetDirectionAndPublishEvent).
THEOREM ApbAgreesWithStream == Spec => []ApbMatchesStream
<1>1. Init => ApbMatchesStream
  BY DEF Init, EmptyRedis, ApbMatchesStream
<1>2. QED
  BY <1>1, TypeCorrect, ApbMatchesStreamStep, PTL DEF Spec

-----------------------------------------------------------------------------
(* Badges are moved by grants. *)

MovedByGrant(k) ==
  \/ apb'[k] = "" /\ faults' = faults + 1
  \/ /\ Len(stream') = Len(stream) + 1
     /\ stream'[Len(stream')].status = "SUCCESS"
     /\ ApbKey(stream'[Len(stream')].req) = k
     /\ apb'[k] = stream'[Len(stream')].req.direction

LEMMA MoveStep ==
  ASSUME TypeOK, [Next]_vars, NEW k \in ApbKeys, apb'[k] # apb[k]
  PROVE  MovedByGrant(k)
<1>1. CASE apb' = apb
  BY <1>1
<1>2. ASSUME NEW h \in Handlers, pc[h] \in {"commit", "lateCommit"},
             SetDirectionAndPublishEvent(ApbKey(Req(h)), Req(h).direction, Event(h, "SUCCESS"))
      PROVE  MovedByGrant(k)
  <2> DEFINE e == Event(h, "SUCCESS")
  <2>1. e \in AccessEvents /\ e.status = "SUCCESS" /\ e.req = Req(h)
    BY <1>2, CurrentSwipe DEF Statuses, Event
  <2>2. stream' = Append(stream, e) /\ apb' = [apb EXCEPT ![ApbKey(e.req)] = e.req.direction]
    BY <1>2, <2>1 DEF SetDirectionAndPublishEvent
  <2> HIDE DEF e
  <2>3. ApbKey(e.req) = k /\ apb'[k] = e.req.direction
    BY <2>2 DEF TypeOK, CacheTypeOK
  <2>4. stream \in Seq(AccessEvents)
    BY DEF TypeOK, CacheTypeOK
  <2>5. Len(stream') = Len(stream) + 1 /\ stream'[Len(stream')] = e
    BY <2>1, <2>2, <2>4, AppendProperties
  <2>6. QED
    BY <2>1, <2>3, <2>5 DEF MovedByGrant
<1>3. CASE RedisDropsKey
  <2>1. faults' = faults + 1
    BY <1>3 DEF RedisDropsKey, Fault
  <2>2. apb'[k] = ""
    BY <1>3 DEF RedisDropsKey, DropApbKey, DropActiveSite, ClearActiveSite, TypeOK, CacheTypeOK
  <2>3. QED
    BY <2>1, <2>2 DEF MovedByGrant
<1>4. QED
  BY <1>1, <1>2, <1>3, RedisSteps
     DEF redisVars, PublishEvent, WriteActiveSite, SetActiveSite, ClearActiveSite

\* No step of any handler, no late or repeated write and no crash changes a
\* recorded direction except by the commit of a granted swipe of that badge
\* at that tier (SetDirectionAndPublishEvent); Redis may drop it.
THEOREM GrantsMoveBadges == Spec => OnlyGrantsMoveBadges
<1>1. TypeOK /\ [Next]_vars =>
        [\A k \in ApbKeys : apb'[k] # apb[k] =>
           \/ apb'[k] = "" /\ faults' = faults + 1
           \/ /\ Len(stream') = Len(stream) + 1
              /\ stream'[Len(stream')].status = "SUCCESS"
              /\ ApbKey(stream'[Len(stream')].req) = k
              /\ apb'[k] = stream'[Len(stream')].req.direction]_vars
  BY MoveStep DEF MovedByGrant
<1>2. QED
  BY <1>1, TypeCorrect, PTL DEF Spec, OnlyGrantsMoveBadges

-----------------------------------------------------------------------------
(* What was answered is recorded.  The invariant adds that a handler about  *)
(* to update active_site has committed its swipe.                           *)

Recorded(n, status) ==
  \E i \in DOMAIN stream : stream[i].swipe = n /\ stream[i].status = status

CommitsAreRecorded ==
  \A h \in Handlers : pc[h] = "setActive" => Recorded(current[h].swipe, "SUCCESS")

LEMMA RecordedStays ==
  ASSUME TypeOK, [Next]_vars, NEW n, NEW status, Recorded(n, status)
  PROVE  Recorded(n, status)'
BY StreamGrows DEF Recorded

\* A handler that appends an event to the stream has recorded it.
LEMMA AppendRecords ==
  ASSUME TypeOK, NEW h \in Handlers, pc[h] # "idle", NEW status \in Statuses,
         stream' = Append(stream, Event(h, status)), NEW n, n = current[h].swipe
  PROVE  Recorded(n, status)'
<1>1. Event(h, status) \in AccessEvents
  BY CurrentSwipe
<1>2. Event(h, status).swipe = n /\ Event(h, status).status = status
  BY DEF Event
<1>3. PICK i \in DOMAIN stream' : stream'[i] = Event(h, status)
  <2>1. Len(stream) + 1 \in DOMAIN stream' /\ stream'[Len(stream) + 1] = Event(h, status)
    BY <1>1, Appended DEF TypeOK
  <2>2. QED
    BY <2>1
<1>4. QED
  BY <1>2, <1>3 DEF Recorded

\* Every answer but an error is of a swipe recorded by then.
LEMMA NewAnswers ==
  ASSUME TypeOK, CommitsAreRecorded, [Next]_vars, NEW a \in responses', a \notin responses,
         a.status # "ERROR"
  PROVE  Recorded(a.swipe, a.status)'
<1>1. ASSUME NEW h \in Handlers, BadRequest(h) \/ ReadFails(h) PROVE FALSE
  BY <1>1 DEF BadRequest, ReadFails, Answer, Respond
<1>2. ASSUME NEW h \in Handlers, PublishRejection(h) PROVE Recorded(a.swipe, a.status)'
  <2>1. a.swipe = current[h].swipe /\ a.status = "REJECTED_APB"
    BY <1>2 DEF PublishRejection, Answer, Respond
  <2>2. stream' = Append(stream, Event(h, "REJECTED_APB")) /\ pc[h] # "idle"
    BY <1>2 DEF PublishRejection, PublishEvent
  <2>3. QED
    BY <2>1, <2>2, AppendRecords DEF Statuses
<1>3. ASSUME NEW h \in Handlers, CommitSwipe(h) PROVE Recorded(a.swipe, a.status)'
  <2>1. responses' = responses \/ Answer(h, "SUCCESS", "")
    BY <1>3 DEF CommitSwipe
  <2>2. a = [swipe |-> current[h].swipe, status |-> "SUCCESS", code |-> ""]
    BY <2>1 DEF Answer, Respond
  <2>3. stream' = Append(stream, Event(h, "SUCCESS")) /\ pc[h] # "idle"
    BY <1>3 DEF CommitSwipe, SetDirectionAndPublishEvent
  <2>4. QED
    BY <2>2, <2>3, AppendRecords DEF Statuses
<1>4. ASSUME NEW h \in Handlers, UpdateActiveSite(h) \/ WriteFails(h)
      PROVE  Recorded(a.swipe, a.status)'
  <2>1. pc[h] = "setActive" /\ Answer(h, "SUCCESS", "")
    <3>1. CASE UpdateActiveSite(h)
      BY <3>1 DEF UpdateActiveSite
    <3>2. CASE WriteFails(h) /\ pc[h] = "setActive"
      BY <3>2 DEF WriteFails
    <3>3. CASE WriteFails(h) /\ pc[h] # "setActive"
      <4>1. Answer(h, "ERROR", "ERR_SYSTEM_UNAVAILABLE")
        BY <3>3 DEF WriteFails
      <4>2. a.status = "ERROR"
        BY <4>1 DEF Answer, Respond
      <4>3. QED
        BY <4>2
    <3>4. QED
      BY <1>4, <3>1, <3>2, <3>3
  <2>2. a = [swipe |-> current[h].swipe, status |-> "SUCCESS", code |-> ""]
    BY <2>1 DEF Answer, Respond
  <2>3. QED
    BY <2>1, <2>2, RecordedStays DEF CommitsAreRecorded
<1>5. ASSUME NEW h \in Handlers, CrossSiteCheck(h) \/ TierCheck(h) \/ ApbCheck(h)
                                 \/ PublishRepeats(h) \/ LateWrite(h) \/ LateWriteLost(h)
      PROVE  FALSE
  BY <1>5 DEF CrossSiteCheck, TierCheck, ApbCheck, PublishRepeats, LateWrite, LateWriteLost
<1>6. ASSUME NEW h \in Handlers, NEW r \in Requests, Receive(h, r) PROVE FALSE
  BY <1>6 DEF Receive
<1>7. ASSUME NEW p \in Replicas, Crash(p) PROVE FALSE
  BY <1>7 DEF Crash
<1>8. ~ RedisDropsKey /\ ~ UNCHANGED vars
  BY DEF RedisDropsKey, vars, apiVars
<1>9. QED
  BY <1>1, <1>2, <1>3, <1>4, <1>5, <1>6, <1>7, <1>8 DEF Next, HandlerStep

\* Who enters the stage of the active_site update has just committed.
LEMMA CommitsStep ==
  ASSUME TypeOK, CommitsAreRecorded, [Next]_vars
  PROVE  CommitsAreRecorded'
<1> SUFFICES ASSUME NEW h \in Handlers, pc'[h] = "setActive"
             PROVE  Recorded(current[h].swipe, "SUCCESS")'
  BY DEF CommitsAreRecorded
<1>1. pc \in [Handlers -> Stages] /\ current \in [Handlers -> Swipes \cup {NoSwipe}]
  BY DEF TypeOK, HandlersTypeOK
<1>2. CASE pc[h] = "setActive" /\ current'[h] = current[h]
  <2>1. PICK n : n = current[h].swipe
    OBVIOUS
  <2>2. Recorded(n, "SUCCESS")'
    BY <1>2, <2>1, RecordedStays DEF CommitsAreRecorded
  <2>3. QED
    BY <1>2, <2>1, <2>2
<1>3. CASE CommitSwipe(h)
  <2>1. stream' = Append(stream, Event(h, "SUCCESS")) /\ pc[h] # "idle"
    BY <1>3 DEF CommitSwipe, SetDirectionAndPublishEvent
  <2>2. current'[h] = current[h]
    BY <1>1, <1>3 DEF CommitSwipe, Done, Goto
  <2>3. PICK n : n = current[h].swipe
    OBVIOUS
  <2>4. Recorded(n, "SUCCESS")'
    BY <2>1, <2>3, AppendRecords DEF Statuses
  <2>5. QED
    BY <2>2, <2>3, <2>4
<1>4. (pc[h] = "setActive" /\ current'[h] = current[h]) \/ CommitSwipe(h)
  <2> USE <1>1 DEF Goto, Done
  <2>1. ASSUME NEW g \in Handlers, BadRequest(g) PROVE <1>4!1
    BY <2>1 DEF BadRequest
  <2>2. ASSUME NEW g \in Handlers, NEW r \in Requests, Receive(g, r) PROVE <1>4!1
    BY <2>2 DEF Receive, FirstCheck
  <2>3. ASSUME NEW g \in Handlers, CrossSiteCheck(g) \/ TierCheck(g) \/ ApbCheck(g) PROVE <1>4!1
    BY <2>3 DEF CrossSiteCheck, TierCheck, ApbCheck, Pass, Reject
  <2>4. ASSUME NEW g \in Handlers, ReadFails(g) \/ PublishRejection(g) \/ PublishRepeats(g)
                                   \/ UpdateActiveSite(g) \/ LateWrite(g) \/ LateWriteLost(g)
        PROVE  <1>4!1
    BY <2>4 DEF ReadFails, PublishRejection, PublishRepeats, UpdateActiveSite, LateWrite, LateWriteLost
  <2>5. ASSUME NEW g \in Handlers, WriteFails(g) PROVE <1>4!1
    BY <2>5 DEF WriteFails, LateOf, Writing
  <2>6. ASSUME NEW g \in Handlers, CommitSwipe(g), g # h PROVE <1>4!1
    BY <2>6 DEF CommitSwipe
  <2>7. ASSUME NEW p \in Replicas, Crash(p) PROVE <1>4!1
    BY <2>7 DEF Crash, AfterCrash, LateOf, Writing, Late
  <2>8. CASE RedisDropsKey \/ UNCHANGED vars
    BY <2>8 DEF RedisDropsKey, vars, apiVars
  <2>9. QED
    BY <2>1, <2>2, <2>3, <2>4, <2>5, <2>6, <2>7, <2>8 DEF Next, HandlerStep
<1>5. QED
  BY <1>2, <1>3, <1>4

\* Every swipe answered 200 or 403 has its event in the stream with that
\* status, for any interleaving and any faults: publishSwipeEvent and
\* commitSuccessfulSwipe fail closed.
THEOREM AnswersRecorded == Spec => []AnswersAreRecorded
<1> DEFINE Inv == AnswersAreRecorded /\ CommitsAreRecorded
<1>1. Init => Inv
  BY DEF Init, AnswersAreRecorded, CommitsAreRecorded
<1>2. TypeOK /\ Inv /\ [Next]_vars => Inv'
  <2> SUFFICES ASSUME TypeOK, AnswersAreRecorded, CommitsAreRecorded, [Next]_vars
               PROVE  AnswersAreRecorded' /\ CommitsAreRecorded'
    OBVIOUS
  <2>1. ASSUME NEW a \in responses', a.status # "ERROR" PROVE Recorded(a.swipe, a.status)'
    <3>1. CASE a \in responses
      <4>1. Recorded(a.swipe, a.status)
        BY <2>1, <3>1 DEF AnswersAreRecorded, Recorded
      <4>2. QED
        BY <4>1, RecordedStays
    <3>2. CASE a \notin responses
      BY <2>1, <3>2, NewAnswers
    <3>3. QED
      BY <3>1, <3>2
  <2>2. AnswersAreRecorded'
    BY <2>1 DEF AnswersAreRecorded, Recorded
  <2>3. QED
    BY <2>2, CommitsStep
<1>3. QED
  BY <1>1, <1>2, TypeCorrect, PTL DEF Spec

-----------------------------------------------------------------------------
(***************************************************************************)
(* Theorems about the history of swipes AccessApi leaves in the stream,    *)
(* for any constants, any interleaving of handlers and any faults: what    *)
(* a check found is still on record when the handler acts on it.           *)
(***************************************************************************)

-----------------------------------------------------------------------------
(* How a handler gets where it is, and who writes to the stream.            *)

LEMMA NothingAtFirst ==
  ASSUME Init
  PROVE  DOMAIN stream = {} /\ \A h \in Handlers : pc[h] = "idle"
<1>1. stream \in Seq({}) /\ Len(stream) = 0
  BY EmptySeq DEF Init, EmptyRedis
<1>2. DOMAIN stream = 1..0
  BY <1>1, LenProperties
<1>3. QED
  BY <1>2 DEF Init

\* Between two Redis calls a handler keeps its request: it has just received
\* it, or it comes from the stage before with the same swipe.
LEMMA HandlerMoves ==
  ASSUME TypeOK, [Next]_vars, NEW h \in Handlers, pc'[h] # "idle"
  PROVE  \/ \E r \in Requests : Receive(h, r)
         \/ /\ pc[h] # "idle"
            /\ current'[h].swipe = current[h].swipe
            /\ current'[h].req = current[h].req
            /\ \/ pc'[h] = pc[h]
               \/ CrossSiteCheck(h) \/ TierCheck(h) \/ ApbCheck(h) \/ CommitSwipe(h)
               \/ pc[h] \in Writing /\ pc'[h] = LateOf(pc[h])
<1>1. pc \in [Handlers -> Stages] /\ current \in [Handlers -> Swipes \cup {NoSwipe}]
  BY DEF TypeOK, HandlersTypeOK
<1> USE <1>1 DEF Goto, Done
<1>2. ASSUME NEW g \in Handlers, BadRequest(g) PROVE pc' = pc /\ current' = current
  BY <1>2 DEF BadRequest
<1>3. ASSUME NEW g \in Handlers, NEW r \in Requests, Receive(g, r), g # h
      PROVE  pc'[h] = pc[h] /\ current'[h] = current[h]
  BY <1>3 DEF Receive
<1>4. ASSUME NEW g \in Handlers, CrossSiteCheck(g) \/ TierCheck(g) \/ ApbCheck(g)
      PROVE  /\ g # h => pc'[h] = pc[h] /\ current'[h] = current[h]
             /\ g = h => /\ pc[h] # "idle"
                         /\ current'[h].swipe = current[h].swipe
                         /\ current'[h].req = current[h].req
  <2>1. current[g] \in Swipes
    BY <1>4 DEF TypeOK, HandlersTypeOK, CrossSiteCheck, TierCheck, ApbCheck
  <2>2. \E code : Reject(g, code) \/ \E st : Pass(g, st)
    BY <1>4 DEF CrossSiteCheck, TierCheck, ApbCheck
  <2>3. pc[g] # "idle"
    BY <1>4 DEF CrossSiteCheck, TierCheck, ApbCheck
  <2>4. ASSUME NEW code, Reject(g, code)
        PROVE  /\ g # h => pc'[h] = pc[h] /\ current'[h] = current[h]
               /\ current'[g].swipe = current[g].swipe
               /\ current'[g].req = current[g].req
    <3>1. /\ pc' = [pc EXCEPT ![g] = "publish"]
          /\ current' = [current EXCEPT ![g] = [current[g] EXCEPT !.code = code]]
      BY <2>4 DEF Reject
    <3>2. QED
      BY <2>1, <3>1 DEF Swipes
  <2>5. ASSUME NEW st, Pass(g, st)
        PROVE  (g # h => pc'[h] = pc[h]) /\ current' = current
    BY <2>5 DEF Pass
  <2>6. QED
    BY <2>2, <2>3, <2>4, <2>5
<1>5. ASSUME NEW g \in Handlers, ReadFails(g) \/ PublishRejection(g) \/ UpdateActiveSite(g)
                                 \/ LateWrite(g) \/ LateWriteLost(g)
      PROVE  g # h /\ pc'[h] = pc[h] /\ current'[h] = current[h]
  BY <1>5 DEF ReadFails, PublishRejection, UpdateActiveSite, LateWrite, LateWriteLost
<1>6. ASSUME NEW g \in Handlers, PublishRepeats(g) PROVE pc' = pc /\ current' = current
  BY <1>6 DEF PublishRepeats
<1>7. ASSUME NEW g \in Handlers, CommitSwipe(g)
      PROVE  /\ g # h => pc'[h] = pc[h]
             /\ current'[h] = current[h]
             /\ g = h => pc[h] # "idle"
  BY <1>7 DEF CommitSwipe
<1>8. ASSUME NEW g \in Handlers, WriteFails(g)
      PROVE  /\ g # h => pc'[h] = pc[h]
             /\ current'[h] = current[h]
             /\ g = h => pc[h] \in Writing /\ pc'[h] = LateOf(pc[h])
  BY <1>8 DEF WriteFails
<1>9. ASSUME NEW p \in Replicas, Crash(p)
      PROVE  /\ current'[h] = current[h]
             /\ pc'[h] = pc[h] \/ (pc[h] \in Writing /\ pc'[h] = LateOf(pc[h]))
  BY <1>9 DEF Crash, AfterCrash
<1>10. CASE RedisDropsKey \/ UNCHANGED vars
  BY <1>10 DEF RedisDropsKey, vars, apiVars
<1>11. "idle" \notin Writing
  BY DEF Writing
<1>12. ASSUME NEW g \in Handlers, HandlerStep(g)
       PROVE  /\ pc[h] # "idle"
              /\ current'[h].swipe = current[h].swipe
              /\ current'[h].req = current[h].req
              /\ \/ pc'[h] = pc[h]
                 \/ CrossSiteCheck(h) \/ TierCheck(h) \/ ApbCheck(h) \/ CommitSwipe(h)
                 \/ pc[h] \in Writing /\ pc'[h] = LateOf(pc[h])
  BY <1>4, <1>5, <1>6, <1>7, <1>8, <1>11, <1>12 DEF HandlerStep
<1>13. QED
  BY <1>2, <1>3, <1>9, <1>10, <1>11, <1>12 DEF Next

\* Only a handler with a verdict appends to the stream, and an accepted swipe
\* is past its commit from then on.
LEMMA Appends ==
  ASSUME TypeOK, [Next]_vars, stream' # stream
  PROVE  \E g \in Handlers :
           \/ /\ pc[g] \in {"publish", "latePublish"}
              /\ pc'[g] \in {"idle", "publish"}
              /\ stream' = Append(stream, Event(g, "REJECTED_APB"))
           \/ /\ pc[g] \in {"commit", "lateCommit"}
              /\ pc'[g] \in {"idle", "setActive"}
              /\ stream' = Append(stream, Event(g, "SUCCESS"))
<1>1. pc \in [Handlers -> Stages]
  BY DEF TypeOK, HandlersTypeOK
<1>2. ASSUME NEW g \in Handlers, HandlerStep(g)
      PROVE  \/ /\ pc[g] \in {"publish", "latePublish"}
                /\ pc'[g] \in {"idle", "publish"}
                /\ stream' = Append(stream, Event(g, "REJECTED_APB"))
             \/ /\ pc[g] \in {"commit", "lateCommit"}
                /\ pc'[g] \in {"idle", "setActive"}
                /\ stream' = Append(stream, Event(g, "SUCCESS"))
  <2>1. ~ (CrossSiteCheck(g) \/ TierCheck(g) \/ ApbCheck(g) \/ ReadFails(g)
           \/ WriteFails(g) \/ LateWriteLost(g) \/ UpdateActiveSite(g))
    BY DEF CrossSiteCheck, TierCheck, ApbCheck, ReadFails, WriteFails, LateWriteLost,
       UpdateActiveSite, WriteActiveSite, SetActiveSite, ClearActiveSite, redisVars
  <2>2. CASE PublishRejection(g) \/ PublishRepeats(g)
    BY <1>1, <2>2 DEF PublishRejection, PublishRepeats, PublishEvent, Done, Goto
  <2>3. CASE CommitSwipe(g)
    BY <1>1, <2>3 DEF CommitSwipe, SetDirectionAndPublishEvent, Done, Goto
  <2>4. CASE LateWrite(g)
    BY <1>1, <2>4 DEF LateWrite, PublishEvent, SetDirectionAndPublishEvent, Done, Goto,
       WriteActiveSite, SetActiveSite, ClearActiveSite
  <2>5. QED
    BY <1>2, <2>1, <2>2, <2>3, <2>4 DEF HandlerStep
<1>3. QED
  BY <1>2 DEF Next, BadRequest, Receive, Crash, RedisDropsKey, DropApbKey, DropActiveSite,
     ClearActiveSite, vars, redisVars
\* What a step adds to the stream: nothing, or the verdict of a handler on
\* its own swipe.
LEMMA NewEntry ==
  ASSUME TypeOK, [Next]_vars, NEW i \in DOMAIN stream', i \notin DOMAIN stream
  PROVE  /\ Len(stream) \in Nat
         /\ DOMAIN stream = 1..Len(stream)
         /\ DOMAIN stream' = 1..(Len(stream) + 1)
         /\ i = Len(stream) + 1
         /\ \E g \in Handlers :
              /\ stream'[i].swipe = current[g].swipe
              /\ stream'[i].req = Req(g)
              /\ \/ /\ stream'[i].status = "REJECTED_APB"
                    /\ pc[g] \in {"publish", "latePublish"}
                    /\ pc'[g] \in {"idle", "publish"}
                 \/ /\ stream'[i].status = "SUCCESS"
                    /\ pc[g] \in {"commit", "lateCommit"}
                    /\ pc'[g] \in {"idle", "setActive"}
<1>1. PICK g \in Handlers :
        \/ /\ pc[g] \in {"publish", "latePublish"}
           /\ pc'[g] \in {"idle", "publish"}
           /\ stream' = Append(stream, Event(g, "REJECTED_APB"))
        \/ /\ pc[g] \in {"commit", "lateCommit"}
           /\ pc'[g] \in {"idle", "setActive"}
           /\ stream' = Append(stream, Event(g, "SUCCESS"))
  BY Appends
<1>2. PICK st \in Statuses :
        /\ stream' = Append(stream, Event(g, st))
        /\ \/ /\ st = "REJECTED_APB"
              /\ pc[g] \in {"publish", "latePublish"}
              /\ pc'[g] \in {"idle", "publish"}
           \/ /\ st = "SUCCESS"
              /\ pc[g] \in {"commit", "lateCommit"}
              /\ pc'[g] \in {"idle", "setActive"}
  BY <1>1 DEF Statuses
<1> DEFINE e == Event(g, st)
<1>3. e \in AccessEvents /\ e.swipe = current[g].swipe /\ e.req = Req(g) /\ e.status = st
  BY <1>2, CurrentSwipe DEF Event
<1>4. stream' = Append(stream, e)
  BY <1>2
<1> HIDE DEF e
<1>5. /\ DOMAIN stream = 1..Len(stream)
      /\ DOMAIN stream' = 1..(Len(stream) + 1)
      /\ Len(stream) \in Nat
      /\ stream'[Len(stream) + 1] = e
  BY <1>3, <1>4, Appended DEF TypeOK
<1>6. i = Len(stream) + 1 /\ stream'[i] = e
  BY <1>5
<1>7. QED
  BY <1>2, <1>3, <1>5, <1>6

\* Verdicts and stages a step leaves a handler at: what it found there.
LEMMA StagesApart ==
  ASSUME NEW h \in Handlers
  PROVE  /\ CrossSiteCheck(h) => pc[h] = "crossSite"
         /\ TierCheck(h) => pc[h] = "tierCheck"
         /\ ApbCheck(h) => pc[h] = "apbCheck"
         /\ CommitSwipe(h) => pc[h] = "commit"
         /\ \A r \in Requests : Receive(h, r) => pc[h] = "idle"
BY DEF CrossSiteCheck, TierCheck, ApbCheck, CommitSwipe, Receive

-----------------------------------------------------------------------------
(* Entries on record.                                                       *)

\* The stream holds a granted entry under key k.
Entered(k) == \E i \in DOMAIN stream : GrantedFor(k, i) /\ stream[i].req.direction = "IN"

LEMMA EnteredStays ==
  ASSUME TypeOK, [Next]_vars, NEW k, Entered(k)
  PROVE  Entered(k)'
<1>1. PICK i \in DOMAIN stream : GrantedFor(k, i) /\ stream[i].req.direction = "IN"
  BY DEF Entered
<1>2. i \in DOMAIN stream' /\ stream'[i] = stream[i]
  BY StreamGrows
<1>3. QED
  BY <1>1, <1>2 DEF Entered, GrantedFor, Granted

\* A handler about to update active_site for an entry has committed it, at tier 1.
EntriesAreCommitted ==
  \A h \in Handlers : pc[h] \in {"setActive", "lateSetActive"} /\ Req(h).direction = "IN" =>
    Entered(TierKey(Req(h), 1))

LEMMA CommitEnters ==
  ASSUME TypeOK, NEW h \in Handlers, CommitSwipe(h), Req(h).direction = "IN",
         NEW key, key = ApbKey(Req(h))
  PROVE  Entered(key)'
<1> DEFINE e == Event(h, "SUCCESS")
<1>1. e \in AccessEvents /\ e.status = "SUCCESS" /\ e.req = Req(h)
  <2>1. pc[h] # "idle"
    BY StagesApart
  <2>2. QED
    BY <2>1, CurrentSwipe DEF Statuses, Event
<1>2. stream' = Append(stream, e)
  BY DEF CommitSwipe, SetDirectionAndPublishEvent
<1> HIDE DEF e
<1>3. PICK i \in DOMAIN stream' : stream'[i] = e
  <2>1. Len(stream) + 1 \in DOMAIN stream' /\ stream'[Len(stream) + 1] = e
    BY <1>1, <1>2, Appended DEF TypeOK
  <2>2. QED
    BY <2>1
<1>4. ApbKey(stream'[i].req) = key /\ stream'[i].status = "SUCCESS" /\ stream'[i].req.direction = "IN"
  BY <1>1, <1>3
<1>5. QED
  BY <1>4 DEF Entered, GrantedFor, Granted

\* Who arrives at the update of active_site has just committed at tier 1.
LEMMA EntriesAreCommittedStep ==
  ASSUME TypeOK, EntriesAreCommitted, [Next]_vars
  PROVE  EntriesAreCommitted'
<1> SUFFICES ASSUME NEW h \in Handlers, pc'[h] \in {"setActive", "lateSetActive"},
                    Req(h)'.direction = "IN"
             PROVE  Entered(TierKey(Req(h), 1))'
  BY DEF EntriesAreCommitted
<1>1. ~ \E q \in Requests : Receive(h, q)
  <2>1. ASSUME NEW q \in Requests, Receive(h, q) PROVE pc'[h] \in Reading
    BY <2>1 DEF Receive, Goto, FirstCheck, Reading, TypeOK, HandlersTypeOK
  <2>2. QED
    BY <2>1 DEF Reading
<1>2. /\ pc[h] # "idle"
      /\ Req(h)' = Req(h)
      /\ \/ pc'[h] = pc[h]
         \/ CrossSiteCheck(h) \/ TierCheck(h) \/ ApbCheck(h) \/ CommitSwipe(h)
         \/ pc[h] \in Writing /\ pc'[h] = LateOf(pc[h])
  BY <1>1, HandlerMoves DEF Req
<1>3. ~ (CrossSiteCheck(h) \/ TierCheck(h) \/ ApbCheck(h))
  BY DEF CrossSiteCheck, TierCheck, ApbCheck, Pass, Reject, Goto, TypeOK, HandlersTypeOK
<1>4. Req(h).direction = "IN"
  BY <1>2
<1>5. PICK k : k = TierKey(Req(h), 1)
  OBVIOUS
<1>6. k = TierKey(Req(h), 1)'
  BY <1>2, <1>5 DEF TierKey
<1>7. Entered(k)'
  <2>1. CASE pc[h] \in {"setActive", "lateSetActive"}
    BY <1>4, <1>5, <2>1, EnteredStays DEF EntriesAreCommitted
  <2>2. CASE CommitSwipe(h)
    <3>1. Tier(h) = 1
      BY <2>2 DEF CommitSwipe, Done, Goto, TypeOK, HandlersTypeOK
    <3>2. k = ApbKey(Req(h))
      BY <1>5, <3>1 DEF ApbKey, Tier
    <3>3. QED
      BY <1>4, <2>2, <3>2, CommitEnters
  <2>3. CASE pc[h] \in Writing /\ pc'[h] = LateOf(pc[h])
    <3>1. pc[h] = "setActive"
      BY <2>3 DEF Writing, LateOf
    <3>2. QED
      BY <2>1, <3>1
  <2>4. QED
    BY <1>2, <1>3, <2>1, <2>2, <2>3
<1>8. QED
  BY <1>6, <1>7
\* A badge is on record as being inside a site only if the stream holds a
\* granted tier-1 entry of that badge there, however late the update of
\* active_site arrives and whatever it overtakes (main.go:267-273).
THEOREM ActiveSitesWereEntered == Spec => []ActiveSiteWasEntered
<1> DEFINE Inv == ActiveSiteWasEntered /\ EntriesAreCommitted
<1>1. Init => Inv
  BY DEF Init, EmptyRedis, ActiveSiteWasEntered, EntriesAreCommitted
<1>2. TypeOK /\ Inv /\ [Next]_vars => Inv'
  <2> SUFFICES ASSUME TypeOK, ActiveSiteWasEntered, EntriesAreCommitted, [Next]_vars
               PROVE  ActiveSiteWasEntered'
    BY EntriesAreCommittedStep
  <2> SUFFICES ASSUME NEW b \in Badges, activeSite'[b] # "", NEW k, k = <<activeSite'[b], 1, b>>
               PROVE  Entered(k)'
    BY DEF ActiveSiteWasEntered, Entered
  <2>1. CASE activeSite'[b] = activeSite[b]
    <3>1. Entered(k)
      BY <2>1 DEF ActiveSiteWasEntered, Entered
    <3>2. QED
      BY <3>1, EnteredStays
  <2>2. ASSUME NEW h \in Handlers, pc[h] \in {"setActive", "lateSetActive"}, WriteActiveSite(h),
               activeSite'[b] # activeSite[b]
        PROVE  Entered(k)'
    <3>1. Req(h).direction = "IN" /\ b = Req(h).badge /\ activeSite'[b] = SiteKey(Req(h).site)
      BY <2>2 DEF WriteActiveSite, SetActiveSite, ClearActiveSite, TypeOK, CacheTypeOK
    <3>2. k = TierKey(Req(h), 1)
      BY <3>1 DEF TierKey
    <3>3. QED
      BY <2>2, <3>1, <3>2, EnteredStays DEF EntriesAreCommitted
  <2>3. CASE RedisDropsKey
    BY <2>1, <2>3 DEF RedisDropsKey, DropApbKey, DropActiveSite, ClearActiveSite, TypeOK, CacheTypeOK
  <2>4. QED
    BY <2>1, <2>2, <2>3, RedisSteps DEF redisVars, PublishEvent, SetDirectionAndPublishEvent
<1>3. QED
  BY <1>1, <1>2, TypeCorrect, PTL DEF Spec
-----------------------------------------------------------------------------
(* Tier 2 is entered through tier 1.                                        *)

\* A tier-2 entry that is past the tier check has its tier-1 entry on record,
\* although the tier-1 state may have changed since.
OuterIsRecorded ==
  \A h \in Handlers :
    /\ pc[h] \in {"crossSite", "apbCheck", "commit", "lateCommit"}
    /\ Req(h).direction = "IN"
    /\ Tier(h) = 2
    => Entered(TierKey(Req(h), 1))

\* The state a tier check reads is that of a granted entry in the stream.
LEMMA InsideWasEntered ==
  ASSUME ApbMatchesStream, NEW k \in ApbKeys, apb[k] = "IN"
  PROVE  Entered(k)
BY DEF ApbMatchesStream, Entered

LEMMA OuterIsRecordedStep ==
  ASSUME TypeOK, ApbMatchesStream, OuterIsRecorded, [Next]_vars
  PROVE  OuterIsRecorded'
<1> SUFFICES ASSUME NEW h \in Handlers,
                    pc'[h] \in {"crossSite", "apbCheck", "commit", "lateCommit"},
                    Req(h)'.direction = "IN", Tier(h)' = 2,
                    NEW k, k = TierKey(Req(h), 1)'
             PROVE  Entered(k)'
  BY DEF OuterIsRecorded
<1>1. ASSUME NEW r \in Requests, Receive(h, r) PROVE FALSE
  <2>1. pc'[h] = FirstCheck(r) /\ current'[h].req = r
    BY <1>1 DEF Receive, Goto, TypeOK, HandlersTypeOK
  <2>2. r.direction = "IN" /\ GateTier(r.gate) = 2
    BY <2>1 DEF Req, Tier
  <2>3. QED
    BY <2>1, <2>2 DEF FirstCheck
<1>2. /\ pc[h] # "idle"
      /\ Req(h)' = Req(h)
      /\ \/ pc'[h] = pc[h]
         \/ CrossSiteCheck(h) \/ TierCheck(h) \/ ApbCheck(h) \/ CommitSwipe(h)
         \/ pc[h] \in Writing /\ pc'[h] = LateOf(pc[h])
  BY <1>1, HandlerMoves DEF Req
<1>3. Req(h).direction = "IN" /\ Tier(h) = 2 /\ k = TierKey(Req(h), 1)
  BY <1>2 DEF TierKey, Tier
<1>4. CASE pc[h] \in {"crossSite", "apbCheck", "commit", "lateCommit"}
  BY <1>3, <1>4, EnteredStays DEF OuterIsRecorded
<1>5. CASE TierCheck(h)
  <2>1. ~TierViolation(Req(h))
    BY <1>5 DEF TierCheck, Reject, Goto, TypeOK, HandlersTypeOK
  <2>2. apb[TierKey(Req(h), 1)] = "IN"
    BY <1>3, <2>1 DEF TierViolation, GetState
  <2>3. TierKey(Req(h), 1) \in ApbKeys
    BY <1>2, CurrentSwipe, KeysAreKeys DEF Tiers
  <2>4. QED
    BY <1>3, <2>2, <2>3, InsideWasEntered, EnteredStays
<1>6. CASE CommitSwipe(h)
  BY <1>4, <1>6, StagesApart
<1>7. CASE pc[h] \in Writing /\ pc'[h] = LateOf(pc[h])
  BY <1>4, <1>7 DEF Writing, LateOf
<1>8. QED
  BY <1>2, <1>4, <1>5, <1>6, <1>7, StagesApart

\* Each granted tier-2 entry follows a granted tier-1 entry of the badge at
\* the site, even when the tier-1 state changes between the check and the
\* commit (main.go:155-187).
THEOREM TierTwoAfterTierOne == Spec => []OuterGateFirst
<1> DEFINE Inv == OuterGateFirst /\ OuterIsRecorded
<1>1. Init => Inv
  BY NothingAtFirst DEF OuterGateFirst, OuterIsRecorded
<1>2. TypeOK /\ ApbMatchesStream /\ Inv /\ [Next]_vars => Inv'
  <2> SUFFICES ASSUME TypeOK, ApbMatchesStream, OuterGateFirst, OuterIsRecorded, [Next]_vars
               PROVE  OuterGateFirst'
    BY OuterIsRecordedStep
  <2> SUFFICES ASSUME NEW i \in DOMAIN stream', Granted(i)',
                      stream'[i].req.direction = "IN", GateTier(stream'[i].req.gate) = 2,
                      NEW k, k = TierKey(stream'[i].req, 1)
               PROVE  \E j \in DOMAIN stream' :
                        j < i /\ GrantedFor(k, j)' /\ stream'[j].req.direction = "IN"
    BY DEF OuterGateFirst
  <2>1. CASE i \in DOMAIN stream
    <3>1. stream'[i] = stream[i]
      BY <2>1, StreamGrows
    <3>2. PICK j \in DOMAIN stream :
            j < i /\ GrantedFor(k, j) /\ stream[j].req.direction = "IN"
      BY <2>1, <3>1 DEF OuterGateFirst, Granted
    <3>3. j \in DOMAIN stream' /\ stream'[j] = stream[j]
      BY StreamGrows
    <3>4. QED
      BY <3>2, <3>3 DEF GrantedFor, Granted
  <2>2. CASE i \notin DOMAIN stream
    <3>1. Len(stream) \in Nat /\ DOMAIN stream = 1..Len(stream) /\ i = Len(stream) + 1
      BY <2>2, NewEntry
    <3>2. PICK g \in Handlers : stream'[i].req = Req(g) /\ pc[g] \in {"commit", "lateCommit"}
      BY <2>2, NewEntry DEF Granted
    <3>3. Entered(k)
      BY <3>2 DEF OuterIsRecorded, Tier
    <3>4. PICK j \in DOMAIN stream : GrantedFor(k, j) /\ stream[j].req.direction = "IN"
      BY <3>3 DEF Entered
    <3>5. j \in DOMAIN stream' /\ stream'[j] = stream[j]
      BY StreamGrows
    <3>6. j < i
      BY <3>1
    <3>7. QED
      BY <3>4, <3>5, <3>6 DEF GrantedFor, Granted
  <2>3. QED
    BY <2>1, <2>2
<1>3. QED
  BY <1>1, <1>2, TypeCorrect, ApbAgreesWithStream, PTL DEF Spec
-----------------------------------------------------------------------------
(* One verdict per swipe.                                                   *)

\* Swipe numbers are given out once.
NumbersAreOwn ==
  /\ \A h \in Handlers : pc[h] # "idle" => current[h].swipe <= received
  /\ \A h, g \in Handlers : pc[h] # "idle" /\ pc[g] # "idle" /\ h # g =>
       current[h].swipe # current[g].swipe
  /\ \A i \in DOMAIN stream : stream[i].swipe <= received

\* A swipe without a verdict has no entry, a rejected one no granted entry.
Undecided(n) == \A i \in DOMAIN stream : stream[i].swipe # n
NotGranted(n) == \A i \in DOMAIN stream : stream[i].swipe = n => ~Granted(i)

VerdictsArePending ==
  \A h \in Handlers :
    /\ pc[h] \in Reading \cup {"commit", "lateCommit"} => Undecided(current[h].swipe)
    /\ pc[h] \in {"publish", "latePublish"} => NotGranted(current[h].swipe)
LEMMA ReceivedGrows ==
  ASSUME [Next]_vars
  PROVE  received' = received \/ received' = received + 1
BY DEF Next, BadRequest, Receive, HandlerStep, CrossSiteCheck, TierCheck, ApbCheck, ReadFails,
   PublishRejection, PublishRepeats, CommitSwipe, UpdateActiveSite, WriteFails, LateWrite,
   LateWriteLost, Crash, RedisDropsKey, vars, apiVars

\* A request that comes in takes the next number and touches nothing else.
LEMMA Received ==
  ASSUME TypeOK, NEW h \in Handlers, NEW r \in Requests, Receive(h, r)
  PROVE  /\ pc[h] = "idle" /\ pc'[h] = FirstCheck(r) /\ FirstCheck(r) \in Reading
         /\ current'[h].swipe = received + 1 /\ current'[h].req = r
         /\ \A g \in Handlers : g # h => pc'[g] = pc[g] /\ current'[g] = current[g]
         /\ received' = received + 1
         /\ UNCHANGED redisVars
BY DEF Receive, Goto, FirstCheck, Reading, TypeOK, HandlersTypeOK

LEMMA NumbersAreOwnStep ==
  ASSUME TypeOK, NumbersAreOwn, [Next]_vars
  PROVE  NumbersAreOwn'
<1>0. /\ received \in Nat
      /\ \A h \in Handlers : pc[h] # "idle" => current[h].swipe \in Nat
      /\ \A i \in DOMAIN stream : stream[i].swipe \in Nat
  <2>1. \A i \in DOMAIN stream : stream[i] \in AccessEvents
    BY ElementOfSeq, LenProperties DEF TypeOK, CacheTypeOK
  <2>2. QED
    BY <2>1, CurrentSwipe DEF TypeOK, Swipes, AccessEvents
<1>1. ASSUME NEW h \in Handlers, pc'[h] # "idle" PROVE current'[h].swipe <= received'
  <2>1. CASE \E r \in Requests : Receive(h, r)
    BY <1>0, <2>1, Received
  <2>2. CASE pc[h] # "idle" /\ current'[h].swipe = current[h].swipe
    BY <1>0, <2>2, ReceivedGrows DEF NumbersAreOwn
  <2>3. QED
    BY <1>1, <2>1, <2>2, HandlerMoves
<1>2. ASSUME NEW h \in Handlers, NEW g \in Handlers, NEW r \in Requests, Receive(h, r),
             pc'[g] # "idle", h # g
      PROVE  current'[h].swipe # current'[g].swipe
  <2>1. current'[h].swipe = received + 1 /\ current'[g] = current[g] /\ pc[g] # "idle"
    BY <1>2, Received
  <2>2. current[g].swipe <= received /\ current[g].swipe \in Nat
    BY <1>0, <2>1 DEF NumbersAreOwn
  <2>3. QED
    BY <1>0, <2>1, <2>2
<1>3. ASSUME NEW h \in Handlers, NEW g \in Handlers, pc'[h] # "idle", pc'[g] # "idle", h # g
      PROVE  current'[h].swipe # current'[g].swipe
  <2>1. CASE \E r \in Requests : Receive(h, r) \/ Receive(g, r)
    BY <1>2, <1>3, <2>1
  <2>2. CASE ~ \E r \in Requests : Receive(h, r) \/ Receive(g, r)
    BY <1>3, <2>2, HandlerMoves DEF NumbersAreOwn
  <2>3. QED
    BY <2>1, <2>2
<1>4. ASSUME NEW i \in DOMAIN stream' PROVE stream'[i].swipe <= received'
  <2>1. CASE i \in DOMAIN stream
    BY <1>0, <2>1, StreamGrows, ReceivedGrows DEF NumbersAreOwn
  <2>2. CASE i \notin DOMAIN stream
    <3>1. PICK g \in Handlers : pc[g] # "idle" /\ stream'[i].swipe = current[g].swipe
      BY <2>2, NewEntry
    <3>2. QED
      BY <1>0, <3>1, ReceivedGrows DEF NumbersAreOwn
  <2>3. QED
    BY <2>1, <2>2
<1>5. QED
  BY <1>1, <1>3, <1>4 DEF NumbersAreOwn

\* A step keeps swipe n undecided, or without a grant, unless the handler
\* that serves n writes its verdict.
LEMMA StaysUndecided ==
  ASSUME TypeOK, NumbersAreOwn, [Next]_vars, NEW h \in Handlers, pc[h] # "idle",
         NEW n, n = current[h].swipe, Undecided(n), pc'[h] \notin {"idle", "publish", "setActive"}
  PROVE  Undecided(n)'
<1> SUFFICES ASSUME NEW i \in DOMAIN stream', stream'[i].swipe = n PROVE FALSE
  BY DEF Undecided
<1>1. i \notin DOMAIN stream
  BY StreamGrows DEF Undecided
<1>2. PICK g \in Handlers : /\ n = current[g].swipe
                            /\ pc[g] # "idle"
                            /\ pc'[g] \in {"idle", "publish", "setActive"}
  BY <1>1, NewEntry
<1>3. QED
  BY <1>2 DEF NumbersAreOwn

LEMMA StaysNotGranted ==
  ASSUME TypeOK, NumbersAreOwn, [Next]_vars, NEW h \in Handlers, pc[h] # "idle",
         NEW n, n = current[h].swipe, NotGranted(n), pc[h] \notin {"commit", "lateCommit"}
  PROVE  NotGranted(n)'
<1> SUFFICES ASSUME NEW i \in DOMAIN stream', stream'[i].swipe = n, Granted(i)' PROVE FALSE
  BY DEF NotGranted
<1>1. i \notin DOMAIN stream
  BY StreamGrows DEF NotGranted, Granted
<1>2. PICK g \in Handlers : n = current[g].swipe /\ pc[g] \in {"commit", "lateCommit"}
  BY <1>1, NewEntry DEF Granted
<1>3. QED
  BY <1>2 DEF NumbersAreOwn
LEMMA VerdictsArePendingStep ==
  ASSUME TypeOK, NumbersAreOwn, VerdictsArePending, [Next]_vars
  PROVE  VerdictsArePending'
<1> SUFFICES ASSUME NEW h \in Handlers, NEW n, n = current'[h].swipe,
                    pc'[h] \in Reading \cup {"commit", "lateCommit", "publish", "latePublish"}
             PROVE  /\ pc'[h] \in Reading \cup {"commit", "lateCommit"} => Undecided(n)'
                    /\ pc'[h] \in {"publish", "latePublish"} => NotGranted(n)'
  BY DEF VerdictsArePending
<1>1. CASE \E r \in Requests : Receive(h, r)
  <2>1. n = received + 1 /\ stream' = stream /\ pc'[h] \in Reading
    BY <1>1, Received DEF redisVars
  <2>2. Undecided(n)'
    <3>1. \A i \in DOMAIN stream : stream[i].swipe \in Nat
      <4>1. \A i \in DOMAIN stream : stream[i] \in AccessEvents
        BY ElementOfSeq, LenProperties DEF TypeOK, CacheTypeOK
      <4>2. QED
        BY <4>1 DEF AccessEvents
    <3>2. QED
      BY <2>1, <3>1 DEF Undecided, NumbersAreOwn, TypeOK
  <2>3. QED
    BY <2>1, <2>2 DEF Reading
<1>2. CASE ~ \E r \in Requests : Receive(h, r)
  <2>1. /\ pc[h] # "idle"
        /\ n = current[h].swipe
        /\ \/ pc'[h] = pc[h]
           \/ CrossSiteCheck(h) \/ TierCheck(h) \/ ApbCheck(h) \/ CommitSwipe(h)
           \/ pc[h] \in Writing /\ pc'[h] = LateOf(pc[h])
    BY <1>2, HandlerMoves DEF Reading
  <2>2. ASSUME CommitSwipe(h) PROVE pc'[h] \in {"setActive", "idle"}
    BY <2>2 DEF CommitSwipe, Done, Goto, TypeOK, HandlersTypeOK
  <2>3. ~CommitSwipe(h)
    BY <2>2 DEF Reading
  <2>4. CASE pc'[h] \in Reading \cup {"commit", "lateCommit"}
    <3>1. pc[h] \in Reading \cup {"commit", "lateCommit"}
      BY <2>1, <2>3, <2>4, StagesApart DEF Reading, Writing, LateOf
    <3>2. QED
      BY <2>1, <2>4, <3>1, StaysUndecided DEF VerdictsArePending, Reading
  <2>5. CASE pc'[h] \in {"publish", "latePublish"}
    <3>1. pc[h] \in Reading \cup {"publish", "latePublish"}
      BY <2>1, <2>3, <2>5, StagesApart DEF Reading, Writing, LateOf
    <3>2. NotGranted(n)
      BY <2>1, <3>1 DEF VerdictsArePending, NotGranted, Undecided
    <3>3. pc[h] \notin {"commit", "lateCommit"}
      BY <3>1 DEF Reading
    <3>4. QED
      BY <2>1, <2>5, <3>2, <3>3, StaysNotGranted DEF Reading
  <2>6. QED
    BY <2>4, <2>5
<1>3. QED
  BY <1>1, <1>2

LEMMA OneVerdictStep ==
  ASSUME TypeOK, NumbersAreOwn, VerdictsArePending, OneVerdictPerSwipe, [Next]_vars
  PROVE  OneVerdictPerSwipe'
<1>1. ASSUME NEW i \in DOMAIN stream', i \notin DOMAIN stream, NEW j \in DOMAIN stream,
             stream'[i].swipe = stream[j].swipe
      PROVE  stream'[i].status # "SUCCESS" /\ ~Granted(j)
  <2>1. PICK g \in Handlers :
          /\ stream[j].swipe = current[g].swipe
          /\ \/ stream'[i].status = "REJECTED_APB" /\ pc[g] \in {"publish", "latePublish"}
             \/ stream'[i].status = "SUCCESS" /\ pc[g] \in {"commit", "lateCommit"}
    BY <1>1, NewEntry
  <2>2. pc[g] \notin {"commit", "lateCommit"}
    BY <2>1 DEF VerdictsArePending, Undecided
  <2>3. ~Granted(j)
    BY <2>1, <2>2 DEF VerdictsArePending, NotGranted
  <2>4. QED
    BY <2>1, <2>2, <2>3
<1>2. SUFFICES ASSUME NEW i \in DOMAIN stream', NEW j \in DOMAIN stream', i # j,
                      stream'[i].swipe = stream'[j].swipe
               PROVE  stream'[i].status # "SUCCESS" /\ stream'[j].status # "SUCCESS"
  BY DEF OneVerdictPerSwipe, Granted
<1>3. CASE i \in DOMAIN stream /\ j \in DOMAIN stream
  <2>1. stream'[i] = stream[i] /\ stream'[j] = stream[j]
    BY <1>3, StreamGrows
  <2>2. QED
    BY <1>2, <1>3, <2>1 DEF OneVerdictPerSwipe, Granted
<1>4. CASE i \notin DOMAIN stream /\ j \in DOMAIN stream
  BY <1>1, <1>2, <1>4, StreamGrows DEF Granted
<1>5. CASE i \in DOMAIN stream /\ j \notin DOMAIN stream
  BY <1>1, <1>2, <1>5, StreamGrows DEF Granted
<1>6. CASE i \notin DOMAIN stream /\ j \notin DOMAIN stream
  BY <1>2, <1>6, NewEntry
<1>7. QED
  BY <1>3, <1>4, <1>5, <1>6

\* No swipe is both granted and rejected, none is granted twice, for any
\* number of handlers and any faults: a verdict that arrives late, twice or
\* after a crash is still the only one of its swipe.
THEOREM VerdictsAreUnique == Spec => []OneVerdictPerSwipe
<1> DEFINE Inv == NumbersAreOwn /\ VerdictsArePending /\ OneVerdictPerSwipe
<1>1. Init => Inv
  BY NothingAtFirst DEF NumbersAreOwn, VerdictsArePending, OneVerdictPerSwipe, Reading
<1>2. TypeOK /\ Inv /\ [Next]_vars => Inv'
  BY NumbersAreOwnStep, VerdictsArePendingStep, OneVerdictStep
<1>3. QED
  BY <1>1, <1>2, TypeCorrect, PTL DEF Spec

-----------------------------------------------------------------------------
(* The counters of /metrics.  A handler counts its verdict before it        *)
(* answers, so those that have counted and not answered yet make up the     *)
(* difference.                                                              *)

At(pcs, stage) == {h \in Handlers : pcs[h] = stage}

Answers(given, status) == {a \in given : a.status = status}

GrantsIn(s) == {i \in DOMAIN s : s[i].status = "SUCCESS"}

CountersInv ==
  /\ IsFiniteSet(responses)
  /\ IsFiniteSet(GrantsIn(stream)) /\ Total(swipeOK) <= Cardinality(GrantsIn(stream))
  /\ "crash" \notin FaultKinds =>
       /\ Cardinality(Answers(responses, "SUCCESS")) + Cardinality(At(pc, "setActive"))
            <= Total(swipeOK)
       /\ Cardinality(Answers(responses, "REJECTED_APB")) + Cardinality(At(pc, "publish"))
            <= Total(swipeFail)

LEMMA AtIsFinite ==
  ASSUME NEW pcs, NEW stage
  PROVE  IsFiniteSet(At(pcs, stage)) /\ Cardinality(At(pcs, stage)) \in Nat
<1>1. At(pcs, stage) \in SUBSET Handlers
  BY DEF At
<1>2. QED
  BY <1>1, ReplicaAssumption, FS_Subset, FS_CardinalityType

\* A handler that goes from one stage to another.
LEMMA AtMoves ==
  ASSUME NEW pcs \in [Handlers -> Stages], NEW g \in Handlers, NEW next \in Stages, NEW stage
  PROVE  /\ pcs[g] # stage /\ next = stage =>
              Cardinality(At([pcs EXCEPT ![g] = next], stage)) = Cardinality(At(pcs, stage)) + 1
         /\ pcs[g] = stage /\ next # stage =>
              Cardinality(At([pcs EXCEPT ![g] = next], stage)) = Cardinality(At(pcs, stage)) - 1
         /\ (pcs[g] = stage <=> next = stage) =>
              Cardinality(At([pcs EXCEPT ![g] = next], stage)) = Cardinality(At(pcs, stage))
<1> DEFINE moved == [pcs EXCEPT ![g] = next]
<1>1. CASE pcs[g] # stage /\ next = stage
  <2>1. At(moved, stage) = At(pcs, stage) \cup {g} /\ g \notin At(pcs, stage)
    BY <1>1 DEF At
  <2>2. Cardinality(At(pcs, stage) \cup {g}) = Cardinality(At(pcs, stage)) + 1
    BY <2>1, AtIsFinite, FS_AddElement, Zenon
  <2>3. Cardinality(At(moved, stage)) = Cardinality(At(pcs, stage)) + 1
    BY <2>1, <2>2, Zenon
  <2>4. QED
    BY <1>1, <2>3
<1>2. CASE pcs[g] = stage /\ next # stage
  <2>1. At(moved, stage) = At(pcs, stage) \ {g} /\ g \in At(pcs, stage)
    BY <1>2 DEF At
  <2>2. Cardinality(At(pcs, stage) \ {g}) = Cardinality(At(pcs, stage)) - 1
    BY <2>1, AtIsFinite, FS_RemoveElement, Zenon
  <2>3. Cardinality(At(moved, stage)) = Cardinality(At(pcs, stage)) - 1
    BY <2>1, <2>2, Zenon
  <2>4. QED
    BY <1>2, <2>3
<1>3. CASE pcs[g] = stage <=> next = stage
  <2>1. At(moved, stage) = At(pcs, stage)
    BY <1>3 DEF At
  <2>2. Cardinality(At(moved, stage)) = Cardinality(At(pcs, stage))
    BY <2>1, Zenon
  <2>3. QED
    BY <1>3, <2>2
<1>4. QED
  BY <1>1, <1>2, <1>3

LEMMA AnswersGrow ==
  ASSUME NEW given, IsFiniteSet(given), NEW a, NEW status
  PROVE  /\ IsFiniteSet(given \cup {a})
         /\ Cardinality(Answers(given, status)) \in Nat
         /\ Cardinality(Answers(given \cup {a}, status)) \in Nat
         /\ Cardinality(Answers(given \cup {a}, status)) <= Cardinality(Answers(given, status)) + 1
         /\ a.status # status =>
              Cardinality(Answers(given \cup {a}, status)) = Cardinality(Answers(given, status))
<1> DEFINE old == Answers(given, status)
           new == Answers(given \cup {a}, status)
<1>1. old \in SUBSET given /\ new \in SUBSET (given \cup {a}) /\ new \in SUBSET (old \cup {a})
  BY DEF Answers
<1>2. a.status # status => new = old
  BY DEF Answers
<1> HIDE DEF old, new
<1>3. IsFiniteSet(given \cup {a})
  BY FS_AddElement
<1>4. IsFiniteSet(old) /\ IsFiniteSet(new)
  BY <1>1, <1>3, FS_Subset
<1>5. Cardinality(old) \in Nat /\ Cardinality(new) \in Nat
  BY <1>4, FS_CardinalityType
<1>6. IsFiniteSet(old \cup {a}) /\ Cardinality(old \cup {a}) <= Cardinality(old) + 1
      /\ Cardinality(old \cup {a}) \in Nat
  <2>1. IsFiniteSet(old \cup {a}) /\ Cardinality(old \cup {a}) \in Nat
    BY <1>4, FS_AddElement, FS_CardinalityType
  <2>2. Cardinality(old \cup {a}) = Cardinality(old) \/ Cardinality(old \cup {a}) = Cardinality(old) + 1
    BY <1>4, FS_AddElement, Zenon
  <2>3. QED
    BY <1>5, <2>1, <2>2
<1>7. Cardinality(new) <= Cardinality(old \cup {a})
  BY <1>1, <1>6, FS_Subset
<1>8. a.status # status => Cardinality(new) = Cardinality(old)
  BY <1>2, Zenon
<1>9. QED
  BY <1>3, <1>5, <1>6, <1>7, <1>8 DEF old, new

Counting == <<swipeOK, swipeFail>>

\* What a step does to the counters, the answers and the handlers that have
\* counted and not answered.
LEMMA CounterSteps ==
  ASSUME TypeOK, [Next]_vars
  PROVE  \/ /\ UNCHANGED Counting
            /\ \/ responses' = responses
               \/ \E a : a.status = "ERROR" /\ responses' = responses \cup {a}
            /\ \/ pc' = pc
               \/ \E g \in Handlers, next \in Stages \ {"publish", "setActive"} :
                    pc[g] # "setActive" /\ pc' = [pc EXCEPT ![g] = next]
         \/ \E g \in Handlers :
              /\ pc[g] \in Reading /\ pc' = [pc EXCEPT ![g] = "publish"]
              /\ swipeOK' = swipeOK /\ responses' = responses
              /\ swipeFail' = [swipeFail EXCEPT ![ReplicaOf[g]] = swipeFail[ReplicaOf[g]] + 1]
         \/ \E g \in Handlers : \E a :
              /\ pc[g] = "publish" /\ pc' = [pc EXCEPT ![g] = "idle"]
              /\ a.status = "REJECTED_APB" /\ responses' = responses \cup {a}
              /\ UNCHANGED Counting
         \/ \E g \in Handlers :
              /\ pc[g] = "commit"
              /\ swipeOK' = [swipeOK EXCEPT ![ReplicaOf[g]] = swipeOK[ReplicaOf[g]] + 1]
              /\ stream' = Append(stream, Event(g, "SUCCESS"))
              /\ swipeFail' = swipeFail
              /\ \/ pc' = [pc EXCEPT ![g] = "setActive"] /\ responses' = responses
                 \/ /\ pc' = [pc EXCEPT ![g] = "idle"]
                    /\ \E a : a.status = "SUCCESS" /\ responses' = responses \cup {a}
         \/ \E g \in Handlers, next \in {"idle", "lateSetActive"} : \E a :
              /\ pc[g] = "setActive" /\ pc' = [pc EXCEPT ![g] = next]
              /\ a.status = "SUCCESS" /\ responses' = responses \cup {a}
              /\ UNCHANGED Counting
         \/ /\ "crash" \in FaultKinds /\ UNCHANGED <<responses, stream>>
            /\ \E p \in Replicas : swipeOK' = [swipeOK EXCEPT ![p] = 0]
<1> USE DEF Counting, Goto, Done, Answer, Respond, Fault
<1>1. pc \in [Handlers -> Stages]
  BY DEF TypeOK, HandlersTypeOK
<1> DEFINE Quiet ==
      /\ UNCHANGED Counting
      /\ \/ responses' = responses
         \/ \E a : a.status = "ERROR" /\ responses' = responses \cup {a}
      /\ \/ pc' = pc
         \/ \E g \in Handlers, next \in Stages \ {"publish", "setActive"} :
              pc[g] # "setActive" /\ pc' = [pc EXCEPT ![g] = next]
<1>2. ASSUME NEW n, NEW st, NEW code
      PROVE  [swipe |-> n, status |-> st, code |-> code].status = st
  OBVIOUS
<1>3. ASSUME NEW g \in Handlers, BadRequest(g) PROVE Quiet
  <2>1. PICK a : a.status = "ERROR" /\ responses' = responses \cup {a}
    BY <1>2, <1>3 DEF BadRequest
  <2>2. QED
    BY <1>3, <2>1 DEF BadRequest
<1>4. ASSUME NEW g \in Handlers, NEW r \in Requests, Receive(g, r) PROVE Quiet
  <2>1. FirstCheck(r) \in Stages \ {"publish", "setActive"}
    BY DEF FirstCheck, Stages, Reading, Writing, Late
  <2>2. QED
    BY <1>4, <2>1 DEF Receive
<1>5. ASSUME NEW g \in Handlers, CrossSiteCheck(g) \/ TierCheck(g) \/ ApbCheck(g)
      PROVE  \/ Quiet
             \/ /\ pc[g] \in Reading /\ pc' = [pc EXCEPT ![g] = "publish"]
                /\ swipeOK' = swipeOK /\ responses' = responses
                /\ swipeFail' = [swipeFail EXCEPT ![ReplicaOf[g]] = swipeFail[ReplicaOf[g]] + 1]
  <2>1. pc[g] \in Reading /\ swipeOK' = swipeOK /\ responses' = responses
    BY <1>5 DEF CrossSiteCheck, TierCheck, ApbCheck, Reading
  <2>2. CASE \E code : Reject(g, code)
    BY <2>1, <2>2 DEF Reject
  <2>3. CASE Pass(g, "apbCheck") \/ Pass(g, "commit")
    <3>1. {"apbCheck", "commit"} \subseteq Stages \ {"publish", "setActive"} /\ pc[g] # "setActive"
      BY <2>1 DEF Stages, Reading, Writing, Late
    <3>2. QED
      BY <2>1, <2>3, <3>1 DEF Pass
  <2>4. QED
    BY <1>5, <2>2, <2>3 DEF CrossSiteCheck, TierCheck, ApbCheck
<1>6. ASSUME NEW g \in Handlers, ReadFails(g) PROVE Quiet
  <2>1. PICK a : a.status = "ERROR" /\ responses' = responses \cup {a}
    BY <1>2, <1>6 DEF ReadFails
  <2>2. "idle" \in Stages \ {"publish", "setActive"} /\ pc[g] # "setActive"
    BY <1>6 DEF Stages, ReadFails, Reading
  <2>3. QED
    BY <1>6, <2>1, <2>2 DEF ReadFails
<1>7. ASSUME NEW g \in Handlers, PublishRejection(g)
      PROVE  \E a : /\ pc[g] = "publish" /\ pc' = [pc EXCEPT ![g] = "idle"]
                    /\ a.status = "REJECTED_APB" /\ responses' = responses \cup {a}
                    /\ UNCHANGED Counting
  <2>1. PICK a : a.status = "REJECTED_APB" /\ responses' = responses \cup {a}
    BY <1>2, <1>7 DEF PublishRejection
  <2>2. QED
    BY <1>7, <2>1 DEF PublishRejection
<1>8. ASSUME NEW g \in Handlers, PublishRepeats(g) PROVE Quiet
  BY <1>8 DEF PublishRepeats
<1>9. ASSUME NEW g \in Handlers, CommitSwipe(g)
      PROVE  /\ pc[g] = "commit"
             /\ swipeOK' = [swipeOK EXCEPT ![ReplicaOf[g]] = swipeOK[ReplicaOf[g]] + 1]
             /\ stream' = Append(stream, Event(g, "SUCCESS"))
             /\ swipeFail' = swipeFail
             /\ \/ pc' = [pc EXCEPT ![g] = "setActive"] /\ responses' = responses
                \/ /\ pc' = [pc EXCEPT ![g] = "idle"]
                   /\ \E a : a.status = "SUCCESS" /\ responses' = responses \cup {a}
  <2>1. \/ pc' = [pc EXCEPT ![g] = "setActive"] /\ responses' = responses
        \/ /\ pc' = [pc EXCEPT ![g] = "idle"]
           /\ \E a : a.status = "SUCCESS" /\ responses' = responses \cup {a}
    BY <1>2, <1>9 DEF CommitSwipe
  <2>2. QED
    BY <1>9, <2>1 DEF CommitSwipe, SetDirectionAndPublishEvent
<1>10. ASSUME NEW g \in Handlers, UpdateActiveSite(g) \/ WriteFails(g)
       PROVE  \/ Quiet
              \/ \E next \in {"idle", "lateSetActive"} : \E a :
                   /\ pc[g] = "setActive" /\ pc' = [pc EXCEPT ![g] = next]
                   /\ a.status = "SUCCESS" /\ responses' = responses \cup {a}
                   /\ UNCHANGED Counting
  <2>1. CASE UpdateActiveSite(g)
    <3>1. PICK a : a.status = "SUCCESS" /\ responses' = responses \cup {a}
      BY <1>2, <2>1 DEF UpdateActiveSite
    <3>2. pc[g] = "setActive" /\ pc' = [pc EXCEPT ![g] = "idle"] /\ UNCHANGED Counting
      BY <2>1 DEF UpdateActiveSite
    <3> HIDE DEF Quiet, Counting
    <3>3. QED
      BY <3>1, <3>2
  <2>2. CASE WriteFails(g) /\ pc[g] = "setActive"
    <3>1. PICK a : a.status = "SUCCESS" /\ responses' = responses \cup {a}
      BY <1>2, <2>2 DEF WriteFails
    <3>2. LateOf(pc[g]) = "lateSetActive"
      BY <2>2 DEF LateOf
    <3>3. pc' = [pc EXCEPT ![g] = "lateSetActive"] /\ UNCHANGED Counting
      BY <2>2, <3>2 DEF WriteFails
    <3> HIDE DEF Quiet, Counting
    <3>4. QED
      BY <2>2, <3>1, <3>3
  <2>3. CASE WriteFails(g) /\ pc[g] # "setActive"
    <3>1. PICK a : a.status = "ERROR" /\ responses' = responses \cup {a}
      BY <1>2, <2>3 DEF WriteFails
    <3>2. LateOf(pc[g]) \in Stages \ {"publish", "setActive"}
      BY DEF LateOf, Stages, Late
    <3>3. QED
      BY <2>3, <3>1, <3>2 DEF WriteFails
  <2>4. QED
    BY <1>10, <2>1, <2>2, <2>3
<1>11. ASSUME NEW g \in Handlers, LateWrite(g) \/ LateWriteLost(g) PROVE Quiet
  <2>1. "idle" \in Stages \ {"publish", "setActive"} /\ pc[g] # "setActive"
    BY <1>11 DEF Stages, LateWrite, LateWriteLost, Late
  <2>2. QED
    BY <1>11, <2>1 DEF LateWrite, LateWriteLost
<1>12. ASSUME NEW p \in Replicas, Crash(p)
       PROVE  /\ "crash" \in FaultKinds /\ UNCHANGED <<responses, stream>>
              /\ swipeOK' = [swipeOK EXCEPT ![p] = 0]
  BY <1>12 DEF Crash, redisVars
<1>13. CASE RedisDropsKey \/ UNCHANGED vars
  BY <1>13 DEF RedisDropsKey, vars, apiVars
<1> HIDE DEF Quiet, Counting, Goto, Done, Answer, Respond, Fault
<1>14. CASE \E g \in Handlers : HandlerStep(g)
  BY <1>5, <1>6, <1>7, <1>8, <1>9, <1>10, <1>11, <1>14 DEF HandlerStep, Quiet
<1>15. CASE \E p \in Replicas : Crash(p)
  BY <1>12, <1>15
<1>16. CASE Quiet
  BY <1>16 DEF Quiet
<1>17. QED
  BY <1>3, <1>4, <1>13, <1>14, <1>15, <1>16 DEF Next

LEMMA TotalsTyped ==
  ASSUME TypeOK
  PROVE  /\ swipeOK \in [Replicas -> Nat] /\ Total(swipeOK) \in Nat
         /\ swipeFail \in [Replicas -> Nat] /\ Total(swipeFail) \in Nat
<1>1. swipeOK \in [Replicas -> Nat] /\ swipeFail \in [Replicas -> Nat]
  BY DEF TypeOK
<1>2. QED
  BY <1>1, ReplicaAssumption, TotalIsPile

\* One more is counted; a replica forgets.
LEMMA TotalCounts ==
  ASSUME NEW counter \in [Replicas -> Nat], NEW g \in Handlers
  PROVE  Total([counter EXCEPT ![ReplicaOf[g]] = counter[ReplicaOf[g]] + 1]) = Total(counter) + 1
<1>0. PICK p \in Replicas : p = ReplicaOf[g]
  BY ReplicaAssumption
<1>1. PICK more : more = [counter EXCEPT ![p] = counter[p] + 1]
  OBVIOUS
<1>2. more \in [Replicas -> Nat] /\ more[p] = counter[p] + 1
      /\ \A x \in Replicas \ {p} : more[x] = counter[x]
  BY <1>1
<1>3. IsFiniteSet(Replicas)
  BY ReplicaAssumption
<1>4. Total(more) + counter[p] = Total(counter) + more[p]
  BY <1>2, <1>3, TotalWith
<1>5. counter[p] \in Nat /\ Total(counter) \in Nat /\ Total(more) \in Nat
  BY <1>2, <1>3, TotalIsPile
<1>6. Total(more) = Total(counter) + 1
  BY <1>2, <1>4, <1>5
<1>7. QED
  BY <1>0, <1>1, <1>6, Zenon

LEMMA TotalForgets ==
  ASSUME NEW counter \in [Replicas -> Nat], NEW p \in Replicas
  PROVE  Total([counter EXCEPT ![p] = 0]) <= Total(counter)
<1>1. PICK less \in [Replicas -> Nat] : less = [counter EXCEPT ![p] = 0]
  OBVIOUS
<1>2. less[p] = 0 /\ \A x \in Replicas \ {p} : less[x] = counter[x]
  BY <1>1
<1>3. IsFiniteSet(Replicas)
  BY ReplicaAssumption
<1>4. Total(less) + counter[p] = Total(counter) + less[p]
  BY <1>2, <1>3, TotalWith
<1>5. counter[p] \in Nat /\ Total(counter) \in Nat /\ Total(less) \in Nat
  BY <1>3, TotalIsPile
<1>6. Total(less) <= Total(counter)
  BY <1>2, <1>4, <1>5
<1>7. QED
  BY <1>1, <1>6, Zenon

\* Grants stay in the stream, and a commit adds one.
LEMMA GrantsGrow ==
  ASSUME TypeOK, [Next]_vars, IsFiniteSet(GrantsIn(stream))
  PROVE  /\ IsFiniteSet(GrantsIn(stream'))
         /\ Cardinality(GrantsIn(stream)) \in Nat /\ Cardinality(GrantsIn(stream')) \in Nat
         /\ Cardinality(GrantsIn(stream)) <= Cardinality(GrantsIn(stream'))
         /\ \A g \in Handlers :
              pc[g] # "idle" /\ stream' = Append(stream, Event(g, "SUCCESS")) =>
                Cardinality(GrantsIn(stream')) = Cardinality(GrantsIn(stream)) + 1
<1> DEFINE n == Len(stream) + 1
<1>1. stream \in Seq(AccessEvents) /\ DOMAIN stream = 1..Len(stream) /\ Len(stream) \in Nat
  <2>1. stream \in Seq(AccessEvents)
    BY DEF TypeOK, CacheTypeOK
  <2>2. QED
    BY <2>1, LenProperties
<1>2. GrantsIn(stream) \subseteq GrantsIn(stream')
  BY StreamGrows DEF GrantsIn
<1>3. IsFiniteSet(GrantsIn(stream'))
  <2>1. CASE stream' = stream
    BY <2>1
  <2>2. CASE stream' # stream
    <3>1. DOMAIN stream' = 1..n /\ n \in Nat
      <4>1. PICK g \in Handlers, st \in Statuses : pc[g] # "idle" /\ stream' = Append(stream, Event(g, st))
        BY <2>2, Appends DEF Statuses
      <4>2. QED
        BY <1>1, <4>1, CurrentSwipe, Appended DEF TypeOK
    <3>2. IsFiniteSet(1..n)
      BY <1>1, <3>1, FS_Interval
    <3>3. GrantsIn(stream') \in SUBSET (1..n)
      BY <3>1 DEF GrantsIn
    <3>4. QED
      BY <3>2, <3>3, FS_Subset
  <2>3. QED
    BY <2>1, <2>2
<1>4. /\ Cardinality(GrantsIn(stream)) \in Nat /\ Cardinality(GrantsIn(stream')) \in Nat
      /\ Cardinality(GrantsIn(stream)) <= Cardinality(GrantsIn(stream'))
  BY <1>2, <1>3, FS_Subset, FS_CardinalityType
<1>5. ASSUME NEW g \in Handlers, pc[g] # "idle", stream' = Append(stream, Event(g, "SUCCESS"))
      PROVE  Cardinality(GrantsIn(stream')) = Cardinality(GrantsIn(stream)) + 1
  <2>1. PICK e : e = Event(g, "SUCCESS")
    OBVIOUS
  <2>2. e \in AccessEvents /\ e.status = "SUCCESS"
    BY <1>5, <2>1, CurrentSwipe DEF Event, Statuses
  <2>3. /\ DOMAIN stream' = 1..n /\ stream'[n] = e
        /\ \A i \in DOMAIN stream : i \in DOMAIN stream' /\ stream'[i] = stream[i]
    BY <1>5, <2>1, <2>2, Appended DEF TypeOK
  <2>4. GrantsIn(stream') = GrantsIn(stream) \cup {n} /\ n \notin GrantsIn(stream)
    BY <1>1, <2>2, <2>3 DEF GrantsIn
  <2>5. Cardinality(GrantsIn(stream) \cup {n}) = Cardinality(GrantsIn(stream)) + 1
    BY <2>4, FS_AddElement, Zenon
  <2>6. QED
    BY <2>4, <2>5, Zenon
<1>6. QED
  BY <1>3, <1>4, <1>5

LEMMA CountersStep ==
  ASSUME TypeOK, CountersInv, [Next]_vars
  PROVE  CountersInv'
<1> DEFINE ok == Total(swipeOK)
           fail == Total(swipeFail)
           answered(status) == Cardinality(Answers(responses, status))
           answeredNext(status) == Cardinality(Answers(responses', status))
           waiting(stage) == Cardinality(At(pc, stage))
           waitingNext(stage) == Cardinality(At(pc', stage))
           granted == Cardinality(GrantsIn(stream))
           grantedNext == Cardinality(GrantsIn(stream'))
           Balanced ==
             "crash" \notin FaultKinds =>
               /\ answered("SUCCESS") + waiting("setActive") <= ok
               /\ answered("REJECTED_APB") + waiting("publish") <= fail
           Settled ==
             /\ IsFiniteSet(responses') /\ Total(swipeOK') <= grantedNext
             /\ "crash" \notin FaultKinds =>
                  /\ answeredNext("SUCCESS") + waitingNext("setActive") <= Total(swipeOK')
                  /\ answeredNext("REJECTED_APB") + waitingNext("publish") <= Total(swipeFail')
<1>1. /\ IsFiniteSet(responses) /\ ok <= granted /\ Balanced
      /\ IsFiniteSet(GrantsIn(stream))
  BY DEF CountersInv
<1>2. ok \in Nat /\ fail \in Nat
      /\ swipeOK \in [Replicas -> Nat] /\ swipeFail \in [Replicas -> Nat]
  BY TotalsTyped
<1>3. /\ IsFiniteSet(GrantsIn(stream')) /\ granted \in Nat /\ grantedNext \in Nat
      /\ granted <= grantedNext
      /\ \A g \in Handlers :
           pc[g] # "idle" /\ stream' = Append(stream, Event(g, "SUCCESS")) =>
             grantedNext = granted + 1
  BY <1>1, GrantsGrow
<1>4. \A stage : waiting(stage) \in Nat /\ waitingNext(stage) \in Nat
  BY AtIsFinite
<1>5. pc \in [Handlers -> Stages]
  BY DEF TypeOK, HandlersTypeOK
<1>6. ASSUME NEW a, NEW status, responses' = responses \cup {a}
      PROVE  /\ IsFiniteSet(responses') /\ answered(status) \in Nat /\ answeredNext(status) \in Nat
             /\ answeredNext(status) <= answered(status) + 1
             /\ a.status # status => answeredNext(status) = answered(status)
  <2>1. PICK given, more : given = responses /\ more = given \cup {a}
    OBVIOUS
  <2>2. /\ IsFiniteSet(more) /\ Cardinality(Answers(given, status)) \in Nat
        /\ Cardinality(Answers(more, status)) \in Nat
        /\ Cardinality(Answers(more, status)) <= Cardinality(Answers(given, status)) + 1
        /\ a.status # status =>
             Cardinality(Answers(more, status)) = Cardinality(Answers(given, status))
    BY <1>1, <2>1, AnswersGrow, Zenon
  <2>3. responses = given /\ responses' = more
    BY <1>6, <2>1
  <2>4. QED
    BY <2>2, <2>3, Zenon
<1>7. \A status : /\ answered(status) \in Nat
                  /\ responses' = responses => answeredNext(status) = answered(status)
  <2>1. ASSUME NEW status PROVE answered(status) \in Nat
    <3>1. PICK a : a = 0
      OBVIOUS
    <3>2. QED
      BY <1>1, <3>1, AnswersGrow
  <2>2. QED
    BY <2>1
<1>8. ASSUME NEW g \in Handlers, NEW next \in Stages, NEW stage, pc' = [pc EXCEPT ![g] = next]
      PROVE  /\ pc[g] # stage /\ next = stage => waitingNext(stage) = waiting(stage) + 1
             /\ pc[g] = stage /\ next # stage => waitingNext(stage) = waiting(stage) - 1
             /\ (pc[g] = stage <=> next = stage) => waitingNext(stage) = waiting(stage)
  BY <1>5, <1>8, AtMoves, ZenonT(40)
<1>9. \A stage : pc' = pc => waitingNext(stage) = waiting(stage)
  OBVIOUS
<1>10. {"idle", "publish", "setActive", "lateSetActive"} \subseteq Stages
  BY DEF Stages, Writing, Late
<1>11. /\ UNCHANGED Counting => Total(swipeOK') = ok /\ Total(swipeFail') = fail
       /\ swipeOK' = swipeOK => Total(swipeOK') = ok
       /\ swipeFail' = swipeFail => Total(swipeFail') = fail
  BY DEF Counting
<1> HIDE DEF ok, fail, answered, answeredNext, waiting, waitingNext, granted, grantedNext
<1> USE <1>1, <1>2, <1>3, <1>4, <1>7
<1>12. ASSUME UNCHANGED Counting,
              \/ responses' = responses
              \/ \E a : a.status = "ERROR" /\ responses' = responses \cup {a},
              \/ pc' = pc
              \/ \E g \in Handlers, next \in Stages \ {"publish", "setActive"} :
                   pc[g] # "setActive" /\ pc' = [pc EXCEPT ![g] = next]
       PROVE  Settled
  <2>1. /\ IsFiniteSet(responses')
        /\ answeredNext("SUCCESS") = answered("SUCCESS")
        /\ answeredNext("REJECTED_APB") = answered("REJECTED_APB")
    BY <1>6, <1>12
  <2>2. waitingNext("setActive") = waiting("setActive") /\ waitingNext("publish") <= waiting("publish")
    BY <1>8, <1>9, <1>12, SMTT(30)
  <2>3. QED
    BY <1>11, <1>12, <2>1, <2>2
<1>13. ASSUME NEW g \in Handlers,
              pc[g] \in Reading, pc' = [pc EXCEPT ![g] = "publish"],
              swipeOK' = swipeOK, responses' = responses,
              swipeFail' = [swipeFail EXCEPT ![ReplicaOf[g]] = swipeFail[ReplicaOf[g]] + 1]
       PROVE  Settled
  <2>1. pc[g] # "setActive" /\ pc[g] # "publish"
    BY <1>13 DEF Reading
  <2>2. waitingNext("setActive") = waiting("setActive") /\ waitingNext("publish") = waiting("publish") + 1
    BY <1>8, <1>10, <1>13, <2>1
  <2>3. Total(swipeFail') = fail + 1
    BY <1>13, TotalCounts DEF fail
  <2>4. QED
    BY <1>11, <1>13, <2>2, <2>3, SMTT(30)
<1>14. ASSUME NEW g \in Handlers, NEW a,
              pc[g] = "publish", pc' = [pc EXCEPT ![g] = "idle"],
              a.status = "REJECTED_APB", responses' = responses \cup {a}, UNCHANGED Counting
       PROVE  Settled
  <2>1. waitingNext("setActive") = waiting("setActive") /\ waitingNext("publish") = waiting("publish") - 1
    BY <1>8, <1>10, <1>14, ZenonT(40)
  <2>2. /\ IsFiniteSet(responses') /\ answeredNext("SUCCESS") = answered("SUCCESS")
        /\ answeredNext("REJECTED_APB") \in Nat
        /\ answeredNext("REJECTED_APB") <= answered("REJECTED_APB") + 1
    BY <1>6, <1>14
  <2>3. QED
    BY <1>11, <1>14, <2>1, <2>2, SMTT(30)
<1>15. ASSUME NEW g \in Handlers,
              pc[g] = "commit",
              swipeOK' = [swipeOK EXCEPT ![ReplicaOf[g]] = swipeOK[ReplicaOf[g]] + 1],
              stream' = Append(stream, Event(g, "SUCCESS")), swipeFail' = swipeFail,
              \/ pc' = [pc EXCEPT ![g] = "setActive"] /\ responses' = responses
              \/ /\ pc' = [pc EXCEPT ![g] = "idle"]
                 /\ \E a : a.status = "SUCCESS" /\ responses' = responses \cup {a}
       PROVE  Settled
  <2>1. Total(swipeOK') = ok + 1
    BY <1>15, TotalCounts DEF ok
  <2>2. grantedNext = granted + 1
    BY <1>15
  <2>3. waitingNext("publish") = waiting("publish")
    BY <1>8, <1>10, <1>15
  <2>4. CASE pc' = [pc EXCEPT ![g] = "setActive"] /\ responses' = responses
    <3>1. waitingNext("setActive") = waiting("setActive") + 1
      BY <1>8, <1>10, <1>15, <2>4
    <3>2. QED
      BY <1>11, <1>15, <2>1, <2>2, <2>3, <2>4, <3>1, SMTT(30)
  <2>5. ASSUME NEW a, pc' = [pc EXCEPT ![g] = "idle"], a.status = "SUCCESS",
               responses' = responses \cup {a}
        PROVE  Settled
    <3>1. waitingNext("setActive") = waiting("setActive")
      BY <1>8, <1>10, <1>15, <2>5, ZenonT(40)
    <3>2. /\ IsFiniteSet(responses') /\ answeredNext("REJECTED_APB") = answered("REJECTED_APB")
          /\ answeredNext("SUCCESS") \in Nat
          /\ answeredNext("SUCCESS") <= answered("SUCCESS") + 1
      BY <1>6, <2>5
    <3>3. QED
      BY <1>11, <1>15, <2>1, <2>2, <2>3, <3>1, <3>2, SMTT(30)
  <2>6. QED
    BY <1>15, <2>4, <2>5
<1>16. ASSUME NEW g \in Handlers, NEW next \in {"idle", "lateSetActive"}, NEW a,
              pc[g] = "setActive", pc' = [pc EXCEPT ![g] = next],
              a.status = "SUCCESS", responses' = responses \cup {a}, UNCHANGED Counting
       PROVE  Settled
  <2>1. /\ waitingNext("setActive") = waiting("setActive") - 1
        /\ waitingNext("publish") = waiting("publish")
    BY <1>8, <1>10, <1>16
  <2>2. /\ IsFiniteSet(responses') /\ answeredNext("REJECTED_APB") = answered("REJECTED_APB")
        /\ answeredNext("SUCCESS") \in Nat
        /\ answeredNext("SUCCESS") <= answered("SUCCESS") + 1
    BY <1>6, <1>16
  <2>3. QED
    BY <1>11, <1>16, <2>1, <2>2, SMTT(30)
<1>17. ASSUME NEW p \in Replicas, "crash" \in FaultKinds, UNCHANGED <<responses, stream>>,
              swipeOK' = [swipeOK EXCEPT ![p] = 0]
       PROVE  Settled
  <2>1. Total(swipeOK') <= ok /\ Total(swipeOK') \in Nat
    <3>1. Total(swipeOK') <= ok
      BY <1>17, TotalForgets DEF ok
    <3>2. swipeOK' \in [Replicas -> Nat] /\ IsFiniteSet(Replicas)
      BY <1>17, ReplicaAssumption
    <3>3. QED
      BY <3>1, <3>2, TotalIsPile
  <2>2. QED
    BY <1>17, <2>1
<1> HIDE DEF Settled
<1>18. Settled
  BY <1>12, <1>13, <1>14, <1>15, <1>16, <1>17, CounterSteps
<1>19. QED
  BY <1>18 DEF Settled, CountersInv, answeredNext, waitingNext, grantedNext

\* No grant is counted that is not in the stream, and as long as no replica is
\* killed every 200 and every 403 has been counted: the counters of main.go
\* are incremented before the answer and after the commit.
THEOREM CountersAgree == Spec => []CountersMatchAnswers
<1>1. Init => CountersInv
  <2>1. SUFFICES ASSUME Init PROVE CountersInv
    OBVIOUS
  <2>2. responses = {} /\ DOMAIN stream = {} /\ \A h \in Handlers : pc[h] = "idle"
    BY <2>1, NothingAtFirst DEF Init
  <2>3. /\ GrantsIn(stream) = {} /\ \A status : Answers(responses, status) = {}
        /\ At(pc, "setActive") = {} /\ At(pc, "publish") = {}
    BY <2>2 DEF GrantsIn, Answers, At
  <2>4. IsFiniteSet({}) /\ Cardinality({}) = 0
    BY FS_EmptySet
  <2>5. Total(swipeOK) = 0 /\ Total(swipeFail) = 0
    <3>1. swipeOK = [p \in Replicas |-> 0] /\ swipeFail = [p \in Replicas |-> 0]
      BY <2>1 DEF Init
    <3>2. [p \in Replicas |-> 0] \in [Replicas -> Nat] /\ IsFiniteSet(Replicas)
      BY ReplicaAssumption
    <3>3. Total([p \in Replicas |-> 0]) = Cardinality(Pile([p \in Replicas |-> 0], Replicas))
      BY <3>2, TotalIsPile
    <3>4. Pile([p \in Replicas |-> 0], Replicas) = {}
      BY DEF Pile
    <3>5. QED
      BY <2>4, <3>1, <3>3, <3>4, Zenon
  <2>6. /\ \A status : Cardinality(Answers(responses, status)) = 0
        /\ Cardinality(At(pc, "setActive")) = 0 /\ Cardinality(At(pc, "publish")) = 0
        /\ Cardinality(GrantsIn(stream)) = 0
    BY <2>3, <2>4, Zenon
  <2>7. IsFiniteSet(responses) /\ IsFiniteSet(GrantsIn(stream))
    BY <2>2, <2>3, <2>4
  <2>8. QED
    BY <2>5, <2>6, <2>7 DEF CountersInv
<1>2. TypeOK /\ CountersInv /\ [Next]_vars => CountersInv'
  BY CountersStep
<1>3. TypeOK /\ CountersInv => CountersMatchAnswers
  <2>1. SUFFICES ASSUME TypeOK, CountersInv PROVE CountersMatchAnswers
    OBVIOUS
  <2>2. Cardinality({i \in DOMAIN stream : Granted(i)}) = Cardinality(GrantsIn(stream))
    BY Zenon DEF GrantsIn, Granted
  <2>3. \A status : Answered(status) = Cardinality(Answers(responses, status))
    BY Zenon DEF Answered, Answers
  <2>4. \A status : Cardinality(Answers(responses, status)) \in Nat
    <3>1. PICK a : a = 0
      OBVIOUS
    <3>2. QED
      BY <2>1, <3>1, AnswersGrow DEF CountersInv
  <2>5. QED
    BY <2>1, <2>2, <2>3, <2>4, AtIsFinite, TotalsTyped DEF CountersInv, CountersMatchAnswers
<1>4. QED
  BY <1>1, <1>2, <1>3, TypeCorrect, PTL DEF Spec
=============================================================================
