------------------------------- MODULE AccessApi -------------------------------
(***************************************************************************)
(* The swipe handler of backend/cmd/access-api/main.go, run by the request *)
(* goroutines of several replicas against one Redis.  handleSwipe makes up *)
(* to four Redis calls and holds no lock, so each call is a step of its    *)
(* own: what a handler read may be stale when it writes.                   *)
(*                                                                         *)
(* Faults.  A call may fail without effect; the answer to a write may be   *)
(* lost while the write is still under way, so that it lands later or      *)
(* never (the "late" control states); the client library may repeat an     *)
(* XADD whose answer was lost; Redis may drop a key; a replica may be      *)
(* killed with requests in flight.                                         *)
(***************************************************************************)
EXTENDS RedisCache, FiniteSets

CONSTANTS
  Handlers,    \* request goroutines
  Replicas,    \* access-api processes
  ReplicaOf,   \* the replica a handler runs in
  Overlap,     \* FALSE: a badge is swiped again only once its last swipe is over
  FaultKinds,  \* which faults may occur, out of AllFaultKinds
  MaxSwipes,   \* bound: requests received
  MaxFaults    \* bound: faults that occur

AllFaultKinds == {"read", "write", "repeat", "drop", "crash"}

ASSUME ReplicaAssumption ==
  ReplicaOf \in [Handlers -> Replicas] /\ IsFiniteSet(Handlers) /\ IsFiniteSet(Replicas)
ASSUME OverlapAssumption == Overlap \in BOOLEAN
ASSUME FaultAssumption   == FaultKinds \subseteq AllFaultKinds
ASSUME BoundAssumption   == MaxSwipes \in Nat /\ MaxFaults \in Nat

VARIABLES
  pc,         \* the Redis call each handler is about to make
  current,    \* the request each handler serves: [swipe, req, code]
  responses,  \* the answers given so far: [swipe, status, code]
  received,   \* number of requests received so far
  swipeOK,    \* per replica: the counters behind /metrics
  swipeFail,
  faults      \* number of faults so far

apiVars == <<pc, current, responses, received, swipeOK, swipeFail, faults>>
vars == <<redisVars, apiVars>>

-----------------------------------------------------------------------------
Reading == {"crossSite", "tierCheck", "apbCheck"}
Writing == {"publish", "commit", "setActive"}
Late    == {"latePublish", "lateCommit", "lateSetActive"}

Stages == {"idle"} \cup Reading \cup Writing \cup Late

LateOf(stage) ==
  IF stage = "publish" THEN "latePublish"
  ELSE IF stage = "commit" THEN "lateCommit" ELSE "lateSetActive"

RejectCodes == {"ERR_CROSS_SITE", "ERR_TIER_VIOLATION", "ERR_ANTI_PASSBACK"}
ErrorCodes  == {"ERR_INVALID_REQUEST", "ERR_SYSTEM_UNAVAILABLE"}

Responses == [swipe : Nat, status : {"SUCCESS"}, code : {""}]
        \cup [swipe : Nat, status : {"REJECTED_APB"}, code : RejectCodes]
        \cup [swipe : Nat, status : {"ERROR"}, code : ErrorCodes]

Swipes == [swipe : Nat, req : Requests, code : RejectCodes \cup {""}]

\* What an idle handler holds.
NoSwipe == [swipe |-> 0, code |-> "",
            req |-> [badge |-> "", site |-> "", gate |-> <<0>>, direction |-> ""]]

Req(h)  == current[h].req
Tier(h) == GateTier(Req(h).gate)

Event(h, status) == [swipe |-> current[h].swipe, req |-> Req(h), status |-> status]

Init ==
  /\ EmptyRedis
  /\ pc = [h \in Handlers |-> "idle"]
  /\ current = [h \in Handlers |-> NoSwipe]
  /\ responses = {}
  /\ received = 0
  /\ swipeOK = [p \in Replicas |-> 0]
  /\ swipeFail = [p \in Replicas |-> 0]
  /\ faults = 0

Goto(h, stage) == pc' = [pc EXCEPT ![h] = stage]

Done(h) ==
  /\ Goto(h, "idle")
  /\ current' = [current EXCEPT ![h] = NoSwipe]

Respond(n, status, code) ==
  responses' = responses \cup {[swipe |-> n, status |-> status, code |-> code]}

Answer(h, status, code) == Respond(current[h].swipe, status, code)

Fault(kind) ==
  /\ kind \in FaultKinds
  /\ faults < MaxFaults
  /\ faults' = faults + 1

-----------------------------------------------------------------------------
\* A body that does not bind (missing field, unknown direction) is answered
\* 400 before Redis is asked anything.
BadRequest(h) ==
  /\ pc[h] = "idle"
  /\ received < MaxSwipes
  /\ received' = received + 1
  /\ Respond(received + 1, "ERROR", "ERR_INVALID_REQUEST")
  /\ UNCHANGED <<redisVars, pc, current, swipeOK, swipeFail, faults>>

\* Mutant: a tier-1 exit skips the tier check.
FirstCheck_ExitUnchecked(r) ==
  IF r.direction = "IN" /\ GateTier(r.gate) = 1 THEN "crossSite"
  ELSE IF r.direction = "IN" /\ GateTier(r.gate) = 2 THEN "tierCheck"
  ELSE "apbCheck"

\* The checks a request is subject to: cross-site on tier-1 IN, the tier
\* hierarchy on tier-2 IN and tier-1 OUT, anti-passback on every swipe.
FirstCheck(r) ==
  LET tier == GateTier(r.gate) IN
  IF r.direction = "IN" /\ tier = 1 THEN "crossSite"
  ELSE IF <<r.direction, tier>> \in {<<"IN", 2>>, <<"OUT", 1>>} THEN "tierCheck"
  ELSE "apbCheck"

InFlight(b) == \E h \in Handlers : pc[h] # "idle" /\ Req(h).badge = b

Receive(h, r) ==
  /\ pc[h] = "idle"
  /\ received < MaxSwipes
  /\ Overlap \/ ~InFlight(r.badge)
  /\ received' = received + 1
  /\ current' = [current EXCEPT ![h] = [swipe |-> received + 1, req |-> r, code |-> ""]]
  /\ Goto(h, FirstCheck(r))
  /\ UNCHANGED <<redisVars, responses, swipeOK, swipeFail, faults>>

-----------------------------------------------------------------------------
\* Mutants: a rejection without its error code; one that is not counted.
Reject_NoCode(h, code) ==
  /\ swipeFail' = [swipeFail EXCEPT ![ReplicaOf[h]] = @ + 1]
  /\ Goto(h, "publish")
  /\ UNCHANGED current

Reject_NotCounted(h, code) ==
  /\ current' = [current EXCEPT ![h].code = code]
  /\ Goto(h, "publish")
  /\ UNCHANGED swipeFail

\* A check that fails counts the rejection, then its event is published.
Reject(h, code) ==
  /\ swipeFail' = [swipeFail EXCEPT ![ReplicaOf[h]] = @ + 1]
  /\ current' = [current EXCEPT ![h].code = code]
  /\ Goto(h, "publish")

Pass(h, stage) ==
  /\ Goto(h, stage)
  /\ UNCHANGED <<current, swipeFail>>

\* Mutant: sites are not exclusive.
InsideAnotherSite_Never(h) == FALSE

InsideAnotherSite(h) ==
  GetActiveSite(Req(h).badge) \notin {"", SiteKey(Req(h).site)}

CrossSiteCheck(h) ==
  /\ pc[h] = "crossSite"
  /\ IF InsideAnotherSite(h) THEN Reject(h, "ERR_CROSS_SITE") ELSE Pass(h, "apbCheck")
  /\ UNCHANGED <<redisVars, responses, received, swipeOK, faults>>

\* Mutants: one of the two rules of the tier hierarchy is missing.
TierViolation_OnlyOut(r) == r.direction = "OUT" /\ GetState(TierKey(r, 2)) = "IN"

TierViolation_OnlyIn(r) == r.direction = "IN" /\ GetState(TierKey(r, 1)) # "IN"

\* IN at tier 2 needs tier 1 IN; OUT at tier 1 needs tier 2 not IN.
TierViolation(r) ==
  \/ r.direction = "IN"  /\ GetState(TierKey(r, 1)) # "IN"
  \/ r.direction = "OUT" /\ GetState(TierKey(r, 2)) = "IN"

TierCheck(h) ==
  /\ pc[h] = "tierCheck"
  /\ IF TierViolation(Req(h)) THEN Reject(h, "ERR_TIER_VIOLATION") ELSE Pass(h, "apbCheck")
  /\ UNCHANGED <<redisVars, responses, received, swipeOK, faults>>

ApbCheck(h) ==
  /\ pc[h] = "apbCheck"
  /\ IF CheckAntiPassback(ApbKey(Req(h)), Req(h).direction)
       THEN Pass(h, "commit")
       ELSE Reject(h, "ERR_ANTI_PASSBACK")
  /\ UNCHANGED <<redisVars, responses, received, swipeOK, faults>>

\* Fail-closed: a check that cannot read Redis answers 503 and changes nothing.
ReadFails(h) ==
  /\ pc[h] \in Reading
  /\ Fault("read")
  /\ Answer(h, "ERROR", "ERR_SYSTEM_UNAVAILABLE")
  /\ Done(h)
  /\ UNCHANGED <<redisVars, received, swipeOK, swipeFail>>

-----------------------------------------------------------------------------
\* Mutants: a 403 that is not published; a rejected swipe that moves the
\* badge; a missing return, so that the rejected swipe goes on to its commit.
PublishRejection_Unrecorded(h) ==
  /\ pc[h] = "publish"
  /\ Answer(h, "REJECTED_APB", current[h].code)
  /\ Done(h)
  /\ UNCHANGED <<redisVars, received, swipeOK, swipeFail, faults>>

PublishRejection_Moves(h) ==
  /\ pc[h] = "publish"
  /\ SetDirectionAndPublishEvent(ApbKey(Req(h)), Req(h).direction, Event(h, "REJECTED_APB"))
  /\ Answer(h, "REJECTED_APB", current[h].code)
  /\ Done(h)
  /\ UNCHANGED <<received, swipeOK, swipeFail, faults>>

PublishRejection_FallsThrough(h) ==
  /\ pc[h] = "publish"
  /\ PublishEvent(Event(h, "REJECTED_APB"))
  /\ Answer(h, "REJECTED_APB", current[h].code)
  /\ Goto(h, "commit")
  /\ UNCHANGED <<current, received, swipeOK, swipeFail, faults>>

PublishRejection(h) ==
  /\ pc[h] = "publish"
  /\ PublishEvent(Event(h, "REJECTED_APB"))
  /\ Answer(h, "REJECTED_APB", current[h].code)
  /\ Done(h)
  /\ UNCHANGED <<received, swipeOK, swipeFail, faults>>

\* The answer to XADD is lost and the client library sends it again.
PublishRepeats(h) ==
  /\ pc[h] = "publish"
  /\ Fault("repeat")
  /\ PublishEvent(Event(h, "REJECTED_APB"))
  /\ UNCHANGED <<pc, current, responses, received, swipeOK, swipeFail>>

\* A granted swipe answers now, or after active_site has been brought up to date.
CommitSwipe(h) ==
  /\ pc[h] = "commit"
  /\ SetDirectionAndPublishEvent(ApbKey(Req(h)), Req(h).direction, Event(h, "SUCCESS"))
  /\ swipeOK' = [swipeOK EXCEPT ![ReplicaOf[h]] = @ + 1]
  /\ IF Tier(h) = 1
       THEN Goto(h, "setActive") /\ UNCHANGED <<current, responses>>
       ELSE Done(h) /\ Answer(h, "SUCCESS", "")
  /\ UNCHANGED <<received, swipeFail, faults>>

\* Mutants: the two directions swapped; an exit that does not clear.
WriteActiveSite_Swapped(h) ==
  IF Req(h).direction = "OUT"
    THEN SetActiveSite(Req(h).badge, SiteKey(Req(h).site))
    ELSE ClearActiveSite(Req(h).badge)

WriteActiveSite_NeverCleared(h) ==
  IF Req(h).direction = "IN"
    THEN SetActiveSite(Req(h).badge, SiteKey(Req(h).site))
    ELSE UNCHANGED redisVars

WriteActiveSite(h) ==
  IF Req(h).direction = "IN"
    THEN SetActiveSite(Req(h).badge, SiteKey(Req(h).site))
    ELSE ClearActiveSite(Req(h).badge)

\* Mutants: a grant is counted once more; an exit is never answered.
UpdateActiveSite_CountsAgain(h) ==
  /\ pc[h] = "setActive"
  /\ WriteActiveSite(h)
  /\ swipeOK' = [swipeOK EXCEPT ![ReplicaOf[h]] = @ + 1]
  /\ Answer(h, "SUCCESS", "")
  /\ Done(h)
  /\ UNCHANGED <<received, swipeFail, faults>>

UpdateActiveSite_OnlyIn(h) ==
  /\ pc[h] = "setActive"
  /\ Req(h).direction = "IN"
  /\ WriteActiveSite(h)
  /\ Answer(h, "SUCCESS", "")
  /\ Done(h)
  /\ UNCHANGED <<received, swipeOK, swipeFail, faults>>

UpdateActiveSite(h) ==
  /\ pc[h] = "setActive"
  /\ WriteActiveSite(h)
  /\ Answer(h, "SUCCESS", "")
  /\ Done(h)
  /\ UNCHANGED <<received, swipeOK, swipeFail, faults>>

\* A write whose answer does not come in time.  publishSwipeEvent and
\* commitSuccessfulSwipe answer 503; the error of the active_site update is
\* dropped and the swipe is answered as granted.
WriteFails(h) ==
  /\ pc[h] \in Writing
  /\ Fault("write")
  /\ IF pc[h] = "setActive"
       THEN Answer(h, "SUCCESS", "")
       ELSE Answer(h, "ERROR", "ERR_SYSTEM_UNAVAILABLE")
  /\ Goto(h, LateOf(pc[h]))
  /\ UNCHANGED <<redisVars, current, received, swipeOK, swipeFail>>

-----------------------------------------------------------------------------
\* A write that outlived its handler reaches Redis, or never does.
LateWrite(h) ==
  /\ \/ /\ pc[h] = "latePublish"
        /\ PublishEvent(Event(h, "REJECTED_APB"))
     \/ /\ pc[h] = "lateCommit"
        /\ SetDirectionAndPublishEvent(ApbKey(Req(h)), Req(h).direction, Event(h, "SUCCESS"))
     \/ /\ pc[h] = "lateSetActive"
        /\ WriteActiveSite(h)
  /\ Done(h)
  /\ UNCHANGED <<responses, received, swipeOK, swipeFail, faults>>

LateWriteLost(h) ==
  /\ pc[h] \in Late
  /\ Done(h)
  /\ UNCHANGED <<redisVars, responses, received, swipeOK, swipeFail, faults>>

\* A replica is killed: its requests get no answer, the writes it had sent
\* may still land, its counters start again from zero.
AfterCrash(stage) ==
  IF stage \in Writing THEN LateOf(stage) ELSE IF stage \in Late THEN stage ELSE "idle"

Crash(p) ==
  /\ Fault("crash")
  /\ \E h \in Handlers : ReplicaOf[h] = p /\ pc[h] \in Reading \cup Writing
  /\ pc' = [h \in Handlers |-> IF ReplicaOf[h] = p THEN AfterCrash(pc[h]) ELSE pc[h]]
  /\ current' = [h \in Handlers |-> IF pc'[h] = "idle" THEN NoSwipe ELSE current[h]]
  /\ swipeOK' = [swipeOK EXCEPT ![p] = 0]
  /\ swipeFail' = [swipeFail EXCEPT ![p] = 0]
  /\ UNCHANGED <<redisVars, responses, received>>

RedisDropsKey ==
  /\ Fault("drop")
  /\ \/ \E k \in ApbKeys : DropApbKey(k)
     \/ \E b \in Badges : DropActiveSite(b)
  /\ UNCHANGED <<pc, current, responses, received, swipeOK, swipeFail>>

-----------------------------------------------------------------------------
\* One step of a handler that serves a request, or of the write it left behind.
HandlerStep(h) ==
  \/ CrossSiteCheck(h) \/ TierCheck(h) \/ ApbCheck(h) \/ ReadFails(h)
  \/ PublishRejection(h) \/ PublishRepeats(h)
  \/ CommitSwipe(h) \/ UpdateActiveSite(h) \/ WriteFails(h)
  \/ LateWrite(h) \/ LateWriteLost(h)

Next ==
  \/ \E h \in Handlers : BadRequest(h)
  \/ \E h \in Handlers, r \in Requests : Receive(h, r)
  \/ \E h \in Handlers : HandlerStep(h)
  \/ \E p \in Replicas : Crash(p)
  \/ RedisDropsKey

Spec == Init /\ [][Next]_vars

\* Every Redis call returns or times out, and the goroutine is scheduled.
FairSpec == Spec /\ \A h \in Handlers : WF_vars(HandlerStep(h))
=============================================================================
