---------------------------- MODULE AccessApiProps ----------------------------
(***************************************************************************)
(* What the swipe handler has to keep true.  The first group holds for     *)
(* every interleaving, crash and lost answer; the second group needs the   *)
(* swipes of one badge to come one after the other (Overlap = FALSE) and   *)
(* Redis to keep its keys.                                                 *)
(***************************************************************************)
EXTENDS AccessApi, Totals

CacheTypeOK ==
  /\ apb \in [ApbKeys -> Directions \cup {""}]
  /\ activeSite \in [Badges -> SiteKeys \cup {""}]
  /\ stream \in Seq(AccessEvents)

HandlersTypeOK ==
  /\ pc \in [Handlers -> Stages]
  /\ current \in [Handlers -> Swipes \cup {NoSwipe}]
  /\ \A h \in Handlers : pc[h] # "idle" => current[h] \in Swipes
  /\ \A h \in Handlers : pc[h] \in {"publish", "latePublish"} => current[h].code \in RejectCodes

TypeOK ==
  /\ CacheTypeOK
  /\ HandlersTypeOK
  /\ responses \subseteq Responses
  /\ received \in Nat
  /\ swipeOK \in [Replicas -> Nat]
  /\ swipeFail \in [Replicas -> Nat]
  /\ faults \in Nat

-----------------------------------------------------------------------------
\* Entry i of the stream is a granted swipe / a granted swipe filed under key k.
Granted(i) == stream[i].status = "SUCCESS"
GrantedFor(k, i) == Granted(i) /\ ApbKey(stream[i].req) = k

\* A recorded direction is the direction of the last granted swipe of that
\* key in the event stream: the gate's state and the audit trail cannot
\* disagree, whatever interleaves or fails, because SET and XADD travel in
\* one MULTI/EXEC (redis.go:98-100).
ApbMatchesStream ==
  \A k \in ApbKeys : apb[k] # "" =>
    \E i \in DOMAIN stream :
      /\ GrantedFor(k, i)
      /\ stream[i].req.direction = apb[k]
      /\ \A j \in DOMAIN stream : j > i => ~GrantedFor(k, j)

\* Every swipe answered 200 or 403 has its event in the stream, with the
\* status that was answered: no decision leaves the gate unrecorded
\* (publishSwipeEvent and commitSuccessfulSwipe fail closed).
AnswersAreRecorded ==
  \A a \in responses : a.status # "ERROR" =>
    \E i \in DOMAIN stream : stream[i].swipe = a.swipe /\ stream[i].status = a.status

\* No swipe is both granted and rejected, none is granted twice, however its
\* writes are delayed, repeated or cut off: a rejected person's badge state
\* is never moved by the rejected swipe.
OneVerdictPerSwipe ==
  \A i, j \in DOMAIN stream : i # j /\ stream[i].swipe = stream[j].swipe =>
    ~Granted(i) /\ ~Granted(j)

\* Each granted tier-2 entry was preceded by a granted tier-1 entry of the
\* same badge at the same site (main.go:155-187), even when the tier-1 state
\* has changed between the check and the commit.
OuterGateFirst ==
  \A i \in DOMAIN stream :
    LET r == stream[i].req
    IN  Granted(i) /\ r.direction = "IN" /\ GateTier(r.gate) = 2 =>
          \E j \in DOMAIN stream :
            j < i /\ GrantedFor(TierKey(r, 1), j) /\ stream[j].req.direction = "IN"

\* A badge is on record as being inside a site only if the stream holds a
\* granted tier-1 entry of that badge there, also when the update of
\* active_site arrives late or overtakes another one (main.go:267-273).
ActiveSiteWasEntered ==
  \A b \in Badges : activeSite[b] # "" =>
    \E i \in DOMAIN stream :
      GrantedFor(<<activeSite[b], 1, b>>, i) /\ stream[i].req.direction = "IN"

\* Only a grant moves a badge: a step that changes a recorded direction
\* appends the granted swipe of that very key, or is Redis dropping the key.
OnlyGrantsMoveBadges ==
  [][\A k \in ApbKeys : apb'[k] # apb[k] =>
       \/ apb'[k] = "" /\ faults' = faults + 1
       \/ /\ Len(stream') = Len(stream) + 1
          /\ stream'[Len(stream')].status = "SUCCESS"
          /\ ApbKey(stream'[Len(stream')].req) = k
          /\ apb'[k] = stream'[Len(stream')].req.direction]_vars

\* The counters of /metrics, which are in memory only, against what lasts: no
\* grant is counted that is not in the stream, and as long as no replica is
\* killed every 200 and every 403 that was answered has been counted.
Answered(status) == Cardinality({a \in responses : a.status = status})

CountersMatchAnswers ==
  /\ Total(swipeOK) <= Cardinality({i \in DOMAIN stream : Granted(i)})
  /\ "crash" \notin FaultKinds =>
       /\ Answered("SUCCESS") <= Total(swipeOK)
       /\ Answered("REJECTED_APB") <= Total(swipeFail)

\* A request that was accepted is answered or abandoned by its handler.
EveryHandlerFinishes == \A h \in Handlers : (pc[h] # "idle") ~> (pc[h] = "idle")

-----------------------------------------------------------------------------
(* The anti-passback rules proper, for swipes of a badge that do not overlap. *)

\* FR-2: two consecutive granted swipes of a badge at one tier of a site are
\* never in the same direction.
Alternation ==
  \A i, j \in DOMAIN stream :
    /\ i < j
    /\ Granted(i)
    /\ GrantedFor(ApbKey(stream[i].req), j)
    /\ \A m \in (i + 1)..(j - 1) : ~GrantedFor(ApbKey(stream[i].req), m)
    => stream[i].req.direction # stream[j].req.direction

\* A badge inside tier 2 is inside tier 1 of the same site.
TierNesting ==
  \A s \in SiteKeys, b \in Badges : apb[<<s, 2, b>>] = "IN" => apb[<<s, 1, b>>] = "IN"

\* With non-overlapping swipes the concurrent handler, its faults included,
\* implements the gate that decides and records each swipe in one step.
Gate == INSTANCE Turnstile WITH
  direction <- apb, log <- stream, SwipeNumbers <- 1..MaxSwipes

ImplementsTurnstile == Gate!Spec

Inside(b) == {s \in SiteKeys : apb[<<s, 1, b>>] = "IN"}

\* Without lost writes, a site on record as active is one the badge is
\* inside, whenever no swipe of the badge is under way.
ActiveSiteIsInside ==
  \A b \in Badges : ~InFlight(b) /\ activeSite[b] # "" => activeSite[b] \in Inside(b)

\* The comment at main.go:121: a badge is inside at most one site.
OneSiteAtATime == \A b \in Badges : \A s, t \in Inside(b) : s = t

\* Entry i is a granted tier-1 exit of a badge from a site it had no record
\* of entering: the anti-passback check lets it pass (no record) and it
\* clears the active site of the badge.
StrayExit(i) ==
  /\ Granted(i)
  /\ stream[i].req.direction = "OUT"
  /\ GateTier(stream[i].req.gate) = 1
  /\ \A j \in DOMAIN stream : j < i => ~GrantedFor(ApbKey(stream[i].req), j)

\* What does hold of exclusivity: a badge gets inside two sites only after a
\* stray exit of that badge.
TwoSitesNeedStrayExit ==
  \A b \in Badges : Cardinality(Inside(b)) > 1 =>
    \E i \in DOMAIN stream : StrayExit(i) /\ stream[i].req.badge = b
=============================================================================
