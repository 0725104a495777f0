------------------------------- MODULE Turnstile -------------------------------
(***************************************************************************)
(* What the gate promises when the swipes of a badge do not overlap: every *)
(* swipe is decided and recorded in one indivisible step.  It is granted   *)
(* only if the badge changes direction at that tier and respects the tier  *)
(* hierarchy; it is refused only if it breaks one of these rules or is the *)
(* entry of a site (where exclusivity between sites may refuse it).        *)
(***************************************************************************)
EXTENDS SwipeModels

CONSTANT SwipeNumbers

VARIABLES
  direction,  \* last granted direction of each key, "" before the first one
  log         \* the decisions, oldest first

MayPass(r) ==
  /\ direction[ApbKey(r)] # r.direction
  /\ r.direction = "IN"  /\ GateTier(r.gate) = 2 => direction[TierKey(r, 1)] = "IN"
  /\ r.direction = "OUT" /\ GateTier(r.gate) = 1 => direction[TierKey(r, 2)] # "IN"

EntersSite(r) == r.direction = "IN" /\ GateTier(r.gate) = 1

Record(n, r, status) == log' = Append(log, [swipe |-> n, req |-> r, status |-> status])

Grant(n, r) ==
  /\ MayPass(r)
  /\ Record(n, r, "SUCCESS")
  /\ direction' = [direction EXCEPT ![ApbKey(r)] = r.direction]

Refuse(n, r) ==
  /\ ~MayPass(r) \/ EntersSite(r)
  /\ Record(n, r, "REJECTED_APB")
  /\ UNCHANGED direction

Init ==
  /\ direction = [k \in ApbKeys |-> ""]
  /\ log = <<>>

Next == \E n \in SwipeNumbers, r \in Requests : Grant(n, r) \/ Refuse(n, r)

Spec == Init /\ [][Next]_<<direction, log>>
=============================================================================
