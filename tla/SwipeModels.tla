------------------------------ MODULE SwipeModels ------------------------------
(***************************************************************************)
(* The data of a badge swipe: the request of internal/models/models.go,    *)
(* the tier and site key handleSwipe derives from it, the Redis keys it is *)
(* checked against and the event written for it.  No state.                *)
(***************************************************************************)
EXTENDS Naturals, Sequences

CONSTANTS
  Badges,   \* badge identifiers
  SiteIDs,  \* values of site_id in a swipe request; "" when it is left out
  Gates     \* gate identifiers, see GateTier

(***************************************************************************)
(* A gate identifier is represented by what gateTier looks at: the first   *)
(* character of each of its (at most two) dash-separated parts, 1..9 for a *)
(* digit and 0 for anything else.  "1-A" is <<1, 0>>, "Gate-2A" is         *)
(* <<0, 2>>, "Lobby" is <<0>>.                                             *)
(***************************************************************************)
GateIdentifiers == [1..1 -> 0..9] \cup [1..2 -> 0..9]

ASSUME GatesAssumption == Gates \subseteq GateIdentifiers

-----------------------------------------------------------------------------
Directions == {"IN", "OUT"}

Tiers == 1..9

\* The first part that starts with a digit 1..9 names the tier; without one
\* the gate belongs to tier 1.
GateTier(gate) ==
  IF gate[1] # 0 THEN gate[1]
  ELSE IF 2 \in DOMAIN gate /\ gate[2] # 0 THEN gate[2] ELSE 1

\* A request without site_id is filed under the site key "global".
SiteKey(site) == IF site = "" THEN "global" ELSE site

SiteKeys == {SiteKey(s) : s \in SiteIDs}

Requests == [badge : Badges, site : SiteIDs, gate : Gates, direction : Directions]

ApbKeys == SiteKeys \X Tiers \X Badges

\* The apb key of request r's badge at tier t of r's site.
TierKey(r, t) == <<SiteKey(r.site), t, r.badge>>

\* The apb key request r is checked against and written to (apbScope).
ApbKey(r) == TierKey(r, GateTier(r.gate))

(***************************************************************************)
(* An entry of the stream: models.AccessEvent, with the request's fields   *)
(* under req.  The swipe number is not in the code: it names the request   *)
(* the entry was written for, so that properties can tell entries apart.   *)
(***************************************************************************)
Statuses == {"SUCCESS", "REJECTED_APB"}

AccessEvents == [swipe : Nat, req : Requests, status : Statuses]
=============================================================================
