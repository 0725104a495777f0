------------------------------ MODULE RedisCache ------------------------------
(***************************************************************************)
(* The Redis state the gate decides on and the operations of               *)
(* backend/internal/cache/redis.go over it.  Redis executes one command    *)
(* (or one MULTI/EXEC block) at a time, so every operation here is one     *)
(* atomic change; the interleaving of the operations of several requests   *)
(* is the business of AccessApi.                                           *)
(*                                                                         *)
(*   apb[site, tier, badge]  key  apb:<site>:<tier>:<badge>, "" = no key   *)
(*   activeSite[badge]       key  active_site:<badge>,       "" = no key   *)
(*   stream                  the stream pacs:events, oldest entry first    *)
(***************************************************************************)
EXTENDS SwipeModels

VARIABLES apb, activeSite, stream

redisVars == <<apb, activeSite, stream>>

-----------------------------------------------------------------------------
EmptyRedis ==
  /\ apb = [k \in ApbKeys |-> ""]
  /\ activeSite = [b \in Badges |-> ""]
  /\ stream = <<>>

GetState(k) == apb[k]

\* Mutant: only a repeated IN counts as anti-passback.
CheckAntiPassback_OnlyIn(k, direction) == direction = "IN" => apb[k] # "IN"

\* No record allows either direction; otherwise it has to change.
CheckAntiPassback(k, direction) == apb[k] # direction

GetActiveSite(b) == activeSite[b]

\* Mutant: the event is left out of the transaction.
SetDirectionAndPublishEvent_NoXAdd(k, direction, event) ==
  /\ apb' = [apb EXCEPT ![k] = direction]
  /\ UNCHANGED <<activeSite, stream>>

\* One MULTI/EXEC: the direction and the event appear together or not at all.
SetDirectionAndPublishEvent(k, direction, event) ==
  /\ apb' = [apb EXCEPT ![k] = direction]
  /\ stream' = Append(stream, event)
  /\ UNCHANGED activeSite

PublishEvent(event) ==
  /\ stream' = Append(stream, event)
  /\ UNCHANGED <<apb, activeSite>>

SetActiveSite(b, site) ==
  /\ activeSite' = [activeSite EXCEPT ![b] = site]
  /\ UNCHANGED <<apb, stream>>

ClearActiveSite(b) ==
  /\ activeSite' = [activeSite EXCEPT ![b] = ""]
  /\ UNCHANGED <<apb, stream>>

(***************************************************************************)
(* Redis drops a key on its own: 24 hours after it was last written, or    *)
(* earlier when maxmemory is reached (allkeys-lru).                        *)
(***************************************************************************)
DropApbKey(k) ==
  /\ apb[k] # ""
  /\ apb' = [apb EXCEPT ![k] = ""]
  /\ UNCHANGED <<activeSite, stream>>

DropActiveSite(b) ==
  /\ activeSite[b] # ""
  /\ ClearActiveSite(b)
=============================================================================
