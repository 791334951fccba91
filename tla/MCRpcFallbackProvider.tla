------------------------- MODULE MCRpcFallbackProvider -------------------------
(* Two tasks on the provider of requests and on the provider of              *)
(* subscriptions: the specification with Role = "request" from the .cfg and  *)
(* once more with Role = "subscription", a behaviour keeping to one.         *)
EXTENDS RpcFallbackProvider

VARIABLE role

Subscription == INSTANCE RpcFallbackProvider WITH Role <- "subscription"

MCInit == role \in {"request", "subscription"} /\ Init

MCNext ==
  \/ role = Role /\ Next /\ UNCHANGED role
  \/ role = "subscription" /\ Subscription!Next /\ UNCHANGED role

MCSpec == MCInit /\ [][MCNext]_<<vars, role>>

(* The preferred endpoint and the strikes of the pool move only for a reason *)
(* (PreferredIsAvailable, OldStrikesForgotten of RpcFallbackProvider): a     *)
(* success out of cooldown, failures of a stream close to each other.        *)
PoolIsFair == PreferredIsAvailable /\ OldStrikesForgotten
=============================================================================
