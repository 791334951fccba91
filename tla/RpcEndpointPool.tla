-------------------------- MODULE RpcEndpointPool --------------------------
(***************************************************************************)
(* The health of the RPC endpoints, shared by the reads, backfill and      *)
(* subscription providers.  The pool's lock is never held over a           *)
(* suspension, so each of its methods is one step.  A deadline is kept as  *)
(* the time left to it and an instant as the time since it.                *)
(***************************************************************************)
EXTENDS Integers, Sequences, FiniteSets

CONSTANTS
  Endpoints,   (* the configured endpoints, numbered in order               *)
  Cooldown     (* cooldown_seconds, in ticks of the clock                   *)

ASSUME PoolAssumption ==
  /\ Endpoints \subseteq Nat /\ Endpoints # {} /\ IsFiniteSet(Endpoints)
  /\ Cooldown \in Nat \ {0}

VARIABLES
  cooling,     \* what is left of each endpoint's cooldown_until
  strikes,     \* subscription_failure_count
  strikeAge,   \* time since last_subscription_failure_at
  preferred    \* _preferred_index

poolVars == <<cooling, strikes, strikeAge, preferred>>

(* A failure older than the cooldown, or none at all.                       *)
Forgotten == Cooldown + 1

PoolTypeOK ==
  /\ cooling \in [Endpoints -> 0..Cooldown]
  /\ strikes \in [Endpoints -> 0..1]
  /\ strikeAge \in [Endpoints -> 0..Forgotten]
  /\ preferred \in Endpoints

PoolInit ==
  /\ cooling = [e \in Endpoints |-> 0]
  /\ strikes = [e \in Endpoints |-> 0]
  /\ strikeAge = [e \in Endpoints |-> Forgotten]
  /\ preferred = CHOOSE e \in Endpoints : \A f \in Endpoints : e <= f

(* candidates: the untried endpoints out of cooldown, the preferred one     *)
(* first, the others in order.                                              *)
Eligible(excluded)  == Endpoints \ excluded
Available(excluded) == {e \in Eligible(excluded) : cooling[e] = 0}
AskedBefore(e, f) == e # f /\ (e = preferred \/ (f # preferred /\ e < f))
Candidates(excluded) ==
  CHOOSE s \in [1..Cardinality(Available(excluded)) -> Available(excluded)] :
    \A i, j \in DOMAIN s : i < j => AskedBefore(s[i], s[j])

MarkFailed(e) ==
  /\ cooling' = [cooling EXCEPT ![e] = Cooldown]
  /\ UNCHANGED <<strikes, strikeAge, preferred>>

MarkSuccess(e) ==
  /\ preferred' = IF cooling[e] > 0 THEN preferred ELSE e
  /\ UNCHANGED <<cooling, strikes, strikeAge>>

(* record_subscription_transport_failure, and whether it cools e.           *)
SecondStrike(e) == strikeAge[e] <= Cooldown /\ strikes[e] = 1

(* Mutant of RecordStrike: an old failure still counts.                      *)
RecordStrikeForever(e) ==
  /\ strikes' = [strikes EXCEPT ![e] = 1 - @]
  /\ strikeAge' = [strikeAge EXCEPT ![e] = 0]
  /\ cooling' = IF strikes[e] = 1 THEN [cooling EXCEPT ![e] = Cooldown] ELSE cooling
  /\ UNCHANGED preferred

RecordStrike(e) ==
  /\ strikes' = [strikes EXCEPT ![e] = IF SecondStrike(e) THEN 0 ELSE 1]
  /\ strikeAge' = [strikeAge EXCEPT ![e] = 0]
  /\ cooling' = IF SecondStrike(e) THEN [cooling EXCEPT ![e] = Cooldown] ELSE cooling
  /\ UNCHANGED preferred

Tick ==
  /\ cooling' = [e \in Endpoints |-> IF cooling[e] = 0 THEN 0 ELSE cooling[e] - 1]
  /\ strikeAge' = [e \in Endpoints |-> IF strikeAge[e] = Forgotten THEN Forgotten ELSE strikeAge[e] + 1]
  /\ UNCHANGED <<strikes, preferred>>

=============================================================================
