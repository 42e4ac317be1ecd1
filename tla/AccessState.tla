----------------------------- MODULE AccessState -----------------------------
(***************************************************************************)
(* What the API keys and the restore access tokens share: the key ids that *)
(* principals are known by, and the clock.                                 *)
(***************************************************************************)
EXTENDS Integers, FiniteSets

CONSTANTS Keys,       \* key ids
          NoKey,      \* None: no key id, and a raw key that hashes to no row
          MaxTime     \* bound on the clock

ASSUME KeysAssumption == IsFiniteSet(Keys) /\ NoKey \notin Keys
ASSUME MaxTimeAssumption == MaxTime \in Nat

VARIABLE now          \* datetime.now(UTC), in seconds

Pass == now < MaxTime /\ now' = now + 1
=============================================================================
