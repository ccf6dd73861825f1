--------------------------- MODULE MCObserverCache ---------------------------
(* Finite instances of ObserverCache. *)
EXTENDS ObserverCache, TLC

CONSTANTS v1, v2

AnyValidator == Permutations({v1, v2})
=============================================================================
