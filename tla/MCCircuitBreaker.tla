--------------------------- MODULE MCCircuitBreaker ---------------------------
(* Small instances of CircuitBreaker for TLC. *)
EXTENDS CircuitBreaker, TLC

\* Callers are interchangeable: no definition tells one from another.
CallerSymmetry == Permutations(Callers)

==============================================================================
