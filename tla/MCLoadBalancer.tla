---------------------------- MODULE MCLoadBalancer ----------------------------
(* Small instances of LoadBalancer for TLC. *)
EXTENDS LoadBalancer, TLC

\* Handlers are interchangeable: no definition tells one from another.
RequestSymmetry == Permutations(Requests)

==============================================================================
