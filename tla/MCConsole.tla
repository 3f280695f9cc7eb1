------------------------------ MODULE MCConsole -------------------------------
(* A small instance of Console for TLC: two instances of one service. *)
EXTENDS Console

CONSTANTS o1, o2, order

MCServiceOf == [i \in {o1, o2} |-> order]
MCListing == <<o1, o2>>

==============================================================================
