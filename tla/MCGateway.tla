------------------------------- MODULE MCGateway -------------------------------
(* A small instance of Gateway for TLC. *)
EXTENDS Gateway

MCRequests == [no : 1..MaxRequests, upstream : BOOLEAN]
MCLimits == {0, 1, 3}

==============================================================================
