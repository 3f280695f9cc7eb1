------------------------------- MODULE RecentLog -------------------------------
(***************************************************************************)
(* What internal/telemetry promises the dashboard: a list of at most       *)
(* Bound requests, newest first, and queries that return its head.         *)
(***************************************************************************)
EXTENDS Naturals, Sequences

CONSTANTS
    Bound,     \* the most requests kept
    Requests,  \* the requests that can be recorded
    Limits     \* what a reader may ask for; 0 or less asks for everything

VARIABLES
    log,       \* the requests kept, newest first
    answer     \* what the last query returned

\* The list l with e in front, cut to its Bound newest elements.
Push(l, e) ==
    [k \in 1..(IF Len(l) < Bound THEN Len(l) + 1 ELSE Bound) |->
        IF k = 1 THEN e ELSE l[k - 1]]

\* The limit newest of l, or all of them.
Newest(l, limit) ==
    [k \in 1..(IF limit > 0 /\ limit < Len(l) THEN limit ELSE Len(l)) |->
        l[k]]

Init == log = << >> /\ answer = << >>

Add(e) == log' = Push(log, e) /\ UNCHANGED answer

Query(limit) == answer' = Newest(log, limit) /\ UNCHANGED log

Next == (\E e \in Requests : Add(e)) \/ (\E limit \in Limits : Query(limit))

Spec == Init /\ [][Next]_<<log, answer>>

==============================================================================
