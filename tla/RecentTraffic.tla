----------------------------- MODULE RecentTraffic -----------------------------
(***************************************************************************)
(* The request activity log, pages/RecentTrafficPage.tsx.  The page polls  *)
(* the gateway by itself: a load is never aborted, an effect that is       *)
(* cleaned up marks the loads it started as cancelled.  Each action is one *)
(* task of the event loop; no tick passes over a task that is due.  What   *)
(* an answer holds is told by how many requests the gateway had recorded   *)
(* when it was read.                                                       *)
(***************************************************************************)
EXTENDS Integers, Sequences, FiniteSets, SequencesExt

CONSTANTS
    Periods,     \* the refresh intervals, in ticks; 0 is off
    Slowest,     \* bound: ticks until the slowest load answers
    MaxRequests, \* bound: requests recorded while the page is open
    MaxSwitches  \* bound: changes of the interval while the page is open

RecentTrafficAssumption ==
    /\ Periods \subseteq Nat
    /\ Slowest \in Nat \ {0}
    /\ MaxRequests \in Nat /\ MaxSwitches \in Nat

None == -1

VARIABLES
    open,      \* the page is mounted
    period,    \* refreshMs of the dashboard context
    recorded,  \* requests the gateway has recorded since the page was opened
    polls,     \* the loads that have not ended, oldest first
    timer,     \* ticks until the interval fires, or None
    requests,  \* the rows shown: how many requests had been recorded, or None
    loading,   \* "Loading..." is shown
    switches   \* changes of the interval since the page was opened

recentVars == <<open, period, recorded, polls, timer, requests, loading, switches>>

Init ==
    /\ open = FALSE /\ period \in Periods
    /\ recorded = 0 /\ polls = << >> /\ timer = None
    /\ requests = None /\ loading = TRUE
    /\ switches = 0

-----------------------------------------------------------------------------
(* The effect. *)

\* A load that starts now and answers after left ticks.
Poll(ps) ==
    { Append(ps, [since |-> recorded, left |-> left, cancelled |-> FALSE]) :
        left \in 1..Slowest }

\* Mutants: the cleanup forgets the flag; the interval is not set.
KeepPolls(ps) == ps
NoInterval(p) == None

\* The cleanup of an effect.
Cancel(ps) == [k \in DOMAIN ps |-> [ps[k] EXCEPT !.cancelled = TRUE]]

Interval(p) == IF p <= 0 THEN None ELSE p

\* The page is opened: fresh state, and the effect runs.
Mount ==
    /\ ~open /\ open' = TRUE
    /\ requests' = None /\ loading' = TRUE
    /\ polls' \in Poll(polls)
    /\ timer' = Interval(period)
    /\ UNCHANGED <<period, recorded, switches>>

\* The page is left: its effect is cleaned up, its state is gone, and what its
\* loads still answer goes nowhere.
Unmount ==
    /\ open /\ open' = FALSE
    /\ polls' = << >> /\ timer' = None
    /\ requests' = None /\ loading' = TRUE
    /\ recorded' = 0 /\ switches' = 0
    /\ UNCHANGED period

\* Another interval is selected: if the page is open, its effect runs anew.
SetPeriod(p) ==
    /\ p # period /\ period' = p
    /\ IF open
       THEN /\ switches < MaxSwitches /\ switches' = switches + 1
            /\ polls' \in Poll(Cancel(polls)) /\ timer' = Interval(p)
       ELSE UNCHANGED <<polls, timer, switches>>
    /\ UNCHANGED <<open, recorded, requests, loading>>

\* The interval fires.
Fire ==
    /\ timer = 0
    /\ polls' \in Poll(polls)
    /\ timer' = Interval(period)
    /\ UNCHANGED <<open, period, recorded, requests, loading, switches>>

-----------------------------------------------------------------------------
(* Answers. *)

\* Load k answers with what the gateway had recorded when it read its log.
Succeed(k) ==
    /\ k \in DOMAIN polls /\ polls[k].left = 0
    /\ polls' = RemoveAt(polls, k)
    /\ IF polls[k].cancelled THEN UNCHANGED <<requests, loading>>
       ELSE /\ requests' \in polls[k].since..recorded
            /\ loading' = FALSE
    /\ UNCHANGED <<open, period, recorded, timer, switches>>

\* Mutant: a failed load leaves the page loading.
StillLoading(p) == loading

\* A failed load ends the loading, unless it is cancelled.
LoadingAfterFailure(p) == loading /\ p.cancelled

\* Load k fails: the rows stay.
Fail(k) ==
    /\ k \in DOMAIN polls
    /\ polls' = RemoveAt(polls, k)
    /\ loading' = LoadingAfterFailure(polls[k])
    /\ UNCHANGED <<open, period, recorded, timer, requests, switches>>

\* The gateway records a request.
Record ==
    /\ open /\ recorded < MaxRequests
    /\ recorded' = recorded + 1
    /\ UNCHANGED <<open, period, polls, timer, requests, loading, switches>>

Tick ==
    /\ timer # 0 /\ \A k \in DOMAIN polls : polls[k].left > 0
    /\ timer # None \/ polls # << >>
    /\ timer' = IF timer = None THEN None ELSE timer - 1
    /\ polls' = [k \in DOMAIN polls |-> [polls[k] EXCEPT !.left = @ - 1]]
    /\ UNCHANGED <<open, period, recorded, requests, loading, switches>>

\* A load of the effect in force brings its rows, or fails.
Show == \E k \in DOMAIN polls : ~polls[k].cancelled /\ Succeed(k)
Miss == \E k \in DOMAIN polls : ~polls[k].cancelled /\ Fail(k)

Run ==
    \/ Fire \/ Tick
    \/ \E k \in DOMAIN polls : Succeed(k) \/ Fail(k)

Next ==
    \/ Run \/ Mount \/ Unmount \/ Record
    \/ \E p \in Periods : SetPeriod(p)

Spec == Init /\ [][Next]_recentVars

-----------------------------------------------------------------------------
\* RecentTrafficPage.tsx:54-65: loads do not pile up.  A page that is not open
\* has no timer and waits for nothing, and the loads that may show their rows are
\* those the interval in force has started while the slowest was out.
OneEffect ==
    LET live == {k \in DOMAIN polls : ~polls[k].cancelled}
    IN  /\ ~open => timer = None /\ polls = << >>
        /\ Cardinality(live) <= 1 + (IF period = 0 THEN 0 ELSE Slowest \div period)

\* RecentTrafficPage.tsx:40-65: where a load is sure to answer before the next
\* one starts, the rows of an open page never go back in time; and neither
\* does one whose refreshing is off.
RowsNeverGoBack ==
    [][open /\ open' /\ (period = 0 \/ Slowest < period) => requests' >= requests]_recentVars

==============================================================================
