------------------------------- MODULE Dashboard -------------------------------
(***************************************************************************)
(* The dashboard's polling loop: hooks/useDashboardData.ts under           *)
(* context/DashboardContext.tsx.  One load sends some thirty queries and   *)
(* shows them together when all have answered; a new load aborts the one   *)
(* in flight.  The page is single-threaded: each action is one task of its *)
(* event loop.  Time passes in ticks, and no tick passes over a task that  *)
(* is due.                                                                 *)
(***************************************************************************)
EXTENDS Integers, Sequences, SequencesExt

CONSTANTS
    Ranges,     \* the time ranges the user can select
    Periods,    \* the refresh intervals, in ticks; 0 is off
    Slowest,    \* bound: ticks until the slowest query of a load answers
    MaxClicks   \* bound: things the user does

ASSUME DashboardAssumption ==
    /\ Periods \subseteq Nat
    /\ Slowest \in Nat \ {0}
    /\ MaxClicks \in Nat

NoRange == "no range"
ASSUME NoRangeAssumption == NoRange \notin Ranges

Off == -1   \* no interval is set

VARIABLES
    range,      \* the selected time range
    refreshMs,  \* the selected refresh interval
    dirty,      \* a selection was rendered, and its effect has not run yet
    polled,     \* the range of the load the interval calls
    timer,      \* ticks until the interval fires, or Off
    loads,      \* the loads that have not ended, oldest first
    data,       \* what is shown: range of the values, loading, error
    clicks,     \* what the user has done so far
    backwards   \* history: values were replaced by those of an earlier load

vars == <<range, refreshMs, dirty, polled, timer, loads, data, clicks, backwards>>
selected == <<range, refreshMs, dirty, clicks>>

Init ==
    /\ range \in Ranges /\ refreshMs \in Periods
    /\ dirty = TRUE        \* the first effect runs after the first render
    /\ polled = range /\ timer = Off
    /\ loads = << >>
    /\ data = [range |-> NoRange, loading |-> TRUE, error |-> FALSE]
    /\ clicks = 0 /\ backwards = FALSE

-----------------------------------------------------------------------------
(* load *)

\* Mutant: the load in flight is left to run.
KeepCurrent(ls) == ls

\* inFlight.current?.abort(): the newest load, if it has not ended.
AbortCurrent(ls) ==
    IF ls = << >> THEN ls ELSE [ls EXCEPT ![Len(ls)].aborted = TRUE]

\* A load of the values of r, whose last query answers after left ticks.
\* overtaken is history: the values of a newer load have been shown.
Load(r) ==
    \E left \in 1..Slowest :
        loads' = Append(AbortCurrent(loads),
                        [range |-> r, left |-> left,
                         aborted |-> FALSE, overtaken |-> FALSE])

\* All queries of load i have answered: its values are shown.
Succeed(i) ==
    /\ i \in 1..Len(loads)
    /\ loads[i].left = 0 /\ ~loads[i].aborted
    /\ data' = [range |-> loads[i].range, loading |-> FALSE, error |-> FALSE]
    /\ backwards' = (backwards \/ loads[i].overtaken)
    /\ loads' = RemoveAt([j \in DOMAIN loads |->
                            [loads[j] EXCEPT !.overtaken = @ \/ j < i]], i)
    /\ UNCHANGED <<selected, polled, timer>>

\* Mutant: the error leaves loading set.
FailedLoading(d) == [d EXCEPT !.error = TRUE]

\* What is shown after a load has failed: the old values, and the error.
Failed(d) == [d EXCEPT !.loading = FALSE, !.error = TRUE]

\* A query of load i has failed, at any time before the last has answered.
Fail(i) ==
    /\ i \in 1..Len(loads)
    /\ ~loads[i].aborted
    /\ data' = Failed(data)
    /\ loads' = RemoveAt(loads, i)
    /\ UNCHANGED <<selected, polled, timer, backwards>>

\* The queries of an aborted load are rejected: nothing is shown.
EndAborted(i) ==
    /\ i \in 1..Len(loads)
    /\ loads[i].aborted
    /\ loads' = RemoveAt(loads, i)
    /\ UNCHANGED <<selected, polled, timer, data, backwards>>

-----------------------------------------------------------------------------
(* The effect and its interval. *)

\* setInterval, unless refreshing is off.
Interval(p) == IF p <= 0 THEN Off ELSE p

\* Mutant: load is not renewed when the range changes.
RangeOfFirstLoad == polled

\* The range that load, renewed on every change of range, closes over.
RangeOfLoad == range

\* The effect: the old interval is cleared, a load starts, an interval is set.
RunEffect ==
    /\ dirty
    /\ dirty' = FALSE
    /\ Load(RangeOfLoad)
    /\ polled' = RangeOfLoad
    /\ timer' = Interval(refreshMs)
    /\ UNCHANGED <<range, refreshMs, clicks, data, backwards>>

\* The interval fires.
Fire ==
    /\ timer = 0
    /\ Load(polled)
    /\ timer' = Interval(refreshMs)
    /\ UNCHANGED <<selected, polled, data, backwards>>

-----------------------------------------------------------------------------
(* The user and the clock. *)

\* The user selects another range or interval, and the page is rendered.
Select(r, p) ==
    /\ clicks < MaxClicks /\ clicks' = clicks + 1
    /\ (r # range) # (p # refreshMs)
    /\ range' = r /\ refreshMs' = p
    /\ dirty' = TRUE
    /\ UNCHANGED <<polled, timer, loads, data, backwards>>

\* The user presses the refresh button.
Reload ==
    /\ clicks < MaxClicks /\ clicks' = clicks + 1
    /\ Load(range)
    /\ UNCHANGED <<range, refreshMs, dirty, polled, timer, data, backwards>>

Tick ==
    /\ ~dirty /\ timer # 0
    /\ \A i \in 1..Len(loads) : loads[i].left > 0 /\ ~loads[i].aborted
    /\ timer # Off \/ loads # << >>
    /\ timer' = IF timer = Off THEN Off ELSE timer - 1
    /\ loads' = [i \in DOMAIN loads |-> [loads[i] EXCEPT !.left = @ - 1]]
    /\ UNCHANGED <<selected, polled, data, backwards>>

Run ==
    \/ \E i \in 1..Len(loads) : Succeed(i) \/ Fail(i) \/ EndAborted(i)
    \/ RunEffect
    \/ Fire
    \/ Tick

Next ==
    \/ Run
    \/ \E r \in Ranges, p \in Periods : Select(r, p)
    \/ Reload

Spec == Init /\ [][Next]_vars

\* The browser runs what is due, and time goes on.
FairSpec == Spec /\ WF_vars(Run)

-----------------------------------------------------------------------------
\* The fields have their types.
TypeOK ==
    /\ range \in Ranges /\ refreshMs \in Periods
    /\ dirty \in BOOLEAN /\ polled \in Ranges /\ backwards \in BOOLEAN
    /\ timer = Off \/ \E p \in Periods : timer \in 0..p
    /\ \A i \in 1..Len(loads) :
          loads[i] \in [range : Ranges, left : 0..Slowest,
                        aborted : BOOLEAN, overtaken : BOOLEAN]
    /\ data \in [range : Ranges \cup {NoRange}, loading : BOOLEAN, error : BOOLEAN]
    /\ clicks \in 0..MaxClicks

\* useDashboardData.ts:114-117: values are never replaced by those of a load
\* that started earlier, in whatever order the answers come in.
NeverBackwards == ~backwards

\* useDashboardData.ts:304-311: once nothing is in flight and nothing failed,
\* the values shown are those of the selected range.
SettledOnRange ==
    ~dirty /\ loads = << >> /\ ~data.error => data.range = range

\* useDashboardData.ts:292-303: the first load ends in values or in an error.
LoadingEnds == data.loading ~> ~data.loading

\* PROJECT_CONTEXT.md:67-68: a newly selected range is shown, or an error is, or
\* the user selects another one.
RangeIsShown ==
    \A r \in Ranges :
        range = r ~> data.range = r \/ data.error \/ range # r

==============================================================================
