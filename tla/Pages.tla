-------------------------------- MODULE Pages ---------------------------------
(***************************************************************************)
(* The app, App.tsx: one routed page at a time, each with its own state,   *)
(* under the shared header.  Leaving a page destroys what it kept and not  *)
(* what it sent.                                                           *)
(***************************************************************************)
EXTENDS Integers, Sequences

CONSTANTS
    FirstRange, FirstPeriod,                            \* what the provider starts with
    TimeRanges, Samples,                                \* Charts
    Periods, Slowest, MaxRequests, MaxSwitches,           \* RecentTraffic
    Methods, WithBody, Paths, Default, MaxSends         \* Playground

VARIABLES
    page,                                                                 \* the route shown
    mounted, range, points, hover, blank,                                 \* Charts
    open, period, recorded, polls, timer, requests, loading, switches,      \* RecentTraffic
    shown, link, form, touched, sending, pending, result, bodyError, sent \* Playground

ChartsOf == INSTANCE Charts
Recent == INSTANCE RecentTraffic
Play == INSTANCE Playground

ASSUME PagesAssumption ==
    /\ FirstRange \in TimeRanges /\ FirstPeriod \in Periods
    /\ ChartsOf!ChartsAssumption
    /\ Recent!RecentTrafficAssumption
    /\ Play!PlaygroundAssumption

chartVars == <<mounted, range, points, hover, blank>>
recentVars == <<open, period, recorded, polls, timer, requests, loading, switches>>
playVars == <<shown, link, form, touched, sending, pending, result, bodyError, sent>>
vars == <<page, chartVars, recentVars, playVars>>

\* The pages with a state of their own, and the others.
Routes == {"dashboard", "traffic", "recent-traffic", "endpoints", "playground"}

Init ==
    /\ page = "dashboard"
    /\ ChartsOf!Init /\ Recent!Init /\ Play!Init
    /\ range = FirstRange /\ period = FirstPeriod

-----------------------------------------------------------------------------
\* What the router's step does to a page with state: it is entered, or left, or
\* neither.
RouteCharts ==
    CASE page = "traffic"  -> ChartsOf!Unmount
      [] page' = "traffic" -> ChartsOf!Mount
      [] OTHER             -> UNCHANGED chartVars

RouteRecent ==
    CASE page = "recent-traffic"  -> Recent!Unmount
      [] page' = "recent-traffic" -> Recent!Mount
      [] OTHER                    -> UNCHANGED recentVars

RoutePlayground(query) ==
    CASE page = "playground"  -> Play!ClosePage
      [] page' = "playground" -> Play!OpenPage(query)
      [] OTHER                -> UNCHANGED playVars

\* The router: the sidebar, a jump link, back and forward; to the playground
\* also the Test button of the endpoints page, with a query string.
Navigate(to, query) ==
    /\ to # page /\ page' = to
    /\ query # << >> => to = "playground"
    /\ RouteCharts /\ RouteRecent /\ RoutePlayground(query)

\* A step of the charts, of the activity log, of the playground.
ChartStep == ChartsOf!Next /\ UNCHANGED <<page, recentVars, playVars>>

RecentRun == Recent!Run /\ UNCHANGED <<page, chartVars, playVars>>

RecentInput ==
    /\ Recent!Record \/ \E p \in Periods : Recent!SetPeriod(p)
    /\ UNCHANGED <<page, chartVars, playVars>>

PlayAnswer ==
    /\ \E p \in pending : Play!Answer(p)
    /\ UNCHANGED <<page, chartVars, recentVars>>

PlayInput ==
    /\ \/ \E to \in Play!Links : Play!FollowLink(to)
       \/ \E f \in Play!Forms : Play!Edit(f)
       \/ Play!Reject \/ Play!Send
    /\ UNCHANGED <<page, chartVars, recentVars>>

\* The user reloads the document: the same page, with nothing kept.
Restart ==
    /\ blank
    /\ blank' = FALSE /\ range' = FirstRange /\ period' = FirstPeriod
    /\ points' = ChartsOf!Empty
    /\ hover' = [c \in ChartsOf!Charts |-> ChartsOf!NoIndex]
    /\ polls' = << >> /\ pending' = {}
    /\ UNCHANGED <<page, mounted, open, recorded, timer, requests, loading, switches>>
    /\ UNCHANGED <<shown, link, form, touched, sending, result, bodyError, sent>>

Next ==
    \/ /\ ~blank
       /\ \/ \E to \in Routes, query \in Play!Links : Navigate(to, query)
          \/ ChartStep \/ RecentRun \/ RecentInput \/ PlayAnswer \/ PlayInput
    \/ Restart

Spec == Init /\ [][Next]_vars

RecentShow == Recent!Show /\ UNCHANGED <<page, chartVars, playVars>>
RecentMiss == Recent!Miss /\ UNCHANGED <<page, chartVars, playVars>>

\* The browser runs what is due; a fetch ends.
FairSpec ==
    /\ Spec
    /\ WF_vars(~blank /\ RecentRun)
    /\ WF_vars(~blank /\ PlayAnswer)

-----------------------------------------------------------------------------
\* Charts, RecentTraffic and Playground state these.
BlankOnlyByRefresh == ChartsOf!BlankOnlyByRefresh
NeverBlank == ChartsOf!NeverBlank
OneEffect == Recent!OneEffect
RowsNeverGoBack == Recent!RowsNeverGoBack
AnswerIsOfLastSend == Play!AnswerIsOfLastSend
FormFollowsLink == Play!FormFollowsLink

\* RecentTrafficPage.tsx:47,50: "Loading" goes away though loads overlap, are slow
\* and fail.
LoadingGoesAway == loading /\ open ~> ~loading \/ ~open

\* PROJECT_CONTEXT.md:67-68: while refreshing is on, what the gateway records comes
\* to be shown, also when loads take longer than the interval; unless loads fail
\* for ever without one that succeeds.
NewRowsAppear ==
    <>[][~RecentMiss]_vars \/ []<><<RecentShow>>_vars =>
        \A n \in 1..MaxRequests : recorded >= n ~> requests >= n \/ ~open \/ period = 0

==============================================================================
