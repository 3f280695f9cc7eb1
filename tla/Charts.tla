-------------------------------- MODULE Charts --------------------------------
(***************************************************************************)
(* The charts of the traffic page and the pointer over them:               *)
(* components/charts/AreaChart.tsx and MultiAreaChart.tsx.  A chart keeps  *)
(* the index of the sample under the pointer; the samples are replaced by  *)
(* the dashboard's loads.  A chart that throws while rendering takes the   *)
(* whole app off the screen: nothing catches it.                           *)
(***************************************************************************)
EXTENDS Integers, FiniteSets, FiniteSetsExt

CONSTANTS
    TimeRanges,  \* TIME_RANGES
    Samples      \* time range -> samples of a series without gaps

ChartsAssumption == \A r \in TimeRanges : Samples[r] \in Nat \ {0}

VARIABLES
    mounted,  \* the traffic page is shown
    range,    \* the selected time range
    points,   \* series -> its samples on the page: those of the last load
    hover,    \* chart -> the index under the pointer, or NoIndex
    blank     \* the app has thrown and is gone

chartVars == <<mounted, range, points, hover, blank>>

NoIndex == -1

\* One area chart; the multi-line charts of the latencies and status classes.
SeriesOf == [rps |-> {"rps"}, latency |-> {"p50", "p95"}, status |-> {"classes"}]
Charts == DOMAIN SeriesOf
Multi == {"latency", "status"}
AllSeries == UNION {SeriesOf[c] : c \in Charts}

\* The longest series of chart c.
Longest(pts, c) == Max({pts[s] : s \in SeriesOf[c]})

Drawn(pts, c) == Longest(pts, c) >= 2

\* AreaChart shows a tooltip when there is a sample under the pointer;
\* MultiAreaChart reads longest[hover].t whatever the samples are.
TooltipThrows(pts, c, h) ==
    c \in Multi /\ Drawn(pts, c) /\ h # NoIndex /\ h >= Longest(pts, c)

Empty == [s \in AllSeries |-> 0]

Init ==
    /\ mounted = FALSE /\ range \in TimeRanges
    /\ points = Empty
    /\ hover = [c \in Charts |-> NoIndex]
    /\ blank = FALSE

\* React renders the page as it is now.
Render == blank' = (mounted' /\ \E c \in Charts : TooltipThrows(points', c, hover'[c]))

\* The samples a load over r can bring.  Status classes have no gaps ("or
\* vector(0)"), latencies have them where nothing was requested; the two
\* latencies may be read on either side of a sample.
Loads(r) ==
    { pts \in [AllSeries -> 0..Samples[r]] :
        /\ pts["rps"] \in {0, Samples[r]} /\ pts["classes"] = Samples[r]
        /\ pts["p50"] - pts["p95"] \in {0, 1} }

\* The traffic page is entered: what the last load brought is drawn.
Mount ==
    /\ ~mounted /\ mounted' = TRUE
    /\ points' \in {Empty} \cup UNION {Loads(r) : r \in TimeRanges}
    /\ hover' = [c \in Charts |-> NoIndex]
    /\ UNCHANGED range
    /\ Render

\* It is left.
Unmount ==
    /\ mounted /\ mounted' = FALSE
    /\ points' = Empty
    /\ hover' = [c \in Charts |-> NoIndex]
    /\ UNCHANGED range
    /\ Render

\* A load's samples replace those before.
Refresh ==
    /\ mounted
    /\ points' \in Loads(range)
    /\ UNCHANGED <<mounted, range, hover>>
    /\ Render

SelectRange(r) ==
    /\ r # range /\ range' = r
    /\ UNCHANGED <<mounted, points, hover>>
    /\ Render

\* Mutant: an index past the last sample is kept.
IndexAtAny(idx, n) == IF idx >= 0 THEN idx ELSE NoIndex

\* setHover of onMouseMove.
IndexAt(idx, n) == IF idx >= 0 /\ idx < n THEN idx ELSE NoIndex

\* The pointer moves over chart c; its margins give indices out of range.
Move(c) ==
    /\ mounted /\ Drawn(points, c)
    /\ \E idx \in -1..Longest(points, c) :
          hover' = [hover EXCEPT ![c] = IndexAt(idx, Longest(points, c))]
    /\ UNCHANGED <<mounted, range, points>>
    /\ Render

\* The pointer leaves chart c; a chart that vanishes from under it does not tell.
Leave(c) ==
    /\ mounted /\ Drawn(points, c)
    /\ hover' = [hover EXCEPT ![c] = NoIndex]
    /\ UNCHANGED <<mounted, range, points>>
    /\ Render

Next ==
    \/ Refresh
    \/ \E r \in TimeRanges : SelectRange(r)
    \/ \E c \in Charts : Move(c) \/ Leave(c)

-----------------------------------------------------------------------------
\* The fields have their types.
TypeOK ==
    /\ mounted \in BOOLEAN /\ blank \in BOOLEAN /\ range \in TimeRanges
    /\ points \in [AllSeries -> Nat]
    /\ hover \in [Charts -> Nat \cup {NoIndex}]

\* MultiAreaChart.tsx:52-58, AreaChart.tsx:55: no movement of the pointer, no
\* change of page or range makes the app throw.  Only new samples do, when they
\* leave a comparison chart fewer than the index that rests on it.
BlankOnlyByRefresh ==
    [][~blank /\ blank' =>
          /\ points' # points /\ hover' = hover /\ range' = range
          /\ \E c \in Multi : hover[c] # NoIndex /\ Longest(points', c) \in 2..hover[c]]_chartVars

\* PROJECT_CONTEXT.md:67-68: the app goes on showing data while it refreshes.
\* It does not: a refresh under a resting pointer can take it off the screen.
NeverBlank == ~blank

==============================================================================
