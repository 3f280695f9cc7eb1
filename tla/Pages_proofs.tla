----------------------------- MODULE Pages_proofs ------------------------------
(***************************************************************************)
(* Proofs about Pages, for every number of samples, requests and paths:    *)
(* what the playground shows and sends, what can make the app throw, how   *)
(* many loads of the activity log are out and in which order its rows      *)
(* come; and about Format, the numbers its pages print, for every status,  *)
(* uptime and total.                                                       *)
(***************************************************************************)
EXTENDS Pages, Format, FiniteSetTheorems, SequenceTheorems, TLAPS

\* A playground that is not shown has nothing out and shows nothing.
NothingLeft == ~shown => pending = {} /\ ~sending /\ result = Play!Nothing

PlaySafe ==
    /\ Play!TypeOK
    /\ Play!AnswerIsOfLastSend
    /\ Play!FormFollowsLink
    /\ Play!BodiesFit
    /\ NothingLeft

\* The app throws on the traffic page only, and no tooltip on it throws now.
ChartSafe ==
    /\ ChartsOf!TypeOK
    /\ blank => mounted
    /\ mounted /\ ~blank =>
          \A c \in ChartsOf!Charts : ~ChartsOf!TooltipThrows(points, c, hover[c])

Routed ==
    /\ page \in Routes
    /\ mounted = (page = "traffic")
    /\ open = (page = "recent-traffic")
    /\ shown = (page = "playground")

\* The inductive invariant.
IInv == Routed /\ PlaySafe /\ ChartSafe

-----------------------------------------------------------------------------
(* The playground. *)

LEMMA PlayOpens ==
    ASSUME PlaySafe, NEW to \in Play!Links, Play!OpenPage(to), PagesAssumption
    PROVE  PlaySafe'
  <1>1. form' \in Play!Forms /\ (to # << >> => form'.target = to)
    BY DEF Play!OpenPage, Play!Forms, Play!Links, Play!Bodies, PagesAssumption,
           Play!PlaygroundAssumption
  <1>2. Play!TypeOK'
    BY <1>1 DEF PlaySafe, Play!TypeOK, Play!OpenPage
  <1>3. Play!AnswerIsOfLastSend'
    BY DEF PlaySafe, NothingLeft, Play!OpenPage, Play!AnswerIsOfLastSend
  <1>4. Play!FormFollowsLink'
    BY <1>1 DEF Play!OpenPage, Play!FormFollowsLink
  <1>5. Play!BodiesFit'
    BY DEF PlaySafe, Play!OpenPage, Play!BodiesFit
  <1> QED
    BY <1>2, <1>3, <1>4, <1>5 DEF PlaySafe, NothingLeft, Play!OpenPage

LEMMA PlayCloses ==
    ASSUME PlaySafe, Play!ClosePage, PagesAssumption
    PROVE  PlaySafe'
  <1>1. form' \in Play!Forms /\ << >> \in Play!Links
    BY DEF Play!ClosePage, Play!Forms, Play!Blank, Play!Bodies, Play!Links, PagesAssumption,
           Play!PlaygroundAssumption
  <1> QED
    BY <1>1 DEF PlaySafe, NothingLeft, Play!ClosePage, Play!TypeOK, Play!AnswerIsOfLastSend,
                Play!FormFollowsLink, Play!BodiesFit

LEMMA PlayFollows ==
    ASSUME PlaySafe, NEW to \in Play!Links, Play!FollowLink(to)
    PROVE  PlaySafe'
  <1>1. form \in Play!Forms
    BY DEF PlaySafe, Play!TypeOK
  <1>2. Play!Resync(to) \in Methods \X Paths
    BY <1>1 DEF Play!Resync, Play!Links, Play!Forms
  <1>3. form' = [target |-> Play!Resync(to), body |-> form.body]
    BY <1>1 DEF Play!FollowLink, Play!Forms
  <1>4. form' \in Play!Forms /\ (to # << >> => form'.target = to)
    BY <1>1, <1>2, <1>3 DEF Play!Forms, Play!Resync
  <1>5. Play!TypeOK'
    BY <1>4 DEF PlaySafe, Play!TypeOK, Play!FollowLink
  <1>6. Play!FormFollowsLink'
    BY <1>4 DEF Play!FollowLink, Play!FormFollowsLink
  <1> QED
    BY <1>5, <1>6 DEF PlaySafe, NothingLeft, Play!FollowLink, Play!AnswerIsOfLastSend,
                      Play!BodiesFit

LEMMA PlayEdits ==
    ASSUME PlaySafe, NEW f \in Play!Forms, Play!Edit(f)
    PROVE  PlaySafe'
  <1>1. Play!TypeOK'
    BY DEF PlaySafe, Play!TypeOK, Play!Edit
  <1>2. Play!FormFollowsLink'
    BY DEF PlaySafe, Play!Edit, Play!FormFollowsLink
  <1> QED
    BY <1>1, <1>2 DEF PlaySafe, NothingLeft, Play!Edit, Play!AnswerIsOfLastSend, Play!BodiesFit

LEMMA PlayRejects ==
    ASSUME PlaySafe, Play!Reject
    PROVE  PlaySafe'
  BY DEF PlaySafe, NothingLeft, Play!Reject, Play!TypeOK, Play!AnswerIsOfLastSend,
         Play!FormFollowsLink, Play!BodiesFit

LEMMA PlaySends ==
    ASSUME PlaySafe, Play!Send, PagesAssumption
    PROVE  PlaySafe'
  <1> DEFINE r == [n |-> sent.n + 1, target |-> form.target, body |-> Play!BodyToSend]
  <1>1. sent' = r /\ pending' = pending \cup {r} /\ sending' = TRUE /\ result' = Play!Nothing
    BY DEF Play!Send
  <1>2. pending = {}
    BY DEF PlaySafe, Play!AnswerIsOfLastSend, Play!Send, Play!Ready
  <1>3. r \in Play!Requests
    <2>1. sent.n \in Nat /\ sent.n < MaxSends /\ MaxSends \in Nat
      BY DEF PlaySafe, Play!TypeOK, Play!Requests, Play!Nothing, Play!Send, PagesAssumption,
             Play!PlaygroundAssumption
    <2>2. sent.n + 1 \in 1..MaxSends
      BY <2>1
    <2>3. form.target \in Methods \X Paths
      BY DEF PlaySafe, Play!TypeOK, Play!Forms
    <2>4. Play!BodyToSend \in {"none", "json"}
      BY DEF Play!BodyToSend
    <2> QED
      BY <2>2, <2>3, <2>4 DEF Play!Requests
  <1>4. r.body = "json" => r.target[1] \in WithBody
    BY DEF Play!BodyToSend, Play!ShowBody
  <1> HIDE DEF r
  <1>5. Play!TypeOK'
    BY <1>1, <1>2, <1>3 DEF PlaySafe, Play!TypeOK, Play!Send
  <1>6. Play!AnswerIsOfLastSend'
    BY <1>1, <1>2 DEF Play!AnswerIsOfLastSend
  <1>7. Play!BodiesFit'
    BY <1>1, <1>2, <1>4 DEF Play!BodiesFit
  <1> QED
    BY <1>5, <1>6, <1>7 DEF PlaySafe, NothingLeft, Play!Send, Play!FormFollowsLink

LEMMA PlayAnswers ==
    ASSUME PlaySafe, NEW p \in pending, Play!Answer(p)
    PROVE  PlaySafe'
  <1>1. sending /\ pending = {sent} /\ p = sent /\ p \in Play!Requests
    BY DEF PlaySafe, Play!AnswerIsOfLastSend, Play!TypeOK
  <1>2. pending' = {} /\ result' = sent' /\ sending' = FALSE /\ shown
    BY <1>1 DEF PlaySafe, NothingLeft, Play!Answer
  <1>3. Play!TypeOK'
    BY <1>1, <1>2 DEF PlaySafe, Play!TypeOK, Play!Answer
  <1> QED
    BY <1>2, <1>3 DEF PlaySafe, NothingLeft, Play!Answer, Play!AnswerIsOfLastSend,
                      Play!FormFollowsLink, Play!BodiesFit

LEMMA PlayStays ==
    ASSUME PlaySafe, UNCHANGED playVars
    PROVE  PlaySafe'
  BY DEF PlaySafe, NothingLeft, playVars, Play!TypeOK, Play!AnswerIsOfLastSend,
         Play!FormFollowsLink, Play!BodiesFit

-----------------------------------------------------------------------------
(* The charts. *)

\* The longest of one or two series is a number.
LEMMA LongestIsNat ==
    ASSUME NEW pts \in [ChartsOf!AllSeries -> Nat], NEW c \in ChartsOf!Charts
    PROVE  ChartsOf!Longest(pts, c) \in Nat
  <1>1. ASSUME NEW a \in Nat, NEW b \in Nat
        PROVE  ChartsOf!Max({a, b}) \in Nat
    <2>1. \E x \in {a, b} : \A y \in {a, b} : x >= y
      OBVIOUS
    <2> QED
      BY <2>1 DEF ChartsOf!Max
  <1>2. \E s, t \in ChartsOf!AllSeries : ChartsOf!SeriesOf[c] = {s, t}
    <2>1. c \in {"rps", "latency", "status"}
      BY DEF ChartsOf!Charts, ChartsOf!SeriesOf
    <2>2. {"rps", "p50", "p95", "classes"} \subseteq ChartsOf!AllSeries
      BY DEF ChartsOf!AllSeries, ChartsOf!Charts, ChartsOf!SeriesOf
    <2> QED
      BY <2>1, <2>2 DEF ChartsOf!SeriesOf
  <1>3. PICK s \in ChartsOf!AllSeries, t \in ChartsOf!AllSeries : ChartsOf!SeriesOf[c] = {s, t}
    BY <1>2
  <1>4. {pts[x] : x \in ChartsOf!SeriesOf[c]} = {pts[s], pts[t]}
    BY <1>3
  <1> QED
    BY <1>1, <1>3, <1>4 DEF ChartsOf!Longest

\* The samples of a load are numbers.
LEMMA LoadsAreNat ==
    ASSUME NEW r \in TimeRanges, PagesAssumption
    PROVE  ChartsOf!Loads(r) \subseteq [ChartsOf!AllSeries -> Nat]
  <1>1. Samples[r] \in Nat
    BY DEF PagesAssumption, ChartsOf!ChartsAssumption
  <1>2. ChartsOf!Loads(r) \subseteq [ChartsOf!AllSeries -> 0..Samples[r]]
    BY Zenon DEF ChartsOf!Loads
  <1> QED
    BY <1>1, <1>2

\* And no samples are none.
LEMMA EmptyIsNat == ChartsOf!Empty \in [ChartsOf!AllSeries -> Nat]
  BY DEF ChartsOf!Empty

\* A chart nobody points at shows no tooltip.
LEMMA NoPointer ==
    ASSUME NEW pts, NEW c
    PROVE  ~ChartsOf!TooltipThrows(pts, c, ChartsOf!NoIndex)
  BY DEF ChartsOf!TooltipThrows

\* What a rendering establishes.
LEMMA Rendered ==
    ASSUME ChartsOf!Render, mounted' \in BOOLEAN
    PROVE  /\ blank' \in BOOLEAN /\ (blank' => mounted')
           /\ mounted' /\ ~blank' =>
                 \A c \in ChartsOf!Charts : ~ChartsOf!TooltipThrows(points', c, hover'[c])
  BY DEF ChartsOf!Render

\* The page is entered or left: nothing is pointed at, so nothing throws.
LEMMA ChartsRouted ==
    ASSUME ChartSafe, PagesAssumption, ChartsOf!Mount \/ ChartsOf!Unmount
    PROVE  ChartSafe' /\ ~blank'
  <1>1. points' \in [ChartsOf!AllSeries -> Nat]
    BY LoadsAreNat, EmptyIsNat DEF ChartsOf!Mount, ChartsOf!Unmount
  <1>2. /\ hover' = [c \in ChartsOf!Charts |-> ChartsOf!NoIndex]
        /\ mounted' \in BOOLEAN /\ range' = range /\ ChartsOf!Render
    BY DEF ChartsOf!Mount, ChartsOf!Unmount
  <1>3. hover' \in [ChartsOf!Charts -> Nat \cup {ChartsOf!NoIndex}]
    BY <1>2
  <1>4. ~blank'
    BY <1>2, NoPointer DEF ChartsOf!Render
  <1> QED
    BY <1>1, <1>2, <1>3, <1>4, Rendered DEF ChartSafe, ChartsOf!TypeOK

\* What a step on the page does: the app is thrown off the screen only by new
\* samples, and by a comparison chart.
Thrown ==
    ~blank /\ blank' =>
        /\ points' # points /\ hover' = hover /\ range' = range
        /\ \E c \in ChartsOf!Multi :
              hover[c] # ChartsOf!NoIndex /\ ChartsOf!Longest(points', c) \in 2..hover[c]

LEMMA ChartsMove ==
    ASSUME ChartSafe, PagesAssumption, ~blank, ChartsOf!Next
    PROVE  ChartSafe' /\ Thrown
  <1>1. /\ points \in [ChartsOf!AllSeries -> Nat]
        /\ hover \in [ChartsOf!Charts -> Nat \cup {ChartsOf!NoIndex}]
        /\ range \in TimeRanges /\ mounted \in BOOLEAN
    BY DEF ChartSafe, ChartsOf!TypeOK
  <1>2. CASE ChartsOf!Refresh
    <2>1. points' \in [ChartsOf!AllSeries -> Nat]
      BY <1>1, <1>2, LoadsAreNat DEF ChartsOf!Refresh
    <2>2. mounted' = mounted /\ range' = range /\ hover' = hover /\ mounted /\ ChartsOf!Render
      BY <1>2 DEF ChartsOf!Refresh
    <2>3. ChartSafe'
      BY <1>1, <2>1, <2>2, Rendered DEF ChartSafe, ChartsOf!TypeOK
    <2>4. ASSUME blank'
          PROVE  /\ points' # points
                 /\ \E c \in ChartsOf!Multi :
                       hover[c] # ChartsOf!NoIndex /\ ChartsOf!Longest(points', c) \in 2..hover[c]
      <3>1. PICK c \in ChartsOf!Charts : ChartsOf!TooltipThrows(points', c, hover[c])
        BY <2>2, <2>4 DEF ChartsOf!Render
      <3>2. ~ChartsOf!TooltipThrows(points, c, hover[c])
        BY <2>2 DEF ChartSafe
      <3>3. ChartsOf!Longest(points', c) \in Nat
        BY <2>1, LongestIsNat
      <3>4. hover[c] \in Nat
        BY <1>1, <3>1 DEF ChartsOf!TooltipThrows
      <3> QED
        BY <3>1, <3>2, <3>3, <3>4 DEF ChartsOf!TooltipThrows, ChartsOf!Drawn
    <2> QED
      BY <2>2, <2>3, <2>4 DEF Thrown
  <1>3. ASSUME NEW r \in TimeRanges, ChartsOf!SelectRange(r)
        PROVE  ChartSafe' /\ Thrown
    <2>1. /\ mounted' = mounted /\ points' = points /\ hover' = hover /\ range' \in TimeRanges
          /\ ChartsOf!Render
      BY <1>3 DEF ChartsOf!SelectRange
    <2>2. ~blank'
      BY <2>1 DEF ChartsOf!Render, ChartSafe
    <2> QED
      BY <1>1, <2>1, <2>2, Rendered DEF ChartSafe, ChartsOf!TypeOK, Thrown
  <1>4. ASSUME NEW c \in ChartsOf!Charts, ChartsOf!Move(c) \/ ChartsOf!Leave(c)
        PROVE  ChartSafe' /\ Thrown
    <2>1. mounted' = mounted /\ points' = points /\ range' = range /\ mounted /\ ChartsOf!Render
      BY <1>4 DEF ChartsOf!Move, ChartsOf!Leave
    <2>2. ChartsOf!Longest(points, c) \in Nat
      BY <1>1, LongestIsNat
    <2>3. PICK h \in Nat \cup {ChartsOf!NoIndex} :
             /\ hover' = [hover EXCEPT ![c] = h]
             /\ h = ChartsOf!NoIndex \/ h < ChartsOf!Longest(points, c)
      <3>1. CASE ChartsOf!Move(c)
        <4>1. PICK idx \in -1..ChartsOf!Longest(points, c) :
                 hover' = [hover EXCEPT ![c] = ChartsOf!IndexAt(idx, ChartsOf!Longest(points, c))]
          BY <3>1 DEF ChartsOf!Move
        <4>2. /\ ChartsOf!IndexAt(idx, ChartsOf!Longest(points, c)) \in Nat \cup {ChartsOf!NoIndex}
              /\ \/ ChartsOf!IndexAt(idx, ChartsOf!Longest(points, c)) = ChartsOf!NoIndex
                 \/ ChartsOf!IndexAt(idx, ChartsOf!Longest(points, c)) < ChartsOf!Longest(points, c)
          BY <2>2, <4>1 DEF ChartsOf!IndexAt, ChartsOf!NoIndex
        <4> QED
          BY <4>1, <4>2
      <3>2. CASE ChartsOf!Leave(c)
        BY <3>2 DEF ChartsOf!Leave
      <3> QED
        BY <1>4, <3>1, <3>2
    <2>4. ~ChartsOf!TooltipThrows(points, c, h)
      BY <2>2, <2>3 DEF ChartsOf!TooltipThrows, ChartsOf!NoIndex
    <2>5. \A d \in ChartsOf!Charts : ~ChartsOf!TooltipThrows(points', d, hover'[d])
      BY <1>1, <2>1, <2>3, <2>4 DEF ChartSafe
    <2>6. ~blank'
      BY <2>1, <2>5 DEF ChartsOf!Render
    <2>7. hover' \in [ChartsOf!Charts -> Nat \cup {ChartsOf!NoIndex}]
      BY <1>1, <2>3
    <2>8. ChartsOf!TypeOK'
      <3>1. blank' \in BOOLEAN
        BY <1>1, <2>1, Rendered
      <3>2. mounted' \in BOOLEAN /\ range' \in TimeRanges /\ points' \in [ChartsOf!AllSeries -> Nat]
        BY <1>1, <2>1
      <3> QED
        BY <2>7, <3>1, <3>2 DEF ChartsOf!TypeOK
    <2> QED
      BY <2>5, <2>6, <2>8 DEF ChartSafe, Thrown
  <1> QED
    BY <1>2, <1>3, <1>4 DEF ChartsOf!Next

LEMMA ChartsStay ==
    ASSUME ChartSafe, UNCHANGED chartVars
    PROVE  ChartSafe' /\ Thrown
  BY DEF ChartSafe, ChartsOf!TypeOK, chartVars, Thrown

-----------------------------------------------------------------------------
(* The app. *)

\* The router's step: the page left and the page entered, and nothing else.
LEMMA RouterStep ==
    ASSUME IInv, PagesAssumption, NEW to \in Routes, NEW query \in Play!Links,
           ~blank, Navigate(to, query)
    PROVE  IInv' /\ Thrown
  <1>1. page' = to /\ to # page /\ page \in Routes
    BY DEF Navigate, IInv, Routed
  <1>2. ChartSafe' /\ Thrown /\ mounted' = (page' = "traffic")
    <2>1. CASE page = "traffic" \/ page' = "traffic"
      <3>1. (page = "traffic" /\ ChartsOf!Unmount) \/ (page' = "traffic" /\ ChartsOf!Mount)
        BY <1>1, <2>1 DEF Navigate, RouteCharts
      <3>2. ChartSafe' /\ ~blank'
        BY <3>1, ChartsRouted DEF IInv
      <3> QED
        BY <1>1, <3>1, <3>2 DEF ChartsOf!Mount, ChartsOf!Unmount, Thrown
    <2>2. CASE page # "traffic" /\ page' # "traffic"
      <3>1. UNCHANGED chartVars
        BY <2>2 DEF Navigate, RouteCharts
      <3> QED
        BY <2>2, <3>1, ChartsStay DEF IInv, Routed, chartVars
    <2> QED
      BY <2>1, <2>2
  <1>3. open' = (page' = "recent-traffic")
    <2>1. CASE page = "recent-traffic"
      BY <1>1, <2>1 DEF Navigate, RouteRecent, Recent!Unmount
    <2>2. CASE page # "recent-traffic" /\ page' = "recent-traffic"
      BY <2>2 DEF Navigate, RouteRecent, Recent!Mount
    <2>3. CASE page # "recent-traffic" /\ page' # "recent-traffic"
      BY <2>3 DEF Navigate, RouteRecent, recentVars, IInv, Routed
    <2> QED
      BY <2>1, <2>2, <2>3
  <1>4. PlaySafe' /\ shown' = (page' = "playground")
    <2>1. CASE page = "playground"
      <3>1. Play!ClosePage
        BY <2>1 DEF Navigate, RoutePlayground
      <3> QED
        BY <1>1, <2>1, <3>1, PlayCloses DEF IInv, Play!ClosePage
    <2>2. CASE page # "playground" /\ page' = "playground"
      <3>1. Play!OpenPage(query)
        BY <2>2 DEF Navigate, RoutePlayground
      <3> QED
        BY <2>2, <3>1, PlayOpens DEF IInv, Play!OpenPage
    <2>3. CASE page # "playground" /\ page' # "playground"
      <3>1. UNCHANGED playVars
        BY <2>3 DEF Navigate, RoutePlayground
      <3> QED
        BY <2>3, <3>1, PlayStays DEF IInv, Routed, playVars
    <2> QED
      BY <2>1, <2>2, <2>3
  <1> QED
    BY <1>1, <1>2, <1>3, <1>4 DEF IInv, Routed

\* Reloading the document, on the page that threw.
LEMMA RestartStep ==
    ASSUME IInv, PagesAssumption, Restart
    PROVE  IInv' /\ Thrown
  <1>1. page = "traffic" /\ ~shown /\ mounted
    BY DEF IInv, Routed, ChartSafe, Restart
  <1>2. pending = {} /\ pending' = {} /\ ~blank'
    BY <1>1 DEF IInv, PlaySafe, NothingLeft, Restart
  <1>3. PlaySafe'
    BY <1>1, <1>2 DEF IInv, PlaySafe, NothingLeft, Restart, Play!TypeOK,
                      Play!AnswerIsOfLastSend, Play!FormFollowsLink, Play!BodiesFit
  <1>4. hover' = [c \in ChartsOf!Charts |-> ChartsOf!NoIndex] /\ range' = FirstRange
    BY DEF Restart
  <1>5. ChartsOf!TypeOK'
    BY <1>2, <1>4, EmptyIsNat DEF IInv, ChartSafe, Restart, ChartsOf!TypeOK, PagesAssumption
  <1>6. ChartSafe'
    BY <1>2, <1>4, <1>5, NoPointer DEF ChartSafe
  <1> QED
    BY <1>2, <1>3, <1>6 DEF IInv, Routed, Restart, Thrown

\* Every step keeps the invariant, and throws the app in one way only.
LEMMA EveryStep ==
    ASSUME IInv, [Next]_vars, PagesAssumption
    PROVE  IInv' /\ Thrown
  <1>1. ASSUME ~blank, ChartStep
        PROVE  IInv' /\ Thrown
    <2>1. ChartSafe' /\ Thrown
      BY <1>1, ChartsMove DEF ChartStep, IInv
    <2>2. PlaySafe'
      BY <1>1, PlayStays DEF ChartStep, IInv
    <2>3. mounted' = mounted
      BY <1>1 DEF ChartStep, ChartsOf!Next, ChartsOf!Refresh, ChartsOf!SelectRange,
                  ChartsOf!Move, ChartsOf!Leave
    <2> QED
      BY <1>1, <2>1, <2>2, <2>3 DEF ChartStep, IInv, Routed, recentVars, playVars
  <1>2. CASE RecentRun \/ RecentInput
    <2>1. UNCHANGED <<page, chartVars, playVars>>
      BY <1>2 DEF RecentRun, RecentInput
    <2>2. open' = open
      BY <1>2 DEF RecentRun, RecentInput, Recent!Run, Recent!Fire, Recent!Tick,
                  Recent!Succeed, Recent!Fail, Recent!Record, Recent!SetPeriod
    <2>3. PlaySafe' /\ ChartSafe' /\ Thrown
      BY <2>1, PlayStays, ChartsStay DEF IInv
    <2> QED
      BY <2>1, <2>2, <2>3 DEF IInv, Routed, chartVars, playVars
  <1>3. CASE PlayAnswer \/ PlayInput
    <2>1. UNCHANGED <<page, chartVars, recentVars>>
      BY <1>3 DEF PlayAnswer, PlayInput
    <2>2. PlaySafe'
      BY <1>3, PlayAnswers, PlayFollows, PlayEdits, PlayRejects, PlaySends
         DEF PlayAnswer, PlayInput, IInv
    <2>3. shown' = shown
      BY <1>3 DEF PlayAnswer, PlayInput, Play!Answer, Play!FollowLink, Play!Edit,
                  Play!Reject, Play!Send
    <2>4. ChartSafe' /\ Thrown
      BY <2>1, ChartsStay DEF IInv
    <2> QED
      BY <2>1, <2>2, <2>3, <2>4 DEF IInv, Routed, chartVars, recentVars
  <1>4. CASE UNCHANGED vars
    <2>1. UNCHANGED chartVars /\ UNCHANGED playVars /\ page' = page /\ open' = open
      BY <1>4 DEF vars, recentVars
    <2> QED
      BY <2>1, PlayStays, ChartsStay DEF IInv, Routed, chartVars, playVars
  <1> QED
    BY <1>1, <1>2, <1>3, <1>4, RouterStep, RestartStep DEF Next

\* The inductive invariant holds.
THEOREM PagesInvariant == Spec => []IInv
  <1> USE PagesAssumption
  <1>1. Init => IInv
    <2> SUFFICES ASSUME Init
                 PROVE  IInv
      OBVIOUS
    <2>1. Routed
      BY DEF Init, Routed, Routes, ChartsOf!Init, Recent!Init, Play!Init
    <2>2. form \in Play!Forms /\ << >> \in Play!Links
      BY DEF Init, Play!Init, Play!Forms, Play!Blank, Play!Bodies, Play!Links, PagesAssumption,
             Play!PlaygroundAssumption
    <2>3. PlaySafe
      BY <2>2 DEF Init, Play!Init, PlaySafe, NothingLeft, Play!TypeOK,
                  Play!AnswerIsOfLastSend, Play!FormFollowsLink, Play!BodiesFit
    <2>4. ChartSafe
      BY EmptyIsNat DEF Init, ChartsOf!Init, ChartSafe, ChartsOf!TypeOK
    <2> QED
      BY <2>1, <2>3, <2>4 DEF IInv
  <1>2. IInv /\ [Next]_vars => IInv'
    BY EveryStep
  <1> QED
    BY <1>1, <1>2, PTL DEF Spec

\* PlaygroundPage.tsx:71-75,189-198: the answer shown is that of the last request
\* sent, and only that one is waited for.
THEOREM AnswersMatch == Spec => []AnswerIsOfLastSend
  <1>1. IInv => AnswerIsOfLastSend
    BY DEF IInv, PlaySafe, AnswerIsOfLastSend
  <1> QED
    BY <1>1, PagesInvariant, PTL

\* PlaygroundPage.tsx:37-42: an untouched form names what its link named.
THEOREM FormsFollowLinks == Spec => []FormFollowsLink
  <1>1. IInv => FormFollowsLink
    BY DEF IInv, PlaySafe, FormFollowsLink
  <1> QED
    BY <1>1, PagesInvariant, PTL

\* PlaygroundPage.tsx:44,54-66: a GET or DELETE is never sent with a body.
THEOREM BodiesAlwaysFit == Spec => []Play!BodiesFit
  <1>1. IInv => Play!BodiesFit
    BY DEF IInv, PlaySafe
  <1> QED
    BY <1>1, PagesInvariant, PTL

\* MultiAreaChart.tsx:52-58: only new samples under a resting pointer, too few for
\* it, make the app throw.
THEOREM OnlyRefreshThrows == Spec => BlankOnlyByRefresh
  <1>1. IInv /\ [Next]_vars =>
          [~blank /\ blank' =>
             /\ points' # points /\ hover' = hover /\ range' = range
             /\ \E c \in ChartsOf!Multi :
                   hover[c] # ChartsOf!NoIndex
                   /\ ChartsOf!Longest(points', c) \in 2..hover[c]]_ChartsOf!chartVars
    BY EveryStep, PagesAssumption DEF Thrown
  <1> QED
    BY <1>1, PagesInvariant, PTL DEF Spec, BlankOnlyByRefresh, ChartsOf!BlankOnlyByRefresh

-----------------------------------------------------------------------------
(* The activity log. *)

PollRecord == [since : Nat, left : 0..Slowest, cancelled : BOOLEAN]

\* So many intervals of p ticks last.
Intervals(p, n) == p * n

\* Of the loads q, the k-th, if it may still show its rows: without refreshing it
\* is the newest; with an interval of p ticks, of which t are left, it has been
\* out since as many intervals as there are newer loads, and is due in time; where
\* it is alone, it shows nothing older than the rows.
Paced(q, k, p, t, rows) ==
    ~q[k].cancelled =>
        /\ p = 0 => k = Len(q)
        /\ p > 0 => q[k].left + (p - t) + Intervals(p, Len(q) - k) <= Slowest
        /\ p = 0 \/ Slowest < p => rows <= q[k].since

\* The inductive invariant of the activity log, given IInv.
RecentSafe ==
    /\ period \in Periods /\ recorded \in Nat
    /\ requests \in Nat \cup {-1} /\ requests <= recorded
    /\ polls \in Seq(PollRecord)
    /\ ~open => timer = -1 /\ polls = << >>
    /\ open => IF period = 0 THEN timer = -1 ELSE timer \in 0..period
    /\ \A k \in 1..Len(polls) : Paced(polls, k, period, timer, requests)

\* What a step does to the rows.
Forward ==
    open /\ open' /\ (period = 0 \/ Slowest < period) => requests' >= requests

\* Intervals add up.
LEMMA IntervalsAdd ==
    ASSUME NEW p \in Nat, NEW n \in Nat
    PROVE  /\ Intervals(p, n) \in Nat
           /\ Intervals(p, 0) = 0
           /\ Intervals(p, n + 1) = Intervals(p, n) + p
           /\ n > 0 => Intervals(p, n) >= p
  <1>1. p * n \in Nat /\ p * 0 = 0 /\ p * (n + 1) = p * n + p
    OBVIOUS
  <1>2. ASSUME n > 0
        PROVE  p * n >= p
    <2>1. n - 1 \in Nat /\ n = (n - 1) + 1
      BY <1>2
    <2>2. p * (n - 1) \in Nat /\ p * ((n - 1) + 1) = p * (n - 1) + p
      BY <2>1
    <2> QED
      BY <2>1, <2>2
  <1> QED
    BY <1>1, <1>2 DEF Intervals

\* What fits into a quotient.
LEMMA Quotient ==
    ASSUME NEW p \in Nat \ {0}, NEW m \in Nat, NEW n \in Nat, p * n <= m
    PROVE  n <= m \div p
  OBVIOUS

\* A tuple of loads is what its length and its elements are.
LEMMA LoadsAreSeq ==
    ASSUME NEW n \in Nat, NEW f \in [1..n -> PollRecord]
    PROVE  f \in Seq(PollRecord) /\ Len(f) = n
  <1>1. f \in Seq(PollRecord)
    BY SeqDef
  <1> QED
    BY <1>1, LenProperties

\* What is left of the loads without the i-th.
LEMMA RemovedLoad ==
    ASSUME NEW q \in Seq(PollRecord), NEW i \in 1..Len(q), NEW r, r = Recent!RemoveAt(q, i)
    PROVE  /\ r \in Seq(PollRecord)
           /\ Len(r) = Len(q) - 1
           /\ \A j \in 1..Len(q) - 1 : r[j] = q[IF j < i THEN j ELSE j + 1]
  <1> DEFINE a == SubSeq(q, 1, i - 1)
             b == SubSeq(q, i + 1, Len(q))
             n == Len(q)
  <1>1. n \in Nat /\ i \in 1..n /\ \A j \in 1..n : q[j] \in PollRecord
    BY LenProperties, ElementOfSeq
  <1>2. a \in Seq(PollRecord) /\ Len(a) = i - 1 /\ \A j \in 1..i - 1 : a[j] = q[j]
    <2>1. \A j \in 1..(i - 1) : q[j] \in PollRecord
      BY <1>1
    <2>2. /\ a \in Seq(PollRecord)
          /\ Len(a) = IF 1 <= i - 1 THEN i - 1 - 1 + 1 ELSE 0
          /\ \A j \in 1..(i - 1 - 1 + 1) : a[j] = q[1 + j - 1]
      BY <1>1, <2>1, SubSeqProperties
    <2> QED
      BY <1>1, <2>2
  <1>3. b \in Seq(PollRecord) /\ Len(b) = n - i /\ \A j \in 1..n - i : b[j] = q[i + j]
    <2>1. \A j \in (i + 1)..n : q[j] \in PollRecord
      BY <1>1
    <2>2. /\ b \in Seq(PollRecord)
          /\ Len(b) = IF i + 1 <= n THEN n - (i + 1) + 1 ELSE 0
          /\ \A j \in 1..(n - (i + 1) + 1) : b[j] = q[(i + 1) + j - 1]
      BY <1>1, <2>1, SubSeqProperties
    <2> QED
      BY <1>1, <2>2
  <1>4. r = a \o b
    BY DEF Recent!RemoveAt
  <1> HIDE DEF a, b
  <1>5. /\ a \o b \in Seq(PollRecord) /\ Len(a \o b) = Len(a) + Len(b)
        /\ \A j \in 1..Len(a) + Len(b) : (a \o b)[j] = IF j <= Len(a) THEN a[j] ELSE b[j - Len(a)]
    BY <1>2, <1>3, ConcatProperties
  <1> HIDE DEF n
  <1>6. ASSUME NEW j \in 1..n - 1
        PROVE  (a \o b)[j] = q[IF j < i THEN j ELSE j + 1]
    <2>1. CASE j < i
      BY <1>1, <1>2, <1>3, <1>5, <2>1
    <2>2. CASE ~(j < i)
      <3>1. (a \o b)[j] = b[j - (i - 1)]
        BY <1>1, <1>2, <1>3, <1>5, <2>2
      <3>2. j - (i - 1) \in 1..n - i /\ i + (j - (i - 1)) = j + 1
        BY <1>1, <2>2
      <3> QED
        BY <1>3, <2>2, <3>1, <3>2
    <2> QED
      BY <2>1, <2>2
  <1> QED
    BY <1>1, <1>2, <1>3, <1>4, <1>5, <1>6 DEF n

\* Of the loads that start, one is the newest.
LEMMA LoadStarts ==
    ASSUME RecentSafe, NEW ps \in Seq(PollRecord), NEW q \in Recent!Poll(ps)
    PROVE  /\ q \in Seq(PollRecord) /\ Len(ps) \in Nat /\ Len(q) = Len(ps) + 1
           /\ \A k \in 1..Len(ps) : q[k] = ps[k]
           /\ q[Len(q)].since = recorded /\ q[Len(q)].left \in 1..Slowest
  <1>1. PICK left \in 1..Slowest :
           q = Append(ps, [since |-> recorded, left |-> left, cancelled |-> FALSE])
    BY DEF Recent!Poll
  <1> DEFINE e == [since |-> recorded, left |-> left, cancelled |-> FALSE]
  <1>2. e \in PollRecord /\ e.since = recorded /\ e.left = left
    BY <1>1 DEF PollRecord, RecentSafe
  <1> HIDE DEF e
  <1>3. q = Append(ps, e)
    BY <1>1 DEF e
  <1>4. /\ q \in Seq(PollRecord) /\ Len(q) = Len(ps) + 1
        /\ \A k \in 1..Len(ps) : q[k] = ps[k]
        /\ q[Len(ps) + 1] = e
    BY <1>2, <1>3, AppendProperties
  <1>5. Len(ps) \in Nat
    BY LenProperties
  <1> QED
    BY <1>1, <1>2, <1>4, <1>5

\* The newest load of an effect in force keeps the pace.
LEMMA NewestKeepsPace ==
    ASSUME PagesAssumption, NEW q, NEW n \in Nat, Len(q) = n, NEW p \in Periods,
           NEW t, t = (IF p <= 0 THEN -1 ELSE p), NEW rows \in Int, rows <= recorded,
           q[n].since = recorded, q[n].left \in 1..Slowest
    PROVE  Paced(q, n, p, t, rows)
  <1>1. p \in Nat /\ Slowest \in Nat
    BY DEF PagesAssumption, Recent!RecentTrafficAssumption
  <1>2. n - n = 0 /\ Intervals(p, 0) = 0
    BY <1>1, IntervalsAdd
  <1>3. ASSUME p > 0
        PROVE  q[n].left + (p - t) + Intervals(p, n - n) <= Slowest
    <2>1. t = p /\ p - t = 0
      BY <1>1, <1>3
    <2> QED
      BY <1>1, <1>2, <2>1
  <1> QED
    BY <1>3 DEF Paced

\* The page is opened: the newest load is the only one.
LEMMA LogOpens ==
    ASSUME RecentSafe, PagesAssumption, Recent!Mount
    PROVE  RecentSafe' /\ Forward
  <1>1. /\ ~open /\ open' /\ period' = period /\ recorded' = recorded /\ requests' = -1
        /\ polls = << >> /\ polls' \in Recent!Poll(polls)
        /\ timer' = IF period <= 0 THEN -1 ELSE period
    BY DEF Recent!Mount, Recent!Interval, Recent!None, RecentSafe
  <1>2. period \in Nat /\ recorded \in Nat /\ Slowest \in Nat
    BY DEF RecentSafe, PagesAssumption, Recent!RecentTrafficAssumption
  <1>3. polls \in Seq(PollRecord) /\ Len(polls) = 0
    <2>1. polls = << >>
      BY <1>1
    <2> QED
      BY <2>1, EmptySeq
  <1>4. /\ polls' \in Seq(PollRecord) /\ Len(polls') = 1
        /\ polls'[1].since = recorded /\ polls'[1].left \in 1..Slowest
    <2>1. /\ polls' \in Seq(PollRecord) /\ Len(polls') = Len(polls) + 1
          /\ polls'[Len(polls')].since = recorded /\ polls'[Len(polls')].left \in 1..Slowest
      BY <1>1, <1>3, LoadStarts
    <2>2. Len(polls') = 1
      BY <1>3, <2>1
    <2> QED
      BY <2>1, <2>2
  <1>5. Paced(polls', 1, period', timer', requests')
    <2>1. requests' \in Int /\ requests' <= recorded /\ period' \in Periods
      BY <1>1, <1>2 DEF RecentSafe
    <2> QED
      BY <1>1, <1>4, <2>1, NewestKeepsPace
  <1>6. \A k \in 1..Len(polls') : Paced(polls', k, period', timer', requests')
    BY <1>4, <1>5
  <1> QED
    BY <1>1, <1>2, <1>4, <1>6 DEF RecentSafe, Forward

\* The page is left: nothing is out.
LEMMA LogCloses ==
    ASSUME RecentSafe, Recent!Unmount
    PROVE  RecentSafe' /\ Forward
  <1>1. /\ ~open' /\ polls' = << >> /\ timer' = -1 /\ requests' = -1 /\ recorded' = 0
        /\ period' = period
    BY DEF Recent!Unmount, Recent!None
  <1>2. polls' \in Seq(PollRecord) /\ Len(polls') = 0
    BY <1>1, EmptySeq
  <1> QED
    BY <1>1, <1>2 DEF RecentSafe, Forward

\* Another interval: the loads so far are cancelled, and the newest is of it.
LEMMA IntervalChanges ==
    ASSUME RecentSafe, PagesAssumption, NEW p \in Periods, Recent!SetPeriod(p)
    PROVE  RecentSafe' /\ Forward
  <1>1. /\ period' = p /\ open' = open /\ recorded' = recorded /\ requests' = requests
    BY DEF Recent!SetPeriod
  <1>2. p \in Nat /\ recorded \in Nat /\ requests \in Nat \cup {-1} /\ Slowest \in Nat
        /\ requests <= recorded /\ polls \in Seq(PollRecord) /\ Len(polls) \in Nat
    BY LenProperties DEF RecentSafe, PagesAssumption, Recent!RecentTrafficAssumption
  <1>3. CASE ~open
    <2>1. polls' = << >> /\ timer' = -1
      BY <1>3 DEF Recent!SetPeriod, RecentSafe
    <2>2. polls' \in Seq(PollRecord) /\ Len(polls') = 0
      BY <2>1, EmptySeq
    <2> QED
      BY <1>1, <1>2, <1>3, <2>1, <2>2 DEF RecentSafe, Forward
  <1>4. CASE open
    <2> DEFINE ps == Recent!Cancel(polls)
               n == Len(polls)
    <2>1. polls' \in Recent!Poll(ps) /\ timer' = IF p <= 0 THEN -1 ELSE p
      BY <1>4 DEF Recent!SetPeriod, Recent!Interval, Recent!None
    <2>2. DOMAIN polls = 1..n /\ \A k \in 1..n : polls[k] \in PollRecord
      BY <1>2, LenProperties, ElementOfSeq
    <2>3. ps = [k \in 1..n |-> [polls[k] EXCEPT !.cancelled = TRUE]]
      BY <2>2 DEF Recent!Cancel
    <2>4. \A k \in 1..n : /\ [polls[k] EXCEPT !.cancelled = TRUE] \in PollRecord
                          /\ [polls[k] EXCEPT !.cancelled = TRUE].cancelled
      BY <2>2 DEF PollRecord
    <2>5. ps \in [1..n -> PollRecord] /\ \A k \in 1..n : ps[k].cancelled
      BY <2>3, <2>4
    <2>6. ps \in Seq(PollRecord) /\ Len(ps) = n
      BY <1>2, <2>5, LoadsAreSeq
    <2> HIDE DEF ps, n
    <2>7. /\ polls' \in Seq(PollRecord) /\ n \in Nat /\ Len(polls') = n + 1
          /\ \A k \in 1..n : polls'[k] = ps[k]
          /\ polls'[n + 1].since = recorded /\ polls'[n + 1].left \in 1..Slowest
      BY <2>1, <2>6, LoadStarts
    <2>8. ASSUME NEW k \in 1..n
          PROVE  Paced(polls', k, period', timer', requests')
      BY <2>5, <2>7 DEF Paced
    <2>9. Paced(polls', n + 1, period', timer', requests')
      BY <1>1, <1>2, <2>1, <2>7, NewestKeepsPace
    <2>10. \A k \in 1..Len(polls') : Paced(polls', k, period', timer', requests')
      BY <2>7, <2>8, <2>9
    <2> QED
      BY <1>1, <1>2, <1>4, <2>1, <2>7, <2>10 DEF RecentSafe, Forward
  <1> QED
    BY <1>2, <1>3, <1>4

\* The interval fires: one more newer load, and the whole interval to go.
LEMMA IntervalFires ==
    ASSUME RecentSafe, PagesAssumption, Recent!Fire
    PROVE  RecentSafe' /\ Forward
  <1> DEFINE n == Len(polls)
  <1>1. /\ timer = 0 /\ polls' \in Recent!Poll(polls) /\ timer' = IF period <= 0 THEN -1 ELSE period
        /\ UNCHANGED <<open, period, recorded, requests>>
    BY DEF Recent!Fire, Recent!Interval, Recent!None
  <1>2. /\ period \in Nat /\ recorded \in Nat /\ requests \in Nat \cup {-1} /\ Slowest \in Nat
        /\ requests <= recorded /\ polls \in Seq(PollRecord)
        /\ open /\ period > 0
    BY <1>1 DEF RecentSafe, PagesAssumption, Recent!RecentTrafficAssumption
  <1>3. /\ polls' \in Seq(PollRecord) /\ n \in Nat /\ Len(polls') = n + 1
        /\ \A k \in 1..n : polls'[k] = polls[k] /\ polls[k] \in PollRecord
        /\ polls'[n + 1].since = recorded /\ polls'[n + 1].left \in 1..Slowest
    BY <1>1, <1>2, LoadStarts, ElementOfSeq
  <1> HIDE DEF n
  <1>4. ASSUME NEW k \in 1..n, ~polls[k].cancelled
        PROVE  Paced(polls', k, period', timer', requests')
    <2>1. /\ polls[k].left + (period - 0) + Intervals(period, n - k) <= Slowest
          /\ Slowest < period => requests <= polls[k].since
      BY <1>1, <1>2, <1>4 DEF RecentSafe, Paced, n
    <2>2. n - k \in Nat /\ (n + 1) - k = (n - k) + 1
      BY <1>3
    <2>3. /\ Intervals(period, n - k) \in Nat
          /\ Intervals(period, (n + 1) - k) = Intervals(period, n - k) + period
      BY <1>2, <2>2, IntervalsAdd
    <2>4. polls[k].left \in Nat
      BY <1>2, <1>3 DEF PollRecord
    <2>5. polls[k].left + (period - period) + Intervals(period, (n + 1) - k) <= Slowest
      BY <1>2, <2>1, <2>3, <2>4
    <2> QED
      BY <1>1, <1>2, <1>3, <2>1, <2>5 DEF Paced
  <1>5. ASSUME NEW k \in 1..n, polls[k].cancelled
        PROVE  Paced(polls', k, period', timer', requests')
    BY <1>3, <1>5 DEF Paced
  <1>6. Paced(polls', n + 1, period', timer', requests')
    <2>1. n + 1 \in Nat /\ requests \in Int /\ period \in Periods
      BY <1>2, <1>3 DEF RecentSafe
    <2> QED
      BY <1>1, <1>2, <1>3, <2>1, NewestKeepsPace
  <1>7. \A k \in 1..Len(polls') : Paced(polls', k, period', timer', requests')
    BY <1>3, <1>4, <1>5, <1>6
  <1> QED
    BY <1>1, <1>2, <1>3, <1>7 DEF RecentSafe, Forward

\* Where a load is sure to answer before the next starts, one that may show its
\* rows is the newest.
LEMMA AloneIsNewest ==
    ASSUME RecentSafe, PagesAssumption, NEW k \in 1..Len(polls), ~polls[k].cancelled,
           period = 0 \/ Slowest < period
    PROVE  k = Len(polls)
  <1>1. /\ period \in Nat /\ Slowest \in Nat /\ Len(polls) \in Nat /\ polls[k].left \in Nat
        /\ open /\ (period > 0 => timer \in 0..period)
    <2>1. polls[k] \in PollRecord /\ Len(polls) \in Nat /\ polls # << >>
      BY LenProperties, ElementOfSeq, EmptySeq DEF RecentSafe
    <2> QED
      BY <2>1 DEF RecentSafe, PagesAssumption, Recent!RecentTrafficAssumption, PollRecord
  <1>2. Paced(polls, k, period, timer, requests)
    BY DEF RecentSafe
  <1>3. CASE period = 0
    BY <1>2, <1>3 DEF Paced
  <1>4. CASE period > 0
    <2>1. polls[k].left + (period - timer) + Intervals(period, Len(polls) - k) <= Slowest
      BY <1>2, <1>4 DEF Paced
    <2>2. Len(polls) - k \in Nat
      BY <1>1
    <2>3. Intervals(period, Len(polls) - k) \in Nat
          /\ (Len(polls) - k > 0 => Intervals(period, Len(polls) - k) >= period)
      BY <1>1, <2>2, IntervalsAdd
    <2> QED
      BY <1>1, <1>4, <2>1, <2>2, <2>3
  <1> QED
    BY <1>1, <1>3, <1>4

\* A load ends: the others keep their pace, and those with fewer newer loads gain.
LEMMA LoadEnds ==
    ASSUME RecentSafe, PagesAssumption, NEW i \in 1..Len(polls),
           polls' = Recent!RemoveAt(polls, i),
           UNCHANGED <<open, period, recorded, timer>>,
           NEW rows \in Nat \cup {-1}, requests' = rows, rows <= recorded,
           rows = requests \/ ~polls[i].cancelled
    PROVE  RecentSafe'
  <1> DEFINE n == Len(polls)
             at(j) == IF j < i THEN j ELSE j + 1
  <1>1. /\ period \in Nat /\ Slowest \in Nat /\ n \in Nat /\ i \in 1..n
        /\ open /\ (period > 0 => timer \in 0..period)
    <2>1. n \in Nat /\ polls # << >>
      BY LenProperties, EmptySeq DEF RecentSafe
    <2> QED
      BY <2>1 DEF RecentSafe, PagesAssumption, Recent!RecentTrafficAssumption
  <1>2. /\ polls' \in Seq(PollRecord) /\ Len(polls') = n - 1
        /\ \A j \in 1..n - 1 : polls'[j] = polls[at(j)]
    BY RemovedLoad DEF RecentSafe
  <1>3. ASSUME NEW j \in 1..n - 1, ~polls[at(j)].cancelled
        PROVE  Paced(polls', j, period, timer, rows)
    <2> DEFINE k == at(j)
    <2>1. k \in 1..n /\ k # i
      BY <1>1
    <2>2. polls[k] \in PollRecord
      BY <1>1, <2>1, ElementOfSeq DEF RecentSafe
    <2>3. (n - 1) - j = n - k \/ (n - 1) - j = (n - k) - 1
      BY <1>1
    <2>4. k <= n /\ k = n => (n - 1) - j = 0
      BY <1>1, <2>1
    <2>5. (n - 1) - j \in Nat /\ n - k \in Nat
      BY <1>1, <2>1
    <2>6. Paced(polls, k, period, timer, requests)
      BY <2>1 DEF RecentSafe
    <2>7. polls'[j] = polls[k] /\ ~polls[k].cancelled
      BY <1>2, <1>3
    <2> HIDE DEF k, at
    <2>8. ASSUME period = 0
          PROVE  j = Len(polls')
      <3>1. k = n
        BY <2>6, <2>7, <2>8 DEF Paced, n
      <3> QED
        BY <1>1, <1>2, <2>1, <2>4, <3>1
    <2>9. ASSUME period > 0
          PROVE  polls'[j].left + (period - timer) + Intervals(period, Len(polls') - j) <= Slowest
      <3>1. polls[k].left + (period - timer) + Intervals(period, n - k) <= Slowest
        BY <2>6, <2>7, <2>9 DEF Paced, n
      <3>2. Intervals(period, n - k) \in Nat /\ Intervals(period, (n - 1) - j) \in Nat
        BY <1>1, <2>5, IntervalsAdd
      <3>3. Intervals(period, (n - 1) - j) <= Intervals(period, n - k)
        <4>1. CASE (n - 1) - j = n - k
          BY <3>2, <4>1
        <4>2. CASE n - k = ((n - 1) - j) + 1
          BY <1>1, <2>5, <3>2, <4>2, IntervalsAdd
        <4>3. (n - 1) - j = (n - k) - 1 => n - k = ((n - 1) - j) + 1
          BY <1>1, <2>1
        <4> QED
          BY <2>3, <4>1, <4>2, <4>3
      <3>4. polls[k].left \in Nat
        BY <1>1, <2>2 DEF PollRecord
      <3> DEFINE before == Intervals(period, n - k)
                 now == Intervals(period, (n - 1) - j)
                 due == polls[k].left
      <3>5. due + (period - timer) + before <= Slowest
            /\ now \in Nat /\ before \in Nat /\ now <= before /\ due \in Nat
        BY <3>1, <3>2, <3>3, <3>4
      <3>6. timer \in 0..period /\ period \in Nat /\ Slowest \in Nat
        BY <1>1, <2>9
      <3>7. polls'[j].left = due /\ Intervals(period, Len(polls') - j) = now
        BY <1>2, <2>7
      <3> HIDE DEF before, now, due
      <3>8. due + (period - timer) + now <= Slowest
        BY <3>5, <3>6
      <3> QED
        BY <3>7, <3>8
    <2>10. ASSUME period = 0 \/ Slowest < period
           PROVE  rows <= polls'[j].since
      <3>1. k = n
        BY <2>1, <2>7, <2>10, AloneIsNewest DEF n
      <3>2. ASSUME ~polls[i].cancelled
            PROVE  i = n
        BY <2>10, <3>2, AloneIsNewest DEF n
      <3>3. polls[i].cancelled
        BY <2>1, <3>1, <3>2
      <3> QED
        BY <2>6, <2>7, <2>10, <3>3 DEF Paced
    <2> QED
      BY <2>8, <2>9, <2>10 DEF Paced
  <1>4. ASSUME NEW j \in 1..n - 1, polls[at(j)].cancelled
        PROVE  Paced(polls', j, period, timer, rows)
    BY <1>2, <1>4 DEF Paced
  <1>5. \A j \in 1..Len(polls') : Paced(polls', j, period', timer', requests')
    BY <1>2, <1>3, <1>4
  <1> HIDE DEF n, at
  <1> QED
    BY <1>1, <1>2, <1>5 DEF RecentSafe


\* An answer: the rows of a load that may show them are no older than those shown.
LEMMA LoadAnswers ==
    ASSUME RecentSafe, PagesAssumption, NEW i, Recent!Succeed(i)
    PROVE  RecentSafe' /\ Forward
  <1>1. /\ i \in DOMAIN polls /\ polls' = Recent!RemoveAt(polls, i)
        /\ UNCHANGED <<open, period, recorded, timer>>
        /\ IF polls[i].cancelled THEN requests' = requests ELSE requests' \in polls[i].since..recorded
    BY DEF Recent!Succeed
  <1>2. /\ recorded \in Nat /\ requests \in Nat \cup {-1} /\ requests <= recorded
        /\ i \in 1..Len(polls) /\ polls[i].since \in Nat
    <2>1. DOMAIN polls = 1..Len(polls)
      BY LenProperties DEF RecentSafe
    <2>2. polls[i] \in PollRecord
      BY <1>1, <2>1, ElementOfSeq DEF RecentSafe
    <2> QED
      BY <1>1, <2>1, <2>2 DEF RecentSafe, PollRecord
  <1>3. /\ requests' \in Nat \cup {-1} /\ requests' <= recorded
        /\ requests' = requests \/ ~polls[i].cancelled
    BY <1>1, <1>2
  <1>4. RecentSafe'
    BY <1>1, <1>2, <1>3, LoadEnds
  <1>5. Forward
    <2>1. Paced(polls, i, period, timer, requests)
      BY <1>2 DEF RecentSafe
    <2>2. ASSUME ~polls[i].cancelled, period = 0 \/ Slowest < period
          PROVE  requests' >= requests
      BY <1>1, <1>2, <2>1, <2>2 DEF Paced
    <2>3. ASSUME polls[i].cancelled
          PROVE  requests' >= requests
      BY <1>1, <1>2, <2>3
    <2> QED
      BY <2>2, <2>3 DEF Forward
  <1> QED
    BY <1>4, <1>5

\* A failure changes no row.
LEMMA LoadFails ==
    ASSUME RecentSafe, PagesAssumption, NEW i, Recent!Fail(i)
    PROVE  RecentSafe' /\ Forward
  <1>1. /\ i \in DOMAIN polls /\ polls' = Recent!RemoveAt(polls, i)
        /\ UNCHANGED <<open, period, recorded, timer>> /\ requests' = requests
    BY DEF Recent!Fail
  <1>2. /\ recorded \in Nat /\ requests \in Nat \cup {-1} /\ requests <= recorded
        /\ i \in 1..Len(polls)
    BY <1>1, LenProperties DEF RecentSafe
  <1>3. RecentSafe'
    BY <1>1, <1>2, LoadEnds
  <1> QED
    BY <1>1, <1>2, <1>3 DEF Forward

\* The gateway records one more request.
LEMMA RequestRecorded ==
    ASSUME RecentSafe, Recent!Record
    PROVE  RecentSafe' /\ Forward
  <1>1. /\ recorded' = recorded + 1
        /\ UNCHANGED <<open, period, polls, timer, requests>>
    BY DEF Recent!Record
  <1>2. recorded' \in Nat /\ requests \in Nat \cup {-1} /\ requests <= recorded'
    BY <1>1 DEF RecentSafe
  <1> QED
    BY <1>1, <1>2 DEF RecentSafe, Forward

\* Time passes for the loads and for the timer alike.
LEMMA TimePasses ==
    ASSUME RecentSafe, PagesAssumption, Recent!Tick
    PROVE  RecentSafe' /\ Forward
  <1> DEFINE n == Len(polls)
  <1>1. /\ timer # 0 /\ \A k \in DOMAIN polls : polls[k].left > 0
        /\ timer # -1 \/ polls # << >>
        /\ timer' = IF timer = -1 THEN -1 ELSE timer - 1
        /\ polls' = [k \in DOMAIN polls |-> [polls[k] EXCEPT !.left = @ - 1]]
        /\ UNCHANGED <<open, period, recorded, requests>>
    BY DEF Recent!Tick, Recent!None
  <1>2. /\ period \in Nat /\ Slowest \in Nat /\ open
        /\ IF period = 0 THEN timer = -1 ELSE timer \in 1..period
        /\ requests \in Nat \cup {-1}
    BY <1>1 DEF RecentSafe, PagesAssumption, Recent!RecentTrafficAssumption
  <1>3. n \in Nat /\ DOMAIN polls = 1..n /\ \A k \in 1..n : polls[k] \in PollRecord
    BY LenProperties, ElementOfSeq DEF RecentSafe
  <1>4. ASSUME NEW k \in 1..n
        PROVE  /\ [polls[k] EXCEPT !.left = @ - 1] \in PollRecord
               /\ [polls[k] EXCEPT !.left = @ - 1].left = polls[k].left - 1
               /\ [polls[k] EXCEPT !.left = @ - 1].since = polls[k].since
               /\ [polls[k] EXCEPT !.left = @ - 1].cancelled = polls[k].cancelled
    <2>1. polls[k] \in PollRecord /\ polls[k].left > 0
      BY <1>1, <1>3
    <2> QED
      BY <1>2, <2>1 DEF PollRecord
  <1>5. /\ polls' \in [1..n -> PollRecord]
        /\ \A k \in 1..n : /\ polls'[k].left = polls[k].left - 1
                           /\ polls'[k].since = polls[k].since
                           /\ polls'[k].cancelled = polls[k].cancelled
    BY <1>1, <1>3, <1>4
  <1>6. polls' \in Seq(PollRecord) /\ Len(polls') = n
    BY <1>3, <1>5, LoadsAreSeq
  <1>7. ASSUME NEW k \in 1..n
        PROVE  Paced(polls', k, period, timer', requests)
    <2>1. Paced(polls, k, period, timer, requests)
      BY DEF RecentSafe
    <2>2. polls[k].left \in Nat /\ Intervals(period, n - k) \in Nat
      <3>1. polls[k] \in PollRecord /\ n - k \in Nat
        BY <1>3
      <3>2. polls[k].left \in Nat
        BY <1>2, <3>1 DEF PollRecord
      <3> HIDE DEF n
      <3>3. Intervals(period, n - k) \in Nat
        BY <1>2, <3>1, IntervalsAdd
      <3> QED
        BY <3>2, <3>3
    <2>3. ASSUME period > 0, polls[k].left + (period - timer) + Intervals(period, n - k) <= Slowest
          PROVE  (polls[k].left - 1) + (period - (timer - 1)) + Intervals(period, n - k) <= Slowest
      BY <1>2, <2>2, <2>3
    <2>4. period > 0 => timer' = timer - 1
      BY <1>1, <1>2
    <2> HIDE DEF n
    <2>5. ASSUME ~polls[k].cancelled, period > 0
          PROVE  polls'[k].left + (period - timer') + Intervals(period, n - k) <= Slowest
      <3>1. polls[k].left + (period - timer) + Intervals(period, n - k) <= Slowest
        BY <2>1, <2>5 DEF Paced, n
      <3> QED
        BY <1>5, <2>3, <2>4, <2>5, <3>1
    <2>6. n = Len(polls)
      BY DEF n
    <2> QED
      BY <1>5, <1>6, <2>1, <2>5, <2>6 DEF Paced
  <1>8. \A k \in 1..Len(polls') : Paced(polls', k, period', timer', requests')
    BY <1>1, <1>6, <1>7
  <1>9. period > 0 => timer' \in 0..period
    BY <1>1, <1>2
  <1> QED
    BY <1>1, <1>2, <1>6, <1>8, <1>9 DEF RecentSafe, Forward

\* Steps elsewhere.
LEMMA LogStays ==
    ASSUME RecentSafe, UNCHANGED recentVars
    PROVE  RecentSafe' /\ Forward
  <1>1. requests \in Nat \cup {-1}
    BY DEF RecentSafe
  <1> QED
    BY <1>1 DEF RecentSafe, Forward, recentVars

\* Every step of the app keeps the log, and its rows go forward.
LEMMA EveryLogStep ==
    ASSUME IInv, RecentSafe, [Next]_vars, PagesAssumption
    PROVE  RecentSafe' /\ Forward
  <1>1. ASSUME NEW to \in Routes, NEW query \in Play!Links, Navigate(to, query)
        PROVE  RecentSafe' /\ Forward
    <2>1. Recent!Unmount \/ Recent!Mount \/ UNCHANGED recentVars
      BY <1>1 DEF Navigate, RouteRecent
    <2> QED
      BY <2>1, LogCloses, LogOpens, LogStays
  <1>2. CASE ChartStep \/ PlayAnswer \/ PlayInput
    BY <1>2, LogStays DEF ChartStep, PlayAnswer, PlayInput
  <1>3. CASE RecentRun
    BY <1>3, IntervalFires, TimePasses, LoadAnswers, LoadFails DEF RecentRun, Recent!Run
  <1>4. CASE RecentInput
    BY <1>4, RequestRecorded, IntervalChanges DEF RecentInput
  <1>5. CASE Restart
    <2>1. ~open
      BY <1>5 DEF IInv, ChartSafe, Routed, Restart
    <2>2. /\ period' = FirstPeriod /\ polls' = << >>
          /\ UNCHANGED <<open, recorded, timer, requests>>
      BY <1>5 DEF Restart
    <2>3. polls' \in Seq(PollRecord) /\ Len(polls') = 0
      BY <2>2, EmptySeq
    <2> QED
      BY <2>1, <2>2, <2>3 DEF RecentSafe, Forward, PagesAssumption
  <1>6. CASE UNCHANGED vars
    BY <1>6, LogStays DEF vars
  <1> QED
    BY <1>1, <1>2, <1>3, <1>4, <1>5, <1>6 DEF Next

\* The invariant of the log holds.
THEOREM RecentInvariant == Spec => []RecentSafe
  <1> USE PagesAssumption
  <1>1. Init => RecentSafe
    <2> SUFFICES ASSUME Init
                 PROVE  RecentSafe
      OBVIOUS
    <2>1. /\ ~open /\ period = FirstPeriod /\ recorded = 0 /\ polls = << >>
          /\ timer = -1 /\ requests = -1
      BY DEF Init, Recent!Init, Recent!None
    <2>2. polls \in Seq(PollRecord) /\ Len(polls) = 0
      BY <2>1, EmptySeq
    <2> QED
      BY <2>1, <2>2 DEF RecentSafe, PagesAssumption
  <1>2. IInv /\ RecentSafe /\ [Next]_vars => RecentSafe'
    BY EveryLogStep
  <1> QED
    BY <1>1, <1>2, PagesInvariant, PTL DEF Spec

\* RecentTrafficPage.tsx:54-65: loads do not pile up: those that may show their
\* rows started in the last Slowest ticks, one interval apart.
THEOREM LoadsDoNotPileUp == Spec => []OneEffect
  <1> USE PagesAssumption
  <1>1. RecentSafe => OneEffect
    <2> SUFFICES ASSUME RecentSafe
                 PROVE  OneEffect
      OBVIOUS
    <2> DEFINE n == Len(polls)
               live == {k \in DOMAIN polls : ~polls[k].cancelled}
               d == IF period = 0 THEN 0 ELSE Slowest \div period
    <2>1. /\ n \in Nat /\ DOMAIN polls = 1..n /\ \A k \in 1..n : polls[k] \in PollRecord
          /\ period \in Nat /\ Slowest \in Nat
      BY LenProperties, ElementOfSeq
         DEF RecentSafe, PagesAssumption, Recent!RecentTrafficAssumption
    <2>2. d \in Nat
      BY <2>1
    <2>3. ASSUME NEW k \in live
          PROVE  k \in n - d..n
      <3>1. k \in 1..n /\ Paced(polls, k, period, timer, requests) /\ ~polls[k].cancelled
        BY <2>1 DEF RecentSafe
      <3>2. CASE period = 0
        BY <2>1, <3>1, <3>2 DEF Paced
      <3>3. CASE period > 0
        <4>1. polls[k].left + (period - timer) + Intervals(period, n - k) <= Slowest
          BY <3>1, <3>3 DEF Paced
        <4>2. polls[k].left \in Nat /\ period - timer \in Nat
          <5>1. polls[k].left \in Nat
            BY <2>1, <3>1 DEF PollRecord
          <5>2. open
            BY <2>1, <3>1, EmptySeq DEF RecentSafe
          <5> QED
            BY <2>1, <3>3, <5>1, <5>2 DEF RecentSafe
        <4>3. n - k \in Nat
          BY <2>1, <3>1
        <4>4. period * (n - k) \in Nat /\ Intervals(period, n - k) = period * (n - k)
          BY <2>1, <4>3 DEF Intervals
        <4>5. period * (n - k) <= Slowest
          BY <2>1, <4>1, <4>2, <4>4
        <4>6. n - k <= Slowest \div period
          BY <2>1, <3>3, <4>3, <4>5, Quotient
        <4> QED
          BY <2>1, <2>2, <3>1, <3>3, <4>6
      <3> QED
        BY <2>1, <3>2, <3>3
    <2> HIDE DEF n, d, live
    <2>4. /\ Recent!Cardinality(live) = Cardinality(live)
      BY DEF Recent!Cardinality, Cardinality
    <2>5. IsFiniteSet(n - d..n) /\ Cardinality(n - d..n) = d + 1
      BY <2>1, <2>2, FS_Interval
    <2>6. Cardinality(live) <= d + 1
      <3>1. live \in SUBSET (n - d..n)
        BY <2>3
      <3> QED
        BY <2>5, <3>1, FS_Subset
    <2>7. Recent!Cardinality(live) <= 1 + d
      BY <2>2, <2>4, <2>6
    <2>8. ~open => timer = Recent!None /\ polls = << >>
      BY DEF RecentSafe, Recent!None
    <2> QED
      BY <2>7, <2>8 DEF OneEffect, Recent!OneEffect, live, d
  <1> QED
    BY <1>1, RecentInvariant, PTL

\* RecentTrafficPage.tsx:40-65: where a load answers before the next one starts, the
\* rows of an open page never go back in time.
THEOREM RowsGoForward == Spec => RowsNeverGoBack
  <1>1. IInv /\ RecentSafe /\ [Next]_vars =>
          [open /\ open' /\ (period = 0 \/ Slowest < period) =>
              requests' >= requests]_Recent!recentVars
    BY EveryLogStep, PagesAssumption DEF Forward
  <1> QED
    BY <1>1, RecentInvariant, PagesInvariant, PTL
       DEF Spec, RowsNeverGoBack, Recent!RowsNeverGoBack

-----------------------------------------------------------------------------
(* Statuses, uptimes and totals. *)

\* RecentTrafficPage.tsx:16-23: the filters share no row, agree with its color,
\* and miss only what is below 200 or a redirect.
THEOREM FiltersArePartition == \A status \in Nat : FiltersPartition(status)
  <1> SUFFICES ASSUME NEW status \in Nat PROVE FiltersPartition(status)
    OBVIOUS
  <1> DEFINE found == {f \in Filters : matchesStatusFilter(status, f)}
  <1>1. /\ matchesStatusFilter(status, "429") <=> status = 429
        /\ matchesStatusFilter(status, "2xx") <=> status >= 200 /\ status < 300
        /\ matchesStatusFilter(status, "4xx") <=> status >= 400 /\ status < 500 /\ status # 429
        /\ matchesStatusFilter(status, "5xx") <=> status >= 500
    BY DEF matchesStatusFilter
  <1>2. /\ "429" \in found <=> status = 429
        /\ "2xx" \in found <=> status >= 200 /\ status < 300
        /\ "4xx" \in found <=> status >= 400 /\ status < 500 /\ status # 429
        /\ "5xx" \in found <=> status >= 500
        /\ found \subseteq {"2xx", "4xx", "429", "5xx"}
    BY <1>1 DEF Filters
  <1> HIDE DEF found
  <1>3. CASE status >= 500
    BY <1>2, <1>3 DEF FiltersPartition, statusClass, found
  <1>4. CASE status = 429
    BY <1>2, <1>4 DEF FiltersPartition, statusClass, found
  <1>5. CASE status \in 400..499 /\ status # 429
    BY <1>2, <1>5 DEF FiltersPartition, statusClass, found
  <1>6. CASE status < 400
    BY <1>2, <1>6 DEF FiltersPartition, statusClass, found
  <1> QED
    BY <1>3, <1>4, <1>5, <1>6

\* What division with remainder yields.
Divides(k, n) ==
    n \div k \in Nat /\ n % k \in Nat /\ n % k < k /\ n = k * (n \div k) + (n % k)

\* The divisors of the display.
LEMMA Division ==
    ASSUME NEW n \in Nat
    PROVE  /\ Divides(Minute, n) /\ Divides(Hour, n) /\ Divides(Day, n)
           /\ Divides(1, n) /\ Divides(100, n) /\ Divides(K, n) /\ Divides(10 * K, n)
  <1>1. Divides(Minute, n) /\ Divides(Hour, n) /\ Divides(Day, n)
    <2>1. Divides(Minute, n)
      BY SMT DEF Divides, Minute
    <2>2. Divides(Hour, n)
      BY SMT DEF Divides, Hour, Minute
    <2>3. Divides(Day, n)
      BY SMT DEF Divides, Day, Hour, Minute
    <2> QED
      BY <2>1, <2>2, <2>3
  <1>2. Divides(1, n) /\ Divides(100, n)
    BY SMT DEF Divides
  <1>3. Divides(K, n)
    BY SMT DEF Divides, K
  <1>4. Divides(10 * K, n)
    BY SMT DEF Divides, K
  <1> QED
    BY <1>1, <1>2, <1>3, <1>4

\* The two ways to find the seconds in an hour, and in a minute, agree.
LEMMA Nested ==
    ASSUME NEW d \in Nat, NEW r \in Nat, NEW h \in Nat, NEW q \in Nat,
           NEW m \in Nat, NEW t \in Nat, NEW x \in Nat, NEW y \in Nat,
           NEW u \in Nat, NEW w \in Nat,
           r < 86400, u < 3600, q < 3600, w < 60, t < 60,
           86400 * d + r = 3600 * x + q, 3600 * x + q = 60 * y + t,
           r = 3600 * h + u, q = 60 * m + w
    PROVE  /\ h \in 0..23 /\ m \in 0..59
           /\ 86400 * d + r = 86400 * d + 3600 * h + 60 * m + t
  <1>1. u = q
    <2>1. 3600 * (x - 24 * d - h) = u - q
      BY SMT
    <2> QED
      BY <2>1, SMT
  <1>2. w = t
    <2>1. 60 * (y - 60 * x - m) = w - t
      BY SMT
    <2> QED
      BY <2>1, SMT
  <1> QED
    BY <1>1, <1>2, SMT

\* format.ts:38-49: nothing of an uptime is lost but the seconds after a day.
THEOREM UptimeIsExact == \A s \in Nat : UptimeExact(s)
  <1> SUFFICES ASSUME NEW s \in Nat PROVE UptimeExact(s)
    OBVIOUS
  <1> DEFINE d == s \div Day
             r == s % Day
             h == r \div Hour
             q == s % Hour
             m == q \div Minute
             t == s % Minute
             x == s \div Hour
             y == s \div Minute
             u == r % Hour
             w == q % Minute
  <1>0. Divides(Day, s) /\ Divides(Hour, s) /\ Divides(Minute, s)
    BY Division
  <1>1. r \in Nat /\ q \in Nat
    BY <1>0 DEF Divides
  <1>2. Divides(Hour, r) /\ Divides(Minute, q)
    <2> HIDE DEF r, q
    <2> QED
      BY <1>1, Division
  <1>3. /\ d \in Nat /\ h \in Nat /\ m \in Nat /\ t \in Nat /\ x \in Nat /\ y \in Nat /\ u \in Nat /\ w \in Nat
        /\ r < Day /\ u < Hour /\ q < Hour /\ w < Minute /\ t < Minute
        /\ s = Day * d + r /\ s = Hour * x + q /\ s = Minute * y + t
        /\ r = Hour * h + u /\ q = Minute * m + w
    BY <1>0, <1>2, Zenon DEF Divides
  <1>4. fmtUptime(s) = [d |-> d, h |-> h, m |-> m, s |-> IF d > 0 THEN 0 ELSE t]
    BY Zenon DEF fmtUptime
  <1> HIDE DEF d, r, h, q, m, t, x, y, u, w
  <1>9. h \in 0..23 /\ m \in 0..59 /\ s = Day * d + Hour * h + Minute * m + t
    <2>1. Day * d + r = Hour * x + q /\ Hour * x + q = Minute * y + t
      BY <1>3
    <2>2. /\ h \in 0..23 /\ m \in 0..59
          /\ Day * d + r = Day * d + Hour * h + Minute * m + t
      BY <1>1, <1>3, <2>1, Nested DEF Minute, Hour, Day
    <2> QED
      BY <1>3, <2>2 DEF Minute, Hour, Day
  <1>10. CASE d > 0
    <2>1. fmtUptime(s) = [d |-> d, h |-> h, m |-> m, s |-> 0]
      BY <1>4, <1>10
    <2>2. Seconds(fmtUptime(s)) = Day * d + Hour * h + Minute * m
      BY <1>3, <1>9, <2>1, SMT DEF Seconds, Minute, Hour, Day
    <2> QED
      BY <1>3, <1>9, <1>10, <2>1, <2>2, SMT DEF UptimeExact, Minute, Hour, Day
  <1>11. CASE ~(d > 0)
    <2>1. fmtUptime(s) = [d |-> d, h |-> h, m |-> m, s |-> t]
      BY <1>4, <1>11
    <2>2. Seconds(fmtUptime(s)) = Day * d + Hour * h + Minute * m + t
      BY <1>3, <1>9, <2>1, SMT DEF Seconds, Minute, Hour, Day
    <2> QED
      BY <1>3, <1>9, <1>11, <2>1, <2>2, SMT DEF UptimeExact, Minute, Hour, Day
  <1> QED
    BY <1>10, <1>11

\* Rounding to a place misses at most half of it, and keeps the order.
LEMMA ToFixedClose ==
    ASSUME NEW v \in Nat, NEW place \in {1, 100, K, 10 * K}
    PROVE  /\ toFixed(v, place) \in Nat
           /\ Near(place * toFixed(v, place), v, place)
  <1> DEFINE q == v \div place
             r == v % place
  <1>1. q \in Nat /\ r \in Nat /\ r < place /\ v = place * q + r
    <2>1. Divides(place, v)
      BY Division, SMT DEF K
    <2> QED
      BY <2>1, SMT DEF Divides, K
  <1>2. toFixed(v, place) = IF 2 * r > place \/ (2 * r = place /\ v \in RoundsUp)
                            THEN q + 1 ELSE q
    BY SMT DEF toFixed
  <1> HIDE DEF q, r
  <1>3. CASE 2 * r > place \/ (2 * r = place /\ v \in RoundsUp)
    <2>1. toFixed(v, place) = q + 1 /\ place * (q + 1) = place * q + place
      BY <1>1, <1>2, <1>3, SMT DEF K
    <2> DEFINE z == place * q
    <2>2. z \in Nat
      BY <1>1, SMT DEF K
    <2>3. place * toFixed(v, place) = z + place /\ v = z + r /\ 2 * r >= place
      BY <1>1, <1>3, <2>1, SMT DEF K
    <2> HIDE DEF z
    <2> QED
      BY <1>1, <2>1, <2>2, <2>3, SMT DEF K, Near
  <1>4. CASE ~(2 * r > place \/ (2 * r = place /\ v \in RoundsUp))
    <2>1. toFixed(v, place) = q
      BY <1>2, <1>4
    <2> DEFINE z == place * q
    <2>2. z \in Nat
      BY <1>1, SMT DEF K
    <2>3. place * toFixed(v, place) = z /\ v = z + r /\ 2 * r <= place
      BY <1>1, <1>4, <2>1, SMT DEF K
    <2> HIDE DEF z
    <2> QED
      BY <1>1, <2>1, <2>2, <2>3, SMT DEF K, Near
  <1> QED
    BY <1>3, <1>4

\* Of two numbers the smaller is not rounded higher.
LEMMA ToFixedMonotone ==
    ASSUME NEW v \in Nat, NEW w \in Nat, NEW place \in {1, 100, K, 10 * K}, v <= w
    PROVE  toFixed(v, place) <= toFixed(w, place)
  <1> DEFINE up(n) == 2 * (n % place) > place \/ (2 * (n % place) = place /\ n \in RoundsUp)
             a == v \div place
             b == w \div place
             i == v % place
             j == w % place
  <1>1. /\ a \in Nat /\ i \in Nat /\ i < place /\ v = place * a + i
        /\ b \in Nat /\ j \in Nat /\ j < place /\ w = place * b + j
    <2>1. Divides(place, v) /\ Divides(place, w)
      BY Division, SMT DEF K
    <2> QED
      BY <2>1, SMT DEF Divides, K
  <1>2. /\ toFixed(v, place) = IF up(v) THEN a + 1 ELSE a
        /\ toFixed(w, place) = IF up(w) THEN b + 1 ELSE b
    BY SMT DEF toFixed
  <1>3. /\ up(v) => 2 * i >= place
        /\ ~up(w) => 2 * j <= place
        /\ v = w => (up(v) <=> up(w))
    BY <1>1, SMT DEF K
  <1> HIDE DEF up, a, b, i, j
  <1>4. a <= b
    <2>1. place * (b - a) >= i - j
      BY <1>1, SMT DEF K
    <2>2. CASE b < a
      <3>1. place * (b - a) <= -place
        BY <1>1, <2>2, SMT DEF K
      <3> QED
        BY <1>1, <2>1, <3>1, SMT DEF K
    <2> QED
      BY <1>1, <2>2, SMT DEF K
  <1>5. CASE a < b
    BY <1>1, <1>2, <1>5, SMT DEF K
  <1>6. CASE a = b /\ up(v) /\ ~up(w)
    <2>1. i <= j
      BY <1>1, <1>6, SMT DEF K
    <2>2. i = j
      BY <1>1, <1>3, <1>6, <2>1, SMT DEF K
    <2> QED
      BY <1>1, <1>3, <1>6, <2>2
  <1>7. CASE a = b /\ ~(up(v) /\ ~up(w))
    BY <1>1, <1>2, <1>7, SMT DEF K
  <1> QED
    BY <1>1, <1>4, <1>5, <1>6, <1>7, SMT DEF K

\* What is shown at the borders between the places.
LEMMA Borders ==
    /\ \A v \in Nat : toFixed(v, 1) = v
    /\ toFixed(K, 100) = 10 /\ toFixed(10 * K, 100) = 100
    /\ toFixed(10 * K, K) = 10 /\ toFixed(M, K) = K
    /\ toFixed(M, 10 * K) = 100
  <1>1. \A v \in Nat : toFixed(v, 1) = v
    <2> TAKE v \in Nat
    <2>1. v \div 1 = v /\ v % 1 = 0
      BY SMT
    <2> QED
      BY <2>1, SMT DEF toFixed, K, M
  <1>2. toFixed(K, 100) = 10 /\ toFixed(10 * K, 100) = 100
    BY SMT DEF toFixed, K, M
  <1>3. toFixed(10 * K, K) = 10 /\ toFixed(M, K) = K
    BY SMT DEF toFixed, K, M
  <1>4. toFixed(M, 10 * K) = 100
    BY SMT DEF toFixed, K, M
  <1> QED
    BY <1>1, <1>2, <1>3, <1>4

LEMMA ShownIs ==
    ASSUME NEW v \in Nat
    PROVE  /\ Shown(fmtCompact(v)) = Place(v) * toFixed(v, Place(v))
           /\ fmtCompact(v).place = Place(v)
           /\ Place(v) \in {1, 100, K, 10 * K}
  BY SMT DEF Shown, fmtCompact, Place, K, M

\* format.ts:10-15: the error of a printed total.
THEOREM CompactClose == \A v \in Nat : CompactIsClose(v)
  <1> SUFFICES ASSUME NEW v \in Nat PROVE CompactIsClose(v)
    OBVIOUS
  <1> DEFINE p == Place(v)
             z == p * toFixed(v, p)
  <1>1. Shown(fmtCompact(v)) = z /\ fmtCompact(v).place = p /\ p \in {1, 100, K, 10 * K}
    BY ShownIs
  <1>2. Near(z, v, p)
    BY <1>1, ToFixedClose
  <1> HIDE DEF p, z
  <1> QED
    BY <1>1, <1>2 DEF CompactIsClose

\* format.ts:10-15: across digits, thousands and millions the display never goes
\* down while its counter goes up.
THEOREM CompactIsMonotone == \A v, w \in Nat : CompactGrows(v, w)
  <1> SUFFICES ASSUME NEW v \in Nat, NEW w \in Nat, v <= w
               PROVE  Shown(fmtCompact(v)) <= Shown(fmtCompact(w))
    BY DEF CompactGrows
  <1>1. ASSUME NEW n \in Nat
        PROVE  Shown(fmtCompact(n)) =
                 IF n < K THEN n ELSE IF n < 10 * K THEN 100 * toFixed(n, 100)
                 ELSE IF n < M THEN K * toFixed(n, K) ELSE 10 * K * toFixed(n, 10 * K)
    <2>1. toFixed(n, 1) = n
      BY Borders
    <2>2. K \in Nat /\ M \in Nat
      BY SMT DEF K, M
    <2> QED
      BY <2>1, <2>2, SMT DEF Shown, fmtCompact, Place
  <1>2. /\ toFixed(v, 100) \in Nat /\ toFixed(v, K) \in Nat /\ toFixed(v, 10 * K) \in Nat
        /\ toFixed(w, 100) \in Nat /\ toFixed(w, K) \in Nat /\ toFixed(w, 10 * K) \in Nat
    BY ToFixedClose
  <1>3. /\ toFixed(v, 100) <= toFixed(w, 100)
        /\ toFixed(v, K) <= toFixed(w, K)
        /\ toFixed(v, 10 * K) <= toFixed(w, 10 * K)
    BY ToFixedMonotone
  <1>4. K \in Nat /\ 10 * K \in Nat /\ M \in Nat
    BY SMT DEF K, M
  <1>5. v < 10 * K => toFixed(v, 100) <= 100
    <2>1. v <= 10 * K => toFixed(v, 100) <= toFixed(10 * K, 100)
      BY <1>4, ToFixedMonotone
    <2> QED
      BY <1>4, <2>1, Borders, SMT
  <1>6. v < M => toFixed(v, K) <= K
    <2>1. v <= M => toFixed(v, K) <= toFixed(M, K)
      BY <1>4, ToFixedMonotone
    <2> QED
      BY <1>4, <2>1, Borders, SMT
  <1>7. w >= K => toFixed(w, 100) >= 10
    <2>1. K <= w => toFixed(K, 100) <= toFixed(w, 100)
      BY <1>4, ToFixedMonotone
    <2> QED
      BY <1>2, <1>4, <2>1, Borders, SMT
  <1>8. w >= 10 * K => toFixed(w, K) >= 10
    <2>1. 10 * K <= w => toFixed(10 * K, K) <= toFixed(w, K)
      BY <1>4, ToFixedMonotone
    <2> QED
      BY <1>2, <1>4, <2>1, Borders, SMT
  <1>9. w >= M => toFixed(w, 10 * K) >= 100
    <2>1. M <= w => toFixed(M, 10 * K) <= toFixed(w, 10 * K)
      BY <1>4, ToFixedMonotone
    <2> QED
      BY <1>2, <1>4, <2>1, Borders, SMT
  <1> DEFINE a == toFixed(v, 100)
             b == toFixed(v, K)
             c == toFixed(v, 10 * K)
             x == toFixed(w, 100)
             y == toFixed(w, K)
             z == toFixed(w, 10 * K)
             V == IF v < K THEN v ELSE IF v < 10 * K THEN 100 * a
                  ELSE IF v < M THEN K * b ELSE 10 * K * c
             W == IF w < K THEN w ELSE IF w < 10 * K THEN 100 * x
                  ELSE IF w < M THEN K * y ELSE 10 * K * z
  <1>10. Shown(fmtCompact(v)) = V /\ Shown(fmtCompact(w)) = W
    BY <1>1
  <1>11. /\ a \in Nat /\ b \in Nat /\ c \in Nat /\ x \in Nat /\ y \in Nat /\ z \in Nat
         /\ a <= x /\ b <= y /\ c <= z
    BY <1>2, <1>3
  <1>12. /\ v < 10 * K => a <= 100
         /\ v < M => b <= K
         /\ w >= K => x >= 10
         /\ w >= 10 * K => y >= 10
         /\ w >= M => z >= 100
    BY <1>5, <1>6, <1>7, <1>8, <1>9
  <1>13. V <= W
    <2> HIDE DEF a, b, c, x, y, z
    <2> QED
      BY <1>11, <1>12, SMT DEF K, M
  <1> HIDE DEF V, W
  <1> QED
    BY <1>10, <1>13

==============================================================================
