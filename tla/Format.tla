-------------------------------- MODULE Format --------------------------------
(***************************************************************************)
(* The helpers with which frontend/src tells numbers apart before it       *)
(* prints them: lib/format.ts and the status filter of                     *)
(* pages/RecentTrafficPage.tsx.  A printed number is its digits and the    *)
(* place its last digit stands for.                                        *)
(***************************************************************************)
EXTENDS Integers, FiniteSets

CONSTANT RoundsUp   \* the totals halfway between two printed ones that the
                    \* division's floating point lets round up

-----------------------------------------------------------------------------
(* Status codes *)

\* STATUS_FILTERS without "all".
Filters == {"2xx", "4xx", "429", "5xx"}

matchesStatusFilter(status, filter) ==
    CASE filter = "429" -> status = 429
      [] filter = "2xx" -> status >= 200 /\ status < 300
      [] filter = "4xx" -> status >= 400 /\ status < 500 /\ status # 429
      [] filter = "5xx" -> status >= 500
      [] OTHER          -> TRUE

\* The color of a status.
statusClass(status) ==
    IF status >= 500 THEN "5xx"
    ELSE IF status = 429 THEN "429"
    ELSE IF status >= 400 THEN "4xx" ELSE "2xx"

-----------------------------------------------------------------------------
(* Uptimes and totals, of whole seconds and requests *)

Minute == 60
Hour == 60 * Minute
Day == 24 * Hour

\* fmtUptime: the days, hours, minutes and seconds printed.
fmtUptime(s) ==
    LET d == s \div Day
        h == (s % Day) \div Hour
        m == (s % Hour) \div Minute
    IN  [d |-> d, h |-> h, m |-> m, s |-> IF d > 0 THEN 0 ELSE s % Minute]

Seconds(u) == Day * u.d + Hour * u.h + Minute * u.m + u.s

\* toFixed of v divided by place: the nearest, at a tie whichever the quotient is.
toFixed(v, place) ==
    LET q == v \div place
        r == v % place
    IN  IF 2 * r > place \/ (2 * r = place /\ v \in RoundsUp) THEN q + 1 ELSE q

K == 1000
M == K * K

\* The place of the last digit fmtCompact prints: 1, 0.1K, 1K, 0.01M.
Place(v) ==
    IF v < K THEN 1
    ELSE IF v < 10 * K THEN 100
    ELSE IF v < M THEN K ELSE 10 * K

fmtCompact(v) == [place |-> Place(v), digits |-> toFixed(v, Place(v))]

Shown(c) == c.place * c.digits

-----------------------------------------------------------------------------
\* RecentTrafficPage.tsx:16-23, format.ts:68-73: every row is found under at most
\* one filter, which is its color; only answers below 200 and redirects, colored
\* as 2xx, are found under none.
FiltersPartition(status) ==
    LET found == {f \in Filters : matchesStatusFilter(status, f)}
    IN  /\ found \subseteq {statusClass(status)}
        /\ found = {} <=> status < 200 \/ status \in 300..399

\* format.ts:38-49: an uptime is printed as what it is, but for the seconds once
\* it has days.
UptimeExact(s) ==
    LET u == fmtUptime(s)
    IN  /\ u.h \in 0..23 /\ u.m \in 0..59 /\ u.s \in 0..59
        /\ IF u.d > 0 THEN Seconds(u) \in s-59..s ELSE Seconds(u) = s

\* format.ts:10-15: a total is printed to half of its last place ...
Near(shown, v, place) == 2 * shown <= 2 * v + place /\ 2 * v <= 2 * shown + place
CompactIsClose(v) ==
    LET c == fmtCompact(v) IN Near(Shown(c), v, c.place)

\* ... and a counter that grows is never shown to shrink, across the units.
CompactGrows(v, w) == v <= w => Shown(fmtCompact(v)) <= Shown(fmtCompact(w))

==============================================================================
