--------------------------- MODULE Dashboard_proofs ----------------------------
(***************************************************************************)
(* Proofs about Dashboard, for every set of ranges and intervals, loads of *)
(* any duration and any number of clicks.                                  *)
(***************************************************************************)
EXTENDS Dashboard, SequenceTheorems, TLAPS

LoadRecord ==
    [range : Ranges, left : 0..Slowest, aborted : BOOLEAN, overtaken : BOOLEAN]
Loads == Seq(LoadRecord)

\* The newest load is still out, and may still show its values.
Alive == loads # << >> /\ ~loads[Len(loads)].aborted

\* Only the newest load is not aborted; one that was overtaken is.
OneAlive ==
    /\ \A j \in 1..Len(loads) - 1 : loads[j].aborted
    /\ \A j \in 1..Len(loads) : loads[j].overtaken => loads[j].aborted

\* After its effect, the interval and the load that counts are of the selected
\* range; what is shown is of it, or an error, or yet to come.
OnRange ==
    ~dirty => /\ polled = range
              /\ Alive => loads[Len(loads)].range = range
              /\ data.range = range \/ data.error \/ Alive

\* The inductive invariant.
IInv ==
    /\ TypeOK
    /\ loads \in Loads
    /\ OneAlive
    /\ OnRange
    /\ NeverBackwards

-----------------------------------------------------------------------------
(* The sequence of loads. *)

\* What is left of a sequence without its i-th element.
LEMMA RemoveAtFacts ==
    ASSUME NEW S, NEW s \in Seq(S), NEW i \in 1..Len(s)
    PROVE  /\ RemoveAt(s, i) \in Seq(S)
           /\ Len(RemoveAt(s, i)) = Len(s) - 1
           /\ \A j \in 1..Len(s) - 1 : RemoveAt(s, i)[j] = s[IF j < i THEN j ELSE j + 1]
  <1> DEFINE a == SubSeq(s, 1, i - 1)
             b == SubSeq(s, i + 1, Len(s))
  <1>1. Len(s) \in Nat /\ \A j \in 1..Len(s) : s[j] \in S
    BY LenProperties, ElementOfSeq
  <1>2. a \in Seq(S) /\ Len(a) = i - 1 /\ \A j \in 1..i - 1 : a[j] = s[j]
    <2>1. \A j \in 1..(i - 1) : s[j] \in S
      BY <1>1
    <2>2. /\ a \in Seq(S)
          /\ Len(a) = IF 1 <= i - 1 THEN i - 1 - 1 + 1 ELSE 0
          /\ \A j \in 1..(i - 1 - 1 + 1) : a[j] = s[1 + j - 1]
      BY <1>1, <2>1, SubSeqProperties
    <2> QED
      BY <1>1, <2>2
  <1>3. b \in Seq(S) /\ Len(b) = Len(s) - i /\ \A j \in 1..Len(s) - i : b[j] = s[i + j]
    <2>1. \A j \in (i + 1)..Len(s) : s[j] \in S
      BY <1>1
    <2>2. /\ b \in Seq(S)
          /\ Len(b) = IF i + 1 <= Len(s) THEN Len(s) - (i + 1) + 1 ELSE 0
          /\ \A j \in 1..(Len(s) - (i + 1) + 1) : b[j] = s[(i + 1) + j - 1]
      BY <1>1, <2>1, SubSeqProperties
    <2> QED
      BY <1>1, <2>2
  <1>4. RemoveAt(s, i) = a \o b
    BY DEF RemoveAt
  <1> HIDE DEF a, b
  <1>5. /\ a \o b \in Seq(S) /\ Len(a \o b) = Len(a) + Len(b)
        /\ \A j \in 1..Len(a) + Len(b) : (a \o b)[j] = IF j <= Len(a) THEN a[j] ELSE b[j - Len(a)]
    BY <1>2, <1>3, ConcatProperties
  <1>6. ASSUME NEW j \in 1..Len(s) - 1
        PROVE  (a \o b)[j] = s[IF j < i THEN j ELSE j + 1]
    <2>1. CASE j < i
      BY <1>1, <1>2, <1>3, <1>5, <2>1
    <2>2. CASE ~(j < i)
      <3>1. (a \o b)[j] = b[j - (i - 1)]
        BY <1>1, <1>2, <1>3, <1>5, <2>2
      <3>2. j - (i - 1) \in 1..Len(s) - i /\ i + (j - (i - 1)) = j + 1
        BY <1>1, <2>2
      <3> QED
        BY <1>3, <2>2, <3>1, <3>2
    <2> QED
      BY <2>1, <2>2
  <1> QED
    BY <1>1, <1>2, <1>3, <1>4, <1>5, <1>6

\* Aborting touches the flag of the newest load only.
LEMMA AbortCurrentFacts ==
    ASSUME NEW s \in Loads, NEW t, t = AbortCurrent(s)
    PROVE  /\ t \in Loads /\ Len(t) = Len(s)
           /\ \A j \in 1..Len(s) : /\ t[j].overtaken <=> s[j].overtaken
                                   /\ t[j].aborted <=> s[j].aborted \/ j = Len(s)
  <1> USE DEF Loads
  <1>1. CASE s = << >>
    BY <1>1 DEF AbortCurrent
  <1>2. CASE s # << >>
    <2> DEFINE n == Len(s)
               e == [s[n] EXCEPT !.aborted = TRUE]
    <2>1. n \in 1..Len(s) /\ n \in Nat
      BY <1>2, EmptySeq, LenProperties
    <2>2. s[n] \in LoadRecord
      BY <2>1, ElementOfSeq
    <2>3. e \in LoadRecord /\ e.aborted = TRUE /\ e.overtaken = s[n].overtaken
      BY <2>2 DEF LoadRecord
    <2>4. t = [s EXCEPT ![n] = e]
      BY <1>2 DEF AbortCurrent
    <2> HIDE DEF e, n
    <2>5. /\ t \in Seq(LoadRecord) /\ Len(t) = Len(s)
          /\ \A j \in 1..Len(s) : t[j] = IF j = n THEN e ELSE s[j]
      BY <2>1, <2>3, <2>4, ExceptSeq
    <2>6. ASSUME NEW j \in 1..Len(s)
          PROVE  /\ t[j].overtaken <=> s[j].overtaken
                 /\ t[j].aborted <=> s[j].aborted \/ j = Len(s)
      <3>1. CASE j = n
        BY <2>3, <2>5, <3>1 DEF n
      <3>2. CASE j # n
        BY <2>5, <3>2 DEF n
      <3> QED
        BY <3>1, <3>2
    <2> QED
      BY <2>5, <2>6
  <1> QED
    BY <1>1, <1>2

\* A started load is the one that counts, and all before it are aborted.
LEMMA LoadFacts ==
    ASSUME loads \in Loads, OneAlive, NEW r \in Ranges, Load(r), DashboardAssumption
    PROVE  /\ loads' \in Loads
           /\ OneAlive'
           /\ Alive' /\ loads'[Len(loads')].range = r
  <1>1. PICK left \in 1..Slowest :
           loads' = Append(AbortCurrent(loads), [range |-> r, left |-> left,
                                                 aborted |-> FALSE, overtaken |-> FALSE])
    BY DEF Load
  <1> DEFINE t == AbortCurrent(loads)
             e == [range |-> r, left |-> left, aborted |-> FALSE, overtaken |-> FALSE]
  <1>2. e \in LoadRecord /\ ~e.aborted /\ ~e.overtaken /\ e.range = r
    BY DEF LoadRecord, DashboardAssumption
  <1>3. /\ t \in Loads /\ Len(t) = Len(loads)
        /\ \A j \in 1..Len(loads) : /\ t[j].overtaken <=> loads[j].overtaken
                                    /\ t[j].aborted <=> loads[j].aborted \/ j = Len(loads)
    BY AbortCurrentFacts
  <1>4. loads' = Append(t, e)
    BY <1>1
  <1> HIDE DEF t, e
  <1>5. /\ loads' \in Loads /\ loads' # << >> /\ Len(loads') = Len(t) + 1
        /\ \A j \in 1..Len(t) : loads'[j] = t[j]
        /\ loads'[Len(t) + 1] = e
    BY <1>2, <1>3, <1>4, AppendProperties DEF Loads
  <1>6. Len(loads) \in Nat
    BY LenProperties DEF Loads
  <1>7. \A j \in 1..Len(loads) : loads'[j].aborted
    BY <1>3, <1>5, <1>6 DEF OneAlive
  <1>8. OneAlive'
    <2>1. \A j \in 1..Len(loads') - 1 : loads'[j].aborted
      BY <1>3, <1>5, <1>6, <1>7
    <2>2. ASSUME NEW j \in 1..Len(loads'), loads'[j].overtaken
          PROVE  loads'[j].aborted
      BY <1>2, <1>3, <1>5, <1>6, <1>7, <2>2
    <2> QED
      BY <2>1, <2>2 DEF OneAlive
  <1> QED
    BY <1>2, <1>3, <1>5, <1>6, <1>8 DEF Alive

\* Without one of its loads, the rest keeps its order and its newest.
LEMMA WithoutFacts ==
    ASSUME loads \in Loads, OneAlive, NEW i \in 1..Len(loads), loads' = RemoveAt(loads, i)
    PROVE  /\ loads' \in Loads
           /\ OneAlive'
           /\ Alive' => Alive /\ loads'[Len(loads')] = loads[Len(loads)]
           /\ Alive /\ loads[i].aborted => Alive' /\ loads'[Len(loads')] = loads[Len(loads)]
  <1> DEFINE n == Len(loads)
             at(j) == IF j < i THEN j ELSE j + 1
  <1>1. n \in Nat /\ n >= 1 /\ i \in 1..n
    BY LenProperties DEF Loads
  <1>2. /\ loads' \in Loads /\ Len(loads') = n - 1
        /\ \A j \in 1..n - 1 : loads'[j] = loads[at(j)]
    BY RemoveAtFacts DEF Loads
  <1>3. \A j \in 1..n - 1 : at(j) \in 1..n /\ (j < n - 1 => at(j) < n)
    BY <1>1
  <1>4. OneAlive'
    <2>1. ASSUME NEW j \in 1..n - 1
          PROVE  /\ j < n - 1 => loads'[j].aborted
                 /\ loads'[j].overtaken => loads'[j].aborted
      <3>1. loads'[j] = loads[at(j)] /\ at(j) \in 1..n /\ (j < n - 1 => at(j) \in 1..n - 1)
        BY <1>1, <1>2, <1>3
      <3> HIDE DEF at
      <3> QED
        BY <3>1 DEF OneAlive
    <2> QED
      BY <1>1, <1>2, <2>1 DEF OneAlive
  <1>5. CASE i < n
    <2>1. at(n - 1) = n /\ n - 1 \in 1..n - 1
      BY <1>1, <1>5
    <2>2. loads'[Len(loads')] = loads[n] /\ loads' # << >> /\ loads # << >>
      BY <1>1, <1>2, <2>1, EmptySeq DEF Loads
    <2> QED
      BY <1>2, <1>4, <2>2 DEF Alive
  <1>6. CASE i = n
    <2>1. ~Alive'
      <3>1. CASE n = 1
        BY <1>2, <3>1, EmptySeq DEF Alive, Loads
      <3>2. CASE n > 1
        <4>1. at(n - 1) = n - 1 /\ n - 1 \in 1..n - 1
          BY <1>1, <1>6, <3>2
        <4>2. loads'[Len(loads')].aborted
          BY <1>2, <4>1 DEF OneAlive
        <4> QED
          BY <4>2 DEF Alive
      <3> QED
        BY <1>1, <3>1, <3>2
    <2>2. ~(Alive /\ loads[i].aborted)
      BY <1>6 DEF Alive
    <2> QED
      BY <1>2, <1>4, <2>1, <2>2
  <1> QED
    BY <1>1, <1>4, <1>5, <1>6

-----------------------------------------------------------------------------
(* Types. *)

LEMMA TypesOfLoads ==
    ASSUME loads' \in Loads
    PROVE  \A i \in 1..Len(loads') :
              loads'[i] \in [range : Ranges, left : 0..Slowest,
                             aborted : BOOLEAN, overtaken : BOOLEAN]
  BY ElementOfSeq DEF Loads, LoadRecord

LEMMA IntervalType ==
    ASSUME NEW p \in Periods, DashboardAssumption
    PROVE  Interval(p) = Off \/ Interval(p) \in 0..p
  BY DEF Interval, DashboardAssumption

\* A load that shows its values was the newest; those before it are aborted.
LEMMA SucceedLeavesAborted ==
    ASSUME IInv, NEW i \in 1..Len(loads), Succeed(i)
    PROVE  loads' \in Loads /\ \A j \in 1..Len(loads') : loads'[j].aborted
  <1> USE DEF IInv
  <1> DEFINE m == [j \in DOMAIN loads |-> [loads[j] EXCEPT !.overtaken = @ \/ j < i]]
  <1>1. i = Len(loads) /\ Len(loads) \in Nat
    BY LenProperties DEF Succeed, OneAlive, Loads
  <1>2. /\ m \in Loads /\ Len(m) = Len(loads)
        /\ \A j \in 1..Len(loads) : /\ m[j].aborted = loads[j].aborted
                                    /\ (j = i /\ m[j].overtaken => loads[j].overtaken)
    <2>1. DOMAIN loads = 1..Len(loads)
      BY LenProperties DEF Loads
    <2>2. ASSUME NEW j \in 1..Len(loads)
          PROVE  /\ m[j] \in LoadRecord
                 /\ m[j].aborted = loads[j].aborted
                 /\ (j = i /\ m[j].overtaken => loads[j].overtaken)
      <3>1. loads[j] \in LoadRecord
        BY ElementOfSeq DEF Loads
      <3>2. m[j] = [loads[j] EXCEPT !.overtaken = @ \/ j < i]
        BY <2>1
      <3> DEFINE o == loads[j].overtaken \/ j < i
      <3>3. m[j] = [loads[j] EXCEPT !.overtaken = o]
        BY <3>2
      <3>4. o \in BOOLEAN /\ (j = i => (o <=> loads[j].overtaken))
        BY <3>1, <1>1 DEF LoadRecord
      <3> HIDE DEF m, o
      <3>5. m[j] \in LoadRecord /\ m[j].aborted = loads[j].aborted /\ m[j].overtaken = o
        BY <3>1, <3>3, <3>4 DEF LoadRecord
      <3> QED
        BY <3>4, <3>5
    <2>3. m \in [1..Len(loads) -> LoadRecord]
      BY <2>1, <2>2
    <2>4. m \in Loads /\ Len(m) = Len(loads)
      <3> HIDE DEF m
      <3> QED
        BY <2>3, <1>1 DEF Loads
    <2> QED
      BY <2>2, <2>4
  <1>3. loads' = RemoveAt(m, i)
    BY DEF Succeed
  <1> HIDE DEF m
  <1>4. /\ loads' \in Loads /\ Len(loads') = Len(loads) - 1
        /\ \A j \in 1..Len(loads) - 1 : loads'[j] = m[j]
    <2>1. m \in Seq(LoadRecord) /\ i \in 1..Len(m)
      BY <1>2 DEF Loads
    <2>2. /\ RemoveAt(m, i) \in Seq(LoadRecord)
          /\ Len(RemoveAt(m, i)) = Len(m) - 1
          /\ \A j \in 1..Len(m) - 1 : RemoveAt(m, i)[j] = m[IF j < i THEN j ELSE j + 1]
      BY <2>1, RemoveAtFacts
    <2> QED
      BY <1>1, <1>2, <1>3, <2>2 DEF Loads
  <1>5. ASSUME NEW j \in 1..Len(loads')
        PROVE  loads'[j].aborted
    <2>1. j \in 1..Len(loads) - 1 /\ j \in 1..Len(loads)
      BY <1>1, <1>4
    <2>2. loads'[j].aborted = loads[j].aborted
      BY <1>2, <1>4, <2>1
    <2> QED
      BY <2>1, <2>2 DEF OneAlive
  <1> QED
    BY <1>4, <1>5

\* A tick brings every answer nearer and changes nothing else of a load.
LEMMA TickFacts ==
    ASSUME IInv, Tick, DashboardAssumption
    PROVE  /\ loads' \in Loads /\ Len(loads') = Len(loads)
           /\ \A j \in 1..Len(loads) : /\ loads'[j].aborted = loads[j].aborted
                                       /\ loads'[j].overtaken = loads[j].overtaken
                                       /\ loads'[j].range = loads[j].range
  <1> USE DEF IInv
  <1>1. Len(loads) \in Nat /\ DOMAIN loads = 1..Len(loads)
    BY LenProperties DEF Loads
  <1>2. loads' = [j \in 1..Len(loads) |-> [loads[j] EXCEPT !.left = @ - 1]]
    BY <1>1 DEF Tick
  <1>3. ASSUME NEW j \in 1..Len(loads)
        PROVE  /\ loads'[j] \in LoadRecord
               /\ loads'[j].aborted = loads[j].aborted
               /\ loads'[j].overtaken = loads[j].overtaken
               /\ loads'[j].range = loads[j].range
    <2>1. loads[j] \in LoadRecord /\ loads[j].left > 0
      BY ElementOfSeq DEF Loads, Tick
    <2>2. loads[j].left - 1 \in 0..Slowest
      BY <2>1 DEF LoadRecord, DashboardAssumption
    <2>3. loads'[j] = [loads[j] EXCEPT !.left = @ - 1]
      BY <1>2
    <2> QED
      BY <2>1, <2>2, <2>3 DEF LoadRecord
  <1>4. loads' \in Loads /\ Len(loads') = Len(loads)
    <2>1. loads' \in [1..Len(loads) -> LoadRecord]
      BY <1>2, <1>3
    <2> QED
      BY <1>1, <2>1 DEF Loads
  <1> QED
    BY <1>3, <1>4

\* The loads after every kind of step.
LEMMA LoadsStep ==
    ASSUME IInv, [Next]_vars, DashboardAssumption
    PROVE  loads' \in Loads /\ OneAlive'
  <1> USE DEF IInv
  <1>1. ASSUME NEW i \in 1..Len(loads), Succeed(i)
        PROVE  loads' \in Loads /\ OneAlive'
    <2>1. loads' \in Loads /\ \A j \in 1..Len(loads') : loads'[j].aborted
      BY <1>1, SucceedLeavesAborted
    <2>2. Len(loads') \in Nat
      BY <2>1, LenProperties DEF Loads
    <2> QED
      BY <2>1, <2>2 DEF OneAlive
  <1>2. ASSUME NEW i \in 1..Len(loads), Fail(i) \/ EndAborted(i)
        PROVE  loads' \in Loads /\ OneAlive'
    <2>1. loads' = RemoveAt(loads, i)
      BY <1>2 DEF Fail, EndAborted
    <2> QED
      BY <2>1, WithoutFacts
  <1>3. CASE RunEffect \/ Fire \/ Reload
    <2>1. PICK r \in Ranges : Load(r)
      BY <1>3 DEF RunEffect, Fire, Reload, RangeOfLoad, TypeOK
    <2> QED
      BY <2>1, LoadFacts
  <1>4. CASE Tick
    BY <1>4, TickFacts, LenProperties DEF OneAlive, Loads
  <1>5. CASE (\E r \in Ranges, p \in Periods : Select(r, p)) \/ UNCHANGED vars
    BY <1>5 DEF Select, vars, OneAlive
  <1> QED
    BY <1>1, <1>2, <1>3, <1>4, <1>5 DEF Next, Run

\* What is shown, and of what range the loads are, after every kind of step.
LEMMA RangeStep ==
    ASSUME IInv, [Next]_vars, DashboardAssumption
    PROVE  OnRange' /\ NeverBackwards'
  <1> USE DEF IInv
  <1>1. ASSUME NEW i \in 1..Len(loads), Succeed(i)
        PROVE  OnRange' /\ NeverBackwards'
    <2>1. i = Len(loads) /\ Len(loads) \in Nat /\ loads # << >> /\ Alive
      <3>1. i = Len(loads) /\ Len(loads) \in Nat
        BY <1>1, LenProperties DEF Succeed, OneAlive, Loads
      <3>2. loads # << >>
        BY <3>1, EmptySeq DEF Loads
      <3> QED
        BY <1>1, <3>1, <3>2 DEF Succeed, Alive
    <2>2. ~dirty => data'.range = range'
      BY <1>1, <2>1 DEF Succeed, OnRange, selected
    <2>3. ~Alive'
      <3>1. loads' \in Loads /\ OneAlive'
        BY LoadsStep, <1>1 DEF Next, Run
      <3>2. \A j \in 1..Len(loads') : loads'[j].aborted
        BY <1>1, SucceedLeavesAborted
      <3>3. loads' # << >> => Len(loads') \in 1..Len(loads')
        BY <3>1, EmptySeq, LenProperties DEF Loads
      <3> QED
        BY <3>2, <3>3 DEF Alive
    <2>4. ~loads[i].overtaken
      BY <1>1, <2>1 DEF Succeed, OneAlive
    <2> QED
      BY <1>1, <2>2, <2>3, <2>4 DEF Succeed, OnRange, NeverBackwards, selected
  <1>2. ASSUME NEW i \in 1..Len(loads), Fail(i)
        PROVE  OnRange' /\ NeverBackwards'
    <2>1. loads' = RemoveAt(loads, i)
      BY <1>2 DEF Fail
    <2>2. Alive' => Alive /\ loads'[Len(loads')] = loads[Len(loads)]
      BY <2>1, WithoutFacts
    <2>3. data'.error
      BY <1>2 DEF Fail, Failed, TypeOK
    <2> QED
      BY <1>2, <2>2, <2>3 DEF Fail, OnRange, NeverBackwards, selected
  <1>3. ASSUME NEW i \in 1..Len(loads), EndAborted(i)
        PROVE  OnRange' /\ NeverBackwards'
    <2>1. loads' = RemoveAt(loads, i) /\ loads[i].aborted
      BY <1>3 DEF EndAborted
    <2>2. /\ Alive' => Alive /\ loads'[Len(loads')] = loads[Len(loads)]
          /\ Alive => Alive'
      BY <2>1, WithoutFacts
    <2> QED
      BY <1>3, <2>2 DEF EndAborted, OnRange, NeverBackwards, selected
  <1>4. CASE RunEffect
    <2>1. Load(range)
      BY <1>4 DEF RunEffect, RangeOfLoad
    <2>2. Alive' /\ loads'[Len(loads')].range = range
      BY <2>1, LoadFacts DEF TypeOK
    <2> QED
      BY <1>4, <2>2 DEF RunEffect, RangeOfLoad, OnRange, NeverBackwards
  <1>5. CASE Fire
    <2>1. Load(polled)
      BY <1>5 DEF Fire
    <2>2. Alive' /\ loads'[Len(loads')].range = polled
      BY <2>1, LoadFacts DEF TypeOK
    <2> QED
      BY <1>5, <2>2 DEF Fire, OnRange, NeverBackwards, selected
  <1>6. CASE Reload
    <2>1. Load(range)
      BY <1>6 DEF Reload
    <2>2. Alive' /\ loads'[Len(loads')].range = range
      BY <2>1, LoadFacts DEF TypeOK
    <2> QED
      BY <1>6, <2>2 DEF Reload, OnRange, NeverBackwards
  <1>7. CASE Tick
    <2>1. /\ loads' \in Loads /\ Len(loads') = Len(loads)
          /\ \A j \in 1..Len(loads) : /\ loads'[j].aborted = loads[j].aborted
                                      /\ loads'[j].range = loads[j].range
      BY <1>7, TickFacts
    <2>2. /\ loads' # << >> <=> loads # << >>
          /\ loads # << >> => Len(loads) \in 1..Len(loads)
      BY <2>1, EmptySeq DEF Loads
    <2>3. /\ Alive' <=> Alive
          /\ Alive => loads'[Len(loads')].range = loads[Len(loads)].range
      BY <2>1, <2>2 DEF Alive
    <2> QED
      BY <1>7, <2>3 DEF Tick, OnRange, NeverBackwards, selected
  <1>8. CASE \E r \in Ranges, p \in Periods : Select(r, p)
    BY <1>8 DEF Select, OnRange, NeverBackwards
  <1>9. CASE UNCHANGED vars
    BY <1>9 DEF vars, OnRange, Alive, NeverBackwards
  <1> QED
    BY <1>1, <1>2, <1>3, <1>4, <1>5, <1>6, <1>7, <1>8, <1>9 DEF Next, Run

-----------------------------------------------------------------------------
\* The other fields keep their types.
LEMMA TypesStep ==
    ASSUME IInv, [Next]_vars, DashboardAssumption
    PROVE  TypeOK'
  <1> USE DEF IInv
  <1>1. \A i \in 1..Len(loads') :
            loads'[i] \in [range : Ranges, left : 0..Slowest,
                           aborted : BOOLEAN, overtaken : BOOLEAN]
    BY LoadsStep, TypesOfLoads
  <1>2. \A p \in Periods : p \in Nat /\ (Interval(p) = Off \/ Interval(p) \in 0..p)
    BY IntervalType DEF DashboardAssumption
  <1>3. ASSUME NEW i \in 1..Len(loads), Succeed(i)
        PROVE  TypeOK'
    <2>1. loads[i] \in LoadRecord
      BY ElementOfSeq DEF Loads
    <2>2. data' \in [range : Ranges \cup {NoRange}, loading : BOOLEAN, error : BOOLEAN]
      BY <1>3, <2>1 DEF Succeed, LoadRecord
    <2>3. backwards' \in BOOLEAN
      BY <1>3 DEF Succeed, TypeOK
    <2> QED
      BY <1>1, <1>3, <2>2, <2>3 DEF Succeed, TypeOK, selected
  <1>4. ASSUME NEW i \in 1..Len(loads), Fail(i)
        PROVE  TypeOK'
    <2>1. data' \in [range : Ranges \cup {NoRange}, loading : BOOLEAN, error : BOOLEAN]
      BY <1>4 DEF Fail, Failed, TypeOK
    <2> QED
      BY <1>1, <1>4, <2>1 DEF Fail, TypeOK, selected
  <1>5. ASSUME NEW i \in 1..Len(loads), EndAborted(i)
        PROVE  TypeOK'
    BY <1>1, <1>5 DEF EndAborted, TypeOK, selected
  <1>6. CASE RunEffect
    BY <1>1, <1>2, <1>6 DEF RunEffect, RangeOfLoad, TypeOK
  <1>7. CASE Fire
    BY <1>1, <1>2, <1>7 DEF Fire, TypeOK, selected
  <1>8. CASE Reload
    BY <1>1, <1>8 DEF Reload, TypeOK, DashboardAssumption
  <1>9. CASE Tick
    <2>1. timer' = Off \/ \E p \in Periods : timer' \in 0..p
      <3>1. CASE timer = Off
        BY <1>9, <3>1 DEF Tick
      <3>2. CASE timer # Off
        <4>1. PICK p \in Periods : timer \in 0..p
          BY <3>2 DEF TypeOK
        <4>2. timer' = timer - 1 /\ timer # 0
          BY <1>9, <3>2 DEF Tick
        <4> QED
          BY <1>2, <4>1, <4>2
      <3> QED
        BY <3>1, <3>2
    <2> QED
      BY <1>1, <1>9, <2>1 DEF Tick, TypeOK, selected
  <1>10. ASSUME NEW r \in Ranges, NEW p \in Periods, Select(r, p)
         PROVE  TypeOK'
    BY <1>1, <1>10 DEF Select, TypeOK, DashboardAssumption
  <1>11. CASE UNCHANGED vars
    BY <1>1, <1>11 DEF vars, TypeOK
  <1> QED
    BY <1>3, <1>4, <1>5, <1>6, <1>7, <1>8, <1>9, <1>10, <1>11 DEF Next, Run

\* The inductive invariant holds: a newer load always aborts the older one, and
\* what is shown or awaited is of the selected range.
THEOREM DashboardInvariant == Spec => []IInv
  <1> USE DashboardAssumption
  <1>1. Init => IInv
    <2> SUFFICES ASSUME Init
                 PROVE  IInv
      OBVIOUS
    <2>1. loads = << >> /\ loads \in Loads /\ Len(loads) = 0
      BY EmptySeq DEF Init, Loads
    <2>2. TypeOK
      <3>1. data \in [range : Ranges \cup {NoRange}, loading : BOOLEAN, error : BOOLEAN]
        BY DEF Init
      <3>2. 1..Len(loads) = {} /\ clicks \in 0..MaxClicks
        BY <2>1 DEF Init, DashboardAssumption
      <3>3. /\ range \in Ranges /\ refreshMs \in Periods /\ polled \in Ranges
            /\ dirty \in BOOLEAN /\ backwards \in BOOLEAN /\ timer = Off
        BY DEF Init
      <3> QED
        BY <3>1, <3>2, <3>3 DEF TypeOK
    <2>3. OneAlive
      BY <2>1 DEF OneAlive
    <2>4. OnRange /\ NeverBackwards
      BY DEF Init, OnRange, NeverBackwards
    <2> QED
      BY <2>1, <2>2, <2>3, <2>4 DEF IInv
  <1>2. IInv /\ [Next]_vars => IInv'
    BY LoadsStep, RangeStep, TypesStep DEF IInv
  <1> QED
    BY <1>1, <1>2, PTL DEF Spec

\* useDashboardData.ts:114-117: an older load's values never replace a newer
\* one's, however many loads overlap and in whatever order they answer.
THEOREM ValuesMoveForward == Spec => []NeverBackwards
  <1>1. IInv => NeverBackwards
    BY DEF IInv
  <1> QED
    BY <1>1, DashboardInvariant, PTL

\* useDashboardData.ts:304-311: with nothing in flight and no error, the values
\* are those of the selected range.
THEOREM SettlesOnRange == Spec => []SettledOnRange
  <1>1. IInv => SettledOnRange
    BY DEF IInv, OnRange, Alive, SettledOnRange
  <1> QED
    BY <1>1, DashboardInvariant, PTL

==============================================================================
