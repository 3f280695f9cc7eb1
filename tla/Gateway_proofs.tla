----------------------------- MODULE Gateway_proofs -----------------------------
(***************************************************************************)
(* Proofs about the ring of recent requests, for every capacity, and about *)
(* Gateway around it, for every finite set of connections and every value  *)
(* of the bounds: the process keeps the bounded log, what the gauge, the   *)
(* counter and the log say of the requests in the pipeline, and that       *)
(* nothing a request uses is closed before it has left.                    *)
(***************************************************************************)
EXTENDS Gateway, FiniteSetTheorems, TLAPS

-----------------------------------------------------------------------------
(* The index arithmetic. *)

\* The ring has at least one slot.
LEMMA SizePositive == Size \in Nat \ {0}
  BY RecentAssumption DEF RecentAssumption, Size

\* (next + 1) % len(buf) is the next slot, or the first after the last.
LEMMA AfterSlotValue ==
    ASSUME NEW s \in Slots
    PROVE  AfterSlot(s) = IF s = Size - 1 THEN 0 ELSE s + 1
  <1>1. CASE s = Size - 1
    <2>1. s + 1 = Size
      BY <1>1, SizePositive
    <2>2. Size % Size = 0
      BY SizePositive
    <2> QED
      BY <1>1, <2>1, <2>2 DEF AfterSlot
  <1>2. CASE s # Size - 1
    <2>1. s + 1 \in 0..Size-1
      BY <1>2, SizePositive DEF Slots
    <2>2. (s + 1) % Size = s + 1
      BY <2>1, SizePositive
    <2> QED
      BY <1>2, <2>2 DEF AfterSlot
  <1> QED
    BY <1>1, <1>2

\* Walking back at most once around the ring meets only slots of the ring.
LEMMA SlotBackType ==
    ASSUME next \in Slots, NEW k \in 1..Size
    PROVE  SlotBack(k) \in Slots
  BY SizePositive DEF SlotBack, Slots

\* After an addition, walking back k slots from the new next is walking back
\* k - 1 from the old one, and the first slot met is the one just written.
LEMMA SlotBackAfterAdd ==
    ASSUME next \in Slots, next' = AfterSlot(next), NEW k \in 1..Size
    PROVE  /\ k = 1 => SlotBack(k)' = next
           /\ k > 1 => SlotBack(k)' = SlotBack(k - 1) /\ SlotBack(k - 1) # next
  <1>1. next' = IF next = Size - 1 THEN 0 ELSE next + 1
    BY AfterSlotValue
  <1>2. SlotBack(k)' = IF next' - k < 0 THEN next' - k + Size ELSE next' - k
    BY DEF SlotBack
  <1>3. SlotBack(k - 1) =
            IF next - (k - 1) < 0 THEN next - (k - 1) + Size ELSE next - (k - 1)
    BY DEF SlotBack
  <1> QED
    BY <1>1, <1>2, <1>3, SizePositive DEF Slots

-----------------------------------------------------------------------------
(* Types and the written slots. *)

\* A snapshot takes at most count rounds.
LEMMA RoundsType ==
    ASSUME count \in 0..Size, NEW limit \in Int
    PROVE  Rounds(limit) \in 0..count
  BY SizePositive DEF Rounds

\* Every slot a snapshot reads lies in the ring, so its answer is a sequence.
LEMMA SnapshotType ==
    ASSUME RingTypeOK, NEW limit \in Int
    PROVE  SnapshotOf(limit) \in Seq(Requests \cup {NoRequest})
  <1>1. Rounds(limit) \in 0..count /\ count \in 0..Size
    BY RoundsType DEF RingTypeOK
  <1>2. Rounds(limit) \in Nat
    BY <1>1, SizePositive
  <1>3. ASSUME NEW k \in 1..Rounds(limit)
        PROVE  buf[SlotBack(k)] \in Requests \cup {NoRequest}
    <2>1. k \in 1..Size
      BY <1>1, SizePositive
    <2> QED
      BY <2>1, SlotBackType DEF RingTypeOK
  <1> QED
    BY <1>2, <1>3 DEF SnapshotOf

\* The invariant of the ring.
RingInv == RingTypeOK /\ WrittenBehindNext

\* An empty ring satisfies it.
LEMMA InitRing == RingInit => RingInv
  BY SizePositive DEF RingInit, RingInv, RingTypeOK, WrittenBehindNext, Slots

\* Each addition keeps it: the slot written is the one the walk back meets first.
LEMMA AddRing ==
    ASSUME RingInv, NEW e \in Requests, Add(e)
    PROVE  RingInv'
  <1> USE DEF RingInv
  <1>0. /\ next \in Slots /\ count \in 0..Size
        /\ next' = AfterSlot(next) /\ count' = Grow(count)
        /\ buf' = [buf EXCEPT ![next] = e]
    BY DEF RingTypeOK, Add
  <1>1. next' = IF next = Size - 1 THEN 0 ELSE next + 1
    BY <1>0, AfterSlotValue
  <1>2. count' = IF count < Size THEN count + 1 ELSE count
    BY <1>0 DEF Grow
  <1>3. next' \in Slots
    BY <1>0, <1>1, SizePositive DEF Slots
  <1>4. count' \in 0..Size
    BY <1>0, <1>2, SizePositive
  <1>5. RingTypeOK'
    BY <1>0, <1>3, <1>4 DEF RingTypeOK, Add
  <1>6. count' < Size => next' = count'
    BY <1>0, <1>1, <1>2, SizePositive DEF WrittenBehindNext, Slots
  <1>7. ASSUME NEW k \in 1..count'
        PROVE  buf'[SlotBack(k)'] \in Requests
    <2>1. k \in 1..Size
      BY <1>4, SizePositive
    <2>2. CASE k = 1
      BY <1>0, <2>1, <2>2, SlotBackAfterAdd DEF RingTypeOK
    <2>3. CASE k > 1
      <3>1. SlotBack(k)' = SlotBack(k - 1) /\ SlotBack(k - 1) # next
        BY <1>0, <2>1, <2>3, SlotBackAfterAdd
      <3>2. k - 1 \in 1..count
        BY <1>0, <1>2, <2>3, SizePositive
      <3>3. buf[SlotBack(k - 1)] \in Requests
        BY <3>2 DEF WrittenBehindNext
      <3>4. k - 1 \in 1..Size
        BY <2>1, <2>3, SizePositive
      <3>5. SlotBack(k - 1) \in Slots
        BY <1>0, <3>4, SlotBackType
      <3> QED
        BY <1>0, <3>1, <3>3, <3>5 DEF RingTypeOK
    <2> QED
      BY <2>1, <2>2, <2>3
  <1> QED
    BY <1>5, <1>6, <1>7 DEF WrittenBehindNext

\* recent.go:42-74: in every behaviour next is a slot, and the count slots
\* behind it - and no others - have been written, across any number of wraps.
THEOREM RingCorrect == RingSpec => []RingInv
  <1>1. RingInv /\ [RingNext]_ringVars => RingInv'
    <2> SUFFICES ASSUME RingInv, [RingNext]_ringVars PROVE RingInv'
      OBVIOUS
    <2>1. ASSUME NEW e \in Requests, Add(e) PROVE RingInv'
      BY <2>1, AddRing
    <2>2. ASSUME NEW limit \in Limits, Snapshot(limit) PROVE RingInv'
      <3>1. answer' \in Seq(Requests \cup {NoRequest})
        BY <2>2, SnapshotType, RecentAssumption
           DEF Snapshot, RingInv, RecentAssumption
      <3> QED
        BY <2>2, <3>1 DEF Snapshot, RingInv, RingTypeOK, WrittenBehindNext, SlotBack
    <2>3. CASE UNCHANGED ringVars
      BY <2>3 DEF ringVars, RingInv, RingTypeOK, WrittenBehindNext, SlotBack
    <2> QED
      BY <2>1, <2>2, <2>3 DEF RingNext
  <1> QED
    BY InitRing, <1>1, PTL DEF RingSpec

\* recent.go:44-51: no snapshot can reach a slot that was never written.
THEOREM SlotsAreWritten == RingSpec => []WrittenBehindNext
  BY RingCorrect, PTL DEF RingInv

\* The fields of the ring have their types.
THEOREM RingTypeCorrect == RingSpec => []RingTypeOK
  BY RingCorrect, PTL DEF RingInv

-----------------------------------------------------------------------------
(* The ring implements the bounded list. *)

\* The list the ring stands for: the refinement mapping of Log.
Kept == [k \in 1..count |-> buf[SlotBack(k)]]

\* It has one element for each written slot.
LEMMA KeptLength ==
    ASSUME count \in 0..Size
    PROVE  Len(Kept) = count
  <1>1. count \in Nat /\ DOMAIN Kept = 1..count
    BY SizePositive DEF Kept
  <1>2. Kept \in Seq({buf[SlotBack(k)] : k \in 1..count})
    BY <1>1 DEF Kept
  <1> QED
    BY <1>1, <1>2

\* An addition pushes on the front of the list and drops what exceeds Size.
LEMMA AddPushes ==
    ASSUME RingInv, NEW e \in Requests, Add(e)
    PROVE  Kept' = Log!Push(Kept, e)
  <1> DEFINE n == IF count < Size THEN count + 1 ELSE Size
  <1>0. /\ next \in Slots /\ count \in 0..Size
        /\ next' = AfterSlot(next) /\ count' = Grow(count)
        /\ buf' = [buf EXCEPT ![next] = e] /\ DOMAIN buf = Slots
    BY DEF RingInv, RingTypeOK, Add
  <1>1. count' = n
    BY <1>0, SizePositive DEF Grow
  <1>2. n \in 0..Size /\ n <= count + 1
    BY <1>0, SizePositive
  <1>3. Log!Push(Kept, e) = [k \in 1..n |-> IF k = 1 THEN e ELSE Kept[k - 1]]
    BY <1>0, KeptLength DEF Log!Push
  <1>4. Kept' = [k \in 1..n |-> buf'[SlotBack(k)']]
    BY <1>1 DEF Kept
  <1>5. ASSUME NEW k \in 1..n
        PROVE  buf'[SlotBack(k)'] = IF k = 1 THEN e ELSE Kept[k - 1]
    <2>1. k \in 1..Size
      BY <1>2, SizePositive
    <2>2. CASE k = 1
      BY <1>0, <2>1, <2>2, SlotBackAfterAdd
    <2>3. CASE k > 1
      <3>1. SlotBack(k)' = SlotBack(k - 1) /\ SlotBack(k - 1) # next
        BY <1>0, <2>1, <2>3, SlotBackAfterAdd
      <3>2. k - 1 \in 1..count
        BY <1>0, <1>2, <2>3, SizePositive
      <3>3. Kept[k - 1] = buf[SlotBack(k - 1)]
        BY <3>2 DEF Kept
      <3>4. SlotBack(k - 1) \in Slots
        BY <1>0, <3>2, SizePositive, SlotBackType
      <3> QED
        BY <1>0, <2>3, <3>1, <3>3, <3>4
    <2> QED
      BY <2>1, <2>2, <2>3
  <1> HIDE DEF n
  <1> QED
    BY <1>3, <1>4, <1>5

\* A snapshot is the head of the list, as long as the limit asks.
LEMMA SnapshotIsNewest ==
    ASSUME RingInv, NEW limit \in Int
    PROVE  SnapshotOf(limit) = Log!Newest(Kept, limit)
  <1>1. Len(Kept) = count /\ count \in 0..Size
    BY KeptLength DEF RingInv, RingTypeOK
  <1>2. Log!Newest(Kept, limit) = [k \in 1..Rounds(limit) |-> Kept[k]]
    BY <1>1, SizePositive DEF Log!Newest, Rounds
  <1>3. \A k \in 1..Rounds(limit) : Kept[k] = buf[SlotBack(k)]
    BY <1>1, SizePositive, RoundsType DEF Kept
  <1> QED
    BY <1>2, <1>3 DEF SnapshotOf

\* recent.go:25-74: the ring buffer with its wrapping indices implements the
\* bounded newest-first list of RecentLog, for every capacity.
THEOREM RingImplementsLog == RingSpec => ImplementsLog
  <1>1. RingInit => Log!Init
    BY SizePositive DEF RingInit, Log!Init
  <1>2. RingInv /\ [RingNext]_ringVars => [Log!Next]_<<Kept, answer>>
    <2> SUFFICES ASSUME RingInv, [RingNext]_ringVars
                 PROVE  [Log!Next]_<<Kept, answer>>
      OBVIOUS
    <2>1. ASSUME NEW e \in Requests, Add(e)
          PROVE  Log!Next
      <3>1. Kept' = Log!Push(Kept, e)
        BY <2>1, AddPushes
      <3>2. Log!Add(e)
        BY <2>1, <3>1 DEF Log!Add, Add, Kept
      <3> QED
        BY <3>2 DEF Log!Next
    <2>2. ASSUME NEW limit \in Limits, Snapshot(limit)
          PROVE  Log!Next
      <3>1. SnapshotOf(limit) = Log!Newest(Kept, limit)
        BY SnapshotIsNewest, RecentAssumption DEF RecentAssumption
      <3>2. Log!Query(limit)
        BY <2>2, <3>1 DEF Log!Query, Snapshot, Kept, SlotBack
      <3> QED
        BY <3>2 DEF Log!Next
    <2>3. CASE UNCHANGED ringVars
      BY <2>3 DEF ringVars, Kept, SlotBack
    <2> QED
      BY <2>1, <2>2, <2>3 DEF RingNext
  <1> QED
    BY <1>1, <1>2, RingCorrect, PTL DEF RingSpec, ImplementsLog, Log!Spec, Kept

-----------------------------------------------------------------------------
(* Counting connections. *)

\* What connection c adds to the size of each set, when its request is r.
InInside(r) == IF r.at \notin {"idle", "accepted"} THEN 1 ELSE 0
InUncounted(r) == IF r.at \notin {"idle", "accepted", "counted"} THEN 1 ELSE 0
InBetween(r) == IF r.at = "recorded" /\ r.kind \in Api THEN 1 ELSE 0

\* Adding or removing c changes the size of a set by at most one.
LEMMA ChangeOne ==
    ASSUME NEW S \in SUBSET Conns, NEW c \in Conns, NEW p \in BOOLEAN,
           NEW T, T = IF p THEN S \cup {c} ELSE S \ {c}
    PROVE  /\ Cardinality(S) \in Nat /\ Cardinality(T) \in Nat
           /\ Cardinality(T) = Cardinality(S) + (IF p THEN 1 ELSE 0)
                                             - (IF c \in S THEN 1 ELSE 0)
  <1>1. IsFiniteSet(S)
    BY FS_Subset, GatewayAssumption DEF GatewayAssumption
  <1>2. Cardinality(S) \in Nat
    BY <1>1, FS_CardinalityType
  <1>3. CASE p
    <2>1. Cardinality(S \cup {c}) = IF c \in S THEN Cardinality(S) ELSE Cardinality(S) + 1
      BY <1>1, FS_AddElement
    <2> QED
      BY <1>2, <1>3, <2>1
  <1>4. CASE ~p
    <2>1. Cardinality(S \ {c}) = IF c \in S THEN Cardinality(S) - 1 ELSE Cardinality(S)
      BY <1>1, FS_RemoveElement
    <2>2. IsFiniteSet(S \ {c})
      BY <1>1, FS_Subset
    <2>3. Cardinality(S \ {c}) \in Nat
      BY <2>2, FS_CardinalityType
    <2> QED
      BY <1>2, <1>4, <2>1, <2>3
  <1> QED
    BY <1>3, <1>4

ReqType == req \in [Conns -> [at : Stages, no : 0..MaxRequests, kind : Kinds, upstream : BOOLEAN]]

\* The three sets after a step of connection c.
LEMMA Recount ==
    ASSUME ReqType, NEW c \in Conns, NEW r, req' = [req EXCEPT ![c] = r]
    PROVE  /\ Cardinality(Inside) \in Nat
           /\ Cardinality(Uncounted) \in Nat
           /\ Cardinality(Between) \in Nat
           /\ Cardinality(Inside') = Cardinality(Inside) + InInside(r) - InInside(req[c])
           /\ Cardinality(Uncounted') =
                  Cardinality(Uncounted) + InUncounted(r) - InUncounted(req[c])
           /\ Cardinality(Between') = Cardinality(Between) + InBetween(r) - InBetween(req[c])
  <1> DEFINE in(x) == x.at \notin {"idle", "accepted"}
             un(x) == x.at \notin {"idle", "accepted", "counted"}
             be(x) == x.at = "recorded" /\ x.kind \in Api
  <1>0. req'[c] = r /\ \A d \in Conns : d # c => req'[d] = req[d]
    BY DEF ReqType
  <1>1. Inside' = IF in(r) THEN Inside \cup {c} ELSE Inside \ {c}
    BY <1>0 DEF Inside
  <1>2. Uncounted' = IF un(r) THEN Uncounted \cup {c} ELSE Uncounted \ {c}
    BY <1>0 DEF Uncounted
  <1>3. Between' = IF be(r) THEN Between \cup {c} ELSE Between \ {c}
    BY <1>0 DEF Between
  <1>4. Inside \in SUBSET Conns /\ Uncounted \in SUBSET Conns /\ Between \in SUBSET Conns
    BY DEF Inside, Uncounted, Between
  <1>5. /\ c \in Inside <=> in(req[c])
        /\ c \in Uncounted <=> un(req[c])
        /\ c \in Between <=> be(req[c])
    BY DEF Inside, Uncounted, Between
  <1>6. in(r) \in BOOLEAN /\ un(r) \in BOOLEAN /\ be(r) \in BOOLEAN
    OBVIOUS
  <1> HIDE DEF in, un, be
  <1>7. /\ Cardinality(Inside) \in Nat
        /\ Cardinality(Inside') = Cardinality(Inside) + InInside(r) - InInside(req[c])
    <2>1. /\ Cardinality(Inside) \in Nat /\ Cardinality(Inside') \in Nat
          /\ Cardinality(Inside') = Cardinality(Inside)
                + (IF in(r) THEN 1 ELSE 0) - (IF c \in Inside THEN 1 ELSE 0)
      BY <1>1, <1>4, <1>6, ChangeOne
    <2> QED
      BY <2>1, <1>5 DEF InInside, in
  <1>8. /\ Cardinality(Uncounted) \in Nat
        /\ Cardinality(Uncounted') =
               Cardinality(Uncounted) + InUncounted(r) - InUncounted(req[c])
    <2>1. /\ Cardinality(Uncounted) \in Nat /\ Cardinality(Uncounted') \in Nat
          /\ Cardinality(Uncounted') = Cardinality(Uncounted)
                + (IF un(r) THEN 1 ELSE 0) - (IF c \in Uncounted THEN 1 ELSE 0)
      BY <1>2, <1>4, <1>6, ChangeOne
    <2> QED
      BY <2>1, <1>5 DEF InUncounted, un
  <1>9. /\ Cardinality(Between) \in Nat
        /\ Cardinality(Between') = Cardinality(Between) + InBetween(r) - InBetween(req[c])
    <2>1. /\ Cardinality(Between) \in Nat /\ Cardinality(Between') \in Nat
          /\ Cardinality(Between') = Cardinality(Between)
                + (IF be(r) THEN 1 ELSE 0) - (IF c \in Between THEN 1 ELSE 0)
      BY <1>3, <1>4, <1>6, ChangeOne
    <2> QED
      BY <2>1, <1>5 DEF InBetween, be
  <1> QED
    BY <1>7, <1>8, <1>9

-----------------------------------------------------------------------------
(* The inductive invariant. *)

RequestStates == [at : Stages, no : 0..MaxRequests, kind : Kinds, upstream : BOOLEAN]

\* A request that has entered the pipeline has a number.
Numbered == \A c \in Conns : req[c].at \notin {"idle", "accepted"} => req[c].no \in 1..MaxRequests

\* What main has closed once it drains, once it has drained and at the end.
Quiet ==
    /\ phase \in {"draining", "deferring", "closing", "clean"} => listener # "open"
    /\ phase \in {"deferring", "closing", "clean"} => \A c \in Conns : req[c].at = "idle"
    /\ ~redis => phase = "clean"

\* What the gauge, the counter and the log say.
Accounts == GaugeIsInside /\ OnlyPanicsUncounted /\ RecordedThenCounted

IInv == TypeOK /\ RingInv /\ Numbered /\ Quiet /\ Accounts

Counted == total["proxied"] + total["unknown"] + total["local"]
CountedApi == total["proxied"] + total["unknown"]

\* The account of a step that takes connection c's request to r.
Balanced(c, r) ==
    /\ req' = [req EXCEPT ![c] = r]
    /\ active' = active + InInside(r) - InInside(req[c])
    /\ Counted' + panicked' + InUncounted(r) - InUncounted(req[c]) - begun' =
           Counted + panicked - begun
    /\ recorded' - CountedApi' - InBetween(r) + InBetween(req[c]) = recorded - CountedApi

\* A balanced step keeps the accounts.
LEMMA BalancedKeeps ==
    ASSUME IInv, NEW c \in Conns, NEW r, Balanced(c, r),
           begun' \in Nat, panicked' \in Nat, recorded' \in Nat, total' \in [Kinds -> Nat]
    PROVE  Accounts' /\ active' \in Nat
  <1>0. ReqType
    BY DEF IInv, TypeOK, ReqType
  <1>1. /\ Cardinality(Inside) \in Nat
        /\ Cardinality(Uncounted) \in Nat
        /\ Cardinality(Between) \in Nat
        /\ Cardinality(Inside') = Cardinality(Inside) + InInside(r) - InInside(req[c])
        /\ Cardinality(Uncounted') =
               Cardinality(Uncounted) + InUncounted(r) - InUncounted(req[c])
        /\ Cardinality(Between') = Cardinality(Between) + InBetween(r) - InBetween(req[c])
    BY <1>0, Recount DEF Balanced
  <1>2. /\ InInside(r) \in 0..1 /\ InInside(req[c]) \in 0..1
        /\ InUncounted(r) \in 0..1 /\ InUncounted(req[c]) \in 0..1
        /\ InBetween(r) \in 0..1 /\ InBetween(req[c]) \in 0..1
    BY DEF InInside, InUncounted, InBetween
  <1>3. /\ Counted \in Nat /\ CountedApi \in Nat /\ Counted' \in Nat /\ CountedApi' \in Nat
    <2>1. total \in [Kinds -> Nat]
      BY DEF IInv, TypeOK
    <2> QED
      BY <2>1 DEF Counted, CountedApi, Kinds
  <1>4. begun \in Nat /\ panicked \in Nat /\ recorded \in Nat
    BY GatewayAssumption DEF IInv, TypeOK, GatewayAssumption
  <1>5. active = Cardinality(Inside)
    BY DEF IInv, Accounts, GaugeIsInside
  <1>6. Counted + panicked + Cardinality(Uncounted) = begun
    BY DEF IInv, Accounts, OnlyPanicsUncounted, Counted
  <1>7. recorded = CountedApi + Cardinality(Between)
    BY DEF IInv, Accounts, RecordedThenCounted, CountedApi
  <1>8. active' = Cardinality(Inside')
    BY <1>1, <1>5 DEF Balanced
  <1>9. Counted' + panicked' + Cardinality(Uncounted') = begun'
    BY <1>1, <1>2, <1>3, <1>4, <1>6 DEF Balanced
  <1>10. recorded' = CountedApi' + Cardinality(Between')
    BY <1>1, <1>2, <1>3, <1>4, <1>7 DEF Balanced
  <1>11. Cardinality(Inside') \in Nat
    <2>1. Inside' \in SUBSET Conns
      BY DEF Inside
    <2> QED
      BY <2>1, FS_Subset, FS_CardinalityType, GatewayAssumption DEF GatewayAssumption
  <1> QED
    BY <1>8, <1>9, <1>10, <1>11
       DEF Accounts, GaugeIsInside, OnlyPanicsUncounted, RecordedThenCounted, Counted, CountedApi

\* What every handler step leaves typed and in order.
HandlerTypes ==
    /\ RingInv' /\ Numbered'
    /\ req' \in [Conns -> RequestStates]
    /\ begun' \in 0..MaxRequests /\ panicked' \in Nat /\ recorded' \in Nat
    /\ total' \in [Kinds -> Nat]

\* The connection's request goes to another stage, and nothing else changes.
LEMMA MoveTypes ==
    ASSUME IInv, NEW c \in Conns, NEW from, NEW to \in Stages, Move(c, from, to),
           from \in {"idle", "accepted"} => to \in {"idle", "accepted"}
    PROVE  /\ Numbered' /\ req' \in [Conns -> RequestStates]
           /\ req' = [req EXCEPT ![c] = [req[c] EXCEPT !.at = to]]
           /\ [req[c] EXCEPT !.at = to].at = to
           /\ [req[c] EXCEPT !.at = to].kind = req[c].kind
  <1>1. req \in [Conns -> RequestStates] /\ req[c] \in RequestStates
    BY DEF IInv, TypeOK, RequestStates
  <1>2. req' = [req EXCEPT ![c] = [req[c] EXCEPT !.at = to]] /\ req[c].at = from
    BY DEF Move
  <1>3. [req[c] EXCEPT !.at = to] \in RequestStates
    BY <1>1 DEF RequestStates
  <1>4. /\ [req[c] EXCEPT !.at = to].at = to
        /\ [req[c] EXCEPT !.at = to].no = req[c].no
        /\ [req[c] EXCEPT !.at = to].kind = req[c].kind
    BY <1>1 DEF RequestStates
  <1>5. req' \in [Conns -> RequestStates]
    BY <1>1, <1>2, <1>3
  <1>6. Numbered'
    <2> SUFFICES ASSUME NEW d \in Conns, req'[d].at \notin {"idle", "accepted"}
                 PROVE  req'[d].no \in 1..MaxRequests
      BY DEF Numbered
    <2>1. CASE d = c
      <3>1. req'[d].at = to /\ req'[d].no = req[c].no
        BY <1>1, <1>2, <1>4, <2>1
      <3> QED
        BY <1>2, <3>1 DEF IInv, Numbered
    <2>2. CASE d # c
      <3>1. req'[d] = req[d]
        BY <1>1, <1>2, <2>2
      <3> QED
        BY <3>1 DEF IInv, Numbered
    <2> QED
      BY <2>1, <2>2
  <1> QED
    BY <1>2, <1>4, <1>5, <1>6

\* Ring steps the handlers take keep the ring's invariant.
LEMMA RingKept ==
    ASSUME IInv, UNCHANGED ringVars \/ (\E limit \in Limits : Snapshot(limit))
    PROVE  RingInv'
  <1>1. CASE UNCHANGED ringVars
    BY <1>1 DEF IInv, ringVars, RingInv, RingTypeOK, WrittenBehindNext, SlotBack
  <1>2. ASSUME NEW limit \in Limits, Snapshot(limit) PROVE RingInv'
    <2>1. answer' \in Seq(Requests \cup {NoRequest})
      BY <1>2, SnapshotType, RecentAssumption DEF Snapshot, IInv, RingInv, RecentAssumption
    <2> QED
      BY <1>2, <2>1 DEF Snapshot, IInv, RingInv, RingTypeOK, WrittenBehindNext, SlotBack
  <1> QED
    BY <1>1, <1>2

\* A step that only moves the request between stages with the same account.
LEMMA PlainMove ==
    ASSUME IInv, NEW c \in Conns, NEW from \in Stages, NEW to \in Stages, Move(c, from, to),
           \/ from \in {"idle", "accepted"} /\ to \in {"idle", "accepted"}
           \/ /\ from \in {"limit", "handler"}
              /\ to \in {"handler", "answered", "unwinding"},
           UNCHANGED <<active, total, history, ringVars>>
    PROVE  HandlerTypes /\ \E r : Balanced(c, r)
  <1> DEFINE r == [req[c] EXCEPT !.at = to]
  <1>1. /\ Numbered' /\ req' \in [Conns -> RequestStates]
        /\ req' = [req EXCEPT ![c] = r]
        /\ r.at = to /\ r.kind = req[c].kind
    BY MoveTypes
  <1>2. req[c].at = from
    BY DEF Move
  <1> HIDE DEF r
  <1>3. /\ InInside(r) = InInside(req[c])
        /\ InUncounted(r) = InUncounted(req[c])
        /\ InBetween(r) = InBetween(req[c])
    BY <1>1, <1>2 DEF InInside, InUncounted, InBetween
  <1>4. /\ active \in Nat /\ begun \in 0..MaxRequests /\ panicked \in Nat
        /\ recorded \in Nat /\ total \in [Kinds -> Nat]
    BY DEF IInv, TypeOK
  <1>5. HandlerTypes
    BY <1>1, <1>4, RingKept DEF HandlerTypes, history
  <1>6. Counted \in Nat /\ CountedApi \in Nat /\ begun \in Nat
    BY <1>4, GatewayAssumption DEF Counted, CountedApi, Kinds, GatewayAssumption
  <1>7. Counted' = Counted /\ CountedApi' = CountedApi
    BY DEF Counted, CountedApi
  <1>8. /\ InInside(req[c]) \in 0..1 /\ InUncounted(req[c]) \in 0..1 /\ InBetween(req[c]) \in 0..1
    BY DEF InInside, InUncounted, InBetween
  <1>9. Balanced(c, r)
    BY <1>1, <1>3, <1>4, <1>6, <1>7, <1>8 DEF Balanced, history
  <1> QED
    BY <1>5, <1>9

\* The facts about the state every lemma below starts from.
LEMMA Typed ==
    ASSUME IInv
    PROVE  /\ req \in [Conns -> RequestStates]
           /\ active \in Nat /\ begun \in 0..MaxRequests /\ begun \in Nat
           /\ panicked \in Nat /\ recorded \in Nat
           /\ total \in [Kinds -> Nat]
           /\ Counted \in Nat /\ CountedApi \in Nat
  <1>1. /\ req \in [Conns -> RequestStates]
        /\ active \in Nat /\ begun \in 0..MaxRequests
        /\ panicked \in Nat /\ recorded \in Nat
        /\ total \in [Kinds -> Nat]
    BY DEF IInv, TypeOK, RequestStates
  <1>2. begun \in Nat
    BY <1>1, GatewayAssumption DEF GatewayAssumption
  <1>3. Counted \in Nat /\ CountedApi \in Nat
    BY <1>1 DEF Counted, CountedApi, Kinds
  <1> QED
    BY <1>1, <1>2, <1>3

\* A request enters with the next number.
LEMMA EnterBalanced ==
    ASSUME IInv, NEW c \in Conns, Enter(c)
    PROVE  HandlerTypes /\ \E r : Balanced(c, r)
  <1>1. PICK kind \in Kinds : req' = [req EXCEPT ![c] =
            [at |-> "limit", no |-> begun + 1, kind |-> kind, upstream |-> FALSE]]
    BY DEF Enter
  <1> DEFINE r == [at |-> "limit", no |-> begun + 1, kind |-> kind, upstream |-> FALSE]
  <1>2. begun' = begun + 1 /\ begun + 1 \in 1..MaxRequests
    BY Typed, GatewayAssumption DEF Enter, GatewayAssumption
  <1>3. r \in RequestStates /\ r.at = "limit" /\ r.no = begun + 1 /\ r.kind = kind
    BY <1>2, GatewayAssumption DEF RequestStates, Stages, GatewayAssumption
  <1>4. req' = [req EXCEPT ![c] = r]
    BY <1>1
  <1> HIDE DEF r
  <1>5. req' \in [Conns -> RequestStates]
    BY <1>3, <1>4, Typed
  <1>6. Numbered'
    <2> SUFFICES ASSUME NEW d \in Conns, req'[d].at \notin {"idle", "accepted"}
                 PROVE  req'[d].no \in 1..MaxRequests
      BY DEF Numbered
    <2>1. CASE d = c
      BY <1>2, <1>3, <1>4, <2>1, Typed
    <2>2. CASE d # c
      <3>1. req'[d] = req[d]
        BY <1>4, <2>2, Typed
      <3> QED
        BY <3>1 DEF IInv, Numbered
    <2> QED
      BY <2>1, <2>2
  <1>7. RingInv'
    BY RingKept DEF Enter
  <1>8. HandlerTypes
    <2>1. begun' \in 0..MaxRequests
      BY <1>2
    <2>2. panicked' = panicked /\ recorded' = recorded /\ total' = total
      BY DEF Enter
    <2> QED
      BY <1>5, <1>6, <1>7, <2>1, <2>2, Typed DEF HandlerTypes
  <1>9. /\ InInside(r) = 1 /\ InInside(req[c]) = 0
        /\ InUncounted(r) = 1 /\ InUncounted(req[c]) = 0
        /\ InBetween(r) = 0 /\ InBetween(req[c]) = 0
    BY <1>3 DEF InInside, InUncounted, InBetween, Enter
  <1>10. Counted' = Counted /\ CountedApi' = CountedApi
    BY DEF Counted, CountedApi, Enter
  <1>11. active' = active + 1 /\ panicked' = panicked /\ recorded' = recorded
    BY DEF Enter
  <1>12. Balanced(c, r)
    BY <1>2, <1>4, <1>9, <1>10, <1>11, Typed DEF Balanced
  <1> QED
    BY <1>8, <1>12

\* A handler answers, and may have read the log.
LEMMA AnswerBalanced ==
    ASSUME IInv, NEW c \in Conns, Answer(c)
    PROVE  HandlerTypes /\ \E r : Balanced(c, r)
  <1>1. PICK up \in BOOLEAN : req' = [req EXCEPT ![c] =
            [at |-> "answered", no |-> req[c].no, kind |-> req[c].kind, upstream |-> up]]
    BY DEF Answer
  <1> DEFINE r == [at |-> "answered", no |-> req[c].no, kind |-> req[c].kind, upstream |-> up]
  <1>2. req[c].at = "handler" /\ req[c] \in RequestStates
    BY Typed DEF Answer
  <1>3. r \in RequestStates /\ r.at = "answered" /\ r.no = req[c].no /\ r.kind = req[c].kind
    BY <1>2 DEF RequestStates, Stages
  <1>4. req' = [req EXCEPT ![c] = r]
    BY <1>1
  <1> HIDE DEF r
  <1>5. req' \in [Conns -> RequestStates]
    BY <1>3, <1>4, Typed
  <1>6. Numbered'
    <2> SUFFICES ASSUME NEW d \in Conns, req'[d].at \notin {"idle", "accepted"}
                 PROVE  req'[d].no \in 1..MaxRequests
      BY DEF Numbered
    <2>1. CASE d = c
      <3>1. req'[d].no = req[c].no
        BY <1>3, <1>4, <2>1, Typed
      <3> QED
        BY <1>2, <3>1 DEF IInv, Numbered
    <2>2. CASE d # c
      <3>1. req'[d] = req[d]
        BY <1>4, <2>2, Typed
      <3> QED
        BY <3>1 DEF IInv, Numbered
    <2> QED
      BY <2>1, <2>2
  <1>7. UNCHANGED ringVars \/ (\E limit \in Limits : Snapshot(limit))
    BY DEF Answer
  <1>8. UNCHANGED <<active, total, begun, panicked, recorded>>
    BY DEF Answer, history
  <1>9. HandlerTypes
    BY <1>5, <1>6, <1>7, <1>8, RingKept, Typed DEF HandlerTypes
  <1>10. /\ InInside(r) = 1 /\ InInside(req[c]) = 1
         /\ InUncounted(r) = 1 /\ InUncounted(req[c]) = 1
         /\ InBetween(r) = 0 /\ InBetween(req[c]) = 0
    BY <1>2, <1>3 DEF InInside, InUncounted, InBetween
  <1>11. Counted' = Counted /\ CountedApi' = CountedApi
    BY <1>8 DEF Counted, CountedApi
  <1>12. Balanced(c, r)
    BY <1>4, <1>8, <1>10, <1>11, Typed DEF Balanced
  <1> QED
    BY <1>9, <1>12

\* The request is added to the log, or is none of those that are.
LEMMA RecordBalanced ==
    ASSUME IInv, NEW c \in Conns, Record(c)
    PROVE  HandlerTypes /\ \E r : Balanced(c, r)
  <1> DEFINE r == [req[c] EXCEPT !.at = "recorded"]
  <1>0. Move(c, "answered", "recorded")
    BY DEF Record
  <1>1. /\ Numbered' /\ req' \in [Conns -> RequestStates]
        /\ req' = [req EXCEPT ![c] = r]
        /\ r.at = "recorded" /\ r.kind = req[c].kind
    BY <1>0, MoveTypes DEF Stages
  <1>2. req[c].at = "answered" /\ req[c] \in RequestStates
    BY Typed DEF Record, Move
  <1> HIDE DEF r
  <1>3. UNCHANGED <<active, total, begun, panicked>>
    BY DEF Record
  <1>4. /\ InInside(r) = 1 /\ InInside(req[c]) = 1
        /\ InUncounted(r) = 1 /\ InUncounted(req[c]) = 1
        /\ InBetween(r) = (IF IsRecorded(req[c]) THEN 1 ELSE 0) /\ InBetween(req[c]) = 0
    BY <1>1, <1>2 DEF InInside, InUncounted, InBetween, IsRecorded
  <1>5. recorded' = recorded + (IF IsRecorded(req[c]) THEN 1 ELSE 0)
    BY Typed DEF Record
  <1>6. RingInv'
    <2>1. CASE IsRecorded(req[c])
      <3> DEFINE e == [no |-> req[c].no, upstream |-> req[c].upstream]
      <3>1. req[c].no \in 1..MaxRequests /\ req[c].upstream \in BOOLEAN
        BY <1>2 DEF IInv, Numbered, RequestStates
      <3>2. e \in Requests
        BY <3>1, GatewayAssumption DEF GatewayAssumption
      <3>3. Add(e)
        BY <2>1 DEF Record
      <3> HIDE DEF e
      <3> QED
        BY <3>2, <3>3, AddRing DEF IInv
    <2>2. CASE ~IsRecorded(req[c])
      BY <2>2, RingKept DEF Record
    <2> QED
      BY <2>1, <2>2
  <1>7. recorded' \in Nat
    BY <1>5, Typed
  <1>8. HandlerTypes
    BY <1>1, <1>3, <1>6, <1>7, Typed DEF HandlerTypes
  <1>9. Counted' = Counted /\ CountedApi' = CountedApi
    BY <1>3 DEF Counted, CountedApi
  <1>10. Balanced(c, r)
    BY <1>1, <1>3, <1>4, <1>5, <1>9, Typed DEF Balanced
  <1> QED
    BY <1>8, <1>10

\* The counter catches up with the log.
LEMMA CountBalanced ==
    ASSUME IInv, NEW c \in Conns, Count(c)
    PROVE  HandlerTypes /\ \E r : Balanced(c, r)
  <1> DEFINE r == [req[c] EXCEPT !.at = "counted"]
             kind == req[c].kind
  <1>0. Move(c, "recorded", "counted")
    BY DEF Count
  <1>1. /\ Numbered' /\ req' \in [Conns -> RequestStates]
        /\ req' = [req EXCEPT ![c] = r]
        /\ r.at = "counted" /\ r.kind = kind
    BY <1>0, MoveTypes DEF Stages
  <1>2. req[c].at = "recorded" /\ kind \in Kinds
    BY Typed DEF Count, Move, RequestStates
  <1> HIDE DEF r
  <1>3. UNCHANGED <<active, begun, panicked, recorded, ringVars>>
    BY DEF Count, history
  <1>4. /\ InInside(r) = 1 /\ InInside(req[c]) = 1
        /\ InUncounted(r) = 0 /\ InUncounted(req[c]) = 1
        /\ InBetween(r) = 0 /\ InBetween(req[c]) = (IF kind \in Api THEN 1 ELSE 0)
    BY <1>1, <1>2 DEF InInside, InUncounted, InBetween
  <1>5. total' = [total EXCEPT ![kind] = total[kind] + 1]
    BY DEF Count
  <1> HIDE DEF kind
  <1>6. total' \in [Kinds -> Nat]
    BY <1>2, <1>5, Typed
  <1>7. /\ Counted' = Counted + 1
        /\ CountedApi' = CountedApi + (IF kind \in Api THEN 1 ELSE 0)
    <2>1. CASE kind = "proxied"
      BY <1>5, <2>1, Typed DEF Counted, CountedApi, Kinds, Api
    <2>2. CASE kind = "unknown"
      BY <1>5, <2>2, Typed DEF Counted, CountedApi, Kinds, Api
    <2>3. CASE kind = "local"
      BY <1>5, <2>3, Typed DEF Counted, CountedApi, Kinds, Api
    <2> QED
      BY <1>2, <2>1, <2>2, <2>3 DEF Kinds
  <1>8. HandlerTypes
    BY <1>1, <1>3, <1>6, RingKept, Typed DEF HandlerTypes
  <1>9. Balanced(c, r)
    BY <1>1, <1>3, <1>4, <1>7, Typed DEF Balanced
  <1> QED
    BY <1>8, <1>9

\* The deferred decrement runs on both ways out.
LEMMA LeaveBalanced ==
    ASSUME IInv, NEW c \in Conns, Leave(c)
    PROVE  HandlerTypes /\ \E r : Balanced(c, r)
  <1> DEFINE r == NoRequestYet
  <1>1. /\ req' = [req EXCEPT ![c] = r] /\ r \in RequestStates
        /\ r.at = "idle" /\ r.no = 0
    BY GatewayAssumption DEF Leave, NoRequestYet, RequestStates, Stages, Kinds, GatewayAssumption
  <1>2. req[c].at \in {"counted", "unwinding"}
    BY DEF Leave
  <1> HIDE DEF r
  <1>3. req' \in [Conns -> RequestStates]
    BY <1>1, Typed
  <1>4. Numbered'
    <2> SUFFICES ASSUME NEW d \in Conns, req'[d].at \notin {"idle", "accepted"}
                 PROVE  req'[d].no \in 1..MaxRequests
      BY DEF Numbered
    <2>1. d # c
      BY <1>1, Typed
    <2>2. req'[d] = req[d]
      BY <1>1, <2>1, Typed
    <2> QED
      BY <2>2 DEF IInv, Numbered
  <1>5. /\ active' = active - 1
        /\ panicked' = panicked + (IF req[c].at = "unwinding" THEN 1 ELSE 0)
    BY <1>2, Typed DEF Leave, Decrements
  <1>6. UNCHANGED <<total, begun, recorded, ringVars>>
    BY DEF Leave
  <1>7. /\ InInside(r) = 0 /\ InInside(req[c]) = 1
        /\ InUncounted(r) = 0
        /\ InUncounted(req[c]) = (IF req[c].at = "unwinding" THEN 1 ELSE 0)
        /\ InBetween(r) = 0 /\ InBetween(req[c]) = 0
    BY <1>1, <1>2 DEF InInside, InUncounted, InBetween
  <1>8. Counted' = Counted /\ CountedApi' = CountedApi
    BY <1>6 DEF Counted, CountedApi
  <1>9. HandlerTypes
    <2>1. panicked' \in Nat
      BY <1>5, Typed
    <2> QED
      BY <1>3, <1>4, <1>6, <2>1, RingKept, Typed DEF HandlerTypes
  <1>10. Balanced(c, r)
    BY <1>1, <1>5, <1>6, <1>7, <1>8, Typed DEF Balanced
  <1> QED
    BY <1>9, <1>10

\* Every step of a handler is balanced.
LEMMA HandleBalanced ==
    ASSUME IInv, NEW c \in Conns, Handle(c)
    PROVE  HandlerTypes /\ \E r : Balanced(c, r)
  <1>1. CASE Accept(c)
    BY <1>1, PlainMove DEF Accept, Stages
  <1>2. CASE Drop(c)
    BY <1>2, PlainMove DEF Drop, Stages
  <1>3. CASE Enter(c)
    BY <1>3, EnterBalanced
  <1>4. CASE Pass(c)
    BY <1>4, PlainMove DEF Pass, Stages
  <1>5. CASE Refuse(c)
    BY <1>5, PlainMove DEF Refuse, Stages
  <1>6. CASE Answer(c)
    BY <1>6, AnswerBalanced
  <1>7. CASE Panic(c)
    BY <1>7, PlainMove DEF Panic, Stages
  <1>8. CASE Record(c)
    BY <1>8, RecordBalanced
  <1>9. CASE Count(c)
    BY <1>9, CountBalanced
  <1>10. CASE Leave(c)
    BY <1>10, LeaveBalanced
  <1> QED
    BY <1>1, <1>2, <1>3, <1>4, <1>5, <1>6, <1>7, <1>8, <1>9, <1>10 DEF Handle

\* Connections come only while the listener is open, and requests only on them.
LEMMA HandleQuiet ==
    ASSUME IInv, NEW c \in Conns, Handle(c), UNCHANGED mainVars
    PROVE  Quiet'
  <1>1. Alive /\ (req[c].at # "idle" \/ listener = "open")
    BY DEF Handle, Accept, Drop, Enter, Pass, Refuse, Answer, Panic, Record, Count, Leave, Move
  <1>2. phase \notin {"deferring", "closing", "clean"}
    BY <1>1 DEF IInv, Quiet
  <1> QED
    BY <1>2 DEF IInv, Quiet, mainVars

\* A handler's step keeps the invariant.
LEMMA HandleKeeps ==
    ASSUME IInv, NEW c \in Conns, Handle(c), UNCHANGED mainVars
    PROVE  IInv'
  <1>1. HandlerTypes /\ \E r : Balanced(c, r)
    BY HandleBalanced
  <1>2. Accounts' /\ active' \in Nat
    <2>1. PICK r : Balanced(c, r)
      BY <1>1
    <2>2. /\ begun' \in Nat /\ panicked' \in Nat /\ recorded' \in Nat
          /\ total' \in [Kinds -> Nat]
      BY <1>1, GatewayAssumption DEF HandlerTypes, GatewayAssumption
    <2> QED
      BY <2>1, <2>2, BalancedKeeps
  <1>3. Quiet'
    BY HandleQuiet
  <1>4. TypeOK'
    <2>1. RingTypeOK'
      BY <1>1 DEF HandlerTypes, RingInv
    <2>2. req' \in [Conns -> [at : Stages, no : 0..MaxRequests, kind : Kinds, upstream : BOOLEAN]]
      BY <1>1 DEF HandlerTypes, RequestStates
    <2> QED
      BY <1>1, <1>2, <2>1, <2>2 DEF HandlerTypes, IInv, TypeOK, mainVars
  <1> QED
    BY <1>1, <1>2, <1>3, <1>4 DEF HandlerTypes, IInv

\* What no step of main touches keeps its part of the invariant.
LEMMA PipelineUntouched ==
    ASSUME IInv, UNCHANGED <<req, active, total, history, ringVars>>
    PROVE  /\ RingInv' /\ Numbered' /\ Accounts'
           /\ req' \in [Conns -> [at : Stages, no : 0..MaxRequests, kind : Kinds,
                                   upstream : BOOLEAN]]
           /\ active' \in Nat /\ total' \in [Kinds -> Nat]
           /\ begun' \in 0..MaxRequests /\ panicked' \in Nat /\ recorded' \in Nat
  <1>1. RingInv'
    BY RingKept
  <1>2. Numbered'
    BY DEF IInv, Numbered
  <1>3. Inside' = Inside /\ Uncounted' = Uncounted /\ Between' = Between
    BY DEF Inside, Uncounted, Between
  <1>4. Accounts'
    BY <1>3 DEF IInv, Accounts, GaugeIsInside, OnlyPanicsUncounted, RecordedThenCounted, history
  <1> QED
    BY <1>1, <1>2, <1>4 DEF IInv, TypeOK, history

\* The fields of main and the server's goroutine.
MainTypes ==
    /\ phase \in Running \cup Exits /\ tries \in 0..Pings
    /\ listener \in {"none", "ready", "open", "closed"}
    /\ probing \in BOOLEAN /\ redis \in BOOLEAN /\ quit \in BOOLEAN /\ signalled \in BOOLEAN
    /\ timeLeft \in 0..Drain

\* main pings no more often than it may.
PingsLeft == phase = "connecting" => tries < Pings

\* A step of main, of its clock or of the server's goroutine, or a signal.
LEMMA MainKeeps ==
    ASSUME IInv, PingsLeft, Main \/ Tick \/ Listen \/ ServerError \/ Signal, UNCHANGED req
    PROVE  MainTypes' /\ Quiet' /\ PingsLeft'
  <1> USE DEF MainTypes, Quiet, PingsLeft, Running, Exits
  <1>0. MainTypes /\ Quiet
    BY DEF IInv, TypeOK
  <1>1. CASE Ping
    BY <1>0, <1>1, GatewayAssumption DEF Ping, AfterLastPing, GatewayAssumption
  <1>2. CASE Build
    BY <1>0, <1>2 DEF Build
  <1>3. CASE Notify
    BY <1>0, <1>3 DEF Notify
  <1>4. CASE Shutdown
    BY <1>0, <1>4 DEF Shutdown
  <1>5. CASE Drained
    BY <1>0, <1>5 DEF Drained
  <1>6. CASE Expire
    BY <1>0, <1>6 DEF Expire, AfterDeadline
  <1>7. CASE CancelHealth
    BY <1>0, <1>7 DEF CancelHealth
  <1>8. CASE CloseRedis
    BY <1>0, <1>8 DEF CloseRedis
  <1>9. CASE Tick
    BY <1>0, <1>9, GatewayAssumption DEF Tick, Sooner, GatewayAssumption
  <1>10. CASE Listen
    BY <1>0, <1>10 DEF Listen
  <1>11. CASE ServerError
    BY <1>0, <1>11 DEF ServerError, Alive
  <1>12. CASE Signal
    BY <1>0, <1>12 DEF Signal, Alive
  <1> QED
    BY <1>1, <1>2, <1>3, <1>4, <1>5, <1>6, <1>7, <1>8, <1>9, <1>10, <1>11, <1>12 DEF Main

\* The initial states satisfy the invariant.
LEMMA InitKeeps == Init => IInv /\ PingsLeft
  <1> SUFFICES ASSUME Init PROVE IInv /\ PingsLeft
    OBVIOUS
  <1>1. Inside = {} /\ Uncounted = {} /\ Between = {}
    BY DEF Init, Inside, Uncounted, Between, NoRequestYet
  <1>2. Cardinality(Inside) = 0 /\ Cardinality(Uncounted) = 0 /\ Cardinality(Between) = 0
    BY <1>1, FS_EmptySet
  <1>3. Accounts
    BY <1>2 DEF Init, Accounts, GaugeIsInside, OnlyPanicsUncounted, RecordedThenCounted, Kinds
  <1>4. RingInv
    BY InitRing DEF Init
  <1>5. NoRequestYet \in [at : Stages, no : 0..MaxRequests, kind : Kinds, upstream : BOOLEAN]
    BY GatewayAssumption DEF NoRequestYet, Stages, Kinds, GatewayAssumption
  <1>6. TypeOK
    <2>1. req \in [Conns -> [at : Stages, no : 0..MaxRequests, kind : Kinds, upstream : BOOLEAN]]
      BY <1>5 DEF Init
    <2>2. total \in [Kinds -> Nat] /\ active \in Nat /\ panicked \in Nat /\ recorded \in Nat
      BY DEF Init
    <2>3. begun \in 0..MaxRequests /\ tries \in 0..Pings /\ timeLeft \in 0..Drain
      BY GatewayAssumption DEF Init, GatewayAssumption
    <2>4. /\ phase \in Running \cup Exits /\ listener \in {"none", "ready", "open", "closed"}
          /\ probing \in BOOLEAN /\ redis \in BOOLEAN /\ quit \in BOOLEAN
          /\ signalled \in BOOLEAN
      BY DEF Init, Running
    <2>5. RingTypeOK
      BY <1>4 DEF RingInv
    <2> QED
      BY <2>1, <2>2, <2>3, <2>4, <2>5 DEF TypeOK
  <1>7. Numbered /\ Quiet
    BY DEF Init, Numbered, Quiet, NoRequestYet
  <1>8. PingsLeft
    BY GatewayAssumption DEF Init, PingsLeft, GatewayAssumption
  <1> QED
    BY <1>3, <1>4, <1>6, <1>7, <1>8 DEF IInv

\* main.go and the middleware: the invariant of the process, from which the
\* theorems below follow.
THEOREM GatewayInvariant == Spec => [](IInv /\ PingsLeft)
  <1>1. IInv /\ PingsLeft /\ [Next]_vars => (IInv /\ PingsLeft)'
    <2> SUFFICES ASSUME IInv, PingsLeft, [Next]_vars PROVE IInv' /\ PingsLeft'
      OBVIOUS
    <2>1. ASSUME Main \/ Tick \/ Listen \/ ServerError \/ Signal,
                 UNCHANGED <<req, active, total, history, ringVars>>
          PROVE  IInv' /\ PingsLeft'
      <3>1. MainTypes' /\ Quiet' /\ PingsLeft'
        BY <2>1, MainKeeps
      <3>2. /\ RingInv' /\ Numbered' /\ Accounts'
            /\ req' \in [Conns -> [at : Stages, no : 0..MaxRequests, kind : Kinds,
                                    upstream : BOOLEAN]]
            /\ active' \in Nat /\ total' \in [Kinds -> Nat]
            /\ begun' \in 0..MaxRequests /\ panicked' \in Nat /\ recorded' \in Nat
        BY <2>1, PipelineUntouched
      <3>3. TypeOK'
        BY <3>1, <3>2 DEF MainTypes, TypeOK, RingInv
      <3> QED
        BY <3>1, <3>2, <3>3 DEF IInv
    <2>2. ASSUME NEW c \in Conns, Handle(c), UNCHANGED mainVars
          PROVE  IInv' /\ PingsLeft'
      <3>1. IInv'
        BY <2>2, HandleKeeps
      <3> QED
        BY <2>2, <3>1 DEF PingsLeft, mainVars
    <2>3. CASE UNCHANGED vars
      <3>1. UNCHANGED mainVars /\ UNCHANGED <<req, active, total, history, ringVars>>
        BY <2>3 DEF vars
      <3>2. /\ RingInv' /\ Numbered' /\ Accounts'
            /\ req' \in [Conns -> [at : Stages, no : 0..MaxRequests, kind : Kinds,
                                    upstream : BOOLEAN]]
            /\ active' \in Nat /\ total' \in [Kinds -> Nat]
            /\ begun' \in 0..MaxRequests /\ panicked' \in Nat /\ recorded' \in Nat
        BY <3>1, PipelineUntouched
      <3>3. Quiet' /\ PingsLeft'
        BY <3>1 DEF IInv, Quiet, PingsLeft, mainVars
      <3>4. TypeOK'
        BY <3>1, <3>2 DEF IInv, TypeOK, RingInv, mainVars
      <3> QED
        BY <3>2, <3>3, <3>4 DEF IInv
    <2> QED
      BY <2>1, <2>2, <2>3 DEF Next
  <1> QED
    BY InitKeeps, <1>1, PTL DEF Spec

\* metrics.go:19-20: the gauge of active requests is exact at every moment and
\* does not drift, however requests overlap, are refused or panic.
THEOREM GaugeIsExact == Spec => []GaugeIsInside
  BY GatewayInvariant, PTL DEF IInv, Accounts

\* metrics.go:22-34: the counter misses no request but those inside and those
\* that panicked.
THEOREM NoRequestIsMissed == Spec => []OnlyPanicsUncounted
  BY GatewayInvariant, PTL DEF IInv, Accounts

\* telemetry.go:24-45: the log is never behind the counter.
THEOREM LogLeadsCounter == Spec => []RecordedThenCounted
  BY GatewayInvariant, PTL DEF IInv, Accounts

\* main.go:28,37,65-73: whatever main closes, it closes after the last request.
THEOREM ClosedAfterDrain == Spec => []DrainedBeforeClose
  <1>1. IInv => DrainedBeforeClose
    BY DEF IInv, Quiet, DrainedBeforeClose, Inside
  <1> QED
    BY <1>1, GatewayInvariant, PTL

\* Inside the process the ring stays what RecentRequests proves of it alone.
THEOREM RingInGateway == Spec => []WrittenBehindNext
  BY GatewayInvariant, PTL DEF IInv, RingInv

-----------------------------------------------------------------------------
(* The log inside the process. *)

\* Whatever the process does is a step of the ring, or leaves it alone: what is
\* recorded is a request that has entered, and what is asked for is a limit.
LEMMA StepsOfRing == IInv /\ [Next]_vars => [RingNext]_ringVars
  <1> SUFFICES ASSUME IInv, Next PROVE [RingNext]_ringVars
    BY DEF vars
  <1>1. ASSUME NEW c \in Conns, Answer(c) PROVE [RingNext]_ringVars
    BY <1>1 DEF Answer, RingNext
  <1>2. ASSUME NEW c \in Conns, Record(c) PROVE [RingNext]_ringVars
    <2>1. CASE IsRecorded(req[c])
      <3> DEFINE e == [no |-> req[c].no, upstream |-> req[c].upstream]
      <3>1. req[c].at = "answered" /\ req[c] \in RequestStates
        BY <1>2, Typed DEF Record, Move
      <3>2. req[c].no \in 1..MaxRequests /\ req[c].upstream \in BOOLEAN
        BY <3>1 DEF IInv, Numbered, RequestStates
      <3>3. e \in Requests
        BY <3>2, GatewayAssumption DEF GatewayAssumption
      <3>4. Add(e)
        BY <1>2, <2>1 DEF Record
      <3> HIDE DEF e
      <3> QED
        BY <3>3, <3>4 DEF RingNext
    <2>2. CASE ~IsRecorded(req[c])
      BY <1>2, <2>2 DEF Record
    <2> QED
      BY <2>1, <2>2
  <1>3. ASSUME NEW c \in Conns,
               \/ Accept(c) \/ Drop(c) \/ Enter(c) \/ Pass(c) \/ Refuse(c)
               \/ Panic(c) \/ Count(c) \/ Leave(c)
        PROVE  UNCHANGED ringVars
    BY <1>3 DEF Accept, Drop, Enter, Pass, Refuse, Panic, Count, Leave
  <1> QED
    BY <1>1, <1>2, <1>3 DEF Next, Handle

\* The process runs the ring as RecentRequests specifies it ...
THEOREM GatewayRunsRing == Spec => RingSpec
  <1>1. Init => RingInit
    BY DEF Init
  <1> QED
    BY <1>1, StepsOfRing, GatewayInvariant, PTL DEF Spec, RingSpec

\* middleware/telemetry.go:24-45 and telemetry/recent.go:25-74: ... and so, whatever
\* requests overlap in the pipeline, the log is the bounded newest-first list.
THEOREM GatewayKeepsLog == Spec => ImplementsLog
  BY GatewayRunsRing, RingImplementsLog, PTL

==============================================================================
