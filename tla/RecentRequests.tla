---------------------------- MODULE RecentRequests ----------------------------
(***************************************************************************)
(* The ring buffer of internal/telemetry.  Add and Snapshot hold r.mu from *)
(* their first to their last statement, so each is one step; what is hard  *)
(* is the arithmetic of the two indices across the wrap-around.            *)
(***************************************************************************)
EXTENDS Integers, Sequences

CONSTANTS
    Capacity,  \* the argument of NewRecentRequests
    Requests,  \* the requests that can be recorded
    Limits,    \* the limits readers pass to Snapshot
    NoRequest  \* the zero Request of a slot not yet written

\* len(r.buf)
Size == IF Capacity < 1 THEN 1 ELSE Capacity

ASSUME RecentAssumption ==
    /\ Capacity \in Int
    /\ Limits \subseteq Int
    /\ NoRequest \notin Requests

Slots == 0..Size-1

VARIABLES
    buf,     \* slot -> request
    next,    \* the slot the next request is written to
    count,   \* the number of slots written
    answer   \* what the last Snapshot returned

ringVars == <<buf, next, count, answer>>

RingInit ==
    /\ buf = [s \in Slots |-> NoRequest]
    /\ next = 0
    /\ count = 0
    /\ answer = << >>

AfterSlot(s) == (s + 1) % Size
Grow(n) == IF n < Size THEN n + 1 ELSE n

Add(e) ==
    /\ buf' = [buf EXCEPT ![next] = e]
    /\ next' = AfterSlot(next)
    /\ count' = Grow(count)
    /\ UNCHANGED answer

\* The slot read in the k-th round of Snapshot's loop, k = 1, 2, ...: idx starts
\* at next - 1, goes down by one a round, and is set to the last slot when it
\* has fallen below zero, which happens at most once in the count rounds made.
SlotBack(k) == IF next - k < 0 THEN next - k + Size ELSE next - k

\* Mutant: a limit beyond the written slots is honoured.
RoundsUnclamped(limit) ==
    IF limit <= 0 THEN count ELSE IF limit > Size THEN Size ELSE limit

\* The rounds made: the limit clamped to what there is.
Rounds(limit) == IF limit <= 0 \/ limit > count THEN count ELSE limit

SnapshotOf(limit) == [k \in 1..Rounds(limit) |-> buf[SlotBack(k)]]

Snapshot(limit) ==
    /\ answer' = SnapshotOf(limit)
    /\ UNCHANGED <<buf, next, count>>

RingNext == (\E e \in Requests : Add(e)) \/ (\E limit \in Limits : Snapshot(limit))

RingSpec == RingInit /\ [][RingNext]_ringVars

-----------------------------------------------------------------------------
\* The fields of the ring have their types.
RingTypeOK ==
    /\ buf \in [Slots -> Requests \cup {NoRequest}]
    /\ next \in Slots
    /\ count \in 0..Size
    /\ answer \in Seq(Requests \cup {NoRequest})

\* The written slots are the count ones before next: until the ring has wrapped
\* once next has not, and no snapshot reaches a slot that was never written.
WrittenBehindNext ==
    /\ count < Size => next = count
    /\ \A k \in 1..count : buf[SlotBack(k)] \in Requests

\* The ring is a bounded list, newest first: adding pushes on its front and
\* drops what falls off its end, and a snapshot is its head.
Log == INSTANCE RecentLog WITH
    Bound <- Size, log <- [k \in 1..count |-> buf[SlotBack(k)]]

ImplementsLog == Log!Spec

==============================================================================
