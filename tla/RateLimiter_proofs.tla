-------------------------- MODULE RateLimiter_proofs --------------------------
(***************************************************************************)
(* Proofs about RateLimiter, for every limit, window, clock resolution,    *)
(* number of retries and set of overlapping requests.                      *)
(***************************************************************************)
EXTENDS RateLimiter, FiniteSets, FiniteSetTheorems, WellFoundedInduction, TLAPS

\* A window lasts at least a second, and at least one tick.
LEMMA ExpiryPositive == Expiry \in Nat \ {0} /\ WindowSeconds \in Nat \ {0}
  <1>1. CASE Window < Second
    BY <1>1, LimiterAssumption
       DEF LimiterAssumption, Expiry, WindowSeconds
  <1>2. CASE ~(Window < Second)
    <2>1. Window \in Nat /\ Window >= Second /\ Second \in Nat \ {0}
      BY <1>2, LimiterAssumption DEF LimiterAssumption
    <2>2. WindowSeconds = Window \div Second
      BY <1>2 DEF WindowSeconds
    <2>3. Window \div Second \in Nat \ {0}
      BY <2>1, Z3
    <2>4. (Window \div Second) * Second \in Nat \ {0}
      BY <2>1, <2>3, Z3
    <2> QED
      BY <2>2, <2>3, <2>4 DEF Expiry
  <1> QED
    BY <1>1, <1>2

\* The seconds Redis reports of a time to live are a natural number.
LEMMA TTLType == ASSUME NEW t \in Nat PROVE TTL(t) \in Nat
  <1>1. Second \in Nat \ {0}
    BY LimiterAssumption DEF LimiterAssumption
  <1>2. Second \div 2 \in Nat
    BY <1>1
  <1> DEFINE n == t + Second \div 2
  <1>3. n \in Nat
    BY <1>2
  <1> HIDE DEF n
  <1>4. n \div Second \in Nat
    BY <1>1, <1>3
  <1> QED
    BY <1>4 DEF TTL, n

-----------------------------------------------------------------------------
(* The inductive invariant. *)

\* What a reply on its way says of the window: seconds for what was left then.
RepliesTrue ==
    \A r \in Requests :
        call[r].at = "replied" => /\ call[r].left > 0
                                  /\ call[r].ttl = TTL(call[r].left)

LInv == TypeOK /\ WindowAccounted /\ RepliesTrue

\* The values the call of a request can have.
Calls == [at : Phases, tries : 0..Retries,
          count : 0..MaxCount, ttl : Nat, left : 0..Expiry]

\* A handler that does not wait for Redis has a well-typed record.
LEMMA RestingType ==
    ASSUME NEW phase \in Phases
    PROVE  Resting(phase) \in Calls /\ Resting(phase).at = phase
  BY LimiterAssumption, ExpiryPositive
     DEF LimiterAssumption, Resting, Calls

\* No key, and nobody calling.
LEMMA InitLimiter == Init => LInv
  <1> SUFFICES ASSUME Init PROVE LInv
    OBVIOUS
  <1>1. "idle" \in Phases
    BY DEF Phases
  <1>2. TypeOK
    BY <1>1, RestingType, LimiterAssumption, ExpiryPositive
       DEF LimiterAssumption, Init, TypeOK, Calls, Ages
  <1>3. WindowAccounted
    BY LimiterAssumption DEF LimiterAssumption, Init, WindowAccounted, Quota
  <1>4. RepliesTrue
    BY <1>1, RestingType DEF Init, RepliesTrue
  <1> QED
    BY <1>2, <1>3, <1>4 DEF LInv

\* The script keeps the key's fields well typed and its window accounted for,
\* and leaves the key alive.
LEMMA ScriptKeeps ==
    ASSUME TypeOK, WindowAccounted, RunScript
    PROVE  /\ count' \in 0..MaxCount /\ ttl' \in 0..Expiry /\ ttl' > 0
           /\ granted' \in Nat /\ grants' \in [Ages -> Nat] /\ restarts' \in Nat
           /\ WindowAccounted'
  <1>1. /\ count \in 0..MaxCount /\ ttl \in 0..Expiry /\ granted \in Nat
        /\ grants \in [Ages -> Nat] /\ restarts \in Nat
    BY DEF TypeOK
  <1>2. count' = IF count < MaxCount THEN count + 1 ELSE count
    BY DEF RunScript, Incr
  <1>3. /\ Limit \in Int /\ MaxCount \in Nat /\ MaxCount > Limit /\ MaxCount > 1
        /\ Expiry \in Nat \ {0}
    BY LimiterAssumption, ExpiryPositive DEF LimiterAssumption
  <1>4. count' \in 1..MaxCount /\ (count' = 1 <=> count = 0)
    BY <1>1, <1>2, <1>3
  <1>5. ttl' = IF count' = 1 THEN Expiry ELSE ttl
    BY DEF RunScript, Expire
  <1>6. ttl' \in 1..Expiry
    BY <1>1, <1>3, <1>4, <1>5 DEF WindowAccounted
  <1>7. granted' = IF count' <= Limit THEN granted + 1 ELSE granted
    BY DEF RunScript, Allowed
  <1>8. granted' \in Nat
    BY <1>1, <1>7
  <1>9. grants' \in [Ages -> Nat]
    <2>1. 0 \in Ages
      BY <1>3 DEF Ages
    <2>2. grants' = [grants EXCEPT ![0] = grants[0] + 1] \/ grants' = grants
      BY DEF RunScript
    <2> QED
      BY <1>1, <2>1, <2>2
  <1>10. granted' = IF count' < Quota THEN count' ELSE Quota
    BY <1>1, <1>2, <1>3, <1>4, <1>7 DEF WindowAccounted, Quota
  <1>11. WindowAccounted'
    <2>1. Quota' = Quota
      BY DEF Quota
    <2> QED
      BY <1>4, <1>6, <1>10, <2>1 DEF WindowAccounted
  <1> QED
    BY <1>1, <1>3, <1>4, <1>6, <1>8, <1>9, <1>11 DEF RunScript

\* A step that moves one handler, and touches the key at most by the script.
LEMMA CallMoves ==
    ASSUME LInv, NEW r \in Requests, NEW c \in Calls,
           call' = [call EXCEPT ![r] = c],
           c.at = "replied" => c.left > 0 /\ c.ttl = TTL(c.left),
           strays' \in Nat,
           UNCHANGED redis \/ RunScript
    PROVE  LInv'
  <1>1. /\ count' \in 0..MaxCount /\ ttl' \in 0..Expiry
        /\ granted' \in Nat /\ grants' \in [Ages -> Nat] /\ restarts' \in Nat
        /\ WindowAccounted'
    <2>1. CASE RunScript
      BY <2>1, ScriptKeeps DEF LInv
    <2>2. CASE UNCHANGED redis
      BY <2>2 DEF redis, LInv, TypeOK, WindowAccounted
    <2> QED
      BY <2>1, <2>2
  <1>2. call \in [Requests -> Calls]
    BY DEF LInv, TypeOK, Calls
  <1>3. call' \in [Requests -> Calls]
    BY <1>2
  <1>4. TypeOK'
    BY <1>1, <1>3 DEF TypeOK, Calls
  <1>5. RepliesTrue'
    <2> SUFFICES ASSUME NEW q \in Requests, call'[q].at = "replied"
                 PROVE  call'[q].left > 0 /\ call'[q].ttl = TTL(call'[q].left)
      BY DEF RepliesTrue, TTL
    <2>1. CASE q = r
      BY <1>2, <2>1
    <2>2. CASE q # r
      <3>1. call'[q] = call[q]
        BY <1>2, <2>2
      <3> QED
        BY <3>1 DEF LInv, RepliesTrue
    <2> QED
      BY <2>1, <2>2
  <1> QED
    BY <1>1, <1>4, <1>5 DEF LInv

-----------------------------------------------------------------------------
(* The steps. *)

\* A handler comes to rest: a request arrives, is passed on, or is refused.
LEMMA RestingStep ==
    ASSUME LInv, NEW r \in Requests, NEW phase \in Phases \ {"replied"},
           call' = [call EXCEPT ![r] = Resting(phase)],
           UNCHANGED <<redis, strays>>
    PROVE  LInv'
  <1>1. Resting(phase) \in Calls /\ Resting(phase).at # "replied"
    BY RestingType
  <1>2. strays' \in Nat
    BY DEF LInv, TypeOK
  <1> HIDE DEF LInv
  <1> QED
    BY <1>1, <1>2, CallMoves

\* Redis runs the script for a handler.
LEMMA ExecuteStep ==
    ASSUME LInv, NEW r \in Requests, Execute(r)
    PROVE  LInv'
  <1> DEFINE c == [at |-> "replied", tries |-> call[r].tries,
                   count |-> count', ttl |-> TTL(ttl'), left |-> ttl']
  <1>1. RunScript /\ call' = [call EXCEPT ![r] = c] /\ strays' = strays
    BY DEF Execute
  <1>2. count' \in 0..MaxCount /\ ttl' \in 0..Expiry /\ ttl' > 0
    BY <1>1, ScriptKeeps DEF LInv
  <1>3. TTL(ttl') \in Nat
    BY <1>2, TTLType, ExpiryPositive
  <1>4. call[r] \in Calls
    BY DEF LInv, TypeOK, Calls
  <1>5. c \in Calls
    <2>1. call[r].tries \in 0..Retries
      BY <1>4 DEF Calls
    <2> QED
      BY <1>2, <1>3, <2>1 DEF Calls, Phases
  <1>6. c.left > 0 /\ c.ttl = TTL(c.left)
    BY <1>2
  <1>7. strays' \in Nat
    BY <1>1 DEF LInv, TypeOK
  <1> HIDE DEF c, LInv
  <1> QED
    BY <1>1, <1>5, <1>6, <1>7, CallMoves

\* An attempt fails, and is repeated or given up.
LEMMA FailStep ==
    ASSUME LInv, NEW r \in Requests, Fail(r)
    PROVE  LInv'
  <1> DEFINE again == [Resting("calling") EXCEPT !.tries = CountAttempt(call[r].tries)]
             gone == Resting("through")
  <1>1. /\ UNCHANGED redis
        /\ (MayRetry(call[r]) /\ call' = [call EXCEPT ![r] = again])
             \/ call' = [call EXCEPT ![r] = gone]
    BY DEF Fail
  <1>2. strays' \in Nat
    BY DEF Fail, LInv, TypeOK
  <1>3. "calling" \in Phases /\ "through" \in Phases
    BY DEF Phases
  <1>4. call[r] \in Calls
    BY DEF LInv, TypeOK, Calls
  <1>5. ASSUME MayRetry(call[r])
        PROVE  again \in Calls /\ again.at # "replied"
    <2>1. CountAttempt(call[r].tries) \in 0..Retries
      BY <1>4, <1>5, LimiterAssumption
         DEF LimiterAssumption, MayRetry, CountAttempt, Calls
    <2>2. Resting("calling") \in Calls /\ Resting("calling").at = "calling"
      BY <1>3, RestingType
    <2> QED
      BY <2>1, <2>2 DEF Calls
  <1>6. gone \in Calls /\ gone.at # "replied"
    BY <1>3, RestingType
  <1> HIDE DEF again, gone, LInv
  <1>7. CASE MayRetry(call[r]) /\ call' = [call EXCEPT ![r] = again]
    BY <1>1, <1>2, <1>5, <1>7, CallMoves
  <1>8. CASE call' = [call EXCEPT ![r] = gone]
    BY <1>1, <1>2, <1>6, <1>8, CallMoves
  <1> QED
    BY <1>1, <1>7, <1>8

\* A script runs whose caller has given up.
LEMMA StrayStep ==
    ASSUME LInv, ExecuteStray
    PROVE  LInv'
  <1>1. TypeOK'
    BY ScriptKeeps DEF ExecuteStray, LInv, TypeOK
  <1>2. RepliesTrue'
    BY DEF ExecuteStray, LInv, RepliesTrue, TTL
  <1> QED
    BY <1>1, <1>2, ScriptKeeps DEF ExecuteStray, LInv

\* The key dies: Redis loses it, or its time is over.  Or a tick of its time
\* passes.
LEMMA KeyStep ==
    ASSUME LInv, Restart \/ Tick
    PROVE  LInv'
  <1>1. /\ count \in 0..MaxCount /\ ttl \in 0..Expiry /\ granted \in Nat
        /\ restarts \in Nat /\ grants \in [Ages -> Nat]
        /\ MaxCount \in Nat /\ Expiry \in Nat
    BY LimiterAssumption, ExpiryPositive DEF LimiterAssumption, LInv, TypeOK
  <1>2. grants' \in [Ages -> Nat]
    <2>1. CASE Restart
      BY <1>1, <2>1 DEF Restart
    <2>2. CASE Tick
      <3>1. \A a \in Ages : a # 0 => a - 1 \in Ages
        BY <1>1 DEF Ages
      <3> QED
        BY <1>1, <2>2, <3>1 DEF Tick
    <2> QED
      BY <2>1, <2>2
  <1>3. /\ count' \in 0..MaxCount /\ ttl' \in 0..Expiry /\ granted' \in Nat
        /\ restarts' \in Nat
    BY <1>1 DEF Restart, Tick
  <1>4. call' = call /\ strays' = strays
    BY DEF Restart, Tick
  <1>5. TypeOK'
    BY <1>2, <1>3, <1>4 DEF LInv, TypeOK
  <1>6. WindowAccounted'
    BY <1>1, LimiterAssumption
       DEF LimiterAssumption, Restart, Tick, LInv, WindowAccounted, Quota
  <1>7. RepliesTrue'
    BY <1>4 DEF LInv, RepliesTrue, TTL
  <1> QED
    BY <1>5, <1>6, <1>7 DEF LInv

\* LInv is inductive.
THEOREM LimiterInvariant == Spec => []LInv
  <1>1. LInv /\ [Next]_vars => LInv'
    <2> SUFFICES ASSUME LInv, [Next]_vars PROVE LInv'
      OBVIOUS
    <2>1. ASSUME NEW r \in Requests, Call(r) \/ Pass(r) \/ Refuse(r)
          PROVE  LInv'
      <3>1. PICK phase \in Phases \ {"replied"} :
                call' = [call EXCEPT ![r] = Resting(phase)]
        BY <2>1 DEF Call, Pass, Refuse, Phases
      <3>2. UNCHANGED <<redis, strays>>
        BY <2>1 DEF Call, Pass, Refuse
      <3> QED
        BY <3>1, <3>2, RestingStep
    <2>2. ASSUME NEW r \in Requests, Execute(r) PROVE LInv'
      BY <2>2, ExecuteStep
    <2>3. ASSUME NEW r \in Requests, Fail(r) PROVE LInv'
      BY <2>3, FailStep
    <2>4. CASE ExecuteStray
      BY <2>4, StrayStep
    <2>5. CASE Restart \/ Tick
      BY <2>5, KeyStep
    <2>6. CASE UNCHANGED vars
      BY <2>6 DEF vars, LInv, TypeOK, WindowAccounted, RepliesTrue, TTL, Quota
    <2> QED
      BY <2>1, <2>2, <2>3, <2>4, <2>5, <2>6 DEF Next, Handle
  <1> QED
    BY InitLimiter, <1>1, PTL DEF Spec

\* The fields of the limiter have their types.
THEOREM LimiterTypeCorrect == Spec => []TypeOK
  BY LimiterInvariant, PTL DEF LInv

\* ratelimit.go:15-18, 62-64: a key always has an expiry, and its window grants
\* exactly the first Limit of what it counts, whatever is lost, repeated or late.
THEOREM WindowIsAccounted == Spec => []WindowAccounted
  BY LimiterInvariant, PTL DEF LInv

-----------------------------------------------------------------------------
(***************************************************************************)
(* Sums.  The fold of a function is itself a function, on the subsets of   *)
(* the index set, defined by recursion; what it computes is shown by       *)
(* looking at the least number for which the claim fails.                  *)
(***************************************************************************)

\* Sets of numbers have a least element.
LEMMA Least ==
    ASSUME NEW T \in SUBSET Nat, T # {}
    PROVE  \E n \in T : \A m \in T : n <= m
  <1> DEFINE R == OpToRel(<, Nat)
  <1>1. IsWellFoundedOn(R, Nat)
    BY NatLessThanWellFounded
  <1>2. \A m, n \in Nat : m < n => <<m, n>> \in R
    BY DEF OpToRel
  <1> HIDE DEF R
  <1>3. PICK n \in T : \A m \in T : ~(<<m, n>> \in R)
    BY <1>1, WFMin
  <1>4. \A m \in T : ~(m < n)
    BY <1>2, <1>3
  <1>5. \A m \in T : m \in Nat /\ n \in Nat
    OBVIOUS
  <1> QED
    BY <1>3, <1>4, <1>5

\* The element of s a fold takes first.
First(s) == CHOOSE x \in s : TRUE

\* h sums g over the sets in Domain.
Sums(h, g, Domain) ==
    \A s \in Domain : h[s] = IF s = {} THEN 0 ELSE g[First(s)] + h[s \ {First(s)}]

\* The sums of g over the subsets of D.
SumOf(g, D) ==
    CHOOSE h : h = [s \in SUBSET D |-> IF s = {} THEN 0 ELSE g[First(s)] + h[s \ {First(s)}]]

\* It is one of them.
LEMMA FirstIn == \A s : s # {} => First(s) \in s
  BY DEF First

\* A fold is such a sum.
LEMMA FoldIsSum ==
    ASSUME NEW g, NEW D
    PROVE  FoldFunctionOnSet(+, 0, g, D) = SumOf(g, D)[D]
  BY DEF FoldFunctionOnSet, MapThenFoldSet, SumOf, First

\* The subsets of D of at most n elements.
UpTo(n, D) == {s \in SUBSET D : Cardinality(s) <= n}

\* A finite set without one of its elements.
LEMMA OneLess ==
    ASSUME NEW D, IsFiniteSet(D), NEW s \in SUBSET D, NEW x \in s
    PROVE  /\ IsFiniteSet(s) /\ Cardinality(s) \in Nat
           /\ s \ {x} \in SUBSET D
           /\ Cardinality(s \ {x}) \in Nat
           /\ Cardinality(s \ {x}) = Cardinality(s) - 1
  <1>1. IsFiniteSet(s)
    BY FS_Subset
  <1>2. IsFiniteSet(s \ {x}) /\ Cardinality(s \ {x}) = Cardinality(s) - 1
    BY <1>1, FS_RemoveElement
  <1> QED
    BY <1>1, <1>2, FS_CardinalityType

\* The sums exist, for sets of any size.
LEMMA SumsExist ==
    ASSUME NEW D, IsFiniteSet(D), NEW g \in [D -> Nat], NEW n \in Nat
    PROVE  \E h \in [UpTo(n, D) -> Nat] : Sums(h, g, UpTo(n, D))
  <1> DEFINE Has(m) == \E h \in [UpTo(m, D) -> Nat] : Sums(h, g, UpTo(m, D))
             T == {m \in Nat : ~Has(m)}
  <1>1. Has(0)
    <2>1. \A s \in UpTo(0, D) : s = {}
      <3> TAKE s \in UpTo(0, D)
      <3>1. s \in SUBSET D /\ Cardinality(s) <= 0
        BY DEF UpTo
      <3>2. IsFiniteSet(s)
        BY <3>1, FS_Subset
      <3>3. Cardinality(s) \in Nat
        BY <3>2, FS_CardinalityType
      <3>4. Cardinality(s) = 0
        BY <3>1, <3>3
      <3> QED
        BY <3>2, <3>4, FS_EmptySet
    <2> DEFINE h == [s \in UpTo(0, D) |-> 0]
    <2>2. h \in [UpTo(0, D) -> Nat] /\ Sums(h, g, UpTo(0, D))
      BY <2>1 DEF Sums
    <2> QED
      BY <2>2
  <1>2. ASSUME NEW m \in Nat, Has(m)
        PROVE  Has(m + 1)
    <2> DEFINE A == UpTo(m, D)
               B == UpTo(m + 1, D)
    <2>1. PICK h \in [A -> Nat] : Sums(h, g, A)
      BY <1>2
    <2>2. \A s \in B : s # {} => First(s) \in D /\ s \ {First(s)} \in A
      <3> SUFFICES ASSUME NEW s \in B, s # {}
                   PROVE  First(s) \in D /\ s \ {First(s)} \in A
        OBVIOUS
      <3>1. s \in SUBSET D /\ Cardinality(s) <= m + 1 /\ First(s) \in s
        BY FirstIn DEF UpTo
      <3>2. /\ Cardinality(s) \in Nat /\ s \ {First(s)} \in SUBSET D
            /\ Cardinality(s \ {First(s)}) = Cardinality(s) - 1
        BY <3>1, OneLess
      <3> QED
        BY <3>1, <3>2 DEF UpTo
    <2> DEFINE k == [s \in B |-> IF s = {} THEN 0 ELSE g[First(s)] + h[s \ {First(s)}]]
    <2>3. A \subseteq B
      <3> SUFFICES ASSUME NEW s \in A PROVE s \in B
        OBVIOUS
      <3>1. IsFiniteSet(s) /\ s \in SUBSET D /\ Cardinality(s) <= m
        BY FS_Subset DEF UpTo
      <3>2. Cardinality(s) \in Nat
        BY <3>1, FS_CardinalityType
      <3> QED
        BY <3>1, <3>2 DEF UpTo
    <2> HIDE DEF A, B
    <2>4. k \in [B -> Nat]
      <3>1. ASSUME NEW s \in B
            PROVE  (IF s = {} THEN 0 ELSE g[First(s)] + h[s \ {First(s)}]) \in Nat
        BY <2>2, <3>1
      <3> QED
        BY <3>1
    <2>5. \A s \in A : k[s] = h[s]
      BY <2>1, <2>3 DEF Sums
    <2>6. Sums(k, g, B)
      <3> SUFFICES ASSUME NEW s \in B
                   PROVE  k[s] = IF s = {} THEN 0 ELSE g[First(s)] + k[s \ {First(s)}]
        BY DEF Sums
      <3>1. s # {} => k[s \ {First(s)}] = h[s \ {First(s)}]
        BY <2>2, <2>5
      <3> QED
        BY <3>1
    <2> HIDE DEF k
    <2> QED
      BY <2>4, <2>6 DEF B
  <1> HIDE DEF Has
  <1>3. T = {}
    <2> SUFFICES ASSUME T # {} PROVE FALSE
      OBVIOUS
    <2>1. PICK m \in T : \A k \in T : m <= k
      BY Least
    <2>2. m \in Nat /\ ~Has(m) /\ m # 0
      BY <1>1, <2>1
    <2>3. m - 1 \in Nat /\ m - 1 \notin T /\ (m - 1) + 1 = m
      BY <2>1, <2>2
    <2>4. Has(m - 1)
      BY <2>3
    <2> QED
      BY <1>2, <2>2, <2>3, <2>4
  <1>4. Has(n)
    BY <1>3
  <1> QED
    BY <1>4 DEF Has

\* The sums are numbers, and are what they should be.
LEMMA SumFacts ==
    ASSUME NEW D, IsFiniteSet(D), NEW g \in [D -> Nat]
    PROVE  SumOf(g, D) \in [SUBSET D -> Nat] /\ Sums(SumOf(g, D), g, SUBSET D)
  <1>1. Cardinality(D) \in Nat
    BY FS_CardinalityType
  <1>2. UpTo(Cardinality(D), D) = SUBSET D
    BY FS_Subset DEF UpTo
  <1>3. PICK h \in [SUBSET D -> Nat] : Sums(h, g, SUBSET D)
    <2> DEFINE U == UpTo(Cardinality(D), D)
    <2>1. \E h \in [U -> Nat] : Sums(h, g, U)
      BY <1>1, SumsExist
    <2> HIDE DEF U
    <2>2. U = SUBSET D
      BY <1>2 DEF U
    <2> QED
      BY <2>1, <2>2
  <1>4. h = [s \in SUBSET D |-> IF s = {} THEN 0 ELSE g[First(s)] + h[s \ {First(s)}]]
    BY <1>3 DEF Sums
  <1> DEFINE H == SumOf(g, D)
  <1>5. H = [s \in SUBSET D |-> IF s = {} THEN 0 ELSE g[First(s)] + H[s \ {First(s)}]]
    BY <1>4 DEF SumOf
  <1> HIDE DEF H
  <1>6. DOMAIN H = SUBSET D /\ Sums(H, g, SUBSET D)
    BY <1>5 DEF Sums
  <1> DEFINE T == {m \in Nat : \E s \in SUBSET D : Cardinality(s) = m /\ H[s] \notin Nat}
  <1>7. T = {}
    <2> SUFFICES ASSUME T # {} PROVE FALSE
      OBVIOUS
    <2>1. PICK m \in T : \A k \in T : m <= k
      BY Least
    <2>2. PICK s \in SUBSET D : Cardinality(s) = m /\ H[s] \notin Nat
      BY <2>1
    <2>3. s # {} /\ First(s) \in s /\ H[s] = g[First(s)] + H[s \ {First(s)}]
      BY <1>6, <2>2, FirstIn DEF Sums
    <2> DEFINE r == s \ {First(s)}
    <2>4. r \in SUBSET D /\ Cardinality(r) \in Nat /\ Cardinality(r) = m - 1 /\ m \in Nat
      BY <2>2, <2>3, OneLess
    <2> HIDE DEF r
    <2>5. Cardinality(r) \notin T
      <3> HIDE DEF T
      <3> QED
        BY <2>1, <2>4
    <2>6. H[r] \in Nat
      BY <2>4, <2>5
    <2>7. g[First(s)] \in Nat
      BY <2>2, <2>3
    <2> QED
      BY <2>2, <2>3, <2>6, <2>7 DEF r
  <1>8. \A s \in SUBSET D : H[s] \in Nat
    <2> SUFFICES ASSUME NEW s \in SUBSET D PROVE H[s] \in Nat
      OBVIOUS
    <2>1. Cardinality(s) \in Nat
      BY FS_Subset, FS_CardinalityType
    <2> QED
      BY <1>7, <2>1
  <1>9. H = [s \in SUBSET D |-> H[s]]
    BY <1>5
  <1>10. H \in [SUBSET D -> Nat]
    BY <1>8, <1>9
  <1> QED
    BY <1>6, <1>10 DEF H

\* The sum does not depend on which element is taken first.
LEMMA SumSplits ==
    ASSUME NEW D, IsFiniteSet(D), NEW g \in [D -> Nat]
    PROVE  \A s \in SUBSET D : \A x \in s :
              SumOf(g, D)[s] = g[x] + SumOf(g, D)[s \ {x}]
  <1> DEFINE H == SumOf(g, D)
             Splits(s, x) == H[s] = g[x] + H[s \ {x}]
             T == {m \in Nat : \E s \in SUBSET D : \E x \in s :
                                  Cardinality(s) = m /\ ~Splits(s, x)}
  <1>1. H \in [SUBSET D -> Nat] /\ Sums(H, g, SUBSET D)
    BY SumFacts
  <1> HIDE DEF H
  <1>2. T = {}
    <2> SUFFICES ASSUME T # {} PROVE FALSE
      OBVIOUS
    <2>1. PICK m \in T : \A k \in T : m <= k
      BY Least
    <2>13. PICK s \in SUBSET D : \E x \in s : Cardinality(s) = m /\ ~Splits(s, x)
      BY <2>1
    <2>2. PICK x \in s : Cardinality(s) = m /\ ~Splits(s, x)
      BY <2>13
    <2> DEFINE c == First(s)
    <2>3. c \in s /\ H[s] = g[c] + H[s \ {c}]
      BY <1>1, <2>2, FirstIn DEF Sums
    <2> HIDE DEF c
    <2>4. c # x
      BY <2>2, <2>3
    <2>5. /\ s \ {c} \in SUBSET D /\ Cardinality(s \ {c}) = m - 1
          /\ s \ {x} \in SUBSET D /\ Cardinality(s \ {x}) = m - 1
          /\ m \in Nat /\ m - 1 \in Nat
      BY <2>2, <2>3, OneLess
    <2>6. m - 1 \notin T
      <3> HIDE DEF T
      <3> QED
        BY <2>1, <2>5
    <2>7. Splits(s \ {c}, x) /\ Splits(s \ {x}, c)
      <3>1. x \in s \ {c} /\ c \in s \ {x}
        BY <2>3, <2>4
      <3> HIDE DEF Splits
      <3> QED
        BY <2>5, <2>6, <3>1
    <2>8. (s \ {c}) \ {x} = (s \ {x}) \ {c}
      OBVIOUS
    <2> DEFINE r == (s \ {x}) \ {c}
    <2>9. r \in SUBSET D
      OBVIOUS
    <2>10. H[s \ {c}] = g[x] + H[r] /\ H[s \ {x}] = g[c] + H[r]
      BY <2>7, <2>8
    <2> HIDE DEF r
    <2>11. H[r] \in Nat /\ g[x] \in Nat /\ g[c] \in Nat
      BY <1>1, <2>3, <2>9
    <2>12. H[s] = g[x] + H[s \ {x}]
      BY <2>3, <2>10, <2>11
    <2> QED
      BY <2>2, <2>12
  <1>3. ASSUME NEW s \in SUBSET D, NEW x \in s
        PROVE  Splits(s, x)
    <2>1. Cardinality(s) \in Nat
      BY FS_Subset, FS_CardinalityType
    <2> HIDE DEF Splits
    <2> QED
      BY <1>2, <2>1
  <1> QED
    BY <1>3 DEF H

-----------------------------------------------------------------------------
(* Grants by age. *)

\* The grants of the n youngest ages.
SumTo(g, n) == SumOf(g, Ages)[0..(n-1)]

\* There are finitely many ages, and each is younger than the window is long.
LEMMA AgesFinite == IsFiniteSet(Ages) /\ \A n \in 0..Expiry : 0..(n-1) \in SUBSET Ages
  <1>1. Expiry \in Nat
    BY ExpiryPositive
  <1> QED
    BY <1>1, FS_Interval DEF Ages

\* They add up, by age, to the grants of a window's time.
LEMMA SumToFacts ==
    ASSUME NEW g \in [Ages -> Nat]
    PROVE  /\ SumTo(g, 0) = 0
           /\ \A n \in 0..Expiry : SumTo(g, n) \in Nat
           /\ \A n \in 0..Expiry-1 : SumTo(g, n + 1) = SumTo(g, n) + g[n]
           /\ FoldFunction(+, 0, g) = SumTo(g, Expiry)
  <1> DEFINE H == SumOf(g, Ages)
  <1>1. /\ H \in [SUBSET Ages -> Nat] /\ Sums(H, g, SUBSET Ages)
        /\ \A s \in SUBSET Ages : \A x \in s : H[s] = g[x] + H[s \ {x}]
    BY AgesFinite, SumFacts, SumSplits
  <1>2. Expiry \in Nat
    BY ExpiryPositive
  <1>3. \A n : SumTo(g, n) = H[0..(n-1)]
    BY DEF SumTo
  <1>4. FoldFunction(+, 0, g) = FoldFunctionOnSet(+, 0, g, DOMAIN g)
    BY DEF FoldFunction
  <1>5. FoldFunctionOnSet(+, 0, g, DOMAIN g) = H[Ages]
    <2>1. DOMAIN g = Ages
      OBVIOUS
    <2> QED
      BY <2>1, FoldIsSum
  <1> HIDE DEF H
  <1>6. SumTo(g, 0) = 0
    <2>1. 0..0-1 = {}
      OBVIOUS
    <2> QED
      BY <1>1, <1>3, <2>1 DEF Sums
  <1>7. \A n \in 0..Expiry : SumTo(g, n) \in Nat
    BY <1>1, <1>3, AgesFinite
  <1>8. ASSUME NEW n \in 0..Expiry-1
        PROVE  SumTo(g, n + 1) = SumTo(g, n) + g[n]
    <2>1. n + 1 \in 0..Expiry /\ n \in 0..Expiry /\ n \in Ages
      BY <1>2 DEF Ages
    <2>2. 0..((n+1)-1) \in SUBSET Ages /\ n \in 0..((n+1)-1) /\ (0..((n+1)-1)) \ {n} = 0..(n-1)
      BY <1>2, <2>1, AgesFinite
    <2>3. H[0..((n+1)-1)] = g[n] + H[0..(n-1)]
      BY <1>1, <2>2
    <2>4. SumTo(g, n) \in Nat /\ g[n] \in Nat
      BY <1>7, <2>1
    <2> QED
      BY <1>3, <2>3, <2>4
  <1>9. SumTo(g, Expiry) = H[Ages]
    BY <1>3 DEF Ages
  <1> QED
    BY <1>4, <1>5, <1>6, <1>7, <1>8, <1>9

\* Nothing adds up to nothing.
LEMMA NoGrants ==
    ASSUME NEW g \in [Ages -> Nat], \A a \in Ages : g[a] = 0
    PROVE  SumTo(g, Expiry) = 0
  <1> DEFINE T == {n \in Nat : n \in 0..Expiry /\ SumTo(g, n) # 0}
  <1>1. Expiry \in Nat
    BY ExpiryPositive
  <1>2. /\ SumTo(g, 0) = 0
        /\ \A n \in 0..Expiry-1 : SumTo(g, n + 1) = SumTo(g, n) + g[n]
    BY SumToFacts
  <1>3. T = {}
    <2> SUFFICES ASSUME T # {} PROVE FALSE
      OBVIOUS
    <2>1. PICK n \in T : \A k \in T : n <= k
      BY Least
    <2>2. n \in 0..Expiry /\ n # 0
      BY <1>2, <2>1
    <2>3. n - 1 \in Nat /\ n - 1 \in 0..Expiry-1 /\ n - 1 \in 0..Expiry /\ (n - 1) + 1 = n
      BY <1>1, <2>2
    <2>4. n - 1 \notin T
      <3>1. n \in Nat
        OBVIOUS
      <3> HIDE DEF T
      <3> QED
        BY <2>1, <2>3, <3>1
    <2>5. SumTo(g, n - 1) = 0 /\ SumTo(g, n) = SumTo(g, n - 1) + g[n - 1]
      BY <1>2, <2>3, <2>4
    <2>6. g[n - 1] = 0
      BY <1>1, <2>3 DEF Ages
    <2> QED
      BY <2>1, <2>5, <2>6
  <1>4. Expiry \in 0..Expiry
    BY <1>1
  <1> QED
    BY <1>1, <1>3, <1>4

\* One more grant now is one more of every age.
LEMMA GrantAdds ==
    ASSUME NEW g \in [Ages -> Nat], NEW h \in [Ages -> Nat], h = [g EXCEPT ![0] = g[0] + 1]
    PROVE  \A n \in 1..Expiry : SumTo(h, n) = SumTo(g, n) + 1
  <1> DEFINE T == {n \in Nat : n \in 1..Expiry /\ SumTo(h, n) # SumTo(g, n) + 1}
  <1>1. Expiry \in Nat \ {0}
    BY ExpiryPositive
  <1>2. /\ SumTo(g, 0) = 0 /\ SumTo(h, 0) = 0
        /\ \A n \in 0..Expiry : SumTo(g, n) \in Nat /\ SumTo(h, n) \in Nat
        /\ \A n \in 0..Expiry-1 : SumTo(g, n + 1) = SumTo(g, n) + g[n]
        /\ \A n \in 0..Expiry-1 : SumTo(h, n + 1) = SumTo(h, n) + h[n]
    BY SumToFacts
  <1>3. T = {}
    <2> SUFFICES ASSUME T # {} PROVE FALSE
      OBVIOUS
    <2>1. PICK n \in T : \A k \in T : n <= k
      BY Least
    <2>2. n \in 1..Expiry /\ n - 1 \in 0..Expiry-1 /\ (n - 1) + 1 = n /\ n - 1 \in Nat
      BY <1>1, <2>1
    <2>3. n - 1 \notin T
      <3> HIDE DEF T
      <3> QED
        BY <2>1, <2>2
    <2>4. n - 1 \in Ages
      BY <1>1, <2>2 DEF Ages
    <2>5. /\ SumTo(g, n) = SumTo(g, n - 1) + g[n - 1]
          /\ SumTo(h, n) = SumTo(h, n - 1) + h[n - 1]
      BY <1>2, <2>2
    <2>6. SumTo(g, n - 1) \in Nat /\ g[n - 1] \in Nat
      BY <1>1, <1>2, <2>2, <2>4
    <2>7. CASE n = 1
      <3>1. h[0] = g[0] + 1 /\ n - 1 = 0
        BY <2>4, <2>7
      <3> QED
        BY <1>2, <2>1, <2>5, <2>6, <3>1
    <2>8. CASE n # 1
      <3>1. h[n - 1] = g[n - 1]
        BY <2>2, <2>4, <2>8
      <3>2. SumTo(h, n - 1) = SumTo(g, n - 1) + 1
        <4>1. n - 1 \in 1..Expiry /\ n - 1 \in Nat
          BY <1>1, <2>2, <2>8
        <4> QED
          BY <2>3, <4>1
      <3> QED
        BY <2>1, <2>5, <2>6, <3>1, <3>2
    <2> QED
      BY <2>7, <2>8
  <1>4. ASSUME NEW n \in 1..Expiry
        PROVE  SumTo(h, n) = SumTo(g, n) + 1
    <2>1. n \in Nat
      BY <1>1
    <2> QED
      BY <1>3, <2>1
  <1> QED
    BY <1>4

\* A tick makes every grant one tick older.
LEMMA TickShifts ==
    ASSUME NEW g \in [Ages -> Nat], NEW h \in [Ages -> Nat],
           \A a \in Ages : h[a] = IF a = 0 THEN 0 ELSE g[a - 1]
    PROVE  \A n \in 0..Expiry-1 : SumTo(h, n + 1) = SumTo(g, n)
  <1> DEFINE T == {n \in Nat : n \in 0..Expiry-1 /\ SumTo(h, n + 1) # SumTo(g, n)}
  <1>1. Expiry \in Nat \ {0}
    BY ExpiryPositive
  <1>2. /\ SumTo(g, 0) = 0 /\ SumTo(h, 0) = 0
        /\ \A n \in 0..Expiry-1 : SumTo(g, n + 1) = SumTo(g, n) + g[n]
        /\ \A n \in 0..Expiry-1 : SumTo(h, n + 1) = SumTo(h, n) + h[n]
    BY SumToFacts
  <1>3. T = {}
    <2> SUFFICES ASSUME T # {} PROVE FALSE
      OBVIOUS
    <2>1. PICK n \in T : \A k \in T : n <= k
      BY Least
    <2>2. n \in 0..Expiry-1 /\ n \in Nat /\ n \in Ages
      BY <1>1, <2>1 DEF Ages
    <2>3. SumTo(h, n + 1) = SumTo(h, n) + h[n]
      BY <1>2, <2>2
    <2>4. CASE n = 0
      <3>1. h[n] = 0
        BY <2>2, <2>4
      <3> QED
        BY <1>2, <2>1, <2>3, <2>4, <3>1
    <2>5. CASE n # 0
      <3>1. n - 1 \in Nat /\ n - 1 \in 0..Expiry-1 /\ (n - 1) + 1 = n
        BY <1>1, <2>2, <2>5
      <3>2. n - 1 \notin T
        <4> HIDE DEF T
        <4> QED
          BY <2>1, <2>2, <3>1
      <3>3. SumTo(h, (n - 1) + 1) = SumTo(g, n - 1)
        BY <3>1, <3>2
      <3>4. SumTo(g, (n - 1) + 1) = SumTo(g, n - 1) + g[n - 1]
        BY <1>2, <3>1
      <3>5. h[n] = g[n - 1]
        BY <2>2, <2>5
      <3>6. SumTo(h, n + 1) = SumTo(g, n)
        BY <2>3, <3>1, <3>3, <3>4, <3>5
      <3> QED
        BY <2>1, <3>6
    <2> QED
      BY <2>4, <2>5
  <1> QED
    BY <1>3

\* The grants younger than the window in force are its own, without the one that
\* opened it; all that are remembered are at most one window's more, short of its
\* opener, and a quota for each loss of the data, which ends a window early.
Spread ==
    /\ ttl > 0 => SumTo(grants, Expiry - ttl) + Opener <= granted
    /\ SumTo(grants, Expiry) + Opener <= granted + Quota * (1 + restarts)

\* The quotas of windows add up.
LEMMA Quotas ==
    ASSUME NEW r \in Nat
    PROVE  /\ Quota \in Nat /\ Quota * r \in Nat
           /\ Quota * (1 + r) = Quota * r + Quota
           /\ Quota * (2 + r) = Quota * (1 + r) + Quota
           /\ Quota * (1 + (1 + r)) = Quota * (1 + r) + Quota
  <1>1. Quota \in Nat
    BY LimiterAssumption DEF LimiterAssumption, Quota
  <1> QED
    BY <1>1

\* A window grants at most its quota.
LEMMA GrantedFits ==
    ASSUME LInv
    PROVE  granted <= Quota
  <1>1. count \in Nat
    BY LimiterAssumption DEF LimiterAssumption, LInv, TypeOK
  <1>2. Quota \in Nat
    BY LimiterAssumption DEF LimiterAssumption, Quota
  <1> QED
    BY <1>1, <1>2 DEF LInv, WindowAccounted

\* The opener is part of the quota.
LEMMA OpenerType == Opener \in Nat /\ Opener <= Quota
  BY LimiterAssumption DEF LimiterAssumption, Opener, Quota

\* The script grants at most one unit more, in the window in force.
LEMMA ScriptSpreads ==
    ASSUME LInv, Spread, RunScript
    PROVE  Spread'
  <1>1. /\ ttl \in 0..Expiry /\ granted \in Nat /\ restarts \in Nat /\ count \in Nat
        /\ grants \in [Ages -> Nat] /\ Expiry \in Nat \ {0}
        /\ restarts' = restarts
    BY ExpiryPositive, LimiterAssumption DEF LimiterAssumption, LInv, TypeOK, RunScript
  <1>2. ttl' \in 0..Expiry /\ ttl' > 0 /\ grants' \in [Ages -> Nat] /\ granted' \in Nat
    BY ScriptKeeps DEF LInv
  <1>3. (ttl' = Expiry /\ ttl = 0) \/ (ttl' = ttl /\ ttl > 0)
    <2>1. count' = IF count < MaxCount THEN count + 1 ELSE count
      BY DEF RunScript, Incr
    <2>2. MaxCount \in Nat /\ MaxCount > 1
      BY LimiterAssumption DEF LimiterAssumption
    <2>3. count' = 1 <=> count = 0
      BY <1>1, <2>1, <2>2
    <2>4. ttl' = IF count' = 1 THEN Expiry ELSE ttl
      BY DEF RunScript, Expire
    <2>5. (count = 0) <=> (ttl = 0)
      BY DEF LInv, WindowAccounted
    <2> QED
      BY <1>1, <2>3, <2>4, <2>5
  <1>4. (granted' = granted + 1 /\ grants' = [grants EXCEPT ![0] = grants[0] + 1])
        \/ (granted' = granted /\ grants' = grants)
    BY DEF RunScript
  <1>5. \A n \in 1..Expiry :
           SumTo(grants', n) - granted' = SumTo(grants, n) - granted
    <2>1. \A n \in 1..Expiry : SumTo(grants, n) \in Nat
      <3>1. \A n \in 0..Expiry : SumTo(grants, n) \in Nat
        BY <1>1, SumToFacts
      <3>2. \A n \in 1..Expiry : n \in 0..Expiry
        BY <1>1
      <3> QED
        BY <3>1, <3>2
    <2>2. CASE granted' = granted + 1 /\ grants' = [grants EXCEPT ![0] = grants[0] + 1]
      <3>1. \A n \in 1..Expiry : SumTo(grants', n) = SumTo(grants, n) + 1
        BY <1>1, <1>2, <2>2, GrantAdds
      <3>2. ASSUME NEW n \in 1..Expiry
            PROVE  SumTo(grants', n) - granted' = SumTo(grants, n) - granted
        <4>1. SumTo(grants', n) = SumTo(grants, n) + 1 /\ SumTo(grants, n) \in Nat
          BY <2>1, <3>1
        <4> QED
          BY <1>1, <2>2, <4>1
      <3> QED
        BY <3>2
    <2>3. CASE granted' = granted /\ grants' = grants
      BY <2>3
    <2> QED
      BY <1>4, <2>2, <2>3
  <1>6. /\ SumTo(grants', 0) = 0 /\ SumTo(grants, 0) = 0
        /\ \A n \in 0..Expiry : SumTo(grants', n) \in Nat /\ SumTo(grants, n) \in Nat
    BY <1>1, <1>2, SumToFacts
  <1> DEFINE p == Quota * (1 + restarts)
  <1>7. p \in Nat /\ Opener \in Nat
    <2>1. 1 + restarts \in Nat
      BY <1>1
    <2>2. p \in Nat
      BY <2>1, Quotas
    <2> QED
      BY <2>2, OpenerType
  <1>8. /\ ttl > 0 => SumTo(grants, Expiry - ttl) + Opener <= granted
        /\ SumTo(grants, Expiry) + Opener <= granted + p
    BY DEF Spread
  <1> HIDE DEF p
  <1>9. SumTo(grants', Expiry) + Opener <= granted' + p
    <2>1. Expiry \in 1..Expiry /\ Expiry \in 0..Expiry
      BY <1>1
    <2>2. SumTo(grants', Expiry) - granted' = SumTo(grants, Expiry) - granted
      BY <1>5, <2>1
    <2> QED
      BY <1>1, <1>2, <1>6, <1>7, <1>8, <2>1, <2>2
  <1>10. SumTo(grants', Expiry - ttl') + Opener <= granted'
    <2>1. CASE ttl' = Expiry
      <3>1. Expiry - ttl' = 0
        BY <1>1, <2>1
      <3>2. Opener <= granted'
        <4>1. WindowAccounted' /\ count' \in Nat
          BY ScriptKeeps DEF LInv
        <4>2. count' # 0 /\ granted' = IF count' < Quota THEN count' ELSE Quota
          BY <1>2, <4>1 DEF WindowAccounted, Quota
        <4>3. Quota \in Nat
          BY <1>1, Quotas
        <4> QED
          BY <4>1, <4>2, <4>3 DEF Opener
      <3> QED
        BY <1>2, <1>6, <1>7, <3>1, <3>2
    <2>2. CASE ttl' # Expiry
      <3>1. ttl' = ttl /\ ttl > 0 /\ Expiry - ttl \in 1..Expiry /\ Expiry - ttl \in 0..Expiry
        <4>1. ttl \in 0..Expiry /\ ttl' \in 0..Expiry /\ Expiry \in Nat
          BY <1>1, <1>2
        <4>2. ttl' = ttl /\ ttl > 0
          BY <1>3, <2>2
        <4> QED
          BY <2>2, <4>1, <4>2
      <3> DEFINE n == Expiry - ttl
      <3> HIDE DEF n
      <3>2. SumTo(grants', n) - granted' = SumTo(grants, n) - granted
        BY <1>5, <3>1 DEF n
      <3>3. SumTo(grants', n) \in Nat /\ SumTo(grants, n) \in Nat
        BY <1>6, <3>1 DEF n
      <3>4. SumTo(grants, n) + Opener <= granted
        BY <1>8, <3>1 DEF n
      <3>5. SumTo(grants', n) + Opener <= granted'
        BY <1>1, <1>2, <1>7, <3>2, <3>3, <3>4
      <3> QED
        BY <3>1, <3>5 DEF n
    <2> QED
      BY <2>1, <2>2
  <1>11. Quota' = Quota /\ Expiry' = Expiry /\ Opener' = Opener
    BY DEF Quota, Expiry, WindowSeconds, Opener
  <1>12. /\ SumTo(grants, Expiry)' = SumTo(grants', Expiry)
         /\ SumTo(grants, Expiry - ttl)' = SumTo(grants', Expiry - ttl')
    BY <1>11 DEF SumTo, Ages, SumOf, First
  <1> QED
    BY <1>1, <1>9, <1>10, <1>11, <1>12 DEF Spread, p

\* A tick: all grow older; what a window that ends leaves is of its quota.
LEMMA TickSpreads ==
    ASSUME LInv, Spread, Tick
    PROVE  Spread'
  <1>1. /\ ttl \in 0..Expiry /\ granted \in Nat /\ restarts \in Nat
        /\ grants \in [Ages -> Nat] /\ Expiry \in Nat \ {0}
        /\ restarts' = restarts
        /\ ttl' = IF ttl > 0 THEN ttl - 1 ELSE 0
        /\ granted' = IF ttl = 1 THEN 0 ELSE granted
    BY ExpiryPositive DEF LInv, TypeOK, Tick
  <1>2. \A a \in Ages : a # 0 => a - 1 \in Ages
    BY <1>1 DEF Ages
  <1>3. grants' = [a \in Ages |-> IF a = 0 THEN 0 ELSE grants[a - 1]]
    BY DEF Tick
  <1>4. grants' \in [Ages -> Nat]
    BY <1>1, <1>2, <1>3
  <1>5. \A n \in 0..Expiry-1 : SumTo(grants', n + 1) = SumTo(grants, n)
    <2>1. \A a \in Ages : grants'[a] = IF a = 0 THEN 0 ELSE grants[a - 1]
      BY <1>3
    <2> QED
      BY <1>1, <1>4, <2>1, TickShifts
  <1>6. \A n \in 0..Expiry : SumTo(grants, n) \in Nat
    BY <1>1, SumToFacts
  <1> DEFINE p == Quota * (1 + restarts)
  <1>7. p \in Nat /\ Quota \in Nat /\ Quota <= p /\ granted <= Quota /\ Opener \in Nat
    <2>1. granted <= Quota /\ Opener \in Nat
      BY GrantedFits, OpenerType
    <2> DEFINE q == Quota * restarts
    <2>2. /\ Quota \in Nat /\ q \in Nat /\ p = q + Quota
      BY <1>1, Quotas
    <2> HIDE DEF p, q
    <2> QED
      BY <2>1, <2>2
  <1>8. /\ ttl > 0 => SumTo(grants, Expiry - ttl) + Opener <= granted
        /\ SumTo(grants, Expiry) + Opener <= granted + p
    BY DEF Spread
  <1> HIDE DEF p
  <1>9. SumTo(grants', Expiry) = SumTo(grants, Expiry - 1)
        /\ SumTo(grants, Expiry - 1) <= SumTo(grants, Expiry)
    <2>1. Expiry - 1 \in 0..Expiry-1 /\ (Expiry - 1) + 1 = Expiry /\ Expiry - 1 \in Ages
          /\ Expiry - 1 \in 0..Expiry
      BY <1>1 DEF Ages
    <2>2. SumTo(grants', (Expiry - 1) + 1) = SumTo(grants, Expiry - 1)
      BY <1>5, <2>1
    <2>3. SumTo(grants, (Expiry - 1) + 1) = SumTo(grants, Expiry - 1) + grants[Expiry - 1]
      BY <1>1, <2>1, SumToFacts
    <2>4. grants[Expiry - 1] \in Nat /\ SumTo(grants, Expiry - 1) \in Nat
      BY <1>1, <1>6, <2>1
    <2> QED
      BY <2>1, <2>2, <2>3, <2>4
  <1>10. SumTo(grants', Expiry) + Opener <= granted' + p
    <2>1. SumTo(grants, Expiry) \in Nat /\ SumTo(grants, Expiry - 1) \in Nat
      <3>1. Expiry \in 0..Expiry /\ Expiry - 1 \in 0..Expiry
        BY <1>1
      <3> QED
        BY <1>6, <3>1
    <2>2. CASE ttl = 1
      <3>1. SumTo(grants, Expiry - 1) + Opener <= granted
        BY <1>8, <2>2
      <3> QED
        BY <1>1, <1>7, <1>9, <2>1, <2>2, <3>1
    <2>3. CASE ttl # 1
      BY <1>1, <1>7, <1>8, <1>9, <2>1, <2>3
    <2> QED
      BY <2>2, <2>3
  <1>11. ttl' > 0 => SumTo(grants', Expiry - ttl') + Opener <= granted'
    <2> SUFFICES ASSUME ttl' > 0
                 PROVE  SumTo(grants', Expiry - ttl') + Opener <= granted'
      OBVIOUS
    <2> DEFINE n == Expiry - ttl
    <2>1. ttl > 1 /\ granted' = granted /\ Expiry - ttl' = n + 1 /\ n \in 0..Expiry-1
      BY <1>1
    <2>2. SumTo(grants, n) + Opener <= granted
      BY <1>1, <1>8, <2>1
    <2> HIDE DEF n
    <2>3. SumTo(grants', n + 1) = SumTo(grants, n)
      BY <1>5, <2>1
    <2> QED
      BY <2>1, <2>2, <2>3
  <1>12. Quota' = Quota /\ Expiry' = Expiry /\ Opener' = Opener
    BY DEF Quota, Expiry, WindowSeconds, Opener
  <1>13. /\ SumTo(grants, Expiry)' = SumTo(grants', Expiry)
         /\ SumTo(grants, Expiry - ttl)' = SumTo(grants', Expiry - ttl')
    BY <1>12 DEF SumTo, Ages, SumOf, First
  <1> QED
    BY <1>1, <1>10, <1>11, <1>12, <1>13 DEF Spread, p

\* Redis loses the key: one more window may begin at once.
LEMMA RestartSpreads ==
    ASSUME LInv, Spread, Restart
    PROVE  Spread'
  <1>1. /\ granted \in Nat /\ restarts \in Nat /\ grants \in [Ages -> Nat]
        /\ Expiry \in Nat \ {0}
        /\ restarts' = restarts + 1 /\ ttl' = 0 /\ granted' = 0 /\ grants' = grants
    BY ExpiryPositive DEF LInv, TypeOK, Restart
  <1>2. SumTo(grants, Expiry) \in Nat
    <2>1. Expiry \in 0..Expiry
      BY <1>1
    <2> QED
      BY <1>1, <2>1, SumToFacts
  <1> DEFINE p == Quota * (1 + restarts)
  <1>3. p \in Nat /\ Quota \in Nat /\ granted <= Quota /\ Quota * (1 + (1 + restarts)) = p + Quota
    <2>1. granted <= Quota
      BY GrantedFits
    <2>2. restarts \in Nat /\ 1 + restarts \in Nat
      BY <1>1
    <2>3. Quota \in Nat /\ p \in Nat /\ Quota * (1 + (1 + restarts)) = p + Quota
      BY <2>2, Quotas
    <2> QED
      BY <2>1, <2>3
  <1>4. SumTo(grants, Expiry) + Opener <= granted + p /\ Opener \in Nat
    BY OpenerType DEF Spread
  <1> HIDE DEF p
  <1>5. SumTo(grants, Expiry) + Opener <= 0 + Quota * (1 + (1 + restarts))
    BY <1>1, <1>2, <1>3, <1>4
  <1>6. 1 + restarts' = 1 + (1 + restarts)
    BY <1>1
  <1>7. Quota' = Quota /\ Expiry' = Expiry /\ Opener' = Opener
    BY DEF Quota, Expiry, WindowSeconds, Opener
  <1>8. SumTo(grants, Expiry)' = SumTo(grants, Expiry)
    BY <1>1, <1>7 DEF SumTo, Ages, SumOf, First
  <1> QED
    BY <1>1, <1>5, <1>6, <1>7, <1>8 DEF Spread

\* ratelimit.go:15-18: whatever is lost, repeated or late, the script allows a client
\* less than two windows' quota in a window's time, and one quota more for each time
\* Redis lost its data.
THEOREM SlidingIsBounded == Spec => []SlidingBound
  <1>1. Init => Spread
    <2> SUFFICES ASSUME Init PROVE Spread
      OBVIOUS
    <2>1. ttl = 0 /\ granted = 0 /\ restarts = 0 /\ grants = [a \in Ages |-> 0]
      BY DEF Init
    <2>2. grants \in [Ages -> Nat] /\ \A a \in Ages : grants[a] = 0
      BY <2>1
    <2>3. SumTo(grants, Expiry) = 0
      BY <2>1, <2>2, NoGrants
    <2>4. Quota \in Nat /\ Quota * (1 + restarts) = Quota
      <3>1. Quota \in Nat /\ 1 + restarts = 1
        BY <2>1, Quotas
      <3> QED
        BY <3>1
    <2> QED
      BY <2>1, <2>3, <2>4, OpenerType DEF Spread
  <1>2. LInv /\ Spread /\ [Next]_vars => Spread'
    <2> SUFFICES ASSUME LInv, Spread, [Next]_vars PROVE Spread'
      OBVIOUS
    <2>1. CASE UNCHANGED redis
      BY <2>1 DEF redis, Spread, Quota, Opener, SumTo, SumOf, Ages, First
    <2>2. CASE RunScript
      BY <2>2, ScriptSpreads
    <2>3. Restart \/ Tick \/ RunScript \/ UNCHANGED redis
      BY DEF Next, Handle, Call, Execute, ExecuteStray, Fail, Pass, Refuse, vars, redis
    <2> QED
      BY <2>1, <2>2, <2>3, TickSpreads, RestartSpreads
  <1>3. LInv /\ Spread => SlidingBound
    <2> SUFFICES ASSUME LInv, Spread PROVE SlidingBound
      OBVIOUS
    <2>1. grants \in [Ages -> Nat] /\ granted \in Nat /\ restarts \in Nat /\ Expiry \in Nat
      BY ExpiryPositive DEF LInv, TypeOK
    <2>2. Recent = SumTo(grants, Expiry)
      BY <2>1, SumToFacts DEF Recent
    <2>3. granted <= Quota
      BY GrantedFits
    <2>4. SumTo(grants, Expiry) \in Nat
      <3>1. Expiry \in 0..Expiry
        BY <2>1
      <3> QED
        BY <2>1, <3>1, SumToFacts
    <2>5. SumTo(grants, Expiry) + Opener <= granted + Quota * (1 + restarts)
      BY DEF Spread
    <2> DEFINE p == Quota * (1 + restarts)
    <2>6. p \in Nat /\ Quota \in Nat /\ Quota * (2 + restarts) = p + Quota
      BY <2>1, Quotas
    <2> HIDE DEF p
    <2>7. SumTo(grants, Expiry) + Opener <= granted + p /\ Opener \in Nat
      BY <2>5, OpenerType DEF p
    <2>8. SumTo(grants, Expiry) + Opener <= p + Quota
      BY <2>1, <2>3, <2>4, <2>6, <2>7
    <2> QED
      BY <2>2, <2>6, <2>8 DEF SlidingBound
  <1> QED
    BY <1>1, <1>2, <1>3, InitLimiter, LimiterInvariant, PTL DEF Spec

-----------------------------------------------------------------------------
(* The Retry-After header. *)

\* What division by the ticks of a second gives.
LEMMA DivSecond ==
    ASSUME NEW n \in Nat, NEW s \in Nat \ {0}
    PROVE  /\ n \div s \in Nat
           /\ (n \div s) * s <= n
           /\ n < (n \div s) * s + s
  OBVIOUS

\* A whole number of seconds is that number of seconds.
LEMMA WholeSeconds ==
    ASSUME NEW t \in Nat, NEW s \in Nat \ {0}
    PROVE  (t * s) \div s = t
  OBVIOUS

\* The header is the reported TTL, and at least one.
LEMMA RetryAfterValue ==
    ASSUME NEW t \in Nat
    PROVE  RetryAfter(t) = IF t = 0 THEN 1 ELSE t
  <1>1. Second \in Nat \ {0}
    BY LimiterAssumption DEF LimiterAssumption
  <1>2. CASE t = 0
    BY <1>1, <1>2 DEF RetryAfter
  <1>3. CASE t # 0
    <2>1. t * Second >= Second
      BY <1>1, <1>3
    <2>2. (t * Second) \div Second = t
      BY <1>1, WholeSeconds
    <2> DEFINE wait == t * Second
    <2>3. wait \in Nat /\ wait >= Second /\ wait \div Second = t
      BY <1>1, <2>1, <2>2
    <2>4. RetryAfter(t) = IF wait < Second THEN 1 ELSE wait \div Second
      BY DEF RetryAfter
    <2> HIDE DEF wait
    <2> QED
      BY <1>1, <1>3, <2>3, <2>4
  <1> QED
    BY <1>2, <1>3

\* middleware/ratelimit.go:34-38, ratelimit.go:96-99: a refused client is told
\* to wait for the end of the window, give or take the rounding of Redis's TTL:
\* less than a second too long, at most half a second too short.
THEOREM RetryAfterIsClose == Spec => []RetryAfterClose
  <1>1. LInv => RetryAfterClose
    <2> SUFFICES ASSUME LInv, NEW r \in Requests, call[r].at = "replied"
                 PROVE  LET wait == RetryAfter(call[r].ttl) * Second
                        IN  /\ wait < call[r].left + Second
                            /\ wait + Second \div 2 >= call[r].left
      BY DEF RetryAfterClose
    <2> DEFINE left == call[r].left
               half == Second \div 2
               t == (left + half) \div Second
               wait == RetryAfter(t) * Second
    <2>1. left \in Nat /\ left > 0
      BY ExpiryPositive DEF LInv, TypeOK, RepliesTrue
    <2>2. Second \in Nat \ {0}
      BY LimiterAssumption DEF LimiterAssumption
    <2>3. half \in Nat /\ 2 * half <= Second /\ Second <= 2 * half + 1
      BY <2>2
    <2>4. call[r].ttl = t
      BY DEF LInv, RepliesTrue, TTL
    <2> HIDE DEF left, half
    <2>5. t \in Nat /\ t * Second <= left + half /\ left + half < t * Second + Second
      BY <2>1, <2>2, <2>3, DivSecond
    <2> HIDE DEF t
    <2>6. wait = IF t = 0 THEN Second ELSE t * Second
      BY <2>2, <2>5, RetryAfterValue
    <2>7. t = 0 => t * Second = 0
      BY <2>2
    <2>8. t * Second \in Nat
      BY <2>2, <2>5
    <2>9. wait < left + Second /\ wait + half >= left
      <3> DEFINE ts == t * Second
      <3>1. /\ ts \in Nat /\ ts <= left + half /\ left + half < ts + Second
            /\ t = 0 => ts = 0
            /\ wait = IF t = 0 THEN Second ELSE ts
        BY <2>5, <2>6, <2>7, <2>8
      <3> HIDE DEF ts, wait
      <3> QED
        BY <2>1, <2>2, <2>3, <3>1
    <2> QED
      BY <2>4, <2>9 DEF left, half, wait
  <1> QED
    BY <1>1, LimiterInvariant, PTL

==============================================================================
