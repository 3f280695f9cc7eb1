-------------------------- MODULE LoadBalancer_proofs --------------------------
(***************************************************************************)
(* Proofs about LoadBalancer, for every number of instances and requests:  *)
(* one scan runs at a time; a request is answered 503 only after its own   *)
(* scan has gone once around the instances, whoever moved the shared       *)
(* cursor before and whatever happens to the breakers meanwhile; an        *)
(* available instance waits for at most one turn of the cursor; and driven *)
(* by the handlers every breaker keeps its contract, a claimed probe slot  *)
(* its reporter.                                                           *)
(***************************************************************************)
EXTENDS LoadBalancer, Breaker_proofs, TLAPS

LocalsOf(S) ==
    [pc : PCs, inst : Instances, tried : 0..N, outcome : AllOutcomes, seen : S]

\* A handler's locals are a record, whatever its breaker told it.
Shaped == \E S : req \in [Requests -> LocalsOf(S)]

\* The k instances just behind the cursor c.
Behind(c, k) ==
    {i \in Instances : (i < c /\ c - i <= k) \/ (i >= c /\ c + N - i <= k)}

\* What the scan of request r has looked at: the instances the cursor has left
\* behind since the scan began, and all of them once it gives up.
Looked(r) ==
    CASE req[r].pc = "scan"   -> req[r].tried < N /\ examined[r] = Behind(next, req[r].tried)
      [] req[r].pc = "allow"  -> req[r].tried < N /\ examined[r] = Behind(next, req[r].tried + 1)
      [] req[r].pc = "reject" -> examined[r] = Instances
      [] OTHER                -> req[r].tried = 0 /\ examined[r] = {}

Looks == \A r \in Requests : Looked(r)

Located ==
    /\ next \in Instances /\ mu \in Requests \cup {Nobody}
    /\ DOMAIN examined = Requests

\* The inductive invariant.
IInv == Shaped /\ Located /\ ScanIsExclusive /\ Looks

-----------------------------------------------------------------------------
(* The cursor *)

\* The cursor goes around the instances.
LEMMA Around ==
    ASSUME NEW c \in Instances, N \in Nat \ {0}
    PROVE  /\ Advance(c) = (IF c + 1 = N THEN 0 ELSE c + 1)
           /\ Advance(c) \in Instances
  <1>1. CASE c + 1 = N
    <2>1. (c + 1) % N = 0
      BY <1>1, SMT DEF Instances
    <2> QED
      BY <1>1, <2>1 DEF Advance, Instances
  <1>2. CASE c + 1 # N
    <2>1. (c + 1) % N = c + 1
      BY <1>2, SMT DEF Instances
    <2> QED
      BY <1>2, <2>1 DEF Advance, Instances
  <1> QED
    BY <1>1, <1>2

\* One more instance behind it: the one it leaves.
LEMMA OneMore ==
    ASSUME NEW c \in Instances, NEW k \in Nat, k < N, N \in Nat \ {0}
    PROVE  Behind(Advance(c), k + 1) = Behind(c, k) \cup {c}
  <1>1. Advance(c) = (IF c + 1 = N THEN 0 ELSE c + 1)
    BY Around
  <1>2. c \in Int /\ 0 <= c /\ c < N
    BY DEF Instances
  <1>3. ASSUME NEW i \in Instances
        PROVE  i \in Behind(Advance(c), k + 1) <=> i \in Behind(c, k) \cup {c}
    <2>1. i \in Int /\ 0 <= i /\ i < N
      BY DEF Instances
    <2> QED
      BY <1>1, <1>2, <2>1 DEF Behind
  <1>4. Behind(Advance(c), k + 1) \subseteq Instances /\ Behind(c, k) \cup {c} \subseteq Instances
    BY DEF Behind
  <1> QED
    BY <1>3, <1>4

\* Nothing is behind it at first, and everything after a full round.
LEMMA FullRound ==
    ASSUME NEW c \in Instances, N \in Nat \ {0}
    PROVE  Behind(c, 0) = {} /\ Behind(c, N) = Instances
  BY DEF Behind, Instances

-----------------------------------------------------------------------------
(* The steps *)

\* A step that changes one request's locals keeps the others'.
LEMMA OthersKeep ==
    ASSUME IInv, NEW r \in Requests, next' = next, mu' = mu,
           DOMAIN examined' = Requests,
           Shaped', Looked(r)',
           \A q \in Requests \ {r} : req'[q] = req[q] /\ examined'[q] = examined[q],
           req'[r].pc \in {"scan", "allow"} <=> req[r].pc \in {"scan", "allow"}
    PROVE  IInv'
  <1>1. Looks'
    BY DEF IInv, Looks, Looked
  <1>2. ScanIsExclusive'
    BY DEF IInv, ScanIsExclusive
  <1> QED
    BY <1>1, <1>2 DEF IInv, Located

\* What a handler's locals may become.
LEMMA Shape ==
    ASSUME Shaped, NEW r \in Requests, NEW l, NEW T, l \in LocalsOf(T),
           req' = [req EXCEPT ![r] = l]
    PROVE  Shaped' /\ req'[r] = l /\ \A q \in Requests \ {r} : req'[q] = req[q]
  <1>1. PICK S : req \in [Requests -> LocalsOf(S)]
    BY DEF Shaped
  <1>2. LocalsOf(S) \subseteq LocalsOf(S \cup T) /\ LocalsOf(T) \subseteq LocalsOf(S \cup T)
    BY DEF LocalsOf
  <1>3. req' \in [Requests -> LocalsOf(S \cup T)]
    BY <1>1, <1>2
  <1> QED
    BY <1>1, <1>3 DEF Shaped

\* A handler's locals hold what they may.
LEMMA Fields ==
    ASSUME Shaped, NEW r \in Requests
    PROVE  /\ \E T : req[r] \in LocalsOf(T)
           /\ req[r].inst \in Instances /\ req[r].tried \in 0..N /\ req[r].pc \in PCs
  BY DEF Shaped, LocalsOf

\* A request arrives, and waits for the lock.
LEMMA ArriveStep ==
    ASSUME IInv, NEW r \in Requests, Arrive(r), LoadBalancerAssumption
    PROVE  IInv'
  <1>1. PICK T : req[r] \in LocalsOf(T)
    BY Fields DEF IInv
  <1> DEFINE l == [req[r] EXCEPT !.pc = "lock"]
  <1>2. l \in LocalsOf(T) /\ l.pc = "lock" /\ l.tried = req[r].tried
    BY <1>1 DEF LocalsOf, PCs
  <1>3. req' = [req EXCEPT ![r] = l]
    BY DEF Arrive
  <1> HIDE DEF l
  <1>4. Shaped' /\ req'[r] = l /\ \A q \in Requests \ {r} : req'[q] = req[q]
    BY <1>2, <1>3, Shape DEF IInv
  <1>5. examined' = examined /\ next' = next /\ mu' = mu /\ req[r].pc = "idle"
    BY DEF Arrive, history
  <1>6. Looked(r)'
    BY <1>2, <1>4, <1>5 DEF IInv, Looks, Looked
  <1> QED
    BY <1>2, <1>4, <1>5, <1>6, OthersKeep DEF IInv, Located

\* It takes the lock: nobody else is scanning.
LEMMA LockStep ==
    ASSUME IInv, NEW r \in Requests, Lock(r), LoadBalancerAssumption
    PROVE  IInv'
  <1>1. PICK T : req[r] \in LocalsOf(T)
    BY Fields DEF IInv
  <1> DEFINE l == [req[r] EXCEPT !.pc = "scan"]
  <1>2. l \in LocalsOf(T) /\ l.pc = "scan" /\ l.tried = req[r].tried
    BY <1>1 DEF LocalsOf, PCs
  <1>3. req' = [req EXCEPT ![r] = l]
    BY DEF Lock
  <1> HIDE DEF l
  <1>4. Shaped' /\ req'[r] = l /\ \A q \in Requests \ {r} : req'[q] = req[q]
    BY <1>2, <1>3, Shape DEF IInv
  <1>5. /\ examined' = examined /\ next' = next /\ mu' = r /\ req[r].pc = "lock"
        /\ mu = Nobody /\ Nobody \notin Requests
    BY DEF Lock, history, LoadBalancerAssumption
  <1>6. examined[r] = Behind(next, 0) /\ req[r].tried = 0 /\ 0 < N
    <2>1. next \in Instances /\ N \in Nat \ {0}
      BY DEF IInv, Located, LoadBalancerAssumption
    <2>2. req[r].tried = 0 /\ examined[r] = {}
      BY <1>5 DEF IInv, Looks, Looked
    <2> QED
      BY <2>1, <2>2, FullRound
  <1>7. Looks'
    BY <1>2, <1>4, <1>5, <1>6 DEF IInv, Looks, Looked
  <1>8. ScanIsExclusive'
    BY <1>2, <1>4, <1>5 DEF IInv, ScanIsExclusive
  <1> QED
    BY <1>4, <1>5, <1>7, <1>8 DEF IInv, Located

\* What an iteration that takes no instance leaves: the next one, or nil.
LEMMA SkippedShape ==
    ASSUME LoadBalancerAssumption, NEW l, l.tried \in Nat, l.tried < N
    PROVE  /\ Skipped(l) \in LocalsOf({"closed"})
           /\ l.tried + 1 < N => Skipped(l).pc = "scan" /\ Skipped(l).tried = l.tried + 1
           /\ l.tried + 1 >= N => Skipped(l).pc = "reject" /\ l.tried + 1 = N
  <1>1. l.tried + 1 \in 0..N /\ 0 \in 0..N /\ 0 \in Instances /\ N \in Nat
    BY DEF LoadBalancerAssumption, Instances
  <1>2. "scan" \in PCs /\ "reject" \in PCs /\ "success" \in AllOutcomes
    BY DEF PCs, AllOutcomes
  <1>3. CASE l.tried + 1 < N
    <2>1. Skipped(l) = [Idle EXCEPT !.pc = "scan", !.tried = l.tried + 1]
      BY <1>3 DEF Skipped
    <2>2. Skipped(l) = [pc |-> "scan", inst |-> 0, tried |-> l.tried + 1,
                        outcome |-> "success", seen |-> "closed"]
      BY <2>1 DEF Idle
    <2> HIDE DEF Skipped
    <2>3. Skipped(l) \in LocalsOf({"closed"})
      BY <1>1, <1>2, <2>2 DEF LocalsOf
    <2> QED
      BY <1>1, <1>3, <2>2, <2>3
  <1>4. CASE ~(l.tried + 1 < N)
    <2>1. Skipped(l) = [Idle EXCEPT !.pc = "reject"]
      BY <1>4 DEF Skipped
    <2>2. Skipped(l) = [pc |-> "reject", inst |-> 0, tried |-> 0,
                        outcome |-> "success", seen |-> "closed"]
      BY <2>1 DEF Idle
    <2>3. Skipped(l) \in LocalsOf({"closed"})
      BY <1>1, <1>2, <2>2 DEF LocalsOf
    <2> QED
      BY <1>1, <1>4, <2>2, <2>3
  <1> QED
    BY <1>3, <1>4

\* The scanner's step: it goes on with the lock, or lets it go.
LEMMA ScannerKeeps ==
    ASSUME IInv, NEW r \in Requests, mu = r, Release(r), Located', Looked(r)', Shaped',
           req'[r].pc \in {"scan", "allow", "forward", "reject"}, Nobody \notin Requests,
           \A q \in Requests \ {r} : req'[q] = req[q] /\ examined'[q] = examined[q]
    PROVE  IInv'
  <1>1. \A q \in Requests \ {r} : req[q].pc \notin {"scan", "allow"}
    BY DEF IInv, ScanIsExclusive
  <1>2. Looks'
    BY <1>1 DEF IInv, Looks, Looked
  <1>3. mu' = IF req'[r].pc \in {"forward", "reject"} THEN Nobody ELSE mu
    BY DEF Release
  <1>4. ScanIsExclusive'
    BY <1>1, <1>3 DEF ScanIsExclusive
  <1> QED
    BY <1>2, <1>4 DEF IInv

\* The head of an iteration: the cursor leaves the instance it looks at.
LEMMA ReadHealthyStep ==
    ASSUME IInv, NEW r \in Requests, ReadHealthy(r), LoadBalancerAssumption
    PROVE  IInv'
  <1>1. PICK T : req[r] \in LocalsOf(T)
    BY Fields DEF IInv
  <1>2. /\ req[r].pc = "scan" /\ mu = r /\ next \in Instances /\ N \in Nat \ {0}
        /\ req[r].tried \in Nat /\ req[r].tried < N
        /\ examined[r] = Behind(next, req[r].tried)
    BY <1>1 DEF ReadHealthy, IInv, ScanIsExclusive, Looks, Looked, Located, LocalsOf,
                LoadBalancerAssumption
  <1>3. /\ next' = Advance(next) /\ Release(r)
        /\ examined' = [examined EXCEPT ![r] = @ \cup {next}]
        /\ req' = [req EXCEPT ![r] = IF healthy[next]
                                     THEN [req[r] EXCEPT !.pc = "allow", !.inst = next]
                                     ELSE Skipped(req[r])]
    BY DEF ReadHealthy
  <1>4. examined'[r] = Behind(next', req[r].tried + 1)
    BY <1>2, <1>3, OneMore DEF IInv, Located
  <1>5. next' \in Instances
    BY <1>2, <1>3, Around
  <1>6. mu' \in Requests \cup {Nobody} /\ DOMAIN examined' = Requests
    BY <1>2, <1>3 DEF IInv, Located, Release
  <1>7. \A q \in Requests \ {r} : examined'[q] = examined[q]
    BY <1>3 DEF IInv, Located
  <1>8. CASE healthy[next]
    <2> DEFINE l == [req[r] EXCEPT !.pc = "allow", !.inst = next]
    <2>1. l \in LocalsOf(T) /\ l.pc = "allow" /\ l.tried = req[r].tried
      BY <1>1, <1>2 DEF LocalsOf, PCs
    <2>2. req' = [req EXCEPT ![r] = l]
      BY <1>3, <1>8
    <2> HIDE DEF l
    <2>3. Shaped' /\ req'[r] = l /\ \A q \in Requests \ {r} : req'[q] = req[q]
      BY <2>1, <2>2, Shape DEF IInv
    <2>4. Looked(r)'
      BY <1>2, <1>4, <2>1, <2>3 DEF Looked
    <2> QED
      BY <1>2, <1>3, <1>5, <1>6, <1>7, <2>1, <2>3, <2>4, ScannerKeeps
         DEF Located, LoadBalancerAssumption
  <1>9. CASE ~healthy[next]
    <2> DEFINE l == Skipped(req[r])
    <2>1. /\ l \in LocalsOf({"closed"})
          /\ req[r].tried + 1 < N => l.pc = "scan" /\ l.tried = req[r].tried + 1
          /\ req[r].tried + 1 >= N => l.pc = "reject" /\ req[r].tried + 1 = N
      BY <1>2, SkippedShape
    <2>2. req' = [req EXCEPT ![r] = l]
      BY <1>3, <1>9
    <2> HIDE DEF l
    <2>3. Shaped' /\ req'[r] = l /\ \A q \in Requests \ {r} : req'[q] = req[q]
      BY <2>1, <2>2, Shape DEF IInv
    <2>4. Looked(r)'
      <3>1. CASE req[r].tried + 1 < N
        BY <1>4, <2>1, <2>3, <3>1 DEF Looked
      <3>2. CASE req[r].tried + 1 >= N
        <4>1. examined'[r] = Instances /\ req'[r].pc = "reject"
          BY <1>2, <1>4, <1>5, <2>1, <2>3, <3>2, FullRound
        <4> QED
          BY <4>1 DEF Looked
      <3> QED
        BY <1>2, <3>1, <3>2
    <2>5. req'[r].pc \in {"scan", "reject"}
      BY <1>2, <2>1, <2>3
    <2> QED
      BY <1>2, <1>3, <1>5, <1>6, <1>7, <2>3, <2>4, <2>5, ScannerKeeps
         DEF Located, LoadBalancerAssumption
  <1> QED
    BY <1>8, <1>9

\* The rest of it: the instance is taken, or passed over.
LEMMA TryAllowStep ==
    ASSUME IInv, NEW r \in Requests, TryAllow(r), LoadBalancerAssumption
    PROVE  IInv'
  <1> DEFINE ok == Allows(breaker[req[r].inst])
  <1>1. PICK T : req[r] \in LocalsOf(T)
    BY Fields DEF IInv
  <1>2. /\ req[r].pc = "allow" /\ mu = r /\ next \in Instances /\ N \in Nat \ {0}
        /\ req[r].tried \in Nat /\ req[r].tried < N
        /\ examined[r] = Behind(next, req[r].tried + 1)
    BY <1>1 DEF TryAllow, IInv, ScanIsExclusive, Looks, Looked, Located, LocalsOf,
                LoadBalancerAssumption
  <1>3. /\ next' = next /\ Release(r)
        /\ examined' = [examined EXCEPT ![r] = IF ok THEN {} ELSE @]
        /\ req' = [req EXCEPT ![r] = IF ok THEN [req[r] EXCEPT !.pc = "forward", !.tried = 0]
                                           ELSE Skipped(req[r])]
    BY DEF TryAllow
  <1> HIDE DEF ok
  <1>6. Located'
    BY <1>2, <1>3 DEF IInv, Located, Release
  <1>7. \A q \in Requests \ {r} : examined'[q] = examined[q]
    BY <1>3 DEF IInv, Located
  <1>8. CASE ok
    <2> DEFINE l == [req[r] EXCEPT !.pc = "forward", !.tried = 0]
    <2>1. l \in LocalsOf(T) /\ l.pc = "forward" /\ l.tried = 0
      <3>1. 0 \in 0..N /\ "forward" \in PCs
        BY <1>2 DEF PCs
      <3> QED
        BY <1>1, <3>1 DEF LocalsOf
    <2>2. req' = [req EXCEPT ![r] = l]
      BY <1>3, <1>8
    <2> HIDE DEF l
    <2>3. Shaped' /\ req'[r] = l /\ \A q \in Requests \ {r} : req'[q] = req[q]
      BY <2>1, <2>2, Shape DEF IInv
    <2>4. examined'[r] = {}
      BY <1>3, <1>8 DEF IInv, Located
    <2>5. Looked(r)'
      BY <2>1, <2>3, <2>4 DEF Looked
    <2> QED
      BY <1>2, <1>3, <1>6, <1>7, <2>1, <2>3, <2>5, ScannerKeeps DEF LoadBalancerAssumption
  <1>9. CASE ~ok
    <2> DEFINE l == Skipped(req[r])
    <2>1. /\ l \in LocalsOf({"closed"})
          /\ req[r].tried + 1 < N => l.pc = "scan" /\ l.tried = req[r].tried + 1
          /\ req[r].tried + 1 >= N => l.pc = "reject" /\ req[r].tried + 1 = N
      BY <1>2, SkippedShape
    <2>2. req' = [req EXCEPT ![r] = l]
      BY <1>3, <1>9
    <2> HIDE DEF l
    <2>3. Shaped' /\ req'[r] = l /\ \A q \in Requests \ {r} : req'[q] = req[q]
      BY <2>1, <2>2, Shape DEF IInv
    <2>4. examined'[r] = Behind(next, req[r].tried + 1)
      BY <1>2, <1>3, <1>9 DEF IInv, Located
    <2>5. Looked(r)'
      <3>1. CASE req[r].tried + 1 < N
        BY <1>3, <2>1, <2>3, <2>4, <3>1 DEF Looked
      <3>2. CASE req[r].tried + 1 >= N
        <4>1. examined'[r] = Instances /\ req'[r].pc = "reject"
          BY <1>2, <2>1, <2>3, <2>4, <3>2, FullRound
        <4> QED
          BY <4>1 DEF Looked
      <3> QED
        BY <1>2, <3>1, <3>2
    <2>6. req'[r].pc \in {"scan", "reject"}
      BY <1>2, <2>1, <2>3
    <2> QED
      BY <1>2, <1>3, <1>6, <1>7, <2>3, <2>5, <2>6, ScannerKeeps DEF LoadBalancerAssumption
  <1> QED
    BY <1>8, <1>9

\* The handler after the scan: it looks at nothing any more.
LEMMA HandleStep ==
    ASSUME IInv, NEW r \in Requests, Handle(r), LoadBalancerAssumption
    PROVE  IInv'
  <1>1. PICK T : req[r] \in LocalsOf(T)
    BY Fields DEF IInv
  <1>2. /\ req[r].pc \in {"reject", "forward", "record", "observe", "publish"}
        /\ next' = next /\ mu' = mu
        /\ examined' = [examined EXCEPT ![r] = {}] \/ (req[r].pc # "reject" /\ examined' = examined)
    BY DEF Handle, Reject, BadAddress, Respond, Abort, Record, Observe, Publish, history
  <1>3. examined'[r] = {} /\ \A q \in Requests \ {r} : examined'[q] = examined[q]
    BY <1>2 DEF IInv, Located, Looks, Looked
  <1>4. DOMAIN examined' = Requests
    BY <1>2 DEF IInv, Located
  <1>5. req[r].pc # "reject" => req[r].tried = 0
    BY <1>2 DEF IInv, Looks, Looked
  <1>6. \E l, U : /\ l \in LocalsOf(U) /\ req' = [req EXCEPT ![r] = l]
                  /\ l.tried = 0 /\ l.pc \in {"idle", "record", "observe", "publish"}
    <2>1. /\ 0 \in 0..N /\ 0 \in Instances
          /\ {"idle", "record", "observe", "publish"} \subseteq PCs
          /\ "success" \in AllOutcomes
      BY DEF LoadBalancerAssumption, Instances, PCs, AllOutcomes
    <2>2. Idle \in LocalsOf({"closed"}) /\ Idle.tried = 0 /\ Idle.pc = "idle"
      BY <2>1 DEF Idle, LocalsOf
    <2>3. CASE Reject(r) \/ BadAddress(r) \/ Abort(r) \/ Publish(r)
      <3>1. req' = [req EXCEPT ![r] = Idle]
        BY <2>3 DEF Reject, BadAddress, Abort, Publish
      <3> QED
        BY <2>2, <3>1
    <2>4. CASE Respond(r)
      <3>1. PICK o \in AllOutcomes : req' = [req EXCEPT ![r].pc = "record", ![r].outcome = o]
        BY <2>4 DEF Respond, LoadBalancerAssumption
      <3>2. req' = [req EXCEPT ![r] = [req[r] EXCEPT !.pc = "record", !.outcome = o]]
        BY <3>1 DEF IInv, Shaped
      <3>3. [req[r] EXCEPT !.pc = "record", !.outcome = o] \in LocalsOf(T)
        BY <1>1, <2>1, <3>1 DEF LocalsOf
      <3>4. /\ [req[r] EXCEPT !.pc = "record", !.outcome = o].tried = 0
            /\ [req[r] EXCEPT !.pc = "record", !.outcome = o].pc = "record"
        BY <1>1, <1>5, <2>4 DEF LocalsOf, Respond
      <3> QED
        BY <3>2, <3>3, <3>4
    <2>5. CASE Record(r)
      <3>1. req' = [req EXCEPT ![r] = [Idle EXCEPT !.pc = "observe", !.inst = req[r].inst]]
        BY <2>5 DEF Record
      <3>2. PICK j \in Instances : j = req[r].inst
        BY <1>1 DEF LocalsOf
      <3>3. [Idle EXCEPT !.pc = "observe", !.inst = j] \in LocalsOf({"closed"})
        BY <2>1, <2>2 DEF LocalsOf
      <3>4. /\ [Idle EXCEPT !.pc = "observe", !.inst = j].tried = 0
            /\ [Idle EXCEPT !.pc = "observe", !.inst = j].pc = "observe"
        BY <2>2 DEF LocalsOf
      <3> QED
        BY <3>1, <3>2, <3>3, <3>4
    <2>6. CASE Observe(r)
      <3>1. PICK v : req' = [req EXCEPT ![r].pc = "publish", ![r].seen = v]
        BY <2>6 DEF Observe
      <3>2. req' = [req EXCEPT ![r] = [req[r] EXCEPT !.pc = "publish", !.seen = v]]
        BY <3>1 DEF IInv, Shaped
      <3>3. [req[r] EXCEPT !.pc = "publish", !.seen = v] \in LocalsOf({v})
        BY <1>1, <2>1 DEF LocalsOf
      <3>4. /\ [req[r] EXCEPT !.pc = "publish", !.seen = v].tried = 0
            /\ [req[r] EXCEPT !.pc = "publish", !.seen = v].pc = "publish"
        BY <1>1, <1>5, <2>6 DEF LocalsOf, Observe
      <3> QED
        BY <3>2, <3>3, <3>4
    <2> QED
      BY <2>3, <2>4, <2>5, <2>6 DEF Handle
  <1>7. PICK l, U : /\ l \in LocalsOf(U) /\ req' = [req EXCEPT ![r] = l]
                    /\ l.tried = 0 /\ l.pc \in {"idle", "record", "observe", "publish"}
    BY <1>6
  <1>8. Shaped' /\ req'[r] = l /\ \A q \in Requests \ {r} : req'[q] = req[q]
    BY <1>7, Shape DEF IInv
  <1>9. Looked(r)'
    BY <1>3, <1>7, <1>8 DEF Looked
  <1>10. req'[r].pc \notin {"scan", "allow"} /\ req[r].pc \notin {"scan", "allow"}
    BY <1>2, <1>7, <1>8
  <1> QED
    BY <1>2, <1>3, <1>4, <1>8, <1>9, <1>10, OthersKeep

-----------------------------------------------------------------------------
(* The theorems *)

\* Probes, polls and the clock touch no handler's locals.
LEMMA AroundStep ==
    ASSUME IInv, UNCHANGED <<next, mu, req, examined>>
    PROVE  IInv'
  BY DEF IInv, Shaped, Located, ScanIsExclusive, Looks, Looked

LEMMA EveryStep ==
    ASSUME IInv, [Next]_vars, LoadBalancerAssumption
    PROVE  IInv'
  <1>1. CASE \E r \in Requests : Arrive(r) \/ Scan(r) \/ Handle(r)
    BY <1>1, ArriveStep, LockStep, ReadHealthyStep, TryAllowStep, HandleStep DEF Scan
  <1>2. CASE \E i \in Instances : PollState(i) \/ \E up \in BOOLEAN : SetHealthy(i, up)
    BY <1>2, AroundStep DEF PollState, SetHealthy
  <1>3. CASE Tick \/ UNCHANGED vars
    BY <1>3, AroundStep DEF Tick, vars
  <1> QED
    BY <1>1, <1>2, <1>3 DEF Next

\* The inductive invariant holds.
THEOREM BalancerInvariant == Spec => []IInv
  <1> USE LoadBalancerAssumption
  <1>1. Init => IInv
    <2> SUFFICES ASSUME Init
                 PROVE  IInv
      OBVIOUS
    <2>1. 0 \in 0..N /\ 0 \in Instances /\ "idle" \in PCs /\ "success" \in AllOutcomes
      BY DEF LoadBalancerAssumption, Instances, PCs, AllOutcomes
    <2>2. Idle \in LocalsOf({"closed"}) /\ Idle.tried = 0 /\ Idle.pc = "idle"
      BY <2>1 DEF Idle, LocalsOf
    <2>3. \A r \in Requests : req[r] = Idle /\ examined[r] = {}
      BY DEF Init
    <2>4. Shaped
      BY <2>2 DEF Init, Shaped
    <2>5. Located
      BY <2>1 DEF Init, Located
    <2>6. ScanIsExclusive
      BY <2>2, <2>3 DEF Init, ScanIsExclusive, LoadBalancerAssumption
    <2>7. Looks
      BY <2>2, <2>3 DEF Looks, Looked
    <2> QED
      BY <2>4, <2>5, <2>6, <2>7 DEF IInv
  <1>2. IInv /\ [Next]_vars => IInv'
    BY EveryStep
  <1> QED
    BY <1>1, <1>2, PTL DEF Spec

\* registry.go:116-124: a request is answered 503 only after its own scan has looked
\* at every instance.
THEOREM FullScans == Spec => []RejectsOnlyAfterFullScan
  <1>1. IInv => RejectsOnlyAfterFullScan
    BY DEF IInv, Looks, Looked, RejectsOnlyAfterFullScan
  <1> QED
    BY <1>1, BalancerInvariant, PTL

\* registry.go:108-109: requests scan one at a time, each under the lock.
THEOREM ScansExclude == Spec => []ScanIsExclusive
  <1>1. IInv => ScanIsExclusive
    BY DEF IInv
  <1> QED
    BY <1>1, BalancerInvariant, PTL

-----------------------------------------------------------------------------
(* What the handlers do to one instance's breaker. *)

\* Every breaker is one its methods leave, and a report is only on its way to
\* an instance whose address can be used.
Kept ==
    /\ breaker \in [Instances -> Breakers]
    /\ \A i \in Instances : Sound(breaker[i])
    /\ \A r \in Requests : req[r].pc = "record" => req[r].inst \notin BadAddrs

\* A request joins those in flight on i through Allow, ...
Enters(i) ==
    /\ Allows(breaker[i]) /\ breaker'[i] = AfterAllow(breaker[i])
    /\ \E r \in Requests \ InFlight(i) : InFlight(i)' = InFlight(i) \cup {r}

\* ... leaves them with a report, ...
Reports(i) ==
    /\ i \notin BadAddrs
    /\ breaker'[i] \in {AfterSuccess(breaker[i]), AfterFailure(breaker[i])}
    /\ \E r \in InFlight(i) : InFlight(i)' = InFlight(i) \ {r}

\* ... or without one,
Vanishes(i) ==
    /\ i \in BadAddrs \/ "abort" \in Outcomes
    /\ breaker'[i] = breaker[i]
    /\ \E r \in InFlight(i) : InFlight(i)' = InFlight(i) \ {r}

\* and otherwise the breaker is asked for its state, aged, or left alone.
Rests(i) ==
    /\ breaker'[i] \in {breaker[i], maybeTransitionToHalfOpen(breaker[i]), AfterTick(breaker[i])}
    /\ InFlight(i)' = InFlight(i)

Driven(i) == Enters(i) \/ Reports(i) \/ Vanishes(i) \/ Rests(i)

\* Locals that are in flight on i.
On(l, i) == l.inst = i /\ l.pc \in {"forward", "record"}

\* Who is in flight after one handler's locals have changed.
LEMMA Flights ==
    ASSUME Shaped, NEW r \in Requests, NEW l, req' = [req EXCEPT ![r] = l], NEW i
    PROVE  /\ r \in InFlight(i) <=> On(req[r], i)
           /\ On(l, i) => InFlight(i)' = InFlight(i) \cup {r}
           /\ ~On(l, i) => InFlight(i)' = InFlight(i) \ {r}
           /\ (On(l, i) <=> On(req[r], i)) => InFlight(i)' = InFlight(i)
  <1>1. /\ req'[r] = l
        /\ \A q \in Requests \ {r} : req'[q] = req[q]
    BY DEF Shaped
  <1>2. InFlight(i) = {q \in Requests : On(req[q], i)} /\ InFlight(i)' = {q \in Requests : On(req'[q], i)}
    BY DEF InFlight, On
  <1> HIDE DEF InFlight
  <1> QED
    BY <1>1, <1>2

\* A step that neither touches a breaker nor moves a request in or out.
LEMMA Apart ==
    ASSUME Shaped, breaker' = breaker, NEW r \in Requests, NEW l,
           req' = [req EXCEPT ![r] = l], NEW i \in Instances,
           (On(l, i) <=> On(req[r], i))
    PROVE  Driven(i)
  BY Flights DEF Driven, Rests

\* A scan admits through Allow only.
LEMMA TryAllowDrives ==
    ASSUME IInv, Kept, NEW r \in Requests, TryAllow(r), LoadBalancerAssumption,
           NEW i \in Instances
    PROVE  Driven(i)
  <1> DEFINE j == req[r].inst
             ok == Allows(breaker[j])
             l == IF ok THEN [req[r] EXCEPT !.pc = "forward", !.tried = 0]
                        ELSE Skipped(req[r])
  <1>1. PICK T : req[r] \in LocalsOf(T)
    BY Fields DEF IInv
  <1>2. /\ breaker' = [breaker EXCEPT ![j] = AfterAllow(breaker[j])]
        /\ req' = [req EXCEPT ![r] = l]
        /\ req[r].pc = "allow" /\ j \in Instances
        /\ req[r].tried \in Nat /\ req[r].tried < N
    BY <1>1 DEF TryAllow, LocalsOf, IInv, Looks, Looked
  <1>3. ~On(req[r], i)
    BY <1>2 DEF On
  <1>4. CASE ok
    <2>1. l.inst = j /\ l.pc = "forward"
      BY <1>1, <1>4 DEF LocalsOf
    <2>2. CASE i = j
      <3>1. On(l, i)
        BY <2>1, <2>2 DEF On
      <3>2. InFlight(i)' = InFlight(i) \cup {r} /\ r \in Requests \ InFlight(i)
        BY <1>2, <1>3, <3>1, Flights DEF IInv
      <3>3. breaker'[i] = AfterAllow(breaker[i])
        BY <1>2, <2>2 DEF Kept
      <3> QED
        BY <1>4, <2>2, <3>2, <3>3 DEF Driven, Enters
    <2>3. CASE i # j
      <3>1. ~On(l, i)
        BY <2>1, <2>3 DEF On
      <3>2. InFlight(i)' = InFlight(i)
        BY <1>2, <1>3, <3>1, Flights DEF IInv
      <3>3. breaker'[i] = breaker[i]
        BY <1>2, <2>3 DEF Kept
      <3> QED
        BY <3>2, <3>3 DEF Driven, Rests
    <2> QED
      BY <2>2, <2>3
  <1>5. CASE ~ok
    <2>1. ~On(l, i)
      BY <1>2, <1>5, SkippedShape DEF On
    <2>2. InFlight(i)' = InFlight(i)
      BY <1>2, <1>3, <2>1, Flights DEF IInv
    <2>3. AfterAllow(breaker[j]) = breaker[j]
      BY <1>2, <1>5, AllowFields DEF Kept
    <2>4. breaker'[i] = breaker[i]
      BY <1>2, <2>3 DEF Kept
    <2> QED
      BY <2>2, <2>4 DEF Driven, Rests
  <1> QED
    BY <1>4, <1>5

\* The head of an iteration, and the moves outside the scan.
LEMMA ScanDrives ==
    ASSUME IInv, Kept, NEW r \in Requests, Arrive(r) \/ Lock(r) \/ ReadHealthy(r),
           LoadBalancerAssumption, NEW i \in Instances
    PROVE  Driven(i)
  <1>1. PICK T : req[r] \in LocalsOf(T)
    BY Fields DEF IInv
  <1>2. req[r].pc \in {"idle", "lock", "scan"} /\ breaker' = breaker
    BY DEF Arrive, Lock, ReadHealthy
  <1>3. ~On(req[r], i)
    BY <1>2 DEF On
  <1>4. PICK l : req' = [req EXCEPT ![r] = l] /\ l.pc \in {"lock", "scan", "allow", "reject"}
    <2>1. CASE Arrive(r)
      <3>1. req' = [req EXCEPT ![r] = [req[r] EXCEPT !.pc = "lock"]]
        BY <2>1 DEF Arrive
      <3>2. [req[r] EXCEPT !.pc = "lock"].pc = "lock"
        BY <1>1 DEF LocalsOf
      <3> QED
        BY <3>1, <3>2
    <2>2. CASE Lock(r)
      <3>1. req' = [req EXCEPT ![r] = [req[r] EXCEPT !.pc = "scan"]]
        BY <2>2 DEF Lock
      <3>2. [req[r] EXCEPT !.pc = "scan"].pc = "scan"
        BY <1>1 DEF LocalsOf
      <3> QED
        BY <3>1, <3>2
    <2>3. CASE ReadHealthy(r)
      <3>1. req' = [req EXCEPT ![r] = IF healthy[next]
                                      THEN [req[r] EXCEPT !.pc = "allow", !.inst = next]
                                      ELSE Skipped(req[r])]
        BY <2>3 DEF ReadHealthy
      <3>2. [req[r] EXCEPT !.pc = "allow", !.inst = next].pc = "allow"
        BY <1>1 DEF LocalsOf
      <3>3. req[r].tried \in Nat /\ req[r].tried < N
        BY <1>1, <2>3 DEF ReadHealthy, LocalsOf, IInv, Looks, Looked
      <3>4. Skipped(req[r]).pc \in {"scan", "reject"}
        BY <3>3, SkippedShape DEF LoadBalancerAssumption
      <3> QED
        BY <3>1, <3>2, <3>4
    <2> QED
      BY <2>1, <2>2, <2>3
  <1>5. ~On(l, i)
    BY <1>4 DEF On
  <1> QED
    BY <1>2, <1>3, <1>4, <1>5, Apart DEF IInv

\* The rest of the handler.
LEMMA HandleDrives ==
    ASSUME IInv, Kept, NEW r \in Requests, Handle(r), LoadBalancerAssumption,
           NEW i \in Instances
    PROVE  Driven(i)
  <1> DEFINE j == req[r].inst
  <1>1. PICK T : req[r] \in LocalsOf(T)
    BY Fields DEF IInv
  <1>2. j \in Instances /\ Shaped /\ DOMAIN breaker = Instances
    BY <1>1 DEF LocalsOf, IInv, Kept
  <1>3. Idle.pc = "idle"
    BY DEF Idle
  <1>4. CASE Reject(r) \/ Publish(r)
    <2>1. /\ breaker' = breaker /\ req' = [req EXCEPT ![r] = Idle]
          /\ req[r].pc \in {"reject", "publish"}
      BY <1>4 DEF Reject, Publish
    <2>2. On(Idle, i) <=> On(req[r], i)
      BY <1>3, <2>1 DEF On
    <2> QED
      BY <1>2, <2>1, <2>2, Apart
  <1>5. CASE BadAddress(r) \/ Abort(r)
    <2>1. /\ breaker' = breaker /\ req' = [req EXCEPT ![r] = Idle]
          /\ req[r].pc = "forward" /\ (j \in BadAddrs \/ "abort" \in Outcomes)
      BY <1>5 DEF BadAddress, Abort
    <2>2. ~On(Idle, i)
      BY <1>3 DEF On
    <2>3. CASE i = j
      <3>1. On(req[r], i)
        BY <2>1, <2>3 DEF On
      <3>2. r \in InFlight(i) /\ InFlight(i)' = InFlight(i) \ {r}
        BY <1>2, <2>1, <2>2, <3>1, Flights
      <3> QED
        BY <2>1, <2>3, <3>2 DEF Driven, Vanishes
    <2>4. CASE i # j
      <3>1. ~On(req[r], i)
        BY <2>4 DEF On
      <3> QED
        BY <1>2, <2>1, <2>2, <3>1, Apart
    <2> QED
      BY <2>3, <2>4
  <1>6. CASE Respond(r)
    <2>1. PICK o : /\ breaker' = breaker /\ req[r].pc = "forward"
                   /\ req' = [req EXCEPT ![r].pc = "record", ![r].outcome = o]
      BY <1>6 DEF Respond
    <2> DEFINE l == [req[r] EXCEPT !.pc = "record", !.outcome = o]
    <2>2. req' = [req EXCEPT ![r] = l]
      BY <2>1 DEF IInv, Shaped
    <2>3. l.pc = "record" /\ l.inst = j
      BY <1>1 DEF LocalsOf
    <2> HIDE DEF l
    <2>4. (On(l, i) <=> On(req[r], i))
      BY <2>1, <2>3 DEF On
    <2> QED
      BY <1>2, <2>1, <2>2, <2>4, Apart
  <1>7. CASE Record(r)
    <2> DEFINE l == [Idle EXCEPT !.pc = "observe", !.inst = j]
    <2>1. /\ req[r].pc = "record" /\ req' = [req EXCEPT ![r] = l]
          /\ breaker' = [breaker EXCEPT ![j] = IF req[r].outcome = "success"
                                               THEN AfterSuccess(breaker[j])
                                               ELSE AfterFailure(breaker[j])]
          /\ j \notin BadAddrs
      BY <1>7 DEF Record, Kept
    <2>2. l.pc = "observe"
      BY DEF Idle
    <2> HIDE DEF l
    <2>3. ~On(l, i)
      BY <2>2 DEF On
    <2>4. CASE i = j
      <3>1. On(req[r], i)
        BY <2>1, <2>4 DEF On
      <3>2. r \in InFlight(i) /\ InFlight(i)' = InFlight(i) \ {r}
        BY <1>2, <2>1, <2>3, <3>1, Flights
      <3>3. breaker'[i] \in {AfterSuccess(breaker[i]), AfterFailure(breaker[i])}
        BY <1>2, <2>1, <2>4
      <3> QED
        BY <2>1, <2>4, <3>2, <3>3 DEF Driven, Reports
    <2>5. CASE i # j
      <3>1. ~On(req[r], i)
        BY <2>5 DEF On
      <3>2. InFlight(i)' = InFlight(i)
        BY <1>2, <2>1, <2>3, <3>1, Flights
      <3>3. breaker'[i] = breaker[i]
        BY <1>2, <2>1, <2>5
      <3> QED
        BY <3>2, <3>3 DEF Driven, Rests
    <2> QED
      BY <2>4, <2>5
  <1>8. CASE Observe(r)
    <2>1. PICK v : req' = [req EXCEPT ![r].pc = "publish", ![r].seen = v]
      BY <1>8 DEF Observe
    <2> DEFINE l == [req[r] EXCEPT !.pc = "publish", !.seen = v]
    <2>2. req' = [req EXCEPT ![r] = l] /\ req[r].pc = "observe"
      BY <1>8, <2>1 DEF IInv, Shaped, Observe
    <2>3. l.pc = "publish"
      BY <1>1 DEF LocalsOf
    <2> HIDE DEF l
    <2>4. (On(l, i) <=> On(req[r], i))
      BY <2>2, <2>3 DEF On
    <2>5. InFlight(i)' = InFlight(i)
      BY <1>2, <2>2, <2>4, Flights
    <2>6. breaker' = [breaker EXCEPT ![j] = maybeTransitionToHalfOpen(breaker[j])]
      BY <1>8 DEF Observe
    <2>7. breaker'[i] \in {breaker[i], maybeTransitionToHalfOpen(breaker[i])}
      BY <1>2, <2>6
    <2> QED
      BY <2>5, <2>7 DEF Driven, Rests
  <1> QED
    BY <1>4, <1>5, <1>6, <1>7, <1>8 DEF Handle

\* Every step drives every breaker in one of the four ways.
LEMMA EveryStepDrives ==
    ASSUME IInv, Kept, [Next]_vars, LoadBalancerAssumption, NEW i \in Instances
    PROVE  Driven(i)
  <1>1. CASE \E r \in Requests : Arrive(r) \/ Scan(r) \/ Handle(r)
    BY <1>1, ScanDrives, TryAllowDrives, HandleDrives DEF Scan
  <1>2. CASE \E j \in Instances : PollState(j) \/ \E up \in BOOLEAN : SetHealthy(j, up)
    <2>1. req' = req
      BY <1>2 DEF PollState, SetHealthy
    <2>2. breaker'[i] \in {breaker[i], maybeTransitionToHalfOpen(breaker[i])}
      BY <1>2 DEF PollState, SetHealthy, Kept
    <2> QED
      BY <2>1, <2>2 DEF Driven, Rests, InFlight
  <1>3. CASE Tick
    BY <1>3 DEF Tick, Driven, Rests, InFlight
  <1>4. CASE UNCHANGED vars
    BY <1>4 DEF vars, Driven, Rests, InFlight
  <1> QED
    BY <1>1, <1>2, <1>3, <1>4 DEF Next

\* The breakers stay sound, and only usable addresses are reported on.
LEMMA KeptStep ==
    ASSUME IInv, Kept, [Next]_vars, LoadBalancerAssumption
    PROVE  Kept'
  <1>1. breaker' = [i \in Instances |-> breaker'[i]]
    <2>1. \/ breaker' = breaker
          \/ \E j, v : breaker' = [breaker EXCEPT ![j] = v]
          \/ breaker' = [j \in Instances |-> AfterTick(breaker[j])]
      BY DEF Next, Arrive, Scan, Lock, ReadHealthy, TryAllow, Handle, Reject, BadAddress,
             Respond, Abort, Record, Observe, Publish, PollState, SetHealthy, Tick, vars
    <2> QED
      BY <2>1 DEF Kept
  <1>2. ASSUME NEW i \in Instances PROVE Sound(breaker'[i])
    <2>1. Driven(i)
      BY EveryStepDrives
    <2>2. \/ breaker'[i] = breaker[i] \/ breaker'[i] = AfterAllow(breaker[i])
          \/ breaker'[i] = AfterSuccess(breaker[i]) \/ breaker'[i] = AfterFailure(breaker[i])
          \/ breaker'[i] = maybeTransitionToHalfOpen(breaker[i])
          \/ breaker'[i] = AfterTick(breaker[i])
      BY <2>1 DEF Driven, Enters, Reports, Vanishes, Rests
    <2>3. Sound(breaker[i])
      BY DEF Kept
    <2> QED
      BY <2>2, <2>3, StaysSound
  <1>3. breaker' \in [Instances -> Breakers]
    BY <1>1, <1>2 DEF Sound
  <1>4. ASSUME NEW q \in Requests, req'[q].pc = "record" PROVE req'[q].inst \notin BadAddrs
    <2>1. CASE req'[q] = req[q]
      BY <1>4, <2>1 DEF Kept
    <2>2. CASE req'[q] # req[q]
      <3>0. /\ q \in DOMAIN req
            /\ \E T : req[q] \in LocalsOf(T)
        BY Fields DEF IInv, Shaped
      <3>1. PICK T : req[q] \in LocalsOf(T)
        BY <3>0
      <3>2. Respond(q)
        <4>1. PICK r \in Requests : Arrive(r) \/ Scan(r) \/ Handle(r)
          BY <2>2 DEF Next, PollState, SetHealthy, Tick, vars
        <4>2. r = q
          BY <2>2, <3>0, <4>1 DEF Arrive, Scan, Lock, ReadHealthy, TryAllow, Handle, Reject,
             BadAddress, Respond, Abort, Record, Observe, Publish
        <4>3. ~Arrive(q) /\ ~Lock(q)
          BY <1>4, <3>0, <3>1 DEF Arrive, Lock, LocalsOf
        <4>4. ~ReadHealthy(q) /\ ~TryAllow(q)
          <5>1. req[q].pc \in {"scan", "allow"} => req[q].tried \in Nat /\ req[q].tried < N
            BY <3>1 DEF IInv, Looks, Looked, LocalsOf
          <5>2. req[q].pc \in {"scan", "allow"} => Skipped(req[q]).pc \in {"scan", "reject"}
            BY <5>1, SkippedShape
          <5>3. ~ReadHealthy(q)
            BY <1>4, <3>0, <3>1, <5>2 DEF ReadHealthy, LocalsOf
          <5>4. ~TryAllow(q)
            BY <1>4, <3>0, <3>1, <5>2 DEF TryAllow, LocalsOf
          <5> QED
            BY <5>3, <5>4
        <4>5. ~(Reject(q) \/ BadAddress(q) \/ Abort(q) \/ Publish(q))
          BY <1>4, <3>0 DEF Reject, BadAddress, Abort, Publish, Idle
        <4>6. ~Record(q)
          BY <1>4, <3>0 DEF Record, Idle
        <4>7. ~Observe(q)
          BY <1>4, <3>0, <3>1 DEF Observe, LocalsOf
        <4> QED
          BY <4>1, <4>2, <4>3, <4>4, <4>5, <4>6, <4>7 DEF Scan, Handle
      <3>3. req'[q].inst = req[q].inst
        BY <3>0, <3>1, <3>2 DEF Respond, LocalsOf
      <3> QED
        BY <3>2, <3>3 DEF Respond
    <2> QED
      BY <2>1, <2>2
  <1> QED
    BY <1>2, <1>3, <1>4 DEF Kept

\* What holds of the breakers in every state.
LEMMA BreakersKept == Spec => []Kept
  <1>1. Init => Kept
    <2> SUFFICES ASSUME Init PROVE Kept
      OBVIOUS
    <2>1. \A i \in Instances : breaker[i] = New
      BY DEF Init
    <2>2. breaker \in [Instances -> Breakers]
      BY NewType DEF Init
    <2>3. \A r \in Requests : req[r].pc = "idle"
      BY DEF Init, Idle
    <2> QED
      BY <2>1, <2>2, <2>3, NewSound DEF Kept
  <1>2. IInv /\ Kept /\ [Next]_vars => Kept'
    BY KeptStep, LoadBalancerAssumption
  <1> QED
    BY <1>1, <1>2, BalancerInvariant, PTL DEF Spec

-----------------------------------------------------------------------------
(* The contract of each breaker. *)

\* The contract's view of instance i's breaker.
Permit(i) == breaker[i].state = "half_open" /\ ~breaker[i].probeInFlight
Rested(i) == breaker[i].elapsed >= Recovery

\* Nothing of it changes.
LEMMA Stutter ==
    ASSUME NEW i \in Instances, breaker'[i].state = breaker[i].state,
           Permit(i)' = Permit(i), Rested(i)' = Rested(i), InFlight(i)' = InFlight(i)
    PROVE  [Contract(i)!Next]_(Contract(i)!vars)
  BY DEF Contract!vars, Permit, Rested

\* A request is admitted to i: Pass.
LEMMA EntersPasses ==
    ASSUME Kept, NEW i \in Instances, Enters(i)
    PROVE  Contract(i)!Next
  <1> DEFINE b == breaker[i]
  <1>1. PICK r \in Requests : r \notin InFlight(i) /\ InFlight(i)' = InFlight(i) \cup {r}
    BY DEF Enters
  <1>2. b \in Breakers /\ Allows(b) /\ breaker'[i] = AfterAllow(b)
    BY DEF Enters, Kept
  <1>3. breaker'[i].elapsed = b.elapsed
    BY <1>2, AllowFields
  <1>4. Rested(i)' = Rested(i)
    BY <1>3 DEF Rested
  <1>5. CASE b.state = "closed"
    <2>1. breaker'[i].state = "closed"
      BY <1>2, <1>5, AllowFields
    <2>2. Permit(i)' = FALSE
      BY <2>1 DEF Permit
    <2>3. Contract(i)!Pass(r)
      BY <1>1, <1>4, <1>5, <2>1, <2>2 DEF Contract!Pass, Permit, Rested
    <2> QED
      BY <2>3 DEF Contract!Next
  <1>6. CASE b.state # "closed"
    <2>1. breaker'[i].state = "half_open" /\ breaker'[i].probeInFlight = TRUE
      BY <1>2, <1>6, AllowFields
    <2>2. Permit(i)' = FALSE
      BY <2>1 DEF Permit
    <2>3. \/ b.state = "half_open" /\ Permit(i)
          \/ b.state = "open" /\ Rested(i)
      BY <1>2, <1>6, AllowFields DEF Permit, Rested
    <2>4. Contract(i)!Pass(r)
      BY <1>1, <1>4, <2>1, <2>2, <2>3 DEF Contract!Pass, Permit, Rested
    <2> QED
      BY <2>4 DEF Contract!Next
  <1> QED
    BY <1>5, <1>6

\* A request ends and leaves the breaker as it is: Leave.
LEMMA EndsLeaves ==
    ASSUME NEW i \in Instances, NEW r \in InFlight(i), InFlight(i)' = InFlight(i) \ {r},
           breaker'[i].state = breaker[i].state,
           Permit(i)' = Permit(i), Rested(i)' = Rested(i)
    PROVE  Contract(i)!Next
  <1>1. Contract(i)!Leave(r)
    BY DEF Contract!Leave, Permit, Rested
  <1>2. r \in Requests
    BY DEF InFlight
  <1> QED
    BY <1>1, <1>2 DEF Contract!Next

\* A request reports on i: Leave, Heal or Trip.
LEMMA ReportsEnds ==
    ASSUME Kept, NEW i \in Instances, Reports(i)
    PROVE  Contract(i)!Next
  <1> DEFINE b == breaker[i]
  <1>1. PICK r \in InFlight(i) : InFlight(i)' = InFlight(i) \ {r}
    BY DEF Reports
  <1>2. /\ b \in Breakers /\ b.state \in States /\ b.fails \in 0..MaxFails
        /\ b.elapsed \in 0..Recovery /\ r \in Requests
    BY DEF Kept, Breakers, InFlight
  <1>3. CASE breaker'[i] = AfterSuccess(b)
    <2>1. breaker'[i].elapsed = b.elapsed
      BY <1>2, <1>3, SuccessFields
    <2>2. Rested(i)' = Rested(i)
      BY <2>1 DEF Rested
    <2>3. CASE b.state = "half_open"
      <3>1. breaker'[i].state = "closed"
        BY <1>2, <1>3, <2>3, SuccessFields
      <3>2. Permit(i)' = FALSE
        BY <3>1 DEF Permit
      <3>3. Contract(i)!Heal(r)
        BY <1>1, <2>2, <2>3, <3>1, <3>2 DEF Contract!Heal, Permit, Rested
      <3> QED
        BY <1>2, <3>3 DEF Contract!Next
    <2>4. CASE b.state # "half_open"
      <3>1. breaker'[i].state = b.state
        BY <1>2, <1>3, <2>4, SuccessFields DEF States
      <3>2. Permit(i)' = Permit(i)
        BY <2>4, <3>1 DEF Permit
      <3> QED
        BY <1>1, <2>2, <3>1, <3>2, EndsLeaves
    <2> QED
      BY <2>3, <2>4
  <1>4. CASE breaker'[i] = AfterFailure(b)
    <2>1. PICK n : n = Saturate(b.fails + 1, MaxFails)
      OBVIOUS
    <2>2. n < Threshold \/ n >= Threshold
      <3>1. Threshold \in Nat /\ MaxFails \in Nat
        BY Options
      <3>2. n \in 0..MaxFails
        BY <1>2, <2>1, <3>1, SaturateType
      <3> QED
        BY <3>1, <3>2
    <2>3. CASE b.state = "open"
      <3>1. breaker'[i] = b
        BY <1>2, <1>4, <2>1, <2>3, FailureFields
      <3>2. Permit(i)' = Permit(i) /\ Rested(i)' = Rested(i)
        BY <3>1 DEF Permit, Rested
      <3> QED
        BY <1>1, <3>1, <3>2, EndsLeaves
    <2>4. CASE b.state = "closed" /\ n < Threshold
      <3>1. breaker'[i].state = "closed" /\ breaker'[i].elapsed = b.elapsed
        BY <1>2, <1>4, <2>1, <2>4, FailureFields
      <3>2. Permit(i)' = Permit(i) /\ Rested(i)' = Rested(i)
        BY <2>4, <3>1 DEF Permit, Rested
      <3> QED
        BY <1>1, <2>4, <3>1, <3>2, EndsLeaves
    <2>5. CASE (b.state = "closed" /\ n >= Threshold) \/ b.state = "half_open"
      <3>1. breaker'[i].state = "open" /\ breaker'[i].elapsed = 0
        <4>1. CASE b.state = "half_open"
          BY <1>2, <1>4, <4>1, ProbeFailureOpens
        <4>2. CASE b.state = "closed" /\ n >= Threshold
          BY <1>2, <1>4, <2>1, <4>2, FailureFields
        <4> QED
          BY <2>5, <4>1, <4>2
      <3>2. Permit(i)' = FALSE
        BY <3>1 DEF Permit
      <3>4. Recovery \in Nat /\ 0 < Recovery
        BY Options
      <3>5. Rested(i)' = FALSE
        BY <3>1, <3>4 DEF Rested
      <3>3. Contract(i)!Trip(r)
        BY <1>1, <2>5, <3>1, <3>2, <3>5 DEF Contract!Trip, Permit, Rested
      <3> QED
        BY <1>2, <3>3 DEF Contract!Next
    <2> QED
      BY <1>2, <2>2, <2>3, <2>4, <2>5 DEF States
  <1> QED
    BY <1>3, <1>4 DEF Reports

\* Nobody comes or goes: OfferTrial, Rest, or nothing.
LEMMA RestsStutters ==
    ASSUME Kept, NEW i \in Instances, Rests(i)
    PROVE  [Contract(i)!Next]_(Contract(i)!vars)
  <1> DEFINE b == breaker[i]
  <1>1. /\ b \in Breakers /\ b.elapsed \in 0..Recovery /\ Recovery \in Nat
        /\ b.state # "open" => b.elapsed = Recovery
        /\ InFlight(i)' = InFlight(i)
    BY Options DEF Kept, Sound, Breakers, Rests
  <1>2. CASE breaker'[i] = b
    BY <1>1, <1>2, Stutter DEF Permit, Rested
  <1>3. CASE breaker'[i] = maybeTransitionToHalfOpen(b) /\ breaker'[i] # b
    <2>1. /\ b.state = "open" /\ b.elapsed >= Recovery
          /\ breaker'[i].state = "half_open" /\ breaker'[i].probeInFlight = FALSE
          /\ breaker'[i].elapsed = b.elapsed
      BY <1>1, <1>3, PollOutcome
    <2>2. Rested(i) /\ Rested(i)' = Rested(i) /\ Permit(i)' = TRUE
      BY <2>1 DEF Rested, Permit
    <2>3. Contract(i)!OfferTrial
      BY <1>1, <2>1, <2>2 DEF Contract!OfferTrial, Permit, Rested
    <2> QED
      BY <2>3 DEF Contract!Next
  <1>4. CASE breaker'[i] = AfterTick(b)
    <2>1. /\ breaker'[i].state = b.state
          /\ breaker'[i].probeInFlight = b.probeInFlight
          /\ breaker'[i].elapsed = Saturate(b.elapsed + 1, Recovery)
      BY <1>1, <1>4, TickFields
    <2>2. Permit(i)' = Permit(i)
      BY <2>1 DEF Permit
    <2>3. CASE Rested(i)' = Rested(i)
      BY <1>1, <2>1, <2>2, <2>3, Stutter
    <2>4. CASE Rested(i)' # Rested(i)
      <3>1. Rested(i) => Rested(i)'
        BY <1>1, <2>1 DEF Rested, Saturate
      <3>2. ~Rested(i) /\ Rested(i)'
        BY <2>4, <3>1 DEF Rested
      <3>3. b.state = "open"
        BY <1>1, <3>2 DEF Rested
      <3>4. Contract(i)!Rest
        BY <1>1, <2>1, <2>2, <3>2, <3>3 DEF Contract!Rest, Permit, Rested
      <3> QED
        BY <3>4 DEF Contract!Next
    <2> QED
      BY <2>3, <2>4
  <1> QED
    BY <1>2, <1>3, <1>4 DEF Rests

\* A driven breaker keeps its contract.
LEMMA DrivenKeepsContract ==
    ASSUME Kept, NEW i \in Instances, Driven(i)
    PROVE  [Contract(i)!Next]_(Contract(i)!vars)
  <1>1. CASE Vanishes(i)
    <2>1. PICK r \in InFlight(i) : InFlight(i)' = InFlight(i) \ {r}
      BY <1>1 DEF Vanishes
    <2>2. /\ breaker'[i].state = breaker[i].state
          /\ Permit(i)' = Permit(i) /\ Rested(i)' = Rested(i)
      BY <1>1 DEF Vanishes, Permit, Rested
    <2> QED
      BY <2>1, <2>2, EndsLeaves
  <1> QED
    BY <1>1, EntersPasses, ReportsEnds, RestsStutters DEF Driven

\* proxy.go:69-152 over registry.go:104-126: whatever requests, probes, polls and the
\* clock do to one another, each instance's breaker keeps the contract that
\* CircuitBreaker_proofs shows of a breaker alone.
THEOREM HandlersKeepContracts == Spec => ImplementsContracts
  <1>1. Init => \A i \in Instances : Contract(i)!Init
    <2> SUFFICES ASSUME Init, NEW i \in Instances PROVE Contract(i)!Init
      OBVIOUS
    <2>1. /\ breaker[i].state = "closed" /\ breaker[i].elapsed = Recovery
          /\ Recovery \in Nat
      BY Options DEF Init, New
    <2>2. Permit(i) = FALSE /\ Rested(i) = TRUE
      BY <2>1 DEF Permit, Rested
    <2>3. \A r \in Requests : req[r].pc = "idle"
      BY DEF Init, Idle
    <2>4. InFlight(i) = {}
      BY <2>3 DEF InFlight
    <2> QED
      BY <2>1, <2>2, <2>4 DEF Contract!Init, Permit, Rested
  <1>2. IInv /\ Kept /\ [Next]_vars
            => [\A i \in Instances : [Contract(i)!Next]_(Contract(i)!vars)]_vars
    BY EveryStepDrives, DrivenKeepsContract, LoadBalancerAssumption
  <1> QED
    BY <1>1, <1>2, BalancerInvariant, BreakersKept, PTL DEF Spec, ImplementsContracts

-----------------------------------------------------------------------------
(* The probe of a half-open breaker. *)

\* One breaker's part of ProbeHasReporter, and that a breaker that is never
\* reported to never leaves "closed".
Awaited(i) ==
    /\ breaker[i].state = "half_open" /\ breaker[i].probeInFlight => InFlight(i) # {}
    /\ i \in BadAddrs => breaker[i].state = "closed"

\* The slot of a probe is claimed by joining those in flight, and whoever leaves
\* them reports, which ends the half-open period.
LEMMA AwaitedStep ==
    ASSUME Kept, "abort" \notin Outcomes, NEW i \in Instances, Awaited(i), Driven(i)
    PROVE  Awaited(i)'
  <1> DEFINE b == breaker[i]
  <1>1. b \in Breakers /\ b.state \in States /\ b.probeInFlight \in BOOLEAN
    BY DEF Kept, Breakers
  <1>2. CASE Enters(i)
    <2>1. InFlight(i)' # {}
      BY <1>2 DEF Enters
    <2>2. b.state = "closed" => breaker'[i] = b
      BY <1>1, <1>2, AllowFields DEF Enters
    <2> QED
      BY <2>1, <2>2 DEF Awaited
  <1>3. CASE Reports(i)
    <2>1. breaker'[i].state # "half_open"
      <3>1. AfterFailure(b).state # "half_open"
        BY <1>1, FailureNotHalfOpen
      <3>2. AfterSuccess(b).state # "half_open"
        BY <1>1, SuccessFields DEF States
      <3> QED
        BY <1>3, <3>1, <3>2 DEF Reports
    <2> QED
      BY <1>3, <2>1 DEF Awaited, Reports
  <1>4. CASE Vanishes(i)
    BY <1>4 DEF Vanishes, Awaited
  <1>5. CASE Rests(i)
    <2>1. CASE breaker'[i] = b
      BY <1>5, <2>1 DEF Rests, Awaited
    <2>2. CASE breaker'[i] = maybeTransitionToHalfOpen(b) /\ breaker'[i] # b
      <3>1. b.state = "open" /\ breaker'[i].probeInFlight = FALSE
        BY <1>1, <2>2, PollOutcome
      <3> QED
        BY <3>1 DEF Awaited
    <2>3. CASE breaker'[i] = AfterTick(b)
      <3>1. breaker'[i].state = b.state /\ breaker'[i].probeInFlight = b.probeInFlight
        BY <1>1, <2>3, TickFields
      <3> QED
        BY <1>5, <3>1 DEF Rests, Awaited
    <2> QED
      BY <1>5, <2>1, <2>2, <2>3 DEF Rests
  <1> QED
    BY <1>2, <1>3, <1>4, <1>5 DEF Driven

\* circuitbreaker.go:78-86 with proxy.go:130-146: where no response body breaks off
\* half-way, a breaker that refuses everybody because of its probe has a request
\* in flight that will report, for any number of requests and instances.
THEOREM ProbesAreReported ==
    ASSUME "abort" \notin Outcomes
    PROVE  Spec => []ProbeHasReporter
  <1> DEFINE AllAwaited == \A i \in Instances : Awaited(i)
  <1>1. Init => AllAwaited
    BY DEF Init, New, Awaited
  <1>2. IInv /\ Kept /\ AllAwaited /\ [Next]_vars => AllAwaited'
    BY EveryStepDrives, AwaitedStep, LoadBalancerAssumption
  <1>3. AllAwaited => ProbeHasReporter
    BY DEF Awaited, ProbeHasReporter
  <1> QED
    BY <1>1, <1>2, <1>3, BalancerInvariant, BreakersKept, PTL DEF Spec

-----------------------------------------------------------------------------
(* Round-robin. *)

\* How many instances the cursor has to leave before it is at i.
Ahead(i) == IF i >= next THEN i - next ELSE i + N - next

\* The instance a scan is about to ask, if any.
Trying == IF mu # Nobody /\ req[mu].pc = "allow" THEN {req[mu].inst} ELSE {}

\* An instance that is passed over has let the cursor come nearer: every
\* selection of another cost a move of the cursor, one of them maybe not yet
\* counted, and the cursor does not leave i without trying it.
Ordered(i) ==
    /\ passed[i] \in Nat
    /\ ~Available(healthy, breaker, i) => passed[i] = 0
    /\ i \in Trying => passed[i] < N
    /\ i \notin Trying => passed[i] + Ahead(i) + (IF Trying = {} THEN 0 ELSE 1) < N

Order == passed \in [Instances -> Nat] /\ \A i \in Instances : Ordered(i)

\* What the cursor's move does to the distances.
LEMMA Nearer ==
    ASSUME NEW i \in Instances, next \in Instances, next' = Advance(next), N \in Nat \ {0}
    PROVE  /\ Ahead(i) \in 0..N-1 /\ Ahead(i)' \in 0..N-1
           /\ i # next => Ahead(i)' = Ahead(i) - 1
  <1>1. next' = (IF next + 1 = N THEN 0 ELSE next + 1)
    BY Around
  <1>2. i \in Int /\ 0 <= i /\ i < N /\ next \in Int /\ 0 <= next /\ next < N
    BY DEF Instances
  <1>3. Ahead(i) \in 0..N-1 /\ Ahead(i)' \in 0..N-1
    BY <1>1, <1>2 DEF Ahead
  <1>4. i # next => Ahead(i)' = Ahead(i) - 1
    BY <1>1, <1>2 DEF Ahead
  <1> QED
    BY <1>3, <1>4

\* What CountPassed does for one instance.
LEMMA Counting ==
    ASSUME Order, NEW S, CountPassed(S), N \in Nat \ {0}, NEW i \in Instances
    PROVE  /\ passed' = [j \in Instances |-> passed'[j]]
           /\ ~Available(healthy, breaker, i) => passed'[i] = 0
           /\ ~Available(healthy, breaker, i)' => passed'[i] = 0
           /\ i \in S => passed'[i] = 0
           /\ S = {} => passed'[i] \in {0, passed[i]}
           /\ passed[i] < N => passed'[i] \in {0, passed[i], passed[i] + 1}
  <1>1. passed[i] \in Nat
    BY DEF Order
  <1>2. passed' = [j \in Instances |->
            IF j \in S \/ ~Available(healthy, breaker, j) \/ ~Available(healthy', breaker', j)
            THEN 0 ELSE IF S = {} THEN passed[j] ELSE Saturate(passed[j] + 1, N)]
    BY DEF CountPassed
  <1>3. passed[i] < N => Saturate(passed[i] + 1, N) = passed[i] + 1
    BY <1>1 DEF Saturate
  <1>4. Available(healthy, breaker, i)' <=> Available(healthy', breaker', i)
    BY DEF Available
  <1> QED
    BY <1>1, <1>2, <1>3, <1>4

\* A step that selects nothing and moves neither the cursor nor the scan.
LEMMA OrderKept ==
    ASSUME Order, UNCHANGED <<healthy, breaker, passed>> \/ CountPassed({}),
           next \in Instances, next' = next, Trying' = Trying, N \in Nat \ {0}
    PROVE  Order'
  <1>1. CASE UNCHANGED <<healthy, breaker, passed>>
    BY <1>1 DEF Order, Ordered, Ahead, Available
  <1>2. CASE CountPassed({})
    <2>1. ASSUME NEW i \in Instances PROVE passed'[i] \in Nat /\ Ordered(i)'
      <3>1. /\ passed'[i] \in {0, passed[i]} /\ passed[i] \in Nat
            /\ ~Available(healthy, breaker, i)' => passed'[i] = 0
        BY <1>2, Counting DEF Order
      <3>2. Ahead(i)' = Ahead(i) /\ Ahead(i) \in Int
        BY DEF Ahead, Instances
      <3>3. Ordered(i)
        BY DEF Order
      <3> QED
        BY <3>1, <3>2, <3>3 DEF Ordered
    <2>2. passed' \in [Instances -> Nat]
      BY <1>2, <2>1 DEF CountPassed
    <2> QED
      BY <2>1, <2>2 DEF Order
  <1> QED
    BY <1>1, <1>2

\* Who is tried does not change but at the scanner's hands.
LEMMA TryingKept ==
    ASSUME IInv, NEW q \in Requests, NEW l, req' = [req EXCEPT ![q] = l], mu' = mu,
           req[q].pc \notin {"scan", "allow"}, Nobody \notin Requests
    PROVE  Trying' = Trying
  <1>1. mu # q /\ mu \in Requests \cup {Nobody}
    BY DEF IInv, ScanIsExclusive, Located
  <1>2. mu # Nobody => req'[mu] = req[mu]
    BY <1>1 DEF IInv, Shaped
  <1> QED
    BY <1>2 DEF Trying

\* The head of an iteration brings the cursor nearer to all but the instance it
\* leaves, which is tried now or was not available.
LEMMA ReadHealthyOrders ==
    ASSUME IInv, Order, NEW r \in Requests, ReadHealthy(r), LoadBalancerAssumption
    PROVE  Order'
  <1>1. PICK T : req[r] \in LocalsOf(T)
    BY Fields DEF IInv
  <1>2. /\ req[r].pc = "scan" /\ mu = r /\ r # Nobody
        /\ next \in Instances /\ N \in Nat \ {0} /\ next' = Advance(next)
        /\ UNCHANGED <<breaker, healthy, passed>>
        /\ req[r].tried \in Nat /\ req[r].tried < N
    BY <1>1 DEF ReadHealthy, IInv, ScanIsExclusive, Located, LoadBalancerAssumption,
                Looks, Looked, LocalsOf
  <1>3. Trying = {}
    BY <1>2 DEF Trying
  <1>4. Trying' = IF healthy[next] THEN {next} ELSE {}
    <2>1. /\ mu' = IF req'[r].pc \in {"forward", "reject"} THEN Nobody ELSE mu
          /\ req'[r] = IF healthy[next] THEN [req[r] EXCEPT !.pc = "allow", !.inst = next]
                                        ELSE Skipped(req[r])
      BY DEF ReadHealthy, Release, IInv, Shaped
    <2>2. CASE healthy[next]
      <3>1. req'[r].pc = "allow" /\ req'[r].inst = next
        BY <1>1, <2>1, <2>2 DEF LocalsOf
      <3> QED
        BY <1>2, <2>1, <2>2, <3>1 DEF Trying
    <2>3. CASE ~healthy[next]
      <3>1. req'[r].pc \in {"scan", "reject"}
        BY <1>2, <2>1, <2>3, SkippedShape
      <3> QED
        BY <1>2, <2>1, <2>3, <3>1 DEF Trying
    <2> QED
      BY <2>2, <2>3
  <1>5. ASSUME NEW i \in Instances PROVE Ordered(i)'
    <2>1. /\ Ahead(i) \in 0..N-1 /\ Ahead(i)' \in 0..N-1
          /\ i # next => Ahead(i)' = Ahead(i) - 1
      BY <1>2, Nearer
    <2>2. /\ passed[i] \in Nat /\ passed[i] + Ahead(i) < N
          /\ ~Available(healthy, breaker, i) => passed[i] = 0
      BY <1>2, <1>3, <1>5, <2>1 DEF Order, Ordered
    <2>3. Available(healthy, breaker, i)' <=> Available(healthy, breaker, i)
      BY <1>2 DEF Available
    <2>4. CASE i # next
      BY <1>2, <1>4, <2>1, <2>2, <2>3, <2>4 DEF Ordered
    <2>5. CASE i = next /\ healthy[next]
      BY <1>2, <1>4, <2>1, <2>2, <2>3, <2>5 DEF Ordered
    <2>6. CASE i = next /\ ~healthy[next]
      <3>1. passed[i] = 0
        BY <2>2, <2>6 DEF Available
      <3> QED
        BY <1>2, <1>4, <2>1, <2>3, <2>6, <3>1 DEF Ordered
    <2> QED
      BY <2>4, <2>5, <2>6
  <1> QED
    BY <1>2, <1>5 DEF Order

\* The instance tried is selected, or was not available; for the others the
\* move of the cursor that is now spent is counted.
LEMMA TryAllowOrders ==
    ASSUME IInv, Order, NEW r \in Requests, TryAllow(r), LoadBalancerAssumption
    PROVE  Order'
  <1> DEFINE j == req[r].inst
             ok == Allows(breaker[j])
             S == IF ok THEN {j} ELSE {}
  <1>1. PICK T : req[r] \in LocalsOf(T)
    BY Fields DEF IInv
  <1>2. /\ req[r].pc = "allow" /\ mu = r /\ r # Nobody /\ j \in Instances
        /\ next \in Instances /\ N \in Nat \ {0} /\ next' = next
        /\ CountPassed(S)
        /\ req[r].tried \in Nat /\ req[r].tried < N
    BY <1>1 DEF TryAllow, IInv, ScanIsExclusive, Located, LoadBalancerAssumption,
                Looks, Looked, LocalsOf
  <1>3. Trying = {j}
    BY <1>2 DEF Trying
  <1>4. Trying' = {}
    <2>1. /\ mu' = IF req'[r].pc \in {"forward", "reject"} THEN Nobody ELSE mu
          /\ req'[r] = IF ok THEN [req[r] EXCEPT !.pc = "forward", !.tried = 0]
                             ELSE Skipped(req[r])
      BY DEF TryAllow, Release, IInv, Shaped
    <2>2. [req[r] EXCEPT !.pc = "forward", !.tried = 0].pc = "forward"
      BY <1>1 DEF LocalsOf
    <2>3. Skipped(req[r]).pc \in {"scan", "reject"}
      BY <1>2, SkippedShape
    <2>4. req'[r].pc \in {"forward", "scan", "reject"}
      BY <2>1, <2>2, <2>3
    <2> QED
      BY <1>2, <2>1, <2>4 DEF Trying
  <1>5. ~ok => ~Available(healthy, breaker, j)
    BY DEF Available
  <1>6. ok => j \in S
    OBVIOUS
  <1> HIDE DEF j, ok, S
  <1>7. ASSUME NEW i \in Instances PROVE passed'[i] \in Nat /\ Ordered(i)'
    <2>1. /\ ~Available(healthy, breaker, i) => passed'[i] = 0
          /\ ~Available(healthy, breaker, i)' => passed'[i] = 0
          /\ i \in S => passed'[i] = 0
          /\ passed[i] < N => passed'[i] \in {0, passed[i], passed[i] + 1}
      BY <1>2, <1>7, Counting
    <2>2. Ahead(i)' = Ahead(i) /\ Ahead(i) \in 0..N-1
      BY <1>2, <1>7 DEF Ahead, Instances
    <2>3. CASE i = j
      <3>1. passed'[i] = 0
        BY <1>5, <1>6, <2>1, <2>3
      <3> QED
        BY <1>2, <1>4, <2>2, <3>1 DEF Ordered
    <2>4. CASE i # j
      <3>1. passed[i] \in Nat /\ passed[i] + Ahead(i) + 1 < N
        BY <1>3, <1>7, <2>4 DEF Order, Ordered
      <3>2. passed'[i] \in {0, passed[i], passed[i] + 1}
        BY <1>2, <2>1, <2>2, <3>1
      <3> QED
        BY <1>2, <1>4, <2>1, <2>2, <3>1, <3>2 DEF Ordered
    <2> QED
      BY <2>3, <2>4
  <1>8. passed' \in [Instances -> Nat]
    BY <1>2, <1>7 DEF CountPassed
  <1> QED
    BY <1>7, <1>8 DEF Order

\* Every step keeps the order.
LEMMA OrderStep ==
    ASSUME IInv, Order, [Next]_vars, LoadBalancerAssumption
    PROVE  Order'
  <1>0. next \in Instances /\ N \in Nat \ {0} /\ Nobody \notin Requests
    BY DEF IInv, Located, LoadBalancerAssumption
  <1>1. ASSUME NEW r \in Requests, Arrive(r) PROVE Order'
    <2>1. \E l : req' = [req EXCEPT ![r] = l]
      BY <1>1 DEF Arrive
    <2>2. Trying' = Trying
      BY <1>0, <1>1, <2>1, TryingKept DEF Arrive
    <2> QED
      BY <1>0, <1>1, <2>2, OrderKept DEF Arrive, history
  <1>2. ASSUME NEW r \in Requests, Lock(r) PROVE Order'
    <2>1. Trying = {} /\ Trying' = {}
      <3>1. req'[r].pc = "scan" /\ mu' = r /\ mu = Nobody
        <4>1. PICK T : req[r] \in LocalsOf(T)
          BY Fields DEF IInv
        <4>2. req'[r] = [req[r] EXCEPT !.pc = "scan"]
          BY <1>2 DEF Lock, IInv, Shaped
        <4> QED
          BY <1>2, <4>1, <4>2 DEF Lock, LocalsOf
      <3> QED
        BY <1>0, <3>1 DEF Trying
    <2> QED
      BY <1>0, <1>2, <2>1, OrderKept DEF Lock, history
  <1>3. ASSUME NEW r \in Requests, Handle(r) PROVE Order'
    <2>1. /\ \E l : req' = [req EXCEPT ![r] = l]
          /\ mu' = mu /\ next' = next /\ req[r].pc \notin {"scan", "allow"}
      BY <1>3 DEF Handle, Reject, BadAddress, Respond, Abort, Record, Observe, Publish
    <2>2. Trying' = Trying
      BY <1>0, <2>1, TryingKept
    <2>3. UNCHANGED <<healthy, breaker, passed>> \/ CountPassed({})
      BY <1>3 DEF Handle, Reject, BadAddress, Respond, Abort, Record, Observe, Publish, history
    <2> QED
      BY <1>0, <2>1, <2>2, <2>3, OrderKept
  <1>4. CASE \E i \in Instances : PollState(i) \/ \E up \in BOOLEAN : SetHealthy(i, up)
    <2>1. CountPassed({}) /\ UNCHANGED <<req, mu, next>>
      BY <1>4 DEF PollState, SetHealthy
    <2> QED
      BY <1>0, <2>1, OrderKept DEF Trying
  <1>5. CASE Tick
    <2>1. CountPassed({}) /\ UNCHANGED <<req, mu, next>>
      BY <1>5 DEF Tick
    <2> QED
      BY <1>0, <2>1, OrderKept DEF Trying
  <1>6. CASE UNCHANGED vars
    BY <1>0, <1>6, OrderKept DEF vars, Trying
  <1> QED
    BY <1>1, <1>2, <1>3, <1>4, <1>5, <1>6, ReadHealthyOrders, TryAllowOrders DEF Next, Scan

\* registry.go:107-126: for any number of instances and requests, an instance that
\* stays available is passed over at most once for each of the others.
THEOREM RotationIsFair == Spec => []RoundRobin
  <1> USE LoadBalancerAssumption
  <1>1. Init => Order
    <2> SUFFICES ASSUME Init PROVE Order
      OBVIOUS
    <2>1. passed \in [Instances -> Nat] /\ \A i \in Instances : passed[i] = 0
      BY DEF Init
    <2>2. Trying = {} /\ next = 0 /\ N \in Nat
      BY DEF Init, Trying, LoadBalancerAssumption
    <2>3. \A i \in Instances : Ahead(i) = i /\ i < N /\ i \in Nat
      BY <2>2 DEF Ahead, Instances
    <2> QED
      BY <2>1, <2>2, <2>3 DEF Order, Ordered
  <1>2. IInv /\ Order /\ [Next]_vars => Order'
    BY OrderStep
  <1>3. IInv /\ Order => RoundRobin
    <2> SUFFICES ASSUME IInv, Order, NEW i \in Instances PROVE passed[i] < N
      BY DEF RoundRobin
    <2>1. next \in Instances /\ N \in Nat \ {0}
      BY DEF IInv, Located, LoadBalancerAssumption
    <2>2. Ahead(i) \in 0..N-1
      BY <2>1 DEF Ahead, Instances
    <2>3. Ordered(i) /\ passed[i] \in Nat
      BY DEF Order
    <2> QED
      BY <2>1, <2>2, <2>3 DEF Ordered
  <1> QED
    BY <1>1, <1>2, <1>3, BalancerInvariant, PTL DEF Spec

================================================================================
