----------------------------- MODULE Breaker_proofs -----------------------------
(***************************************************************************)
(* What New, Allow, RecordSuccess, RecordFailure, State and the clock      *)
(* leave of one breaker, for every threshold and recovery timeout: the     *)
(* lemmas that the proofs of CircuitBreaker and LoadBalancer rest on.      *)
(***************************************************************************)
EXTENDS Breaker, TLAPS

\* New's replacement of out-of-range options leaves a positive threshold, below
\* the point where the model's counter saturates, and a positive timeout.
LEMMA Options ==
    /\ Threshold \in Nat \ {0}
    /\ Recovery \in Nat \ {0}
    /\ MaxFails \in Nat
    /\ Threshold < MaxFails
  BY BreakerAssumption DEF BreakerAssumption, Threshold, Recovery

\* A saturating counter stays within its bound.
LEMMA SaturateType ==
    ASSUME NEW bound \in Nat, NEW n \in 0..bound
    PROVE  /\ Saturate(n + 1, bound) \in 1..bound \cup {bound}
           /\ Saturate(n + 1, bound) \in 0..bound
           /\ Saturate(n, bound) = n
  BY DEF Saturate

\* New returns a closed breaker with no failures, long rested.
LEMMA NewType == New \in Breakers
  BY Options DEF New, Breakers, States

\* Assigning one field of a breaker a value of its type leaves a breaker.
LEMMA SetField ==
    ASSUME NEW b \in Breakers
    PROVE  /\ \A s \in States : [b EXCEPT !.state = s] \in Breakers
           /\ \A n \in 0..MaxFails : [b EXCEPT !.fails = n] \in Breakers
           /\ \A e \in 0..Recovery : [b EXCEPT !.elapsed = e] \in Breakers
           /\ \A p \in BOOLEAN : [b EXCEPT !.probeInFlight = p] \in Breakers
  <1>1. \A s \in States : [b EXCEPT !.state = s] \in Breakers
    BY DEF Breakers
  <1>2. \A n \in 0..MaxFails : [b EXCEPT !.fails = n] \in Breakers
    BY DEF Breakers
  <1>3. \A e \in 0..Recovery : [b EXCEPT !.elapsed = e] \in Breakers
    BY DEF Breakers
  <1>4. \A p \in BOOLEAN : [b EXCEPT !.probeInFlight = p] \in Breakers
    BY DEF Breakers
  <1> QED
    BY <1>1, <1>2, <1>3, <1>4

\* What maybeTransitionToHalfOpen does, in terms of the fields.
LEMMA TransitionFields ==
    ASSUME NEW b \in Breakers, NEW r, r = maybeTransitionToHalfOpen(b)
    PROVE  /\ r \in Breakers
           /\ r.fails = b.fails /\ r.elapsed = b.elapsed
           /\ b.state # "open" \/ b.elapsed < Recovery => r = b
           /\ b.state = "open" /\ b.elapsed >= Recovery =>
                  r.state = "half_open" /\ r.probeInFlight = FALSE
  <1>1. CASE b.state = "open" /\ b.elapsed >= Recovery
    <2>1. r \in Breakers
      BY <1>1, Options DEF maybeTransitionToHalfOpen, Breakers, States
    <2>2. r.state = "half_open" /\ r.probeInFlight = FALSE
      BY <1>1 DEF maybeTransitionToHalfOpen, Breakers
    <2>3. r.fails = b.fails /\ r.elapsed = b.elapsed
      BY <1>1 DEF maybeTransitionToHalfOpen, Breakers
    <2> QED
      BY <1>1, <2>1, <2>2, <2>3, Options DEF Breakers
  <1>2. CASE ~(b.state = "open" /\ b.elapsed >= Recovery)
    BY <1>2, Options DEF maybeTransitionToHalfOpen, Breakers, States
  <1> QED
    BY <1>1, <1>2

\* When Allow admits, and what it leaves.
LEMMA AllowFields ==
    ASSUME NEW b \in Breakers, NEW r, r = AfterAllow(b)
    PROVE  /\ r \in Breakers
           /\ r.fails = b.fails /\ r.elapsed = b.elapsed
           /\ Allows(b) <=> \/ b.state = "closed"
                            \/ b.state = "half_open" /\ b.probeInFlight = FALSE
                            \/ b.state = "open" /\ b.elapsed >= Recovery
           /\ ~Allows(b) => r = b
           /\ b.state = "closed" => r = b
           /\ Allows(b) /\ b.state # "closed" =>
                  r.state = "half_open" /\ r.probeInFlight = TRUE
  <1> DEFINE t == maybeTransitionToHalfOpen(b)
  <1>1. CASE b.state = "closed"
    <2>1. t = b
      BY <1>1, TransitionFields
    <2> QED
      BY <1>1, <2>1 DEF AfterAllow, Allows
  <1>2. CASE b.state = "half_open"
    <2>1. t = b
      BY <1>2, TransitionFields
    <2> QED
      BY <1>2, <2>1, Options DEF AfterAllow, Allows, Breakers, States
  <1>3. CASE b.state = "open" /\ b.elapsed >= Recovery
    <2>1. /\ t \in Breakers /\ t.fails = b.fails /\ t.elapsed = b.elapsed
          /\ t.state = "half_open" /\ t.probeInFlight = FALSE
      BY <1>3, TransitionFields
    <2> HIDE DEF t
    <2>2. Allows(b) /\ r = [t EXCEPT !.probeInFlight = TRUE]
      BY <2>1 DEF AfterAllow, Allows, t
    <2>3. r \in Breakers
      BY <2>1, <2>2 DEF Breakers, States
    <2>4. r.state = "half_open" /\ r.fails = b.fails /\ r.elapsed = b.elapsed
      BY <2>1, <2>2 DEF Breakers
    <2>5. r.probeInFlight = TRUE
      BY <2>1, <2>2 DEF Breakers
    <2> QED
      BY <1>3, <2>2, <2>3, <2>4, <2>5
  <1>4. CASE b.state = "open" /\ b.elapsed < Recovery
    <2>1. t = b
      BY <1>4, TransitionFields
    <2> QED
      BY <1>4, <2>1, Options DEF AfterAllow, Allows, Breakers, States
  <1>5. b.state \in States /\ b.elapsed \in Nat
    BY Options DEF Breakers
  <1>6. \/ b.state = "closed" \/ b.state = "half_open"
        \/ b.state = "open" /\ b.elapsed >= Recovery
        \/ b.state = "open" /\ b.elapsed < Recovery
    BY <1>5, Options DEF States
  <1> QED
    BY <1>1, <1>2, <1>3, <1>4, <1>6

\* What RecordSuccess leaves.
LEMMA SuccessFields ==
    ASSUME NEW b \in Breakers, NEW r, r = AfterSuccess(b)
    PROVE  /\ r \in Breakers
           /\ r.elapsed = b.elapsed
           /\ b.state = "open" => r = b
           /\ b.state = "closed" =>
                  /\ r.state = "closed" /\ r.fails = 0
                  /\ r.probeInFlight = b.probeInFlight
           /\ b.state = "half_open" =>
                  r.state = "closed" /\ r.fails = 0 /\ r.probeInFlight = FALSE
  <1>1. CASE b.state = "open"
    BY <1>1, Options DEF AfterSuccess, Breakers, States
  <1>2. CASE b.state = "closed"
    BY <1>2, Options DEF AfterSuccess, Breakers, States
  <1>3. CASE b.state = "half_open"
    <2>1. r = [b EXCEPT !.state = "closed", !.fails = 0,
                        !.probeInFlight = FALSE]
      BY <1>3 DEF AfterSuccess
    <2>2. r \in Breakers
      <3> DEFINE b1 == [b EXCEPT !.state = "closed"]
                 b2 == [b1 EXCEPT !.fails = 0]
      <3>1. b1 \in Breakers
        BY SetField DEF States
      <3> HIDE DEF b1
      <3>2. b2 \in Breakers
        BY <3>1, SetField, Options
      <3> HIDE DEF b2
      <3>3. [b2 EXCEPT !.probeInFlight = FALSE] \in Breakers
        BY <3>2, SetField
      <3> QED
        BY <2>1, <3>3 DEF b1, b2
    <2>3. r.state = "closed" /\ r.fails = 0 /\ r.elapsed = b.elapsed
      BY <2>1 DEF Breakers
    <2>4. r.probeInFlight = FALSE
      BY <2>1 DEF Breakers
    <2> QED
      BY <1>3, <2>2, <2>3, <2>4
  <1> QED
    BY <1>1, <1>2, <1>3 DEF Breakers, States

\* What RecordFailure leaves; n is the count of the failure.
LEMMA FailureFields ==
    ASSUME NEW b \in Breakers, NEW r, r = AfterFailure(b),
           NEW n, n = Saturate(b.fails + 1, MaxFails)
    PROVE  /\ r \in Breakers
           /\ b.state = "open" => r = b
           /\ b.state = "closed" /\ n < Threshold =>
                  /\ r.state = "closed" /\ r.fails = n /\ r.elapsed = b.elapsed
                  /\ r.probeInFlight = b.probeInFlight
           /\ b.state = "closed" /\ n >= Threshold =>
                  /\ r.state = "open" /\ r.fails = n /\ r.elapsed = 0
                  /\ r.probeInFlight = b.probeInFlight
           /\ b.state = "half_open" =>
                  /\ r.state = "open" /\ r.fails = n /\ r.elapsed = 0
                  /\ r.probeInFlight = FALSE
  <1>1. n \in 0..MaxFails
    BY Options, SaturateType DEF Breakers
  <1>2. CASE b.state = "open"
    BY <1>2 DEF AfterFailure
  <1>3. CASE b.state = "half_open"
    <2>1. r = [b EXCEPT !.state = "open", !.fails = n, !.elapsed = 0,
                        !.probeInFlight = FALSE]
      BY <1>3 DEF AfterFailure
    <2>2. r \in Breakers
      <3> DEFINE b1 == [b EXCEPT !.state = "open"]
                 b2 == [b1 EXCEPT !.fails = n]
                 b3 == [b2 EXCEPT !.elapsed = 0]
      <3>1. b1 \in Breakers
        BY SetField DEF States
      <3> HIDE DEF b1
      <3>2. b2 \in Breakers
        BY <1>1, <3>1, SetField
      <3> HIDE DEF b2
      <3>3. b3 \in Breakers
        BY <3>2, SetField, Options
      <3> HIDE DEF b3
      <3>4. [b3 EXCEPT !.probeInFlight = FALSE] \in Breakers
        BY <3>3, SetField
      <3> QED
        BY <2>1, <3>4 DEF b1, b2, b3
    <2>3. r.state = "open" /\ r.fails = n /\ r.elapsed = 0
      BY <2>1 DEF Breakers
    <2>4. r.probeInFlight = FALSE
      BY <2>1 DEF Breakers
    <2> QED
      BY <1>3, <2>2, <2>3, <2>4
  <1>4. CASE b.state = "closed" /\ n < Threshold
    <2>1. r = [b EXCEPT !.fails = n]
      BY <1>1, <1>4, Options DEF AfterFailure
    <2>2. r \in Breakers
      BY <1>1, <2>1, Options DEF Breakers, States
    <2>3. r.fails = n /\ r.probeInFlight = b.probeInFlight
      BY <2>1 DEF Breakers
    <2>4. r.state = "closed" /\ r.elapsed = b.elapsed
      BY <1>4, <2>1 DEF Breakers
    <2> QED
      BY <1>1, <1>4, <2>2, <2>3, <2>4, Options
  <1>5. CASE b.state = "closed" /\ n >= Threshold
    <2>1. r = [b EXCEPT !.state = "open", !.fails = n, !.elapsed = 0]
      BY <1>1, <1>5, Options DEF AfterFailure
    <2>2. r \in Breakers
      <3> DEFINE b1 == [b EXCEPT !.state = "open"]
                 b2 == [b1 EXCEPT !.fails = n]
                 b3 == [b2 EXCEPT !.elapsed = 0]
      <3>1. b1 \in Breakers
        BY SetField DEF States
      <3> HIDE DEF b1
      <3>2. b2 \in Breakers
        BY <1>1, <3>1, SetField
      <3> HIDE DEF b2
      <3>3. b3 \in Breakers
        BY <3>2, SetField, Options
      <3> HIDE DEF b3
      <3> QED
        BY <2>1, <3>3 DEF b1, b2, b3
    <2>3. r.fails = n /\ r.probeInFlight = b.probeInFlight
      BY <2>1 DEF Breakers
    <2>4. r.state = "open" /\ r.elapsed = 0
      BY <2>1 DEF Breakers
    <2> QED
      BY <1>1, <1>5, <2>2, <2>3, <2>4, Options
  <1>6. b.state \in States
    BY DEF Breakers
  <1>7. \/ b.state = "open" \/ b.state = "half_open"
        \/ b.state = "closed" /\ n < Threshold
        \/ b.state = "closed" /\ n >= Threshold
    BY <1>1, <1>6, Options DEF States
  <1> QED
    BY <1>2, <1>3, <1>4, <1>5, <1>7

\* A failed probe opens the breaker for a full rest.
LEMMA ProbeFailureOpens ==
    ASSUME NEW b \in Breakers, b.state = "half_open"
    PROVE  AfterFailure(b).state = "open" /\ AfterFailure(b).elapsed = 0
  <1>1. PICK n : n = Saturate(b.fails + 1, MaxFails)
    OBVIOUS
  <1>2. PICK r : r = AfterFailure(b)
    OBVIOUS
  <1>3. r.state = "open" /\ r.elapsed = 0
    BY <1>1, <1>2, FailureFields
  <1> QED
    BY <1>2, <1>3

\* A report of failure never leaves the breaker half-open.
LEMMA FailureNotHalfOpen ==
    ASSUME NEW b \in Breakers
    PROVE  AfterFailure(b).state # "half_open"
  <1>1. PICK n : n = Saturate(b.fails + 1, MaxFails)
    OBVIOUS
  <1>2. n \in 0..MaxFails /\ b.state \in States
    BY <1>1, SaturateType, Options DEF Breakers
  <1>3. n < Threshold \/ n >= Threshold
    BY <1>2, Options
  <1> QED
    BY <1>1, <1>2, <1>3, FailureFields DEF States

\* State() leaves the breaker as it is or takes an elapsed one to a half-open
\* breaker with a free slot.
LEMMA PollOutcome ==
    ASSUME NEW b \in Breakers, NEW r, r = maybeTransitionToHalfOpen(b)
    PROVE  \/ r = b
           \/ /\ b.state = "open" /\ b.elapsed >= Recovery
              /\ r.state = "half_open" /\ r.probeInFlight = FALSE
              /\ r.elapsed = b.elapsed
  <1> DEFINE due == b.state = "open" /\ b.elapsed >= Recovery
  <1>1. CASE due
    <2>1. r.state = "half_open" /\ r.probeInFlight = FALSE
      BY <1>1 DEF maybeTransitionToHalfOpen, Breakers
    <2>2. r.elapsed = b.elapsed
      BY <1>1 DEF maybeTransitionToHalfOpen, Breakers
    <2> QED
      BY <1>1, <2>1, <2>2
  <1>2. CASE ~due
    BY <1>2 DEF maybeTransitionToHalfOpen
  <1> QED
    BY <1>1, <1>2

\* What the clock leaves.
LEMMA TickFields ==
    ASSUME NEW b \in Breakers, NEW r, r = AfterTick(b)
    PROVE  /\ r \in Breakers
           /\ r.state = b.state /\ r.fails = b.fails
           /\ r.probeInFlight = b.probeInFlight
           /\ r.elapsed = Saturate(b.elapsed + 1, Recovery)
  BY Options, SaturateType DEF AfterTick, Breakers, States, Saturate

\* A breaker the methods leave: while it is not open it has rested.
Sound(b) == b \in Breakers /\ (b.state # "open" => b.elapsed = Recovery)

\* New returns a sound breaker ...
LEMMA NewSound == Sound(New)
  BY NewType DEF Sound, New

\* ... and every method leaves one.
LEMMA StaysSound ==
    ASSUME NEW b, Sound(b)
    PROVE  /\ Sound(maybeTransitionToHalfOpen(b)) /\ Sound(AfterAllow(b))
           /\ Sound(AfterSuccess(b)) /\ Sound(AfterFailure(b)) /\ Sound(AfterTick(b))
  <1>0. /\ b \in Breakers /\ b.state \in States /\ b.elapsed \in 0..Recovery
        /\ b.state # "open" => b.elapsed = Recovery
        /\ Recovery \in Nat
    BY Options DEF Sound, Breakers
  <1>1. Sound(maybeTransitionToHalfOpen(b))
    <2>1. b.elapsed >= Recovery => b.elapsed = Recovery
      BY <1>0
    <2>2. PICK r : r = maybeTransitionToHalfOpen(b)
      OBVIOUS
    <2>3. r \in Breakers /\ r.elapsed = b.elapsed
      BY <1>0, <2>2, TransitionFields
    <2>4. b.state # "open" \/ b.elapsed < Recovery => r = b
      BY <1>0, <2>2, TransitionFields
    <2>5. r.state # "open" => r.elapsed = Recovery
      BY <1>0, <2>1, <2>3, <2>4
    <2> QED
      BY <2>2, <2>3, <2>5 DEF Sound
  <1>2. Sound(AfterAllow(b))
    <2>1. b.elapsed >= Recovery => b.elapsed = Recovery
      BY <1>0
    <2>2. PICK r : r = AfterAllow(b)
      OBVIOUS
    <2>3. /\ r \in Breakers /\ r.elapsed = b.elapsed
          /\ Allows(b) => b.state # "open" \/ b.elapsed >= Recovery
          /\ ~Allows(b) => r = b
      BY <1>0, <2>2, AllowFields DEF States
    <2>4. r.state # "open" => r.elapsed = Recovery
      BY <1>0, <2>1, <2>3
    <2> QED
      BY <2>2, <2>3, <2>4 DEF Sound
  <1>3. Sound(AfterSuccess(b))
    BY <1>0, SuccessFields DEF Sound, States
  <1>4. Sound(AfterFailure(b))
    <2>1. PICK n : n = Saturate(b.fails + 1, MaxFails)
      OBVIOUS
    <2>2. n < Threshold \/ n >= Threshold
      BY <1>0, <2>1, SaturateType, Options DEF Breakers
    <2> QED
      BY <1>0, <2>1, <2>2, FailureFields DEF Sound, States
  <1>5. Sound(AfterTick(b))
    <2>1. /\ AfterTick(b) \in Breakers /\ AfterTick(b).state = b.state
          /\ AfterTick(b).elapsed = Saturate(b.elapsed + 1, Recovery)
      BY <1>0, TickFields
    <2>2. b.elapsed = Recovery => Saturate(b.elapsed + 1, Recovery) = Recovery
      BY <1>0 DEF Saturate
    <2> QED
      BY <1>0, <2>1, <2>2 DEF Sound
  <1> QED
    BY <1>1, <1>2, <1>3, <1>4, <1>5

================================================================================
