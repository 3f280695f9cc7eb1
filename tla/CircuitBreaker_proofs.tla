------------------------- MODULE CircuitBreaker_proofs -------------------------
(***************************************************************************)
(* Proofs about CircuitBreaker, for every set of callers, every threshold  *)
(* and every recovery timeout.                                             *)
(***************************************************************************)
EXTENDS CircuitBreaker, Breaker_proofs, TLAPS

-----------------------------------------------------------------------------
(* Type correctness. *)

\* The initial breaker, callers and histories have their types.
LEMMA InitType == Init => TypeOK
  <1> SUFFICES ASSUME Init PROVE TypeOK
    OBVIOUS
  <1>1. breaker \in Breakers /\ call \in [Callers -> {"idle", "admitted", "probe"}]
    BY NewType DEF Init
  <1>2. streak \in 0..MaxFails /\ sinceTrip \in 0..Recovery /\ admissions \in 0..2
    BY Options DEF Init
  <1>3. holder \in Callers \cup {NoCaller} /\ orphaned \in BOOLEAN
    BY DEF Init
  <1> QED
    BY <1>1, <1>2, <1>3 DEF TypeOK

\* Every step keeps the types.
LEMMA NextType == TypeOK /\ [Next]_vars => TypeOK'
  <1> SUFFICES ASSUME TypeOK, [Next]_vars PROVE TypeOK'
    OBVIOUS
  <1> USE DEF TypeOK
  <1> HIDE DEF Breakers
  <1>s. Saturate(streak + 1, MaxFails) \in 0..MaxFails
    BY SaturateType, Options
  <1>t. Saturate(sinceTrip + 1, Recovery) \in 0..Recovery
    BY SaturateType, Options
  <1>a. Saturate(admissions + 1, 2) \in 0..2
    BY SaturateType
  <1>0. 0 \in 0..MaxFails /\ 0 \in 0..Recovery /\ 0 \in 0..2
    BY Options
  <1>o. ASSUME Observe
        PROVE  sinceTrip' \in 0..Recovery /\ admissions' \in 0..2
               /\ orphaned' \in BOOLEAN
    BY <1>o, <1>0 DEF Observe
  <1>1. ASSUME NEW c \in Callers, Admit(c) PROVE TypeOK'
    <2>1. breaker' \in Breakers
      BY <1>1, AllowFields DEF Admit
    <2>2. /\ call' \in [Callers -> {"idle", "admitted", "probe"}]
          /\ holder' \in Callers \cup {NoCaller}
      BY <1>1 DEF Admit
    <2>3. admissions' \in 0..2
      BY <1>0, <1>a, <1>1 DEF Admit
    <2> QED
      BY <1>1, <2>1, <2>2, <2>3 DEF Admit
  <1>2. ASSUME NEW c \in Callers, Reject(c) PROVE TypeOK'
    <2>1. breaker' \in Breakers
      BY <1>2, AllowFields DEF Reject
    <2> QED
      BY <1>o, <1>2, <2>1 DEF Reject
  <1>3. ASSUME NEW c \in Callers, RecordSuccess(c) PROVE TypeOK'
    <2>1. breaker' \in Breakers
      BY <1>3, SuccessFields DEF RecordSuccess
    <2> QED
      BY <1>0, <1>o, <1>3, <2>1 DEF RecordSuccess
  <1>4. ASSUME NEW c \in Callers, RecordFailure(c) PROVE TypeOK'
    <2>1. breaker' \in Breakers
      BY <1>4, FailureFields DEF RecordFailure
    <2> QED
      BY <1>s, <1>o, <1>4, <2>1 DEF RecordFailure
  <1>5. ASSUME NEW c \in Callers, Abandon(c) PROVE TypeOK'
    BY <1>5 DEF Abandon
  <1>6. CASE PollState
    <2>1. breaker' \in Breakers
      BY <1>6, TransitionFields DEF PollState
    <2> QED
      BY <1>o, <1>6, <2>1 DEF PollState
  <1>7. CASE Tick
    <2>1. breaker' \in Breakers
      BY <1>7, TickFields DEF Tick
    <2> QED
      BY <1>t, <1>7, <2>1 DEF Tick
  <1>8. CASE UNCHANGED vars
    BY <1>8 DEF vars
  <1> QED
    BY <1>1, <1>2, <1>3, <1>4, <1>5, <1>6, <1>7, <1>8 DEF Next

\* The breaker's fields, the callers and the histories keep their types in every
\* behaviour: no method leaves the counter, the clock or the flag out of range.
THEOREM TypeCorrect == Spec => []TypeOK
  <1> QED
    BY InitType, NextType, PTL DEF Spec

-----------------------------------------------------------------------------
(* The inductive invariant: the initial state, then each conjunct in turn.  *)

\* The invariant holds of a new breaker nobody has called.
LEMMA InitInv == Init => IInv
  <1> SUFFICES ASSUME Init PROVE IInv
    OBVIOUS
  <1>1. TypeOK
    BY InitType
  <1>2. /\ breaker.state = "closed" /\ breaker.fails = 0
        /\ breaker.elapsed = Recovery /\ breaker.probeInFlight = FALSE
    BY DEF Init, New
  <1>3. ClosedCountsRun
    BY <1>2, Options DEF Init, ClosedCountsRun
  <1>4. SlotAccounted /\ AdmissionsMatchFlag /\ ClockMatchesTrip
    BY <1>2 DEF Init, SlotAccounted, AdmissionsMatchFlag, ClockMatchesTrip
  <1> QED
    BY <1>1, <1>3, <1>4 DEF IInv

\* A claimed slot has its claimant, in flight or departed: a report by anybody
\* leaves half-open, and only Admit claims.
LEMMA SlotStep ==
    TypeOK /\ SlotAccounted /\ [Next]_vars => SlotAccounted'
  <1> SUFFICES ASSUME TypeOK, SlotAccounted, [Next]_vars,
                      breaker'.state = "half_open", breaker'.probeInFlight
               PROVE  holder' \in Callers /\ (orphaned' \/ call'[holder'] = "probe")
    BY DEF SlotAccounted
  <1> USE DEF TypeOK
  <1>1. ASSUME NEW c \in Callers, Admit(c)
        PROVE  holder' = c /\ call'[c] = "probe"
    BY <1>1 DEF Admit
  <1>2. ASSUME NEW c \in Callers, Reject(c)
        PROVE  breaker' = breaker /\ UNCHANGED <<call, holder, orphaned>>
    <2>1. breaker' = breaker
      BY <1>2, AllowFields DEF Reject
    <2> QED
      BY <1>2, <2>1 DEF Reject, Observe
  <1>3. ASSUME NEW c \in Callers, RecordSuccess(c) PROVE FALSE
    BY <1>3, SuccessFields DEF RecordSuccess, Breakers, States
  <1>4. ASSUME NEW c \in Callers, RecordFailure(c) PROVE FALSE
    BY <1>4, FailureNotHalfOpen DEF RecordFailure
  <1>5. ASSUME NEW c \in Callers, Abandon(c)
        PROVE  holder' \in Callers /\ (orphaned' \/ call'[holder'] = "probe")
    <2>1. breaker' = breaker /\ holder' = holder
      BY <1>5 DEF Abandon
    <2>2. holder \in Callers /\ (orphaned \/ call[holder] = "probe")
      BY <2>1 DEF SlotAccounted
    <2>3. CASE holder = c
      BY <1>5, <2>1, <2>2, <2>3 DEF Abandon
    <2>4. CASE holder # c
      BY <1>5, <2>1, <2>2, <2>4 DEF Abandon
    <2> QED
      BY <2>3, <2>4
  <1>6. CASE PollState
    <2>1. breaker \in Breakers /\ breaker' = maybeTransitionToHalfOpen(breaker)
      BY <1>6 DEF PollState
    <2>2. breaker' = breaker
      BY <2>1, PollOutcome
    <2> QED
      BY <1>6, <2>2 DEF PollState, Observe, SlotAccounted
  <1>7. CASE Tick
    <2>1. /\ breaker.state = "half_open" /\ breaker.probeInFlight
          /\ UNCHANGED <<call, holder, orphaned>>
      BY <1>7, TickFields DEF Tick
    <2> QED
      BY <2>1 DEF SlotAccounted
  <1>8. CASE UNCHANGED vars
    BY <1>8 DEF vars, SlotAccounted
  <1> QED
    BY <1>1, <1>2, <1>3, <1>4, <1>5, <1>6, <1>7, <1>8 DEF Next, SlotAccounted

\* The number admitted in this half-open period follows the flag: Admit sets
\* both, and nothing but leaving half-open clears either.
LEMMA AdmissionsStep ==
    TypeOK /\ AdmissionsMatchFlag /\ [Next]_vars => AdmissionsMatchFlag'
  <1> SUFFICES ASSUME TypeOK, AdmissionsMatchFlag, [Next]_vars
               PROVE  AdmissionsMatchFlag'
    OBVIOUS
  <1>0. breaker \in Breakers /\ breaker.state \in States
        /\ breaker.probeInFlight \in BOOLEAN
    BY DEF TypeOK, Breakers
  <1>1. ASSUME NEW c \in Callers, Admit(c) PROVE AdmissionsMatchFlag'
    <2>1. CASE breaker.state = "closed"
      <3>1. breaker' = breaker
        BY <1>0, <1>1, <2>1, AllowFields DEF Admit
      <3> QED
        BY <1>1, <2>1, <3>1 DEF Admit, AdmissionsMatchFlag
    <2>2. CASE breaker.state # "closed"
      <3>1. breaker'.state = "half_open" /\ breaker'.probeInFlight = TRUE
        BY <1>0, <1>1, <2>2, AllowFields DEF Admit
      <3>2. ~(breaker.state = "half_open" /\ breaker.probeInFlight)
        BY <1>0, <1>1, <2>2, AllowFields DEF Admit
      <3>3. admissions = 0
        BY <3>2 DEF AdmissionsMatchFlag
      <3>4. admissions' = 1
        BY <1>1, <3>1, <3>3 DEF Admit, Saturate
      <3> QED
        BY <3>1, <3>4 DEF AdmissionsMatchFlag
    <2> QED
      BY <2>1, <2>2
  <1>2. ASSUME NEW c \in Callers, Reject(c) PROVE AdmissionsMatchFlag'
    <2>1. breaker' = breaker
      BY <1>0, <1>2, AllowFields DEF Reject
    <2> QED
      BY <1>2, <2>1 DEF Reject, Observe, AdmissionsMatchFlag
  <1>3. ASSUME NEW c \in Callers, RecordSuccess(c) PROVE AdmissionsMatchFlag'
    <2>1. breaker'.state # "half_open"
      BY <1>0, <1>3, SuccessFields DEF RecordSuccess, States
    <2> QED
      BY <1>3, <2>1 DEF RecordSuccess, Observe, AdmissionsMatchFlag
  <1>4. ASSUME NEW c \in Callers, RecordFailure(c) PROVE AdmissionsMatchFlag'
    <2>1. breaker'.state # "half_open"
      BY <1>0, <1>4, FailureNotHalfOpen DEF RecordFailure
    <2> QED
      BY <1>4, <2>1 DEF RecordFailure, Observe, AdmissionsMatchFlag
  <1>5. ASSUME NEW c \in Callers, Abandon(c) PROVE AdmissionsMatchFlag'
    BY <1>5 DEF Abandon, AdmissionsMatchFlag
  <1>6. CASE PollState
    <2>1. CASE breaker' = breaker
      BY <1>6, <2>1 DEF PollState, Observe, AdmissionsMatchFlag
    <2>2. CASE breaker' # breaker
      <3>1. /\ breaker.state = "open"
            /\ breaker'.state = "half_open" /\ breaker'.probeInFlight = FALSE
        BY <1>0, <1>6, <2>2, PollOutcome DEF PollState
      <3> QED
        BY <1>6, <3>1 DEF PollState, Observe, AdmissionsMatchFlag
    <2> QED
      BY <2>1, <2>2
  <1>7. CASE Tick
    <2>1. /\ breaker'.state = breaker.state /\ admissions' = admissions
          /\ breaker'.probeInFlight = breaker.probeInFlight
      BY <1>0, <1>7, TickFields DEF Tick
    <2> QED
      BY <2>1 DEF AdmissionsMatchFlag
  <1>8. CASE UNCHANGED vars
    BY <1>8 DEF vars, AdmissionsMatchFlag
  <1> QED
    BY <1>1, <1>2, <1>3, <1>4, <1>5, <1>6, <1>7, <1>8 DEF Next

\* While closed, the counter is the run of failures at the end of all reports:
\* both grow with a failure and restart with a success, reports in other states
\* reach a closed breaker only through a success, and the run stops short of
\* the threshold because reaching it opens the breaker.
LEMMA RunStep ==
    TypeOK /\ ClosedCountsRun /\ [Next]_vars => ClosedCountsRun'
  <1> SUFFICES ASSUME TypeOK, ClosedCountsRun, [Next]_vars,
                      breaker'.state = "closed"
               PROVE  /\ breaker'.fails = streak' /\ streak' < Threshold
                      /\ breaker'.probeInFlight = FALSE
    BY DEF ClosedCountsRun
  <1>0. /\ breaker \in Breakers /\ breaker.state \in States
        /\ breaker.probeInFlight \in BOOLEAN
    BY DEF TypeOK, Breakers
  <1>u. ASSUME breaker' = breaker, streak' = streak
        PROVE  /\ breaker'.fails = streak' /\ streak' < Threshold
               /\ breaker'.probeInFlight = FALSE
    BY <1>0, <1>u DEF ClosedCountsRun
  <1>1. ASSUME NEW c \in Callers, Admit(c)
        PROVE  breaker' = breaker /\ streak' = streak
    BY <1>0, <1>1, AllowFields DEF Admit
  <1>2. ASSUME NEW c \in Callers, Reject(c)
        PROVE  breaker' = breaker /\ streak' = streak
    BY <1>0, <1>2, AllowFields DEF Reject
  <1>3. ASSUME NEW c \in Callers, RecordSuccess(c)
        PROVE  /\ breaker'.fails = streak' /\ streak' < Threshold
               /\ breaker'.probeInFlight = FALSE
    <2>1. breaker' = AfterSuccess(breaker) /\ streak' = 0
      BY <1>3 DEF RecordSuccess
    <2>2. CASE breaker.state = "half_open"
      <3>1. breaker'.fails = 0 /\ breaker'.probeInFlight = FALSE
        BY <1>0, <2>1, <2>2, SuccessFields
      <3> QED
        BY <2>1, <3>1, Options
    <2>3. CASE breaker.state = "closed"
      <3>1. breaker.probeInFlight = FALSE
        BY <1>0, <2>3 DEF ClosedCountsRun
      <3>2. breaker'.fails = 0 /\ breaker'.probeInFlight = breaker.probeInFlight
        BY <1>0, <2>1, <2>3, SuccessFields
      <3> QED
        BY <2>1, <3>1, <3>2, Options
    <2>4. CASE breaker.state = "open"
      BY <1>0, <2>1, <2>4, SuccessFields
    <2> QED
      BY <1>0, <2>2, <2>3, <2>4 DEF States
  <1>4. ASSUME NEW c \in Callers, RecordFailure(c)
        PROVE  /\ breaker'.fails = streak' /\ streak' < Threshold
               /\ breaker'.probeInFlight = FALSE
    <2>1. PICK n : n = Saturate(breaker.fails + 1, MaxFails)
      OBVIOUS
    <2>2. n \in 0..MaxFails
      BY <1>0, <2>1, SaturateType, Options DEF Breakers
    <2>3. breaker' = AfterFailure(breaker)
          /\ streak' = Saturate(streak + 1, MaxFails)
      BY <1>4 DEF RecordFailure
    <2>4. breaker.state = "closed" /\ n < Threshold
      <3>1. n < Threshold \/ n >= Threshold
        BY <2>2, Options
      <3>2. breaker.state # "open" /\ breaker.state # "half_open"
        <4>1. breaker.state = "open" => breaker' = breaker
          BY <1>0, <2>1, <2>3, FailureFields
        <4>2. breaker.state = "half_open" => breaker'.state = "open"
          BY <1>0, <2>1, <2>3, FailureFields
        <4> QED
          BY <1>0, <4>1, <4>2
      <3>3. breaker.state = "closed"
        BY <1>0, <3>2 DEF States
      <3>4. n >= Threshold => breaker'.state = "open"
        BY <1>0, <2>1, <2>3, <3>3, FailureFields
      <3> QED
        BY <1>0, <3>1, <3>3, <3>4
    <2>5. breaker.fails = streak /\ breaker.probeInFlight = FALSE
      BY <1>0, <2>4 DEF ClosedCountsRun
    <2>6. breaker \in Breakers
      BY <1>0
    <2>7. breaker'.fails = n /\ breaker'.probeInFlight = breaker.probeInFlight
      BY <2>1, <2>3, <2>4, <2>6, FailureFields
    <2> QED
      BY <2>1, <2>3, <2>4, <2>5, <2>7
  <1>5. ASSUME NEW c \in Callers, Abandon(c)
        PROVE  breaker' = breaker /\ streak' = streak
    BY <1>5 DEF Abandon
  <1>6. CASE PollState
    <2>1. breaker' = breaker /\ streak' = streak
      BY <1>0, <1>6, PollOutcome DEF PollState
    <2> QED
      BY <1>u, <2>1
  <1>7. CASE Tick
    <2>1. /\ breaker.state = "closed" /\ streak' = streak
          /\ breaker'.fails = breaker.fails
          /\ breaker'.probeInFlight = breaker.probeInFlight
      BY <1>0, <1>7, TickFields DEF Tick
    <2> QED
      BY <1>0, <2>1 DEF ClosedCountsRun
  <1>8. CASE UNCHANGED vars
    BY <1>u, <1>8 DEF vars
  <1> QED
    BY <1>u, <1>1, <1>2, <1>3, <1>4, <1>5, <1>6, <1>7, <1>8 DEF Next

\* openedAt is stamped exactly when the breaker opens, so while it is open the
\* age of the stamp is the time since it opened; and it leaves open only when
\* that age has reached the timeout.
LEMMA ClockStep ==
    TypeOK /\ ClockMatchesTrip /\ [Next]_vars => ClockMatchesTrip'
  <1> SUFFICES ASSUME TypeOK, ClockMatchesTrip, [Next]_vars
               PROVE  ClockMatchesTrip'
    OBVIOUS
  <1>0. /\ breaker \in Breakers /\ breaker.state \in States
        /\ breaker.elapsed \in 0..Recovery /\ sinceTrip \in 0..Recovery
    BY DEF TypeOK, Breakers
  <1>e. breaker.elapsed = sinceTrip
    BY DEF ClockMatchesTrip
  <1>u. ASSUME breaker' = breaker, Observe PROVE ClockMatchesTrip'
    BY <1>u DEF Observe, ClockMatchesTrip
  <1>h. ASSUME breaker.state = "open", breaker.elapsed >= Recovery,
               breaker'.elapsed = breaker.elapsed, sinceTrip' = sinceTrip
        PROVE  ClockMatchesTrip'
    <2>1. breaker.elapsed = Recovery
      BY <1>0, <1>h, Options
    <2> QED
      BY <1>e, <1>h, <2>1 DEF ClockMatchesTrip
  <1>1. ASSUME NEW c \in Callers, Admit(c) PROVE ClockMatchesTrip'
    <2>1. /\ breaker'.elapsed = breaker.elapsed /\ sinceTrip' = sinceTrip
          /\ \/ breaker.state = "open" /\ breaker.elapsed >= Recovery
             \/ breaker.state # "open" /\ breaker'.state # "open"
      BY <1>0, <1>1, AllowFields DEF Admit
    <2>2. CASE breaker.state # "open" /\ breaker'.state # "open"
      BY <2>1, <2>2 DEF ClockMatchesTrip
    <2> QED
      BY <1>h, <2>1, <2>2
  <1>2. ASSUME NEW c \in Callers, Reject(c) PROVE ClockMatchesTrip'
    BY <1>0, <1>2, <1>u, AllowFields DEF Reject
  <1>3. ASSUME NEW c \in Callers, RecordSuccess(c) PROVE ClockMatchesTrip'
    <2>1. breaker' = AfterSuccess(breaker) /\ Observe
      BY <1>3 DEF RecordSuccess
    <2>2. CASE breaker.state = "open"
      BY <1>0, <1>u, <2>1, <2>2, SuccessFields
    <2>3. CASE breaker.state # "open"
      <3>1. breaker'.state # "open" /\ breaker'.elapsed = breaker.elapsed
        BY <1>0, <2>1, <2>3, SuccessFields DEF States
      <3>2. sinceTrip' = sinceTrip
        BY <2>1, <3>1 DEF Observe
      <3> QED
        BY <2>3, <3>1, <3>2 DEF ClockMatchesTrip
    <2> QED
      BY <2>2, <2>3
  <1>4. ASSUME NEW c \in Callers, RecordFailure(c) PROVE ClockMatchesTrip'
    <2>1. breaker' = AfterFailure(breaker) /\ Observe
      BY <1>4 DEF RecordFailure
    <2>2. PICK n : n = Saturate(breaker.fails + 1, MaxFails)
      OBVIOUS
    <2>3. n < Threshold \/ n >= Threshold
      BY <1>0, <2>2, SaturateType, Options DEF Breakers
    <2>4. CASE breaker.state = "open"
      BY <1>0, <1>u, <2>1, <2>2, <2>4, FailureFields
    <2>5. CASE breaker.state # "open" /\ breaker'.state = "open"
      <3>1. breaker'.elapsed = 0
        BY <1>0, <2>1, <2>2, <2>3, <2>5, FailureFields DEF States
      <3>2. sinceTrip' = 0
        BY <2>1, <2>5 DEF Observe
      <3> QED
        BY <2>5, <3>1, <3>2 DEF ClockMatchesTrip
    <2>6. CASE breaker.state # "open" /\ breaker'.state # "open"
      <3>1. breaker'.elapsed = breaker.elapsed
        BY <1>0, <2>1, <2>2, <2>3, <2>6, FailureFields DEF States
      <3>2. sinceTrip' = sinceTrip
        BY <2>1, <2>6 DEF Observe
      <3> QED
        BY <2>6, <3>1, <3>2 DEF ClockMatchesTrip
    <2> QED
      BY <2>4, <2>5, <2>6
  <1>5. ASSUME NEW c \in Callers, Abandon(c) PROVE ClockMatchesTrip'
    BY <1>5 DEF Abandon, ClockMatchesTrip
  <1>6. CASE PollState
    <2>1. CASE breaker' = breaker
      BY <1>6, <1>u, <2>1 DEF PollState
    <2>2. CASE breaker' # breaker
      <3>1. /\ breaker.state = "open" /\ breaker.elapsed >= Recovery
            /\ breaker'.state = "half_open"
            /\ breaker'.elapsed = breaker.elapsed
        BY <1>0, <1>6, <2>2, PollOutcome DEF PollState
      <3>2. sinceTrip' = sinceTrip
        BY <1>6, <3>1 DEF PollState, Observe
      <3> QED
        BY <1>h, <3>1, <3>2
    <2> QED
      BY <2>1, <2>2
  <1>7. CASE Tick
    <2>1. /\ breaker'.state = breaker.state
          /\ breaker'.elapsed = Saturate(breaker.elapsed + 1, Recovery)
          /\ sinceTrip' = Saturate(sinceTrip + 1, Recovery)
      BY <1>0, <1>7, TickFields DEF Tick
    <2>2. Saturate(Recovery + 1, Recovery) = Recovery
      BY Options DEF Saturate
    <2> QED
      BY <1>e, <2>1, <2>2 DEF ClockMatchesTrip
  <1>8. CASE UNCHANGED vars
    BY <1>8 DEF vars, ClockMatchesTrip
  <1> QED
    BY <1>1, <1>2, <1>3, <1>4, <1>5, <1>6, <1>7, <1>8 DEF Next

\* The conjuncts together are inductive.
LEMMA InductiveInvariant == Spec => []IInv
  <1>1. IInv /\ [Next]_vars => IInv'
    BY NextType, SlotStep, AdmissionsStep, RunStep, ClockStep DEF IInv
  <1> QED
    BY InitInv, <1>1, PTL DEF Spec

-----------------------------------------------------------------------------
(* The safety properties. *)

\* circuitbreaker.go:111-133: while half-open with the flag set, the request
\* whose Allow set it is in flight or has left without reporting.
THEOREM SlotIsAccounted == Spec => []SlotAccounted
  BY InductiveInvariant, PTL DEF IInv

\* circuitbreaker.go:135-179: a closed breaker's failure count is the number of
\* failures reported since the last success, below the threshold.
THEOREM RunIsCounted == Spec => []ClosedCountsRun
  BY InductiveInvariant, PTL DEF IInv

\* circuitbreaker.go:124-129: one admission per half-open period, for any number
\* of callers racing for it and of late reports crossing it.
THEOREM OneProbe == Spec => []OneProbePerHalfOpen
  <1>1. IInv => OneProbePerHalfOpen
    BY DEF IInv, AdmissionsMatchFlag, OneProbePerHalfOpen
  <1> QED
    BY InductiveInvariant, <1>1, PTL

\* circuitbreaker.go:101-109: nobody is admitted until RecoveryTimeout after the
\* breaker last opened.
THEOREM CooldownIsRespected == Spec => []CooldownRespected
  <1>1. IInv => CooldownRespected
    <2> SUFFICES ASSUME IInv, sinceTrip < Recovery
                 PROVE  breaker.state = "open" /\ ~Allows(breaker)
      BY DEF CooldownRespected
    <2>1. breaker \in Breakers
      BY DEF IInv, TypeOK
    <2>2. breaker.state = "open" /\ breaker.elapsed = sinceTrip
      BY Options DEF IInv, ClockMatchesTrip
    <2>3. ~(breaker.elapsed >= Recovery)
      BY <2>1, <2>2, Options DEF Breakers
    <2> QED
      BY <2>1, <2>2, <2>3, AllowFields
  <1> QED
    BY InductiveInvariant, <1>1, PTL

\* circuitbreaker.go:135-149: a success closes only a half-open breaker, and a
\* closed breaker becomes half-open only through open.
THEOREM NoShortcutTaken == Spec => NoShortcut
  <1> DEFINE Step == /\ breaker.state = "open" => breaker'.state # "closed"
                     /\ breaker.state = "closed" => breaker'.state # "half_open"
  <1>1. TypeOK /\ [Next]_vars => [Step]_vars
    <2> SUFFICES ASSUME TypeOK, Next PROVE Step
      OBVIOUS
    <2>0. breaker \in Breakers /\ breaker.state \in States
      BY DEF TypeOK, Breakers
    <2>1. ASSUME NEW c \in Callers, Admit(c) PROVE Step
      BY <2>0, <2>1, AllowFields DEF Admit
    <2>2. ASSUME NEW c \in Callers, Reject(c) PROVE Step
      BY <2>0, <2>2, AllowFields DEF Reject
    <2>3. ASSUME NEW c \in Callers, RecordSuccess(c) PROVE Step
      BY <2>0, <2>3, SuccessFields DEF RecordSuccess
    <2>4. ASSUME NEW c \in Callers, RecordFailure(c) PROVE Step
      <3>1. breaker.state = "open" => breaker' = breaker
        BY <2>0, <2>4, FailureFields DEF RecordFailure
      <3>2. breaker'.state # "half_open"
        BY <2>0, <2>4, FailureNotHalfOpen DEF RecordFailure
      <3> QED
        BY <3>1, <3>2
    <2>5. ASSUME NEW c \in Callers, Abandon(c) PROVE Step
      BY <2>5 DEF Abandon
    <2>6. CASE PollState
      BY <2>0, <2>6, PollOutcome DEF PollState
    <2>7. CASE Tick
      BY <2>0, <2>7, TickFields DEF Tick
    <2> QED
      BY <2>1, <2>2, <2>3, <2>4, <2>5, <2>6, <2>7 DEF Next
  <1> QED
    BY TypeCorrect, <1>1, PTL DEF Spec, NoShortcut

-----------------------------------------------------------------------------
(* The breaker implements BreakerContract. *)

\* The contract's view of the breaker, and of who is in flight.
Permit == breaker.state = "half_open" /\ ~breaker.probeInFlight
Rested == breaker.elapsed >= Recovery
Busy   == {c \in Callers : call[c] # "idle"}

\* A caller that is admitted joins those in flight.
LEMMA Joins ==
    ASSUME TypeOK, NEW c \in Callers, NEW v \in {"admitted", "probe"},
           call' = [call EXCEPT ![c] = v]
    PROVE  Busy' = Busy \cup {c}
  BY DEF TypeOK, Busy

\* A caller that reports or is unwound leaves those in flight.
LEMMA Leaves ==
    ASSUME TypeOK, NEW c \in Callers, call' = [call EXCEPT ![c] = "idle"]
    PROVE  Busy' = Busy \ {c}
  BY DEF TypeOK, Busy

\* A step that keeps the mapped variables, but for caller c ending.
LEMMA LeaveStep ==
    ASSUME TypeOK, NEW c \in Callers, call[c] # "idle",
           call' = [call EXCEPT ![c] = "idle"],
           breaker'.state = breaker.state, Permit' = Permit, Rested' = Rested
    PROVE  Contract!Leave(c)
  BY Leaves DEF Contract!Leave, Permit, Rested, Busy

\* Each step of the breaker is a step of the contract, or stutters: Allow is
\* Pass, State() is OfferTrial, the tick that ends the cooldown is Rest, and a
\* report is Trip, Heal or Leave according to what it does to the state.
LEMMA StepImplements ==
    IInv /\ IInv' /\ [Next]_vars => [Contract!Next]_(Contract!vars)
  <1> SUFFICES ASSUME IInv, IInv', [Next]_vars
               PROVE  Contract!Next \/ UNCHANGED <<breaker.state, Permit, Rested, Busy>>
    BY DEF Contract!vars, Permit, Rested, Busy
  <1>0. /\ TypeOK /\ breaker \in Breakers /\ breaker.state \in States
        /\ breaker.elapsed \in 0..Recovery /\ breaker.probeInFlight \in BOOLEAN
    BY DEF IInv, TypeOK, Breakers
  <1>r. breaker.state # "open" => breaker.elapsed = Recovery
    BY DEF IInv, ClockMatchesTrip
  <1>k. ASSUME breaker' = breaker, call' = call
        PROVE  UNCHANGED <<breaker.state, Permit, Rested, Busy>>
    BY <1>k DEF Permit, Rested, Busy
  <1>1. ASSUME NEW c \in Callers, Admit(c) PROVE Contract!Pass(c)
    <2>1. Busy' = Busy \cup {c} /\ c \notin Busy
      BY <1>0, <1>1, Joins DEF Admit, Busy
    <2>2. breaker' = AfterAllow(breaker) /\ Allows(breaker)
      BY <1>1 DEF Admit
    <2>3. breaker'.elapsed = breaker.elapsed
      BY <1>0, <2>2, AllowFields
    <2>4. Rested' = Rested
      BY <2>3 DEF Rested
    <2>5. CASE breaker.state = "closed"
      <3>1. breaker'.state = "closed"
        BY <1>0, <2>2, <2>5, AllowFields
      <3>2. Permit' = FALSE
        BY <3>1 DEF Permit
      <3> QED
        BY <2>1, <2>4, <2>5, <3>1, <3>2 DEF Contract!Pass, Permit, Rested, Busy
    <2>6. CASE breaker.state # "closed"
      <3>1. breaker'.state = "half_open" /\ breaker'.probeInFlight = TRUE
        BY <1>0, <2>2, <2>6, AllowFields
      <3>2. Permit' = FALSE
        BY <3>1 DEF Permit
      <3>3. \/ breaker.state = "half_open" /\ Permit
            \/ breaker.state = "open" /\ Rested
        BY <1>0, <2>2, <2>6, AllowFields DEF Permit, Rested
      <3> QED
        BY <2>1, <2>4, <3>1, <3>2, <3>3 DEF Contract!Pass, Permit, Rested, Busy
    <2> QED
      BY <2>5, <2>6
  <1>2. ASSUME NEW c \in Callers, Reject(c)
        PROVE  UNCHANGED <<breaker.state, Permit, Rested, Busy>>
    BY <1>0, <1>2, <1>k, AllowFields DEF Reject
  <1>3. ASSUME NEW c \in Callers, RecordSuccess(c)
        PROVE  Contract!Leave(c) \/ Contract!Heal(c)
    <2>1. /\ breaker' = AfterSuccess(breaker) /\ call[c] # "idle"
          /\ call' = [call EXCEPT ![c] = "idle"]
      BY <1>3 DEF RecordSuccess
    <2>2. Rested' = Rested
      BY <1>0, <2>1, SuccessFields DEF Rested
    <2>3. CASE breaker.state = "half_open"
      <3>1. breaker'.state = "closed"
        BY <1>0, <2>1, <2>3, SuccessFields
      <3>2. Permit' = FALSE
        BY <3>1 DEF Permit
      <3>3. c \in Busy /\ Busy' = Busy \ {c}
        BY <1>0, <2>1, Leaves DEF Busy
      <3> QED
        BY <2>2, <2>3, <3>1, <3>2, <3>3 DEF Contract!Heal, Permit, Rested, Busy
    <2>4. CASE breaker.state # "half_open"
      <3>1. breaker'.state = breaker.state
        BY <1>0, <2>1, <2>4, SuccessFields DEF States
      <3>2. Permit' = Permit
        BY <2>4, <3>1 DEF Permit
      <3> QED
        BY <1>0, <2>1, <2>2, <3>1, <3>2, LeaveStep
    <2> QED
      BY <2>3, <2>4
  <1>4. ASSUME NEW c \in Callers, RecordFailure(c)
        PROVE  Contract!Leave(c) \/ Contract!Trip(c)
    <2>1. /\ breaker' = AfterFailure(breaker) /\ call[c] # "idle"
          /\ call' = [call EXCEPT ![c] = "idle"]
      BY <1>4 DEF RecordFailure
    <2>2. PICK n : n = Saturate(breaker.fails + 1, MaxFails)
      OBVIOUS
    <2>3. n < Threshold \/ n >= Threshold
      BY <1>0, <2>2, SaturateType, Options DEF Breakers
    <2>4. CASE breaker.state = "open"
      <3>1. breaker' = breaker
        BY <1>0, <2>1, <2>2, <2>4, FailureFields
      <3> QED
        BY <1>0, <2>1, <3>1, LeaveStep DEF Permit, Rested
    <2>5. CASE breaker.state = "closed" /\ n < Threshold
      <3>1. breaker'.state = "closed" /\ breaker'.elapsed = breaker.elapsed
        BY <1>0, <2>1, <2>2, <2>5, FailureFields
      <3>2. Permit' = Permit /\ Rested' = Rested
        BY <2>5, <3>1 DEF Permit, Rested
      <3> QED
        BY <1>0, <2>1, <2>5, <3>1, <3>2, LeaveStep
    <2>6. CASE \/ breaker.state = "closed" /\ n >= Threshold
               \/ breaker.state = "half_open"
      <3>1. breaker'.state = "open" /\ breaker'.elapsed = 0
        BY <1>0, <2>1, <2>2, <2>6, FailureFields
      <3>2. Permit' = FALSE /\ Rested' = FALSE
        BY <3>1, Options DEF Permit, Rested
      <3>3. c \in Busy /\ Busy' = Busy \ {c}
        BY <1>0, <2>1, Leaves DEF Busy
      <3> QED
        BY <2>6, <3>1, <3>2, <3>3 DEF Contract!Trip, Permit, Rested, Busy
    <2> QED
      BY <1>0, <2>3, <2>4, <2>5, <2>6 DEF States
  <1>5. ASSUME NEW c \in Callers, Abandon(c) PROVE Contract!Leave(c)
    BY <1>0, <1>5, LeaveStep DEF Abandon, Permit, Rested
  <1>6. CASE PollState
    <2>1. breaker' = maybeTransitionToHalfOpen(breaker) /\ call' = call
      BY <1>6 DEF PollState
    <2>2. CASE breaker' = breaker
      BY <1>k, <2>1, <2>2
    <2>3. CASE breaker' # breaker
      <3>1. /\ breaker.state = "open" /\ breaker.elapsed >= Recovery
            /\ breaker'.state = "half_open" /\ breaker'.probeInFlight = FALSE
            /\ breaker'.elapsed = breaker.elapsed
        BY <1>0, <2>1, <2>3, PollOutcome
      <3>2. Rested /\ Rested' = Rested /\ Permit' = TRUE
        BY <3>1 DEF Rested, Permit
      <3>3. Contract!OfferTrial
        BY <2>1, <3>1, <3>2 DEF Contract!OfferTrial, Permit, Rested
      <3> QED
        BY <3>3 DEF Contract!Next
    <2> QED
      BY <2>2, <2>3
  <1>7. CASE Tick
    <2>1. /\ breaker' = AfterTick(breaker) /\ call' = call
          /\ breaker'.state = breaker.state
          /\ breaker'.probeInFlight = breaker.probeInFlight
          /\ breaker'.elapsed = Saturate(breaker.elapsed + 1, Recovery)
      BY <1>0, <1>7, TickFields DEF Tick
    <2>2. Permit' = Permit /\ Busy' = Busy
      BY <2>1 DEF Permit, Busy
    <2>3. CASE Rested' = Rested
      BY <2>1, <2>2, <2>3
    <2>4. CASE Rested' # Rested
      <3>1. Rested => Rested'
        BY <1>0, <2>1, Options DEF Rested, Saturate
      <3>2. ~Rested /\ Rested'
        BY <2>4, <3>1 DEF Rested
      <3>3. breaker.state = "open"
        BY <1>r, <3>2, Options DEF Rested
      <3>4. Contract!Rest
        BY <2>1, <2>2, <3>2, <3>3 DEF Contract!Rest, Permit, Rested, Busy
      <3> QED
        BY <3>4 DEF Contract!Next
    <2> QED
      BY <2>3, <2>4
  <1>8. CASE UNCHANGED vars
    BY <1>8, <1>k DEF vars
  <1> QED
    BY <1>1, <1>2, <1>3, <1>4, <1>5, <1>6, <1>7, <1>8 DEF Next, Contract!Next

\* internal/circuitbreaker keeps the contract the proxy relies on, whatever the
\* number of callers and the order in which they overlap: nobody passes while
\* it rests, one caller passes per half-open period, and it opens and closes
\* only on a report of a caller that had passed.
THEOREM BreakerImplementsContract == Spec => ImplementsContract
  <1>1. Init => Contract!Init
    BY Options DEF Init, New, Contract!Init
  <1> QED
    BY InductiveInvariant, <1>1, StepImplements, PTL
       DEF Spec, ImplementsContract, Contract!Spec

==============================================================================
