---------------------------- MODULE HealthProofs ----------------------------
(***************************************************************************)
(* For every window, sample and rate: the guard's verdict is the           *)
(* controller's, a verdict needs its evidence, worse input never improves  *)
(* it, and after a window of good input it is healthy again.               *)
(***************************************************************************)
EXTENDS Health, FiniteSetTheorems, SequenceTheorems, TLAPS

-----------------------------------------------------------------------------
(* Classification.                                                         *)
LEMMA ClampedType == ASSUME HealthAssumption, NEW p \in Int \cup {NaN}
                     PROVE  Clamped(p) \in Int
BY DEF HealthAssumption, Clamped, One

LEMMA ClassifyType == ASSUME NEW p PROVE Classify(p) \in PressureState
BY DEF Classify, PressureState, NORMAL, ELEVATED, CRITICAL, SATURATED

LEMMA ClassifyAgrees ==
    ASSUME HealthAssumption, NEW p \in Int \cup {NaN},
           p_emergency \in PEmergencies, p_emergency >= Elevated
    PROVE  /\ Classify(p) \in {NORMAL, ELEVATED} <=> Clamped(p) < p_emergency
           /\ Classify(p) \in {CRITICAL, SATURATED} <=> Clamped(p) >= p_emergency
<1>1. Clamped(p) \in Int
  BY ClampedType
<1>2. p_emergency \in Int /\ Elevated \in Int /\ Saturated \in Int
  BY DEF HealthAssumption, One
<1>3. CASE Clamped(p) < Elevated
  <2>1. Classify(p) = NORMAL /\ Clamped(p) < p_emergency
    BY <1>1, <1>2, <1>3 DEF Classify
  <2>2. QED BY <2>1, <1>1, <1>2 DEF NORMAL, ELEVATED, CRITICAL, SATURATED
<1>4. CASE ~(Clamped(p) < Elevated) /\ Clamped(p) < p_emergency
  <2>1. Classify(p) = ELEVATED
    BY <1>4 DEF Classify
  <2>2. QED BY <2>1, <1>4, <1>1, <1>2 DEF NORMAL, ELEVATED, CRITICAL, SATURATED
<1>5. CASE ~(Clamped(p) < Elevated) /\ ~(Clamped(p) < p_emergency)
  <2>1. Classify(p) \in {CRITICAL, SATURATED}
    BY <1>5 DEF Classify
  <2>2. QED BY <2>1, <1>5, <1>1, <1>2 DEF NORMAL, ELEVATED, CRITICAL, SATURATED
<1>6. QED BY <1>3, <1>4, <1>5

LEMMA GuardHolds == ASSUME HealthAssumption, TypeOK PROVE GuardAgreesWithController
<1> SUFFICES ASSUME p_emergency >= Elevated
             PROVE  /\ should_admit_new_request(Classify(pressure))
                            <=> Clamped(pressure) < p_emergency
                    /\ should_offload_to_cpu(Classify(pressure))
                            <=> Clamped(pressure) >= p_emergency
                    /\ ~should_admit_new_request(Classify(pressure))
                            => should_demote_aggressively(Classify(pressure))
  BY DEF GuardAgreesWithController
<1>1. pressure \in Int \cup {NaN} /\ p_emergency \in PEmergencies
  BY DEF TypeOK
<1>2. QED BY <1>1, ClassifyAgrees
          DEF should_admit_new_request, should_offload_to_cpu, should_demote_aggressively

-----------------------------------------------------------------------------
(* Windows.                                                                *)
LEMMA PushedType ==
    ASSUME HealthAssumption, NEW S, NEW q \in Window(S), NEW x \in S
    PROVE  Pushed(q, x) \in Window(S)
<1>1. q \in Seq(S) /\ Len(q) <= MaxLen /\ Len(q) \in Nat /\ MaxLen \in Nat \ {0}
  BY DEF Window, HealthAssumption
<1>2. CASE Len(q) < MaxLen
  BY <1>1, <1>2 DEF Pushed, Window
<1>3. CASE ~(Len(q) < MaxLen)
  <2>1. q # <<>>
    BY <1>1, <1>3
  <2>2. Tail(q) \in Seq(S) /\ Len(Tail(q)) = Len(q) - 1
    BY <1>1, <2>1
  <2>3. QED BY <1>1, <1>3, <2>2 DEF Pushed, Window
<1>4. QED BY <1>2, <1>3

LEMMA PushedTails ==
    ASSUME HealthAssumption, NEW S, NEW q \in Window(S), NEW x \in S,
           NEW run \in 0 .. MaxLen, NEW Good, Tails(q, run, Good), x \in Good
    PROVE  Tails(Pushed(q, x), Longer(run), Good)
<1>1. q \in Seq(S) /\ Len(q) <= MaxLen /\ Len(q) \in Nat /\ MaxLen \in Nat \ {0}
  BY DEF Window, HealthAssumption
<1>2. run <= Len(q) /\ \A i \in 1 .. Len(q) : i > Len(q) - run => q[i] \in Good
  BY <1>1 DEF Tails
<1>3. CASE Len(q) < MaxLen
  <2>1. Pushed(q, x) = Append(q, x) /\ Longer(run) = run + 1
    BY <1>1, <1>2, <1>3 DEF Pushed, Longer
  <2>2. Len(Append(q, x)) = Len(q) + 1
    BY <1>1
  <2>3. ASSUME NEW i \in 1 .. Len(q) + 1, i > Len(q) + 1 - (run + 1)
        PROVE  Append(q, x)[i] \in Good
    BY <1>1, <1>2, <2>3
  <2>4. DOMAIN Append(q, x) = 1 .. Len(q) + 1
    BY <1>1
  <2>5. QED BY <1>1, <1>2, <2>1, <2>2, <2>3, <2>4 DEF Tails
<1>4. CASE ~(Len(q) < MaxLen)
  <2> DEFINE t == Tail(q)
  <2>1. Len(q) = MaxLen /\ q # <<>>
    BY <1>1, <1>4
  <2>2. t \in Seq(S) /\ Len(t) = MaxLen - 1 /\ \A i \in 1 .. MaxLen - 1 : t[i] = q[i + 1]
    BY <1>1, <2>1
  <2>3. Pushed(q, x) = Append(t, x)
    BY <1>4 DEF Pushed
  <2>4. Longer(run) \in Nat /\ Longer(run) <= MaxLen /\ Longer(run) <= run + 1
    BY <1>1 DEF Longer
  <2> HIDE DEF t
  <2>5. Append(t, x) \in Seq(S) /\ Len(Append(t, x)) = MaxLen /\ DOMAIN Append(t, x) = 1 .. MaxLen
    BY <2>2, <1>1
  <2>6. ASSUME NEW i \in 1 .. MaxLen, i > MaxLen - Longer(run)
        PROVE  Append(t, x)[i] \in Good
    <3>1. CASE i = MaxLen
      BY <3>1, <2>2, <1>1
    <3>2. CASE i # MaxLen
      <4>1. i \in 1 .. MaxLen - 1 /\ i + 1 \in 1 .. Len(q) /\ i + 1 > Len(q) - run
        BY <3>2, <2>6, <2>4, <2>1, <1>1
      <4>2. Append(t, x)[i] = q[i + 1]
        BY <4>1, <2>2, <1>1
      <4>3. QED BY <4>1, <4>2, <1>2
    <3>3. QED BY <3>1, <3>2
  <2>7. QED BY <2>3, <2>4, <2>5, <2>6 DEF Tails
<1>5. QED BY <1>3, <1>4

LEMMA NoTail ==
    ASSUME NEW S, NEW q \in Seq(S), NEW Good PROVE Tails(q, 0, Good)
BY DEF Tails

LEMMA LongerType == ASSUME HealthAssumption, NEW run \in 0 .. MaxLen
                    PROVE  Longer(run) \in 0 .. MaxLen
BY DEF HealthAssumption, Longer

LEMMA EmptyWindow == ASSUME HealthAssumption, NEW S
                     PROVE  <<>> \in Window(S)
BY DEF Window, HealthAssumption

-----------------------------------------------------------------------------
(* The invariant: types, and what the last entries of the windows are.     *)
LEMMA InitInv == HealthAssumption /\ Init => HealthInv
<1> SUFFICES ASSUME HealthAssumption, Init PROVE HealthInv
  OBVIOUS
<1>1. TypeOK
  <2>1. 0 \in Int /\ 0 \in 0 .. MaxLen
    BY DEF HealthAssumption
  <2>2. QED BY <2>1, EmptyWindow DEF Init, TypeOK
<1>2. Tails(<<>>, 0, {OK}) /\ Tails(<<>>, 0, {NORMAL, ELEVATED})
  BY DEF Tails
<1>3. QED BY <1>1, <1>2 DEF Init, HealthInv

LEMMA RecordPressureInv ==
    ASSUME HealthAssumption, HealthInv, NEW p \in Pressures, RecordPressure(p)
    PROVE  HealthInv'
<1> USE DEF RecordPressure
<1>1. TypeOK /\ Tails(results, okRun, {OK})
        /\ Tails(pressures, calmRun, {NORMAL, ELEVATED})
  BY DEF HealthInv
<1>2. p \in Int \cup {NaN} /\ Classify(p) \in PressureState
  BY ClassifyType DEF HealthAssumption
<1>3. pressures' \in Window(PressureState) /\ pressures' \in Seq(PressureState)
  BY <1>1, <1>2, PushedType DEF TypeOK, Window
<1>4. calmRun' \in 0 .. MaxLen
  <2>1. 0 \in 0 .. MaxLen
    BY DEF HealthAssumption
  <2>2. QED BY <1>1, <2>1, LongerType DEF TypeOK
<1>5. TypeOK'
  BY <1>1, <1>2, <1>3, <1>4 DEF TypeOK
<1>6. Tails(pressures', calmRun', {NORMAL, ELEVATED})
  <2>1. CASE Classify(p) < CRITICAL
    <3>1. Classify(p) \in {NORMAL, ELEVATED}
      BY <2>1, <1>2 DEF PressureState, NORMAL, ELEVATED, CRITICAL, SATURATED
    <3>2. QED BY <2>1, <3>1, <1>1, <1>2, PushedTails DEF TypeOK
  <2>2. CASE ~(Classify(p) < CRITICAL)
    BY <2>2, <1>3, NoTail
  <2>3. QED BY <2>1, <2>2
<1>7. QED BY <1>1, <1>5, <1>6 DEF HealthInv

LEMMA RecordMigrationInv ==
    ASSUME HealthAssumption, HealthInv, NEW s \in Results, RecordMigration(s)
    PROVE  HealthInv'
<1> USE DEF RecordMigration
<1>1. TypeOK /\ Tails(results, okRun, {OK})
        /\ Tails(pressures, calmRun, {NORMAL, ELEVATED})
  BY DEF HealthInv
<1>2. results' \in Window(Results) /\ results' \in Seq(Results)
  BY <1>1, PushedType DEF TypeOK, Window
<1>3. okRun' \in 0 .. MaxLen
  <2>1. 0 \in 0 .. MaxLen
    BY DEF HealthAssumption
  <2>2. QED BY <1>1, <2>1, LongerType DEF TypeOK
<1>4. TypeOK'
  BY <1>1, <1>2, <1>3 DEF TypeOK
<1>5. Tails(results', okRun', {OK})
  <2>1. CASE s = OK
    BY <2>1, <1>1, PushedTails DEF TypeOK
  <2>2. CASE s # OK
    BY <2>2, <1>2, NoTail
  <2>3. QED BY <2>1, <2>2
<1>6. QED BY <1>1, <1>4, <1>5 DEF HealthInv

LEMMA ResetInv == ASSUME HealthAssumption, HealthInv, Reset PROVE HealthInv'
<1> USE DEF Reset
<1>1. TypeOK'
  <2>1. 0 \in 0 .. MaxLen
    BY DEF HealthAssumption
  <2>2. QED BY <2>1, EmptyWindow DEF HealthInv, TypeOK
<1>2. Tails(<<>>, 0, {OK}) /\ Tails(<<>>, 0, {NORMAL, ELEVATED})
  BY DEF Tails
<1>3. QED BY <1>1, <1>2 DEF HealthInv

LEMMA StepInv == HealthAssumption /\ HealthInv /\ [Next]_vars => HealthInv'
<1> SUFFICES ASSUME HealthAssumption, HealthInv, [Next]_vars PROVE HealthInv'
  OBVIOUS
<1>1. ASSUME NEW p \in Pressures, RecordPressure(p) PROVE HealthInv'
  BY <1>1, RecordPressureInv
<1>2. ASSUME NEW s \in Results, RecordMigration(s) PROVE HealthInv'
  BY <1>2, RecordMigrationInv
<1>3. ASSUME NEW l \in Levels, RecordFallback(l) PROVE HealthInv'
  <2>1. fallbacks' \in Window(Levels)
    BY <1>3, PushedType DEF HealthInv, TypeOK, RecordFallback
  <2>2. QED BY <1>3, <2>1 DEF HealthInv, TypeOK, RecordFallback, Tails
<1>4. ASSUME NEW k \in CodecName, RecordTrippedBreaker(k) PROVE HealthInv'
  BY <1>4 DEF HealthInv, TypeOK, RecordTrippedBreaker, Tails
<1>5. CASE Reset
  BY <1>5, ResetInv
<1>6. CASE UNCHANGED vars
  BY <1>6 DEF vars, recorded, HealthInv, TypeOK, Tails
<1>7. QED BY <1>1, <1>2, <1>3, <1>4, <1>5, <1>6 DEF Next

(* The windows are what they are said to be.                               *)
THEOREM Windows == Spec => []HealthInv
<1>1. HealthAssumption
  BY HealthAssumption
<1>2. QED BY <1>1, InitInv, StepInv, PTL DEF Spec

-----------------------------------------------------------------------------
(* Counting.                                                               *)
LEMMA Counted ==
    ASSUME NEW S, NEW q \in Seq(S), NEW T
    PROVE  /\ IsFiniteSet({i \in DOMAIN q : q[i] \in T})
           /\ Occurrences(q, T) \in Nat
<1>1. DOMAIN q = 1 .. Len(q) /\ Len(q) \in Nat
  OBVIOUS
<1>2. IsFiniteSet(1 .. Len(q))
  BY <1>1, FS_Interval
<1>3. {i \in DOMAIN q : q[i] \in T} \subseteq 1 .. Len(q)
  BY <1>1
<1>4. IsFiniteSet({i \in DOMAIN q : q[i] \in T})
  BY <1>2, <1>3, FS_Subset
<1>5. QED BY <1>4, FS_CardinalityType DEF Occurrences

LEMMA NoneCounted ==
    ASSUME NEW q, NEW T, \A i \in DOMAIN q : q[i] \notin T
    PROVE  Occurrences(q, T) = 0
<1>1. {i \in DOMAIN q : q[i] \in T} = {}
  OBVIOUS
<1>2. QED BY <1>1, FS_EmptySet DEF Occurrences

LEMMA MoreCounted ==
    ASSUME NEW S, NEW q \in Seq(S), NEW r \in Seq(S), NEW T,
           DOMAIN q = DOMAIN r,
           \A i \in DOMAIN q : q[i] \in T => r[i] \in T
    PROVE  Occurrences(q, T) <= Occurrences(r, T)
<1>1. IsFiniteSet({i \in DOMAIN r : r[i] \in T})
  BY Counted
<1>2. {i \in DOMAIN q : q[i] \in T} \subseteq {i \in DOMAIN r : r[i] \in T}
  OBVIOUS
<1>3. QED BY <1>1, <1>2, FS_Subset DEF Occurrences

LEMMA RateTypes == ASSUME HealthAssumption
                   PROVE  /\ CorruptRate \in 1 .. 100 /\ FailureRate \in 1 .. 100
                          /\ PressureRate \in 1 .. 100
                          /\ CorruptRate \in Int /\ FailureRate \in Int
                          /\ PressureRate \in Int
BY DEF HealthAssumption

LEMMA Times ==
    ASSUME NEW a \in Nat, NEW b \in Nat, NEW c \in Nat, a <= b
    PROVE  c * a <= c * b /\ c * a \in Nat
OBVIOUS

-----------------------------------------------------------------------------
(* RecoversInTime.                                                         *)
LEMMA GoodWindow ==
    ASSUME HealthAssumption, NEW S, NEW q \in Window(S), NEW Good, NEW Bad,
           Tails(q, MaxLen, Good), Good \cap Bad = {}
    PROVE  Len(q) = MaxLen /\ Occurrences(q, Bad) = 0
<1>1. q \in Seq(S) /\ Len(q) \in Nat /\ Len(q) <= MaxLen /\ MaxLen \in Nat
  BY DEF Window, HealthAssumption
<1>2. Len(q) = MaxLen
  BY <1>1 DEF Tails
<1>3. \A i \in DOMAIN q : q[i] \in Good
  BY <1>1, <1>2 DEF Tails
<1>4. \A i \in DOMAIN q : q[i] \notin Bad
  BY <1>3
<1>5. QED BY <1>2, <1>4, NoneCounted

LEMMA RecoversHolds == ASSUME HealthAssumption, HealthInv PROVE RecoversInTime
<1> SUFFICES ASSUME okRun = MaxLen
             PROVE  /\ compute_health \in {HEALTHY, DEGRADED}
                    /\ calmRun = MaxLen => (compute_health = HEALTHY <=> tripped = {})
  BY DEF RecoversInTime
<1> USE DEF HEALTHY, DEGRADED, UNHEALTHY, MUSTRESTART
<1>1. results \in Window(Results) /\ pressures \in Window(PressureState)
        /\ Tails(results, okRun, {OK}) /\ Tails(pressures, calmRun, {NORMAL, ELEVATED})
  BY DEF HealthInv, TypeOK
<1>2. /\ MaxLen \in Nat \ {0} /\ CorruptRate \in 1 .. 100 /\ FailureRate \in 1 .. 100
      /\ PressureRate \in 1 .. 100
  BY DEF HealthAssumption
<1>3. {OK} \cap {CORRUPT} = {} /\ {OK} \cap {FAILURE} = {}
  BY DEF OK, CORRUPT, FAILURE
<1>4. /\ Len(results) = MaxLen
      /\ Occurrences(results, {CORRUPT}) = 0
      /\ Occurrences(results, {FAILURE}) = 0
  BY <1>1, <1>3, GoodWindow
<1>5. results # <<>>
  BY <1>2, <1>4
<1>6. CorruptRate * MaxLen > 0 /\ FailureRate * MaxLen > 0 /\ PressureRate * MaxLen > 0
  BY <1>2
<1>7. Rates(results) = HEALTHY
  <2>1. CorruptRate * MaxLen \in Int /\ FailureRate * MaxLen \in Int
    BY <1>2
  <2>2. /\ ~(100 * Occurrences(results, {CORRUPT}) >= CorruptRate * Len(results))
        /\ ~(100 * Occurrences(results, {FAILURE}) >= FailureRate * Len(results))
    BY <1>4, <1>6, <2>1
  <2>3. QED BY <2>2 DEF Rates
<1>8. compute_health = IF tripped # {} \/ Strained(pressures) THEN DEGRADED ELSE HEALTHY
  BY <1>5, <1>7 DEF compute_health, Health
<1>9. ASSUME calmRun = MaxLen PROVE ~Strained(pressures)
  <2>1. {NORMAL, ELEVATED} \cap {CRITICAL, SATURATED} = {}
    BY DEF NORMAL, ELEVATED, CRITICAL, SATURATED
  <2>2. Len(pressures) = MaxLen /\ Occurrences(pressures, {CRITICAL, SATURATED}) = 0
    BY <1>1, <1>9, <2>1, GoodWindow
  <2>3. QED BY <2>2, <1>2, <1>6 DEF Strained
<1>10. QED BY <1>8, <1>9

-----------------------------------------------------------------------------
(* EnoughEvidence.                                                         *)
LEMMA EvidenceHolds == ASSUME HealthAssumption, HealthInv PROVE EnoughEvidence
<1> USE DEF HEALTHY, DEGRADED, UNHEALTHY, MUSTRESTART
<1>1. results \in Seq(Results) /\ Len(results) \in Nat
  BY DEF HealthInv, TypeOK, Window
<1>2. MinSample \in Nat /\ CorruptRate \in Nat /\ FailureRate \in Nat
  BY DEF HealthAssumption
<1>3. /\ Occurrences(results, {CORRUPT}) \in Nat
      /\ Occurrences(results, {FAILURE}) \in Nat
  BY <1>1, Counted
<1>4. ASSUME compute_health \in {MUSTRESTART, UNHEALTHY}
      PROVE  Len(results) >= MinSample /\ Rates(results) = compute_health
  BY <1>4 DEF compute_health, Health
<1>5. ASSUME compute_health = MUSTRESTART
      PROVE  100 * Occurrences(results, {CORRUPT}) >= CorruptRate * MinSample
  <2>1. 100 * Occurrences(results, {CORRUPT}) >= CorruptRate * Len(results)
    BY <1>4, <1>5 DEF Rates
  <2>2. CorruptRate * MinSample <= CorruptRate * Len(results)
    BY <1>1, <1>2, <1>4, <1>5, Times
  <2>3. /\ CorruptRate * MinSample \in Int /\ CorruptRate * Len(results) \in Int
        /\ 100 * Occurrences(results, {CORRUPT}) \in Int
    BY <1>1, <1>2, <1>3
  <2>4. QED BY <2>1, <2>2, <2>3
<1>6. ASSUME compute_health = UNHEALTHY
      PROVE  100 * Occurrences(results, {FAILURE}) >= FailureRate * MinSample
  <2>1. 100 * Occurrences(results, {FAILURE}) >= FailureRate * Len(results)
    BY <1>4, <1>6 DEF Rates
  <2>2. FailureRate * MinSample <= FailureRate * Len(results)
    BY <1>1, <1>2, <1>4, <1>6, Times
  <2>3. /\ FailureRate * MinSample \in Int /\ FailureRate * Len(results) \in Int
        /\ 100 * Occurrences(results, {FAILURE}) \in Int
    BY <1>1, <1>2, <1>3
  <2>4. QED BY <2>1, <2>2, <2>3
<1>7. QED BY <1>5, <1>6 DEF EnoughEvidence

-----------------------------------------------------------------------------
(* WorseNeverHelps.                                                        *)
LEMMA WorseShape ==
    ASSUME NEW S, NEW q \in Seq(S), NEW i \in DOMAIN q, NEW x, x \in S
    PROVE  /\ Worse(q, i, x) \in Seq(S)
           /\ DOMAIN Worse(q, i, x) = DOMAIN q
           /\ Len(Worse(q, i, x)) = Len(q)
           /\ \A j \in DOMAIN q : Worse(q, i, x)[j] = IF j = i THEN x ELSE q[j]
BY DEF Worse

LEMMA Monotone ==
    ASSUME HealthAssumption, NEW q, NEW k, NEW r,
           NEW q2, NEW k2, NEW r2,
           r # <<>> => r2 # <<>>, Len(r2) = Len(r),
           Rates(r2) >= Rates(r), Strained(q) => Strained(q2), k \subseteq k2
    PROVE  Health(q2, k2, r2) >= Health(q, k, r)
<1>1. Rates(r) \in {HEALTHY, UNHEALTHY, MUSTRESTART} /\ Rates(r2) \in {HEALTHY, UNHEALTHY, MUSTRESTART}
  BY DEF Rates
<1>2. k # {} => k2 # {}
  OBVIOUS
<1>3. QED BY <1>1, <1>2 DEF Health, HEALTHY, DEGRADED, UNHEALTHY, MUSTRESTART

LEMMA RatesMonotone ==
    ASSUME HealthAssumption, NEW S, NEW r \in Seq(S), NEW r2 \in Seq(S), Len(r2) = Len(r),
           Occurrences(r, {CORRUPT}) <= Occurrences(r2, {CORRUPT}),
           Occurrences(r, {FAILURE}) <= Occurrences(r2, {FAILURE})
    PROVE  Rates(r2) >= Rates(r)
<1>1. /\ Occurrences(r, {CORRUPT}) \in Nat /\ Occurrences(r2, {CORRUPT}) \in Nat
      /\ Occurrences(r, {FAILURE}) \in Nat /\ Occurrences(r2, {FAILURE}) \in Nat
  BY Counted
<1>2. CorruptRate \in Int /\ FailureRate \in Int
  BY RateTypes
<1>3. CorruptRate * Len(r) \in Int /\ FailureRate * Len(r) \in Int
  <2>1. Len(r) \in Int
    OBVIOUS
  <2>2. QED BY <1>2, <2>1
<1>4. 100 * Occurrences(r, {CORRUPT}) >= CorruptRate * Len(r)
        => 100 * Occurrences(r2, {CORRUPT}) >= CorruptRate * Len(r)
  BY <1>1, <1>3
<1>5. 100 * Occurrences(r, {FAILURE}) >= FailureRate * Len(r)
        => 100 * Occurrences(r2, {FAILURE}) >= FailureRate * Len(r)
  BY <1>1, <1>3
<1>6. CASE 100 * Occurrences(r, {CORRUPT}) >= CorruptRate * Len(r)
  <2>1. Rates(r2) = MUSTRESTART
    BY <1>4, <1>6 DEF Rates
  <2>2. QED BY <2>1 DEF Rates, HEALTHY, UNHEALTHY, MUSTRESTART
<1>7. CASE ~(100 * Occurrences(r, {CORRUPT}) >= CorruptRate * Len(r))
  <2>1. CASE 100 * Occurrences(r, {FAILURE}) >= FailureRate * Len(r)
    <3>1. Rates(r) = UNHEALTHY /\ Rates(r2) \in {UNHEALTHY, MUSTRESTART}
      BY <1>5, <1>7, <2>1 DEF Rates
    <3>2. QED BY <3>1 DEF UNHEALTHY, MUSTRESTART
  <2>2. CASE ~(100 * Occurrences(r, {FAILURE}) >= FailureRate * Len(r))
    <3>1. Rates(r) = HEALTHY
      BY <1>7, <2>2 DEF Rates
    <3>2. QED BY <3>1 DEF Rates, HEALTHY, UNHEALTHY, MUSTRESTART
  <2>3. QED BY <2>1, <2>2
<1>8. QED BY <1>6, <1>7

(* The rates of as many results get better only with fewer failures, and   *)
(* only from UNHEALTHY.                                                    *)
LEMMA RatesDrop ==
    ASSUME HealthAssumption, NEW S, NEW r \in Seq(S), NEW r2 \in Seq(S), Len(r2) = Len(r),
           Occurrences(r, {CORRUPT}) <= Occurrences(r2, {CORRUPT}),
           ~(Rates(r2) >= Rates(r))
    PROVE  /\ Rates(r) = UNHEALTHY
           /\ ~(100 * Occurrences(r2, {FAILURE}) >= FailureRate * Len(r))
<1>1. Occurrences(r, {CORRUPT}) \in Nat /\ Occurrences(r2, {CORRUPT}) \in Nat
  BY Counted
<1>2. CorruptRate * Len(r) \in Int
  <2>1. Len(r) \in Int /\ CorruptRate \in Int
    BY RateTypes
  <2>2. QED BY <2>1
<1>3. 100 * Occurrences(r, {CORRUPT}) >= CorruptRate * Len(r)
        => 100 * Occurrences(r2, {CORRUPT}) >= CorruptRate * Len(r)
  BY <1>1, <1>2
<1>4. ~(100 * Occurrences(r2, {CORRUPT}) >= CorruptRate * Len(r))
  <2>1. SUFFICES ASSUME 100 * Occurrences(r2, {CORRUPT}) >= CorruptRate * Len(r) PROVE FALSE
    OBVIOUS
  <2>2. Rates(r2) = MUSTRESTART
    BY <2>1 DEF Rates
  <2>3. QED BY <2>2 DEF Rates, HEALTHY, UNHEALTHY, MUSTRESTART
<1>5. ~(100 * Occurrences(r2, {FAILURE}) >= FailureRate * Len(r))
  <2>1. SUFFICES ASSUME 100 * Occurrences(r2, {FAILURE}) >= FailureRate * Len(r) PROVE FALSE
    OBVIOUS
  <2>2. Rates(r2) = UNHEALTHY
    BY <1>4, <2>1 DEF Rates
  <2>3. Rates(r) \in {UNHEALTHY, HEALTHY}
    BY <1>3, <1>4 DEF Rates
  <2>4. QED BY <2>2, <2>3 DEF HEALTHY, UNHEALTHY
<1>6. Rates(r2) = HEALTHY
  BY <1>4, <1>5 DEF Rates
<1>7. Rates(r) = UNHEALTHY
  BY <1>3, <1>4, <1>6 DEF Rates, HEALTHY
<1>8. QED BY <1>5, <1>7

(* A change of one entry takes one occurrence away at most.                *)
LEMMA OneFewer ==
    ASSUME NEW S, NEW q \in Seq(S), NEW q2 \in Seq(S), DOMAIN q2 = DOMAIN q, NEW T,
           NEW i \in DOMAIN q, \A j \in DOMAIN q : j # i => q2[j] = q[j]
    PROVE  Occurrences(q, T) <= Occurrences(q2, T) + 1
<1> DEFINE A == {j \in DOMAIN q : q[j] \in T}
           B == {j \in DOMAIN q2 : q2[j] \in T}
<1>1. IsFiniteSet(B)
  BY Counted
<1>2. A \subseteq B \cup {i}
  OBVIOUS
<1>3. IsFiniteSet(B \cup {i}) /\ Cardinality(B \cup {i}) <= Cardinality(B) + 1
  <2> HIDE DEF B
  <2>1. IsFiniteSet(B \cup {i})
    BY <1>1, FS_AddElement
  <2>2. Cardinality(B) \in Nat
    BY <1>1, FS_CardinalityType
  <2>3. i \in B => Cardinality(B \cup {i}) = Cardinality(B)
    <3>1. i \in B => B \cup {i} = B
      OBVIOUS
    <3>2. QED BY <3>1
  <2>4. i \notin B => Cardinality(B \cup {i}) = Cardinality(B) + 1
    BY <1>1, FS_AddElement
  <2>5. QED BY <2>1, <2>2, <2>3, <2>4
<1>4. Cardinality(A) <= Cardinality(B \cup {i}) /\ Cardinality(A) \in Nat
  BY <1>2, <1>3, FS_Subset, FS_CardinalityType
<1>5. Cardinality(B) \in Nat /\ Cardinality(B \cup {i}) \in Nat
  BY <1>1, <1>3, FS_CardinalityType
<1>6. QED BY <1>3, <1>4, <1>5 DEF Occurrences

LEMMA StrainMonotone ==
    ASSUME HealthAssumption, NEW S, NEW q \in Seq(S), NEW q2 \in Seq(S), Len(q2) = Len(q),
           Occurrences(q, {CRITICAL, SATURATED}) <= Occurrences(q2, {CRITICAL, SATURATED}),
           Strained(q)
    PROVE  Strained(q2)
<1>1. /\ Occurrences(q, {CRITICAL, SATURATED}) \in Nat
      /\ Occurrences(q2, {CRITICAL, SATURATED}) \in Nat
  BY Counted
<1>2. PressureRate * Len(q) \in Int
  <2>1. Len(q) \in Int
    OBVIOUS
  <2>2. PressureRate \in Int
    BY RateTypes
  <2>3. QED BY <2>1, <2>2
<1>3. QED BY <1>1, <1>2 DEF Strained

LEMMA WorseHolds == ASSUME HealthAssumption, HealthInv PROVE WorseNeverHelps
<1>1. results \in Seq(MigrationStatus) /\ pressures \in Seq(PressureState)
  BY SeqMonotonic DEF HealthInv, TypeOK, Window, HealthAssumption
<1>2. Rates(results) >= Rates(results)
  BY DEF Rates, HEALTHY, UNHEALTHY, MUSTRESTART
<1>3. ASSUME NEW i \in DOMAIN results, NEW s \in results[i] .. CORRUPT
      PROVE  \/ Health(pressures, tripped, Worse(results, i, s)) >= compute_health
             \/ results[i] = FAILURE /\ s > FAILURE /\ JustReached(results)
  <2> DEFINE r2 == Worse(results, i, s)
  <2>1. results[i] \in MigrationStatus /\ s \in MigrationStatus /\ s >= results[i]
    BY <1>1 DEF MigrationStatus, OK, CORRUPT
  <2>2. /\ r2 \in Seq(MigrationStatus)
        /\ DOMAIN r2 = DOMAIN results /\ Len(r2) = Len(results)
        /\ \A j \in DOMAIN results : r2[j] = IF j = i THEN s ELSE results[j]
    <3>1. /\ Worse(results, i, s) \in Seq(MigrationStatus)
          /\ DOMAIN Worse(results, i, s) = DOMAIN results
          /\ Len(Worse(results, i, s)) = Len(results)
          /\ \A j \in DOMAIN results :
                Worse(results, i, s)[j] = IF j = i THEN s ELSE results[j]
      <4>1. results \in Seq(MigrationStatus)
        BY <1>1
      <4>2. QED BY <4>1, <2>1, WorseShape, SMTT(30)
    <3>2. QED BY <3>1
  <2> HIDE DEF r2
  <2>3. Occurrences(results, {CORRUPT}) <= Occurrences(r2, {CORRUPT})
    <3>1. \A j \in DOMAIN results : results[j] \in {CORRUPT} => r2[j] \in {CORRUPT}
      BY <2>1, <2>2 DEF MigrationStatus, OK, CORRUPT
    <3>2. QED BY <3>1, <1>1, <2>2, MoreCounted
  <2>4. results # <<>> => r2 # <<>>
    BY <1>1, <2>2
  <2>5. CASE Rates(r2) >= Rates(results)
    <3>1. Health(pressures, tripped, r2) >= Health(pressures, tripped, results)
      BY <2>2, <2>4, <2>5, Monotone
    <3>2. QED BY <3>1 DEF r2, compute_health
  <2>6. CASE ~(Rates(r2) >= Rates(results)) /\ Len(results) < MinSample
    <3>1. results # <<>>
      BY <1>1
    <3>2. ~(Len(results) >= MinSample) /\ ~(Len(r2) >= MinSample)
      BY <1>1, <2>2, <2>6 DEF HealthAssumption
    <3>3. Health(pressures, tripped, r2) = Health(pressures, tripped, results)
      BY <2>4, <3>1, <3>2 DEF Health
    <3>4. Health(pressures, tripped, results) \in Int
      BY <3>1, <3>2 DEF Health, HEALTHY, DEGRADED
    <3>5. QED BY <3>3, <3>4 DEF r2, compute_health
  <2>7. CASE ~(Rates(r2) >= Rates(results)) /\ ~(Len(results) < MinSample)
    <3>1. results[i] = FAILURE /\ s > FAILURE
      <4>1. SUFFICES ASSUME ~(results[i] = FAILURE /\ s > FAILURE) PROVE FALSE
        OBVIOUS
      <4>2. \A j \in DOMAIN results : results[j] \in {FAILURE} => r2[j] \in {FAILURE}
        BY <2>1, <2>2, <4>1 DEF MigrationStatus, OK, CORRUPT, FAILURE
      <4>3. Occurrences(results, {FAILURE}) <= Occurrences(r2, {FAILURE})
        BY <4>2, <1>1, <2>2, MoreCounted
      <4>4. QED BY <1>1, <2>2, <2>3, <4>3, <2>7, RatesMonotone
    <3>2. Occurrences(results, {FAILURE}) <= Occurrences(r2, {FAILURE}) + 1
      BY <1>1, <2>2, OneFewer
    <3>3. Rates(results) = UNHEALTHY /\ ~(100 * Occurrences(r2, {FAILURE}) >= FailureRate * Len(results))
      BY <1>1, <2>2, <2>3, <2>7, RatesDrop
    <3>4. compute_health = UNHEALTHY
      <4>1. results # <<>> /\ Len(results) >= MinSample
        BY <1>1, <2>7 DEF HealthAssumption
      <4>2. QED BY <3>3, <4>1 DEF compute_health, Health, UNHEALTHY, HEALTHY
    <3>5. 100 * (Occurrences(results, {FAILURE}) - 1) < FailureRate * Len(results)
      <4>1. FailureRate * Len(results) \in Int
        <5>1. Len(results) \in Int /\ FailureRate \in Int
          BY <1>1, RateTypes
        <5>2. QED BY <5>1
      <4>2. Occurrences(results, {FAILURE}) \in Nat /\ Occurrences(r2, {FAILURE}) \in Nat
        BY <1>1, <2>2, Counted
      <4>3. QED BY <3>2, <3>3, <4>1, <4>2
    <3>6. QED BY <3>1, <3>4, <3>5 DEF JustReached
  <2>8. QED BY <2>5, <2>6, <2>7
<1>4. ASSUME NEW i \in DOMAIN pressures, NEW s \in pressures[i] .. SATURATED
      PROVE  Health(Worse(pressures, i, s), tripped, results) >= compute_health
  <2> DEFINE q2 == Worse(pressures, i, s)
  <2>1. pressures[i] \in PressureState
    BY <1>1
  <2>2. s \in PressureState /\ s >= pressures[i]
    BY <2>1 DEF PressureState, NORMAL, SATURATED
  <2>3. /\ q2 \in Seq(PressureState) /\ DOMAIN q2 = DOMAIN pressures
        /\ Len(q2) = Len(pressures)
        /\ \A j \in DOMAIN pressures : q2[j] = IF j = i THEN s ELSE pressures[j]
    <3>1. /\ Worse(pressures, i, s) \in Seq(PressureState)
          /\ DOMAIN Worse(pressures, i, s) = DOMAIN pressures
          /\ Len(Worse(pressures, i, s)) = Len(pressures)
          /\ \A j \in DOMAIN pressures :
                Worse(pressures, i, s)[j] = IF j = i THEN s ELSE pressures[j]
      <4>1. pressures \in Seq(PressureState)
        BY <1>1
      <4>2. s \in PressureState
        BY <2>2
      <4>3. QED BY <4>1, <4>2, WorseShape, SMTT(30)
    <3>2. QED BY <3>1
  <2> HIDE DEF q2
  <2>4. \A j \in DOMAIN pressures :
            pressures[j] \in {CRITICAL, SATURATED} => q2[j] \in {CRITICAL, SATURATED}
    <3>1. pressures[i] \in {CRITICAL, SATURATED} => s \in {CRITICAL, SATURATED}
      BY <2>1, <2>2 DEF PressureState, NORMAL, CRITICAL, SATURATED
    <3>2. QED BY <2>3, <3>1
  <2>5. Strained(pressures) => Strained(q2)
    BY <1>1, <2>3, <2>4, MoreCounted, StrainMonotone
  <2>6. Health(q2, tripped, results) >= Health(pressures, tripped, results)
    BY <1>2, <2>5, Monotone
  <2>7. QED BY <2>6 DEF q2, compute_health
<1>5. ASSUME NEW k \in CodecName
      PROVE  Health(pressures, tripped \cup {k}, results) >= compute_health
  BY <1>2, Monotone DEF compute_health
<1>6. QED BY <1>3, <1>4, <1>5 DEF WorseNeverHelps

-----------------------------------------------------------------------------
(* Requests are turned away and pages offloaded exactly at and above the   *)
(* emergency threshold, for every threshold above the NORMAL band.         *)
THEOREM GuardAgrees == Spec => []GuardAgreesWithController
<1>1. HealthAssumption
  BY HealthAssumption
<1>2. HealthInv => GuardAgreesWithController
  BY <1>1, GuardHolds DEF HealthInv
<1>3. QED BY <1>2, Windows, PTL

(* Bad results and pressures are forgotten after a window of good ones.    *)
THEOREM Recovers == Spec => []RecoversInTime
<1>1. HealthAssumption
  BY HealthAssumption
<1>2. HealthInv => RecoversInTime
  BY <1>1, RecoversHolds
<1>3. QED BY <1>2, Windows, PTL

(* The system is not told to drain or restart on less than the share of    *)
(* bad results in a full sample.                                           *)
THEOREM Evidence == Spec => []EnoughEvidence
<1>1. HealthAssumption
  BY HealthAssumption
<1>2. HealthInv => EnoughEvidence
  BY <1>1, EvidenceHolds
<1>3. QED BY <1>2, Windows, PTL

(* The verdict is monotone in pressures and breakers, and in results up to *)
(* the failure that just makes the rate of failures.                       *)
THEOREM MonotoneVerdict == Spec => []WorseNeverHelps
<1>1. HealthAssumption
  BY HealthAssumption
<1>2. HealthInv => WorseNeverHelps
  BY <1>1, WorseHolds
<1>3. QED BY <1>2, Windows, PTL
=============================================================================
