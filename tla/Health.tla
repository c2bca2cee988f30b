------------------------------- MODULE Health -------------------------------
(***************************************************************************)
(* safety/pressure_guard.py and safety/health.py: the decode loop reads    *)
(* the allocator's pressure, classifies it, and records it together with   *)
(* migration results, recoveries and tripped breakers; between decode      *)
(* steps it polls the health.                                              *)
(*                                                                         *)
(* Pressures and thresholds are in units of 1/10000, rates in percent.     *)
(***************************************************************************)
EXTENDS Integers, Sequences, FiniteSets

CONSTANTS
    Pressures,      \* what an allocator may answer
    NaN,            \* the float that is not equal to itself
    Elevated,       \* PRESSURE_ELEVATED_THRESHOLD
    Saturated,      \* PRESSURE_SATURATED_THRESHOLD
    PEmergencies,   \* values of config.p_emergency
    Results,        \* status_int of the migrations recorded
    Levels,         \* level_int of the fallbacks recorded
    CodecName,      \* names of breakers
    MaxLen,         \* maxlen of the deques: 1000
    MinSample,      \* results before rates are looked at: 50
    CorruptRate, FailureRate, PressureRate  \* in percent: 10, 25, 25

One == 10000

OK == 0
FAILURE == 2
CORRUPT == 4
MigrationStatus == OK .. CORRUPT    \* SKIPPED is 1, FALLBACK is 3

NORMAL == 0
ELEVATED == 1
CRITICAL == 2
SATURATED == 3
PressureState == NORMAL .. SATURATED

HEALTHY == 0
DEGRADED == 1
UNHEALTHY == 2
MUSTRESTART == 3        \* HealthState.CRITICAL
HealthState == HEALTHY .. MUSTRESTART

ASSUME HealthAssumption ==
    /\ NaN \notin Int
    /\ Pressures \subseteq Int \cup {NaN}
    /\ 0 < Elevated /\ Elevated < Saturated /\ Saturated < One
    /\ Elevated \in Nat /\ Saturated \in Nat
    /\ PEmergencies \subseteq 1 .. One - 1
    /\ Results \subseteq MigrationStatus
    /\ MaxLen \in Nat \ {0}
    /\ MinSample \in 1 .. MaxLen
    /\ {CorruptRate, FailureRate, PressureRate} \subseteq 1 .. 100

VARIABLES
    p_emergency,    \* config.p_emergency, which is set once
    pressure,       \* the pressure observed last
    pressures,      \* _pressure_states, oldest first
    results,        \* _migration_results
    fallbacks,      \* _fallback_results
    tripped,        \* _tripped_breakers
    okRun,          \* history: results that were OK since another was recorded
    calmRun         \* history: the same for pressures below CRITICAL

recorded == <<pressures, results, fallbacks, tripped>>
vars == <<p_emergency, pressure, recorded, okRun, calmRun>>

Window(S) == {q \in Seq(S) : Len(q) <= MaxLen}

TypeOK ==
    /\ p_emergency \in PEmergencies
    /\ pressure \in Int \cup {NaN}
    /\ pressures \in Window(PressureState)
    /\ results \in Window(Results)
    /\ fallbacks \in Window(Levels)
    /\ tripped \subseteq CodecName
    /\ okRun \in 0 .. MaxLen
    /\ calmRun \in 0 .. MaxLen

-----------------------------------------------------------------------------
(* classify_pressure().                                                    *)
Clamped(p) ==
    IF p = NaN THEN One ELSE IF p < 0 THEN 0 ELSE IF p > One THEN One ELSE p

(* Defect: a pressure at the emergency threshold is not an emergency yet.  *)
ClassifyLate(p) ==
    IF Clamped(p) < Elevated THEN NORMAL
    ELSE IF Clamped(p) <= p_emergency THEN ELEVATED
    ELSE IF Clamped(p) < Saturated THEN CRITICAL
    ELSE SATURATED

Classify(p) ==
    IF Clamped(p) < Elevated THEN NORMAL
    ELSE IF Clamped(p) < p_emergency THEN ELEVATED
    ELSE IF Clamped(p) < Saturated THEN CRITICAL
    ELSE SATURATED

should_admit_new_request(s) == s \in {NORMAL, ELEVATED}
should_demote_aggressively(s) == s # NORMAL
should_offload_to_cpu(s) == s \in {CRITICAL, SATURATED}

-----------------------------------------------------------------------------
Occurrences(q, S) == Cardinality({i \in DOMAIN q : q[i] \in S})

(* Defect: the rate of corruption is taken of the results that failed.     *)
RatesOfTheFailed(q) ==
    LET failed == Occurrences(q, {FAILURE, CORRUPT})
    IN  IF 100 * Occurrences(q, {CORRUPT}) >= CorruptRate * failed /\ failed > 0
        THEN MUSTRESTART
        ELSE IF 100 * Occurrences(q, {FAILURE}) >= FailureRate * Len(q) THEN UNHEALTHY
        ELSE HEALTHY

(* Rules 1 and 2.                                                          *)
Rates(q) ==
    IF 100 * Occurrences(q, {CORRUPT}) >= CorruptRate * Len(q) THEN MUSTRESTART
    ELSE IF 100 * Occurrences(q, {FAILURE}) >= FailureRate * Len(q) THEN UNHEALTHY
    ELSE HEALTHY

(* Rule 3 for the pressure.                                                *)
Strained(q) ==
    100 * Occurrences(q, {CRITICAL, SATURATED}) > PressureRate * Len(q)

(* compute_health(), of the pressures q, the tripped breakers k and the    *)
(* results r: the first rule that applies.                                 *)
Health(q, k, r) ==
    IF r = <<>> THEN HEALTHY
    ELSE IF Len(r) >= MinSample /\ Rates(r) # HEALTHY THEN Rates(r)
    ELSE IF k # {} \/ Strained(q) THEN DEGRADED
    ELSE HEALTHY

compute_health == Health(pressures, tripped, results)

-----------------------------------------------------------------------------
Init ==
    /\ p_emergency \in PEmergencies
    /\ pressure = 0
    /\ pressures = <<>>
    /\ results = <<>>
    /\ fallbacks = <<>>
    /\ tripped = {}
    /\ okRun = 0
    /\ calmRun = 0

(* Defect: a full window takes nothing more.                               *)
PushedUntilFull(q, x) == IF Len(q) < MaxLen THEN Append(q, x) ELSE q

(* A deque with a maxlen gives up its oldest element.                      *)
Pushed(q, x) == IF Len(q) < MaxLen THEN Append(q, x) ELSE Append(Tail(q), x)

Longer(run) == IF run < MaxLen THEN run + 1 ELSE run

RecordPressure(p) ==
    /\ pressure' = p
    /\ pressures' = Pushed(pressures, Classify(p))
    /\ calmRun' = IF Classify(p) < CRITICAL THEN Longer(calmRun) ELSE 0
    /\ UNCHANGED <<p_emergency, results, fallbacks, tripped, okRun>>

RecordMigration(s) ==
    /\ results' = Pushed(results, s)
    /\ okRun' = IF s = OK THEN Longer(okRun) ELSE 0
    /\ UNCHANGED <<p_emergency, pressure, pressures, fallbacks, tripped, calmRun>>

(* Recorded, and read by nothing.                                          *)
RecordFallback(l) ==
    /\ fallbacks' = Pushed(fallbacks, l)
    /\ UNCHANGED <<p_emergency, pressure, pressures, results, tripped, okRun, calmRun>>

RecordTrippedBreaker(k) ==
    /\ tripped' = tripped \cup {k}
    /\ UNCHANGED <<p_emergency, pressure, pressures, results, fallbacks, okRun, calmRun>>

Reset ==
    /\ pressures' = <<>>
    /\ results' = <<>>
    /\ fallbacks' = <<>>
    /\ tripped' = {}
    /\ okRun' = 0
    /\ calmRun' = 0
    /\ UNCHANGED <<p_emergency, pressure>>

Next ==
    \/ \E p \in Pressures : RecordPressure(p)
    \/ \E s \in Results : RecordMigration(s)
    \/ \E l \in Levels : RecordFallback(l)
    \/ \E k \in CodecName : RecordTrippedBreaker(k)
    \/ Reset

Spec == Init /\ [][Next]_vars

-----------------------------------------------------------------------------
(* Guard and controller agree on what an emergency is, as long as the      *)
(* configured threshold is not in the NORMAL band: requests are turned     *)
(* away, and pages offloaded, exactly at and above p_emergency, where      *)
(* controller.py begins to lower the bar for demotions.                    *)
GuardAgreesWithController ==
    p_emergency >= Elevated =>
        /\ should_admit_new_request(Classify(pressure)) <=> Clamped(pressure) < p_emergency
        /\ should_offload_to_cpu(Classify(pressure)) <=> Clamped(pressure) >= p_emergency
        /\ ~should_admit_new_request(Classify(pressure))
                => should_demote_aggressively(Classify(pressure))

(* Bad results are forgotten in time: after a window of good ones only a   *)
(* breaker or the pressure keeps the system from being healthy; and after  *)
(* as many calm decode steps only a breaker does, which is never taken out *)
(* of the set again.                                                       *)
RecoversInTime ==
    okRun = MaxLen =>
        /\ compute_health \in {HEALTHY, DEGRADED}
        /\ calmRun = MaxLen => (compute_health = HEALTHY <=> tripped = {})

(* The verdict rests on the one failure that made the rate.                *)
JustReached(q) ==
    /\ compute_health = UNHEALTHY
    /\ 100 * (Occurrences(q, {FAILURE}) - 1) < FailureRate * Len(q)

(* Had any one result been more severe than it was, had one more breaker   *)
(* tripped, or any one pressure been worse, the health would not be better *)
(* than it is, with one exception: the status of results.py is ordered by  *)
(* severity, but only FAILURE counts as a failure, so a failure that had   *)
(* been a FALLBACK or a CORRUPT instead takes an UNHEALTHY verdict back    *)
(* where it just reached the rate, and nowhere else.                       *)
Worse(q, i, x) == [q EXCEPT ![i] = x]

WorseNeverHelps ==
    /\ \A i \in DOMAIN results : \A s \in results[i] .. CORRUPT :
        \/ Health(pressures, tripped, Worse(results, i, s)) >= compute_health
        \/ results[i] = FAILURE /\ s > FAILURE /\ JustReached(results)
    /\ \A i \in DOMAIN pressures : \A s \in pressures[i] .. SATURATED :
            Health(Worse(pressures, i, s), tripped, results) >= compute_health
    /\ \A k \in CodecName : Health(pressures, tripped \cup {k}, results) >= compute_health

(* No verdict on thin evidence: before it is told to drain or restart, the *)
(* system has seen the share of bad results in a full sample at least.     *)
EnoughEvidence ==
    /\ compute_health = MUSTRESTART =>
        100 * Occurrences(results, {CORRUPT}) >= CorruptRate * MinSample
    /\ compute_health = UNHEALTHY =>
        100 * Occurrences(results, {FAILURE}) >= FailureRate * MinSample

-----------------------------------------------------------------------------
(* What makes RecoversInTime inductive: the last entries of a window are   *)
(* those of the run, wherever the window has moved to.                     *)
Tails(q, run, Good) ==
    /\ run <= Len(q)
    /\ \A i \in DOMAIN q : i > Len(q) - run => q[i] \in Good

HealthInv ==
    /\ TypeOK
    /\ Tails(results, okRun, {OK})
    /\ Tails(pressures, calmRun, {NORMAL, ELEVATED})
=============================================================================
