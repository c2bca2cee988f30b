---------------------------- MODULE CircuitBreaker ----------------------------
(***************************************************************************)
(* safety/circuit_breaker.py: CircuitBreaker and CircuitBreakerRegistry,   *)
(* called by migrate() before it dispatches to a codec and with the        *)
(* outcome.  Instead of the monotonic clock's readings the model keeps the *)
(* time that has passed since: the age of each failure and of the trip.    *)
(* Ages are counted up to Horizon, past which nothing can tell them apart, *)
(* so time is not bounded.                                                 *)
(***************************************************************************)
EXTENDS Integers, Sequences, FiniteSets

CONSTANTS
    Key,            \* breaker names, one for each transition
    NoKey,
    Codec,
    CodecOf,        \* the codec that serves a transition, and may serve others
    Threshold,      \* 5
    Window,         \* window_seconds, 60
    Cooldown        \* cooldown_seconds, 60

ASSUME BreakerAssumption ==
    /\ NoKey \notin Key
    /\ CodecOf \in [Key -> Codec]
    /\ Threshold \in Nat \ {0}
    /\ Window \in Nat
    /\ Cooldown \in Nat
    /\ Cooldown >= Window

VARIABLES
    breaker,        \* key -> breaker; a key that is not in the registry
                    \* behaves as one whose breaker is new
    pending,        \* the transition migrate() has dispatched, or NoKey
    recent          \* history: key -> ages of the failures in that transition

vars == <<breaker, pending, recent>>

Horizon == Cooldown + 1
Age == 0 .. Horizon

Older(a) == IF a < Horizon THEN a + 1 ELSE a
OlderAll(ages) == [i \in DOMAIN ages |-> Older(ages[i])]

NewBreaker == [failures |-> <<>>, tripped |-> FALSE, tripped_at |-> 0]

Tripped == {k \in Key : breaker[k].tripped}

(* Failures are in the order of time.                                      *)
Chronological(ages) ==
    \A i, j \in DOMAIN ages : i <= j => ages[i] >= ages[j]

TypeOK ==
    /\ breaker \in [Key -> [failures : Seq(Age), tripped : BOOLEAN, tripped_at : Age]]
    /\ pending \in Key \cup {NoKey}
    /\ recent \in [Key -> Seq(Age)]
    /\ \A k \in Key : Chronological(breaker[k].failures) /\ Chronological(recent[k])

Init ==
    /\ breaker = [k \in Key |-> NewBreaker]
    /\ pending = NoKey
    /\ recent = [k \in Key |-> <<>>]

-----------------------------------------------------------------------------
(* Defect: the cooldown is never over.                                     *)
NeverCooledDown(b) == FALSE

(* is_tripped: the reader is the one who resets, once the cooldown is over.*)
CooledDown(b) == b.tripped_at >= Cooldown

IsTripped(b) == b.tripped /\ ~CooledDown(b)

(* Defect: the cooldown ends but the failures that led to it still count.  *)
AfterReadKeepsFailures(b) ==
    IF b.tripped /\ CooledDown(b) THEN [b EXCEPT !.tripped = FALSE] ELSE b

AfterRead(b) == IF b.tripped /\ CooledDown(b) THEN NewBreaker ELSE b

(* is_codec_available, by migrate(): refused ...                           *)
Refuse(k) ==
    /\ pending = NoKey
    /\ IsTripped(breaker[k])
    /\ UNCHANGED vars

(* Defect: dispatches whatever the breaker says.                           *)
DispatchAnyway(k) ==
    /\ pending = NoKey
    /\ breaker' = [breaker EXCEPT ![k] = AfterRead(@)]
    /\ pending' = k
    /\ UNCHANGED recent

(* ... or let through.                                                     *)
Dispatch(k) ==
    /\ pending = NoKey
    /\ ~IsTripped(breaker[k])
    /\ breaker' = [breaker EXCEPT ![k] = AfterRead(@)]
    /\ pending' = k
    /\ UNCHANGED recent

(* How many of the failures are at most w old: the edge of a window is     *)
(* inside.                                                                 *)
Count(ages, w) == Cardinality({i \in DOMAIN ages : ages[i] <= w})

(* A list is in the order of time: those within the window are its end.    *)
Youngest(ages, n) == SubSeq(ages, Len(ages) - n + 1, Len(ages))

(* Failures outside the window are dropped.                                *)
Prune(ages) == Youngest(ages, Count(ages, Window))

(* Defect: trips at the failure after the threshold.                       *)
RecordedLate(b) ==
    LET fs == Append(Prune(b.failures), 0)
    IN  IF Len(fs) > Threshold /\ ~b.tripped
        THEN [failures |-> fs, tripped |-> TRUE, tripped_at |-> 0]
        ELSE [b EXCEPT !.failures = fs]

(* Defect: old failures are not dropped before counting.                   *)
RecordedUnpruned(b) ==
    LET fs == Append(b.failures, 0)
    IN  IF Len(fs) >= Threshold /\ ~b.tripped
        THEN [failures |-> fs, tripped |-> TRUE, tripped_at |-> 0]
        ELSE [b EXCEPT !.failures = fs]

Recorded(b) ==
    LET fs == Append(Prune(b.failures), 0)
    IN  IF Len(fs) >= Threshold /\ ~b.tripped
        THEN [failures |-> fs, tripped |-> TRUE, tripped_at |-> 0]
        ELSE [b EXCEPT !.failures = fs]

RecordFailure ==
    /\ pending \in Key
    /\ breaker' = [breaker EXCEPT ![pending] = Recorded(@)]
    /\ recent' = [recent EXCEPT ![pending] = Append(@, 0)]
    /\ pending' = NoKey

RecordSuccess ==
    /\ pending \in Key
    /\ breaker' = [breaker EXCEPT ![pending].failures = Prune(@)]
    /\ pending' = NoKey
    /\ UNCHANGED recent

(* The call ends without having anything to say about the codec: no        *)
(* memory, no handle, or pinned in the meantime.                           *)
GiveUp ==
    /\ pending \in Key
    /\ pending' = NoKey
    /\ UNCHANGED <<breaker, recent>>

(* reset_all, by an operator.                                              *)
ResetAll ==
    /\ breaker' = [k \in Key |-> NewBreaker]
    /\ recent' = [k \in Key |-> <<>>]
    /\ UNCHANGED pending

(* Time passes.                                                            *)
Tick ==
    /\ breaker' = [k \in Key |->
                    [failures |-> OlderAll(breaker[k].failures),
                     tripped |-> breaker[k].tripped,
                     tripped_at |-> IF breaker[k].tripped
                                    THEN Older(breaker[k].tripped_at) ELSE 0]]
    /\ recent' = [k \in Key |-> LET ages == OlderAll(recent[k])
                                IN  Youngest(ages, Count(ages, Window))]
    /\ UNCHANGED pending

Ask(k) == Refuse(k) \/ Dispatch(k)

Next ==
    \/ \E k \in Key : Ask(k)
    \/ RecordFailure
    \/ RecordSuccess
    \/ GiveUp
    \/ ResetAll
    \/ Tick

Spec == Init /\ [][Next]_vars

(* Time goes on, a call ends, and the controller asks again for every      *)
(* transition it wants: desired_tiers() is evaluated in every decode step. *)
FairSpec ==
    /\ Spec
    /\ WF_vars(Tick)
    /\ WF_vars(RecordFailure \/ RecordSuccess \/ GiveUp)
    /\ \A k \in Key : SF_vars(Dispatch(k))

-----------------------------------------------------------------------------
(* A list of failures never outgrows the threshold, however long the       *)
(* server runs and whatever fails: what is let through is not tripped, and *)
(* what is not tripped is below the threshold.  (And types are kept.)      *)
FailuresBounded ==
    /\ TypeOK
    /\ \A k \in Key :
        /\ Len(breaker[k].failures) <= Threshold
        /\ ~breaker[k].tripped => Len(breaker[k].failures) < Threshold
        /\ pending = k => ~breaker[k].tripped

(* Whatever fails, succeeds or is reset in between, a transition that had  *)
(* the threshold of failures in the window is not dispatched; and when it  *)
(* is dispatched no transition that shares its codec had more than the     *)
(* threshold, so a codec of n transitions is dispatched after at most      *)
(* n * Threshold - 1 failures.  (At the edge of the window the cooldown is *)
(* over: the edge is left out.)                                            *)
FailingTransitionDisabled ==
    [][\A k \in Key : pending = NoKey /\ pending' = k =>
            /\ Count(recent[k], Window - 1) < Threshold
            /\ \A j \in Key : CodecOf[j] = CodecOf[k] =>
                    Count(recent[j], Window - 1) <= Threshold]_vars

(* "If a Triton codec fails 5 times in 60 seconds, it is disabled": a      *)
(* codec with that many failures in the window, in whichever transitions,  *)
(* is not dispatched.                                                      *)
CodecFailures(c) ==
    UNION {{k} \X {i \in DOMAIN recent[k] : recent[k][i] <= Window - 1} :
                k \in {j \in Key : CodecOf[j] = c}}

FailingCodecDisabled ==
    [][\A k \in Key : pending = NoKey /\ pending' = k =>
            Cardinality(CodecFailures(CodecOf[k])) < Threshold]_vars

(* A breaker does not trip on fewer failures than the threshold, or on     *)
(* failures further apart than the window, or on those of another          *)
(* transition of its codec.                                                *)
TripJustified ==
    [][\A k \in Key : ~breaker[k].tripped /\ breaker[k].tripped' =>
            Count(recent[k]', Window) >= Threshold]_vars

(* A tripped codec is not lost: asked for again, it is tried again.        *)
TripEnds == \A k \in Key : breaker[k].tripped ~> ~breaker[k].tripped

(* The set of tripped transitions is what migrate() takes it for.          *)
Abstract == INSTANCE Breakers WITH tripped <- Tripped

ImplementsBreakers == Abstract!BreakersSpec
=============================================================================
