------------------------- MODULE CircuitBreakerProofs -------------------------
(***************************************************************************)
(* CircuitBreaker implements Breakers: whatever the clock and the failure  *)
(* lists do, migrate() sees a set of tripped transitions, from which one   *)
(* disappears when it is let through and into which only the one that was  *)
(* let through can return.                                                 *)
(*                                                                         *)
(* And the lists count what they should: a breaker trips on failures of    *)
(* its transition within the window and on nothing else, and a transition  *)
(* that has failed that often is not dispatched.                           *)
(***************************************************************************)
EXTENDS CircuitBreaker, FiniteSetTheorems, TLAPS

USE BreakerAssumption DEF BreakerAssumption

(* The shape of the registry: Seq(Age) is left open, nothing here depends  *)
(* on the ages.                                                            *)
RegistryInv ==
    /\ DOMAIN breaker = Key
    /\ \A k \in Key :
        /\ breaker[k] = [failures |-> breaker[k].failures,
                         tripped |-> breaker[k].tripped,
                         tripped_at |-> breaker[k].tripped_at]
        /\ breaker[k].tripped \in BOOLEAN
    /\ breaker = [k \in Key |-> breaker[k]]
    /\ pending \in Key \cup {NoKey}
    /\ pending \in Key => ~breaker[pending].tripped

LEMMA RecordedEffect ==
    ASSUME NEW b, b.tripped \in BOOLEAN,
           b = [failures |-> b.failures, tripped |-> b.tripped,
                tripped_at |-> b.tripped_at]
    PROVE  LET r == Recorded(b)
           IN  /\ r = [failures |-> r.failures, tripped |-> r.tripped,
                       tripped_at |-> r.tripped_at]
               /\ r.tripped \in BOOLEAN
<1> DEFINE fs == Append(Prune(b.failures), 0)
<1>1. CASE Len(fs) >= Threshold /\ ~b.tripped
  BY <1>1 DEF Recorded
<1>2. CASE ~(Len(fs) >= Threshold /\ ~b.tripped)
  <2>1. Recorded(b) = [failures |-> fs, tripped |-> b.tripped, tripped_at |-> b.tripped_at]
    BY <1>2 DEF Recorded
  <2> HIDE DEF fs
  <2>2. QED BY <2>1
<1>3. QED BY <1>1, <1>2

LEMMA InitRegistry == Init => RegistryInv
<1> SUFFICES ASSUME Init PROVE RegistryInv
  OBVIOUS
<1>1. \A k \in Key : breaker[k] = [failures |-> <<>>, tripped |-> FALSE, tripped_at |-> 0]
  BY DEF Init, NewBreaker
<1>2. DOMAIN breaker = Key /\ breaker = [k \in Key |-> breaker[k]]
  BY DEF Init
<1>3. ASSUME NEW k \in Key
      PROVE  /\ breaker[k] = [failures |-> breaker[k].failures,
                              tripped |-> breaker[k].tripped,
                              tripped_at |-> breaker[k].tripped_at]
             /\ breaker[k].tripped = FALSE
  BY <1>1
<1>4. QED BY <1>2, <1>3 DEF Init, RegistryInv

(* What a read does: a breaker that is let through is not tripped.         *)
LEMMA ReadEffect ==
    ASSUME RegistryInv, NEW k \in Key, Dispatch(k)
    PROVE  /\ breaker' = [q \in Key |-> IF q = k THEN AfterRead(breaker[k]) ELSE breaker[q]]
           /\ ~AfterRead(breaker[k]).tripped
           /\ AfterRead(breaker[k]) \in {NewBreaker, breaker[k]}
           /\ pending = NoKey /\ pending' = k
BY DEF RegistryInv, Dispatch, IsTripped, AfterRead, NewBreaker

(* Each step, on the set of tripped transitions.                           *)
LEMMA Step ==
    ASSUME RegistryInv, [Next]_vars
    PROVE  RegistryInv' /\ [Abstract!BreakersNext]_(Abstract!breakerVars)
<1> USE DEF Abstract!BreakersNext, Abstract!breakerVars
<1>1. ASSUME NEW k \in Key, Refuse(k)
      PROVE  RegistryInv' /\ UNCHANGED <<Tripped, pending>>
  BY <1>1 DEF Refuse, vars, RegistryInv, Tripped
<1>2. ASSUME NEW k \in Key, Dispatch(k)
      PROVE  RegistryInv' /\ Abstract!Admit(k)
  <2>1. RegistryInv'
    <3>1. AfterRead(breaker[k]) = [failures |-> AfterRead(breaker[k]).failures,
                                   tripped |-> AfterRead(breaker[k]).tripped,
                                   tripped_at |-> AfterRead(breaker[k]).tripped_at]
      BY <1>2, ReadEffect DEF RegistryInv, NewBreaker
    <3>2. AfterRead(breaker[k]).tripped \in BOOLEAN
      <4>1. NewBreaker.tripped = FALSE
        BY DEF NewBreaker
      <4>2. breaker[k].tripped \in BOOLEAN
        BY DEF RegistryInv
      <4>3. CASE AfterRead(breaker[k]) = NewBreaker
        BY <4>1, <4>3
      <4>4. CASE AfterRead(breaker[k]) = breaker[k]
        BY <4>2, <4>4
      <4>5. AfterRead(breaker[k]) \in {NewBreaker, breaker[k]}
        BY <1>2, ReadEffect
      <4>6. QED BY <4>3, <4>4, <4>5
    <3> DEFINE read == AfterRead(breaker[k])
    <3>3. /\ breaker' = [q \in Key |-> IF q = k THEN read ELSE breaker[q]]
          /\ ~read.tripped /\ pending' = k
      BY <1>2, ReadEffect
    <3> HIDE DEF read
    <3>4. DOMAIN breaker' = Key /\ breaker' = [q \in Key |-> breaker'[q]]
      BY <3>3
    <3>5. ASSUME NEW q \in Key
          PROVE  /\ breaker'[q] = [failures |-> breaker'[q].failures,
                                   tripped |-> breaker'[q].tripped,
                                   tripped_at |-> breaker'[q].tripped_at]
                 /\ breaker'[q].tripped \in BOOLEAN
      <4>1. CASE q = k
        <5>1. breaker'[q] = read
          BY <3>3, <4>1
        <5>2. QED BY <5>1, <3>1, <3>2 DEF read
      <4>2. CASE q # k
        <5>1. breaker'[q] = breaker[q]
          BY <3>3, <4>2
        <5>2. QED BY <5>1 DEF RegistryInv
      <4>3. QED BY <4>1, <4>2
    <3>6. pending' \in Key /\ ~breaker'[pending'].tripped
      BY <3>3
    <3>7. QED BY <3>4, <3>5, <3>6 DEF RegistryInv
  <2>2. Tripped' = Tripped \ {k}
    BY <1>2, ReadEffect DEF Tripped
  <2>3. QED BY <1>2, <2>1, <2>2, ReadEffect DEF Abstract!Admit
<1>3. CASE RecordFailure
  <2>1. /\ pending \in Key /\ pending' = NoKey
        /\ breaker' = [q \in Key |-> IF q = pending THEN Recorded(breaker[q]) ELSE breaker[q]]
    BY <1>3 DEF RecordFailure, RegistryInv
  <2>2. RegistryInv'
    BY <2>1, RecordedEffect DEF RegistryInv
  <2>3. \A q \in Key : q # pending => breaker'[q] = breaker[q]
    BY <2>1
  <2>4. Tripped' \in {Tripped, Tripped \cup {pending}}
    <3>1. pending \notin Tripped
      BY <2>1 DEF RegistryInv, Tripped
    <3>2. QED BY <2>1, <2>3, <3>1 DEF Tripped
  <2>5. QED BY <2>1, <2>2, <2>4 DEF Abstract!Fail
<1>4. CASE RecordSuccess
  <2>1. /\ pending \in Key /\ pending' = NoKey
        /\ breaker' = [q \in Key |-> IF q = pending
                                    THEN [breaker[q] EXCEPT !.failures = Prune(@)]
                                    ELSE breaker[q]]
    BY <1>4 DEF RecordSuccess, RegistryInv
  <2>2. [breaker[pending] EXCEPT !.failures = Prune(@)]
            = [failures |-> Prune(breaker[pending].failures),
               tripped |-> breaker[pending].tripped,
               tripped_at |-> breaker[pending].tripped_at]
    BY <2>1 DEF RegistryInv
  <2>3. \A q \in Key : breaker'[q].tripped = breaker[q].tripped
    BY <2>1, <2>2
  <2>4. RegistryInv'
    BY <2>1, <2>2, <2>3 DEF RegistryInv
  <2>5. Tripped' = Tripped
    BY <2>3 DEF Tripped
  <2>6. QED BY <2>1, <2>4, <2>5 DEF Abstract!Pass
<1>5. CASE GiveUp
  BY <1>5 DEF GiveUp, RegistryInv, Tripped, Abstract!Pass
<1>6. CASE ResetAll
  <2>1. breaker' = [k \in Key |-> [failures |-> <<>>, tripped |-> FALSE, tripped_at |-> 0]]
        /\ pending' = pending
    BY <1>6 DEF ResetAll, NewBreaker
  <2>2. ASSUME NEW k \in Key
        PROVE  /\ breaker'[k] = [failures |-> breaker'[k].failures,
                                 tripped |-> breaker'[k].tripped,
                                 tripped_at |-> breaker'[k].tripped_at]
               /\ breaker'[k].tripped = FALSE
    BY <2>1
  <2>3. RegistryInv'
    BY <2>1, <2>2 DEF RegistryInv
  <2>4. Tripped' = {}
    BY <2>2 DEF Tripped
  <2>5. QED BY <2>1, <2>3, <2>4 DEF Abstract!ResetAll
<1>7. CASE Tick
  <2> DEFINE older(k) == [failures |-> OlderAll(breaker[k].failures),
                          tripped |-> breaker[k].tripped,
                          tripped_at |-> IF breaker[k].tripped
                                         THEN Older(breaker[k].tripped_at) ELSE 0]
  <2>1. breaker' = [k \in Key |-> older(k)] /\ pending' = pending
    BY <1>7 DEF Tick
  <2>2. ASSUME NEW k \in Key
        PROVE  /\ breaker'[k] = [failures |-> breaker'[k].failures,
                                 tripped |-> breaker'[k].tripped,
                                 tripped_at |-> breaker'[k].tripped_at]
               /\ breaker'[k].tripped = breaker[k].tripped
    BY <2>1
  <2>3. DOMAIN breaker' = Key /\ breaker' = [k \in Key |-> breaker'[k]]
    <3> HIDE DEF older
    <3> QED BY <2>1
  <2>4. RegistryInv'
    BY <2>1, <2>2, <2>3 DEF RegistryInv
  <2>5. Tripped' = Tripped
    BY <2>2 DEF Tripped
  <2>6. QED BY <2>1, <2>4, <2>5
<1>8. CASE UNCHANGED vars
  BY <1>8 DEF vars, RegistryInv, Tripped
<1>9. QED
  BY <1>1, <1>2, <1>3, <1>4, <1>5, <1>6, <1>7, <1>8 DEF Next, Ask

(* The breaker registry implements the set of tripped transitions that     *)
(* migrate() is written against, for any clock and any threshold.          *)
THEOREM RegistryImplementsBreakers == Spec => ImplementsBreakers
<1>1. Init => RegistryInv /\ Abstract!BreakersInit
  <2>1. Init => Tripped = {} /\ pending = NoKey
    BY DEF Init, Tripped, NewBreaker
  <2>2. QED BY <2>1, InitRegistry DEF Abstract!BreakersInit
<1>2. RegistryInv /\ [Next]_vars
        => RegistryInv' /\ [Abstract!BreakersNext]_(Abstract!breakerVars)
  BY Step
<1>3. QED BY <1>1, <1>2, PTL DEF Spec, ImplementsBreakers, Abstract!BreakersSpec

-----------------------------------------------------------------------------
(* Counting the failures of a window.                                      *)
Within(ages, w) == {i \in DOMAIN ages : ages[i] <= w}

LEMMA Ages == Age \subseteq Nat /\ 0 \in Age
BY DEF Age, Horizon

LEMMA Entries ==
    ASSUME NEW s \in Seq(Age), NEW i \in DOMAIN s
    PROVE  s[i] \in Nat /\ i \in 1 .. Len(s) /\ Len(s) \in Nat
<1>1. s[i] \in Age /\ i \in 1 .. Len(s) /\ Len(s) \in Nat
  OBVIOUS
<1>2. QED BY <1>1, Ages

LEMMA CountType ==
    ASSUME NEW s \in Seq(Age), NEW w \in Int
    PROVE  /\ IsFiniteSet(Within(s, w)) /\ Count(s, w) = Cardinality(Within(s, w))
           /\ Count(s, w) \in 0 .. Len(s)
<1>1. Within(s, w) \in SUBSET (1 .. Len(s)) /\ Len(s) \in Nat
  BY DEF Within
<1>2. IsFiniteSet(1 .. Len(s)) /\ Cardinality(1 .. Len(s)) = Len(s)
  BY <1>1, FS_Interval
<1>3. IsFiniteSet(Within(s, w)) /\ Cardinality(Within(s, w)) <= Len(s)
  BY <1>1, <1>2, FS_Subset
<1>4. Cardinality(Within(s, w)) \in Nat
  BY <1>3, FS_CardinalityType
<1>5. QED BY <1>1, <1>3, <1>4 DEF Count, Within

(* Counts are numbers.                                                     *)
LEMMA Counts ==
    ASSUME NEW r \in Seq(Age), NEW w \in Int
    PROVE  Count(r, w) \in Nat /\ Count(r, w) <= Len(r) /\ Len(r) \in Nat
BY CountType

(* A window that ends before now holds nothing.                            *)
LEMMA CountNothing ==
    ASSUME NEW s \in Seq(Age), NEW w \in Int, s = <<>> \/ w < 0
    PROVE  Count(s, w) = 0
<1>1. Within(s, w) = {}
  BY Entries DEF Within
<1>2. QED BY <1>1, CountType, FS_EmptySet

LEMMA CountMonotone ==
    ASSUME NEW s \in Seq(Age), NEW v \in Int, NEW w \in Int, v <= w
    PROVE  Count(s, v) <= Count(s, w)
<1>1. Within(s, v) \in SUBSET Within(s, w)
  <2>1. \A i \in DOMAIN s : s[i] <= v => s[i] <= w
    BY Entries
  <2>2. QED BY <2>1 DEF Within
<1>2. Cardinality(Within(s, v)) <= Cardinality(Within(s, w))
  BY <1>1, CountType, FS_Subset
<1>3. QED BY <1>2, CountType

(* A failure of this moment is in every window.                            *)
LEMMA CountAppend ==
    ASSUME NEW s \in Seq(Age), NEW w \in Nat
    PROVE  Count(Append(s, 0), w) = Count(s, w) + 1
<1>1. Append(s, 0) \in Seq(Age)
  BY Ages
<1>2. Within(Append(s, 0), w) = Within(s, w) \cup {Len(s) + 1}
  BY DEF Within
<1>3. Len(s) + 1 \notin Within(s, w)
  BY DEF Within
<1>4. Cardinality(Within(s, w) \cup {Len(s) + 1}) = Cardinality(Within(s, w)) + 1
  <2> DEFINE inside == Within(s, w)
             new == Len(s) + 1
  <2>1. new \notin inside /\ IsFiniteSet(inside)
    BY <1>3, CountType
  <2> HIDE DEF inside, new
  <2>2. Cardinality(inside \cup {new}) = Cardinality(inside) + 1
    BY <2>1, FS_AddElement
  <2>3. QED BY <2>2 DEF inside, new
<1>5. QED BY <1>1, <1>2, <1>4 DEF Count, Within

(* As time passes, a window holds what the next shorter one held.          *)
LEMMA CountOlder ==
    ASSUME NEW s \in Seq(Age), NEW w \in Int, w <= Window
    PROVE  Count(OlderAll(s), w) = Count(s, w - 1)
<1>1. \A a \in Age : Older(a) <= w <=> a <= w - 1
  BY DEF Older, Age, Horizon
<1>2. Within(OlderAll(s), w) = Within(s, w - 1)
  BY <1>1 DEF Within, OlderAll
<1>3. QED BY <1>2 DEF Count, Within

LEMMA OlderFacts ==
    ASSUME NEW s \in Seq(Age), Chronological(s)
    PROVE  /\ OlderAll(s) \in Seq(Age) /\ Len(OlderAll(s)) = Len(s)
           /\ Chronological(OlderAll(s))
<1>1. \A a \in Age : Older(a) \in Age
  BY DEF Older, Age, Horizon
<1>2. \A a, b \in Age : a >= b => Older(a) >= Older(b)
  BY DEF Older, Age, Horizon
<1>3. OlderAll(s) \in Seq(Age) /\ Len(OlderAll(s)) = Len(s)
  BY <1>1 DEF OlderAll
<1>4. Chronological(OlderAll(s))
  BY <1>2 DEF Chronological, OlderAll
<1>5. QED BY <1>3, <1>4

(* In the order of time, the failures of a window are the last ones.       *)
LEMMA CountEnd ==
    ASSUME NEW s \in Seq(Age), Chronological(s), NEW w \in Int, NEW i \in DOMAIN s
    PROVE  s[i] <= w <=> i > Len(s) - Count(s, w)
<1> DEFINE n == Len(s)
<1>1. n \in Nat /\ i \in 1 .. n /\ Count(s, w) \in 0 .. n
  BY CountType
<1>2. ASSUME s[i] <= w PROVE i > n - Count(s, w)
  <2>1. \A j \in i .. n : j \in DOMAIN s /\ s[j] \in Age /\ s[i] \in Age /\ s[j] <= s[i]
    BY <1>1 DEF Chronological
  <2>2. i .. n \in SUBSET Within(s, w)
    <3>1. ASSUME NEW j \in i .. n PROVE s[j] <= w
      <4>1. s[j] <= s[i] /\ s[j] \in Nat /\ s[i] \in Nat
        BY <2>1, Ages
      <4>2. QED BY <1>2, <4>1
    <3>2. QED BY <2>1, <3>1 DEF Within
  <2>3. Cardinality(i .. n) = n - i + 1
    BY <1>1, FS_Interval
  <2>4. Cardinality(i .. n) <= Cardinality(Within(s, w))
    BY <2>2, CountType, FS_Subset
  <2>5. QED BY <1>1, <2>3, <2>4, CountType
<1>3. ASSUME ~(s[i] <= w) PROVE ~(i > n - Count(s, w))
  <2>1. \A j \in 1 .. i : j \in DOMAIN s /\ s[j] \in Age /\ s[i] \in Age /\ s[j] >= s[i]
    BY <1>1 DEF Chronological
  <2>2. Within(s, w) \in SUBSET (i + 1 .. n)
    <3>1. ASSUME NEW j \in DOMAIN s, s[j] <= w PROVE j \in i + 1 .. n
      <4>1. j \in 1 .. n /\ s[j] \in Nat /\ s[i] \in Nat
        BY Entries
      <4>2. ~(j \in 1 .. i)
        BY <1>3, <2>1, <3>1, <4>1
      <4>3. QED BY <1>1, <4>1, <4>2
    <3>2. QED BY <3>1 DEF Within
  <2>3. IsFiniteSet(i + 1 .. n) /\ Cardinality(i + 1 .. n) = n - i
    <3> HIDE DEF n
    <3>1. i + 1 \in Int /\ n \in Int /\ (i + 1 > n => n - i = 0) /\ n - (i + 1) + 1 = n - i
      BY <1>1
    <3>2. QED BY <3>1, FS_Interval
  <2>4. Cardinality(Within(s, w)) <= n - i
    BY <2>2, <2>3, FS_Subset
  <2>5. QED BY <1>1, <2>4, CountType
<1>4. QED BY <1>2, <1>3

LEMMA PruneFacts ==
    ASSUME NEW s \in Seq(Age), Chronological(s)
    PROVE  /\ Prune(s) \in Seq(Age) /\ Chronological(Prune(s))
           /\ Len(Prune(s)) = Count(s, Window)
           /\ \A w \in Int : w <= Window => Count(Prune(s), w) = Count(s, w)
<1> DEFINE n == Len(s)
           c == Count(s, Window)
           d == n - c
<1>1. n \in Nat /\ c \in 0 .. n /\ d \in 0 .. n
  <2>1. n \in Nat /\ c \in 0 .. n
    BY CountType
  <2> HIDE DEF n, c
  <2>2. QED BY <2>1
<1>2. /\ Prune(s) \in Seq(Age) /\ Len(Prune(s)) = c
      /\ \A j \in 1 .. c : Prune(s)[j] = s[j + d]
  <2>1. Prune(s) = SubSeq(s, d + 1, n)
    BY DEF Prune, Youngest
  <2> HIDE DEF d, c
  <2>2. n - d = c
    BY <1>1 DEF d
  <2>3. QED BY <1>1, <2>1, <2>2
<1>3. \A j \in 1 .. c : j + d \in DOMAIN s
  BY <1>1
<1>4. Chronological(Prune(s))
  <2>1. DOMAIN Prune(s) = 1 .. c
    BY <1>2
  <2>2. \A i, j \in 1 .. c : i <= j => s[i + d] >= s[j + d]
    BY <1>1, <1>3 DEF Chronological
  <2>3. QED BY <1>2, <2>1, <2>2 DEF Chronological
<1>5. ASSUME NEW w \in Int, w <= Window PROVE Count(Prune(s), w) = Count(s, w)
  <2> DEFINE e == Count(s, w)
  <2>1. e \in 0 .. c
    <3>1. e <= c /\ e \in Nat
      BY <1>5, CountType, CountMonotone
    <3> HIDE DEF e, c
    <3>2. QED BY <1>1, <3>1
  <2>2. ASSUME NEW j \in 1 .. c
        PROVE  Prune(s)[j] <= w <=> j > c - e
    <3>1. s[j + d] <= w <=> j + d > n - e
      BY <1>3, CountEnd
    <3> HIDE DEF e, c, n
    <3>2. QED BY <1>1, <1>2, <2>1, <3>1
  <2> HIDE DEF e, c
  <2>3. Within(Prune(s), w) = c - e + 1 .. c
    <3>1. DOMAIN Prune(s) = 1 .. c
      BY <1>2
    <3>2. QED BY <1>1, <2>1, <2>2, <3>1 DEF Within
  <2>4. Cardinality(c - e + 1 .. c) = e
    BY <1>1, <2>1, FS_Interval
  <2>5. QED BY <1>2, <2>3, <2>4, CountType DEF e
<1>6. QED BY <1>2, <1>4, <1>5 DEF c

(* What record_failure() makes of a list.                                  *)
LEMMA RecordedFacts ==
    ASSUME NEW s \in Seq(Age), Chronological(s)
    PROVE  LET fs == Append(Prune(s), 0)
           IN  /\ fs \in Seq(Age) /\ Chronological(fs)
               /\ Len(fs) = Count(s, Window) + 1
               /\ \A w \in 0 .. Window : Count(fs, w) = Count(s, w) + 1
<1> DEFINE p == Prune(s)
           fs == Append(p, 0)
<1>1. /\ p \in Seq(Age) /\ Chronological(p) /\ Len(p) = Count(s, Window)
      /\ \A w \in 0 .. Window : Count(p, w) = Count(s, w)
  BY PruneFacts
<1> HIDE DEF p
<1>2. fs \in Seq(Age) /\ Len(fs) = Len(p) + 1
  BY <1>1, Ages
<1>3. Chronological(fs)
  <2>1. \A i \in DOMAIN fs : fs[i] \in Age
    BY <1>2
  <2>2. \A i \in DOMAIN p : fs[i] = p[i]
    BY <1>1
  <2>3. DOMAIN fs = DOMAIN p \cup {Len(p) + 1} /\ fs[Len(p) + 1] = 0
    BY <1>1
  <2> HIDE DEF fs
  <2>4. QED BY <1>1, <2>1, <2>2, <2>3 DEF Chronological, Age
<1>4. \A w \in 0 .. Window : Count(fs, w) = Count(p, w) + 1
  BY <1>1, CountAppend
<1>5. QED BY <1>1, <1>2, <1>3, <1>4 DEF p

-----------------------------------------------------------------------------
(* A breaker by itself.                                                    *)
Breaker == [failures : Seq(Age), tripped : BOOLEAN, tripped_at : Age]

Good(b) ==
    /\ b \in Breaker
    /\ Chronological(b.failures)
    /\ Len(b.failures) <= Threshold
    /\ ~b.tripped => Len(b.failures) < Threshold

LEMMA GoodNew == Good(NewBreaker) /\ NewBreaker.failures = <<>> /\ ~NewBreaker.tripped
<1>1. NewBreaker \in Breaker
  <2>1. <<>> \in Seq(Age) /\ 0 \in Age
    BY Ages
  <2>2. QED BY <2>1 DEF NewBreaker, Breaker
<1>2. QED BY <1>1 DEF Good, NewBreaker, Chronological

LEMMA GoodRead ==
    ASSUME NEW b, Good(b), ~IsTripped(b)
    PROVE  /\ Good(AfterRead(b)) /\ ~AfterRead(b).tripped
           /\ AfterRead(b) = IF b.tripped THEN NewBreaker ELSE b
BY GoodNew DEF AfterRead, IsTripped

(* A failure is added to a breaker that is not tripped.                    *)
LEMMA GoodRecorded ==
    ASSUME NEW b, Good(b), ~b.tripped
    PROVE  /\ Good(Recorded(b))
           /\ \A w \in 0 .. Window :
                    Count(Recorded(b).failures, w) = Count(b.failures, w) + 1
           /\ Recorded(b).tripped =>
                    /\ Count(b.failures, Window) + 1 >= Threshold
                    /\ Recorded(b).tripped_at = 0
<1> DEFINE old == b.failures
           fs == Append(Prune(old), 0)
<1>1. old \in Seq(Age) /\ Chronological(old) /\ Len(old) < Threshold
  BY DEF Good, Breaker
<1>2. /\ fs \in Seq(Age) /\ Chronological(fs)
      /\ Len(fs) = Count(old, Window) + 1
      /\ \A w \in 0 .. Window : Count(fs, w) = Count(old, w) + 1
  BY <1>1, RecordedFacts
<1>3. Len(fs) <= Threshold /\ Len(fs) \in Nat
  <2>1. Count(old, Window) \in Nat /\ Count(old, Window) <= Len(old) /\ Len(old) \in Nat
    <3>1. old \in Seq(Age) /\ Window \in Int
      BY <1>1
    <3> HIDE DEF old
    <3>2. QED BY <3>1, Counts
  <2> HIDE DEF fs, old
  <2>2. QED BY <1>1, <1>2, <2>1
<1>4. Recorded(b) = IF Len(fs) >= Threshold
                    THEN [failures |-> fs, tripped |-> TRUE, tripped_at |-> 0]
                    ELSE [b EXCEPT !.failures = fs]
  BY DEF Recorded
<1> HIDE DEF fs, old
<1>5. Recorded(b) \in Breaker /\ Recorded(b).failures = fs
  <2>1. CASE Len(fs) >= Threshold
    BY <1>2, <1>4, <2>1, Ages DEF Breaker
  <2>2. CASE ~(Len(fs) >= Threshold)
    BY <1>2, <1>4, <2>2 DEF Breaker, Good
  <2>3. QED BY <2>1, <2>2
<1>6. Recorded(b).tripped <=> Len(fs) >= Threshold
  <2>1. CASE Len(fs) >= Threshold
    BY <1>4, <2>1
  <2>2. CASE ~(Len(fs) >= Threshold)
    BY <1>4, <2>2 DEF Breaker, Good
  <2>3. QED BY <2>1, <2>2
<1>7. Recorded(b).tripped => Recorded(b).tripped_at = 0
  BY <1>4, <1>6
<1>8. Good(Recorded(b))
  BY <1>2, <1>3, <1>5, <1>6 DEF Good
<1>9. QED BY <1>2, <1>5, <1>6, <1>7, <1>8 DEF old

LEMMA GoodPruned ==
    ASSUME NEW b, Good(b)
    PROVE  LET p == [b EXCEPT !.failures = Prune(@)]
           IN  /\ Good(p) /\ p.tripped = b.tripped /\ p.tripped_at = b.tripped_at
               /\ \A w \in 0 .. Window : Count(p.failures, w) = Count(b.failures, w)
<1> DEFINE old == b.failures
           fs == Prune(old)
           p == [b EXCEPT !.failures = fs]
<1>1. old \in Seq(Age) /\ Chronological(old) /\ Len(old) <= Threshold
  BY DEF Good, Breaker
<1>2. /\ fs \in Seq(Age) /\ Chronological(fs)
      /\ Len(fs) = Count(old, Window)
      /\ \A w \in 0 .. Window : Count(fs, w) = Count(old, w)
  BY <1>1, PruneFacts
<1>3. Len(fs) <= Len(old)
  BY <1>1, <1>2, CountType
<1> HIDE DEF fs, old
<1>4. p \in Breaker /\ p.failures = fs /\ p.tripped = b.tripped /\ p.tripped_at = b.tripped_at
  BY <1>2 DEF Breaker, Good
<1>5. Len(fs) \in Nat /\ Len(old) \in Nat
  BY <1>1, <1>2
<1> HIDE DEF p
<1>6. Good(p)
  BY <1>1, <1>2, <1>3, <1>4, <1>5 DEF Good, old
<1>7. QED BY <1>2, <1>4, <1>6 DEF p, fs, old

OlderBreaker(b) ==
    [failures |-> OlderAll(b.failures), tripped |-> b.tripped,
     tripped_at |-> IF b.tripped THEN Older(b.tripped_at) ELSE 0]

LEMMA GoodOlder ==
    ASSUME NEW b, Good(b)
    PROVE  Good(OlderBreaker(b))
<1>1. /\ OlderAll(b.failures) \in Seq(Age) /\ Len(OlderAll(b.failures)) = Len(b.failures)
      /\ Chronological(OlderAll(b.failures))
  BY OlderFacts DEF Good, Breaker
<1>2. (IF b.tripped THEN Older(b.tripped_at) ELSE 0) \in Age
  BY DEF Good, Breaker, Older, Age, Horizon
<1>3. QED BY <1>1, <1>2 DEF Good, Breaker, OlderBreaker

-----------------------------------------------------------------------------
(* The registry, and what has been recorded of the transitions.            *)
Log == {r \in Seq(Age) : Chronological(r)}

Sound ==
    /\ breaker \in [Key -> Breaker]
    /\ \A k \in Key : Good(breaker[k])
    /\ recent \in [Key -> Log]
    /\ pending \in Key \cup {NoKey}
    /\ pending \in Key => ~breaker[pending].tripped

(* A breaker knows of no failure that its transition did not have ...      *)
Charged(b, r) == \A w \in 0 .. Window : Count(b.failures, w) <= Count(r, w)

(* ... and of all that it had; and a breaker that is tripped has let none  *)
(* happen since.                                                           *)
Informed(b, r) ==
    \A w \in 0 .. Window - 1 :
        /\ Count(r, w) <= Count(b.failures, w)
        /\ b.tripped /\ w < b.tripped_at => Count(r, w) = 0

BreakerInv ==
    /\ Sound
    /\ \A k \in Key : Charged(breaker[k], recent[k]) /\ Informed(breaker[k], recent[k])

(* The logs, as time passes and as failures are added.                     *)
LEMMA LogRecorded ==
    ASSUME NEW r \in Log
    PROVE  /\ Append(r, 0) \in Log
           /\ \A w \in 0 .. Window : Count(Append(r, 0), w) = Count(r, w) + 1
<1> DEFINE log == Append(r, 0)
<1>1. r \in Seq(Age) /\ Chronological(r) /\ log \in Seq(Age)
  BY Ages DEF Log
<1>2. /\ \A i \in DOMAIN log : log[i] \in Age
      /\ \A i \in DOMAIN r : log[i] = r[i]
      /\ DOMAIN log = DOMAIN r \cup {Len(r) + 1} /\ log[Len(r) + 1] = 0
      /\ \A i \in DOMAIN r : i < Len(r) + 1
      /\ Len(r) + 1 \notin DOMAIN r /\ DOMAIN r \subseteq Int
  BY <1>1
<1>3. Chronological(log)
  <2> HIDE DEF log
  <2>1. QED BY <1>1, <1>2 DEF Chronological, Age
<1>4. QED BY <1>1, <1>3, CountAppend DEF Log

LEMMA LogOlder ==
    ASSUME NEW r \in Log
    PROVE  /\ Prune(OlderAll(r)) \in Log
           /\ \A w \in 0 .. Window : Count(Prune(OlderAll(r)), w) = Count(r, w - 1)
<1>1. OlderAll(r) \in Seq(Age) /\ Chronological(OlderAll(r))
  BY OlderFacts DEF Log
<1>2. Prune(OlderAll(r)) \in Log
  BY <1>1, PruneFacts DEF Log
<1>3. ASSUME NEW w \in 0 .. Window
      PROVE  Count(Prune(OlderAll(r)), w) = Count(r, w - 1)
  <2>1. w \in Int /\ w <= Window
    OBVIOUS
  <2>2. Count(Prune(OlderAll(r)), w) = Count(OlderAll(r), w)
    BY <1>1, <2>1, PruneFacts
  <2>3. Count(OlderAll(r), w) = Count(r, w - 1)
    BY <2>1, CountOlder DEF Log
  <2>4. QED BY <2>2, <2>3
<1>4. QED BY <1>2, <1>3

LEMMA EmptyLog == <<>> \in Log /\ \A w \in Int : Count(<<>>, w) = 0
<1>1. <<>> \in Seq(Age)
  OBVIOUS
<1>2. Chronological(<<>>)
  BY DEF Chronological
<1>3. \A w \in Int : Count(<<>>, w) = 0
  BY <1>1, CountNothing
<1>4. QED BY <1>1, <1>2, <1>3 DEF Log

LEMMA InitBreakers == Init => BreakerInv
<1> SUFFICES ASSUME Init PROVE BreakerInv
  OBVIOUS
<1>1. \A k \in Key : breaker[k] = NewBreaker /\ recent[k] = <<>>
  BY DEF Init
<1>2. Sound
  <2>1. NewBreaker \in Breaker
    BY GoodNew DEF Good
  <2>2. QED BY <1>1, <2>1, GoodNew, EmptyLog DEF Init, Sound
<1>3. Charged(NewBreaker, <<>>) /\ Informed(NewBreaker, <<>>)
  BY GoodNew, EmptyLog DEF Charged, Informed
<1>4. QED BY <1>1, <1>2, <1>3 DEF BreakerInv

(* What a step does to one breaker and to its log.                         *)
LEMMA ReadBreaker ==
    ASSUME NEW b, Good(b), NEW r \in Log, ~IsTripped(b)
    PROVE  /\ Charged(b, r) => Charged(AfterRead(b), r)
           /\ Informed(b, r) => Informed(AfterRead(b), r)
<1>1. CASE ~b.tripped
  BY <1>1, GoodRead
<1>2. CASE b.tripped
  <2>1. AfterRead(b) = NewBreaker /\ b.tripped_at >= Cooldown /\ b.tripped_at \in Nat
    BY <1>2, GoodRead, Ages DEF IsTripped, CooledDown, Good, Breaker
  <2>2. \A w \in 0 .. Window : Count(r, w) \in Nat
    BY Counts DEF Log
  <2>3. Charged(NewBreaker, r)
    BY <2>2, GoodNew, EmptyLog DEF Charged
  <2>4. ASSUME Informed(b, r) PROVE Informed(NewBreaker, r)
    <3>1. ASSUME NEW w \in 0 .. Window - 1 PROVE Count(r, w) = 0
      <4>1. w < b.tripped_at
        BY <2>1
      <4>2. QED BY <1>2, <2>4, <4>1 DEF Informed
    <3>2. QED BY <3>1, GoodNew, EmptyLog DEF Informed
  <2>5. QED BY <2>1, <2>3, <2>4
<1>3. QED BY <1>1, <1>2

LEMMA RecordBreaker ==
    ASSUME NEW b, Good(b), ~b.tripped, NEW r \in Log
    PROVE  /\ Charged(b, r) => Charged(Recorded(b), Append(r, 0))
           /\ Informed(b, r) => Informed(Recorded(b), Append(r, 0))
<1> DEFINE new == Recorded(b)
           log == Append(r, 0)
<1>1. ASSUME NEW w \in 0 .. Window
      PROVE  /\ Count(new.failures, w) = Count(b.failures, w) + 1
             /\ Count(log, w) = Count(r, w) + 1
             /\ Count(b.failures, w) \in Nat /\ Count(r, w) \in Nat
  <2>1. Count(new.failures, w) = Count(b.failures, w) + 1
    BY GoodRecorded
  <2>2. Count(log, w) = Count(r, w) + 1
    BY LogRecorded
  <2>3. w \in Int /\ b.failures \in Seq(Age) /\ r \in Seq(Age)
    BY DEF Log, Good, Breaker
  <2>4. QED BY <2>1, <2>2, <2>3, Counts
<1>2. new.tripped => new.tripped_at = 0
  BY GoodRecorded
<1> HIDE DEF new, log
<1>3. Charged(b, r) => Charged(new, log)
  BY <1>1 DEF Charged
<1>4. Informed(b, r) => Informed(new, log)
  BY <1>1, <1>2 DEF Informed
<1>5. QED BY <1>3, <1>4 DEF new, log

LEMMA PruneBreaker ==
    ASSUME NEW b, Good(b), NEW r \in Log
    PROVE  LET p == [b EXCEPT !.failures = Prune(@)]
           IN  /\ Charged(b, r) => Charged(p, r)
               /\ Informed(b, r) => Informed(p, r)
<1> DEFINE p == [b EXCEPT !.failures = Prune(@)]
<1>1. /\ p.tripped = b.tripped /\ p.tripped_at = b.tripped_at
      /\ \A w \in 0 .. Window : Count(p.failures, w) = Count(b.failures, w)
  BY GoodPruned
<1> HIDE DEF p
<1>2. QED
  <2>1. Charged(b, r) => Charged(p, r)
    BY <1>1 DEF Charged
  <2>2. Informed(b, r) => Informed(p, r)
    BY <1>1 DEF Informed
  <2>3. QED BY <2>1, <2>2 DEF p

LEMMA OlderInformed ==
    ASSUME NEW b, Good(b), NEW r \in Log
    PROVE  LET log == Prune(OlderAll(r))
           IN  /\ Charged(b, r) => Charged(OlderBreaker(b), log)
               /\ Informed(b, r) => Informed(OlderBreaker(b), log)
<1> DEFINE log == Prune(OlderAll(r))
           new == OlderBreaker(b)
<1>1. ASSUME NEW w \in 0 .. Window
      PROVE  /\ Count(new.failures, w) = Count(b.failures, w - 1)
             /\ Count(log, w) = Count(r, w - 1)
  BY LogOlder, CountOlder DEF OlderBreaker, Good, Breaker
<1>2. Count(b.failures, -1) = 0 /\ Count(r, -1) = 0
  BY CountNothing DEF Log, Good, Breaker
<1>3. /\ new.tripped = b.tripped
      /\ b.tripped => new.tripped_at = Older(b.tripped_at) /\ b.tripped_at \in Age
  BY DEF OlderBreaker, Good, Breaker
<1> HIDE DEF new, log
<1>4. ASSUME Charged(b, r), NEW w \in 0 .. Window
      PROVE  Count(new.failures, w) <= Count(log, w)
  <2>1. CASE w = 0
    BY <1>1, <1>2, <2>1
  <2>2. CASE w # 0
    <3>1. w - 1 \in 0 .. Window
      BY <2>2
    <3>2. QED BY <1>1, <1>4, <3>1 DEF Charged
  <2>3. QED BY <2>1, <2>2
<1>5. ASSUME Informed(b, r), NEW w \in 0 .. Window - 1
      PROVE  /\ Count(log, w) <= Count(new.failures, w)
             /\ new.tripped /\ w < new.tripped_at => Count(log, w) = 0
  <2>1. CASE w = 0
    BY <1>1, <1>2, <2>1
  <2>2. CASE w # 0
    <3>1. w - 1 \in 0 .. Window - 1 /\ w \in 0 .. Window
      BY <2>2
    <3>2. b.tripped /\ w < new.tripped_at => w - 1 < b.tripped_at
      BY <1>3, <3>1 DEF Older, Age, Horizon
    <3>3. QED BY <1>1, <1>3, <1>5, <3>1, <3>2 DEF Informed
  <2>3. QED BY <2>1, <2>2
<1>6. QED BY <1>4, <1>5 DEF Charged, Informed, new, log

(* Every step keeps the registry and its breakers true to the logs.        *)
LEMMA BreakersStep ==
    ASSUME BreakerInv, [Next]_vars
    PROVE  BreakerInv'
<1>0. /\ Sound /\ \A k \in Key : recent[k] \in Log
      /\ \A k \in Key : /\ Good(breaker[k])
                        /\ Charged(breaker[k], recent[k]) /\ Informed(breaker[k], recent[k])
  BY DEF BreakerInv, Sound
<1>1. ASSUME NEW j \in Key, Dispatch(j) PROVE BreakerInv'
  <2>1. /\ breaker' = [q \in Key |-> IF q = j THEN AfterRead(breaker[q]) ELSE breaker[q]]
        /\ ~IsTripped(breaker[j]) /\ pending' = j /\ recent' = recent
    BY <1>0, <1>1 DEF Dispatch, Sound
  <2>2. Good(AfterRead(breaker[j])) /\ ~AfterRead(breaker[j]).tripped
    BY <1>0, <2>1, GoodRead
  <2>3. Sound'
    BY <1>0, <2>1, <2>2 DEF Sound, Good
  <2>4. \A q \in Key : (Charged(breaker[q], recent[q]) /\ Informed(breaker[q], recent[q]))'
    BY <1>0, <2>1, ReadBreaker
  <2>5. QED BY <2>3, <2>4 DEF BreakerInv
<1>2. CASE RecordFailure
  <2> DEFINE log == Append(recent[pending], 0)
             new == Recorded(breaker[pending])
  <2>1. /\ pending \in Key /\ pending' = NoKey
        /\ breaker' = [q \in Key |-> IF q = pending THEN new ELSE breaker[q]]
        /\ recent' = [q \in Key |-> IF q = pending THEN log ELSE recent[q]]
        /\ ~breaker[pending].tripped
    BY <1>0, <1>2 DEF RecordFailure, Sound
  <2>2. Good(new) /\ log \in Log
    BY <1>0, <2>1, GoodRecorded, LogRecorded
  <2>3. Charged(new, log) /\ Informed(new, log)
    BY <1>0, <2>1, RecordBreaker
  <2> HIDE DEF log, new
  <2>4. Sound'
    BY <1>0, <2>1, <2>2 DEF Sound, Good
  <2>5. \A q \in Key : (Charged(breaker[q], recent[q]) /\ Informed(breaker[q], recent[q]))'
    BY <1>0, <2>1, <2>3
  <2>6. QED BY <2>4, <2>5 DEF BreakerInv
<1>3. CASE RecordSuccess
  <2> DEFINE new == [breaker[pending] EXCEPT !.failures = Prune(@)]
  <2>1. /\ pending \in Key /\ pending' = NoKey /\ recent' = recent
        /\ breaker' = [q \in Key |-> IF q = pending THEN new ELSE breaker[q]]
    BY <1>0, <1>3 DEF RecordSuccess, Sound
  <2>2. Good(new)
    BY <1>0, <2>1, GoodPruned
  <2>3. Charged(new, recent[pending]) /\ Informed(new, recent[pending])
    BY <1>0, <2>1, PruneBreaker
  <2> HIDE DEF new
  <2>4. Sound'
    BY <1>0, <2>1, <2>2 DEF Sound, Good
  <2>5. \A q \in Key : (Charged(breaker[q], recent[q]) /\ Informed(breaker[q], recent[q]))'
    BY <1>0, <2>1, <2>3
  <2>6. QED BY <2>4, <2>5 DEF BreakerInv
<1>4. CASE GiveUp \/ UNCHANGED vars
  <2>1. UNCHANGED <<breaker, recent>> /\ pending' \in {pending, NoKey}
    BY <1>4 DEF GiveUp, vars
  <2>2. Sound'
    BY <1>0, <2>1 DEF Sound
  <2>3. QED BY <1>0, <2>1, <2>2 DEF BreakerInv
<1>5. CASE ResetAll
  <2>1. /\ \A q \in Key : breaker'[q] = NewBreaker /\ recent'[q] = <<>>
        /\ breaker' \in [Key -> {NewBreaker}] /\ recent' \in [Key -> {<<>>}]
        /\ pending' = pending
    BY <1>0, <1>5 DEF ResetAll
  <2>2. NewBreaker \in Breaker
    BY GoodNew DEF Good
  <2>3. Sound'
    <3>1. pending' \in Key \cup {NoKey}
      BY <1>0, <2>1 DEF Sound
    <3>2. breaker' \in [Key -> Breaker] /\ recent' \in [Key -> Log]
      BY <2>1, <2>2, EmptyLog
    <3>3. QED BY <2>1, <3>1, <3>2, GoodNew DEF Sound
  <2>4. Charged(NewBreaker, <<>>) /\ Informed(NewBreaker, <<>>)
    BY GoodNew, EmptyLog DEF Charged, Informed
  <2>5. QED BY <2>1, <2>3, <2>4 DEF BreakerInv
<1>6. CASE Tick
  <2>1. /\ breaker' = [q \in Key |-> OlderBreaker(breaker[q])]
        /\ recent' = [q \in Key |-> Prune(OlderAll(recent[q]))]
        /\ pending' = pending
    BY <1>6 DEF Tick, OlderBreaker, Prune
  <2>2. ASSUME NEW q \in Key
        PROVE  /\ Good(OlderBreaker(breaker[q]))
               /\ OlderBreaker(breaker[q]).tripped = breaker[q].tripped
    BY <1>0, GoodOlder DEF OlderBreaker
  <2>3. \A q \in Key : Prune(OlderAll(recent[q])) \in Log
    BY <1>0, LogOlder
  <2>4. Sound'
    BY <1>0, <2>1, <2>2, <2>3 DEF Sound, Good
  <2>5. \A q \in Key : (Charged(breaker[q], recent[q]) /\ Informed(breaker[q], recent[q]))'
    BY <1>0, <2>1, OlderInformed
  <2>6. QED BY <2>4, <2>5 DEF BreakerInv
<1>7. ASSUME NEW j \in Key, Refuse(j) PROVE BreakerInv'
  BY <1>4, <1>7 DEF Refuse
<1>8. QED
  BY <1>1, <1>2, <1>3, <1>4, <1>5, <1>6, <1>7 DEF Next, Ask

-----------------------------------------------------------------------------
(* The breakers stay true to what was recorded, however much fails.        *)
THEOREM BreakersCorrect == Spec => []BreakerInv
<1>1. Init => BreakerInv
  BY InitBreakers
<1>2. BreakerInv /\ [Next]_vars => BreakerInv'
  BY BreakersStep
<1>3. QED BY <1>1, <1>2, PTL DEF Spec

(* No list of failures outgrows the threshold, and what has been let       *)
(* through is not tripped: for every threshold, window and cooldown.       *)
THEOREM FailuresStayBounded == Spec => []FailuresBounded
<1>1. BreakerInv => FailuresBounded
  BY DEF BreakerInv, Sound, Good, Breaker, Log, FailuresBounded, TypeOK
<1>2. QED BY <1>1, BreakersCorrect, PTL

(* A breaker trips only when its transition has failed the threshold of    *)
(* times within the window, also where a codec has several breakers.       *)
THEOREM TripsAreJustified == Spec => TripJustified
<1> DEFINE Justified == \A k \in Key :
        ~breaker[k].tripped /\ breaker[k].tripped' => Count(recent[k]', Window) >= Threshold
<1>1. ASSUME BreakerInv, Next, NEW k \in Key, ~breaker[k].tripped, breaker[k].tripped'
      PROVE  Count(recent[k]', Window) >= Threshold
  <2>1. /\ Sound /\ Good(breaker[k]) /\ Charged(breaker[k], recent[k])
        /\ recent[k] \in Log
    BY <1>1 DEF BreakerInv, Sound
  <2>2. RecordFailure /\ pending = k
    <3>1. ASSUME NEW j \in Key, Dispatch(j) PROVE FALSE
      <4>1. breaker' = [q \in Key |-> IF q = j THEN AfterRead(breaker[q]) ELSE breaker[q]]
        BY <2>1, <3>1 DEF Dispatch, Sound
      <4>2. AfterRead(breaker[k]) = breaker[k]
        BY <1>1 DEF AfterRead
      <4>3. QED BY <1>1, <4>1, <4>2
    <3>2. ASSUME RecordSuccess PROVE FALSE
      <4>1. breaker' = [q \in Key |-> IF q = pending
                            THEN [breaker[q] EXCEPT !.failures = Prune(@)] ELSE breaker[q]]
        BY <2>1, <3>2 DEF RecordSuccess, Sound
      <4>2. [breaker[k] EXCEPT !.failures = Prune(@)].tripped = breaker[k].tripped
        BY <2>1, GoodPruned
      <4>3. QED BY <1>1, <4>1, <4>2
    <3>3. ASSUME Tick PROVE FALSE
      BY <1>1, <3>3 DEF Tick
    <3>4. ASSUME ResetAll PROVE FALSE
      <4>1. breaker'[k] = NewBreaker
        BY <3>4 DEF ResetAll
      <4>2. QED BY <1>1, <4>1, GoodNew
    <3>5. ASSUME UNCHANGED breaker PROVE FALSE
      BY <1>1, <3>5
    <3>6. RecordFailure
      BY <1>1, <3>1, <3>2, <3>3, <3>4, <3>5 DEF Next, Ask, Refuse, vars, GiveUp
    <3>7. pending = k
      BY <1>1, <2>1, <3>6 DEF RecordFailure, Sound
    <3>8. QED BY <3>6, <3>7
  <2>3. /\ breaker'[k] = Recorded(breaker[k])
        /\ recent'[k] = Append(recent[k], 0)
    BY <2>1, <2>2 DEF RecordFailure, Sound
  <2>4. Count(breaker[k].failures, Window) + 1 >= Threshold
    BY <1>1, <2>1, <2>3, GoodRecorded
  <2>5. Count(breaker[k].failures, Window) <= Count(recent[k], Window)
    BY <2>1 DEF Charged
  <2>6. Count(Append(recent[k], 0), Window) = Count(recent[k], Window) + 1
    BY <2>1, LogRecorded
  <2>7. Count(breaker[k].failures, Window) \in Nat /\ Count(recent[k], Window) \in Nat
    <3>1. breaker[k].failures \in Seq(Age) /\ recent[k] \in Seq(Age) /\ Window \in Int
      BY <2>1 DEF Log, Good, Breaker
    <3>2. QED BY <3>1, Counts
  <2>8. QED BY <2>3, <2>4, <2>5, <2>6, <2>7
<1>2. BreakerInv /\ [Next]_vars => [Justified]_vars
  BY <1>1
<1>3. QED BY <1>2, BreakersCorrect, PTL DEF Spec, TripJustified

(* What a breaker that lets its transition through, or any other, allows   *)
(* to have failed within the window.                                       *)
LEMMA FewFailures ==
    ASSUME NEW b, Good(b), NEW r \in Log, Informed(b, r)
    PROVE  /\ Count(r, Window - 1) <= Threshold
           /\ ~IsTripped(b) => Count(r, Window - 1) < Threshold
<1>1. /\ b.failures \in Seq(Age) /\ r \in Seq(Age) /\ Window - 1 \in Int
      /\ Len(b.failures) <= Threshold /\ (~b.tripped => Len(b.failures) < Threshold)
  BY DEF Log, Good, Breaker
<1>2. /\ Count(b.failures, Window - 1) <= Len(b.failures)
      /\ Count(b.failures, Window - 1) \in Nat
      /\ Count(r, Window - 1) \in Nat /\ Len(b.failures) \in Nat
  BY <1>1, Counts
<1>3. CASE Window = 0
  <2>1. Count(r, Window - 1) = 0
    BY <1>1, <1>3, CountNothing
  <2>2. QED BY <2>1
<1>4. CASE Window # 0
  <2>1. Window - 1 \in 0 .. Window - 1
    BY <1>4
  <2>2. Count(r, Window - 1) <= Count(b.failures, Window - 1)
    BY <2>1 DEF Informed
  <2>3. ASSUME ~IsTripped(b), b.tripped PROVE Count(r, Window - 1) = 0
    <3>1. b.tripped_at >= Cooldown /\ b.tripped_at \in Nat
      BY <2>3, Ages DEF IsTripped, CooledDown, Good, Breaker
    <3>2. Window - 1 < b.tripped_at
      BY <2>1, <3>1
    <3>3. QED BY <2>1, <2>3, <3>2 DEF Informed
  <2>4. QED BY <1>1, <1>2, <2>2, <2>3
<1>5. QED BY <1>3, <1>4

(* A transition that has failed the threshold of times within the window   *)
(* is not dispatched, and no transition of its codec has failed more often:*)
(* for any number of transitions and codecs.                               *)
THEOREM FailingTransitionsAreDisabled == Spec => FailingTransitionDisabled
<1> DEFINE Disabled == \A k \in Key : pending = NoKey /\ pending' = k =>
                /\ Count(recent[k], Window - 1) < Threshold
                /\ \A j \in Key : CodecOf[j] = CodecOf[k] =>
                        Count(recent[j], Window - 1) <= Threshold
<1>1. ASSUME BreakerInv, Next, NEW k \in Key, pending = NoKey, pending' = k
      PROVE  /\ Count(recent[k], Window - 1) < Threshold
             /\ \A j \in Key : Count(recent[j], Window - 1) <= Threshold
  <2>1. \A j \in Key : /\ Good(breaker[j]) /\ recent[j] \in Log
                       /\ Informed(breaker[j], recent[j])
    BY <1>1 DEF BreakerInv, Sound
  <2>2. ~IsTripped(breaker[k])
    BY <1>1 DEF Next, Ask, Refuse, Dispatch, RecordFailure, RecordSuccess, GiveUp,
       ResetAll, Tick, vars
  <2>3. QED BY <2>1, <2>2, FewFailures
<1>2. BreakerInv /\ [Next]_vars => [Disabled]_vars
  BY <1>1
<1>3. QED BY <1>2, BreakersCorrect, PTL DEF Spec, FailingTransitionDisabled
=============================================================================
