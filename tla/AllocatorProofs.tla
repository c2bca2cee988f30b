--------------------------- MODULE AllocatorProofs ---------------------------
(***************************************************************************)
(* Proofs about Allocator: the counter of the bytes in use is the sum of   *)
(* the lengths of the buffers and of what was overwritten, the share of a  *)
(* tier is what its buffers take while no write has changed a length and   *)
(* no preload has replaced a buffer, and both allocators implement the     *)
(* protocol of Memory.                                                     *)
(*                                                                         *)
(* Sums are folds over sets in an order that is not known.  They are       *)
(* reasoned about by counting: a sum of lengths is the number of bytes in  *)
(* the buffers, each byte a pair of a handle and an offset.                *)
(***************************************************************************)
EXTENDS Allocator, FiniteSetTheorems, TLAPS

BytesOf(h, f) == {h} \X (1 .. f[h])
BytesIn(S, f) == UNION {BytesOf(h, f) : h \in S}
Count(S, f) == Cardinality(BytesIn(S, f))

Counts(S, f) == IsFiniteSet(S) /\ \A h \in S : f[h] \in Nat

LEMMA BytesOfBuffer ==
    ASSUME NEW f, NEW h, f[h] \in Nat
    PROVE  IsFiniteSet(BytesOf(h, f)) /\ Cardinality(BytesOf(h, f)) = f[h]
<1>1. IsFiniteSet(1 .. f[h]) /\ Cardinality(1 .. f[h]) = f[h]
  <2>1. ASSUME NEW n \in Nat PROVE IsFiniteSet(1 .. n) /\ Cardinality(1 .. n) = n
    BY FS_Interval
  <2>2. QED BY <2>1
<1>2. IsFiniteSet({h}) /\ Cardinality({h}) = 1
  BY FS_Singleton
<1>3. /\ IsFiniteSet(BytesOf(h, f))
      /\ Cardinality(BytesOf(h, f)) = Cardinality({h}) * Cardinality(1 .. f[h])
  BY <1>1, <1>2, FS_Product DEF BytesOf
<1>4. QED BY <1>1, <1>2, <1>3

LEMMA BytesFinite ==
    ASSUME NEW S, NEW f, Counts(S, f)
    PROVE  IsFiniteSet(BytesIn(S, f)) /\ Count(S, f) \in Nat
<1> DEFINE g == [h \in S |-> BytesOf(h, f)]
           T == {BytesOf(h, f) : h \in S}
<1>1. g \in Surjection(S, T)
  BY DEF Surjection
<1>2. IsFiniteSet(T)
  BY <1>1, FS_Surjection DEF Counts
<1>3. \A t \in T : IsFiniteSet(t)
  BY BytesOfBuffer DEF Counts
<1>4. IsFiniteSet(UNION T)
  BY <1>2, <1>3, FS_UNION
<1>5. QED BY <1>4, FS_CardinalityType DEF BytesIn, Count

LEMMA CountEmpty == ASSUME NEW f PROVE Count({}, f) = 0
<1>1. BytesIn({}, f) = {}
  BY DEF BytesIn
<1>2. QED BY <1>1, FS_EmptySet DEF Count

LEMMA DisjointUnion ==
    ASSUME NEW S, NEW T, IsFiniteSet(S), IsFiniteSet(T), S \cap T = {}
    PROVE  Cardinality(S \cup T) = Cardinality(S) + Cardinality(T)
<1>1. Cardinality(S \cup T) = Cardinality(S) + Cardinality(T) - Cardinality(S \cap T)
  BY FS_Union
<1>2. Cardinality(S) \in Nat /\ Cardinality(T) \in Nat
  BY FS_CardinalityType
<1>3. Cardinality(S \cap T) = 0
  BY Zenon, FS_EmptySet
<1>4. QED BY <1>1, <1>2, <1>3

LEMMA CountRest ==
    ASSUME NEW S, NEW f, Counts(S, f), NEW h \in S
    PROVE  Count(S, f) = f[h] + Count(S \ {h}, f)
<1>1. Counts(S \ {h}, f) /\ f[h] \in Nat
  BY FS_RemoveElement DEF Counts
<1>2. BytesIn(S, f) = BytesOf(h, f) \cup BytesIn(S \ {h}, f)
  BY DEF BytesIn
<1>3. BytesOf(h, f) \cap BytesIn(S \ {h}, f) = {}
  BY DEF BytesIn, BytesOf
<1>4. /\ IsFiniteSet(BytesOf(h, f)) /\ IsFiniteSet(BytesIn(S \ {h}, f))
      /\ Cardinality(BytesOf(h, f)) = f[h]
      /\ Count(S \ {h}, f) \in Nat
  BY <1>1, BytesOfBuffer, BytesFinite
<1>5. Cardinality(BytesOf(h, f) \cup BytesIn(S \ {h}, f))
        = Cardinality(BytesOf(h, f)) + Cardinality(BytesIn(S \ {h}, f))
  BY <1>3, <1>4, DisjointUnion
<1>6. QED BY <1>2, <1>4, <1>5 DEF Count

(* The fold adds up one element after the other, as its definition says;   *)
(* the count of bytes does the same, and there is only one such function.  *)
Adds(g, S, f) ==
    g = [s \in SUBSET S |-> IF s = {} THEN 0
                            ELSE LET x == CHOOSE x \in s : TRUE
                                 IN  f[x] + g[s \ {x}]]

LEMMA CountAdds ==
    ASSUME NEW S, NEW f, Counts(S, f)
    PROVE  Adds([s \in SUBSET S |-> Count(s, f)], S, f)
<1> DEFINE g == [s \in SUBSET S |-> Count(s, f)]
<1>1. ASSUME NEW s \in SUBSET S
      PROVE  g[s] = IF s = {} THEN 0
                    ELSE LET x == CHOOSE x \in s : TRUE IN f[x] + g[s \ {x}]
  <2>1. CASE s = {}
    BY <2>1, CountEmpty
  <2>2. CASE s # {}
    <3> DEFINE x == CHOOSE x \in s : TRUE
    <3>1. x \in s
      BY <2>2
    <3>2. Counts(s, f)
      BY FS_Subset DEF Counts
    <3>3. g[s] = Count(s, f) /\ g[s \ {x}] = Count(s \ {x}, f)
      OBVIOUS
    <3>4. Count(s, f) = f[x] + Count(s \ {x}, f)
      BY <3>1, <3>2, CountRest
    <3>5. QED BY <2>2, <3>3, <3>4
  <2>3. QED BY <2>1, <2>2
<1>2. QED BY <1>1 DEF Adds

LEMMA AddsOnce ==
    ASSUME NEW S, IsFiniteSet(S), NEW f, NEW g, NEW h, Adds(g, S, f), Adds(h, S, f)
    PROVE  g[S] = h[S]
<1> DEFINE D == {s \in SUBSET S : g[s] # h[s]}
           R == StrictSubsetOrdering(S)
<1>1. SUFFICES ASSUME D # {} PROVE FALSE
  OBVIOUS
<1>2. IsWellFoundedOn(R, SUBSET S)
  BY FS_StrictSubsetOrderingWellFounded, FS_FiniteSubsetsOfFinite
<1>3. PICK s \in D : \A y \in D : <<y, s>> \notin R
  <2>1. D \subseteq SUBSET S
    OBVIOUS
  <2> HIDE DEF D, R
  <2>2. QED BY <1>1, <1>2, <2>1, WFMin
<1>4. s # {}
  BY <1>3 DEF Adds
<1> DEFINE x == CHOOSE x \in s : TRUE
<1>5. x \in s /\ s \ {x} \in SUBSET S
  BY <1>4
<1>6. g[s \ {x}] = h[s \ {x}]
  <2>1. <<s \ {x}, s>> \in R
    BY <1>5 DEF StrictSubsetOrdering
  <2>2. s \ {x} \notin D
    BY <1>3, <2>1
  <2>3. QED BY <1>5, <2>2
<1>7. g[s] = f[x] + g[s \ {x}] /\ h[s] = f[x] + h[s \ {x}]
  BY <1>4 DEF Adds
<1>8. QED BY <1>3, <1>6, <1>7

(* A sum of lengths is the number of bytes in the buffers.                 *)
LEMMA SumIsCount ==
    ASSUME NEW S, NEW f, Counts(S, f)
    PROVE  SumOver(S, f) = Count(S, f)
<1>1. PICK g : Adds(g, S, f)
  BY CountAdds
<1>2. LET h == CHOOSE h : Adds(h, S, f) IN Adds(h, S, f)
  BY <1>1
<1>3. SumOver(S, f) = (CHOOSE h : Adds(h, S, f))[S]
  BY DEF SumOver, MapThenSumSet, MapThenFoldSet, Adds
<1>4. [s \in SUBSET S |-> Count(s, f)][S] = Count(S, f)
  OBVIOUS
<1>5. QED BY <1>2, <1>3, <1>4, CountAdds, AddsOnce DEF Counts

LEMMA SumType ==
    ASSUME NEW S, NEW f, Counts(S, f)
    PROVE  SumOver(S, f) \in Nat
BY SumIsCount, BytesFinite

LEMMA SumEmpty == ASSUME NEW f PROVE SumOver({}, f) = 0
BY SumIsCount, CountEmpty, FS_EmptySet DEF Counts

LEMMA SumRest ==
    ASSUME NEW S, NEW f, Counts(S, f), NEW h \in S
    PROVE  SumOver(S, f) = f[h] + SumOver(S \ {h}, f)
<1>1. Counts(S \ {h}, f)
  BY FS_RemoveElement DEF Counts
<1>2. QED BY <1>1, SumIsCount, CountRest

LEMMA SumSame ==
    ASSUME NEW S, NEW f, NEW g, Counts(S, f), \A h \in S : g[h] = f[h]
    PROVE  SumOver(S, g) = SumOver(S, f)
<1>1. Counts(S, g)
  BY DEF Counts
<1>2. BytesIn(S, g) = BytesIn(S, f)
  BY DEF BytesIn, BytesOf
<1>3. QED BY <1>1, <1>2, SumIsCount DEF Count

(* What a buffer that comes, goes or changes its length does to a sum.     *)
LEMMA SumWith ==
    ASSUME NEW S, NEW f, Counts(S, f), NEW h, h \notin S, NEW n \in Nat,
           NEW g, g[h] = n, \A x \in S : g[x] = f[x]
    PROVE  SumOver(S \cup {h}, g) = SumOver(S, f) + n
<1>1. Counts(S \cup {h}, g)
  BY FS_AddElement DEF Counts
<1>2. (S \cup {h}) \ {h} = S
  OBVIOUS
<1>3. SumOver(S \cup {h}, g) = g[h] + SumOver(S, g)
  BY <1>1, <1>2, SumRest
<1>4. SumOver(S, g) = SumOver(S, f) /\ SumOver(S, f) \in Nat
  BY SumSame, SumType
<1>5. QED BY <1>3, <1>4

LEMMA SumWithout ==
    ASSUME NEW S, NEW f, Counts(S, f), NEW h \in S,
           NEW g, \A x \in S \ {h} : g[x] = f[x]
    PROVE  /\ SumOver(S \ {h}, g) = SumOver(S, f) - f[h]
           /\ SumOver(S, f) - f[h] \in Nat
<1>1. Counts(S \ {h}, f) /\ f[h] \in Nat
  BY FS_RemoveElement DEF Counts
<1>2. SumOver(S \ {h}, g) = SumOver(S \ {h}, f) /\ SumOver(S \ {h}, f) \in Nat
  BY <1>1, SumSame, SumType
<1>3. SumOver(S, f) = f[h] + SumOver(S \ {h}, f)
  BY SumRest
<1>4. QED BY <1>1, <1>2, <1>3

LEMMA SumReplaced ==
    ASSUME NEW S, NEW f, Counts(S, f), NEW h \in S, NEW n \in Nat,
           NEW g, g[h] = n, \A x \in S \ {h} : g[x] = f[x]
    PROVE  /\ SumOver(S, g) = (SumOver(S, f) - f[h]) + n
           /\ (SumOver(S, f) - f[h]) + n \in Nat
<1>1. Counts(S, g)
  BY DEF Counts
<1>2. SumOver(S, g) = n + SumOver(S \ {h}, g)
  BY <1>1, SumRest
<1>3. /\ SumOver(S \ {h}, g) = SumOver(S, f) - f[h]
      /\ SumOver(S, f) - f[h] \in Nat
  BY SumWithout
<1>4. QED BY <1>2, <1>3

-----------------------------------------------------------------------------
(* What the counter, the handles and the shares have to do with each other.*)
Held == SumOver(DOMAIN length, length)
InTier(t) == {h \in DOMAIN length : tierOf[h] = t}

AllocatorInv ==
    /\ UsedIsSum
    /\ TierShares
    /\ DOMAIN length \subseteq issued
    /\ \A h \in issued : h < next_handle

USE AllocatorAssumption DEF AllocatorAssumption, Handle

LEMMA BuffersCount ==
    ASSUME TypeOK
    PROVE  /\ Counts(DOMAIN length, length)
           /\ \A t : Counts(InTier(t), length)
<1>1. IsFiniteSet(Handle)
  BY FS_Interval
<1>2. DOMAIN length \subseteq Handle /\ \A h \in DOMAIN length : length[h] \in Nat
  BY DEF TypeOK
<1>3. \A t : InTier(t) \subseteq DOMAIN length
  BY DEF InTier
<1>4. QED BY <1>1, <1>2, <1>3, FS_Subset DEF Counts

(* A new buffer.                                                           *)
LEMMA NewBuffer ==
    ASSUME AllocatorInv, NEW h \in Handle \ DOMAIN length, NEW n \in Sizes, NEW t \in Tier,
           length' = With(length, h, n),
           tierOf' = IF kind = "mock" THEN With(tierOf, h, t) ELSE tierOf,
           share' = IF kind = "mock" THEN Adding(t, n) ELSE share,
           used' = used + n,
           issued' = issued \cup {h},
           next_handle' \in 1 .. MaxHandle + 1,
           next_handle' >= next_handle, h < next_handle',
           answer'.handle \in Handle \cup {Failed},
           UNCHANGED <<kind, budget, resized, overwritten>>
    PROVE  AllocatorInv'
<1>1. TypeOK /\ used = Held + overwritten /\ overwritten \in Nat /\ n \in Nat
  BY DEF AllocatorInv, UsedIsSum, TypeOK, Held
<1>2. /\ DOMAIN length' = DOMAIN length \cup {h}
      /\ length'[h] = n
      /\ \A x \in DOMAIN length : length'[x] = length[x]
  BY DEF With
<1>3. kind = "mock" => /\ DOMAIN tierOf' = DOMAIN length'
                       /\ tierOf'[h] = t
                       /\ \A x \in DOMAIN length : tierOf'[x] = tierOf[x]
  BY <1>1, <1>2 DEF With, TypeOK
<1>4. TypeOK'
  <2>1. share' \in [Tier -> Int]
    BY <1>1 DEF TypeOK, Adding
  <2>2. DOMAIN tierOf' = IF kind' = "mock" THEN DOMAIN length' ELSE {}
    BY <1>1, <1>3 DEF TypeOK
  <2>3. \A x \in DOMAIN tierOf' : tierOf'[x] \in Tier
    BY <1>1, <1>2, <1>3 DEF TypeOK
  <2>4. issued' \subseteq Handle /\ used' \in Nat
    BY <1>1 DEF TypeOK
  <2>5. QED BY <1>1, <1>2, <2>1, <2>2, <2>3, <2>4 DEF TypeOK
<1>5. used' = Held' + overwritten'
  <2>1. Held' = Held + n /\ Held \in Nat
    BY <1>1, <1>2, BuffersCount, SumWith, SumType DEF Held
  <2>2. QED BY <1>1, <2>1
<1>6. TierShares'
  <2> SUFFICES ASSUME kind = "mock", resized = 0, overwritten = 0, NEW u \in Tier
               PROVE  share'[u] = SumOver(InTier(u)', length')
    BY DEF TierShares, InTier
  <2>1. share[u] = SumOver(InTier(u), length) /\ share[u] \in Int
    BY <1>1 DEF AllocatorInv, TierShares, InTier, TypeOK
  <2>2. Counts(InTier(u), length) /\ h \notin InTier(u)
    BY <1>1, BuffersCount DEF InTier
  <2>3. \A x \in InTier(u) : length'[x] = length[x]
    BY <1>2 DEF InTier
  <2>4. CASE u = t
    <3>1. InTier(u)' = InTier(u) \cup {h}
      BY <1>2, <1>3, <2>4 DEF InTier
    <3>2. share'[u] = share[u] + n
      BY <1>1, <2>4 DEF Adding, TypeOK
    <3>3. QED BY <1>1, <1>2, <2>1, <2>2, <2>3, <3>1, <3>2, SumWith
  <2>5. CASE u # t
    <3>1. InTier(u)' = InTier(u)
      BY <1>2, <1>3, <2>5 DEF InTier
    <3>2. share'[u] = share[u]
      BY <1>1, <2>5 DEF Adding, TypeOK
    <3>3. QED BY <2>1, <2>2, <2>3, <3>1, <3>2, SumSame
  <2>6. QED BY <2>4, <2>5
<1>7. DOMAIN length' \subseteq issued' /\ \A x \in issued' : x < next_handle'
  <2>1. \A x \in issued : x \in Int /\ x < next_handle
    BY <1>1 DEF AllocatorInv, TypeOK
  <2>2. next_handle \in Int /\ next_handle' \in Int
    BY <1>1 DEF TypeOK
  <2>3. QED BY <1>2, <2>1, <2>2 DEF AllocatorInv
<1>8. QED BY <1>4, <1>5, <1>6, <1>7 DEF AllocatorInv, UsedIsSum, Held

(* A buffer that is freed.                                                 *)
LEMMA FreeInv ==
    ASSUME AllocatorInv, NEW h \in Handle, Free(h)
    PROVE  AllocatorInv'
<1>1. /\ TypeOK /\ used = Held + overwritten /\ overwritten \in Nat
      /\ h \in DOMAIN length /\ length[h] \in Nat
  <2>1. TypeOK /\ used = Held + overwritten
    BY DEF AllocatorInv, UsedIsSum, Held
  <2>2. overwritten \in Nat
    BY <2>1 DEF TypeOK
  <2>3. h \in DOMAIN length /\ length[h] \in Nat
    BY <2>1 DEF TypeOK, Free
  <2>4. QED BY <2>1, <2>2, <2>3 DEF TypeOK, Free
<1>2. /\ DOMAIN length' = DOMAIN length \ {h}
      /\ \A x \in DOMAIN length \ {h} : length'[x] = length[x]
      /\ DOMAIN tierOf' = DOMAIN tierOf \ {h}
      /\ \A x \in DOMAIN tierOf \ {h} : tierOf'[x] = tierOf[x]
  BY DEF Free, Without
<1>3. used' = Held' + overwritten' /\ used' \in Nat
  <2>1. used' = (Held + overwritten) - length[h] /\ overwritten' = overwritten
    BY <1>1 DEF Free
  <2>2. Held' = Held - length[h] /\ Held - length[h] \in Nat /\ Held \in Nat
    BY <1>1, <1>2, BuffersCount, SumWithout, SumType DEF Held
  <2>3. QED BY <1>1, <2>1, <2>2
<1>4. TypeOK'
  <2>1. share' \in [Tier -> Int]
    BY <1>1 DEF TypeOK, Free, Adding
  <2>2. DOMAIN tierOf' = IF kind' = "mock" THEN DOMAIN length' ELSE {}
    BY <1>1, <1>2 DEF TypeOK, Free
  <2>3. \A x \in DOMAIN tierOf' : tierOf'[x] \in Tier
    BY <1>1, <1>2 DEF TypeOK
  <2>4. QED BY <1>1, <1>2, <1>3, <2>1, <2>2, <2>3 DEF TypeOK, Free
<1>5. TierShares'
  <2> SUFFICES ASSUME kind = "mock", resized = 0, overwritten = 0, NEW u \in Tier
               PROVE  share'[u] = SumOver(InTier(u)', length')
    BY DEF TierShares, InTier, Free
  <2>1. share[u] = SumOver(InTier(u), length) /\ share[u] \in Int
    BY <1>1 DEF AllocatorInv, TierShares, InTier, TypeOK
  <2>2. Counts(InTier(u), length)
    BY <1>1, BuffersCount
  <2>3. InTier(u)' = InTier(u) \ {h} /\ h \in DOMAIN tierOf /\ tierOf[h] \in Tier
    BY <1>1, <1>2 DEF InTier, TypeOK
  <2>4. \A x \in InTier(u) \ {h} : length'[x] = length[x]
    BY <1>2 DEF InTier
  <2>5. CASE tierOf[h] = u
    <3>1. h \in InTier(u)
      BY <1>1, <2>5 DEF InTier
    <3>2. share'[u] = share[u] - length[h]
      BY <1>1, <2>1, <2>3, <2>5 DEF Free, Adding, TypeOK
    <3>3. SumOver(InTier(u) \ {h}, length') = SumOver(InTier(u), length) - length[h]
      BY <2>2, <2>4, <3>1, SumWithout
    <3>4. QED BY <2>1, <2>3, <3>2, <3>3
  <2>6. CASE tierOf[h] # u
    <3>1. InTier(u) \ {h} = InTier(u)
      BY <2>6 DEF InTier
    <3>2. share'[u] = share[u]
      BY <1>1, <2>3, <2>6 DEF Free, Adding, TypeOK
    <3>3. QED BY <2>1, <2>2, <2>3, <2>4, <3>1, <3>2, SumSame
  <2>7. QED BY <2>5, <2>6
<1>6. DOMAIN length' \subseteq issued' /\ \A x \in issued' : x < next_handle'
  BY <1>2 DEF AllocatorInv, Free
<1>7. QED BY <1>3, <1>4, <1>5, <1>6 DEF AllocatorInv, UsedIsSum, Held

(* A buffer that is written, at the length it has or another.              *)
LEMMA WriteInv ==
    ASSUME AllocatorInv, NEW h \in Handle, NEW n \in Sizes, Write(h, n)
    PROVE  AllocatorInv'
<1>1. /\ TypeOK /\ used = Held + overwritten /\ overwritten \in Nat
      /\ h \in DOMAIN length /\ length[h] \in Nat /\ n \in Nat
  <2>1. TypeOK /\ used = Held + overwritten
    BY DEF AllocatorInv, UsedIsSum, Held
  <2>2. overwritten \in Nat
    BY <2>1 DEF TypeOK
  <2>3. h \in DOMAIN length /\ length[h] \in Nat
    BY <2>1 DEF TypeOK, Write
  <2>4. QED BY <2>1, <2>2, <2>3 DEF TypeOK, Write
<1>2. /\ DOMAIN length' = DOMAIN length
      /\ length'[h] = n
      /\ \A x \in DOMAIN length \ {h} : length'[x] = length[x]
  BY <1>1 DEF Write, With
<1>3. used' = Held' + overwritten' /\ used' \in Nat
  <2>1. used' = ((Held + overwritten) - length[h]) + n /\ overwritten' = overwritten
    BY <1>1 DEF Write
  <2>2. Held' = (Held - length[h]) + n /\ Held' \in Nat /\ Held \in Nat
    BY <1>1, <1>2, BuffersCount, SumReplaced, SumType DEF Held
  <2>3. QED BY <1>1, <2>1, <2>2
<1>4. resized' \in 0 .. MaxResizes /\ (resized' = 0 => resized = 0 /\ n = length[h])
  BY <1>1 DEF Write, TypeOK
<1>5. TypeOK'
  BY <1>1, <1>2, <1>3, <1>4 DEF TypeOK, Write
<1>6. TierShares'
  <2> SUFFICES ASSUME kind = "mock", resized' = 0, overwritten = 0, NEW u \in Tier
               PROVE  share'[u] = SumOver(InTier(u)', length')
    BY DEF TierShares, InTier, Write
  <2>1. share[u] = SumOver(InTier(u), length) /\ share' = share
    BY <1>4 DEF AllocatorInv, TierShares, InTier, Write
  <2>2. Counts(InTier(u), length)
    BY <1>1, BuffersCount
  <2>3. InTier(u)' = InTier(u) /\ \A x \in InTier(u) : length'[x] = length[x]
    BY <1>2, <1>4 DEF InTier, Write
  <2>4. QED BY <2>1, <2>2, <2>3, SumSame
<1>7. DOMAIN length' \subseteq issued' /\ \A x \in issued' : x < next_handle'
  BY <1>2 DEF AllocatorInv, Write
<1>8. QED BY <1>3, <1>5, <1>6, <1>7 DEF AllocatorInv, UsedIsSum, Held

(* No buffers: at the start, and after a reset.                            *)
LEMMA EmptyInv ==
    ASSUME length = <<>>, tierOf = <<>>, share = [t \in Tier |-> 0], used = 0,
           next_handle = 1, issued = {}, resized = 0, overwritten = 0,
           kind \in Kinds, budget \in Budgets, answer.handle \in Handle \cup {Failed}
    PROVE  AllocatorInv
<1>1. DOMAIN length = {} /\ DOMAIN tierOf = {}
  OBVIOUS
<1>2. TypeOK
  BY <1>1 DEF TypeOK
<1>3. \A t : {h \in DOMAIN length : tierOf[h] = t} = {}
  BY <1>1
<1>4. QED BY <1>1, <1>2, <1>3, SumEmpty DEF AllocatorInv, UsedIsSum, TierShares

LEMMA ResetInv ==
    ASSUME AllocatorInv, Reset
    PROVE  AllocatorInv'
<1>1. DOMAIN length' = {} /\ DOMAIN tierOf' = {}
  BY DEF Reset
<1>2. TypeOK'
  BY <1>1 DEF AllocatorInv, UsedIsSum, TypeOK, Reset
<1>3. \A t : {h \in DOMAIN length' : tierOf'[h] = t} = {}
  BY <1>1
<1>4. used' = 0 /\ overwritten' = 0 /\ issued' = {} /\ \A t \in Tier : share'[t] = 0
  BY DEF Reset
<1>5. QED BY <1>1, <1>2, <1>3, <1>4, SumEmpty DEF AllocatorInv, UsedIsSum, TierShares

LEMMA InitInv == Init => AllocatorInv
BY EmptyInv DEF Init, NoAnswer

LEMMA GrantInv ==
    ASSUME AllocatorInv, NEW n \in Sizes, NEW t \in Tier, Grant(t, n)
    PROVE  AllocatorInv'
<1>1. next_handle \in Handle \ DOMAIN length /\ next_handle + 1 \in 1 .. MaxHandle + 1
  BY DEF AllocatorInv, UsedIsSum, TypeOK, Grant
<1>2. QED BY <1>1, NewBuffer DEF Grant

(* A buffer put in place of another: what that one took stays counted.     *)
LEMMA OverwriteInv ==
    ASSUME AllocatorInv, NEW h \in DOMAIN length, NEW n \in Sizes, NEW t \in Tier,
           Preload(h, n, t), h \in Handle
    PROVE  AllocatorInv'
<1>1. /\ TypeOK /\ used = Held + overwritten /\ overwritten \in Nat
      /\ length[h] \in Nat /\ n \in Nat /\ kind = "mock" /\ DOMAIN tierOf = DOMAIN length
  <2>1. TypeOK /\ used = Held + overwritten
    BY DEF AllocatorInv, UsedIsSum, Held
  <2>2. overwritten \in Nat
    BY <2>1 DEF TypeOK
  <2>3. h \in DOMAIN length /\ length[h] \in Nat
    BY <2>1 DEF TypeOK, Preload
  <2>4. QED BY <2>1, <2>2, <2>3 DEF TypeOK, Preload
<1>2. /\ DOMAIN length' = DOMAIN length /\ length'[h] = n
      /\ \A x \in DOMAIN length \ {h} : length'[x] = length[x]
      /\ DOMAIN tierOf' = DOMAIN length /\ tierOf'[h] = t
      /\ \A x \in DOMAIN length \ {h} : tierOf'[x] = tierOf[x]
  BY <1>1 DEF Preload, With
<1>3. used' = Held' + overwritten' /\ used' \in Nat
  <2>1. used' = (Held + overwritten) + n /\ overwritten' = overwritten + length[h]
    BY <1>1 DEF Preload
  <2>2. Held' = (Held - length[h]) + n /\ Held' \in Nat /\ Held \in Nat
    BY <1>1, <1>2, BuffersCount, SumReplaced, SumType DEF Held
  <2>3. QED BY <1>1, <2>1, <2>2
<1>4. TypeOK'
  <2>1. share' \in [Tier -> Int]
    BY <1>1 DEF TypeOK, Preload, Adding
  <2>2. \A x \in DOMAIN tierOf' : tierOf'[x] \in Tier
    BY <1>1, <1>2 DEF TypeOK
  <2>3. next_handle' \in 1 .. MaxHandle + 1 /\ issued' \subseteq Handle
    <3>1. next_handle \in 1 .. MaxHandle + 1 /\ issued \subseteq Handle
      BY <1>1 DEF TypeOK
    <3>2. h + 1 \in 1 .. MaxHandle + 1
      OBVIOUS
    <3>3. QED BY <3>1, <3>2 DEF Preload
  <2>4. overwritten' \in 0 .. MaxOverwritten
    BY <1>1 DEF Preload
  <2>5. QED BY <1>1, <1>2, <1>3, <2>1, <2>2, <2>3, <2>4 DEF TypeOK, Preload
<1>5. TierShares'
  <2> SUFFICES ASSUME resized = 0, overwritten' = 0, NEW u \in Tier
               PROVE  share'[u] = SumOver(InTier(u)', length')
    BY <1>1 DEF TierShares, InTier, Preload
  <2> DEFINE S == InTier(u) \ {h}
  <2>1. overwritten = 0 /\ length[h] = 0
    BY <1>1 DEF Preload
  <2>2. share[u] = SumOver(InTier(u), length) /\ share[u] \in Int
    BY <1>1, <2>1 DEF AllocatorInv, TierShares, InTier, TypeOK
  <2>3. Counts(InTier(u), length) /\ Counts(S, length)
    BY <1>1, BuffersCount, FS_RemoveElement DEF Counts
  <2>4. share[u] = SumOver(S, length)
    <3>1. CASE h \in InTier(u)
      BY <2>1, <2>2, <2>3, <3>1, SumRest, SumType
    <3>2. CASE h \notin InTier(u)
      <4>1. S = InTier(u)
        BY <3>2
      <4>2. QED BY <2>2, <4>1
    <3>3. QED BY <3>1, <3>2
  <2>5. \A x \in S : length'[x] = length[x]
    BY <1>2 DEF InTier
  <2>6. CASE u = t
    <3>1. InTier(u)' = S \cup {h} /\ h \notin S
      BY <1>2, <2>6 DEF InTier
    <3>2. share'[u] = share[u] + n
      BY <1>1, <2>6 DEF Adding, TypeOK, Preload
    <3>3. SumOver(S \cup {h}, length') = SumOver(S, length) + n
      <4> HIDE DEF S
      <4>1. QED BY <1>1, <1>2, <2>3, <2>5, <3>1, SumWith
    <3>4. QED BY <2>4, <3>1, <3>2, <3>3
  <2>7. CASE u # t
    <3>1. InTier(u)' = S
      BY <1>2, <2>7 DEF InTier
    <3>2. share'[u] = share[u]
      BY <1>1, <2>7 DEF Adding, TypeOK, Preload
    <3>3. SumOver(S, length') = SumOver(S, length)
      <4> HIDE DEF S
      <4>1. QED BY <2>3, <2>5, SumSame
    <3>4. QED BY <2>4, <3>1, <3>2, <3>3
  <2>8. QED BY <2>6, <2>7
<1>6. DOMAIN length' \subseteq issued' /\ \A x \in issued' : x < next_handle'
  <2>1. \A x \in issued : x \in Int /\ x < next_handle
    BY <1>1 DEF AllocatorInv, TypeOK
  <2>2. next_handle \in Int /\ next_handle' \in Int /\ next_handle' >= next_handle
        /\ h < next_handle' /\ issued' = issued \cup {h}
    BY <1>1 DEF TypeOK, Preload
  <2>3. QED BY <1>2, <2>1, <2>2 DEF AllocatorInv
<1>7. QED BY <1>3, <1>4, <1>5, <1>6 DEF AllocatorInv, UsedIsSum, Held

LEMMA PreloadInv ==
    ASSUME AllocatorInv, NEW h \in Handle, NEW n \in Sizes, NEW t \in Tier, Preload(h, n, t)
    PROVE  AllocatorInv'
<1>1. CASE h \in DOMAIN length
  BY <1>1, OverwriteInv
<1>2. CASE h \notin DOMAIN length
  <2>1. /\ h \in Handle \ DOMAIN length
        /\ next_handle' \in 1 .. MaxHandle + 1
        /\ next_handle' >= next_handle /\ h < next_handle'
        /\ answer'.handle \in Handle \cup {Failed}
        /\ overwritten' = overwritten
    BY <1>2 DEF AllocatorInv, UsedIsSum, TypeOK, Preload
  <2>2. QED BY <2>1, NewBuffer DEF Preload
<1>3. QED BY <1>1, <1>2

(* Nothing that the invariant relates has changed.                         *)
LEMMA SameInv ==
    ASSUME AllocatorInv, budget' \in Budgets, answer'.handle \in Handle \cup {Failed},
           UNCHANGED <<kind, length, tierOf, share, used, next_handle, issued, resized,
                       overwritten>>
    PROVE  AllocatorInv'
<1>1. TypeOK' /\ UsedIsSum'
  BY DEF AllocatorInv, UsedIsSum, TypeOK
<1>2. TierShares'
  BY DEF AllocatorInv, TierShares
<1>3. QED BY <1>1, <1>2 DEF AllocatorInv

LEMMA NextInv == AllocatorInv /\ [Next]_vars => AllocatorInv'
<1> SUFFICES ASSUME AllocatorInv, [Next]_vars PROVE AllocatorInv'
  OBVIOUS
<1>1. TypeOK
  BY DEF AllocatorInv, UsedIsSum
<1>2. ASSUME NEW n \in Sizes, Refuse(n) PROVE AllocatorInv'
  BY <1>1, <1>2, SameInv DEF Refuse, TypeOK
<1>3. CASE Reset
  BY <1>3, ResetInv
<1>4. ASSUME NEW b \in Budgets, SetBudget(b) PROVE AllocatorInv'
  BY <1>1, <1>4, SameInv DEF SetBudget, TypeOK
<1>5. CASE UNCHANGED vars
  BY <1>1, <1>5, SameInv DEF vars, TypeOK
<1>6. QED BY <1>2, <1>3, <1>4, <1>5, GrantInv, FreeInv, WriteInv, PreloadInv DEF Next

-----------------------------------------------------------------------------
(* Counters and handles are right after every call, of either allocator.  *)
THEOREM AllocatorCorrect == Spec => []AllocatorInv
BY InitInv, NextInv, PTL DEF Spec

(* The counter that decides what is granted is the truth, after any        *)
(* sequence of calls on either allocator.                                  *)
THEOREM UsedIsWhatIsHeld == Spec => []UsedIsSum
<1>1. AllocatorInv => UsedIsSum
  BY DEF AllocatorInv
<1>2. QED BY <1>1, AllocatorCorrect, PTL

(* The share of a tier is what its buffers take, as long as no write has   *)
(* changed a length and no preload has replaced a buffer.                  *)
THEOREM SharesAreHeld == Spec => []TierShares
<1>1. AllocatorInv => TierShares
  BY DEF AllocatorInv
<1>2. QED BY <1>1, AllocatorCorrect, PTL

-----------------------------------------------------------------------------
(* Each call is a step of the protocol, or none.                           *)
LEMMA InitImplements == Init => M!Init
BY DEF Init, M!Init, NoAnswer, Failed, M!Failed

LEMMA TotalIsHeld == M!Total(length) = SumOver(DOMAIN length, length)
BY DEF SumOver, MapThenSumSet, MapThenFoldSet,
   M!Total, M!MapThenSumSet, M!MapThenFoldSet

LEMMA StepImplements ==
    ASSUME AllocatorInv, [Next]_vars
    PROVE  [M!Next]_(M!vars)
<1>1. /\ TypeOK /\ used = M!Total(length) + overwritten
      /\ M!Total(length) \in Nat /\ overwritten \in Nat
      /\ next_handle \in Nat /\ next_handle \notin issued
      /\ DOMAIN length \subseteq issued
      /\ used \in Nat /\ budget \in Nat
  BY TotalIsHeld, BuffersCount, SumType DEF AllocatorInv, UsedIsSum, TypeOK
<1>2. ASSUME NEW n \in Sizes, Refuse(n) PROVE M!Refuse
  <2>1. answer'.handle = -1 /\ answer'.size = n /\ n \in Nat
        /\ UNCHANGED <<length, budget, issued, overwritten>>
    BY <1>2 DEF Refuse, Failed
  <2>2. n <= 0 \/ used + n > budget
    BY <1>1, <1>2, <2>1 DEF Refuse, Fits
  <2>3. QED BY <1>1, <2>1, <2>2 DEF M!Refuse, M!Failed, M!Room
<1>3. ASSUME NEW t \in Tier, NEW n \in Sizes, Grant(t, n) PROVE M!Grant
  BY <1>1, <1>3 DEF Grant, Fits, With, M!Grant, M!With, M!Room
<1>4. ASSUME NEW h \in Handle, Free(h) PROVE M!Free
  BY <1>4 DEF Free, Without, M!Free, M!Without
<1>5. ASSUME NEW h \in Handle, NEW n \in Sizes, Write(h, n) PROVE M!Write
  <2>1. length' = With(length, h, n) /\ h \in DOMAIN length
    BY <1>5 DEF Write
  <2>2. DOMAIN length' = DOMAIN length /\ length'[h] = n
    BY <2>1 DEF With
  <2>3. length' = M!With(length, h, length'[h])
    BY <2>1, <2>2 DEF With, M!With
  <2>4. QED BY <1>5, <2>1, <2>2, <2>3 DEF Write, M!Write
<1>6. ASSUME NEW h \in Handle, NEW n \in Sizes, NEW t \in Tier, Preload(h, n, t)
      PROVE  M!SetUp
  <2>1. length' = With(length, h, n)
    BY <1>6 DEF Preload
  <2>2. DOMAIN length' = DOMAIN length \cup {h} /\ length'[h] = n
    BY <2>1 DEF With
  <2>3. length' = M!With(length, h, length'[h])
    BY <2>1, <2>2 DEF With, M!With
  <2>4. QED BY <1>6, <2>1, <2>2, <2>3 DEF Preload, M!SetUp
<1>7. ASSUME Reset PROVE M!SetUp
  BY <1>7 DEF Reset, M!SetUp
<1>8. ASSUME NEW b \in Budgets, SetBudget(b) PROVE M!SetUp
  BY <1>8 DEF SetBudget, M!SetUp
<1>9. CASE UNCHANGED vars
  BY <1>9 DEF vars, M!vars
<1>10. QED
  BY <1>2, <1>3, <1>4, <1>5, <1>6, <1>7, <1>8, <1>9 DEF Next, M!Next

(* Both allocators implement the protocol: every handle is new, and a      *)
(* request is granted exactly when the buffers leave room for it.          *)
THEOREM AllocatorImplementsMemory == Spec => ImplementsMemory
<1>1. AllocatorInv /\ [Next]_vars => [M!Next]_(M!vars)
  BY StepImplements
<1>2. QED
  BY <1>1, InitImplements, AllocatorCorrect, PTL DEF Spec, ImplementsMemory, M!Spec
=============================================================================
