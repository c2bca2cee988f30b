----------------------------- MODULE TierProofs -----------------------------
(***************************************************************************)
(* What a tier means: what is left of a page's values in it, and when a    *)
(* page is given it.                                                       *)
(*                                                                         *)
(* First, what holds of the codecs for every page, group size, hidden      *)
(* dimension, sigma and noise: lists and the streams they are joined to,   *)
(* rounding and the casts to bfloat16 and E4M3, one codec after the other, *)
(* and then the theorems.                                                  *)
(*                                                                         *)
(* Then, what holds of the controller for every policy that __post_init__  *)
(* accepts, every codec table, any scores and any pressure: a page moves   *)
(* by one tier, stays on the GPU, and is moved back only after its score   *)
(* has crossed the dead band.                                              *)
(***************************************************************************)
EXTENDS Codecs, Controller, FiniteSetTheorems, SequenceTheorems, TLAPS

-----------------------------------------------------------------------------
(* Lists, and parts of them.                                               *)
IsList(s) == Len(s) \in Nat /\ s = [i \in 1 .. Len(s) |-> s[i]]

LEMMA ListMade ==
    ASSUME NEW n \in Nat, NEW f, f = [i \in 1 .. n |-> f[i]]
    PROVE  IsList(f) /\ Len(f) = n
<1> DEFINE S == {f[i] : i \in 1 .. n}
<1>1. f \in [1 .. n -> S]
  OBVIOUS
<1>2. f \in Seq(S)
  BY <1>1, SeqDef
<1>3. Len(f) \in Nat /\ DOMAIN f = 1 .. Len(f)
  BY <1>2, LenProperties
<1>4. 1 .. Len(f) = 1 .. n
  BY <1>1, <1>3
<1>5. Len(f) = n
  BY <1>3, <1>4
<1>6. QED BY <1>5 DEF IsList

LEMMA ListOfSeq == ASSUME NEW S, NEW s \in Seq(S) PROVE IsList(s) /\ s \in [1 .. Len(s) -> S]
BY LenProperties DEF IsList

LEMMA ListsEqual ==
    ASSUME NEW s, NEW t, IsList(s), IsList(t), Len(s) = Len(t),
           \A i \in 1 .. Len(s) : s[i] = t[i]
    PROVE  s = t
<1>1. [i \in 1 .. Len(s) |-> s[i]] = [i \in 1 .. Len(t) |-> t[i]]
  OBVIOUS
<1>2. QED BY <1>1 DEF IsList

LEMMA EmptyList == IsList(<<>>) /\ Len(<<>>) = 0
BY EmptySeq, ListOfSeq

LEMMA NoElements == ASSUME NEW s, IsList(s) PROVE s = <<>> <=> Len(s) = 0
BY EmptyList, ListsEqual DEF IsList

(* Part is found in s from the offset on.                                  *)
At(s, offset, part) ==
    /\ offset + Len(part) <= Len(s)
    /\ \A i \in 1 .. Len(part) : s[offset + i] = part[i]

LEMMA Joined ==
    ASSUME NEW s, NEW t, IsList(s), IsList(t)
    PROVE  /\ IsList(s \o t) /\ Len(s \o t) = Len(s) + Len(t)
           /\ At(s \o t, 0, s) /\ At(s \o t, Len(s), t)
<1> DEFINE S == {s[i] : i \in 1 .. Len(s)} \cup {t[i] : i \in 1 .. Len(t)}
<1>1. s \in [1 .. Len(s) -> S] /\ t \in [1 .. Len(t) -> S] /\ Len(s) \in Nat /\ Len(t) \in Nat
  BY DEF IsList
<1>2. s \in Seq(S) /\ t \in Seq(S)
  BY <1>1, SeqDef
<1> HIDE DEF S
<1>3. /\ s \o t \in Seq(S) /\ Len(s \o t) = Len(s) + Len(t)
      /\ \A i \in 1 .. Len(s) + Len(t) :
            (s \o t)[i] = IF i <= Len(s) THEN s[i] ELSE t[i - Len(s)]
  BY <1>2, ConcatProperties
<1>4. IsList(s \o t)
  BY <1>3, ListOfSeq
<1>5. \A i \in 1 .. Len(s) : (s \o t)[0 + i] = s[i]
  BY <1>1, <1>3
<1>6. \A i \in 1 .. Len(t) : (s \o t)[Len(s) + i] = t[i]
  BY <1>1, <1>3
<1>7. QED BY <1>1, <1>3, <1>4, <1>5, <1>6 DEF At

(* What is in s is in what begins with s.                                  *)
LEMMA StillAt ==
    ASSUME NEW s, NEW t, IsList(s), IsList(t), NEW offset \in Nat, NEW part, IsList(part),
           At(s, offset, part)
    PROVE  At(s \o t, offset, part)
<1>1. Len(s) \in Nat /\ Len(t) \in Nat /\ Len(part) \in Nat
  BY DEF IsList
<1>2. Len(s \o t) = Len(s) + Len(t) /\ At(s \o t, 0, s)
  BY Joined
<1>3. \A i \in 1 .. Len(s) : (s \o t)[i] = s[i]
  BY <1>2 DEF At
<1>4. \A i \in 1 .. Len(part) : offset + i \in 1 .. Len(s) /\ s[offset + i] = part[i]
  BY <1>1 DEF At
<1>5. QED BY <1>1, <1>2, <1>3, <1>4 DEF At

-----------------------------------------------------------------------------
(* Words, and fields of bytes.                                             *)
Sizes == {1, 2, 4, 8}

LEMMA WordIsList ==
    ASSUME NEW v, NEW size \in Sizes
    PROVE  IsList(Word(v, size)) /\ Len(Word(v, size)) = size
<1>1. Word(v, size) = [i \in 1 .. size |-> Word(v, size)[i]]
  BY DEF Word
<1>2. QED BY <1>1, ListMade DEF Sizes

LEMMA CellFields ==
    ASSUME NEW v, NEW size, NEW i
    PROVE  Cell(v, size, i).word = v /\ Cell(v, size, i).size = size /\ Cell(v, size, i).byte = i
BY Zenon DEF Cell

(* Cells of one word are read as the word.                                 *)
LEMMA CellsRead ==
    ASSUME NEW s, NEW at \in Int, NEW v, NEW size \in Nat \ {0}, at + size <= Len(s),
           \A i \in 1 .. size : s[at + i] = Cell(v, size, i)
    PROVE  WordAt(s, at, size) = v
<1>1. ASSUME NEW i \in 1 .. size PROVE s[at + i].size = size /\ s[at + i].byte = i
  BY CellFields
<1>2. 1 \in 1 .. size
  OBVIOUS
<1>3. s[at + 1] = Cell(v, size, 1)
  BY <1>2
<1>4. s[at + 1].word = v
  BY <1>3, CellFields
<1>5. QED BY <1>1, <1>4 DEF WordAt

LEMMA WordFound ==
    ASSUME NEW s, IsList(s), NEW offset \in Nat, NEW v, NEW size \in Sizes,
           At(s, offset, Word(v, size))
    PROVE  WordAt(s, offset, size) = v
<1>1. /\ offset + size <= Len(s)
      /\ \A i \in 1 .. size : s[offset + i] = Cell(v, size, i)
  BY WordIsList DEF At, Word
<1>2. size \in Nat \ {0}
  BY DEF Sizes
<1>3. offset \in Int /\ offset + size <= Len(s)
  BY <1>1
<1>4. \A i \in 1 .. size : s[offset + i] = Cell(v, size, i)
  BY <1>1
<1>5. QED BY ONLY <1>2, <1>3, <1>4, CellsRead

LEMMA WordsAreList ==
    ASSUME NEW q, IsList(q), NEW size \in Sizes
    PROVE  IsList(Words(q, size)) /\ Len(Words(q, size)) = size * Len(q)
<1>1. Words(q, size) = [i \in 1 .. size * Len(q) |-> Words(q, size)[i]]
  BY DEF Words
<1>2. size * Len(q) \in Nat
  BY DEF Sizes, IsList
<1>3. QED BY <1>1, <1>2, ListMade

LEMMA WordsFound ==
    ASSUME NEW s, IsList(s), NEW offset \in Nat, NEW q, IsList(q), NEW size \in Sizes,
           At(s, offset, Words(q, size)), NEW k \in 1 .. Len(q)
    PROVE  WordAt(s, offset + size * (k - 1), size) = q[k]
<1> DEFINE at == size * (k - 1)
<1>1. Len(q) \in Nat /\ Len(s) \in Nat /\ k \in Nat /\ k >= 1 /\ k <= Len(q)
  BY DEF IsList
<1>2. at \in Nat /\ at + size <= size * Len(q)
  BY <1>1 DEF Sizes
<1>3. ASSUME NEW i \in 1 .. size
      PROVE  /\ at + i \in 1 .. size * Len(q)
             /\ ((at + i - 1) \div size) + 1 = k
             /\ ((at + i - 1) % size) + 1 = i
  BY <1>1, <1>2 DEF Sizes
<1>4. ASSUME NEW i \in 1 .. size
      PROVE  s[(offset + at) + i] = Cell(q[k], size, i)
  <2>1. Words(q, size)[at + i] = Cell(q[k], size, i)
    <3> DEFINE j == at + i
    <3>1. j \in 1 .. size * Len(q) /\ ((j - 1) \div size) + 1 = k /\ ((j - 1) % size) + 1 = i
      <4> HIDE DEF at
      <4>1. at \in Nat /\ size \in Nat /\ i \in Nat
        BY <1>2 DEF Sizes
      <4>2. QED BY <1>3, <4>1
    <3> HIDE DEF j
    <3>2. Words(q, size)[j] = Cell(q[k], size, i)
      BY <3>1 DEF Words
    <3>3. QED BY <3>2 DEF j
  <2>2. s[offset + (at + i)] = Words(q, size)[at + i]
    BY <1>3, WordsAreList DEF At
  <2>3. offset + (at + i) = (offset + at) + i
    BY <1>2
  <2>4. QED BY <2>1, <2>2, <2>3
<1>5. (offset + at) + size <= Len(s)
  <2>1. size * Len(q) \in Nat /\ offset + size * Len(q) <= Len(s)
    <3>1. Len(Words(q, size)) = size * Len(q) /\ size * Len(q) \in Nat
      BY WordsAreList DEF IsList
    <3>2. QED BY <3>1 DEF At
  <2>2. size \in Nat
    BY DEF Sizes
  <2> HIDE DEF at
  <2>3. QED BY <1>1, <1>2, <2>1, <2>2
<1>6. size \in Nat \ {0}
  BY DEF Sizes
<1> HIDE DEF at
<1>7. WordAt(s, offset + at, size) = q[k]
  <2>1. offset + at \in Int
    BY <1>2
  <2>2. QED BY <2>1, <1>4, <1>5, <1>6, CellsRead, Zenon
<1>8. QED BY <1>7 DEF at

(* Fields that are packed and unpacked again.                              *)
Fields == {1, 2, 4}

Padding(n, m) == (m - (n % m)) % m

LEMMA PaddedIsList ==
    ASSUME NEW q, IsList(q), NEW m \in Nat \ {0}
    PROVE  /\ IsList(PaddedTo(q, m)) /\ Len(PaddedTo(q, m)) = Len(q) + Padding(Len(q), m)
           /\ Padding(Len(q), m) \in Nat
           /\ Len(PaddedTo(q, m)) % m = 0
           /\ \A i \in 1 .. Len(PaddedTo(q, m)) :
                PaddedTo(q, m)[i] = IF i <= Len(q) THEN q[i] ELSE 0
<1> DEFINE n == (m - (Len(q) % m)) % m
           zeros == [i \in 1 .. n |-> 0]
<1>1. Len(q) \in Nat /\ Len(q) % m \in 0 .. m - 1 /\ n \in Nat
  BY DEF IsList
<1>2. IsList(zeros) /\ Len(zeros) = n
  <2>1. zeros = [i \in 1 .. n |-> zeros[i]]
    OBVIOUS
  <2> HIDE DEF zeros, n
  <2>2. QED BY <1>1, <2>1, ListMade
<1>3. PaddedTo(q, m) = q \o zeros
  BY DEF PaddedTo
<1>4. (Len(q) + n) % m = 0
  <2> DEFINE r == Len(q) % m
             d == Len(q) \div m
  <2>1. Len(q) = m * d + r /\ d \in Nat /\ r \in 0 .. m - 1
    BY <1>1
  <2>2. CASE r = 0
    <3>1. n = 0
      BY <2>2
    <3>2. QED BY <1>1, <2>2, <3>1
  <2>3. CASE r # 0
    <3>1. n = m - r
      BY <2>1, <2>3
    <3>2. Len(q) + n = m * (d + 1)
      BY <2>1, <3>1
    <3>3. (m * (d + 1)) % m = 0
      BY <2>1
    <3>4. QED BY <3>2, <3>3
  <2>4. QED BY <2>2, <2>3
<1>5. \A i \in 1 .. n : zeros[i] = 0
  OBVIOUS
<1> HIDE DEF zeros, n
<1>6. /\ IsList(q \o zeros) /\ Len(q \o zeros) = Len(q) + n
      /\ \A i \in 1 .. Len(q) : (q \o zeros)[0 + i] = q[i]
      /\ \A i \in 1 .. n : (q \o zeros)[Len(q) + i] = zeros[i]
  BY <1>2, Joined DEF At
<1>7. ASSUME NEW i \in 1 .. Len(q) + n
      PROVE  (q \o zeros)[i] = IF i <= Len(q) THEN q[i] ELSE 0
  <2>1. CASE i <= Len(q)
    <3>1. i \in 1 .. Len(q) /\ 0 + i = i
      BY <1>1, <2>1
    <3>2. QED BY <1>6, <2>1, <3>1
  <2>2. CASE i > Len(q)
    <3>1. i - Len(q) \in 1 .. n /\ Len(q) + (i - Len(q)) = i
      BY <1>1, <2>2
    <3>2. (q \o zeros)[i] = 0
      BY <1>5, <1>6, <3>1
    <3>3. ~(i <= Len(q))
      BY <1>1, <2>2
    <3>4. QED BY <3>2, <3>3, Zenon
  <2>3. i <= Len(q) \/ i > Len(q)
    BY <1>1
  <2>4. QED BY <2>1, <2>2, <2>3, Zenon
<1>8. n = Padding(Len(q), m)
  BY DEF n, Padding
<1>9. /\ IsList(PaddedTo(q, m)) /\ Len(PaddedTo(q, m)) = Len(q) + n
      /\ Len(PaddedTo(q, m)) % m = 0
  BY <1>3, <1>4, <1>6
<1>10. \A i \in 1 .. Len(PaddedTo(q, m)) : PaddedTo(q, m)[i] = IF i <= Len(q) THEN q[i] ELSE 0
  BY <1>3, <1>7, <1>9
<1>11. QED BY <1>1, <1>8, <1>9, <1>10, Zenon

LEMMA PackedIsList ==
    ASSUME NEW q, IsList(q), NEW m \in Fields
    PROVE  /\ IsList(Packed(q, m)) /\ m * Len(Packed(q, m)) = Len(PaddedTo(q, m))
           /\ \A b \in 1 .. Len(Packed(q, m)) :
                Packed(q, m)[b] = Cell([f \in 1 .. m |-> PaddedTo(q, m)[(b - 1) * m + f]], 1, 1)
<1> DEFINE n == Len(PaddedTo(q, m)) \div m
<1>1. IsList(PaddedTo(q, m)) /\ Len(PaddedTo(q, m)) % m = 0
  BY PaddedIsList DEF Fields
<1>2. n \in Nat /\ m * n = Len(PaddedTo(q, m))
  BY <1>1 DEF Fields, IsList
<1>3. Packed(q, m) = [b \in 1 .. n |-> Cell([f \in 1 .. m |-> PaddedTo(q, m)[(b - 1) * m + f]], 1, 1)]
  BY DEF Packed
<1> HIDE DEF n
<1>4. Packed(q, m) = [b \in 1 .. n |-> Packed(q, m)[b]]
  BY <1>3
<1>5. IsList(Packed(q, m)) /\ Len(Packed(q, m)) = n
  BY <1>2, <1>4, ListMade
<1>6. QED BY <1>2, <1>3, <1>5

LEMMA FieldsFound ==
    ASSUME NEW s, IsList(s), NEW offset \in Nat, NEW q, IsList(q), NEW m \in Fields,
           At(s, offset, Packed(q, m)), Len(s) = offset + Len(Packed(q, m)),
           NEW i \in 1 .. Len(q)
    PROVE  Unpacked(s, offset, m)[i] = q[i]
<1> DEFINE b == ((i - 1) \div m) + 1
           f == ((i - 1) % m) + 1
           P == Packed(q, m)
<1>1. Len(q) \in Nat /\ i \in Nat /\ i >= 1 /\ i <= Len(q)
  BY DEF IsList
<1>2. IsList(P) /\ m * Len(P) = Len(PaddedTo(q, m)) /\ Len(P) \in Nat
  BY PackedIsList DEF IsList
<1>3. /\ Len(PaddedTo(q, m)) \in Nat
      /\ i \in 1 .. Len(PaddedTo(q, m)) /\ PaddedTo(q, m)[i] = q[i]
  <2>1. m \in Nat \ {0}
    BY DEF Fields
  <2>2. Len(PaddedTo(q, m)) = Len(q) + Padding(Len(q), m) /\ Padding(Len(q), m) \in Nat
    BY <2>1, PaddedIsList
  <2>3. i \in 1 .. Len(PaddedTo(q, m))
    BY <1>1, <2>2
  <2>4. QED BY <1>1, <2>1, <2>3, PaddedIsList
<1>4. b \in 1 .. Len(P) /\ f \in 1 .. m /\ (b - 1) * m + f = i
  BY <1>1, <1>2, <1>3 DEF Fields
<1>5. P[b] = Cell([g \in 1 .. m |-> PaddedTo(q, m)[(b - 1) * m + g]], 1, 1)
  BY <1>4, PackedIsList
<1>6. s[offset + b] = P[b]
  BY <1>4 DEF At
<1>7. i \in 1 .. m * (Len(s) - offset)
  BY <1>1, <1>2, <1>3 DEF Fields
<1>8. Unpacked(s, offset, m)[i] = LET c == s[offset + b] IN IF c.size = 1 THEN c.word[f] ELSE Garbage
  <2>1. offset + ((i - 1) \div m) + 1 = offset + b
    BY <1>1 DEF Fields
  <2>2. QED BY <1>7, <2>1 DEF Unpacked
<1> HIDE DEF b, f, P
<1>9. QED BY <1>3, <1>4, <1>5, <1>6, <1>8 DEF Cell

-----------------------------------------------------------------------------
(* The largest of finitely many integers.                                  *)
LEMMA Largest ==
    ASSUME NEW S, IsFiniteSet(S), S \subseteq Int, S # {}
    PROVE  Max(S) \in S /\ \A y \in S : Max(S) >= y
<1> DEFINE HasLargest(s) == \E x \in s : \A y \in s : x >= y
           D == {s \in SUBSET S : s # {} /\ ~HasLargest(s)}
           R == StrictSubsetOrdering(S)
<1>1. SUFFICES ASSUME D # {} PROVE FALSE
  <2>1. ASSUME D = {} PROVE HasLargest(S)
    BY <2>1
  <2>2. QED BY <2>1 DEF Max
<1>2. IsWellFoundedOn(R, SUBSET S)
  BY FS_StrictSubsetOrderingWellFounded, FS_FiniteSubsetsOfFinite
<1>3. PICK s \in D : \A y \in D : <<y, s>> \notin R
  <2>1. D \subseteq SUBSET S
    OBVIOUS
  <2> HIDE DEF D, R
  <2>2. QED BY <1>1, <1>2, <2>1, WFMin
<1>4. PICK x \in s : TRUE
  BY <1>3
<1>5. s \ {x} = {} \/ HasLargest(s \ {x})
  <2>1. s \ {x} \in SUBSET S /\ s \in SUBSET S /\ s \ {x} # s
    BY <1>3, <1>4
  <2>2. <<s \ {x}, s>> \in R
    BY <2>1 DEF StrictSubsetOrdering
  <2>3. QED BY <1>3, <2>1, <2>2
<1>6. CASE s \ {x} = {}
  <2>1. \A y \in s : x >= y
    BY <1>3, <1>4, <1>6
  <2>2. QED BY <1>3, <1>4, <2>1
<1>7. CASE HasLargest(s \ {x})
  <2>1. PICK z \in s \ {x} : \A y \in s \ {x} : z >= y
    BY <1>7
  <2>2. z \in Int /\ x \in Int /\ s \subseteq Int
    BY <1>3, <1>4, <2>1
  <2>3. CASE x >= z
    <3>1. \A y \in s : x >= y
      BY <2>1, <2>2, <2>3
    <3>2. QED BY <1>3, <1>4, <3>1
  <2>4. CASE z >= x
    <3>1. \A y \in s : z >= y
      BY <2>1, <2>2, <2>4
    <3>2. QED BY <1>3, <2>1, <3>1
  <2>5. QED BY <2>2, <2>3, <2>4
<1>8. QED BY <1>5, <1>6, <1>7

Abs(v) == IF v < 0 THEN -v ELSE v

LEMMA AbsType == ASSUME NEW v \in Int PROVE Abs(v) \in Nat /\ (Abs(v) = v \/ Abs(v) = -v)
BY DEF Abs

(* The largest deviation from zero in a group.                             *)
LEMMA GroupMax ==
    ASSUME NEW x, NEW g \in Int, NEW n \in Int,
           \A j \in Members(g, n) : x[j] \in Int
    PROVE  /\ GroupAbsMax(x, g, n) \in Nat
           /\ \A j \in Members(g, n) : Abs(x[j]) <= GroupAbsMax(x, g, n)
           /\ \/ GroupAbsMax(x, g, n) = 0
              \/ \E j \in Members(g, n) : Abs(x[j]) = GroupAbsMax(x, g, n)
<1> DEFINE M == Members(g, n)
           S == {Abs(x[j]) : j \in M}
<1>1. IsFiniteSet(M)
  <2>1. (g - 1) * n + 1 \in Int /\ g * n \in Int
    OBVIOUS
  <2>2. QED BY <2>1, FS_Interval DEF Members
<1>2. IsFiniteSet(S)
  <2> DEFINE f == [j \in M |-> Abs(x[j])]
  <2>1. f \in Surjection(M, S)
    BY DEF Surjection
  <2> HIDE DEF M, S, f
  <2>2. QED BY <1>1, <2>1, FS_Surjection
<1>3. IsFiniteSet(S \cup {0}) /\ S \cup {0} \subseteq Int /\ S \cup {0} # {}
  <2>1. S \subseteq Nat
    BY AbsType
  <2> HIDE DEF S
  <2>2. QED BY <1>2, <2>1, FS_AddElement
<1>4. GroupAbsMax(x, g, n) = Max(S \cup {0})
  <2>1. {IF v < 0 THEN -v ELSE v : v \in {x[j] : j \in M}} = S
    BY DEF Abs
  <2>2. QED BY <2>1 DEF GroupAbsMax, MaxAbs
<1>5. Max(S \cup {0}) \in S \cup {0} /\ \A y \in S \cup {0} : Max(S \cup {0}) >= y
  <2> HIDE DEF S
  <2>1. QED BY <1>3, Largest
<1> DEFINE t == GroupAbsMax(x, g, n)
<1>6. t \in S \cup {0} /\ \A y \in S \cup {0} : t >= y
  BY <1>4, <1>5
<1>7. t \in Int /\ t >= 0
  BY <1>3, <1>6
<1>8. \A j \in M : Abs(x[j]) <= t
  <2>1. \A j \in M : Abs(x[j]) \in S /\ Abs(x[j]) \in Int
    BY AbsType
  <2> HIDE DEF S, t, M
  <2>2. QED BY <1>6, <1>7, <2>1
<1>9. QED BY <1>6, <1>7, <1>8

LEMMA AbsOfOne == ASSUME NEW v \in Int PROVE MaxAbs({v}) = Abs(v)
<1>1. {IF u < 0 THEN -u ELSE u : u \in {v}} \cup {0} = {Abs(v), 0}
  BY DEF Abs
<1>2. IsFiniteSet({Abs(v)} \cup {0})
  BY FS_Singleton, FS_AddElement
<1>3. {Abs(v)} \cup {0} = {Abs(v), 0} /\ Abs(v) \in Nat
  BY AbsType
<1>4. Max({Abs(v), 0}) \in {Abs(v), 0} /\ \A y \in {Abs(v), 0} : Max({Abs(v), 0}) >= y
  BY <1>2, <1>3, Largest
<1>5. QED BY <1>1, <1>3, <1>4 DEF MaxAbs

-----------------------------------------------------------------------------
(* A fold adds up one element after the other, in an order that is not     *)
(* known; there is one such function, and its values are integers.         *)
Some(s) == CHOOSE x \in s : TRUE

LEMMA SomeIn == ASSUME NEW s, s # {} PROVE Some(s) \in s
BY DEF Some

Adds(g, S, f) ==
    g = [s \in SUBSET S |-> IF s = {} THEN 0
                            ELSE f[Some(s)] + g[s \ {Some(s)}]]

LEMMA AddsTo ==
    ASSUME NEW S, NEW f, NEW g, Adds(g, S, f), NEW s \in SUBSET S, s # {}
    PROVE  g[s] = f[Some(s)] + g[s \ {Some(s)}]
BY DEF Adds

LEMMA AddsNothing == ASSUME NEW S, NEW f, NEW g, Adds(g, S, f) PROVE g[{}] = 0
BY DEF Adds

LEMMA AddsOnce ==
    ASSUME NEW S, IsFiniteSet(S), NEW T, IsFiniteSet(T), NEW f, NEW g, NEW h,
           Adds(g, S, f), Adds(h, T, f), NEW u \in SUBSET (S \cap T)
    PROVE  g[u] = h[u]
<1> DEFINE D == {s \in SUBSET (S \cap T) : g[s] # h[s]}
           R == StrictSubsetOrdering(S \cap T)
<1>1. SUFFICES ASSUME D # {} PROVE FALSE
  OBVIOUS
<1>2. IsWellFoundedOn(R, SUBSET (S \cap T))
  <2>1. S \cap T \in SUBSET S
    OBVIOUS
  <2>2. IsFiniteSet(S \cap T)
    BY <2>1, FS_Subset
  <2>3. QED BY <2>2, FS_StrictSubsetOrderingWellFounded, FS_FiniteSubsetsOfFinite
<1>3. PICK s \in D : \A y \in D : <<y, s>> \notin R
  <2>1. D \subseteq SUBSET (S \cap T)
    OBVIOUS
  <2> HIDE DEF D, R
  <2>2. QED BY <1>1, <1>2, <2>1, WFMin
<1>4. s # {}
  BY <1>3 DEF Adds
<1> DEFINE x == Some(s)
<1>5. x \in s /\ s \ {x} \in SUBSET (S \cap T) /\ s \in SUBSET S /\ s \in SUBSET T
  BY <1>3, <1>4, SomeIn
<1>6. g[s \ {x}] = h[s \ {x}]
  <2>1. <<s \ {x}, s>> \in R
    BY <1>3, <1>5 DEF StrictSubsetOrdering
  <2>2. s \ {x} \notin D
    BY <1>3, <2>1
  <2>3. QED BY <1>5, <2>2
<1>7. g[s] = f[x] + g[s \ {x}] /\ h[s] = f[x] + h[s \ {x}]
  BY <1>4, <1>5, AddsTo
<1>8. QED BY <1>3, <1>6, <1>7

LEMMA SumExists ==
    ASSUME NEW S, IsFiniteSet(S), NEW f, \A x \in S : f[x] \in Int
    PROVE  \E g : Adds(g, S, f) /\ g[S] \in Int
<1> DEFINE Good(s) == \E g : Adds(g, s, f) /\ g[s] \in Int
           D == {s \in SUBSET S : ~Good(s)}
           R == StrictSubsetOrdering(S)
<1>1. SUFFICES ASSUME D # {} PROVE FALSE
  OBVIOUS
<1>2. IsWellFoundedOn(R, SUBSET S)
  BY FS_StrictSubsetOrderingWellFounded, FS_FiniteSubsetsOfFinite
<1>3. PICK s \in D : \A y \in D : <<y, s>> \notin R
  <2>1. D \subseteq SUBSET S
    OBVIOUS
  <2> HIDE DEF D, R
  <2>2. QED BY <1>1, <1>2, <2>1, WFMin
<1>4. ASSUME NEW t \in SUBSET s, t # s PROVE Good(t)
  <2>1. t \in SUBSET S /\ s \in SUBSET S
    BY <1>3
  <2>2. <<t, s>> \in R
    BY <2>1, <1>4 DEF StrictSubsetOrdering
  <2>3. QED BY <1>3, <2>1, <2>2
<1> DEFINE of(t) == CHOOSE g : Adds(g, t, f) /\ g[t] \in Int
<1>5. ASSUME NEW t \in SUBSET s, t # s PROVE Adds(of(t), t, f) /\ of(t)[t] \in Int
  BY <1>4, <1>5
<1>6. ASSUME NEW t \in SUBSET s, t # {} PROVE Some(t) \in t /\ t \ {Some(t)} \in SUBSET s /\ t \ {Some(t)} # s
  BY <1>6, SomeIn
<1>7. \A t \in SUBSET s : IsFiniteSet(t)
  BY <1>3, FS_Subset
<1> DEFINE total(t) == IF t = {} THEN 0
                       ELSE IF t = s THEN f[Some(s)] + of(s \ {Some(s)})[s \ {Some(s)}] ELSE of(t)[t]
           g == [t \in SUBSET s |-> total(t)]
<1>8. ASSUME NEW t \in SUBSET s, t # {} PROVE g[t] = f[Some(t)] + of(t \ {Some(t)})[t \ {Some(t)}]
  <2>1. CASE t = s
    BY <1>8, <2>1
  <2>2. CASE t # s
    <3> DEFINE r == t \ {Some(t)}
    <3>1. Adds(of(t), t, f) /\ Adds(of(r), r, f)
      BY <1>5, <1>6, <1>8, <2>2
    <3>2. r \in SUBSET (t \cap r) /\ t \in SUBSET t /\ r \in SUBSET s
      OBVIOUS
    <3>3. of(t)[t] = f[Some(t)] + of(t)[r]
      BY <1>8, <3>1, <3>2, AddsTo
    <3>4. of(t)[r] = of(r)[r]
      <4>1. IsFiniteSet(t) /\ IsFiniteSet(r)
        BY <1>7, <3>2
      <4> HIDE DEF r, of
      <4>2. QED BY <3>1, <3>2, <4>1, AddsOnce
    <3>5. g[t] = of(t)[t]
      BY <1>8, <2>2
    <3>6. QED BY <3>3, <3>4, <3>5
  <2>3. QED BY <2>1, <2>2
<1>9. ASSUME NEW t \in SUBSET s, t # {} PROVE g[t \ {Some(t)}] = of(t \ {Some(t)})[t \ {Some(t)}]
  <2> DEFINE r == t \ {Some(t)}
  <2>1. r \in SUBSET s /\ r # s
    BY <1>6, <1>9
  <2>2. CASE r = {}
    <3>1. of(r)[r] = 0
      BY <1>5, <2>1, <2>2, AddsNothing
    <3>2. g[r] = 0
      BY <2>1, <2>2
    <3>3. QED BY <3>1, <3>2
  <2>3. CASE r # {}
    BY <2>1, <2>3
  <2>4. QED BY <2>2, <2>3
<1>10. Adds(g, s, f)
  <2>1. ASSUME NEW t \in SUBSET s
        PROVE  g[t] = IF t = {} THEN 0 ELSE f[Some(t)] + g[t \ {Some(t)}]
    <3>1. CASE t = {}
      BY <3>1
    <3>2. CASE t # {}
      <4> HIDE DEF g, of
      <4>1. QED BY <3>2, <1>8, <1>9
    <3>3. QED BY <3>1, <3>2
  <2>2. g = [t \in SUBSET s |-> IF t = {} THEN 0 ELSE f[Some(t)] + g[t \ {Some(t)}]]
    <3>1. g = [t \in SUBSET s |-> g[t]]
      OBVIOUS
    <3> HIDE DEF g
    <3>2. QED BY <3>1, <2>1
  <2>3. QED BY <2>2 DEF Adds
<1>11. g[s] \in Int
  <2>1. CASE s = {}
    BY <2>1
  <2>2. CASE s # {}
    <3>1. f[Some(s)] \in Int
      BY <1>3, <1>6, <2>2
    <3>2. of(s \ {Some(s)})[s \ {Some(s)}] \in Int
      BY <1>5, <1>6, <2>2
    <3> HIDE DEF g, of
    <3>3. QED BY <1>8, <2>2, <3>1, <3>2
  <2>3. QED BY <2>1, <2>2
<1>12. QED BY <1>3, <1>10, <1>11

SumOf(f, S) == MapThenSumSet(LAMBDA x : f[x], S)

LEMMA SumType ==
    ASSUME NEW S, IsFiniteSet(S), NEW f, \A x \in S : f[x] \in Int
    PROVE  SumOf(f, S) \in Int
<1>1. PICK g : Adds(g, S, f) /\ g[S] \in Int
  BY SumExists
<1> DEFINE h == CHOOSE h : Adds(h, S, f)
<1>2. Adds(h, S, f)
  BY <1>1
<1>3. SumOf(f, S) = h[S]
  BY DEF SumOf, MapThenSumSet, MapThenFoldSet, Adds, Some
<1>4. h[S] = g[S]
  BY <1>1, <1>2, AddsOnce
<1>5. QED BY <1>1, <1>3, <1>4

LEMMA GroupSumType ==
    ASSUME CodecsAssumption, NEW x, NEW i \in Int,
           \A j \in Members(GroupOf(i, GroupSize), GroupSize) : x[j] \in Int
    PROVE  GroupSum(x, i) \in Int
<1> DEFINE M == Members(GroupOf(i, GroupSize), GroupSize)
<1>1. IsFiniteSet(M)
  <2>1. GroupOf(i, GroupSize) \in Int /\ GroupSize \in Int
    BY DEF CodecsAssumption, GroupOf
  <2>2. QED BY <2>1, FS_Interval DEF Members
<1>2. \A j \in M : x[j] \in Int
  OBVIOUS
<1> HIDE DEF M
<1>3. SumOf(x, M) \in Int
  BY <1>1, <1>2, SumType
<1>4. QED BY <1>3 DEF GroupSum, SumOf, M

-----------------------------------------------------------------------------
(* Positions in their order: each of them once.                            *)
LEMMA AscendingEnumerates ==
    ASSUME NEW S, IsFiniteSet(S), S \subseteq Int
    PROVE  /\ IsList(Ascending(S)) /\ Len(Ascending(S)) = Cardinality(S)
           /\ \A k \in 1 .. Cardinality(S) : Ascending(S)[k] \in S
           /\ \A i \in S : \E k \in 1 .. Cardinality(S) : Ascending(S)[k] = i
           /\ \A k, l \in 1 .. Cardinality(S) : Ascending(S)[k] = Ascending(S)[l] => k = l
<1> DEFINE n == Cardinality(S)
           below(i) == {j \in S : j < i}
           rank == [i \in S |-> Cardinality(below(i))]
           A == Ascending(S)
<1>1. n \in Nat
  BY FS_CardinalityType
<1>2. ASSUME NEW i \in S PROVE IsFiniteSet(below(i)) /\ rank[i] \in 0 .. n - 1
  <2>1. below(i) \in SUBSET S /\ below(i) # S
    BY <1>2
  <2>2. IsFiniteSet(below(i)) /\ Cardinality(below(i)) <= n /\ Cardinality(below(i)) # n
    BY <2>1, FS_Subset
  <2>3. Cardinality(below(i)) \in Nat
    BY <2>2, FS_CardinalityType
  <2>4. QED BY <1>1, <2>2, <2>3
<1>3. ASSUME NEW i \in S, NEW j \in S, i < j PROVE rank[i] # rank[j]
  <2>1. below(i) \in SUBSET below(j) /\ i \in below(j) /\ i \notin below(i)
    <3>1. i \in Int /\ j \in Int /\ S \subseteq Int
      OBVIOUS
    <3>2. ASSUME NEW k \in S, k < i PROVE k < j
      BY <1>3, <3>1, <3>2
    <3>3. below(i) \in SUBSET below(j)
      BY <3>2
    <3>4. i \in below(j)
      BY <1>3
    <3>5. i \notin below(i)
      BY <3>1
    <3>6. QED BY <3>3, <3>4, <3>5
  <2>2. below(i) # below(j)
    BY <2>1
  <2>3. IsFiniteSet(below(j))
    BY <1>2
  <2>4. Cardinality(below(i)) # Cardinality(below(j))
    <3> HIDE DEF below
    <3>1. QED BY <2>1, <2>2, <2>3, FS_Subset
  <2>5. QED BY <2>4
<1>4. rank \in Injection(S, 0 .. n - 1)
  <2>1. rank \in [S -> 0 .. n - 1]
    BY <1>2
  <2>2. ASSUME NEW i \in S, NEW j \in S, rank[i] = rank[j] PROVE i = j
    <3>1. ~(i < j) /\ ~(j < i)
      <4> HIDE DEF rank
      <4>1. QED BY <1>3, <2>2
    <3>2. QED BY <3>1
  <2> HIDE DEF rank
  <2>3. QED BY <2>1, <2>2 DEF Injection, IsInjective
<1>5. IsFiniteSet(0 .. n - 1) /\ Cardinality(0 .. n - 1) = n
  BY <1>1, FS_Interval
<1>6. rank \in Surjection(S, 0 .. n - 1)
  <2> HIDE DEF rank, n
  <2>1. Cardinality(S) = Cardinality(0 .. n - 1)
    BY <1>5 DEF n
  <2>2. QED BY <1>4, <1>5, <2>1, FS_Injection
<1>7. ASSUME NEW k \in 1 .. n PROVE A[k] \in S /\ rank[A[k]] = k - 1
  <2>1. k - 1 \in 0 .. n - 1
    BY <1>1
  <2>2. \E i \in S : rank[i] = k - 1
    <3> HIDE DEF rank, n
    <3>1. QED BY <1>6, <2>1 DEF Surjection
  <2>3. \E i \in S : Cardinality(below(i)) = k - 1
    BY <2>2
  <2>4. A[k] = CHOOSE i \in S : Cardinality(below(i)) = k - 1
    BY DEF Ascending
  <2>5. A[k] \in S /\ Cardinality(below(A[k])) = k - 1
    BY <2>3, <2>4
  <2>6. QED BY <2>5
<1>8. \A i \in S : \E k \in 1 .. n : A[k] = i
  <2>1. SUFFICES ASSUME NEW i \in S PROVE \E k \in 1 .. n : A[k] = i
    OBVIOUS
  <2> DEFINE k == rank[i] + 1
  <2>2. rank[i] \in 0 .. n - 1
    BY <1>2
  <2>3. k \in 1 .. n /\ k - 1 = rank[i]
    BY <1>1, <2>2
  <2> HIDE DEF k, rank, A, n
  <2>4. A[k] \in S /\ rank[A[k]] = rank[i]
    BY <1>7, <2>3
  <2>5. A[k] = i
    BY <1>4, <2>4 DEF Injection, IsInjective
  <2>6. QED BY <2>3, <2>5
<1>9. ASSUME NEW k \in 1 .. n, NEW l \in 1 .. n, A[k] = A[l] PROVE k = l
  <2> HIDE DEF rank, A
  <2>1. k - 1 = l - 1
    BY <1>7, <1>9
  <2>2. QED BY <1>1, <2>1
<1>10. IsList(A) /\ Len(A) = n
  <2>1. A = [k \in 1 .. n |-> A[k]]
    <3>1. A = [k \in 1 .. n |-> CHOOSE i \in S : Cardinality(below(i)) = k - 1]
      BY DEF Ascending
    <3> HIDE DEF A, n, below
    <3>2. QED BY <3>1
  <2> HIDE DEF A, n
  <2>2. QED BY <1>1, <2>1, ListMade
<1>11. QED BY <1>7, <1>8, <1>9, <1>10

-----------------------------------------------------------------------------
(* Rounding.                                                               *)
LEMMA Division ==
    ASSUME NEW a \in Int, NEW b \in Nat \ {0}
    PROVE  /\ a \div b \in Int /\ a % b \in 0 .. b - 1 /\ a = b * (a \div b) + (a % b)
<1>1. ASSUME NEW c \in Int, c > 0 PROVE a = c * (a \div c) + (a % c)
  BY <1>1
<1>2. b \in Int /\ b > 0
  OBVIOUS
<1>3. a = b * (a \div b) + (a % b)
  BY <1>1, <1>2
<1>4. QED BY <1>3

LEMMA RoundIsNear ==
    ASSUME NEW a \in Int, NEW b \in Nat \ {0}
    PROVE  /\ Round(a, b) \in Int
           /\ 2 * (b * Round(a, b) - a) \in -b .. b
<1> DEFINE q == a \div b
           r == a % b
<1>1. q \in Int /\ r \in 0 .. b - 1 /\ a = b * q + r
  BY Division
<1>2. Round(a, b) = q \/ (Round(a, b) = q + 1 /\ 2 * r >= b)
  BY <1>1 DEF Round
<1>3. 2 * r > b => Round(a, b) = q + 1
  BY <1>1 DEF Round
<1> HIDE DEF q, r
<1>4. b * (q + 1) = b * q + b /\ b * q \in Int
  BY <1>1
<1>5. CASE Round(a, b) = q
  BY <1>1, <1>3, <1>4, <1>5
<1>6. CASE Round(a, b) = q + 1 /\ 2 * r >= b
  BY <1>1, <1>4, <1>6
<1>7. QED BY <1>2, <1>5, <1>6

LEMMA RoundExact ==
    ASSUME NEW k \in Int, NEW b \in Nat \ {0}
    PROVE  Round(b * k, b) = k
<1>1. (b * k) \div b = k /\ (b * k) % b = 0
  OBVIOUS
<1>2. QED BY <1>1 DEF Round

LEMMA CeilIsNext ==
    ASSUME NEW a \in Int, NEW b \in Nat \ {0}
    PROVE  Ceil(a, b) \in Int /\ b * Ceil(a, b) - a \in 0 .. b - 1
<1> DEFINE q == (-a) \div b
           r == (-a) % b
<1>1. q \in Int /\ r \in 0 .. b - 1 /\ -a = b * q + r
  <2>1. -a \in Int
    OBVIOUS
  <2>2. QED BY <2>1, Division
<1>2. Ceil(a, b) = -q
  BY DEF Ceil
<1> HIDE DEF q, r
<1>3. b * (-q) = -(b * q) /\ b * q \in Int
  BY <1>1
<1>4. QED BY <1>1, <1>2, <1>3

-----------------------------------------------------------------------------
(* Casts.                                                                  *)
LEMMA Grows ==
    ASSUME NEW e \in Nat, NEW u \in Int, NEW v \in Int, u <= v
    PROVE  e * u <= e * v /\ e * u \in Int /\ e * v \in Int
<1> DEFINE t == v - u
<1>1. t \in Nat /\ v = u + t
  OBVIOUS
<1> HIDE DEF t
<1>2. e * (u + t) = e * u + e * t /\ e * t >= 0
  BY <1>1
<1>3. QED BY <1>1, <1>2

LEMMA Below ==
    ASSUME NEW a \in Int, NEW e \in Nat \ {0}, NEW s \in Int
    PROVE  a \div e < s <=> a < e * s
<1> DEFINE q == a \div e
<1>1. q \in Int /\ a % e \in 0 .. e - 1 /\ a = e * q + (a % e)
  BY Division
<1>2. e * q <= a /\ a < e * q + e /\ e * q \in Int
  BY <1>1
<1> HIDE DEF q
<1>3. ASSUME q < s PROVE a < e * s
  <2>1. q + 1 <= s /\ e \in Nat /\ q + 1 \in Int
    BY <1>1, <1>3
  <2>2. e * (q + 1) <= e * s
    BY <2>1, Grows
  <2>3. QED BY <1>1, <1>2, <2>2
<1>4. ASSUME s <= q PROVE ~(a < e * s)
  <2>1. e * s <= e * q
    BY <1>1, <1>4, Grows
  <2>2. QED BY <1>2, <2>1
<1>5. QED BY <1>1, <1>3, <1>4 DEF q

LEMMA PowersType == ASSUME NEW k \in Powers PROVE k \in Nat \ {0}
BY DEF Powers

LEMMA PowersApart == ASSUME NEW k \in Powers, NEW y \in Powers, y < k PROVE 2 * y <= k
BY DEF Powers

Digits == {16, 256}

LEMMA StepIs ==
    ASSUME NEW a \in Nat, NEW d \in Nat \ {0}, NEW D \in Digits, NEW k \in Powers,
           a < (D * d) * k, k = 1 \/ 2 * a >= (D * d) * k
    PROVE  Step(a, d, D) = k
<1> DEFINE e == D * d
           S == {s \in Powers : a \div e < s}
<1>1. e \in Nat \ {0}
  BY DEF Digits
<1>2. k \in S /\ S \subseteq Int
  <2>1. \A s \in Powers : s \in Int
    BY PowersType
  <2> HIDE DEF e
  <2>2. a < e * k
    BY DEF e
  <2>3. QED BY <1>1, <2>1, <2>2, Below
<1>3. ASSUME NEW y \in S PROVE k <= y
  <2>1. y \in Powers /\ y \in Nat \ {0} /\ k \in Nat
    BY PowersType
  <2>2. a < e * y
    <3>1. a \div e < y
      BY <1>3
    <3> HIDE DEF e
    <3>2. QED BY <1>1, <2>1, <3>1, Below
  <2>3. SUFFICES ASSUME y < k PROVE FALSE
    BY <2>1
  <2>4. 2 * y <= k
    BY <2>1, <2>3, PowersApart
  <2>5. 2 * a >= e * k
    BY <2>1, <2>3
  <2> HIDE DEF e
  <2>6. e * (2 * y) <= e * k
    BY <1>1, <2>1, <2>4, Grows
  <2>7. e * (2 * y) = 2 * (e * y) /\ e * y \in Int /\ e * k \in Int
    BY <1>1, <2>1
  <2> DEFINE ey == e * y
             ek == e * k
  <2>8. a < ey /\ 2 * a >= ek /\ 2 * ey <= ek /\ ey \in Int /\ ek \in Int
    BY <2>2, <2>5, <2>6, <2>7
  <2> HIDE DEF ey, ek
  <2>9. QED BY <2>8
<1>4. ASSUME NEW x \in S, \A y \in S : x <= y PROVE x = k
  <2>1. x <= k /\ k <= x /\ x \in Int /\ k \in Int
    BY <1>2, <1>3, <1>4
  <2>2. QED BY <2>1
<1> HIDE DEF S
<1>5. Min(S) = k
  BY <1>2, <1>3, <1>4 DEF Min
<1>6. QED BY <1>5 DEF Step, S

LEMMA StepExists ==
    ASSUME NEW a \in Nat, NEW e \in Nat \ {0}, a < e * 32768
    PROVE  \E k \in Powers : a < e * k /\ (k = 1 \/ 2 * a >= e * k)
<1>1. CASE a < e
  BY <1>1 DEF Powers
<1>2. CASE e <= a /\ a < 2 * e
  BY <1>2 DEF Powers
<1>3. CASE 2 * e <= a /\ a < 4 * e
  BY <1>3 DEF Powers
<1>4. CASE 4 * e <= a /\ a < 8 * e
  BY <1>4 DEF Powers
<1>5. CASE 8 * e <= a /\ a < 16 * e
  BY <1>5 DEF Powers
<1>6. CASE 16 * e <= a /\ a < 32 * e
  BY <1>6 DEF Powers
<1>7. CASE 32 * e <= a /\ a < 64 * e
  BY <1>7 DEF Powers
<1>8. CASE 64 * e <= a /\ a < 128 * e
  BY <1>8 DEF Powers
<1>9. CASE 128 * e <= a /\ a < 256 * e
  BY <1>9 DEF Powers
<1>10. CASE 256 * e <= a /\ a < 512 * e
  BY <1>10 DEF Powers
<1>11. CASE 512 * e <= a /\ a < 1024 * e
  BY <1>11 DEF Powers
<1>12. CASE 1024 * e <= a /\ a < 2048 * e
  BY <1>12 DEF Powers
<1>13. CASE 2048 * e <= a /\ a < 4096 * e
  BY <1>13 DEF Powers
<1>14. CASE 4096 * e <= a /\ a < 8192 * e
  BY <1>14 DEF Powers
<1>15. CASE 8192 * e <= a /\ a < 16384 * e
  BY <1>15 DEF Powers
<1>16. CASE 16384 * e <= a
  BY <1>16 DEF Powers
<1>17. QED BY <1>1, <1>2, <1>3, <1>4, <1>5, <1>6, <1>7, <1>8, <1>9, <1>10, <1>11, <1>12,
              <1>13, <1>14, <1>15, <1>16

(* What the magnitude of a quotient is rounded to.                         *)
Rounded(a, d, D) == Step(a, d, D) * Round(a, Step(a, d, D) * d)

LEMMA FloatingIs ==
    ASSUME NEW n \in Int, NEW d, NEW D
    PROVE  Floating(n, d, D) = IF n < 0 THEN -Rounded(Abs(n), d, D) ELSE Rounded(Abs(n), d, D)
BY AbsOfOne DEF Floating, Rounded

LastPower == 32768

RoundsTo(a, d, D, k, q) ==
    /\ Rounded(a, d, D) = k * q /\ q = Round(a, k * d)
    /\ a < (D * d) * k
    /\ k = 1 \/ (2 * a >= (D * d) * k /\ 2 * q >= D)
    /\ 2 * (k * d * q - a) \in -(k * d) .. k * d

LEMMA RoundedIs ==
    ASSUME NEW a \in Nat, NEW d \in Nat \ {0}, NEW D \in Digits, a < (D * d) * LastPower
    PROVE  \E k \in Powers, q \in 0 .. D : RoundsTo(a, d, D, k, q)
<1> DEFINE e == D * d
<1>1. e \in Nat \ {0} /\ D \in Nat /\ D >= 1
  BY DEF Digits
<1>2. PICK k \in Powers : a < e * k /\ (k = 1 \/ 2 * a >= e * k)
  <2>1. a < e * 32768
    BY DEF LastPower
  <2> HIDE DEF e
  <2>2. QED BY <1>1, <2>1, StepExists
<1>3. Step(a, d, D) = k
  BY <1>2, StepIs
<1> DEFINE b == k * d
           q == Round(a, b)
<1>4. b \in Nat \ {0} /\ k \in Nat \ {0}
  BY PowersType
<1>5. q \in Int /\ 2 * (b * q - a) \in -b .. b
  <2>1. a \in Int /\ b \in Nat \ {0}
    BY <1>4
  <2> HIDE DEF b
  <2>2. Round(a, b) \in Int /\ 2 * (b * Round(a, b) - a) \in -b .. b
    BY ONLY <2>1, RoundIsNear
  <2>3. QED BY <2>2
<1>6. Rounded(a, d, D) = k * q
  BY <1>3 DEF Rounded
<1>7. e * k = D * b /\ D * b \in Int
  BY <1>1, <1>4
<1>8. a < D * b /\ (k = 1 \/ 2 * a >= D * b)
  BY <1>2, <1>7
<1> HIDE DEF b, q
<1>9. b * q \in Int /\ 2 * (b * q) <= 2 * a + b /\ 2 * (b * q) >= 2 * a - b
  BY <1>4, <1>5
<1>10. q >= 0
  <2>1. SUFFICES ASSUME q <= -1 PROVE FALSE
    BY <1>5
  <2>2. b * q <= b * (-1)
    BY <1>4, <1>5, <2>1, Grows
  <2>3. b * (-1) = -b
    BY <1>4
  <2>4. QED BY <1>4, <1>9, <2>2, <2>3
<1>11. q <= D
  <2>1. SUFFICES ASSUME D + 1 <= q PROVE FALSE
    BY <1>1, <1>5
  <2>2. b * (D + 1) <= b * q
    <3>1. b \in Nat /\ D + 1 \in Int
      BY <1>1, <1>4
    <3>2. QED BY <1>5, <2>1, <3>1, Grows
  <2>3. b * (D + 1) = D * b + b
    BY <1>1, <1>4
  <2>4. QED BY <1>4, <1>7, <1>8, <1>9, <2>2, <2>3
<1>12. k = 1 \/ 2 * q >= D
  <2>1. SUFFICES ASSUME k # 1, 2 * q <= D - 1 PROVE FALSE
    BY <1>1, <1>5
  <2>2. b * (2 * q) <= b * (D - 1)
    <3>1. b \in Nat /\ D - 1 \in Int /\ 2 * q \in Int
      BY <1>1, <1>4, <1>5
    <3>2. QED BY <2>1, <3>1, Grows
  <2>3. b * (D - 1) = D * b - b /\ b * (2 * q) = 2 * (b * q)
    BY <1>1, <1>4, <1>5
  <2>4. 2 * (b * q) <= D * b - b
    BY <2>2, <2>3
  <2>5. 2 * a >= D * b
    BY <1>8, <2>1
  <2>6. 2 * (b * q) = D * b - b \/ 2 * (b * q) < D * b - b
    BY <1>4, <1>7, <1>9, <2>4
  <2>7. 2 * a = D * b /\ 2 * (b * q) = D * b - b
    BY <1>4, <1>7, <1>9, <2>4, <2>5
  <2>8. D % 2 = 0
    BY DEF Digits
  <2>9. PICK h \in Nat : D = 2 * h
    BY DEF Digits
  <2>10. 2 * a = 2 * (b * h) /\ b * h \in Nat
    BY <1>4, <2>7, <2>9
  <2>11. a = b * h
    BY <2>10
  <2>12. q = h
    <3>1. Round(b * h, b) = h
      BY <1>4, <2>9, RoundExact
    <3>2. QED BY <2>11, <3>1 DEF q
  <2>13. QED BY <1>1, <2>1, <2>9, <2>12
<1>13. q \in 0 .. D
  BY <1>1, <1>5, <1>10, <1>11
<1>14. k * d * q = b * q
  BY DEF b
<1>15. /\ Rounded(a, d, D) = k * q /\ q = Round(a, k * d)
       /\ a < (D * d) * k /\ (k = 1 \/ (2 * a >= (D * d) * k /\ 2 * q >= D))
       /\ 2 * (k * d * q - a) \in -(k * d) .. k * d
  BY <1>2, <1>5, <1>6, <1>12, <1>14 DEF b, q, e
<1>16. QED BY <1>2, <1>13, <1>15 DEF RoundsTo

LEMMA FloatingNear ==
    ASSUME NEW n \in Int, NEW d \in Nat \ {0}, NEW D \in Digits, Abs(n) < (D * d) * LastPower
    PROVE  LET r == Floating(n, d, D)
               off == d * r - n
           IN  /\ r \in Int /\ Abs(r) = Rounded(Abs(n), d, D)
               /\ 2 * off \in -d .. d \/ D * off \in -Abs(n) .. Abs(n)
<1> DEFINE a == Abs(n)
           w == Rounded(a, d, D)
           r == Floating(n, d, D)
           off == d * r - n
<1>1. a \in Nat /\ (n < 0 => a = -n) /\ (~(n < 0) => a = n)
  BY AbsType DEF Abs
<1>2. PICK k \in Powers, q \in 0 .. D :
        /\ w = k * q /\ (k = 1 \/ 2 * a >= (D * d) * k)
        /\ 2 * (k * d * q - a) \in -(k * d) .. k * d
  <2> HIDE DEF a
  <2>1. a < (D * d) * LastPower
    BY DEF a
  <2>2. QED BY <1>1, <2>1, RoundedIs DEF RoundsTo
<1>3. D \in Nat \ {0} /\ k \in Nat \ {0} /\ q \in Nat
  BY <1>2, PowersType DEF Digits
<1>4. w \in Nat /\ k * d * q = d * w /\ d * w \in Nat
  BY <1>2, <1>3
<1> DEFINE z == d * w - a
<1>5. 2 * z \in -(k * d) .. k * d
  BY <1>2, <1>4
<1>6. 2 * z \in -d .. d \/ D * z \in -a .. a
  <2>1. CASE k = 1
    BY <1>5, <2>1
  <2>2. CASE k # 1
    <3> DEFINE b == k * d
    <3>1. (D * d) * k = D * b /\ b \in Nat /\ D * b \in Nat
      BY <1>3
    <3>2. 2 * a >= D * b
      BY <1>2, <2>2, <3>1
    <3>3. z \in Int /\ 2 * z <= b /\ -b <= 2 * z
      BY <1>1, <1>4, <1>5, <3>1
    <3> HIDE DEF b, z, a
    <3>4. D * (2 * z) <= D * b /\ D * (-b) <= D * (2 * z)
      BY <1>3, <3>1, <3>3, Grows
    <3>5. D * (2 * z) = 2 * (D * z) /\ D * (-b) = -(D * b) /\ D * z \in Int
      BY <1>3, <3>1, <3>3
    <3>6. QED BY <1>1, <3>1, <3>2, <3>4, <3>5
  <2>3. QED BY <2>1, <2>2
<1>7. r = IF n < 0 THEN -w ELSE w
  BY FloatingIs
<1>8. r \in Int /\ Abs(r) = w
  <2> HIDE DEF r, w
  <2>1. QED BY <1>4, <1>7 DEF Abs
<1>9. off = z \/ off = -z
  <2>1. d * (-w) = -(d * w)
    BY <1>4
  <2> HIDE DEF r, w, a
  <2>2. QED BY <1>1, <1>4, <1>7, <2>1 DEF a
<1>10. 2 * off \in -d .. d \/ D * off \in -a .. a
  <2>1. z \in Int
    BY <1>1, <1>4
  <2> HIDE DEF off, z, a
  <2>2. D * (-z) = -(D * z) /\ D * z \in Int
    BY <1>3, <2>1
  <2>3. QED BY <1>1, <1>6, <1>9, <2>1, <2>2
<1>11. QED BY <1>8, <1>10

(* A number with so many digits, or that a bit less, is its own rounding.  *)
HasDigits(v, D) == \E m \in -(D - 1) .. D - 1, s \in Powers : v = m * s

LEMMA PowersDivide == ASSUME NEW k \in Powers, NEW s \in Powers, k <= s
                      PROVE  \E t \in Nat : s = k * t
BY DEF Powers

LEMMA RoundedExact ==
    ASSUME NEW D \in Digits, NEW d \in Nat \ {0}, NEW m \in 0 .. D - 1, NEW s \in Powers
    PROVE  Rounded(d * (m * s), d, D) = m * s
<1> DEFINE v == m * s
           a == d * v
<1>1. D \in Nat \ {0} /\ m \in Nat /\ s \in Nat \ {0} /\ s <= 32768
  BY DEF Digits, Powers
<1>2. v \in Nat /\ a \in Nat
  BY <1>1
<1>3. v < D * s /\ D * s <= D * 32768 /\ D * s \in Nat
  <2>1. s * m <= s * (D - 1)
    BY <1>1, Grows
  <2>2. s * (D - 1) = D * s - s /\ s * m = v
    BY <1>1
  <2>3. D * s <= D * 32768
    BY <1>1, Grows
  <2> HIDE DEF v
  <2>4. D * s \in Nat
    BY <1>1
  <2>5. QED BY <1>1, <1>2, <2>1, <2>2, <2>3, <2>4
<1>4. a < (D * d) * LastPower
  <2> HIDE DEF v
  <2>1. v + 1 <= D * 32768
    <3> DEFINE Ds == D * s
    <3>1. v \in Nat /\ Ds \in Nat /\ v < Ds /\ Ds <= D * 32768
      BY <1>2, <1>3
    <3> HIDE DEF Ds
    <3>2. QED BY <1>1, <3>1
  <2>2. d * (v + 1) <= d * (D * 32768)
    BY <1>1, <1>2, <2>1, Grows
  <2>3. d * (v + 1) = d * v + d /\ d * (D * 32768) = (D * d) * 32768
    BY <1>1, <1>2
  <2>4. QED BY <1>1, <1>2, <2>2, <2>3 DEF LastPower
<1> HIDE DEF v
<1>5. PICK k \in Powers, q \in 0 .. D :
        /\ Rounded(a, d, D) = k * q /\ q = Round(a, k * d)
        /\ k = 1 \/ 2 * a >= (D * d) * k
  <2> HIDE DEF a
  <2>1. QED BY <1>2, <1>4, RoundedIs DEF RoundsTo
<1>6. k \in Nat \ {0}
  BY PowersType
<1>7. k <= s
  <2>1. SUFFICES ASSUME s < k PROVE FALSE
    BY <1>1, <1>6
  <2>2. 2 * s <= k /\ k # 1
    BY <1>1, <1>6, <2>1, PowersApart
  <2>3. D * (2 * s) <= D * k
    BY <1>1, <1>6, <2>2, Grows
  <2>4. D * (2 * s) = 2 * (D * s) /\ D * k \in Nat
    BY <1>1, <1>6
  <2>5. 2 * v + 1 <= D * k
    BY <1>2, <1>3, <2>3, <2>4
  <2>6. d * (2 * v + 1) <= d * (D * k)
    BY <1>2, <2>4, <2>5, Grows
  <2>7. d * (2 * v + 1) = 2 * (d * v) + d /\ d * (D * k) = (D * d) * k /\ d * v \in Nat
    BY <1>1, <1>2, <1>6
  <2>8. 2 * (d * v) >= (D * d) * k
    BY <1>5, <2>2
  <2> DEFINE dv == d * v
             Ddk == (D * d) * k
  <2>9. 2 * dv + d <= Ddk /\ dv \in Nat /\ 2 * dv >= Ddk
    BY <2>6, <2>7, <2>8
  <2>10. Ddk \in Nat
    BY <1>1, <1>6
  <2> HIDE DEF dv, Ddk
  <2>11. QED BY <2>9, <2>10
<1>8. PICK t \in Nat : s = k * t
  BY <1>7, PowersDivide
<1>9. a = (k * d) * (m * t) /\ m * t \in Int /\ k * (m * t) = v /\ k * d \in Nat \ {0}
  BY <1>1, <1>6, <1>8 DEF v
<1>10. Round((k * d) * (m * t), k * d) = m * t
  BY <1>9, RoundExact
<1>11. QED BY <1>5, <1>9, <1>10 DEF v

LEMMA FloatingExact ==
    ASSUME NEW v, NEW D \in Digits, HasDigits(v, D), NEW d \in Nat \ {0}
    PROVE  v \in Int /\ Floating(d * v, d, D) = v
<1>1. PICK m \in -(D - 1) .. D - 1, s \in Powers : v = m * s
  BY DEF HasDigits
<1>2. s \in Nat \ {0} /\ D \in Nat \ {0} /\ m \in Int
  BY PowersType DEF Digits
<1>3. v \in Int /\ d * v \in Int
  BY <1>1, <1>2
<1>4. Abs(m) \in 0 .. D - 1 /\ (m < 0 => Abs(m) = -m) /\ (~(m < 0) => Abs(m) = m)
  BY <1>2 DEF Abs
<1>5. Rounded(d * (Abs(m) * s), d, D) = Abs(m) * s
  BY <1>4, RoundedExact
<1>6. CASE m < 0
  <2>1. v < 0 /\ d * v < 0 /\ Abs(m) * s = -v
    BY <1>1, <1>2, <1>4, <1>6
  <2>2. Abs(d * v) = d * (-v)
    BY <1>3, <2>1 DEF Abs
  <2>3. Floating(d * v, d, D) = -Rounded(Abs(d * v), d, D)
    BY <1>3, <2>1, FloatingIs
  <2>4. Rounded(Abs(d * v), d, D) = -v
    BY <1>5, <2>1, <2>2
  <2>5. QED BY <1>3, <2>3, <2>4
<1>7. CASE ~(m < 0)
  <2>1. ~(v < 0) /\ ~(d * v < 0) /\ Abs(m) * s = v
    BY <1>1, <1>2, <1>4, <1>7
  <2>2. Abs(d * v) = d * v
    BY <1>3, <2>1 DEF Abs
  <2>3. QED BY <1>3, <1>5, <2>1, <2>2, FloatingIs
<1>8. QED BY <1>3, <1>6, <1>7

LEMMA FloatingHasDigits ==
    ASSUME NEW n \in Int, NEW d \in Nat \ {0}, NEW D \in Digits, Abs(n) < (D * d) * 16384
    PROVE  HasDigits(Floating(n, d, D), D)
<1> DEFINE a == Abs(n)
           w == Rounded(a, d, D)
<1>1. a \in Nat /\ D \in Nat \ {0} /\ D % 2 = 0 /\ D >= 16
  BY AbsType DEF Digits
<1>2. D * d \in Nat \ {0} /\ a < (D * d) * 16384 /\ a < (D * d) * LastPower
  BY <1>1 DEF LastPower
<1> HIDE DEF a
<1>3. PICK k \in Powers, q \in 0 .. D :
        w = k * q /\ (k = 1 \/ 2 * a >= (D * d) * k)
  <2>1. \E k \in Powers, q \in 0 .. D : RoundsTo(a, d, D, k, q)
    <3>1. a \in Nat /\ a < (D * d) * LastPower
      BY <1>1, <1>2
    <3>2. QED BY <3>1, RoundedIs
  <2>2. QED BY <2>1 DEF RoundsTo
<1>4. \E m \in 0 .. D - 1, s \in Powers : w = m * s
  <2>1. CASE q < D
    <3>1. q \in 0 .. D - 1 /\ k * q = q * k
      BY <1>1, <2>1, PowersType
    <3>2. w = q * k
      BY <1>3, <3>1
    <3>3. QED BY <3>1, <3>2
  <2>2. CASE q = D
    <3>1. k # 32768
      <4>1. SUFFICES ASSUME k = 32768 PROVE FALSE
        OBVIOUS
      <4>2. 2 * a >= (D * d) * 32768
        BY <1>3, <4>1
      <4> HIDE DEF w
      <4>3. QED BY <1>1, <1>2, <4>2
    <3>2. 2 * k \in Powers
      BY <3>1 DEF Powers
    <3>3. PICK h \in 0 .. D - 1 : D = 2 * h
      BY DEF Digits
    <3>4. w = h * (2 * k)
      BY <1>1, <1>3, <2>2, <3>3, PowersType
    <3>5. QED BY <3>2, <3>4
  <2>3. QED BY <1>1, <2>1, <2>2
<1>5. PICK m \in 0 .. D - 1, s \in Powers : w = m * s
  BY <1>4
<1>6. m \in -(D - 1) .. D - 1 /\ -m \in -(D - 1) .. D - 1 /\ -(m * s) = (-m) * s
  BY <1>1, PowersType
<1>7. Floating(n, d, D) = w \/ Floating(n, d, D) = -w
  BY FloatingIs DEF a
<1>8. QED BY <1>5, <1>6, <1>7 DEF HasDigits

-----------------------------------------------------------------------------
(* FP8: numbers up to the largest (448), those that are rounded to NaN, and*)
(* those beyond all range.                                                 *)
LargestFP8 == 237568
AtNaN == 245760
Beyond == 262144

LEMMA E4M3Is ==
    ASSUME NEW v \in Int, NEW u
    PROVE  E4M3(v, u) = IF Abs(v) >= Beyond * u \/ Rounded(Abs(v), u, 16) >= AtNaN
                        THEN NotANumber ELSE Floating(v, u, 16)
<1>1. MaxAbs({v}) = Abs(v) /\ Abs(v) \in Nat
  BY AbsOfOne, AbsType
<1>2. Floating(Abs(v), u, 16) = Rounded(Abs(v), u, 16)
  <2>1. Abs(Abs(v)) = Abs(v) /\ ~(Abs(v) < 0) /\ Abs(v) \in Int
    BY <1>1 DEF Abs
  <2>2. QED BY <2>1, FloatingIs
<1>3. 512 * Subnormals * u = Beyond * u /\ 480 * Subnormals = AtNaN
  BY SMT DEF Subnormals, LargestFP8, AtNaN, Beyond
<1>4. QED BY <1>1, <1>2, <1>3 DEF E4M3

LEMMA TooLarge ==
    ASSUME NEW a \in Nat, NEW u \in Nat \ {0}, a < Beyond * u
    PROVE  Rounded(a, u, 16) >= AtNaN <=> a > LargestFP8 * u
<1>1. a < (16 * u) * LastPower /\ 16 \in Digits
  BY SMT DEF Digits, LastPower, LargestFP8, AtNaN, Beyond
<1>2. PICK k \in Powers, q \in 0 .. 16 : RoundsTo(a, u, 16, k, q)
  BY <1>1, RoundedIs, Zenon
<1>9. /\ Rounded(a, u, 16) = k * q /\ q = Round(a, k * u)
      /\ a < (16 * u) * k
      /\ k = 1 \/ (2 * a >= (16 * u) * k /\ 2 * q >= 16)
  BY <1>2 DEF RoundsTo
<1>3. k <= 16384
  <2>1. k # 32768
    BY <1>9, SMT DEF LargestFP8, AtNaN, Beyond
  <2>2. QED BY <2>1 DEF Powers
<1>4. CASE k = 16384
  <2> DEFINE b == 16384 * u
  <2>1. b \in Nat \ {0} /\ q = Round(a, b)
    BY <1>9, <1>4
  <2>2. q >= 15 <=> 2 * a > 29 * b
    <3> HIDE DEF b
    <3>1. a \div b \in Int /\ a % b \in 0 .. b - 1 /\ a = b * (a \div b) + (a % b)
      <4>1. a \in Int
        OBVIOUS
      <4>2. QED BY <2>1, <4>1, Division, Zenon
    <3> DEFINE t == a \div b
               r == a % b
    <3>2. q = t \/ q = t + 1
      BY <2>1 DEF Round
    <3>3. t = 14 => (q = 15 <=> 2 * r > b)
      BY <2>1, <3>1 DEF Round
    <3>4. t \in Int /\ r \in 0 .. b - 1 /\ a = b * t + r
      BY <3>1
    <3> HIDE DEF t, r
    <3>5. CASE t <= 13
      <4>1. b * t <= b * 13
        BY <2>1, <3>4, <3>5, Grows
      <4>2. b * t \in Int
        BY <2>1, <3>4
      <4>3. QED BY <2>1, <3>2, <3>4, <3>5, <4>1, <4>2
    <3>6. CASE t = 14
      BY <2>1, <3>2, <3>3, <3>4, <3>6
    <3>7. CASE t >= 15
      <4>1. b * 15 <= b * t
        BY <2>1, <3>4, <3>7, Grows
      <4>2. b * t \in Int
        BY <2>1, <3>4
      <4>3. QED BY <2>1, <3>2, <3>4, <3>7, <4>1, <4>2
    <3>8. QED BY <3>4, <3>5, <3>6, <3>7
  <2>3. k * q >= AtNaN <=> q >= 15
    BY <1>4, SMT DEF LargestFP8, AtNaN, Beyond
  <2>4. QED BY <1>9, <2>2, <2>3, SMT DEF LargestFP8, AtNaN, Beyond
<1>5. CASE k # 16384
  <2>1. k <= 8192 /\ k \in Nat
    BY <1>3, <1>5 DEF Powers
  <2>2. k * q <= k * 16
    BY <2>1, Grows
  <2>3. ~(k * q >= AtNaN)
    BY <2>1, <2>2, SMT DEF LargestFP8, AtNaN, Beyond
  <2>4. (16 * u) * k <= (16 * u) * 8192
    <3>1. 16 * u \in Nat
      OBVIOUS
    <3>2. QED BY <2>1, <3>1, Grows
  <2>5. ~(a > LargestFP8 * u)
    BY <1>9, <2>4, <2>1, SMT DEF LargestFP8, AtNaN, Beyond
  <2>6. QED BY <1>9, <2>3, <2>5
<1>6. QED BY <1>4, <1>5

(* Of a number in units of 1 / u of the smallest: nothing of what is left  *)
(* of it is lost the second time.                                          *)
LEMMA E4M3Close ==
    ASSUME NEW v \in Int, NEW u \in Nat \ {0}
    PROVE  LET w == E4M3(v, u)
               off == u * w - v
           IN  /\ w = NotANumber <=> Abs(v) > LargestFP8 * u
               /\ Abs(v) <= LargestFP8 * u =>
                    /\ w \in Int /\ E4M3(w, 1) = w
                    /\ 2 * off \in -u .. u \/ 16 * off \in -Abs(v) .. Abs(v)
<1> DEFINE a == Abs(v)
           w == E4M3(v, u)
           off == u * w - v
<1>1. a \in Nat /\ 16 \in Digits
  BY AbsType DEF Digits
<1>2. CASE a > LargestFP8 * u
  <2>1. a < Beyond * u => Rounded(a, u, 16) >= AtNaN
    <3> HIDE DEF a
    <3>1. QED BY <1>1, <1>2, TooLarge
  <2>2. w = NotANumber
    BY <1>1, <2>1, E4M3Is, SMT DEF LargestFP8, AtNaN, Beyond
  <2>3. ~(a <= LargestFP8 * u)
    BY <1>1, <1>2, SMT DEF LargestFP8, AtNaN, Beyond
  <2>4. QED BY <1>2, <2>2, <2>3
<1>3. CASE a <= LargestFP8 * u
  <2>1. a < Beyond * u /\ a < (16 * u) * 16384 /\ a < (16 * u) * LastPower
    BY <1>1, <1>3, SMT DEF LastPower, LargestFP8, AtNaN, Beyond
  <2>2. Rounded(a, u, 16) < AtNaN /\ Rounded(a, u, 16) \in Int
    <3>1. ~(Rounded(a, u, 16) >= AtNaN)
      <4> HIDE DEF a
      <4>1. QED BY <1>1, <1>3, <2>1, TooLarge, SMT DEF LargestFP8, AtNaN, Beyond
    <3>2. PICK k \in Powers, q \in 0 .. 16 : Rounded(a, u, 16) = k * q
      <4> HIDE DEF a
      <4>1. \E k \in Powers, q \in 0 .. 16 : RoundsTo(a, u, 16, k, q)
        <5>1. a \in Nat /\ 16 \in Digits
          BY <1>1
        <5>2. a < (16 * u) * LastPower
          BY <2>1
        <5>3. QED BY <5>1, <5>2, RoundedIs, Zenon
      <4>2. QED BY <4>1 DEF RoundsTo
    <3>3. Rounded(a, u, 16) \in Int
      BY <3>2, PowersType
    <3> HIDE DEF a
    <3>4. QED BY <3>1, <3>3, SMT DEF LargestFP8, AtNaN, Beyond
  <2>3. w = Floating(v, u, 16)
    <3>1. ~(a >= Beyond * u) /\ ~(Rounded(a, u, 16) >= AtNaN)
      BY <1>1, <2>1, <2>2, SMT DEF LargestFP8, AtNaN, Beyond
    <3>2. QED BY <3>1, E4M3Is
  <2>4. /\ w \in Int /\ Abs(w) = Rounded(a, u, 16)
        /\ 2 * off \in -u .. u \/ 16 * off \in -a .. a
    BY <1>1, <2>1, <2>3, FloatingNear
  <2>5. HasDigits(w, 16)
    BY <1>1, <2>1, <2>3, FloatingHasDigits
  <2>6. Floating(w, 1, 16) = w
    <3> HIDE DEF w
    <3>1. Floating(1 * w, 1, 16) = w /\ 1 * w = w
      BY <1>1, <2>4, <2>5, FloatingExact
    <3>2. QED BY <3>1
  <2>7. Rounded(Abs(w), 1, 16) = Abs(w)
    <3> HIDE DEF w
    <3>1. Abs(w) \in Nat /\ Abs(w) < AtNaN
      BY <2>2, <2>4, AbsType
    <3>2. Abs(w) < (16 * 1) * LastPower
      BY <3>1, SMT DEF LastPower, LargestFP8, AtNaN, Beyond
    <3>3. Abs(Floating(w, 1, 16)) = Rounded(Abs(w), 1, 16)
      <4>1. 1 \in Nat \ {0} /\ w \in Int
        BY <2>4
      <4>2. QED BY <1>1, <3>2, <4>1, FloatingNear, Zenon
    <3>4. QED BY <2>6, <3>3
  <2>8. E4M3(w, 1) = w
    <3> HIDE DEF w
    <3>1. Abs(w) < AtNaN /\ Abs(w) \in Nat
      BY <2>2, <2>4, AbsType
    <3>2. ~(Abs(w) >= Beyond * 1) /\ ~(Rounded(Abs(w), 1, 16) >= AtNaN)
      BY <2>7, <3>1, SMT DEF LargestFP8, AtNaN, Beyond
    <3>3. QED BY <2>4, <2>6, <3>2, E4M3Is
  <2>9. w # NotANumber
    <3>1. Abs(w) < AtNaN /\ w \in Int
      BY <2>2, <2>4
    <3> HIDE DEF w
    <3>2. QED BY <3>1, SMT DEF Abs, NotANumber, Garbage, LargestFP8, AtNaN, Beyond
  <2>10. ~(a > LargestFP8 * u)
    BY <1>1, <1>3, SMT DEF LargestFP8, AtNaN, Beyond
  <2>11. QED BY <2>4, <2>8, <2>9, <2>10
<1>4. QED BY <1>1, <1>2, <1>3, SMT DEF LargestFP8, AtNaN, Beyond

LEMMA FP8RoundTrip ==
    ASSUME NEW x, IsList(x), NEW u
    PROVE  /\ IsList(DecodeFP8(EncodeFP8(x, u))) /\ Len(DecodeFP8(EncodeFP8(x, u))) = Len(x)
           /\ \A i \in 1 .. Len(x) : DecodeFP8(EncodeFP8(x, u))[i] = E4M3(x[i], u)
<1> DEFINE n == Len(x)
           e == EncodeFP8(x, u)
           d == DecodeFP8(e)
<1>1. n \in Nat /\ DOMAIN x = 1 .. n
  BY DEF IsList
<1>2. e = [i \in 1 .. n |-> Cell(E4M3(x[i], u), 1, 1)]
  BY <1>1 DEF EncodeFP8
<1>3. IsList(e) /\ Len(e) = n /\ DOMAIN e = 1 .. n
  <2>1. e = [i \in 1 .. n |-> e[i]] /\ DOMAIN e = 1 .. n
    BY <1>2
  <2> HIDE DEF e, n
  <2>2. QED BY <1>1, <2>1, ListMade
<1>4. d = [i \in 1 .. n |-> WordAt(e, i - 1, 1)]
  BY <1>3 DEF DecodeFP8
<1>5. ASSUME NEW i \in 1 .. n PROVE WordAt(e, i - 1, 1) = E4M3(x[i], u)
  <2>1. i - 1 \in Int /\ (i - 1) + 1 <= Len(e)
    BY <1>1, <1>3
  <2>2. ASSUME NEW j \in 1 .. 1 PROVE e[(i - 1) + j] = Cell(E4M3(x[i], u), 1, j)
    <3>1. j = 1 /\ (i - 1) + j = i
      BY <1>1
    <3>2. e[i] = Cell(E4M3(x[i], u), 1, 1)
      BY <1>2
    <3>3. QED BY <3>1, <3>2
  <2>3. 1 \in Nat \ {0} /\ \A j \in 1 .. 1 : e[(i - 1) + j] = Cell(E4M3(x[i], u), 1, j)
    BY <2>2
  <2> HIDE DEF e, n
  <2>4. QED BY ONLY <2>1, <2>3, CellsRead
<1>6. IsList(d) /\ Len(d) = n
  <2>1. d = [i \in 1 .. n |-> d[i]]
    BY <1>4
  <2> HIDE DEF d, n
  <2>2. QED BY <1>1, <2>1, ListMade
<1>7. \A i \in 1 .. n : d[i] = E4M3(x[i], u)
  BY <1>4, <1>5
<1>8. QED BY <1>6, <1>7
-----------------------------------------------------------------------------
(* Parts of lists.                                                        *)
LEMMA SubSeqIs ==
    ASSUME NEW s, IsList(s), NEW m \in Nat, NEW n \in Nat, m >= 1, n <= Len(s), m <= n + 1
    PROVE  /\ IsList(SubSeq(s, m, n)) /\ Len(SubSeq(s, m, n)) = n - m + 1
           /\ \A i \in 1 .. n - m + 1 : SubSeq(s, m, n)[i] = s[m + i - 1]
<1> DEFINE S == {s[i] : i \in 1 .. Len(s)}
<1>1. s \in [1 .. Len(s) -> S] /\ Len(s) \in Nat
  BY DEF IsList
<1>2. s \in Seq(S)
  BY <1>1, SeqDef
<1> HIDE DEF S
<1>3. m \in 1 .. Len(s) + 1 /\ n \in m - 1 .. Len(s)
  BY <1>1
<1>4. /\ SubSeq(s, m, n) \in Seq(S) /\ Len(SubSeq(s, m, n)) = n - m + 1
      /\ \A i \in 1 .. n - m + 1 : SubSeq(s, m, n)[i] = s[m + i - 1]
  BY <1>2, <1>3, SubSeqProperties
<1>5. QED BY <1>4, ListOfSeq

-----------------------------------------------------------------------------
(* Streams of several parts.                                               *)
LEMMA JoinedThree ==
    ASSUME NEW a, NEW b, NEW c, IsList(a), IsList(b), IsList(c)
    PROVE  /\ IsList(a \o b \o c) /\ Len(a \o b \o c) = Len(a) + Len(b) + Len(c)
           /\ At(a \o b \o c, 0, a) /\ At(a \o b \o c, Len(a), b)
           /\ At(a \o b \o c, Len(a) + Len(b), c)
<1>1. Len(a) \in Nat /\ Len(b) \in Nat /\ Len(c) \in Nat
  BY DEF IsList
<1>2. /\ IsList(a \o b) /\ Len(a \o b) = Len(a) + Len(b)
      /\ At(a \o b, 0, a) /\ At(a \o b, Len(a), b)
  BY Joined
<1> DEFINE s == a \o b
<1> HIDE DEF s
<1>3. IsList(s) /\ Len(s) = Len(a) + Len(b) /\ At(s, 0, a) /\ At(s, Len(a), b)
  BY <1>2 DEF s
<1>4. IsList(s \o c) /\ Len(s \o c) = Len(s) + Len(c) /\ At(s \o c, Len(s), c)
  BY <1>3, Joined
<1>5. At(s \o c, 0, a) /\ At(s \o c, Len(a), b)
  BY <1>1, <1>3, StillAt
<1>6. QED BY <1>3, <1>4, <1>5 DEF s

LEMMA JoinedFour ==
    ASSUME NEW a, NEW b, NEW c, NEW d, IsList(a), IsList(b), IsList(c), IsList(d)
    PROVE  LET s == a \o b \o c \o d
           IN  /\ IsList(s) /\ Len(s) = Len(a) + Len(b) + Len(c) + Len(d)
               /\ At(s, 0, a) /\ At(s, Len(a), b)
               /\ At(s, Len(a) + Len(b), c)
               /\ At(s, Len(a) + Len(b) + Len(c), d)
<1>1. Len(a) \in Nat /\ Len(b) \in Nat /\ Len(c) \in Nat /\ Len(d) \in Nat
  BY DEF IsList
<1> DEFINE p == a \o b \o c
<1>2. /\ IsList(p) /\ Len(p) = Len(a) + Len(b) + Len(c)
      /\ At(p, 0, a) /\ At(p, Len(a), b) /\ At(p, Len(a) + Len(b), c)
  BY JoinedThree
<1> HIDE DEF p
<1>3. IsList(p \o d) /\ Len(p \o d) = Len(p) + Len(d) /\ At(p \o d, Len(p), d)
  BY <1>2, Joined
<1>4. Len(a) + Len(b) \in Nat
  BY <1>1
<1>5. At(p \o d, 0, a) /\ At(p \o d, Len(a), b) /\ At(p \o d, Len(a) + Len(b), c)
  BY <1>1, <1>2, <1>4, StillAt
<1>6. QED BY <1>2, <1>3, <1>5 DEF p

(* Six parts, and where the second to the last of them begin.              *)
SixParts(s, a, b, c, d, e, f, k, l, m, n, o) ==
    /\ s = a \o b \o c \o d \o e \o f
    /\ k = Len(a) /\ l = k + Len(b) /\ m = l + Len(c) /\ n = m + Len(d) /\ o = n + Len(e)

LEMMA JoinedSix ==
    ASSUME NEW a, NEW b, NEW c, NEW d, NEW e, NEW f,
           IsList(a), IsList(b), IsList(c), IsList(d), IsList(e), IsList(f),
           NEW s, NEW k, NEW l, NEW m, NEW n, NEW o,
           SixParts(s, a, b, c, d, e, f, k, l, m, n, o)
    PROVE  /\ IsList(s) /\ Len(s) = o + Len(f)
           /\ At(s, 0, a) /\ At(s, k, b) /\ At(s, l, c)
           /\ At(s, m, d) /\ At(s, n, e) /\ At(s, o, f)
<1>8. k = Len(a) /\ l = k + Len(b) /\ m = l + Len(c) /\ n = m + Len(d) /\ o = n + Len(e)
  BY DEF SixParts
<1>1. Len(a) \in Nat /\ Len(b) \in Nat /\ Len(c) \in Nat /\ Len(d) \in Nat
  BY DEF IsList
<1> DEFINE p == a \o b \o c \o d
<1>2. /\ IsList(p) /\ Len(p) = Len(a) + Len(b) + Len(c) + Len(d)
      /\ At(p, 0, a) /\ At(p, Len(a), b) /\ At(p, Len(a) + Len(b), c)
      /\ At(p, Len(a) + Len(b) + Len(c), d)
  BY JoinedFour
<1> HIDE DEF p
<1>0. s = p \o e \o f
  BY DEF p, SixParts
<1>3. /\ IsList(s) /\ Len(s) = Len(p) + Len(e) + Len(f)
      /\ At(s, 0, p) /\ At(s, Len(p), e) /\ At(s, Len(p) + Len(e), f)
  <2> DEFINE q == p \o e \o f
  <2>1. /\ IsList(q) /\ Len(q) = Len(p) + Len(e) + Len(f)
        /\ At(q, 0, p) /\ At(q, Len(p), e) /\ At(q, Len(p) + Len(e), f)
    BY <1>2, JoinedThree
  <2>2. q = s
    BY <1>0
  <2> HIDE DEF q
  <2>3. QED BY <2>1, <2>2
<1>4. ASSUME NEW offset \in Nat, NEW part, IsList(part), At(p, offset, part)
      PROVE  At(s, offset, part)
  <2>1. At(p \o e, offset, part)
    BY <1>2, <1>4, StillAt
  <2>2. IsList(p \o e)
    BY <1>2, Joined
  <2> DEFINE q == p \o e
  <2> HIDE DEF q
  <2>3. At(q \o f, offset, part)
    BY <1>4, <2>1, <2>2, StillAt DEF q
  <2>4. QED BY <1>0, <2>3 DEF q
<1>5. Len(a) + Len(b) \in Nat /\ Len(a) + Len(b) + Len(c) \in Nat
  BY <1>1
<1>6. /\ At(s, 0, a) /\ At(s, Len(a), b) /\ At(s, Len(a) + Len(b), c)
      /\ At(s, Len(a) + Len(b) + Len(c), d)
  BY <1>1, <1>2, <1>4, <1>5
<1>7. QED BY <1>8, <1>2, <1>3, <1>6

-----------------------------------------------------------------------------
(* Groups of a list that they fill.                                        *)
LEMMA GroupsFit ==
    ASSUME NEW n \in Nat \ {0}, NEW d \in Nat, NEW i \in 1 .. n * d
    PROVE  /\ GroupOf(i, n) \in 1 .. d
           /\ i \in Members(GroupOf(i, n), n)
<1> DEFINE q == (i - 1) \div n
           r == (i - 1) % n
<1>0. n * d \in Nat /\ i - 1 \in Nat /\ i <= n * d
  BY n * d \in Nat
<1>1. q \in Int /\ r \in 0 .. n - 1 /\ i - 1 = n * q + r
  BY <1>0, Division
<1>2. GroupOf(i, n) = q + 1
  BY DEF GroupOf
<1> HIDE DEF q, r
<1>3. n * q \in Int /\ q * n = n * q /\ n * (q + 1) = n * q + n /\ (q + 1) * n = n * q + n
  BY <1>1
<1>4. q < d
  <2>1. SUFFICES ASSUME d <= q PROVE FALSE
    BY <1>1
  <2>2. n * d <= n * q
    BY <1>1, <2>1, Grows
  <2>3. QED BY <1>0, <1>1, <1>3, <2>2
<1>5. q >= 0
  <2>1. SUFFICES ASSUME q + 1 <= 0 PROVE FALSE
    BY <1>1
  <2>2. n * (q + 1) <= n * 0
    BY <1>1, <2>1, Grows
  <2>3. QED BY <1>0, <1>1, <1>3, <2>2
<1>6. i \in Members(q + 1, n)
  <2>1. (q + 1) - 1 = q
    BY <1>1
  <2>2. i \in q * n + 1 .. (q + 1) * n
    BY <1>0, <1>1, <1>3
  <2>3. QED BY <2>1, <2>2 DEF Members
<1>7. QED BY <1>1, <1>2, <1>4, <1>5, <1>6

LEMMA MembersFit ==
    ASSUME NEW n \in Nat \ {0}, NEW d \in Nat, NEW g \in 1 .. d
    PROVE  Members(g, n) \subseteq 1 .. n * d
<1>1. g \in Nat /\ g >= 1 /\ n * d \in Int
  OBVIOUS
<1>2. n * g <= n * d
  BY <1>1, Grows
<1>3. n * 0 <= n * (g - 1)
  BY <1>1, Grows
<1>4. (g - 1) * n >= 0 /\ g * n <= n * d /\ (g - 1) * n \in Int /\ g * n \in Int
  BY <1>1, <1>2, <1>3
<1>5. QED BY <1>1, <1>4 DEF Members

-----------------------------------------------------------------------------
(* INT4: the state of a value in a group, without the 8 that is added.     *)
StateINT4(v, top) == IF top = 0 THEN 0 ELSE Round(7 * v, top)
TopINT4(x, i) == GroupAbsMax(x, GroupOf(i, INT4Group), INT4Group)
Requantized(unit, v, top) == Bfloat(unit * ((StateINT4(v, top) + 8) - 8) * top, 7)

LEMMA INT4Groups ==
    ASSUME CodecsAssumption, NEW x, IsList(x), Len(x) % INT4Group = 0
    PROVE  /\ Len(x) \div INT4Group \in Nat /\ Len(x) = INT4Group * (Len(x) \div INT4Group)
           /\ \A i \in 1 .. Len(x) : GroupOf(i, INT4Group) \in 1 .. Len(x) \div INT4Group
<1>1. INT4Group \in Nat \ {0} /\ Len(x) \in Nat
  BY DEF CodecsAssumption, IsList
<1> DEFINE d == Len(x) \div INT4Group
<1>2. d \in Int /\ Len(x) = INT4Group * d
  <2>1. d \in Int /\ Len(x) = INT4Group * d + (Len(x) % INT4Group)
    <3>1. Len(x) \in Int /\ INT4Group \in Nat \ {0}
      BY <1>1
    <3>2. QED BY <3>1, Division, Zenon
  <2> HIDE DEF d
  <2>2. INT4Group * d \in Int
    BY <1>1, <2>1
  <2>3. QED BY <1>1, <2>1, <2>2
<1>3. d \in Nat
  BY <1>1
<1> HIDE DEF d
<1>4. \A i \in 1 .. INT4Group * d : GroupOf(i, INT4Group) \in 1 .. d
  BY <1>1, <1>3, GroupsFit
<1>5. QED BY <1>2, <1>3, <1>4 DEF d

(* What decode() makes of what encode() has made, part by part of the       *)
(* stream.                                                                 *)
LEMMA INT4RoundTrip ==
    ASSUME CodecsAssumption, NEW page, IsList(page), NEW unit
    PROVE  LET x == PaddedTo(page, INT4Group)
               y == DecodeINT4(unit, EncodeINT4(page))
           IN  /\ IsList(y) /\ Len(y) = Len(x)
               /\ \A i \in 1 .. Len(x) :
                    y[i] = Requantized(unit, x[i], TopINT4(x, i))
<1> DEFINE x == PaddedTo(page, INT4Group)
           groups == Len(x) \div INT4Group
           e == EncodeINT4(page)
           y == DecodeINT4(unit, e)
           maxima == [g \in 1 .. groups |-> GroupAbsMax(x, g, INT4Group)]
           states == [i \in DOMAIN x |-> StateINT4(x[i], TopINT4(x, i)) + 8]
<1>1. /\ IsList(x) /\ Len(x) \in Nat /\ DOMAIN x = 1 .. Len(x) /\ Len(x) % INT4Group = 0
      /\ Len(x) = Len(page) + Padding(Len(page), INT4Group)
      /\ Padding(Len(page), INT4Group) \in Nat /\ Len(page) \in Nat
  <2>1. INT4Group \in Nat \ {0} /\ Len(page) \in Nat
    BY DEF CodecsAssumption, IsList
  <2>2. /\ IsList(x) /\ Len(x) % INT4Group = 0
        /\ Len(x) = Len(page) + Padding(Len(page), INT4Group)
        /\ Padding(Len(page), INT4Group) \in Nat
    BY <2>1, PaddedIsList
  <2> HIDE DEF x
  <2>3. QED BY <2>1, <2>2 DEF IsList
<1>2. /\ groups \in Nat /\ Len(x) = INT4Group * groups
      /\ \A i \in 1 .. Len(x) : GroupOf(i, INT4Group) \in 1 .. groups
  BY <1>1, INT4Groups
<1>3. CASE page = <<>>
  <2>1. e = Word(0, 4) /\ Len(Word(0, 4)) = 4
    BY <1>3, WordIsList DEF EncodeINT4, Sizes
  <2>2. y = <<>>
    <3> HIDE DEF e
    <3>0. Len(e) = 4
      BY <2>1, Zenon
    <3>1. Len(e) < 8
      BY <3>0
    <3>2. QED BY <3>1 DEF DecodeINT4
  <2>3. Len(x) = 0
    <3>1. Len(page) = 0 /\ Len(page) \in Nat
      BY <1>3, EmptyList
    <3>2. Padding(0, INT4Group) = 0
      <4>1. INT4Group \in Nat \ {0}
        BY DEF CodecsAssumption
      <4>2. 0 % INT4Group = 0
        BY <4>1
      <4>3. INT4Group % INT4Group = 0
        BY <4>1
      <4>4. INT4Group - 0 = INT4Group
        BY <4>1
      <4>5. QED BY <4>2, <4>3, <4>4 DEF Padding
    <3>3. QED BY <1>1, <3>1, <3>2
  <2>4. 1 .. Len(x) = {}
    BY <2>3
  <2>5. QED BY <2>2, <2>3, <2>4, EmptyList
<1>4. CASE page # <<>>
  <2> DEFINE A == Word(groups, 4)
             B == Word(Len(x), 4)
             C == Words(maxima, 2)
             D == Packed(states, 2)
  <2>1. e = A \o B \o C \o D
    BY <1>4, Zenon DEF EncodeINT4, StateINT4, TopINT4
  <2>2. IsList(maxima) /\ Len(maxima) = groups
    <3>1. maxima = [g \in 1 .. groups |-> maxima[g]]
      OBVIOUS
    <3> HIDE DEF maxima, groups
    <3>2. QED BY <1>2, <3>1, ListMade
  <2>3. IsList(states) /\ Len(states) = Len(x)
    <3>1. states = [i \in 1 .. Len(x) |-> states[i]]
      BY <1>1
    <3> HIDE DEF states
    <3>2. QED BY <1>1, <3>1, ListMade
  <2>4. /\ \A g \in 1 .. groups : maxima[g] = GroupAbsMax(x, g, INT4Group)
        /\ \A i \in 1 .. Len(x) : states[i] = StateINT4(x[i], TopINT4(x, i)) + 8
    BY <1>1
  <2> HIDE DEF maxima, states
  <2>5. /\ IsList(A) /\ Len(A) = 4 /\ IsList(B) /\ Len(B) = 4
        /\ IsList(C) /\ Len(C) = 2 * groups /\ IsList(D)
    BY <2>2, <2>3, WordIsList, WordsAreList, PackedIsList DEF Sizes, Fields
  <2> HIDE DEF x, groups, A, B, C, D, e
  <2>6. /\ IsList(e) /\ Len(e) = 8 + 2 * groups + Len(D) /\ Len(D) \in Nat
        /\ At(e, 0, A) /\ At(e, 4, B) /\ At(e, 8, C) /\ At(e, 8 + 2 * groups, D)
    <3>1. Len(D) \in Nat
      BY <2>5 DEF IsList
    <3> DEFINE s == A \o B \o C \o D
    <3>0. /\ IsList(s) /\ Len(s) = Len(A) + Len(B) + Len(C) + Len(D)
          /\ At(s, 0, A) /\ At(s, Len(A), B)
          /\ At(s, Len(A) + Len(B), C) /\ At(s, Len(A) + Len(B) + Len(C), D)
      BY <2>5, JoinedFour
    <3> HIDE DEF s
    <3>2. /\ IsList(e) /\ Len(e) = Len(A) + Len(B) + Len(C) + Len(D)
          /\ At(e, 0, A) /\ At(e, Len(A), B)
          /\ At(e, Len(A) + Len(B), C) /\ At(e, Len(A) + Len(B) + Len(C), D)
      BY <2>1, <3>0 DEF s
    <3>3. Len(A) + Len(B) = 8 /\ Len(A) + Len(B) + Len(C) = 8 + 2 * groups
      BY <1>2, <2>5
    <3>4. QED BY <2>5, <3>1, <3>2, <3>3
  <2>7. WordAt(e, 0, 4) = groups /\ WordAt(e, 4, 4) = Len(x)
    BY <2>6, WordFound DEF A, B, Sizes
  <2>8. groups # 0 /\ ~(Len(e) < 8)
    <3>1. Len(page) # 0
      BY <1>4, NoElements
    <3>2. Len(x) # 0
      BY <1>1, <3>1
    <3>3. INT4Group * 0 = 0
      BY DEF CodecsAssumption
    <3>4. QED BY <1>2, <2>6, <3>2, <3>3
  <2> DEFINE u == Unpacked(e, 8 + 2 * groups, 2)
  <2>9. y = [i \in 1 .. Len(x) |->
                Bfloat(unit * (u[i] - 8) * WordAt(e, 8 + 2 * (GroupOf(i, INT4Group) - 1), 2), 7)]
    BY <2>7, <2>8 DEF DecodeINT4
  <2>10. \A i \in 1 .. Len(x) : u[i] = states[i]
    <3>1. 8 + 2 * groups \in Nat /\ 2 \in Fields
      BY <1>2 DEF Fields
    <3>2. Len(e) = (8 + 2 * groups) + Len(D) /\ At(e, 8 + 2 * groups, D)
      BY <2>6
    <3>3. QED BY <2>3, <2>6, <3>1, <3>2, FieldsFound DEF D
  <2>11. ASSUME NEW i \in 1 .. Len(x)
         PROVE  WordAt(e, 8 + 2 * (GroupOf(i, INT4Group) - 1), 2) = TopINT4(x, i)
    <3>1. GroupOf(i, INT4Group) \in 1 .. Len(maxima)
      BY <1>2, <2>2
    <3>2. WordAt(e, 8 + 2 * (GroupOf(i, INT4Group) - 1), 2) = maxima[GroupOf(i, INT4Group)]
      BY <2>2, <2>6, <3>1, WordsFound, SMTT(20) DEF C, Sizes
    <3>3. QED BY <2>2, <2>4, <3>1, <3>2 DEF TopINT4
  <2>12. /\ y = [i \in 1 .. Len(x) |-> y[i]]
         /\ \A i \in 1 .. Len(x) :
                y[i] = Requantized(unit, x[i], TopINT4(x, i))
    <3> HIDE DEF u
    <3>1. y = [i \in 1 .. Len(x) |-> y[i]]
      BY <2>9
    <3>2. ASSUME NEW i \in 1 .. Len(x)
          PROVE  y[i] = Requantized(unit, x[i], TopINT4(x, i))
      <4>1. y[i] = Bfloat(unit * (u[i] - 8) * WordAt(e, 8 + 2 * (GroupOf(i, INT4Group) - 1), 2), 7)
        BY <2>9
      <4> HIDE DEF y
      <4>2. QED BY <2>4, <2>10, <2>11, <4>1 DEF Requantized
    <3>3. QED BY <3>1, <3>2
  <2> HIDE DEF y
  <2>13. IsList(y) /\ Len(y) = Len(x)
    BY <1>1, <2>12, ListMade
  <2>14. QED BY <2>12, <2>13 DEF x, y, e
<1>5. QED BY <1>3, <1>4

LEMMA RoundNear ==
    ASSUME NEW b \in Nat \ {0}, NEW k \in Int, NEW o \in Int, 2 * o < b, -b < 2 * o
    PROVE  Round(b * k + o, b) = k
<1> DEFINE a == b * k + o
           r == Round(a, b)
<1>1. a \in Int /\ b * k \in Int
  OBVIOUS
<1>2. r \in Int /\ 2 * (b * r - a) \in -b .. b
  BY <1>1, RoundIsNear
<1> HIDE DEF r
<1>3. b * r \in Int /\ b * r - b * k < b /\ b * k - b * r < b
  BY <1>1, <1>2
<1>4. ~(k + 1 <= r)
  <2>1. SUFFICES ASSUME k + 1 <= r PROVE FALSE
    OBVIOUS
  <2>2. b * (k + 1) <= b * r
    <3>1. b \in Nat /\ k + 1 \in Int
      OBVIOUS
    <3>2. QED BY <1>2, <2>1, <3>1, Grows
  <2>3. b * (k + 1) = b * k + b
    OBVIOUS
  <2>4. QED BY <1>1, <1>3, <2>2, <2>3
<1>5. ~(r + 1 <= k)
  <2>1. SUFFICES ASSUME r + 1 <= k PROVE FALSE
    OBVIOUS
  <2>2. b * (r + 1) <= b * k
    <3>1. b \in Nat /\ r + 1 \in Int
      BY <1>2
    <3>2. QED BY <2>1, <3>1, Grows
  <2>3. b * (r + 1) = b * r + b
    BY <1>2
  <2>4. QED BY <1>1, <1>3, <2>2, <2>3
<1>6. r = k
  BY <1>2, <1>4, <1>5
<1>7. QED BY <1>6 DEF r

LEMMA BfloatDigits ==
    ASSUME NEW v, IsBfloat(v)
    PROVE  HasDigits(v, 256) /\ v \in Int /\ Abs(v) < 256 * LastPower /\ IsBfloat(-v)
<1>1. PICK m \in -255 .. 255, s \in Powers : v = m * s
  BY DEF IsBfloat
<1>2. s \in Nat \ {0} /\ s <= 32768
  BY DEF Powers
<1>3. v \in Int /\ -v = (-m) * s /\ -m \in -255 .. 255
  BY <1>1, <1>2
<1>4. HasDigits(v, 256) /\ IsBfloat(-v)
  <2>1. m \in -(256 - 1) .. 256 - 1
    BY <1>1
  <2>2. HasDigits(v, 256)
    BY <1>1, <2>1 DEF HasDigits
  <2>3. IsBfloat(-v)
    BY <1>3 DEF IsBfloat
  <2>4. QED BY <2>2, <2>3
<1>5. s * m <= s * 255 /\ s * (-255) <= s * m
  BY <1>2, Grows
<1>6. v = s * m /\ s * 255 <= 255 * 32768
  BY <1>1, <1>2
<1>7. v <= 255 * 32768 /\ -(255 * 32768) <= v
  BY <1>2, <1>3, <1>5, <1>6
<1>8. Abs(v) < 256 * LastPower
  BY <1>3, <1>7, SMT DEF Abs, LastPower
<1>9. QED BY <1>3, <1>4, <1>8

LEMMA BfloatExact ==
    ASSUME NEW v, IsBfloat(v), NEW d \in Nat \ {0}
    PROVE  Bfloat(d * v, d) = v
<1>1. HasDigits(v, 256) /\ 256 \in Digits
  BY BfloatDigits DEF Digits
<1>2. QED BY <1>1, FloatingExact DEF Bfloat

LEMMA BfloatNear ==
    ASSUME NEW n \in Int, NEW d \in Nat \ {0}, Abs(n) < (256 * d) * LastPower
    PROVE  LET r == Bfloat(n, d)
               off == d * r - n
           IN  /\ r \in Int
               /\ 2 * off \in -d .. d \/ 256 * off \in -Abs(n) .. Abs(n)
<1>1. 256 \in Digits
  BY DEF Digits
<1>2. QED BY <1>1, FloatingNear DEF Bfloat

(* The state of a value, and its largest possible error.                   *)
LEMMA StateINT4Is ==
    ASSUME NEW v \in Int, NEW top \in Nat, Abs(v) <= top
    PROVE  /\ StateINT4(v, top) \in -7 .. 7
           /\ 2 * (StateINT4(v, top) * top - 7 * v) \in -top .. top
           /\ Abs(v) = top => StateINT4(v, top) * top = 7 * v
<1> DEFINE s == StateINT4(v, top)
<1>1. v \in -top .. top /\ (Abs(v) = top => v = top \/ v = -top)
  BY DEF Abs
<1>2. CASE top = 0
  <2>1. v = 0 /\ s = 0
    BY <1>1, <1>2 DEF StateINT4
  <2> HIDE DEF s
  <2>2. QED BY <1>2, <2>1 DEF s
<1>3. CASE top # 0
  <2>1. s = Round(7 * v, top)
    BY <1>3 DEF StateINT4
  <2>2. 7 * v \in Int /\ top \in Nat \ {0}
    BY <1>3
  <2>3. s \in Int /\ 2 * (top * s - 7 * v) \in -top .. top
    BY <2>1, <2>2, RoundIsNear
  <2>4. s * top = top * s /\ top * s \in Int
    <3> HIDE DEF s
    <3>1. QED BY <2>3
  <2>5. s <= 7
    <3>1. SUFFICES ASSUME 8 <= s PROVE FALSE
      BY <2>3
    <3> HIDE DEF s
    <3>2. top * 8 <= top * s
      BY <2>3, <3>1, Grows
    <3>3. QED BY <1>1, <2>2, <2>3, <3>2
  <2>6. s >= -7
    <3>1. SUFFICES ASSUME s <= -8 PROVE FALSE
      BY <2>3
    <3> HIDE DEF s
    <3>2. top * s <= top * (-8)
      BY <2>3, <3>1, Grows
    <3>3. QED BY <1>1, <2>2, <2>3, <3>2
  <2>7. Abs(v) = top => s * top = 7 * v
    <3>1. CASE v = top
      <4>1. 7 * v = top * 7 /\ 7 \in Int
        BY <3>1
      <4>2. Round(top * 7, top) = 7
        BY <2>2, <4>1, RoundExact
      <4>3. s = 7
        BY <2>1, <4>1, <4>2, Zenon
      <4> HIDE DEF s
      <4>4. QED BY <3>1, <4>3
    <3>2. CASE v = -top
      <4>1. 7 * v = top * (-7) /\ (-7) \in Int
        BY <3>2
      <4>2. Round(top * (-7), top) = (-7)
        BY <2>2, <4>1, RoundExact
      <4>3. s = -7
        BY <2>1, <4>1, <4>2, Zenon
      <4> HIDE DEF s
      <4>4. QED BY <3>2, <4>3
    <3>3. QED BY <1>1, <3>1, <3>2
  <2> HIDE DEF s
  <2>8. QED BY <2>3, <2>4, <2>5, <2>6, <2>7 DEF s
<1>4. QED BY <1>2, <1>3
(* The groups of a padded page, and their largest values.                  *)
LEMMA INT4Tops ==
    ASSUME CodecsAssumption, NEW x, IsList(x), Len(x) % INT4Group = 0,
           \A i \in 1 .. Len(x) : x[i] \in Int, NEW i \in 1 .. Len(x)
    PROVE  /\ Members(GroupOf(i, INT4Group), INT4Group) \subseteq 1 .. Len(x)
           /\ i \in Members(GroupOf(i, INT4Group), INT4Group)
           /\ TopINT4(x, i) \in Nat
           /\ \A j \in Members(GroupOf(i, INT4Group), INT4Group) :
                    Abs(x[j]) <= TopINT4(x, i) /\ GroupOf(j, INT4Group) = GroupOf(i, INT4Group)
           /\ \/ TopINT4(x, i) = 0
              \/ \E j \in Members(GroupOf(i, INT4Group), INT4Group) : Abs(x[j]) = TopINT4(x, i)
<1> DEFINE n == INT4Group
           d == Len(x) \div INT4Group
           g == GroupOf(i, n)
<1>1. n \in Nat \ {0} /\ n \in Int /\ Len(x) \in Nat
  BY DEF CodecsAssumption, IsList
<1>2. d \in Nat /\ Len(x) = n * d
  BY INT4Groups
<1> HIDE DEF n, d
<1>3. g \in 1 .. d /\ i \in Members(g, n)
  BY <1>1, <1>2, GroupsFit
<1>4. Members(g, n) \subseteq 1 .. n * d /\ g \in Int
  <2> HIDE DEF g
  <2>1. g \in Int
    BY <1>3
  <2>2. QED BY <1>1, <1>2, <1>3, <2>1, MembersFit
<1>5. ASSUME NEW j \in Members(g, n) PROVE GroupOf(j, n) = g
  <2>1. j - 1 \in Int /\ j \in (g - 1) * n + 1 .. g * n
    BY <1>1, <1>2, <1>4, <1>5 DEF Members
  <2> DEFINE q == (j - 1) \div n
             r == (j - 1) % n
  <2>2. q \in Int /\ r \in 0 .. n - 1 /\ j - 1 = n * q + r
    BY <1>1, <2>1, Division
  <2>3. GroupOf(j, n) = q + 1
    BY DEF GroupOf
  <2> HIDE DEF q, r, g
  <2>4. (g - 1) * n = n * g - n /\ g * n = n * g /\ n * g \in Int /\ n * q \in Int
        /\ n * (q + 1) = n * q + n /\ n * (g - 1) = n * g - n
    BY <1>1, <1>4, <2>2
  <2>5. n * g - n <= n * q + r /\ n * q + r < n * g
    BY <1>1, <1>4, <2>1, <2>2, <2>4
  <2>6. q < g
    <3>1. SUFFICES ASSUME g <= q PROVE FALSE
      BY <1>4, <2>2
    <3>2. n * g <= n * q
      BY <1>1, <1>4, <2>2, <3>1, Grows
    <3>3. QED BY <1>1, <2>2, <2>4, <2>5, <3>2
  <2>7. g - 1 <= q
    <3>1. SUFFICES ASSUME q + 1 <= g - 1 PROVE FALSE
      BY <1>4, <2>2
    <3>2. n * (q + 1) <= n * (g - 1)
      <4>1. q + 1 \in Int /\ g - 1 \in Int /\ n \in Nat
        BY <1>1, <1>4, <2>2
      <4>2. QED BY <3>1, <4>1, Grows
    <3>3. QED BY <1>1, <2>2, <2>4, <2>5, <3>2
  <2>8. QED BY <1>4, <2>2, <2>3, <2>6, <2>7
<1>6. \A j \in Members(g, n) : x[j] \in Int
  BY <1>2, <1>4
<1>7. /\ TopINT4(x, i) \in Nat
      /\ \A j \in Members(g, n) : Abs(x[j]) <= TopINT4(x, i)
      /\ TopINT4(x, i) = 0 \/ \E j \in Members(g, n) : Abs(x[j]) = TopINT4(x, i)
  <2>1. TopINT4(x, i) = GroupAbsMax(x, g, n)
    BY DEF TopINT4, n
  <2> HIDE DEF g
  <2>2. QED BY <1>1, <1>4, <1>6, <2>1, GroupMax
<1>8. QED BY <1>2, <1>3, <1>4, <1>5, <1>7 DEF n

(* A list that is as long as its groups is not padded.                     *)
LEMMA NotPadded ==
    ASSUME NEW x, IsList(x), NEW n \in Nat \ {0}, Len(x) % n = 0
    PROVE  PaddedTo(x, n) = x
<1>1. Padding(Len(x), n) = 0
  <2>1. n - 0 = n /\ n % n = 0
    OBVIOUS
  <2>2. QED BY <2>1 DEF Padding
<1>2. /\ IsList(PaddedTo(x, n)) /\ Len(PaddedTo(x, n)) = Len(x) + Padding(Len(x), n)
      /\ \A i \in 1 .. Len(PaddedTo(x, n)) : PaddedTo(x, n)[i] = IF i <= Len(x) THEN x[i] ELSE 0
  BY PaddedIsList
<1> DEFINE y == PaddedTo(x, n)
<1> HIDE DEF y
<1>3. IsList(y) /\ Len(y) = Len(x) + 0 /\ Len(x) \in Nat
  BY <1>1, <1>2 DEF y, IsList
<1>4. Len(y) = Len(x)
  BY <1>3
<1>5. \A i \in 1 .. Len(y) : y[i] = x[i]
  BY <1>2, <1>3, <1>4 DEF y
<1>6. y = x
  BY <1>3, <1>4, <1>5, ListsEqual
<1>7. QED BY <1>6 DEF y

(* In units: of the page's values and of the decoded ones.                 *)
LEMMA RequantizedNear ==
    ASSUME NEW unit \in Nat \ {0}, NEW v \in Int, NEW top \in Nat, Abs(v) <= top,
           IsBfloat(unit * top)
    PROVE  LET r == Requantized(unit, v, top)
               part == StateINT4(v, top) * (unit * top)
               off == 7 * r - part
           IN  /\ r = Bfloat(part, 7) /\ r \in Int /\ part \in Int
               /\ part <= 7 * (unit * top) /\ -(7 * (unit * top)) <= part
               /\ 2 * off \in -7 .. 7 \/ 256 * off \in -Abs(part) .. Abs(part)
<1> DEFINE s == StateINT4(v, top)
           A == unit * top
           part == s * A
<1>1. s \in -7 .. 7
  BY StateINT4Is
<1>2. A \in Nat /\ A < 256 * LastPower
  <2>1. A \in Nat
    OBVIOUS
  <2>2. Abs(A) < 256 * LastPower
    BY BfloatDigits
  <2> HIDE DEF A
  <2>3. Abs(A) = A
    BY <2>1 DEF Abs
  <2>4. QED BY <2>1, <2>2, <2>3
<1>3. Requantized(unit, v, top) = Bfloat(part, 7)
  <2>1. (s + 8) - 8 = s
    <3> HIDE DEF s
    <3>1. QED BY <1>1
  <2>2. unit * s * top = part
    <3> HIDE DEF s
    <3>1. QED BY <1>1
  <2>3. unit * ((s + 8) - 8) * top = part
    BY <2>1, <2>2
  <2>4. QED BY <2>3 DEF Requantized
<1> HIDE DEF s, A
<1>4. part \in Int /\ part <= 7 * A /\ -(7 * A) <= part
  <2>1. A * s <= A * 7 /\ A * (-7) <= A * s
    BY <1>1, <1>2, Grows
  <2>2. A * s = part /\ part \in Int
    BY <1>1, <1>2
  <2>3. QED BY <1>2, <2>1, <2>2
<1>5. Abs(part) < (256 * 7) * LastPower
  <2> HIDE DEF part
  <2>1. Abs(part) <= 7 * A /\ Abs(part) \in Nat
    BY <1>2, <1>4 DEF Abs
  <2>2. QED BY <1>2, <2>1, SMT DEF LastPower
<1> HIDE DEF part
<1>6. LET r == Bfloat(part, 7)
          off == 7 * r - part
      IN  r \in Int /\ (2 * off \in -7 .. 7 \/ 256 * off \in -Abs(part) .. Abs(part))
  <2>1. 7 \in Nat \ {0}
    OBVIOUS
  <2>2. QED BY <1>4, <1>5, <2>1, BfloatNear
<1>7. QED BY <1>3, <1>4, <1>6, Zenon DEF part, s, A

(* Half a step of the scale, a 256th of the largest value, and half a unit.*)
LEMMA RequantizedClose ==
    ASSUME NEW unit \in Nat \ {0}, NEW v \in Int, NEW top \in Nat, Abs(v) <= top,
           IsBfloat(unit * top)
    PROVE  /\ Requantized(unit, v, top) \in Int
           /\ 1792 * Distance(Requantized(unit, v, top), unit * v) <= 135 * (unit * top) + 896
           /\ Abs(v) = top => Requantized(unit, v, top) = unit * v
<1> DEFINE s == StateINT4(v, top)
           A == unit * top
           V == unit * v
           part == s * A
           r == Requantized(unit, v, top)
           off == 7 * r - part
<1>1. /\ r = Bfloat(part, 7) /\ r \in Int /\ part \in Int /\ part <= 7 * A /\ -(7 * A) <= part
      /\ 2 * off \in -7 .. 7 \/ 256 * off \in -Abs(part) .. Abs(part)
  BY RequantizedNear, Zenon
<1>2. s \in -7 .. 7 /\ 2 * (s * top - 7 * v) \in -top .. top /\ (Abs(v) = top => s * top = 7 * v)
  BY StateINT4Is
<1>3. A \in Nat /\ V \in Int
  OBVIOUS
<1>4. 2 * (part - 7 * V) <= A /\ -A <= 2 * (part - 7 * V)
  <2> DEFINE t == 2 * (s * top - 7 * v)
  <2>1. t \in Int /\ t <= top /\ -top <= t
    BY <1>2
  <2>2. unit * t = 2 * (part - 7 * V)
    <3> HIDE DEF s
    <3>1. s \in Int
      BY <1>2
    <3>2. QED BY <3>1
  <2>3. unit * t <= unit * top /\ unit * (-top) <= unit * t
    <3> HIDE DEF t
    <3>1. unit \in Nat /\ -top \in Int /\ top \in Int
      OBVIOUS
    <3>2. QED BY <2>1, <3>1, Grows
  <2>4. unit * (-top) = -A
    OBVIOUS
  <2>5. QED BY <2>2, <2>3, <2>4
<1>5. Abs(v) = top => r = V
  <2>1. ASSUME Abs(v) = top PROVE part = 7 * V /\ IsBfloat(V)
    <3>1. s * top = 7 * v
      BY <1>2, <2>1
    <3>2. part = unit * (s * top)
      <4> HIDE DEF s
      <4>1. s \in Int
        BY <1>2
      <4>2. QED BY <4>1
    <3>3. unit * (7 * v) = 7 * V
      OBVIOUS
    <3>4. part = 7 * V
      BY <3>1, <3>2, <3>3
    <3>5. V = A \/ V = -A
      <4>1. v = top \/ v = -top
        BY <2>1 DEF Abs
      <4>2. unit * (-top) = -(unit * top)
        OBVIOUS
      <4>3. QED BY <4>1, <4>2
    <3>6. IsBfloat(A) /\ IsBfloat(-A)
      BY BfloatDigits
    <3> HIDE DEF part, V, A
    <3>7. QED BY <3>4, <3>5, <3>6
  <2> HIDE DEF part, V, r
  <2>2. 7 \in Nat \ {0}
    OBVIOUS
  <2>3. ASSUME Abs(v) = top PROVE r = V
    <3>1. Bfloat(7 * V, 7) = V
      BY <2>1, <2>2, <2>3, BfloatExact
    <3>2. QED BY <1>1, <2>1, <2>3, <3>1
  <2>4. QED BY <2>3
<1>6. 1792 * Distance(r, V) <= 135 * A + 896
  <2> HIDE DEF part, V, A, r
  <2>1. Abs(part) \in Nat /\ Abs(part) <= 7 * A
    BY <1>1, <1>3 DEF Abs
  <2>2. 512 * off <= 1792 + 14 * A /\ -(1792 + 14 * A) <= 512 * off
    <3>1. off \in Int
      BY <1>1
    <3> HIDE DEF off
    <3>2. CASE 2 * off \in -7 .. 7
      BY <1>3, <3>1, <3>2
    <3>3. CASE 256 * off \in -Abs(part) .. Abs(part)
      BY <1>3, <2>1, <3>1, <3>3
    <3>4. QED BY <1>1, <3>2, <3>3 DEF off
  <2>3. 512 * off + 256 * (2 * (part - 7 * V)) = 3584 * (r - V)
    BY <1>1, <1>3
  <2>4. 3584 * (r - V) <= 270 * A + 1792 /\ -(270 * A + 1792) <= 3584 * (r - V)
    <3> DEFINE p == 2 * (part - 7 * V)
               q == r - V
    <3>1. p \in Int /\ off \in Int /\ q \in Int
      BY <1>1, <1>3
    <3>2. 512 * off + 256 * p = 3584 * q /\ p <= A /\ -A <= p
      BY <1>4, <2>3
    <3> HIDE DEF p, off, q
    <3>3. 3584 * q <= 270 * A + 1792 /\ -(270 * A + 1792) <= 3584 * q
      BY <1>3, <2>2, <3>1, <3>2
    <3>4. QED BY <3>3 DEF q
  <2>5. QED BY <1>1, <1>3, <2>4 DEF Distance
<1>7. QED BY <1>1, <1>5, <1>6

(* What was decoded has the largest value of its group still, and its own  *)
(* state among the others.                                                 *)
LEMMA RequantizedAgain ==
    ASSUME NEW unit \in Nat \ {0}, unit >= 8, NEW v \in Int, NEW top \in Nat, Abs(v) <= top,
           IsBfloat(unit * top)
    PROVE  /\ Abs(Requantized(unit, v, top)) <= unit * top
           /\ Requantized(1, Requantized(unit, v, top), unit * top) = Requantized(unit, v, top)
<1> DEFINE s == StateINT4(v, top)
           A == unit * top
           part == s * A
           r == Requantized(unit, v, top)
           off == 7 * r - part
<1>1. /\ r = Bfloat(part, 7) /\ r \in Int /\ part \in Int /\ part <= 7 * A /\ -(7 * A) <= part
      /\ 2 * off \in -7 .. 7 \/ 256 * off \in -Abs(part) .. Abs(part)
  BY RequantizedNear, Zenon
<1>2. s \in -7 .. 7 /\ A \in Nat
  BY StateINT4Is
<1>3. CASE top = 0
  <2>1. A = 0 /\ s = 0
    BY <1>3 DEF StateINT4
  <2>2. part = 0
    <3> HIDE DEF s, A
    <3>1. QED BY <2>1
  <2>3. r = 0
    <3> HIDE DEF part, r
    <3>1. QED BY <1>1, <2>2 DEF Abs
  <2>4. StateINT4(r, A) = 0
    BY <2>1 DEF StateINT4
  <2>5. Requantized(1, r, A) = Bfloat(1 * ((0 + 8) - 8) * A, 7)
    <3> HIDE DEF r, A
    <3>1. QED BY <2>4 DEF Requantized
  <2>6. 1 * ((0 + 8) - 8) * A = 0
    BY <1>2
  <2>7. Requantized(1, r, A) = r
    <3> HIDE DEF r, A, part
    <3>1. QED BY <1>1, <2>2, <2>5, <2>6
  <2>8. Abs(r) <= A
    <3> HIDE DEF r, A
    <3>1. QED BY <2>1, <2>3 DEF Abs
  <2>9. QED BY <2>7, <2>8
<1>4. CASE top # 0
  <2>1. A >= 8
    <3>1. unit * 1 <= unit * top
      <4>1. unit \in Nat /\ 1 \in Int /\ top \in Int /\ 1 <= top
        BY <1>4
      <4>2. QED BY <4>1, Grows
    <3>2. QED BY <3>1
  <2> HIDE DEF s, A
  <2>2. 2 * off < A /\ -A < 2 * off /\ off \in Int
    <3>1. Abs(part) \in Nat /\ Abs(part) <= 7 * A
      <4> HIDE DEF part, r
      <4>1. QED BY <1>1, <1>2 DEF Abs
    <3>2. off \in Int
      <4> HIDE DEF part, r
      <4>1. QED BY <1>1
    <3> HIDE DEF off
    <3>3. CASE 2 * off \in -7 .. 7
      BY <1>2, <2>1, <3>2, <3>3
    <3>4. CASE 256 * off \in -Abs(part) .. Abs(part)
      <4> DEFINE p == Abs(part)
      <4>1. p \in Nat /\ p <= 7 * A /\ 256 * off \in -p .. p
        BY <3>1, <3>4
      <4> HIDE DEF p
      <4>2. QED BY <1>2, <2>1, <3>2, <4>1
    <3>5. QED BY <1>1, <3>2, <3>3, <3>4 DEF off
  <2>3. 7 * r = A * s + off
    <3>1. A * s = part
      BY <1>2
    <3> HIDE DEF part, r
    <3>2. QED BY <1>1, <3>1
  <2>4. Abs(r) <= A
    <3>1. CASE s = 7 \/ s = -7
      <4>1. part = 7 * A \/ part = 7 * (-A)
        BY <1>2, <3>1
      <4>2. IsBfloat(A) /\ IsBfloat(-A)
        BY BfloatDigits DEF A
      <4>3. Bfloat(7 * A, 7) = A /\ Bfloat(7 * (-A), 7) = -A
        BY <4>2, BfloatExact
      <4>4. r = A \/ r = -A
        <5> HIDE DEF part, r
        <5>1. QED BY <1>1, <4>1, <4>3
      <4> HIDE DEF r
      <4>5. QED BY <1>2, <4>4 DEF Abs
    <3>2. CASE s \in -6 .. 6
      <4>1. A * s <= A * 6 /\ A * (-6) <= A * s /\ A * s \in Int
        BY <1>2, <3>2, Grows
      <4> DEFINE As == A * s
      <4>2. 7 * r = As + off /\ As <= 6 * A /\ -(6 * A) <= As /\ As \in Int
        BY <1>2, <2>3, <4>1
      <4> HIDE DEF As, off, r
      <4>3. QED BY <1>1, <1>2, <2>1, <2>2, <4>2 DEF Abs
    <3>3. QED BY <1>2, <3>1, <3>2
  <2>5. StateINT4(r, A) = s
    <3> HIDE DEF off, r
    <3>1. Round(A * s + off, A) = s
      <4>1. A \in Nat \ {0} /\ s \in Int
        BY <1>2, <2>1
      <4>2. QED BY <2>2, <4>1, RoundNear
    <3>2. A # 0
      BY <2>1
    <3>3. QED BY <2>3, <3>1, <3>2 DEF StateINT4
  <2>6. Requantized(1, r, A) = r
    <3>1. 1 * ((s + 8) - 8) * A = part
      BY <1>2
    <3>2. Requantized(1, r, A) = Bfloat(1 * ((s + 8) - 8) * A, 7)
      <4> HIDE DEF r
      <4>1. QED BY <2>5 DEF Requantized
    <3> HIDE DEF r, part
    <3>3. QED BY <1>1, <3>1, <3>2
  <2>7. QED BY <2>4, <2>6 DEF A
<1>5. QED BY <1>3, <1>4

(* Pages of which nothing is lost when it is cast.                         *)
IsPage(unit, x) == IsList(x) /\ \A i \in 1 .. Len(x) : x[i] \in Int /\ IsBfloat(unit * x[i])

LEMMA INT4Page ==
    ASSUME CodecsAssumption, NEW unit \in Nat \ {0}, NEW page, IsPage(unit, page)
    PROVE  LET x == PaddedTo(page, INT4Group)
               y == DecodeINT4(unit, EncodeINT4(page))
           IN  /\ IsPage(unit, x) /\ Len(x) % INT4Group = 0
               /\ IsList(y) /\ Len(y) = Len(x)
               /\ \A i \in 1 .. Len(x) : /\ y[i] = Requantized(unit, x[i], TopINT4(x, i))
                                         /\ Abs(x[i]) <= TopINT4(x, i) /\ TopINT4(x, i) \in Nat
                                         /\ IsBfloat(unit * TopINT4(x, i))
<1> DEFINE x == PaddedTo(page, INT4Group)
           y == DecodeINT4(unit, EncodeINT4(page))
<1>1. INT4Group \in Nat \ {0} /\ IsList(page)
  BY DEF CodecsAssumption, IsPage
<1>2. /\ IsList(x) /\ Len(x) % INT4Group = 0
      /\ \A i \in 1 .. Len(x) : x[i] = IF i <= Len(page) THEN page[i] ELSE 0
  BY <1>1, PaddedIsList
<1>3. \A i \in 1 .. Len(x) : x[i] \in Int /\ IsBfloat(unit * x[i])
  <2> HIDE DEF x
  <2>1. ASSUME NEW i \in 1 .. Len(x), i <= Len(page) PROVE i \in 1 .. Len(page)
    BY <1>1, <1>2, <2>1 DEF IsList
  <2>2. IsBfloat(unit * 0)
    <3>1. unit * 0 = 0 * 1 /\ 0 \in -255 .. 255 /\ 1 \in Powers
      BY DEF Powers
    <3>2. QED BY <3>1 DEF IsBfloat
  <2>3. QED BY <1>2, <2>1, <2>2 DEF IsPage
<1>4. /\ IsList(y) /\ Len(y) = Len(x)
      /\ \A i \in 1 .. Len(x) : y[i] = Requantized(unit, x[i], TopINT4(x, i))
  BY <1>1, INT4RoundTrip
<1> HIDE DEF x, y
<1>5. ASSUME NEW i \in 1 .. Len(x)
      PROVE  Abs(x[i]) <= TopINT4(x, i) /\ TopINT4(x, i) \in Nat /\ IsBfloat(unit * TopINT4(x, i))
  <2> DEFINE M == Members(GroupOf(i, INT4Group), INT4Group)
             t == TopINT4(x, i)
  <2>1. /\ M \subseteq 1 .. Len(x) /\ i \in M /\ t \in Nat
        /\ \A j \in M : Abs(x[j]) <= t
        /\ t = 0 \/ \E j \in M : Abs(x[j]) = t
    BY <1>2, <1>3, INT4Tops
  <2> HIDE DEF M, t
  <2>2. CASE t = 0
    <3>1. unit * t = 0 * 1 /\ 0 \in -255 .. 255 /\ 1 \in Powers
      BY <2>2 DEF Powers
    <3>2. QED BY <2>1, <3>1 DEF IsBfloat, t
  <2>3. CASE \E j \in M : Abs(x[j]) = t
    <3>1. PICK j \in M : Abs(x[j]) = t
      BY <2>3
    <3>2. x[j] \in Int /\ IsBfloat(unit * x[j])
      BY <1>3, <2>1, <3>1
    <3>3. t = x[j] \/ t = -x[j]
      BY <3>1 DEF Abs
    <3>4. unit * (-x[j]) = -(unit * x[j])
      BY <3>2
    <3>5. IsBfloat(unit * t)
      BY <3>2, <3>3, <3>4, BfloatDigits
    <3>6. QED BY <2>1, <3>5 DEF t
  <2>4. QED BY <2>1, <2>2, <2>3
<1>6. IsPage(unit, x)
  BY <1>2, <1>3 DEF IsPage
<1>7. QED BY <1>2, <1>4, <1>5, <1>6 DEF x, y

(* The largest value of a group is kept exactly, so the scale of a decoded *)
(* group is the one it was encoded with, and so is every state.            *)
LEMMA INT4Stable ==
    ASSUME CodecsAssumption, NEW unit \in Nat \ {0}, unit >= 8, NEW page, IsPage(unit, page)
    PROVE  LET y == DecodeINT4(unit, EncodeINT4(page))
           IN  DecodeINT4(1, EncodeINT4(y)) = y
<1> DEFINE x == PaddedTo(page, INT4Group)
           y == DecodeINT4(unit, EncodeINT4(page))
           z == DecodeINT4(1, EncodeINT4(y))
           n == INT4Group
<1>1. /\ IsPage(unit, x) /\ Len(x) % n = 0
      /\ IsList(y) /\ Len(y) = Len(x)
      /\ \A i \in 1 .. Len(x) : /\ y[i] = Requantized(unit, x[i], TopINT4(x, i))
                                /\ Abs(x[i]) <= TopINT4(x, i) /\ TopINT4(x, i) \in Nat
                                /\ IsBfloat(unit * TopINT4(x, i))
  BY INT4Page
<1> HIDE DEF x, y
<1>2. IsList(x) /\ \A i \in 1 .. Len(x) : x[i] \in Int
  BY <1>1 DEF IsPage
<1>3. ASSUME NEW i \in 1 .. Len(x)
      PROVE  /\ y[i] \in Int
             /\ Abs(y[i]) <= unit * TopINT4(x, i)
             /\ Abs(x[i]) = TopINT4(x, i) => y[i] = unit * x[i]
             /\ Requantized(1, y[i], unit * TopINT4(x, i)) = y[i]
  <2> DEFINE v == x[i]
             t == TopINT4(x, i)
  <2>1. v \in Int /\ t \in Nat /\ Abs(v) <= t /\ IsBfloat(unit * t) /\ y[i] = Requantized(unit, v, t)
    BY <1>1, <1>2
  <2> HIDE DEF v, t
  <2>2. /\ Requantized(unit, v, t) \in Int
        /\ Abs(v) = t => Requantized(unit, v, t) = unit * v
    BY <2>1, RequantizedClose
  <2>3. /\ Abs(Requantized(unit, v, t)) <= unit * t
        /\ Requantized(1, Requantized(unit, v, t), unit * t) = Requantized(unit, v, t)
    BY <2>1, RequantizedAgain
  <2>4. QED BY <2>1, <2>2, <2>3, Zenon DEF v, t
<1>4. PaddedTo(y, n) = y
  <2>1. n \in Nat \ {0}
    BY DEF CodecsAssumption
  <2>2. QED BY <1>1, <2>1, NotPadded
<1>5. /\ IsList(z) /\ Len(z) = Len(y)
      /\ \A i \in 1 .. Len(y) : z[i] = Requantized(1, y[i], TopINT4(y, i))
  <2>1. /\ IsList(z) /\ Len(z) = Len(PaddedTo(y, n))
        /\ \A i \in 1 .. Len(PaddedTo(y, n)) :
                z[i] = Requantized(1, PaddedTo(y, n)[i], TopINT4(PaddedTo(y, n), i))
    BY <1>1, INT4RoundTrip
  <2> HIDE DEF z
  <2>2. QED BY <1>4, <2>1
<1>6. ASSUME NEW i \in 1 .. Len(y) PROVE TopINT4(y, i) = unit * TopINT4(x, i)
  <2> DEFINE M == Members(GroupOf(i, n), n)
             s == TopINT4(x, i)
             t == TopINT4(y, i)
  <2>1. /\ M \subseteq 1 .. Len(x) /\ s \in Nat
        /\ \A j \in M : Abs(x[j]) <= s /\ GroupOf(j, n) = GroupOf(i, n)
        /\ s = 0 \/ \E j \in M : Abs(x[j]) = s
    BY <1>1, <1>2, INT4Tops
  <2>2. /\ t \in Nat /\ \A j \in M : Abs(y[j]) <= t
        /\ t = 0 \/ \E j \in M : Abs(y[j]) = t
        /\ i \in M
    BY <1>1, <1>3, INT4Tops
  <2>3. \A j \in M : TopINT4(x, j) = s
    BY <2>1 DEF TopINT4
  <2>4. \A j \in M : /\ y[j] \in Int /\ x[j] \in Int /\ Abs(y[j]) \in Nat /\ Abs(y[j]) <= unit * s
                     /\ Abs(x[j]) = s => y[j] = unit * x[j]
    <3> HIDE DEF M, s
    <3>1. QED BY <1>2, <1>3, <2>1, <2>3, AbsType, ZenonT(40)
  <2> HIDE DEF M, s, t
  <2>5. unit * s \in Nat
    BY <2>1
  <2>6. t <= unit * s
    <3>1. CASE t = 0
      BY <2>5, <3>1
    <3>2. CASE \E j \in M : Abs(y[j]) = t
      BY <2>4, <3>2
    <3>3. QED BY <2>2, <3>1, <3>2
  <2>7. unit * s <= t
    <3>1. CASE s = 0
      BY <2>2, <3>1
    <3>2. CASE \E j \in M : Abs(x[j]) = s
      <4>1. PICK j \in M : Abs(x[j]) = s
        BY <3>2
      <4>2. y[j] = unit * x[j] /\ x[j] \in Int /\ Abs(y[j]) <= t
        BY <2>2, <2>4, <4>1
      <4>3. CASE x[j] < 0
        <5>1. x[j] = -s
          BY <4>1, <4>2, <4>3 DEF Abs
        <5>2. y[j] = -(unit * s)
          BY <2>1, <4>2, <5>1
        <5>3. QED BY <2>2, <2>5, <4>2, <5>2 DEF Abs
      <4>4. CASE ~(x[j] < 0)
        <5>1. x[j] = s
          BY <4>1, <4>2, <4>4 DEF Abs
        <5>2. y[j] = unit * s
          BY <4>2, <5>1
        <5>3. QED BY <2>2, <2>5, <4>2, <5>2 DEF Abs
      <4>5. QED BY <4>3, <4>4
    <3>3. QED BY <2>1, <3>1, <3>2
  <2>8. t = unit * s
    BY <2>2, <2>5, <2>6, <2>7
  <2>9. QED BY <2>8 DEF s, t
<1>7. \A i \in 1 .. Len(y) : z[i] = y[i]
  <2> HIDE DEF z
  <2>1. QED BY <1>1, <1>3, <1>5, <1>6
<1> HIDE DEF z
<1>8. z = y
  BY <1>1, <1>5, <1>7, ListsEqual
<1>9. QED BY <1>8 DEF z, y
-----------------------------------------------------------------------------
(* The dithered codecs: the state of a value.                              *)
Shades == {4, 16, 256}

(* Half a step of noise moves a value by less than a step.                 *)
LEMMA StateIsNear ==
    ASSUME NEW v \in Int, NEW top \in Nat, Abs(v) <= top, NEW n \in Shades, NEW down \in BOOLEAN
    PROVE  /\ StateOf(v, top, n, down) \in Int
           /\ Distance((2 * StateOf(v, top, n, down) - (n - 1)) * top, (n - 1) * v) <= 2 * top
<1> DEFINE s == StateOf(v, top, n, down)
           upper == IF top = 0 THEN n \div 2 ELSE Ceil((n - 1) * (v + top), 2 * top)
<1>1. s = upper \/ (s = upper - 1)
  BY DEF StateOf
<1>2. n \in Int /\ v \in -top .. top
  BY DEF Shades, Abs
<1>3. CASE top = 0
  <2>1. v = 0 /\ upper \in Int
    BY <1>2, <1>3 DEF Shades
  <2> HIDE DEF upper, s
  <2>2. s \in Int
    BY <1>1, <2>1
  <2>3. (2 * s - (n - 1)) * top = 0 /\ (n - 1) * v = 0
    BY <1>2, <1>3, <2>1, <2>2
  <2>4. QED BY <1>3, <2>2, <2>3 DEF s, Distance
<1>4. CASE top # 0
  <2> DEFINE a == (n - 1) * (v + top)
  <2>1. a \in Int /\ 2 * top \in Nat \ {0}
    BY <1>2, <1>4 DEF Shades
  <2>2. upper = Ceil(a, 2 * top)
    BY <1>4
  <2>3. upper \in Int /\ (2 * top) * upper - a \in 0 .. 2 * top - 1
    <3> HIDE DEF a, upper
    <3>1. QED BY <2>1, <2>2, CeilIsNext
  <2>4. a = (n - 1) * v + (n - 1) * top
    BY <1>2
  <2> HIDE DEF upper, s, a
  <2> DEFINE m == n - 1
             w == (2 * s - m) * top
  <2>5. s \in Int
    BY <1>1, <2>3
  <2>6. w = (2 * top) * s - m * top /\ m \in Int /\ m * top \in Int /\ m * v \in Int /\ (2 * top) * s \in Int
    BY <1>2, <2>5
  <2>7. (2 * top) * s = (2 * top) * upper \/ (2 * top) * s = (2 * top) * upper - 2 * top
    <3>1. (2 * top) * (upper - 1) = (2 * top) * upper - 2 * top
      BY <2>3
    <3>2. QED BY <1>1, <3>1
  <2>8. (2 * top) * upper \in Int
    BY <2>3
  <2>9. w - m * v \in -(2 * top) .. 2 * top
    <3> DEFINE p == (2 * top) * upper
               q == (2 * top) * s
               b == m * v
               c == m * top
    <3>1. /\ p \in Int /\ q \in Int /\ b \in Int /\ c \in Int /\ w = q - c /\ a = b + c
          /\ q = p \/ q = p - 2 * top
          /\ p - a \in 0 .. 2 * top - 1
      BY <2>3, <2>4, <2>6, <2>7, <2>8
    <3> HIDE DEF p, q, b, c, w
    <3>2. w - b \in -(2 * top) .. 2 * top
      BY <3>1
    <3>3. QED BY <3>2 DEF b
  <2>10. w \in Int /\ m * v \in Int
    BY <2>6
  <2> HIDE DEF w, m
  <2>11. Distance(w, m * v) <= 2 * top
    BY <2>9, <2>10 DEF Distance
  <2>12. QED BY <2>5, <2>11 DEF s, w, m
<1>5. QED BY <1>3, <1>4

-----------------------------------------------------------------------------
(* A page of whole tokens, and its groups.                                 *)
Whole(x, dim) ==
    /\ IsList(x) /\ \A i \in 1 .. Len(x) : x[i] \in Int
    /\ dim \in Nat \ {0} /\ dim % GroupSize = 0 /\ Len(x) = dim * Tokens(x, dim)
    /\ Tokens(x, dim) \in Nat

LEMMA WholeTokensAre ==
    ASSUME CodecsAssumption, NEW page \in Seq(Int), NEW dim \in HiddenDims
    PROVE  Whole(WholeTokens(page, dim), dim)
<1>1. /\ dim \in Nat \ {0} /\ dim % GroupSize = 0
      /\ IsList(page) /\ Len(page) \in Nat /\ page \in [1 .. Len(page) -> Int]
  BY ListOfSeq DEF CodecsAssumption, IsList
<1> DEFINE t == Tokens(page, dim)
           x == WholeTokens(page, dim)
<1>2. t \in Nat /\ dim * t <= Len(page)
  <2>1. t \in Int /\ Len(page) % dim \in 0 .. dim - 1 /\ Len(page) = dim * t + (Len(page) % dim)
    <3>1. Len(page) \in Int /\ t = Len(page) \div dim
      BY <1>1 DEF Tokens
    <3> HIDE DEF t
    <3>2. /\ Len(page) \div dim \in Int /\ Len(page) % dim \in 0 .. dim - 1
          /\ Len(page) = dim * (Len(page) \div dim) + (Len(page) % dim)
      BY <1>1, <3>1, Division
    <3>3. QED BY <3>1, <3>2
  <2> HIDE DEF t
  <2>2. t >= 0
    <3>1. ASSUME NEW k \in Int, NEW n \in Nat, NEW d \in Nat \ {0}, NEW e \in 0 .. d - 1,
                 n = d * k + e
          PROVE  k >= 0
      <4>1. k < 0 => d * k <= -d
        BY SMTT(30)
      <4>2. d * k \in Int
        BY <3>1
      <4>3. QED BY <3>1, <4>1, <4>2
    <3>2. QED BY <1>1, <2>1, <3>1
  <2> DEFINE r == Len(page) % dim
  <2>3. r \in Nat /\ dim * t \in Int /\ Len(page) = dim * t + r
    BY <1>1, <2>1
  <2> HIDE DEF r
  <2>4. QED BY <1>1, <2>1, <2>2, <2>3
<1> HIDE DEF t
<1>3. t * dim \in Nat /\ t * dim = dim * t
  BY <1>1, <1>2
<1>4. /\ IsList(x) /\ Len(x) = dim * t
      /\ \A i \in 1 .. Len(x) : x[i] \in Int
  <2>1. x = SubSeq(page, 1, t * dim)
    BY DEF WholeTokens, t
  <2> DEFINE n == t * dim
  <2> HIDE DEF x, n
  <2>2. n \in Nat /\ n = dim * t /\ 1 \in Nat /\ 1 >= 1 /\ n <= Len(page) /\ 1 <= n + 1
    BY <1>2, <1>3 DEF n
  <2>3. /\ IsList(SubSeq(page, 1, n)) /\ Len(SubSeq(page, 1, n)) = n - 1 + 1
        /\ \A i \in 1 .. n - 1 + 1 : SubSeq(page, 1, n)[i] = page[1 + i - 1]
    BY <1>1, <2>2, SubSeqIs
  <2>4. n - 1 + 1 = n /\ \A i \in 1 .. n : 1 + i - 1 = i /\ i \in 1 .. Len(page)
    BY <1>1, <2>2
  <2>5. QED BY <1>1, <2>1, <2>2, <2>3, <2>4 DEF n
<1>5. Tokens(x, dim) = t
  <2> HIDE DEF x
  <2>1. (dim * t) \div dim = t
    BY <1>1, <1>2
  <2>2. QED BY <1>4, <2>1 DEF Tokens
<1>6. QED BY <1>1, <1>2, <1>4, <1>5 DEF Whole

LEMMA GroupsOfTokens ==
    ASSUME CodecsAssumption, NEW x, NEW dim, Whole(x, dim)
    PROVE  /\ Tokens(x, dim) * (dim \div GroupSize) = Len(x) \div GroupSize
           /\ Len(x) \div GroupSize \in Nat /\ Len(x) = GroupSize * (Len(x) \div GroupSize)
           /\ Tokens(x, dim) = 0 <=> x = <<>>
<1>1. /\ IsList(x) /\ Len(x) \in Nat /\ dim \in Nat \ {0} /\ dim % GroupSize = 0
      /\ Tokens(x, dim) \in Nat /\ Len(x) = dim * Tokens(x, dim) /\ GroupSize \in Nat \ {0}
  BY DEF Whole, CodecsAssumption, IsList
<1> DEFINE t == Tokens(x, dim)
           h == dim \div GroupSize
<1>2. h \in Nat /\ dim = GroupSize * h
  <2>1. h \in Int /\ dim = GroupSize * h + (dim % GroupSize)
    BY <1>1, Division
  <2>2. h >= 0
    BY <1>1
  <2> HIDE DEF h
  <2>3. GroupSize * h \in Int
    BY <1>1, <2>1
  <2>4. QED BY <1>1, <2>1, <2>2, <2>3
<1> HIDE DEF h, t
<1>3. Len(x) = GroupSize * (t * h) /\ t * h \in Nat
  <2>1. t \in Nat /\ Len(x) = dim * t
    BY <1>1 DEF t
  <2>2. QED BY <1>1, <1>2, <2>1
<1>4. Len(x) \div GroupSize = t * h
  <2> DEFINE d == t * h
  <2> HIDE DEF d
  <2>1. (GroupSize * d) \div GroupSize = d
    BY <1>1, <1>3 DEF d
  <2>2. QED BY <1>3, <2>1 DEF d
<1>5. t = 0 <=> x = <<>>
  <2>1. t = 0 <=> Len(x) = 0
    BY <1>1 DEF t
  <2>2. QED BY <1>1, <2>1, NoElements
<1>6. QED BY <1>3, <1>4, <1>5 DEF t, h

TopDithered(y, i) == GroupAbsMax(y, GroupOf(i, GroupSize), GroupSize)

LEMMA InliersAre ==
    ASSUME CodecsAssumption, NEW x, NEW dim, Whole(x, dim)
    PROVE  /\ IsList(Inliers(x)) /\ Len(Inliers(x)) = Len(x)
           /\ \A i \in 1 .. Len(x) :
                /\ Inliers(x)[i] \in Int
                /\ ~IsOutlier(x, i) => Inliers(x)[i] = GroupSize * x[i]
                /\ GroupOf(i, GroupSize) \in 1 .. Len(x) \div GroupSize
<1> DEFINE n == GroupSize
           d == Len(x) \div n
           y == Inliers(x)
<1>1. n \in Nat \ {0} /\ n \in Int /\ Len(x) \in Nat /\ d \in Nat /\ Len(x) = n * d
      /\ DOMAIN x = 1 .. Len(x) /\ \A i \in 1 .. Len(x) : x[i] \in Int
  <2>1. n \in Nat \ {0} /\ n \in Int
    BY DEF CodecsAssumption
  <2>2. d \in Nat /\ Len(x) = n * d
    BY GroupsOfTokens
  <2>3. IsList(x) /\ \A i \in 1 .. Len(x) : x[i] \in Int
    BY DEF Whole
  <2> HIDE DEF n, d
  <2>4. QED BY <2>1, <2>2, <2>3 DEF IsList
<1>2. y = [i \in 1 .. Len(x) |-> IF IsOutlier(x, i) THEN GroupSum(x, i) ELSE n * x[i]]
  BY <1>1 DEF Inliers
<1> HIDE DEF n, d, y
<1>3. \A i \in 1 .. Len(x) : GroupOf(i, n) \in 1 .. d
  BY <1>1, GroupsFit
<1>4. ASSUME NEW i \in 1 .. Len(x) PROVE GroupSum(x, i) \in Int
  <2>1. Members(GroupOf(i, n), n) \subseteq 1 .. n * d
    BY <1>1, <1>3, MembersFit
  <2>2. \A j \in Members(GroupOf(i, n), n) : x[j] \in Int
    BY <1>1, <2>1
  <2>3. i \in Int
    BY <1>1
  <2>4. QED BY <2>2, <2>3, GroupSumType DEF n
<1>5. ASSUME NEW i \in 1 .. Len(x) PROVE y[i] \in Int /\ (~IsOutlier(x, i) => y[i] = n * x[i])
  <2>1. x[i] \in Int /\ n * x[i] \in Int
    BY <1>1
  <2>2. y[i] = IF IsOutlier(x, i) THEN GroupSum(x, i) ELSE n * x[i]
    BY <1>2
  <2>3. QED BY <1>4, <2>1, <2>2
<1>6. y = [i \in 1 .. Len(x) |-> y[i]]
  BY <1>2
<1>7. IsList(y) /\ Len(y) = Len(x)
  BY <1>1, <1>6, ListMade
<1>8. QED BY <1>3, <1>5, <1>7 DEF n, d, y

LEMMA DitheredTops ==
    ASSUME CodecsAssumption, NEW x, NEW dim, Whole(x, dim), NEW i \in 1 .. Len(x)
    PROVE  TopDithered(Inliers(x), i) \in Nat /\ Abs(Inliers(x)[i]) <= TopDithered(Inliers(x), i)
<1> DEFINE n == GroupSize
           d == Len(x) \div n
           y == Inliers(x)
           g == GroupOf(i, n)
<1>1. n \in Nat \ {0} /\ n \in Int /\ d \in Nat /\ Len(x) = n * d
  BY GroupsOfTokens DEF CodecsAssumption
<1>2. \A j \in 1 .. Len(x) : y[j] \in Int
  BY InliersAre
<1> HIDE DEF n, d, y
<1>3. g \in 1 .. d /\ i \in Members(g, n)
  BY <1>1, GroupsFit
<1> HIDE DEF g
<1>4. g \in Int /\ Members(g, n) \subseteq 1 .. n * d
  <2>1. g \in Int
    BY <1>3
  <2>2. QED BY <1>1, <1>3, <2>1, MembersFit
<1>5. \A j \in Members(g, n) : y[j] \in Int
  BY <1>1, <1>2, <1>4
<1>6. GroupAbsMax(y, g, n) \in Nat /\ \A j \in Members(g, n) : Abs(y[j]) <= GroupAbsMax(y, g, n)
  BY <1>1, <1>4, <1>5, GroupMax
<1>7. QED BY <1>3, <1>6 DEF TopDithered, n, y, g

LEMMA OutliersAre ==
    ASSUME NEW x, IsList(x)
    PROVE  /\ IsList(Ascending(Outliers(x))) /\ Len(Ascending(Outliers(x))) \in Nat
           /\ \A k \in 1 .. Len(Ascending(Outliers(x))) :
                    Ascending(Outliers(x))[k] \in 1 .. Len(x) /\ IsOutlier(x, Ascending(Outliers(x))[k])
           /\ \A i \in 1 .. Len(x) : IsOutlier(x, i) =>
                    \E k \in 1 .. Len(Ascending(Outliers(x))) : Ascending(Outliers(x))[k] = i
           /\ \A k, l \in 1 .. Len(Ascending(Outliers(x))) :
                    Ascending(Outliers(x))[k] = Ascending(Outliers(x))[l] => k = l
<1> DEFINE S == Outliers(x)
           A == Ascending(S)
<1>1. Len(x) \in Nat /\ S = {i \in 1 .. Len(x) : IsOutlier(x, i)}
  BY DEF IsList, Outliers
<1>2. IsFiniteSet(1 .. Len(x)) /\ 1 .. Len(x) \subseteq Int
  BY <1>1, FS_Interval
<1>3. IsFiniteSet(S) /\ S \subseteq Int /\ S \subseteq 1 .. Len(x)
  <2>1. S \subseteq 1 .. Len(x)
    BY <1>1
  <2> HIDE DEF S
  <2>2. QED BY <1>2, <2>1, FS_Subset
<1>4. \A i \in 1 .. Len(x) : i \in S <=> IsOutlier(x, i)
  BY <1>1
<1> HIDE DEF S
<1>5. /\ IsList(A) /\ Len(A) = Cardinality(S)
      /\ \A k \in 1 .. Cardinality(S) : A[k] \in S
      /\ \A i \in S : \E k \in 1 .. Cardinality(S) : A[k] = i
      /\ \A k, l \in 1 .. Cardinality(S) : A[k] = A[l] => k = l
  BY <1>3, AscendingEnumerates
<1> HIDE DEF A
<1>6. Len(A) \in Nat
  BY <1>5 DEF IsList
<1>7. /\ \A k \in 1 .. Len(A) : A[k] \in 1 .. Len(x) /\ IsOutlier(x, A[k])
      /\ \A i \in 1 .. Len(x) : IsOutlier(x, i) => \E k \in 1 .. Len(A) : A[k] = i
      /\ \A k, l \in 1 .. Len(A) : A[k] = A[l] => k = l
  BY <1>3, <1>4, <1>5
<1>8. QED BY <1>5, <1>6, <1>7 DEF A, S

(* What decode() makes of what encode() has made, part by part of the       *)
(* stream.                                                                 *)
LEMMA EmptyPage ==
    ASSUME NEW bits, NEW dim, NEW down
    PROVE  DecodeDithered(bits, dim, EncodeDithered(bits, dim, <<>>, down)) = <<>>
<1> DEFINE s == Word(0, 4) \o Word(0, 4)
<1>1. IsList(Word(0, 4)) /\ IsList(s) /\ At(s, 0, Word(0, 4))
  BY WordIsList, Joined DEF Sizes
<1>2. EncodeDithered(bits, dim, <<>>, down) = s
  BY DEF EncodeDithered
<1> HIDE DEF s
<1>3. WordAt(s, 0, 4) = 0
  BY <1>1, WordFound DEF Sizes
<1>4. QED BY <1>2, <1>3 DEF DecodeDithered

(* What a state stands for.                                                *)
Shown(bits, state, top) == Bfloat((2 * state - (States(bits) - 1)) * DeltaOf(bits, top), 2)

LEMMA DitheredRoundTrip ==
    ASSUME CodecsAssumption, NEW bits \in {2, 4, 8}, NEW x, NEW dim, Whole(x, dim), NEW down
    PROVE  LET z == DecodeDithered(bits, dim, EncodeDithered(bits, dim, x, down))
               y == Inliers(x)
           IN  /\ IsList(z) /\ Len(z) = Len(x)
               /\ \A i \in 1 .. Len(x) :
                    z[i] = IF IsOutlier(x, i) THEN Fine * x[i]
                           ELSE Shown(bits, StateOf(y[i], TopDithered(y, i), States(bits), i \in down),
                                      TopDithered(y, i))
<1> DEFINE e == EncodeDithered(bits, dim, x, down)
           z == DecodeDithered(bits, dim, e)
           y == Inliers(x)
           tokens == Tokens(x, dim)
           groups == Len(x) \div GroupSize
           outliers == Ascending(Outliers(x))
           n == Len(outliers)
           m == 8 \div bits
           maxima == [g \in 1 .. groups |-> DeltaOf(bits, GroupAbsMax(y, g, GroupSize))]
           indices == [k \in DOMAIN outliers |-> outliers[k] - 1]
           values == [k \in DOMAIN outliers |-> x[outliers[k]]]
           shades == [i \in DOMAIN x |-> StateOf(y[i], TopDithered(y, i), States(bits), i \in down)]
           A == Word(tokens, 4)
           B == Word(n, 4)
           C == Words(maxima, 2)
           D == Words(indices, 4)
           E == Words(values, 2)
           F == Packed(shades, m)
<1>1. /\ IsList(x) /\ DOMAIN x = 1 .. Len(x) /\ Len(x) \in Nat
      /\ \A i \in 1 .. Len(x) : x[i] \in Int
  BY DEF Whole, IsList
<1>2. /\ groups \in Nat /\ tokens * (dim \div GroupSize) = groups /\ (tokens = 0 <=> x = <<>>)
      /\ groups * GroupSize = Len(x)
  <2>1. /\ groups \in Nat /\ tokens * (dim \div GroupSize) = groups /\ (tokens = 0 <=> x = <<>>)
        /\ Len(x) = GroupSize * groups
    BY GroupsOfTokens
  <2>2. GroupSize \in Int
    BY DEF CodecsAssumption
  <2> HIDE DEF groups, tokens
  <2>3. QED BY <2>1, <2>2
<1>3. CASE x = <<>>
  <2>1. z = <<>>
    BY <1>3, EmptyPage
  <2>2. Len(x) = 0 /\ 1 .. Len(x) = {}
    BY <1>3, EmptyList
  <2>3. QED BY <2>1, <2>2, EmptyList
<1>4. CASE x # <<>>
  <2>1. e = A \o B \o C \o D \o E \o F
    BY <1>4, Zenon DEF EncodeDithered, TopDithered
  <2>2. m \in Fields
    BY DEF Fields
  <2>3. /\ IsList(outliers) /\ n \in Nat
        /\ \A k \in 1 .. n : outliers[k] \in 1 .. Len(x) /\ IsOutlier(x, outliers[k])
        /\ \A i \in 1 .. Len(x) : IsOutlier(x, i) => \E k \in 1 .. n : outliers[k] = i
        /\ \A k, l \in 1 .. n : outliers[k] = outliers[l] => k = l
    BY <1>1, OutliersAre
  <2> HIDE DEF e, z, y, tokens, groups, outliers, n, m
  <2>4. IsList(maxima) /\ Len(maxima) = groups
        /\ \A g \in 1 .. groups : maxima[g] = DeltaOf(bits, GroupAbsMax(y, g, GroupSize))
    <3>1. maxima = [g \in 1 .. groups |-> maxima[g]]
      OBVIOUS
    <3>2. \A g \in 1 .. groups : maxima[g] = DeltaOf(bits, GroupAbsMax(y, g, GroupSize))
      OBVIOUS
    <3> HIDE DEF maxima
    <3>3. QED BY <1>2, <3>1, <3>2, ListMade
  <2>5. DOMAIN outliers = 1 .. n
    BY <2>3 DEF IsList, n
  <2>6. IsList(indices) /\ Len(indices) = n /\ \A k \in 1 .. n : indices[k] = outliers[k] - 1
    <3>1. indices = [k \in 1 .. n |-> indices[k]]
      BY <2>5
    <3>2. \A k \in 1 .. n : indices[k] = outliers[k] - 1
      BY <2>5
    <3> HIDE DEF indices
    <3>3. QED BY <2>3, <3>1, <3>2, ListMade
  <2>7. IsList(values) /\ Len(values) = n /\ \A k \in 1 .. n : values[k] = x[outliers[k]]
    <3>1. values = [k \in 1 .. n |-> values[k]]
      BY <2>5
    <3>2. \A k \in 1 .. n : values[k] = x[outliers[k]]
      BY <2>5
    <3> HIDE DEF values
    <3>3. QED BY <2>3, <3>1, <3>2, ListMade
  <2>8. IsList(shades) /\ Len(shades) = Len(x)
        /\ \A i \in 1 .. Len(x) : shades[i] = StateOf(y[i], TopDithered(y, i), States(bits), i \in down)
    <3>1. shades = [i \in 1 .. Len(x) |-> shades[i]]
      BY <1>1
    <3>2. \A i \in 1 .. Len(x) : shades[i] = StateOf(y[i], TopDithered(y, i), States(bits), i \in down)
      BY <1>1
    <3> HIDE DEF shades
    <3>3. QED BY <1>1, <3>1, <3>2, ListMade
  <2> HIDE DEF maxima, indices, values, shades
  <2>9. /\ IsList(A) /\ Len(A) = 4 /\ IsList(B) /\ Len(B) = 4
        /\ IsList(C) /\ Len(C) = 2 * groups /\ IsList(D) /\ Len(D) = 4 * n
        /\ IsList(E) /\ Len(E) = 2 * n /\ IsList(F) /\ Len(F) \in Nat
    <3>1. /\ IsList(A) /\ Len(A) = 4 /\ IsList(B) /\ Len(B) = 4
          /\ IsList(C) /\ Len(C) = 2 * groups /\ IsList(D) /\ Len(D) = 4 * n
          /\ IsList(E) /\ Len(E) = 2 * n
      BY <2>4, <2>6, <2>7, WordIsList, WordsAreList DEF Sizes
    <3>2. IsList(F)
      BY <2>2, <2>8, PackedIsList
    <3>3. QED BY <3>1, <3>2 DEF IsList
  <2> HIDE DEF A, B, C, D, E, F
  <2> DEFINE indicesAt == 8 + 2 * groups
             valuesAt == indicesAt + 4 * n
             shadesAt == valuesAt + 2 * n
  <2>10. /\ IsList(e) /\ Len(e) = shadesAt + Len(F)
         /\ At(e, 0, A) /\ At(e, 4, B) /\ At(e, 8, C)
         /\ At(e, indicesAt, D) /\ At(e, valuesAt, E) /\ At(e, shadesAt, F)
         /\ indicesAt \in Nat /\ valuesAt \in Nat /\ shadesAt \in Nat
    <3>1. indicesAt \in Nat /\ valuesAt \in Nat /\ shadesAt \in Nat
      BY <1>2, <2>3
    <3>2. 4 + Len(B) = 8 /\ 8 + Len(C) = indicesAt
      BY <1>2, <2>9
    <3>3. indicesAt + Len(D) = valuesAt /\ valuesAt + Len(E) = shadesAt
      BY <1>2, <2>3, <2>9
    <3> HIDE DEF indicesAt, valuesAt, shadesAt
    <3>4. SixParts(e, A, B, C, D, E, F, 4, 8, indicesAt, valuesAt, shadesAt)
      BY <2>1, <2>9, <3>2, <3>3, Zenon DEF SixParts
    <3>5. /\ IsList(e) /\ Len(e) = shadesAt + Len(F)
          /\ At(e, 0, A) /\ At(e, 4, B) /\ At(e, 8, C)
          /\ At(e, indicesAt, D) /\ At(e, valuesAt, E) /\ At(e, shadesAt, F)
      BY <2>9, <3>4, JoinedSix, SMTT(20)
    <3>6. QED BY <3>1, <3>5
  <2> HIDE DEF indicesAt, valuesAt, shadesAt
  <2>11. WordAt(e, 0, 4) = tokens /\ WordAt(e, 4, 4) = n
    BY <2>10, WordFound DEF A, B, Sizes
  <2> DEFINE u == Unpacked(e, shadesAt, m)
             isolated(i) == {k \in 0 .. n - 1 : WordAt(e, indicesAt + 4 * k, 4) = i - 1}
             out_(i) == IF isolated(i) # {}
                        THEN Fine * WordAt(e, valuesAt + 2 * Max(isolated(i)), 2)
                        ELSE Bfloat((2 * u[i] - (States(bits) - 1))
                                        * WordAt(e, 8 + 2 * (GroupOf(i, GroupSize) - 1), 2), 2)
  <2>12. z = [i \in 1 .. Len(x) |-> out_(i)]
    <3>1. tokens # 0
      BY <1>2, <1>4
    <3>2. z = [i \in 1 .. groups * GroupSize |-> out_(i)]
      BY <1>2, <2>11, <3>1, Zenon DEF z, DecodeDithered, shadesAt, valuesAt, indicesAt, m
    <3> HIDE DEF out_
    <3>3. QED BY <1>2, <3>2
  <2>13. \A k \in 0 .. n - 1 :
            /\ WordAt(e, indicesAt + 4 * k, 4) = outliers[k + 1] - 1
            /\ WordAt(e, valuesAt + 2 * k, 2) = x[outliers[k + 1]]
    <3> TAKE k \in 0 .. n - 1
    <3>1. k + 1 \in 1 .. n /\ (k + 1) - 1 = k
      BY <2>3
    <3> DEFINE l == k + 1
    <3> HIDE DEF l
    <3>2. WordAt(e, indicesAt + 4 * (l - 1), 4) = indices[l]
      <4>1. l \in 1 .. Len(indices)
        BY <2>6, <3>1 DEF l
      <4>2. QED BY <2>6, <2>10, <4>1, WordsFound DEF D, Sizes
    <3>3. WordAt(e, valuesAt + 2 * (l - 1), 2) = values[l]
      <4>1. l \in 1 .. Len(values)
        BY <2>7, <3>1 DEF l
      <4>2. QED BY <2>7, <2>10, <4>1, WordsFound DEF E, Sizes
    <3>4. QED BY <2>6, <2>7, <3>1, <3>2, <3>3 DEF l
  <2>14. ASSUME NEW i \in 1 .. Len(x), IsOutlier(x, i)
         PROVE  out_(i) = Fine * x[i]
    <3>1. PICK k \in 1 .. n : outliers[k] = i
      BY <2>3, <2>14
    <3>2. k - 1 \in 0 .. n - 1 /\ (k - 1) + 1 = k /\ n \in Int
      BY <2>3
    <3>3. isolated(i) = {k - 1}
      <4>1. k - 1 \in isolated(i)
        BY <2>13, <3>1, <3>2
      <4>2. ASSUME NEW l \in isolated(i) PROVE l = k - 1
        <5>1. l \in 0 .. n - 1 /\ WordAt(e, indicesAt + 4 * l, 4) = i - 1
          OBVIOUS
        <5>2. outliers[l + 1] - 1 = i - 1 /\ l + 1 \in 1 .. n
          BY <2>13, <3>2, <5>1
        <5>3. outliers[l + 1] \in 1 .. Len(x)
          BY <2>3, <5>2
        <5>4. outliers[l + 1] = i
          BY <1>1, <5>2, <5>3
        <5>5. l + 1 = k
          BY <2>3, <3>1, <5>2, <5>4
        <5>6. QED BY <3>2, <5>1, <5>5
      <4> HIDE DEF isolated
      <4>3. QED BY <4>1, <4>2
    <3>4. Max({k - 1}) = k - 1
      <4>1. {k - 1} \subseteq Int /\ {k - 1} # {}
        BY <3>2
      <4>2. Max({k - 1}) \in {k - 1}
        BY <4>1, FS_Singleton, Largest
      <4>3. QED BY <4>2
    <3>5. WordAt(e, valuesAt + 2 * (k - 1), 2) = x[i]
      BY <2>13, <3>1, <3>2
    <3>6. isolated(i) # {} /\ Max(isolated(i)) = k - 1
      BY <3>3, <3>4
    <3> HIDE DEF isolated
    <3>7. QED BY <3>5, <3>6
  <2>15. ASSUME NEW i \in 1 .. Len(x), ~IsOutlier(x, i)
         PROVE  out_(i) = Shown(bits, StateOf(y[i], TopDithered(y, i), States(bits), i \in down),
                                TopDithered(y, i))
    <3>1. isolated(i) = {}
      <4>1. SUFFICES ASSUME NEW l \in isolated(i) PROVE FALSE
        OBVIOUS
      <4>2. l \in 0 .. n - 1 /\ WordAt(e, indicesAt + 4 * l, 4) = i - 1
        OBVIOUS
      <4>3. outliers[l + 1] - 1 = i - 1 /\ l + 1 \in 1 .. n
        BY <2>3, <2>13, <4>2
      <4>4. outliers[l + 1] \in 1 .. Len(x) /\ IsOutlier(x, outliers[l + 1])
        BY <2>3, <4>3
      <4>5. outliers[l + 1] = i
        BY <1>1, <4>3, <4>4
      <4>6. QED BY <2>15, <4>4, <4>5
    <3>2. u[i] = shades[i]
      <4>1. i \in 1 .. Len(shades)
        BY <2>8
      <4>2. QED BY <2>2, <2>8, <2>10, <4>1, FieldsFound DEF F
    <3>3. WordAt(e, 8 + 2 * (GroupOf(i, GroupSize) - 1), 2) = DeltaOf(bits, TopDithered(y, i))
      <4>1. GroupOf(i, GroupSize) \in 1 .. Len(maxima)
        BY <2>4, InliersAre DEF groups
      <4>2. WordAt(e, 8 + 2 * (GroupOf(i, GroupSize) - 1), 2) = maxima[GroupOf(i, GroupSize)]
        BY <2>4, <2>10, <4>1, WordsFound DEF C, Sizes
      <4>3. QED BY <2>4, <4>1, <4>2 DEF TopDithered
    <3>4. out_(i) = Bfloat((2 * u[i] - (States(bits) - 1))
                              * WordAt(e, 8 + 2 * (GroupOf(i, GroupSize) - 1), 2), 2)
      BY <3>1
    <3> HIDE DEF out_, u
    <3>5. QED BY <2>8, <3>2, <3>3, <3>4 DEF Shown
  <2> HIDE DEF out_
  <2>16. IsList(z) /\ Len(z) = Len(x)
    <3>1. z = [i \in 1 .. Len(x) |-> z[i]]
      BY <2>12
    <3>2. QED BY <1>1, <3>1, ListMade
  <2>17. \A i \in 1 .. Len(x) :
            z[i] = IF IsOutlier(x, i) THEN Fine * x[i]
                   ELSE Shown(bits, StateOf(y[i], TopDithered(y, i), States(bits), i \in down),
                              TopDithered(y, i))
    <3>1. ASSUME NEW i \in 1 .. Len(x) PROVE z[i] = out_(i)
      BY <2>12
    <3>2. QED BY <2>14, <2>15, <3>1
  <2>18. QED BY <2>16, <2>17 DEF z, e, y
<1>5. QED BY <1>3, <1>4

LEMMA StatesAre == ASSUME NEW bits \in {2, 4, 8} PROVE States(bits) \in Shades
<1>1. CASE bits = 2
  BY <1>1 DEF States, Shades
<1>2. CASE bits = 4
  BY <1>2 DEF States, Shades
<1>3. CASE bits = 8
  BY <1>3 DEF States, Shades
<1>4. QED BY <1>1, <1>2, <1>3

LEMMA StateInRange ==
    ASSUME NEW v \in Int, NEW top \in Nat, Abs(v) <= top, NEW n \in Shades, NEW down \in BOOLEAN
    PROVE  StateOf(v, top, n, down) \in 0 .. n - 1
<1> DEFINE s == StateOf(v, top, n, down)
           upper == IF top = 0 THEN n \div 2 ELSE Ceil((n - 1) * (v + top), 2 * top)
<1>1. s = IF down /\ upper > 0 THEN upper - 1 ELSE upper
  BY DEF StateOf
<1>2. n \in Int /\ n - 1 \in Nat /\ v \in -top .. top
  BY DEF Shades, Abs
<1>3. upper \in 0 .. n - 1
  <2>1. CASE top = 0
    BY <2>1 DEF Shades
  <2>2. CASE top # 0
    <3> DEFINE m == n - 1
               a == m * (v + top)
               b == 2 * top
    <3>1. m \in Nat /\ b \in Nat \ {0} /\ v + top \in 0 .. b
      BY <1>2, <2>2
    <3>2. upper = Ceil(a, b)
      BY <2>2
    <3> HIDE DEF m, b, upper
    <3>3. a <= m * b /\ 0 <= a /\ a \in Int
      <4>1. v + top \in Nat /\ b \in Int /\ v + top <= b
        BY <3>1
      <4>2. QED BY <3>1, <4>1, Grows
    <3> HIDE DEF a
    <3>4. upper \in Int /\ b * upper - a \in 0 .. b - 1
      BY <3>1, <3>2, <3>3, CeilIsNext
    <3>5. upper >= 0
      <4>1. SUFFICES ASSUME upper <= -1 PROVE FALSE
        BY <3>4
      <4>2. b * upper <= b * (-1)
        BY <3>1, <3>4, <4>1, Grows
      <4>3. b * upper >= 0 /\ b * upper \in Int
        BY <3>1, <3>3, <3>4
      <4>4. QED BY <3>1, <4>2, <4>3
    <3>6. upper <= m
      <4>1. SUFFICES ASSUME upper >= m + 1 PROVE FALSE
        BY <3>1, <3>4
      <4>2. b * (m + 1) <= b * upper
        BY <3>1, <3>4, <4>1, Grows
      <4>3. b * (m + 1) = m * b + b
        BY <3>1
      <4>4. m * b \in Int /\ b * upper \in Int
        BY <3>1, <3>4
      <4>5. QED BY <3>1, <3>3, <3>4, <4>2, <4>3, <4>4
    <3>7. QED BY <3>4, <3>5, <3>6 DEF m
  <2>3. QED BY <2>1, <2>2
<1> HIDE DEF upper, s
<1>4. s \in 0 .. n - 1
  BY <1>1, <1>2, <1>3
<1>5. QED BY <1>4 DEF s

LEMMA Products ==
    ASSUME NEW n \in Nat, NEW w \in -n .. n, NEW b \in Nat, NEW o \in -b .. b
    PROVE  w * o \in Int /\ -(n * b) <= w * o /\ w * o <= n * b
<1>1. Abs(w) \in Nat /\ Abs(o) \in Nat /\ Abs(w) <= n /\ Abs(o) <= b /\ w \in Int /\ o \in Int
  BY DEF Abs
<1> DEFINE p == Abs(w)
           q == Abs(o)
<1>2. (w = p \/ w = -p) /\ (o = q \/ o = -q)
  BY DEF Abs
<1> HIDE DEF p, q
<1>3. p \in Nat /\ q \in Nat /\ p <= n /\ q <= b
  BY <1>1 DEF p, q
<1>4. p * q <= p * b /\ p * q \in Int /\ p * b \in Int
  BY <1>3, Grows
<1>5. b * p <= b * n
  BY <1>3, Grows
<1>6. p * q <= n * b /\ p * q >= 0
  BY <1>3, <1>4, <1>5
<1>7. w * o = p * q \/ w * o = -(p * q)
  BY <1>2, <1>3
<1>8. QED BY <1>4, <1>6, <1>7

(* The step, the result and the noise: three errors that add up.           *)
Widest == 4194304

LEMMA ShownIsNear ==
    ASSUME CodecsAssumption, NEW bits \in {2, 4, 8}, NEW x \in Int, NEW v \in Int, v = GroupSize * x,
           NEW top \in Nat, Abs(v) <= top, Fine * top <= GroupSize * Widest, NEW down \in BOOLEAN
    PROVE  LET n == States(bits) - 1
               r == Shown(bits, StateOf(v, top, States(bits), down), top)
           IN  /\ r \in Int
               /\ 254 * ((n * GroupSize) * Distance(r, Fine * x))
                    <= 2 * (n * (Fine * top)) + 508 * (Fine * top) + 127 * (n * (n * GroupSize))
<1> DEFINE n == States(bits) - 1
           s == StateOf(v, top, States(bits), down)
           w == 2 * s - n
           T == Fine * top
           A == n * GroupSize
           D == DeltaOf(bits, top)
           r == Bfloat(w * D, 2)
           f == Fine * x
<1>1. n \in {3, 15, 255} /\ States(bits) \in Shades
  BY StatesAre DEF Shades
<1>2. GroupSize \in Nat \ {0} /\ Fine \in Nat \ {0}
  BY PowersType DEF CodecsAssumption
<1>3. s \in 0 .. n /\ Distance(w * top, n * v) <= 2 * top
  BY <1>1, StateInRange, StateIsNear
<1> HIDE DEF n, s
<1>4. w \in -n .. n /\ w \in Int /\ n \in Nat /\ n >= 3 /\ n <= 255
  BY <1>1, <1>3
<1>5. T \in Nat /\ f \in Int /\ A \in Nat \ {0} /\ A >= 3 * GroupSize
  BY <1>1, <1>2
<1>6. D = Bfloat(2 * T, A)
  <2>1. 2 * Fine * top = 2 * T
    BY <1>2
  <2>2. QED BY <2>1 DEF DeltaOf, n
<1>7. Shown(bits, StateOf(v, top, States(bits), down), top) = r
  BY DEF Shown, n, s
<1> DEFINE off == A * D - 2 * T
<1>8. D \in Int /\ (2 * off \in -A .. A \/ 256 * off \in -(2 * T) .. 2 * T)
  <2>1. T <= GroupSize * Widest
    OBVIOUS
  <2> HIDE DEF T, A, D
  <2>2. 2 * T \in Int /\ Abs(2 * T) = 2 * T /\ 2 * T < (256 * A) * LastPower
    <3>1. 2 * T <= GroupSize * 8388608
      BY <1>2, <1>5, <2>1, SMT DEF Widest
    <3>2. 3 * (GroupSize * 8388608) <= (256 * A) * LastPower
      BY <1>2, <1>5, SMT DEF LastPower
    <3>3. 2 * T < 3 * (GroupSize * 8388608)
      BY <1>2, <1>5, <3>1, SMT
    <3>4. (256 * A) * LastPower \in Int
      BY <1>5, SMT DEF LastPower
    <3>5. 2 * T < (256 * A) * LastPower
      BY <1>2, <1>5, <3>2, <3>3, <3>4, SMT
    <3>6. QED BY <1>5, <3>5 DEF Abs
  <2>3. QED BY <1>5, <1>6, <2>2, BfloatNear
<1>9. off \in Int /\ 256 * off \in -(2 * T + 128 * A) .. 2 * T + 128 * A
  <2> HIDE DEF T, A, D
  <2>1. A * D \in Int
    BY <1>5, <1>8
  <2> DEFINE p == A * D
  <2> HIDE DEF p
  <2>2. QED BY <1>5, <1>8, <2>1 DEF p
<1> DEFINE X3 == w * T - A * f
<1>10. X3 \in -(2 * T) .. 2 * T
  <2> HIDE DEF w
  <2>1. w * top - n * v \in -(2 * top) .. 2 * top
    <3>1. w * top \in Int /\ n * v \in Int
      BY <1>4
    <3>2. QED BY <1>3, <3>1 DEF Distance, w
  <2> DEFINE e == w * top - n * v
  <2>2. Fine * e <= Fine * (2 * top) /\ Fine * (-(2 * top)) <= Fine * e
    <3> HIDE DEF e
    <3>1. e \in Int /\ e <= 2 * top /\ -(2 * top) <= e
      BY <2>1 DEF e
    <3>2. QED BY <1>2, <3>1, Grows
  <2>3. Fine * e = X3
    <3>1. Fine * (w * top) = w * T
      BY <1>2, <1>4
    <3>2. Fine * (n * v) = A * f
      BY <1>2, <1>4
    <3>3. Fine * e = Fine * (w * top) - Fine * (n * v)
      BY <1>2, <1>4
    <3>4. QED BY <3>1, <3>2, <3>3
  <2>4. Fine * (2 * top) = 2 * T /\ Fine * (-(2 * top)) = -(2 * T) /\ Fine * e \in Int
    BY <1>2, <2>1
  <2> HIDE DEF e, X3, T
  <2>5. QED BY <1>5, <2>2, <2>3, <2>4
<1> HIDE DEF T, A, D, f, w
<1>11. w * (256 * off) \in Int /\ -(n * (2 * T + 128 * A)) <= w * (256 * off)
       /\ w * (256 * off) <= n * (2 * T + 128 * A)
  <2> HIDE DEF off
  <2>1. QED BY <1>4, <1>5, <1>9, Products
<1>12. w * (256 * (A * D)) \in Int /\ -(n * (514 * T + 128 * A)) <= w * (256 * (A * D))
       /\ w * (256 * (A * D)) <= n * (514 * T + 128 * A)
  <2> DEFINE p == A * D
  <2>1. p \in Int /\ p = off + 2 * T
    BY <1>5, <1>8
  <2> HIDE DEF p, off
  <2>2. 256 * p \in -(514 * T + 128 * A) .. 514 * T + 128 * A /\ 514 * T + 128 * A \in Nat
    BY <1>5, <1>9, <2>1
  <2>3. /\ w * (256 * p) \in Int /\ -(n * (514 * T + 128 * A)) <= w * (256 * p)
        /\ w * (256 * p) <= n * (514 * T + 128 * A)
    <3> DEFINE b == 514 * T + 128 * A
               q == 256 * p
    <3>1. b \in Nat /\ q \in -b .. b
      BY <2>2
    <3> HIDE DEF b, q
    <3>2. w * q \in Int /\ -(n * b) <= w * q /\ w * q <= n * b
      BY <1>4, <3>1, Products
    <3>3. QED BY <3>2 DEF b, q
  <2>4. QED BY <2>3 DEF p
<1> DEFINE o == 2 * r - w * D
<1>13. r \in Int /\ w * D \in Int /\ (2 * o \in -2 .. 2 \/ 256 * o \in -Abs(w * D) .. Abs(w * D))
  <2>1. w * D \in Int
    BY <1>4, <1>8
  <2>2. Abs(w * D) < (256 * 2) * LastPower
    <3> DEFINE q == w * D
               B == 8421632
    <3>1. A * q = w * (A * D)
      BY <1>4, <1>5, <1>8
    <3>2. 256 * (A * q) = w * (256 * (A * D))
      <4>1. A * D \in Int
        BY <1>5, <1>8
      <4>2. QED BY <1>4, <3>1, <4>1
    <3>3. T <= GroupSize * Widest
      BY DEF T
    <3>4. n * (514 * T + 128 * A) <= A * (514 * Widest + 32640)
      <4>1. n * T <= n * (GroupSize * Widest) /\ n * T \in Int
        <5>1. GroupSize * Widest \in Int
          BY <1>2 DEF Widest
        <5> HIDE DEF T
        <5>2. QED BY <1>4, <1>5, <3>3, <5>1, Grows
      <4>2. n * (GroupSize * Widest) = A * Widest
        <5>1. Widest \in Int
          BY DEF Widest
        <5>2. QED BY <1>2, <1>4, <5>1 DEF A
      <4>3. A * n <= A * 255 /\ A * n \in Int
        BY <1>4, <1>5, Grows
      <4> DEFINE nT == n * T
                 nA == A * n
      <4>4. n * (514 * T + 128 * A) = 514 * nT + 128 * nA
        BY <1>4, <1>5
      <4>5. Widest \in Int /\ A * Widest \in Int
        BY <1>5, SMT DEF Widest
      <4>6. A * (514 * Widest + 32640) = 514 * (A * Widest) + 32640 * A
        BY <1>5, <4>5, SMT
      <4> DEFINE aW == A * Widest
      <4>7. nT <= aW /\ nA <= 255 * A /\ nT \in Int /\ nA \in Int /\ aW \in Int
        BY <1>5, <4>1, <4>2, <4>3, <4>5, SMT
      <4> HIDE DEF nT, nA, aW
      <4>8. 514 * nT + 128 * nA <= 514 * aW + 32640 * A
        BY <1>5, <4>7, SMT
      <4>9. QED BY <4>4, <4>6, <4>8, SMT DEF nT, nA, aW
    <3>5. q \in Int /\ A * q \in Int
      BY <1>4, <1>5, <1>8
    <3> HIDE DEF q
    <3>6. 256 * (A * q) <= A * (514 * Widest + 32640) /\ -(A * (514 * Widest + 32640)) <= 256 * (A * q)
      <4> DEFINE k == n * (514 * T + 128 * A)
                 l == A * (514 * Widest + 32640)
                 z == w * (256 * (A * D))
      <4>1. k \in Int /\ l \in Int /\ z \in Int
        BY <1>4, <1>5, <1>12, SMT DEF Widest
      <4>2. k <= l /\ -k <= z /\ z <= k
        BY <1>12, <3>4
      <4> HIDE DEF k, l, z
      <4>3. z <= l /\ -l <= z
        BY <4>1, <4>2
      <4>4. QED BY <3>2, <4>3 DEF l, z
    <3>7. q < 512 * LastPower /\ -(512 * LastPower) < q
      <4>1. 512 * LastPower \in Int /\ 514 * Widest + 32640 < 256 * (512 * LastPower)
        BY SMT DEF Widest, LastPower
      <4> DEFINE h == 512 * LastPower
                 k == 514 * Widest + 32640
      <4>2. h \in Int /\ k \in Int /\ k < 256 * h
        BY <4>1, SMT DEF Widest
      <4> HIDE DEF h, k
      <4>3. 256 * (A * q) = A * (256 * q)
        BY <1>5, <3>5
      <4>4. ASSUME h <= q PROVE FALSE
        <5>1. A * (256 * h) <= A * (256 * q) /\ A * (256 * h) \in Int /\ A * (256 * q) \in Int
          BY <1>5, <3>5, <4>2, <4>4, Grows
        <5>2. A * (k + 1) <= A * (256 * h)
          BY <1>5, <4>2, Grows
        <5>3. A * (k + 1) = A * k + A /\ A * k \in Int
          BY <1>5, <4>2
        <5>4. A * (256 * q) <= A * k
          BY <3>6, <4>3 DEF k
        <5>5. QED BY <1>5, <5>1, <5>2, <5>3, <5>4
      <4>5. ASSUME q <= -h PROVE FALSE
        <5>1. A * (256 * q) <= A * (-(256 * h)) /\ A * (-(256 * h)) \in Int /\ A * (256 * q) \in Int
          BY <1>5, <3>5, <4>2, <4>5, Grows
        <5>2. A * (-(256 * h)) <= A * (-(k + 1))
          BY <1>5, <4>2, Grows
        <5>3. A * (-(k + 1)) = -(A * k) - A /\ A * k \in Int
          BY <1>5, <4>2
        <5>4. -(A * k) <= A * (256 * q)
          BY <3>6, <4>3 DEF k
        <5>5. QED BY <1>5, <5>1, <5>2, <5>3, <5>4
      <4>6. q < h /\ -h < q
        BY <3>5, <4>2, <4>4, <4>5
      <4>7. QED BY <4>6 DEF h
    <3>8. LastPower \in Int
      BY DEF LastPower
    <3>9. Abs(q) < (256 * 2) * LastPower
      BY <3>5, <3>7, <3>8 DEF Abs
    <3>10. QED BY <3>9 DEF q
  <2>3. QED BY <2>1, <2>2, BfloatNear
<1> DEFINE X1 == A * o
           X2 == w * off
           Y == A * (r - f)
           nT == n * T
           nA == n * A
<1>14. 256 * X1 <= 256 * A + Abs(A * (w * D)) /\ -(256 * A + Abs(A * (w * D))) <= 256 * X1
       /\ X1 \in Int /\ A * (w * D) \in Int
  <2> DEFINE q == w * D
  <2> HIDE DEF q, r
  <2>1. r \in Int /\ q \in Int /\ o = 2 * r - q /\ (2 * o \in -2 .. 2 \/ 256 * o \in -Abs(q) .. Abs(q))
    BY <1>13 DEF q
  <2> HIDE DEF o
  <2>2. o \in Int /\ Abs(q) \in Nat /\ 256 * o <= 256 + Abs(q) /\ -(256 + Abs(q)) <= 256 * o
    BY <2>1 DEF Abs
  <2>3. /\ A * (256 * o) <= A * (256 + Abs(q)) /\ A * (-(256 + Abs(q))) <= A * (256 * o)
    <3> DEFINE b == Abs(q)
    <3> HIDE DEF b
    <3>1. b \in Nat /\ 256 * o <= 256 + b /\ -(256 + b) <= 256 * o
      BY <2>2 DEF b
    <3>2. QED BY <1>5, <2>2, <3>1, Grows DEF b
  <2>4. A * (256 * o) = 256 * X1 /\ A * (256 + Abs(q)) = 256 * A + A * Abs(q)
        /\ A * (-(256 + Abs(q))) = -(256 * A + A * Abs(q)) /\ X1 \in Int
    <3> DEFINE b == Abs(q)
    <3> HIDE DEF b
    <3>1. b \in Nat
      BY <2>2 DEF b
    <3>2. /\ A * (256 * o) = 256 * (A * o) /\ A * o \in Int
          /\ A * (256 + b) = 256 * A + A * b /\ A * (-(256 + b)) = -(256 * A + A * b)
      BY <1>5, <2>2, <3>1
    <3>3. QED BY <3>2 DEF b
  <2>5. A * Abs(q) = Abs(A * q) /\ A * q \in Int
    <3>1. A * q \in Int /\ (q >= 0 => A * q >= 0) /\ (q <= 0 => A * q <= 0)
      BY <1>5, <2>1
    <3>2. QED BY <1>5, <2>1, <3>1 DEF Abs
  <2>6. QED BY <2>3, <2>4, <2>5 DEF q
<1>15. 256 * Abs(A * (w * D)) <= 514 * nT + 128 * nA /\ nT \in Nat /\ nA \in Nat /\ nA >= 3 * A
  <2>1. w * (256 * (A * D)) = 256 * (A * (w * D))
    BY <1>4, <1>5, <1>8
  <2>2. n * (514 * T + 128 * A) = 514 * nT + 128 * nA /\ nT \in Nat /\ nA \in Nat
    BY <1>4, <1>5
  <2>3. nA >= 3 * A
    <3>1. A * 3 <= A * n /\ A * n = n * A
      BY <1>4, <1>5, Grows
    <3>2. QED BY <1>5, <3>1
  <2> DEFINE z == A * (w * D)
  <2> HIDE DEF z, nT, nA
  <2>4. z \in Int /\ -(514 * nT + 128 * nA) <= 256 * z /\ 256 * z <= 514 * nT + 128 * nA
    BY <1>12, <1>14, <2>1, <2>2 DEF z
  <2>5. 256 * Abs(z) <= 514 * nT + 128 * nA
    BY <2>2, <2>4 DEF Abs
  <2>6. QED BY <2>2, <2>3, <2>5 DEF z
<1>16. 256 * X2 <= 2 * nT + 128 * nA /\ -(2 * nT + 128 * nA) <= 256 * X2 /\ X2 \in Int
  <2> HIDE DEF off
  <2>1. w * (256 * off) = 256 * X2 /\ X2 \in Int
    BY <1>4, <1>9
  <2>2. n * (2 * T + 128 * A) = 2 * nT + 128 * nA
    BY <1>4, <1>5
  <2>3. QED BY <1>11, <2>1, <2>2
<1>17. 2 * Y = X1 + X2 + 2 * X3 /\ Y \in Int
  <2> HIDE DEF r
  <2>1. A * (2 * r - w * D) = 2 * (A * r) - A * (w * D)
    BY <1>5, <1>13
  <2>2. w * (A * D - 2 * T) = A * (w * D) - 2 * (w * T)
    BY <1>4, <1>5, <1>8
  <2>3. Y = A * r - A * f /\ A * r \in Int /\ A * f \in Int /\ w * T \in Int /\ A * (w * D) \in Int
    BY <1>4, <1>5, <1>13
  <2> DEFINE a == A * r
             b == A * (w * D)
             c == w * T
             d == A * f
  <2>4. X1 = 2 * a - b /\ X2 = b - 2 * c /\ X3 = c - d /\ Y = a - d
    BY <2>1, <2>2, <2>3
  <2>5. a \in Int /\ b \in Int /\ c \in Int /\ d \in Int
    BY <2>3
  <2> HIDE DEF a, b, c, d, X1, X2, X3, Y
  <2>6. QED BY <2>4, <2>5
<1>18. 254 * Abs(Y) <= 2 * nT + 508 * T + 127 * nA
  <2> DEFINE q == Abs(A * (w * D))
  <2>1. q \in Nat
    BY <1>14, AbsType
  <2> HIDE DEF q, X1, X2, X3, Y, nT, nA
  <2>2. /\ 256 * X1 <= 256 * A + q /\ -(256 * A + q) <= 256 * X1
        /\ 256 * q <= 514 * nT + 128 * nA
    BY <1>14, <1>15 DEF q
  <2>3. /\ 65536 * X1 <= 65536 * A + 514 * nT + 128 * nA
        /\ -(65536 * A + 514 * nT + 128 * nA) <= 65536 * X1
    BY <1>5, <1>14, <1>15, <2>1, <2>2, SMT
  <2>4. /\ 131072 * Y <= 65536 * A + 1026 * nT + 32896 * nA + 262144 * T
        /\ -(65536 * A + 1026 * nT + 32896 * nA + 262144 * T) <= 131072 * Y
    BY <1>5, <1>10, <1>14, <1>15, <1>16, <1>17, <2>3, SMT
  <2>5. 254 * Y <= 2 * nT + 508 * T + 127 * nA /\ -(2 * nT + 508 * T + 127 * nA) <= 254 * Y
    BY <1>5, <1>15, <1>17, <2>4, SMT
  <2> DEFINE k == 2 * nT + 508 * T + 127 * nA
  <2>6. k \in Int /\ Y \in Int
    BY <1>5, <1>15, <1>17
  <2> HIDE DEF k
  <2>7. 254 * Y <= k /\ -k <= 254 * Y
    BY <2>5 DEF k
  <2>8. 254 * Abs(Y) <= k
    BY <2>6, <2>7 DEF Abs
  <2>9. QED BY <2>8 DEF k
<1>19. A * Distance(r, f) = Abs(Y)
  <2> HIDE DEF r
  <2>1. CASE r < f
    <3>1. A * (f - r) = -Y /\ A * (f - r) >= 0
      BY <1>5, <1>13, <2>1
    <3>2. Distance(r, f) = f - r
      BY <2>1 DEF Distance
    <3> HIDE DEF Y
    <3>3. Abs(Y) = -Y
      BY <1>17, <3>1 DEF Abs
    <3>4. QED BY <3>1, <3>2, <3>3
  <2>2. CASE ~(r < f)
    <3>1. Y >= 0
      BY <1>5, <1>13, <2>2
    <3>2. Distance(r, f) = r - f
      BY <2>2 DEF Distance
    <3>3. Abs(Y) = Y
      BY <1>17, <3>1 DEF Abs
    <3>4. QED BY <3>2, <3>3
  <2>3. QED BY <2>1, <2>2
<1> HIDE DEF r, Y
<1>20. /\ r \in Int
       /\ 254 * (A * Distance(r, f)) <= 2 * nT + 508 * T + 127 * nA
  BY <1>13, <1>18, <1>19
<1>21. QED BY <1>7, <1>20 DEF A, T, f, n

(* An outlier is kept as it is, any other value is near.                   *)
LEMMA DitheredKeeps ==
    ASSUME CodecsAssumption, NEW bits \in {2, 4, 8}, NEW x, NEW dim, Whole(x, dim), NEW down
    PROVE  LET z == DecodeDithered(bits, dim, EncodeDithered(bits, dim, x, down))
               top(i) == TopDithered(Inliers(x), i)
           IN  /\ Len(z) = Len(x)
               /\ \A i \in DOMAIN x :
                    IF IsOutlier(x, i) THEN z[i] = Fine * x[i]
                    ELSE Fine * top(i) <= GroupSize * Widest =>
                            Distance(z[i], Fine * x[i]) <= DitheredError(bits, top(i))
<1> DEFINE z == DecodeDithered(bits, dim, EncodeDithered(bits, dim, x, down))
           y == Inliers(x)
           n == States(bits) - 1
<1>1. /\ Len(z) = Len(x)
      /\ \A i \in 1 .. Len(x) :
            z[i] = IF IsOutlier(x, i) THEN Fine * x[i]
                   ELSE Shown(bits, StateOf(y[i], TopDithered(y, i), States(bits), i \in down),
                              TopDithered(y, i))
  BY DitheredRoundTrip
<1>2. n \in {3, 15, 255}
  BY StatesAre DEF Shades
<1>3. DOMAIN x = 1 .. Len(x) /\ \A i \in 1 .. Len(x) : x[i] \in Int
  BY DEF Whole, IsList
<1> HIDE DEF z, y, n
<1>4. ASSUME NEW i \in 1 .. Len(x), ~IsOutlier(x, i),
             Fine * TopDithered(y, i) <= GroupSize * Widest
      PROVE  Distance(z[i], Fine * x[i]) <= DitheredError(bits, TopDithered(y, i))
  <2> DEFINE top == TopDithered(y, i)
             b == i \in down
             d == Distance(z[i], Fine * x[i])
             e == 254 * n * GroupSize
             a == Fine * top * (2 * n + 508) + 127 * n * n * GroupSize
  <2>1. y[i] = GroupSize * x[i] /\ y[i] \in Int /\ top \in Nat /\ Abs(y[i]) <= top /\ x[i] \in Int
    BY <1>3, <1>4, InliersAre, DitheredTops DEF y
  <2>2. b \in BOOLEAN
    OBVIOUS
  <2>3. z[i] = Shown(bits, StateOf(y[i], top, States(bits), b), top)
    BY <1>1, <1>4
  <2>4. Fine * top <= GroupSize * Widest
    BY <1>4
  <2>5. GroupSize \in Nat \ {0} /\ Fine \in Nat \ {0}
    BY PowersType DEF CodecsAssumption
  <2> HIDE DEF top, b
  <2>6. /\ z[i] \in Int
        /\ 254 * ((n * GroupSize) * d)
            <= 2 * (n * (Fine * top)) + 508 * (Fine * top) + 127 * (n * (n * GroupSize))
    BY <2>1, <2>2, <2>3, <2>4, ShownIsNear DEF n
  <2>7. d \in Nat
    <3>1. Fine * x[i] \in Int
      BY <2>1, <2>5
    <3>2. QED BY <2>6, <3>1 DEF Distance
  <2> HIDE DEF d
  <2>8. e \in Nat \ {0} /\ a \in Int /\ e * d <= a
    <3>1. e \in Nat \ {0}
      BY <1>2, <2>5
    <3>2. e * d = 254 * ((n * GroupSize) * d)
      BY <1>2, <2>5, <2>7
    <3>3. Fine * top * (2 * n + 508) = 2 * (n * (Fine * top)) + 508 * (Fine * top)
      BY <1>2, <2>1, <2>5
    <3>4. 127 * n * n * GroupSize = 127 * (n * (n * GroupSize))
      BY <1>2, <2>5
    <3>5. a \in Int
      BY <1>2, <2>1, <2>5
    <3>6. QED BY <2>6, <3>1, <3>2, <3>3, <3>4, <3>5
  <2>9. DitheredError(bits, top) = a \div e
    BY DEF DitheredError, n
  <2> HIDE DEF a, e
  <2>10. a \div e \in Int /\ ~(a \div e < d)
    <3>1. a \div e < d <=> a < e * d
      BY <2>7, <2>8, Below
    <3>2. e * d \in Int
      BY <2>7, <2>8
    <3>3. a \div e \in Int
      BY <2>8, Division
    <3>4. ~(a < e * d)
      BY <2>8, <3>2
    <3>5. QED BY <3>1, <3>3, <3>4
  <2>11. d <= DitheredError(bits, top)
    BY <2>7, <2>9, <2>10
  <2>12. QED BY <2>11 DEF d, top
<1>5. QED BY <1>1, <1>3, <1>4 DEF z, y

-----------------------------------------------------------------------------
(* From page to page: every step encodes or decodes one page.              *)
LEMMA CodecsStart == CodecsInit => CodecInv
BY DEF CodecsInit, CodecInv

LEMMA CodecsStep == CodecInv /\ [CodecsNext]_codecVars => CodecInv'
<1>1. SUFFICES ASSUME CodecInv, [CodecsNext]_codecVars PROVE CodecInv'
  OBVIOUS
<1>2. UNCHANGED <<codec, hidden, source>>
  BY <1>1 DEF CodecsNext, Encode, Decode, Raise, Again, codecVars
<1>3. Noise' = Noise
  BY <1>2 DEF Noise
<1>4. \A down : Encoded(source, down)' = Encoded(source, down)
  BY <1>2 DEF Encoded
<1>5. (codec \in Names /\ hidden \in HiddenDims /\ source \in Sources)'
  BY <1>1, <1>2 DEF CodecInv, Sources
<1>6. (phase = "encoded" => \E down \in Noise : stream = Encoded(source, down))'
  <2>1. SUFFICES ASSUME phase' = "encoded" PROVE \E down \in Noise : stream' = Encoded(source, down)'
    BY <1>3
  <2>2. CASE Encode
    BY <1>4, <2>2 DEF Encode
  <2>3. CASE UNCHANGED codecVars
    BY <1>1, <1>4, <2>1, <2>3 DEF CodecInv, codecVars
  <2>4. QED BY <1>1, <2>1, <2>2, <2>3 DEF CodecsNext, Decode, Raise, Again
<1>7. (phase = "decoded" => \E down \in Noise : out = Decoded(Encoded(source, down)))'
  <2>1. SUFFICES ASSUME phase' = "decoded"
                 PROVE  \E down \in Noise : out' = Decoded(Encoded(source, down))'
    BY <1>3
  <2>2. ASSUME NEW down PROVE Decoded(Encoded(source, down))' = Decoded(Encoded(source, down))
    BY <1>2, <1>4 DEF Decoded
  <2>3. CASE Decode
    <3>1. PICK down \in Noise : stream = Encoded(source, down)
      BY <1>1, <2>3 DEF CodecInv, Decode
    <3>2. out' = Decoded(stream)
      BY <2>3 DEF Decode
    <3>3. QED BY <2>2, <3>1, <3>2
  <2>4. CASE UNCHANGED codecVars
    BY <1>1, <2>1, <2>2, <2>4 DEF CodecInv, codecVars
  <2>5. QED BY <1>1, <2>1, <2>3, <2>4 DEF CodecsNext, Encode, Raise, Again
<1>8. QED BY <1>5, <1>6, <1>7 DEF CodecInv

(* What the decoder is given is what the encoder made of this page.        *)
THEOREM CodecsCorrect == CodecsSpec => []CodecInv
<1>1. QED BY CodecsStart, CodecsStep, PTL DEF CodecsSpec
LEMMA PageIs ==
    ASSUME CodecInv
    PROVE  /\ Fine \in Nat \ {0} /\ Fine >= 8
           /\ codec = "fp8" => /\ IsList(source) /\ Len(source) = 1 /\ source[1] \in Int
           /\ codec \in Dithered \cup {"int4"} => source \in Seq(Int) /\ IsPage(Fine, source)
<1>1. codec = "fp8" => source \in {<<v>> : v \in Numbers}
  BY DEF CodecInv, Sources
<1>2. codec \in Dithered \cup {"int4"} => source \in Pages
  BY DEF CodecInv, Sources, Dithered
<1>3. ASSUME source \in {<<v>> : v \in Numbers}
      PROVE  IsList(source) /\ Len(source) = 1 /\ source[1] \in Int
  <2>1. PICK v \in Numbers : source = <<v>>
    BY <1>3
  <2>2. v \in Int
    BY CodecsAssumption, BfloatDigits DEF CodecsAssumption
  <2>3. source \in Seq(Int) /\ Len(source) = 1 /\ source[1] = v
    BY <2>1, <2>2
  <2>4. QED BY <2>2, <2>3, ListOfSeq
<1>4. ASSUME source \in Pages PROVE source \in Seq(Int) /\ IsPage(Fine, source)
  <2>1. source \in Seq(Int) /\ \A i \in DOMAIN source : IsBfloat(Fine * source[i])
    BY <1>4, CodecsAssumption DEF CodecsAssumption
  <2>2. IsList(source) /\ source \in [1 .. Len(source) -> Int]
    BY <2>1, ListOfSeq
  <2>3. QED BY <2>1, <2>2 DEF IsPage
<1>5. Fine \in Nat \ {0} /\ Fine >= 8
  BY CodecsAssumption, PowersType DEF CodecsAssumption
<1>6. QED BY <1>1, <1>2, <1>3, <1>4, <1>5

LEMMA FP8Keeps == CodecInv => FP8Close
<1> DEFINE v == source[1]
           a == MaxAbs({v})
           w == out[1]
           u == Fine
<1>1. SUFFICES ASSUME CodecInv, phase = "decoded", codec = "fp8"
               PROVE  /\ w = NotANumber <=> a > 464 * Subnormals * Fine
                      /\ a <= 464 * Subnormals * Fine =>
                            /\ a >= 8 * Fine => 16 * Distance(Fine * w, v) <= a
                            /\ a <= 8 * Fine => 2 * Distance(Fine * w, v) <= Fine
  BY DEF FP8Close
<1>2. IsList(source) /\ Len(source) = 1 /\ v \in Int /\ u \in Nat \ {0}
  BY <1>1, PageIs
<1>3. out = DecodeFP8(EncodeFP8(source, Fine))
  BY <1>1 DEF CodecInv, Encoded, Decoded
<1>4. w = E4M3(v, u)
  BY <1>2, <1>3, FP8RoundTrip
<1>5. a = Abs(v) /\ a \in Nat
  BY <1>2, AbsOfOne, AbsType
<1> HIDE DEF a, v, w, u
<1>6. 464 * Subnormals * u = LargestFP8 * u
  BY <1>2, SMT DEF Subnormals, LargestFP8
<1>7. /\ w = NotANumber <=> a > LargestFP8 * u
      /\ a <= LargestFP8 * u =>
            /\ w \in Int
            /\ 2 * (u * w - v) \in -u .. u \/ 16 * (u * w - v) \in -a .. a
  BY <1>2, <1>4, <1>5, E4M3Close
<1>8. ASSUME w \in Int, 2 * (u * w - v) \in -u .. u \/ 16 * (u * w - v) \in -a .. a
      PROVE  /\ a >= 8 * u => 16 * Distance(u * w, v) <= a
             /\ a <= 8 * u => 2 * Distance(u * w, v) <= u
  <2> DEFINE p == u * w
  <2>1. p \in Int
    BY <1>2, <1>8
  <2> HIDE DEF p
  <2>2. /\ Distance(p, v) \in Nat
        /\ 2 * Distance(p, v) <= u \/ 16 * Distance(p, v) <= a
    BY <1>2, <1>5, <1>8, <2>1 DEF Distance, p
  <2> DEFINE d == Distance(p, v)
  <2> HIDE DEF d
  <2>3. d \in Nat /\ (2 * d <= u \/ 16 * d <= a)
    BY <2>2 DEF d
  <2>4. /\ a >= 8 * u => 16 * d <= a
        /\ a <= 8 * u => 2 * d <= u
    BY <1>2, <1>5, <2>3
  <2>5. QED BY <2>4 DEF d, p
<1>9. QED BY <1>6, <1>7, <1>8 DEF u

LEMMA INT4Keeps == CodecInv => INT4InPlace
<1>1. SUFFICES ASSUME CodecInv, phase = "decoded", codec = "int4" PROVE INT4InPlace
  BY DEF INT4InPlace
<1> DEFINE x == PaddedTo(source, INT4Group)
           u == Fine
<1>2. IsPage(u, source) /\ u \in Nat \ {0}
  BY <1>1, PageIs
<1>3. out = DecodeINT4(u, EncodeINT4(source))
  BY <1>1 DEF CodecInv, Encoded, Decoded
<1> HIDE DEF u
<1>4. /\ IsPage(u, x) /\ Len(out) = Len(x)
      /\ \A i \in 1 .. Len(x) : /\ out[i] = Requantized(u, x[i], TopINT4(x, i))
                                /\ Abs(x[i]) <= TopINT4(x, i) /\ TopINT4(x, i) \in Nat
                                /\ IsBfloat(u * TopINT4(x, i))
  BY <1>2, <1>3, INT4Page, CodecsAssumption
<1> HIDE DEF x
<1>5. DOMAIN x = 1 .. Len(x) /\ \A i \in 1 .. Len(x) : x[i] \in Int
  BY <1>4 DEF IsPage, IsList
<1>6. ASSUME NEW i \in 1 .. Len(x)
      PROVE  /\ Distance(out[i], u * x[i])
                    <= ((128 + 7) * u * TopINT4(x, i) + 7 * 128) \div (7 * 256)
             /\ MaxAbs({x[i]}) = TopINT4(x, i) => out[i] = u * x[i]
  <2> DEFINE top == TopINT4(x, i)
             d == Distance(out[i], u * x[i])
  <2>1. /\ x[i] \in Int /\ Abs(x[i]) <= top /\ top \in Nat /\ IsBfloat(u * top)
        /\ out[i] = Requantized(u, x[i], top) /\ MaxAbs({x[i]}) = Abs(x[i])
    BY <1>4, <1>5, AbsOfOne
  <2> HIDE DEF top
  <2>2. /\ out[i] \in Int /\ 1792 * d <= 135 * (u * top) + 896
        /\ Abs(x[i]) = top => out[i] = u * x[i]
    BY <1>2, <2>1, RequantizedClose
  <2>3. d \in Nat
    <3>1. u * x[i] \in Int
      BY <1>2, <2>1
    <3>2. QED BY <2>2, <3>1 DEF Distance
  <2> HIDE DEF d
  <2> DEFINE a == (128 + 7) * u * top + 7 * 128
  <2>4. a = 135 * (u * top) + 896 /\ a \in Int /\ 7 * 256 = 1792
    BY <1>2, <2>1
  <2> HIDE DEF a
  <2>5. a \div (7 * 256) \in Int /\ ~(a \div (7 * 256) < d)
    <3>1. a \div 1792 < d <=> a < 1792 * d
      BY <2>3, <2>4, Below
    <3>2. a \div 1792 \in Int
      BY <2>4, Division
    <3>3. QED BY <2>2, <2>3, <2>4, <3>1, <3>2
  <2>6. d <= a \div (7 * 256)
    BY <2>3, <2>5
  <2>7. QED BY <2>1, <2>2, <2>6 DEF d, a, top
<1>7. QED BY <1>4, <1>5, <1>6 DEF INT4InPlace, TopINT4, x, u

LEMMA StaysRequantized == CodecInv => RequantizingIsStable
<1>1. SUFFICES ASSUME CodecInv, phase = "decoded" PROVE RequantizingIsStable
  BY DEF RequantizingIsStable
<1>2. ASSUME codec = "int4" PROVE DecodeINT4(1, EncodeINT4(out)) = out
  <2>1. Fine \in Nat \ {0} /\ Fine >= 8 /\ IsPage(Fine, source)
    BY <1>1, <1>2, PageIs
  <2>2. out = DecodeINT4(Fine, EncodeINT4(source))
    BY <1>1, <1>2 DEF CodecInv, Encoded, Decoded
  <2>3. QED BY <2>1, <2>2, INT4Stable, CodecsAssumption
<1>3. ASSUME codec = "fp8", out[1] # NotANumber PROVE DecodeFP8(EncodeFP8(out, 1)) = out
  <2>1. IsList(source) /\ Len(source) = 1 /\ source[1] \in Int /\ Fine \in Nat \ {0}
    BY <1>1, <1>3, PageIs
  <2>2. out = DecodeFP8(EncodeFP8(source, Fine))
    BY <1>1, <1>3 DEF CodecInv, Encoded, Decoded
  <2>3. IsList(out) /\ Len(out) = 1 /\ out[1] = E4M3(source[1], Fine)
    BY <2>1, <2>2, FP8RoundTrip
  <2>4. E4M3(out[1], 1) = out[1]
    <3> DEFINE l == LargestFP8 * Fine
               a == Abs(source[1])
    <3>1. a \in Nat /\ l \in Int
      BY <2>1, AbsType, SMT DEF LargestFP8
    <3>2. ~(a > l)
      BY <1>3, <2>1, <2>3, E4M3Close
    <3> HIDE DEF a, l
    <3>3. a <= l
      BY <3>1, <3>2
    <3>4. QED BY <2>1, <2>3, <3>3, E4M3Close DEF a, l
  <2> DEFINE z == DecodeFP8(EncodeFP8(out, 1))
  <2>5. IsList(z) /\ Len(z) = Len(out) /\ \A i \in 1 .. Len(out) : z[i] = E4M3(out[i], 1)
    BY <2>3, FP8RoundTrip
  <2> HIDE DEF z
  <2>6. \A i \in 1 .. Len(z) : i = 1
    BY <2>3, <2>5
  <2>7. z = out
    BY <2>3, <2>4, <2>5, <2>6, ListsEqual
  <2>8. QED BY <2>7 DEF z
<1>4. QED BY <1>2, <1>3 DEF RequantizingIsStable

LEMMA DitheredStays == CodecInv => DitheredInPlace
<1>1. SUFFICES ASSUME CodecInv, phase = "decoded", codec \in Dithered PROVE DitheredInPlace
  BY DEF DitheredInPlace
<1> DEFINE x == WholeTokens(source, hidden)
           bits == Bits[codec]
<1>2. bits \in {2, 4, 8}
  BY <1>1 DEF Bits, Dithered
<1>3. hidden \in HiddenDims /\ source \in Seq(Int)
  BY <1>1, PageIs DEF CodecInv
<1>4. Whole(x, hidden)
  BY <1>3, WholeTokensAre, CodecsAssumption
<1>5. PICK down \in Noise : out = Decoded(Encoded(source, down))
  BY <1>1 DEF CodecInv
<1>6. out = DecodeDithered(bits, hidden, EncodeDithered(bits, hidden, x, down))
  <2>1. CASE codec = "nbit2"
    BY <1>5, <2>1 DEF Encoded, Decoded, EncodeNBit, DecodeNBit, Bits
  <2>2. CASE codec = "nbit4"
    BY <1>5, <2>2 DEF Encoded, Decoded, EncodeNBit, DecodeNBit, Bits
  <2>3. CASE codec = "nbit8"
    BY <1>5, <2>3 DEF Encoded, Decoded, EncodeNBit, DecodeNBit, Bits
  <2>4. CASE codec = "int2"
    BY <1>5, <2>4 DEF Encoded, Decoded, EncodeINT2, DecodeINT2, Bits
  <2>5. QED BY <1>1, <2>1, <2>2, <2>3, <2>4 DEF Dithered
<1> HIDE DEF x, bits
<1>7. /\ Len(out) = Len(x)
      /\ \A i \in DOMAIN x :
            IF IsOutlier(x, i) THEN out[i] = Fine * x[i]
            ELSE Fine * TopDithered(Inliers(x), i) <= GroupSize * Widest =>
                    Distance(out[i], Fine * x[i]) <= DitheredError(bits, TopDithered(Inliers(x), i))
  BY <1>2, <1>4, <1>6, DitheredKeeps, CodecsAssumption
<1>8. QED BY <1>7, SMT DEF DitheredInPlace, TopDithered, Widest, x, bits

(* The dithered codecs give back every whole token: an outlier exactly and *)
(* in its place, any other value within a step of its own group's scale and*)
(* what the casts to bfloat16 take, for any page, any group size, any      *)
(* number of outliers and any noise, up to 2^22 units.                     *)
THEOREM DitheredPagesStayInPlace == CodecsSpec => []DitheredInPlace
<1>1. QED BY CodecsCorrect, DitheredStays, PTL

(* INT4 gives back a page, filled up to whole groups, within half a step   *)
(* and what the cast to bfloat16 takes, and the largest value of a group   *)
(* exactly.                                                                *)
THEOREM INT4PagesStayInPlace == CodecsSpec => []INT4InPlace
<1>1. QED BY CodecsCorrect, INT4Keeps, PTL

(* A page that comes back from INT4 or FP8 goes through it again unchanged.*)
THEOREM RequantizingLosesNothing == CodecsSpec => []RequantizingIsStable
<1>1. QED BY CodecsCorrect, StaysRequantized, PTL

(* The cast to E4M3 is within a sixteenth up to 464, within half of the    *)
(* smallest subnormal number where that is more, and NaN beyond.           *)
THEOREM FP8IsClose == CodecsSpec => []FP8Close
<1>1. QED BY CodecsCorrect, FP8Keeps, PTL

-----------------------------------------------------------------------------
(* The controller.                                                         *)
LEMMA UnitInterval == One \in Nat /\ 0 \in 0 .. One /\ One \in 0 .. One
BY DEF One

LEMMA Product == ASSUME NEW a \in Int, NEW b \in Int PROVE a * b \in Int
OBVIOUS

USE ControllerAssumption DEF ControllerAssumption

(* Where a neighbour can be reached, the nearest tier is a neighbour.      *)
LEMMA NearestIsNeighbour ==
    ASSUME NEW t \in Tier, NEW S \in SUBSET Tier, NEW w \in S, w = t + 1 \/ w = t - 1, t \notin S
    PROVE  Nearest(t, S) \in S /\ Nearest(t, S) \in {t - 1, t + 1}
<1> DEFINE Dist(u) == IF u > t THEN u - t ELSE t - u
<1>1. t \in Int /\ \A u \in S : u \in Int /\ u # t
  BY DEF Tier, BF16, DISK
<1>2. Dist(w) = 1 /\ \A v \in S : 1 <= Dist(v)
  BY <1>1
<1>3. \E u \in S : \A v \in S : Dist(u) <= Dist(v)
  BY <1>2
<1>4. Nearest(t, S) \in S /\ \A v \in S : Dist(Nearest(t, S)) <= Dist(v)
  <2> HIDE DEF Dist
  <2>1. Nearest(t, S) = CHOOSE u \in S : \A v \in S : Dist(u) <= Dist(v)
    BY DEF Nearest, Dist
  <2>2. QED BY <1>3, <2>1
<1>5. Dist(Nearest(t, S)) <= 1
  BY <1>2, <1>4
<1>6. ASSUME NEW u \in S, Dist(u) <= 1 PROVE u \in {t - 1, t + 1}
  BY <1>1, <1>6
<1>7. QED BY <1>4, <1>5, <1>6

(* The jump tables, whatever codecs there are, never jump: where the table *)
(* reaches farther it serves the neighbour too.                            *)
LEMMA JumpsAreSteps ==
    ASSUME NEW t \in Tier
    PROVE  /\ t < INT4 => NextColder(t) = t + 1
           /\ t > BF16 => NextHotter(t) = t - 1
<1> USE DEF Tier, BF16, FP8, INT4, ARCHIVE, CPU, DISK
<1>1. ASSUME t < INT4, ColderServed(t) # {} PROVE t + 1 \in ColderServed(t)
  BY <1>1 DEF ColderServed, Served, Both
<1>2. ASSUME t > BF16, HotterServed(t) # {} PROVE t - 1 \in HotterServed(t)
  BY <1>2 DEF HotterServed, Served, Both
<1>3. ASSUME t < INT4 PROVE NextColder(t) = t + 1
  <2>1. CASE ColderServed(t) # {}
    <3>1. ColderServed(t) \in SUBSET Tier /\ \A u \in ColderServed(t) : u > t
      BY DEF ColderServed
    <3>2. /\ Nearest(t, ColderServed(t)) \in ColderServed(t)
          /\ Nearest(t, ColderServed(t)) \in {t - 1, t + 1}
      BY <1>1, <1>3, <2>1, <3>1, NearestIsNeighbour
    <3>3. QED BY <2>1, <3>1, <3>2 DEF NextColder
  <2>2. CASE ColderServed(t) = {}
    BY <1>3, <2>2 DEF NextColder
  <2>3. QED BY <2>1, <2>2
<1>4. ASSUME t > BF16 PROVE NextHotter(t) = t - 1
  <2>1. CASE HotterServed(t) # {}
    <3>1. HotterServed(t) \in SUBSET Tier /\ \A u \in HotterServed(t) : u < t
      BY DEF HotterServed
    <3>2. /\ Nearest(t, HotterServed(t)) \in HotterServed(t)
          /\ Nearest(t, HotterServed(t)) \in {t - 1, t + 1}
      BY <1>2, <1>4, <2>1, <3>1, NearestIsNeighbour
    <3>3. QED BY <2>1, <3>1, <3>2 DEF NextHotter
  <2>2. CASE HotterServed(t) = {}
    BY <1>4, <2>2 DEF NextHotter
  <2>3. QED BY <2>1, <2>2
<1>5. QED BY <1>3, <1>4

LEMMA BoostBounds ==
    ASSUME NEW pr \in 0 .. One
    PROVE  /\ Boost(pr) \in Nat /\ Boost(One) \in Nat
           /\ Boost(pr) <= Boost(One)
<1>1. /\ pr \in Int /\ pr <= One /\ One \in Int
      /\ PEmergency \in Int /\ PEmergency < One
  BY UnitInterval
<1>2. QED BY <1>1 DEF Boost, BoostCap

LEMMA ScoreRange ==
    ASSUME NEW f \in Features
    PROVE  Score(f) \in 0 .. One
<1> DEFINE wT == Weight.T
           wS == Weight.S
           wN == Weight.N
           wP == Weight.P
           fT == f.T
           fS == f.S
           fN == f.N
           fP == f.P
<1>1. /\ wT \in Int /\ wS \in Int /\ wN \in Int /\ wP \in Int
      /\ fT \in Int /\ fS \in Int /\ fN \in Int /\ fP \in Int
  OBVIOUS
<1> HIDE DEF wT, wS, wN, wP, fT, fS, fN, fP
<1>3. wT * fT \in Int /\ wS * fS \in Int /\ wN * fN \in Int /\ wP * fP \in Int
  BY SMTT(30), <1>1, Product
<1>4. \A x \in Int : Clip(x) \in 0 .. One
  BY UnitInterval DEF Clip
<1>5. \A w, x, y, z \in Int : w + x + y + z \in Int
  OBVIOUS
<1>6. wT * fT + wS * fS + wN * fN + wP * fP \in Int
  BY <1>3, <1>5
<1>7. QED BY <1>4, <1>6 DEF Score, wT, wS, wN, wP, fT, fS, fN, fP

(* What an answer other than the page's own tier means.                    *)
LEMMA DesiredMoves ==
    ASSUME NEW r \in 0 .. One, NEW t \in BF16 .. INT4, NEW pr \in 0 .. One
    PROVE  /\ Desired(r, t, pr) \in BF16 .. INT4
           /\ Desired(r, t, pr) # t => JustifiedMove(r, t, Desired(r, t, pr))
<1>1. t \in Tier
  BY DEF Tier, BF16, INT4, DISK
<1>2. CASE WantsColder(r, t, pr)
  <2>1. Desired(r, t, pr) = t + 1 /\ t < INT4
    BY <1>1, <1>2, JumpsAreSteps DEF Desired, WantsColder
  <2>2. ColdEnough(r)
    <3>1. Boost(pr) \in Nat /\ Boost(One) \in Nat /\ Boost(pr) <= Boost(One)
      BY BoostBounds
    <3>2. r \in Int /\ ThetaLow \in Int /\ Delta \in Int
      BY UnitInterval
    <3>3. QED BY SMTT(30), <1>2, <3>1, <3>2 DEF WantsColder, ColdEnough
  <2>3. QED BY <2>1, <2>2 DEF JustifiedMove, BF16, INT4
<1>3. CASE ~WantsColder(r, t, pr) /\ WantsHotter(r, t)
  <2>1. Desired(r, t, pr) = t - 1 /\ t > BF16 /\ HotEnough(r)
    BY <1>1, <1>3, JumpsAreSteps DEF Desired, WantsHotter, HotEnough
  <2>2. QED BY <2>1 DEF JustifiedMove, BF16, INT4
<1>4. CASE ~WantsColder(r, t, pr) /\ ~WantsHotter(r, t)
  BY <1>4 DEF Desired
<1>5. QED BY <1>2, <1>3, <1>4

LEMMA PolicyStep ==
    ASSUME PolicyInv, [Next]_vars
    PROVE  PolicyInv'
<1> USE DEF PolicyInv, TypeOK
<1>1. ASSUME NEW p \in Page, NEW f \in Features, UpdateScoreInputs(p, f)
      PROVE  PolicyInv'
  BY <1>1 DEF UpdateScoreInputs, Asked
<1>2. ASSUME NEW pr \in Pressures, PressureChanges(pr)
      PROVE  PolicyInv'
  BY <1>2 DEF PressureChanges, Asked
<1>3. CASE Decide
  <2>1. \A p \in Page : Score(features[p]) \in 0 .. One
    BY ScoreRange
  <2>2. scored' \in [Page -> 0 .. One] /\ UNCHANGED <<codec_config, features, tier, pressure, last>>
    BY <1>3, <2>1 DEF Decide
  <2>3. ASSUME NEW p \in Page
        PROVE  /\ targets'[p] \in Tier
               /\ p \in todo' => Asked(p)'
    <3>1. tier[p] \in BF16 .. INT4
      BY DEF Tier, BF16, INT4, DISK
    <3>6. pressure \in 0 .. One
      OBVIOUS
    <3>2. targets'[p] = Desired(Score(features[p]), tier[p], pressure)
          /\ scored'[p] = Score(features[p])
      BY <1>3 DEF Decide
    <3>3. p \in todo' => targets'[p] # tier[p]
      BY <1>3 DEF Decide
    <3>4. Score(features[p]) \in 0 .. One
      BY <2>1
    <3> DEFINE d == Desired(Score(features[p]), tier[p], pressure)
    <3>5. d \in BF16 .. INT4 /\ (d # tier[p] => JustifiedMove(Score(features[p]), tier[p], d))
      BY <3>1, <3>4, <3>6, DesiredMoves
    <3> HIDE DEF d
    <3>7. targets'[p] \in Tier
      BY <3>2, <3>5 DEF d, Tier, BF16, INT4, DISK
    <3>8. p \in todo' => JustifiedMove(scored'[p], tier[p], targets'[p])
      <4>1. targets'[p] = d
        BY <3>2 DEF d
      <4>2. QED BY <3>2, <3>3, <3>5, <4>1 DEF JustifiedMove, ColdEnough, HotEnough
    <3>9. QED BY <2>2, <3>7, <3>8 DEF Asked
  <2>4. targets' \in [Page -> Tier] /\ todo' \subseteq Page
    <3>1. targets' = [p \in Page |-> targets'[p]]
      BY <1>3 DEF Decide
    <3>2. QED BY <1>3, <2>3, <3>1 DEF Decide
  <2>5. QED BY <2>2, <2>3, <2>4
<1>4. ASSUME NEW p \in Page, Moved(p)
      PROVE  PolicyInv'
  <2>1. /\ p \in todo /\ Asked(p)
        /\ tier' = [tier EXCEPT ![p] = targets[p]]
        /\ todo' = todo \ {p}
        /\ UNCHANGED <<codec_config, features, pressure, targets, scored>>
    BY <1>4 DEF Moved
  <2>2. last' = [last EXCEPT ![p] = [dir |-> IF targets[p] > tier[p] THEN "colder" ELSE "hotter",
                                     score |-> scored[p]]]
    BY <1>4 DEF Moved
  <2>3. targets[p] \in Tier /\ targets[p] <= INT4
    BY <2>1 DEF Asked, JustifiedMove, Tier, BF16, INT4, DISK
  <2>4. /\ last'[p].dir = "colder" => ColdEnough(last'[p].score)
        /\ last'[p].dir = "hotter" => HotEnough(last'[p].score)
    BY <2>1, <2>2 DEF Asked, JustifiedMove, Tier, BF16, INT4, DISK
  <2>5. last' \in [Page -> Moves]
    BY <2>2 DEF Moves
  <2>6. QED BY <2>1, <2>2, <2>3, <2>4, <2>5 DEF Asked
<1>5. ASSUME NEW p \in Page, Kept(p)
      PROVE  PolicyInv'
  BY <1>5 DEF Kept, Asked
<1>6. ASSUME NEW p \in Page, Recovered(p)
      PROVE  PolicyInv'
  <2>1. NoMove \in Moves /\ BF16 \in Tier /\ BF16 <= INT4
    <3>2. NoMove \in Moves
      BY UnitInterval DEF NoMove, Moves
    <3>3. QED BY <3>2 DEF Tier, BF16, INT4, DISK
  <2>2. /\ tier' = [tier EXCEPT ![p] = BF16]
        /\ last' = [last EXCEPT ![p] = NoMove]
        /\ todo' = todo \ {p}
        /\ UNCHANGED <<codec_config, features, pressure, targets, scored>>
    BY <1>6 DEF Recovered
  <2>3. \A q \in todo' : Asked(q)'
    BY <2>2 DEF Asked
  <2>4. \A q \in Page : /\ last'[q].dir = "colder" => ColdEnough(last'[q].score)
                        /\ last'[q].dir = "hotter" => HotEnough(last'[q].score)
    BY <2>2 DEF NoMove
  <2>5. QED BY <2>1, <2>2, <2>3, <2>4
<1>7. CASE UNCHANGED vars
  BY <1>7 DEF vars, Asked
<1>8. QED BY <1>1, <1>2, <1>3, <1>4, <1>5, <1>6, <1>7 DEF Next

(* The runtime is compiled once.                                           *)
LEMMA ConfigStays == ASSUME [Next]_vars PROVE codec_config' = codec_config
BY DEF Next, vars, UpdateScoreInputs, PressureChanges, Decide, Moved, Kept, Recovered

(* A move between neighbours is served exactly if the slot between them has*)
(* a codec.                                                                *)
LEMMA AskedEdge ==
    ASSUME NEW t \in BF16 .. INT4, NEW d \in Tier, NEW r, JustifiedMove(r, t, d)
    PROVE  /\ <<t, d>> \in Served <=> Available(SlotBetween(t, d))
           /\ d \in {t - 1, t + 1}
<1>1. \/ t = BF16 /\ d = FP8
      \/ t = FP8 /\ d \in {BF16, INT4}
      \/ t = INT4 /\ d = FP8
  BY DEF JustifiedMove, Tier, BF16, FP8, INT4, ARCHIVE, CPU, DISK
<1>2. QED BY <1>1 DEF Served, Both, SlotBetween, Slots, BF16, FP8, INT4, ARCHIVE, CPU, DISK

LEMMA PolicyStart == Init => PolicyInv
BY UnitInterval DEF Init, PolicyInv, TypeOK, Tier, BF16, INT4, DISK, NoMove, Moves

(* A move is asked for a page beyond the threshold, by one tier.           *)
THEOREM PolicyCorrect == Spec => []PolicyInv
<1>1. Init => PolicyInv
  BY PolicyStart
<1>2. PolicyInv /\ [Next]_vars => PolicyInv'
  BY PolicyStep
<1>3. QED BY <1>1, <1>2, PTL DEF Spec

(* The values of the policy's variables keep their types.                  *)
THEOREM ControllerTyped == Spec => []TypeOK
<1>1. PolicyInv => TypeOK
  BY DEF PolicyInv
<1>2. QED BY <1>1, PolicyCorrect, PTL

(* Moves are gradual whatever codecs are configured.                       *)
THEOREM MovesAreGradual == Spec => []GradualMoves
<1>1. PolicyInv => GradualMoves
  BY DEF PolicyInv, TypeOK, GradualMoves, Asked, JustifiedMove, Tier, BF16, INT4, DISK
<1>2. QED BY <1>1, PolicyCorrect, PTL

(* A tier is reached only through slots that have a codec, and what is     *)
(* asked for in vain lies behind one that has none: in every configuration.*)
THEOREM EmptySlotsStayUnreachable == Spec => []EmptySlotsUnreachable
<1>1. Init => EmptySlotsUnreachable
  BY DEF Init, EmptySlotsUnreachable, BF16, FP8
<1>2. ASSUME PolicyInv, NEW p \in todo
      PROVE  \/ <<tier[p], targets[p]>> \in Served
             \/ ~Available(SlotBetween(tier[p], targets[p]))
  <2>1. tier[p] \in BF16 .. INT4 /\ targets[p] \in Tier /\ JustifiedMove(scored[p], tier[p], targets[p])
    BY <1>2 DEF PolicyInv, Asked, TypeOK, Tier, BF16, INT4, DISK
  <2>2. QED BY <2>1, AskedEdge
<1>3. ASSUME PolicyInv, EmptySlotsUnreachable, [Next]_vars, NEW p \in Page, NEW t \in FP8 .. tier'[p]
      PROVE  Available(Slots[t])'
  <2> USE DEF PolicyInv, TypeOK
  <2>1. codec_config' = codec_config /\ (Available(Slots[t])' <=> Available(Slots[t]))
    BY <1>3, ConfigStays DEF Available, Resolve
  <2>2. CASE tier'[p] = tier[p]
    BY <1>3, <2>1, <2>2 DEF EmptySlotsUnreachable
  <2>3. CASE tier'[p] # tier[p]
    <3>1. tier'[p] = BF16 \/ Moved(p)
      <4>1. ASSUME NEW q \in Page, Moved(q) \/ Recovered(q) PROVE q = p
        BY <1>3, <2>3, <4>1 DEF Moved, Recovered
      <4>2. ASSUME Recovered(p) PROVE tier'[p] = BF16
        BY <1>3, <4>2 DEF Recovered
      <4>3. \E q \in Page : Moved(q) \/ Recovered(q)
        BY <1>3, <2>3 DEF Next, vars, UpdateScoreInputs, PressureChanges, Decide, Kept
      <4>4. QED BY <4>1, <4>2, <4>3
    <3>2. CASE tier'[p] = BF16
      BY <3>2 DEF BF16, FP8
    <3>3. CASE Moved(p)
      <4>1. /\ p \in todo /\ tier'[p] = targets[p] /\ tier[p] \in BF16 .. INT4 /\ targets[p] \in Tier
            /\ <<tier[p], targets[p]>> \in Served
            /\ Asked(p)
        BY <1>3, <3>3 DEF Moved, Tier, BF16, INT4, DISK
      <4>2. /\ Available(SlotBetween(tier[p], targets[p]))
            /\ targets[p] \in {tier[p] - 1, tier[p] + 1}
        BY <4>1, AskedEdge DEF Asked
      <4>3. CASE t <= tier[p]
        <5>1. t \in FP8 .. tier[p]
          BY <4>1, <4>3 DEF FP8, Tier, BF16, DISK
        <5>2. QED BY <1>3, <2>1, <5>1 DEF EmptySlotsUnreachable
      <4>4. CASE ~(t <= tier[p])
        BY <2>1, <4>1, <4>2, <4>4 DEF SlotBetween, Tier, BF16, FP8, DISK
      <4>5. QED BY <4>3, <4>4
    <3>4. QED BY <3>1, <3>2, <3>3
  <2>4. QED BY <2>2, <2>3
<1>4. ASSUME PolicyInv, PolicyInv', EmptySlotsUnreachable, [Next]_vars
      PROVE  EmptySlotsUnreachable'
  <2>1. \A p \in todo' : \/ <<tier'[p], targets'[p]>> \in Served'
                         \/ ~Available(SlotBetween(tier[p], targets[p]))'
    <3> SUFFICES ASSUME NEW p \in todo' PROVE \/ <<tier'[p], targets'[p]>> \in Served'
                                             \/ ~Available(SlotBetween(tier[p], targets[p]))'
      OBVIOUS
    <3>1. Asked(p)' /\ tier'[p] \in BF16 .. INT4 /\ targets'[p] \in Tier
      <4>1. TypeOK' /\ p \in Page /\ tier'[p] <= INT4 /\ Asked(p)'
        BY <1>4 DEF PolicyInv, TypeOK
      <4>2. tier'[p] \in BF16 .. INT4 /\ targets'[p] \in Tier
        BY <4>1 DEF TypeOK, Tier, BF16, INT4, DISK
      <4>3. QED BY <4>1, <4>2
    <3>2. JustifiedMove(scored'[p], tier'[p], targets'[p])
      BY <3>1 DEF Asked
    <3>3. \/ <<tier'[p], targets'[p]>> \in Served
          \/ ~Available(SlotBetween(tier'[p], targets'[p]))
      BY <3>1, <3>2, AskedEdge
    <3>4. QED BY <1>4, <3>3, ConfigStays DEF Served, Available, Resolve
  <2>2. QED BY <1>3, <1>4, <2>1 DEF EmptySlotsUnreachable
<1>5. QED BY <1>1, <1>4, PolicyCorrect, PTL DEF Spec

(* A page is not offloaded by the controller, whatever codecs are          *)
(* configured and whatever the pressure.                                   *)
THEOREM PagesStayOnGpu == Spec => []StaysOnGpu
<1>1. PolicyInv => StaysOnGpu
  BY DEF PolicyInv, StaysOnGpu
<1>2. QED BY <1>1, PolicyCorrect, PTL

(* The dead band holds between two moves however far apart they are.       *)
THEOREM HysteresisHolds == Spec => HysteresisBand
<1>1. ASSUME PolicyInv, PolicyInv', [Next]_vars
      PROVE  [\A p \in Page :
                LET m == last[p]
                    n == last'[p]
                IN  /\ m.dir = "colder" /\ n.dir = "hotter" => n.score >= m.score + Band
                    /\ m.dir = "hotter" /\ n.dir = "colder" => n.score <= m.score - Band]_vars
  <2>1. ASSUME NEW p \in Page
        PROVE  /\ last[p].dir = "colder" /\ last'[p].dir = "hotter"
                    => last'[p].score >= last[p].score + Band
               /\ last[p].dir = "hotter" /\ last'[p].dir = "colder"
                    => last'[p].score <= last[p].score - Band
    <3>1. last[p].score \in Int /\ last'[p].score \in Int
      BY <1>1 DEF PolicyInv, TypeOK, Moves
    <3>2. /\ last[p].dir = "colder" => ColdEnough(last[p].score)
          /\ last[p].dir = "hotter" => HotEnough(last[p].score)
          /\ last'[p].dir = "colder" => ColdEnough(last'[p].score)
          /\ last'[p].dir = "hotter" => HotEnough(last'[p].score)
      BY <1>1 DEF PolicyInv
    <3>3. Boost(One) \in Int /\ ThetaHigh \in Int /\ ThetaLow \in Int /\ Delta \in Int
      <4>2. Boost(One) \in Int
        BY UnitInterval, BoostBounds
      <4>3. QED BY <4>2
    <3>4. QED BY <3>1, <3>2, <3>3 DEF ColdEnough, HotEnough, Band
  <2>2. QED BY <2>1
<1>2. QED BY <1>1, PolicyCorrect, PTL DEF Spec, HysteresisBand

(* More pressure never makes a page hotter.                                *)
THEOREM PressureIsMonotone == Spec => []PressureOnlyColder
<1>1. ASSUME PolicyInv PROVE PressureOnlyColder
  <2>1. SUFFICES ASSUME NEW p \in Page, NEW pr \in Pressures, pr >= pressure
                 PROVE  Desired(Score(features[p]), tier[p], pr)
                            >= Desired(Score(features[p]), tier[p], pressure)
    BY DEF PressureOnlyColder
  <2> DEFINE r == Score(features[p])
             t == tier[p]
  <2>2. r \in 0 .. One /\ t \in BF16 .. INT4 /\ t \in Tier
    BY <1>1, ScoreRange DEF PolicyInv, TypeOK, Tier, BF16, INT4, DISK
  <2>3. pressure \in 0 .. One /\ pr \in 0 .. One
    BY ZenonT(40), <1>1 DEF PolicyInv, TypeOK
  <2>4. Boost(pr) \in Int /\ Boost(pressure) \in Int /\ Boost(pr) >= Boost(pressure)
    BY <2>1, <2>3, UnitInterval DEF Boost, BoostCap
  <2> HIDE DEF r, t
  <2>5. WantsColder(r, t, pressure) => WantsColder(r, t, pr)
    <3>1. r \in Int /\ ThetaLow \in Int /\ Delta \in Int
      BY <2>2
    <3>2. QED BY <2>4, <3>1 DEF WantsColder
  <2>6. CASE WantsColder(r, t, pr)
    <3>1. Desired(r, t, pr) = t + 1
      BY <2>2, <2>6, JumpsAreSteps DEF Desired, WantsColder
    <3>2. Desired(r, t, pressure) \in {t - 1, t, t + 1}
      BY <2>2, <2>3, DesiredMoves DEF JustifiedMove
    <3>3. QED BY <2>2, <3>1, <3>2 DEF r, t, BF16, INT4
  <2>7. CASE ~WantsColder(r, t, pr)
    <3>1. Desired(r, t, pr) = Desired(r, t, pressure)
      BY <2>5, <2>7 DEF Desired
    <3>2. Desired(r, t, pr) \in Int
      BY <2>2, <2>3, DesiredMoves DEF BF16, INT4
    <3>3. QED BY <3>1, <3>2 DEF r, t
  <2>8. QED BY <2>6, <2>7
<1>2. QED BY <1>1, PolicyCorrect, PTL
=============================================================================
