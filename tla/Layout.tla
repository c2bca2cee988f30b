------------------------------- MODULE Layout -------------------------------
(***************************************************************************)
(* What struct.pack, tobytes() and slices do in the codecs.  A byte string *)
(* is a sequence of cells, and a cell says of which word it is a byte: what*)
(* is read at a wrong offset, or at a wrong size, is garbage.              *)
(***************************************************************************)
EXTENDS Integers, SequencesExt

Garbage == 1048576      \* no word is this large

Ceil(a, b) == -((-a) \div b)

(* round() and the casts: to the nearest, of two to the even one.          *)
Round(a, b) ==
    LET q == a \div b
        r == a % b
    IN  IF 2 * r > b \/ (2 * r = b /\ q % 2 = 1) THEN q + 1 ELSE q

Cell(v, size, i) == [word |-> v, size |-> size, byte |-> i]
Word(v, size) == [i \in 1 .. size |-> Cell(v, size, i)]
Words(q, size) ==
    [i \in 1 .. size * Len(q) |-> Cell(q[((i - 1) \div size) + 1], size, ((i - 1) % size) + 1)]

(* The word of a size at an offset, counted from 0.                        *)
WordAt(s, offset, size) ==
    IF /\ offset + size <= Len(s)
       /\ \A i \in 1 .. size : s[offset + i].size = size /\ s[offset + i].byte = i
    THEN s[offset + 1].word
    ELSE Garbage

(* A byte that holds several fields, the first in its highest bits.        *)
PaddedTo(q, m) == q \o [i \in 1 .. (m - (Len(q) % m)) % m |-> 0]

Packed(q, m) ==
    LET p == PaddedTo(q, m)
    IN  [b \in 1 .. Len(p) \div m |-> Cell([f \in 1 .. m |-> p[(b - 1) * m + f]], 1, 1)]

(* Defect: the first field is in the lowest bits.                          *)
UnpackedLowFirst(s, offset, m) ==
    [i \in 1 .. m * (Len(s) - offset) |->
        LET c == s[offset + ((i - 1) \div m) + 1]
        IN  IF c.size = 1 THEN c.word[m - ((i - 1) % m)] ELSE Garbage]

Unpacked(s, offset, m) ==
    [i \in 1 .. m * (Len(s) - offset) |->
        LET c == s[offset + ((i - 1) \div m) + 1]
        IN  IF c.size = 1 THEN c.word[((i - 1) % m) + 1] ELSE Garbage]

=============================================================================
