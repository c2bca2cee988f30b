------------------------------- MODULE Codecs -------------------------------
(***************************************************************************)
(* codecs/: what is left of a page's values when it is encoded and decoded *)
(* again, as verify in migrate.py does it, time after time.                *)
(*                                                                         *)
(* The values of a page are integers, decoded ones and scales multiples of *)
(* 1 / Fine: so fine that bfloat16 has no finer numbers there, which is so *)
(* from 128 / Fine on.  (Below, the model rounds to 1 / Fine.)  What is    *)
(* computed in float32 is exact; the dither is any noise of its range; the *)
(* 1e-8 that keep a scale from being 0 are left out; and so are pages of   *)
(* half a value.                                                           *)
(***************************************************************************)
EXTENDS Layout

CONSTANTS
    Names,          \* codecs to look at
    HiddenDims,     \* of which _hidden_dim is one
    GroupSize,      \* _group_size
    Sigma,          \* _sigma
    INT4Group,      \* _group_size of INT4Codec
    Fine,           \* units of a decoded value in a unit of the page's
    Pages,          \* pages of BF16 values
    Numbers         \* BF16 values, in units of 1 / Fine of the smallest
                    \* number of E4M3, for the codec of single values

Dithered == {"nbit2", "nbit4", "nbit8", "int2"}

(* The numbers of bfloat16, with 8 significant bits; for E4M3 they are 4.  *)
Powers == {1, 2, 4, 8, 16, 32, 64, 128, 256, 512, 1024, 2048, 4096, 8192, 16384, 32768}
IsBfloat(v) == \E m \in -255 .. 255, s \in Powers : v = m * s

ASSUME CodecsAssumption ==
    /\ Names \subseteq Dithered \cup {"int4", "int8", "fp8", "bf16"}
    /\ GroupSize \in Nat \ {0}
    /\ \A d \in HiddenDims : d \in Nat \ {0} /\ d % GroupSize = 0
    /\ Sigma \in Nat
    /\ INT4Group \in Nat \ {0} /\ INT4Group % 2 = 0
    /\ Fine \in Powers /\ Fine >= 8
    /\ Pages \subseteq Seq(Int)
    /\ \A x \in Pages : \A i \in DOMAIN x : IsBfloat(Fine * x[i])
    /\ \A v \in Numbers : IsBfloat(v)

VARIABLES
    codec,
    hidden,         \* _hidden_dim
    source,         \* the page
    stream,         \* what encode() returned
    out,            \* what decode() returned
    phase           \* "source", "encoded", "decoded", or "raised"

codecVars == <<codec, hidden, source, stream, out, phase>>

MaxAbs(S) == Max({IF v < 0 THEN -v ELSE v : v \in S} \cup {0})
Distance(a, b) == IF a < b THEN b - a ELSE a - b

(* What a cast makes of a / d: the nearest number with so many significant *)
(* digits, of two the even one.                                            *)
Step(a, d, digits) == Min({s \in Powers : a \div (digits * d) < s})
Floating(n, d, digits) ==
    LET a == MaxAbs({n})
        step == Step(a, d, digits)
        rounded == step * Round(a, step * d)
    IN  IF n < 0 THEN -rounded ELSE rounded

Bfloat(n, d) == Floating(n, d, 256)

-----------------------------------------------------------------------------
(* Groups of n consecutive values.                                         *)
GroupOf(i, n) == (i - 1) \div n + 1
Members(g, n) == (g - 1) * n + 1 .. g * n
GroupSum(x, i) == MapThenSumSet(LAMBDA j : x[j], Members(GroupOf(i, GroupSize), GroupSize))
GroupAbsMax(x, g, n) == MaxAbs({x[j] : j \in Members(g, n)})

(* nbit_dithered.py and int2_dithered.py.  A tail that is no whole token   *)
(* is not encoded.                                                         *)
Tokens(x, dim) == Len(x) \div dim
WholeTokens(x, dim) == SubSeq(x, 1, Tokens(x, dim) * dim)

(* The deviation from the mean of the group, times GroupSize; farther than *)
(* Sigma standard deviations (of a sample) is an outlier.                  *)
Deviation(x, i) == GroupSize * x[i] - GroupSum(x, i)
IsOutlier(x, i) ==
    Deviation(x, i) ^ 2 * (GroupSize - 1)
        > Sigma ^ 2 * MapThenSumSet(LAMBDA j : Deviation(x, j) ^ 2,
                                    Members(GroupOf(i, GroupSize), GroupSize))
Outliers(x) == {i \in DOMAIN x : IsOutlier(x, i)}

(* Inliers, with the mean in the place of an outlier, times GroupSize.     *)
Inliers(x) ==
    [i \in DOMAIN x |-> IF IsOutlier(x, i) THEN GroupSum(x, i) ELSE GroupSize * x[i]]

(* _num_states.                                                            *)
States(bits) == CASE bits = 2 -> 4 [] bits = 4 -> 16 [] bits = 8 -> 256

(* The state of a value among these, symmetric about 0.  Half a step of   *)
(* noise, up or down, takes it to either neighbour.                        *)
StateOf(v, top, states, down) ==
    LET upper == IF top = 0 THEN states \div 2
                 ELSE Ceil((states - 1) * (v + top), 2 * top)
    IN  IF down /\ upper > 0 THEN upper - 1 ELSE upper

(* What torch.nonzero() makes of a mask: the positions, in their order.    *)
Ascending(S) ==
    [k \in 1 .. Cardinality(S) |-> CHOOSE i \in S : Cardinality({j \in S : j < i}) = k - 1]

(* The step between two states, cast to bfloat16, for the decoder: the     *)
(* encoder goes on with the step itself.                                   *)
DeltaOf(bits, top) == Bfloat(2 * Fine * top, (States(bits) - 1) * GroupSize)

EncodeDithered(bits, dim, x, down) ==
    LET y == Inliers(x)
        groups == 1 .. Len(x) \div GroupSize
        outliers == Ascending(Outliers(x))
        state(i) == StateOf(y[i], GroupAbsMax(y, GroupOf(i, GroupSize), GroupSize),
                            States(bits), i \in down)
    IN  IF x = <<>> THEN Word(0, 4) \o Word(0, 4)
        ELSE Word(Tokens(x, dim), 4) \o Word(Len(outliers), 4)
             \o Words([g \in groups |-> DeltaOf(bits, GroupAbsMax(y, g, GroupSize))], 2)
             \o Words([k \in DOMAIN outliers |-> outliers[k] - 1], 4)
             \o Words([k \in DOMAIN outliers |-> x[outliers[k]]], 2)
             \o Packed([i \in DOMAIN x |-> state(i)], 8 \div bits)

DecodeDithered(bits, dim, s) ==
    LET tokens == WordAt(s, 0, 4)
        outliers == WordAt(s, 4, 4)
        groups == tokens * (dim \div GroupSize)
        indicesAt == 8 + 2 * groups
        valuesAt == indicesAt + 4 * outliers
        states == Unpacked(s, valuesAt + 2 * outliers, 8 \div bits)
        isolated(i) == {k \in 0 .. outliers - 1 : WordAt(s, indicesAt + 4 * k, 4) = i - 1}
    IN  IF tokens = 0 THEN <<>>
        ELSE [i \in 1 .. groups * GroupSize |->
                IF isolated(i) # {}
                THEN Fine * WordAt(s, valuesAt + 2 * Max(isolated(i)), 2)
                ELSE Bfloat((2 * states[i] - (States(bits) - 1))
                                * WordAt(s, 8 + 2 * (GroupOf(i, GroupSize) - 1), 2), 2)]

EncodeNBit(bits, dim, x, down) == EncodeDithered(bits, dim, WholeTokens(x, dim), down)
DecodeNBit(bits, dim, s) == DecodeDithered(bits, dim, s)

(* The same with 2 bits, but a seed that is always the same: any noise.    *)
EncodeINT2(dim, x, down) == EncodeDithered(2, dim, WholeTokens(x, dim), down)
DecodeINT2(dim, s) == DecodeDithered(2, dim, s)

-----------------------------------------------------------------------------
(* int4.py: groups that are filled up with zeros; 7 is the largest state   *)
(* of a value, and 8 is added.  The scale is a value of the page: its cast *)
(* is exact.                                                               *)
EncodeINT4(page) ==
    LET x == PaddedTo(page, INT4Group)
        groups == Len(x) \div INT4Group
        abs_max(g) == GroupAbsMax(x, g, INT4Group)
        state(i) == LET top == abs_max(GroupOf(i, INT4Group))
                    IN  (IF top = 0 THEN 0 ELSE Round(7 * x[i], top)) + 8
    IN  IF page = <<>> THEN Word(0, 4)
        ELSE Word(groups, 4) \o Word(Len(x), 4)
             \o Words([g \in 1 .. groups |-> abs_max(g)], 2)
             \o Packed([i \in DOMAIN x |-> state(i)], 2)

(* Defect: the state of zero is the middle of 16 states.                   *)
DecodeINT4OffCentre(unit, s) ==
    LET groups == WordAt(s, 0, 4)
        states == Unpacked(s, 8 + 2 * groups, 2)
    IN  IF Len(s) < 8 \/ groups = 0 THEN <<>>
        ELSE [i \in 1 .. WordAt(s, 4, 4) |->
                Bfloat(unit * (states[i] - 7)
                            * WordAt(s, 8 + 2 * (GroupOf(i, INT4Group) - 1), 2), 7)]

(* Of a page with this unit.                                               *)
DecodeINT4(unit, s) ==
    LET groups == WordAt(s, 0, 4)
        states == Unpacked(s, 8 + 2 * groups, 2)
    IN  IF Len(s) < 8 \/ groups = 0 THEN <<>>
        ELSE [i \in 1 .. WordAt(s, 4, 4) |->
                Bfloat(unit * (states[i] - 8)
                            * WordAt(s, 8 + 2 * (GroupOf(i, INT4Group) - 1), 2), 7)]

-----------------------------------------------------------------------------
(* int8.py: encode() asks a bfloat16 tensor for its numpy array, a type    *)
(* that numpy does not have, and torch raises.  (The kernels themselves    *)
(* are called by the hooks, and are in HiCache.)                           *)
EncodeINT8Raises(dim, x) == Tokens(x, dim) > 0
EncodeINT8(x) == Word(0, 4)
DecodeINT8(s) == <<>>

-----------------------------------------------------------------------------
(* fp8.py: the cast to E4M3 keeps four significant bits, fewer of numbers  *)
(* below 2^-6, which are multiples of 2^-9, its unit here; 480 is NaN.  The*)
(* cast back is exact.                                                     *)
NotANumber == Garbage + 1
Subnormals == 512

(* Defect: bits are cut off.                                               *)
E4M3Truncated(v, unit) ==
    LET a == MaxAbs({v})
        step == Step(a, unit, 16)
        rounded == step * (a \div (step * unit))
    IN  IF a >= 512 * Subnormals * unit \/ rounded >= 480 * Subnormals THEN NotANumber
        ELSE IF v < 0 THEN -rounded ELSE rounded

E4M3(v, unit) ==
    LET a == MaxAbs({v})
    IN  IF a >= 512 * Subnormals * unit \/ Floating(a, unit, 16) >= 480 * Subnormals
        THEN NotANumber
        ELSE Floating(v, unit, 16)

EncodeFP8(x, unit) == [i \in DOMAIN x |-> Cell(E4M3(x[i], unit), 1, 1)]
DecodeFP8(s) == [i \in DOMAIN s |-> WordAt(s, i - 1, 1)]

-----------------------------------------------------------------------------
(* bf16.py: the bytes themselves.                                          *)
EncodeBF16(x) == [i \in DOMAIN x |-> Cell(x[i], 1, 1)]
DecodeBF16(s) == [i \in DOMAIN s |-> s[i].word]

-----------------------------------------------------------------------------
Encoded(x, down) ==
    CASE codec = "nbit2" -> EncodeNBit(2, hidden, x, down)
      [] codec = "nbit4" -> EncodeNBit(4, hidden, x, down)
      [] codec = "nbit8" -> EncodeNBit(8, hidden, x, down)
      [] codec = "int2" -> EncodeINT2(hidden, x, down)
      [] codec = "int4" -> EncodeINT4(x)
      [] codec = "int8" -> EncodeINT8(x)
      [] codec = "fp8" -> EncodeFP8(x, Fine)
      [] OTHER -> EncodeBF16(x)

Decoded(s) ==
    CASE codec = "nbit2" -> DecodeNBit(2, hidden, s)
      [] codec = "nbit4" -> DecodeNBit(4, hidden, s)
      [] codec = "nbit8" -> DecodeNBit(8, hidden, s)
      [] codec = "int2" -> DecodeINT2(hidden, s)
      [] codec = "int4" -> DecodeINT4(Fine, s)
      [] codec = "int8" -> DecodeINT8(s)
      [] codec = "fp8" -> DecodeFP8(s)
      [] OTHER -> DecodeBF16(s)

Raises == codec = "int8" /\ EncodeINT8Raises(hidden, source)

-----------------------------------------------------------------------------
Sources == IF codec = "fp8" THEN {<<v>> : v \in Numbers} ELSE Pages

CodecsInit ==
    /\ codec \in Names
    /\ hidden \in HiddenDims
    /\ source \in Sources
    /\ stream = <<>>
    /\ out = <<>>
    /\ phase = "source"

Noise == IF codec \in Dithered THEN SUBSET (1 .. Len(WholeTokens(source, hidden))) ELSE {{}}

Encode ==
    /\ phase = "source"
    /\ ~Raises
    /\ \E down \in Noise : stream' = Encoded(source, down)
    /\ phase' = "encoded"
    /\ UNCHANGED <<codec, hidden, source, out>>

Decode ==
    /\ phase = "encoded"
    /\ out' = Decoded(stream)
    /\ phase' = "decoded"
    /\ UNCHANGED <<codec, hidden, source, stream>>

Raise ==
    /\ phase = "source"
    /\ Raises
    /\ phase' = "raised"
    /\ UNCHANGED <<codec, hidden, source, stream, out>>

(* The page is migrated again, with other noise.                           *)
Again ==
    /\ phase \in {"decoded", "raised"}
    /\ phase' = "source"
    /\ stream' = <<>>
    /\ out' = <<>>
    /\ UNCHANGED <<codec, hidden, source>>

CodecsNext == Encode \/ Decode \/ Raise \/ Again

CodecsSpec == CodecsInit /\ [][CodecsNext]_codecVars

(* What is decoded is always what was encoded, of the page, by the codec.  *)
CodecInv ==
    /\ codec \in Names /\ hidden \in HiddenDims /\ source \in Sources
    /\ phase = "encoded" => \E down \in Noise : stream = Encoded(source, down)
    /\ phase = "decoded" => \E down \in Noise : out = Decoded(Encoded(source, down))

-----------------------------------------------------------------------------
Bits == [nbit2 |-> 2, nbit4 |-> 4, nbit8 |-> 8, int2 |-> 2]

(* What the roundings of the scale and of the result to bfloat16 allow for,*)
(* in units of 1 / Fine: a step between two states; a 127th of the largest *)
(* value of the group, in which every other value is measured; and half a  *)
(* unit for every state.                                                   *)
DitheredError(bits, top) ==
    LET n == States(bits) - 1
    IN  (Fine * top * (2 * n + 508) + 127 * n * n * GroupSize) \div (254 * n * GroupSize)

(* A dithered page keeps its whole tokens and nothing else.  An outlier    *)
(* comes back exactly, in its own place; every other value comes back      *)
(* within a step of the scale of its own group and what bfloat16 takes,    *)
(* whatever the noise, with any number of outliers, tokens and padded      *)
(* states before it, unless its group's values are out of all range.       *)
DitheredInPlace ==
    phase = "decoded" /\ codec \in Dithered =>
        LET x == WholeTokens(source, hidden)
            largest(i) == GroupAbsMax(Inliers(x), GroupOf(i, GroupSize), GroupSize)
        IN  /\ Len(out) = Len(x)
            /\ \A i \in DOMAIN x :
                IF IsOutlier(x, i)
                THEN out[i] = Fine * x[i]
                ELSE Fine * largest(i) <= GroupSize * 4194304 =>
                        Distance(out[i], Fine * x[i]) <= DitheredError(Bits[codec], largest(i))

(* An INT4 page comes back filled up to whole groups, the largest value of *)
(* a group exactly, every other within half a step of its scale, a 256th of*)
(* the largest value, and half a unit, for the result's cast to bfloat16.  *)
INT4InPlace ==
    phase = "decoded" /\ codec = "int4" =>
        LET x == PaddedTo(source, INT4Group)
            largest(i) == GroupAbsMax(x, GroupOf(i, INT4Group), INT4Group)
        IN  /\ Len(out) = Len(x)
            /\ \A i \in DOMAIN x :
                /\ Distance(out[i], Fine * x[i])
                        <= ((128 + 7) * Fine * largest(i) + 7 * 128) \div (7 * 256)
                /\ MaxAbs({x[i]}) = largest(i) => out[i] = Fine * x[i]

(* A page that has been through INT4 or FP8 once loses nothing when it     *)
(* goes through it again: moving it to and fro does not wear it out.       *)
RequantizingIsStable ==
    phase = "decoded" =>
        /\ codec = "int4" => DecodeINT4(1, EncodeINT4(out)) = out
        /\ codec = "fp8" /\ out[1] # NotANumber => DecodeFP8(EncodeFP8(out, 1)) = out

(* FP8 is within a sixteenth, or where numbers become subnormal (2^-6) half*)
(* of the smallest one (2^-9), up to what rounds to its largest number, and*)
(* NaN beyond; it is never a number of another size.                       *)
FP8Close ==
    phase = "decoded" /\ codec = "fp8" =>
        LET v == source[1]
            a == MaxAbs({v})
        IN  /\ out[1] = NotANumber <=> a > 464 * Subnormals * Fine
            /\ a <= 464 * Subnormals * Fine =>
                /\ a >= 8 * Fine => 16 * Distance(Fine * out[1], v) <= a
                /\ a <= 8 * Fine => 2 * Distance(Fine * out[1], v) <= Fine

=============================================================================
