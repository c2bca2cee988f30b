----------------------------- MODULE MCMigration -----------------------------
(***************************************************************************)
(* Contents for module Migration.  Bytes are a page's original with the    *)
(* codecs applied on top, as a sequence: <<p>> is the original of page     *)
(* p - 1, <<p, c>> its encoding by codec c.  Decoding undoes the last      *)
(* encoding if it was the codec's own, and yields garbage otherwise; only  *)
(* an original has the checksum of an original.  Identity is the codec of   *)
(* codecs/bf16.py, and of the mock codec the tests migrate with.           *)
(***************************************************************************)
EXTENDS Migration, Sequences, TLC

S == INSTANCE SequencesExt

Identity == 103
MCCodec == {101, 102, Identity}
MCRaw == 100
MCNoBytes == <<0>>
MCGarbage == <<-1>>

Base == {MCNoBytes, MCGarbage} \cup {<<p + 1>> : p \in PageId}
MCBytes == Base \cup {b \o <<c>> : b \in Base, c \in MCCodec}
                \cup {b \o <<c, d>> : b \in Base, c \in MCCodec, d \in MCCodec}

MCSource(p) == <<p + 1>>
MCChecksum(b) == IF Len(b) = 1 /\ b[1] > 0 THEN b[1] ELSE 99
MCEncode(c, b) ==
    IF c = Identity THEN b ELSE IF Len(b) < 3 THEN Append(b, c) ELSE MCGarbage
MCDecode(c, b) ==
    IF c = Identity THEN b
    ELSE IF Len(b) > 1 /\ S!Last(b) = c THEN S!Front(b) ELSE MCGarbage

(* The tables resolve_codecs builds: one codec between BF16 and FP8, both  *)
(* ways; and a second one between either of them and INT4.                 *)
TwoTiers == (<<BF16, FP8>> :> 101) @@ (<<FP8, BF16>> :> 101)
ThreeTiers == (<<BF16, FP8>> :> Identity) @@ (<<FP8, BF16>> :> Identity)
               @@ (<<FP8, INT4>> :> 102) @@ (<<INT4, FP8>> :> 102)
               @@ (<<BF16, INT4>> :> 102) @@ (<<INT4, BF16>> :> 102)

NoFaults == {}
CodecFaults == {"encode", "lossy", "decode", "checksum"}
MigrationFaults == CodecFaults \cup {"read", "alloc", "write", "nosource"}
DeviceFaults == MigrationFaults \cup {"free"}

(* The forms of a page under the three-tier table: its original above, the *)
(* cold codec's encoding of it below.                                      *)
ThreeForms == [p \in PageId |-> [t \in Tier |->
    IF t \in {BF16, FP8} THEN {<<p + 1>>} ELSE IF t = INT4 THEN {<<p + 1, 102>>} ELSE {}]]

ASSUME CodecTable = ThreeTiers => FormsFit(ThreeForms)
=============================================================================
