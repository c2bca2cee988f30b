------------------------------ MODULE MCCodecs ------------------------------
(***************************************************************************)
(* Groups of three, one or two to a token, of values with and without an   *)
(* outlier and at the very edge of being one; pages that fill a group, a   *)
(* token or a byte, and pages that do not.  With 8 bits the step between   *)
(* two states is 514 / Fine.                                               *)
(***************************************************************************)
EXTENDS Codecs

AllNames == Dithered \cup {"int4", "int8", "fp8", "bf16"}

Group == {<<0, 0, 4096>>, <<-4096, 0, 4096>>, <<0, 0, 0>>, <<4096, -4096, -4096>>,
          <<1024, 4096, -3072>>}

SomePages ==
    BoundedSeq({-3072, 0, 4096}, 4) \cup {g \o h \o t : g, h \in Group, t \in {<<>>, <<1>>}}

(* Of the numbers of bfloat16 those at and beside the numbers of E4M3, and *)
(* beside the middle of two of them, from far below the smallest to beyond *)
(* the largest.                                                            *)
SomeNumbers ==
    {sign * m * s : sign \in {-1, 1}, s \in Powers,
                    m \in {0, 1, 3, 5, 7} \cup 127 .. 129 \cup 134 .. 138 \cup 230 .. 234 \cup {255}}
=============================================================================
