---------------------------- MODULE MCController ----------------------------
(* The defaults of ASHKVConfig and CodecConfig, and rows of score inputs    *)
(* that put the score below, inside and above the bands.                    *)
EXTENDS Controller

DefaultWeight == [T |-> 70, S |-> 10, N |-> 10, P |-> 10]

Row(t, s, n, p) == [T |-> t, S |-> s, N |-> n, P |-> p]

(* Scores 0, 2500 (cold at any pressure), 3000 (under pressure only), 4400  *)
(* (the edge of what pressure can reach), 7000, 7600 (the edge of           *)
(* promotion), 10000 (from inputs out of range).                            *)
DefaultFeatures ==
    {Row(0, 0, 0, 0), Row(0, 100, 100, 50), Row(0, 100, 100, 100),
     Row(50, 40, 30, 20), Row(100, 0, 0, 0), Row(100, 20, 20, 20),
     Row(200, 100, 100, 100)}

(* Each slot between the GPU tiers is empty, automatic, filled with a codec *)
(* that returns its bytes, or with a name nobody registered; the colder     *)
(* slots have codecs in half of the configurations.                         *)
SlotValues == {"none", "auto", "bf16", "unregistered"}

AllConfigs ==
    {[bf16_to_compressed |-> a, compressed_to_cold |-> b,
      cold_to_archive |-> IF offload THEN "lowrank" ELSE "none",
      archive_to_cpu |-> IF offload THEN "copy" ELSE "none"]
        : a, b \in SlotValues, offload \in BOOLEAN}

Codecs == {"bf16", "fp8_default", "int8_default", "int4_default", "lowrank", "copy"}
=============================================================================
