--------------------------- MODULE MCCircuitBreaker ---------------------------
(***************************************************************************)
(* Transitions and codecs for CircuitBreaker: the two transitions between  *)
(* BF16 and FP8, and the one codec that is registered for both.            *)
(***************************************************************************)
EXTENDS CircuitBreaker, TLC

CONSTANTS fp8, bf16_fp8, fp8_bf16

SharedCodec == (bf16_fp8 :> fp8) @@ (fp8_bf16 :> fp8)
=============================================================================
