----------------------------- MODULE MCAllocator -----------------------------
(***************************************************************************)
(* Three handles in a pool of one byte or two: requests that fit, fill the *)
(* pool and exceed it, a budget lowered below what is used, and writes     *)
(* that shrink a buffer or grow it past the budget.                        *)
(***************************************************************************)
EXTENDS Allocator
=============================================================================
