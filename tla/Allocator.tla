------------------------------ MODULE Allocator ------------------------------
(***************************************************************************)
(* The two allocators: runtime/allocator.py (the mock, in which the tests, *)
(* the safety layer and the migration engine run) and                      *)
(* adapters/sglang/allocator.py (the shadow pool beside SGLang's).  Both   *)
(* keep a counter of the bytes in use beside the buffers; it is the counter*)
(* that decides what is granted, and whose share of the budget pressure()  *)
(* is.                                                                     *)
(*                                                                         *)
(* Callers are not modelled: any handle, freed or never given out, may be  *)
(* passed at any time.  Of a buffer only its length is kept.               *)
(***************************************************************************)
EXTENDS Integers, FiniteSetsExt

CONSTANTS
    Kinds,          \* allocators to look at, of "mock" and "shadow"
    Tier,
    Sizes,          \* of requests, and of the data written
    Budgets,        \* of which the budget is one
    MaxHandle,      \* bound on the handles given out
    MaxResizes,     \* bound on the writes that change a length
    MaxOverwritten  \* bound on the bytes preloads replace

ASSUME AllocatorAssumption ==
    /\ Kinds \subseteq {"mock", "shadow"}
    /\ Sizes \subseteq Nat
    /\ Budgets \subseteq Nat
    /\ MaxHandle \in Nat
    /\ MaxResizes \in Nat
    /\ MaxOverwritten \in Nat

VARIABLES
    kind,           \* which of the two this is
    length,         \* _buffers, pool: the length of the buffer at a handle
    tierOf,         \* _handle_to_tier
    share,          \* _per_tier_used
    used,           \* _used, allocated_bytes
    budget,         \* _budget, max_bytes
    next_handle,    \* _next_handle
    answer,         \* the last request: its size and the handle returned
    issued,         \* history: the handles given out since the last reset
    resized,        \* history: writes that changed a length since then
    overwritten     \* history: bytes of buffers a preload put others in place of

vars == <<kind, length, tierOf, share, used, budget, next_handle, answer,
          issued, resized, overwritten>>

Handle == 1 .. MaxHandle
Failed == -1
NoAnswer == [size |-> 0, handle |-> Failed]

With(f, h, x) == [g \in DOMAIN f \cup {h} |-> IF g = h THEN x ELSE f[g]]
Without(f, h) == [g \in DOMAIN f \ {h} |-> f[g]]
Adding(t, n) == [share EXCEPT ![t] = @ + n]
SumOver(S, f) == MapThenSumSet(LAMBDA h : f[h], S)

TypeOK ==
    /\ kind \in Kinds
    /\ DOMAIN length \subseteq Handle
    /\ \A h \in DOMAIN length : length[h] \in Sizes
    /\ DOMAIN tierOf = (IF kind = "mock" THEN DOMAIN length ELSE {})
    /\ \A h \in DOMAIN tierOf : tierOf[h] \in Tier
    /\ share \in [Tier -> Int]
    /\ used \in Nat
    /\ budget \in Budgets
    /\ next_handle \in 1 .. MaxHandle + 1
    /\ answer.handle \in Handle \cup {Failed}
    /\ issued \subseteq Handle
    /\ resized \in 0 .. MaxResizes
    /\ overwritten \in 0 .. MaxOverwritten

-----------------------------------------------------------------------------
Init ==
    /\ kind \in Kinds
    /\ length = <<>>
    /\ tierOf = <<>>
    /\ share = [t \in Tier |-> 0]
    /\ used = 0
    /\ budget \in Budgets
    /\ next_handle = 1
    /\ answer = NoAnswer
    /\ issued = {}
    /\ resized = 0
    /\ overwritten = 0

(* What the mock refuses and the shadow does not: a request for no bytes.  *)
Fits(n) ==
    /\ kind = "mock" => n > 0
    /\ used + n <= budget

Refuse(n) ==
    /\ ~Fits(n)
    /\ answer' = [size |-> n, handle |-> Failed]
    /\ UNCHANGED <<kind, length, tierOf, share, used, budget, next_handle,
                   issued, resized, overwritten>>

(* Defect: the lowest handle that is free is given out again.              *)
GrantFreeHandle(t, n) ==
    LET h == Min((1 .. MaxHandle + 1) \ DOMAIN length)
    IN  /\ Fits(n)
        /\ h <= MaxHandle
        /\ length' = With(length, h, n)
        /\ tierOf' = IF kind = "mock" THEN With(tierOf, h, t) ELSE tierOf
        /\ share' = IF kind = "mock" THEN Adding(t, n) ELSE share
        /\ used' = used + n
        /\ answer' = [size |-> n, handle |-> h]
        /\ issued' = issued \cup {h}
        /\ UNCHANGED <<kind, budget, next_handle, resized, overwritten>>

(* alloc(); when CUDA itself is out of memory the shadow raises and        *)
(* nothing changes.                                                        *)
Grant(t, n) ==
    /\ Fits(n)
    /\ next_handle <= MaxHandle
    /\ length' = With(length, next_handle, n)
    /\ tierOf' = IF kind = "mock" THEN With(tierOf, next_handle, t) ELSE tierOf
    /\ share' = IF kind = "mock" THEN Adding(t, n) ELSE share
    /\ used' = used + n
    /\ next_handle' = next_handle + 1
    /\ answer' = [size |-> n, handle |-> next_handle]
    /\ issued' = issued \cup {next_handle}
    /\ UNCHANGED <<kind, budget, resized, overwritten>>

(* Defect: the tier gets back what was asked for, not what there is.       *)
FreeKeepsShare(h) ==
    /\ h \in DOMAIN length
    /\ length' = Without(length, h)
    /\ tierOf' = Without(tierOf, h)
    /\ used' = used - length[h]
    /\ UNCHANGED <<kind, share, budget, next_handle, answer, issued, resized,
                   overwritten>>

(* free(): a handle without a buffer is left alone.                        *)
Free(h) ==
    /\ h \in DOMAIN length
    /\ length' = Without(length, h)
    /\ tierOf' = Without(tierOf, h)
    /\ share' = IF h \in DOMAIN tierOf THEN Adding(tierOf[h], -length[h]) ELSE share
    /\ used' = used - length[h]
    /\ UNCHANGED <<kind, budget, next_handle, answer, issued, resized, overwritten>>

(* Defect: the new length is not counted.                                  *)
WriteUncounted(h, n) ==
    /\ kind = "mock"
    /\ h \in DOMAIN length
    /\ length' = With(length, h, n)
    /\ resized' = IF n = length[h] THEN resized ELSE resized + 1
    /\ resized' <= MaxResizes
    /\ UNCHANGED <<kind, tierOf, share, used, budget, next_handle, answer, issued,
                   overwritten>>

(* write() of n bytes.  The mock's buffer becomes the data; the shadow's   *)
(* keeps its length, whether the data is shorter or, when it raises, longer*)
Write(h, n) ==
    /\ kind = "mock"
    /\ h \in DOMAIN length
    /\ length' = With(length, h, n)
    /\ used' = (used - length[h]) + n
    /\ resized' = IF n = length[h] THEN resized ELSE resized + 1
    /\ resized' <= MaxResizes
    /\ UNCHANGED <<kind, tierOf, share, budget, next_handle, answer, issued,
                   overwritten>>

-----------------------------------------------------------------------------
(* The mock's reset(), set_budget() and preload(), with which tests set    *)
(* the memory up.  A preload at a handle in use puts its buffer in place   *)
(* of the one that is there, whose bytes and share stay counted.           *)
Reset ==
    /\ kind = "mock"
    /\ length' = <<>>
    /\ tierOf' = <<>>
    /\ share' = [t \in Tier |-> 0]
    /\ used' = 0
    /\ next_handle' = 1
    /\ issued' = {}
    /\ resized' = 0
    /\ overwritten' = 0
    /\ UNCHANGED <<kind, budget, answer>>

SetBudget(b) ==
    /\ kind = "mock"
    /\ budget' = b
    /\ UNCHANGED <<kind, length, tierOf, share, used, next_handle, answer,
                   issued, resized, overwritten>>

Preload(h, n, t) ==
    /\ kind = "mock"
    /\ length' = With(length, h, n)
    /\ overwritten' = overwritten + (IF h \in DOMAIN length THEN length[h] ELSE 0)
    /\ overwritten' <= MaxOverwritten
    /\ tierOf' = With(tierOf, h, t)
    /\ share' = Adding(t, n)
    /\ used' = used + n
    /\ next_handle' = IF h >= next_handle THEN h + 1 ELSE next_handle
    /\ issued' = issued \cup {h}
    /\ UNCHANGED <<kind, budget, answer, resized>>

Next ==
    \/ \E n \in Sizes : Refuse(n)
    \/ \E t \in Tier, n \in Sizes : Grant(t, n)
    \/ \E h \in Handle : Free(h)
    \/ \E h \in Handle, n \in Sizes : Write(h, n)
    \/ Reset
    \/ \E b \in Budgets : SetBudget(b)
    \/ \E h \in Handle, n \in Sizes, t \in Tier : Preload(h, n, t)

Spec == Init /\ [][Next]_vars

-----------------------------------------------------------------------------
(* The bytes counted are those of the buffers, and of the buffers a preload*)
(* put others in place of, after any sequence of calls, with handles that  *)
(* are freed twice, were never given out, or are written at another length.*)
(* (And types are kept.)                                                   *)
UsedIsSum == TypeOK /\ used = SumOver(DOMAIN length, length) + overwritten

(* The share of a tier is what its buffers take, as long as every write    *)
(* has the length that was allocated and no preload replaces bytes.  (After*)
(* one that does not, or does, the share is wrong for good, and may be     *)
(* negative: write() does not touch it, preload() only adds to it.)        *)
TierShares ==
    kind = "mock" /\ resized = 0 /\ overwritten = 0 =>
        \A t \in Tier :
            share[t] = SumOver({h \in DOMAIN length : tierOf[h] = t}, length)

(* Both are implementations of the protocol: every request is granted with *)
(* a handle never seen before, or refused for want of room.                *)
M == INSTANCE Memory WITH wasted <- overwritten
ImplementsMemory == M!Spec
=============================================================================
