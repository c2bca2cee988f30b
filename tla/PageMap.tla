------------------------------- MODULE PageMap -------------------------------
(***************************************************************************)
(* What contracts/page.py's PageTable promises its callers: a map from     *)
(* page ids to page metadata.  `page[p]` is what the getters answer for p, *)
(* the record Missing standing for "not in the table".  How rows are laid  *)
(* out, indexed and compacted is left to module PageTable, which           *)
(* implements this one; Migration is built on this one.                    *)
(***************************************************************************)
EXTENDS Integers, FiniteSets

CONSTANTS
    MaxPageId,      \* bound: ids 0..MaxPageId are handed out (int64 in the code)
    Capacity,       \* rows of the table
    Checksums,      \* checksums a page may be registered with
    Inputs,         \* abstract values of the score inputs (T, S, N, P)
    NewInputs,      \* the inputs of a new page: T = 1.0, S = N = P = 0.0
    Targets,        \* tiers a caller of apply_tier_transition asks for
    MaxPins,        \* bound on pin_count
    MaxAccesses     \* bound on access_count

PageId == 0 .. MaxPageId

BF16 == 0
FP8 == 1
INT4 == 2
ARCHIVE == 3
CPU == 4
DISK == 5
Tier == BF16 .. DISK

ASSUME PageMapAssumption ==
    /\ MaxPageId \in Nat
    /\ Capacity \in Nat \ {0}
    /\ Checksums \subseteq Nat
    /\ NewInputs \in Inputs
    /\ Targets \subseteq Tier
    /\ MaxPins \in Nat
    /\ MaxAccesses \in Nat

VARIABLES
    page,       \* page[p]: the metadata of p, or Missing
    nextId,     \* the id the next add() returns
    size        \* number of pages in the table

pageVars == <<page, nextId, size>>

(* get_tier and get_pin_count answer -1, get_bf16_checksum answers 0, for  *)
(* an id that is not in the table.                                         *)
Missing == [tier |-> -1, pin_count |-> -1, bf16_checksum |-> 0,
            current_checksum |-> 0, access_count |-> -1, inputs |-> NewInputs]

Metadata == [tier : Tier, pin_count : Nat, bf16_checksum : Nat,
             current_checksum : Nat, access_count : Nat, inputs : Inputs]

Present(p) == page[p].tier >= 0
LivePages == {p \in PageId : Present(p)}

PageTypeOK ==
    /\ page \in [PageId -> Metadata \cup {Missing}]
    /\ nextId \in Nat
    /\ size \in 0 .. Capacity

(* size counts the pages in the table.                                     *)
Counted == size = Cardinality(LivePages)

-----------------------------------------------------------------------------
PageInit ==
    /\ page = [p \in PageId |-> Missing]
    /\ nextId = 0
    /\ size = 0

NewPage(c) == [tier |-> BF16, pin_count |-> 0, bf16_checksum |-> c,
               current_checksum |-> c, access_count |-> 0, inputs |-> NewInputs]

(* add(): raises, changing nothing, when the table is full.                *)
Add(c) ==
    /\ size < Capacity
    /\ nextId \in PageId
    /\ page' = [page EXCEPT ![nextId] = NewPage(c)]
    /\ nextId' = nextId + 1
    /\ size' = size + 1

Remove(p) ==
    /\ Present(p)
    /\ page' = [page EXCEPT ![p] = Missing]
    /\ size' = size - 1
    /\ UNCHANGED nextId

(* Defect: the pin count is not consulted again at the transition.         *)
TransitionAllowedUnpinned(p) == Present(p)

(* The condition under which apply_tier_transition returns True.           *)
TransitionAllowed(p) == Present(p) /\ page[p].pin_count = 0

ApplyTierTransition(p, t, c) ==
    /\ TransitionAllowed(p)
    /\ page' = [page EXCEPT ![p].tier = t, ![p].current_checksum = c]
    /\ UNCHANGED <<nextId, size>>

Touch(p) ==
    /\ Present(p)
    /\ page[p].access_count < MaxAccesses
    /\ page' = [page EXCEPT ![p].access_count = @ + 1]
    /\ UNCHANGED <<nextId, size>>

Pin(p) ==
    /\ Present(p)
    /\ page[p].pin_count < MaxPins
    /\ page' = [page EXCEPT ![p].pin_count = @ + 1]
    /\ UNCHANGED <<nextId, size>>

Unpin(p) ==
    /\ Present(p)
    /\ page[p].pin_count > 0
    /\ page' = [page EXCEPT ![p].pin_count = @ - 1]
    /\ UNCHANGED <<nextId, size>>

(* Only the pages of the batch that are in the table are updated.          *)
UpdateScoreInputs(batch, f) ==
    /\ page' = [p \in PageId |-> IF p \in batch /\ Present(p)
                                 THEN [page[p] EXCEPT !.inputs = f[p]]
                                 ELSE page[p]]
    /\ UNCHANGED <<nextId, size>>

PageNext ==
    \/ \E c \in Checksums : Add(c)
    \/ \E p \in PageId :
        \/ Remove(p)
        \/ \E t \in Targets, c \in Checksums : ApplyTierTransition(p, t, c)
        \/ Touch(p)
        \/ Pin(p)
        \/ Unpin(p)
    \/ \E batch \in SUBSET PageId : \E f \in [batch -> Inputs] :
        UpdateScoreInputs(batch, f)

PageSpec == PageInit /\ [][PageNext]_pageVars
=============================================================================
