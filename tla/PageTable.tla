------------------------------ MODULE PageTable ------------------------------
(***************************************************************************)
(* contracts/page.py: PageTable.  A NumPy array `arr` of rows of which the *)
(* first `size` are in use, and an index `rowOf` from page id to row that  *)
(* grows on demand.  remove() compacts by moving the last row into the     *)
(* hole, so a page's row changes under it: every operation must go through *)
(* the index, and the index must follow the move.                          *)
(***************************************************************************)
EXTENDS Integers, FiniteSets

CONSTANTS
    MaxPageId, Capacity, Checksums, Inputs, NewInputs, Targets,
    MaxPins, MaxAccesses,   \* as in PageMap
    InitialIndex,           \* initial length of the index: max(2 * capacity, 1024)
    IndexSlack              \* cells past the id an index is grown for: 1024

VARIABLES
    arr,        \* _arr: row -> page metadata; rows at or past size are leftovers
    rowOf,      \* _page_to_row: page id -> row or -1
    indexLen,   \* len(_page_to_row); rowOf is meaningful below it
    nextId,     \* _next_id
    size        \* _size

tableVars == <<arr, rowOf, indexLen, nextId, size>>

(* The map a caller sees through the getters.                              *)
GetRow(p) == IF 0 <= p /\ p < indexLen THEN rowOf[p] ELSE -1

Seen(p) ==
    [tier |-> arr[GetRow(p)].tier,
     pin_count |-> arr[GetRow(p)].pin_count,
     bf16_checksum |-> arr[GetRow(p)].bf16_checksum,
     current_checksum |-> arr[GetRow(p)].current_checksum,
     access_count |-> arr[GetRow(p)].access_count,
     inputs |-> arr[GetRow(p)].inputs]

Absent == [tier |-> -1, pin_count |-> -1, bf16_checksum |-> 0,
           current_checksum |-> 0, access_count |-> -1, inputs |-> NewInputs]

Lookup(p) == IF GetRow(p) < 0 THEN Absent ELSE Seen(p)

Map == INSTANCE PageMap WITH page <- [p \in 0 .. MaxPageId |-> Lookup(p)]

PageId == Map!PageId

ASSUME PageTableAssumption ==
    /\ Map!PageMapAssumption
    /\ InitialIndex \in Nat \ {0}
    /\ IndexSlack \in Nat \ {0}

RowId == 0 .. Capacity - 1

Row == [page_id : PageId \cup {-1}, tier : Map!Tier, pin_count : Nat,
        bf16_checksum : Nat, current_checksum : Nat, access_count : Nat,
        inputs : Inputs]

TypeOK ==
    /\ arr \in [RowId -> Row]
    /\ rowOf \in [PageId -> RowId \cup {-1}]
    /\ indexLen \in Nat \ {0}
    /\ nextId \in Nat
    /\ size \in 0 .. Capacity

-----------------------------------------------------------------------------
(* np.zeros, with page_id set to -1.                                       *)
EmptyRow == [page_id |-> -1, tier |-> 0, pin_count |-> 0, bf16_checksum |-> 0,
             current_checksum |-> 0, access_count |-> 0, inputs |-> NewInputs]

Init ==
    /\ arr = [r \in RowId |-> EmptyRow]
    /\ rowOf = [p \in PageId |-> -1]
    /\ indexLen = InitialIndex
    /\ nextId = 0
    /\ size = 0

NewRow(p, c) ==
    [page_id |-> p, tier |-> Map!BF16, pin_count |-> 0, bf16_checksum |-> c,
     current_checksum |-> c, access_count |-> 0, inputs |-> NewInputs]

(* _ensure_page_to_row_capacity: doubled, or grown past the new id.        *)
GrownIndex(p) ==
    IF p < indexLen THEN indexLen
    ELSE IF 2 * indexLen >= p + IndexSlack THEN 2 * indexLen ELSE p + IndexSlack

(* Defect: the page is indexed before the index is long enough for it, and *)
(* the growth drops the entry.                                             *)
AddBeforeGrowing(c) ==
    /\ size < Capacity
    /\ nextId \in PageId
    /\ arr' = [arr EXCEPT ![size] = NewRow(nextId, c)]
    /\ indexLen' = GrownIndex(nextId)
    /\ rowOf' = IF nextId < indexLen THEN [rowOf EXCEPT ![nextId] = size] ELSE rowOf
    /\ nextId' = nextId + 1
    /\ size' = size + 1

(* Defect: the lowest id that is not in use is given out again.            *)
AddRecyclesId(c) ==
    \E p \in PageId :
        /\ rowOf[p] = -1 /\ \A q \in 0 .. p - 1 : rowOf[q] >= 0
        /\ size < Capacity
        /\ arr' = [arr EXCEPT ![size] = NewRow(p, c)]
        /\ indexLen' = GrownIndex(p)
        /\ rowOf' = [rowOf EXCEPT ![p] = size]
        /\ nextId' = IF p = nextId THEN nextId + 1 ELSE nextId
        /\ size' = size + 1

Add(c) ==
    /\ size < Capacity
    /\ nextId \in PageId
    /\ arr' = [arr EXCEPT ![size] = NewRow(nextId, c)]
    /\ indexLen' = GrownIndex(nextId)
    /\ rowOf' = [rowOf EXCEPT ![nextId] = size]
    /\ nextId' = nextId + 1
    /\ size' = size + 1

(* Defect: the page moved into the hole keeps its old index entry.         *)
RemoveWithoutReindex(p) ==
    LET hole == GetRow(p)
        last == size - 1
    IN  /\ hole >= 0
        /\ arr' = [arr EXCEPT ![hole] = arr[last]]
        /\ rowOf' = [rowOf EXCEPT ![p] = -1]
        /\ size' = size - 1
        /\ UNCHANGED <<indexLen, nextId>>

(* The hole is filled with the last row, whose page is re-indexed; the     *)
(* vacated last row keeps its bytes.                                       *)
Remove(p) ==
    LET hole == GetRow(p)
        last == size - 1
        moved == arr[last].page_id
    IN  /\ hole >= 0
        /\ IF hole = last
           THEN /\ rowOf' = [rowOf EXCEPT ![p] = -1]
                /\ UNCHANGED arr
           ELSE /\ arr' = [arr EXCEPT ![hole] = arr[last]]
                /\ rowOf' = [rowOf EXCEPT ![p] = -1, ![moved] = hole]
        /\ size' = size - 1
        /\ UNCHANGED <<indexLen, nextId>>

ApplyTierTransition(p, t, c) ==
    /\ GetRow(p) >= 0
    /\ arr[GetRow(p)].pin_count = 0
    /\ arr' = [arr EXCEPT ![GetRow(p)].tier = t,
                          ![GetRow(p)].current_checksum = c]
    /\ UNCHANGED <<rowOf, indexLen, nextId, size>>

Touch(p) ==
    /\ GetRow(p) >= 0
    /\ arr[GetRow(p)].access_count < MaxAccesses
    /\ arr' = [arr EXCEPT ![GetRow(p)].access_count = @ + 1]
    /\ UNCHANGED <<rowOf, indexLen, nextId, size>>

Pin(p) ==
    /\ GetRow(p) >= 0
    /\ arr[GetRow(p)].pin_count < MaxPins
    /\ arr' = [arr EXCEPT ![GetRow(p)].pin_count = @ + 1]
    /\ UNCHANGED <<rowOf, indexLen, nextId, size>>

Unpin(p) ==
    /\ GetRow(p) >= 0
    /\ arr[GetRow(p)].pin_count > 0
    /\ arr' = [arr EXCEPT ![GetRow(p)].pin_count = @ - 1]
    /\ UNCHANGED <<rowOf, indexLen, nextId, size>>

(* Defect: the inputs are written by page id instead of by row.            *)
UpdateScoreInputsById(batch, f) ==
    /\ arr' = [r \in RowId |-> IF r \in batch
                               THEN [arr[r] EXCEPT !.inputs = f[r]]
                               ELSE arr[r]]
    /\ UNCHANGED <<rowOf, indexLen, nextId, size>>

(* The batch is translated to rows once; the writes then go by row.        *)
UpdateScoreInputs(batch, f) ==
    LET rows == {GetRow(p) : p \in {q \in batch : GetRow(q) >= 0}}
        pageAt(r) == CHOOSE p \in batch : GetRow(p) = r
    IN  /\ arr' = [r \in RowId |-> IF r \in rows
                                   THEN [arr[r] EXCEPT !.inputs = f[pageAt(r)]]
                                   ELSE arr[r]]
        /\ UNCHANGED <<rowOf, indexLen, nextId, size>>

Next ==
    \/ \E c \in Checksums : Add(c)
    \/ \E p \in PageId :
        \/ Remove(p)
        \/ \E t \in Targets, c \in Checksums : ApplyTierTransition(p, t, c)
        \/ Touch(p)
        \/ Pin(p)
        \/ Unpin(p)
    \/ \E batch \in SUBSET PageId : \E f \in [batch -> Inputs] :
        UpdateScoreInputs(batch, f)

Spec == Init /\ [][Next]_tableVars

(* snapshot(): the rows in use, as a copy.                                 *)
Snapshot == {arr[r] : r \in 0 .. size - 1}

-----------------------------------------------------------------------------
(* Index and rows agree in both directions: an indexed page sits in a row  *)
(* in use that carries its id, and the page of every row in use is indexed *)
(* at that row.  Compaction by swap-with-last and growth of the index must *)
(* both preserve it, or a later operation lands on another page's row.     *)
IndexConsistent ==
    /\ \A p \in PageId : GetRow(p) >= 0 =>
            GetRow(p) < size /\ arr[GetRow(p)].page_id = p
    /\ \A r \in 0 .. size - 1 :
            arr[r].page_id \in PageId /\ GetRow(arr[r].page_id) = r

(* An id that was never handed out is not indexed, and the cells the index *)
(* does not have yet are as np.full will make them.                        *)
IndexFresh ==
    \A p \in PageId :
        /\ p >= nextId => rowOf[p] = -1
        /\ rowOf[p] >= 0 => p < indexLen

(* What makes IndexConsistent inductive.                                   *)
TableInv == TypeOK /\ IndexConsistent /\ IndexFresh

(* A page that a step neither adds nor removes keeps the checksum it was   *)
(* registered with, whatever row compaction moves it to: every integrity   *)
(* decision of migrate() is anchored in it.                                *)
AnchorImmutable ==
    [][\A p \in PageId : GetRow(p) >= 0 /\ GetRow(p)' >= 0 =>
            Lookup(p)'.bf16_checksum = Lookup(p).bf16_checksum]_tableVars

(* A pinned page that stays in the table keeps its tier.                   *)
PinnedKeepsTier ==
    [][\A p \in PageId :
            GetRow(p) >= 0 /\ Lookup(p).pin_count > 0 /\ GetRow(p)' >= 0
                => Lookup(p)'.tier = Lookup(p).tier]_tableVars

(* An id names one page for ever: a page that has left does not come back, *)
(* nor does another under its id.  So what the controller decides on the   *)
(* copy that snapshot() returns is done to the page it was decided for, or *)
(* to none, whatever is added, removed and compacted in between.           *)
GoneForGood ==
    [][\A p \in PageId : p < nextId /\ GetRow(p) < 0 => GetRow(p)' < 0]_tableVars

(* A batch of score inputs reaches the pages it names and no other, though *)
(* it names pages that have been removed, and rows of pages that have been *)
(* moved since.  (PageMap cannot tell: some batch explains every change.)  *)
BatchReachesItsPages ==
    [][\A batch \in SUBSET PageId : \A f \in [batch -> Inputs] :
        UpdateScoreInputs(batch, f) =>
            \A p \in PageId : Lookup(p)' =
                IF p \in batch /\ GetRow(p) >= 0
                THEN [Lookup(p) EXCEPT !.inputs = f[p]] ELSE Lookup(p)]_tableVars

(* The rows are a faithful implementation of the map: see PageMap.         *)
ImplementsPageMap == Map!PageSpec
=============================================================================
