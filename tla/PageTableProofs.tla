--------------------------- MODULE PageTableProofs ---------------------------
(***************************************************************************)
(* Proofs about PageTable: the index and the rows agree in every reachable *)
(* state, whatever the capacity and the length of the index.               *)
(***************************************************************************)
EXTENDS PageTable, TLAPS

USE DEF PageId, RowId, Map!PageId

LEMMA InitInv == Init => TableInv
BY PageTableAssumption DEF Init, TableInv, TypeOK, IndexConsistent, IndexFresh,
   GetRow, EmptyRow, Row, Map!Tier, Map!BF16, Map!DISK, Map!PageMapAssumption

(* The row of an indexed page is in use.                                   *)
LEMMA IndexedRow ==
    ASSUME TableInv, NEW p \in PageId, GetRow(p) >= 0
    PROVE  /\ GetRow(p) \in RowId
           /\ GetRow(p) < size
           /\ GetRow(p) = rowOf[p]
           /\ arr[GetRow(p)].page_id = p
BY PageTableAssumption DEF TableInv, TypeOK, IndexConsistent, GetRow,
   Map!PageMapAssumption

LEMMA AddInv ==
    ASSUME TableInv, NEW c \in Checksums, Add(c)
    PROVE  TableInv'
<1> USE PageTableAssumption DEF Map!PageMapAssumption
<1>1. /\ nextId \in PageId /\ size \in RowId
      /\ indexLen' \in Nat \ {0} /\ indexLen <= indexLen' /\ nextId < indexLen'
  BY DEF TableInv, TypeOK, Add, GrownIndex
<1>2. NewRow(nextId, c) \in Row
  BY <1>1 DEF NewRow, Row, Map!Tier, Map!BF16, Map!DISK
<1>3. TypeOK'
  BY <1>1, <1>2 DEF TableInv, TypeOK, Add
<1>4. IndexFresh'
  BY <1>1 DEF TableInv, TypeOK, Add, IndexFresh
<1>5. ASSUME NEW p \in PageId
      PROVE  GetRow(p)' = IF p = nextId THEN size ELSE GetRow(p)
  BY <1>1 DEF TableInv, TypeOK, Add, GetRow, IndexFresh
<1>6. ASSUME NEW p \in PageId, GetRow(p)' >= 0
      PROVE  GetRow(p)' < size' /\ arr'[GetRow(p)'].page_id = p
  <2>1. CASE p = nextId
    BY <1>1, <1>5, <2>1 DEF TableInv, TypeOK, Add, NewRow
  <2>2. CASE p # nextId
    BY <1>1, <1>5, <1>6, <2>2, IndexedRow DEF TableInv, TypeOK, Add
  <2>3. QED BY <2>1, <2>2
<1>7. ASSUME NEW r \in 0 .. size' - 1
      PROVE  arr'[r].page_id \in PageId /\ (GetRow(arr[r].page_id) = r)'
  <2>1. CASE r = size
    BY <1>1, <1>5, <2>1 DEF TableInv, TypeOK, Add, NewRow, GetRow
  <2>2. CASE r # size
    <3>1. r \in 0 .. size - 1 /\ r \in RowId /\ arr'[r] = arr[r]
      BY <1>1, <2>2 DEF TableInv, TypeOK, Add
    <3>2. arr[r].page_id \in PageId /\ GetRow(arr[r].page_id) = r
      BY <3>1 DEF TableInv, IndexConsistent
    <3>3. arr[r].page_id # nextId
      BY <3>1, <3>2 DEF TableInv, IndexFresh, GetRow, TypeOK
    <3>4. QED BY <1>5, <3>1, <3>2, <3>3 DEF GetRow
  <2>3. QED BY <2>1, <2>2
<1>8. IndexConsistent'
  BY <1>6, <1>7 DEF IndexConsistent
<1>9. QED BY <1>3, <1>4, <1>8 DEF TableInv

(* Writes to fields of one row that keep its page_id.                      *)
LEMMA RowUpdateInv ==
    ASSUME TableInv, UNCHANGED <<rowOf, indexLen, nextId, size>>,
           arr' \in [RowId -> Row],
           \A r \in RowId : arr'[r].page_id = arr[r].page_id
    PROVE  TableInv'
<1> USE PageTableAssumption DEF Map!PageMapAssumption
<1>1. TypeOK' /\ IndexFresh'
  BY DEF TableInv, TypeOK, IndexFresh
<1>2. \A p : GetRow(p)' = GetRow(p)
  BY DEF GetRow
<1>3. ASSUME NEW p \in PageId, GetRow(p)' >= 0
      PROVE  GetRow(p)' < size' /\ arr'[GetRow(p)'].page_id = p
  BY <1>2, <1>3, IndexedRow
<1>4. ASSUME NEW r \in 0 .. size' - 1
      PROVE  arr'[r].page_id \in PageId /\ (GetRow(arr[r].page_id) = r)'
  <2>1. r \in RowId /\ r \in 0 .. size - 1
    BY DEF TableInv, TypeOK
  <2>2. QED BY <2>1 DEF TableInv, IndexConsistent, GetRow
<1>5. QED BY <1>1, <1>3, <1>4 DEF TableInv, IndexConsistent

(* A write to fields of the row of one page that keeps its page_id.        *)
LEMMA OneRowInv ==
    ASSUME TableInv, UNCHANGED <<rowOf, indexLen, nextId, size>>,
           NEW p \in PageId, GetRow(p) >= 0, NEW row \in Row,
           row.page_id = arr[GetRow(p)].page_id,
           arr' = [arr EXCEPT ![GetRow(p)] = row]
    PROVE  TableInv'
<1>1. GetRow(p) \in RowId /\ arr \in [RowId -> Row]
  BY IndexedRow DEF TableInv, TypeOK
<1>2. arr' \in [RowId -> Row]
  BY <1>1
<1>3. \A r \in RowId : arr'[r].page_id = arr[r].page_id
  BY <1>1
<1>4. QED BY <1>2, <1>3, RowUpdateInv

LEMMA RemoveInv ==
    ASSUME TableInv, NEW p \in PageId, Remove(p)
    PROVE  TableInv'
<1> USE PageTableAssumption DEF Map!PageMapAssumption
<1> DEFINE hole == GetRow(p)
           last == size - 1
           moved == arr[last].page_id
<1>1. /\ hole \in RowId /\ hole <= last /\ last \in RowId
      /\ hole = rowOf[p] /\ arr[hole].page_id = p
  BY IndexedRow DEF Remove, TableInv, TypeOK
<1>2. moved \in PageId /\ GetRow(moved) = last /\ moved < indexLen
  BY <1>1 DEF TableInv, TypeOK, IndexConsistent, IndexFresh, GetRow
<1>3. /\ rowOf' = IF hole = last THEN [rowOf EXCEPT ![p] = -1]
                  ELSE [rowOf EXCEPT ![p] = -1, ![moved] = hole]
      /\ arr' = IF hole = last THEN arr ELSE [arr EXCEPT ![hole] = arr[last]]
  BY DEF Remove
<1>10. size' = last /\ indexLen' = indexLen /\ nextId' = nextId
  BY DEF Remove
<1>11. \A r \in RowId : arr'[r] = IF r = hole THEN arr[last] ELSE arr[r]
  BY <1>1, <1>3 DEF TableInv, TypeOK
<1>4. TypeOK'
  <2>1. arr' \in [RowId -> Row]
    BY <1>1, <1>3 DEF TableInv, TypeOK
  <2>2. rowOf' \in [PageId -> RowId \cup {-1}]
    BY <1>1, <1>2, <1>3 DEF TableInv, TypeOK
  <2>3. QED BY <1>1, <1>10, <2>1, <2>2 DEF TableInv, TypeOK
<1>5. hole # last => moved # p
  BY <1>2
<1>6. ASSUME NEW q \in PageId
      PROVE  GetRow(q)' = IF q = p THEN -1
                          ELSE IF hole # last /\ q = moved THEN hole
                          ELSE GetRow(q)
  BY <1>1, <1>2, <1>3, <1>10, <1>5 DEF TableInv, TypeOK, GetRow
<1>7. IndexFresh'
  BY <1>1, <1>2, <1>3, <1>10, <1>5 DEF TableInv, TypeOK, IndexFresh, GetRow
<1>8. ASSUME NEW q \in PageId, GetRow(q)' >= 0
      PROVE  GetRow(q)' < size' /\ arr'[GetRow(q)'].page_id = q
  <2>1. q # p
    BY <1>6, <1>8
  <2>2. CASE hole # last /\ q = moved
    BY <1>1, <1>2, <1>10, <1>11, <1>6, <2>1, <2>2
  <2>3. CASE ~(hole # last /\ q = moved)
    <3>1. GetRow(q)' = GetRow(q) /\ GetRow(q) >= 0
      BY <1>6, <1>8, <2>1, <2>3
    <3>2. GetRow(q) \in RowId /\ GetRow(q) < size /\ arr[GetRow(q)].page_id = q
      BY <3>1, IndexedRow
    <3>3. GetRow(q) # hole
      BY <1>1, <2>1, <3>2
    <3>4. GetRow(q) # last
      BY <1>1, <2>3, <3>2, <3>3
    <3>5. QED BY <1>1, <1>10, <1>11, <3>1, <3>2, <3>3, <3>4 DEF TableInv, TypeOK
  <2>4. QED BY <2>2, <2>3
<1>9. ASSUME NEW r \in 0 .. size' - 1
      PROVE  arr'[r].page_id \in PageId /\ (GetRow(arr[r].page_id) = r)'
  <2>1. r \in 0 .. size - 1 /\ r \in RowId /\ r # last
    BY <1>1, <1>10 DEF TableInv, TypeOK
  <2>2. arr[r].page_id \in PageId /\ GetRow(arr[r].page_id) = r
    BY <2>1 DEF TableInv, IndexConsistent
  <2>3. CASE r = hole
    BY <1>1, <1>2, <1>11, <1>5, <1>6, <2>1, <2>3 DEF GetRow
  <2>4. CASE r # hole
    <3>1. arr'[r] = arr[r]
      BY <1>11, <2>1, <2>4
    <3>2. arr[r].page_id # p /\ arr[r].page_id # moved
      BY <1>2, <2>1, <2>2, <2>4
    <3>3. QED BY <1>6, <2>2, <3>1, <3>2 DEF GetRow
  <2>5. QED BY <2>3, <2>4
<1>12. QED BY <1>4, <1>7, <1>8, <1>9 DEF TableInv, IndexConsistent

LEMMA NextInv == TableInv /\ [Next]_tableVars => TableInv'
<1> SUFFICES ASSUME TableInv, [Next]_tableVars
             PROVE  TableInv'
  OBVIOUS
<1> USE PageTableAssumption DEF Map!PageMapAssumption
<1>1. ASSUME NEW c \in Checksums, Add(c)
      PROVE  TableInv'
  BY <1>1, AddInv
<1>2. ASSUME NEW p \in PageId, Remove(p)
      PROVE  TableInv'
  BY <1>2, RemoveInv
<1>3. ASSUME NEW p \in PageId, NEW t \in Targets, NEW c \in Checksums,
             ApplyTierTransition(p, t, c)
      PROVE  TableInv'
  <2> DEFINE row == [arr[GetRow(p)] EXCEPT !.tier = t, !.current_checksum = c]
  <2>1. arr[GetRow(p)] \in Row /\ GetRow(p) >= 0
    BY <1>3, IndexedRow DEF ApplyTierTransition, TableInv, TypeOK
  <2>2. row \in Row /\ row.page_id = arr[GetRow(p)].page_id
    BY <2>1 DEF Row
  <2>3. arr' = [arr EXCEPT ![GetRow(p)] = row]
    BY <1>3 DEF ApplyTierTransition
  <2>4. QED BY <1>3, <2>1, <2>2, <2>3, OneRowInv DEF ApplyTierTransition
<1>4. ASSUME NEW p \in PageId, Touch(p)
      PROVE  TableInv'
  <2> DEFINE row == [arr[GetRow(p)] EXCEPT !.access_count = @ + 1]
  <2>1. arr[GetRow(p)] \in Row /\ GetRow(p) >= 0
    BY <1>4, IndexedRow DEF Touch, TableInv, TypeOK
  <2>2. row \in Row /\ row.page_id = arr[GetRow(p)].page_id
    BY <2>1 DEF Row
  <2>3. arr' = [arr EXCEPT ![GetRow(p)] = row]
    BY <1>4 DEF Touch
  <2>4. QED BY <1>4, <2>1, <2>2, <2>3, OneRowInv DEF Touch
<1>5. ASSUME NEW p \in PageId, Pin(p)
      PROVE  TableInv'
  <2> DEFINE row == [arr[GetRow(p)] EXCEPT !.pin_count = @ + 1]
  <2>1. arr[GetRow(p)] \in Row /\ GetRow(p) >= 0
    BY <1>5, IndexedRow DEF Pin, TableInv, TypeOK
  <2>2. row \in Row /\ row.page_id = arr[GetRow(p)].page_id
    BY <2>1 DEF Row
  <2>3. arr' = [arr EXCEPT ![GetRow(p)] = row]
    BY <1>5 DEF Pin
  <2>4. QED BY <1>5, <2>1, <2>2, <2>3, OneRowInv DEF Pin
<1>6. ASSUME NEW p \in PageId, Unpin(p)
      PROVE  TableInv'
  <2> DEFINE row == [arr[GetRow(p)] EXCEPT !.pin_count = @ - 1]
  <2>1. arr[GetRow(p)] \in Row /\ GetRow(p) >= 0
    BY <1>6, IndexedRow DEF Unpin, TableInv, TypeOK
  <2>2. row \in Row /\ row.page_id = arr[GetRow(p)].page_id
    BY <1>6, <2>1 DEF Unpin, Row
  <2>3. arr' = [arr EXCEPT ![GetRow(p)] = row]
    BY <1>6 DEF Unpin
  <2>4. QED BY <1>6, <2>1, <2>2, <2>3, OneRowInv DEF Unpin
<1>7. ASSUME NEW batch \in SUBSET PageId, NEW f \in [batch -> Inputs],
             UpdateScoreInputs(batch, f)
      PROVE  TableInv'
  <2> DEFINE rows == {GetRow(p) : p \in {q \in batch : GetRow(q) >= 0}}
             pageAt(r) == CHOOSE p \in batch : GetRow(p) = r
  <2>1. \A r \in rows : f[pageAt(r)] \in Inputs
    OBVIOUS
  <2>2. \A r \in RowId : arr'[r] = IF r \in rows
                                   THEN [arr[r] EXCEPT !.inputs = f[pageAt(r)]]
                                   ELSE arr[r]
    BY <1>7 DEF UpdateScoreInputs
  <2>3. arr' = [r \in RowId |-> arr'[r]]
    BY <1>7 DEF UpdateScoreInputs
  <2>4. \A r \in RowId : arr'[r] \in Row /\ arr'[r].page_id = arr[r].page_id
    <3> HIDE DEF rows, pageAt
    <3> QED BY ZenonT(40), <2>1, <2>2 DEF TableInv, TypeOK, Row
  <2>5. arr' \in [RowId -> Row]
    BY <2>3, <2>4
  <2>6. QED BY <1>7, <2>4, <2>5, RowUpdateInv DEF UpdateScoreInputs
<1>8. CASE UNCHANGED tableVars
  BY <1>8 DEF TableInv, TypeOK, IndexConsistent, IndexFresh, GetRow, tableVars
<1>9. QED
  BY <1>1, <1>2, <1>3, <1>4, <1>5, <1>6, <1>7, <1>8 DEF Next

(* The rows and the index of every reachable table agree, and have their   *)
(* types: compaction and growth never misplace a page.                     *)
THEOREM TableCorrect == Spec => []TableInv
BY InitInv, NextInv, PTL DEF Spec

(* The index finds for every id the row of that page, and nothing else.    *)
THEOREM IndexAlwaysConsistent == Spec => [](TypeOK /\ IndexConsistent)
<1>1. TableInv => TypeOK /\ IndexConsistent
  BY DEF TableInv
<1>2. QED BY <1>1, TableCorrect, PTL

-----------------------------------------------------------------------------
(* What a step does to a page it neither adds nor removes.                 *)
Kept(p) ==
    /\ GetRow(p) >= 0 <=> GetRow(p)' >= 0
    /\ GetRow(p) >= 0 =>
        /\ arr'[GetRow(p)'].bf16_checksum = arr[GetRow(p)].bf16_checksum
        /\ arr[GetRow(p)].pin_count > 0 => arr'[GetRow(p)'].tier = arr[GetRow(p)].tier

(* ... and to one it does not name.                                        *)
Untouched(p) ==
    /\ GetRow(p) >= 0 <=> GetRow(p)' >= 0
    /\ GetRow(p) >= 0 => arr'[GetRow(p)'] = arr[GetRow(p)]

LEMMA AddKeeps ==
    ASSUME TableInv, NEW c \in Checksums, Add(c), NEW p \in PageId, p # nextId
    PROVE  Untouched(p)
<1> USE PageTableAssumption DEF Map!PageMapAssumption
<1>1. /\ nextId \in PageId
      /\ indexLen' \in Nat \ {0} /\ indexLen <= indexLen' /\ nextId < indexLen'
  BY DEF TableInv, TypeOK, Add, GrownIndex
<1>2. GetRow(p)' = GetRow(p)
  BY <1>1 DEF TableInv, TypeOK, Add, GetRow, IndexFresh
<1>3. ASSUME GetRow(p) >= 0
      PROVE  arr'[GetRow(p)] = arr[GetRow(p)]
  BY <1>3, IndexedRow DEF TableInv, TypeOK, Add
<1>4. QED BY <1>2, <1>3 DEF Untouched

LEMMA RemoveKeeps ==
    ASSUME TableInv, NEW q \in PageId, Remove(q), NEW p \in PageId, p # q
    PROVE  Untouched(p)
<1> USE PageTableAssumption DEF Map!PageMapAssumption
<1> DEFINE hole == GetRow(q)
           last == size - 1
           moved == arr[last].page_id
<1>1. /\ hole \in RowId /\ hole <= last /\ last \in RowId /\ arr[hole].page_id = q
      /\ hole = rowOf[q]
  BY IndexedRow DEF Remove, TableInv, TypeOK
<1>2. moved \in PageId /\ GetRow(moved) = last
  BY <1>1 DEF TableInv, TypeOK, IndexConsistent
<1>3. /\ rowOf' = IF hole = last THEN [rowOf EXCEPT ![q] = -1]
                  ELSE [rowOf EXCEPT ![q] = -1, ![moved] = hole]
      /\ \A r \in RowId : arr'[r] = IF r = hole THEN arr[last] ELSE arr[r]
      /\ indexLen' = indexLen
  BY <1>1 DEF Remove, TableInv, TypeOK
<1>4. CASE hole # last /\ p = moved
  <2>1. GetRow(p)' = hole /\ GetRow(p) = last
    BY <1>1, <1>2, <1>3, <1>4 DEF TableInv, TypeOK, IndexFresh, GetRow
  <2>2. arr'[hole] = arr[last]
    BY <1>1, <1>3
  <2>3. QED BY <1>1, <2>1, <2>2 DEF Untouched, TableInv, TypeOK
<1>5. CASE ~(hole # last /\ p = moved)
  <2>1. GetRow(p)' = GetRow(p)
    BY <1>1, <1>2, <1>3, <1>5 DEF TableInv, TypeOK, GetRow
  <2>2. ASSUME GetRow(p) >= 0
        PROVE  arr'[GetRow(p)] = arr[GetRow(p)]
    BY <1>1, <1>3, <2>2, IndexedRow
  <2>3. QED BY <2>1, <2>2 DEF Untouched
<1>6. QED BY <1>4, <1>5

LEMMA UpdateKeeps ==
    ASSUME TableInv, NEW p \in PageId,
           \/ \E q \in PageId :
                \/ Touch(q) \/ Pin(q) \/ Unpin(q)
                \/ \E t \in Targets, c \in Checksums : ApplyTierTransition(q, t, c)
           \/ \E batch \in SUBSET PageId : \E f \in [batch -> Inputs] :
                UpdateScoreInputs(batch, f)
           \/ UNCHANGED tableVars
    PROVE  Kept(p)
<1>1. GetRow(p)' = GetRow(p)
  BY DEF Touch, Pin, Unpin, ApplyTierTransition, UpdateScoreInputs, tableVars, GetRow
<1>2. SUFFICES ASSUME GetRow(p) >= 0
               PROVE  /\ arr'[GetRow(p)].bf16_checksum = arr[GetRow(p)].bf16_checksum
                      /\ arr[GetRow(p)].pin_count > 0 =>
                            arr'[GetRow(p)].tier = arr[GetRow(p)].tier
  BY <1>1 DEF Kept
<1>3. /\ GetRow(p) \in RowId /\ arr \in [RowId -> Row] /\ arr[GetRow(p)] \in Row
      /\ \A q \in PageId : GetRow(q) >= 0 =>
            GetRow(q) \in RowId /\ arr[GetRow(q)] \in Row
  BY <1>2, IndexedRow DEF TableInv, TypeOK
<1>4. ASSUME NEW q \in PageId, Touch(q) \/ Pin(q) \/ Unpin(q)
      PROVE  /\ arr'[GetRow(p)].bf16_checksum = arr[GetRow(p)].bf16_checksum
             /\ arr'[GetRow(p)].tier = arr[GetRow(p)].tier
  <2>1. PICK n : \/ arr' = [arr EXCEPT ![GetRow(q)].access_count = n]
                 \/ arr' = [arr EXCEPT ![GetRow(q)].pin_count = n]
    BY <1>4 DEF Touch, Pin, Unpin
  <2>2. GetRow(q) \in RowId
    BY <1>3, <1>4 DEF Touch, Pin, Unpin
  <2>3. CASE GetRow(q) # GetRow(p)
    BY <1>3, <2>1, <2>2, <2>3
  <2>4. CASE GetRow(q) = GetRow(p)
    <3>1. \/ arr'[GetRow(p)] = [arr[GetRow(p)] EXCEPT !.access_count = n]
          \/ arr'[GetRow(p)] = [arr[GetRow(p)] EXCEPT !.pin_count = n]
      BY <1>3, <2>1, <2>4
    <3>2. QED BY <1>3, <3>1 DEF Row
  <2>5. QED BY <2>3, <2>4
<1>5. ASSUME NEW q \in PageId, NEW t \in Targets, NEW c \in Checksums,
             ApplyTierTransition(q, t, c)
      PROVE  /\ arr'[GetRow(p)].bf16_checksum = arr[GetRow(p)].bf16_checksum
             /\ arr[GetRow(p)].pin_count > 0 =>
                    arr'[GetRow(p)].tier = arr[GetRow(p)].tier
  BY <1>3, <1>5 DEF ApplyTierTransition, Row
<1>6. ASSUME NEW batch \in SUBSET PageId, NEW f \in [batch -> Inputs],
             UpdateScoreInputs(batch, f)
      PROVE  /\ arr'[GetRow(p)].bf16_checksum = arr[GetRow(p)].bf16_checksum
             /\ arr'[GetRow(p)].tier = arr[GetRow(p)].tier
  <2>1. PICK i : arr'[GetRow(p)] = arr[GetRow(p)]
                 \/ arr'[GetRow(p)] = [arr[GetRow(p)] EXCEPT !.inputs = i]
    BY <1>3, <1>6 DEF UpdateScoreInputs
  <2>2. QED BY <1>3, <2>1 DEF Row
<1>7. QED BY <1>4, <1>5, <1>6 DEF tableVars

(* Every page but the one that is added or removed is kept.                *)
LEMMA StepKeeps ==
    ASSUME TableInv, [Next]_tableVars, NEW p \in PageId
    PROVE  \/ Kept(p)
           \/ p = nextId /\ \E c \in Checksums : Add(c)
           \/ Remove(p)
<1>1. Untouched(p) => Kept(p)
  BY DEF Untouched, Kept
<1>2. QED BY <1>1, AddKeeps, RemoveKeeps, UpdateKeeps DEF Next

LEMMA RemovedIsGone ==
    ASSUME TableInv, NEW p \in PageId, Remove(p)
    PROVE  GetRow(p)' < 0
<1>1. GetRow(p) = rowOf[p] /\ GetRow(p) < size
  BY IndexedRow DEF Remove
<1>2. GetRow(p) # size - 1 => arr[size - 1].page_id # p
  BY <1>1, PageTableAssumption
     DEF Remove, TableInv, TypeOK, IndexConsistent, Map!PageMapAssumption
<1>3. rowOf'[p] = -1
  BY <1>1, <1>2 DEF Remove, TableInv, TypeOK
<1>4. QED BY <1>3, PageTableAssumption
          DEF GetRow, Remove, TableInv, IndexFresh, Map!PageMapAssumption

(* The id that add() is about to give out is not in the table.             *)
LEMMA NextIdIsNew ==
    ASSUME TableInv, nextId \in PageId
    PROVE  GetRow(nextId) < 0
BY DEF TableInv, IndexFresh, GetRow

LEMMA RowsTyped ==
    ASSUME TableInv, [Next]_tableVars, NEW p \in PageId
    PROVE  GetRow(p) \in RowId \cup {-1} /\ GetRow(p)' \in RowId \cup {-1}
<1>1. TableInv'
  BY NextInv
<1>2. QED BY <1>1, PageTableAssumption DEF TableInv, TypeOK, GetRow, Map!PageMapAssumption

(* A page that is in the table before and after a step is kept.            *)
LEMMA StayingKept ==
    ASSUME TableInv, [Next]_tableVars, NEW p \in PageId, GetRow(p) >= 0, GetRow(p)' >= 0
    PROVE  Kept(p) /\ Lookup(p) = Seen(p) /\ Lookup(p)' = Seen(p)'
<1>1. GetRow(p) \in Int /\ GetRow(p)' \in Int
  BY RowsTyped, PageTableAssumption DEF Map!PageMapAssumption
<1>2. ~Remove(p) /\ p # nextId
  BY <1>1, RemovedIsGone, NextIdIsNew
<1>3. Lookup(p) = Seen(p) /\ Lookup(p)' = Seen(p)'
  BY <1>1 DEF Lookup
<1>4. QED BY <1>2, <1>3, StepKeeps

(* A page's anchor is immutable, wherever compaction puts its row.         *)
THEOREM AnchorsAreImmutable == Spec => AnchorImmutable
<1>1. ASSUME TableInv, [Next]_tableVars, NEW p \in PageId,
             GetRow(p) >= 0, GetRow(p)' >= 0
      PROVE  Lookup(p)'.bf16_checksum = Lookup(p).bf16_checksum
  <2>1. Kept(p) /\ Lookup(p) = Seen(p) /\ Lookup(p)' = Seen(p)'
    BY <1>1, StayingKept
  <2>2. QED BY <1>1, <2>1 DEF Kept, Seen
<1>2. TableInv /\ [Next]_tableVars =>
        [\A p \in PageId : GetRow(p) >= 0 /\ GetRow(p)' >= 0 =>
            Lookup(p)'.bf16_checksum = Lookup(p).bf16_checksum]_tableVars
  BY <1>1
<1>3. QED BY <1>2, TableCorrect, PTL DEF Spec, AnchorImmutable

(* No step changes the tier of a page that is pinned.                      *)
THEOREM PinnedPagesKeepTier == Spec => PinnedKeepsTier
<1>1. ASSUME TableInv, [Next]_tableVars, NEW p \in PageId,
             GetRow(p) >= 0, Lookup(p).pin_count > 0, GetRow(p)' >= 0
      PROVE  Lookup(p)'.tier = Lookup(p).tier
  <2>1. Kept(p) /\ Lookup(p) = Seen(p) /\ Lookup(p)' = Seen(p)'
    BY <1>1, StayingKept
  <2>2. QED BY <1>1, <2>1 DEF Kept, Seen
<1>2. TableInv /\ [Next]_tableVars =>
        [\A p \in PageId :
            GetRow(p) >= 0 /\ Lookup(p).pin_count > 0 /\ GetRow(p)' >= 0
                => Lookup(p)'.tier = Lookup(p).tier]_tableVars
  BY <1>1
<1>3. QED BY <1>2, TableCorrect, PTL DEF Spec, PinnedKeepsTier

(* What is decided for a page on a snapshot is done to that page or to     *)
(* none: its id never names another.                                       *)
THEOREM IdsAreNotRecycled == Spec => GoneForGood
<1>1. ASSUME TableInv, [Next]_tableVars, NEW p \in PageId, p < nextId, GetRow(p) < 0
      PROVE  GetRow(p)' < 0
  <2>1. GetRow(p) \in Int /\ GetRow(p)' \in Int
    BY <1>1, RowsTyped, PageTableAssumption DEF Map!PageMapAssumption
  <2>2. Kept(p) => GetRow(p)' < 0
    BY <1>1, <2>1 DEF Kept
  <2>3. p # nextId
    BY <1>1 DEF TableInv, TypeOK
  <2>4. QED BY <1>1, <2>2, <2>3, StepKeeps, RemovedIsGone
<1>2. TableInv /\ [Next]_tableVars =>
        [\A p \in PageId : p < nextId /\ GetRow(p) < 0 => GetRow(p)' < 0]_tableVars
  BY <1>1
<1>3. QED BY <1>2, TableCorrect, PTL DEF Spec, GoneForGood

-----------------------------------------------------------------------------
LEMMA OneRowPerPage ==
    ASSUME TableInv, NEW p \in PageId, NEW q \in PageId,
           GetRow(p) >= 0, GetRow(q) = GetRow(p)
    PROVE  q = p
BY IndexedRow

LEMMA BatchLands ==
    ASSUME TableInv, NEW batch \in SUBSET PageId, NEW f \in [batch -> Inputs],
           UpdateScoreInputs(batch, f), NEW p \in PageId
    PROVE  Lookup(p)' = IF p \in batch /\ GetRow(p) >= 0
                        THEN [Lookup(p) EXCEPT !.inputs = f[p]] ELSE Lookup(p)
<1> DEFINE rows == {GetRow(q) : q \in {o \in batch : GetRow(o) >= 0}}
           pageAt(r) == CHOOSE q \in batch : GetRow(q) = r
<1>1. GetRow(p)' = GetRow(p)
  BY DEF UpdateScoreInputs, GetRow
<1>2. \A r \in RowId : arr'[r] = IF r \in rows
                                 THEN [arr[r] EXCEPT !.inputs = f[pageAt(r)]]
                                 ELSE arr[r]
  BY DEF UpdateScoreInputs
<1>3. CASE ~(GetRow(p) >= 0)
  <2>1. GetRow(p) \in Int
    BY PageTableAssumption DEF TableInv, TypeOK, GetRow, Map!PageMapAssumption
  <2>2. QED BY <1>1, <1>3, <2>1 DEF Lookup
<1>4. CASE GetRow(p) >= 0
  <2>1. /\ GetRow(p) \in RowId /\ arr[GetRow(p)] \in Row
        /\ Lookup(p) = Seen(p) /\ Lookup(p)' = Seen(p)'
    <3>1. GetRow(p) \in RowId /\ arr[GetRow(p)] \in Row
      BY <1>4, IndexedRow DEF TableInv, TypeOK
    <3>2. ~(GetRow(p) < 0)
      BY <1>4, <3>1, PageTableAssumption DEF Map!PageMapAssumption
    <3>3. QED BY <1>1, <3>1, <3>2 DEF Lookup
  <2>2. CASE p \in batch
    <3>1. GetRow(p) \in rows /\ pageAt(GetRow(p)) = p
      BY <1>4, <2>2, OneRowPerPage
    <3>2. arr'[GetRow(p)] = [arr[GetRow(p)] EXCEPT !.inputs = f[p]]
      BY <1>2, <2>1, <3>1
    <3>3. QED BY <1>1, <1>4, <2>1, <2>2, <3>2 DEF Seen, Row
  <2>3. CASE p \notin batch
    <3>1. GetRow(p) \notin rows
      BY <1>4, <2>3, OneRowPerPage
    <3>2. arr'[GetRow(p)] = arr[GetRow(p)]
      BY <1>2, <2>1, <3>1
    <3>3. QED BY <1>1, <2>1, <2>3, <3>2 DEF Seen
  <2>4. QED BY <2>2, <2>3
<1>5. QED BY <1>3, <1>4

(* Score inputs reach the pages they were computed for, wherever the rows  *)
(* have been moved to, and those of pages that have left reach none.       *)
THEOREM BatchesReachTheirPages == Spec => BatchReachesItsPages
<1>1. TableInv /\ [Next]_tableVars =>
        [\A batch \in SUBSET PageId : \A f \in [batch -> Inputs] :
            UpdateScoreInputs(batch, f) =>
                \A p \in PageId : Lookup(p)' =
                    IF p \in batch /\ GetRow(p) >= 0
                    THEN [Lookup(p) EXCEPT !.inputs = f[p]] ELSE Lookup(p)]_tableVars
  BY BatchLands
<1>2. QED BY <1>1, TableCorrect, PTL DEF Spec, BatchReachesItsPages

-----------------------------------------------------------------------------
(* The refinement: what each operation does to what the getters answer.    *)
LEMMA LookupPresent ==
    ASSUME TableInv, NEW p \in PageId
    PROVE  /\ GetRow(p) >= 0 <=> Map!Present(p)
           /\ GetRow(p) >= 0 => /\ GetRow(p) \in RowId /\ arr[GetRow(p)] \in Row
                                /\ Lookup(p) = Seen(p)
           /\ ~(GetRow(p) >= 0) => Lookup(p) = Absent
<1> USE PageTableAssumption DEF Map!PageMapAssumption
<1>1. GetRow(p) \in RowId \cup {-1}
  BY DEF TableInv, TypeOK, GetRow
<1>2. CASE GetRow(p) >= 0
  <2>1. GetRow(p) \in RowId /\ arr[GetRow(p)] \in Row
    BY <1>1, <1>2 DEF TableInv, TypeOK
  <2>2. Lookup(p) = Seen(p)
    BY <1>1, <1>2 DEF Lookup
  <2>3. Map!Present(p)
    BY <2>1, <2>2 DEF Map!Present, Seen, Row, Map!Tier, Map!BF16, Map!DISK
  <2>4. QED BY <1>2, <2>1, <2>2, <2>3
<1>3. CASE ~(GetRow(p) >= 0)
  <2>1. Lookup(p) = Absent
    BY <1>1, <1>3 DEF Lookup
  <2>2. ~Map!Present(p)
    BY <2>1 DEF Map!Present, Absent
  <2>3. QED BY <1>3, <2>1, <2>2
<1>4. QED BY <1>2, <1>3

(* A page whose row, wherever it lies now, holds what it held is seen as   *)
(* it was.                                                                 *)
LEMMA SeenAlike ==
    ASSUME TableInv, TableInv', NEW p \in PageId, Untouched(p)
    PROVE  Lookup(p)' = Lookup(p)
<1>1. GetRow(p) \in Int /\ GetRow(p)' \in Int
  BY PageTableAssumption DEF TableInv, TypeOK, GetRow, Map!PageMapAssumption
<1>2. QED BY <1>1 DEF Lookup, Seen, Absent, Untouched

LEMMA AddMaps ==
    ASSUME TableInv, NEW c \in Checksums, Add(c)
    PROVE  Map!Add(c)
<1> USE PageTableAssumption DEF Map!PageMapAssumption
<1>1. TableInv'
  BY AddInv
<1>2. /\ nextId \in PageId /\ size \in RowId /\ nextId' = nextId + 1 /\ size' = size + 1
      /\ size < Capacity
  BY DEF Add, TableInv, TypeOK
<1>3. ASSUME NEW p \in PageId, p = nextId
      PROVE  Lookup(p)' = Map!NewPage(c)
  <2>1. GetRow(p)' = size
    <3>1. p < indexLen' /\ rowOf'[p] = size
      BY <1>2, <1>3 DEF Add, GrownIndex, TableInv, TypeOK
    <3>2. QED BY <3>1 DEF GetRow
  <2>2. arr'[size] = NewRow(p, c)
    BY <1>2, <1>3 DEF Add, TableInv, TypeOK
  <2>3. QED BY <1>2, <2>1, <2>2 DEF Lookup, Seen, NewRow, Map!NewPage
<1>4. ASSUME NEW p \in PageId, p # nextId
      PROVE  Lookup(p)' = Lookup(p)
  BY <1>1, <1>4, AddKeeps, SeenAlike
<1>5. QED BY <1>2, <1>3, <1>4 DEF Map!Add

LEMMA RemoveMaps ==
    ASSUME TableInv, NEW q \in PageId, Remove(q)
    PROVE  Map!Remove(q)
<1>1. TableInv'
  BY RemoveInv
<1>2. Lookup(q)' = Map!Missing
  BY RemovedIsGone DEF Lookup, Absent, Map!Missing
<1>3. ASSUME NEW p \in PageId, p # q
      PROVE  Lookup(p)' = Lookup(p)
  BY <1>1, <1>3, RemoveKeeps, SeenAlike
<1>4. GetRow(q) >= 0 /\ size' = size - 1 /\ nextId' = nextId
  BY DEF Remove
<1>5. QED BY <1>2, <1>3, <1>4, LookupPresent DEF Map!Remove

(* One row is overwritten: its page is seen with the change, every other   *)
(* as it was.                                                              *)
LEMMA OneRowWritten ==
    ASSUME TableInv, TableInv', NEW q \in PageId, GetRow(q) >= 0, NEW w,
           arr' = [arr EXCEPT ![GetRow(q)] = w],
           UNCHANGED <<rowOf, indexLen>>,
           NEW p \in PageId, p # q
    PROVE  Lookup(p)' = Lookup(p)
<1>1. GetRow(p)' = GetRow(p)
  BY DEF GetRow
<1>2. GetRow(p) >= 0 => GetRow(p) # GetRow(q)
  BY OneRowPerPage
<1>3. arr \in [RowId -> Row] /\ (GetRow(p) >= 0 => GetRow(p) \in RowId)
  BY LookupPresent DEF TableInv, TypeOK
<1>4. GetRow(p) >= 0 => arr'[GetRow(p)] = arr[GetRow(p)]
  BY <1>2, <1>3
<1>5. QED BY <1>1, <1>4, SeenAlike DEF Untouched

LEMMA OwnRowWritten ==
    ASSUME TableInv, NEW q \in PageId, GetRow(q) >= 0, NEW w,
           arr' = [arr EXCEPT ![GetRow(q)] = w],
           UNCHANGED <<rowOf, indexLen>>
    PROVE  /\ arr[GetRow(q)] \in Row /\ arr'[GetRow(q)] = w
           /\ GetRow(q)' = GetRow(q)
           /\ Lookup(q) = Seen(q) /\ Lookup(q)' = Seen(q)'
<1>1. GetRow(q)' = GetRow(q)
  BY DEF GetRow
<1>2. /\ GetRow(q) \in RowId /\ arr[GetRow(q)] \in Row /\ arr \in [RowId -> Row]
      /\ Lookup(q) = Seen(q)
  BY LookupPresent DEF TableInv, TypeOK
<1>3. ~(GetRow(q) < 0)
  BY <1>2, PageTableAssumption DEF Map!PageMapAssumption
<1>4. Lookup(q)' = Seen(q)'
  BY <1>1, <1>3 DEF Lookup
<1>5. QED BY <1>1, <1>2, <1>4

LEMMA TransitionMaps ==
    ASSUME TableInv, TableInv', NEW q \in PageId, NEW t \in Targets, NEW c \in Checksums,
           ApplyTierTransition(q, t, c)
    PROVE  Map!ApplyTierTransition(q, t, c)
<1> DEFINE w == [arr[GetRow(q)] EXCEPT !.tier = t, !.current_checksum = c]
<1>1. /\ GetRow(q) >= 0 /\ arr[GetRow(q)].pin_count = 0
      /\ UNCHANGED <<rowOf, indexLen, nextId, size>>
  BY DEF ApplyTierTransition
<1>2. arr' = [arr EXCEPT ![GetRow(q)] = w]
  <2>1. GetRow(q) \in RowId /\ arr \in [RowId -> Row]
    BY <1>1, LookupPresent DEF TableInv, TypeOK
  <2>2. QED BY <2>1 DEF ApplyTierTransition
<1> HIDE DEF w
<1>3. /\ arr[GetRow(q)] \in Row /\ arr'[GetRow(q)] = w /\ GetRow(q)' = GetRow(q)
      /\ Lookup(q) = Seen(q) /\ Lookup(q)' = Seen(q)'
  BY <1>1, <1>2, OwnRowWritten
<1>4. \A p \in PageId : p # q => Lookup(p)' = Lookup(p)
  BY <1>1, <1>2, OneRowWritten
<1>5. Lookup(q)' = [Lookup(q) EXCEPT !.tier = t, !.current_checksum = c]
  <2> DEFINE seen == [tier |-> t, pin_count |-> arr[GetRow(q)].pin_count,
                      bf16_checksum |-> arr[GetRow(q)].bf16_checksum,
                      current_checksum |-> c,
                      access_count |-> arr[GetRow(q)].access_count,
                      inputs |-> arr[GetRow(q)].inputs]
             moved == [Seen(q) EXCEPT !.tier = t]
  <2>1. /\ w.tier = t /\ w.current_checksum = c
        /\ w.pin_count = arr[GetRow(q)].pin_count
        /\ w.bf16_checksum = arr[GetRow(q)].bf16_checksum
        /\ w.access_count = arr[GetRow(q)].access_count
        /\ w.inputs = arr[GetRow(q)].inputs
    BY <1>3 DEF Row, w
  <2>2. Seen(q)' = seen
    BY <1>3, <2>1 DEF Seen
  <2>3. [Seen(q) EXCEPT !.tier = t, !.current_checksum = c] =
            [moved EXCEPT !.current_checksum = c]
    BY Zenon
  <2>4. moved = [tier |-> t, pin_count |-> arr[GetRow(q)].pin_count,
                 bf16_checksum |-> arr[GetRow(q)].bf16_checksum,
                 current_checksum |-> arr[GetRow(q)].current_checksum,
                 access_count |-> arr[GetRow(q)].access_count,
                 inputs |-> arr[GetRow(q)].inputs]
    BY DEF Seen
  <2> HIDE DEF moved
  <2>5. [moved EXCEPT !.current_checksum = c] = seen
    BY <2>4
  <2> HIDE DEF seen
  <2>6. QED BY <1>3, <2>2, <2>3, <2>5 DEF moved
<1>6. Map!TransitionAllowed(q)
  BY <1>1, <1>3, LookupPresent DEF Seen, Map!TransitionAllowed
<1>7. QED BY <1>1, <1>4, <1>5, <1>6 DEF Map!ApplyTierTransition

LEMMA TouchMaps ==
    ASSUME TableInv, TableInv', NEW q \in PageId, Touch(q)
    PROVE  Map!Touch(q)
<1> DEFINE w == [arr[GetRow(q)] EXCEPT !.access_count = @ + 1]
<1>1. /\ GetRow(q) >= 0 /\ arr[GetRow(q)].access_count < MaxAccesses
      /\ UNCHANGED <<rowOf, indexLen, nextId, size>>
  BY DEF Touch
<1>2. arr' = [arr EXCEPT ![GetRow(q)] = w]
  <2>1. GetRow(q) \in RowId /\ arr \in [RowId -> Row]
    BY <1>1, LookupPresent DEF TableInv, TypeOK
  <2>2. QED BY <2>1 DEF Touch
<1> HIDE DEF w
<1>3. /\ arr[GetRow(q)] \in Row /\ arr'[GetRow(q)] = w /\ GetRow(q)' = GetRow(q)
      /\ Lookup(q) = Seen(q) /\ Lookup(q)' = Seen(q)'
  BY <1>1, <1>2, OwnRowWritten
<1>4. \A p \in PageId : p # q => Lookup(p)' = Lookup(p)
  BY <1>1, <1>2, OneRowWritten
<1>5. Lookup(q)' = [Lookup(q) EXCEPT !.access_count = @ + 1]
  BY <1>3 DEF Seen, Row, w
<1>6. Map!Present(q) /\ Lookup(q).access_count < MaxAccesses
  BY <1>1, <1>3, LookupPresent DEF Seen
<1>7. QED BY <1>1, <1>4, <1>5, <1>6 DEF Map!Touch

LEMMA PinMaps ==
    ASSUME TableInv, TableInv', NEW q \in PageId, Pin(q)
    PROVE  Map!Pin(q)
<1> DEFINE w == [arr[GetRow(q)] EXCEPT !.pin_count = @ + 1]
<1>1. /\ GetRow(q) >= 0 /\ arr[GetRow(q)].pin_count < MaxPins
      /\ UNCHANGED <<rowOf, indexLen, nextId, size>>
  BY DEF Pin
<1>2. arr' = [arr EXCEPT ![GetRow(q)] = w]
  <2>1. GetRow(q) \in RowId /\ arr \in [RowId -> Row]
    BY <1>1, LookupPresent DEF TableInv, TypeOK
  <2>2. QED BY <2>1 DEF Pin
<1> HIDE DEF w
<1>3. /\ arr[GetRow(q)] \in Row /\ arr'[GetRow(q)] = w /\ GetRow(q)' = GetRow(q)
      /\ Lookup(q) = Seen(q) /\ Lookup(q)' = Seen(q)'
  BY <1>1, <1>2, OwnRowWritten
<1>4. \A p \in PageId : p # q => Lookup(p)' = Lookup(p)
  BY <1>1, <1>2, OneRowWritten
<1>5. Lookup(q)' = [Lookup(q) EXCEPT !.pin_count = @ + 1]
  BY <1>3 DEF Seen, Row, w
<1>6. Map!Present(q) /\ Lookup(q).pin_count < MaxPins
  BY <1>1, <1>3, LookupPresent DEF Seen
<1>7. QED BY <1>1, <1>4, <1>5, <1>6 DEF Map!Pin

LEMMA UnpinMaps ==
    ASSUME TableInv, TableInv', NEW q \in PageId, Unpin(q)
    PROVE  Map!Unpin(q)
<1> DEFINE w == [arr[GetRow(q)] EXCEPT !.pin_count = @ - 1]
<1>1. /\ GetRow(q) >= 0 /\ arr[GetRow(q)].pin_count > 0
      /\ UNCHANGED <<rowOf, indexLen, nextId, size>>
  BY DEF Unpin
<1>2. arr' = [arr EXCEPT ![GetRow(q)] = w]
  <2>1. GetRow(q) \in RowId /\ arr \in [RowId -> Row]
    BY <1>1, LookupPresent DEF TableInv, TypeOK
  <2>2. QED BY <2>1 DEF Unpin
<1> HIDE DEF w
<1>3. /\ arr[GetRow(q)] \in Row /\ arr'[GetRow(q)] = w /\ GetRow(q)' = GetRow(q)
      /\ Lookup(q) = Seen(q) /\ Lookup(q)' = Seen(q)'
  BY <1>1, <1>2, OwnRowWritten
<1>4. \A p \in PageId : p # q => Lookup(p)' = Lookup(p)
  BY <1>1, <1>2, OneRowWritten
<1>5. Lookup(q)' = [Lookup(q) EXCEPT !.pin_count = @ - 1]
  BY <1>3 DEF Seen, Row, w
<1>6. Map!Present(q) /\ Lookup(q).pin_count > 0
  BY <1>1, <1>3, LookupPresent DEF Seen
<1>7. QED BY <1>1, <1>4, <1>5, <1>6 DEF Map!Unpin

LEMMA BatchMaps ==
    ASSUME TableInv, NEW batch \in SUBSET PageId, NEW f \in [batch -> Inputs],
           UpdateScoreInputs(batch, f)
    PROVE  Map!UpdateScoreInputs(batch, f)
<1>1. ASSUME NEW p \in PageId
      PROVE  Lookup(p)' = IF p \in batch /\ Map!Present(p)
                          THEN [Lookup(p) EXCEPT !.inputs = f[p]] ELSE Lookup(p)
  BY BatchLands, LookupPresent
<1>2. UNCHANGED <<nextId, size>>
  BY DEF UpdateScoreInputs
<1>3. QED BY <1>1, <1>2 DEF Map!UpdateScoreInputs

(* Rows, index and compaction implement the map of pages: whatever the     *)
(* capacity and the length of the index, callers cannot tell the table     *)
(* from a map.                                                             *)
THEOREM TableImplementsMap == Spec => ImplementsPageMap
<1>1. Init => Map!PageInit
  <2>1. SUFFICES ASSUME Init PROVE Map!PageInit
    OBVIOUS
  <2>2. ASSUME NEW p \in PageId
        PROVE  Lookup(p) = Map!Missing
    <3>1. GetRow(p) = -1
      BY <2>1, PageTableAssumption DEF Init, GetRow, Map!PageMapAssumption
    <3>2. Lookup(p) = Absent
      BY <3>1 DEF Lookup
    <3>3. QED BY <3>2 DEF Absent, Map!Missing
  <2>3. QED BY <2>1, <2>2 DEF Init, Map!PageInit
<1>2. ASSUME TableInv, [Next]_tableVars
      PROVE  [Map!PageNext]_(Map!pageVars)
  <2>1. TableInv'
    BY <1>2, NextInv
  <2>2. ASSUME NEW c \in Checksums, Add(c)
        PROVE  Map!PageNext
    BY <1>2, <2>2, AddMaps DEF Map!PageNext
  <2>3. ASSUME NEW q \in PageId, Remove(q)
        PROVE  Map!PageNext
    BY <1>2, <2>3, RemoveMaps DEF Map!PageNext
  <2>4. ASSUME NEW q \in PageId, NEW t \in Targets, NEW c \in Checksums,
               ApplyTierTransition(q, t, c)
        PROVE  Map!PageNext
    BY <1>2, <2>1, <2>4, TransitionMaps DEF Map!PageNext
  <2>5. ASSUME NEW q \in PageId, Touch(q) \/ Pin(q) \/ Unpin(q)
        PROVE  Map!PageNext
    BY <1>2, <2>1, <2>5, TouchMaps, PinMaps, UnpinMaps DEF Map!PageNext
  <2>6. ASSUME NEW batch \in SUBSET PageId, NEW f \in [batch -> Inputs],
               UpdateScoreInputs(batch, f)
        PROVE  Map!PageNext
    BY <1>2, <2>6, BatchMaps DEF Map!PageNext
  <2>7. CASE UNCHANGED tableVars
    <3>1. \A p \in PageId : Lookup(p)' = Lookup(p)
      BY <2>7 DEF tableVars, Lookup, Seen, GetRow, Absent
    <3>2. QED BY <2>7, <3>1 DEF tableVars, Map!pageVars
  <2>8. QED
    BY <1>2, <2>2, <2>3, <2>4, <2>5, <2>6, <2>7 DEF Next
<1>3. QED BY <1>1, <1>2, TableCorrect, PTL DEF Spec, ImplementsPageMap, Map!PageSpec
=============================================================================
