---------------------------- MODULE HiCacheProofs -----------------------------
(***************************************************************************)
(* What holds of the HiCache patches, whatever the threads that patch, the *)
(* pool, its heads and layers, and whenever SGLang moves what in whatever  *)
(* batches: each method is wrapped once; and KV comes back from the host   *)
(* pool as it went there, unless it is read otherwise than it was written. *)
(***************************************************************************)
EXTENDS HiCache, TLAPS

USE HiCacheAssumption DEF HiCacheAssumption

LEMMA PatchStart == Init => PatchInv
BY DEF Init, PatchInv, Inside, Phase, Times, Class, Method

(* The lock is free or held by the one thread past the check.              *)
LEMMA PatchStep ==
    ASSUME PatchInv, [Next]_vars
    PROVE  PatchInv'
<1> USE DEF PatchInv, Inside, Phase, Class, Method
<1>1. ASSUME UNCHANGED patchVars
      PROVE  PatchInv'
  BY <1>1 DEF patchVars
<1>2. ASSUME NEW c \in Caller, SetHooks(c)
      PROVE  PatchInv'
  BY <1>2 DEF SetHooks
<1>3. ASSUME NEW c \in Caller, ImportFails(c)
      PROVE  PatchInv'
  BY <1>3 DEF ImportFails
<1>13. ASSUME NEW c \in Caller, Imports(c)
       PROVE  PatchInv'
  BY <1>13 DEF Imports
<1>4. ASSUME NEW c \in Caller, Acquire(c)
      PROVE  PatchInv'
  BY <1>4 DEF Acquire
<1>5. ASSUME NEW c \in Caller, AlreadyPatched(c)
      PROVE  PatchInv'
  BY <1>5 DEF AlreadyPatched
<1>6. ASSUME NEW c \in Caller, WrapBackup(c)
      PROVE  PatchInv'
  BY <1>6 DEF WrapBackup, Wrap, Times
<1>7. ASSUME NEW c \in Caller, WrapLoad(c)
      PROVE  PatchInv'
  BY <1>7 DEF WrapLoad, Wrap, Times
<1>8. ASSUME NEW c \in Caller, SetFlag(c)
      PROVE  PatchInv'
  BY <1>8 DEF SetFlag, Times
<1>9. ASSUME NEW c \in Caller, WrapMla(c)
      PROVE  PatchInv'
  BY <1>9 DEF WrapMla, Times
<1>10. Serve => UNCHANGED patchVars
  BY DEF Serve, Compute, Evict, Drop, Backup, BackupRaises, StartLoad, LoadLayer, LoadRaises
<1>11. CASE UNCHANGED vars
  BY <1>1, <1>11 DEF vars
<1>12. QED
  BY <1>1, <1>2, <1>3, <1>4, <1>5, <1>6, <1>7, <1>8, <1>9, <1>10, <1>11, <1>13 DEF Next, Patch

(* The thread that holds the lock is the only one past the check, and flag *)
(* and phase tell how often each method is wrapped, for any number of      *)
(* threads and whatever is served meanwhile.                               *)
THEOREM PatchInvariant == Spec => []PatchInv
<1>1. PatchInv /\ [Next]_vars => PatchInv'
  BY PatchStep
<1>2. QED BY <1>1, PatchStart, PTL DEF Spec

(* The lock and the flag are enough for any number of threads.             *)
THEOREM PatchedOnce == Spec => []WrappedOnce
<1>1. PatchInv => WrappedOnce
  BY DEF PatchInv, WrappedOnce, Times, Class, Method
<1>2. QED BY <1>1, PatchInvariant, PTL

-----------------------------------------------------------------------------
LEMMA AtToken ==
    ASSUME NEW b \in Batch, NEW t \in Tokens(b)
    PROVE  At(b, t) \in DOMAIN b /\ b[At(b, t)] = t
BY DEF Tokens, At

LEMMA BatchShape ==
    ASSUME NEW b \in Batch
    PROVE  /\ DOMAIN b \subseteq Nat \ {0} /\ Tokens(b) \subseteq Token
           /\ \A i \in DOMAIN b : i <= Len(b)
BY DEF Batch, Tokens

LEMMA RowEntry ==
    ASSUME NEW b, NEW a \in Nat, NEW j \in 1 .. HeadNum, NEW i,
           i = (a - 1) * HeadNum + j, i <= Len(b)
    PROVE  ScaleRow(b, a)[j] = b[i]
BY Zenon DEF ScaleRow

(* With one head, a token's row is its scale, in whatever batch.           *)
LEMMA OneHeadScale ==
    ASSUME HeadNum = 1, NEW b \in Batch, NEW i \in DOMAIN b
    PROVE  ScaleRow(b, i) = [j \in 1 .. HeadNum |-> b[i]]
<1>1. i \in Nat \ {0} /\ i <= Len(b)
  BY BatchShape
<1>2. \A j \in 1 .. HeadNum : (i - 1) * HeadNum + j = i
  BY <1>1
<1>3. QED BY <1>1, <1>2 DEF ScaleRow

(* With any number of heads, the kernel that unpacks a batch finds the     *)
(* scale of a token where the one that packed this batch has left it: in   *)
(* the row of another token, at times.                                     *)
LEMMA ScaleIsRead ==
    ASSUME NEW b \in Batch, NEW i \in DOMAIN b, NEW l,
           \A k \in DOMAIN b : host[b[k]][l].scales = ScaleRow(b, k)
    PROVE  ScaleRead(b, l, i) = b[i]
<1> DEFINE row == ((i - 1) \div HeadNum) + 1
           entry == ((i - 1) % HeadNum) + 1
<1>1. i \in Nat \ {0} /\ i <= Len(b)
  BY BatchShape
<1>2. /\ row \in Nat \ {0} /\ entry \in 1 .. HeadNum
      /\ i = (row - 1) * HeadNum + entry
  <2>1. ASSUME NEW a \in Nat, NEW c \in Nat, c > 0
        PROVE  /\ a = c * (a \div c) + (a % c)
               /\ a \div c \in Nat /\ a % c \in 0 .. c - 1
    BY <2>1
  <2>2. i - 1 \in Nat /\ HeadNum \in Nat /\ HeadNum > 0
    BY <1>1
  <2> DEFINE q == (i - 1) \div HeadNum
             r == (i - 1) % HeadNum
  <2>3. q \in Nat /\ r \in 0 .. HeadNum - 1 /\ i - 1 = HeadNum * q + r
    BY <2>1, <2>2
  <2>4. row = q + 1 /\ entry = r + 1
    OBVIOUS
  <2> HIDE DEF row, entry, q, r
  <2>5. row \in Nat \ {0} /\ entry \in 1 .. HeadNum /\ row - 1 = q
    BY <2>3, <2>4
  <2>6. (row - 1) * HeadNum = HeadNum * q
    BY <2>3, <2>5
  <2>7. QED BY <1>1, <2>3, <2>4, <2>5, <2>6
<1>3. ScaleRead(b, l, i) = host[b[row]][l].scales[entry]
  BY DEF ScaleRead
<1> HIDE DEF row, entry
<1>4. row \in DOMAIN b
  <2>1. row - 1 <= (row - 1) * HeadNum
    BY <1>2
  <2>2. row \in 1 .. i
    BY <1>1, <1>2, <2>1
  <2>3. 1 .. i \subseteq DOMAIN b
    BY <1>1 DEF Batch
  <2>4. QED BY <2>2, <2>3
<1>5. ScaleRow(b, row)[entry] = b[i]
  BY <1>1, <1>2, RowEntry
<1>6. QED BY <1>3, <1>4, <1>5

-----------------------------------------------------------------------------
(* The pools stay typed, whichever methods move the tokens.                *)
DataOK ==
    /\ hooks \in {Passes[c] : c \in Caller} \cup {NoHooks}
    /\ pool \in Class
    /\ resident \subseteq Token
    /\ device \in [Token -> [Layer -> BOOLEAN]]
    /\ backed \subseteq Token
    /\ host \in [Token -> [Layer -> Cell]]
    /\ groups \subseteq Batch
    /\ mixed \subseteq Token \X Layer
    /\ loading \in [batch : Batch \cup {<<>>}, left : SUBSET Layer]
    /\ crashed \in BOOLEAN

LEMMA CellsTyped ==
    ASSUME DataOK, NEW b \in Batch, NEW i \in DOMAIN b, NEW l \in Layer
    PROVE  Demoted(b, i, l) \in Cell /\ NativeCell(b[i], l) \in Cell
<1>1. NoScales \in [1 .. HeadNum -> Token \cup {NoScale}] /\ StaleCell \in Cell
  BY DEF NoScales, StaleCell, Cell
<1>2. b[i] \in Token /\ device[b[i]][l] \in BOOLEAN
  <2>1. PICK n \in 1 .. MaxBatch : b \in [1 .. n -> Token]
    BY DEF Batch
  <2>2. b[i] \in Token
    BY <2>1
  <2>3. QED BY <2>2 DEF DataOK
<1>3. NativeCell(b[i], l) \in Cell
  BY <1>1, <1>2 DEF NativeCell, Cell
<1>4. ScaleRow(b, i) \in [1 .. HeadNum -> Token \cup {NoScale}]
  <2>1. ASSUME NEW j \in 1 .. HeadNum, (i - 1) * HeadNum + j <= Len(b)
        PROVE  b[(i - 1) * HeadNum + j] \in Token
    <3>1. PICK n \in 1 .. MaxBatch : b \in [1 .. n -> Token]
      BY DEF Batch
    <3>2. i - 1 \in Nat /\ Len(b) = n
      BY <3>1
    <3>3. (i - 1) * HeadNum \in Nat
      BY <3>2
    <3>4. (i - 1) * HeadNum + j \in 1 .. n
      BY <2>1, <3>2, <3>3
    <3>5. QED BY <3>1, <3>4
  <2>2. QED BY <2>1 DEF ScaleRow
<1>5. QED BY <1>1, <1>2, <1>3, <1>4 DEF Demoted, Cell

LEMMA DataStep ==
    ASSUME DataOK, [Next]_vars
    PROVE  DataOK'
<1> USE DEF DataOK
<1>1. ASSUME NEW c \in Caller, Patch(c)
      PROVE  DataOK'
  BY <1>1 DEF Patch, SetHooks, ImportFails, Imports, Acquire, AlreadyPatched,
              WrapBackup, WrapLoad, SetFlag, WrapMla, poolVars
<1>2. ASSUME NEW t \in Token, Compute(t) \/ Evict(t)
      PROVE  DataOK'
  <2>1. /\ device' \in [Token -> [Layer -> BOOLEAN]]
        /\ resident' \subseteq Token
    <3>1. \E v \in BOOLEAN : device' = [device EXCEPT ![t] = [l \in Layer |-> v]]
      BY <1>2 DEF Compute, Evict
    <3>2. device' \in [Token -> [Layer -> BOOLEAN]]
      BY <3>1
    <3>3. QED BY <1>2, <3>2 DEF Compute, Evict
  <2>2. UNCHANGED <<hooks, pool, backed, host, groups, mixed, loading, crashed>>
    BY <1>2 DEF Compute, Evict, patchVars
  <2>3. QED BY <2>1, <2>2
<1>3. ASSUME NEW t \in Token, Drop(t)
      PROVE  DataOK'
  <2>1. StaleCell \in Cell
    BY DEF StaleCell, NoScales, Cell
  <2>2. host' \in [Token -> [Layer -> Cell]]
    BY <1>3, <2>1 DEF Drop
  <2>3. QED BY <1>3, <2>2 DEF Drop, patchVars
<1>4. ASSUME NEW b \in Batch, Backup(b)
      PROVE  DataOK'
  <2>1. ASSUME NEW t \in Tokens(b), NEW l \in Layer
        PROVE  Demoted(b, At(b, t), l) \in Cell /\ NativeCell(t, l) \in Cell
    BY CellsTyped, AtToken
  <2>2. host' \in [Token -> [Layer -> Cell]]
    BY <1>4, <2>1 DEF Backup
  <2>3. QED BY <1>4, <2>2, BatchShape DEF Backup, patchVars
<1>5. ASSUME NEW b \in Batch, BackupRaises(b) \/ StartLoad(b)
      PROVE  DataOK'
  <2>1. CASE BackupRaises(b)
    BY <2>1 DEF BackupRaises, patchVars
  <2>2. CASE StartLoad(b)
    <3>1. loading' \in [batch : Batch \cup {<<>>}, left : SUBSET Layer]
      BY <2>2 DEF StartLoad
    <3>2. UNCHANGED <<hooks, pool, resident, device, backed, host, groups, mixed, crashed>>
      BY <2>2 DEF StartLoad, patchVars
    <3>3. QED BY <3>1, <3>2
  <2>3. QED BY <1>5, <2>1, <2>2
<1>6. ASSUME NEW l \in Layer, LoadLayer(l)
      PROVE  DataOK'
  <2>1. Tokens(loading.batch) \subseteq Token
    BY BatchShape DEF Tokens
  <2>2. Loaded(l) \in [Token -> [Layer -> BOOLEAN]]
    BY DEF Loaded, Promoted, Copied
  <2>3. QED BY <1>6, <2>1, <2>2 DEF LoadLayer, patchVars, Idle
<1>7. ASSUME NEW l \in Layer, LoadRaises(l)
      PROVE  DataOK'
  BY <1>7 DEF LoadRaises, patchVars
<1>8. CASE UNCHANGED vars
  BY <1>8 DEF vars, patchVars, poolVars
<1>9. QED
  BY <1>1, <1>2, <1>3, <1>4, <1>5, <1>6, <1>7, <1>8 DEF Next, Serve

LEMMA DataStart == Init => DataOK
<1>1. StaleCell \in Cell
  BY DEF StaleCell, NoScales, Cell
<1>2. Init => host \in [Token -> [Layer -> Cell]]
  BY <1>1 DEF Init
<1>3. Init => device \in [Token -> [Layer -> BOOLEAN]]
  BY DEF Init
<1>4. Idle \in [batch : Batch \cup {<<>>}, left : SUBSET Layer]
  BY DEF Idle
<1>5. QED BY <1>2, <1>3, <1>4 DEF Init, DataOK

LEMMA DataInvariant == Spec => []DataOK
<1>1. DataOK /\ [Next]_vars => DataOK'
  BY DataStep
<1>2. QED BY <1>1, DataStart, PTL DEF Spec

(* Type correctness: a slot of the host pool holds raw values, a packed row*)
(* with a scale per head, or what its last owner left.                     *)
THEOREM HiCacheTyped == Spec => []TypeOK
<1>1. DataOK /\ PatchInv => TypeOK
  BY DEF DataOK, PatchInv, TypeOK
<1>2. QED BY <1>1, DataInvariant, PatchInvariant, PTL

-----------------------------------------------------------------------------
LEMMA KvStart == Init => KvInv
BY DEF Init, KvInv, Idle, Tokens

(* A token of the device pool is backed up in some form, as sound as it is.*)
LEMMA BackedUpAs ==
    ASSUME KvInv, NEW b \in Batch, NEW t \in Tokens(b), t \in resident, NEW l \in Layer,
           NEW cell, cell = IF Handles("backup") THEN Demoted(b, At(b, t), l) ELSE NativeCell(t, l)
    PROVE  /\ cell.kind \in {"native", "packed"} \/ (cell.kind = "stale" /\ l \notin Configured)
           /\ cell.kind # "stale" => cell.own \/ <<t, l>> \in mixed
           /\ cell.kind = "packed" =>
                l \in Configured /\ (HeadNum = 1 => cell.scales = [j \in 1 .. HeadNum |-> t])
           /\ pool = "MLA" => cell.kind = "native"
           /\ Handles("backup") /\ l \in Configured =>
                cell.kind = "packed" /\ cell.scales = ScaleRow(b, At(b, t))
<1>1. b[At(b, t)] = t /\ At(b, t) \in DOMAIN b
  BY AtToken
<1>2. device[t][l] \/ <<t, l>> \in mixed
  BY DEF KvInv, Sound
<1>3. CASE Handles("backup") /\ l \in Configured
  <2>1. cell = [kind |-> "packed", own |-> device[t][l], scales |-> ScaleRow(b, At(b, t))]
    BY <1>1, <1>3 DEF Demoted
  <2>2. HeadNum = 1 => ScaleRow(b, At(b, t)) = [j \in 1 .. HeadNum |-> t]
    BY <1>1, OneHeadScale
  <2>3. pool # "MLA"
    BY <1>3 DEF Handles
  <2>4. QED BY <1>2, <1>3, <2>1, <2>2, <2>3
<1>4. CASE Handles("backup") /\ l \notin Configured
  <2>1. cell.kind = "stale" /\ pool # "MLA"
    BY <1>4 DEF Demoted, StaleCell, Handles
  <2>2. QED BY <1>4, <2>1
<1>5. CASE ~Handles("backup")
  <2>1. cell.kind = "native" /\ cell.own = device[t][l]
    BY <1>5 DEF NativeCell
  <2>2. QED BY <1>2, <1>5, <2>1
<1>6. QED BY <1>3, <1>4, <1>5

(* The load of a layer restores a token, or it is mixed from then on.      *)
LEMMA ReadBack ==
    ASSUME KvInv, loading.batch \in Batch, NEW t \in Tokens(loading.batch), NEW l \in Layer,
           ~ReadOtherwise(loading.batch, t, l), <<t, l>> \notin mixed
    PROVE  (IF Handles("load") THEN Promoted(loading.batch, At(loading.batch, t), l)
                               ELSE Copied(t, l)) = TRUE
<1> DEFINE b == loading.batch
           i == At(b, t)
           cell == host[t][l]
<1>1. b[i] = t /\ i \in DOMAIN b /\ t \in backed
  BY AtToken DEF KvInv
<1>2. CellInv(t, l)
  BY <1>1 DEF KvInv
<1> HIDE DEF i
<1>3. CASE Handles("load")
  <2>1. cell.kind = "packed" /\ cell.own /\ l \in Configured
    BY <1>2, <1>3 DEF CellInv, ReadOtherwise
  <2>2. ScaleRead(b, l, i) = t
    <3>1. CASE HeadNum = 1
      <4>1. i \in Nat \ {0}
        BY <1>1, BatchShape
      <4>2. (i - 1) \div HeadNum = i - 1 /\ (i - 1) % HeadNum = 0
        BY <3>1, <4>1
      <4>3. ScaleRead(b, l, i) = host[b[i]][l].scales[1]
        BY <4>1, <4>2 DEF ScaleRead
      <4>4. cell.scales = [j \in 1 .. HeadNum |-> t]
        BY <1>2, <2>1, <3>1 DEF CellInv
      <4>5. 1 \in 1 .. HeadNum
        BY <3>1
      <4>6. QED BY <1>1, <4>3, <4>4, <4>5
    <3>2. CASE HeadNum # 1
      <4>1. b \in groups
        BY <1>3, <3>2 DEF ReadOtherwise
      <4>2. \A k \in DOMAIN b : host[b[k]][l].scales = ScaleRow(b, k)
        BY <2>1, <4>1 DEF KvInv, GroupInv
      <4>3. ScaleRead(b, l, i) = b[i]
        BY <1>1, <4>2, ScaleIsRead
      <4>4. QED BY <1>1, <4>3
    <3>3. QED BY <3>1, <3>2
  <2>3. QED BY <1>1, <1>3, <2>1, <2>2 DEF Promoted, i
<1>4. CASE ~Handles("load")
  <2>1. cell.kind = "native" /\ cell.own
    BY <1>2, <1>4 DEF CellInv, ReadOtherwise
  <2>2. QED BY <1>4, <2>1 DEF Copied
<1>5. QED BY <1>3, <1>4

LEMMA KvStep ==
    ASSUME DataOK, KvInv, [Next]_vars
    PROVE  KvInv'
<1> USE DEF KvInv
<1>1. ASSUME UNCHANGED <<pool, resident, device, backed, host, groups, mixed, loading>>
      PROVE  KvInv'
  <2>1. (\A t \in backed, l \in Layer : CellInv(t, l))'
    BY <1>1 DEF CellInv
  <2>2. (\A b \in groups : GroupInv(b))'
    BY <1>1 DEF GroupInv, ScaleRow
  <2>3. /\ (\A t \in Tokens(loading.batch), l \in Layer \ loading.left : Sound(t, l))'
        /\ (\A t \in resident, l \in Layer : Sound(t, l))'
    BY <1>1 DEF Sound
  <2>4. QED BY <1>1, <2>1, <2>2, <2>3
<1>2. ASSUME NEW c \in Caller, Patch(c)
      PROVE  KvInv'
  <2>1. UNCHANGED poolVars
    BY <1>2 DEF Patch, SetHooks, ImportFails, Imports, Acquire, AlreadyPatched, WrapBackup,
                WrapLoad, SetFlag, WrapMla
  <2>2. QED BY <1>1, <2>1 DEF poolVars
<1>3. ASSUME NEW t \in Token, Compute(t) \/ Evict(t)
      PROVE  KvInv'
  <2>1. /\ \A u \in Token \ {t} : device'[u] = device[u]
        /\ UNCHANGED <<pool, backed, host, groups, mixed, loading>>
    <3>1. \E v \in BOOLEAN : device' = [device EXCEPT ![t] = [l \in Layer |-> v]]
      BY <1>3 DEF Compute, Evict
    <3>2. \A u \in Token \ {t} : device'[u] = device[u]
      BY <3>1 DEF DataOK
    <3>3. UNCHANGED <<pool, backed, host, groups, mixed, loading>>
      BY <1>3 DEF Compute, Evict
    <3>4. QED BY <3>2, <3>3
  <2>2. /\ resident' \subseteq resident \cup {t}
        /\ t \in resident' => t \notin backed /\ \A l \in Layer : device'[t][l]
        /\ t \notin resident' => t \in resident
    BY <1>3 DEF Compute, Evict, DataOK
  <2>3. t \notin Tokens(loading.batch)
    BY <2>2
  <2>4. Tokens(loading.batch) \subseteq Token /\ resident \subseteq Token
    BY DEF DataOK
  <2>5. \A u \in resident', l \in Layer : Sound(u, l)'
    BY <2>1, <2>2, <2>4 DEF Sound
  <2>6. \A u \in Tokens(loading.batch), l \in Layer \ loading.left : Sound(u, l)'
    BY <2>1, <2>3, <2>4 DEF Sound
  <2>7. (\A u \in backed, l \in Layer : CellInv(u, l))' /\ (\A b \in groups : GroupInv(b))'
    BY <2>1 DEF CellInv, GroupInv, ScaleRow
  <2>8. Tokens(loading.batch) \subseteq backed \ resident'
    BY <2>2, <2>3
  <2>9. QED BY <2>1, <2>5, <2>6, <2>7, <2>8
<1>4. ASSUME NEW t \in Token, Drop(t)
      PROVE  KvInv'
  <2>1. /\ backed' = backed \ {t} /\ t \notin Tokens(loading.batch)
        /\ \A u \in Token \ {t} : host'[u] = host[u]
        /\ groups' = {b \in groups : t \notin Tokens(b)}
        /\ UNCHANGED <<pool, resident, device, loading>>
    BY <1>4 DEF Drop, DataOK
  <2>2. /\ mixed' \subseteq mixed
        /\ \A u, l : <<u, l>> \in mixed /\ (u # t \/ t \in resident) => <<u, l>> \in mixed'
    <3>1. mixed' = {p \in mixed : p[1] # t \/ t \in resident}
      BY <1>4 DEF Drop
    <3>2. QED BY <3>1
  <2>3. backed \subseteq Token /\ resident \subseteq Token /\ Tokens(loading.batch) \subseteq Token
    BY DEF DataOK
  <2>4. ASSUME NEW u \in backed', NEW l \in Layer
        PROVE  CellInv(u, l)'
    <3>1. u \in Token \ {t} /\ CellInv(u, l)
      BY <2>1, <2>3
    <3>2. host'[u][l] = host[u][l] /\ pool' = pool
      BY <2>1, <3>1
    <3>3. <<u, l>> \in mixed => <<u, l>> \in mixed'
      BY <2>2, <3>1
    <3>4. QED BY <3>1, <3>2, <3>3 DEF CellInv
  <2>5. ASSUME NEW b \in groups' PROVE GroupInv(b)'
    <3>1. GroupInv(b) /\ t \notin Tokens(b)
      BY <2>1
    <3>2. \A i \in DOMAIN b : b[i] \in Token \ {t} /\ ScaleRow(b, i)' = ScaleRow(b, i)
      BY <2>3, <3>1 DEF GroupInv, Tokens, ScaleRow
    <3>3. QED BY <2>1, <3>1, <3>2 DEF GroupInv
  <2>6. /\ \A u \in resident, l \in Layer : Sound(u, l)'
        /\ \A u \in Tokens(loading.batch), l \in Layer \ loading.left : Sound(u, l)'
    BY <2>1, <2>2 DEF Sound
  <2>7. QED BY <2>1, <2>2, <2>4, <2>5, <2>6
<1>5. ASSUME NEW b \in Batch, Backup(b)
      PROVE  KvInv'
  <2>1. /\ Tokens(b) \subseteq resident \ backed
        /\ backed' = backed \cup Tokens(b)
        /\ groups' = IF Handles("backup") THEN groups \cup {b} ELSE groups
        /\ UNCHANGED <<pool, resident, device, mixed, loading>>
    BY <1>5 DEF Backup
  <2>2. backed \subseteq Token /\ resident \subseteq Token
    BY DEF DataOK
  <2>3. ASSUME NEW t \in Tokens(b), NEW l \in Layer
        PROVE  host'[t][l] = IF Handles("backup") THEN Demoted(b, At(b, t), l) ELSE NativeCell(t, l)
    <3>1. t \in Token
      BY <2>1, <2>2
    <3>2. QED BY <1>5, <3>1 DEF Backup
  <2>4. ASSUME NEW t \in backed PROVE host'[t] = host[t]
    BY <1>5, <2>1, <2>2 DEF Backup
  <2>5. ASSUME NEW t \in backed', NEW l \in Layer PROVE CellInv(t, l)'
    <3>1. CASE t \in backed
      <4>1. CellInv(t, l)
        BY <3>1
      <4>2. host'[t] = host[t] /\ mixed' = mixed /\ pool' = pool
        BY <2>1, <2>4, <3>1
      <4>3. QED BY <4>1, <4>2 DEF CellInv
    <3>2. CASE t \in Tokens(b)
      <4> DEFINE cell == host'[t][l]
      <4>1. cell = IF Handles("backup") THEN Demoted(b, At(b, t), l) ELSE NativeCell(t, l)
        BY <2>3, <3>2
      <4> HIDE DEF cell
      <4>2. /\ cell.kind \in {"native", "packed"} \/ (cell.kind = "stale" /\ l \notin Configured)
            /\ cell.kind # "stale" => cell.own \/ <<t, l>> \in mixed
            /\ cell.kind = "packed" =>
                l \in Configured /\ (HeadNum = 1 => cell.scales = [j \in 1 .. HeadNum |-> t])
            /\ pool = "MLA" => cell.kind = "native"
        BY <2>1, <3>2, <4>1, BackedUpAs
      <4>3. QED BY <2>1, <4>2 DEF CellInv, cell
    <3>3. QED BY <2>1, <3>1, <3>2
  <2>6. ASSUME NEW c \in groups' PROVE GroupInv(c)'
    <3>1. CASE c \in groups
      <4>1. GroupInv(c)
        BY <3>1
      <4>2. \A i \in DOMAIN c : c[i] \in backed /\ ScaleRow(c, i)' = ScaleRow(c, i)
        BY <4>1 DEF GroupInv, Tokens, ScaleRow
      <4>3. QED BY <2>1, <2>4, <4>1, <4>2 DEF GroupInv
    <3>2. CASE c = b /\ Handles("backup")
      <4>1. Tokens(b) \subseteq backed'
        BY <2>1
      <4>2. ASSUME NEW i \in DOMAIN b, NEW l \in Configured
            PROVE  host'[b[i]][l].kind = "packed" /\ host'[b[i]][l].scales = ScaleRow(b, i)
        <5>1. b[i] \in Tokens(b) /\ l \in Layer
          BY DEF Tokens
        <5>2. At(b, b[i]) = i
          BY <5>1, AtToken DEF Batch
        <5> DEFINE cell == host'[b[i]][l]
        <5>3. cell = IF Handles("backup") THEN Demoted(b, At(b, b[i]), l) ELSE NativeCell(b[i], l)
          BY <2>3, <5>1
        <5> HIDE DEF cell
        <5>4. b[i] \in resident
          BY <2>1, <5>1
        <5>5. cell.kind = "packed" /\ cell.scales = ScaleRow(b, At(b, b[i]))
          BY <3>2, <5>1, <5>3, <5>4, BackedUpAs
        <5>6. QED BY <5>2, <5>5 DEF cell
      <4>3. \A i : ScaleRow(b, i)' = ScaleRow(b, i)
        BY DEF ScaleRow
      <4>4. QED BY <3>2, <4>1, <4>2, <4>3 DEF GroupInv
    <3>3. QED BY <2>1, <3>1, <3>2
  <2>7. /\ \A t \in resident, l \in Layer : Sound(t, l)'
        /\ \A t \in Tokens(loading.batch), l \in Layer \ loading.left : Sound(t, l)'
    BY <2>1 DEF Sound
  <2>8. QED BY <2>1, <2>5, <2>6, <2>7
<1>6. ASSUME NEW b \in Batch, StartLoad(b)
      PROVE  KvInv'
  <2>1. /\ loading'.batch = b /\ loading'.left = Layer
        /\ Tokens(b) \subseteq backed \ resident
        /\ UNCHANGED <<pool, resident, device, backed, host, groups, mixed>>
    BY <1>6 DEF StartLoad
  <2>2. (\A u \in backed, l \in Layer : CellInv(u, l))' /\ (\A c \in groups : GroupInv(c))'
    BY <2>1 DEF CellInv, GroupInv, ScaleRow
  <2>3. \A t \in resident, l \in Layer : Sound(t, l)'
    BY <2>1 DEF Sound
  <2>4. QED BY <2>1, <2>2, <2>3
<1>7. ASSUME NEW l \in Layer, LoadLayer(l)
      PROVE  KvInv'
  <2> DEFINE b == loading.batch
             lost == {u \in Tokens(b) : ReadOtherwise(b, u, l)}
  <2>1. /\ l \in loading.left /\ device' = Loaded(l)
        /\ mixed' = mixed \cup {<<t, l>> : t \in lost}
        /\ UNCHANGED <<pool, backed, host, groups>>
    BY <1>7 DEF LoadLayer
  <2>2. b \in Batch \/ Tokens(b) = {}
    BY DEF DataOK, Tokens
  <2>3. \A t \in Token : t \notin Tokens(b) => device'[t] = device[t]
    BY <2>1 DEF Loaded
  <2>4. ASSUME NEW t \in Tokens(b)
        PROVE  /\ Sound(t, l)'
               /\ \A k \in Layer \ {l} : device'[t][k] = device[t][k]
    <3>1. b \in Batch /\ t \in Token /\ device[t] \in [Layer -> BOOLEAN]
      BY <2>2, BatchShape DEF DataOK
    <3>2. device'[t] = [device[t] EXCEPT ![l] = IF Handles("load")
                                                THEN Promoted(b, At(b, t), l) ELSE Copied(t, l)]
      BY <2>1, <3>1 DEF Loaded
    <3>3. CASE t \in lost
      BY <2>1, <3>1, <3>2, <3>3 DEF Sound
    <3>4. CASE <<t, l>> \in mixed
      BY <2>1, <3>1, <3>2, <3>4 DEF Sound
    <3>5. CASE t \notin lost /\ <<t, l>> \notin mixed
      <4>1. (IF Handles("load") THEN Promoted(b, At(b, t), l) ELSE Copied(t, l)) = TRUE
        BY <3>1, <3>5, ReadBack
      <4>2. QED BY ZenonT(40), <3>1, <3>2, <4>1 DEF Sound
    <3>6. QED BY <3>3, <3>4, <3>5
  <2>5. \A u, k : <<u, k>> \in mixed => <<u, k>> \in mixed'
    BY <2>1
  <2>6. (\A u \in backed, k \in Layer : CellInv(u, k))'
    BY <2>1, <2>5 DEF CellInv
  <2>7. (\A c \in groups : GroupInv(c))'
    BY <2>1 DEF GroupInv, ScaleRow
  <2>8. \A t \in resident, k \in Layer : Sound(t, k)'
    <3>1. \A t \in resident : t \in Token /\ t \notin Tokens(b)
      BY DEF DataOK
    <3>2. QED BY <2>3, <2>5, <3>1 DEF Sound
  <2>9. ASSUME NEW t \in Tokens(b), NEW k \in Layer, k = l \/ k \notin loading.left
        PROVE  Sound(t, k)'
    BY <2>4, <2>5, <2>9 DEF Sound
  <2>10. ASSUME pool = "MLA" PROVE mixed' = {}
    <3>1. ASSUME NEW t \in lost PROVE FALSE
      <4>1. t \in backed /\ ReadOtherwise(b, t, l)
        BY <3>1
      <4>2. host[t][l].kind = "native"
        <5>1. CellInv(t, l)
          BY <4>1
        <5>2. QED BY <2>10, <5>1 DEF CellInv
      <4>3. ~Handles("load")
        BY <2>10 DEF Handles
      <4>4. QED BY <4>1, <4>2, <4>3 DEF ReadOtherwise
    <3>2. QED BY <2>1, <2>10, <3>1
  <2>11. CASE loading.left = {l}
    <3>1. resident' = resident \cup Tokens(b) /\ loading' = Idle
      BY <1>7, <2>11 DEF LoadLayer
    <3>2. \A t \in resident', k \in Layer : Sound(t, k)'
      BY <2>8, <2>9, <2>11, <3>1
    <3>3. Tokens(loading'.batch) = {}
      BY <3>1 DEF Idle, Tokens
    <3>4. QED BY <2>1, <2>6, <2>7, <2>10, <3>2, <3>3
  <2>12. CASE loading.left # {l}
    <3>1. loading' = [loading EXCEPT !.left = loading.left \ {l}] /\ resident' = resident
      BY <1>7, <2>12 DEF LoadLayer
    <3>2. loading'.batch = b /\ loading'.left = loading.left \ {l}
      BY <3>1 DEF DataOK
    <3>3. \A t \in Tokens(loading'.batch), k \in Layer \ loading'.left : Sound(t, k)'
      BY <2>9, <3>2
    <3>4. QED BY <2>1, <2>6, <2>7, <2>8, <2>10, <3>1, <3>2, <3>3
  <2>13. QED BY <2>11, <2>12
<1>8. ASSUME NEW b \in Batch, BackupRaises(b)
      PROVE  KvInv'
  BY <1>1, <1>8 DEF BackupRaises
<1>9. ASSUME NEW l \in Layer, LoadRaises(l)
      PROVE  KvInv'
  BY <1>1, <1>9 DEF LoadRaises
<1>10. CASE UNCHANGED vars
  BY <1>1, <1>10 DEF vars, poolVars
<1>11. QED
  BY <1>2, <1>3, <1>4, <1>5, <1>6, <1>7, <1>8, <1>9, <1>10 DEF Next, Serve

(* What the host pool holds of a token is its own, in a form that some     *)
(* method writes and with its scales where the packing kernel put them, or *)
(* the token has been mixed: however the pool is patched while it serves.  *)
THEOREM HostPoolSound == Spec => []KvInv
<1>1. DataOK /\ KvInv /\ [Next]_vars => KvInv'
  BY KvStep
<1>2. QED BY <1>1, KvStart, DataInvariant, PTL DEF Spec

(* What the attention kernel reads is valid, or has since it was computed  *)
(* been read otherwise than it was written; and in a pool that the hooks   *)
(* decline it is valid: for any heads, layers, batches, threads and hooks, *)
(* and whenever the methods are replaced.                                  *)
THEOREM KvStaysValid == Spec => []KvValidUnlessMixed
<1>1. DataOK /\ KvInv => KvValidUnlessMixed
  BY DEF DataOK, KvInv, KvValidUnlessMixed, Sound, Class
<1>2. QED BY <1>1, HostPoolSound, DataInvariant, PTL
=============================================================================
