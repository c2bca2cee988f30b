--------------------------- MODULE MigrationProofs ---------------------------
(***************************************************************************)
(* Proofs about Migration: whatever the codecs, the allocator and the      *)
(* callbacks do, a page in the table keeps its bytes, a call that does not *)
(* return OK leaves its page where it was, and a pinned page is not moved. *)
(***************************************************************************)
EXTENDS Migration, FiniteSetTheorems, TLAPS

(* What the operations of PageMap do to the table.                         *)
USE PageMapAssumption DEF PageMapAssumption, PageId

PageOK == PageTypeOK /\ Counted

LEMMA InTable ==
    ASSUME PageTypeOK, NEW p \in PageId, Present(p)
    PROVE  page[p] \in Metadata
BY DEF PageTypeOK, Present, Missing

LEMMA LiveFinite ==
    /\ IsFiniteSet(LivePages)
    /\ Cardinality(LivePages) \in Nat
<1>1. IsFiniteSet(PageId)
  BY FS_Interval
<1>2. LivePages \subseteq PageId
  BY DEF LivePages
<1>3. IsFiniteSet(LivePages)
  BY <1>1, <1>2, FS_Subset
<1>4. QED BY <1>3, FS_CardinalityType

LEMMA PageInitOK == PageInit => PageOK
<1> SUFFICES ASSUME PageInit PROVE PageOK
  OBVIOUS
<1>1. PageTypeOK
  BY DEF PageInit, PageTypeOK
<1>2. LivePages = {}
  BY DEF PageInit, LivePages, Present, Missing
<1>3. QED BY <1>1, <1>2, FS_EmptySet DEF PageInit, PageOK, Counted

(* add(): the next id, in BF16 and unpinned.                               *)
LEMMA AddEffect ==
    ASSUME PageOK, ~Present(nextId), NEW c \in Nat, Add(c)
    PROVE  /\ PageOK'
           /\ nextId \in PageId
           /\ nextId' = nextId + 1
           /\ page'[nextId] = NewPage(c)
           /\ \A q \in PageId : q # nextId => page'[q] = page[q]
<1>1. nextId \in PageId /\ page \in [PageId -> Metadata \cup {Missing}]
  BY DEF PageOK, PageTypeOK, Add
<1>2. NewPage(c) \in Metadata
  BY DEF NewPage, Metadata, Tier, BF16, DISK
<1>3. \A q \in PageId : page'[q] = IF q = nextId THEN NewPage(c) ELSE page[q]
  BY <1>1 DEF Add
<1>4. PageTypeOK'
  BY <1>1, <1>2 DEF PageOK, PageTypeOK, Add
<1>5. page'[nextId].tier >= 0
  BY <1>1, <1>3 DEF NewPage, BF16
<1>6. LivePages' = LivePages \cup {nextId}
  BY <1>1, <1>3, <1>5 DEF LivePages, Present
<1>7. nextId \notin LivePages
  BY DEF LivePages
<1>8. Counted'
  BY <1>6, <1>7, LiveFinite, FS_AddElement DEF PageOK, Counted, Add
<1>9. nextId' = nextId + 1 /\ page'[nextId] = NewPage(c)
  BY <1>1, <1>3 DEF Add
<1>10. QED BY <1>1, <1>3, <1>4, <1>5, <1>8, <1>9 DEF PageOK

(* remove().                                                               *)
LEMMA RemoveEffect ==
    ASSUME PageOK, NEW p \in PageId, Remove(p)
    PROVE  /\ PageOK'
           /\ nextId' = nextId
           /\ ~Present(p)'
           /\ \A q \in PageId : q # p => page'[q] = page[q]
<1>1. \A q \in PageId : page'[q] = IF q = p THEN Missing ELSE page[q]
  BY DEF PageOK, PageTypeOK, Remove
<1>2. ~Present(p)'
  BY <1>1 DEF Present, Missing
<1>3. LivePages' = LivePages \ {p} /\ p \in LivePages
  BY <1>1, <1>2 DEF LivePages, Present, Remove
<1>4. /\ Cardinality(LivePages') = Cardinality(LivePages) - 1
      /\ Cardinality(LivePages') \in Nat
  BY <1>3, LiveFinite, FS_RemoveElement, FS_CardinalityType
<1>5. size' = size - 1 /\ nextId' = nextId /\ size = Cardinality(LivePages)
  BY DEF Remove, PageOK, Counted
<1>6. Counted' /\ size' \in 0 .. Capacity
  BY <1>4, <1>5 DEF PageOK, PageTypeOK, Counted
<1>7. PageTypeOK'
  BY <1>5, <1>6 DEF PageOK, PageTypeOK, Remove
<1>8. QED BY <1>1, <1>2, <1>5, <1>6, <1>7 DEF PageOK

(* The pages in the table stay the same ones: what Counted needs of the    *)
(* operations that only change fields.                                     *)
LEMMA SamePages ==
    ASSUME Counted, size' = size, \A q \in PageId : Present(q)' <=> Present(q)
    PROVE  Counted'
<1>1. LivePages' = LivePages
  BY DEF LivePages
<1>2. QED BY <1>1 DEF Counted

(* apply_tier_transition(), when it returns True.                          *)
LEMMA TransitionEffect ==
    ASSUME PageOK, NEW p \in PageId, NEW t \in Tier, NEW c \in Nat,
           ApplyTierTransition(p, t, c)
    PROVE  /\ PageOK'
           /\ nextId' = nextId
           /\ Present(p) /\ page[p].pin_count = 0
           /\ page'[p].tier = t
           /\ \A q \in PageId : q # p => page'[q] = page[q]
           /\ \A q \in PageId : Present(q)' <=> Present(q)
           /\ \A q \in PageId : page'[q].bf16_checksum = page[q].bf16_checksum
<1> DEFINE new == [page[p] EXCEPT !.tier = t, !.current_checksum = c]
<1>1. /\ Present(p) /\ page[p].pin_count = 0 /\ page[p] \in Metadata
      /\ nextId' = nextId /\ size' = size
  BY InTable DEF PageOK, ApplyTierTransition, TransitionAllowed
<1>2. /\ new \in Metadata /\ new.tier = t
      /\ new.bf16_checksum = page[p].bf16_checksum
  BY <1>1 DEF Metadata
<1>3. page' = [page EXCEPT ![p] = new]
  BY DEF ApplyTierTransition
<1>4. \A q \in PageId : page'[q] = IF q = p THEN new ELSE page[q]
  BY <1>3 DEF PageOK, PageTypeOK
<1>5. PageTypeOK'
  BY <1>1, <1>2, <1>3 DEF PageOK, PageTypeOK
<1>6. \A q \in PageId : Present(q)' <=> Present(q)
  <2>1. t >= 0
    BY DEF Tier, BF16, DISK
  <2> HIDE DEF new
  <2> QED BY <1>1, <1>2, <1>4, <2>1 DEF Present
<1>7. QED BY <1>1, <1>2, <1>4, <1>5, <1>6, SamePages DEF PageOK

(* pin() and unpin().                                                      *)
LEMMA PinEffect ==
    ASSUME PageOK, NEW p \in PageId, Pin(p) \/ Unpin(p)
    PROVE  /\ PageOK'
           /\ nextId' = nextId
           /\ \A q \in PageId : Present(q)' <=> Present(q)
           /\ \A q \in PageId : /\ page'[q].tier = page[q].tier
                                /\ page'[q].bf16_checksum = page[q].bf16_checksum
<1>1. /\ page[p] \in Metadata
      /\ nextId' = nextId /\ size' = size
  BY InTable DEF PageOK, Pin, Unpin
<1>2. PICK k \in Nat : page' = [page EXCEPT ![p] = [page[p] EXCEPT !.pin_count = k]]
  <2>1. CASE Pin(p)
    <3>1. page[p].pin_count + 1 \in Nat
      BY <1>1 DEF Metadata
    <3>2. QED BY <2>1, <3>1 DEF Pin
  <2>2. CASE Unpin(p)
    <3>1. page[p].pin_count - 1 \in Nat
      BY <1>1, <2>2 DEF Metadata, Unpin
    <3>2. QED BY <2>2, <3>1 DEF Unpin
  <2>3. QED BY <2>1, <2>2
<1> DEFINE new == [page[p] EXCEPT !.pin_count = k]
<1>3. /\ new \in Metadata /\ new.tier = page[p].tier
      /\ new.bf16_checksum = page[p].bf16_checksum
  BY <1>1 DEF Metadata
<1>4. \A q \in PageId : page'[q] = IF q = p THEN new ELSE page[q]
  BY <1>2 DEF PageOK, PageTypeOK
<1>5. PageTypeOK'
  BY <1>1, <1>2, <1>3 DEF PageOK, PageTypeOK
<1>6. \A q \in PageId : Present(q)' <=> Present(q)
  BY <1>3, <1>4 DEF Present
<1>7. QED BY <1>1, <1>3, <1>4, <1>5, <1>6, SamePages DEF PageOK

-----------------------------------------------------------------------------
USE MigrationAssumption DEF MigrationAssumption, PageMapAssumption, Handle, PageId

-----------------------------------------------------------------------------
(* What the helpers do.                                                    *)

LEMMA FreeEffect ==
    ASSUME TypeOK, NEW h, SafeFree(h)
    PROVE  /\ buf' \in [Handle -> Bytes \cup {Unallocated}]
           /\ lost' \subseteq Handle
           /\ lost \subseteq lost'
           /\ \A g \in Handle : g # h => buf'[g] = buf[g]
           /\ \A g \in Handle : buf[g] = Unallocated => buf'[g] = Unallocated
           /\ h \in Handle => buf'[h] = Unallocated \/ h \in lost'
           /\ nextHandle' = nextHandle
           /\ owner' = owner
BY DEF TypeOK, SafeFree, Allocated

LEMMA AllocEffect ==
    ASSUME TypeOK, NEW p \in PageId, Alloc(p)
    PROVE  /\ buf' \in [Handle -> Bytes \cup {Unallocated}]
           /\ owner' \in [Handle -> PageId \cup {-1}]
           /\ nextHandle \in Handle
           /\ nextHandle' = nextHandle + 1
           /\ nextHandle' \in 1 .. MaxHandle + 1
           /\ buf'[nextHandle] = Garbage
           /\ owner'[nextHandle] = p
           /\ \A g \in Handle : g # nextHandle =>
                buf'[g] = buf[g] /\ owner'[g] = owner[g]
           /\ lost' = lost
BY DEF TypeOK, Alloc

LEMMA RecordFailureEffect ==
    ASSUME TypeOK, RecordFailure
    PROVE  tripped' \subseteq Tier \X Tier
<1>1. <<op.from, op.to>> \in Tier \X Tier
  BY DEF TypeOK, OpType
<1>2. QED BY <1>1 DEF TypeOK, RecordFailure

LEMMA ReturnEffect ==
    ASSUME NEW o \in OpType, NEW s \in Status
    PROVE  LET r == ReturnWith(o, s)
           IN  /\ r \in OpType
               /\ r.pc = "returned" /\ r.status = s /\ r.src = -1
               /\ r.page_id = o.page_id /\ r.from = o.from /\ r.to = o.to
               /\ r.tgt = o.tgt /\ r.level = o.level /\ r.home = o.home
BY DEF ReturnWith, OpType, PC

LEMMA SettleEffect ==
    ASSUME TypeOK, NEW l \in Level, Settle(l)
    PROVE  /\ op' \in OpType
           /\ op'.pc = "settled" /\ op'.level = l /\ op'.src = -1
           /\ op'.page_id = op.page_id /\ op'.status = op.status
           /\ op'.from = op.from /\ op'.to = op.to
           /\ op'.tgt = op.tgt /\ op'.home = op.home
BY DEF Settle, TypeOK, OpType, PC, Level

LEMMA NewOpEffect ==
    ASSUME TypeOK, NEW p \in PageId, NEW t \in Tier
    PROVE  /\ NewOp(p, t) \in OpType
           /\ NewOp(p, t).page_id = p /\ NewOp(p, t).to = t
           /\ NewOp(p, t).home = home[p]
           /\ NewOp(p, t).src = -1 /\ NewOp(p, t).tgt = -1
           /\ NewOp(p, t).level = "none"
           /\ Present(p) => NewOp(p, t).from = page[p].tier
<1>1. Present(p) => page[p].tier \in Tier
  BY InTable DEF TypeOK, Metadata
<1>2. home[p] \in Place /\ BF16 \in Tier /\ NoPlace \in Place
  BY DEF TypeOK, Tier, BF16, DISK, NoPlace, Place
<1>3. IdleOp \in OpType
  BY <1>2 DEF IdleOp, OpType, PC, Status, Level, Tier, BF16, DISK
<1>4. QED BY ZenonT(40), <1>1, <1>2, <1>3 DEF NewOp, IdleOp, OpType, PC, Status, Level

(* A handle that is known has been given out.                              *)
LEMMA KnownHandles ==
    ASSUME MigrationInv
    PROVE  /\ \A p \in PageId :
                /\ handleOf[p] # -1 => handleOf[p] \in Handle /\ handleOf[p] < nextHandle
                /\ home[p].handle # -1 =>
                        home[p].handle \in Handle /\ home[p].handle < nextHandle
           /\ op.src # -1 => op.src \in Handle /\ op.src < nextHandle
           /\ op.tgt # -1 => op.tgt \in Handle /\ op.tgt < nextHandle
           /\ op.page_id \in PageId
<1>1. TypeOK /\ Fresh /\ Owned
  BY DEF MigrationInv
<1>2. ASSUME NEW h \in Handle, NEW p \in PageId, owner[h] = p
      PROVE  h < nextHandle
  BY <1>1, <1>2 DEF TypeOK, Fresh
<1>3. op.page_id \in PageId /\ op.src \in Handle \cup {-1} /\ op.tgt \in Handle \cup {-1}
  BY <1>1 DEF TypeOK, OpType
<1>4. \A p \in PageId : home[p].handle \in Handle \cup {-1} /\ handleOf[p] \in Handle \cup {-1}
  BY <1>1 DEF TypeOK, Place
<1>5. QED BY <1>1, <1>2, <1>3, <1>4 DEF Owned, OwnedBy

-----------------------------------------------------------------------------
(* The steps of a call.                                                    *)

(* A call, or a recovery, gives up before its commit and releases the      *)
(* target it has.                                                          *)
LEMMA AbortInv ==
    ASSUME MigrationInv,
           \/ op.pc \in Migrating /\ \E s \in {"SKIPPED", "FAILURE", "CORRUPT"} :
                    Return(s) \/ op' = ReturnWith([op EXCEPT !.faulty = TRUE], s)
           \/ op.pc \in Recovering /\ \E l \in {"STAYED", "QUARANTINED"} : Settle(l),
           \/ op.pc \in BeforeAlloc /\ UNCHANGED memory
           \/ op.pc \in Holding /\ SafeFree(op.tgt),
           UNCHANGED <<pageVars, handleOf, home>>,
           tripped' \subseteq Tier \X Tier
    PROVE  MigrationInv'
<1> USE DEF Migrating, BeforeAlloc, Holding, Written, Freeing, Recovering
<1>1. TypeOK /\ Fresh /\ Owned /\ Anchored /\ CallInv /\ PageInv
  BY DEF MigrationInv
<1>2. /\ op' \in OpType
      /\ op'.page_id = op.page_id /\ op'.from = op.from /\ op'.to = op.to
      /\ op'.src = -1 /\ op'.tgt = op.tgt /\ op'.home = op.home
      /\ \/ /\ op.pc \in Migrating
            /\ op'.pc = "returned" /\ op'.status # "OK" /\ op'.level = op.level
         \/ op'.pc = "settled"
  <2>1. CASE op.pc \in Migrating /\ \E s \in {"SKIPPED", "FAILURE", "CORRUPT"} :
                Return(s) \/ op' = ReturnWith([op EXCEPT !.faulty = TRUE], s)
    <3>1. PICK s \in {"SKIPPED", "FAILURE", "CORRUPT"},
               o \in {op, [op EXCEPT !.faulty = TRUE]} : op' = ReturnWith(o, s)
      BY <2>1 DEF Return
    <3>2. o \in OpType /\ s \in Status
      BY ZenonT(40), <1>1 DEF TypeOK, OpType, Status
    <3>3. /\ o.page_id = op.page_id /\ o.from = op.from /\ o.to = op.to
          /\ o.tgt = op.tgt /\ o.level = op.level /\ o.home = op.home
      BY <1>1 DEF TypeOK, OpType
    <3>4. QED BY <2>1, <3>1, <3>2, <3>3, ReturnEffect
  <2>2. CASE op.pc \in Recovering /\ \E l \in {"STAYED", "QUARANTINED"} : Settle(l)
    BY <1>1, <2>2, SettleEffect DEF Level
  <2>3. QED BY <2>1, <2>2
<1>3. /\ buf' \in [Handle -> Bytes \cup {Unallocated}]
      /\ lost' \subseteq Handle
      /\ \A g \in Handle : g # op.tgt => buf'[g] = buf[g]
      /\ \A g \in Handle : buf[g] = Unallocated => buf'[g] = Unallocated
      /\ op.tgt # -1 => buf'[op.tgt] = Unallocated \/ op.tgt \in lost'
      /\ nextHandle' = nextHandle
      /\ owner' = owner
  <2>1. CASE op.pc \in BeforeAlloc /\ UNCHANGED memory
    BY <1>1, <2>1 DEF TypeOK, CallInv, memory
  <2>2. CASE op.pc \in Holding /\ SafeFree(op.tgt)
    BY <1>1, <2>2, FreeEffect, KnownHandles
  <2>3. QED BY <2>1, <2>2
<1>4. \A p \in PageId : Present(p)' <=> Present(p)
  BY DEF pageVars, Present
<1>5. TypeOK'
  BY <1>1, <1>2, <1>3 DEF TypeOK, PageTypeOK, pageVars
<1>6. Fresh'
  BY <1>1, <1>3, <1>4 DEF Fresh, Counted, LivePages, Present, pageVars
<1>7. Owned'
  BY <1>1, <1>2, <1>3 DEF Owned, OwnedBy
<1>8. Anchored'
  BY <1>1, <1>4 DEF Anchored, pageVars
<1>9. CallInv'
  BY <1>1, <1>2 DEF CallInv, pageVars
<1>10. PageInv'
  BY <1>1, <1>2 DEF PageInv
<1>11. ("source" \notin Faults => BytesIntact)'
  <2> SUFFICES ASSUME "source" \notin Faults, NEW p \in PageId, Present(p)'
               PROVE  /\ Allocated(home[p].handle)'
                      /\ (Checksum(DecodeVia(home[p].codec, buf[home[p].handle]))
                            = page[p].bf16_checksum)'
    BY DEF BytesIntact
  <2>1. /\ Allocated(home[p].handle)
        /\ Checksum(DecodeVia(home[p].codec, buf[home[p].handle]))
                = page[p].bf16_checksum
    BY <1>4 DEF MigrationInv, BytesIntact
  <2>2. op.tgt # -1 => home[p].handle # op.tgt
    <3>1. CASE p = op.page_id
      BY <1>1, <1>4, <3>1 DEF PageInv, CallInv
    <3>2. CASE p # op.page_id
      BY <1>1, <3>2 DEF Owned, OwnedBy
    <3>3. QED BY <3>1, <3>2
  <2>3. QED BY SMTT(30), <1>3, <2>1, <2>2 DEF Allocated, pageVars, DecodeVia
<1>12. AllOrNothing'
  BY <1>1, <1>2 DEF AllOrNothing, PageInv, Present, pageVars
<1>13. AbortReleasesTarget'
  BY <1>2, <1>3 DEF AbortReleasesTarget, Allocated
<1>14. QED
  BY <1>5, <1>6, <1>7, <1>8, <1>9, <1>10, <1>11, <1>12, <1>13 DEF MigrationInv

(* Only the call itself, and the breakers, have changed.                   *)
LEMMA OnlyCallInv ==
    ASSUME MigrationInv,
           UNCHANGED <<pageVars, memory, handleOf, home>>,
           op' \in OpType,
           tripped' \subseteq Tier \X Tier,
           OwnedBy(op'.src, op'.page_id), OwnedBy(op'.tgt, op'.page_id),
           CallInv', PageInv', AllOrNothing', AbortReleasesTarget'
    PROVE  MigrationInv'
<1>1. TypeOK /\ Fresh /\ Owned /\ Anchored
  BY DEF MigrationInv
<1>2. TypeOK'
  BY <1>1 DEF TypeOK, PageTypeOK, pageVars, memory
<1>3. Fresh'
  BY <1>1 DEF Fresh, Counted, LivePages, Present, pageVars, memory
<1>4. Owned'
  BY <1>1 DEF Owned, OwnedBy, memory
<1>5. Anchored'
  BY <1>1 DEF Anchored, Present, pageVars
<1>6. ("source" \notin Faults => BytesIntact)'
  BY DEF MigrationInv, BytesIntact, Present, Allocated, DecodeVia, pageVars, memory
<1>7. QED BY <1>2, <1>3, <1>4, <1>5, <1>6 DEF MigrationInv

(* alloc() succeeds: the new buffer is nobody else's.                      *)
LEMMA AllocInv ==
    ASSUME MigrationInv,
           \/ op.pc = "alloc" /\ op' = [op EXCEPT !.pc = "write", !.tgt = nextHandle]
           \/ op.pc = "recover" /\ op' = [op EXCEPT !.pc = "rewrite", !.tgt = nextHandle],
           Alloc(op.page_id),
           UNCHANGED <<pageVars, handleOf, tripped, home>>
    PROVE  MigrationInv'
<1> USE DEF Migrating, BeforeAlloc, Holding, Written, Freeing, Recovering
<1>1. TypeOK /\ Fresh /\ Owned /\ Anchored /\ CallInv /\ PageInv
  BY DEF MigrationInv
<1>2. /\ buf' \in [Handle -> Bytes \cup {Unallocated}]
      /\ owner' \in [Handle -> PageId \cup {-1}]
      /\ nextHandle \in Handle
      /\ nextHandle' = nextHandle + 1
      /\ nextHandle' \in 1 .. MaxHandle + 1
      /\ owner'[nextHandle] = op.page_id
      /\ \A g \in Handle : g # nextHandle =>
            buf'[g] = buf[g] /\ owner'[g] = owner[g]
      /\ lost' = lost
  BY <1>1, AllocEffect, KnownHandles
<1>3. /\ op' \in OpType
      /\ op'.page_id = op.page_id /\ op'.from = op.from /\ op'.to = op.to
      /\ op'.src = op.src /\ op'.tgt = nextHandle /\ op'.home = op.home
      /\ op'.codec = op.codec /\ op'.packed = op.packed /\ op'.level = op.level
      /\ \/ op.pc = "alloc" /\ op'.pc = "write"
         \/ op.pc = "recover" /\ op'.pc = "rewrite"
  <2>1. CASE op.pc = "alloc" /\ op' = [op EXCEPT !.pc = "write", !.tgt = nextHandle]
    BY <1>1, <1>2, <2>1 DEF TypeOK, OpType, PC
  <2>2. CASE op.pc = "recover" /\ op' = [op EXCEPT !.pc = "rewrite", !.tgt = nextHandle]
    BY <1>1, <1>2, <2>2 DEF TypeOK, OpType, PC
  <2>3. QED BY <2>1, <2>2
<1>4. ASSUME NEW p \in PageId
      PROVE  handleOf[p] # nextHandle /\ home[p].handle # nextHandle
  <2>1. nextHandle # -1 /\ ~(nextHandle < nextHandle)
    BY <1>2
  <2>2. QED BY SMTT(30), <2>1, KnownHandles
<1>5. op.src # nextHandle
  BY SMTT(30), <1>2, KnownHandles
<1>6. TypeOK'
  BY <1>1, <1>2, <1>3 DEF TypeOK, PageTypeOK, pageVars
<1>7. Fresh'
  <2>1. Counted' /\ \A p \in PageId : p >= nextId' => ~Present(p)' /\ handleOf'[p] = -1
    BY <1>1 DEF Fresh, Counted, LivePages, Present, pageVars
  <2>2. ASSUME NEW h \in Handle, h >= nextHandle'
        PROVE  owner'[h] = -1 /\ buf'[h] = Unallocated
    <3>1. h # nextHandle /\ h >= nextHandle
      BY <1>2, <2>2 DEF Handle
    <3>2. QED BY <1>1, <1>2, <3>1 DEF Fresh
  <2>3. QED BY <2>1, <2>2 DEF Fresh
<1>8. Owned'
  <2>1. ASSUME NEW p \in PageId
        PROVE  OwnedBy(handleOf[p], p)' /\ OwnedBy(home[p].handle, p)'
    <3>1. OwnedBy(handleOf[p], p) /\ OwnedBy(home[p].handle, p)
      BY <1>1 DEF Owned
    <3>2. handleOf' = handleOf /\ home' = home
      OBVIOUS
    <3>3. \A h \in Handle \cup {-1} : h # nextHandle /\ OwnedBy(h, p) => OwnedBy(h, p)'
      BY <1>2 DEF OwnedBy
    <3>4. handleOf[p] \in Handle \cup {-1} /\ home[p].handle \in Handle \cup {-1}
      BY KnownHandles
    <3>5. QED BY <1>4, <3>1, <3>2, <3>3, <3>4 DEF OwnedBy
  <2>2. OwnedBy(op.src, op.page_id)'
    BY SMTT(30), <1>1, <1>2, <1>3, <1>5, KnownHandles DEF Owned, OwnedBy
  <2>3. OwnedBy(op.tgt, op.page_id)'
    BY <1>2, <1>3 DEF OwnedBy
  <2>4. QED BY <2>1, <2>2, <2>3 DEF Owned
<1>9. Anchored'
  BY <1>1 DEF Anchored, Present, pageVars
<1>10. CallInv'
  BY <1>1, <1>2, <1>3, <1>5 DEF CallInv, pageVars
<1>11. PageInv'
  BY <1>1, <1>3, <1>4, KnownHandles DEF PageInv, Present, pageVars
<1>12. ("source" \notin Faults => BytesIntact)'
  BY <1>2, <1>4 DEF MigrationInv, BytesIntact, Present, Allocated, DecodeVia, pageVars
<1>13. AllOrNothing' /\ AbortReleasesTarget'
  BY <1>3 DEF AllOrNothing, AbortReleasesTarget
<1>14. QED
  BY <1>6, <1>7, <1>8, <1>9, <1>10, <1>11, <1>12, <1>13 DEF MigrationInv

(* write() succeeds: only the target's contents change.                    *)
LEMMA WriteInv ==
    ASSUME MigrationInv,
           \/ op.pc = "write" /\ op' = [op EXCEPT !.pc = "verify"]
           \/ op.pc = "rewrite" /\ op' = [op EXCEPT !.pc = "recommit"],
           buf' = [buf EXCEPT ![op.tgt] = op.packed],
           UNCHANGED <<pageVars, nextHandle, owner, lost, handleOf, tripped, home>>
    PROVE  MigrationInv'
<1> USE DEF Migrating, BeforeAlloc, Holding, Written, Freeing, Recovering
<1>1. TypeOK /\ Fresh /\ Owned /\ Anchored /\ CallInv /\ PageInv
  BY DEF MigrationInv
<1>2. /\ op' \in OpType
      /\ op'.page_id = op.page_id /\ op'.from = op.from /\ op'.to = op.to
      /\ op'.src = op.src /\ op'.tgt = op.tgt /\ op'.home = op.home
      /\ op'.codec = op.codec /\ op'.packed = op.packed /\ op'.level = op.level
      /\ \/ op.pc = "write" /\ op'.pc = "verify"
         \/ op.pc = "rewrite" /\ op'.pc = "recommit"
  <2>1. CASE op.pc = "write" /\ op' = [op EXCEPT !.pc = "verify"]
    BY <1>1, <2>1 DEF TypeOK, OpType, PC
  <2>2. CASE op.pc = "rewrite" /\ op' = [op EXCEPT !.pc = "recommit"]
    BY <1>1, <2>2 DEF TypeOK, OpType, PC
  <2>3. QED BY <2>1, <2>2
<1>3. op.tgt \in Handle /\ op.tgt < nextHandle /\ op.packed \in Bytes
  BY <1>1, <1>2, KnownHandles DEF CallInv, TypeOK, OpType
<1>4. /\ buf' \in [Handle -> Bytes \cup {Unallocated}]
      /\ buf'[op.tgt] = op.packed
      /\ \A g \in Handle : g # op.tgt => buf'[g] = buf[g]
  BY <1>1, <1>3 DEF TypeOK
<1>5. TypeOK'
  BY <1>1, <1>2, <1>4 DEF TypeOK, PageTypeOK, pageVars
<1>6. Fresh'
  BY <1>1, <1>3, <1>4 DEF TypeOK, Fresh, Counted, LivePages, Present, pageVars
<1>7. Owned' /\ Anchored'
  BY <1>1, <1>2 DEF Owned, OwnedBy, Anchored, Present, pageVars
<1>8. CallInv'
  BY <1>1, <1>2 DEF CallInv, pageVars
<1>9. PageInv'
  BY <1>1, <1>2, <1>4 DEF PageInv, Present, pageVars
<1>10. ASSUME NEW p \in PageId, Present(p)
       PROVE  home[p].handle # op.tgt
  <2>1. CASE p = op.page_id
    BY <1>1, <1>2, <1>10, <2>1 DEF PageInv
  <2>2. CASE p # op.page_id
    BY <1>1, <1>3, <2>2 DEF Owned, OwnedBy
  <2>3. QED BY <2>1, <2>2
<1>11. ("source" \notin Faults => BytesIntact)'
  BY <1>4, <1>10 DEF MigrationInv, BytesIntact, Present, Allocated, DecodeVia, pageVars
<1>12. AllOrNothing' /\ AbortReleasesTarget'
  BY <1>2 DEF AllOrNothing, AbortReleasesTarget
<1>13. QED
  BY <1>5, <1>6, <1>7, <1>8, <1>9, <1>11, <1>12 DEF MigrationInv

(* free() of the buffer the page has left: no page's bytes are in it.      *)
LEMMA FreeInv ==
    ASSUME MigrationInv,
           \/ op.pc = "free" /\ Return("OK")
           \/ op.pc = "refree" /\ Settle("BF16_RECONSTRUCTED"),
           SafeFree(op.src) \/ UNCHANGED memory,
           UNCHANGED <<pageVars, handleOf, tripped, home>>
    PROVE  MigrationInv'
<1> USE DEF Migrating, BeforeAlloc, Holding, Written, Freeing, Recovering
<1>1. TypeOK /\ Fresh /\ Owned /\ Anchored /\ CallInv /\ PageInv
  BY DEF MigrationInv
<1>2. /\ op' \in OpType
      /\ op'.page_id = op.page_id /\ op'.from = op.from /\ op'.to = op.to
      /\ op'.src = -1 /\ op'.tgt = op.tgt /\ op'.home = op.home
      /\ \/ /\ op.pc = "free"
            /\ op'.pc = "returned" /\ op'.status = "OK" /\ op'.level = op.level
         \/ /\ op.pc = "refree"
            /\ op'.pc = "settled" /\ op'.level = "BF16_RECONSTRUCTED"
  <2>1. CASE op.pc = "free" /\ Return("OK")
    BY <1>1, <2>1, ReturnEffect DEF TypeOK, Return, Status
  <2>2. CASE op.pc = "refree" /\ Settle("BF16_RECONSTRUCTED")
    BY <1>1, <2>2, SettleEffect DEF Level
  <2>3. QED BY <2>1, <2>2
<1>3. /\ buf' \in [Handle -> Bytes \cup {Unallocated}]
      /\ lost' \subseteq Handle
      /\ \A g \in Handle : g # op.src => buf'[g] = buf[g]
      /\ \A g \in Handle : buf[g] = Unallocated => buf'[g] = Unallocated
      /\ nextHandle' = nextHandle
      /\ owner' = owner
  <2>1. CASE SafeFree(op.src)
    BY <1>1, <2>1, FreeEffect
  <2>2. CASE UNCHANGED memory
    BY <1>1, <2>2 DEF TypeOK, memory
  <2>3. QED BY <2>1, <2>2
<1>4. TypeOK'
  BY <1>1, <1>2, <1>3 DEF TypeOK, PageTypeOK, pageVars
<1>5. Fresh'
  BY <1>1, <1>3 DEF Fresh, Counted, LivePages, Present, pageVars
<1>6. Owned' /\ Anchored'
  BY <1>1, <1>2, <1>3 DEF Owned, OwnedBy, Anchored, Present, pageVars
<1>7. CallInv' /\ PageInv'
  BY <1>1, <1>2 DEF CallInv, PageInv, pageVars
<1>8. ASSUME NEW p \in PageId, Present(p), op.src # -1
      PROVE  home[p].handle # op.src
  <2>1. CASE p = op.page_id
    BY <1>1, <1>2, <1>8, <2>1 DEF PageInv, CallInv
  <2>2. CASE p # op.page_id
    BY <1>1, <1>8, <2>2 DEF Owned, OwnedBy
  <2>3. QED BY <2>1, <2>2
<1>9. ("source" \notin Faults => BytesIntact)'
  <2> SUFFICES ASSUME "source" \notin Faults, NEW p \in PageId, Present(p)'
               PROVE  /\ Allocated(home[p].handle)'
                      /\ (Checksum(DecodeVia(home[p].codec, buf[home[p].handle]))
                            = page[p].bf16_checksum)'
    BY DEF BytesIntact
  <2>1. Present(p) /\ home' = home /\ page' = page
    BY DEF Present, pageVars
  <2>2. /\ Allocated(home[p].handle)
        /\ Checksum(DecodeVia(home[p].codec, buf[home[p].handle]))
                = page[p].bf16_checksum
    BY <2>1 DEF MigrationInv, BytesIntact
  <2>3. buf'[home[p].handle] = buf[home[p].handle]
    BY <1>3, <1>8, <2>1, <2>2 DEF Allocated
  <2>4. QED BY <2>1, <2>2, <2>3 DEF Allocated, DecodeVia
<1>10. AllOrNothing'
  BY <1>1, <1>2 DEF AllOrNothing, PageInv, Present, pageVars
<1>11. AbortReleasesTarget'
  BY <1>2 DEF AbortReleasesTarget, Moved
<1>12. QED
  BY <1>4, <1>5, <1>6, <1>7, <1>9, <1>10, <1>11 DEF MigrationInv

(* apply_tier_transition() returns True: the page is now in the target.    *)
LEMMA MoveInv ==
    ASSUME MigrationInv,
           NEW t \in Tier, NEW c \in Nat,
           ApplyTierTransition(op.page_id, t, c),
           \/ op.pc = "commit" /\ t = op.to /\ op' = [op EXCEPT !.pc = "free"]
           \/ op.pc = "recommit" /\ op' = [op EXCEPT !.pc = "refree"],
           home' = [home EXCEPT ![op.page_id] =
                        [handle |-> op.tgt, codec |-> op.codec]],
           handleOf' \in {handleOf, [handleOf EXCEPT ![op.page_id] = op.tgt]},
           UNCHANGED <<memory, tripped>>
    PROVE  MigrationInv'
<1> USE DEF Migrating, BeforeAlloc, Holding, Written, Freeing, Recovering
<1>1. TypeOK /\ Fresh /\ Owned /\ Anchored /\ CallInv /\ PageInv /\ PageOK
  BY DEF MigrationInv, TypeOK, Fresh, PageOK
<1>2. /\ op' \in OpType
      /\ op'.page_id = op.page_id /\ op'.from = op.from /\ op'.to = op.to
      /\ op'.src = op.src /\ op'.tgt = op.tgt /\ op'.level = op.level
      /\ \/ op.pc = "commit" /\ op'.pc = "free" /\ t = op.to
         \/ op.pc = "recommit" /\ op'.pc = "refree"
  <2>1. CASE op.pc = "commit" /\ t = op.to /\ op' = [op EXCEPT !.pc = "free"]
    BY <1>1, <2>1 DEF TypeOK, OpType, PC
  <2>2. CASE op.pc = "recommit" /\ op' = [op EXCEPT !.pc = "refree"]
    BY <1>1, <2>2 DEF TypeOK, OpType, PC
  <2>3. QED BY <2>1, <2>2
<1>3. /\ op.page_id \in PageId /\ op.codec \in Codec \cup {Raw} /\ op.packed \in Bytes
      /\ op.tgt \in Handle /\ op.tgt # op.src
  BY <1>1, <1>2, KnownHandles DEF CallInv, TypeOK, OpType
<1>4. /\ PageOK'
      /\ nextId' = nextId
      /\ Present(op.page_id)
      /\ page'[op.page_id].tier = t
      /\ \A q \in PageId : Present(q)' <=> Present(q)
      /\ \A q \in PageId : page'[q].bf16_checksum = page[q].bf16_checksum
  BY <1>1, <1>3, TransitionEffect
<1>5. /\ home' \in [PageId -> Place]
      /\ home'[op.page_id].handle = op.tgt /\ home'[op.page_id].codec = op.codec
      /\ \A q \in PageId : q # op.page_id => home'[q] = home[q]
  BY <1>1, <1>3 DEF TypeOK, Place
<1>6. /\ handleOf' \in [PageId -> Handle \cup {-1}]
      /\ \A q \in PageId : q # op.page_id => handleOf'[q] = handleOf[q]
      /\ handleOf'[op.page_id] \in {handleOf[op.page_id], op.tgt}
  BY <1>1, <1>3 DEF TypeOK
<1>7. UNCHANGED <<buf, nextHandle, owner, lost>>
  BY DEF memory
<1>8. TypeOK'
  BY <1>1, <1>2, <1>4, <1>5, <1>6, <1>7 DEF TypeOK, PageOK
<1>9. Fresh'
  <2>1. op.page_id < nextId
    BY <1>1, <1>2 DEF CallInv
  <2>2. QED BY <1>1, <1>3, <1>4, <1>6, <1>7, <2>1 DEF Fresh, PageOK
<1>10. Owned'
  <2>1. owner[op.tgt] = op.page_id
    BY <1>1, <1>3 DEF Owned, OwnedBy
  <2>2. ASSUME NEW q \in PageId
        PROVE  OwnedBy(handleOf[q], q)' /\ OwnedBy(home[q].handle, q)'
    <3>1. /\ OwnedBy(handleOf[q], q) /\ OwnedBy(home[q].handle, q)
          /\ owner' = owner
      BY <1>1, <1>7 DEF Owned
    <3>2. CASE q = op.page_id
      BY <1>5, <1>6, <2>1, <3>1, <3>2 DEF OwnedBy
    <3>3. CASE q # op.page_id
      BY <1>5, <1>6, <3>1, <3>3 DEF OwnedBy
    <3>4. QED BY <3>2, <3>3
  <2>3. OwnedBy(op.src, op.page_id)' /\ OwnedBy(op.tgt, op.page_id)'
    BY <1>1, <1>2, <1>7 DEF Owned, OwnedBy
  <2>4. QED BY <2>2, <2>3 DEF Owned
<1>11. Anchored'
  BY <1>1, <1>4 DEF Anchored
<1>12. CallInv' /\ AllOrNothing' /\ AbortReleasesTarget'
  BY <1>1, <1>2, <1>3, <1>4 DEF CallInv, AllOrNothing, AbortReleasesTarget
<1>13. PageInv'
  BY <1>2, <1>3, <1>4, <1>5 DEF PageInv
<1>14. ("source" \notin Faults => BytesIntact)'
  <2> SUFFICES ASSUME "source" \notin Faults, NEW p \in PageId, Present(p)'
               PROVE  /\ Allocated(home[p].handle)'
                      /\ (Checksum(DecodeVia(home[p].codec, buf[home[p].handle]))
                            = page[p].bf16_checksum)'
    BY DEF BytesIntact
  <2>1. CASE p = op.page_id
    <3>1. buf[op.tgt] = op.packed
      BY <1>1, <1>2, <1>4 DEF PageInv
    <3>2. Checksum(DecodeVia(op.codec, op.packed)) = page[p].bf16_checksum
      <4>1. CASE op.pc = "commit"
        BY <1>1, <1>4, <2>1, <4>1 DEF PageInv, CallInv, Verified, DecodeVia
      <4>2. CASE op.pc = "recommit"
        BY <1>1, <1>4, <2>1, <4>2 DEF CallInv, Anchored, DecodeVia
      <4>3. QED BY <1>2, <4>1, <4>2
    <3>3. QED BY SMTT(30), <1>3, <1>4, <1>5, <1>7, <2>1, <3>1, <3>2 DEF Allocated, DecodeVia
  <2>2. CASE p # op.page_id
    <3>1. /\ Allocated(home[p].handle)
          /\ Checksum(DecodeVia(home[p].codec, buf[home[p].handle]))
                = page[p].bf16_checksum
      BY <1>4 DEF MigrationInv, BytesIntact
    <3>2. QED BY <1>4, <1>5, <1>7, <2>2, <3>1 DEF Allocated, DecodeVia
  <2>3. QED BY <2>1, <2>2
<1>15. QED
  BY <1>8, <1>9, <1>10, <1>11, <1>12, <1>13, <1>14 DEF MigrationInv

-----------------------------------------------------------------------------
(* The integration layer.                                                  *)

LEMMA FinishInv ==
    ASSUME MigrationInv, Finish
    PROVE  MigrationInv'
<1> USE DEF Migrating, BeforeAlloc, Holding, Written, Freeing, Recovering
<1>1. TypeOK /\ Fresh /\ Owned /\ Anchored /\ CallInv
  BY DEF MigrationInv
<1>2. /\ op' = IdleOp
      /\ op.pc \in {"returned", "settled"}
      /\ UNCHANGED <<pageVars, memory, tripped, home>>
  BY DEF Finish
<1>3. /\ op' \in OpType /\ op'.pc = "idle" /\ op'.src = -1 /\ op'.tgt = -1
      /\ op'.level = "none"
  BY <1>2 DEF IdleOp, OpType, PC, Status, Level, Tier, BF16, DISK, NoPlace, Place
<1>4. op.page_id \in PageId /\ op.page_id < nextId /\ op.tgt \in Handle \cup {-1}
  BY <1>1, <1>2 DEF CallInv, TypeOK, OpType
<1>5. /\ handleOf' \in [PageId -> Handle \cup {-1}]
      /\ \A q \in PageId : q # op.page_id => handleOf'[q] = handleOf[q]
      /\ handleOf'[op.page_id] \in {handleOf[op.page_id], op.tgt}
  BY <1>1, <1>4 DEF Finish, TypeOK
<1>6. TypeOK'
  BY <1>1, <1>2, <1>3, <1>5 DEF TypeOK, PageTypeOK, pageVars, memory
<1>7. Fresh'
  <2>1. Counted' /\ \A q \in PageId : Present(q)' <=> Present(q)
    BY <1>1, <1>2 DEF Fresh, Counted, LivePages, Present, pageVars
  <2>2. ASSUME NEW q \in PageId, q >= nextId
        PROVE  ~Present(q) /\ handleOf'[q] = -1
    <3>1. q # op.page_id
      BY <1>1, <1>4, <2>2 DEF TypeOK, PageTypeOK
    <3>2. QED BY <1>1, <1>5, <2>2, <3>1 DEF Fresh
  <2>3. QED BY <1>1, <1>2, <2>1, <2>2 DEF Fresh, pageVars, memory
<1>8. Owned'
  <2>1. ASSUME NEW q \in PageId
        PROVE  OwnedBy(handleOf[q], q)' /\ OwnedBy(home[q].handle, q)'
    <3>1. owner' = owner /\ home'[q] = home[q]
      BY <1>1, <1>2 DEF memory
    <3>2. OwnedBy(handleOf[q], q) /\ OwnedBy(home[q].handle, q)
          /\ OwnedBy(op.tgt, op.page_id)
      BY <1>1 DEF Owned
    <3>3. OwnedBy(home[q].handle, q)'
      BY <3>1, <3>2 DEF OwnedBy
    <3>4. OwnedBy(handleOf[q], q)'
      <4>1. handleOf'[q] = handleOf[q] \/ (q = op.page_id /\ handleOf'[q] = op.tgt)
        BY <1>5
      <4>2. CASE handleOf'[q] = handleOf[q]
        BY <3>1, <3>2, <4>2 DEF OwnedBy
      <4>3. CASE q = op.page_id /\ handleOf'[q] = op.tgt
        BY <3>1, <3>2, <4>3 DEF OwnedBy
      <4>4. QED BY <4>1, <4>2, <4>3
    <3>5. QED BY <3>3, <3>4
  <2>2. QED BY <1>3, <2>1 DEF Owned, OwnedBy
<1>9. Anchored' /\ ("source" \notin Faults => BytesIntact)'
  BY <1>1, <1>2 DEF MigrationInv, Anchored, BytesIntact, Present, Allocated,
     DecodeVia, pageVars, memory
<1>10. CallInv' /\ PageInv' /\ AllOrNothing' /\ AbortReleasesTarget'
  BY <1>3 DEF CallInv, PageInv, AllOrNothing, AbortReleasesTarget
<1>11. QED BY <1>6, <1>7, <1>8, <1>9, <1>10 DEF MigrationInv

(* A page that nothing knows yet, in a buffer that nothing knows yet.      *)
LEMMA AddPageInv ==
    ASSUME MigrationInv, AddPage
    PROVE  MigrationInv'
<1> USE DEF Migrating, BeforeAlloc, Holding, Written, Freeing, Recovering
<1>1. /\ TypeOK /\ Fresh /\ Owned /\ Anchored /\ CallInv /\ PageInv /\ PageOK
      /\ nextId \in PageId /\ nextHandle \in Handle
  BY DEF MigrationInv, TypeOK, Fresh, PageOK, AddPage, Add
<1>2. Checksum(Source(nextId)) \in Nat /\ Source(nextId) \in Bytes
  BY <1>1
<1>3. /\ PageOK'
      /\ nextId' = nextId + 1
      /\ page'[nextId] = NewPage(Checksum(Source(nextId)))
      /\ \A q \in PageId : q # nextId => page'[q] = page[q]
  BY <1>1, <1>2, AddEffect DEF AddPage, Fresh
<1>4. /\ buf' \in [Handle -> Bytes \cup {Unallocated}]
      /\ owner' \in [Handle -> PageId \cup {-1}]
      /\ nextHandle' = nextHandle + 1 /\ nextHandle' \in 1 .. MaxHandle + 1
      /\ buf'[nextHandle] = Source(nextId) /\ owner'[nextHandle] = nextId
      /\ \A g \in Handle : g # nextHandle =>
            buf'[g] = buf[g] /\ owner'[g] = owner[g]
      /\ lost' = lost
  BY <1>1, <1>2 DEF AddPage, TypeOK
<1>5. /\ handleOf' \in [PageId -> Handle \cup {-1}]
      /\ home' \in [PageId -> Place]
      /\ handleOf'[nextId] = nextHandle
      /\ home'[nextId] = [handle |-> nextHandle, codec |-> Raw]
      /\ \A q \in PageId : q # nextId =>
            handleOf'[q] = handleOf[q] /\ home'[q] = home[q]
  BY <1>1 DEF AddPage, TypeOK, Place
<1>6. op' = op /\ tripped' = tripped
  BY DEF AddPage
<1>7. /\ op.pc # "idle" => op.page_id # nextId
      /\ op.src # nextHandle /\ op.tgt # nextHandle
      /\ op.page_id \in PageId
  BY <1>1, KnownHandles DEF CallInv
<1>8. ASSUME NEW q \in PageId
      PROVE  home[q].handle # nextHandle /\ handleOf[q] # nextHandle
  BY <1>1, KnownHandles
<1>9. TypeOK'
  BY <1>1, <1>3, <1>4, <1>5, <1>6 DEF TypeOK, PageOK
<1>10. Fresh'
  <2>1. ASSUME NEW q \in PageId, q >= nextId'
        PROVE  ~Present(q)' /\ handleOf'[q] = -1
    <3>1. q # nextId /\ q >= nextId
      BY <1>1, <1>3, <2>1
    <3>2. QED BY <1>1, <1>3, <1>5, <3>1 DEF Fresh, Present
  <2>2. ASSUME NEW h \in Handle, h >= nextHandle'
        PROVE  owner'[h] = -1 /\ buf'[h] = Unallocated
    <3>1. h # nextHandle /\ h >= nextHandle
      BY <1>1, <1>4, <2>2
    <3>2. QED BY <1>1, <1>4, <3>1 DEF Fresh
  <2>3. QED BY <1>3, <2>1, <2>2 DEF Fresh, PageOK
<1>11. Owned'
  <2>1. ASSUME NEW q \in PageId
        PROVE  OwnedBy(handleOf[q], q)' /\ OwnedBy(home[q].handle, q)'
    <3>1. CASE q = nextId
      BY <1>4, <1>5, <3>1 DEF OwnedBy
    <3>2. CASE q # nextId
      <4>1. handleOf'[q] = handleOf[q] /\ home'[q] = home[q]
        BY <1>5, <3>2
      <4>2. ASSUME NEW h \in {handleOf[q], home[q].handle}, h # -1
            PROVE  owner'[h] = q
        <5>1. owner[h] = q
          BY <1>1, <4>2 DEF Owned, OwnedBy
        <5>2. h \in Handle /\ h # nextHandle
          BY <1>8, <4>2, KnownHandles
        <5>3. QED BY <1>4, <5>1, <5>2
      <4>3. QED BY <4>1, <4>2 DEF OwnedBy
    <3>3. QED BY <3>1, <3>2
  <2>2. OwnedBy(op.src, op.page_id)' /\ OwnedBy(op.tgt, op.page_id)'
    BY <1>1, <1>4, <1>6, <1>7, KnownHandles DEF Owned, OwnedBy
  <2>3. QED BY <2>1, <2>2 DEF Owned
<1>12. Anchored'
  BY <1>1, <1>3 DEF Anchored, Present, NewPage
<1>13. CallInv'
  <2>1. op.pc # "idle" => op.page_id < nextId'
    BY <1>1, <1>3, <1>7 DEF CallInv
  <2>2. QED BY <1>1, <1>6, <2>1 DEF CallInv
<1>14. PageInv'
  <2>1. CASE op.pc = "idle"
    BY <1>6, <2>1 DEF PageInv
  <2>2. CASE op.pc # "idle"
    BY <1>1, <1>3, <1>4, <1>5, <1>6, <1>7, <2>2, KnownHandles
       DEF PageInv, Present, Verified, CallInv
  <2>3. QED BY <2>1, <2>2
<1>15. ("source" \notin Faults => BytesIntact)'
  <2> SUFFICES ASSUME "source" \notin Faults, NEW p \in PageId, Present(p)'
               PROVE  /\ Allocated(home[p].handle)'
                      /\ (Checksum(DecodeVia(home[p].codec, buf[home[p].handle]))
                            = page[p].bf16_checksum)'
    BY DEF BytesIntact
  <2>1. CASE p = nextId
    BY <1>1, <1>2, <1>3, <1>4, <1>5, <2>1 DEF Allocated, DecodeVia, NewPage
  <2>2. CASE p # nextId
    <3>1. /\ Allocated(home[p].handle)
          /\ Checksum(DecodeVia(home[p].codec, buf[home[p].handle]))
                = page[p].bf16_checksum
      BY <1>3, <2>2 DEF MigrationInv, BytesIntact, Present
    <3>2. home'[p] = home[p] /\ page'[p] = page[p]
      BY <1>3, <1>5, <2>2
    <3>3. buf'[home[p].handle] = buf[home[p].handle]
      BY <1>4, <1>8, <3>1 DEF Allocated
    <3>4. QED BY <3>1, <3>2, <3>3 DEF Allocated, DecodeVia
  <2>3. QED BY <2>1, <2>2
<1>16. AllOrNothing'
  BY <1>3, <1>5, <1>6, <1>7 DEF MigrationInv, AllOrNothing, Present
<1>17. AbortReleasesTarget'
  BY <1>4, <1>6, <1>7 DEF MigrationInv, AbortReleasesTarget, Moved, Allocated
<1>18. QED
  BY <1>9, <1>10, <1>11, <1>12, <1>13, <1>14, <1>15, <1>16, <1>17 DEF MigrationInv

(* The page is gone; only a buffer of its own may go with it.              *)
LEMMA RemovePageInv ==
    ASSUME MigrationInv, NEW p \in PageId, RemovePage(p)
    PROVE  MigrationInv'
<1> USE DEF Migrating, BeforeAlloc, Holding, Written, Freeing, Recovering
<1>1. TypeOK /\ Fresh /\ Owned /\ Anchored /\ CallInv /\ PageInv /\ PageOK
  BY DEF MigrationInv, TypeOK, Fresh, PageOK
<1>2. /\ PageOK'
      /\ nextId' = nextId
      /\ ~Present(p)'
      /\ \A q \in PageId : q # p => page'[q] = page[q]
  BY <1>1, RemoveEffect DEF RemovePage
<1>3. /\ buf' \in [Handle -> Bytes \cup {Unallocated}]
      /\ \A g \in Handle : g # handleOf[p] => buf'[g] = buf[g]
      /\ \A g \in Handle : buf[g] = Unallocated => buf'[g] = Unallocated
      /\ UNCHANGED <<nextHandle, owner, lost, handleOf, tripped, op, home>>
  BY <1>1 DEF RemovePage, TypeOK
<1>4. ASSUME NEW h \in Handle, owner[h] # p
      PROVE  buf'[h] = buf[h]
  <2>1. OwnedBy(handleOf[p], p) /\ -1 \notin Handle
    BY <1>1 DEF Owned, Handle
  <2>2. h # handleOf[p]
    BY <1>4, <2>1 DEF OwnedBy
  <2>3. QED BY <1>3, <2>2
<1>5. TypeOK'
  BY <1>1, <1>2, <1>3 DEF TypeOK, PageOK
<1>6. Fresh'
  BY <1>1, <1>2, <1>3 DEF Fresh, PageOK, Present
<1>7. Owned'
  BY <1>1, <1>3 DEF Owned, OwnedBy
<1>8. Anchored'
  BY <1>1, <1>2 DEF Anchored, Present
<1>9. CallInv' /\ AbortReleasesTarget'
  <2>1. CallInv'
    BY <1>1, <1>2, <1>3 DEF CallInv
  <2>2. AbortReleasesTarget'
    BY <1>3 DEF MigrationInv, AbortReleasesTarget, Moved, Allocated
  <2>3. QED BY <2>1, <2>2
<1>10. AllOrNothing'
  <2>1. op.page_id \in PageId
    BY KnownHandles
  <2>2. QED BY <1>2, <1>3, <2>1 DEF MigrationInv, AllOrNothing, Present
<1>11. PageInv'
  <2> SUFFICES ASSUME Present(op.page_id)'
               PROVE  PageInv'
    BY DEF PageInv
  <2>1. op.page_id \in PageId /\ op.page_id # p /\ op' = op
    BY <1>2, <1>3, KnownHandles
  <2>2. op.pc \in Written => op.tgt \in Handle /\ owner[op.tgt] # p
    BY <1>1, <2>1, KnownHandles DEF Owned, OwnedBy, CallInv
  <2>3. op.pc \in Written => buf'[op.tgt] = buf[op.tgt]
    BY <1>4, <2>2
  <2>4. Present(op.page_id) /\ page'[op.page_id] = page[op.page_id]
    BY <1>2, <2>1 DEF Present
  <2>5. QED BY <1>1, <1>3, <2>1, <2>3, <2>4 DEF PageInv, Verified
<1>12. ("source" \notin Faults => BytesIntact)'
  <2> SUFFICES ASSUME "source" \notin Faults, NEW q \in PageId, Present(q)'
               PROVE  /\ Allocated(home[q].handle)'
                      /\ (Checksum(DecodeVia(home[q].codec, buf[home[q].handle]))
                            = page[q].bf16_checksum)'
    BY DEF BytesIntact
  <2>1. q # p /\ page'[q] = page[q] /\ Present(q)
    BY <1>2 DEF Present
  <2>2. /\ Allocated(home[q].handle)
        /\ Checksum(DecodeVia(home[q].codec, buf[home[q].handle]))
                = page[q].bf16_checksum
    BY <2>1 DEF MigrationInv, BytesIntact
  <2>3. buf'[home[q].handle] = buf[home[q].handle]
    BY <1>1, <1>4, <2>1, <2>2 DEF Allocated, Owned, OwnedBy
  <2>4. QED BY <1>3, <2>1, <2>2, <2>3 DEF Allocated, DecodeVia
<1>13. QED
  BY <1>5, <1>6, <1>7, <1>8, <1>9, <1>10, <1>11, <1>12 DEF MigrationInv

LEMMA PinPageInv ==
    ASSUME MigrationInv, NEW p \in PageId, PinPage(p) \/ UnpinPage(p)
    PROVE  MigrationInv'
<1>1. TypeOK /\ Fresh /\ Owned /\ Anchored /\ CallInv /\ PageInv /\ PageOK
  BY DEF MigrationInv, TypeOK, Fresh, PageOK
<1>2. /\ PageOK'
      /\ nextId' = nextId
      /\ \A q \in PageId : Present(q)' <=> Present(q)
      /\ \A q \in PageId : /\ page'[q].tier = page[q].tier
                           /\ page'[q].bf16_checksum = page[q].bf16_checksum
  BY <1>1, PinEffect DEF PinPage, UnpinPage
<1>3. UNCHANGED <<memory, handleOf, tripped, op, home>> /\ op.page_id \in PageId
  BY KnownHandles DEF PinPage, UnpinPage
<1>4. TypeOK' /\ Fresh'
  BY <1>1, <1>2, <1>3 DEF TypeOK, Fresh, PageOK, memory
<1>5. Owned' /\ Anchored' /\ CallInv'
  BY <1>1, <1>2, <1>3 DEF Owned, OwnedBy, Anchored, CallInv, memory
<1>6. PageInv'
  BY <1>1, <1>2, <1>3 DEF PageInv, Verified, memory
<1>7. ("source" \notin Faults => BytesIntact)'
  BY <1>2, <1>3 DEF MigrationInv, BytesIntact, Allocated, DecodeVia, memory
<1>8. AllOrNothing' /\ AbortReleasesTarget'
  BY <1>2, <1>3 DEF MigrationInv, AllOrNothing, AbortReleasesTarget, Moved,
     Allocated, memory
<1>9. QED BY <1>4, <1>5, <1>6, <1>7, <1>8 DEF MigrationInv

-----------------------------------------------------------------------------
(* The actions.                                                            *)

LEMMA SkipInv ==
    ASSUME MigrationInv, NEW p \in Registered, NEW t \in Targets, Skip(p, t)
    PROVE  MigrationInv'
<1> USE DEF Migrating, BeforeAlloc, Holding, Written, Freeing, Recovering
<1>1. TypeOK /\ p \in PageId /\ p < nextId /\ t \in Tier
  BY DEF MigrationInv, Registered
<1>2. op' = [NewOp(p, t) EXCEPT !.pc = "returned", !.status = "SKIPPED"]
  BY DEF Skip
<1>3. /\ op' \in OpType /\ op'.pc = "returned" /\ op'.status = "SKIPPED"
      /\ op'.page_id = p /\ op'.src = -1 /\ op'.tgt = -1
      /\ op'.level = "none" /\ op'.home = home[p]
      /\ Present(p) => op'.from = page[p].tier
  <2>1. PICK n \in OpType :
            /\ n = NewOp(p, t)
            /\ n.page_id = p /\ n.src = -1 /\ n.tgt = -1
            /\ n.level = "none" /\ n.home = home[p]
            /\ Present(p) => n.from = page[p].tier
    BY <1>1, NewOpEffect
  <2>2. op' = [n EXCEPT !.pc = "returned", !.status = "SKIPPED"]
    BY <1>2, <2>1
  <2>3. op' \in OpType
    <3>1. "returned" \in PC /\ "SKIPPED" \in Status
      BY DEF PC, Status
    <3>2. QED BY <2>2, <3>1 DEF OpType
  <2>4. QED BY <2>1, <2>2, <2>3 DEF OpType
<1>4. UNCHANGED <<pageVars, memory, handleOf, home, tripped>>
  BY DEF Skip
<1>5. CallInv' /\ PageInv' /\ AllOrNothing' /\ AbortReleasesTarget'
  BY <1>1, <1>3, <1>4 DEF CallInv, PageInv, AllOrNothing, AbortReleasesTarget,
     Present, pageVars
<1>6. QED BY <1>1, <1>3, <1>4, <1>5, OnlyCallInv DEF OwnedBy, TypeOK

LEMMA StartInv ==
    ASSUME MigrationInv, NEW p \in Registered, NEW t \in Targets, Start(p, t)
    PROVE  MigrationInv'
<1> USE DEF Migrating, BeforeAlloc, Holding, Written, Freeing, Recovering
<1>1. TypeOK /\ p \in PageId /\ p < nextId /\ t \in Tier
  BY DEF MigrationInv, Registered
<1>2. Present(p) /\ CodecTable[<<page[p].tier, t>>] \in Codec
  BY DEF Start, Movable
<1>3. op' = [NewOp(p, t) EXCEPT !.pc = "read",
                                !.codec = CodecTable[<<page[p].tier, t>>]]
  BY DEF Start
<1>4. /\ op' \in OpType /\ op'.pc = "read" /\ op'.codec \in Codec
      /\ op'.page_id = p /\ op'.src = -1 /\ op'.tgt = -1
      /\ op'.level = "none" /\ op'.home = home[p] /\ op'.from = page[p].tier
  <2>1. PICK n \in OpType :
            /\ n = NewOp(p, t)
            /\ n.page_id = p /\ n.src = -1 /\ n.tgt = -1
            /\ n.level = "none" /\ n.home = home[p]
            /\ Present(p) => n.from = page[p].tier
    BY <1>1, NewOpEffect
  <2>2. op' = [n EXCEPT !.pc = "read", !.codec = CodecTable[<<page[p].tier, t>>]]
    BY <1>3, <2>1
  <2>3. QED BY ZenonT(40), <1>2, <2>1, <2>2 DEF OpType, PC
<1>5. UNCHANGED <<pageVars, memory, handleOf, home>> /\ tripped' \subseteq Tier \X Tier
  BY <1>1 DEF Start, TypeOK
<1>6. CallInv' /\ PageInv' /\ AllOrNothing' /\ AbortReleasesTarget'
  BY <1>1, <1>4, <1>5 DEF CallInv, PageInv, AllOrNothing, AbortReleasesTarget,
     Present, pageVars
<1>7. QED BY <1>4, <1>5, <1>6, OnlyCallInv DEF OwnedBy

LEMMA ReadSourceInv ==
    ASSUME MigrationInv, ReadSource
    PROVE  MigrationInv'
<1> USE DEF Migrating, BeforeAlloc, Holding, Written, Freeing, Recovering
<1>1. TypeOK /\ Owned /\ CallInv /\ PageInv /\ tripped \subseteq Tier \X Tier
  BY DEF MigrationInv, TypeOK
<1>2. op.pc = "read" /\ UNCHANGED <<pageVars, memory, handleOf, tripped, home>>
  BY DEF ReadSource
<1>3. CASE Return("FAILURE")
  BY <1>1, <1>2, <1>3, AbortInv
<1>4. CASE op' = [op EXCEPT !.pc = "encode", !.src = handleOf[op.page_id],
                            !.bytes = Contents(handleOf[op.page_id])]
  <2>1. handleOf[op.page_id] \in Handle \cup {-1} /\ OwnedBy(handleOf[op.page_id], op.page_id)
    BY <1>1, KnownHandles DEF TypeOK, Owned
  <2>2. Contents(handleOf[op.page_id]) \in Bytes
    BY <1>1, <2>1 DEF TypeOK, Contents, Allocated
  <2>3. /\ op' \in OpType /\ op'.pc = "encode" /\ op'.codec = op.codec
        /\ op'.page_id = op.page_id /\ op'.src = handleOf[op.page_id]
        /\ op'.tgt = op.tgt /\ op'.level = op.level
        /\ op'.home = op.home /\ op'.from = op.from
    BY <1>1, <1>4, <2>1, <2>2 DEF TypeOK, OpType, PC
  <2>4. CallInv' /\ PageInv' /\ AllOrNothing' /\ AbortReleasesTarget'
    BY <1>1, <1>2, <2>3 DEF CallInv, PageInv, AllOrNothing, AbortReleasesTarget,
       Present, pageVars
  <2>5. QED BY <1>1, <1>2, <2>1, <2>3, <2>4, OnlyCallInv DEF CallInv, OwnedBy
<1>5. QED BY <1>3, <1>4 DEF ReadSource

LEMMA EncodeSourceInv ==
    ASSUME MigrationInv, EncodeSource
    PROVE  MigrationInv'
<1> USE DEF Migrating, BeforeAlloc, Holding, Written, Freeing, Recovering
<1>1. TypeOK /\ Owned /\ CallInv /\ PageInv /\ tripped' \subseteq Tier \X Tier
  <2>1. tripped' \subseteq Tier \X Tier
    <3>1. TypeOK /\ (tripped' = tripped \/ RecordFailure)
      BY DEF MigrationInv, EncodeSource
    <3>2. QED BY <3>1, RecordFailureEffect DEF TypeOK
  <2>2. QED BY <2>1 DEF MigrationInv
<1>2. op.pc = "encode" /\ UNCHANGED <<pageVars, memory, handleOf, home>>
  BY DEF EncodeSource
<1>3. CASE ReturnCodecRaised
  BY <1>1, <1>2, <1>3, AbortInv DEF ReturnCodecRaised
<1>4. CASE \/ op' = [op EXCEPT !.pc = "alloc", !.packed = Garbage, !.faulty = TRUE]
           \/ op' = [op EXCEPT !.pc = "alloc", !.packed = Encode(op.codec, op.bytes)]
  <2>1. Garbage \in Bytes /\ Encode(op.codec, op.bytes) \in Bytes
    BY <1>1, <1>2 DEF CallInv, TypeOK, OpType
  <2>2. /\ op' \in OpType /\ op'.pc = "alloc" /\ op'.codec = op.codec
        /\ op'.page_id = op.page_id /\ op'.src = op.src
        /\ op'.tgt = op.tgt /\ op'.level = op.level
        /\ op'.home = op.home /\ op'.from = op.from
    <3>1. CASE op' = [op EXCEPT !.pc = "alloc", !.packed = Garbage, !.faulty = TRUE]
      BY <1>1, <2>1, <3>1 DEF TypeOK, OpType, PC
    <3>2. CASE op' = [op EXCEPT !.pc = "alloc", !.packed = Encode(op.codec, op.bytes)]
      BY <1>1, <2>1, <3>2 DEF TypeOK, OpType, PC
    <3>3. QED BY <1>4, <3>1, <3>2
  <2>3. CallInv' /\ PageInv' /\ AllOrNothing' /\ AbortReleasesTarget'
    BY <1>1, <1>2, <2>2 DEF CallInv, PageInv, AllOrNothing, AbortReleasesTarget,
       Present, pageVars
  <2>4. QED BY <1>1, <1>2, <2>2, <2>3, OnlyCallInv DEF Owned
<1>5. QED BY <1>3, <1>4 DEF EncodeSource

LEMMA VerifyTargetInv ==
    ASSUME MigrationInv, VerifyTarget
    PROVE  MigrationInv'
<1> USE DEF Migrating, BeforeAlloc, Holding, Written, Freeing, Recovering
<1>1. TypeOK /\ Owned /\ CallInv /\ PageInv /\ tripped' \subseteq Tier \X Tier
  <2>1. tripped' \subseteq Tier \X Tier
    <3>1. TypeOK /\ (tripped' = tripped \/ RecordFailure)
      BY DEF MigrationInv, VerifyTarget
    <3>2. QED BY <3>1, RecordFailureEffect DEF TypeOK
  <2>2. QED BY <2>1 DEF MigrationInv
<1>2. op.pc = "verify" /\ UNCHANGED <<pageVars, handleOf, home>>
  BY DEF VerifyTarget
<1>3. CASE SafeFree(op.tgt) /\ (ReturnCodecRaised \/ Return("CORRUPT"))
  BY <1>1, <1>2, <1>3, AbortInv DEF ReturnCodecRaised
<1>4. CASE Verified /\ op' = [op EXCEPT !.pc = "commit"] /\ UNCHANGED memory
  <2>1. /\ op' \in OpType /\ op'.pc = "commit" /\ op'.codec = op.codec
        /\ op'.page_id = op.page_id /\ op'.src = op.src /\ op'.packed = op.packed
        /\ op'.tgt = op.tgt /\ op'.level = op.level
        /\ op'.home = op.home /\ op'.from = op.from
    BY <1>1, <1>4 DEF TypeOK, OpType, PC
  <2>2. CallInv' /\ PageInv' /\ AllOrNothing' /\ AbortReleasesTarget'
    BY <1>1, <1>2, <1>4, <2>1 DEF CallInv, PageInv, AllOrNothing, AbortReleasesTarget,
       Verified, Present, pageVars, memory
  <2>3. QED BY <1>1, <1>2, <1>4, <2>1, <2>2, OnlyCallInv DEF Owned
<1>5. QED BY <1>3, <1>4 DEF VerifyTarget

LEMMA RecoverInv ==
    ASSUME MigrationInv, Recover
    PROVE  MigrationInv'
<1> USE DEF Migrating, BeforeAlloc, Holding, Written, Freeing, Recovering
<1>1. TypeOK /\ Owned /\ CallInv /\ PageInv /\ tripped \subseteq Tier \X Tier
  BY DEF MigrationInv, TypeOK
<1>2. /\ op.pc = "returned" /\ op.status \in {"FAILURE", "CORRUPT"}
      /\ UNCHANGED <<pageVars, memory, handleOf, tripped, home>>
  BY DEF Recover
<1>3. CASE Settle("QUARANTINED")
  <2>1. /\ op' \in OpType
        /\ op'.pc = "settled" /\ op'.level = "QUARANTINED" /\ op'.src = -1
        /\ op'.page_id = op.page_id /\ op'.status = op.status /\ op'.tgt = op.tgt
    BY <1>1, <1>3, SettleEffect DEF Level
  <2>2. CallInv' /\ PageInv' /\ AllOrNothing'
    BY <1>1, <1>2, <2>1 DEF CallInv, PageInv, AllOrNothing, pageVars
  <2>3. AbortReleasesTarget'
    BY <1>1, <1>2, <2>1 DEF MigrationInv, CallInv, AbortReleasesTarget, Moved,
       Allocated, memory
  <2>4. QED BY <1>1, <1>2, <2>1, <2>2, <2>3, OnlyCallInv DEF Owned, OwnedBy
<1>4. ASSUME NEW h \in OldHandle, NEW b \in SourceBytes,
             op' = [op EXCEPT !.pc = "recover", !.src = h,
                              !.packed = b, !.codec = Raw, !.tgt = -1]
      PROVE  MigrationInv'
  <2>1. h \in Handle \cup {-1} /\ OwnedBy(h, op.page_id)
    BY <1>1, KnownHandles DEF OldHandle, TypeOK, Owned, OwnedBy
  <2>2. b \in Bytes /\ ("source" \notin Faults => b = Source(op.page_id))
    BY KnownHandles DEF SourceBytes
  <2>3. /\ op' \in OpType /\ op'.pc = "recover" /\ op'.codec = Raw
        /\ op'.page_id = op.page_id /\ op'.src = h /\ op'.packed = b
        /\ op'.tgt = -1 /\ op'.level = op.level
    BY <1>1, <1>4, <2>1, <2>2 DEF TypeOK, OpType, PC
  <2>4. CallInv' /\ PageInv' /\ AllOrNothing' /\ AbortReleasesTarget'
    BY <1>1, <1>2, <2>2, <2>3 DEF CallInv, PageInv, AllOrNothing, AbortReleasesTarget,
       pageVars
  <2>5. QED BY <1>1, <1>2, <2>1, <2>3, <2>4, OnlyCallInv DEF OwnedBy
<1>5. QED BY <1>3, <1>4 DEF Recover

LEMMA InitInv == Init => MigrationInv
<1> SUFFICES ASSUME Init PROVE MigrationInv
  OBVIOUS
<1> USE DEF Migrating, BeforeAlloc, Holding, Written, Freeing, Recovering
<1>1. PageOK
  BY PageInitOK DEF Init
<1>2. \A p \in PageId : ~Present(p)
  BY DEF Init, PageInit, Present, Missing
<1>3. /\ op \in OpType /\ op.pc = "idle" /\ op.src = -1 /\ op.tgt = -1
      /\ op.level = "none" /\ op.page_id = 0
  BY DEF Init, IdleOp, OpType, PC, Status, Level, Tier, BF16, DISK, NoPlace, Place
<1>4. TypeOK
  BY <1>1, <1>3 DEF Init, TypeOK, PageOK, NoPlace, Place
<1>5. Fresh /\ Owned
  BY <1>1, <1>2, <1>3 DEF Init, PageOK, Fresh, Owned, OwnedBy, NoPlace
<1>6. Anchored /\ BytesIntact
  BY <1>2 DEF Anchored, BytesIntact
<1>7. CallInv /\ PageInv /\ AllOrNothing /\ AbortReleasesTarget
  BY <1>3 DEF CallInv, PageInv, AllOrNothing, AbortReleasesTarget
<1>8. QED BY <1>4, <1>5, <1>6, <1>7 DEF MigrationInv

LEMMA NextInv == MigrationInv /\ [Next]_vars => MigrationInv'
<1> SUFFICES ASSUME MigrationInv, [Next]_vars
             PROVE  MigrationInv'
  OBVIOUS
<1> USE DEF Migrating, BeforeAlloc, Holding, Recovering
<1>1. TypeOK /\ CallInv /\ op.page_id \in PageId /\ tripped \subseteq Tier \X Tier
  BY KnownHandles DEF MigrationInv, TypeOK
<1>2. ASSUME NEW p \in Registered, NEW t \in Targets, Skip(p, t) \/ Start(p, t)
      PROVE  MigrationInv'
  BY <1>2, SkipInv, StartInv
<1>3. CASE ReadSource
  BY <1>3, ReadSourceInv
<1>4. CASE EncodeSource
  BY <1>4, EncodeSourceInv
<1>5. CASE AllocTarget
  <2>1. CASE AllocFails /\ Return("FAILURE") /\ UNCHANGED memory
    BY <1>1, <1>5, <2>1, AbortInv DEF AllocTarget
  <2>2. CASE Alloc(op.page_id) /\ op' = [op EXCEPT !.pc = "write", !.tgt = nextHandle]
    BY <1>5, <2>2, AllocInv DEF AllocTarget
  <2>3. QED BY <1>5, <2>1, <2>2 DEF AllocTarget
<1>6. CASE WriteTarget
  <2>1. CASE SafeFree(op.tgt) /\ Return("FAILURE")
    BY <1>1, <1>6, <2>1, AbortInv DEF WriteTarget
  <2>2. CASE /\ buf' = [buf EXCEPT ![op.tgt] = op.packed]
             /\ op' = [op EXCEPT !.pc = "verify"]
             /\ UNCHANGED <<nextHandle, owner, lost>>
    BY <1>6, <2>2, WriteInv DEF WriteTarget
  <2>3. QED BY <1>6, <2>1, <2>2 DEF WriteTarget
<1>7. CASE VerifyTarget
  BY <1>7, VerifyTargetInv
<1>8. CASE Commit
  <2>1. CASE SafeFree(op.tgt) /\ Return("SKIPPED") /\ UNCHANGED <<pageVars, home>>
    BY <1>1, <1>8, <2>1, AbortInv DEF Commit
  <2>2. CASE /\ ApplyTierTransition(op.page_id, op.to,
                                     Checksum(Decode(op.codec, op.packed)))
             /\ home' = [home EXCEPT ![op.page_id] =
                            [handle |-> op.tgt, codec |-> op.codec]]
             /\ op' = [op EXCEPT !.pc = "free"]
             /\ UNCHANGED memory
    <3>1. op.to \in Tier /\ op.codec \in Codec /\ op.packed \in Bytes
      BY <1>1, <1>8 DEF Commit, CallInv, TypeOK, OpType
    <3>2. Checksum(Decode(op.codec, op.packed)) \in Nat
      BY <3>1
    <3>3. QED BY <1>8, <2>2, <3>1, <3>2, MoveInv DEF Commit
  <2>3. QED BY <1>8, <2>1, <2>2 DEF Commit
<1>9. CASE FreeSource
  BY <1>9, FreeInv DEF FreeSource
<1>10. CASE Recover
  BY <1>10, RecoverInv
<1>11. CASE RecoverAlloc
  <2>1. CASE AllocFails /\ Settle("QUARANTINED") /\ UNCHANGED memory
    BY <1>1, <1>11, <2>1, AbortInv DEF RecoverAlloc
  <2>2. CASE Alloc(op.page_id) /\ op' = [op EXCEPT !.pc = "rewrite", !.tgt = nextHandle]
    BY <1>11, <2>2, AllocInv DEF RecoverAlloc
  <2>3. QED BY <1>11, <2>1, <2>2 DEF RecoverAlloc
<1>12. CASE RecoverWrite
  <2>1. CASE SafeFree(op.tgt) /\ Settle("QUARANTINED")
    BY <1>1, <1>12, <2>1, AbortInv DEF RecoverWrite
  <2>2. CASE /\ buf' = [buf EXCEPT ![op.tgt] = op.packed]
             /\ op' = [op EXCEPT !.pc = "recommit"]
             /\ UNCHANGED <<nextHandle, owner, lost>>
    BY <1>12, <2>2, WriteInv DEF RecoverWrite
  <2>3. QED BY <1>12, <2>1, <2>2 DEF RecoverWrite
<1>13. CASE RecoverCommit
  <2>1. CASE /\ SafeFree(op.tgt) /\ Settle("STAYED")
             /\ UNCHANGED <<pageVars, home, handleOf>>
    BY <1>1, <1>13, <2>1, AbortInv DEF RecoverCommit
  <2>2. CASE /\ ApplyTierTransition(op.page_id, BF16, page[op.page_id].bf16_checksum)
             /\ home' = [home EXCEPT ![op.page_id] = [handle |-> op.tgt, codec |-> Raw]]
             /\ handleOf' \in {handleOf, [handleOf EXCEPT ![op.page_id] = op.tgt]}
             /\ op' = [op EXCEPT !.pc = "refree"]
             /\ UNCHANGED memory
    <3>1. page[op.page_id].bf16_checksum \in Nat /\ BF16 \in Tier
      BY <1>1, <2>2, InTable DEF TypeOK, ApplyTierTransition, TransitionAllowed,
         Metadata, BF16, DISK, Tier
    <3>2. op.codec = Raw
      BY <1>1, <1>13 DEF RecoverCommit, CallInv
    <3>3. QED BY <1>13, <2>2, <3>1, <3>2, MoveInv DEF RecoverCommit
  <2>3. QED BY <1>13, <2>1, <2>2 DEF RecoverCommit
<1>14. CASE RecoverFree
  BY <1>14, FreeInv DEF RecoverFree
<1>15. CASE Finish
  BY <1>15, FinishInv
<1>16. CASE Environment
  BY <1>16, AddPageInv, RemovePageInv, PinPageInv DEF Environment
<1>17. CASE UNCHANGED vars
  <2>1. UNCHANGED <<pageVars, memory, handleOf, home, op, tripped>>
    BY <1>17 DEF vars, memory
  <2>2. CallInv' /\ PageInv' /\ AllOrNothing' /\ AbortReleasesTarget'
    BY <2>1 DEF MigrationInv, CallInv, PageInv, AllOrNothing, AbortReleasesTarget,
       Verified, Moved, Present, Allocated, pageVars, memory
  <2>3. OwnedBy(op.src, op.page_id) /\ OwnedBy(op.tgt, op.page_id) /\ op \in OpType
    BY DEF MigrationInv, Owned, TypeOK
  <2>4. QED BY <1>1, <2>1, <2>2, <2>3, OnlyCallInv DEF OwnedBy
<1>18. QED
  BY <1>2, <1>3, <1>4, <1>5, <1>6, <1>7, <1>8, <1>9, <1>10, <1>11, <1>12,
     <1>13, <1>14, <1>15, <1>16, <1>17 DEF Next, MigrateStep, RecoverStep

-----------------------------------------------------------------------------
(* The invariant of the whole protocol.                                    *)
THEOREM MigrationCorrect == Spec => []MigrationInv
BY InitInv, NextInv, PTL DEF Spec

(* Every variable keeps its type.                                          *)
THEOREM MigrationTyped == Spec => []TypeOK
<1>1. MigrationInv => TypeOK
  BY DEF MigrationInv
<1>2. QED BY <1>1, MigrationCorrect, PTL

(* A page in the table never loses its bytes, whichever calls fail: the    *)
(* buffer committed for it is allocated and decodes to bytes with the      *)
(* checksum it was registered with.  The only condition is that the        *)
(* recovery is handed the true source, which it does not verify itself.    *)
THEOREM BytesStayIntact ==
    ASSUME "source" \notin Faults
    PROVE  Spec => []BytesIntact
<1>1. MigrationInv => BytesIntact
  BY DEF MigrationInv
<1>2. QED BY <1>1, MigrationCorrect, PTL

(* A migrate() that returns OK has moved its page; one that returns        *)
(* anything else has left it on its tier, in its buffer.                   *)
THEOREM MigrationAtomic == Spec => []AllOrNothing
<1>1. MigrationInv => AllOrNothing
  BY DEF MigrationInv
<1>2. QED BY <1>1, MigrationCorrect, PTL

(* A target buffer that was not committed does not outlive its call.       *)
THEOREM AbortsRelease == Spec => []AbortReleasesTarget
<1>1. MigrationInv => AbortReleasesTarget
  BY DEF MigrationInv
<1>2. QED BY <1>1, MigrationCorrect, PTL

-----------------------------------------------------------------------------
LEMMA PinnedStays ==
    ASSUME MigrationInv, [Next]_vars,
           NEW p \in PageId, Present(p), page[p].pin_count > 0, Present(p)'
    PROVE  page'[p].tier = page[p].tier /\ home'[p] = home[p]
<1>1. TypeOK /\ Fresh /\ PageOK /\ op.page_id \in PageId /\ CallInv
  BY KnownHandles DEF MigrationInv, TypeOK, Fresh, PageOK
<1>2. CASE UNCHANGED <<page, home>>
  BY <1>2
<1>3. CASE Commit /\ ~UNCHANGED <<page, home>>
  <2>1. op.to \in Tier /\ Checksum(Decode(op.codec, op.packed)) \in Nat
    <3>1. op.codec \in Codec /\ op.packed \in Bytes /\ op.to \in Tier
      BY <1>1, <1>3 DEF Commit, CallInv, TypeOK, OpType, Migrating
    <3>2. QED BY <3>1
  <2>2. /\ ApplyTierTransition(op.page_id, op.to,
                               Checksum(Decode(op.codec, op.packed)))
        /\ home' = [home EXCEPT ![op.page_id] =
                        [handle |-> op.tgt, codec |-> op.codec]]
    BY <1>3 DEF Commit, pageVars
  <2>3. p # op.page_id /\ page'[p] = page[p]
    BY <1>1, <2>1, <2>2, TransitionEffect
  <2>4. QED BY <1>1, <2>2, <2>3 DEF TypeOK
<1>4. CASE RecoverCommit /\ ~UNCHANGED <<page, home>>
  <2>1. /\ ApplyTierTransition(op.page_id, BF16, page[op.page_id].bf16_checksum)
        /\ home' = [home EXCEPT ![op.page_id] = [handle |-> op.tgt, codec |-> Raw]]
    BY <1>4 DEF RecoverCommit, pageVars
  <2>2. BF16 \in Tier /\ page[op.page_id].bf16_checksum \in Nat
    BY <1>1, <2>1, InTable DEF TypeOK, ApplyTierTransition, TransitionAllowed,
       Metadata, BF16, DISK, Tier
  <2>3. p # op.page_id /\ page'[p] = page[p]
    BY <1>1, <2>1, <2>2, TransitionEffect
  <2>4. QED BY <1>1, <2>1, <2>3 DEF TypeOK
<1>5. CASE AddPage
  <2>1. p # nextId /\ nextId \in PageId
    BY <1>1, <1>5 DEF Fresh, AddPage, Add
  <2>2. QED BY <1>1, <1>5, <2>1 DEF AddPage, Add, TypeOK, PageTypeOK
<1>6. ASSUME NEW q \in PageId, RemovePage(q)
      PROVE  page'[p] = page[p] /\ home' = home
  BY <1>1, <1>6, RemoveEffect DEF RemovePage
<1>7. ASSUME NEW q \in PageId, PinPage(q) \/ UnpinPage(q)
      PROVE  page'[p].tier = page[p].tier /\ home' = home
  BY <1>1, <1>7, PinEffect DEF PinPage, UnpinPage
<1>8. QED
  BY <1>2, <1>3, <1>4, <1>5, <1>6, <1>7
     DEF Next, MigrateStep, RecoverStep, Environment, Skip, Start, ReadSource,
         EncodeSource, AllocTarget, WriteTarget, VerifyTarget, FreeSource, Recover,
         RecoverAlloc, RecoverWrite, RecoverFree, Finish, vars, pageVars

(* However many calls lie between the pin check and the commit: no step of *)
(* migrate() or of the recovery changes the tier or the buffer of a pinned *)
(* page.                                                                   *)
THEOREM PinnedPagesStay == Spec => PinnedNotMoved
<1>1. MigrationInv /\ [Next]_vars =>
        [\A p \in PageId :
            Present(p) /\ page[p].pin_count > 0 /\ Present(p)'
                => page[p].tier' = page[p].tier /\ home[p]' = home[p]]_vars
  BY PinnedStays
<1>2. QED BY <1>1, MigrationCorrect, PTL DEF Spec, PinnedNotMoved

-----------------------------------------------------------------------------
(* A call keeps to the buffers of its page.                                *)
LEMMA OwnBuffers ==
    ASSUME MigrationInv, [Next]_vars, op' # op, NEW h \in Handle, buf'[h] # buf[h]
    PROVE  owner'[h] = op.page_id
<1>1. /\ TypeOK /\ CallInv /\ op \in OpType /\ op.page_id \in PageId
      /\ op.src \in Handle \cup {-1} /\ op.tgt \in Handle \cup {-1}
      /\ OwnedBy(op.src, op.page_id) /\ OwnedBy(op.tgt, op.page_id)
  BY KnownHandles DEF MigrationInv, TypeOK, OpType, Owned
<1>2. ASSUME NEW g \in {op.src, op.tgt}, SafeFree(g)
      PROVE  owner'[h] = op.page_id
  <2>1. owner' = owner /\ \A k \in Handle : k # g => buf'[k] = buf[k]
    BY <1>1, <1>2, FreeEffect
  <2>2. h = g
    BY <2>1
  <2>3. QED BY <1>1, <2>1, <2>2 DEF OwnedBy, Handle
<1>3. ASSUME Alloc(op.page_id)
      PROVE  owner'[h] = op.page_id
  <2>1. h = nextHandle
    BY <1>1, <1>3, AllocEffect
  <2>2. QED BY <1>1, <1>3, <2>1 DEF Alloc, TypeOK
<1>4. ASSUME buf' = [buf EXCEPT ![op.tgt] = op.packed], owner' = owner
      PROVE  owner'[h] = op.page_id
  <2>1. h = op.tgt
    BY <1>1, <1>4 DEF TypeOK
  <2>2. QED BY <1>1, <1>4, <2>1 DEF OwnedBy, Handle
<1>5. buf' # buf
  OBVIOUS
<1>6. CASE MigrateStep
  BY <1>2, <1>3, <1>4, <1>5, <1>6 DEF MigrateStep, ReadSource, EncodeSource, AllocTarget,
     WriteTarget, VerifyTarget, Commit, FreeSource, memory
<1>7. CASE RecoverStep
  BY <1>2, <1>3, <1>4, <1>5, <1>7 DEF RecoverStep, RecoverAlloc, RecoverWrite, RecoverCommit,
     RecoverFree, memory
<1>8. CASE Recover \/ Finish \/ UNCHANGED vars
  BY <1>5, <1>8 DEF Recover, Finish, vars, memory
<1>9. ASSUME NEW p, NEW t, Skip(p, t) \/ Start(p, t)
      PROVE  FALSE
  BY <1>5, <1>9 DEF Skip, Start, memory
<1>10. CASE Environment
  BY <1>10 DEF Environment, AddPage, RemovePage, PinPage, UnpinPage
<1>11. QED
  BY <1>6, <1>7, <1>8, <1>9, <1>10 DEF Next

(* No call and no recovery reads, writes or frees a buffer of another page *)
(* than its own: whatever fails, whichever pages are watched and however   *)
(* stale the lookup is for the others.                                     *)
THEOREM CallsKeepToTheirPage == Spec => NoForeignBuffer
<1>1. MigrationInv /\ MigrationInv' /\ [Next]_vars =>
        [op' # op =>
            /\ \A h \in Handle : buf'[h] # buf[h] => owner'[h] = op.page_id
            /\ op'.src # -1 => owner'[op'.src] = op'.page_id]_vars
  <2> SUFFICES ASSUME MigrationInv, MigrationInv', [Next]_vars, op' # op
               PROVE  /\ \A h \in Handle : buf'[h] # buf[h] => owner'[h] = op.page_id
                      /\ op'.src # -1 => owner'[op'.src] = op'.page_id
    OBVIOUS
  <2>1. \A h \in Handle : buf'[h] # buf[h] => owner'[h] = op.page_id
    BY OwnBuffers
  <2>2. op'.src # -1 => owner'[op'.src] = op'.page_id
    BY DEF MigrationInv, Owned, OwnedBy
  <2>3. QED BY <2>1, <2>2
<1>2. QED BY <1>1, MigrationCorrect, PTL DEF Spec, NoForeignBuffer

-----------------------------------------------------------------------------
(* No buffer is forgotten.                                                 *)

(* Buffers are only released, and the call has not given up its source.    *)
LEMMA OrphanFrame ==
    ASSUME TypeOK, OrphanInv,
           UNCHANGED <<handleOf, owner>>, op'.tgt = op.tgt, lost \subseteq lost',
           \A h \in Handle : buf[h] = Unallocated => buf'[h] = Unallocated,
           \/ op'.pc \in {"idle", "read"}
           \/ /\ op'.pc \in Reading \cup Holding \cup Freeing
              /\ op'.src = handleOf[op'.page_id]
              /\ op'.pc \in Recovering => op'.status # "OK"
           \/ /\ op'.pc \in {"returned", "settled"}
              /\ Moved' => Released(handleOf[op.page_id])'
    PROVE  OrphanInv'
<1>1. ASSUME NEW h \in Handle, buf'[h] # Unallocated, owner'[h] \in Watched
      PROVE  h \in lost' \/ h = op'.tgt \/ \E p \in PageId : handleOf'[p] = h
  BY <1>1 DEF OrphanInv, Allocated
<1>2. QED BY <1>1 DEF OrphanInv, Allocated, Reading, Holding, Freeing, Recovering

(* What SafeFree(h) does to the buffers, as OrphanFrame asks for it.       *)
LEMMA FreeReleases ==
    ASSUME TypeOK, NEW h \in Handle \cup {-1}, SafeFree(h)
    PROVE  /\ lost \subseteq lost' /\ owner' = owner
           /\ \A g \in Handle : buf[g] = Unallocated => buf'[g] = Unallocated
           /\ h \in Handle /\ buf'[h] # Unallocated => h \in lost'
BY FreeEffect

LEMMA OrphanStep ==
    ASSUME Tracked, MigrationInv, OrphanInv, [Next]_vars
    PROVE  OrphanInv'
<1> USE DEF BeforeAlloc, Reading, Holding, Freeing, Migrating, Recovering
<1>1. /\ TypeOK /\ Fresh /\ CallInv /\ AbortReleasesTarget
      /\ op \in OpType /\ op.page_id \in PageId
      /\ op.src \in Handle \cup {-1} /\ op.tgt \in Handle \cup {-1}
  BY KnownHandles DEF MigrationInv, TypeOK, OpType
<1>2. ASSUME NEW p \in Registered, NEW t \in Targets, Skip(p, t) \/ Start(p, t)
      PROVE  OrphanInv'
  <2>1. op.tgt = -1
    BY <1>1, <1>2 DEF Skip, Start, CallInv
  <2>2. op'.tgt = -1 /\ (op'.pc = "read" \/ (op'.pc = "returned" /\ ~Moved'))
    BY <1>2 DEF Skip, Start, NewOp, IdleOp, Moved
  <2>3. UNCHANGED <<buf, owner, lost, handleOf>>
    BY <1>2 DEF Skip, Start, memory
  <2>4. QED BY <1>1, <2>1, <2>2, <2>3, OrphanFrame
(* The call gives up.                                                      *)
<1>3. ASSUME op.pc \in Migrating, NEW s \in {"SKIPPED", "FAILURE", "CORRUPT"},
             Return(s) \/ op' = ReturnWith([op EXCEPT !.faulty = TRUE], s),
             SafeFree(op.tgt) \/ UNCHANGED memory, handleOf' = handleOf
      PROVE  OrphanInv'
  <2>1. op'.tgt = op.tgt /\ op'.pc = "returned" /\ ~Moved'
    <3>1. PICK o \in {op, [op EXCEPT !.faulty = TRUE]} : op' = ReturnWith(o, s)
      BY <1>3 DEF Return
    <3>2. o \in OpType /\ s \in Status /\ o.tgt = op.tgt /\ o.level = op.level
      BY ZenonT(40), <1>1 DEF OpType, Status
    <3>3. op'.tgt = op.tgt /\ op'.pc = "returned" /\ op'.status = s /\ op'.level = op.level
      BY <3>1, <3>2, ReturnEffect
    <3>4. op.level = "none"
      BY <1>1, <1>3 DEF CallInv
    <3>5. QED BY <3>3, <3>4 DEF Moved
  <2>2. /\ lost \subseteq lost' /\ owner' = owner
        /\ \A g \in Handle : buf[g] = Unallocated => buf'[g] = Unallocated
    BY <1>1, <1>3, FreeReleases DEF memory
  <2>3. QED BY <1>1, <1>3, <2>1, <2>2, OrphanFrame
(* So does the recovery.                                                   *)
<1>4. ASSUME op.pc \in Recovering \cup {"returned"}, op.status # "OK",
             NEW l \in {"STAYED", "QUARANTINED"}, Settle(l),
             SafeFree(op.tgt) \/ UNCHANGED memory, handleOf' = handleOf
      PROVE  OrphanInv'
  <2>1. op'.tgt = op.tgt /\ op'.pc = "settled" /\ ~Moved'
    BY <1>1, <1>4 DEF Settle, Moved, OpType
  <2>2. /\ lost \subseteq lost' /\ owner' = owner
        /\ \A g \in Handle : buf[g] = Unallocated => buf'[g] = Unallocated
    BY <1>1, <1>4, FreeReleases DEF memory
  <2>3. QED BY <1>1, <1>4, <2>1, <2>2, OrphanFrame
(* The call goes on, with the buffers as they are.                         *)
<1>5. ASSUME UNCHANGED <<buf, owner, lost, handleOf>>,
             op'.tgt = op.tgt, op'.page_id = op.page_id,
             op'.pc \in Reading \cup Holding \cup Freeing,
             op'.src = handleOf[op.page_id],
             op'.pc \in Recovering => op'.status # "OK"
      PROVE  OrphanInv'
  BY <1>1, <1>5, OrphanFrame
<1>6. CASE ReadSource
  <2>1. CASE Return("FAILURE")
    BY <1>3, <1>6, <2>1 DEF ReadSource
  <2>2. CASE op' = [op EXCEPT !.pc = "encode", !.src = handleOf[op.page_id],
                              !.bytes = Contents(handleOf[op.page_id])]
    BY <1>1, <1>5, <1>6, <2>2 DEF ReadSource, OpType, memory
  <2>3. QED BY <1>6, <2>1, <2>2 DEF ReadSource
<1>7. CASE EncodeSource
  <2>1. CASE ReturnCodecRaised
    BY <1>3, <1>7, <2>1 DEF EncodeSource, ReturnCodecRaised
  <2>2. CASE \/ op' = [op EXCEPT !.pc = "alloc", !.packed = Garbage, !.faulty = TRUE]
             \/ op' = [op EXCEPT !.pc = "alloc", !.packed = Encode(op.codec, op.bytes)]
    <3>1. op.src = handleOf[op.page_id]
      BY <1>7 DEF EncodeSource, OrphanInv
    <3>2. QED BY ZenonT(40), <1>1, <1>5, <1>7, <2>2, <3>1 DEF EncodeSource, OpType, memory
  <2>3. QED BY <1>7, <2>1, <2>2 DEF EncodeSource
(* alloc() succeeds: only the call knows the new buffer.                   *)
<1>8. ASSUME \/ op.pc = "alloc" /\ op' = [op EXCEPT !.pc = "write", !.tgt = nextHandle]
             \/ op.pc = "recover" /\ op' = [op EXCEPT !.pc = "rewrite", !.tgt = nextHandle],
             Alloc(op.page_id), handleOf' = handleOf
      PROVE  OrphanInv'
  <2>1. /\ op'.tgt = nextHandle /\ op'.page_id = op.page_id
        /\ op.tgt = -1 /\ op'.src = handleOf[op.page_id]
        /\ op'.pc \in {"write", "rewrite"}
        /\ op'.pc \in Recovering => op'.status # "OK"
    BY ZenonT(40), <1>1, <1>8 DEF OpType, CallInv, OrphanInv
  <2>2. /\ lost' = lost /\ nextHandle \in Handle
        /\ \A g \in Handle : g # nextHandle => buf'[g] = buf[g] /\ owner'[g] = owner[g]
    BY <1>1, <1>8, AllocEffect DEF Alloc, TypeOK
  <2>3. ASSUME NEW h \in Handle, buf'[h] # Unallocated, owner'[h] \in Watched
        PROVE  h \in lost' \/ h = op'.tgt \/ \E p \in PageId : handleOf'[p] = h
    BY <1>8, <2>1, <2>2, <2>3 DEF OrphanInv, Allocated
  <2>4. QED BY <1>8, <2>1, <2>3 DEF OrphanInv, Allocated
<1>9. CASE AllocTarget
  <2>1. CASE AllocFails /\ Return("FAILURE") /\ UNCHANGED memory
    BY <1>3, <1>9, <2>1 DEF AllocTarget
  <2>2. CASE Alloc(op.page_id) /\ op' = [op EXCEPT !.pc = "write", !.tgt = nextHandle]
    BY <1>8, <1>9, <2>2 DEF AllocTarget
  <2>3. QED BY <1>9, <2>1, <2>2 DEF AllocTarget
(* write() succeeds.                                                       *)
<1>10. ASSUME \/ op.pc = "write" /\ op' = [op EXCEPT !.pc = "verify"]
              \/ op.pc = "rewrite" /\ op' = [op EXCEPT !.pc = "recommit"],
              buf' = [buf EXCEPT ![op.tgt] = op.packed],
              UNCHANGED <<owner, lost, handleOf>>
       PROVE  OrphanInv'
  <2>1. /\ op'.tgt = op.tgt /\ op'.page_id = op.page_id
        /\ op'.src = handleOf[op.page_id]
        /\ op'.pc \in {"verify", "recommit"}
        /\ op'.pc \in Recovering => op'.status # "OK"
    BY <1>1, <1>10 DEF OpType, OrphanInv
  <2>2. ASSUME NEW h \in Handle, buf'[h] # Unallocated, owner'[h] \in Watched
        PROVE  h \in lost' \/ h = op'.tgt \/ \E p \in PageId : handleOf'[p] = h
    BY <1>1, <1>10, <2>1, <2>2 DEF OrphanInv, Allocated, TypeOK
  <2>3. QED BY <1>10, <2>1, <2>2 DEF OrphanInv, Allocated
<1>11. CASE WriteTarget
  <2>1. CASE SafeFree(op.tgt) /\ Return("FAILURE")
    BY <1>3, <1>11, <2>1 DEF WriteTarget
  <2>2. CASE /\ buf' = [buf EXCEPT ![op.tgt] = op.packed]
             /\ op' = [op EXCEPT !.pc = "verify"]
             /\ UNCHANGED <<nextHandle, owner, lost>>
    BY <1>10, <1>11, <2>2 DEF WriteTarget
  <2>3. QED BY <1>11, <2>1, <2>2 DEF WriteTarget
<1>12. CASE VerifyTarget
  <2>1. CASE SafeFree(op.tgt) /\ (ReturnCodecRaised \/ Return("CORRUPT"))
    BY <1>3, <1>12, <2>1 DEF VerifyTarget, ReturnCodecRaised
  <2>2. CASE op' = [op EXCEPT !.pc = "commit"] /\ UNCHANGED memory
    <3>1. op.src = handleOf[op.page_id]
      BY <1>12 DEF VerifyTarget, OrphanInv
    <3>2. QED BY <1>1, <1>5, <1>12, <2>2, <3>1 DEF VerifyTarget, OpType, memory
  <2>3. QED BY <1>12, <2>1, <2>2 DEF VerifyTarget
<1>13. CASE Commit
  <2>1. CASE SafeFree(op.tgt) /\ Return("SKIPPED")
    BY <1>3, <1>13, <2>1 DEF Commit
  <2>2. CASE op' = [op EXCEPT !.pc = "free"] /\ UNCHANGED memory
    <3>1. op.src = handleOf[op.page_id]
      BY <1>13 DEF Commit, OrphanInv
    <3>2. QED BY <1>1, <1>5, <1>13, <2>2, <3>1 DEF Commit, OpType, memory
  <2>3. QED BY <1>13, <2>1, <2>2 DEF Commit
(* The buffer the page has left goes.                                      *)
<1>14. ASSUME \/ op.pc = "free" /\ Return("OK")
              \/ op.pc = "refree" /\ Settle("BF16_RECONSTRUCTED"),
              IF op.src >= 0 THEN SafeFree(op.src) ELSE UNCHANGED memory,
              handleOf' = handleOf
       PROVE  OrphanInv'
  <2>1. op.src = handleOf[op.page_id] /\ op \in OpType
    BY <1>1, <1>14 DEF OrphanInv
  <2>2. /\ op'.tgt = op.tgt /\ op'.page_id = op.page_id
        /\ op'.pc \in {"returned", "settled"}
    <3>1. CASE op.pc = "free" /\ Return("OK")
      BY <2>1, <3>1, ReturnEffect DEF Return, Status
    <3>2. CASE op.pc = "refree" /\ Settle("BF16_RECONSTRUCTED")
      BY <1>1, <3>2, SettleEffect DEF Level
    <3>3. QED BY <1>14, <3>1, <3>2
  <2>3. /\ lost \subseteq lost' /\ owner' = owner
        /\ \A g \in Handle : buf[g] = Unallocated => buf'[g] = Unallocated
        /\ op.src \in Handle /\ buf'[op.src] # Unallocated => op.src \in lost'
    <3>1. CASE op.src >= 0
      BY <1>1, <1>14, <3>1, FreeReleases
    <3>2. CASE ~(op.src >= 0)
      <4>1. UNCHANGED memory /\ op.src \notin Handle
        BY <1>14, <3>2
      <4>2. QED BY <4>1 DEF memory
    <3>3. QED BY <3>1, <3>2
  <2>4. Released(handleOf[op.page_id])'
    BY <1>14, <2>1, <2>2, <2>3 DEF Released, Allocated
  <2>5. QED BY <1>1, <1>14, <2>2, <2>3, <2>4, OrphanFrame
<1>15. CASE FreeSource
  <2>1. CASE op.src >= 0
    BY <1>14, <1>15, <2>1 DEF FreeSource
  <2>2. CASE ~(op.src >= 0)
    <3>1. op.src \notin Handle /\ ~Allocated(op.src)
      BY <2>2 DEF Allocated
    <3>2. buf' = buf /\ UNCHANGED <<nextHandle, owner, lost>>
      BY <1>1, <1>15, <3>1 DEF FreeSource, SafeFree, TypeOK
    <3>3. QED BY <1>14, <1>15, <2>2, <3>2 DEF FreeSource, memory
  <2>3. QED BY <2>1, <2>2
<1>16. CASE Recover
  <2>1. CASE Settle("QUARANTINED")
    BY <1>4, <1>16, <2>1 DEF Recover
  <2>2. ASSUME NEW h \in OldHandle, NEW b \in SourceBytes,
               op' = [op EXCEPT !.pc = "recover", !.src = h,
                                !.packed = b, !.codec = Raw, !.tgt = -1]
        PROVE  OrphanInv'
    <3>1. h = handleOf[op.page_id]
      BY DEF OldHandle, Tracked
    <3>2. /\ op'.pc = "recover" /\ op'.src = h /\ op'.tgt = -1
          /\ op'.page_id = op.page_id /\ op'.status = op.status
      BY <1>1, <2>2 DEF OpType
    <3>3. UNCHANGED <<buf, owner, lost, handleOf>> /\ op.status \in {"FAILURE", "CORRUPT"}
      BY <1>16 DEF Recover, memory
    <3>4. op.pc = "returned" /\ ~Moved
      BY <1>1, <1>16 DEF Recover, CallInv, Moved
    <3>5. op.tgt # -1 => ~Allocated(op.tgt) \/ op.tgt \in lost
      BY <1>1, <3>4 DEF AbortReleasesTarget
    <3>6. ASSUME NEW g \in Handle, buf'[g] # Unallocated, owner'[g] \in Watched
          PROVE  g \in lost' \/ \E p \in PageId : handleOf'[p] = g
      BY <3>3, <3>5, <3>6 DEF OrphanInv, Allocated
    <3>7. QED BY <3>1, <3>2, <3>3, <3>6 DEF OrphanInv, Allocated
  <2>3. QED BY <1>16, <2>1, <2>2 DEF Recover
<1>17. CASE RecoverAlloc
  <2>1. CASE AllocFails /\ Settle("QUARANTINED") /\ UNCHANGED memory
    BY <1>4, <1>17, <2>1 DEF RecoverAlloc, OrphanInv
  <2>2. CASE Alloc(op.page_id) /\ op' = [op EXCEPT !.pc = "rewrite", !.tgt = nextHandle]
    BY <1>8, <1>17, <2>2 DEF RecoverAlloc
  <2>3. QED BY <1>17, <2>1, <2>2 DEF RecoverAlloc
<1>18. CASE RecoverWrite
  <2>1. CASE SafeFree(op.tgt) /\ Settle("QUARANTINED")
    BY <1>4, <1>18, <2>1 DEF RecoverWrite, OrphanInv
  <2>2. CASE /\ buf' = [buf EXCEPT ![op.tgt] = op.packed]
             /\ op' = [op EXCEPT !.pc = "recommit"]
             /\ UNCHANGED <<nextHandle, owner, lost>>
    BY <1>10, <1>18, <2>2 DEF RecoverWrite
  <2>3. QED BY <1>18, <2>1, <2>2 DEF RecoverWrite
<1>19. CASE RecoverCommit
  <2>1. CASE SafeFree(op.tgt) /\ Settle("STAYED") /\ handleOf' = handleOf
    BY <1>4, <1>19, <2>1 DEF RecoverCommit, OrphanInv
  <2>2. CASE op' = [op EXCEPT !.pc = "refree"] /\ UNCHANGED memory /\ handleOf' = handleOf
    <3>1. op.src = handleOf[op.page_id] /\ op.status # "OK"
      BY <1>19 DEF RecoverCommit, OrphanInv
    <3>2. QED BY <1>1, <1>5, <2>2, <3>1 DEF OpType, memory
  <2>3. QED BY <1>19, <2>1, <2>2 DEF RecoverCommit, Tracked
<1>20. CASE RecoverFree
  BY <1>14, <1>20 DEF RecoverFree
(* The lookup learns the new buffer and forgets the one that was freed.    *)
<1>21. CASE Finish
  <2> DEFINE Redirected == Moved /\ op.page_id \in Watched
  <2>1. /\ op' = IdleOp /\ UNCHANGED <<buf, owner, lost>> /\ op.pc \in {"returned", "settled"}
        /\ handleOf' = IF Redirected THEN [handleOf EXCEPT ![op.page_id] = op.tgt] ELSE handleOf
    BY <1>21 DEF Finish, memory
  <2>2. ASSUME NEW h \in Handle, buf[h] # Unallocated, owner[h] \in Watched, h \notin lost
        PROVE  \E p \in PageId : handleOf'[p] = h
    <3>1. CASE Redirected
      <4>1. h # handleOf[op.page_id]
        BY <2>1, <2>2, <3>1 DEF OrphanInv, Released, Allocated
      <4>2. CASE h = op.tgt
        BY <1>1, <2>1, <3>1, <4>2 DEF TypeOK
      <4>3. CASE h # op.tgt
        <5>1. PICK p \in PageId : handleOf[p] = h
          BY <2>2, <4>3 DEF OrphanInv, Allocated
        <5>2. p # op.page_id
          BY <4>1, <5>1
        <5>3. handleOf'[p] = h
          BY <1>1, <2>1, <3>1, <5>1, <5>2 DEF TypeOK
        <5>4. QED BY <5>3
      <4>4. QED BY <4>2, <4>3
    <3>2. CASE ~Redirected
      <4>1. h # op.tgt
        <5>1. CASE ~Moved
          BY <1>1, <2>1, <2>2, <5>1 DEF AbortReleasesTarget, Allocated
        <5>2. CASE op.page_id \notin Watched
          BY <1>1, <2>2, <5>2 DEF MigrationInv, Owned, OwnedBy
        <5>3. QED BY <3>2, <5>1, <5>2
      <4>2. QED BY <2>1, <2>2, <3>2, <4>1 DEF OrphanInv, Allocated
    <3>3. QED BY <3>1, <3>2
  <2>3. op'.pc = "idle"
    BY <2>1 DEF IdleOp
  <2>4. QED BY <2>1, <2>2, <2>3 DEF OrphanInv, Allocated
<1>22. CASE AddPage
  <2>1. /\ nextHandle \in Handle /\ op' = op /\ lost' = lost
        /\ buf' = [buf EXCEPT ![nextHandle] = Source(nextId)]
        /\ owner' = [owner EXCEPT ![nextHandle] = nextId]
        /\ handleOf' = [handleOf EXCEPT ![nextId] = nextHandle]
        /\ nextId \in PageId /\ handleOf[nextId] = -1
    BY <1>1, <1>22 DEF AddPage, Add, Fresh
  <2>2. ASSUME NEW h \in Handle, buf'[h] # Unallocated, owner'[h] \in Watched
        PROVE  h \in lost' \/ h = op'.tgt \/ \E p \in PageId : handleOf'[p] = h
    <3>1. CASE h = nextHandle
      BY <1>1, <2>1, <3>1 DEF TypeOK
    <3>2. CASE h # nextHandle /\ \E p \in PageId : handleOf[p] = h
      <4>1. PICK p \in PageId : handleOf[p] = h
        BY <3>2
      <4>2. p # nextId
        BY <2>1, <4>1
      <4>3. handleOf'[p] = h
        BY <1>1, <2>1, <4>1, <4>2 DEF TypeOK
      <4>4. QED BY <4>3
    <3>3. CASE h # nextHandle /\ ~\E p \in PageId : handleOf[p] = h
      BY <1>1, <2>1, <2>2, <3>3 DEF OrphanInv, Allocated, TypeOK
    <3>4. QED BY <3>1, <3>2, <3>3
  <2>3. op.pc # "idle" => handleOf'[op.page_id] = handleOf[op.page_id]
    <3>1. op.pc # "idle" => op.page_id # nextId
      BY <1>1, <2>1 DEF CallInv
    <3>2. QED BY <1>1, <2>1, <3>1 DEF TypeOK
  <2>4. op.pc # "idle" /\ Released(handleOf[op.page_id]) => Released(handleOf[op.page_id])'
    <3>1. handleOf[op.page_id] # nextHandle
      BY <2>1, KnownHandles
    <3>2. QED BY <1>1, <2>1, <2>3, <3>1 DEF Released, Allocated, TypeOK
  <2>5. QED BY <2>1, <2>2, <2>3, <2>4 DEF OrphanInv, Allocated, Moved
<1>23. ASSUME NEW p \in PageId, RemovePage(p) \/ PinPage(p) \/ UnpinPage(p)
       PROVE  OrphanInv'
  <2>1. /\ UNCHANGED <<owner, lost, handleOf, op>>
        /\ \A g \in Handle : buf[g] = Unallocated => buf'[g] = Unallocated
    BY <1>1, <1>23 DEF RemovePage, PinPage, UnpinPage, TypeOK, memory
  <2>2. Moved' <=> Moved
    BY <2>1 DEF Moved
  <2>3. Released(handleOf[op.page_id]) => Released(handleOf[op.page_id])'
    BY <2>1 DEF Released, Allocated
  <2>4. ASSUME NEW h \in Handle, buf'[h] # Unallocated, owner'[h] \in Watched
        PROVE  h \in lost' \/ h = op'.tgt \/ \E q \in PageId : handleOf'[q] = h
    BY <2>1, <2>4 DEF OrphanInv, Allocated
  <2>5. QED BY <2>1, <2>2, <2>3, <2>4 DEF OrphanInv, Allocated
<1>24. CASE UNCHANGED vars
  BY <1>24 DEF vars, OrphanInv, Moved, Released, Allocated
<1>25. QED
  BY <1>2, <1>6, <1>7, <1>9, <1>11, <1>12, <1>13, <1>15, <1>16, <1>17, <1>18,
     <1>19, <1>20, <1>21, <1>22, <1>23, <1>24
     DEF Next, MigrateStep, RecoverStep, Environment

(* Every allocated buffer of a watched page is known to the lookup, is the *)
(* target of the call in progress, or is one that free() did not release;  *)
(* and what a call is about to free is what the lookup is about to forget. *)
THEOREM BuffersAccountedFor ==
    ASSUME Tracked
    PROVE  Spec => []OrphanInv
<1>1. Init => OrphanInv
  BY DEF Init, OrphanInv, Allocated, IdleOp, Reading, Holding, Freeing, Recovering
<1>2. MigrationInv /\ OrphanInv /\ [Next]_vars => OrphanInv'
  BY OrphanStep
<1>3. QED BY <1>1, <1>2, MigrationCorrect, PTL DEF Spec

(* Where the recovery can ask for the old buffer, no sequence of failures, *)
(* aborts, recoveries and removals leaves an allocated buffer of a watched *)
(* page that nothing names, except one that free() refused to release.     *)
THEOREM NoBufferForgotten ==
    ASSUME Tracked
    PROVE  Spec => []NoOrphanBuffer
<1>1. MigrationInv /\ OrphanInv => NoOrphanBuffer
  <2> SUFFICES ASSUME MigrationInv, OrphanInv, op.pc = "idle",
                      NEW h \in Handle, Allocated(h), owner[h] \in Watched
               PROVE  h \in lost \/ \E p \in PageId : handleOf[p] = h
    BY DEF NoOrphanBuffer
  <2>1. op.tgt = -1
    BY DEF MigrationInv, CallInv, BeforeAlloc
  <2>2. QED BY <2>1 DEF OrphanInv
<1>2. QED BY <1>1, BuffersAccountedFor, MigrationCorrect, PTL

-----------------------------------------------------------------------------
(* Where a watched page is.                                                *)

(* From the commit on, and until the integration layer has found out, the  *)
(* page of the call is in its target; every other page is where the lookup *)
(* says it is.                                                             *)
InHand == op.pc \in Freeing \/ (op.pc \in {"returned", "settled"} /\ Moved)
Whereabouts(p) == IF InHand /\ p = op.page_id THEN op.tgt ELSE handleOf[p]

LookupInv ==
    /\ \A p \in Watched : Present(p) => home[p].handle = Whereabouts(p)
    /\ op.pc \in Recovering => op.status # "OK"

LEMMA WatchedPages == Watched \subseteq PageId
BY MigrationAssumption

(* Nothing is moved, and the call has not passed a commit.                 *)
LEMMA LookupFrame ==
    ASSUME LookupInv, UNCHANGED <<home, handleOf>>,
           \A p \in Watched : Present(p)' => Present(p),
           InHand' <=> InHand,
           InHand => op'.page_id = op.page_id /\ op'.tgt = op.tgt,
           op'.pc \in Recovering => op'.status # "OK"
    PROVE  LookupInv'
BY DEF LookupInv, Whereabouts

LEMMA LookupStep ==
    ASSUME MigrationInv, LookupInv, [Next]_vars
    PROVE  LookupInv'
<1> USE WatchedPages DEF Freeing, Migrating, Recovering
<1>1. /\ TypeOK /\ Fresh /\ CallInv /\ PageOK
      /\ op \in OpType /\ op.page_id \in PageId
  BY KnownHandles DEF MigrationInv, TypeOK, Fresh, PageOK
(* A step of the call that commits nothing.                                *)
<1>2. ASSUME UNCHANGED <<page, home, handleOf>>, InHand' <=> InHand,
             op'.page_id = op.page_id, op'.tgt = op.tgt,
             op'.pc \in Recovering => op'.status # "OK"
      PROVE  LookupInv'
  BY <1>2, LookupFrame DEF Present
<1>3. ASSUME UNCHANGED <<page, home, handleOf>>, ~InHand, ~InHand',
             op'.pc \in Recovering => op'.status # "OK"
      PROVE  LookupInv'
  BY <1>3, LookupFrame DEF Present
<1>4. ASSUME NEW p \in Registered, NEW t \in Targets, Skip(p, t) \/ Start(p, t)
      PROVE  LookupInv'
  <2>1. UNCHANGED <<page, home, handleOf>> /\ ~InHand
    BY <1>4 DEF Skip, Start, pageVars, InHand
  <2>2. op'.pc = "read" \/ (op'.pc = "returned" /\ ~Moved')
    BY <1>4 DEF Skip, Start, NewOp, IdleOp, Moved
  <2>3. QED BY <1>3, <2>1, <2>2 DEF InHand
(* The call gives up.                                                      *)
<1>5. ASSUME op.pc \in Migrating, NEW s \in {"SKIPPED", "FAILURE", "CORRUPT"},
             Return(s) \/ op' = ReturnWith([op EXCEPT !.faulty = TRUE], s),
             UNCHANGED <<page, home, handleOf>>
      PROVE  LookupInv'
  <2>1. op'.pc = "returned" /\ ~Moved'
    <3>1. PICK o \in {op, [op EXCEPT !.faulty = TRUE]} : op' = ReturnWith(o, s)
      BY <1>5 DEF Return
    <3>2. o \in OpType /\ s \in Status /\ o.level = op.level
      BY ZenonT(40), <1>1 DEF OpType, Status
    <3>3. op'.pc = "returned" /\ op'.status = s /\ op'.level = op.level
      BY <3>1, <3>2, ReturnEffect
    <3>4. op.level = "none"
      BY <1>1, <1>5 DEF CallInv
    <3>5. QED BY <3>3, <3>4 DEF Moved
  <2>2. QED BY <1>3, <1>5, <2>1 DEF InHand
<1>6. ASSUME op.pc \in Recovering \cup {"returned"}, op.status # "OK",
             NEW l \in {"STAYED", "QUARANTINED"}, Settle(l),
             UNCHANGED <<page, home, handleOf>>
      PROVE  LookupInv'
  <2>1. op'.pc = "settled" /\ ~Moved'
    BY <1>1, <1>6 DEF Settle, Moved, OpType
  <2>2. ~InHand
    BY <1>1, <1>6 DEF InHand, Moved, CallInv
  <2>3. QED BY <1>3, <1>6, <2>1, <2>2 DEF InHand
(* The call goes on.                                                       *)
<1>7. ASSUME UNCHANGED <<page, home, handleOf>>,
             op.pc \in {"read", "encode", "alloc", "write", "verify",
                       "recover", "rewrite"},
             op'.pc \in {"encode", "alloc", "write", "verify", "commit",
                        "rewrite", "recommit"},
             op'.pc \in Recovering => op.pc \in Recovering,
             op'.status = op.status
      PROVE  LookupInv'
  BY <1>3, <1>7 DEF InHand, LookupInv
<1>8. CASE ReadSource
  <2>1. UNCHANGED <<page, home, handleOf>>
    BY <1>8 DEF ReadSource, pageVars
  <2>2. CASE Return("FAILURE")
    BY <1>5, <1>8, <2>1, <2>2 DEF ReadSource
  <2>3. CASE op' = [op EXCEPT !.pc = "encode", !.src = handleOf[op.page_id],
                              !.bytes = Contents(handleOf[op.page_id])]
    BY <1>1, <1>7, <1>8, <2>1, <2>3 DEF ReadSource, OpType
  <2>4. QED BY <1>8, <2>2, <2>3 DEF ReadSource
<1>9. CASE EncodeSource
  <2>1. UNCHANGED <<page, home, handleOf>>
    BY <1>9 DEF EncodeSource, pageVars
  <2>2. CASE ReturnCodecRaised
    BY <1>5, <1>9, <2>1, <2>2 DEF EncodeSource, ReturnCodecRaised
  <2>3. CASE \/ op' = [op EXCEPT !.pc = "alloc", !.packed = Garbage, !.faulty = TRUE]
             \/ op' = [op EXCEPT !.pc = "alloc", !.packed = Encode(op.codec, op.bytes)]
    <3>1. op'.pc = "alloc" /\ op'.status = op.status
      BY <1>1, <2>3 DEF OpType
    <3>2. QED BY <1>7, <1>9, <2>1, <3>1 DEF EncodeSource
  <2>4. QED BY <1>9, <2>2, <2>3 DEF EncodeSource
<1>10. CASE AllocTarget
  <2>1. UNCHANGED <<page, home, handleOf>>
    BY <1>10 DEF AllocTarget, pageVars
  <2>2. CASE Return("FAILURE")
    BY <1>5, <1>10, <2>1, <2>2 DEF AllocTarget
  <2>3. CASE op' = [op EXCEPT !.pc = "write", !.tgt = nextHandle]
    BY <1>1, <1>7, <1>10, <2>1, <2>3 DEF AllocTarget, OpType
  <2>4. QED BY <1>10, <2>2, <2>3 DEF AllocTarget
<1>11. CASE WriteTarget
  <2>1. UNCHANGED <<page, home, handleOf>>
    BY <1>11 DEF WriteTarget, pageVars
  <2>2. CASE Return("FAILURE")
    BY <1>5, <1>11, <2>1, <2>2 DEF WriteTarget
  <2>3. CASE op' = [op EXCEPT !.pc = "verify"]
    BY <1>1, <1>7, <1>11, <2>1, <2>3 DEF WriteTarget, OpType
  <2>4. QED BY <1>11, <2>2, <2>3 DEF WriteTarget
<1>12. CASE VerifyTarget
  <2>1. UNCHANGED <<page, home, handleOf>>
    BY <1>12 DEF VerifyTarget, pageVars
  <2>2. CASE ReturnCodecRaised \/ Return("CORRUPT")
    BY <1>5, <1>12, <2>1, <2>2 DEF VerifyTarget, ReturnCodecRaised
  <2>3. CASE op' = [op EXCEPT !.pc = "commit"]
    BY <1>1, <1>7, <1>12, <2>1, <2>3 DEF VerifyTarget, OpType
  <2>4. QED BY <1>12, <2>2, <2>3 DEF VerifyTarget
(* A commit: the page of the call is in its target from now on.            *)
<1>13. ASSUME NEW t \in Tier, NEW c \in Nat, ApplyTierTransition(op.page_id, t, c),
              home'[op.page_id].handle = op.tgt,
              \A p \in PageId : p # op.page_id =>
                home'[p] = home[p] /\ handleOf'[p] = handleOf[p],
              ~InHand, op'.pc \in Freeing,
              op'.page_id = op.page_id, op'.tgt = op.tgt
       PROVE  LookupInv'
  <2>1. \A p \in PageId : Present(p)' <=> Present(p)
    BY <1>1, <1>13, TransitionEffect
  <2>2. InHand' /\ op'.pc \notin Recovering
    BY <1>13 DEF InHand
  <2>3. QED BY <1>1, <1>13, <2>1, <2>2 DEF LookupInv, Whereabouts
<1>14. CASE Commit
  <2>1. CASE Return("SKIPPED") /\ UNCHANGED <<pageVars, home>>
    BY <1>5, <1>14, <2>1 DEF Commit, pageVars
  <2>2. CASE /\ ApplyTierTransition(op.page_id, op.to,
                                    Checksum(Decode(op.codec, op.packed)))
             /\ home' = [home EXCEPT ![op.page_id] =
                            [handle |-> op.tgt, codec |-> op.codec]]
             /\ op' = [op EXCEPT !.pc = "free"]
    <3>1. op.to \in Tier /\ Checksum(Decode(op.codec, op.packed)) \in Nat
      <4>1. op.codec \in Codec /\ op.packed \in Bytes /\ op.to \in Tier
        BY <1>1, <1>14 DEF Commit, CallInv, TypeOK, OpType
      <4>2. QED BY <4>1
    <3>2. /\ home'[op.page_id].handle = op.tgt
          /\ \A p \in PageId : p # op.page_id => home'[p] = home[p]
      BY <1>1, <2>2 DEF TypeOK
    <3>3. op'.pc \in Freeing /\ op'.page_id = op.page_id /\ op'.tgt = op.tgt
      BY <1>1, <2>2 DEF OpType
    <3>4. ~InHand /\ handleOf' = handleOf
      BY <1>14 DEF Commit, InHand
    <3>5. QED BY <1>13, <2>2, <3>1, <3>2, <3>3, <3>4
  <2>3. QED BY <1>14, <2>1, <2>2 DEF Commit
<1>15. CASE FreeSource
  <2>1. UNCHANGED <<page, home, handleOf>> /\ InHand
    BY <1>15 DEF FreeSource, pageVars, InHand
  <2>2. /\ op'.pc = "returned" /\ op'.status = "OK"
        /\ op'.page_id = op.page_id /\ op'.tgt = op.tgt
    BY <1>1, <1>15, ReturnEffect DEF FreeSource, Return, Status
  <2>3. InHand' = InHand
    BY <2>1, <2>2 DEF InHand, Moved
  <2>4. QED BY <1>2, <2>1, <2>2, <2>3
<1>16. CASE Recover
  <2>1. UNCHANGED <<page, home, handleOf>> /\ op.pc = "returned"
        /\ op.status \in {"FAILURE", "CORRUPT"}
    BY <1>16 DEF Recover, pageVars
  <2>2. CASE Settle("QUARANTINED")
    BY <1>6, <2>1, <2>2
  <2>3. ASSUME NEW h \in OldHandle, NEW b \in SourceBytes,
               op' = [op EXCEPT !.pc = "recover", !.src = h,
                                !.packed = b, !.codec = Raw, !.tgt = -1]
        PROVE  LookupInv'
    <3>1. op'.pc = "recover" /\ op'.status = op.status
      BY <1>1, <2>3 DEF OpType
    <3>2. ~InHand /\ ~InHand'
      BY <1>1, <2>1, <3>1 DEF InHand, Moved, CallInv
    <3>3. QED BY <1>3, <2>1, <3>1, <3>2
  <2>4. QED BY <1>16, <2>2, <2>3 DEF Recover
<1>17. CASE RecoverAlloc
  <2>1. UNCHANGED <<page, home, handleOf>> /\ op.status # "OK"
    BY <1>17 DEF RecoverAlloc, pageVars, LookupInv
  <2>2. CASE Settle("QUARANTINED")
    BY <1>6, <1>17, <2>1, <2>2 DEF RecoverAlloc
  <2>3. CASE op' = [op EXCEPT !.pc = "rewrite", !.tgt = nextHandle]
    BY <1>1, <1>7, <1>17, <2>1, <2>3 DEF RecoverAlloc, OpType
  <2>4. QED BY <1>17, <2>2, <2>3 DEF RecoverAlloc
<1>18. CASE RecoverWrite
  <2>1. UNCHANGED <<page, home, handleOf>> /\ op.status # "OK"
    BY <1>18 DEF RecoverWrite, pageVars, LookupInv
  <2>2. CASE Settle("QUARANTINED")
    BY <1>6, <1>18, <2>1, <2>2 DEF RecoverWrite
  <2>3. CASE op' = [op EXCEPT !.pc = "recommit"]
    BY <1>1, <1>7, <1>18, <2>1, <2>3 DEF RecoverWrite, OpType
  <2>4. QED BY <1>18, <2>2, <2>3 DEF RecoverWrite
<1>19. CASE RecoverCommit
  <2>1. CASE Settle("STAYED") /\ UNCHANGED <<pageVars, home, handleOf>>
    BY <1>6, <1>19, <2>1 DEF RecoverCommit, pageVars, LookupInv
  <2>2. CASE /\ ApplyTierTransition(op.page_id, BF16, page[op.page_id].bf16_checksum)
             /\ home' = [home EXCEPT ![op.page_id] = [handle |-> op.tgt, codec |-> Raw]]
             /\ handleOf' = IF RecoveryLookup = "dict"
                            THEN [handleOf EXCEPT ![op.page_id] = op.tgt]
                            ELSE handleOf
             /\ op' = [op EXCEPT !.pc = "refree"]
    <3>1. BF16 \in Tier /\ page[op.page_id].bf16_checksum \in Nat
      BY <1>1, <2>2, InTable DEF TypeOK, ApplyTierTransition, TransitionAllowed,
         Metadata, BF16, DISK, Tier
    <3>2. /\ home'[op.page_id].handle = op.tgt
          /\ \A p \in PageId : p # op.page_id =>
                home'[p] = home[p] /\ handleOf'[p] = handleOf[p]
      BY <1>1, <2>2 DEF TypeOK
    <3>3. op'.pc \in Freeing /\ op'.page_id = op.page_id /\ op'.tgt = op.tgt
      BY <1>1, <2>2 DEF OpType
    <3>4. ~InHand
      BY <1>19 DEF RecoverCommit, InHand
    <3>5. QED BY <1>13, <2>2, <3>1, <3>2, <3>3, <3>4
  <2>3. QED BY <1>19, <2>1, <2>2 DEF RecoverCommit
<1>20. CASE RecoverFree
  <2>1. UNCHANGED <<page, home, handleOf>> /\ InHand
    BY <1>20 DEF RecoverFree, pageVars, InHand
  <2>2. /\ op'.pc = "settled" /\ op'.level = "BF16_RECONSTRUCTED"
        /\ op'.page_id = op.page_id /\ op'.tgt = op.tgt
    BY <1>1, <1>20, SettleEffect DEF RecoverFree, Level
  <2>3. InHand' = InHand
    BY <2>1, <2>2 DEF InHand, Moved
  <2>4. QED BY <1>2, <2>1, <2>2, <2>3
(* The integration layer takes note.                                       *)
<1>21. CASE Finish
  <2>1. /\ op' = IdleOp /\ UNCHANGED <<page, home>>
        /\ handleOf' = IF op.page_id \in Watched /\ Moved
                       THEN [handleOf EXCEPT ![op.page_id] = op.tgt] ELSE handleOf
        /\ InHand <=> Moved
    BY <1>21 DEF Finish, pageVars, InHand
  <2>2. ~InHand' /\ op'.pc \notin Recovering
    BY <2>1 DEF IdleOp, InHand
  <2>3. \A p \in Watched : handleOf'[p] = Whereabouts(p)
    BY <1>1, <2>1 DEF Whereabouts, TypeOK
  <2>4. QED BY <2>1, <2>2, <2>3 DEF LookupInv, Whereabouts, Present
<1>22. CASE AddPage
  <2>1. /\ op' = op /\ nextId \in PageId /\ nextHandle \in Handle
        /\ handleOf' = [handleOf EXCEPT ![nextId] = nextHandle]
        /\ home' = [home EXCEPT ![nextId] = [handle |-> nextHandle, codec |-> Raw]]
        /\ Add(Checksum(Source(nextId)))
    BY <1>22 DEF AddPage, Add
  <2>2. Checksum(Source(nextId)) \in Nat /\ ~Present(nextId)
    BY <1>1, <2>1 DEF Fresh
  <2>3. \A q \in PageId : q # nextId => page'[q] = page[q]
    BY <1>1, <2>1, <2>2, AddEffect
  <2>4. InHand' = InHand /\ (InHand => op.page_id # nextId)
    BY <1>1, <2>1 DEF InHand, Moved, CallInv
  <2>5. home'[nextId].handle = handleOf'[nextId]
    BY <1>1, <2>1 DEF TypeOK
  <2>6. \A q \in PageId : q # nextId =>
            home'[q] = home[q] /\ handleOf'[q] = handleOf[q]
    BY <1>1, <2>1 DEF TypeOK
  <2>7. QED BY <2>1, <2>3, <2>4, <2>5, <2>6 DEF LookupInv, Whereabouts, Present
<1>23. ASSUME NEW p \in PageId, RemovePage(p) \/ PinPage(p) \/ UnpinPage(p)
       PROVE  LookupInv'
  <2>1. UNCHANGED <<home, handleOf, op>>
    BY <1>23 DEF RemovePage, PinPage, UnpinPage
  <2>2. \A q \in PageId : Present(q)' => Present(q)
    <3>1. CASE RemovePage(p)
      BY <1>1, <3>1, RemoveEffect DEF RemovePage, Present
    <3>2. CASE PinPage(p) \/ UnpinPage(p)
      BY <1>1, <3>2, PinEffect DEF PinPage, UnpinPage
    <3>3. QED BY <1>23, <3>1, <3>2
  <2>3. InHand' = InHand
    BY <2>1 DEF InHand, Moved
  <2>4. QED BY <2>1, <2>2, <2>3, LookupFrame DEF LookupInv
<1>24. CASE UNCHANGED vars
  <2>1. UNCHANGED <<page, home, handleOf, op>>
    BY <1>24 DEF vars, pageVars
  <2>2. InHand' = InHand
    BY <2>1 DEF InHand, Moved
  <2>3. QED BY <1>2, <2>1, <2>2 DEF LookupInv
<1>25. QED
  BY <1>4, <1>8, <1>9, <1>10, <1>11, <1>12, <1>14, <1>15, <1>16, <1>17, <1>18,
     <1>19, <1>20, <1>21, <1>22, <1>23, <1>24
     DEF Next, MigrateStep, RecoverStep, Environment

-----------------------------------------------------------------------------
(* The breakers are used as their specification says.                      *)
BreakerUse ==
    /\ op.pc \in Dispatched => <<op.from, op.to>> \in Key
    /\ ~WithBreaker => tripped = {}

(* A step that neither begins nor ends a dispatch is a stutter of Breakers.*)
LEMMA Unasked ==
    ASSUME BreakerUse, tripped' = tripped,
           \/ op.pc \notin Dispatched /\ op'.pc \notin Dispatched
           \/ /\ op.pc \in Dispatched /\ op'.pc \in Dispatched
              /\ op'.from = op.from /\ op'.to = op.to
    PROVE  BreakerUse' /\ UNCHANGED Registry!breakerVars
BY DEF BreakerUse, Pending, Registry!breakerVars

(* A call that comes back settles the dispatch it was admitted for.        *)
LEMMA CallEnds ==
    ASSUME BreakerUse, op.pc \in Dispatched, op'.pc = "returned",
           \/ tripped' = tripped
           \/ WithBreaker /\ tripped' = tripped \cup {<<op.from, op.to>>}
    PROVE  BreakerUse' /\ Registry!BreakersNext
<1>1. Pending = <<op.from, op.to>> /\ Pending \in Key /\ Pending' = <<-1, -1>>
  BY DEF BreakerUse, Pending, Dispatched
<1>2. BreakerUse'
  BY DEF BreakerUse, Dispatched
<1>3. Registry!Fail
  BY <1>1 DEF Registry!Fail
<1>4. QED BY <1>2, <1>3 DEF Registry!BreakersNext

(* A call whose codec raised comes back like any other.                    *)
LEMMA CodecRaisedEffect ==
    ASSUME op \in OpType, ReturnCodecRaised
    PROVE  op'.pc = "returned"
<1> DEFINE raised == [op EXCEPT !.faulty = TRUE]
<1>1. raised \in OpType
  BY DEF OpType
<1>2. op' = ReturnWith(raised, "FAILURE")
  BY Zenon DEF ReturnCodecRaised
<1>3. QED BY <1>1, <1>2, ReturnEffect DEF Status

(* So does one that fails otherwise, is skipped or is done.                *)
LEMMA CallComesBack ==
    ASSUME op \in OpType, NEW s \in {"OK", "SKIPPED", "FAILURE", "CORRUPT"}, Return(s)
    PROVE  op'.pc = "returned"
BY ReturnEffect DEF Return, Status

LEMMA BreakersUsed ==
    ASSUME TypeOK, BreakerUse, [Next]_vars
    PROVE  BreakerUse' /\ [Registry!BreakersNext]_(Registry!breakerVars)
<1> DEFINE Goal == BreakerUse' /\ [Registry!BreakersNext]_(Registry!breakerVars)
<1>1. op \in OpType
  BY DEF TypeOK
<1>2. ASSUME UNCHANGED <<op, tripped>>
      PROVE  Goal
  BY <1>2, Unasked
<1>3. ASSUME NEW p \in PageId, NEW t \in Targets, Skip(p, t)
      PROVE  Goal
  <2>1. op.pc \notin Dispatched /\ op'.pc \notin Dispatched /\ tripped' = tripped
    BY <1>3 DEF Skip, NewOp, IdleOp, Dispatched
  <2>2. QED BY <2>1, Unasked
<1>4. ASSUME NEW p \in PageId, NEW t \in Targets, Start(p, t)
      PROVE  Goal
  <2> DEFINE k == <<page[p].tier, t>>
  <2>1. op.pc \notin Dispatched /\ k \in Key
    BY <1>4 DEF Start, Movable, Dispatched
  <2>2. op'.pc \in Dispatched /\ op'.from = page[p].tier /\ op'.to = t
    BY <1>4 DEF Start, Movable, NewOp, IdleOp, Dispatched
  <2>3. tripped' = tripped \ {k} /\ (~WithBreaker => tripped' = {})
    BY <1>4 DEF Start, BreakerUse
  <2>4. BreakerUse'
    BY <2>1, <2>2, <2>3 DEF BreakerUse
  <2>5. Registry!Admit(k)
    BY <2>1, <2>2, <2>3 DEF Registry!Admit, Pending
  <2>6. QED BY <2>1, <2>4, <2>5 DEF Registry!BreakersNext
<1>5. CASE ReadSource
  <2>1. op.pc \in Dispatched /\ tripped' = tripped
    BY <1>5 DEF ReadSource, Dispatched
  <2>2. \/ op'.pc = "returned"
        \/ op'.pc \in Dispatched /\ op'.from = op.from /\ op'.to = op.to
    <3>1. CASE op' = [op EXCEPT !.pc = "encode", !.src = handleOf[op.page_id],
                              !.bytes = Contents(handleOf[op.page_id])]
      BY <1>1, <2>1, <3>1 DEF OpType, Dispatched
    <3>2. QED BY <1>1, <1>5, <3>1, CallComesBack DEF ReadSource
  <2>3. QED BY <2>1, <2>2, Unasked, CallEnds
<1>6. CASE EncodeSource
  <2>1. op.pc \in Dispatched
    BY <1>6 DEF EncodeSource, Dispatched
  <2>2. CASE ReturnCodecRaised /\ RecordFailure
    BY <1>1, <2>1, <2>2, CodecRaisedEffect, CallEnds DEF RecordFailure
  <2>3. CASE /\ tripped' = tripped
             /\ \/ op' = [op EXCEPT !.pc = "alloc", !.packed = Garbage,
                                    !.faulty = TRUE]
                \/ op' = [op EXCEPT !.pc = "alloc",
                                    !.packed = Encode(op.codec, op.bytes)]
    <3>1. op'.pc \in Dispatched /\ op'.from = op.from /\ op'.to = op.to
      BY <1>1, <2>3 DEF OpType, Dispatched
    <3>2. QED BY <2>1, <2>3, <3>1, Unasked
  <2>4. QED BY <1>6, <2>2, <2>3 DEF EncodeSource
<1>7. CASE AllocTarget
  <2>1. op.pc \in Dispatched /\ tripped' = tripped
    BY <1>7 DEF AllocTarget, Dispatched
  <2>2. \/ op'.pc = "returned"
        \/ op'.pc \in Dispatched /\ op'.from = op.from /\ op'.to = op.to
    <3>1. CASE op' = [op EXCEPT !.pc = "write", !.tgt = nextHandle]
      BY <1>1, <2>1, <3>1 DEF OpType, Dispatched
    <3>2. QED BY <1>1, <1>7, <3>1, CallComesBack DEF AllocTarget
  <2>3. QED BY <2>1, <2>2, Unasked, CallEnds
<1>8. CASE WriteTarget
  <2>1. op.pc \in Dispatched /\ tripped' = tripped
    BY <1>8 DEF WriteTarget, Dispatched
  <2>2. \/ op'.pc = "returned"
        \/ op'.pc \in Dispatched /\ op'.from = op.from /\ op'.to = op.to
    <3>1. CASE op' = [op EXCEPT !.pc = "verify"]
      BY <1>1, <2>1, <3>1 DEF OpType, Dispatched
    <3>2. QED BY <1>1, <1>8, <3>1, CallComesBack DEF WriteTarget
  <2>3. QED BY <2>1, <2>2, Unasked, CallEnds
<1>9. CASE VerifyTarget
  <2>1. op.pc \in Dispatched
    BY <1>9 DEF VerifyTarget, Dispatched
  <2>2. CASE RecordFailure /\ (ReturnCodecRaised \/ Return("CORRUPT"))
    <3>1. op'.pc = "returned"
      BY <1>1, <2>2, CodecRaisedEffect, ReturnEffect DEF Return, Status
    <3>2. QED BY <2>1, <2>2, <3>1, CallEnds DEF RecordFailure
  <2>3. CASE tripped' = tripped /\ op' = [op EXCEPT !.pc = "commit"]
    <3>1. op'.pc \in Dispatched /\ op'.from = op.from /\ op'.to = op.to
      BY <1>1, <2>3 DEF OpType, Dispatched
    <3>2. QED BY <2>1, <2>3, <3>1, Unasked
  <2>4. QED BY <1>9, <2>2, <2>3 DEF VerifyTarget
<1>10. CASE Commit
  <2>1. op.pc \in Dispatched /\ tripped' = tripped
    BY <1>10 DEF Commit, Dispatched
  <2>2. \/ op'.pc = "returned"
        \/ op'.pc \in Dispatched /\ op'.from = op.from /\ op'.to = op.to
    <3>1. CASE op' = [op EXCEPT !.pc = "free"]
      BY <1>1, <2>1, <3>1 DEF OpType, Dispatched
    <3>2. QED BY <1>1, <1>10, <3>1, CallComesBack DEF Commit
  <2>3. QED BY <2>1, <2>2, Unasked, CallEnds
<1>11. CASE FreeSource
  <2>1. op.pc \in Dispatched /\ tripped' = tripped /\ op'.pc = "returned"
    BY <1>1, <1>11, CallComesBack DEF FreeSource, Dispatched
  <2>2. QED BY <2>1, CallEnds
<1>12. CASE Recover \/ RecoverStep \/ Finish
  <2>1. op.pc \notin Dispatched /\ tripped' = tripped
    BY <1>12 DEF RecoverStep, Recover, RecoverAlloc, RecoverWrite, RecoverCommit,
       RecoverFree, Finish, Dispatched
  <2>2. CASE \E l \in Level : Settle(l)
    BY <2>1, <2>2, SettleEffect, Unasked DEF Dispatched
  <2>3. CASE op' = IdleOp
    BY <2>1, <2>3, Unasked DEF IdleOp, Dispatched
  <2>4. CASE \E h, b : op' = [op EXCEPT !.pc = "recover", !.src = h, !.packed = b,
                                       !.codec = Raw, !.tgt = -1]
    <3>1. op'.pc = "recover"
      BY <1>1, <2>4 DEF OpType
    <3>2. QED BY <2>1, <3>1, Unasked DEF Dispatched
  <2>5. CASE \/ op' = [op EXCEPT !.pc = "rewrite", !.tgt = nextHandle]
             \/ op' = [op EXCEPT !.pc = "recommit"]
             \/ op' = [op EXCEPT !.pc = "refree"]
    <3>1. op'.pc \in {"rewrite", "recommit", "refree"}
      BY <1>1, <2>5 DEF OpType
    <3>2. QED BY <2>1, <3>1, Unasked DEF Dispatched
  <2>6. {"STAYED", "BF16_RECONSTRUCTED", "QUARANTINED"} \subseteq Level
    BY DEF Level
  <2>7. QED
    BY <1>12, <2>2, <2>3, <2>4, <2>5, <2>6 DEF Recover, RecoverStep, RecoverAlloc,
       RecoverWrite, RecoverCommit, RecoverFree, Finish
<1>13. CASE AddPage \/ \E p \in PageId : RemovePage(p) \/ PinPage(p) \/ UnpinPage(p)
  BY <1>2, <1>13 DEF AddPage, RemovePage, PinPage, UnpinPage
<1>14. CASE UNCHANGED vars
  BY <1>2, <1>14 DEF vars
<1>15. ASSUME NEW p \in Registered, NEW t \in Targets, Skip(p, t) \/ Start(p, t)
       PROVE  Goal
  BY <1>3, <1>4, <1>15 DEF Registered
<1>16. CASE MigrateStep
  BY <1>5, <1>6, <1>7, <1>8, <1>9, <1>10, <1>11, <1>16 DEF MigrateStep
<1>17. CASE Environment
  BY <1>13, <1>17 DEF Environment
<1>18. QED
  BY <1>12, <1>14, <1>15, <1>16, <1>17 DEF Next

(* migrate() uses the breakers as Breakers says, whatever fails: it asks   *)
(* before every dispatch, and reports failures of what was let through.    *)
THEOREM BreakersUsedAsSpecified == Spec => UsesBreakers
<1>1. Init => BreakerUse /\ Registry!BreakersInit
  BY DEF Init, BreakerUse, IdleOp, Dispatched, Pending, Registry!BreakersInit
<1>2. MigrationInv => TypeOK
  BY DEF MigrationInv
<1>3. TypeOK /\ BreakerUse /\ [Next]_vars
        => BreakerUse' /\ [Registry!BreakersNext]_(Registry!breakerVars)
  BY BreakersUsed
<1>4. QED
  BY <1>1, <1>2, <1>3, MigrationCorrect, PTL DEF Spec, UsesBreakers, Registry!BreakersSpec

-----------------------------------------------------------------------------
(* Whose fault a failure is.                                               *)

(* The buffer a page lies in is none that a call may write or free before  *)
(* it has moved the page.                                                  *)
LEMMA HomesApart ==
    ASSUME MigrationInv, "source" \notin Faults, NEW p \in PageId, Present(p)
    PROVE  /\ home[p].handle \in Handle /\ buf[home[p].handle] \in Bytes
           /\ home[p].handle # nextHandle
           /\ op.pc \in Holding => home[p].handle # op.tgt
           /\ op.pc \in Freeing => home[p].handle # op.src
<1> USE DEF Migrating, BeforeAlloc, Holding, Written, Freeing, Recovering
<1>1. TypeOK /\ Fresh /\ Owned /\ CallInv /\ PageInv /\ BytesIntact
  BY DEF MigrationInv
<1>2. home[p].handle \in Handle /\ buf[home[p].handle] # Unallocated
  BY <1>1 DEF BytesIntact, Allocated
<1>3. home[p].handle < nextHandle /\ owner[home[p].handle] = p
  BY <1>1, <1>2, KnownHandles DEF Owned, OwnedBy
<1>4. ASSUME op.pc \in Holding PROVE home[p].handle # op.tgt
  <2>1. CASE p = op.page_id
    BY <1>1, <1>4, <2>1 DEF PageInv
  <2>2. CASE p # op.page_id
    BY <1>1, <1>3, <1>4, <2>2 DEF Owned, OwnedBy, CallInv
  <2>3. QED BY <2>1, <2>2
<1>5. ASSUME op.pc \in Freeing PROVE home[p].handle # op.src
  <2>1. CASE p = op.page_id
    BY <1>1, <1>5, <2>1 DEF PageInv, CallInv
  <2>2. CASE p # op.page_id
    BY <1>1, <1>2, <1>3, <2>2 DEF Owned, OwnedBy
  <2>3. QED BY <2>1, <2>2
<1>6. buf[home[p].handle] \in Bytes
  BY <1>1, <1>2 DEF TypeOK
<1>7. nextHandle # home[p].handle
  BY <1>1, <1>2, <1>3 DEF TypeOK
<1>8. QED BY <1>2, <1>4, <1>5, <1>6, <1>7

(* Nor does writing or freeing any other buffer disturb it.                *)
LEMMA FormsKept ==
    ASSUME MigrationInv, "source" \notin Faults, NEW Form, FormsHeld(Form),
           UNCHANGED <<page, home>>,
           \/ buf' = buf
           \/ Alloc(op.page_id)
           \/ op.pc \in Holding /\ SafeFree(op.tgt)
           \/ op.pc \in Holding /\ buf' = [buf EXCEPT ![op.tgt] = op.packed]
           \/ op.pc \in Freeing /\ SafeFree(op.src)
    PROVE  FormsHeld(Form)'
<1>1. TypeOK /\ op.page_id \in PageId
  BY KnownHandles DEF MigrationInv
<1>2. ASSUME NEW p \in PageId, Present(p)
      PROVE  buf'[home[p].handle] = buf[home[p].handle]
  <2>1. /\ home[p].handle \in Handle /\ home[p].handle # nextHandle
        /\ op.pc \in Holding => home[p].handle # op.tgt
        /\ op.pc \in Freeing => home[p].handle # op.src
    BY <1>2, HomesApart
  <2>2. CASE Alloc(op.page_id)
    BY <1>1, <2>1, <2>2, AllocEffect
  <2>3. CASE op.pc \in Holding /\ SafeFree(op.tgt)
    BY <1>1, <2>1, <2>3, FreeEffect
  <2>4. CASE op.pc \in Freeing /\ SafeFree(op.src)
    BY <1>1, <2>1, <2>4, FreeEffect
  <2>5. CASE op.pc \in Holding /\ buf' = [buf EXCEPT ![op.tgt] = op.packed]
    BY <1>1, <2>1, <2>5 DEF TypeOK
  <2>6. QED BY <2>2, <2>3, <2>4, <2>5
<1>3. QED BY <1>2, WatchedPages DEF FormsHeld, Present

(* What FormsFit says, one codec and one page at a time.                   *)
LEMMA FormFacts ==
    ASSUME NEW Form, FormsFit(Form), NEW p \in PageId
    PROVE  /\ Source(p) \in Form[p][BF16]
           /\ \A c \in Codec : Checksum(Decode(c, Garbage)) # Checksum(Source(p))
           /\ \A from, to : <<from, to>> \in Key => \A b \in Form[p][from] :
                LET c == CodecTable[<<from, to>>]
                    x == Encode(c, b)
                    verifies == Checksum(Decode(c, x)) = Checksum(Source(p))
                IN  (from = BF16 => verifies) /\ (verifies => x \in Form[p][to])
<1>1. /\ Source(p) \in Form[p][BF16]
      /\ \A c \in Codec : Checksum(Decode(c, Garbage)) # Checksum(Source(p))
      /\ \A k \in Key : \A b \in Form[p][k[1]] :
            LET x == Encode(CodecTable[k], b)
                verifies == Checksum(Decode(CodecTable[k], x)) = Checksum(Source(p))
            IN  (k[1] = BF16 => verifies) /\ (verifies => x \in Form[p][k[2]])
  BY Zenon DEF FormsFit
<1>2. ASSUME NEW from, NEW to, <<from, to>> \in Key, NEW b \in Form[p][from]
      PROVE  LET c == CodecTable[<<from, to>>]
                 x == Encode(c, b)
                 verifies == Checksum(Decode(c, x)) = Checksum(Source(p))
             IN  (from = BF16 => verifies) /\ (verifies => x \in Form[p][to])
  <2>1. PICK k \in Key : k = <<from, to>> /\ k[1] = from /\ k[2] = to
    BY <1>2
  <2>2. QED BY Zenon, <1>1, <1>2, <2>1
<1>3. QED BY Zenon, <1>1, <1>2

LEMMA FormsHeldStep ==
    ASSUME MigrationInv, "source" \notin Faults, NEW Form, FormsFit(Form),
           FormInv(Form), [Next]_vars
    PROVE  FormsHeld(Form)'
<1> USE DEF Migrating, Holding, Written, Freeing, Recovering, Encoded
<1>1. /\ TypeOK /\ Fresh /\ CallInv /\ PageInv /\ Anchored /\ PageOK
      /\ op.page_id \in PageId /\ FormsHeld(Form)
  BY KnownHandles DEF MigrationInv, TypeOK, Fresh, PageOK, FormInv
(* A page is moved: if it is watched, what is in the target is a proper    *)
(* form of it.                                                             *)
<1>2. ASSUME NEW t \in Tier, NEW c \in Nat, NEW k,
             ApplyTierTransition(op.page_id, t, c),
             home' = [home EXCEPT ![op.page_id] = [handle |-> op.tgt, codec |-> k]],
             buf' = buf,
             op.page_id \in Watched => buf[op.tgt] \in Form[op.page_id][t]
      PROVE  FormsHeld(Form)'
  <2>1. /\ page'[op.page_id].tier = t
        /\ \A q \in PageId : q # op.page_id => page'[q] = page[q]
    BY <1>1, <1>2, TransitionEffect
  <2>2. /\ home'[op.page_id].handle = op.tgt
        /\ \A q \in PageId : q # op.page_id => home'[q] = home[q]
    BY <1>1, <1>2 DEF TypeOK
  <2>3. QED BY <1>1, <1>2, <2>1, <2>2, WatchedPages DEF FormsHeld, Present
<1>3. ASSUME NEW p \in Registered, NEW t \in Targets, Skip(p, t) \/ Start(p, t)
      PROVE  FormsHeld(Form)'
  BY <1>1, <1>3, FormsKept DEF Skip, Start, memory, pageVars
<1>4. CASE ReadSource \/ EncodeSource \/ Recover \/ Finish
  BY <1>1, <1>4, FormsKept DEF ReadSource, EncodeSource, Recover, Finish, memory, pageVars
<1>5. CASE AllocTarget
  BY <1>1, <1>5, FormsKept DEF AllocTarget, memory, pageVars
<1>6. CASE WriteTarget
  BY <1>1, <1>6, FormsKept DEF WriteTarget, pageVars
<1>7. CASE VerifyTarget
  BY <1>1, <1>7, FormsKept DEF VerifyTarget, memory, pageVars
<1>8. CASE Commit
  <2>1. CASE SafeFree(op.tgt) /\ UNCHANGED <<pageVars, home>>
    BY <1>1, <1>8, <2>1, FormsKept DEF Commit, pageVars
  <2>2. CASE /\ ApplyTierTransition(op.page_id, op.to,
                                    Checksum(Decode(op.codec, op.packed)))
             /\ home' = [home EXCEPT ![op.page_id] =
                            [handle |-> op.tgt, codec |-> op.codec]]
             /\ UNCHANGED memory
    <3>1. Present(op.page_id) /\ op.pc = "commit"
      BY <1>8, <2>2 DEF Commit, ApplyTierTransition, TransitionAllowed
    <3>2. /\ op.to \in Tier /\ op.codec \in Codec /\ op.packed \in Bytes
          /\ buf[op.tgt] = op.packed
      BY <1>1, <3>1 DEF CallInv, PageInv, TypeOK, OpType
    <3>3. Checksum(Decode(op.codec, op.packed)) \in Nat
      BY <3>2
    <3>4. Checksum(Decode(op.codec, op.packed)) = Checksum(Source(op.page_id))
      BY <1>1, <3>1 DEF PageInv, Anchored, Verified
    <3>5. op.packed # Garbage
      BY <1>1, <3>2, <3>4, FormFacts
    <3>7. /\ <<op.from, op.to>> \in Key
          /\ op.codec = CodecTable[<<op.from, op.to>>]
      BY <3>1 DEF FormInv
    <3>8. ASSUME op.page_id \in Watched
          PROVE  op.packed \in Form[op.page_id][op.to]
      <4> PICK b \in Form[op.page_id][op.from] : op.packed = Encode(op.codec, b)
        BY <3>1, <3>5, <3>8 DEF FormInv
      <4>1. /\ <<op.from, op.to>> \in Key
            /\ b \in Form[op.page_id][op.from]
            /\ op.packed = Encode(CodecTable[<<op.from, op.to>>], b)
            /\ Checksum(Decode(CodecTable[<<op.from, op.to>>],
                                Encode(CodecTable[<<op.from, op.to>>], b)))
                    = Checksum(Source(op.page_id))
        BY <3>4, <3>7
      <4>2. Encode(CodecTable[<<op.from, op.to>>], b) \in Form[op.page_id][op.to]
        BY Zenon, <1>1, <4>1, FormFacts
      <4>3. QED BY <4>1, <4>2
    <3>9. buf' = buf
      BY <2>2 DEF memory
    <3>10. QED BY <1>2, <2>2, <3>2, <3>3, <3>8, <3>9
  <2>3. QED BY <1>8, <2>1, <2>2 DEF Commit
<1>9. CASE FreeSource
  BY <1>1, <1>9, FormsKept DEF FreeSource, pageVars
<1>10. CASE RecoverAlloc
  BY <1>1, <1>10, FormsKept DEF RecoverAlloc, memory, pageVars
<1>11. CASE RecoverWrite
  BY <1>1, <1>11, FormsKept DEF RecoverWrite, pageVars
<1>12. CASE RecoverCommit
  <2>1. CASE SafeFree(op.tgt) /\ UNCHANGED <<pageVars, home>>
    BY <1>1, <1>12, <2>1, FormsKept DEF RecoverCommit, pageVars
  <2>2. CASE /\ ApplyTierTransition(op.page_id, BF16, page[op.page_id].bf16_checksum)
             /\ home' = [home EXCEPT ![op.page_id] = [handle |-> op.tgt, codec |-> Raw]]
             /\ UNCHANGED memory
    <3>1. Present(op.page_id) /\ op.pc = "recommit"
      BY <1>12, <2>2 DEF RecoverCommit, ApplyTierTransition, TransitionAllowed
    <3>2. BF16 \in Tier /\ page[op.page_id].bf16_checksum \in Nat
      BY <1>1, <3>1, InTable DEF TypeOK, Metadata, BF16, DISK, Tier
    <3>3. buf[op.tgt] \in Form[op.page_id][BF16]
      BY <1>1, <3>1, FormFacts DEF CallInv, PageInv
    <3>4. buf' = buf
      BY <2>2 DEF memory
    <3>5. QED BY <1>2, <2>2, <3>2, <3>3, <3>4
  <2>3. QED BY <1>12, <2>1, <2>2 DEF RecoverCommit
<1>13. CASE RecoverFree
  BY <1>1, <1>13, FormsKept DEF RecoverFree, memory, pageVars
<1>14. CASE AddPage
  <2>1. /\ nextId \in PageId /\ nextHandle \in Handle
        /\ Checksum(Source(nextId)) \in Nat
    BY <1>14 DEF AddPage, Add
  <2>2. /\ page'[nextId].tier = BF16
        /\ \A q \in PageId : q # nextId => page'[q] = page[q]
    <3>1. ~Present(nextId) /\ Add(Checksum(Source(nextId)))
      BY <1>1, <1>14, <2>1 DEF AddPage, Fresh, TypeOK, PageTypeOK
    <3>2. /\ page'[nextId] = NewPage(Checksum(Source(nextId)))
          /\ \A q \in PageId : q # nextId => page'[q] = page[q]
      BY <1>1, <2>1, <3>1, AddEffect
    <3>3. QED BY <3>2 DEF NewPage
  <2>3. /\ home'[nextId].handle = nextHandle
        /\ \A q \in PageId : q # nextId => home'[q] = home[q]
        /\ buf'[nextHandle] = Source(nextId)
        /\ \A g \in Handle : g # nextHandle => buf'[g] = buf[g]
    BY <1>1, <1>14, <2>1 DEF AddPage, TypeOK
  <2>4. ASSUME NEW q \in Watched, q # nextId, Present(q)'
        PROVE  (buf[home[q].handle] \in Form[q][page[q].tier])'
    <3>1. q \in PageId /\ Present(q)
      BY <2>2, <2>4, WatchedPages DEF Present
    <3>2. buf'[home[q].handle] = buf[home[q].handle]
      BY <2>3, <3>1, HomesApart
    <3>3. buf[home[q].handle] \in Form[q][page[q].tier]
      BY <1>1, <3>1 DEF FormsHeld
    <3>4. QED BY <2>2, <2>3, <2>4, <3>2, <3>3
  <2>5. buf'[home'[nextId].handle] \in Form[nextId][page'[nextId].tier]
    <3>1. Source(nextId) \in Form[nextId][BF16]
      BY Zenon, <2>1, FormFacts
    <3>2. QED BY <2>2, <2>3, <3>1
  <2>6. QED BY <2>4, <2>5 DEF FormsHeld
<1>15. ASSUME NEW p \in PageId, RemovePage(p)
       PROVE  FormsHeld(Form)'
  <2>1. ~Present(p)' /\ \A q \in PageId : q # p => page'[q] = page[q]
    BY <1>1, <1>15, RemoveEffect DEF RemovePage
  <2>2. ASSUME NEW q \in PageId, q # p, Present(q)
        PROVE  buf'[home[q].handle] = buf[home[q].handle]
    <3>1. home[q].handle \in Handle
      BY <2>2, HomesApart
    <3>2. OwnedBy(home[q].handle, q) /\ OwnedBy(handleOf[p], p)
      BY DEF MigrationInv, Owned
    <3>3. home[q].handle # handleOf[p]
      BY <2>2, <3>1, <3>2 DEF OwnedBy
    <3>4. QED BY <1>15, <3>1, <3>3 DEF RemovePage
  <2>3. home' = home
    BY <1>15 DEF RemovePage
  <2>4. QED BY <1>1, <2>1, <2>2, <2>3, WatchedPages DEF FormsHeld, Present
<1>16. ASSUME NEW p \in PageId, PinPage(p) \/ UnpinPage(p)
       PROVE  FormsHeld(Form)'
  <2>1. /\ \A q \in PageId : Present(q)' <=> Present(q)
        /\ \A q \in PageId : page'[q].tier = page[q].tier
        /\ home' = home /\ buf' = buf
    BY <1>1, <1>16, PinEffect DEF PinPage, UnpinPage, memory
  <2>2. QED BY <1>1, <2>1, WatchedPages DEF FormsHeld
<1>17. CASE UNCHANGED vars
  BY <1>1, <1>17, FormsKept DEF vars, pageVars
<1>18. QED
  BY <1>3, <1>4, <1>5, <1>6, <1>7, <1>8, <1>9, <1>10, <1>11, <1>12, <1>13, <1>14,
     <1>15, <1>16, <1>17 DEF Next, MigrateStep, RecoverStep, Environment

(* A call that goes on, with what it has in hand unchanged.                *)
LEMMA CallGoesOn ==
    ASSUME NEW Form, FormInv(Form), FormsHeld(Form)',
           \/ op' = op
           \/ /\ op.pc \in Encoded /\ op'.pc \in Encoded
              /\ op'.page_id = op.page_id /\ op'.from = op.from
              /\ op'.to = op.to /\ op'.codec = op.codec
              /\ op'.packed = op.packed /\ op'.faulty = op.faulty,
           Present(op.page_id)' /\ op.pc # "idle" => Present(op.page_id)
    PROVE  FormInv(Form)'
BY Zenon DEF FormInv, Migrating, Encoded

LEMMA FormInvStep ==
    ASSUME "source" \notin Faults, MigrationInv, LookupInv,
           NEW Form, FormsFit(Form), FormInv(Form), [Next]_vars
    PROVE  FormInv(Form)'
<1> USE DEF Migrating, Encoded
<1>1. /\ TypeOK /\ Fresh /\ CallInv /\ PageInv /\ BytesIntact /\ PageOK
      /\ op \in OpType /\ op.page_id \in PageId
  BY KnownHandles DEF MigrationInv, TypeOK, Fresh, PageOK
<1>2. FormsHeld(Form)'
  BY FormsHeldStep
<1>3. ASSUME op'.pc \notin Migrating PROVE FormInv(Form)'
  BY <1>2, <1>3 DEF FormInv
<1>4. ASSUME NEW o \in OpType, NEW s \in Status, op' = ReturnWith(o, s)
      PROVE  FormInv(Form)'
  BY <1>3, <1>4, ReturnEffect
<1>5. [op EXCEPT !.faulty = TRUE] \in OpType
  BY <1>1 DEF OpType
<1>6. ASSUME Return("FAILURE") \/ Return("SKIPPED") \/ Return("CORRUPT") \/ Return("OK")
             \/ ReturnCodecRaised
      PROVE  FormInv(Form)'
  <2>1. {"FAILURE", "SKIPPED", "CORRUPT", "OK"} \subseteq Status
    BY DEF Status
  <2>2. QED BY Zenon, <1>1, <1>4, <1>5, <1>6, <2>1 DEF Return, ReturnCodecRaised
<1>7. ASSUME NEW p \in Registered, NEW t \in Targets, Skip(p, t)
      PROVE  FormInv(Form)'
  BY <1>3, <1>7 DEF Skip, NewOp, IdleOp
<1>8. ASSUME NEW p \in Registered, NEW t \in Targets, Start(p, t)
      PROVE  FormInv(Form)'
  <2>1. /\ Present(p) /\ <<page[p].tier, t>> \in Key
        /\ op' = [NewOp(p, t) EXCEPT !.pc = "read",
                                     !.codec = CodecTable[<<page[p].tier, t>>]]
    BY <1>8 DEF Start, Movable
  <2>2. /\ op'.pc = "read" /\ op'.from = page[p].tier /\ op'.to = t
        /\ op'.codec = CodecTable[<<page[p].tier, t>>]
    BY <2>1 DEF NewOp, IdleOp
  <2>3. QED BY <1>2, <2>1, <2>2 DEF FormInv
<1>9. CASE ReadSource
  <2>1. CASE Return("FAILURE")
    BY <1>6, <2>1
  <2>2. CASE op' = [op EXCEPT !.pc = "encode", !.src = handleOf[op.page_id],
                              !.bytes = Contents(handleOf[op.page_id])]
    <3>1. /\ op'.pc = "encode" /\ op'.page_id = op.page_id
          /\ op'.from = op.from /\ op'.to = op.to /\ op'.codec = op.codec
          /\ op'.bytes = Contents(handleOf[op.page_id])
          /\ op.pc = "read" /\ page' = page
      BY <1>1, <1>9, <2>2 DEF OpType, ReadSource, pageVars
    <3>2. ASSUME Present(op.page_id), op.page_id \in Watched
          PROVE  op'.bytes \in Form[op.page_id][op.from]
      <4>1. home[op.page_id].handle = handleOf[op.page_id]
        BY <1>1, <3>1, <3>2 DEF LookupInv, Whereabouts, InHand, Freeing
      <4>2. op'.bytes = buf[home[op.page_id].handle]
        BY <1>1, <3>1, <3>2, <4>1 DEF BytesIntact, Contents
      <4>3. page[op.page_id].tier = op.from
        BY <1>1, <3>1, <3>2 DEF PageInv
      <4>4. QED BY <1>1, <3>2, <4>2, <4>3 DEF FormInv, FormsHeld
    <3>3. QED BY <1>2, <3>1, <3>2 DEF FormInv, Present
  <2>3. QED BY <1>9, <2>1, <2>2 DEF ReadSource
<1>10. CASE EncodeSource
  <2>1. op.pc = "encode" /\ page' = page
    BY <1>10 DEF EncodeSource, pageVars
  <2>2. CASE ReturnCodecRaised
    BY <1>6, <2>2
  <2>3. CASE op' = [op EXCEPT !.pc = "alloc", !.packed = Garbage, !.faulty = TRUE]
    <3>1. /\ op'.pc = "alloc" /\ op'.page_id = op.page_id
          /\ op'.from = op.from /\ op'.to = op.to /\ op'.codec = op.codec
          /\ op'.packed = Garbage /\ op'.faulty
      BY <1>1, <2>3 DEF OpType
    <3>2. QED BY <1>2, <2>1, <3>1 DEF FormInv
  <2>4. CASE op' = [op EXCEPT !.pc = "alloc", !.packed = Encode(op.codec, op.bytes)]
    <3>1. /\ op'.pc = "alloc" /\ op'.page_id = op.page_id
          /\ op'.from = op.from /\ op'.to = op.to /\ op'.codec = op.codec
          /\ op'.packed = Encode(op.codec, op.bytes)
      BY <1>1, <2>4 DEF OpType
    <3>2. QED BY <1>2, <2>1, <3>1 DEF FormInv, Present
  <2>5. QED BY <1>10, <2>2, <2>3, <2>4 DEF EncodeSource
<1>11. CASE AllocTarget
  <2>1. CASE Return("FAILURE")
    BY <1>6, <2>1
  <2>2. CASE op' = [op EXCEPT !.pc = "write", !.tgt = nextHandle]
    BY <1>1, <1>2, <1>11, <2>2, CallGoesOn DEF AllocTarget, OpType, Present, pageVars
  <2>3. QED BY <1>11, <2>1, <2>2 DEF AllocTarget
<1>12. CASE WriteTarget
  <2>1. CASE Return("FAILURE")
    BY <1>6, <2>1
  <2>2. CASE op' = [op EXCEPT !.pc = "verify"]
    BY <1>1, <1>2, <1>12, <2>2, CallGoesOn DEF WriteTarget, OpType, Present, pageVars
  <2>3. QED BY <1>12, <2>1, <2>2 DEF WriteTarget
<1>13. CASE VerifyTarget
  <2>1. CASE Return("CORRUPT") \/ ReturnCodecRaised
    BY <1>6, <2>1
  <2>2. CASE op' = [op EXCEPT !.pc = "commit"]
    BY <1>1, <1>2, <1>13, <2>2, CallGoesOn DEF VerifyTarget, OpType, Present, pageVars
  <2>3. QED BY <1>13, <2>1, <2>2 DEF VerifyTarget
<1>14. CASE Commit
  <2>1. CASE Return("SKIPPED")
    BY <1>6, <2>1
  <2>2. CASE op' = [op EXCEPT !.pc = "free"]
    BY <1>1, <1>3, <2>2 DEF OpType
  <2>3. QED BY <1>14, <2>1, <2>2 DEF Commit
<1>15. CASE FreeSource
  BY <1>6, <1>15 DEF FreeSource
<1>16. CASE Recover \/ RecoverStep \/ Finish
  <2>1. CASE \E l \in Level : Settle(l)
    BY <1>1, <1>3, <2>1, SettleEffect
  <2>2. CASE op' = IdleOp
    BY <1>3, <2>2 DEF IdleOp
  <2>3. CASE \E h, b : op' = [op EXCEPT !.pc = "recover", !.src = h, !.packed = b,
                                       !.codec = Raw, !.tgt = -1]
    BY <1>1, <1>3, <2>3 DEF OpType
  <2>4. CASE \/ op' = [op EXCEPT !.pc = "rewrite", !.tgt = nextHandle]
             \/ op' = [op EXCEPT !.pc = "recommit"]
             \/ op' = [op EXCEPT !.pc = "refree"]
    <3>1. op'.pc \in {"rewrite", "recommit", "refree"}
      BY <1>1, <2>4 DEF OpType
    <3>2. QED BY <1>3, <3>1
  <2>5. {"STAYED", "BF16_RECONSTRUCTED", "QUARANTINED"} \subseteq Level
    BY DEF Level
  <2>6. QED
    BY <1>16, <2>1, <2>2, <2>3, <2>4, <2>5 DEF Recover, RecoverStep, RecoverAlloc,
       RecoverWrite, RecoverCommit, RecoverFree, Finish
<1>17. CASE Environment \/ UNCHANGED vars
  <2>1. op' = op
    BY <1>17 DEF Environment, AddPage, RemovePage, PinPage, UnpinPage, vars
  <2>2. ASSUME Present(op.page_id)', op.pc # "idle" PROVE Present(op.page_id)
    <3>1. CASE AddPage
      <4>1. op.page_id # nextId
        BY <1>1, <2>2 DEF CallInv, TypeOK, PageTypeOK
      <4>2. page'[op.page_id] = page[op.page_id]
        BY <1>1, <3>1, <4>1 DEF AddPage, Add, TypeOK, PageTypeOK
      <4>3. QED BY <2>1, <2>2, <4>2 DEF Present
    <3>2. ASSUME NEW p \in PageId, RemovePage(p) PROVE Present(op.page_id)
      BY <1>1, <2>1, <2>2, <3>2, RemoveEffect DEF RemovePage, Present
    <3>3. ASSUME NEW p \in PageId, PinPage(p) \/ UnpinPage(p) PROVE Present(op.page_id)
      BY <1>1, <2>1, <2>2, <3>3, PinEffect DEF PinPage, UnpinPage, Present
    <3>4. CASE UNCHANGED vars
      BY <2>2, <3>4 DEF vars, pageVars, Present
    <3>5. QED BY <1>17, <3>1, <3>2, <3>3, <3>4 DEF Environment
  <2>3. QED BY <1>2, <2>1, <2>2, CallGoesOn
<1>18. QED
  BY <1>7, <1>8, <1>9, <1>10, <1>11, <1>12, <1>13, <1>14, <1>15, <1>16, <1>17
     DEF Next, MigrateStep

(* With codecs that cannot be blamed, nothing charges the breaker of a     *)
(* demotion from BF16 but a codec that raised or was lossy, or the removal *)
(* of the page while it was being verified.                                *)
LEMMA ChargeStep ==
    ASSUME MigrationInv, NEW Form, FormsFit(Form), FormInv(Form), [Next]_vars
    PROVE  \/ tripped' \subseteq tripped \/ op.from # BF16 \/ op'.faulty
           \/ ~Present(op.page_id) \/ op.page_id \notin Watched
<1> DEFINE Fair == \/ tripped' \subseteq tripped \/ op.from # BF16 \/ op'.faulty
                   \/ ~Present(op.page_id) \/ op.page_id \notin Watched
<1> USE DEF Migrating, Encoded
<1>1. /\ TypeOK /\ Anchored /\ op \in OpType /\ op.page_id \in PageId
      /\ CallInv
  BY KnownHandles DEF MigrationInv, TypeOK
<1>2. ASSUME tripped' = tripped PROVE Fair
  BY <1>2
<1>3. ASSUME ReturnCodecRaised PROVE Fair
  BY <1>1, <1>3 DEF ReturnCodecRaised, ReturnWith, OpType
<1>4. ASSUME NEW p, NEW t, Skip(p, t) \/ Start(p, t) PROVE Fair
  BY <1>4 DEF Skip, Start
<1>5. CASE EncodeSource
  BY <1>2, <1>3, <1>5 DEF EncodeSource
<1>6. CASE VerifyTarget
  <2>1. CASE Verified
    BY <1>2, <1>3, <1>6, <2>1 DEF VerifyTarget
  <2>2. ASSUME ~Verified, Return("CORRUPT"), op.from = BF16, Present(op.page_id),
               op.page_id \in Watched
        PROVE  op'.faulty
    <3>1. op'.faulty = op.faulty /\ op.pc = "verify"
      BY <1>1, <1>6, <2>2 DEF Return, ReturnWith, OpType, VerifyTarget
    <3>2. SUFFICES ASSUME ~op.faulty PROVE FALSE
      BY <3>1
    <3>3. PICK b \in Form[op.page_id][op.from] : op.packed = Encode(op.codec, b)
      BY <2>2, <3>1, <3>2 DEF FormInv
    <3>4. /\ <<op.from, op.to>> \in Key
          /\ op.codec = CodecTable[<<op.from, op.to>>]
      BY <3>1 DEF FormInv
    <3>5. Checksum(Decode(CodecTable[<<op.from, op.to>>],
                          Encode(CodecTable[<<op.from, op.to>>], b)))
            = Checksum(Source(op.page_id))
      <4>1. /\ op.page_id \in PageId /\ op.from = BF16
            /\ <<op.from, op.to>> \in Key /\ b \in Form[op.page_id][op.from]
        BY <1>1, <2>2, <3>3, <3>4
      <4>2. QED BY <4>1, FormFacts
    <3>6. page[op.page_id].bf16_checksum = Checksum(Source(op.page_id))
      BY <1>1, <2>2 DEF Anchored
    <3>7. QED BY <2>2, <3>3, <3>4, <3>5, <3>6 DEF Verified
  <2>3. QED BY <1>2, <1>3, <1>6, <2>1, <2>2 DEF VerifyTarget
<1>7. CASE ReadSource \/ AllocTarget \/ WriteTarget \/ Commit \/ FreeSource
  BY <1>2, <1>7 DEF ReadSource, AllocTarget, WriteTarget, Commit, FreeSource
<1>8. CASE Recover \/ RecoverStep \/ Finish
  BY <1>2, <1>8 DEF Recover, RecoverStep, RecoverAlloc, RecoverWrite, RecoverCommit,
     RecoverFree, Finish
<1>9. CASE Environment \/ UNCHANGED vars
  BY <1>2, <1>9 DEF Environment, AddPage, RemovePage, PinPage, UnpinPage, vars
<1>10. QED
  BY <1>4, <1>5, <1>6, <1>7, <1>8, <1>9 DEF Next, MigrateStep

(* Where the codecs are such, the breakers on the way down from BF16 count *)
(* what codecs have done, whatever else fails and whatever is pinned or    *)
(* removed, as long as the lookup is not stale.                            *)
THEOREM ChargesAreFair ==
    ASSUME "source" \notin Faults, NEW Form, FormsFit(Form)
    PROVE  Spec => ChargedFairly
<1>1. Init => FormInv(Form)
  BY DEF Init, PageInit, FormInv, FormsHeld, Present, Missing, IdleOp, Migrating, Encoded
<1>2. Init => LookupInv
  BY DEF Init, PageInit, LookupInv, Present, Missing, IdleOp, Recovering
<1>3. MigrationInv /\ LookupInv /\ [Next]_vars => LookupInv'
  BY LookupStep
<1>4. MigrationInv /\ LookupInv /\ FormInv(Form) /\ [Next]_vars => FormInv(Form)'
  BY FormInvStep
<1>5. MigrationInv /\ FormInv(Form) /\ [Next]_vars
        => [tripped' \subseteq tripped \/ op.from # BF16 \/ op.faulty'
                \/ ~Present(op.page_id) \/ op.page_id \notin Watched]_vars
  BY ChargeStep
<1>6. QED BY <1>1, <1>2, <1>3, <1>4, <1>5, MigrationCorrect, PTL DEF Spec, ChargedFairly
=============================================================================
