------------------------------ MODULE Migration ------------------------------
(***************************************************************************)
(* runtime/migrate.py: migrate(), and the BF16 recovery that the           *)
(* integration layer runs on its failures, safety/fallback.py.             *)
(*                                                                         *)
(* One page is moved at a time (hot-path calls are serialized), in steps   *)
(* separated by calls into the allocator, the codec and the integration's  *)
(* callbacks.  Between two steps the integration layer may pin, unpin, add *)
(* or remove pages: the case migrate() calls a pin race.                   *)
(*                                                                         *)
(* The integration layer, the allocator and the codecs are parameters of   *)
(* migrate(); they are modelled from how it uses them.                     *)
(***************************************************************************)
EXTENDS PageMap

CONSTANTS
    MaxHandle,          \* bound: an allocator out of handles is out of memory
    Bytes,              \* buffer contents
    Unallocated,        \* the state of a handle that names no buffer
    NoBytes,            \* b"", what reading an invalid handle returns
    Garbage,            \* what an unwritten buffer or a lossy codec holds
    Source(_),          \* Source(p): the BF16 bytes page p was filled with
    Checksum(_),        \* Codec.checksum
    Codec,              \* codec objects
    Raw,                \* stands for "not encoded", the form of BF16 bytes
    CodecTable,         \* (from, to) -> codec, built by the compiler
    Encode(_, _), Decode(_, _),
    Faults,             \* what may go wrong: see the actions
    WithBreaker,        \* whether migrate() is given a breaker registry
    RecoveryLookup,     \* page_handle_lookup of the recovery: "none",
                        \* "callable" or "dict"
    Watched             \* pages of which the integration layer finds out, by
                        \* means of its own, which buffer they have moved to

Handle == 1 .. MaxHandle
Key == DOMAIN CodecTable

DecodeVia(c, b) == IF c = Raw THEN b ELSE Decode(c, b)

ASSUME MigrationAssumption ==
    /\ PageMapAssumption
    /\ MaxHandle \in Nat
    /\ {NoBytes, Garbage} \subseteq Bytes
    /\ Unallocated \notin Bytes
    /\ Raw \notin Codec
    /\ \A p \in PageId : Source(p) \in Bytes
    /\ \A b \in Bytes : Checksum(b) \in Nat
    /\ Key \subseteq Tier \X Tier
    /\ CodecTable \in [Key -> Codec]
    /\ \A c \in Codec, b \in Bytes : Encode(c, b) \in Bytes /\ Decode(c, b) \in Bytes
    /\ WithBreaker \in BOOLEAN
    /\ Watched \subseteq PageId
    /\ RecoveryLookup \in {"none", "callable", "dict"}

VARIABLES
    buf,        \* allocator: handle -> contents, or Unallocated
    nextHandle, \* allocator: handles are never reused
    handleOf,   \* integration layer: page_handle_lookup, -1 if it knows none
    tripped,    \* breaker registry: the transitions whose breaker is tripped
    op,         \* the migrate() call in progress, or the last one
    home,       \* history: the buffer and codec of the page's committed bytes
    owner,      \* history: the page a buffer was allocated for
    lost        \* history: buffers whose free() raised

vars == <<pageVars, buf, nextHandle, handleOf, tripped, op, home, owner, lost>>

PC == {"idle", "read", "encode", "alloc", "write", "verify", "commit", "free",
       "returned", "recover", "rewrite", "recommit", "refree", "settled"}
Status == {"none", "OK", "SKIPPED", "FAILURE", "CORRUPT"}
Level == {"none", "STAYED", "BF16_RECONSTRUCTED", "QUARANTINED"}

Place == [handle : Handle \cup {-1}, codec : Codec \cup {Raw}]

OpType ==
    [pc : PC, page_id : PageId, from : Tier, to : Tier, codec : Codec \cup {Raw},
     src : Handle \cup {-1}, bytes : Bytes, tgt : Handle \cup {-1},
     packed : Bytes, status : Status, level : Level,
     faulty : BOOLEAN,      \* history: the codec raised or was lossy
     home : Place]          \* history: home[page_id] when the call began

TypeOK ==
    /\ PageTypeOK
    /\ buf \in [Handle -> Bytes \cup {Unallocated}]
    /\ nextHandle \in 1 .. MaxHandle + 1
    /\ handleOf \in [PageId -> Handle \cup {-1}]
    /\ tripped \subseteq Tier \X Tier
    /\ op \in OpType
    /\ home \in [PageId -> Place]
    /\ owner \in [Handle -> PageId \cup {-1}]
    /\ lost \subseteq Handle

-----------------------------------------------------------------------------
NoPlace == [handle |-> -1, codec |-> Raw]

IdleOp == [pc |-> "idle", page_id |-> 0, from |-> BF16, to |-> BF16,
           codec |-> Raw, src |-> -1, bytes |-> NoBytes, tgt |-> -1,
           packed |-> NoBytes, status |-> "none", level |-> "none",
           faulty |-> FALSE, home |-> NoPlace]

Init ==
    /\ PageInit
    /\ buf = [h \in Handle |-> Unallocated]
    /\ nextHandle = 1
    /\ handleOf = [p \in PageId |-> -1]
    /\ tripped = {}
    /\ op = IdleOp
    /\ home = [p \in PageId |-> NoPlace]
    /\ owner = [h \in Handle |-> -1]
    /\ lost = {}

memory == <<buf, nextHandle, owner, lost>>

Allocated(h) == h \in Handle /\ buf[h] # Unallocated

(* Allocator.read: b"" on an invalid handle, never an exception.           *)
Contents(h) == IF Allocated(h) THEN buf[h] ELSE NoBytes

(* Allocator.alloc, on behalf of page p: a handle never used before.       *)
Alloc(p) ==
    /\ nextHandle \in Handle
    /\ buf' = [buf EXCEPT ![nextHandle] = Garbage]
    /\ owner' = [owner EXCEPT ![nextHandle] = p]
    /\ nextHandle' = nextHandle + 1
    /\ UNCHANGED lost

(* _safe_alloc returns -1: alloc() raised, or is out of memory.            *)
AllocFails == "alloc" \in Faults \/ nextHandle \notin Handle

(* _safe_free: no-op on an invalid handle; an exception is swallowed and   *)
(* the buffer stays.                                                       *)
SafeFree(h) ==
    /\ \/ /\ buf' = [g \in Handle |-> IF g = h THEN Unallocated ELSE buf[g]]
          /\ UNCHANGED lost
       \/ /\ "free" \in Faults
          /\ Allocated(h)
          /\ lost' = lost \cup {h}
          /\ UNCHANGED buf
    /\ UNCHANGED <<nextHandle, owner>>

(* record_codec_failure: one more failure may trip the breaker.            *)
RecordFailure ==
    IF WithBreaker
    THEN tripped' \in {tripped, tripped \cup {<<op.from, op.to>>}}
    ELSE UNCHANGED tripped

(* The result names the page, the tiers and the status; the call's locals  *)
(* go out of scope (tgt, faulty and home stay, for the properties).        *)
ReturnWith(o, s) ==
    [o EXCEPT !.pc = "returned", !.status = s, !.codec = Raw, !.src = -1,
              !.bytes = NoBytes, !.packed = NoBytes]

Return(s) == op' = ReturnWith(op, s)

(* The same when it is the codec that raised.                              *)
ReturnCodecRaised == op' = ReturnWith([op EXCEPT !.faulty = TRUE], "FAILURE")

-----------------------------------------------------------------------------
(* migrate(), one action per call it makes.                                *)

(* Steps 1 to 4: the page exists, is not pinned, is elsewhere, a codec is  *)
(* there and its breaker lets it through.  is_codec_available resets a     *)
(* tripped breaker whose cooldown is over.                                 *)
NewOp(p, t) ==
    [IdleOp EXCEPT !.page_id = p, !.to = t, !.home = home[p],
                   !.from = IF Present(p) THEN page[p].tier ELSE BF16]

Movable(p, t) ==
    /\ Present(p)
    /\ page[p].pin_count = 0
    /\ page[p].tier # t
    /\ <<page[p].tier, t>> \in Key

Skip(p, t) ==
    /\ op.pc = "idle"
    /\ \/ ~Movable(p, t)
       \/ WithBreaker /\ <<page[p].tier, t>> \in tripped
    /\ op' = [NewOp(p, t) EXCEPT !.pc = "returned", !.status = "SKIPPED"]
    /\ UNCHANGED <<pageVars, memory, handleOf, tripped, home>>

(* Defect: goes ahead without asking the breaker.                          *)
StartUnasked(p, t) ==
    /\ op.pc = "idle"
    /\ Movable(p, t)
    /\ op' = [NewOp(p, t) EXCEPT !.pc = "read",
                                 !.codec = CodecTable[<<page[p].tier, t>>]]
    /\ UNCHANGED <<pageVars, memory, handleOf, tripped, home>>

Start(p, t) ==
    /\ op.pc = "idle"
    /\ Movable(p, t)
    /\ op' = [NewOp(p, t) EXCEPT !.pc = "read",
                                 !.codec = CodecTable[<<page[p].tier, t>>]]
    /\ tripped' = IF WithBreaker THEN tripped \ {<<page[p].tier, t>>} ELSE tripped
    /\ UNCHANGED <<pageVars, memory, handleOf, home>>

ReadSource ==
    /\ op.pc = "read"
    /\ \/ /\ \/ {"lookup", "read"} \cap Faults # {}
             \/ handleOf[op.page_id] = -1
          /\ Return("FAILURE")
       \/ /\ handleOf[op.page_id] # -1
          /\ op' = [op EXCEPT !.pc = "encode", !.src = handleOf[op.page_id],
                              !.bytes = Contents(handleOf[op.page_id])]
    /\ UNCHANGED <<pageVars, memory, handleOf, tripped, home>>

EncodeSource ==
    /\ op.pc = "encode"
    /\ \/ /\ "encode" \in Faults
          /\ ReturnCodecRaised
          /\ RecordFailure
       \/ /\ "lossy" \in Faults
          /\ op' = [op EXCEPT !.pc = "alloc", !.packed = Garbage, !.faulty = TRUE]
          /\ UNCHANGED tripped
       \/ /\ op' = [op EXCEPT !.pc = "alloc", !.packed = Encode(op.codec, op.bytes)]
          /\ UNCHANGED tripped
    /\ UNCHANGED <<pageVars, memory, handleOf, home>>

(* Defect: waits for memory instead of failing the call.                   *)
AllocTargetWaits ==
    /\ op.pc = "alloc"
    /\ Alloc(op.page_id)
    /\ op' = [op EXCEPT !.pc = "write", !.tgt = nextHandle]
    /\ UNCHANGED <<pageVars, handleOf, tripped, home>>

(* Defect: freed handles are given out again.                              *)
AllocTargetReusing ==
    /\ op.pc = "alloc"
    /\ \/ /\ AllocFails
          /\ Return("FAILURE")
          /\ UNCHANGED memory
       \/ \E h \in Handle :
            /\ buf[h] = Unallocated /\ h <= nextHandle
            /\ buf' = [buf EXCEPT ![h] = Garbage]
            /\ owner' = [owner EXCEPT ![h] = op.page_id]
            /\ nextHandle' = IF h = nextHandle THEN h + 1 ELSE nextHandle
            /\ op' = [op EXCEPT !.pc = "write", !.tgt = h]
            /\ UNCHANGED lost
    /\ UNCHANGED <<pageVars, handleOf, tripped, home>>

AllocTarget ==
    /\ op.pc = "alloc"
    /\ \/ /\ AllocFails
          /\ Return("FAILURE")
          /\ UNCHANGED memory
       \/ /\ Alloc(op.page_id)
          /\ op' = [op EXCEPT !.pc = "write", !.tgt = nextHandle]
    /\ UNCHANGED <<pageVars, handleOf, tripped, home>>

(* Defect: a failing allocator is charged to the codec's breaker.          *)
WriteTargetCharged ==
    /\ op.pc = "write"
    /\ \/ /\ "write" \in Faults
          /\ SafeFree(op.tgt)
          /\ RecordFailure
          /\ Return("FAILURE")
       \/ /\ buf' = [buf EXCEPT ![op.tgt] = op.packed]
          /\ op' = [op EXCEPT !.pc = "verify"]
          /\ UNCHANGED <<nextHandle, owner, lost, tripped>>
    /\ UNCHANGED <<pageVars, handleOf, home>>

WriteTarget ==
    /\ op.pc = "write"
    /\ \/ /\ "write" \in Faults
          /\ SafeFree(op.tgt)
          /\ Return("FAILURE")
       \/ /\ buf' = [buf EXCEPT ![op.tgt] = op.packed]
          /\ op' = [op EXCEPT !.pc = "verify"]
          /\ UNCHANGED <<nextHandle, owner, lost>>
    /\ UNCHANGED <<pageVars, handleOf, tripped, home>>

(* Defect: the round trip is trusted.                                      *)
VerifiedUnchecked == TRUE

(* Decodes the encoded bytes in hand and compares with the page's anchor.  *)
Verified ==
    Checksum(Decode(op.codec, op.packed)) = page[op.page_id].bf16_checksum

VerifyTarget ==
    /\ op.pc = "verify"
    /\ \/ /\ "decode" \in Faults \/ "checksum" \in Faults
          /\ SafeFree(op.tgt)
          /\ RecordFailure
          /\ ReturnCodecRaised
       \/ /\ ~Verified
          /\ SafeFree(op.tgt)
          /\ RecordFailure
          /\ Return("CORRUPT")
       \/ /\ Verified
          /\ op' = [op EXCEPT !.pc = "commit"]
          /\ UNCHANGED <<memory, tripped>>
    /\ UNCHANGED <<pageVars, handleOf, home>>

(* Defect: the outcome of apply_tier_transition is ignored.                *)
CommitUnchecked ==
    /\ op.pc = "commit"
    /\ op' = [op EXCEPT !.pc = "free"]
    /\ \/ /\ ApplyTierTransition(op.page_id, op.to,
                                 Checksum(Decode(op.codec, op.packed)))
          /\ home' = [home EXCEPT ![op.page_id] =
                        [handle |-> op.tgt, codec |-> op.codec]]
       \/ /\ ~TransitionAllowed(op.page_id)
          /\ UNCHANGED <<pageVars, home>>
    /\ UNCHANGED <<memory, handleOf, tripped>>

(* apply_tier_transition, with the verified checksum; False when the page  *)
(* has been pinned or removed since step 2.                                *)
Commit ==
    /\ op.pc = "commit"
    /\ \/ /\ ApplyTierTransition(op.page_id, op.to,
                                 Checksum(Decode(op.codec, op.packed)))
          /\ home' = [home EXCEPT ![op.page_id] =
                        [handle |-> op.tgt, codec |-> op.codec]]
          /\ op' = [op EXCEPT !.pc = "free"]
          /\ UNCHANGED memory
       \/ /\ ~TransitionAllowed(op.page_id)
          /\ SafeFree(op.tgt)
          /\ Return("SKIPPED")
          /\ UNCHANGED <<pageVars, home>>
    /\ UNCHANGED <<handleOf, tripped>>

FreeSource ==
    /\ op.pc = "free"
    /\ SafeFree(op.src)
    /\ Return("OK")
    /\ UNCHANGED <<pageVars, handleOf, tripped, home>>

-----------------------------------------------------------------------------
(* handle_migration_failure() and attempt_bf16_recovery().                 *)

(* A dict is not callable: calling it raises, and the old handle stays -1, *)
(* as it does when there is no lookup or it fails.                         *)
OldHandle ==
    (IF RecoveryLookup = "callable" THEN {handleOf[op.page_id]} ELSE {-1})
        \cup (IF "lookup" \in Faults THEN {-1} ELSE {})

(* bf16_source_lookup: its answer is not verified.                         *)
SourceBytes ==
    {Source(op.page_id)} \cup (IF "source" \in Faults THEN {Garbage} ELSE {})

Settle(l) ==
    op' = [op EXCEPT !.pc = "settled", !.level = l, !.src = -1, !.packed = NoBytes]

Recover ==
    /\ op.pc = "returned"
    /\ op.status \in {"FAILURE", "CORRUPT"}
    /\ \/ /\ ~Present(op.page_id) \/ "nosource" \in Faults
          /\ Settle("QUARANTINED")
       \/ /\ Present(op.page_id)
          /\ \E h \in OldHandle, b \in SourceBytes :
                op' = [op EXCEPT !.pc = "recover", !.src = h,
                                 !.packed = b, !.codec = Raw, !.tgt = -1]
    /\ UNCHANGED <<pageVars, memory, handleOf, tripped, home>>

RecoverAlloc ==
    /\ op.pc = "recover"
    /\ \/ /\ AllocFails
          /\ Settle("QUARANTINED")
          /\ UNCHANGED memory
       \/ /\ Alloc(op.page_id)
          /\ op' = [op EXCEPT !.pc = "rewrite", !.tgt = nextHandle]
    /\ UNCHANGED <<pageVars, handleOf, tripped, home>>

RecoverWrite ==
    /\ op.pc = "rewrite"
    /\ \/ /\ "write" \in Faults
          /\ SafeFree(op.tgt)
          /\ Settle("QUARANTINED")
       \/ /\ buf' = [buf EXCEPT ![op.tgt] = op.packed]
          /\ op' = [op EXCEPT !.pc = "recommit"]
          /\ UNCHANGED <<nextHandle, owner, lost>>
    /\ UNCHANGED <<pageVars, handleOf, tripped, home>>

(* The new checksum is the anchor itself; a dict is told the new handle.   *)
RecoverCommit ==
    /\ op.pc = "recommit"
    /\ \/ /\ ApplyTierTransition(op.page_id, BF16, page[op.page_id].bf16_checksum)
          /\ home' = [home EXCEPT ![op.page_id] = [handle |-> op.tgt, codec |-> Raw]]
          /\ handleOf' = IF RecoveryLookup = "dict"
                         THEN [handleOf EXCEPT ![op.page_id] = op.tgt]
                         ELSE handleOf
          /\ op' = [op EXCEPT !.pc = "refree"]
          /\ UNCHANGED memory
       \/ /\ ~TransitionAllowed(op.page_id)
          /\ SafeFree(op.tgt)
          /\ Settle("STAYED")
          /\ UNCHANGED <<pageVars, home, handleOf>>
    /\ UNCHANGED tripped

(* Defect: the recovery forgets the buffer it replaces.                    *)
RecoverFreeForgets ==
    /\ op.pc = "refree"
    /\ Settle("BF16_RECONSTRUCTED")
    /\ UNCHANGED <<pageVars, memory, handleOf, tripped, home>>

RecoverFree ==
    /\ op.pc = "refree"
    /\ IF op.src >= 0 THEN SafeFree(op.src) ELSE UNCHANGED memory
    /\ Settle("BF16_RECONSTRUCTED")
    /\ UNCHANGED <<pageVars, handleOf, tripped, home>>

-----------------------------------------------------------------------------
(* The integration layer.                                                  *)

Moved == op.status = "OK" \/ op.level = "BF16_RECONSTRUCTED"

(* Neither result names the new buffer: for a page that it does not watch, *)
(* the lookup goes on answering what it did before the move.               *)
Finish ==
    /\ op.pc \in {"returned", "settled"}
    /\ op' = IdleOp
    /\ handleOf' = IF op.page_id \in Watched /\ Moved
                   THEN [handleOf EXCEPT ![op.page_id] = op.tgt]
                   ELSE handleOf
    /\ UNCHANGED <<pageVars, memory, tripped, home>>

(* A page filled by prefill: its BF16 bytes are written and registered.    *)
AddPage ==
    /\ Add(Checksum(Source(nextId)))
    /\ nextHandle \in Handle
    /\ buf' = [buf EXCEPT ![nextHandle] = Source(nextId)]
    /\ owner' = [owner EXCEPT ![nextHandle] = nextId]
    /\ nextHandle' = nextHandle + 1
    /\ handleOf' = [handleOf EXCEPT ![nextId] = nextHandle]
    /\ home' = [home EXCEPT ![nextId] = [handle |-> nextHandle, codec |-> Raw]]
    /\ UNCHANGED <<lost, tripped, op>>

(* The request is done: the page goes, and with it the buffer the          *)
(* integration layer knows for it, at once or later.                       *)
RemovePage(p) ==
    /\ Remove(p)
    /\ buf' \in {buf, [g \in Handle |->
                         IF g = handleOf[p] THEN Unallocated ELSE buf[g]]}
    /\ UNCHANGED <<nextHandle, owner, lost, handleOf, tripped, op, home>>

PinPage(p) == Pin(p) /\ UNCHANGED <<memory, handleOf, tripped, op, home>>

UnpinPage(p) == Unpin(p) /\ UNCHANGED <<memory, handleOf, tripped, op, home>>

-----------------------------------------------------------------------------
MigrateStep ==
    \/ ReadSource \/ EncodeSource \/ AllocTarget \/ WriteTarget
    \/ VerifyTarget \/ Commit \/ FreeSource

RecoverStep == RecoverAlloc \/ RecoverWrite \/ RecoverCommit \/ RecoverFree

Environment ==
    \/ AddPage
    \/ \E p \in PageId : RemovePage(p) \/ PinPage(p) \/ UnpinPage(p)

(* Callers name pages that add() has registered, removed since or not.     *)
Registered == {p \in PageId : p < nextId}

Next ==
    \/ \E p \in Registered, t \in Targets : Skip(p, t) \/ Start(p, t)
    \/ MigrateStep
    \/ Recover
    \/ RecoverStep
    \/ Finish
    \/ Environment

Spec == Init /\ [][Next]_vars

(* A call runs to its end: nothing in migrate() or in the recovery waits.  *)
FairSpec == Spec /\ WF_vars(MigrateStep) /\ WF_vars(RecoverStep)

-----------------------------------------------------------------------------
(* Whatever fails and whenever, the bytes of a page in the table are held  *)
(* by an allocated buffer and decode to the bytes the page was registered  *)
(* with: the source is not given up before a verified copy has replaced it.*)
BytesIntact ==
    \A p \in PageId : Present(p) =>
        /\ Allocated(home[p].handle)
        /\ Checksum(DecodeVia(home[p].codec, buf[home[p].handle]))
                = page[p].bf16_checksum

(* migrate() is all or nothing: when it returns OK, a page still in the    *)
(* table is at the target tier in the new buffer; when it returns anything *)
(* else, it is at its old tier in its old buffer.                          *)
AllOrNothing ==
    op.pc = "returned" /\ Present(op.page_id) =>
        IF op.status = "OK"
        THEN page[op.page_id].tier = op.to /\ home[op.page_id].handle = op.tgt
        ELSE page[op.page_id].tier = op.from /\ home[op.page_id] = op.home

(* No buffer of a watched page is forgotten: between calls, every one that *)
(* is allocated is the one the lookup names, or one that free() refused to *)
(* release.  Every abort path and the recovery must release what they own. *)
NoOrphanBuffer ==
    op.pc = "idle" =>
        \A h \in Handle : Allocated(h) /\ owner[h] \in Watched =>
            h \in lost \/ \E p \in PageId : handleOf[p] = h

(* However stale the lookup has become, no call reads, writes or frees a   *)
(* buffer of another page than its own.                                    *)
NoForeignBuffer ==
    [][op' # op =>
        /\ \A h \in Handle : buf'[h] # buf[h] => owner'[h] = op.page_id
        /\ op'.src # -1 => owner'[op'.src] = op'.page_id]_vars

(* A target buffer outlives its call only if its page was moved into it.   *)
AbortReleasesTarget ==
    op.pc \in {"returned", "settled"} /\ ~Moved /\ op.tgt # -1 =>
        ~Allocated(op.tgt) \/ op.tgt \in lost

(* Between the pin check and the commit any number of calls is made; a     *)
(* page pinned in that time is not moved, by migrate() or by the recovery. *)
PinnedNotMoved ==
    [][\A p \in PageId :
            Present(p) /\ page[p].pin_count > 0 /\ Present(p)'
                => page[p].tier' = page[p].tier /\ home[p]' = home[p]]_vars

(* migrate() never raises: every call comes back with a result, and so     *)
(* does every recovery.                                                    *)
CallReturns ==
    /\ op.pc = "read" ~> op.pc = "returned"
    /\ op.pc = "recover" ~> op.pc = "settled"

(* A breaker on the way down from BF16 is charged for nothing but what the *)
(* codec did, with two exceptions: a page removed while it is verified has *)
(* the checksum 0, so that a healthy codec is charged for the removal; and *)
(* it is charged for what a stale lookup made it encode.                   *)
ChargedFairly ==
    [][tripped' \subseteq tripped \/ op.from # BF16 \/ op.faulty'
         \/ ~Present(op.page_id) \/ op.page_id \notin Watched]_vars

(* A transition whose codec neither raised nor lost anything verifies.     *)
HealthyCodecVerifies ==
    op.status = "CORRUPT" /\ Present(op.page_id) => op.faulty

(* The breaker registry is used as Breakers says: asked before every       *)
(* dispatch, and told of a failure of nothing but what it has admitted.    *)
Dispatched == {"read", "encode", "alloc", "write", "verify", "commit", "free"}
Pending == IF op.pc \in Dispatched THEN <<op.from, op.to>> ELSE <<-1, -1>>

Registry == INSTANCE Breakers WITH NoKey <- <<-1, -1>>, pending <- Pending

UsesBreakers == Registry!BreakersSpec

-----------------------------------------------------------------------------
(* Handles and page ids at or past the next one have not been given out.   *)
Fresh ==
    /\ Counted
    /\ \A h \in Handle : h >= nextHandle => owner[h] = -1 /\ buf[h] = Unallocated
    /\ \A p \in PageId : p >= nextId => ~Present(p) /\ handleOf[p] = -1

(* A handle that is known for a page was allocated for that page.          *)
OwnedBy(h, p) == h # -1 => owner[h] = p

Owned ==
    /\ \A p \in PageId : OwnedBy(handleOf[p], p) /\ OwnedBy(home[p].handle, p)
    /\ OwnedBy(op.src, op.page_id)
    /\ OwnedBy(op.tgt, op.page_id)

Anchored ==
    \A p \in PageId : Present(p) => page[p].bf16_checksum = Checksum(Source(p))

(* What a call knows, step by step, of its page and of its two buffers.    *)
BeforeAlloc == {"idle", "read", "encode", "alloc", "recover"}
Migrating == {"read", "encode", "alloc", "write", "verify", "commit"}
Recovering == {"recover", "rewrite", "recommit"}
Holding == {"write", "verify", "commit", "rewrite", "recommit"}
Written == {"verify", "commit", "recommit"}
Freeing == {"free", "refree"}

CallInv ==
    /\ op.pc # "idle" => op.page_id < nextId
    /\ op.pc # "settled" => op.level = "none"
    /\ op.pc \in BeforeAlloc => op.tgt = -1
    /\ op.pc \in Holding \cup Freeing => op.tgt # -1 /\ op.tgt # op.src
    /\ op.pc \in Migrating => op.codec \in Codec
    /\ op.pc \in Recovering =>
            op.codec = Raw /\ ("source" \notin Faults => op.packed = Source(op.page_id))

(* The same as far as the page is still in the table.                      *)
PageInv ==
    Present(op.page_id) =>
        /\ op.pc \in Migrating =>
                page[op.page_id].tier = op.from /\ home[op.page_id] = op.home
        /\ op.pc \in Holding => op.tgt # home[op.page_id].handle
        /\ op.pc \in Written => buf[op.tgt] = op.packed
        /\ op.pc = "commit" => Verified
        /\ op.pc \in Freeing => home[op.page_id].handle = op.tgt
        /\ op.pc = "free" => page[op.page_id].tier = op.to

(* What makes the safety invariants below inductive: the bytes of a page   *)
(* are intact because the handles of different pages are different, and    *)
(* because the buffer a call frees is never the one it has committed to.   *)
MigrationInv ==
    /\ TypeOK /\ Fresh /\ Owned /\ Anchored /\ CallInv /\ PageInv
    /\ "source" \notin Faults => BytesIntact
    /\ AllOrNothing
    /\ AbortReleasesTarget

(* What makes NoOrphanBuffer inductive where the recovery can ask for the  *)
(* old buffer: one that is allocated for a watched page is known to the    *)
(* lookup, or is the target of the call in progress; and the buffer a call *)
(* frees is the one the lookup will forget.                                *)
Tracked == RecoveryLookup = "callable" /\ "lookup" \notin Faults

Released(h) == ~Allocated(h) \/ h \in lost

Reading == {"encode", "alloc", "recover"}

OrphanInv ==
    /\ \A h \in Handle : Allocated(h) /\ owner[h] \in Watched =>
            h \in lost \/ h = op.tgt \/ \E p \in PageId : handleOf[p] = h
    /\ op.pc \in Reading \cup Holding \cup Freeing => op.src = handleOf[op.page_id]
    /\ op.pc \in Recovering => op.status # "OK"
    /\ op.pc \in {"returned", "settled"} /\ Moved => Released(handleOf[op.page_id])

(* Codecs that cannot be blamed.  Form[p][t]: the contents with which page *)
(* p may lie at tier t.  They are codecs of which the round trip of a page *)
(* at BF16 has the page's checksum, of which what passes verification is a *)
(* proper form of the page, and of which a loss is noticed.                *)
FormsFit(Form) ==
    /\ Form \in [PageId -> [Tier -> SUBSET Bytes]]
    /\ \A p \in PageId :
        /\ Source(p) \in Form[p][BF16]
        /\ \A b \in Form[p][BF16] : Checksum(b) = Checksum(Source(p))
        /\ \A c \in Codec : Checksum(Decode(c, Garbage)) # Checksum(Source(p))
        /\ \A k \in Key : \A b \in Form[p][k[1]] :
            LET x == Encode(CodecTable[k], b)
                verifies == Checksum(Decode(CodecTable[k], x)) = Checksum(Source(p))
            IN  /\ k[1] = BF16 => verifies
                /\ verifies => x \in Form[p][k[2]]

Encoded == {"alloc", "write", "verify", "commit"}

(* What makes ChargedFairly inductive with such codecs: watched pages lie  *)
(* at their tiers in a proper form, and so does what a call has read.      *)
FormsHeld(Form) ==
    \A p \in Watched : Present(p) => buf[home[p].handle] \in Form[p][page[p].tier]

FormInv(Form) ==
    /\ FormsHeld(Form)
    /\ op.pc \in Migrating => /\ <<op.from, op.to>> \in Key
                              /\ op.codec = CodecTable[<<op.from, op.to>>]
    /\ op.pc = "encode" /\ Present(op.page_id) /\ op.page_id \in Watched =>
            op.bytes \in Form[op.page_id][op.from]
    /\ op.pc \in Encoded /\ Present(op.page_id) /\ op.page_id \in Watched =>
            \/ op.faulty /\ op.packed = Garbage
            \/ \E b \in Form[op.page_id][op.from] : op.packed = Encode(op.codec, b)
=============================================================================
