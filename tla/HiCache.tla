------------------------------- MODULE HiCache --------------------------------
(***************************************************************************)
(* adapters/sglang: the hooks that compress KV tokens on their way to the  *)
(* host pool and decompress them on their way back (hooks.py, with the     *)
(* kernels of codecs/int8.py), and the threads that patch them into        *)
(* SGLang's host pool classes while the server runs (patcher.py,           *)
(* sitecustomize.py).                                                      *)
(*                                                                         *)
(* SGLang is external: it computes tokens, backs up, evicts, loads back    *)
(* layer by layer and drops them, in batches of its own choice.  A slot is *)
(* named by the token it was allocated for.  K and V are treated alike by  *)
(* the code: one buffer stands for both.                                   *)
(***************************************************************************)
EXTENDS Integers, Sequences

CONSTANTS
    Token, Layer,
    HeadNum,        \* head_num of the pool
    MaxBatch,       \* bound: tokens in a call
    Caller,         \* threads that call apply_hicache_patches ...
    Passes,         \* ... and the hooks each passes, or NoHooks
    NoHooks, NoCaller, NoScale,
    Configured,     \* compressible_layers, or Layer where it is left None
    PatchFirst      \* SGLang serves only once the threads are done

Class == {"MHA", "MLA"}
Method == {"backup", "load"}

ASSUME HiCacheAssumption ==
    /\ HeadNum \in Nat \ {0}
    /\ MaxBatch \in Nat \ {0}
    /\ NoCaller \notin Caller
    /\ NoScale \notin Token
    /\ Configured \subseteq Layer
    /\ PatchFirst \in BOOLEAN

VARIABLES
    pc,             \* caller -> where it is in apply_hicache_patches
    lock,           \* who holds _PATCH_LOCK
    hooks,          \* _HOOKS
    wrapped,        \* class -> method -> how often it has been wrapped
    flag,           \* class -> ashkv_patched
    pool,           \* the class of the server's pool
    resident,       \* tokens that SGLang has in the device pool ...
    device,         \* ... and whether their slots hold them, layer by layer
    backed,         \* tokens that SGLang has in the host pool ...
    host,           \* ... and what their slots hold, layer by layer
    groups,         \* the batches that were packed
    mixed,          \* history: what of a token, since it was computed, has
                    \* been read otherwise than it was written
    loading,        \* the load in progress: its batch and the layers left
    crashed         \* a hook raised into SGLang

patchVars == <<pc, lock, hooks, wrapped, flag>>
poolVars == <<pool, resident, device, backed, host, groups, mixed, loading, crashed>>
vars == <<patchVars, poolVars>>

-----------------------------------------------------------------------------
(* A host slot of one layer: raw BF16, the packed form, or what the slot's *)
(* last owner left.                                                        *)
NoScales == [j \in 1 .. HeadNum |-> NoScale]
Cell == [kind : {"native", "packed", "stale"}, own : BOOLEAN,
         scales : [1 .. HeadNum -> Token \cup {NoScale}]]
StaleCell == [kind |-> "stale", own |-> FALSE, scales |-> NoScales]

Batch == {b \in UNION {[1 .. n -> Token] : n \in 1 .. MaxBatch} :
            \A i, j \in DOMAIN b : b[i] = b[j] => i = j}
Tokens(b) == {b[i] : i \in DOMAIN b}
At(b, t) == CHOOSE i \in DOMAIN b : b[i] = t

Idle == [batch |-> <<>>, left |-> {}]

TypeOK ==
    /\ pc \in [Caller -> {"start", "import", "acquire", "check", "load", "flag", "mla", "done"}]
    /\ lock \in Caller \cup {NoCaller}
    /\ hooks \in {Passes[c] : c \in Caller} \cup {NoHooks}
    /\ wrapped \in [Class -> [Method -> Nat]]
    /\ flag \in [Class -> BOOLEAN]
    /\ pool \in Class
    /\ resident \subseteq Token
    /\ device \in [Token -> [Layer -> BOOLEAN]]
    /\ backed \subseteq Token
    /\ host \in [Token -> [Layer -> Cell]]
    /\ groups \subseteq Batch
    /\ mixed \subseteq Token \X Layer
    /\ loading \in [batch : Batch \cup {<<>>}, left : SUBSET Layer]
    /\ crashed \in BOOLEAN

Init ==
    /\ pc = [c \in Caller |-> "start"]
    /\ lock = NoCaller
    /\ hooks = NoHooks
    /\ wrapped = [k \in Class |-> [m \in Method |-> 0]]
    /\ flag = [k \in Class |-> FALSE]
    /\ pool \in Class
    /\ resident = {}
    /\ device = [t \in Token |-> [l \in Layer |-> FALSE]]
    /\ backed = {}
    /\ host = [t \in Token |-> [l \in Layer |-> StaleCell]]
    /\ groups = {}
    /\ mixed = {}
    /\ loading = Idle
    /\ crashed = FALSE

-----------------------------------------------------------------------------
(* apply_hicache_patches.  The assignment of _HOOKS is outside the lock.   *)
SetHooks(c) ==
    /\ pc[c] = "start"
    /\ hooks' = Passes[c]
    /\ pc' = [pc EXCEPT ![c] = IF Passes[c] = NoHooks THEN "done" ELSE "import"]
    /\ UNCHANGED <<lock, wrapped, flag, poolVars>>

(* Not the SGLang it expects: RuntimeError, which delayed_patch logs.      *)
ImportFails(c) ==
    /\ pc[c] = "import"
    /\ pc' = [pc EXCEPT ![c] = "done"]
    /\ UNCHANGED <<lock, hooks, wrapped, flag, poolVars>>

Imports(c) ==
    /\ pc[c] = "import"
    /\ pc' = [pc EXCEPT ![c] = "acquire"]
    /\ UNCHANGED <<lock, hooks, wrapped, flag, poolVars>>

(* Defect: the lock is not taken.                                          *)
AcquireUnlocked(c) ==
    /\ pc[c] = "acquire"
    /\ lock' = c
    /\ pc' = [pc EXCEPT ![c] = "check"]
    /\ UNCHANGED <<hooks, wrapped, flag, poolVars>>

Acquire(c) ==
    /\ pc[c] = "acquire"
    /\ lock = NoCaller
    /\ lock' = c
    /\ pc' = [pc EXCEPT ![c] = "check"]
    /\ UNCHANGED <<hooks, wrapped, flag, poolVars>>

AlreadyPatched(c) ==
    /\ pc[c] = "check"
    /\ flag["MHA"]
    /\ lock' = NoCaller
    /\ pc' = [pc EXCEPT ![c] = "done"]
    /\ UNCHANGED <<hooks, wrapped, flag, poolVars>>

Wrap(k, m) == wrapped' = [wrapped EXCEPT ![k][m] = @ + 1]

(* One assignment after the other: SGLang's threads run between them.      *)
WrapBackup(c) ==
    /\ pc[c] = "check"
    /\ ~flag["MHA"]
    /\ Wrap("MHA", "backup")
    /\ pc' = [pc EXCEPT ![c] = "load"]
    /\ UNCHANGED <<lock, hooks, flag, poolVars>>

WrapLoad(c) ==
    /\ pc[c] = "load"
    /\ Wrap("MHA", "load")
    /\ pc' = [pc EXCEPT ![c] = "flag"]
    /\ UNCHANGED <<lock, hooks, flag, poolVars>>

SetFlag(c) ==
    /\ pc[c] = "flag"
    /\ flag' = [flag EXCEPT !["MHA"] = TRUE]
    /\ pc' = [pc EXCEPT ![c] = "mla"]
    /\ UNCHANGED <<lock, hooks, wrapped, poolVars>>

(* Defect: only the early return releases the lock.                        *)
WrapMlaHolding(c) ==
    /\ pc[c] = "mla"
    /\ wrapped' = [wrapped EXCEPT !["MLA"] = [m \in Method |-> @[m] + 1]]
    /\ flag' = [flag EXCEPT !["MLA"] = TRUE]
    /\ pc' = [pc EXCEPT ![c] = "done"]
    /\ UNCHANGED <<lock, hooks, poolVars>>

(* The same for the other class, whose backup and load the hooks decline;  *)
(* between its assignments nothing can be told apart.                      *)
WrapMla(c) ==
    /\ pc[c] = "mla"
    /\ wrapped' = [wrapped EXCEPT !["MLA"] = [m \in Method |-> @[m] + 1]]
    /\ flag' = [flag EXCEPT !["MLA"] = TRUE]
    /\ lock' = NoCaller
    /\ pc' = [pc EXCEPT ![c] = "done"]
    /\ UNCHANGED <<hooks, poolVars>>

Patch(c) ==
    \/ SetHooks(c) \/ ImportFails(c) \/ Imports(c)
    \/ Acquire(c) \/ AlreadyPatched(c)
    \/ WrapBackup(c) \/ WrapLoad(c) \/ SetFlag(c) \/ WrapMla(c)

-----------------------------------------------------------------------------
Serving == ~crashed /\ (PatchFirst => \A c \in Caller : pc[c] = "done")

(* How a call of SGLang's is handled: it meets the method as it is now.    *)
Intercepted(m) == wrapped[pool][m] > 0

(* Defect: pools of the other class are not declined.                      *)
HandlesAny(m) == Intercepted(m) /\ hooks # NoHooks

Handles(m) == Intercepted(m) /\ hooks # NoHooks /\ pool = "MHA"
Raises(m) == Intercepted(m) /\ hooks = NoHooks

(* The encode kernel stores the scale of the i-th token of the call at     *)
(* scale_ptr + i, in a buffer of HeadNum entries per token; each token's   *)
(* slot then gets its row of that buffer.  Entries the kernel does not     *)
(* write are torch.empty's: NoScale, the scale of no token.                *)
ScaleRow(b, i) ==
    [j \in 1 .. HeadNum |->
        LET k == (i - 1) * HeadNum + j
        IN  IF k <= Len(b) THEN b[k] ELSE NoScale]

(* Defect: the decode kernel is off by one.                                *)
ScaleReadNext(b, l, i) ==
    host[b[((i \div HeadNum) % Len(b)) + 1]][l].scales[(i % HeadNum) + 1]

(* The decode kernel reads scale_ptr + i, of the rows laid end to end.     *)
ScaleRead(b, l, i) == host[b[((i - 1) \div HeadNum) + 1]][l].scales[((i - 1) % HeadNum) + 1]

(* demote_hook.  "Native copy for non-compressible layers" is made to the  *)
(* temporary that indexing with a tensor returns: the slot keeps what it   *)
(* held.                                                                   *)
Demoted(b, i, l) ==
    IF l \in Configured
    THEN [kind |-> "packed", own |-> device[b[i]][l], scales |-> ScaleRow(b, i)]
    ELSE StaleCell

NativeCell(t, l) == [kind |-> "native", own |-> device[t][l], scales |-> NoScales]

(* promote_hook, for one layer: does the i-th slot end up with its token?  *)
Promoted(b, i, l) ==
    IF l \in Configured
    THEN LET cell == host[b[i]][l]
         IN  cell.kind = "packed" /\ cell.own /\ ScaleRead(b, l, i) = b[i]
    ELSE FALSE

Copied(t, l) == host[t][l].kind = "native" /\ host[t][l].own

(* The load of a batch reads a token's slot otherwise than it was written: *)
(* a method was replaced in between; the slot is of a layer that the hooks *)
(* do not compress, and holds nothing of the token; or its scales lie as   *)
(* another batch had them.                                                 *)
ReadOtherwise(b, t, l) ==
    \/ host[t][l].kind = IF Handles("load") THEN "native" ELSE "packed"
    \/ host[t][l].kind = "stale" /\ l \notin Configured
    \/ Handles("load") /\ HeadNum # 1 /\ b \notin groups

-----------------------------------------------------------------------------
(* Prefill and decode write a token's KV into a slot of the device pool.   *)
Compute(t) ==
    /\ Serving
    /\ t \notin resident \cup backed
    /\ resident' = resident \cup {t}
    /\ device' = [device EXCEPT ![t] = [l \in Layer |-> TRUE]]
    /\ UNCHANGED <<patchVars, pool, backed, host, groups, mixed, loading, crashed>>

(* backup_from_device_all_layer.                                           *)
Backup(b) ==
    /\ Serving
    /\ Tokens(b) \subseteq resident \ backed
    /\ ~Raises("backup")
    /\ host' = [t \in Token |->
                    IF t \notin Tokens(b) THEN host[t]
                    ELSE [l \in Layer |-> IF Handles("backup") THEN Demoted(b, At(b, t), l)
                                          ELSE NativeCell(t, l)]]
    /\ backed' = backed \cup Tokens(b)
    /\ groups' = IF Handles("backup") THEN groups \cup {b} ELSE groups
    /\ UNCHANGED <<patchVars, pool, resident, device, mixed, loading, crashed>>

BackupRaises(b) ==
    /\ Serving
    /\ Tokens(b) \subseteq resident \ backed
    /\ Raises("backup")
    /\ crashed' = TRUE
    /\ UNCHANGED <<patchVars, pool, resident, device, backed, host, groups, mixed, loading>>

(* The device slot of a token that has been backed up is given away.       *)
Evict(t) ==
    /\ Serving
    /\ t \in resident \cap backed
    /\ resident' = resident \ {t}
    /\ device' = [device EXCEPT ![t] = [l \in Layer |-> FALSE]]
    /\ UNCHANGED <<patchVars, pool, backed, host, groups, mixed, loading, crashed>>

(* A prefix matches offloaded tokens: slots are allocated, for a batch that*)
(* need not be one that was backed up as such ...                          *)
StartLoad(b) ==
    /\ Serving
    /\ loading = Idle
    /\ Tokens(b) \subseteq backed \ resident
    /\ loading' = [batch |-> b, left |-> Layer]
    /\ UNCHANGED <<patchVars, pool, resident, device, backed, host, groups, mixed, crashed>>

(* ... and load_to_device_per_layer is called for one layer after another. *)
Loaded(l) ==
    LET b == loading.batch
    IN  [t \in Token |->
            IF t \notin Tokens(b) THEN device[t]
            ELSE [device[t] EXCEPT ![l] = IF Handles("load") THEN Promoted(b, At(b, t), l)
                                          ELSE Copied(t, l)]]

LoadLayer(l) ==
    /\ Serving
    /\ l \in loading.left
    /\ ~Raises("load")
    /\ device' = Loaded(l)
    /\ mixed' = mixed \cup {<<t, l>> : t \in {u \in Tokens(loading.batch) :
                                                ReadOtherwise(loading.batch, u, l)}}
    /\ IF loading.left = {l}
       THEN /\ resident' = resident \cup Tokens(loading.batch)
            /\ loading' = Idle
       ELSE /\ loading' = [loading EXCEPT !.left = @ \ {l}]
            /\ UNCHANGED resident
    /\ UNCHANGED <<patchVars, pool, backed, host, groups, crashed>>

LoadRaises(l) ==
    /\ Serving
    /\ l \in loading.left
    /\ Raises("load")
    /\ crashed' = TRUE
    /\ UNCHANGED <<patchVars, pool, resident, device, backed, host, groups, mixed, loading>>

(* A token leaves the host pool.                                           *)
Drop(t) ==
    /\ Serving
    /\ t \in backed \ Tokens(loading.batch)
    /\ backed' = backed \ {t}
    /\ host' = [host EXCEPT ![t] = [l \in Layer |-> StaleCell]]
    /\ groups' = {b \in groups : t \notin Tokens(b)}
    /\ mixed' = {p \in mixed : p[1] # t \/ t \in resident}
    /\ UNCHANGED <<patchVars, pool, resident, device, loading, crashed>>

Serve ==
    \/ \E t \in Token : Compute(t) \/ Evict(t) \/ Drop(t)
    \/ \E b \in Batch : Backup(b) \/ BackupRaises(b) \/ StartLoad(b)
    \/ \E l \in Layer : LoadLayer(l) \/ LoadRaises(l)

Next == Serve \/ \E c \in Caller : Patch(c)

Spec == Init /\ [][Next]_vars

(* Of the threads that can go on, one goes on.                             *)
FairSpec == Spec /\ WF_vars(\E c \in Caller : Patch(c))

-----------------------------------------------------------------------------
(* "SGLang's kv_cache tensor is always valid": what the attention kernel   *)
(* finds in the slots of a token is the token, wherever it has been.       *)
KvCacheValid == \A t \in resident, l \in Layer : device[t][l]

(* What can be wrong with a token, in a layer, is only that since it was   *)
(* computed it has been read otherwise than it was written; and this never *)
(* happens to a pool that the hooks decline, whenever it is patched and    *)
(* whatever hooks are set.                                                 *)
KvValidUnlessMixed ==
    \A t \in resident, l \in Layer : device[t][l] \/ (pool = "MHA" /\ <<t, l>> \in mixed)

(* However many threads patch, a method is wrapped once, and the flag says *)
(* so only when both are.                                                  *)
WrappedOnce ==
    \A k \in Class :
        /\ \A m \in Method : wrapped[k][m] <= 1
        /\ flag[k] => \A m \in Method : wrapped[k][m] = 1

(* Why: the thread that holds the lock is the only one past the check, and *)
(* how often a method is wrapped is told by the flag and by that thread.   *)
Inside(c) == pc[c] \in {"check", "load", "flag", "mla"}
Phase == IF lock = NoCaller THEN "free" ELSE pc[lock]
Times(b) == IF b THEN 1 ELSE 0

PatchInv ==
    /\ pc \in [Caller -> {"start", "import", "acquire", "check", "load", "flag", "mla", "done"}]
    /\ lock \in Caller \cup {NoCaller}
    /\ flag \in [Class -> BOOLEAN]
    /\ wrapped \in [Class -> [Method -> Nat]]
    /\ \A c \in Caller : Inside(c) <=> lock = c
    /\ wrapped["MHA"]["backup"] = Times(flag["MHA"] \/ Phase \in {"load", "flag"})
    /\ wrapped["MHA"]["load"] = Times(flag["MHA"] \/ Phase = "flag")
    /\ \A m \in Method : wrapped["MLA"][m] = Times(flag["MLA"])
    /\ flag["MLA"] => flag["MHA"]
    /\ Phase \in {"load", "flag"} => ~flag["MHA"]
    /\ Phase = "mla" => flag["MHA"] /\ ~flag["MLA"]

(* Why: what the host pool holds of a token that was never mixed is its    *)
(* own, in a form that some method writes, its scales where the kernel put *)
(* them that packed this batch, and a load in progress has restored the    *)
(* layers it has been through.                                             *)
Sound(t, l) == device[t][l] \/ <<t, l>> \in mixed

CellInv(t, l) ==
    LET cell == host[t][l]
    IN  /\ cell.kind \in {"native", "packed"} \/ (cell.kind = "stale" /\ l \notin Configured)
        /\ cell.kind # "stale" => cell.own \/ <<t, l>> \in mixed
        /\ cell.kind = "packed" =>
            l \in Configured /\ (HeadNum = 1 => cell.scales = [j \in 1 .. HeadNum |-> t])
        /\ pool = "MLA" => cell.kind = "native"

GroupInv(b) ==
    /\ Tokens(b) \subseteq backed
    /\ \A i \in DOMAIN b, l \in Configured :
            host[b[i]][l].kind = "packed" /\ host[b[i]][l].scales = ScaleRow(b, i)

KvInv ==
    /\ \A t \in backed, l \in Layer : CellInv(t, l)
    /\ \A b \in groups : GroupInv(b)
    /\ Tokens(loading.batch) \subseteq backed \ resident
    /\ \A t \in Tokens(loading.batch), l \in Layer \ loading.left : Sound(t, l)
    /\ \A t \in resident, l \in Layer : Sound(t, l)
    /\ pool = "MLA" => mixed = {}

(* No thread that patches is left waiting.                                 *)
PatchersFinish == <>(\A c \in Caller : pc[c] = "done")
=============================================================================
