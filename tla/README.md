# ASH-KV in TLA+

TLA+ modules, TLC configurations and TLAPS proofs about ASH-KV
(`src/ashkv`): a tiered KV cache that keeps pages of an LLM server in BF16,
compresses cold ones and moves them back, and that hooks itself into SGLang's
host pools. Paths below are relative to `src/`, `src/ashkv/` is written
`ashkv/`.

* [1. The system](#1-the-system)
* [2. Modules](#2-modules)
* [3. Runs](#3-runs)
* [4. Proofs](#4-proofs)
* [5. Where code and documents disagree](#5-where-code-and-documents-disagree)
* [6. What is not modelled](#6-what-is-not-modelled)
* [7. Plan](#7-plan)

To repeat a run: `tlc -workers 2 -config MCMigration.cfg MCMigration`. To
check the proofs of a module: `tlapm MigrationProofs.tla`.

## 1. The system

### 1.1 Components

| Component | State | Operations | Called by |
|---|---|---|---|
| Page table (`ashkv/contracts/page.py`) | array of rows, index from page id to row, next id, size | `add`, `remove`, getters, `apply_tier_transition`, `touch`, `pin`, `unpin`, `update_score_inputs`, `snapshot` | everything |
| Migration engine (`ashkv/runtime/migrate.py`) | none of its own; locals of one call | `migrate` | integration layer, once per page and decode step |
| BF16 recovery (`ashkv/safety/fallback.py`) | none | `handle_migration_failure`, `attempt_bf16_recovery` | integration layer, with the result of `migrate` |
| Circuit breakers (`ashkv/safety/circuit_breaker.py`) | per key: list of failure times, tripped or not, since when | `is_codec_available`, `record_codec_failure`, `record_codec_success`, `reset_all` | `migrate` |
| Score and controller (`ashkv/runtime/score.py`, `controller.py`, `ashkv/compiler/codec_resolver.py`, `runtime_builder.py`, `ashkv/contracts/config.py`) | none at run time; jump tables and thresholds bound at start-up | `score_fn`, `controller_fn` | integration layer, every decode step |
| HiCache hooks and patcher (`ashkv/adapters/sglang/hooks.py`, `patcher.py`, `sitecustomize.py`, kernels of `ashkv/codecs/int8.py`) | `_HOOKS`, `_PATCH_LOCK`, the methods of two SGLang classes and their flags | `apply_hicache_patches`, `demote_hook`, `promote_hook` | a background thread, the server script; SGLang |
| Allocators (`ashkv/runtime/allocator.py`, `ashkv/adapters/sglang/allocator.py`) | buffers by handle, bytes in use | `alloc`, `free`, `read`, `write`, `pressure` | `migrate`, recovery |
| Health and pressure (`ashkv/safety/health.py`, `pressure_guard.py`) | windows of results, set of tripped names | `record_*`, `compute_health`, `classify_pressure` | integration layer |
| Telemetry (`ashkv/telemetry/`) | counters behind a lock, an exporter | `record_*`, `snapshot`, `update` | hot path, scrape thread |
| Codecs, registry, hardware probe (`ashkv/codecs/`, `ashkv/compiler/registry.py`, `hardware_probe.py`) | none / start-up caches | `encode`, `decode`, `checksum` | `migrate` |

The *integration layer* — what scores pages, calls `migrate` for those not at
their target, calls the recovery on failures, pins pages in use, and knows
which buffer a page is in — is not in the repository (tests and the simulator
play its part). The models treat it as an external actor that does what the
signatures and docstrings allow.

### 1.2 How they interact

    SGLang pools          decode step (integration layer)
      |   ^                  |            |              |
    hooks (patched)      score_fn ->  controller_fn ->  migrate -> handle_migration_failure
                             |            |            |  |  |  \        |
                             +-- rows of the page table -+  |  |   +-----+-- allocator
                                                          |  +-- codec
                                                          +-- breaker registry

### 1.3 What is hard

* **Steps that interleave.** `migrate` reads tier and pin count, then makes up
  to eight calls before it commits; pages are pinned and removed in between.
  Patching is done by threads while the server uses what is patched, one
  attribute at a time.
* **Partial failure.** Each call of `migrate` and of the recovery may fail
  after the previous ones were done. Buffers have to be released on every
  path, the page left whole, the breaker told — or not told — and `free`
  failures are swallowed.
* **Stale state.** Rows move under compaction; the handle of a page changes
  with each move and is not part of the result; packed tokens carry scales by
  position, not by identity.
* **Edges.** Failure windows and cooldowns, thresholds that pressure shifts
  into each other, the index that grows, jump tables that skip tiers, offsets
  that a codec writes by and reads by.
* **Counts kept beside what they count.** The bytes in use beside the buffers,
  the gauges beside the pages, the last value seen beside the counter: each
  must survive resets, restarts, late reports and repeated calls.

`PROJECT.json` lists these hazards one by one, each at its line, with the
properties that cover it.

### 1.4 What makes it correct

* Page table: it is a map. Whatever is added, removed and compacted, an
  operation on a page reaches that page and no other.
* Migration and recovery: all or nothing; the bytes a page was registered with
  survive every failure; no call touches the buffer of another page, and none
  is forgotten; pinned pages stay.
* Breakers: they trip exactly when the transition has failed the threshold of
  times in the window, and come back after the cooldown.
* Controller: no page gets behind an empty slot; moves are gradual; pressure
  never makes a page hotter; a page whose score does not cross the dead band
  is not moved to and fro; cold pages sink and hot pages rise, as far as
  codecs keep their bytes.
* HiCache: methods are wrapped once, and what the attention kernel reads is
  what was computed, unless it was read otherwise than it was written.
* Allocators: a handle is never given out twice, and a request is refused
  only for want of room.
* Health and pressure: guard and controller mean the same by an emergency; a
  worse history gives a better verdict in one case and no other; what was bad
  is forgotten in time.
* Telemetry: gauges count pages, and no server ever reports more events than
  happened, nor fewer for ever.
* Codecs: what is decoded is what was encoded, each value in its place and as
  close as the format allows.

## 2. Modules

| Module | Models | Used by |
|---|---|---|
| `PageMap` | what the page table promises: a map from ids to metadata, at the level of the getters | `PageTable` (implements it), `Migration` (extends it) |
| `PageTable` | rows, index, growth, compaction | `MCPageTable` |
| `Breakers` | what `migrate` relies on of the registry: a set of tripped transitions | `CircuitBreaker` (implements it), `Migration` (uses it as specified) |
| `CircuitBreaker` | clocks, failure lists, window, cooldown | `MCCircuitBreaker` |
| `Migration` | `migrate` and recovery, with page map, allocator, codecs, breakers and integration layer | `MCMigration` |
| `Controller` | score, bands, jump tables, codec table, decode steps | `MCController` |
| `HiCache` | patching threads, wrapped methods, host and device pool | `MCHiCache` |
| `Memory` | what the allocator protocol promises: buffers, handles, room | `Allocator` (implements it) |
| `Allocator` | mock and shadow allocator, with their counters | `MCAllocator` |
| `Health` | pressure guard and health monitor | `MCHealth` |
| `Telemetry` | counters, and the exporter's thread | `MCTelemetry` |
| `Layout` | bytes, words, packed fields, rounding | `Codecs` |
| `Codecs` | what each codec encodes and decodes, and pages that are encoded again and again | `MCCodecs` |
| `PageTableProofs`, `MigrationProofs`, `CircuitBreakerProofs`, `HiCacheProofs`, `HealthProofs`, `TelemetryProofs`, `AllocatorProofs` | theorems about the module they extend | |
| `TierProofs` | theorems about `Codecs` and `Controller`: what a tier keeps of a page, and when a page is given it | |

The abstract modules are the seams: `Migration` is built on `PageMap` and
checked, and proved, to use the registry as `Breakers` says; the detailed
modules are shown to implement those, so that rows and clocks need not be
carried along where they do not matter.

Some modules hold definitions whose comment begins with "Defect". They are
wrong variants of the operator that follows, no action uses them, and they say
which mistake a property is there to exclude: `PROJECT.json` pairs each
property with one under which TLC finds it violated.

### 2.1 PageMap and PageTable

`arr`, `rowOf`, `indexLen`, `nextId`, `size` are `_arr`, `_page_to_row` (its
cells and its length), `_next_id` and `_size`. One action per method; those
that are no-ops on a missing id have the id's presence as guard (the no-op is a
stuttering step). `remove` swaps the last row into the gap and re-indexes the
page that moved, leaving the old last row's bytes as they are. The four score
inputs are one abstract value; layers, token ranges and times, which nothing
here depends on, are left out. `PageTable` sees `PageMap` through the mapping
`page <- [p |-> Lookup(p)]`, which is what the getters return.

### 2.2 Migration

`op` is the call in progress: its program counter and locals. Each call that
`migrate` makes into allocator, codec, lookup or table is one action, with the
early return it may lead to: `ReadSource`, `EncodeSource`, `AllocTarget`,
`WriteTarget`, `VerifyTarget` (decode, checksum, comparison), `Commit`,
`FreeSource`; the recovery is `Recover`, `RecoverAlloc`, `RecoverWrite`,
`RecoverCommit`, `RecoverFree`. Between any two of them `AddPage`,
`RemovePage`, `PinPage`, `UnpinPage` may happen: the comment at
`migrate.py:181` ("someone pinned it between our snapshot and commit") says
so. Two `migrate` calls do not overlap, as the hot path is one loop.

`Faults` says which calls may fail in a run. Contents are abstract: `Encode`,
`Decode`, `Checksum` are constants; in `MCMigration` bytes are a page's
original with a list of codecs applied on top, and a lossy codec yields
garbage. `home` and `owner` are history variables that say where the committed
bytes of a page are and for whom a buffer was allocated; the code has neither,
and no action reads them. `handleOf` is `page_handle_lookup`. No result names
the buffer a page has moved to, so the lookup learns of it only for pages that
the integration layer watches by means of its own (`Watched`: it may look into
the allocator, or wrap `alloc`); for the others it goes on naming the old
buffer, as the tests' `lambda pid: 1` does. To `Breakers` a call is `Pending`
from the moment the breaker is asked to that of its outcome.

### 2.3 CircuitBreaker and Breakers

Instead of time stamps the model keeps ages (what the code computes as
`now - t`), counted up to one past the cooldown, where nothing can tell them
apart any more; so time is unbounded and the state finite. The lists are in the
order of time, and `Prune`, which drops the ages past the window, keeps the end
of one, as long as the `Count` of what is inside. `Dispatch` and `Refuse` are
the two answers of `is_codec_available`, the first with the reset that the
reader performs when the cooldown is over. `CodecOf` says which codec serves a
transition; `resolve_codecs` gives both directions the same. `recent` is a
history variable: the failures of each transition in the last window, whatever
the breaker has made of them.

### 2.4 Controller

Scores, thresholds and pressure are integers in units of 1/10000.
`codec_config` is a `CodecConfig`, whose slots may be empty or name a codec
that nobody registered; `Served` is the codec table that `resolve_codecs`
builds, `NextColder` and `NextHotter` the jump tables of `compile_controller`,
`Desired` is `desired_tiers` for one page. A decode step is `Decide`, followed
for each page that is not at its target by `Moved`, `Kept` or `Recovered`, the
outcomes that `Migration` details. `Moved` needs a page whose buffer still
holds its BF16 bytes (`Plain`), since `migrate` encodes what the buffer holds
and compares with the checksum of those: so no page is promoted, or demoted a
second time, from a tier whose codec changes the bytes (section 5). Score
inputs and pressure change at any time. `last` is a history variable: the last
move of a page and the score it was made for.

### 2.5 HiCache

`Patch(c)` is `apply_hicache_patches` of thread `c`: `_HOOKS` is assigned
before the import and outside the lock, then the flag is checked and the
attributes are replaced one by one under the lock. SGLang's threads run
between those steps: they `Compute` tokens, `Backup` batches to the host pool,
`Evict`, `StartLoad` and `LoadLayer` by layer, `Drop`. A slot is named by the
token it belongs to; a host slot is native, packed (with the scales that lie in
its bytes, as token identities) or stale. `ScaleRow` and `ScaleRead` are the
address arithmetic of the two kernels: the encode kernel stores the scale of
the i-th token of the batch at `scale_ptr + i` of a buffer with `head_num`
entries per token, the decode kernel reads it from there. `pool` is the class
of the server's host pool, of which the hooks decline MLA. The history variable
`mixed` has the tokens that, since they were computed, were read otherwise than
they were written (`ReadOtherwise`): by the wrapped method what the native one
wrote or the other way round, in a layer that is not compressed, or with
several heads in another batch than they were packed in.

### 2.6 Memory and Allocator

`Memory` has no counter: what is in use is the sum of the buffers, and a
request is granted exactly when the rest has room for it. `Allocator` is both
implementations (`kind`), which differ in what they refuse (the mock requests
for no bytes), in what `write` does to the length of a buffer, and in the share
per tier that only the mock keeps. `used` and `share` are their counters;
`issued`, the handles given out since the last `reset()`, is a history
variable. `Free(h)` and `Write(h, n)` are called with any handle at any time:
one that was freed, or never given out, changes nothing. `Preload(h, n, t)`
may name a handle in use: the new buffer takes the place of the old, whose bytes
stay counted (`overwritten`; `wasted` in `Memory`).

### 2.7 Health

`RecordPressure` is a decode step's `classify_pressure` and `record_pressure`,
`RecordMigration`, `RecordFallback`, `RecordTrippedBreaker` and `Reset` are the
other operations; `Health` is `compute_health` as a function of what it looks
at, so that verdicts on two histories can be compared. The three predicates of
the guard are operators of the same names. `okRun` and `calmRun` are history
variables: for how many records everything was well.

### 2.8 Telemetry

The counters have a lock, so `Record`, `RecordTierChange` and `Reset` are one
step each. `update()` of the exporter has none: `BeginUpdate` takes the
snapshot and `WriteMetric` writes one metric of it; in between the loop counts
on, the counters are reset, the exporter is stopped and started on another
port, or the client library raises (`UpdateRaises`). A registry is named by the
port that serves it, as `stop()` leaves the server running, with its metrics.
`reports` are tier changes the integration layer has made and not recorded yet.
`happened` and `seen` are history variables.

### 2.9 Layout and Codecs

A page is encoded, decoded and encoded again with other noise (`Encode`,
`Decode`, `Again`; `Raise` where the code raises). `Layout` has bytes as cells
that know of which word they are a part: a read at a wrong offset or size is
garbage, as in `struct.unpack_from`. The values of a page are integers; scales
and decoded values are integers too, in units of 1 / `Fine`, to which the casts
to bfloat16 round as the format does (`Bfloat`: 8 significant bits, to the
nearest, of two to the even one), and to whole units where the format is finer
than that. The cast to E4M3 keeps 4 bits and at least the smallest subnormal
(2^-9). The dither is any noise of its range: each value is rounded up or down
as `Noise` says. The positions of outliers are a sequence (`Ascending`).

## 3. Runs

| Run | Question | States | Shows |
|---|---|---|---|
| `page_table` | is the array with its index a map? | 28 321 | index and rows agree (`TableInv`); what is removed stays away (`GoneForGood`); a batch of score inputs reaches its pages and no other; `PageTable => PageMap` |
| `migration` | do bytes, buffers, pins and breakers survive a failure of any step? | 214 673 | two pages, three tiers, every fault but those of the lookup; of the two pages the lookup follows one: `BytesIntact`, `AllOrNothing`, `PinnedNotMoved`, `NoForeignBuffer` for both, `NoOrphanBuffer` for the one that is followed; each call returns; breakers are used as `Breakers` says and charged for what the codec did, or a stale lookup made it encode (`ChargedFairly`) |
| `migration_promotion` | does a healthy codec verify on the way up? | violated | see section 5 |
| `breaker` | do breakers trip when they should, only then, and end? | 3 696 | one codec for both transitions; threshold 3, window 2, cooldown 2, failures at any spacing; refines `Breakers` |
| `breaker_shared` | is a codec that fails in whichever transition disabled? | violated | see section 5 |
| `controller` | is the policy gradual, monotone, with a dead band, and live, whatever slots are filled? | 39 536 | 32 configurations: each GPU slot empty, automatic, filled with the identity or with a name nobody registered; scores 0, 2500, 3000, 4400, 7000, 7600, 10000 lie on both sides of each edge; pressures below, at and above the emergency threshold and at the cap |
| `hicache` | is a token right unless it was read otherwise than it was written? | 684 209 | either class of pool, two heads, one layer of two compressed, any batches, patched while serving by three threads of which one takes the hooks away: `KvValidUnlessMixed`, `WrappedOnce`; every thread finishes |
| `hicache_regroup` | and with every layer compressed, patched before it serves? | violated | see section 5 |
| `health` | do guard and controller agree, is the verdict monotone, and does it recover? | 598 950 | `GuardAgreesWithController` for thresholds in the ELEVATED band and above; `WorseNeverHelps`: a more severe result, one more breaker or a worse pressure is good news in the one case it names; `RecoversInTime` |
| `telemetry` | is what is served what happened? | 71 176 | two ports; `GaugesCountPages` however late changes are recorded, `NeverAhead` whatever is reset or restarted during an update, `CatchesUp` |
| `allocator` | are the counters the sums they stand for? | 227 108 | `UsedIsSum`, `TierShares`; both kinds implement `Memory`, with double frees, unknown handles, writes of another length and preloads over a buffer |
| `codecs` | does what is encoded come back? | 41 848 | dithered codecs, INT4 and FP8: every value in its place and within its step and the casts; INT4 and FP8 are stable when repeated |

### 3.1 Bounds, and why they are enough

* `page_table`: two rows and three ids, so that a removed row is or is not the
  last one, ids outnumber rows, and an index that starts with one cell is
  grown twice. One pin, one access (`MaxPins`, `MaxAccesses`) distinguish
  "none" from "some". The theorems cover tables of every size.
* `migration`: two pages, so that one is moved while the other is added, pinned
  and removed; three handles for them, so that one of the two can be moved or
  recovered, and running out of handles is the failing `alloc`. The lookup
  follows page 1 and not page 0 (`Watched`), so that the calls of both
  interleave. BF16 and FP8 have the identity between them, with which a
  promotion verifies; INT4 has a codec with which it does not.
* `breaker`: a threshold of 3 in a window of 2 ticks lets failures lie inside,
  at the edge of and outside the window. Ages stop at cooldown + 1. Two
  transitions of one codec are what `resolve_codecs` makes of a slot.
* `controller`: one page. The policy is element-wise, pages do not influence
  each other except through `pressure`, which changes freely. The colder slots
  are both filled or both empty, as the policy never asks for their tiers.
* `hicache`: two tokens with two heads make the batches, in each order, in which
  a scale ends up in another token's row; two layers, of which the hooks
  compress one, so that a load is interrupted between layers and pools mix.
  Tokens are symmetric in the run without liveness.
* `health`: windows of four, full after four records, and a sample of three
  that is reached before. With so few records the rates are 50, 75 and 25
  percent, so that each is met and missed by one record. `p_emergency` below,
  inside and above the ELEVATED band; pressures inside each band, and NaN.
* `telemetry`: two ports, so that the exporter moves to a fresh registry while
  an update is under way; three events of a name (`MaxCount`), of which an
  update can miss some; two tier changes not recorded yet (`MaxReports`); one
  reset. One page: pages disturb each other only through the gauges, for which
  the theorem covers any number.
* `allocator`: requests of 0, 1 and 3 bytes in budgets of 1 and 2: nothing,
  what fits and what does not. Three handles, one write of another length
  between two resets (`MaxResizes`) and one byte preloaded over
  (`MaxOverwritten`).
* `codecs`: tokens of one and of two groups of three, groups with no outlier,
  with one, and with a value at the very edge of being one; pages that fill a
  group, a token, a byte and pages that do not. Values are multiples of 1024 and
  `Fine` is 16, so that both casts round: with 8 bits a step is 514 units, and
  the results are rounded to multiples of 256 and 512. FP8 has the numbers of
  bfloat16 at and beside the numbers of E4M3 and the middles between them, from a
  sixteenth of the smallest subnormal to beyond the largest number.

### 3.2 Fairness, and why the code justifies it

* `Migration`: weak fairness of `MigrateStep` and of `RecoverStep`. Nothing in
  them waits for anything: a call that has begun runs to its end. Beginning a
  call, and the environment, are not fair.
* `CircuitBreaker`: time goes on; a call that was let through ends; and a
  transition that is again and again let through if asked is asked, as the
  controller asks in every decode step (strong fairness, since between two
  asks the one breaker slot may be taken by another call).
* `Controller`: decode steps go on and their moves are made (weak); a page
  asked again and again to leave a tier through a codec that returns the bytes
  it is given succeeds some time (strong): what stands in its way, a pin, a
  full allocator, a tripped breaker, does not last. Nothing is assumed of other
  codecs, whose verification fails on the same page every time.
* `HiCache`: of the threads that can go on one goes on (weak). The lock is
  always released, so this is enough for all of them.
* `Telemetry`: `update()` is called again and again, on every scrape interval
  (weak); not every call of it raises before it gets to a given metric (strong,
  per metric): otherwise that metric would never be written.

`CHECK_DEADLOCK FALSE` only in `MCHiCache.cfg`, where the run includes a
server that has crashed: it stops.

## 4. Proofs

TLC checks the instances above; these hold for every value of the constants
that satisfies the assumptions (`PageMapAssumption`, `PageTableAssumption`,
`MigrationAssumption`, `BreakerAssumption`, `ControllerAssumption`,
`HiCacheAssumption`, `HealthAssumption`, `TelemetryAssumption`,
`AllocatorAssumption`, `CodecsAssumption`, which TLC evaluates in the runs).

Some theorems assume more, because the property is false without it:

* `NoBufferForgotten`: the recovery is given a lookup that can be called
  (`Tracked`). The property itself is about pages whose moves are found out
  (`Watched`): no result of `migrate` carries the new handle, so that of another
  page the buffer is orphaned (section 5).
* `BytesStayIntact`: no caller hands the recovery wrong bytes, as it commits
  them unverified (section 5).
* `ChargesAreFair`: the same (`"source" \notin Faults`), and `FormsFit`: there
  are forms in which a page may lie at each tier, such that the codecs of the
  table verify on those at BF16, lead from form to form when they verify, and
  such that a loss is noticed. A codec with a round trip that changes the
  checksum is charged for it, healthy or not. `ThreeForms` in `MCMigration` are
  such forms of the instance, which TLC verifies by an `ASSUME`: the theorem
  speaks about the system of the run.

The theorems about breakers, controller, HiCache, health, allocators and codecs
need nothing beyond the assumptions of the constants: any assignment of codecs
to transitions, any configuration of the slots, any pool, heads, layers and
threads, and any preload.

| Theorem | States |
|---|---|
| `PageTableProofs!TableCorrect`, `IndexAlwaysConsistent` | index and rows agree for every capacity and index length |
| `PageTableProofs!TableImplementsMap` | the table is a map: `PageTable` refines `PageMap` |
| `PageTableProofs!AnchorsAreImmutable`, `PinnedPagesKeepTier` | the checksum of a page never changes, nor does the tier of a pinned one |
| `PageTableProofs!IdsAreNotRecycled`, `BatchesReachTheirPages` | an id that was removed never comes back; a batch reaches its pages |
| `MigrationProofs!MigrationCorrect`, `MigrationTyped` | the invariant of the protocol |
| `MigrationProofs!BytesStayIntact` | no bytes are lost, if the recovery's source is the true one |
| `MigrationProofs!MigrationAtomic`, `AbortsRelease` | all or nothing; an aborted call holds no buffer |
| `MigrationProofs!PinnedPagesStay` | pinned pages are not moved |
| `MigrationProofs!BuffersAccountedFor`, `NoBufferForgotten` | no orphans of watched pages, with a lookup that can be called |
| `MigrationProofs!CallsKeepToTheirPage` | however stale the lookup, no call reads, writes or frees a buffer of another page |
| `MigrationProofs!BreakersUsedAsSpecified` | `Migration` refines `Breakers`: no outcome without a question |
| `MigrationProofs!ChargesAreFair` | a breaker on the way down from BF16 is charged only for a faulty codec, a page removed meanwhile, or what a stale lookup made it encode |
| `CircuitBreakerProofs!RegistryImplementsBreakers` | the registry refines `Breakers` |
| `CircuitBreakerProofs!BreakersCorrect`, `FailuresStayBounded` | lists are in the order of time and never longer than the threshold |
| `CircuitBreakerProofs!TripsAreJustified` | no breaker trips on fewer failures of its transition within the window than the threshold |
| `CircuitBreakerProofs!FailingTransitionsAreDisabled` | a transition is not dispatched after that many, and no other transition of its codec has had more: so a codec of n transitions is dispatched after at most n * Threshold - 1 |
| `TierProofs!PolicyCorrect`, `ControllerTyped` | the invariant of the policy |
| `TierProofs!MovesAreGradual`, `PagesStayOnGpu` | neighbouring tiers only, and none below INT4, whatever codecs are configured |
| `TierProofs!HysteresisHolds` | between a demotion and a promotion the score crosses `Band` |
| `TierProofs!PressureIsMonotone` | more pressure never makes a target hotter |
| `TierProofs!EmptySlotsStayUnreachable` | under every configuration, a page is at a tier only if every slot on the way has a codec, and what is asked for in vain lies behind one that has none |
| `TierProofs!CodecsCorrect` | what the decoder is given is what the encoder made of the page |
| `TierProofs!DitheredPagesStayInPlace` | for any page, group size, sigma, number of outliers and noise: outliers exactly and in place, the rest within a step of their own group's scale and what the casts take |
| `TierProofs!INT4PagesStayInPlace` | for any page and group size: within half a step and what the cast takes, the largest value of a group exactly |
| `TierProofs!RequantizingLosesNothing` | INT4 and FP8 take nothing more from a page they have given back |
| `TierProofs!FP8IsClose` | within a sixteenth up to 464, or half of the smallest subnormal, NaN exactly beyond |
| `HiCacheProofs!PatchInvariant`, `PatchedOnce` | any number of threads wraps a method once |
| `HiCacheProofs!HostPoolSound`, `KvStaysValid` | for any pool, heads, layers, batches and threads, and whenever methods are replaced: a token is right unless it was read otherwise than it was written, and always where the hooks decline the pool |
| `HiCacheProofs!HiCacheTyped` | types |
| `HealthProofs!Windows`, `Recovers` | windows end in the runs; a window of good results clears the verdict |
| `HealthProofs!GuardAgrees` | guard and controller agree for every pressure and threshold in the bands |
| `HealthProofs!Evidence` | no drain and no restart on less than a sample's share of bad results |
| `HealthProofs!MonotoneVerdict` | a more severe result, a breaker or a worse pressure never improves the verdict, for windows of every length; the exception is the one failure that just makes the rate |
| `TelemetryProofs!TelemetryInvariant`, `NoPortIsAhead` | no port serves more than happened, for any metrics, ports and resets |
| `TelemetryProofs!GaugesAreRight` | gauges count pages, for any pages, tiers and number of late reports |
| `AllocatorProofs!AllocatorCorrect`, `UsedIsWhatIsHeld` | the bytes in use are the sum of the buffers and of those preloaded over, whatever is freed twice, written or reset |
| `AllocatorProofs!SharesAreHeld` | the mock's share of a tier is what its buffers take, until a write of another length or a preload over bytes |
| `AllocatorProofs!AllocatorImplementsMemory` | both allocators refine `Memory`: new handles only, and a refusal only for want of room |

`MigrationProofs` begins with lemmas on the page map: what each operation does
to presence, to the count and to the other pages. Properties in this table that
no run lists (`IndexConsistent`, `AnchorImmutable`, `PinnedKeepsTier`,
`MigrationInv`, `OrphanInv`, `AbortReleasesTarget`, `PolicyInv`, `StaysOnGpu`,
`PatchInv`, `HealthInv`, `KvInv`, `EnoughEvidence`, `TelemetryInv`,
`AllocatorInv`, `CodecInv`, `FormInv` and the type invariants) are the
inductive invariants behind those that are checked, or follow from the same
ones.

### 4.1 The arguments

* **Page table.** `IndexConsistent` says that index and rows agree in both
  directions. It is not inductive: `add` writes the index at an id that must
  not be in use and past the cells that exist, so `IndexFresh` is added (ids
  not handed out are not indexed; cells that do not exist yet are empty).
  `TableInv` is their conjunction with `TypeOK`. The case that needs work is
  `remove`, where the last row moves: the page that moved, the page removed and
  all others are three cases. The refinement follows action by action: under
  `TableInv`, `Lookup` of every page but the one named is unchanged.
* **Migration.** `BytesIntact` alone is not inductive: `FreeSource` would
  destroy the bytes if the buffer it frees were the one just committed, or
  another page's. `MigrationInv` says who owns what: handles past the next one
  are fresh (`Fresh`), a handle known for a page was allocated for that page
  (`Owned`), anchors are the checksums of the originals (`Anchored`), and at
  each step of a call the target is allocated, holds what was written, differs
  from the source and from the page's home (`CallInv`, `PageInv`). Each action
  is one step of the proof. `NoBufferForgotten` adds `OrphanInv`: every
  allocated buffer of a watched page is known to the lookup, or is the target
  in progress, or `free` failed on it; and the buffer a call frees is the one
  the lookup is about to forget. `CallsKeepToTheirPage` is `Owned` before and
  after a step: the only handles a call has are those of its page, the stale
  ones included, because no handle is given out twice. `PinnedPagesStay` is an
  action property from the guard of the commit: only `Commit` and
  `RecoverCommit` change tiers. The refinement of `Breakers` maps the program
  counter to what is pending: `Start` asks, `FreeSource` and the failures of
  the codec answer, the other aborts give up, and what is pending is never
  tripped. `ChargesAreFair` follows the bytes: watched pages lie at their tiers
  in a proper form (`FormsHeld`), and what a call has read or encoded is made
  of one or marked as faulty (`FormInv`). A verification that fails then has a
  fault, a page that is gone, or a page that was not at BF16 to blame. The
  recovery keeps the forms only because its source is right and the lookup
  names the page's home (`LookupInv`).
* **Breakers.** The refinement `tripped <- {k : breaker[k].tripped}` needs
  that what has been let through is not tripped (`RegistryInv`), since a
  failure may then only add it. The rest is about windows: because lists are
  in the order of time (`Chronological`), pruning keeps the end, and a list is
  as good as its counts for every window. A breaker has counted no failure its
  transition did not have (`Charged`), so a trip is justified, and all of those
  it had in the window (`Informed`), so a failing transition is disabled. That
  a failing *codec* is disabled does not follow, and is false: section 5.
* **Controller.** `PolicyInv` remembers what a move was asked for: a page to be
  moved was beyond its threshold, and so was the score of its last move. The
  bounds of `Boost` then give the width of the band for all pressures. That
  jump tables move by one tier between BF16 and INT4 follows from what
  `resolve_codecs` can register, slot by slot; a move to a neighbour has a codec
  exactly if the slot between them has, so that pages never get past an empty
  one.
* **HiCache.** `PatchInv`: who holds the lock is the only one past the check,
  and flag and phase determine how often each method is wrapped. `KvInv` says
  of every token in the host pool that it is its own, in a form that some
  method writes, or mixed (`CellInv`), and of every batch that was packed and is
  still there that its scales lie as the packing kernel laid them (`GroupInv`).
  The address arithmetic of the other kernel then finds each of them, if in the
  row of another token: with one head in any batch, and otherwise in the batch
  they were packed in. What is read is therefore right, or `ReadOtherwise` holds
  and the load enters it into `mixed`. Nothing is assumed of when methods are
  replaced: a load that meets another method than the backup did is just that
  case. For a pool that the hooks decline `KvInv` includes that nothing is mixed.
* **Health.** `HealthInv`: the last entries of a window are those of the run,
  wherever the window has moved to; a run as long as the window is all of it.
  Monotony is a lemma for each part of the verdict: an entry that is replaced
  changes a number of occurrences by at most one, and in one direction; only
  that of FAILURE goes down, when a failure is replaced, and matters only where
  it was just enough (`JustReached`).
* **Telemetry.** `NeverAhead` alone is not inductive, as an update in progress
  is about to add to what is served. `Behind` bounds what is served *plus what
  would be added now* by what happened, and `Snapshot` does the same at the
  moment the snapshot was taken; a reset only lowers the counters, and a late
  write finds `last` at or past the snapshot. For the gauges, `Leads` says that
  the reports still to be recorded lead from the tiers last recorded to those
  the pages are in: so the gauge a report decrements counts the page and is not
  zero, and the clamp of `_decrement_tier` swallows nothing.
* **Allocators.** The sum over buffers is a fold, about which nothing can be
  proved by induction. `Counts` says instead that every buffer's bytes are a
  set of its own of that size: the number of all of them is the sum, since
  cardinality adds up where sets are disjoint, and a fold that differed would
  differ first on some smallest set of buffers. `AllocatorInv` has both counters
  and that handles in use have been issued and those issued lie below the next;
  the refinement then needs only that the room is `budget - used`, `used` being
  that sum and what preloads have replaced.
* **Codecs.** A stream is one list joined of parts, each found again at its
  offset (`Layout`'s words by their size, packed states by their byte), which
  holds for any lengths of the parts before it. An outlier is found by its
  index, which `Ascending` lists once; everything else is a state of a group
  whose scale bounds all its inliers, so rounding up or down by less than a
  step stays within one. A cast changes a number by a 256th of it or half a unit,
  and that of the scale is multiplied by the state: together they may take a
  127th of the largest value of the group (`DitheredError`), which with 8 bits is
  more than the step. INT4's scale is a value of the page and needs no rounding,
  and the largest value of a group comes back exactly: so a second pass finds
  the same scale, and thereby the same states. FP8 goes through the steps of
  E4M3, where a rounded number is a multiple of a step not smaller than its
  own. `CodecInv` carries the operator lemmas to the
  specification: whatever is decoded is `Decoded(Encoded(source, down))` for
  some noise.

Where a smallest counterexample is taken, it stands for an induction: of the
sets, or numbers, on which a claim fails, one has no smaller one, and the step
from the smaller to it is what the proof shows.

### 4.2 Only model-checked

Liveness, which is out of the prover's reach, as is `ENABLED`: `CallReturns`
(every call of `migrate` ends), `TripEnds` (a breaker comes back),
`PagesFollowScores`, `PatchersFinish` and `CatchesUp`. All other properties of
the passing runs are theorems, under the assumptions above.

## 5. Where code and documents disagree

Three are runs that are violated, with the quotation in `PROJECT.json`.

* **Promotion** (`migration_promotion`). `migrate` encodes and decodes in both
  directions. A promotion encodes bytes that are encoded already; decoding
  undoes one of the two, and the checksum is that of encoded bytes: CORRUPT,
  with a healthy codec. Only the identity codecs, with which the tests
  migrate, can be promoted. A demotion from a tier whose codec changes the bytes
  fails in the same way, so a page that stays cold goes from BF16 to the first
  such tier and, by way of the recovery, back to BF16, again and again; a hot
  one gets back to BF16 only by failing. Hence the two conditions in
  `PagesFollowScores`.
* **One codec, several breakers** (`breaker_shared`). Breakers are keyed by
  transition (`migrate.py:121`), and one codec serves both directions of a
  slot, or four transitions (`codec_resolver.py:65-67`, `78-83`). What
  `README.md:69` promises of a codec, and `circuit_breaker.py:102` of the key, is
  true of a transition only: `FailingTransitionDisabled` has that, with the
  bound on a codec that follows from it.
* **Scales by position** (`hicache_regroup`). With more than one head the
  scale of a token lies in another token's slot. A batch that comes back whole
  and in order is decoded right; any other is not.

Read off the code while modelling it, and not run:

Migration, recovery, breakers
* The recovery writes and commits the source it is given without verifying it
  (`fallback.py:139`), although `fallback.py:56-57` says so.
* `attempt_bf16_recovery` calls the lookup (line 81) and treats it as a dict
  (line 149). A dict cannot be called; the old buffer is not freed.
* After a FAILURE of a codec the recovery moves the page to BF16, where the
  ladder at `fallback.py:11` says it stays on its tier.
* No result names the new buffer of a page. A lookup that does not find it out
  (a page outside of `Watched`) goes on naming the old one, which is freed: the
  next migration reads `b""`, comes back CORRUPT and charges the breaker of a
  healthy codec, and the buffer the page is in is never freed, not even by the
  recovery. It does not reach another page's buffer (`NoForeignBuffer`), and the
  bytes themselves are safe (`BytesIntact`).
* A page removed during verification has the checksum 0: the result is CORRUPT
  and the breaker of a healthy codec is charged (the exception in
  `ChargedFairly`).

Controller
* `config.example.yaml:19` demotes in an emergency "regardless of score";
  pressure raises the demotion threshold by at most 0.15
  (`controller.py:100`).
* A slot without a codec ("tier is unreachable", `codec_resolver.py:32`) leaves
  the default jump in place, so the controller asks for a tier that `migrate`
  then answers SKIPPED for, at every step. The tier stays unreachable, and so do
  all behind it (`EmptySlotsUnreachable`): also with an INT4 codec, a page does
  not get there while the slot before it is empty.
* Thresholds that are close together are accepted, and pressure can then push
  the demotion threshold above the promotion threshold.
* `controller.py:11` says "INT4 (or colder, if pressure forces)"; the mask at
  line 101 stops at INT4.

HiCache
* Layers that are not compressed are copied to a temporary
  (`x[indices].copy_`) on the load side. No constructor argument selects such
  layers today.
* A token backed up natively before the patch is decoded as packed after it.
* `apply_hicache_patches(None)` after a patch leaves methods that raise.

Health and pressure
* With no migrations recorded the verdict is HEALTHY whatever breakers and
  pressures say (`health.py:75`); rule 3 of the docstring (lines 68-71) does
  not depend on migrations.
* Rates are compared with `>=` (lines 87, 91), the docstring says `>`.
* A breaker recorded as tripped is never taken out of the set but by `reset`;
  `window_size` is ignored; fallbacks are recorded and never read.
* CORRUPT or FALLBACK in place of FAILURE can improve the verdict, since the
  rule for failures counts neither, although `results.py:22` has the statuses
  "Ordered by severity": of a hundred results 25 failures are UNHEALTHY, 24 and
  a corruption are not. It is the exception that `WorseNeverHelps` names.
* With `p_emergency` below 0.85, which the configuration allows, a pressure in
  an emergency is classified NORMAL.

Telemetry
* `PrometheusExporter.start` says it returns False when started already, and
  returns True.
* The server is not stopped by `stop()`: a restart on the same port fails.
* After a `reset` of the counters the exporter waits until they pass the last
  value it saw (`prometheus.py:137`): the events in between are never served.
  The gauges, reset to zero with pages in the table, are wrong from then on.
* There is no operation for pages that come or go: tier changes from and to a
  tier no branch knows stand in for it. `bf16_recoveries`, `pages_quarantined`
  and `breakers_tripped` are never incremented.

Allocators
* A write of another length changes the bytes in use but not the share of the
  tier (`allocator.py:83`), which is wrong for good and may become negative.
* A preload at a handle in use adds the new length without taking away the old
  (`allocator.py:116-125`): the bytes in use are too many until `reset()`.
* The shadow allocator grants requests for no bytes, and raises for negative
  sizes, for CUDA out of memory and for data longer than the buffer; the
  protocol says it does not raise. With a budget of 0 the mock's pressure is
  1.0 and the shadow's 0.0.

Codecs
* The docstrings of FP8 and INT8 claim that the checksum survives a round
  trip: it does not.
* The mocks, which are not modelled: the round trip of `MockFP8Codec` is not
  "perfect" (`mock.py:40`), as it drops every second byte; and `MockCorruptCodec`,
  which "always produces wrong checksum" (`mock.py:12`), undoes its inversion in
  `decode`, so that every page verifies.
* With 8 bits the dithered codec may be off by more than a step: it computes
  states with the exact scale and decodes with the one cast to bfloat16.
* `INT8Codec.encode` raises on every page with a whole token, as numpy has no
  bfloat16 to convert it to.
* `int4.py:26` documents a header of one word, the code writes two. `decode`
  returns the padded length.
* Tokens that are not whole at the end of a page are dropped by the dithered
  codecs.

## 6. What is not modelled

* `float32` rounding in score, thresholds and within the codecs, whose casts to
  bfloat16 and E4M3 are modelled; the clamp of scales at 1e-8, decoded values
  past 2^22 units (of 1 / `Fine`), bfloat16 numbers finer than 1 / `Fine`, and GPU
  kernels other than their addresses (`HiCache`). Checksums are equal when the
  bytes are.
* Pages of half a value: `torch.frombuffer` raises on an odd number of bytes, and
  `migrate` returns FAILURE, as for any codec that raises (`Migration`).
* The mock codecs, which are test doubles.
* `INT2Codec` seeds its noise, so that it is the same every time: the model
  lets it be any, which only allows more.
* The contents of buffers in `Allocator`, `pressure()`, `get_utilization()`
  and `HealthMonitor.stats()`: functions of the state that change nothing.
  What the shadow raises changes nothing either.
* The metrics the exporter sets to a gauge's value, and the text it serves.
* `compile_telemetry`, `compile_migrate` (the identity) and the validation of
  a configuration: the configurations of the model are legal.
* Registry, hardware probe, kernel warm-up, layer filter: start-up code whose
  results are constants here.
* Simulator and server scripts: drivers of experiments on a GPU.
* `print`, logs, and the counters the hooks write to a file.
* The K and V buffers are treated alike by the code and are one here.
* Overlapping `migrate` calls: the engine has no protection against them and
  its documentation has one caller.

## 7. Plan

Done, in the order of importance: `PageMap`/`PageTable`, `Migration`,
`Breakers`/`CircuitBreaker`, `Controller`, `HiCache`, `Health`, `Telemetry`,
`Memory`/`Allocator`, `Layout`/`Codecs`, and the proofs above.

Next:

1. `DecodeStep`: snapshot, targets and migrations of a whole step over the page
   map, with pages removed and added after the snapshot. Abstract
   specification: each page is treated as if it were alone.
2. The layer filter, as a function of the model's configuration.
3. An abstract move, in which a page changes tier, bytes and buffer at once or
   not at all, and a proof that `Migration` implements it.
