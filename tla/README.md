# A verification of PegaInfer in TLA+

PegaInfer serves language models from Rust and CUDA. Each model crate has its
own scheduler and kernels; serving and the management of the K/V cache are
shared. What is hard to test in it is bookkeeping under concurrency: who may
write a page of K/V memory and who may still read it, what is promised to an
admitted request, who owes a client an answer, and how ranks that step on
their own meet for one launch. That is what this project models.

## The system

| part | source | role |
|---|---|---|
| block store and guards | `kvbm/kvbm-logical/src/pools/store.rs`, `blocks/*` | one mutex over the slots of all blocks; RAII guards drive every transition |
| inactive-pool backends | `pools/inactive/backends/*`, `tinylfu.rs` | which cached block is evicted first |
| block registry | `registry/*` | sequence hash -> weak registration handle; presence markers, attachments |
| cache events | `events/*` | Create/Remove over a broadcast channel, batched and published to a hub |
| request KV lifecycle | `integrations/{scheduled,request}.rs`, `sequence/assignments/logical.rs`, `pegainfer-kv-cache/src/{pool,view}.rs` | schedule / forward / apply / revert of one request |
| page budget | `pegainfer-kv-store/src/pool.rs` | lifetime entitlements of admitted requests, the reserve gate |
| KV store | `pegainfer-kv-store/src/{store,tier,policy}.rs` | prefix resolution over a host tier, saves, handoffs |
| KV offload | `pegainfer-kv-offload/src/*` | asynchronous save, query and load |
| GLM5.2 admission | `pegainfer-glm52/src/scheduler/admission.rs` | the queue of a rank over its page budget |
| engine contract | `pegainfer-frontend/src/engine/*` | request ledger, driver loop, wiring |
| front-end bridge | `pegainfer-frontend/src/vllm/*` | requests and outputs of the OpenAI server |
| K3 gang board | `pegainfer-k3/src/scheduler/gang.rs` | long prefills shared by the ranks of one process |
| K3 whale rendezvous | `pegainfer-k3/src/scheduler/whale*.rs` | ranks of several processes agree on the launch of a long prefill |
| K3 scheduler | `pegainfer-k3/src/scheduler/mod.rs` | one thread per rank: gang, whale lane, admission, decode |
| other model schedulers | `pegainfer-{qwen3,qwen35,kimi-k2,deepseek-v2-lite,gemma4}` | admission, chunked prefill, decode, speculation |
| kernels, sampling, weights | `pegainfer-kernels`, `-core`, `-sample` | device code |

A scheduler owns the requests. It calls the request lifecycle, which takes
blocks from the store and registers the full ones; the store keeps a
registration handle for each cached hash; a handle sends Create when it is
registered and Remove when it goes. Under the GLM5.2 scheduler a pool adds a
page budget and the store a host tier. Towards the client every scheduler of
the new contract writes to a request ledger, which the driver commits to the
step stream after each step. `PROJECT.json` has the complete inventory,
the hazards, and the lines behind each definition.

## Modules

| module | models | used by |
|---|---|---|
| `BlockOwnership` | what the pool promises: one writer, no writing under a reader, stable content | refinement target |
| `BlockStore` | the store mutex and the guards | `MCBlockStore`, proofs |
| `BlockStoreProofs` | the inductive invariant, and one lemma per action that keeps it; each action seen as an action of `BlockOwnership`; the theorems: invariants, and `BlockStore` implements `BlockOwnership` | TLAPS |
| `BlockRegistry` | registry and event emission | TLC, proofs |
| `BlockRegistryProofs` | exactness of the index, balance of the events | TLAPS |
| `EventBatcher` | channel, batcher, publisher, hub | TLC, proofs |
| `EventBatcherProofs` | the hub follows the events | TLAPS |
| `SchedulableSequence` | requests over a shared prefix cache | `MCSchedulableSequence`, proofs |
| `SchedulableSequenceInvariant` | the inductive invariant; lemmas about one request, shared pages and K/V rows | TLAPS |
| `SchedulableSequenceProofs` | each method keeps the invariant; the theorems | TLAPS |
| `EntitlementLedger` | the page budget of a pool | `Glm52Admission` |
| `Glm52Admission` | the admission queue, over `EntitlementLedger` | `MCGlm52Admission` |
| `KvStore` | resolve, save, retire and teardown over the tier | `MCKvStore`, proofs |
| `KvStoreProofs` | copies, handoffs, teardown and the pinned counter | TLAPS |
| `EngineContract` | bridge, step stream, ledger, driver | `MCEngineContract`, proofs |
| `EngineContractProofs` | one debtor per request; tokens and answers add up | TLAPS |
| `LaunchClock` | launch counts of the expert-parallel world | `CpGang`, `WhaleRendezvous` |
| `CpGang` | the gang board | `K3Scheduler`, proofs |
| `CpGangProofs` | levelling and order of the gang | TLAPS |
| `WhaleRendezvous` | sequencer, members, mailboxes | `K3Scheduler` |
| `K3Scheduler` | the scheduler threads, composing the three above | `MCK3Scheduler` |

A definition whose name ends in `_Something` after the name of another
(`OwnsSlot_NoIdentity`, `Popped_First`) is a faulty version of that one. Each
property is known to fail when one such definition takes the place of the
right one; `PROJECT.json` lists the pairs.

### BlockStore

State: `state`, `seq_hash`, `inner`, `reset_on_release` are the fields of a
slot; `free`, `inactive` and `active_by_hash` are the pools and the index of
`BlockStoreInner`. `arc`, `block_id` and `keepalive` are the
`ImmutableBlockInner` allocations by address; `guard` and `ref` are what each
client holds; the marker variables are the presence marker of a hash with the
`mark_present` and `mark_absent` calls that are still to come. `batch` is the
lookup that holds the mutex.

An action is one critical section or one step outside of the lock. The drop of
the last reference, the Drop body that takes the lock, and the drop of the
keepalive field are three actions, because another client can run between
them: it may find the hash, revive the slot and let it go again before the
first release gets the lock. The pointer comparison in `release_primary`
(`OwnsSlot`) is what makes that harmless. A lookup of several hashes under one
lock is a sequence of `BatchHit` steps during which nobody else can take it.

The free list and the eviction order are left open, which contains all the
backends. A client's clones of one block count as one.

### BlockRegistry

`prt` is the radix tree flattened to hash -> handle address; `life` follows an
inner through `Live`, `Dropping` (count is zero, Drop body not run) and
`Fields` (body run, attachments not dropped). Events are appended where the
code sends them: Create inside the registration, Remove when the fields go.

### EventBatcher

`sent` is the stream, `seen` the subscriber's place in it. `Lag` is a slow
subscriber overrun by the channel: `subscribe()` filters the error, so events
go missing without notice. `Receive`, `Timeout` and `EndOfStream` are the arms
of the `select!`; a publication either arrives or is dropped. The hub is
outside of the repository and is taken to keep the set it has been told.

### SchedulableSequence

`req[s]` is a request's record (phase, input, generated tokens, prefill and KV
positions, blocks assigned and not yet assigned). `canonical` is the prefix
cache and `written` the positions whose K/V each block holds, which no code
variable records: it is the ground truth the properties compare with. Each
public method is an action and `Forward` is the pass on the device; it writes
over the rows of the positions it computes, and for a draft only the accepted
prefix is right. All requests share one token stream, the case of most
sharing. Left out: operations with no caller (`drop_unassigned`,
`append_tokens`, `reacquire`), and `pad_tail_block`, whose only caller pads
requests that a salt keeps out of the shared stream.

### EntitlementLedger and Glm52Admission

The pool is counted, not named: `free` and cached pages, what each request has
drawn, holds and was promised. Two kinds of thread act, the scheduler and the
resolve tasks. A call that takes the reserve gate is two steps, what it does to
the pool and what it does to the counter, so that everything that does not take
the gate (probes, matches, drops of a hold) can come in between.

`Glm52Admission` adds the queue. An action is one turn of the admission loop:
the front is found to fit, or is dropped because its client is gone; a front
that does not fit makes the scheduler shed the prefix that a plain request
behind it holds, or let a native handoff pass. The budget is tested before the
gate (`CheckFront`, `Bypass`) and again under it (`AdmitChecked`), and a request
that loses the race in between goes to the front of the queue (`Defer`).

### KvStore

A resolve is a task; its tier query and its load are tasks of their own that
outlive it when its deadline passes. `load` has the pages a load was given and
the devices whose copy still flies; `saves` has each save with three facts that
different tasks establish: landed, guards dropped, seen by the watcher. `pinned`
is the counter that admission subtracts. A copy cannot be cancelled, and the
tier may never complete one. Teardown waits for loads, then saves, each with a
time limit, and frees or leaks the arenas by what it saw.

### EngineContract

The bridge, the driver and any scheduler that keeps to the `Scheduler` trait: in
a step it may admit, reject, push, finish, fail, retire or defer any request the
ledger lets it, err, or panic at any point. `statement` is the step's buffered
updates, `steps` the stream to the bridge, `deferred` the finishes that another
thread delivers. An envelope or an account that is dropped unanswered answers by
its Drop, which is part of the action that drops it. `Idle` is the driver's test of
the scheduler's metrics. K3's metrics count neither a posted nor a fallen-back
whale, so its driver may exit, once the bridge is down, with accounts open; the
ledger's Drop writes those off after the commit, which is what `Fatal` does too.

### K3: LaunchClock, CpGang, WhaleRendezvous, K3Scheduler

Launches of expert-parallel ranks pair by index: a sync of a rank that has
launched n times returns when every rank has launched n times (`Paired`). So a
rank that waits anywhere without launching stops the world.

`CpGang` is the board of one process, with one action for each section under its
lock and each launch or sync outside of it. `local` is the ranks of that process:
all of the world, or on a fleet some, where the remote ranks never see the board
and only launch. Everything a rank does outside of
the gang is `Elsewhere`, which can only add launches; `K3Scheduler` is shown to
use the gang only that way (`GangSpec` as a property of the composition), so
what is proved of `GangSpec` holds of it.

`WhaleRendezvous` is the sequencer and the members. The sequencer handles a
message when it is sent; all delay is on the way back, in the mailboxes. `fault`
is set where an `ensure!` of the code would stop the engine. `K3Scheduler` is
the step of a rank with one action per stretch between two syncs. One constant
stands for the transport: a commit reaches its members within `CommitLag`
launches. `K3_WHALE_COMMIT_SLACK` (4 in the code, where a late commit stops the
engine) has to exceed what the round trip takes; the instance has `Slack` 2 over
`CommitLag` 1, the margin that the constant's comment argues for. A request of class
"misfit" is one that the sequencer refuses although its poster found it
eligible, which `start_next_gather` handles and calls a race.

## Runs

| run | checks | instance |
|---|---|---|
| `block_store` | `PoolsMatchSlots`, `OptOutNeverCached`, `PresenceShadow`, refinement of `BlockOwnership` | 3 blocks, 2 hashes, 3 Arcs, 2 clients, Allow |
| `block_store_reject` | the refinement under Reject, reset by default | 2 blocks, 2 hashes, 3 Arcs, 2 clients |
| `block_store_live` | `NothingHeldAllReturns` | 2 blocks, 1 hash, 3 Arcs, 1 client |
| `registry` | `LiveIsIndexed`, `EventBalance`, `EmptiesWhenReleased` | 2 hashes, 3 handles, 3 owners, 4 Creates |
| `event_batcher` | `HubFollowsEvents`, `BatchIsFlushed` | 2 hashes, 5 events, channel 3, batches of 3 |
| `sequence` | `PagesCoverStep`, `WithinLifetime`, `OwnKvIntact`, `NextStepExists`, `CachedButLast`, `PagesStable` | 2 requests, 4 blocks of 3 tokens, prompts 3 and 5, 3 outputs, drafts of 3, chunks aligned or not |
| `glm52_admission` | `QueueTypeOK`, `LedgerExact`, `FloorButForPins`, `StallNeedsKeptPages` | 2 plain requests that share a page, 1 native, 4 pages, 2 slots |
| `kv_store` | `CopiesOwnTheirPages`, `PinnedCoversReads`, `HandoffOutlivesSaves`, `FreedIsQuiet`, `ResolveEnds`, `LeaseReturned`, `ParkedIsReleased` | 1 resolve, 1 request, 2 pages, 2 devices |
| `engine_contract` | `OneDebtor`, `AnswersAddUp`, `AnsweredUnlessLost`, `DriverExits` | 2 requests, up to 1 token |
| `k3_scheduler` | `NoFault`, `WhaleUnanimous`, `FallbackIsFinal`, `SlotsConserved`, `LevelEntries`, `PostingOrder`, `NothingLeftBehind`, refinement of `GangSpec` | 3 ranks, 2 requests, gangs {0,1} and {1,2}, one process of all ranks or of two of them, bursts of 2 |
| `glm52_draws` | `AdmittedDrawsSucceed`, violated (see below) | as `glm52_admission` |
| `engine_hang` | `NeverAHang`, violated (see below) | 1 request with a token |

What they show:

- **Ownership.** A block has at most one writer; while a client reads it, it is
  in no pool, has no writer and keeps its content, whatever the order in which
  the last drops, the releases and the lookups reach the lock
  (`ImplementsOwnership`). Pools and slots agree (`PoolsMatchSlots`). A block
  that opted out of caching is never cached (`OptOutNeverCached`).
- **Markers.** Although the markers move outside of the lock, the marker of a
  hash is the store's state plus the calls in flight (`PresenceShadow`).
- **Registry.** Two holders of a hash hold the same handle; a late Drop body
  leaves a newer entry alone; every Create has one Remove, sent or still owed
  by a handle; the registry empties.
- **Events.** If nothing is lost, the hub has what the events say once the
  batch is empty, and all of them at Shutdown; nothing stays in a batch.
- **Requests.** The page row always covers the step; a request stays within
  the blocks that admission set aside, generation block and drafts included; no
  revert, rejected draft, eviction or other request costs a computed row or
  moves a page; an idle request always has a legal next step; with aligned
  chunks a cached block lacks at most its last row.
- **Page budget.** The entitled counter is exactly what admitted requests have
  yet to draw; the pool keeps that many pages but for those that probes and
  duplicates have pinned since; the queue neither loses nor repeats a request;
  and it stalls only on pages that it never lets go: the hold of a native
  request, or duplicates that the front holds.
- **Tier.** A page that a copy still touches is nobody else's; `pinned` never
  undercounts the pages being read; a handoff stays resident until its saves
  have landed and is then released; arenas are freed only when no copy can
  touch them; resolves end and leases come back.
- **Answers.** Somebody owes each unanswered request exactly one answer; tokens
  arrive complete and in order before the terminal; a waiting client is
  answered unless a panic took its terminal; the driver ends.
- **K3.** No check of the rendezvous fails; a whale runs on its whole gang at
  one launch or falls back for good, never both; gang jobs run level and in
  posting order; slots are conserved; no rank is left waiting.

### Bounds

Three blocks let one client hold a primary and a duplicate of one hash while
another evicts; two hashes give lookups that hit and then miss, and misses
before hits; three Arcs give an old allocation dying, its successor on the
same slot, and a duplicate. `MaxInFlight = 1` bounds the `mark_absent` calls in
flight for one hash. Under Reject there are no duplicates, so two blocks
suffice. Three handles are an old one in its drop, its successor, and a
successor of that. `MaxEvents` bounds the Create events of the registry and the
events of the batcher: 4 and 5 are enough to fill the batch, change the type
and overrun the channel. Four blocks for two requests force eviction; prompts
that end on and off a block boundary, and drafts as long as a block, reach
every rounding in the block counts.

Four pages for lifetimes of 2, 3 and 2 let p1 and n1 run together and p2 only
alone, so that each of the three can be the one that does not fit. In `kv_store`
two devices separate the first copy of a load from the last, and two pages let a
resolve and a request exchange theirs. One request with a token and one without
show tokens and terminals in the same step and in different ones. In
`k3_scheduler` two overlapping gangs of two in a world of three leave each gang
an outsider, and a process of two ranks leaves a remote one, idle or with a
local prefill of its own; bursts of two launches are enough to jump over a commit; an idle
rank stops at `MaxLaunch` unless a peer is ahead or it has something to do, which
keeps the counts finite and lets `NothingLeftBehind` say what a stop must mean.

Symmetry is used in safety runs only. Deadlock is checked where the system can
always go on; the `registry`, `event_batcher`, `kv_store`, `engine_contract` and
`k3_scheduler` runs end when their bound is reached, the channel is closed or the
work is done.

### Fairness

- `BlockStore`: a thread in the middle of a lookup, a drop or a marker update
  finishes it (weak fairness where nobody can disable the step; strong fairness
  for a release that waits for the mutex, which `parking_lot` hands on
  eventually). Clients owe nothing: `NothingHeldAllReturns` is conditional on
  their having let go of everything for good.
- `BlockRegistry`: drop glue runs to its end.
- `EventBatcher`: the runtime polls the task when its input or timer is ready.
  No fairness is assumed between input and timer: the loop is biased to input,
  and under steady traffic a full batch or a change of type flushes.
- `KvStore`: spawned tasks are polled and deadlines pass. The tier owes nothing:
  `LeaseReturned` and `ParkedIsReleased` are conditional on the copies they wait
  for.
- `EngineContract`: the driver loops, the bridge dispatches, a scheduler that
  keeps getting the chance to gives every request a verdict and an end (strong
  fairness: a scheduler owns what it was submitted), and a deferred
  finish is delivered or dropped. Panics and errors are never owed.
- `K3Scheduler` assumes none: that nobody waits for ever is the invariant
  `NothingLeftBehind` over the states in which no rank can move.

### Where the code and its own words differ

| run | what it shows |
|---|---|
| `glm52_draws` | "a mid-flight page-crossing draw can never fail" (`pool.rs`) does not hold: a probe pins cached pages without the gate, or a registered duplicate brings a cached primary back into use, after they were counted as available |
| `engine_hang` | "never a client hang" (`request_lifecycle.rs`) does not hold for a terminal that sits in the statement of a step that panics: its account is closed, so the ledger's Drop does not answer again, and the statement is never sent |

Other places where the code is weaker than a reader may expect are described by
the passing properties, as exactly as the model can tell:

- Requests can wait in a GLM5.2 queue that nothing moves, while
  `docs/subsystems/kv-cache/resolver-ownership.md` says that stalls are shed:
  native holds are never shed. `StallNeedsKeptPages` says that this is the only
  way but for a front that holds duplicates. Natives that pass a stalled front may also follow one another without
  end; no bound on the front's wait is claimed.
- The `debug_assert!(false, ...)` in the Drop body of a registry handle
  (`registry/handle.rs`) is reachable: a second handle of the hash comes and
  goes in between. Also, the Remove of an old handle can follow the Create of
  its successor. `LiveIsIndexed` and `EventBalance` hold regardless.
- `apply_decode` registers the block its token fills one forward pass before
  that token's K/V exists, and `apply_prefill` registers a block of which an
  unaligned chunk has computed a part. `CachedButLast` bounds the gap for
  aligned chunks. Whether a scheduler closes it by the order of its batches is
  not modelled.
- After a speculative step that reaches the output limit, `current_page_indices`
  is shorter than the committed tokens need; `PagesStable` and `OwnKvIntact`
  therefore speak of requests that go on.

## Proofs

All proofs are for every value of the constants, under the modules' named
assumptions only (the null values are not members of the sets they extend,
`Blocks` is finite, bounds are natural numbers, there is a longest prompt).

**BlockStore.** `IInv` of `BlockStoreProofs` is inductive. The invariants that
matter (`PoolsMatchSlots`, `OneCanonical`, `ExclusiveGuards`) are not inductive
by themselves, because a release trusts the Weak pointer in the slot. What is
missing is `ArcsMatchSlots`: a Primary or Duplicate slot names an allocation
that names it back and is live or in its Drop body; a live allocation owns its
slot; a duplicate's keepalive is a live primary of the same hash and has no
keepalive of its own; a freed address is referred to by nothing. With
`RefsAreLive` this excludes the bad case: a Drop body that runs late either
still owns its slot, or the slot has a newer owner with another address and the
release does nothing. There is a lemma for each action, or for the few
actions that do the same to a slot; `Undisturbed` says once which variables
each conjunct depends on, and `NextIInv` gathers them. From it follow:

- `NothingDangles`, `StoreConsistent`, `GuardsExclusive`, `ReadersPin`,
  `DuplicateSafe`;
- `OverrideSafe`, with a second invariant on top of `IInv` about the
  reset-on-release override;
- `ReadersSafe`, an action property: `ArcStep` says that an allocation that is
  live before and after a step keeps its slot as it was.

**Refinement.** Guards are mapped to writers, references to readers and the
hash of a bearing slot to content. `Access` reads off `IInv` who can have access
to a block in each slot state. Every action then is one of
`Take`, `GiveBack`, `Publish`, `Join`, `Leave`, `Forget`, or a stutter:
staging, marker updates, Drop bodies that keep the block cached, and keepalive
drops change nothing a holder can see.

**BlockRegistry.** `IndexExact`: the index names a handle as long as anyone
holds it, and an entry names an inner of its own hash whose Drop body has not
run. The invariant adds that an allocated inner has its hash and that a closed
registry is empty. `EventsBalance`, on top of it: a step that emits a Create
adds one handle to the carriers of its hash, one that emits a Remove takes one
away, and no other step changes either count.

**EventBatcher.** `HubFollows`: unless something was lost, the hub, with the
batch at hand applied, is where the events read so far lead. The invariant adds
that a batch without a type is empty, and that Shutdown is only sent by a loop
that has read everything. The step that matters is a Create or Remove that joins
a batch: `AppliedAppend` and `CachedNext` say that both sides change by the same
event.

**KvStore.** `IInv` ties the load task to its resolve (`LoadFollowsTask`), makes a
reservation exclusive from the moment it is taken until the task that holds it
is over, also when the resolve has long given up (`ReservedIsExclusive`), orders
the last steps of a save (guards after the copy, the watcher after both;
`SaveOrder`), and says that what the teardown has waited for stays settled
(`DrainIsFinal`). From it follow `CopySafety`, `HandoffSafe` and `FreedSafe`.
`PinnedSafe` needs an exact count: `pinned` is the number of (save, page) pairs
that no watcher has subtracted yet, of which the pages being read are the image
of a part. Sealing adds the pairs of the new saves, a watcher removes those of
its own.

**EngineContract.** `OneDebtorAlways` rests on `DebtInv`: at most one party owes a
request its answer, and at most once (one envelope in the channel, one message
with a terminal on the stream); nobody owes before the submission, somebody
does after it unless the client gave up; and the stages of a request agree (a
stream that is closed was answered or aborted, a closed account has a terminal
in the statement or a deferred finish). Each step leaves a debt where it is
(`DebtStays`, `DebtShifts`), passes it on (`DebtPasses`) or forgives it
(`DebtForgiven`). The driver's exit is `DropDebt`: what accounts and channel owe
is said on the stream before they go, except what a panicking step had in its
statement, which goes to `lost`. `AnswersAddUpAlways` rests on `FlowInv`: there
are watermarks along the stream, one per message, such that each message
continues the client's count where the one before it ended and every terminal
has the count at its place; what the ledger and a deferred finish hold continues
from the last watermark. That a deferred finish cannot overtake tokens is the
case of `DeferFinish`, which takes the statement's tokens with it. Both
invariants are void once the bridge is down and messages fall on the floor.

**SchedulableSequence.** All six properties of the `sequence` run are proved, for
any number of requests and blocks, any block size, prompt lengths, output limit
and draft length, with aligned chunks or without: `StepsAreCovered`
(`PagesCoverStep`), `LifetimeSuffices` (`WithinLifetime`), `NeverStuck`
(`NextStepExists`), `KvStays` (`OwnKvIntact`), `CacheLacksOneRow`
(`CachedButLast`) and `PagesStayPut` (`PagesStable`). They rest on `Invariance`:
`IInv` of `SchedulableSequenceInvariant` is inductive. It has three layers.

- `Sound` is about one request. Whether a schedule call brings enough pages
  depends on how many were left by the last apply or revert: `Phase` says that,
  without the blocks of the step at hand, the pages of a request in prefill are
  exactly those of what it has computed, and that afterwards one token dangles
  and the pages reach up to it. `Step` bounds the tokens of the step at hand by
  its pages and by the output left, `Books` the pages by `LifetimeBlocks`. This
  gives the first three theorems.
- `Sharing` is about who may have the same block as a page. Two requests share a
  page only at the same place and only if one of them matched it; a page that is
  canonical is so under the hash of its place and is registered; no block is
  canonical for two hashes; the hashes a request registered stay in the cache
  while it lives, and its matched blocks are the canonical ones. So a
  forward pass, which writes from the first position not yet computed on, meets
  no row that another request computed (`ForwardRows`) and, of a cached block,
  the last row at most (`LastRow`, `ForwardCache`); and an allocation takes no
  page of anyone (`PageIsHeld`).
- `Rows` is `OwnKvIntact` with the accepted tokens of the step at hand; with
  `CachedButLast` it carries the computed K/V from step to step, through a
  registration that loses its hash to another request (the request keeps its own
  block) and through eviction.

`Keeps` states for each method that `IInv` is kept and that the pages of computed
tokens are, which gives the action property.

**CpGang.** `GangLevel`: the ranks of a gang enter the superstep of a job at one
launch count, whatever they, or the ranks of other processes, launch outside of
the gang. `GangOrder`: every rank
runs the jobs in posting order. `LevelEntries` is not inductive: a rank acts on
entries it read under the lock while others pump. `LevelInv` adds what an entry
says of where its rank is (a rank that is about to pump has already announced
the count it will reach) and `Ceiling`: the entry of a rank that computes is the
highest, and stays so, because a rank announces more only while it sees a higher
one. `OrderInv` adds that a rank which is busy with a job, or has run it, has run
everything posted before. There is one lemma per action for each invariant. The
theorems are about `GangSpec`, in which `Elsewhere` stands for the rest of the
scheduler; the `k3_scheduler` run checks that `K3Scheduler` implements it.

Only model-checked: `PresenceShadow`, which counts over sets that a step changes
in several members; everything about `EntitlementLedger`, `Glm52Admission` and `WhaleRendezvous`; that `K3Scheduler`
implements `GangSpec`; and all liveness, which is beyond the prover.

## Not modelled

The repository has some 220,000 lines of Rust, a large part of them device code
and its host side, per model. The modules are about the code that coordinates:
the pool, registry and events of `kvbm-logical`, the request lifecycle, the KV
store, the engine contract, the admission of GLM5.2 and the scheduler of K3.
Left out are:

- **Device code**: kernels, forward passes, sampling, weights. Numerical; no
  state that the properties could tell apart. Launches and syncs are in
  `LaunchClock`.
- **Qwen3, Qwen3.5, Kimi-K2, DeepSeek-V2-Lite and Gemma 4 schedulers**: their
  admission and batching. Each is a sequential loop of its own. The page
  bookkeeping of those on `pegainfer-kv-cache` (Qwen3, Kimi-K2) is
  `SchedulableSequence`, and the answers of those on the driver loop (Qwen3,
  Gemma 4, K3) are `EngineContract`; the rest keep their own.
- **GLM5.2 decode loop**: launch-ahead, speculative slots and the bootstrap of
  the ranks. Its admission, teardown and store calls are modelled.
- **K3 speculative decoding**: a round may take several verify launches
  (`decode_spec_inner`). `model_line.rs` refuses to start with the draft lane and
  either lane for long prompts, so it never meets the gang or the whales.
- **Several gangs on one fleet**: each process has a gang of its own. To the board
  of one, the ranks of the others only launch, so the theorems about `GangSpec` hold of
  each; that supersteps of two processes never wait for each other is not checked
  (`NothingLeftBehind` has one gang, with remote ranks that decode and prefill).
- **KV offload engine**: its own thread and queues are a service to the models
  here; `KvStore` lets a query or copy end at any time, with any result, or never.
- **Legacy engine handle and its bridge, simulated engine**: a queue and a
  channel per request, without a ledger that owes an answer.
- **Inactive-pool backends and the frequency tracker**: which cached block goes
  first. `BlockStore` leaves the choice open, which contains them all.
- **Block manager facade, wire formats, metrics, argument parsing, process
  start**: delegation, conversions and reporting. Of the metrics, the modelled
  parts read only what the driver's idle test does (`Idle`). A broken whale link stops the engine and is left out.
- **Attachments, and assignments outside a request**: no caller in the engines,
  or no state that others read.
