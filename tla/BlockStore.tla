----------------------------- MODULE BlockStore -----------------------------
(***************************************************************************)
(* The single-mutex block store of kvbm-logical (pools/store.rs) with the  *)
(* RAII guards that drive it (blocks/mutable.rs, complete.rs,              *)
(* immutable.rs).                                                          *)
(*                                                                         *)
(* One action is one critical section of the store mutex, or one step that *)
(* the code takes outside of it: dropping an Arc, running the Drop body of *)
(* an ImmutableBlockInner, dropping its keepalive field, updating the      *)
(* presence marker.  Any number of clients interleave between them.        *)
(*                                                                         *)
(* Abstractions.  The free list and the eviction order are left open: an   *)
(* allocation may take any free blocks and evict any inactive ones, which  *)
(* contains the FIFO list and every InactiveIndex backend.  The clones of  *)
(* one ImmutableBlock held by one client count as one reference.  A member *)
(* of Inners is the heap address of an ImmutableBlockInner; an address may *)
(* be used again once its allocation is gone.                              *)
(***************************************************************************)
EXTENDS Naturals, Sequences, FiniteSets

CONSTANTS Blocks,          \* block ids, 0 .. total_blocks - 1 in the code
          Hashes,          \* sequence hashes
          Inners,          \* addresses of ImmutableBlockInner allocations
          Clients,         \* threads that hold guards
          Prompts,         \* hash sequences passed to match_blocks and scan_matches
          NoBlock, NoHash, NoInner, NoClient,
          Policy,          \* BlockDuplicationPolicy
          DefaultReset,    \* default_reset_on_release
          MaxInFlight      \* bound: mark_absent calls in flight for one hash

ASSUME ConstantsAssumption ==
  /\ NoBlock \notin Blocks /\ NoHash \notin Hashes
  /\ NoInner \notin Inners /\ NoClient \notin Clients
  /\ Prompts \subseteq Seq(Hashes)
  /\ Policy \in {"Allow", "Reject"}
  /\ DefaultReset \in BOOLEAN
  /\ MaxInFlight \in Nat \ {0}

ASSUME FiniteAssumption == IsFiniteSet(Blocks)

VARIABLES
  state,             \* slots[b].state, the variant
  seq_hash,          \* the hash carried by the variant
  inner,             \* the Weak carried by Primary and Duplicate
  free,              \* blocks of the reset pool
  inactive,          \* the inactive index: hash -> block
  active_by_hash,    \* hash -> block of the canonical primary
  reset_on_release,  \* the per-slot override
  arc,               \* life of the allocation at each address
  block_id,          \* ImmutableBlockInner::block_id
  keepalive,         \* ImmutableBlockInner::_primary_keepalive
  guard,             \* guard[c][b]: the MutableBlock or CompleteBlock c holds
  ref,               \* ref[c][i]: the strong reference c holds
  batch,             \* the batched lookup that holds the store mutex, if any
  present,           \* presence marker of each hash
  absent             \* mark_absent calls whose store part is already done

slotVars == <<state, seq_hash, inner, free, inactive, active_by_hash, reset_on_release>>
arcVars  == <<arc, block_id, keepalive>>
vars     == <<slotVars, arcVars, guard, ref, batch, present, absent>>

SlotStates == {"Reset", "Mutable", "Staged", "Primary", "Duplicate", "Inactive"}
Bearing    == {"Primary", "Duplicate", "Inactive"}   \* slots that hold a handle
ArcLife    == {"none", "live", "dropping", "fields"}
GuardKinds == {"none", "mutable", "complete", "rejected"}
RefKinds   == {"none", "held", "registering"}
NoBatch    == [client |-> NoClient, scan |-> FALSE, rest |-> <<>>]

InactiveBlocks == {inactive[h] : h \in Hashes} \ {NoBlock}
LesserOf(m, n) == IF m <= n THEN m ELSE n

(* The store mutex is free between two actions unless a batched lookup is  *)
(* under way: it keeps the mutex from its first hash to its last, while    *)
(* Arcs are cloned and dropped around it.                                  *)
Unlocked == batch = NoBatch

(* A client inside a batched lookup, or inside register_completed_block    *)
(* until the presence marker is set and the rejected guard dropped, runs   *)
(* nothing else.                                                           *)
Idle(c) == /\ batch.client # c
           /\ \A i \in Inners : ref[c][i] # "registering"
           /\ \A b \in Blocks : guard[c][b] # "rejected"

-----------------------------------------------------------------------------
Init ==
  /\ state = [b \in Blocks |-> "Reset"]
  /\ seq_hash = [b \in Blocks |-> NoHash]
  /\ inner = [b \in Blocks |-> NoInner]
  /\ free = Blocks
  /\ inactive = [h \in Hashes |-> NoBlock]
  /\ active_by_hash = [h \in Hashes |-> NoBlock]
  /\ reset_on_release = [b \in Blocks |-> DefaultReset]
  /\ arc = [i \in Inners |-> "none"]
  /\ block_id = [i \in Inners |-> NoBlock]
  /\ keepalive = [i \in Inners |-> NoInner]
  /\ guard = [c \in Clients |-> [b \in Blocks |-> "none"]]
  /\ ref = [c \in Clients |-> [i \in Inners |-> "none"]]
  /\ batch = NoBatch
  /\ present = [h \in Hashes |-> 0]
  /\ absent = [h \in Hashes |-> 0]

-----------------------------------------------------------------------------
(* Allocation and eviction.                                                *)

(* Every path that hands out a block puts its override back to the default. *)
OverrideTaken(T) ==
  [b \in Blocks |-> IF b \in T THEN DefaultReset ELSE reset_on_release[b]]

(* The free blocks R and the inactive blocks E become Mutable guards of c. *)
(* The override of each goes back to the default; one mark_absent per      *)
(* evicted handle is left for after the unlock.                            *)
TakeMutable(c, R, E) ==
  LET T == R \cup E IN
  /\ \A h \in Hashes : inactive[h] \in E => absent[h] < MaxInFlight
  /\ state' = [b \in Blocks |-> IF b \in T THEN "Mutable" ELSE state[b]]
  /\ seq_hash' = [b \in Blocks |-> IF b \in T THEN NoHash ELSE seq_hash[b]]
  /\ free' = free \ R
  /\ inactive' = [h \in Hashes |-> IF inactive[h] \in E THEN NoBlock ELSE inactive[h]]
  /\ absent' = [h \in Hashes |-> IF inactive[h] \in E THEN absent[h] + 1 ELSE absent[h]]
  /\ reset_on_release' = OverrideTaken(T)
  /\ guard' = [guard EXCEPT ![c] = [b \in Blocks |-> IF b \in T THEN "mutable" ELSE @[b]]]
  /\ UNCHANGED <<inner, active_by_hash, arcVars, ref, batch, present>>

(* allocate_atomic: all or nothing, the reset pool first.  When there are  *)
(* too few blocks the call returns None and changes nothing.               *)
AllocateAtomic(c, count) ==
  /\ Unlocked /\ Idle(c)
  /\ \E R \in SUBSET free, E \in SUBSET InactiveBlocks :
       /\ Cardinality(R) = LesserOf(count, Cardinality(free))
       /\ Cardinality(E) = count - Cardinality(R)
       /\ TakeMutable(c, R, E)

(* drain_inactive_to_mutable: evict_inactive and reset_inactive_pool drop  *)
(* the returned guards one by one.                                         *)
DrainInactive(c) ==
  /\ Unlocked /\ Idle(c)
  /\ InactiveBlocks # {}
  /\ TakeMutable(c, {}, InactiveBlocks)

-----------------------------------------------------------------------------
(* Guards of unregistered blocks.                                          *)

(* A slot goes back to the reset pool. *)
ResetSlot(b) ==
  /\ state' = [state EXCEPT ![b] = "Reset"]
  /\ seq_hash' = [seq_hash EXCEPT ![b] = NoHash]
  /\ inner' = [inner EXCEPT ![b] = NoInner]
  /\ free' = free \cup {b}

DropMutable(c, b) ==
  /\ Unlocked /\ Idle(c)
  /\ guard[c][b] = "mutable"
  /\ ResetSlot(b)
  /\ guard' = [guard EXCEPT ![c][b] = "none"]
  /\ UNCHANGED <<inactive, active_by_hash, reset_on_release, arcVars, ref, batch, present, absent>>

(* MutableBlock::stage and ::complete. *)
Stage(c, b, h) ==
  /\ Unlocked /\ Idle(c)
  /\ guard[c][b] = "mutable"
  /\ state' = [state EXCEPT ![b] = "Staged"]
  /\ seq_hash' = [seq_hash EXCEPT ![b] = h]
  /\ guard' = [guard EXCEPT ![c][b] = "complete"]
  /\ UNCHANGED <<inner, free, inactive, active_by_hash, reset_on_release,
                 arcVars, ref, batch, present, absent>>

(* CompleteBlock::reset. *)
ResetComplete(c, b) ==
  /\ Unlocked /\ Idle(c)
  /\ guard[c][b] = "complete"
  /\ state' = [state EXCEPT ![b] = "Mutable"]
  /\ seq_hash' = [seq_hash EXCEPT ![b] = NoHash]
  /\ reset_on_release' = OverrideTaken({b})
  /\ guard' = [guard EXCEPT ![c][b] = "mutable"]
  /\ UNCHANGED <<inner, free, inactive, active_by_hash, arcVars, ref, batch, present, absent>>

(* Drop of a CompleteBlock, by its holder or at the end of a rejected      *)
(* registration.                                                           *)
DropComplete(c, b) ==
  /\ Unlocked
  /\ \/ Idle(c) /\ guard[c][b] = "complete"
     \/ guard[c][b] = "rejected"
  /\ ResetSlot(b)
  /\ guard' = [guard EXCEPT ![c][b] = "none"]
  /\ UNCHANGED <<inactive, active_by_hash, reset_on_release, arcVars, ref, batch, present, absent>>

-----------------------------------------------------------------------------
(* Lookup by hash.                                                         *)

(* What acquire_for_hash_locked returns: the block of the active index, or *)
(* else the one of the inactive index.  When the Weak of the active block  *)
(* upgrades (LiveHit) that Arc is returned and nothing changes.  Otherwise *)
(* the block, which the eager transition has moved to the inactive index   *)
(* if it was still Primary, is resurrected under a fresh Arc i.            *)
Hit(h) == active_by_hash[h] # NoBlock \/ inactive[h] # NoBlock

Found(h) == IF active_by_hash[h] # NoBlock THEN active_by_hash[h] ELSE inactive[h]

LiveHit(h) == /\ active_by_hash[h] # NoBlock
              /\ arc[inner[active_by_hash[h]]] = "live"

Returns(h, i) == IF LiveHit(h) THEN i = inner[active_by_hash[h]] ELSE arc[i] = "none"

StateAfter(h)    == IF LiveHit(h) THEN state ELSE [state EXCEPT ![Found(h)] = "Primary"]
InnerAfter(h, i) == IF LiveHit(h) THEN inner ELSE [inner EXCEPT ![Found(h)] = i]
ActiveAfter(h)   == IF LiveHit(h) THEN active_by_hash
                    ELSE [active_by_hash EXCEPT ![h] = Found(h)]
InactiveAfter(h) == IF LiveHit(h) THEN inactive ELSE [inactive EXCEPT ![h] = NoBlock]
ArcAfter(h, i)   == IF LiveHit(h) THEN arc ELSE [arc EXCEPT ![i] = "live"]
BlockIdAfter(h, i) ==
  IF LiveHit(h) THEN block_id ELSE [block_id EXCEPT ![i] = Found(h)]

Acquire(h, i) ==
  /\ Hit(h) /\ Returns(h, i)
  /\ state' = StateAfter(h)
  /\ inner' = InnerAfter(h, i)
  /\ active_by_hash' = ActiveAfter(h)
  /\ inactive' = InactiveAfter(h)
  /\ arc' = ArcAfter(h, i)
  /\ block_id' = BlockIdAfter(h, i)

(* Bound: a lookup starts only when the finite set of addresses can serve  *)
(* every hash it may resurrect.                                            *)
HeapRoom(n) == Cardinality({i \in Inners : arc[i] = "none"}) >= n

(* match_prefix_locked_batch (scan = FALSE) walks the hashes and stops at  *)
(* the first miss; with one hash it is acquire_for_hash, the slow path of  *)
(* WeakBlock::upgrade and the active pass of scan_matches.                 *)
(* promote_inactive (scan = TRUE) looks only at the inactive index and     *)
(* does not stop.                                                          *)
BeginBatch(c, hashes, scan) ==
  /\ Unlocked /\ Idle(c)
  /\ HeapRoom(Len(hashes))
  /\ batch' = [client |-> c, scan |-> scan, rest |-> hashes]
  /\ UNCHANGED <<slotVars, arcVars, guard, ref, present, absent>>

NextHash == [client |-> batch.client, scan |-> batch.scan, rest |-> Tail(batch.rest)]

BatchHit(i) ==
  /\ ~batch.scan /\ batch.rest # <<>>
  /\ Acquire(Head(batch.rest), i)
  /\ ref' = [ref EXCEPT ![batch.client][i] = "held"]
  /\ batch' = NextHash
  /\ UNCHANGED <<seq_hash, free, reset_on_release, keepalive, guard, present, absent>>

ScanHit(i) ==
  /\ batch.scan /\ batch.rest # <<>>
  /\ LET h == Head(batch.rest)
         b == inactive[h] IN
     /\ b # NoBlock /\ arc[i] = "none"
     /\ state' = [state EXCEPT ![b] = "Primary"]
     /\ inner' = [inner EXCEPT ![b] = i]
     /\ active_by_hash' = [active_by_hash EXCEPT ![h] = b]
     /\ inactive' = [inactive EXCEPT ![h] = NoBlock]
     /\ arc' = [arc EXCEPT ![i] = "live"]
     /\ block_id' = [block_id EXCEPT ![i] = b]
  /\ ref' = [ref EXCEPT ![batch.client][i] = "held"]
  /\ batch' = NextHash
  /\ UNCHANGED <<seq_hash, free, reset_on_release, keepalive, guard, present, absent>>

ScanMiss ==
  /\ batch.scan /\ batch.rest # <<>>
  /\ inactive[Head(batch.rest)] = NoBlock
  /\ batch' = NextHash
  /\ UNCHANGED <<slotVars, arcVars, guard, ref, present, absent>>

EndBatch ==
  /\ ~Unlocked
  /\ \/ batch.rest = <<>>
     \/ ~batch.scan /\ batch.rest # <<>> /\ ~Hit(Head(batch.rest))
  /\ batch' = NoBatch
  /\ UNCHANGED <<slotVars, arcVars, guard, ref, present, absent>>

-----------------------------------------------------------------------------
(* Registration (register_completed_block).                                *)

(* CompleteBlock::disarm_drop, and the re-arming of a rejected guard. *)
Disarmed(c, b)       == [guard EXCEPT ![c][b] = "none"]
Rearmed_Leaked(c, b) == [guard EXCEPT ![c][b] = "none"]       \* faulty: never drops
Rearmed(c, b)        == [guard EXCEPT ![c][b] = "rejected"]

(* No canonical block has the hash: b becomes the primary under Arc i. *)
RegisterPrimary(c, b, i) ==
  /\ Unlocked /\ Idle(c)
  /\ guard[c][b] = "complete"
  /\ ~Hit(seq_hash[b])
  /\ arc[i] = "none"
  /\ state' = [state EXCEPT ![b] = "Primary"]
  /\ inner' = [inner EXCEPT ![b] = i]
  /\ active_by_hash' = [active_by_hash EXCEPT ![seq_hash[b]] = b]
  /\ arc' = [arc EXCEPT ![i] = "live"]
  /\ block_id' = [block_id EXCEPT ![i] = b]
  /\ guard' = Disarmed(c, b)
  /\ ref' = [ref EXCEPT ![c][i] = "registering"]
  /\ UNCHANGED <<seq_hash, free, inactive, reset_on_release, keepalive, batch, present, absent>>

(* The hash has a canonical block, whose Arc is p, and the policy allows   *)
(* copies: b becomes a duplicate under Arc i, which keeps p alive.         *)
RegisterDuplicate(c, b, p, i) ==
  /\ Unlocked /\ Idle(c)
  /\ guard[c][b] = "complete"
  /\ Policy = "Allow"
  /\ arc[i] = "none" /\ i # p
  /\ LET h == seq_hash[b] IN
     /\ Hit(h) /\ Returns(h, p)
     /\ state' = [StateAfter(h) EXCEPT ![b] = "Duplicate"]
     /\ inner' = [InnerAfter(h, p) EXCEPT ![b] = i]
     /\ active_by_hash' = ActiveAfter(h)
     /\ inactive' = InactiveAfter(h)
     /\ arc' = [ArcAfter(h, p) EXCEPT ![i] = "live"]
     /\ block_id' = [BlockIdAfter(h, p) EXCEPT ![i] = b]
  /\ keepalive' = [keepalive EXCEPT ![i] = p]
  /\ guard' = Disarmed(c, b)
  /\ ref' = [ref EXCEPT ![c][i] = "registering"]
  /\ UNCHANGED <<seq_hash, free, reset_on_release, batch, present, absent>>

(* The policy rejects copies: the caller gets the canonical block and the  *)
(* re-armed guard of b is dropped after the unlock.                        *)
RegisterReject(c, b, p) ==
  /\ Unlocked /\ Idle(c)
  /\ guard[c][b] = "complete"
  /\ Policy = "Reject"
  /\ Acquire(seq_hash[b], p)
  /\ guard' = Rearmed(c, b)
  /\ ref' = [ref EXCEPT ![c][p] = "held"]
  /\ UNCHANGED <<seq_hash, free, reset_on_release, keepalive, batch, present, absent>>

(* mark_present, after the unlock; the caller still owns the result. *)
MarkPresent(c, i) ==
  /\ ref[c][i] = "registering"
  /\ present' = [present EXCEPT ![seq_hash[block_id[i]]] = @ + 1]
  /\ ref' = [ref EXCEPT ![c][i] = "held"]
  /\ UNCHANGED <<slotVars, arcVars, guard, batch, absent>>

(* mark_absent for a handle taken from a slot that was evicted or reset. *)
Lowered(n) == IF n > 0 THEN n - 1 ELSE 0

MarkAbsent(h) ==
  /\ absent[h] > 0
  /\ absent' = [absent EXCEPT ![h] = @ - 1]
  /\ present' = [present EXCEPT ![h] = Lowered(@)]
  /\ UNCHANGED <<slotVars, arcVars, guard, ref, batch>>

-----------------------------------------------------------------------------
(* References to registered blocks.                                        *)

(* Clone, pin, or the fast path of WeakBlock::upgrade: c gets a strong     *)
(* reference to an Arc that still has one.  The store is not involved.     *)
Clone(c, i) ==
  /\ Idle(c)
  /\ arc[i] = "live" /\ ref[c][i] = "none"
  /\ ref' = [ref EXCEPT ![c][i] = "held"]
  /\ UNCHANGED <<slotVars, arcVars, guard, batch, present, absent>>

(* Some strong reference to i is left when c's is gone, or j's keepalive. *)
OtherClient(c, i)    == \E d \in Clients \ {c} : ref[d][i] # "none"
OtherKeepalive(j, i) == \E k \in Inners \ {j} : keepalive[k] = i

(* Dropping an ImmutableBlock.  The last reference starts the Drop body,   *)
(* which has yet to reach the store mutex.                                 *)
DropRef(c, i) ==
  /\ Idle(c)
  /\ ref[c][i] = "held"
  /\ ref' = [ref EXCEPT ![c][i] = "none"]
  /\ arc' = IF OtherClient(c, i) \/ OtherKeepalive(NoInner, i)
            THEN arc ELSE [arc EXCEPT ![i] = "dropping"]
  /\ UNCHANGED <<slotVars, block_id, keepalive, guard, batch, present, absent>>

FreeArc(i) ==
  /\ arc' = [arc EXCEPT ![i] = "none"]
  /\ block_id' = [block_id EXCEPT ![i] = NoBlock]
  /\ UNCHANGED keepalive

(* The slot still belongs to the dropping Inner: same variant, same Weak. *)
OwnsSlot_NoIdentity(i, variant) == state[block_id[i]] = variant   \* faulty: no self_ptr
OwnsSlot(i, variant) ==
  state[block_id[i]] = variant /\ inner[block_id[i]] = i

(* The slot's override decides between the two pools; either way the block *)
(* leaves active_by_hash, and a reset owes one mark_absent after the unlock. *)
Caches_Always(b) == TRUE   \* faulty: the override is ignored
Caches(b)        == ~reset_on_release[b]

Deactivate_Stale(h) == UNCHANGED active_by_hash   \* faulty: the entry stays
Deactivate(h)       == active_by_hash' = [active_by_hash EXCEPT ![h] = NoBlock]

OweMarkAbsent_Lost(h) == UNCHANGED absent   \* faulty: the marker is never lowered
OweMarkAbsent(h) == /\ absent[h] < MaxInFlight
                    /\ absent' = [absent EXCEPT ![h] = @ + 1]

(* release_primary: a lookup got there first and gave the slot to another  *)
(* Inner, so nothing is done; or the slot is reset; or it becomes cached.  *)
ReleasePrimaryNoop(i) ==
  /\ Unlocked
  /\ arc[i] = "dropping" /\ keepalive[i] = NoInner
  /\ ~OwnsSlot(i, "Primary")
  /\ FreeArc(i)
  /\ UNCHANGED <<slotVars, guard, ref, batch, present, absent>>

ReleasePrimaryReset(i) ==
  LET b == block_id[i]
      h == seq_hash[b] IN
  /\ Unlocked
  /\ arc[i] = "dropping" /\ keepalive[i] = NoInner
  /\ OwnsSlot(i, "Primary")
  /\ ~Caches(b)
  /\ ResetSlot(b)
  /\ Deactivate(h)
  /\ OweMarkAbsent(h)
  /\ FreeArc(i)
  /\ UNCHANGED <<inactive, reset_on_release, guard, ref, batch, present>>

ReleasePrimaryInactive(i) ==
  LET b == block_id[i]
      h == seq_hash[b] IN
  /\ Unlocked
  /\ arc[i] = "dropping" /\ keepalive[i] = NoInner
  /\ OwnsSlot(i, "Primary")
  /\ Caches(b)
  /\ state' = [state EXCEPT ![b] = "Inactive"]
  /\ inner' = [inner EXCEPT ![b] = NoInner]
  /\ inactive' = [inactive EXCEPT ![h] = b]
  /\ Deactivate(h)
  /\ FreeArc(i)
  /\ UNCHANGED <<seq_hash, free, reset_on_release, guard, ref, batch, present, absent>>

(* release_duplicate: Duplicate -> Reset; the keepalive field goes next. *)
ReleaseDuplicate(i) ==
  LET b == block_id[i]
      h == seq_hash[b] IN
  /\ Unlocked
  /\ arc[i] = "dropping" /\ keepalive[i] # NoInner
  /\ IF OwnsSlot(i, "Duplicate")
     THEN ResetSlot(b) /\ OweMarkAbsent(h)
     ELSE UNCHANGED <<state, seq_hash, inner, free, absent>>
  /\ arc' = [arc EXCEPT ![i] = "fields"]
  /\ UNCHANGED <<inactive, active_by_hash, reset_on_release, block_id, keepalive,
                 guard, ref, batch, present>>

LastReference_Leaked(i, p) == FALSE   \* faulty: the primary is never dropped
LastReference(i, p) == ~OtherClient(NoClient, p) /\ ~OtherKeepalive(i, p)

(* The keepalive field is dropped after the Drop body; it may be the last  *)
(* reference to the primary.                                               *)
DropKeepalive(i) ==
  LET p == keepalive[i] IN
  /\ arc[i] = "fields"
  /\ arc' = IF LastReference(i, p) THEN [arc EXCEPT ![p] = "dropping", ![i] = "none"]
            ELSE [arc EXCEPT ![i] = "none"]
  /\ block_id' = [block_id EXCEPT ![i] = NoBlock]
  /\ keepalive' = [keepalive EXCEPT ![i] = NoInner]
  /\ UNCHANGED <<slotVars, guard, ref, batch, present, absent>>

(* set_evict_on_reset on the block itself; set_primary_reset_on_release on *)
(* the canonical block behind it.                                          *)
SetEvictOnReset(c, i, value) ==
  /\ Unlocked /\ Idle(c)
  /\ ref[c][i] = "held"
  /\ reset_on_release' = [reset_on_release EXCEPT ![block_id[i]] = value]
  /\ UNCHANGED <<state, seq_hash, inner, free, inactive, active_by_hash, arcVars,
                 guard, ref, batch, present, absent>>

SetPrimaryResetOnRelease(c, i, value) ==
  LET p == IF keepalive[i] # NoInner THEN keepalive[i] ELSE i IN
  /\ Unlocked /\ Idle(c)
  /\ ref[c][i] = "held"
  /\ reset_on_release' = [reset_on_release EXCEPT ![block_id[p]] = value]
  /\ UNCHANGED <<state, seq_hash, inner, free, inactive, active_by_hash, arcVars,
                 guard, ref, batch, present, absent>>

-----------------------------------------------------------------------------
ClientStep(c) ==
  \/ \E n \in 1 .. Cardinality(Blocks) : AllocateAtomic(c, n)
  \/ DrainInactive(c)
  \/ \E hashes \in Prompts, scan \in BOOLEAN : BeginBatch(c, hashes, scan)
  \/ \E b \in Blocks :
       \/ DropMutable(c, b) \/ ResetComplete(c, b) \/ DropComplete(c, b)
       \/ \E h \in Hashes : Stage(c, b, h)
       \/ \E i \in Inners : RegisterPrimary(c, b, i) \/ RegisterReject(c, b, i)
       \/ \E p, i \in Inners : RegisterDuplicate(c, b, p, i)
  \/ \E i \in Inners :
       \/ Clone(c, i) \/ DropRef(c, i) \/ MarkPresent(c, i)
       \/ \E value \in BOOLEAN :
            SetEvictOnReset(c, i, value) \/ SetPrimaryResetOnRelease(c, i, value)

(* What a thread that has begun a lookup or a drop still has to do. *)
BatchStep == (\E i \in Inners : BatchHit(i) \/ ScanHit(i)) \/ ScanMiss \/ EndBatch

ReleaseStep(i) ==
  \/ ReleasePrimaryNoop(i) \/ ReleasePrimaryReset(i) \/ ReleasePrimaryInactive(i)
  \/ ReleaseDuplicate(i) \/ DropKeepalive(i)

Next ==
  \/ \E c \in Clients : ClientStep(c)
  \/ BatchStep
  \/ \E i \in Inners : ReleaseStep(i)
  \/ \E h \in Hashes : MarkAbsent(h)

Spec == Init /\ [][Next]_vars

-----------------------------------------------------------------------------
(* Properties.                                                             *)

(* The types of all state. *)
TypeOK ==
  /\ state \in [Blocks -> SlotStates]
  /\ seq_hash \in [Blocks -> Hashes \cup {NoHash}]
  /\ inner \in [Blocks -> Inners \cup {NoInner}]
  /\ free \in SUBSET Blocks
  /\ inactive \in [Hashes -> Blocks \cup {NoBlock}]
  /\ active_by_hash \in [Hashes -> Blocks \cup {NoBlock}]
  /\ reset_on_release \in [Blocks -> BOOLEAN]
  /\ arc \in [Inners -> ArcLife]
  /\ block_id \in [Inners -> Blocks \cup {NoBlock}]
  /\ keepalive \in [Inners -> Inners \cup {NoInner}]
  /\ guard \in [Clients -> [Blocks -> GuardKinds]]
  /\ ref \in [Clients -> [Inners -> RefKinds]]
  /\ batch \in [client : Clients \cup {NoClient}, scan : BOOLEAN, rest : Seq(Hashes)]
  /\ present \in [Hashes -> Nat]
  /\ absent \in [Hashes -> Nat]

(* The pools and indices agree with the slots at every unlock: a block is  *)
(* in the reset pool exactly when it is Reset, in the inactive index under *)
(* its hash exactly when it is Inactive, and in active_by_hash under its   *)
(* hash exactly when it is Primary.  No block is lost from the pools, and  *)
(* the panics of acquire_for_hash_locked and take_inactive_handle cannot   *)
(* be reached.                                                             *)
PoolsMatchSlots ==
  /\ \A b \in Blocks :
       /\ b \in free <=> state[b] = "Reset"
       /\ state[b] \in Bearing \cup {"Staged"} => seq_hash[b] \in Hashes
       /\ state[b] = "Inactive" => inactive[seq_hash[b]] = b
       /\ state[b] = "Primary" => active_by_hash[seq_hash[b]] = b
  /\ \A h \in Hashes :
       /\ inactive[h] # NoBlock =>
            state[inactive[h]] = "Inactive" /\ seq_hash[inactive[h]] = h
       /\ active_by_hash[h] # NoBlock =>
            state[active_by_hash[h]] = "Primary" /\ seq_hash[active_by_hash[h]] = h

(* A hash has at most one canonical block, active or cached, however the   *)
(* registrations, lookups and drops of that hash race.                     *)
OneCanonical ==
  \A h \in Hashes : active_by_hash[h] = NoBlock \/ inactive[h] = NoBlock

(* A block that is being filled has exactly one guard, of the kind its     *)
(* slot says, and no other block has one: no two clients can write to one  *)
(* block, and the debug_asserts of the guard transitions hold.             *)
ExclusiveGuards ==
  \A b \in Blocks :
    /\ \A c, d \in Clients : guard[c][b] # "none" /\ guard[d][b] # "none" => c = d
    /\ state[b] = "Mutable" <=> \E c \in Clients : guard[c][b] = "mutable"
    /\ state[b] = "Staged" <=> \E c \in Clients : guard[c][b] \in {"complete", "rejected"}

(* A registered block that someone can still read keeps its slot: while an *)
(* Arc has a strong reference its block is Primary or Duplicate and the    *)
(* slot's Weak is that Arc, so the block is in no pool and cannot be       *)
(* evicted or handed out, whatever late Drop bodies do.                    *)
ReadersPinBlock ==
  \A i \in Inners : arc[i] = "live" =>
    /\ block_id[i] \in Blocks
    /\ OwnsSlot(i, "Primary") \/ OwnsSlot(i, "Duplicate")

(* While a duplicate exists, up to the end of its drop, the canonical      *)
(* block of its hash is an active primary (immutable.rs: "the primary      *)
(* cannot be evicted while a duplicate exists").                           *)
DuplicateKeepsPrimary ==
  \A b \in Blocks : state[b] = "Duplicate" =>
    LET p == keepalive[inner[b]] IN
    /\ p \in Inners
    /\ arc[p] = "live" /\ OwnsSlot(p, "Primary")
    /\ seq_hash[block_id[p]] = seq_hash[b]

(* A block whose holder opted out of caching is never left in the inactive *)
(* pool, not even when a lookup wins the race against release_primary.     *)
OptOutNeverCached ==
  \A b \in Blocks : state[b] = "Inactive" => ~reset_on_release[b]

(* A block that is being filled carries the store-wide default, never the  *)
(* override of an earlier tenant.                                          *)
FreshTenantDefault ==
  \A b \in Blocks : state[b] \in {"Mutable", "Staged"} => reset_on_release[b] = DefaultReset

Registering(h) ==
  {i \in Inners : /\ \E c \in Clients : ref[c][i] = "registering"
                  /\ seq_hash[block_id[i]] = h}
BearingSlots(h) == {b \in Blocks : state[b] \in Bearing /\ seq_hash[b] = h}

(* The presence marker of a hash counts the slots that bear it, give or    *)
(* take the updates still to come after an unlock; so mark_absent always   *)
(* finds a marker, as its debug_asserts say, and the marker agrees with    *)
(* the store when nothing is in flight.                                    *)
PresenceShadow ==
  \A h \in Hashes :
    /\ present[h] + Cardinality(Registering(h)) = Cardinality(BearingSlots(h)) + absent[h]
    /\ absent[h] > 0 => present[h] > 0

(* The slot of a referenced block never changes under its readers: not its *)
(* variant, not its hash, not the Arc it belongs to.                       *)
ReadersUndisturbed ==
  [][\A i \in Inners : arc[i] = "live" /\ arc'[i] = "live" =>
       /\ block_id'[i] = block_id[i]
       /\ state'[block_id[i]] = state[block_id[i]]
       /\ seq_hash'[block_id[i]] = seq_hash[block_id[i]]
       /\ inner'[block_id[i]] = i]_vars

-----------------------------------------------------------------------------
(* The store implements the ownership discipline of BlockOwnership.        *)

writersOf == [b \in Blocks |-> {c \in Clients : guard[c][b] # "none"}]
readersOf == [b \in Blocks |->
                {c \in Clients : \E i \in Inners : ref[c][i] # "none" /\ block_id[i] = b}]
contentOf == [b \in Blocks |-> IF state[b] \in Bearing THEN seq_hash[b] ELSE NoHash]

Ownership == INSTANCE BlockOwnership
               WITH writers <- writersOf, readers <- readersOf, content <- contentOf

(* Every behaviour of the store is one the guards' holders may rely on:    *)
(* one writer, no writer next to a reader, unchanged content while read.   *)
ImplementsOwnership == Ownership!Spec

-----------------------------------------------------------------------------
(* Progress.                                                               *)

(* A thread that has entered a lookup, a drop or a registration goes on:   *)
(* these sections wait for nothing but the store mutex, which no holder    *)
(* keeps while it blocks.  The mutex is parking_lot's, whose eventual      *)
(* fairness serves a waiter even when others keep taking the lock, hence   *)
(* strong fairness for the steps that need it.  Clients are not obliged to *)
(* start anything or to drop what they hold.                               *)
Fairness ==
  /\ WF_vars(BatchStep)
  /\ \A i \in Inners : SF_vars(ReleaseStep(i))
  /\ \A h \in Hashes : WF_vars(MarkAbsent(h))
  /\ \A c \in Clients :
       /\ \A i \in Inners : WF_vars(MarkPresent(c, i))
       /\ \A b \in Blocks : SF_vars(guard[c][b] = "rejected" /\ DropComplete(c, b))

FairSpec == Spec /\ Fairness

NothingHeld == \A c \in Clients : /\ \A b \in Blocks : guard[c][b] = "none"
                                  /\ \A i \in Inners : ref[c][i] = "none"
AllAvailable == free \cup InactiveBlocks = Blocks

(* No block leaks: once the clients have dropped every guard and ask for   *)
(* nothing more, every block ends in the reset or the inactive pool, also  *)
(* the primaries that only the keepalive of a dying duplicate held.        *)
NothingHeldAllReturns == <>[]NothingHeld => <>[]AllAvailable
=============================================================================
