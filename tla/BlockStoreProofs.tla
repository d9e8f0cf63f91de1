-------------------------- MODULE BlockStoreProofs --------------------------
(***************************************************************************)
(* What BlockStore guarantees, for any sets of blocks, hashes, clients and *)
(* addresses, either policy and either default: its inductive invariant,   *)
(* that the initial state and every operation of the store keep it, the    *)
(* invariants that follow, and that it implements BlockOwnership.          *)
(***************************************************************************)
EXTENDS BlockStore, TLAPS

(* The provers to try, in this order. *)
USE SMTT(20), SMTT(30), ZenonT(20), SMTT(60)

(* What ties an allocation to its slot: the back pointer of a slot's Weak, *)
(* the one-level chain from a duplicate to its primary, and that a freed   *)
(* address is referred to by nothing.                                      *)
SlotNamesArc(b) ==
  /\ state[b] \in {"Primary", "Duplicate"} =>
       inner[b] \in Inners /\ arc[inner[b]] \in {"live", "dropping"} /\ block_id[inner[b]] = b
  /\ state[b] = "Primary" => keepalive[inner[b]] = NoInner
  /\ state[b] = "Duplicate" => keepalive[inner[b]] # NoInner
  /\ state[b] \notin {"Primary", "Duplicate"} => inner[b] = NoInner

ArcNamesSlot(i) ==
  /\ arc[i] = "none" => keepalive[i] = NoInner /\ block_id[i] = NoBlock
  /\ arc[i] # "none" => block_id[i] \in Blocks
  /\ arc[i] = "fields" => keepalive[i] # NoInner
  /\ arc[i] = "live" /\ keepalive[i] = NoInner => OwnsSlot(i, "Primary")
  /\ keepalive[i] # NoInner =>
       /\ arc[keepalive[i]] = "live" /\ keepalive[keepalive[i]] = NoInner
       /\ arc[i] # "fields" => /\ OwnsSlot(i, "Duplicate")
                               /\ seq_hash[block_id[keepalive[i]]] = seq_hash[block_id[i]]

ArcsMatchSlots == /\ \A b \in Blocks : SlotNamesArc(b)
                  /\ \A i \in Inners : ArcNamesSlot(i)

(* A reference is to an allocation that is still live. *)
RefsAreLive ==
  \A c \in Clients, i \in Inners : ref[c][i] # "none" => arc[i] = "live"

(* The mutex is held by a client or free. *)
BatchHolder == batch = NoBatch \/ batch.client \in Clients

(* The invariant of the proofs. *)
IInv == /\ TypeOK
        /\ PoolsMatchSlots
        /\ OneCanonical
        /\ ExclusiveGuards
        /\ ArcsMatchSlots
        /\ RefsAreLive
        /\ BatchHolder
-----------------------------------------------------------------------------
USE DEF SlotStates, Bearing, ArcLife, GuardKinds, RefKinds, SlotNamesArc, ArcNamesSlot

(* The parts of the invariant, for steps that need only some of them: the types. *)
LEMMA HoldsTypes == IInv => TypeOK
BY Zenon DEF IInv

(* The pools and the slots agree. *)
LEMMA HoldsPools == IInv => PoolsMatchSlots
BY Zenon DEF IInv

(* A hash has one canonical slot. *)
LEMMA HoldsCanonical == IInv => OneCanonical
BY Zenon DEF IInv

(* A guard is the only one of its block. *)
LEMMA HoldsGuards == IInv => ExclusiveGuards
BY Zenon DEF IInv

(* Allocations and slots name each other. *)
LEMMA HoldsArcs == IInv => ArcsMatchSlots
BY Zenon DEF IInv

(* References are to live allocations. *)
LEMMA HoldsRefs == IInv => RefsAreLive
BY Zenon DEF IInv

(* Who holds the batch. *)
LEMMA HoldsBatch == IInv => BatchHolder
BY Zenon DEF IInv

(* The types of what ties allocations to slots. *)
LEMMA ArcTypes ==
  IInv => /\ state \in [Blocks -> SlotStates]
          /\ seq_hash \in [Blocks -> Hashes \cup {NoHash}]
          /\ inner \in [Blocks -> Inners \cup {NoInner}]
          /\ arc \in [Inners -> ArcLife]
          /\ block_id \in [Inners -> Blocks \cup {NoBlock}]
          /\ keepalive \in [Inners -> Inners \cup {NoInner}]
BY Zenon DEF IInv, TypeOK

(* A primary that leaves its slot and is freed leaves no name behind
   (release_primary). *)
LEMMA PrimaryLeaves ==
  ASSUME IInv, NEW i \in Inners, NEW s \in {"Reset", "Inactive"},
         arc[i] = "dropping", keepalive[i] = NoInner, OwnsSlot(i, "Primary"),
         state' = [state EXCEPT ![block_id[i]] = s],
         \A a \in Blocks \ {block_id[i]} : seq_hash'[a] = seq_hash[a],
         inner' = [inner EXCEPT ![block_id[i]] = NoInner],
         FreeArc(i)
  PROVE  ArcsMatchSlots'
BY ArcTypes, HoldsArcs DEF ArcsMatchSlots, OwnsSlot, FreeArc

(* A duplicate that leaves its slot keeps its keepalive (release_duplicate). *)
LEMMA DuplicateLeaves ==
  ASSUME IInv, NEW i \in Inners,
         arc[i] = "dropping", keepalive[i] # NoInner, OwnsSlot(i, "Duplicate"),
         ResetSlot(block_id[i]),
         arc' = [arc EXCEPT ![i] = "fields"], UNCHANGED <<block_id, keepalive>>
  PROVE  ArcsMatchSlots'
BY ConstantsAssumption, ArcTypes, HoldsArcs DEF ArcsMatchSlots, OwnsSlot, ResetSlot

(* A keepalive that goes leaves its primary alive, or is the last to name
   it. *)
LEMMA KeepaliveGoes ==
  ASSUME IInv, NEW i \in Inners, DropKeepalive(i)
  PROVE  ArcsMatchSlots'
BY ArcTypes, HoldsArcs
   DEF DropKeepalive, slotVars, LastReference, OtherKeepalive, ArcsMatchSlots, OwnsSlot

(* The block a lookup finds: the active primary of the hash, or the cached one. *)
LEMMA FoundBlock ==
  ASSUME IInv, NEW h \in Hashes, Hit(h)
  PROVE  /\ Found(h) \in Blocks
         /\ seq_hash[Found(h)] = h
         /\ active_by_hash[h] # NoBlock =>
              /\ Found(h) = active_by_hash[h] /\ inactive[h] = NoBlock
              /\ state[Found(h)] = "Primary"
         /\ active_by_hash[h] = NoBlock =>
              Found(h) = inactive[h] /\ state[Found(h)] = "Inactive"
BY ConstantsAssumption, HoldsTypes, HoldsPools, HoldsCanonical
   DEF TypeOK, PoolsMatchSlots, OneCanonical, Hit, Found

(* A lookup keeps the slots, indices and Arcs consistent, returns a live   *)
(* Arc, ends no other, and touches no block that has a guard.              *)
LEMMA AcquireKeeps ==
  ASSUME IInv, NEW h \in Hashes, NEW i \in Inners, Acquire(h, i),
         UNCHANGED <<seq_hash, free, keepalive>>
  PROVE  /\ state' \in [Blocks -> SlotStates]
         /\ inner' \in [Blocks -> Inners \cup {NoInner}]
         /\ inactive' \in [Hashes -> Blocks \cup {NoBlock}]
         /\ active_by_hash' \in [Hashes -> Blocks \cup {NoBlock}]
         /\ arc' \in [Inners -> ArcLife]
         /\ block_id' \in [Inners -> Blocks \cup {NoBlock}]
         /\ PoolsMatchSlots' /\ OneCanonical' /\ ArcsMatchSlots'
         /\ arc'[i] = "live"
         /\ \A k \in Inners : arc[k] = "live" => arc'[k] = "live"
         /\ \A b \in Blocks : state[b] # state'[b] =>
              state[b] = "Inactive" /\ state'[b] = "Primary"
<1> DEFINE b == Found(h)
<1>1. CASE LiveHit(h)
  <2>1. UNCHANGED <<state, inner, active_by_hash, inactive, arc, block_id>> /\ arc[i] = "live"
    BY Zenon, <1>1 DEF Acquire, Returns, LiveHit, StateAfter, InnerAfter, ActiveAfter,
                InactiveAfter, ArcAfter, BlockIdAfter
  <2> QED
    BY <2>1, HoldsTypes, HoldsPools, HoldsCanonical, HoldsArcs
       DEF TypeOK, PoolsMatchSlots, OneCanonical, ArcsMatchSlots, OwnsSlot
<1>2. CASE ~LiveHit(h)
  <2>1. /\ b \in Blocks /\ seq_hash[b] = h
        /\ active_by_hash[h] # NoBlock =>
             b = active_by_hash[h] /\ inactive[h] = NoBlock /\ state[b] = "Primary"
        /\ active_by_hash[h] = NoBlock => b = inactive[h] /\ state[b] = "Inactive"
    BY Zenon, FoundBlock DEF Acquire
  <2>2. /\ arc[i] = "none"
        /\ state' = [state EXCEPT ![b] = "Primary"]
        /\ inner' = [inner EXCEPT ![b] = i]
        /\ active_by_hash' = [active_by_hash EXCEPT ![h] = b]
        /\ inactive' = [inactive EXCEPT ![h] = NoBlock]
        /\ arc' = [arc EXCEPT ![i] = "live"]
        /\ block_id' = [block_id EXCEPT ![i] = b]
    BY Zenon, <1>2 DEF Acquire, Returns, StateAfter, InnerAfter, ActiveAfter,
                InactiveAfter, ArcAfter, BlockIdAfter
  <2>3. state[b] = "Primary" => inner[b] \in Inners /\ arc[inner[b]] = "dropping"
    BY <1>2, <2>1, HoldsArcs DEF LiveHit, ArcsMatchSlots
  <2> HIDE DEF b
  <2>4. PoolsMatchSlots'
    BY <2>1, <2>2, ConstantsAssumption, HoldsTypes, HoldsPools DEF TypeOK, PoolsMatchSlots
  <2>5. OneCanonical'
    BY Zenon, <2>1, <2>2 DEF IInv, TypeOK, OneCanonical
  <2>6. ArcsMatchSlots'
    BY <2>1, <2>2, <2>3, ConstantsAssumption, HoldsTypes, HoldsArcs DEF TypeOK, ArcsMatchSlots, OwnsSlot
  <2> QED
    BY ZenonT(40), <2>1, <2>2, <2>4, <2>5, <2>6, ConstantsAssumption DEF IInv, TypeOK
<1> QED
  BY Zenon, <1>1, <1>2

(* Registering a further copy under Allow keeps the invariant: the copy
   holds the primary (register_completed_block). *)
LEMMA RegisterDuplicateStep ==
  ASSUME IInv, NEW c \in Clients, NEW b \in Blocks, NEW p \in Inners, NEW i \in Inners,
         RegisterDuplicate(c, b, p, i)
  PROVE  IInv'
<1> DEFINE h == seq_hash[b]
           q == Found(h)
<1> USE ConstantsAssumption
<1>1. /\ h \in Hashes /\ state[b] = "Staged" /\ guard[c][b] = "complete"
      /\ arc[i] = "none" /\ i # p /\ Hit(h)
  BY HoldsPools, HoldsGuards DEF PoolsMatchSlots, ExclusiveGuards, RegisterDuplicate
<1>2. /\ q \in Blocks /\ seq_hash[q] = h /\ q # b
      /\ active_by_hash[h] # NoBlock =>
           q = active_by_hash[h] /\ inactive[h] = NoBlock /\ state[q] = "Primary"
      /\ active_by_hash[h] = NoBlock => q = inactive[h] /\ state[q] = "Inactive"
  BY Zenon, <1>1, FoundBlock
<1>3. /\ keepalive' = [keepalive EXCEPT ![i] = p]
      /\ guard' = [guard EXCEPT ![c][b] = "none"]
      /\ ref' = [ref EXCEPT ![c][i] = "registering"]
      /\ UNCHANGED <<seq_hash, free, reset_on_release, batch, present, absent>>
  BY Zenon DEF RegisterDuplicate, Disarmed
<1>4. CASE LiveHit(h)
  <2>1. /\ p = inner[q] /\ arc[p] = "live" /\ state[q] = "Primary"
        /\ state' = [state EXCEPT ![b] = "Duplicate"]
        /\ inner' = [inner EXCEPT ![b] = i]
        /\ arc' = [arc EXCEPT ![i] = "live"]
        /\ block_id' = [block_id EXCEPT ![i] = b]
        /\ UNCHANGED <<active_by_hash, inactive>>
    BY Zenon, <1>2, <1>4 DEF RegisterDuplicate, Returns, LiveHit, StateAfter, InnerAfter, ActiveAfter,
                      InactiveAfter, ArcAfter, BlockIdAfter
  <2> HIDE DEF h, q
  <2>2. TypeOK'
    BY Zenon, <1>1, <1>2, <1>3, <2>1 DEF IInv, TypeOK
  <2>3. PoolsMatchSlots' /\ OneCanonical'
    BY <1>1, <1>2, <1>3, <2>1, HoldsPools, HoldsCanonical DEF PoolsMatchSlots, OneCanonical
  <2>4. ExclusiveGuards'
    BY <1>1, <1>3, <2>1, HoldsTypes, HoldsGuards DEF TypeOK, ExclusiveGuards
  <2>5. ArcsMatchSlots'
    BY <1>1, <1>2, <1>3, <2>1, HoldsTypes, HoldsArcs DEF TypeOK, ArcsMatchSlots, OwnsSlot, h
  <2>6. RefsAreLive'
    BY <1>1, <1>3, <2>1, HoldsTypes, HoldsRefs DEF TypeOK, RefsAreLive
  <2>7. BatchHolder'
    BY Zenon, <1>3 DEF IInv, BatchHolder
  <2> QED
    BY Zenon, <2>2, <2>3, <2>4, <2>5, <2>6, <2>7 DEF IInv
<1>5. CASE ~LiveHit(h)
  <2>1. /\ arc[p] = "none"
        /\ state' = [state EXCEPT ![q] = "Primary", ![b] = "Duplicate"]
        /\ inner' = [inner EXCEPT ![q] = p, ![b] = i]
        /\ arc' = [arc EXCEPT ![p] = "live", ![i] = "live"]
        /\ block_id' = [block_id EXCEPT ![p] = q, ![i] = b]
        /\ active_by_hash' = [active_by_hash EXCEPT ![h] = q]
        /\ inactive' = [inactive EXCEPT ![h] = NoBlock]
    BY Zenon, <1>5 DEF RegisterDuplicate, Returns, StateAfter, InnerAfter, ActiveAfter,
                InactiveAfter, ArcAfter, BlockIdAfter
  <2>2. state[q] = "Primary" => inner[q] \in Inners /\ arc[inner[q]] = "dropping"
    BY <1>2, <1>5, HoldsArcs DEF LiveHit, ArcsMatchSlots
  <2> HIDE DEF h, q
  <2>3. TypeOK'
    BY ZenonT(40), <1>1, <1>2, <1>3, <2>1 DEF IInv, TypeOK
  <2>4. PoolsMatchSlots' /\ OneCanonical'
    BY <1>1, <1>2, <1>3, <2>1, HoldsTypes, HoldsPools, HoldsCanonical DEF TypeOK, PoolsMatchSlots, OneCanonical
  <2>5. ExclusiveGuards'
    BY <1>1, <1>2, <1>3, <2>1, HoldsTypes, HoldsGuards DEF TypeOK, ExclusiveGuards
  <2>6. ArcsMatchSlots'
    <3>1. ASSUME NEW a \in Blocks PROVE SlotNamesArc(a)'
      <4>1. CASE a \in {b, q}
        BY <1>1, <1>2, <1>3, <2>1, <4>1, HoldsTypes, HoldsArcs DEF TypeOK, ArcsMatchSlots
      <4>2. CASE a \notin {b, q}
        <5>1. state'[a] = state[a] /\ inner'[a] = inner[a]
          BY ZenonT(40), <2>1, <4>2 DEF IInv, TypeOK
        <5>2. inner[a] \in Inners /\ arc[inner[a]] # "none" => inner[a] \notin {i, p}
          BY Zenon, <1>1, <2>1
        <5> QED
          BY <1>3, <2>1, <5>1, <5>2, HoldsTypes, HoldsArcs DEF TypeOK, ArcsMatchSlots
      <4> QED
        BY ZenonT(40), <4>1, <4>2
    <3>2. ASSUME NEW k \in Inners \ {i, p} PROVE ArcNamesSlot(k)'
      BY <1>1, <1>2, <1>3, <2>1, <2>2, HoldsTypes, HoldsArcs DEF TypeOK, ArcsMatchSlots, OwnsSlot
    <3>3. ArcNamesSlot(i)'
      BY <1>1, <1>2, <1>3, <2>1, <2>2, HoldsTypes, HoldsArcs DEF TypeOK, ArcsMatchSlots, OwnsSlot, h
    <3>4. ArcNamesSlot(p)'
      BY <1>1, <1>2, <1>3, <2>1, <2>2, HoldsTypes, HoldsArcs DEF TypeOK, ArcsMatchSlots, OwnsSlot
    <3> HIDE DEF SlotNamesArc, ArcNamesSlot
    <3> QED
      BY Zenon, <3>1, <3>2, <3>3, <3>4 DEF ArcsMatchSlots
  <2>7. RefsAreLive'
    BY <1>1, <1>3, <2>1, ZenonT(40) DEF IInv, TypeOK, RefsAreLive
  <2>8. BatchHolder'
    BY Zenon, <1>3 DEF IInv, BatchHolder
  <2> QED
    BY Zenon, <2>3, <2>4, <2>5, <2>6, <2>7, <2>8 DEF IInv
<1> QED
  BY Zenon, <1>4, <1>5
-----------------------------------------------------------------------------
(***************************************************************************)
(* What a step does, in a state that satisfies the invariant, to the       *)
(* override flags and to the fields of an Arc.                             *)
(***************************************************************************)
(* The two override properties are inductive relative to IInv. *)
OverrideInv == OptOutNeverCached /\ FreshTenantDefault

(* No step of the store caches a block that opted out or lets an override
   reach the next tenant. *)
LEMMA OverrideStep == IInv /\ OverrideInv /\ [Next]_vars => OverrideInv'
<1> SUFFICES ASSUME IInv, OverrideInv, [Next]_vars PROVE OverrideInv'
  BY Zenon
<1> USE ConstantsAssumption DEF OverrideInv, OptOutNeverCached, FreshTenantDefault
<1>1. CASE UNCHANGED vars
  BY Zenon, <1>1 DEF vars, slotVars
<1>2. ASSUME NEW c \in Clients, NEW R \in SUBSET free, NEW E \in SUBSET InactiveBlocks,
             TakeMutable(c, R, E)
      PROVE  OverrideInv'
  BY ZenonT(40), <1>2 DEF TakeMutable, OverrideTaken, IInv, TypeOK
<1>3. ASSUME NEW c \in Clients, NEW b \in Blocks,
             \/ DropMutable(c, b) \/ ResetComplete(c, b) \/ DropComplete(c, b)
             \/ \E h \in Hashes : Stage(c, b, h)
      PROVE  OverrideInv'
  BY <1>3, HoldsTypes, HoldsGuards
     DEF DropMutable, ResetComplete, DropComplete, Stage, ResetSlot, OverrideTaken, TypeOK, ExclusiveGuards
<1>4. ASSUME NEW c \in Clients, NEW b \in Blocks, NEW i \in Inners, RegisterPrimary(c, b, i)
      PROVE  OverrideInv'
  BY ZenonT(40), <1>4 DEF RegisterPrimary, IInv, TypeOK
<1>5. ASSUME NEW c \in Clients, NEW b \in Blocks, NEW i \in Inners, RegisterReject(c, b, i)
      PROVE  OverrideInv'
  BY <1>5, ZenonT(40) DEF RegisterReject, Acquire, StateAfter, IInv, TypeOK
<1>6. ASSUME NEW c \in Clients, NEW b \in Blocks, NEW p \in Inners, NEW i \in Inners,
             RegisterDuplicate(c, b, p, i)
      PROVE  OverrideInv'
  BY <1>6, ZenonT(40) DEF RegisterDuplicate, StateAfter, IInv, TypeOK
<1>7. ASSUME NEW c \in Clients, NEW i \in Inners, NEW value \in BOOLEAN,
             SetEvictOnReset(c, i, value) \/ SetPrimaryResetOnRelease(c, i, value)
      PROVE  OverrideInv'
  <2>1. PICK p \in Inners : /\ arc[p] = "live"
                            /\ reset_on_release' = [reset_on_release EXCEPT ![block_id[p]] = value]
                            /\ UNCHANGED state
    <3>1. CASE SetEvictOnReset(c, i, value)
      BY Zenon, <3>1 DEF SetEvictOnReset, IInv, RefsAreLive
    <3>2. CASE SetPrimaryResetOnRelease(c, i, value) /\ keepalive[i] = NoInner
      BY Zenon, <3>2 DEF SetPrimaryResetOnRelease, IInv, RefsAreLive
    <3>3. CASE SetPrimaryResetOnRelease(c, i, value) /\ keepalive[i] # NoInner
      <4>1. keepalive[i] \in Inners /\ arc[keepalive[i]] = "live"
        BY <3>3, HoldsTypes, HoldsArcs DEF TypeOK, ArcsMatchSlots
      <4> QED
        BY ZenonT(40), <3>3, <4>1 DEF SetPrimaryResetOnRelease
    <3> QED
      BY Zenon, <1>7, <3>1, <3>2, <3>3
  <2>2. block_id[p] \in Blocks /\ state[block_id[p]] \in {"Primary", "Duplicate"}
    BY ZenonT(40), <2>1 DEF IInv, TypeOK, ArcsMatchSlots, OwnsSlot
  <2> QED
    BY <2>1, <2>2, HoldsTypes DEF TypeOK
<1>8. ASSUME NEW i \in Inners, BatchHit(i) \/ ScanHit(i)
      PROVE  OverrideInv'
  BY <1>8, HoldsTypes DEF BatchHit, Acquire, StateAfter, ScanHit, TypeOK
<1>9. ASSUME NEW i \in Inners, ReleasePrimaryReset(i) \/ ReleasePrimaryInactive(i) \/ ReleaseDuplicate(i)
      PROVE  OverrideInv'
  BY <1>9, HoldsTypes
     DEF ReleasePrimaryReset, ReleasePrimaryInactive, ReleaseDuplicate, ResetSlot, Caches, TypeOK
<1>10. ASSUME UNCHANGED <<state, reset_on_release>> PROVE OverrideInv'
  BY Zenon, <1>10
<1>11. ASSUME NEW c \in Clients, ClientStep(c) PROVE OverrideInv'
  <2>1. ASSUME NEW n \in 1 .. Cardinality(Blocks), AllocateAtomic(c, n) PROVE OverrideInv'
    BY Zenon, <2>1, <1>2 DEF AllocateAtomic
  <2>2. CASE DrainInactive(c)
    <3>1. {} \in SUBSET free /\ InactiveBlocks \in SUBSET InactiveBlocks
      BY Zenon
    <3> QED
      BY Zenon, <2>2, <3>1, <1>2 DEF DrainInactive
  <2>3. ASSUME NEW hashes \in Prompts, NEW scan \in BOOLEAN, BeginBatch(c, hashes, scan)
        PROVE  OverrideInv'
    BY Zenon, <2>3, <1>10 DEF BeginBatch, slotVars
  <2>4. ASSUME NEW i \in Inners, Clone(c, i) \/ DropRef(c, i) \/ MarkPresent(c, i)
        PROVE  OverrideInv'
    BY Zenon, <2>4, <1>10 DEF Clone, DropRef, MarkPresent, slotVars
  <2> HIDE DEF OverrideInv
  <2> QED
    BY Zenon, <1>11, <1>3, <1>4, <1>5, <1>6, <1>7, <2>1, <2>2, <2>3, <2>4 DEF ClientStep
<1>12. CASE BatchStep
  <2>1. CASE ScanMiss \/ EndBatch
    BY Zenon, <2>1, <1>10 DEF ScanMiss, EndBatch, slotVars
  <2> HIDE DEF OverrideInv
  <2> QED
    BY Zenon, <1>12, <1>8, <2>1 DEF BatchStep
<1>13. ASSUME NEW i \in Inners, ReleaseStep(i) PROVE OverrideInv'
  <2>1. CASE ReleasePrimaryNoop(i) \/ DropKeepalive(i)
    BY Zenon, <2>1, <1>10 DEF ReleasePrimaryNoop, DropKeepalive, slotVars
  <2> HIDE DEF OverrideInv
  <2> QED
    BY Zenon, <1>13, <1>9, <2>1 DEF ReleaseStep
<1>14. ASSUME NEW h \in Hashes, MarkAbsent(h) PROVE OverrideInv'
  BY Zenon, <1>14, <1>10 DEF MarkAbsent, slotVars
<1> HIDE DEF OverrideInv
<1> QED
  BY Zenon, <1>1, <1>11, <1>12, <1>13, <1>14 DEF Next

(* A step leaves alone the fields of an Arc that stays live, and the hash  *)
(* of its block.                                                           *)
ArcUndisturbed(i) == /\ block_id'[i] = block_id[i]
                     /\ keepalive'[i] = keepalive[i]
                     /\ seq_hash'[block_id[i]] = seq_hash[block_id[i]]

(* While an Arc is live no step moves it to another block, changes its
   keepalive or the content of its block. *)
LEMMA ArcStep ==
  ASSUME IInv, [Next]_vars, NEW i \in Inners, arc[i] = "live"
  PROVE  ArcUndisturbed(i)
<1> USE ConstantsAssumption DEF ArcUndisturbed
<1>0. /\ block_id[i] \in Blocks
      /\ state[block_id[i]] \in {"Primary", "Duplicate"}
  BY Zenon DEF IInv, TypeOK, ArcsMatchSlots, OwnsSlot
<1>1. CASE UNCHANGED <<seq_hash, block_id, keepalive>>
  BY Zenon, <1>1
<1>2. ASSUME NEW c \in Clients, NEW R \in SUBSET free, NEW E \in SUBSET InactiveBlocks,
             TakeMutable(c, R, E)
      PROVE  ArcUndisturbed(i)
  BY <1>0, <1>2, HoldsTypes, HoldsPools DEF TakeMutable, arcVars, InactiveBlocks, TypeOK, PoolsMatchSlots
<1>3. ASSUME NEW c \in Clients, NEW b \in Blocks,
             \/ DropMutable(c, b) \/ ResetComplete(c, b) \/ DropComplete(c, b)
             \/ \E h \in Hashes : Stage(c, b, h)
      PROVE  ArcUndisturbed(i)
  <2>1. state[b] \in {"Mutable", "Staged"}
    BY ZenonT(40), <1>3 DEF DropMutable, ResetComplete, DropComplete, Stage, IInv, TypeOK, ExclusiveGuards
  <2> QED
    BY <1>0, <1>3, <2>1, HoldsTypes
       DEF DropMutable, ResetComplete, DropComplete, Stage, ResetSlot, arcVars, TypeOK
<1>4. ASSUME NEW c \in Clients, NEW b \in Blocks, NEW k \in Inners,
             RegisterPrimary(c, b, k) \/ RegisterReject(c, b, k)
      PROVE  ArcUndisturbed(i)
  BY <1>4, ZenonT(40) DEF RegisterPrimary, RegisterReject, Acquire, Returns, BlockIdAfter, IInv, TypeOK
<1>5. ASSUME NEW c \in Clients, NEW b \in Blocks, NEW p \in Inners, NEW k \in Inners,
             RegisterDuplicate(c, b, p, k)
      PROVE  ArcUndisturbed(i)
  BY ZenonT(40), <1>5 DEF RegisterDuplicate, Returns, BlockIdAfter, IInv, TypeOK
<1>6. ASSUME NEW k \in Inners, BatchHit(k) \/ ScanHit(k) PROVE ArcUndisturbed(i)
  BY <1>6, ZenonT(40) DEF BatchHit, ScanHit, Acquire, Returns, BlockIdAfter, IInv, TypeOK
<1>7. ASSUME NEW k \in Inners, ReleaseStep(k) PROVE ArcUndisturbed(i)
  <2>1. CASE ReleasePrimaryNoop(k) \/ ReleasePrimaryInactive(k)
    BY <2>1, ZenonT(40) DEF ReleasePrimaryNoop, ReleasePrimaryInactive, FreeArc, slotVars, IInv, TypeOK
  <2>2. CASE ReleasePrimaryReset(k)
    <3>1. block_id[i] # block_id[k] /\ i # k
      BY <2>2, HoldsTypes, HoldsArcs DEF ReleasePrimaryReset, TypeOK, ArcsMatchSlots, OwnsSlot
    <3> QED
      BY ZenonT(40), <2>2, <1>0, <3>1 DEF ReleasePrimaryReset, ResetSlot, FreeArc, IInv, TypeOK
  <2>3. CASE ReleaseDuplicate(k)
    <3>1. OwnsSlot(k, "Duplicate") => block_id[i] # block_id[k]
      BY <2>3, HoldsTypes, HoldsArcs DEF ReleaseDuplicate, TypeOK, ArcsMatchSlots, OwnsSlot
    <3> QED
      BY ZenonT(40), <2>3, <1>0, <3>1 DEF ReleaseDuplicate, ResetSlot, IInv, TypeOK
  <2>4. CASE DropKeepalive(k)
    BY Zenon, <2>4 DEF DropKeepalive, slotVars, IInv, TypeOK
  <2> QED
    BY ZenonT(40), <1>7, <2>1, <2>2, <2>3, <2>4 DEF ReleaseStep
<1>8. CASE UNCHANGED vars
  BY Zenon, <1>8, <1>1 DEF vars, slotVars, arcVars
<1>9. ASSUME NEW c \in Clients, ClientStep(c) PROVE ArcUndisturbed(i)
  <2>1. ASSUME NEW n \in 1 .. Cardinality(Blocks), AllocateAtomic(c, n) PROVE ArcUndisturbed(i)
    BY Zenon, <2>1, <1>2 DEF AllocateAtomic
  <2>2. CASE DrainInactive(c)
    <3>1. {} \in SUBSET free /\ InactiveBlocks \in SUBSET InactiveBlocks
      BY Zenon
    <3> QED
      BY Zenon, <2>2, <3>1, <1>2 DEF DrainInactive
  <2>3. ASSUME NEW hashes \in Prompts, NEW scan \in BOOLEAN, BeginBatch(c, hashes, scan)
        PROVE  ArcUndisturbed(i)
    BY Zenon, <2>3, <1>1 DEF BeginBatch, slotVars, arcVars
  <2>4. ASSUME NEW k \in Inners,
               \/ Clone(c, k) \/ DropRef(c, k) \/ MarkPresent(c, k)
               \/ \E value \in BOOLEAN :
                    SetEvictOnReset(c, k, value) \/ SetPrimaryResetOnRelease(c, k, value)
        PROVE  ArcUndisturbed(i)
    BY Zenon, <2>4, <1>1 DEF Clone, DropRef, MarkPresent, SetEvictOnReset, SetPrimaryResetOnRelease,
                      slotVars, arcVars
  <2> HIDE DEF ArcUndisturbed
  <2> QED
    BY Zenon, <1>9, <1>3, <1>4, <1>5, <2>1, <2>2, <2>3, <2>4 DEF ClientStep
<1>10. CASE BatchStep
  <2>1. CASE ScanMiss \/ EndBatch
    BY Zenon, <2>1, <1>1 DEF ScanMiss, EndBatch, slotVars, arcVars
  <2> HIDE DEF ArcUndisturbed
  <2> QED
    BY Zenon, <1>10, <1>6, <2>1 DEF BatchStep
<1>11. ASSUME NEW h \in Hashes, MarkAbsent(h) PROVE ArcUndisturbed(i)
  BY Zenon, <1>11, <1>1 DEF MarkAbsent, slotVars, arcVars
<1> HIDE DEF ArcUndisturbed
<1> QED
  BY Zenon, <1>7, <1>8, <1>9, <1>10, <1>11 DEF Next

(* The slot of an Arc that is live before and after a step. *)
SlotKept ==
  \A i \in Inners : arc[i] = "live" /\ arc'[i] = "live" =>
    /\ block_id'[i] = block_id[i]
    /\ state'[block_id[i]] = state[block_id[i]]
    /\ seq_hash'[block_id[i]] = seq_hash[block_id[i]]
    /\ inner'[block_id[i]] = i

(* The fields of the Arc stay, and the invariant before and after the step
   makes the slot follow from them. *)
LEMMA SlotStep == IInv /\ IInv' /\ [Next]_vars => SlotKept
<1> SUFFICES ASSUME IInv, IInv', [Next]_vars,
                    NEW i \in Inners, arc[i] = "live", arc'[i] = "live"
             PROVE  /\ block_id'[i] = block_id[i]
                    /\ state'[block_id[i]] = state[block_id[i]]
                    /\ seq_hash'[block_id[i]] = seq_hash[block_id[i]]
                    /\ inner'[block_id[i]] = i
  BY Zenon DEF SlotKept
<1>1. ArcUndisturbed(i)
  BY ZenonT(40), ArcStep
<1>2. keepalive[i] = NoInner =>
        OwnsSlot(i, "Primary") /\ OwnsSlot(i, "Primary")'
  <2>1. ArcNamesSlot(i) /\ ArcNamesSlot(i)'
    BY Zenon DEF IInv, ArcsMatchSlots
  <2> QED
    BY <1>1, <2>1 DEF ArcUndisturbed
<1>3. keepalive[i] # NoInner =>
        OwnsSlot(i, "Duplicate") /\ OwnsSlot(i, "Duplicate")'
  BY Zenon, <1>1 DEF ArcUndisturbed, IInv, ArcsMatchSlots
<1> QED
  BY Zenon, <1>1, <1>2, <1>3 DEF ArcUndisturbed, OwnsSlot

-----------------------------------------------------------------------------
(***************************************************************************)
(* The state of BlockOwnership seen in a state of BlockStore, and when a   *)
(* step of the store is one of the abstract actions: the lemmas the        *)
(* refinement proof applies to each operation.                             *)
(***************************************************************************)

Writers(b) == {c \in Clients : guard[c][b] # "none"}
Readers(b) == {c \in Clients : \E i \in Inners : ref[c][i] # "none" /\ block_id[i] = b}
Content(b) == IF state[b] \in Bearing THEN seq_hash[b] ELSE NoHash

(* The mapped state, written block by block with this module's operators,
   before and after a step. *)
LEMMA Mapping ==
  /\ writersOf = [b \in Blocks |-> Writers(b)] /\ writersOf' = [b \in Blocks |-> Writers(b)']
  /\ readersOf = [b \in Blocks |-> Readers(b)] /\ readersOf' = [b \in Blocks |-> Readers(b)']
  /\ contentOf = [b \in Blocks |-> Content(b)] /\ contentOf' = [b \in Blocks |-> Content(b)']
BY Zenon DEF writersOf, readersOf, contentOf, Writers, Readers, Content

(* A step that changes the mapped state nowhere is a stuttering step. *)
LEMMA StutterMaps ==
  ASSUME \A b \in Blocks : Writers(b)' = Writers(b),
         \A b \in Blocks : Readers(b)' = Readers(b),
         \A b \in Blocks : Content(b)' = Content(b)
  PROVE  UNCHANGED Ownership!vars
BY Zenon, Mapping DEF Ownership!vars

(* Who may use a block, by the state of its slot. *)
LEMMA Access ==
  ASSUME IInv, NEW b \in Blocks
  PROVE  /\ \A c \in Clients : guard[c][b] # "none" =>
              Writers(b) = {c} /\ state[b] \in {"Mutable", "Staged"}
         /\ state[b] \notin {"Mutable", "Staged"} => Writers(b) = {}
         /\ state[b] \notin {"Primary", "Duplicate"} => Readers(b) = {}
<1>1. ASSUME NEW c \in Clients, guard[c][b] # "none"
      PROVE  Writers(b) = {c} /\ state[b] \in {"Mutable", "Staged"}
  <2>1. state[b] \in {"Mutable", "Staged"}
    BY <1>1, HoldsTypes, HoldsGuards DEF TypeOK, ExclusiveGuards
  <2>2. \A d \in Clients : guard[d][b] # "none" => d = c
    BY Zenon, <1>1 DEF IInv, ExclusiveGuards
  <2> QED
    BY Zenon, <1>1, <2>1, <2>2 DEF Writers
<1>2. ASSUME NEW c \in Clients, NEW i \in Inners, ref[c][i] # "none", block_id[i] = b
      PROVE  state[b] \in {"Primary", "Duplicate"}
  BY <1>2, HoldsTypes, HoldsRefs, HoldsArcs DEF TypeOK, RefsAreLive, ArcsMatchSlots, OwnsSlot
<1> QED
  BY <1>1, <1>2, ZenonT(40) DEF Writers, Readers

(* Allocation is a Take of the abstract specification. *)
LEMMA TakeMaps ==
  ASSUME IInv, NEW c \in Clients, NEW R \in SUBSET free, NEW E \in SUBSET InactiveBlocks,
         TakeMutable(c, R, E)
  PROVE  Ownership!Next
<1> DEFINE T == R \cup E
<1>1. T \in SUBSET Blocks /\ \A b \in T : state[b] \in {"Reset", "Inactive"}
  BY HoldsTypes, HoldsPools DEF InactiveBlocks, TypeOK, PoolsMatchSlots
<1>2. \A b \in T : Writers(b) = {} /\ Readers(b) = {}
  BY Zenon, <1>1, Access
<1>3. ASSUME NEW b \in Blocks
      PROVE  Writers(b)' = IF b \in T THEN {c} ELSE Writers(b)
  <2>1. CASE b \in T
    BY <2>1, <1>2, HoldsTypes DEF TakeMutable, Writers, TypeOK
  <2>2. CASE b \notin T
    BY Zenon, <2>2 DEF TakeMutable, Writers, IInv, TypeOK
  <2> QED
    BY Zenon, <2>1, <2>2
<1>4. \A b \in Blocks : Readers(b)' = Readers(b)
  BY Zenon DEF TakeMutable, arcVars, Readers
<1>5. \A b \in Blocks : Content(b)' = IF b \in T THEN NoHash ELSE Content(b)
  BY Zenon DEF TakeMutable, Content, IInv, TypeOK
<1>6. Ownership!Take(c, T)
  BY Zenon, <1>1, <1>2, <1>3, <1>4, <1>5, Mapping DEF Ownership!Take
<1> QED
  BY Zenon, <1>1, <1>6 DEF Ownership!Next

(* Dropping an unregistered guard gives its block back in the abstract
   specification. *)
LEMMA GiveBackMaps ==
  ASSUME IInv, NEW c \in Clients, NEW b \in Blocks, guard[c][b] # "none",
         ResetSlot(b), guard' = [guard EXCEPT ![c][b] = "none"], UNCHANGED <<ref, block_id>>
  PROVE  Ownership!Next
<1>1. Writers(b) = {c} /\ state[b] \in {"Mutable", "Staged"}
  BY Zenon, Access
<1>2. ASSUME NEW a \in Blocks
      PROVE  Writers(a)' = IF a = b THEN {} ELSE Writers(a)
  <2>1. CASE a = b
    BY Zenon, <2>1, <1>1 DEF Writers, IInv, TypeOK
  <2>2. CASE a # b
    BY Zenon, <2>2 DEF Writers, IInv, TypeOK
  <2> QED
    BY Zenon, <2>1, <2>2
<1>3. \A a \in Blocks : Readers(a)' = Readers(a)
  BY Zenon DEF Readers
<1>4. \A a \in Blocks : Content(a)' = Content(a)
  BY Zenon, <1>1 DEF ResetSlot, Content, IInv, TypeOK
<1>5. Ownership!GiveBack(c, b)
  BY Zenon, <1>1, <1>2, <1>3, <1>4, Mapping DEF Ownership!GiveBack
<1> QED
  BY Zenon, <1>5 DEF Ownership!Next

(* c gets a reference to Arc i of block b, which nobody writes. *)
LEMMA JoinMaps ==
  ASSUME IInv, IInv', NEW c \in Clients, NEW i \in Inners, NEW b \in Blocks,
         block_id'[i] = b, state'[b] \in {"Primary", "Duplicate"},
         \A k \in Inners \ {i} : block_id'[k] = block_id[k],
         arc[i] = "none" \/ block_id[i] = b,
         ref' = [ref EXCEPT ![c][i] = "held"],
         \A a \in Blocks : Writers(a)' = Writers(a) /\ Content(a)' = Content(a)
  PROVE  Ownership!Next
<1>0. TypeOK' /\ PoolsMatchSlots' /\ ExclusiveGuards'
  BY Zenon DEF IInv
<1>1. Writers(b) = {} /\ Content(b) # NoHash
  <2>1. Writers(b)' = {}
    <3>1. ASSUME NEW d \in Clients, guard'[d][b] # "none" PROVE FALSE
      <4>1. guard'[d][b] \in {"mutable", "complete", "rejected"}
        BY <1>0, <3>1 DEF TypeOK
      <4> QED
        BY <1>0, <4>1 DEF ExclusiveGuards
    <3> QED
      BY Zenon, <3>1 DEF Writers
  <2>2. Content(b)' # NoHash
    BY <1>0, ConstantsAssumption DEF PoolsMatchSlots, Content
  <2> QED
    BY Zenon, <2>1, <2>2
<1>2. \A d \in Clients : arc[i] = "none" => ref[d][i] = "none"
  BY Zenon DEF IInv, RefsAreLive
<1>3. ASSUME NEW a \in Blocks
      PROVE  Readers(a)' = IF a = b THEN Readers(a) \cup {c} ELSE Readers(a)
  <2>1. ASSUME NEW d \in Clients, NEW k \in Inners, d # c \/ k # i
        PROVE  ref'[d][k] = ref[d][k]
    BY ZenonT(40), <2>1 DEF IInv, TypeOK
  <2>2. ref'[c][i] = "held"
    BY Zenon DEF IInv, TypeOK
  <2>3. ASSUME NEW d \in Clients
        PROVE  (\E k \in Inners : ref'[d][k] # "none" /\ block_id'[k] = a) <=>
               (\E k \in Inners : ref[d][k] # "none" /\ block_id[k] = a) \/ (a = b /\ d = c)
    BY <1>2, <2>1, <2>2
  <2> QED
    BY Zenon, <2>3 DEF Readers
<1>4. Ownership!Join(c, b)
  BY Zenon, <1>1, <1>3, Mapping DEF Ownership!Join
<1> QED
  BY Zenon, <1>4 DEF Ownership!Next

(* The writer c of block b becomes its first reader, through the fresh Arc i. *)
LEMMA PublishMaps ==
  ASSUME IInv, IInv', NEW c \in Clients, NEW i \in Inners, NEW b \in Blocks,
         guard[c][b] # "none", guard' = [guard EXCEPT ![c][b] = "none"],
         arc[i] = "none", block_id'[i] = b, state'[b] \in {"Primary", "Duplicate"},
         \A k \in Inners : arc[k] # "none" => block_id'[k] = block_id[k],
         ref' = [ref EXCEPT ![c][i] = "registering"], UNCHANGED seq_hash,
         \A a \in Blocks \ {b} : Content(a)' = Content(a)
  PROVE  Ownership!Next
<1>1. Writers(b) = {c} /\ Readers(b) = {} /\ seq_hash[b] \in Hashes
  <2>1. Writers(b) = {c} /\ Readers(b) = {}
    BY Zenon, Access
  <2>2. seq_hash'[b] \in Hashes
    BY Zenon DEF IInv, PoolsMatchSlots
  <2> QED
    BY Zenon, <2>1, <2>2
<1>2. ASSUME NEW a \in Blocks
      PROVE  Writers(a)' = IF a = b THEN {} ELSE Writers(a)
  <2>1. CASE a = b
    BY Zenon, <2>1, <1>1 DEF Writers, IInv, TypeOK
  <2>2. CASE a # b
    BY Zenon, <2>2 DEF Writers, IInv, TypeOK
  <2> QED
    BY Zenon, <2>1, <2>2
<1>3. ASSUME NEW a \in Blocks
      PROVE  Readers(a)' = IF a = b THEN {c} ELSE Readers(a)
  <2>1. ASSUME NEW d \in Clients, NEW k \in Inners, d # c \/ k # i
        PROVE  ref'[d][k] = ref[d][k] /\ (ref[d][k] # "none" => block_id'[k] = block_id[k])
    BY <2>1, HoldsTypes, HoldsRefs DEF TypeOK, RefsAreLive
  <2>2. ref'[c][i] = "registering" /\ ref[c][i] = "none"
    BY HoldsTypes, HoldsRefs DEF TypeOK, RefsAreLive
  <2>3. ASSUME NEW d \in Clients
        PROVE  (\E k \in Inners : ref'[d][k] # "none" /\ block_id'[k] = a) <=>
               (\E k \in Inners : ref[d][k] # "none" /\ block_id[k] = a) \/ (a = b /\ d = c)
    BY <2>1, <2>2, ZenonT(40)
  <2>4. Readers(a)' = IF a = b THEN Readers(a) \cup {c} ELSE Readers(a)
    BY Zenon, <2>3 DEF Readers
  <2> QED
    BY Zenon, <2>4, <1>1
<1>4. Content(b)' = seq_hash[b]
  BY Zenon DEF Content
<1>5. Ownership!Publish(c, b, seq_hash[b])
  BY Zenon, <1>1, <1>2, <1>3, <1>4, Mapping DEF Ownership!Publish
<1> QED
  BY Zenon, <1>1, <1>5 DEF Ownership!Next

(* Dropping a reference is a reader leaving its block: a client has one
   reference to a block at most. *)
LEMMA LeaveMaps ==
  ASSUME IInv, NEW c \in Clients, NEW i \in Inners, DropRef(c, i)
  PROVE  Ownership!Next
<1> DEFINE b == block_id[i]
<1>1. b \in Blocks /\ arc[i] = "live"
  BY Zenon DEF DropRef, IInv, RefsAreLive, ArcsMatchSlots
<1>2. \A k \in Inners : ref[c][k] # "none" /\ block_id[k] = b => k = i
  BY <1>1, HoldsRefs, HoldsArcs DEF RefsAreLive, ArcsMatchSlots, OwnsSlot
<1>3. ASSUME NEW a \in Blocks
      PROVE  Readers(a)' = IF a = b THEN Readers(a) \ {c} ELSE Readers(a)
  <2>1. ASSUME NEW d \in Clients, NEW k \in Inners, d # c \/ k # i
        PROVE  ref'[d][k] = ref[d][k]
    BY Zenon, <2>1 DEF DropRef, IInv, TypeOK
  <2>2. ref'[c][i] = "none" /\ block_id' = block_id
    BY Zenon DEF DropRef, IInv, TypeOK
  <2>3. ASSUME NEW d \in Clients
        PROVE  (\E k \in Inners : ref'[d][k] # "none" /\ block_id'[k] = a) <=>
               (\E k \in Inners : ref[d][k] # "none" /\ block_id[k] = a) /\ ~(a = b /\ d = c)
    BY Zenon, <1>2, <2>1, <2>2
  <2> QED
    BY Zenon, <2>3 DEF Readers
<1>4. \A a \in Blocks : Writers(a)' = Writers(a) /\ Content(a)' = Content(a)
  BY Zenon DEF DropRef, slotVars, Writers, Content
<1>5. Ownership!Leave(c, b)
  BY Zenon, <1>3, <1>4, Mapping DEF Ownership!Leave
<1> QED
  BY Zenon, <1>1, <1>5 DEF Ownership!Next

(* Resetting a block that nobody holds forgets its content in the abstract
   specification. *)
LEMMA ForgetMaps ==
  ASSUME IInv, NEW b \in Blocks, Readers(b) = {}, Writers(b) = {}, ResetSlot(b),
         \A a \in Blocks : Writers(a)' = Writers(a) /\ Readers(a)' = Readers(a)
  PROVE  Ownership!Next
<1>1. \A a \in Blocks : Content(a)' = IF a = b THEN NoHash ELSE Content(a)
  BY Zenon DEF ResetSlot, Content, IInv, TypeOK
<1>2. Ownership!Forget(b)
  BY Zenon, <1>1, Mapping DEF Ownership!Forget
<1> QED
  BY Zenon, <1>2 DEF Ownership!Next

-----------------------------------------------------------------------------
(***************************************************************************)
(* Every step of BlockStore is a step of BlockOwnership or stutters.       *)
(***************************************************************************)
(* A lookup leaves every guard alone and takes no content away. *)
LEMMA AcquireMaps ==
  ASSUME IInv, IInv', NEW c \in Clients, NEW h \in Hashes, NEW i \in Inners, Acquire(h, i),
         UNCHANGED <<seq_hash, free, keepalive>>,
         \A d \in Clients, b \in Blocks : guard[d][b] = "none" <=> guard'[d][b] = "none",
         ref' = [ref EXCEPT ![c][i] = "held"]
  PROVE  Ownership!Next
<1> DEFINE b == block_id'[i]
<1>1. arc'[i] = "live"
  BY Zenon, AcquireKeeps
<1>2. b \in Blocks /\ state'[b] \in {"Primary", "Duplicate"}
  BY Zenon, <1>1 DEF IInv, ArcsMatchSlots, OwnsSlot
<1>3. /\ \A k \in Inners \ {i} : block_id'[k] = block_id[k]
      /\ arc[i] = "none" \/ block_id[i] = b
  BY HoldsTypes DEF Acquire, Returns, BlockIdAfter, TypeOK
<1>4. \A a \in Blocks : Writers(a)' = Writers(a)
  BY Zenon DEF Writers
<1>5. \A a \in Blocks : Content(a)' = Content(a)
  BY Zenon, AcquireKeeps DEF Content
<1> HIDE DEF b
<1> QED
  BY Zenon, <1>2, <1>3, <1>4, <1>5, JoinMaps DEF b

(* Every step of a batched lookup is a step of the abstract specification or
   stutters. *)
LEMMA BatchMaps ==
  ASSUME IInv, IInv', BatchStep
  PROVE  Ownership!Next \/ UNCHANGED Ownership!vars
<1>1. ASSUME NEW i \in Inners, BatchHit(i) PROVE Ownership!Next
  <2>1. Head(batch.rest) \in Hashes /\ batch.client \in Clients
    BY <1>1, HoldsTypes, HoldsBatch DEF BatchHit, TypeOK, BatchHolder, NoBatch
  <2> QED
    BY Zenon, <1>1, <2>1, AcquireMaps DEF BatchHit
<1>2. ASSUME NEW i \in Inners, ScanHit(i) PROVE Ownership!Next
  <2> DEFINE h == Head(batch.rest)
             b == inactive[h]
  <2>1. h \in Hashes /\ batch.client \in Clients
    <3>1. /\ batch \in [client : Clients \cup {NoClient}, scan : BOOLEAN, rest : Seq(Hashes)]
          /\ batch = NoBatch \/ batch.client \in Clients
      BY Zenon DEF IInv, TypeOK, BatchHolder
    <3> QED
      BY <1>2, <3>1 DEF ScanHit, NoBatch
  <2>2. b \in Blocks /\ state[b] = "Inactive"
    BY <1>2, <2>1, HoldsTypes, HoldsPools DEF ScanHit, TypeOK, PoolsMatchSlots
  <2>3. /\ block_id' = [block_id EXCEPT ![i] = b] /\ state' = [state EXCEPT ![b] = "Primary"]
        /\ arc[i] = "none" /\ ref' = [ref EXCEPT ![batch.client][i] = "held"]
        /\ UNCHANGED <<guard, seq_hash>>
    BY Zenon, <1>2 DEF ScanHit
  <2> HIDE DEF h, b
  <2>4. /\ block_id'[i] = b /\ state'[b] = "Primary"
        /\ \A k \in Inners \ {i} : block_id'[k] = block_id[k]
    <3>1. block_id \in [Inners -> Blocks \cup {NoBlock}] /\ state \in [Blocks -> SlotStates]
      BY Zenon DEF IInv, TypeOK
    <3> QED
      BY <2>2, <2>3, <3>1
  <2>5. \A a \in Blocks : Writers(a)' = Writers(a) /\ Content(a)' = Content(a)
    <3>1. \A a \in Blocks : Writers(a)' = Writers(a)
      BY Zenon, <2>3 DEF Writers
    <3>2. \A a \in Blocks : Content(a)' = Content(a)
      BY <2>2, <2>3, Zenon DEF Content, IInv, TypeOK
    <3> QED
      BY Zenon, <3>1, <3>2
  <2>6. state'[b] \in {"Primary", "Duplicate"} /\ (arc[i] = "none" \/ block_id[i] = b)
    BY Zenon, <2>3, <2>4
  <2>7. ref' = [ref EXCEPT ![batch.client][i] = "held"]
    BY Zenon, <2>3
  <2> QED
    BY ZenonT(40), <2>1, <2>2, <2>4, <2>5, <2>6, <2>7, JoinMaps
<1>3. CASE ScanMiss \/ EndBatch
  BY <1>3, Mapping DEF ScanMiss, EndBatch, slotVars, arcVars, Ownership!vars,
                       writersOf, readersOf, contentOf
<1> QED
  BY Zenon, <1>1, <1>2, <1>3 DEF BatchStep

(* Every Drop body of an Arc is a step of the abstract specification or
   stutters: the readers left before. *)
LEMMA ReleaseMaps ==
  ASSUME IInv, IInv', NEW i \in Inners, ReleaseStep(i)
  PROVE  Ownership!Next \/ UNCHANGED Ownership!vars
<1> DEFINE b == block_id[i]
<1>1. /\ UNCHANGED <<guard, ref>>
      /\ arc[i] # "live" /\ \A k \in Inners \ {i} : block_id'[k] = block_id[k]
  <2>1. /\ UNCHANGED <<guard, ref>> /\ arc[i] \in {"dropping", "fields"}
        /\ block_id' = block_id \/ block_id' = [block_id EXCEPT ![i] = NoBlock]
    BY ZenonT(40) DEF ReleaseStep, ReleasePrimaryNoop, ReleasePrimaryReset, ReleasePrimaryInactive,
                      ReleaseDuplicate, DropKeepalive, FreeArc
  <2>2. block_id \in [Inners -> Blocks \cup {NoBlock}]
    BY Zenon DEF IInv, TypeOK
  <2> QED
    BY Zenon, <2>1, <2>2
<1>2. \A d \in Clients : ref[d][i] = "none"
  BY Zenon, <1>1 DEF IInv, RefsAreLive
<1>3. \A a \in Blocks : Writers(a)' = Writers(a) /\ Readers(a)' = Readers(a)
  BY Zenon, <1>1, <1>2 DEF Writers, Readers
<1>4. ASSUME b \in Blocks, inner[b] = i, state[b] \in {"Primary", "Duplicate"}
      PROVE  Writers(b) = {} /\ Readers(b) = {}
  <2>1. ASSUME NEW d \in Clients, NEW k \in Inners, ref[d][k] # "none", block_id[k] = b
        PROVE  FALSE
    BY <2>1, <1>1, <1>4, HoldsRefs, HoldsArcs DEF RefsAreLive, ArcsMatchSlots, OwnsSlot
  <2>2. Readers(b) = {}
    BY Zenon, <2>1 DEF Readers
  <2> QED
    BY Zenon, <2>2, <1>4, Access
<1>5. CASE ReleasePrimaryReset(i) \/ (ReleaseDuplicate(i) /\ OwnsSlot(i, "Duplicate"))
  <2>1. /\ b \in Blocks /\ inner[b] = i /\ state[b] \in {"Primary", "Duplicate"}
        /\ ResetSlot(b)
    BY Zenon, <1>5 DEF ReleasePrimaryReset, ReleaseDuplicate, OwnsSlot, IInv, ArcsMatchSlots
  <2> QED
    BY Zenon, <2>1, <1>3, <1>4, ForgetMaps
<1>6. CASE ReleasePrimaryInactive(i)
  <2>1. /\ b \in Blocks /\ state[b] = "Primary" /\ state' = [state EXCEPT ![b] = "Inactive"]
        /\ UNCHANGED seq_hash
    BY Zenon, <1>6 DEF ReleasePrimaryInactive, OwnsSlot, IInv, ArcsMatchSlots
  <2>2. \A a \in Blocks : Content(a)' = Content(a)
    BY ZenonT(40), <2>1 DEF Content, IInv, TypeOK
  <2> QED
    BY Zenon, <1>3, <2>2, StutterMaps
<1>7. CASE ReleasePrimaryNoop(i) \/ DropKeepalive(i) \/ (ReleaseDuplicate(i) /\ ~OwnsSlot(i, "Duplicate"))
  <2>1. \A a \in Blocks : Content(a)' = Content(a)
    BY Zenon, <1>7 DEF ReleasePrimaryNoop, DropKeepalive, ReleaseDuplicate, slotVars, Content
  <2> QED
    BY Zenon, <1>3, <2>1, StutterMaps
<1> QED
  BY ZenonT(40), <1>5, <1>6, <1>7 DEF ReleaseStep

(* Every operation of a client is a step of the abstract specification or
   stutters. *)
LEMMA ClientMaps ==
  ASSUME IInv, IInv', NEW c \in Clients, ClientStep(c)
  PROVE  Ownership!Next \/ UNCHANGED Ownership!vars
<1>1. ASSUME NEW n \in 1 .. Cardinality(Blocks), AllocateAtomic(c, n) PROVE Ownership!Next
  BY Zenon, <1>1, TakeMaps DEF AllocateAtomic
<1>2. CASE DrainInactive(c)
  <2>1. {} \in SUBSET free /\ InactiveBlocks \in SUBSET InactiveBlocks
    BY Zenon
  <2> QED
    BY Zenon, <1>2, <2>1, TakeMaps DEF DrainInactive
<1>3. ASSUME NEW b \in Blocks, DropMutable(c, b) \/ DropComplete(c, b) PROVE Ownership!Next
  BY Zenon, <1>3, GiveBackMaps DEF DropMutable, DropComplete, arcVars
<1>4. ASSUME NEW b \in Blocks, ResetComplete(c, b) \/ \E h \in Hashes : Stage(c, b, h)
      PROVE  UNCHANGED Ownership!vars
  <2>1. guard[c][b] # "none" /\ state[b] \in {"Mutable", "Staged"} /\ UNCHANGED <<ref, block_id>>
    BY Zenon, <1>4, Access DEF ResetComplete, Stage, arcVars
  <2>2. \A d \in Clients, a \in Blocks : guard'[d][a] = "none" <=> guard[d][a] = "none"
    <3>1. PICK v \in {"mutable", "complete"} : guard' = [guard EXCEPT ![c][b] = v]
      BY Zenon, <1>4 DEF ResetComplete, Stage
    <3> QED
      BY <2>1, <3>1, ZenonT(40) DEF IInv, TypeOK
  <2>3. \A a \in Blocks : Writers(a)' = Writers(a) /\ Readers(a)' = Readers(a)
    BY Zenon, <2>1, <2>2 DEF Writers, Readers
  <2>4. \A a \in Blocks : Content(a)' = Content(a)
    <3>1. /\ state \in [Blocks -> SlotStates] /\ seq_hash \in [Blocks -> Hashes \cup {NoHash}]
          /\ \E s \in {"Mutable", "Staged"}, x \in Hashes \cup {NoHash} :
               state' = [state EXCEPT ![b] = s] /\ seq_hash' = [seq_hash EXCEPT ![b] = x]
      BY Zenon, <1>4 DEF ResetComplete, Stage, IInv, TypeOK
    <3> QED
      BY <2>1, <3>1 DEF Content
  <2> QED
    BY Zenon, <2>3, <2>4, StutterMaps
<1>5. ASSUME NEW b \in Blocks, NEW i \in Inners, RegisterPrimary(c, b, i) PROVE Ownership!Next
  <2>1. /\ block_id'[i] = b /\ state'[b] = "Primary"
        /\ \A k \in Inners : arc[k] # "none" => block_id'[k] = block_id[k]
        /\ \A a \in Blocks \ {b} : Content(a)' = Content(a)
    BY <1>5, HoldsTypes DEF RegisterPrimary, Content, TypeOK
  <2> QED
    BY ZenonT(40), <1>5, <2>1, PublishMaps DEF RegisterPrimary, Disarmed
<1>6. ASSUME NEW b \in Blocks, NEW p \in Inners, NEW i \in Inners, RegisterDuplicate(c, b, p, i)
      PROVE  Ownership!Next
  <2> DEFINE h == seq_hash[b]
  <2>1. h \in Hashes /\ Hit(h)
    <3>1. state[b] = "Staged"
      BY <1>6, HoldsTypes, HoldsGuards DEF RegisterDuplicate, TypeOK, ExclusiveGuards
    <3>2. h \in Hashes
      BY Zenon, <3>1 DEF IInv, PoolsMatchSlots
    <3> QED
      BY ZenonT(40), <1>6, <3>2 DEF RegisterDuplicate
  <2>2. Found(h) \in Blocks /\ state[Found(h)] \in {"Primary", "Inactive"}
    BY Zenon, <2>1, FoundBlock
  <2>3. /\ state' = [StateAfter(h) EXCEPT ![b] = "Duplicate"]
        /\ block_id' = [BlockIdAfter(h, p) EXCEPT ![i] = b]
        /\ arc[i] = "none" /\ i # p /\ Returns(h, p) /\ UNCHANGED seq_hash
    BY Zenon, <1>6 DEF RegisterDuplicate
  <2> HIDE DEF h
  <2>4. /\ block_id'[i] = b /\ state'[b] = "Duplicate"
        /\ \A k \in Inners : arc[k] # "none" => block_id'[k] = block_id[k]
    <3>1. block_id \in [Inners -> Blocks \cup {NoBlock}] /\ state \in [Blocks -> SlotStates]
      BY Zenon DEF IInv, TypeOK
    <3> QED
      BY <2>3, <3>1 DEF Returns, StateAfter, BlockIdAfter
  <2>5. \A a \in Blocks \ {b} : Content(a)' = Content(a)
    BY <2>2, <2>3, ZenonT(40) DEF StateAfter, Content, IInv, TypeOK
  <2> QED
    BY Zenon, <1>6, <2>4, <2>5, PublishMaps DEF RegisterDuplicate, Disarmed
<1>7. ASSUME NEW b \in Blocks, NEW p \in Inners, RegisterReject(c, b, p) PROVE Ownership!Next
  <2>1. seq_hash[b] \in Hashes
    BY <1>7, HoldsTypes, HoldsPools, HoldsGuards DEF RegisterReject, TypeOK, PoolsMatchSlots, ExclusiveGuards
  <2>2. \A d \in Clients, a \in Blocks : guard[d][a] = "none" <=> guard'[d][a] = "none"
    BY ZenonT(40), <1>7 DEF RegisterReject, Rearmed, IInv, TypeOK
  <2> QED
    BY Zenon, <1>7, <2>1, <2>2, AcquireMaps DEF RegisterReject
<1>8. ASSUME NEW i \in Inners, Clone(c, i) PROVE Ownership!Next
  <2>1. block_id[i] \in Blocks /\ state[block_id[i]] \in {"Primary", "Duplicate"}
    BY Zenon, <1>8 DEF Clone, IInv, TypeOK, ArcsMatchSlots, OwnsSlot
  <2>2. UNCHANGED <<state, seq_hash, block_id, guard>> /\ ref' = [ref EXCEPT ![c][i] = "held"]
    BY Zenon, <1>8 DEF Clone, slotVars, arcVars
  <2>3. \A a \in Blocks : Writers(a)' = Writers(a) /\ Content(a)' = Content(a)
    BY Zenon, <2>2 DEF Writers, Content
  <2> QED
    BY Zenon, <2>1, <2>2, <2>3, JoinMaps
<1>9. ASSUME NEW i \in Inners, DropRef(c, i) PROVE Ownership!Next
  BY Zenon, <1>9, LeaveMaps
<1>10. ASSUME NEW i \in Inners, MarkPresent(c, i) PROVE UNCHANGED Ownership!vars
  <2>1. /\ \A d \in Clients, k \in Inners : ref'[d][k] = "none" <=> ref[d][k] = "none"
        /\ UNCHANGED <<guard, block_id, state, seq_hash>>
    BY <1>10, ZenonT(40) DEF MarkPresent, slotVars, arcVars, IInv, TypeOK
  <2>2. \A a \in Blocks : /\ Writers(a)' = Writers(a) /\ Readers(a)' = Readers(a)
                          /\ Content(a)' = Content(a)
    BY Zenon, <2>1 DEF Writers, Readers, Content
  <2> QED
    BY ZenonT(40), <2>2, StutterMaps
<1>11. ASSUME UNCHANGED <<guard, ref, block_id, state, seq_hash>> PROVE UNCHANGED Ownership!vars
  BY Zenon, <1>11 DEF Ownership!vars, writersOf, readersOf, contentOf
<1>12. ASSUME NEW hashes \in Prompts, NEW scan \in BOOLEAN, BeginBatch(c, hashes, scan)
       PROVE  UNCHANGED Ownership!vars
  BY Zenon, <1>12, <1>11 DEF BeginBatch, slotVars, arcVars
<1>13. ASSUME NEW i \in Inners, NEW value \in BOOLEAN,
              SetEvictOnReset(c, i, value) \/ SetPrimaryResetOnRelease(c, i, value)
       PROVE  UNCHANGED Ownership!vars
  BY Zenon, <1>13, <1>11 DEF SetEvictOnReset, SetPrimaryResetOnRelease, arcVars
<1> QED
  BY Zenon, <1>1, <1>2, <1>3, <1>4, <1>5, <1>6, <1>7, <1>8, <1>9, <1>10, <1>12, <1>13 DEF ClientStep

-----------------------------------------------------------------------------
(***************************************************************************)
(* The initial state and every operation of the store keep the invariant.  *)
(***************************************************************************)
(* Each conjunct holds after a step that leaves alone what it speaks of. *)
LEMMA Undisturbed ==
  ASSUME IInv
  PROVE  /\ UNCHANGED <<state, seq_hash, free, inactive, active_by_hash>> => PoolsMatchSlots'
         /\ UNCHANGED <<inactive, active_by_hash>> => OneCanonical'
         /\ UNCHANGED <<state, guard>> => ExclusiveGuards'
         /\ UNCHANGED <<state, seq_hash, inner, arc, block_id, keepalive>> => ArcsMatchSlots'
         /\ UNCHANGED <<ref, arc>> => RefsAreLive'
         /\ UNCHANGED batch => BatchHolder'
<1>1. UNCHANGED <<state, seq_hash, free, inactive, active_by_hash>> => PoolsMatchSlots'
  BY HoldsPools DEF PoolsMatchSlots
<1>2. UNCHANGED <<inactive, active_by_hash>> => OneCanonical'
  BY Zenon DEF IInv, OneCanonical
<1>3. UNCHANGED <<state, guard>> => ExclusiveGuards'
  BY HoldsGuards DEF ExclusiveGuards
<1>4. UNCHANGED <<state, seq_hash, inner, arc, block_id, keepalive>> => ArcsMatchSlots'
  BY HoldsArcs DEF ArcsMatchSlots, OwnsSlot
<1>5. UNCHANGED <<ref, arc>> => RefsAreLive'
  BY Zenon DEF IInv, RefsAreLive
<1>6. UNCHANGED batch => BatchHolder'
  BY Zenon DEF IInv, BatchHolder
<1> QED
  BY Zenon, <1>1, <1>2, <1>3, <1>4, <1>5, <1>6

(* Where no guard changes and no block enters or leaves a slot that is being
   filled, the guards still match the slots. *)
LEMMA GuardsKept ==
  ASSUME IInv, UNCHANGED guard,
         \A b \in Blocks : state'[b] # state[b] => /\ state[b] \notin {"Mutable", "Staged"}
                                                  /\ state'[b] \notin {"Mutable", "Staged"}
  PROVE  ExclusiveGuards'
BY HoldsGuards DEF ExclusiveGuards

(* Where no reference changes and no live Arc ends, the references are live. *)
LEMMA RefsKept ==
  ASSUME IInv, UNCHANGED ref, \A i \in Inners : arc[i] = "live" => arc'[i] = "live"
  PROVE  RefsAreLive'
BY Zenon DEF IInv, RefsAreLive

(* A block that is being filled, and the one guard it has, move together: to
   Mutable, to Staged with a hash, or back to the reset pool
   (release_mutable, MutableBlock::stage, transition_back_to_mutable,
   release_staged). *)
LEMMA FillingKeeps ==
  ASSUME IInv, NEW c \in Clients, NEW b \in Blocks, guard[c][b] # "none",
         NEW v \in GuardKinds, NEW s \in {"Reset", "Mutable", "Staged"},
         NEW x \in Hashes \cup {NoHash},
         s = "Mutable" <=> v = "mutable", s = "Staged" <=> v \in {"complete", "rejected"},
         s = "Staged" => x \in Hashes,
         guard' = [guard EXCEPT ![c][b] = v], state' = [state EXCEPT ![b] = s],
         seq_hash' = [seq_hash EXCEPT ![b] = x],
         inner' \in {inner, [inner EXCEPT ![b] = NoInner]},
         s = "Reset" => free' = free \cup {b}, s # "Reset" => free' = free,
         reset_on_release' \in [Blocks -> BOOLEAN],
         UNCHANGED <<inactive, active_by_hash, arcVars, ref, batch, present, absent>>
  PROVE  IInv'
<1>0. state[b] \in {"Mutable", "Staged"}
  <2>1. guard[c][b] \in {"mutable", "complete", "rejected"}
    BY SMTT(20), HoldsTypes DEF TypeOK
  <2> QED
    BY Zenon, <2>1 DEF IInv, ExclusiveGuards
<1>1. UNCHANGED <<inactive, active_by_hash, arc, block_id, keepalive, ref, batch, present, absent>>
  BY Zenon DEF arcVars
<1>2. TypeOK'
  <2>1. state' \in [Blocks -> SlotStates] /\ seq_hash' \in [Blocks -> Hashes \cup {NoHash}]
    BY Zenon DEF IInv, TypeOK
  <2>2. inner' \in [Blocks -> Inners \cup {NoInner}] /\ free' \in SUBSET Blocks
    BY Zenon DEF IInv, TypeOK
  <2>3. guard' \in [Clients -> [Blocks -> GuardKinds]]
    BY Zenon DEF IInv, TypeOK
  <2> QED
    BY ZenonT(40), <1>1, <2>1, <2>2, <2>3 DEF IInv, TypeOK
<1>3. PoolsMatchSlots'
  <2>1. /\ PoolsMatchSlots /\ state \in [Blocks -> SlotStates]
        /\ seq_hash \in [Blocks -> Hashes \cup {NoHash}]
    BY Zenon DEF IInv, TypeOK
  <2> QED
    BY <1>0, <1>1, <2>1 DEF PoolsMatchSlots
<1>4. ExclusiveGuards'
  <2>1. /\ ExclusiveGuards /\ state \in [Blocks -> SlotStates]
        /\ guard \in [Clients -> [Blocks -> GuardKinds]]
    BY Zenon DEF IInv, TypeOK
  <2> QED
    BY <2>1 DEF ExclusiveGuards
<1>5. ArcsMatchSlots'
  <2>1. /\ ArcsMatchSlots /\ state \in [Blocks -> SlotStates]
        /\ inner \in [Blocks -> Inners \cup {NoInner}]
        /\ seq_hash \in [Blocks -> Hashes \cup {NoHash}]
    BY Zenon DEF IInv, TypeOK
  <2>2. /\ state'[b] = s /\ inner[b] = NoInner /\ inner'[b] = NoInner
        /\ \A a \in Blocks \ {b} : /\ state'[a] = state[a] /\ inner'[a] = inner[a]
                                   /\ seq_hash'[a] = seq_hash[a]
    BY <1>0, <2>1 DEF ArcsMatchSlots
  <2>3. ASSUME NEW a \in Blocks PROVE SlotNamesArc(a)'
    <3>1. SlotNamesArc(a) /\ (a # b => state'[a] = state[a] /\ inner'[a] = inner[a])
      BY Zenon, <2>1, <2>2 DEF ArcsMatchSlots
    <3> QED
      BY <1>1, <2>2, <3>1
  <2>4. ASSUME NEW k \in Inners PROVE ArcNamesSlot(k)'
    <3>1. OwnsSlot(k, "Primary") \/ OwnsSlot(k, "Duplicate") => block_id[k] # b
      BY Zenon, <1>0 DEF OwnsSlot
    <3>2. ArcNamesSlot(k) /\ (keepalive[k] \in Inners => ArcNamesSlot(keepalive[k]))
      BY Zenon, <2>1 DEF ArcsMatchSlots
    <3>3. keepalive[k] \in Inners \cup {NoInner}
      BY Zenon DEF IInv, TypeOK
    <3> QED
      BY <1>0, <1>1, <2>2, <3>1, <3>2, <3>3 DEF OwnsSlot
  <2> QED
    BY Zenon, <2>3, <2>4 DEF ArcsMatchSlots
<1>6. OneCanonical' /\ RefsAreLive' /\ BatchHolder'
  BY Zenon, <1>1, Undisturbed
<1> QED
  BY Zenon, <1>2, <1>3, <1>4, <1>5, <1>6 DEF IInv

(* Starting a batched lookup under the store lock keeps the invariant
   (match_blocks, scan_matches). *)
LEMMA BeginBatchStep ==
  ASSUME IInv, NEW c \in Clients, NEW hashes \in Prompts, NEW scan \in BOOLEAN, BeginBatch(c, hashes, scan)
  PROVE  IInv'
<1> USE DEF BeginBatch, slotVars, arcVars
<1>1. TypeOK'
  BY Zenon, ConstantsAssumption DEF IInv, TypeOK
<1>2. BatchHolder'
  BY Zenon DEF IInv, BatchHolder
<1>3. /\ PoolsMatchSlots' /\ OneCanonical' /\ ExclusiveGuards'
      /\ ArcsMatchSlots' /\ RefsAreLive'
  BY Zenon, Undisturbed
<1> QED
  BY Zenon, <1>1, <1>2, <1>3 DEF IInv

(* A hit of a prefix match keeps the invariant (match_prefix_locked_batch). *)
LEMMA BatchHitStep ==
  ASSUME IInv, NEW i \in Inners, BatchHit(i)
  PROVE  IInv'
<1> DEFINE h == Head(batch.rest)
<1> USE ConstantsAssumption
<1>1. h \in Hashes /\ Tail(batch.rest) \in Seq(Hashes) /\ batch.client \in Clients
  BY HoldsTypes, HoldsBatch DEF TypeOK, BatchHolder, BatchHit, NoBatch
<1>2. Acquire(h, i) /\ UNCHANGED <<seq_hash, free, reset_on_release, keepalive, guard, present, absent>>
  BY Zenon DEF BatchHit
<1>3. /\ ref' = [ref EXCEPT ![batch.client][i] = "held"]
      /\ batch' = [client |-> batch.client, scan |-> batch.scan, rest |-> Tail(batch.rest)]
  BY Zenon DEF BatchHit, NextHash
<1> HIDE DEF h
<1>4. TypeOK'
  BY Zenon, <1>1, <1>2, <1>3, AcquireKeeps DEF IInv, TypeOK
<1>5. PoolsMatchSlots' /\ OneCanonical' /\ ArcsMatchSlots'
  BY Zenon, <1>1, <1>2, AcquireKeeps
<1>6. ExclusiveGuards'
  BY Zenon, <1>1, <1>2, AcquireKeeps, GuardsKept
<1>7. RefsAreLive'
  BY <1>1, <1>2, <1>3, AcquireKeeps, HoldsRefs DEF RefsAreLive
<1>8. BatchHolder'
  BY Zenon, <1>1, <1>3 DEF BatchHolder
<1> QED
  BY Zenon, <1>4, <1>5, <1>6, <1>7, <1>8 DEF IInv

(* A hit of a scan keeps the invariant (promote_inactive). *)
LEMMA ScanHitStep ==
  ASSUME IInv, NEW i \in Inners, ScanHit(i)
  PROVE  IInv'
<1> DEFINE h == Head(batch.rest)
           b == inactive[h]
<1>1. h \in Hashes /\ Tail(batch.rest) \in Seq(Hashes) /\ batch.client \in Clients
  BY HoldsTypes, HoldsBatch DEF TypeOK, BatchHolder, ScanHit, NoBatch
<1>2. b \in Blocks /\ state[b] = "Inactive" /\ seq_hash[b] = h
  BY <1>1, HoldsTypes, HoldsPools DEF TypeOK, PoolsMatchSlots, ScanHit
<1>3. /\ arc[i] = "none"
      /\ state' = [state EXCEPT ![b] = "Primary"]
      /\ inner' = [inner EXCEPT ![b] = i]
      /\ active_by_hash' = [active_by_hash EXCEPT ![h] = b]
      /\ inactive' = [inactive EXCEPT ![h] = NoBlock]
      /\ arc' = [arc EXCEPT ![i] = "live"]
      /\ block_id' = [block_id EXCEPT ![i] = b]
      /\ ref' = [ref EXCEPT ![batch.client][i] = "held"]
      /\ batch' = [client |-> batch.client, scan |-> batch.scan, rest |-> Tail(batch.rest)]
      /\ UNCHANGED <<seq_hash, free, reset_on_release, keepalive, guard, present, absent>>
  BY Zenon DEF ScanHit, NextHash
<1> HIDE DEF h, b
<1>4. TypeOK'
  <2>1. batch' \in [client : Clients \cup {NoClient}, scan : BOOLEAN, rest : Seq(Hashes)]
    BY Zenon, <1>1, <1>3 DEF IInv, TypeOK
  <2>2. ref' \in [Clients -> [Inners -> RefKinds]]
    BY Zenon, <1>1, <1>3 DEF IInv, TypeOK
  <2> QED
    BY Zenon, <1>1, <1>2, <1>3, <2>1, <2>2 DEF IInv, TypeOK
<1>5. PoolsMatchSlots'
  <2>1. /\ PoolsMatchSlots /\ OneCanonical /\ state \in [Blocks -> SlotStates]
        /\ inactive \in [Hashes -> Blocks \cup {NoBlock}]
        /\ active_by_hash \in [Hashes -> Blocks \cup {NoBlock}]
    BY Zenon DEF IInv, TypeOK
  <2> QED
    BY <1>1, <1>2, <1>3, <2>1, ConstantsAssumption DEF PoolsMatchSlots, OneCanonical
<1>6. OneCanonical'
  BY Zenon, <1>1, <1>3 DEF IInv, TypeOK, OneCanonical
<1>7. ExclusiveGuards'
  BY Zenon, <1>2, <1>3, GuardsKept DEF IInv, TypeOK
<1>8. ArcsMatchSlots'
  BY <1>2, <1>3, HoldsTypes, HoldsArcs DEF TypeOK, ArcsMatchSlots, OwnsSlot
<1>9. RefsAreLive'
  BY <1>1, <1>3, ZenonT(40) DEF IInv, TypeOK, RefsAreLive
<1>10. BatchHolder'
  BY <1>1, <1>3, Zenon DEF BatchHolder
<1> QED
  BY Zenon, <1>4, <1>5, <1>6, <1>7, <1>8, <1>9, <1>10 DEF IInv

(* A miss of a scan keeps the invariant (promote_inactive). *)
LEMMA ScanMissStep ==
  ASSUME IInv, ScanMiss
  PROVE  IInv'
<1> USE DEF ScanMiss, NextHash, slotVars, arcVars
<1>1. TypeOK'
  <2>1. batch \in [client : Clients \cup {NoClient}, scan : BOOLEAN, rest : Seq(Hashes)]
    BY Zenon DEF IInv, TypeOK
  <2>2. batch' \in [client : Clients \cup {NoClient}, scan : BOOLEAN, rest : Seq(Hashes)]
    BY <2>1
  <2> QED
    BY Zenon, <2>2 DEF IInv, TypeOK
<1>2. BatchHolder'
  BY HoldsBatch DEF BatchHolder, NoBatch
<1>3. /\ PoolsMatchSlots' /\ OneCanonical' /\ ExclusiveGuards'
      /\ ArcsMatchSlots' /\ RefsAreLive'
  BY Zenon, Undisturbed
<1> QED
  BY Zenon, <1>1, <1>2, <1>3 DEF IInv

(* The end of a batched lookup, which unlocks the store, keeps the
   invariant. *)
LEMMA EndBatchStep ==
  ASSUME IInv, EndBatch
  PROVE  IInv'
<1> USE DEF EndBatch, NoBatch, slotVars, arcVars
<1>1. TypeOK'
  BY HoldsTypes DEF TypeOK
<1>2. BatchHolder'
  BY Zenon DEF IInv, BatchHolder
<1>3. /\ PoolsMatchSlots' /\ OneCanonical' /\ ExclusiveGuards'
      /\ ArcsMatchSlots' /\ RefsAreLive'
  BY Zenon, Undisturbed
<1> QED
  BY Zenon, <1>1, <1>2, <1>3 DEF IInv

(* Allocation keeps the invariant: free and evicted blocks become mutable
   (allocate_atomic, drain_inactive_to_mutable). *)
LEMMA TakeMutableStep ==
  ASSUME IInv, NEW c \in Clients, NEW R \in SUBSET free, NEW E \in SUBSET InactiveBlocks,
         TakeMutable(c, R, E)
  PROVE  IInv'
<1> USE DEF TakeMutable, OverrideTaken, arcVars, InactiveBlocks
<1>1. TypeOK'
  BY ConstantsAssumption, HoldsTypes DEF TypeOK
<1>2. PoolsMatchSlots'
  BY HoldsTypes, HoldsPools DEF TypeOK, PoolsMatchSlots
<1>3. OneCanonical'
  BY Zenon DEF IInv, TypeOK, OneCanonical
<1>4. ExclusiveGuards'
  <2>1. /\ PoolsMatchSlots /\ ExclusiveGuards /\ guard \in [Clients -> [Blocks -> GuardKinds]]
        /\ inactive \in [Hashes -> Blocks \cup {NoBlock}]
    BY Zenon DEF IInv, TypeOK
  <2> QED
    BY <2>1 DEF PoolsMatchSlots, ExclusiveGuards
<1>5. ArcsMatchSlots'
  BY HoldsTypes, HoldsArcs, HoldsPools DEF TypeOK, ArcsMatchSlots, PoolsMatchSlots, OwnsSlot
<1>6. RefsAreLive' /\ BatchHolder'
  BY Zenon, Undisturbed
<1> QED
  BY Zenon, <1>1, <1>2, <1>3, <1>4, <1>5, <1>6 DEF IInv

(* The initial state satisfies the invariant. *)
LEMMA InitIInv == Init => IInv
<1> SUFFICES ASSUME Init PROVE IInv
  BY Zenon
<1> USE DEF Init
<1>1. TypeOK
  BY ConstantsAssumption DEF TypeOK, NoBatch
<1>2. PoolsMatchSlots
  BY Zenon, ConstantsAssumption DEF PoolsMatchSlots
<1>3. OneCanonical
  BY Zenon DEF OneCanonical
<1>4. ExclusiveGuards
  BY Zenon DEF ExclusiveGuards
<1>5. ArcsMatchSlots
  BY Zenon, ConstantsAssumption DEF ArcsMatchSlots, OwnsSlot
<1>6. RefsAreLive
  BY Zenon, ConstantsAssumption DEF RefsAreLive
<1>7. BatchHolder
  BY Zenon DEF BatchHolder
<1> QED
  BY Zenon, <1>1, <1>2, <1>3, <1>4, <1>5, <1>6, <1>7 DEF IInv

(* Registering the first copy of a hash keeps the invariant
   (register_completed_block). *)
LEMMA RegisterPrimaryStep ==
  ASSUME IInv, NEW c \in Clients, NEW b \in Blocks, NEW i \in Inners, RegisterPrimary(c, b, i)
  PROVE  IInv'
<1> USE DEF RegisterPrimary, Hit, Disarmed
<1>1. TypeOK'
  BY Zenon, ConstantsAssumption DEF IInv, TypeOK
<1>2. PoolsMatchSlots'
  BY ConstantsAssumption, HoldsTypes, HoldsPools, HoldsGuards DEF TypeOK, PoolsMatchSlots, ExclusiveGuards
<1>3. OneCanonical'
  BY Zenon DEF IInv, OneCanonical, TypeOK
<1>4. ExclusiveGuards'
  <2>1. /\ ExclusiveGuards /\ guard \in [Clients -> [Blocks -> GuardKinds]]
        /\ state \in [Blocks -> SlotStates]
    BY Zenon DEF IInv, TypeOK
  <2> QED
    BY <2>1 DEF ExclusiveGuards
<1>5. ArcsMatchSlots'
  BY ConstantsAssumption, HoldsTypes, HoldsPools, HoldsArcs
     DEF TypeOK, PoolsMatchSlots, ArcsMatchSlots, OwnsSlot
<1>6. RefsAreLive'
  BY Zenon DEF IInv, TypeOK, RefsAreLive
<1>7. BatchHolder'
  BY Zenon, Undisturbed
<1> QED
  BY Zenon, <1>1, <1>2, <1>3, <1>4, <1>5, <1>6, <1>7 DEF IInv

(* Registering a further copy under Reject keeps the invariant: the client
   shares the primary and the copy is given back. *)
LEMMA RegisterRejectStep ==
  ASSUME IInv, NEW c \in Clients, NEW b \in Blocks, NEW p \in Inners, RegisterReject(c, b, p)
  PROVE  IInv'
<1> DEFINE h == seq_hash[b]
<1>1. h \in Hashes /\ state[b] = "Staged" /\ guard[c][b] = "complete"
  BY HoldsPools, HoldsGuards DEF PoolsMatchSlots, ExclusiveGuards, RegisterReject
<1>2. /\ Acquire(h, p)
      /\ guard' = [guard EXCEPT ![c][b] = "rejected"]
      /\ ref' = [ref EXCEPT ![c][p] = "held"]
      /\ UNCHANGED <<seq_hash, free, reset_on_release, keepalive, batch, present, absent>>
  BY Zenon DEF RegisterReject, Rearmed
<1> HIDE DEF h
<1>3. TypeOK'
  BY Zenon, <1>1, <1>2, AcquireKeeps DEF IInv, TypeOK
<1>4. PoolsMatchSlots' /\ OneCanonical' /\ ArcsMatchSlots'
  BY Zenon, <1>1, <1>2, AcquireKeeps
<1>5. ExclusiveGuards'
  BY <1>1, <1>2, AcquireKeeps, HoldsGuards DEF ExclusiveGuards
<1>6. RefsAreLive'
  BY <1>1, <1>2, AcquireKeeps, HoldsRefs DEF RefsAreLive
<1>7. BatchHolder'
  BY Zenon, <1>2 DEF IInv, BatchHolder
<1> QED
  BY Zenon, <1>3, <1>4, <1>5, <1>6, <1>7 DEF IInv

(* Raising a presence marker outside the lock keeps the invariant
   (mark_present). *)
LEMMA MarkPresentStep ==
  ASSUME IInv, NEW c \in Clients, NEW i \in Inners, MarkPresent(c, i)
  PROVE  IInv'
<1> USE DEF MarkPresent, slotVars, arcVars
<1>0. seq_hash[block_id[i]] \in Hashes
  BY Zenon DEF IInv, PoolsMatchSlots, ArcsMatchSlots, RefsAreLive, OwnsSlot
<1>1. TypeOK'
  BY <1>0, HoldsTypes DEF TypeOK
<1>2. RefsAreLive'
  BY ZenonT(40) DEF IInv, RefsAreLive, TypeOK
<1>3. /\ PoolsMatchSlots' /\ OneCanonical' /\ ExclusiveGuards'
      /\ ArcsMatchSlots' /\ BatchHolder'
  BY Zenon, Undisturbed
<1> QED
  BY Zenon, <1>1, <1>2, <1>3 DEF IInv

(* Lowering a presence marker outside the lock keeps the invariant
   (mark_absent). *)
LEMMA MarkAbsentStep ==
  ASSUME IInv, NEW h \in Hashes, MarkAbsent(h)
  PROVE  IInv'
<1> USE DEF MarkAbsent, Lowered, slotVars, arcVars
<1>1. TypeOK'
  BY HoldsTypes DEF TypeOK
<1>2. /\ PoolsMatchSlots' /\ OneCanonical' /\ ExclusiveGuards' /\ ArcsMatchSlots'
      /\ RefsAreLive' /\ BatchHolder'
  BY Zenon, Undisturbed
<1> QED
  BY Zenon, <1>1, <1>2 DEF IInv

(* Cloning a reference, or upgrading a weak one, keeps the invariant. *)
LEMMA CloneStep ==
  ASSUME IInv, NEW c \in Clients, NEW i \in Inners, Clone(c, i)
  PROVE  IInv'
<1> USE DEF Clone, slotVars, arcVars
<1>1. TypeOK'
  BY Zenon DEF IInv, TypeOK
<1>2. RefsAreLive'
  BY ZenonT(40) DEF IInv, RefsAreLive, TypeOK
<1>3. /\ PoolsMatchSlots' /\ OneCanonical' /\ ExclusiveGuards'
      /\ ArcsMatchSlots' /\ BatchHolder'
  BY Zenon, Undisturbed
<1> QED
  BY Zenon, <1>1, <1>2, <1>3 DEF IInv

(* Dropping a reference keeps the invariant: the last one leaves an Arc
   whose Drop body is to run. *)
LEMMA DropRefStep ==
  ASSUME IInv, NEW c \in Clients, NEW i \in Inners, DropRef(c, i)
  PROVE  IInv'
<1> USE DEF DropRef, OtherClient, OtherKeepalive, slotVars
<1>1. TypeOK'
  BY Zenon DEF IInv, TypeOK
<1>2. ArcsMatchSlots'
  <2>1. ArcsMatchSlots /\ RefsAreLive
    BY Zenon DEF IInv
  <2> QED
    BY <2>1, ConstantsAssumption DEF ArcsMatchSlots, RefsAreLive, OwnsSlot
<1>3. RefsAreLive'
  <2>1. RefsAreLive /\ ref \in [Clients -> [Inners -> RefKinds]] /\ arc \in [Inners -> ArcLife]
    BY Zenon DEF IInv, TypeOK
  <2> QED
    BY <2>1 DEF RefsAreLive
<1>4. PoolsMatchSlots' /\ OneCanonical' /\ ExclusiveGuards' /\ BatchHolder'
  BY Zenon, Undisturbed
<1> QED
  BY Zenon, <1>1, <1>2, <1>3, <1>4 DEF IInv

(* The Drop body of a primary whose slot another client revived keeps the
   invariant: it does nothing (release_primary). *)
LEMMA ReleasePrimaryNoopStep ==
  ASSUME IInv, NEW i \in Inners, ReleasePrimaryNoop(i)
  PROVE  IInv'
<1> USE DEF ReleasePrimaryNoop, FreeArc, slotVars, OwnsSlot
<1>1. TypeOK'
  BY Zenon DEF IInv, TypeOK
<1>2. ArcsMatchSlots'
  <2>1. ArcsMatchSlots /\ arc \in [Inners -> ArcLife] /\ block_id \in [Inners -> Blocks \cup {NoBlock}]
    BY Zenon DEF IInv, TypeOK
  <2> QED
    BY <2>1 DEF ArcsMatchSlots
<1>3. RefsAreLive'
  BY ZenonT(40) DEF IInv, RefsAreLive, TypeOK
<1>4. PoolsMatchSlots' /\ OneCanonical' /\ ExclusiveGuards' /\ BatchHolder'
  BY Zenon, Undisturbed
<1> QED
  BY Zenon, <1>1, <1>2, <1>3, <1>4 DEF IInv

(* The Drop body of a primary that resets its block keeps the invariant
   (release_primary). *)
LEMMA ReleasePrimaryResetStep ==
  ASSUME IInv, NEW i \in Inners, ReleasePrimaryReset(i)
  PROVE  IInv'
<1> USE DEF ReleasePrimaryReset, FreeArc, ResetSlot, Deactivate, OweMarkAbsent, OwnsSlot
<1>0. block_id[i] \in Blocks /\ seq_hash[block_id[i]] \in Hashes
  BY Zenon DEF IInv, PoolsMatchSlots, ArcsMatchSlots
<1>a. absent' \in [Hashes -> Nat]
  <2>1. absent \in [Hashes -> Nat] /\ absent' = [absent EXCEPT ![seq_hash[block_id[i]]] = @ + 1]
    BY Zenon DEF IInv, TypeOK
  <2> QED
    BY <2>1, <1>0
<1>1. TypeOK'
  BY Zenon, <1>0, <1>a DEF IInv, TypeOK
<1>2. PoolsMatchSlots'
  BY <1>0, HoldsTypes, HoldsPools DEF TypeOK, PoolsMatchSlots
<1>3. OneCanonical'
  BY Zenon DEF IInv, OneCanonical, TypeOK
<1>4. ExclusiveGuards'
  BY ZenonT(40), GuardsKept DEF IInv, TypeOK
<1>5. ArcsMatchSlots'
  <2>1. \A a \in Blocks \ {block_id[i]} : seq_hash'[a] = seq_hash[a]
    BY Zenon DEF IInv, TypeOK
  <2> QED
    BY ZenonT(40), <2>1, PrimaryLeaves
<1>6. RefsAreLive'
  BY Zenon, RefsKept DEF IInv, TypeOK
<1>7. BatchHolder'
  BY Zenon, Undisturbed
<1> QED
  BY ZenonT(40), <1>1, <1>2, <1>3, <1>4, <1>5, <1>6, <1>7 DEF IInv

(* The Drop body of a primary that caches its block keeps the invariant
   (release_primary). *)
LEMMA ReleasePrimaryInactiveStep ==
  ASSUME IInv, NEW i \in Inners, ReleasePrimaryInactive(i)
  PROVE  IInv'
<1> USE DEF ReleasePrimaryInactive, FreeArc, Deactivate, OwnsSlot
<1>0. /\ block_id[i] \in Blocks /\ seq_hash[block_id[i]] \in Hashes
      /\ inactive[seq_hash[block_id[i]]] = NoBlock
  BY ConstantsAssumption, HoldsPools, HoldsCanonical, HoldsArcs
     DEF PoolsMatchSlots, OneCanonical, ArcsMatchSlots
<1>1. TypeOK'
  BY Zenon, ConstantsAssumption DEF IInv, TypeOK
<1>2. PoolsMatchSlots'
  BY ConstantsAssumption, <1>0, HoldsTypes, HoldsPools DEF TypeOK, PoolsMatchSlots
<1>3. OneCanonical'
  BY Zenon DEF IInv, TypeOK, OneCanonical
<1>4. ExclusiveGuards'
  BY ZenonT(40), GuardsKept DEF IInv, TypeOK
<1>5. ArcsMatchSlots'
  <2>1. \A a \in Blocks \ {block_id[i]} : seq_hash'[a] = seq_hash[a]
    BY Zenon DEF IInv, TypeOK
  <2> QED
    BY ZenonT(40), <2>1, PrimaryLeaves
<1>6. RefsAreLive'
  BY Zenon, RefsKept DEF IInv, TypeOK
<1>7. BatchHolder'
  BY Zenon, Undisturbed
<1> QED
  BY ZenonT(40), <1>1, <1>2, <1>3, <1>4, <1>5, <1>6, <1>7 DEF IInv

(* The Drop body of a duplicate keeps the invariant: its block is reset
   (release_duplicate). *)
LEMMA ReleaseDuplicateStep ==
  ASSUME IInv, NEW i \in Inners, ReleaseDuplicate(i)
  PROVE  IInv'
<1> DEFINE b == block_id[i]
<1> USE ConstantsAssumption
<1>1. /\ b \in Blocks /\ state[b] = "Duplicate" /\ inner[b] = i /\ seq_hash[b] \in Hashes
      /\ arc[i] = "dropping" /\ keepalive[i] # NoInner
  BY Zenon DEF IInv, PoolsMatchSlots, ArcsMatchSlots, OwnsSlot, ReleaseDuplicate
<1>2. /\ ResetSlot(b) /\ OweMarkAbsent(seq_hash[b])
      /\ arc' = [arc EXCEPT ![i] = "fields"]
      /\ UNCHANGED <<inactive, active_by_hash, reset_on_release, block_id, keepalive,
                     guard, ref, batch, present>>
  BY Zenon, <1>1 DEF ReleaseDuplicate, OwnsSlot
<1> USE DEF ResetSlot, OweMarkAbsent
<1> HIDE DEF b
<1>3. TypeOK'
  <2>1. absent' \in [Hashes -> Nat]
    <3>1. absent \in [Hashes -> Nat] /\ absent' = [absent EXCEPT ![seq_hash[b]] = @ + 1]
      BY Zenon, <1>2 DEF IInv, TypeOK
    <3> QED
      BY <1>1, <3>1
  <2> QED
    BY ZenonT(40), <1>1, <1>2, <2>1 DEF IInv, TypeOK
<1>4. PoolsMatchSlots' /\ OneCanonical'
  BY <1>1, <1>2, HoldsTypes, HoldsPools, HoldsCanonical DEF TypeOK, PoolsMatchSlots, OneCanonical
<1>5. ExclusiveGuards'
  BY ZenonT(40), <1>1, <1>2, GuardsKept DEF IInv, TypeOK
<1>6. ArcsMatchSlots'
  BY ZenonT(40), <1>1, <1>2, DuplicateLeaves DEF OwnsSlot, b
<1>7. RefsAreLive'
  BY Zenon, <1>1, <1>2, RefsKept DEF IInv, TypeOK
<1>8. BatchHolder'
  BY Zenon, <1>2 DEF IInv, BatchHolder
<1> QED
  BY Zenon, <1>3, <1>4, <1>5, <1>6, <1>7, <1>8 DEF IInv

(* The drop of a duplicate's keepalive, the last field to go, keeps the
   invariant. *)
LEMMA DropKeepaliveStep ==
  ASSUME IInv, NEW i \in Inners, DropKeepalive(i)
  PROVE  IInv'
<1> USE DEF DropKeepalive, slotVars
<1>1. TypeOK'
  BY ZenonT(40) DEF IInv, TypeOK
<1>2. ArcsMatchSlots'
  BY Zenon, KeepaliveGoes
<1>3. RefsAreLive'
  <2>1. ASSUME NEW k \in Inners, arc[k] = "live", ~LastReference(i, k) PROVE arc'[k] = "live"
    BY Zenon, <2>1 DEF IInv, TypeOK
  <2>2. ASSUME NEW c \in Clients, NEW k \in Inners, ref[c][k] # "none" PROVE ~LastReference(i, k)
    BY Zenon, <2>2, ConstantsAssumption DEF LastReference, OtherClient
  <2> QED
    BY Zenon, <2>1, <2>2 DEF IInv, RefsAreLive
<1>4. PoolsMatchSlots' /\ OneCanonical' /\ ExclusiveGuards' /\ BatchHolder'
  BY Zenon, Undisturbed
<1> QED
  BY Zenon, <1>1, <1>2, <1>3, <1>4 DEF IInv

(* Setting the reset-on-release override of a block keeps the invariant
   (set_evict_on_reset). *)
LEMMA SetEvictOnResetStep ==
  ASSUME IInv, NEW c \in Clients, NEW i \in Inners, NEW value \in BOOLEAN, SetEvictOnReset(c, i, value)
  PROVE  IInv'
<1> USE DEF SetEvictOnReset, arcVars
<1>1. TypeOK'
  BY Zenon, ConstantsAssumption DEF IInv, TypeOK
<1>2. /\ PoolsMatchSlots' /\ OneCanonical' /\ ExclusiveGuards' /\ ArcsMatchSlots'
      /\ RefsAreLive' /\ BatchHolder'
  BY Zenon, Undisturbed
<1> QED
  BY Zenon, <1>1, <1>2 DEF IInv

(* Setting the override of the canonical primary keeps the invariant
   (set_primary_reset_on_release). *)
LEMMA SetPrimaryResetOnReleaseStep ==
  ASSUME IInv, NEW c \in Clients, NEW i \in Inners, NEW value \in BOOLEAN,
         SetPrimaryResetOnRelease(c, i, value)
  PROVE  IInv'
<1> USE DEF SetPrimaryResetOnRelease, arcVars
<1>1. TypeOK'
  BY Zenon, ConstantsAssumption DEF IInv, TypeOK
<1>2. /\ PoolsMatchSlots' /\ OneCanonical' /\ ExclusiveGuards' /\ ArcsMatchSlots'
      /\ RefsAreLive' /\ BatchHolder'
  BY Zenon, Undisturbed
<1> QED
  BY Zenon, <1>1, <1>2 DEF IInv

(* Every step keeps the invariant. *)
LEMMA NextIInv == IInv /\ [Next]_vars => IInv'
<1> SUFFICES ASSUME IInv, [Next]_vars PROVE IInv'
  BY ZenonT(40)
<1>1. CASE UNCHANGED vars
  <2>1. /\ UNCHANGED <<state, seq_hash, inner, free, inactive, active_by_hash, reset_on_release>>
        /\ UNCHANGED <<arc, block_id, keepalive, guard, ref, batch, present, absent>>
    BY Zenon, <1>1 DEF vars, slotVars, arcVars
  <2>2. TypeOK'
    BY Zenon, <2>1 DEF IInv, TypeOK
  <2>3. /\ PoolsMatchSlots' /\ OneCanonical' /\ ExclusiveGuards' /\ ArcsMatchSlots'
        /\ RefsAreLive' /\ BatchHolder'
    BY Zenon, <2>1, Undisturbed
  <2> QED
    BY Zenon, <2>2, <2>3 DEF IInv
<1>2. ASSUME NEW c \in Clients, ClientStep(c) PROVE IInv'
  <2>1. ASSUME NEW n \in 1 .. Cardinality(Blocks), AllocateAtomic(c, n) PROVE IInv'
    BY Zenon, <2>1, TakeMutableStep DEF AllocateAtomic
  <2>2. CASE DrainInactive(c)
    <3>1. {} \in SUBSET free /\ InactiveBlocks \in SUBSET InactiveBlocks
      BY Zenon
    <3> QED
      BY Zenon, <2>2, <3>1, TakeMutableStep DEF DrainInactive
  <2>3. ASSUME NEW hashes \in Prompts, NEW scan \in BOOLEAN, BeginBatch(c, hashes, scan)
        PROVE  IInv'
    BY Zenon, <2>3, BeginBatchStep
  <2>4. ASSUME NEW b \in Blocks,
               \/ DropMutable(c, b) \/ ResetComplete(c, b) \/ DropComplete(c, b)
               \/ \E h \in Hashes : Stage(c, b, h)
               \/ \E i \in Inners : RegisterPrimary(c, b, i) \/ RegisterReject(c, b, i)
               \/ \E p, i \in Inners : RegisterDuplicate(c, b, p, i)
        PROVE  IInv'
    <3>1. ASSUME DropMutable(c, b) \/ DropComplete(c, b) PROVE IInv'
      <4>1. /\ guard[c][b] # "none" /\ guard' = [guard EXCEPT ![c][b] = "none"] /\ ResetSlot(b)
            /\ UNCHANGED <<inactive, active_by_hash, reset_on_release, arcVars, ref, batch, present, absent>>
        BY Zenon, <3>1 DEF DropMutable, DropComplete
      <4>2. reset_on_release' \in [Blocks -> BOOLEAN]
        BY Zenon, <4>1 DEF IInv, TypeOK
      <4> QED
        BY ZenonT(40), <4>1, <4>2, FillingKeeps DEF ResetSlot
    <3>2. ASSUME ResetComplete(c, b) PROVE IInv'
      <4>1. reset_on_release' \in [Blocks -> BOOLEAN]
        BY Zenon, <3>2, ConstantsAssumption DEF ResetComplete, OverrideTaken, IInv, TypeOK
      <4> QED
        BY ZenonT(40), <3>2, <4>1, FillingKeeps DEF ResetComplete
    <3>3. ASSUME NEW h \in Hashes, Stage(c, b, h) PROVE IInv'
      BY ZenonT(40), <3>3, FillingKeeps DEF Stage, IInv, TypeOK
    <3> QED
      BY Zenon, <2>4, <3>1, <3>2, <3>3, RegisterPrimaryStep, RegisterRejectStep,
         RegisterDuplicateStep
  <2>5. ASSUME NEW i \in Inners,
               \/ Clone(c, i) \/ DropRef(c, i) \/ MarkPresent(c, i)
               \/ \E value \in BOOLEAN :
                    SetEvictOnReset(c, i, value) \/ SetPrimaryResetOnRelease(c, i, value)
        PROVE  IInv'
    BY Zenon, <2>5, CloneStep, DropRefStep, MarkPresentStep, SetEvictOnResetStep,
       SetPrimaryResetOnReleaseStep
  <2> QED
    BY Zenon, <1>2, <2>1, <2>2, <2>3, <2>4, <2>5 DEF ClientStep
<1>3. CASE BatchStep
  BY Zenon, <1>3, BatchHitStep, ScanHitStep, ScanMissStep, EndBatchStep DEF BatchStep
<1>4. ASSUME NEW i \in Inners, ReleaseStep(i) PROVE IInv'
  BY Zenon, <1>4, ReleasePrimaryNoopStep, ReleasePrimaryResetStep, ReleasePrimaryInactiveStep,
     ReleaseDuplicateStep, DropKeepaliveStep DEF ReleaseStep
<1>5. ASSUME NEW h \in Hashes, MarkAbsent(h) PROVE IInv'
  BY Zenon, <1>5, MarkAbsentStep
<1> QED
  BY Zenon, <1>1, <1>2, <1>3, <1>4, <1>5 DEF Next

-----------------------------------------------------------------------------
(***************************************************************************)
(* What the store guarantees.                                              *)
(***************************************************************************)
(* IInv holds in every reachable state of the store, whatever the order of
   allocations, lookups, registrations and late Drop bodies. *)
THEOREM InductiveInvariant == Spec => []IInv
<1>1. Init => IInv
  BY Zenon, InitIInv
<1>2. IInv /\ [Next]_vars => IInv'
  BY Zenon, NextIInv
<1> QED
  BY <1>1, <1>2, PTL DEF Spec

(* Nothing dangles.  A strong reference, of a client or of a duplicate's   *)
(* keepalive, is to an allocation that is live; a slot's Weak is to one of *)
(* that very block, live or in its Drop body; and an address that is free  *)
(* to be reused is named by no slot, reference or keepalive, so that the   *)
(* self_ptr test of release_primary and release_duplicate cannot take a    *)
(* new allocation for the old one.                                         *)
THEOREM NothingDangles == Spec => [](RefsAreLive /\ ArcsMatchSlots)
<1>1. IInv => RefsAreLive /\ ArcsMatchSlots
  BY Zenon DEF IInv
<1> QED
  BY <1>1, InductiveInvariant, PTL

(* The pools and indices agree with the slots, and a hash has one canonical *)
(* block at most: the lookups of store.rs never reach a panic.             *)
THEOREM StoreConsistent == Spec => [](PoolsMatchSlots /\ OneCanonical)
<1>1. IInv => PoolsMatchSlots /\ OneCanonical
  BY Zenon DEF IInv
<1> QED
  BY <1>1, InductiveInvariant, PTL

(* One guard per block being filled, of the kind its slot says. *)
THEOREM GuardsExclusive == Spec => []ExclusiveGuards
<1>1. IInv => ExclusiveGuards
  BY Zenon DEF IInv
<1> QED
  BY <1>1, InductiveInvariant, PTL

(* A referenced block keeps its slot, whatever late Drop bodies do. *)
THEOREM ReadersPin == Spec => []ReadersPinBlock
<1>1. IInv => ReadersPinBlock
  BY ZenonT(40), ConstantsAssumption DEF IInv, TypeOK, ArcsMatchSlots, ReadersPinBlock
<1> QED
  BY <1>1, InductiveInvariant, PTL

(* While a duplicate exists its primary is active and bears the same hash. *)
THEOREM DuplicateSafe == Spec => []DuplicateKeepsPrimary
<1>1. IInv => DuplicateKeepsPrimary
  <2> SUFFICES ASSUME IInv, NEW b \in Blocks, state[b] = "Duplicate",
                      NEW p, p = keepalive[inner[b]]
               PROVE  /\ p \in Inners
                      /\ arc[p] = "live" /\ OwnsSlot(p, "Primary")
                      /\ seq_hash[block_id[p]] = seq_hash[b]
    BY Zenon DEF DuplicateKeepsPrimary
  <2>1. inner[b] \in Inners /\ arc[inner[b]] \in {"live", "dropping"} /\ block_id[inner[b]] = b
    BY Zenon DEF IInv, ArcsMatchSlots
  <2>2. SlotNamesArc(b) /\ ArcNamesSlot(inner[b])
    BY Zenon, <2>1 DEF IInv, ArcsMatchSlots
  <2>3. keepalive[inner[b]] \in Inners \cup {NoInner}
    BY Zenon, <2>1 DEF IInv, TypeOK
  <2>4. p \in Inners
    BY <2>1, <2>2, <2>3, Zenon
  <2>5. ArcNamesSlot(p)
    BY Zenon, <2>4 DEF IInv, ArcsMatchSlots
  <2> QED
    BY <2>1, <2>2, <2>4, <2>5, Zenon
<1> QED
  BY <1>1, InductiveInvariant, PTL

(* An opted-out block is never cached, and a new tenant starts from the    *)
(* store's default.                                                        *)
THEOREM OverrideSafe == Spec => [](OptOutNeverCached /\ FreshTenantDefault)
<1>1. Init => OverrideInv
  BY Zenon DEF Init, OverrideInv, OptOutNeverCached, FreshTenantDefault
<1>2. IInv /\ OverrideInv /\ [Next]_vars => OverrideInv'
  BY Zenon, OverrideStep
<1>3. OverrideInv => OptOutNeverCached /\ FreshTenantDefault
  BY Zenon DEF OverrideInv
<1> QED
  BY <1>1, <1>2, <1>3, InductiveInvariant, PTL DEF Spec

(* The slot of a referenced block never changes under its readers.         *)
THEOREM ReadersSafe == Spec => ReadersUndisturbed
<1>1. IInv /\ IInv' /\ [Next]_vars => SlotKept
  BY Zenon, SlotStep
<1> QED
  BY <1>1, InductiveInvariant, PTL DEF Spec, ReadersUndisturbed, SlotKept

(* The store implements the ownership discipline: one writer, no writer    *)
(* next to a reader, unchanged content while a block is read.              *)
THEOREM Refinement == Spec => ImplementsOwnership
<1>1. Init => Ownership!Init
  BY DEF Init, Ownership!Init, writersOf, readersOf, contentOf
<1>2. IInv /\ IInv' /\ [Next]_vars => [Ownership!Next]_(Ownership!vars)
  <2> SUFFICES ASSUME IInv, IInv', [Next]_vars
               PROVE  Ownership!Next \/ UNCHANGED Ownership!vars
    BY Zenon
  <2>1. ASSUME UNCHANGED <<guard, ref, block_id, state, seq_hash>>
        PROVE  UNCHANGED Ownership!vars
    BY Zenon, <2>1 DEF Ownership!vars, writersOf, readersOf, contentOf
  <2>2. CASE UNCHANGED vars
    BY Zenon, <2>1, <2>2 DEF vars, slotVars, arcVars
  <2>3. ASSUME NEW h \in Hashes, MarkAbsent(h) PROVE UNCHANGED Ownership!vars
    BY Zenon, <2>1, <2>3 DEF MarkAbsent, slotVars, arcVars
  <2> QED
    BY Zenon, <2>2, <2>3, ClientMaps, BatchMaps, ReleaseMaps DEF Next
<1> QED
  BY <1>1, <1>2, InductiveInvariant, PTL DEF Spec, ImplementsOwnership, Ownership!Spec
=============================================================================
