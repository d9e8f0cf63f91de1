---------------------------- MODULE BlockRegistry ----------------------------
(***************************************************************************)
(* The registry of kvbm-logical (registry/mod.rs, handle.rs, prt.rs): the  *)
(* map from a sequence hash to a Weak pointer to its registration handle,  *)
(* and the Create and Remove events that its handles emit (events/         *)
(* manager.rs, protocol.rs).                                               *)
(*                                                                         *)
(* One action is one critical section of the position lock that prefix()   *)
(* takes, or one step outside of it: dropping a clone of the handle,       *)
(* running the Drop body of the inner, dropping the inner's fields.  The   *)
(* last two come after the strong count has reached zero, so registrations *)
(* of the same hash interleave with them.                                  *)
(*                                                                         *)
(* Abstractions.  The clones of one handle held by one owner (a thread, or *)
(* a slot of a block store) count as one.  A member of Handles is the      *)
(* address of a BlockRegistrationHandleInner: it may be allocated again    *)
(* once the inner is gone and no entry holds a Weak to it.  The frequency  *)
(* tracker and the touch callbacks are left out.                           *)
(***************************************************************************)
EXTENDS Naturals, Sequences, FiniteSets

CONSTANTS Hashes,        \* sequence hashes
          Handles,       \* addresses of BlockRegistrationHandleInner
          Owners,        \* whoever holds a clone of a handle
          Emitted,       \* hashes for which EventEmissionPolicy::should_emit
          NoHandle, NoHash,
          MaxEvents      \* bound on the Create events of a behaviour

ASSUME RegistryAssumption ==
    /\ NoHandle \notin Handles
    /\ NoHash \notin Hashes
    /\ Emitted \subseteq Hashes
    /\ MaxEvents \in Nat

VARIABLES prt,           \* PositionalRadixTree: hash -> Weak inner, or NoHandle
          open,          \* the registry's Arc<PositionalRadixTree> is alive
          life,          \* where the inner is in its life
          seqHash,       \* BlockRegistrationHandleInner::seq_hash
          holders,       \* who holds a clone
          release,       \* an EventReleaseHandle is attached
          events         \* what the broadcast channel has carried so far

vars == <<prt, open, life, seqHash, holders, release, events>>

\* "Dropping": the strong count is zero, Drop::drop has not run.
\* "Fields": Drop::drop has run, the attachments are not dropped yet.
Lives == {"Free", "Live", "Dropping", "Fields"}

Event(kind, h) == [kind |-> kind, hash |-> h]

Events == [kind : {"Create", "Remove"}, hash : Hashes]

\* Only an inner that somebody holds has a positive strong count.
HeldIsLive == \A a \in Handles : holders[a] # {} <=> life[a] = "Live"

TypeOK ==
    /\ prt \in [Hashes -> Handles \cup {NoHandle}]
    /\ open \in BOOLEAN
    /\ life \in [Handles -> Lives]
    /\ seqHash \in [Handles -> Hashes \cup {NoHash}]
    /\ holders \in [Handles -> SUBSET Owners]
    /\ release \in [Handles -> BOOLEAN]
    /\ events \in Seq(Events)
    /\ HeldIsLive

Count(kind, h) == Cardinality({n \in DOMAIN events : events[n] = Event(kind, h)})

Created == Cardinality({n \in DOMAIN events : events[n].kind = "Create"})

-----------------------------------------------------------------------------

Init ==
    /\ prt = [h \in Hashes |-> NoHandle]
    /\ open = TRUE
    /\ life = [a \in Handles |-> "Free"]
    /\ seqHash = [a \in Handles |-> NoHash]
    /\ holders = [a \in Handles |-> {}]
    /\ release = [a \in Handles |-> FALSE]
    /\ events = <<>>

\* Weak::upgrade of the entry of h succeeds and gives a.
Upgrades(h, a) == open /\ prt[h] = a /\ life[a] = "Live"

\* The inner at a is gone and no Weak keeps its memory.
Reusable(a) == life[a] = "Free" /\ \A h \in Hashes : prt[h] # a

\* register_sequence_hash, match_sequence_hash: the entry upgrades.
Existing(o, h, a) ==
    /\ Upgrades(h, a)
    /\ holders' = [holders EXCEPT ![a] = @ \cup {o}]
    /\ UNCHANGED <<prt, open, life, seqHash, release, events>>

\* EventsManager::on_block_registered
Attaches_Never(h) == h = NoHash
Attaches(h) == h \in Emitted

\* register_sequence_hash: no entry, or a Weak whose inner is being dropped.
RegisterNew(o, h, a) ==
    /\ open
    /\ \A b \in Handles : ~Upgrades(h, b)
    /\ Reusable(a)
    /\ Created < MaxEvents
    /\ prt' = [prt EXCEPT ![h] = a]
    /\ life' = [life EXCEPT ![a] = "Live"]
    /\ seqHash' = [seqHash EXCEPT ![a] = h]
    /\ holders' = [holders EXCEPT ![a] = {o}]
    /\ release' = [release EXCEPT ![a] = Attaches(h)]
    /\ events' = IF h \in Emitted THEN Append(events, Event("Create", h)) ELSE events
    /\ UNCHANGED open

\* BlockRegistrationHandle is Clone: a holder gives a clone to another owner.
Share(o, p, a) ==
    /\ o \in holders[a]
    /\ p \notin holders[a]
    /\ holders' = [holders EXCEPT ![a] = @ \cup {p}]
    /\ UNCHANGED <<prt, open, life, seqHash, release, events>>

LastClone(o, a) == holders[a] = {o}

\* The last clone takes the strong count to zero.
DropHandle(o, a) ==
    /\ o \in holders[a]
    /\ holders' = [holders EXCEPT ![a] = @ \ {o}]
    /\ life' = [life EXCEPT ![a] = IF LastClone(o, a) THEN "Dropping" ELSE @]
    /\ UNCHANGED <<prt, open, seqHash, release, events>>

\* Drop::drop compares the stored Weak's pointer with self.
ShouldRemove_Always(a) == prt[seqHash[a]] # NoHandle
ShouldRemove_Never(a) == prt[seqHash[a]] = NoHandle
ShouldRemove(a) == prt[seqHash[a]] = a

\* BlockRegistrationHandleInner::drop
DropBody(a) ==
    /\ life[a] = "Dropping"
    /\ life' = [life EXCEPT ![a] = "Fields"]
    /\ prt' = IF open /\ ShouldRemove(a) THEN [prt EXCEPT ![seqHash[a]] = NoHandle] ELSE prt
    /\ UNCHANGED <<open, seqHash, holders, release, events>>

\* The fields follow: the attachments take the EventReleaseHandle with them.
DropFields(a) ==
    /\ life[a] = "Fields"
    /\ life' = [life EXCEPT ![a] = "Free"]
    /\ seqHash' = [seqHash EXCEPT ![a] = NoHash]
    /\ release' = [release EXCEPT ![a] = FALSE]
    /\ events' = IF release[a] THEN Append(events, Event("Remove", seqHash[a])) ELSE events
    /\ UNCHANGED <<prt, open, holders>>

\* The last BlockRegistry goes; handles that outlive it find no registry.
DropRegistry ==
    /\ open
    /\ open' = FALSE
    /\ prt' = [h \in Hashes |-> NoHandle]
    /\ UNCHANGED <<life, seqHash, holders, release, events>>

DropStep(a) == DropBody(a) \/ DropFields(a)

Next ==
    \/ \E o \in Owners, h \in Hashes, a \in Handles :
        Existing(o, h, a) \/ RegisterNew(o, h, a)
    \/ \E o, p \in Owners, a \in Handles : Share(o, p, a)
    \/ \E o \in Owners, a \in Handles : DropHandle(o, a)
    \/ \E a \in Handles : DropStep(a)
    \/ DropRegistry

Spec == Init /\ [][Next]_vars

\* A thread that took the count to zero runs the drop glue to its end.
FairSpec == Spec /\ \A a \in Handles : WF_vars(DropStep(a))

-----------------------------------------------------------------------------

(* While anyone holds a handle, its entry names it.  So two holders of one *)
(* hash always hold the same handle, and a registration never splits the   *)
(* presence markers and attachments of a hash over two handles.  This is   *)
(* what the pointer comparison in BlockRegistrationHandleInner::drop is    *)
(* for: a Drop body that runs late must leave a newer entry alone.         *)
LiveIsIndexed ==
    \A a \in Handles : open /\ life[a] = "Live" => prt[seqHash[a]] = a

(* An entry never outlives the Drop body of the handle it names: a Weak in *)
(* the map leads to an inner of that very hash that is alive or about to   *)
(* run its Drop body, never to freed or reused memory.  registered_count() *)
(* counts no more than that.                                               *)
EntryNamesItsHandle ==
    \A h \in Hashes : prt[h] # NoHandle =>
        seqHash[prt[h]] = h /\ life[prt[h]] \in {"Live", "Dropping"}

\* The inners of hash h that carry an EventReleaseHandle.
Carriers(h) == {a \in Handles : life[a] # "Free" /\ seqHash[a] = h /\ h \in Emitted}

(* Every Create is answered by exactly one Remove: at any moment the       *)
(* Creates of a hash exceed its Removes by the number of its handles that  *)
(* still carry their EventReleaseHandle, however the drops of old handles  *)
(* and the registrations of new ones interleave.                           *)
EventBalance ==
    \A h \in Hashes :
        Count("Create", h) = Count("Remove", h) + Cardinality(Carriers(h))

(* Once nobody registers or holds anything any more, the registry empties  *)
(* and every Create has been answered.                                     *)
EmptiesWhenReleased ==
    <>[](\A a \in Handles : holders[a] = {}) =>
        <>[](\A h \in Hashes : prt[h] = NoHandle /\ Count("Create", h) = Count("Remove", h))

=============================================================================
