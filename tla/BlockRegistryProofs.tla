------------------------- MODULE BlockRegistryProofs -------------------------
(***************************************************************************)
(* Proofs about BlockRegistry, for any sets of hashes, handles and owners: *)
(* the index of the registry is exact, and its Creates and Removes         *)
(* balance, whatever the interleaving of registrations with late Drop      *)
(* bodies.                                                                 *)
(***************************************************************************)
EXTENDS BlockRegistry, TLAPS

(* The provers to try, in this order. *)
USE SMTT(20), ZenonT(20), SMTT(60)

(* An inner that is not freed has the hash it was created for. *)
AllocatedHasHash == \A a \in Handles : life[a] # "Free" => seqHash[a] \in Hashes

(* The map goes with the registry. *)
ClosedIsEmpty == ~open => \A h \in Hashes : prt[h] = NoHandle

(* The inductive invariant.  LiveIsIndexed alone is not inductive: that a  *)
(* registration replaces only a dead entry needs nothing more, but that a  *)
(* late Drop body finds its own entry or none needs EntryNamesItsHandle,   *)
(* and that a drop of the last clone starts from a live handle needs the   *)
(* HeldIsLive of TypeOK.                                                   *)
IInv ==
    /\ TypeOK
    /\ LiveIsIndexed
    /\ EntryNamesItsHandle
    /\ AllocatedHasHash
    /\ ClosedIsEmpty

(* The state in which BlockRegistry::new leaves the registry. *)
LEMMA InitIInv == Init => IInv
BY RegistryAssumption
DEF Init, IInv, TypeOK, Lives, Events, LiveIsIndexed, EntryNamesItsHandle,
    HeldIsLive, AllocatedHasHash, ClosedIsEmpty

(* register_sequence_hash and match_sequence_hash on an entry that upgrades *)
(* only add a holder to a live handle.                                      *)
LEMMA ExistingKeeps ==
    ASSUME IInv, NEW o \in Owners, NEW h \in Hashes, NEW a \in Handles, Existing(o, h, a)
    PROVE  IInv'
<1>1. TypeOK'
  BY DEF IInv, TypeOK, HeldIsLive, Existing, Upgrades
<1>2. LiveIsIndexed' /\ EntryNamesItsHandle' /\ AllocatedHasHash' /\ ClosedIsEmpty'
  BY DEF IInv, LiveIsIndexed, EntryNamesItsHandle, AllocatedHasHash, ClosedIsEmpty, Existing
<1> QED BY <1>1, <1>2 DEF IInv

(* A clone given to another owner. *)
LEMMA ShareKeeps ==
    ASSUME IInv, NEW o \in Owners, NEW p \in Owners, NEW a \in Handles, Share(o, p, a)
    PROVE  IInv'
<1>1. TypeOK'
  BY DEF IInv, TypeOK, HeldIsLive, Share
<1>2. LiveIsIndexed' /\ EntryNamesItsHandle' /\ AllocatedHasHash' /\ ClosedIsEmpty'
  BY DEF IInv, LiveIsIndexed, EntryNamesItsHandle, AllocatedHasHash, ClosedIsEmpty, Share
<1> QED BY <1>1, <1>2 DEF IInv

(* A new registration replaces no live handle: one that was live would have *)
(* been the entry, and the entry does not upgrade.                          *)
LEMMA RegisterNewKeeps ==
    ASSUME IInv, NEW o \in Owners, NEW h \in Hashes, NEW a \in Handles, RegisterNew(o, h, a)
    PROVE  IInv'
<1>1. TypeOK'
  <2>1. Event("Create", h) \in Events
    BY DEF Event, Events
  <2>2. events' \in Seq(Events)
    BY <2>1 DEF IInv, TypeOK, RegisterNew
  <2> QED BY <2>2 DEF IInv, TypeOK, HeldIsLive, Lives, RegisterNew, Attaches
<1>2. \A b \in Handles : life[b] = "Live" => seqHash[b] # h
  BY DEF IInv, LiveIsIndexed, RegisterNew, Upgrades
<1>3. LiveIsIndexed'
  BY <1>2 DEF IInv, TypeOK, LiveIsIndexed, AllocatedHasHash, RegisterNew
<1>4. EntryNamesItsHandle'
  BY RegistryAssumption DEF IInv, TypeOK, EntryNamesItsHandle, RegisterNew, Reusable
<1>5. AllocatedHasHash' /\ ClosedIsEmpty'
  BY DEF IInv, TypeOK, AllocatedHasHash, ClosedIsEmpty, RegisterNew
<1> QED BY <1>1, <1>3, <1>4, <1>5 DEF IInv

(* Dropping a clone, the last one or not. *)
LEMMA DropHandleKeeps ==
    ASSUME IInv, NEW o \in Owners, NEW a \in Handles, DropHandle(o, a)
    PROVE  IInv'
<1>0. life[a] = "Live"
  BY DEF IInv, TypeOK, HeldIsLive, DropHandle
<1>1. TypeOK'
  BY <1>0 DEF IInv, TypeOK, HeldIsLive, Lives, DropHandle, LastClone
<1>2. LiveIsIndexed' /\ EntryNamesItsHandle' /\ ClosedIsEmpty'
  BY <1>0 DEF IInv, TypeOK, LiveIsIndexed, EntryNamesItsHandle, ClosedIsEmpty, DropHandle
<1>3. AllocatedHasHash'
  BY <1>0 DEF IInv, TypeOK, AllocatedHasHash, DropHandle
<1> QED BY <1>1, <1>2, <1>3 DEF IInv

(* The Drop body removes its own entry or none, however late it runs. *)
LEMMA DropBodyKeeps ==
    ASSUME IInv, NEW a \in Handles, DropBody(a)
    PROVE  IInv'
<1>0. seqHash[a] \in Hashes
  BY DEF IInv, AllocatedHasHash, DropBody
<1>1. TypeOK'
  BY <1>0 DEF IInv, TypeOK, HeldIsLive, Lives, DropBody
<1>2. LiveIsIndexed'
  BY <1>0 DEF IInv, TypeOK, LiveIsIndexed, AllocatedHasHash, DropBody, ShouldRemove
<1>3. EntryNamesItsHandle'
  BY <1>0 DEF IInv, TypeOK, EntryNamesItsHandle, ClosedIsEmpty, DropBody, ShouldRemove
<1>4. AllocatedHasHash' /\ ClosedIsEmpty'
  BY <1>0 DEF IInv, TypeOK, AllocatedHasHash, ClosedIsEmpty, DropBody
<1> QED BY <1>1, <1>2, <1>3, <1>4 DEF IInv

(* When the fields go, no entry names the inner any more. *)
LEMMA DropFieldsKeeps ==
    ASSUME IInv, NEW a \in Handles, DropFields(a)
    PROVE  IInv'
<1>0. seqHash[a] \in Hashes
  BY DEF IInv, AllocatedHasHash, DropFields
<1>1. TypeOK'
  <2>1. Event("Remove", seqHash[a]) \in Events
    BY <1>0 DEF Event, Events
  <2>2. events' \in Seq(Events)
    BY <2>1 DEF IInv, TypeOK, DropFields
  <2> QED BY <2>2 DEF IInv, TypeOK, HeldIsLive, Lives, DropFields
<1>2. LiveIsIndexed' /\ EntryNamesItsHandle' /\ ClosedIsEmpty'
  BY DEF IInv, TypeOK, LiveIsIndexed, EntryNamesItsHandle, ClosedIsEmpty, DropFields
<1>3. AllocatedHasHash'
  BY DEF IInv, TypeOK, AllocatedHasHash, DropFields
<1> QED BY <1>1, <1>2, <1>3 DEF IInv

(* Handles outlive the registry without an entry. *)
LEMMA DropRegistryKeeps ==
    ASSUME IInv, DropRegistry
    PROVE  IInv'
BY Zenon DEF IInv, TypeOK, LiveIsIndexed, EntryNamesItsHandle, HeldIsLive, AllocatedHasHash,
    ClosedIsEmpty, DropRegistry

(* Every step of the registry keeps the invariant. *)
LEMMA NextIInv == IInv /\ [Next]_vars => IInv'
<1> SUFFICES ASSUME IInv, [Next]_vars PROVE IInv'
  OBVIOUS
<1>1. CASE \E o \in Owners, h \in Hashes, a \in Handles :
              Existing(o, h, a) \/ RegisterNew(o, h, a)
  BY <1>1, ExistingKeeps, RegisterNewKeeps
<1>2. CASE \E o, p \in Owners, a \in Handles : Share(o, p, a)
  BY <1>2, ShareKeeps
<1>3. CASE \E o \in Owners, a \in Handles : DropHandle(o, a)
  BY <1>3, DropHandleKeeps
<1>4. CASE \E a \in Handles : DropStep(a)
  BY <1>4, DropBodyKeeps, DropFieldsKeeps DEF DropStep
<1>5. CASE DropRegistry
  BY <1>5, DropRegistryKeeps
<1>6. CASE UNCHANGED vars
  BY <1>6 DEF IInv, TypeOK, LiveIsIndexed, EntryNamesItsHandle, HeldIsLive,
     AllocatedHasHash, ClosedIsEmpty, vars
<1> QED BY <1>1, <1>2, <1>3, <1>4, <1>5, <1>6 DEF Next

(* The index of the registry is exact in every behaviour: a held handle is *)
(* the entry of its hash, and an entry names an inner of its hash whose    *)
(* Drop body has not run (BlockRegistrationHandleInner::drop and           *)
(* register_sequence_hash under the position lock).                        *)
THEOREM IndexExact == Spec => [](TypeOK /\ LiveIsIndexed /\ EntryNamesItsHandle)
<1>1. IInv => TypeOK /\ LiveIsIndexed /\ EntryNamesItsHandle
  BY DEF IInv
<1> QED BY <1>1, InitIInv, NextIInv, PTL DEF Spec

-----------------------------------------------------------------------------
(***************************************************************************)
(* The balance of the events.                                              *)
(***************************************************************************)
INSTANCE FiniteSetTheorems

(* An inner carries an EventReleaseHandle exactly when its Create was sent. *)
ReleaseFollowsPolicy ==
    \A a \in Handles : life[a] # "Free" => (release[a] <=> seqHash[a] \in Emitted)

(* What is inductive with the index: only finitely many inners can have    *)
(* been made, whatever the set of addresses.                               *)
Balanced ==
    /\ ReleaseFollowsPolicy
    /\ \A h \in Hashes : IsFiniteSet(Carriers(h))
    /\ EventBalance

(* What one more event does to the counts. *)
LEMMA AppendCounts ==
    ASSUME TypeOK, NEW e \in Events, events' = Append(events, e), NEW kind, NEW h
    PROVE  /\ Count(kind, h)' = IF e = Event(kind, h) THEN Count(kind, h) + 1 ELSE Count(kind, h)
           /\ Count(kind, h) \in Nat
<1> DEFINE S == {n \in DOMAIN events : events[n] = Event(kind, h)}
           n == Len(events) + 1
<1>1. DOMAIN events = 1 .. Len(events) /\ Len(events) \in Nat
  BY DEF TypeOK
<1>2. IsFiniteSet(S) /\ Cardinality(S) \in Nat
  <2>1. IsFiniteSet(1 .. Len(events))
    BY <1>1, FS_Interval
  <2>2. S \subseteq 1 .. Len(events)
    BY <1>1
  <2> QED BY <2>1, <2>2, FS_Subset, FS_CardinalityType
<1>3. /\ DOMAIN events' = 1 .. n /\ events'[n] = e
      /\ \A m \in 1 .. Len(events) : events'[m] = events[m]
  BY DEF TypeOK
<1>4. S' = IF e = Event(kind, h) THEN S \cup {n} ELSE S
  <2>1. 1 .. n = (1 .. Len(events)) \cup {n}
    BY <1>1
  <2>2. S' = {m \in DOMAIN events' : events'[m] = Event(kind, h)}
    BY DEF Event
  <2> HIDE DEF n
  <2> QED BY <1>1, <1>3, <2>1, <2>2
<1>5. n \notin S
  BY <1>1
<1>6. Count(kind, h) = Cardinality(S) /\ Count(kind, h)' = Cardinality(S')
  BY DEF Count
<1> HIDE DEF S, n
<1> QED BY <1>2, <1>4, <1>5, <1>6, FS_AddElement, Zenon

(* register_sequence_hash makes a carrier and sends its Create, or neither. *)
LEMMA RegisterNewBalances ==
    ASSUME IInv, Balanced, NEW o \in Owners, NEW h \in Hashes, NEW a \in Handles,
           RegisterNew(o, h, a)
    PROVE  Balanced'
<1>1. ReleaseFollowsPolicy'
  BY Zenon DEF Balanced, ReleaseFollowsPolicy, RegisterNew, Attaches, IInv, TypeOK
<1>2. life[a] = "Free"
  BY DEF RegisterNew, Reusable
<1>3. \A g \in Hashes : Carriers(g)' = IF g = h /\ h \in Emitted THEN Carriers(g) \cup {a}
                                       ELSE Carriers(g)
  BY <1>2 DEF Carriers, RegisterNew, IInv, TypeOK
<1>4. \A g \in Hashes : a \notin Carriers(g)
  BY <1>2 DEF Carriers
<1>5. \A g \in Hashes : IsFiniteSet(Carriers(g)) /\ Cardinality(Carriers(g)) \in Nat
  BY FS_CardinalityType DEF Balanced
<1>6. \A g \in Hashes :
         /\ IsFiniteSet(Carriers(g) \cup {a})
         /\ Cardinality(Carriers(g) \cup {a}) = Cardinality(Carriers(g)) + 1
  BY <1>4, <1>5, FS_AddElement
<1>7. CASE h \in Emitted
  <2>1. Event("Create", h) \in Events /\ events' = Append(events, Event("Create", h))
    BY <1>7 DEF RegisterNew, Event, Events
  <2>2. \A g \in Hashes : /\ Count("Create", g)' = IF g = h THEN Count("Create", g) + 1
                                                   ELSE Count("Create", g)
                          /\ Count("Remove", g)' = Count("Remove", g)
                          /\ Count("Create", g) \in Nat /\ Count("Remove", g) \in Nat
    BY <2>1, AppendCounts DEF Event, IInv
  <2>3. ASSUME NEW g \in Hashes
        PROVE  Count("Create", g)' = Count("Remove", g)' + Cardinality(Carriers(g)')
    <3>1. Count("Create", g) = Count("Remove", g) + Cardinality(Carriers(g))
      BY DEF Balanced, EventBalance
    <3> QED BY <1>3, <1>5, <1>6, <1>7, <2>2, <3>1
  <2>4. EventBalance'
    BY <2>3 DEF EventBalance
  <2> QED BY <1>1, <1>3, <1>5, <1>6, <2>4 DEF Balanced
<1>8. CASE h \notin Emitted
  <2>1. events' = events
    BY <1>8 DEF RegisterNew
  <2>2. \A kind : \A g \in Hashes : Count(kind, g)' = Count(kind, g)
    BY <2>1 DEF Count, Event
  <2>3. \A g \in Hashes : Carriers(g)' = Carriers(g)
    BY <1>3, <1>8
  <2> QED BY <1>1, <2>2, <2>3 DEF Balanced, EventBalance
<1> QED BY <1>7, <1>8

(* The EventReleaseHandle goes with the fields, and sends the Remove. *)
LEMMA DropFieldsBalances ==
    ASSUME IInv, Balanced, NEW a \in Handles, DropFields(a)
    PROVE  Balanced'
<1> DEFINE h == seqHash[a]
<1>1. ReleaseFollowsPolicy'
  BY DEF Balanced, ReleaseFollowsPolicy, DropFields, IInv, TypeOK
<1>2. life[a] # "Free" /\ h \in Hashes /\ (release[a] <=> h \in Emitted)
  BY DEF IInv, AllocatedHasHash, DropFields, Balanced, ReleaseFollowsPolicy
<1>3. \A g \in Hashes : Carriers(g)' = Carriers(g) \ {a}
  BY DEF Carriers, DropFields, IInv, TypeOK
<1>4. \A g \in Hashes : a \in Carriers(g) <=> g = h /\ h \in Emitted
  BY <1>2 DEF Carriers
<1> HIDE DEF h
<1>5. \A g \in Hashes : IsFiniteSet(Carriers(g)) /\ Cardinality(Carriers(g)) \in Nat
  BY FS_CardinalityType DEF Balanced
<1>6. \A g \in Hashes :
         /\ IsFiniteSet(Carriers(g) \ {a})
         /\ Cardinality(Carriers(g) \ {a}) = IF g = h /\ h \in Emitted
                                             THEN Cardinality(Carriers(g)) - 1
                                             ELSE Cardinality(Carriers(g))
  BY <1>4, <1>5, FS_RemoveElement
<1>7. CASE h \in Emitted
  <2>1. Event("Remove", h) \in Events /\ events' = Append(events, Event("Remove", h))
    BY <1>2, <1>7 DEF DropFields, Event, Events, h
  <2>2. \A g \in Hashes : /\ Count("Remove", g)' = IF g = h THEN Count("Remove", g) + 1
                                                   ELSE Count("Remove", g)
                          /\ Count("Create", g)' = Count("Create", g)
                          /\ Count("Create", g) \in Nat /\ Count("Remove", g) \in Nat
    BY <2>1, AppendCounts DEF Event, IInv
  <2>3. ASSUME NEW g \in Hashes
        PROVE  Count("Create", g)' = Count("Remove", g)' + Cardinality(Carriers(g)')
    <3>1. Count("Create", g) = Count("Remove", g) + Cardinality(Carriers(g))
      BY DEF Balanced, EventBalance
    <3>2. CASE g = h
      <4>1. Cardinality(Carriers(g)') = Cardinality(Carriers(g)) - 1
        BY <1>3, <1>6, <1>7, <3>2
      <4> QED BY <1>5, <2>2, <3>1, <3>2, <4>1
    <3>3. CASE g # h
      <4>1. Cardinality(Carriers(g)') = Cardinality(Carriers(g))
        BY <1>3, <1>6, <3>3
      <4> QED BY <2>2, <3>1, <3>3, <4>1
    <3> QED BY <3>2, <3>3
  <2>4. EventBalance'
    BY <2>3 DEF EventBalance
  <2> QED BY <1>1, <1>3, <1>5, <1>6, <2>4 DEF Balanced
<1>8. CASE h \notin Emitted
  <2>1. events' = events
    BY <1>2, <1>8 DEF DropFields, h
  <2>2. \A kind : \A g \in Hashes : Count(kind, g)' = Count(kind, g)
    BY <2>1 DEF Count, Event
  <2>3. \A g \in Hashes : Carriers(g)' = Carriers(g)
    BY <1>3, <1>4, <1>8
  <2> QED BY <1>1, <2>2, <2>3 DEF Balanced, EventBalance
<1> QED BY <1>7, <1>8

(* Whatever makes or frees no inner leaves the balance alone. *)
LEMMA OtherBalances ==
    ASSUME Balanced, UNCHANGED <<seqHash, release, events>>,
           \A a \in Handles : life'[a] = "Free" <=> life[a] = "Free"
    PROVE  Balanced'
<1>1. \A h \in Hashes : Carriers(h)' = Carriers(h)
  BY DEF Carriers
<1>2. \A kind : \A h \in Hashes : Count(kind, h)' = Count(kind, h)
  BY DEF Count, Event
<1>3. ReleaseFollowsPolicy'
  BY DEF Balanced, ReleaseFollowsPolicy
<1> QED BY <1>1, <1>2, <1>3 DEF Balanced, EventBalance

LEMMA NextBalances == IInv /\ Balanced /\ [Next]_vars => Balanced'
<1> SUFFICES ASSUME IInv, Balanced, [Next]_vars PROVE Balanced'
  OBVIOUS
<1>1. ASSUME NEW o \in Owners, NEW a \in Handles,
             (\E h \in Hashes : Existing(o, h, a)) \/ (\E p \in Owners : Share(o, p, a))
      PROVE  Balanced'
  BY <1>1, OtherBalances DEF Existing, Share
<1>2. ASSUME NEW o \in Owners, NEW a \in Handles, DropHandle(o, a) PROVE Balanced'
  <2>1. life[a] = "Live"
    BY <1>2 DEF IInv, TypeOK, HeldIsLive, DropHandle
  <2>2. \A b \in Handles : life'[b] = "Free" <=> life[b] = "Free"
    BY <1>2, <2>1 DEF IInv, TypeOK, DropHandle
  <2> QED BY <1>2, <2>2, OtherBalances DEF DropHandle
<1>3. ASSUME NEW a \in Handles, DropBody(a) PROVE Balanced'
  <2>1. \A b \in Handles : life'[b] = "Free" <=> life[b] = "Free"
    BY <1>3 DEF IInv, TypeOK, DropBody
  <2> QED BY <1>3, <2>1, OtherBalances DEF DropBody
<1>4. CASE DropRegistry \/ UNCHANGED vars
  BY <1>4, OtherBalances DEF DropRegistry, vars
<1> QED BY <1>1, <1>2, <1>3, <1>4, RegisterNewBalances, DropFieldsBalances DEF Next, DropStep

(* Every Create the registry sends is answered by exactly one Remove, sent *)
(* when the fields of its inner go, however late (on_block_registered,     *)
(* EventReleaseHandle::drop).                                              *)
THEOREM EventsBalance == Spec => []EventBalance
<1>1. Init => Balanced
  <2> SUFFICES ASSUME Init PROVE Balanced
    OBVIOUS
  <2>1. \A h \in Hashes : Carriers(h) = {}
    BY DEF Init, Carriers
  <2>2. \A kind : \A h \in Hashes : Count(kind, h) = 0
    BY FS_EmptySet DEF Init, Count
  <2>3. ReleaseFollowsPolicy
    BY DEF Init, ReleaseFollowsPolicy
  <2>4. \A h \in Hashes : IsFiniteSet(Carriers(h)) /\ Cardinality(Carriers(h)) = 0
    BY <2>1, FS_EmptySet
  <2> QED BY <2>2, <2>3, <2>4 DEF Balanced, EventBalance
<1>2. Balanced => EventBalance
  BY DEF Balanced
<1> QED BY <1>1, <1>2, InitIInv, NextIInv, NextBalances, PTL DEF Spec

=============================================================================
