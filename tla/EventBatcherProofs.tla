------------------------- MODULE EventBatcherProofs -------------------------
(***************************************************************************)
(* Proofs about EventBatcher, for any set of hashes, channel capacity,     *)
(* batch size and number of events.                                        *)
(***************************************************************************)
EXTENDS EventBatcher, TLAPS

(* The provers to try, in this order. *)
USE SMTT(20), ZenonT(20), SMTT(60)

TypeOK ==
    /\ sent \in Seq(Events)
    /\ seen \in 0 .. Len(sent)
    /\ batch \in Seq(Hashes)
    /\ batchType \in Types \cup {NoType}
    /\ hub \in SUBSET Hashes
    /\ ended \in BOOLEAN /\ running \in BOOLEAN /\ lost \in BOOLEAN /\ shutdown \in BOOLEAN

(* A batch has a type, and Shutdown is the last thing the hub hears. *)
Order ==
    /\ batchType = NoType => batch = <<>>
    /\ shutdown => ended /\ ~running /\ seen = Len(sent)

(* The inductive invariant. *)
IInv == TypeOK /\ Order /\ HubFollowsEvents

-----------------------------------------------------------------------------
(* What a batch does to the hub. *)
LEMMA AppliedEmpty ==
    ASSUME NEW S, NEW type
    PROVE  Applied(S, type, <<>>) = S
BY DEF Applied

LEMMA AppliedType ==
    ASSUME NEW S \in SUBSET Hashes, NEW type, NEW hashes \in Seq(Hashes)
    PROVE  Applied(S, type, hashes) \in SUBSET Hashes
BY DEF Applied

(* An event more in the batch is an event more for the hub. *)
LEMMA AppliedAppend ==
    ASSUME NEW S, NEW type, NEW hashes \in Seq(Hashes), NEW h \in Hashes
    PROVE  Applied(S, type, Append(hashes, h)) = Applied(Applied(S, type, hashes), type, <<h>>)
<1> DEFINE named(s) == {s[n] : n \in DOMAIN s}
<1>1. named(Append(hashes, h)) = named(hashes) \cup {h}
  <2>1. DOMAIN hashes = 1 .. Len(hashes) /\ Len(hashes) \in Nat
        /\ DOMAIN Append(hashes, h) = 1 .. Len(hashes) + 1
        /\ Append(hashes, h)[Len(hashes) + 1] = h
        /\ \A n \in 1 .. Len(hashes) : Append(hashes, h)[n] = hashes[n]
    OBVIOUS
  <2>2. ASSUME NEW n \in DOMAIN Append(hashes, h)
        PROVE  Append(hashes, h)[n] \in named(hashes) \cup {h}
    <3>1. CASE n = Len(hashes) + 1
      BY <2>1, <3>1
    <3>2. CASE n # Len(hashes) + 1
      <4>1. n \in DOMAIN hashes /\ Append(hashes, h)[n] = hashes[n]
        BY <2>1, <3>2
      <4> QED BY <4>1
    <3> QED BY <3>1, <3>2
  <2>3. ASSUME NEW n \in DOMAIN hashes PROVE hashes[n] \in named(Append(hashes, h))
    <3>1. n \in DOMAIN Append(hashes, h) /\ Append(hashes, h)[n] = hashes[n]
      BY <2>1
    <3> QED BY <3>1, Zenon
  <2>4. h \in named(Append(hashes, h))
    <3>1. Len(hashes) + 1 \in DOMAIN Append(hashes, h)
      BY <2>1
    <3> QED BY <2>1, <3>1, Zenon
  <2> QED BY <2>2, <2>3, <2>4
<1>2. named(<<h>>) = {h}
  OBVIOUS
<1>3. \A T, t, s : Applied(T, t, s) = IF t = "Create" THEN T \cup named(s) ELSE T \ named(s)
  BY DEF Applied
<1> HIDE DEF named
<1> QED BY <1>1, <1>2, <1>3, Zenon

LEMMA AppliedOne ==
    ASSUME NEW S, NEW type, NEW h
    PROVE  Applied(S, type, <<h>>) = IF type = "Create" THEN S \cup {h} ELSE S \ {h}
<1>1. {<<h>>[n] : n \in DOMAIN <<h>>} = {h}
  OBVIOUS
<1> QED BY <1>1, Zenon DEF Applied

LEMMA CreateEvent ==
    ASSUME NEW e \in Events, e.type = "Create"
    PROVE  e = [type |-> "Create", hash |-> e.hash]
BY DEF Events

(* The events, read one by one. *)
LEMMA CachedNext ==
    ASSUME sent \in Seq(Events), NEW n \in Nat, n < Len(sent)
    PROVE  CachedAfter(n + 1) = Applied(CachedAfter(n), sent[n + 1].type, <<sent[n + 1].hash>>)
<1>1. PICK e \in Events : e = sent[n + 1]
  OBVIOUS
<1>2. e.hash \in Hashes
  BY DEF Events
<1>3. Applied(CachedAfter(n), e.type, <<e.hash>>)
      = IF e.type = "Create" THEN CachedAfter(n) \cup {e.hash} ELSE CachedAfter(n) \ {e.hash}
  BY AppliedOne, Zenon
<1>4. ASSUME NEW h \in CachedAfter(n + 1)
      PROVE  (h \in CachedAfter(n) /\ h # e.hash) \/ (h = e.hash /\ e.type = "Create")
  <2>1. PICK k \in 1 .. n + 1 : /\ sent[k] = [type |-> "Create", hash |-> h]
                                /\ \A l \in k + 1 .. n + 1 : sent[l].hash # h
    BY <1>4, Zenon DEF CachedAfter
  <2>2. CASE k = n + 1
    BY <1>1, <2>1, <2>2
  <2>3. CASE k < n + 1
    <3>1. k \in 1 .. n /\ (\A l \in k + 1 .. n : sent[l].hash # h) /\ e.hash # h
      BY <1>1, <2>1, <2>3
    <3>2. h \in Hashes
      BY <1>4 DEF CachedAfter
    <3> QED BY <2>1, <3>1, <3>2, Zenon DEF CachedAfter
  <2> QED BY <2>1, <2>2, <2>3
<1>5. ASSUME NEW h \in CachedAfter(n), h # e.hash PROVE h \in CachedAfter(n + 1)
  <2>1. PICK k \in 1 .. n : /\ sent[k] = [type |-> "Create", hash |-> h]
                            /\ \A l \in k + 1 .. n : sent[l].hash # h
    BY <1>5 DEF CachedAfter
  <2>2. \A l \in k + 1 .. n + 1 : sent[l].hash # h
    <3> TAKE l \in k + 1 .. n + 1
    <3>1. CASE l = n + 1
      BY <1>1, <1>5, <3>1
    <3>2. CASE l # n + 1
      BY <2>1, <3>2
    <3> QED BY <3>1, <3>2
  <2>3. k \in 1 .. n + 1
    OBVIOUS
  <2> QED BY <1>5, <2>1, <2>2, <2>3 DEF CachedAfter
<1>6. e.type = "Create" => e.hash \in CachedAfter(n + 1)
  <2>1. \A l \in n + 1 + 1 .. n + 1 : sent[l].hash # e.hash
    OBVIOUS
  <2>2. n + 1 \in 1 .. n + 1
    OBVIOUS
  <2>3. e.type = "Create" => sent[n + 1] = [type |-> "Create", hash |-> e.hash]
    BY <1>1, CreateEvent
  <2> QED BY <1>2, <2>1, <2>2, <2>3, Zenon DEF CachedAfter
<1>7. CachedAfter(n + 1)
      = IF e.type = "Create" THEN CachedAfter(n) \cup {e.hash} ELSE CachedAfter(n) \ {e.hash}
  <2>1. CASE e.type = "Create"
    BY <1>4, <1>5, <1>6, <2>1, Zenon
  <2>2. CASE e.type # "Create"
    BY <1>4, <1>5, <2>2, Zenon
  <2> QED BY <2>1, <2>2
<1> QED BY <1>1, <1>3, <1>7, Zenon

-----------------------------------------------------------------------------
LEMMA ReceiveKeeps ==
    ASSUME IInv, NEW arrives \in BOOLEAN, Receive(arrives)
    PROVE  IInv'
<1>1. PICK e \in Events : e = sent[seen + 1]
  BY DEF IInv, TypeOK, Receive
<1> DEFINE kept == IF Switches(e) THEN <<>> ELSE batch
           before == IF Switches(e) THEN Published(batchType, batch, hub, arrives) ELSE hub
           grown == Append(kept, e.hash)
<1>2. e.type \in Types /\ e.hash \in Hashes /\ e.type # NoType
  BY BatcherAssumption DEF Events, Types
<1>3. /\ seen' = seen + 1 /\ UNCHANGED <<sent, ended, running, shutdown>>
      /\ seen \in Nat /\ seen < Len(sent) /\ sent \in Seq(Events) /\ running
  BY DEF Receive, IInv, TypeOK
<1>4. /\ batch' = IF Full(grown) THEN <<>> ELSE grown
      /\ batchType' = IF Full(grown) THEN NoType ELSE e.type
      /\ hub' = IF Full(grown) THEN Published(e.type, grown, before, arrives) ELSE before
      /\ lost' = (lost \/ ((Switches(e) \/ Full(grown)) /\ ~arrives))
  BY <1>1, Zenon DEF Receive
<1>5. kept \in Seq(Hashes) /\ grown \in Seq(Hashes)
  BY <1>2 DEF IInv, TypeOK
<1>6. before \in SUBSET Hashes
  BY AppliedType, Zenon DEF Published, IInv, TypeOK
<1>7. ~shutdown
  BY <1>3 DEF IInv, Order
<1>8. ASSUME ~lost' PROVE Applied(before, e.type, kept) = CachedAfter(seen)
  <2>1. ~lost /\ Applied(hub, batchType, batch) = CachedAfter(seen)
    BY <1>3, <1>4, <1>8 DEF IInv, HubFollowsEvents, TypeOK
  <2>2. CASE Switches(e)
    <3>1. arrives
      BY <1>4, <1>8, <2>2, Zenon
    <3>2. before = Applied(hub, batchType, batch) /\ kept = <<>>
      BY <2>2, <3>1 DEF Published
    <3> QED BY <2>1, <3>2, AppliedEmpty, Zenon
  <2>3. CASE ~Switches(e) /\ batch = <<>>
    <3>1. Applied(hub, batchType, <<>>) = hub /\ Applied(hub, e.type, <<>>) = hub
      BY AppliedEmpty
    <3> QED BY <2>1, <2>3, <3>1
  <2>4. CASE ~Switches(e) /\ batch # <<>>
    <3>1. batchType = e.type
      BY <2>4 DEF Switches, IInv, Order
    <3> QED BY <2>1, <2>4, <3>1
  <2> QED BY <2>2, <2>3, <2>4
<1>9. CachedAfter(seen + 1) = Applied(CachedAfter(seen), e.type, <<e.hash>>)
  BY <1>1, <1>3, CachedNext, Zenon
<1>10. Applied(before, e.type, grown) = Applied(Applied(before, e.type, kept), e.type, <<e.hash>>)
  BY <1>2, <1>5, AppliedAppend, ZenonT(40)
<1>11. CachedAfter(seen)' = CachedAfter(seen + 1)
  BY <1>3 DEF CachedAfter
<1> HIDE DEF kept, before, grown
<1>12. TypeOK'
  <2>1. hub' \in SUBSET Hashes
    BY <1>4, <1>5, <1>6, AppliedType DEF Published
  <2>2. batch' \in Seq(Hashes) /\ batchType' \in Types \cup {NoType}
    BY <1>2, <1>4, <1>5
  <2> QED BY <1>3, <1>4, <2>1, <2>2 DEF IInv, TypeOK
<1>13. Order'
  BY <1>2, <1>3, <1>4, <1>7 DEF Order
<1>14. HubFollowsEvents'
  <2> SUFFICES ASSUME ~lost' PROVE Applied(hub', batchType', batch') = CachedAfter(seen)'
    BY <1>3, <1>7 DEF HubFollowsEvents
  <2>1. Applied(before, e.type, grown) = CachedAfter(seen)'
    BY <1>8, <1>9, <1>10, <1>11
  <2>2. CASE Full(grown)
    <3>1. arrives
      BY <1>4, <2>2, Zenon
    <3>2. hub' = Applied(before, e.type, grown) /\ batch' = <<>>
      BY <1>4, <2>2, <3>1 DEF Published
    <3> QED BY <2>1, <3>2, AppliedEmpty, Zenon
  <2>3. CASE ~Full(grown)
    BY <1>4, <2>1, <2>3
  <2> QED BY <2>2, <2>3
<1> QED BY <1>12, <1>13, <1>14 DEF IInv

(* What is published as the window expires or the stream ends. *)
LEMMA FlushKeeps ==
    ASSUME IInv, NEW arrives \in BOOLEAN, NEW told \in BOOLEAN,
           Timeout(arrives) \/ EndOfStream(arrives, told)
    PROVE  IInv'
<1>1. /\ UNCHANGED <<sent, seen, ended>> /\ batch' = <<>> /\ running /\ seen = Len(sent)
      /\ hub' = Published(batchType, batch, hub, arrives)
      /\ lost' \in BOOLEAN /\ (lost => lost')
  BY DEF Timeout, EndOfStream, Remaining, IInv, TypeOK
<1>2. ~lost' => arrives \/ batch = <<>>
  BY Zenon DEF Timeout, EndOfStream, Remaining
<1>3. ~lost' => hub' = CachedAfter(seen)
  <2>1. ~lost' => Applied(hub, batchType, batch) = CachedAfter(seen)
    BY <1>1 DEF IInv, HubFollowsEvents
  <2>2. Applied(hub, batchType, <<>>) = hub
    BY AppliedEmpty
  <2> QED BY <1>1, <1>2, <2>1, <2>2 DEF Published
<1>4. CachedAfter(seen)' = CachedAfter(seen) /\ CachedAfter(Len(sent))' = CachedAfter(seen)
  BY <1>1 DEF CachedAfter
<1>5. Applied(hub', batchType', batch') = hub'
  BY <1>1, AppliedEmpty
<1>6. /\ batchType' \in Types \cup {NoType} /\ running' \in BOOLEAN /\ shutdown' \in BOOLEAN
      /\ shutdown' => ended /\ ~running'
  <2>1. CASE Timeout(arrives)
    BY <1>1, <2>1, Zenon DEF Timeout, IInv, TypeOK, Order
  <2>2. CASE EndOfStream(arrives, told)
    BY <1>1, <2>2, Zenon DEF EndOfStream, IInv, TypeOK, Order
  <2> QED BY <2>1, <2>2
<1>7. hub' \in SUBSET Hashes
  BY <1>1, AppliedType DEF Published, IInv, TypeOK
<1>8. TypeOK'
  BY <1>1, <1>6, <1>7 DEF IInv, TypeOK
<1>9. Order' /\ HubFollowsEvents'
  BY <1>1, <1>3, <1>4, <1>5, <1>6 DEF Order, HubFollowsEvents
<1> QED BY <1>8, <1>9 DEF IInv

LEMMA OtherKeeps ==
    ASSUME IInv, (\E e \in Events : Send(e)) \/ Close \/ Lag \/ Abort \/ UNCHANGED vars
    PROVE  IInv'
<1>1. CASE (\E e \in Events : Send(e)) \/ Close \/ UNCHANGED vars
  <2>1. /\ UNCHANGED <<seen, batch, batchType, running, lost, hub, shutdown>>
        /\ sent' = sent \/ (~ended /\ \E e \in Events : sent' = Append(sent, e))
        /\ ended' \in BOOLEAN /\ (ended => ended')
    BY <1>1, Zenon DEF Send, Close, vars, IInv, TypeOK
  <2>2. seen \in Nat /\ seen <= Len(sent) /\ sent \in Seq(Events)
    BY DEF IInv, TypeOK
  <2>3. CachedAfter(seen)' = CachedAfter(seen)
    <3>1. \A k \in 1 .. seen : sent'[k] = sent[k] /\ k + 1 .. seen \subseteq 1 .. seen
      BY <2>1, <2>2
    <3>2. seen' = seen
      BY <2>1
    <3>3. ASSUME NEW h \in Hashes PROVE h \in CachedAfter(seen)' <=> h \in CachedAfter(seen)
      <4>1. ASSUME NEW k \in 1 .. seen
            PROVE  /\ sent'[k] = sent[k]
                   /\ \A l \in k + 1 .. seen : sent'[l].hash = sent[l].hash
        BY <3>1
      <4>2. (h \in CachedAfter(seen)') <=> \E k \in 1 .. seen :
               /\ sent'[k] = [type |-> "Create", hash |-> h]
               /\ \A l \in k + 1 .. seen : sent'[l].hash # h
        BY <3>2, Zenon DEF CachedAfter
      <4>3. (h \in CachedAfter(seen)) <=> \E k \in 1 .. seen :
               /\ sent[k] = [type |-> "Create", hash |-> h]
               /\ \A l \in k + 1 .. seen : sent[l].hash # h
        BY Zenon DEF CachedAfter
      <4> QED BY <4>1, <4>2, <4>3, ZenonT(40)
    <3>4. CachedAfter(seen) \subseteq Hashes /\ CachedAfter(seen)' \subseteq Hashes
      BY Zenon DEF CachedAfter
    <3> QED BY <3>3, <3>4, Zenon
  <2>4. sent' \in Seq(Events) /\ Len(sent') >= Len(sent)
    BY <2>1, <2>2
  <2>5. TypeOK'
    BY <2>1, <2>2, <2>4 DEF IInv, TypeOK
  <2>6. shutdown => sent' = sent /\ seen = Len(sent)
    BY <2>1 DEF IInv, Order
  <2>7. Order'
    BY <2>1, <2>6 DEF IInv, Order
  <2>8. shutdown => CachedAfter(Len(sent))' = CachedAfter(Len(sent))
    BY <2>6 DEF CachedAfter
  <2>9. HubFollowsEvents'
    BY <2>1, <2>3, <2>8 DEF IInv, HubFollowsEvents
  <2> QED BY <2>5, <2>7, <2>9 DEF IInv
<1>2. CASE Lag
  <2>1. /\ lost' /\ running /\ ~shutdown /\ seen' \in 0 .. Len(sent)
        /\ UNCHANGED <<sent, ended, batch, batchType, running, hub, shutdown>>
    BY <1>2, BatcherAssumption DEF Lag, IInv, TypeOK, Order
  <2> QED BY <1>2, <2>1 DEF Lag, IInv, TypeOK, Order, HubFollowsEvents
<1>3. CASE Abort
  <2>1. /\ ~shutdown /\ ~running' /\ batch' = <<>> /\ lost' \in BOOLEAN
        /\ UNCHANGED <<sent, seen, ended, batchType, hub, shutdown>>
    BY <1>3 DEF Abort, IInv, TypeOK, Order
  <2>2. TypeOK'
    <3>1. running' \in BOOLEAN /\ batch' \in Seq(Hashes)
      <4>1. <<>> \in Seq(Hashes)
        OBVIOUS
      <4> QED BY <1>3, <4>1, Zenon DEF Abort
    <3> QED BY <2>1, <3>1, Zenon DEF IInv, TypeOK
  <2> QED BY <2>1, <2>2, Zenon DEF IInv, Order, HubFollowsEvents
<1> QED BY <1>1, <1>2, <1>3

LEMMA InitIInv == Init => IInv
<1> SUFFICES ASSUME Init PROVE IInv
  OBVIOUS
<1>1. TypeOK /\ Order
  <2>1. sent \in Seq(Events) /\ seen \in 0 .. Len(sent) /\ batch \in Seq(Hashes)
    BY DEF Init
  <2> QED BY <2>1, Zenon DEF Init, TypeOK, Order
<1>2. Applied(hub, batchType, batch) = hub
  BY AppliedEmpty DEF Init
<1>3. CachedAfter(seen) = {}
  BY DEF Init, CachedAfter
<1> QED BY <1>1, <1>2, <1>3, Zenon DEF Init, IInv, HubFollowsEvents

(* Whatever the batch size, the channel's capacity and the order of sends, *)
(* timeouts and failures: unless something was lost, the hub has what the  *)
(* events say one by one, up to the batch at hand (EventBatcher::batch).   *)
THEOREM HubFollows == Spec => []HubFollowsEvents
<1>1. IInv /\ [Next]_vars => IInv'
  BY ReceiveKeeps, FlushKeeps, OtherKeeps DEF Next, LoopStep
<1>2. IInv => HubFollowsEvents
  BY DEF IInv
<1> QED BY <1>1, <1>2, InitIInv, PTL DEF Spec
=============================================================================
