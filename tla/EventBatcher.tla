----------------------------- MODULE EventBatcher -----------------------------
(***************************************************************************)
(* The path of the Create and Remove events from the broadcast channel of  *)
(* EventsManager (events/manager.rs) through the EventBatcher (batcher.rs) *)
(* and the publish loop (publisher.rs) to the hub that tracks which worker *)
(* caches which block.                                                     *)
(*                                                                         *)
(* One action is one send, one turn of the select! loop of the batcher     *)
(* with the publication of what it yields, or the end of the stream.       *)
(*                                                                         *)
(* Abstractions.  The hub, which is not part of the repository, keeps the  *)
(* set of hashes it has been told of.  The order of the hashes inside a    *)
(* batch is left out: a batch has one type, so it cannot change that set.  *)
(* Time is left out: the window may have expired whenever the loop looks.  *)
(***************************************************************************)
EXTENDS Naturals, Sequences, FiniteSets

CONSTANTS Hashes,
          Capacity,        \* channel_capacity
          MaxBatchSize,    \* BatchingConfig::max_batch_size
          MaxEvents,       \* bound on the events sent
          NoType

ASSUME BatcherAssumption ==
    /\ Capacity \in Nat \ {0}
    /\ MaxBatchSize \in Nat \ {0}
    /\ MaxEvents \in Nat
    /\ NoType \notin {"Create", "Remove"}

VARIABLES sent,            \* every event sent, in the order of the channel
          seen,            \* how far the subscriber has read
          ended,           \* all senders are gone
          batch,           \* current_batch
          batchType,       \* current_type
          running,         \* the loop has not reached its break
          lost,            \* an event or a batch never reaches the hub
          hub,             \* the hashes that the hub believes cached
          shutdown         \* the hub has received Shutdown

vars == <<sent, seen, ended, batch, batchType, running, lost, hub, shutdown>>

Types == {"Create", "Remove"}

Events == [type : Types, hash : Hashes]

\* What a batch does to the set of hashes the hub keeps.
Applied(set, type, hashes) ==
    LET named == {hashes[n] : n \in DOMAIN hashes}
    IN  IF type = "Create" THEN set \cup named ELSE set \ named

-----------------------------------------------------------------------------

Init ==
    /\ sent = <<>> /\ seen = 0 /\ ended = FALSE
    /\ batch = <<>> /\ batchType = NoType /\ running = TRUE
    /\ lost = FALSE /\ hub = {} /\ shutdown = FALSE

\* broadcast::Sender::send by on_block_registered and EventReleaseHandle::drop
Send(e) ==
    /\ ~ended
    /\ Len(sent) < MaxEvents
    /\ sent' = Append(sent, e)
    /\ UNCHANGED <<seen, ended, batch, batchType, running, lost, hub, shutdown>>

\* The EventsManager and every EventReleaseHandle are gone.
Close ==
    /\ ~ended
    /\ ended' = TRUE
    /\ UNCHANGED <<sent, seen, batch, batchType, running, lost, hub, shutdown>>

\* A batch that is yielded is published; the loop only logs a failure.
Published(type, hashes, set, arrives) ==
    IF arrives THEN Applied(set, type, hashes) ELSE set

\* The subscriber was too slow: BroadcastStream yields Lagged, subscribe()
\* filters it out, and the stream goes on with the oldest event retained.
Lag ==
    /\ running
    /\ Len(sent) - seen > Capacity
    /\ seen' = Len(sent) - Capacity
    /\ lost' = TRUE
    /\ UNCHANGED <<sent, ended, batch, batchType, running, hub, shutdown>>

\* An event of the other type flushes the batch first.
Switches_Never(e) == e.type = NoType
Switches(e) == batchType # NoType /\ batchType # e.type /\ batch # <<>>

Full(hashes) == Len(hashes) >= MaxBatchSize

\* select!: the input has an event.
Receive(arrives) ==
    /\ running
    /\ seen < Len(sent)
    /\ Len(sent) - seen <= Capacity
    /\ LET e == sent[seen + 1]
           kept == IF Switches(e) THEN <<>> ELSE batch
           before == IF Switches(e) THEN Published(batchType, batch, hub, arrives) ELSE hub
           grown == Append(kept, e.hash)
       IN  /\ seen' = seen + 1
           /\ batch' = IF Full(grown) THEN <<>> ELSE grown
           /\ batchType' = IF Full(grown) THEN NoType ELSE e.type
           /\ hub' = IF Full(grown) THEN Published(e.type, grown, before, arrives) ELSE before
           /\ lost' = (lost \/ ((Switches(e) \/ Full(grown)) /\ ~arrives))
    /\ UNCHANGED <<sent, ended, running, shutdown>>

\* The window may have expired.
Expires_OnlyWhenEnded == ended
Expires == batchType # NoType /\ batch # <<>>

\* select!: biased, so the timeout counts only while the input is pending.
Timeout(arrives) ==
    /\ running
    /\ seen = Len(sent) /\ ~ended
    /\ Expires
    /\ batch' = <<>>
    /\ batchType' = NoType
    /\ hub' = Published(batchType, batch, hub, arrives)
    /\ lost' = (lost \/ ~arrives)
    /\ UNCHANGED <<sent, seen, ended, running, shutdown>>

\* What the end of the stream leaves in the batch.
Remaining == batch

\* select!: the input has ended; the loop flushes, breaks, and the publish
\* loop sends Shutdown, which may fail like any other message.
EndOfStream(arrives, told) ==
    /\ running
    /\ seen = Len(sent) /\ ended
    /\ running' = FALSE
    /\ batch' = <<>>
    /\ hub' = Published(batchType, Remaining, hub, arrives)
    /\ lost' = (lost \/ (Remaining # <<>> /\ ~arrives))
    /\ shutdown' = told
    /\ UNCHANGED <<sent, seen, ended, batchType>>

\* KvbmCacheEventsPublisher::drop, abort: the task stops where it is.
Abort ==
    /\ running
    /\ running' = FALSE
    /\ batch' = <<>>
    /\ lost' = (lost \/ batch # <<>> \/ seen < Len(sent))
    /\ UNCHANGED <<sent, seen, ended, batchType, hub, shutdown>>

LoopStep ==
    \E arrives, told \in BOOLEAN :
        Receive(arrives) \/ Timeout(arrives) \/ EndOfStream(arrives, told)

Next ==
    \/ \E e \in Events : Send(e)
    \/ Close
    \/ Lag
    \/ LoopStep
    \/ Abort

Spec == Init /\ [][Next]_vars

\* The runtime polls the task whenever its input or its timer is ready.
FairSpec == Spec /\ WF_vars(Lag \/ LoopStep)

-----------------------------------------------------------------------------

\* The hashes whose last event among the first n is a Create.
CachedAfter(n) ==
    {h \in Hashes : \E k \in 1 .. n :
        /\ sent[k] = [type |-> "Create", hash |-> h]
        /\ \A l \in k + 1 .. n : sent[l].hash # h}

(* Batching does not change what the events mean: unless something was     *)
(* lost, what the hub believes, once the batch at hand has reached it, is  *)
(* what the events that the batcher has read say one by one.  A Create and *)
(* a Remove of one hash are never merged or swapped (EventBatcher::batch), *)
(* and Shutdown finds the hub with every event of the stream.              *)
HubFollowsEvents ==
    ~lost =>
        /\ running => Applied(hub, batchType, batch) = CachedAfter(seen)
        /\ shutdown => hub = CachedAfter(Len(sent))

(* No event waits in a batch for ever: the window, a full batch or a change *)
(* of type flushes it, or the task is stopped.  select! is biased towards  *)
(* the input, so the timer alone would not do.                             *)
BatchIsFlushed == batch # <<>> ~> batch = <<>>

=============================================================================
