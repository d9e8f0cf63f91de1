--------------------------- MODULE BlockOwnership ---------------------------
(***************************************************************************)
(* What the block pool promises the holders of its guards, without slots,  *)
(* reference counts, indices or locks: a block has at most one writer, is  *)
(* written only while nobody reads it, keeps its content while it is read, *)
(* and is read only under content that a writer published.                 *)
(* BlockStore implements this (see BlockStore!Ownership).                  *)
(***************************************************************************)
CONSTANTS Blocks, Hashes, Clients, NoHash

VARIABLES writers,   \* writers[b]: clients with a MutableBlock or CompleteBlock
          readers,   \* readers[b]: clients with an ImmutableBlock
          content    \* content[b]: the hash b is registered under, or NoHash

vars == <<writers, readers, content>>

Init == /\ writers = [b \in Blocks |-> {}]
        /\ readers = [b \in Blocks |-> {}]
        /\ content = [b \in Blocks |-> NoHash]

(* Blocks nobody uses are handed to c, and what they cached is forgotten. *)
Take(c, T) ==
  /\ \A b \in T : writers[b] = {} /\ readers[b] = {}
  /\ writers' = [b \in Blocks |-> IF b \in T THEN {c} ELSE writers[b]]
  /\ content' = [b \in Blocks |-> IF b \in T THEN NoHash ELSE content[b]]
  /\ UNCHANGED readers

GiveBack(c, b) ==
  /\ writers[b] = {c}
  /\ writers' = [writers EXCEPT ![b] = {}]
  /\ UNCHANGED <<readers, content>>

(* The writer becomes the first reader. *)
Publish(c, b, h) ==
  /\ writers[b] = {c} /\ readers[b] = {}
  /\ writers' = [writers EXCEPT ![b] = {}]
  /\ readers' = [readers EXCEPT ![b] = {c}]
  /\ content' = [content EXCEPT ![b] = h]

Join(c, b) ==
  /\ writers[b] = {} /\ content[b] # NoHash
  /\ readers' = [readers EXCEPT ![b] = @ \cup {c}]
  /\ UNCHANGED <<writers, content>>

Leave(c, b) ==
  /\ readers' = [readers EXCEPT ![b] = @ \ {c}]
  /\ UNCHANGED <<writers, content>>

Forget(b) ==
  /\ writers[b] = {} /\ readers[b] = {}
  /\ content' = [content EXCEPT ![b] = NoHash]
  /\ UNCHANGED <<writers, readers>>

Next ==
  \/ \E c \in Clients, T \in SUBSET Blocks : Take(c, T)
  \/ \E c \in Clients, b \in Blocks :
       \/ GiveBack(c, b) \/ Join(c, b) \/ Leave(c, b)
       \/ \E h \in Hashes : Publish(c, b, h)
  \/ \E b \in Blocks : Forget(b)

Spec == Init /\ [][Next]_vars
=============================================================================
