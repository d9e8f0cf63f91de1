----------------------------- MODULE LaunchClock -----------------------------
(***************************************************************************)
(* The launch counts of the expert-parallel world that the K3 schedulers   *)
(* step (pegainfer-k3 executor/mod.rs, steps_launched).  A rank may queue  *)
(* launches ahead of its peers, but its step ends only when every rank has *)
(* queued the launches it pairs with: a launch of one rank is served by    *)
(* the launches of the same index on all the others.                       *)
(***************************************************************************)
EXTENDS Integers

CONSTANTS World,           \* ranks of the fleet
          Requests         \* requests, and the gang jobs and whales they become

ASSUME LaunchClockAssumption == World \in Nat \ {0}

VARIABLES count,           \* rank -> K3Executor::steps_launched
          at               \* rank -> where its scheduler thread is

Ranks == 0 .. World - 1
None == -1

\* The device sync of a step of r returns.
Paired(r) == \A s \in Ranks : count[s] >= count[r]

\* r queues n launches and goes on to wait for them at the point `to'.
Launch(r, n, to) ==
    /\ count' = [count EXCEPT ![r] = @ + n]
    /\ at' = [at EXCEPT ![r] = to]
=============================================================================
