---------------------------- MODULE MCK3Scheduler ----------------------------
(***************************************************************************)
(* Three ranks and two requests: a0 on rank 0 is long, a1 on rank 1 is of  *)
(* any class.  When both are long their gangs, {0, 1} and {1, 2}, overlap  *)
(* on rank 1, and each leaves one rank out.  The process with the gang is  *)
(* all three ranks, or two of them and rank 2 or 0 is remote.              *)
(***************************************************************************)
EXTENDS K3Scheduler

CONSTANTS a0, a1

MCHome == [q \in Requests |-> IF q = a0 THEN 0 ELSE 1]
MCProcesses == {Ranks, 0 .. 1, 1 .. 2}
MCClasses ==
    [q \in Requests |-> IF q = a0 THEN {"long"} ELSE {"long", "misfit", "short", "verdict"}]
=============================================================================
