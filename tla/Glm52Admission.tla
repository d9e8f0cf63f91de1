--------------------------- MODULE Glm52Admission ---------------------------
(***************************************************************************)
(* The admission queue of a GLM5.2 rank (pegainfer-glm52 scheduler/        *)
(* admission.rs, with intake of mod.rs) over the page budget of its pool.  *)
(*                                                                         *)
(* Requests resolve their prefix off the scheduler thread and then queue.  *)
(* The scheduler admits the front when its whole lifetime fits; a front    *)
(* that does not fit makes it shed the prefix that a plain request behind  *)
(* it holds, or let a native request behind it pass.                       *)
(*                                                                         *)
(* Abstractions.  Requests with nothing to resolve and the zero-capacity   *)
(* handoffs, which are answered in the queue without a page, are left out. *)
(* So are the pages that release saves pin: they only make usable_blocks   *)
(* smaller for a time.                                                     *)
(***************************************************************************)
EXTENDS EntitlementLedger

CONSTANTS Slots            \* glm52_decode_slots

ASSUME SlotsAssumption ==
    /\ Slots \in Nat \ {0}
    /\ \A r \in Requests : Lifetime[r] <= Total   \* validate_request

VARIABLES pending          \* resolved requests that wait, front first

avars == <<vars, pending>>

Active == {r \in Requests : Admitted(r)}

Init == LedgerInit /\ pending = <<>>

\* The resolve's result arrives in the queue.
Intake(r) == Finish(r) /\ pending' = Append(pending, r)

-----------------------------------------------------------------------------
\* admit_from_queue, one turn of its loop.

Committed == MapThenSumSet(LAMBDA r : Lifetime[r], Active)

PhysicalUsable(r) == Available + MapThenSumSet(Resident, Active) + Credit(r)

Fits(r) == Committed + Lifetime[r] <= Min({Total, PhysicalUsable(r)})

SlotFree == Cardinality(Active) < Slots

AtFront == sched = Idle /\ SlotFree /\ pending # <<>>

\* A resolve that was cancelled or failed brings nothing; a front whose client
\* is gone is dropped.
Dropped(r) ==
    /\ Abandon(r)
    /\ IF pc[r] = "ready"
       THEN AtFront /\ r = Head(pending) /\ pending' = Tail(pending)
       ELSE UNCHANGED pending

\* As Sheddable, without the shedding.
Sheddable_None == {}

\* Positions behind the front of plain requests that hold pages, and of
\* native requests that would fit now.
Sheddable == {i \in 2 .. Len(pending) : pending[i] \notin Natives /\ held[pending[i]] # <<>>}
Passable == {i \in 2 .. Len(pending) : pending[i] \in Natives /\ Fits(pending[i])}

\* The budget test, which takes no gate; try_admit tests again under it.
Checked(r) ==
    /\ sched' = [op |-> "checked", req |-> r]
    /\ UNCHANGED <<reg, assigned, private, drawn, held, reserved, pc, entitled, failed, pending>>

CheckFront == AtFront /\ Fits(Head(pending)) /\ Checked(Head(pending))

Bypass ==
    /\ AtFront
    /\ ~Fits(Head(pending))
    /\ Sheddable = {}
    /\ Passable # {}
    /\ Checked(pending[Min(Passable)])

\* The rearmost hold goes to the pages that may be evicted.
Shed ==
    /\ AtFront
    /\ ~Fits(Head(pending))
    /\ Sheddable # {}
    /\ held' = [held EXCEPT ![pending[Max(Sheddable)]] = <<>>]
    /\ UNCHANGED <<reg, assigned, private, drawn, reserved, pc, entitled, sched, failed, pending>>

\* As AdmitChecked, taking the front off the queue whoever was checked.
AdmitChecked_Front(r) ==
    /\ sched = [op |-> "checked", req |-> r]
    /\ TryAdmit(r)
    /\ pending' = Tail(pending)

AdmitChecked(r) ==
    /\ sched = [op |-> "checked", req |-> r]
    /\ TryAdmit(r)
    /\ pending' = Remove(pending, r)

\* A reserve won the race for the pages: back to the front of the queue.
Defer(r) ==
    /\ sched = [op |-> "checked", req |-> r]
    /\ GateFree
    /\ ~Admissible(r)
    /\ sched' = Idle
    /\ pending' = <<r>> \o Remove(pending, r)
    /\ UNCHANGED <<reg, assigned, private, drawn, held, reserved, pc, entitled, failed>>

-----------------------------------------------------------------------------
Next ==
    \/ \E r \in Requests :
          \/ Intake(r) \/ Dropped(r)
          \/ AdmitChecked(r) \/ Defer(r)
          \/ (Resolve(r) \/ Serve(r)) /\ UNCHANGED pending
    \/ CheckFront \/ Bypass \/ Shed
    \/ (Settle \/ EvictInactive) /\ UNCHANGED pending

Spec == Init /\ [][Next]_avars

-----------------------------------------------------------------------------
\* The variables have their types, and the queue has every resolved request
\* that was not admitted, once: neither a bypass nor a lost race for the pages
\* (admit_from_queue pops, admits and pushes back) loses or repeats one.
QueueTypeOK ==
    /\ TypeOK
    /\ IsInjective(pending)
    /\ ToSet(pending) = {r \in Requests : pc[r] = "ready" /\ sched # [op |-> "admit", req |-> r]}

\* Nothing runs, nothing resolves and the scheduler has nothing left to try,
\* yet requests wait: only a client that goes away moves the queue again.
Stalled ==
    /\ sched = Idle
    /\ pending # <<>>
    /\ \A r \in Requests : pc[r] \in {"new", "ready"}
    /\ ~Fits(Head(pending))
    /\ Sheddable = {}
    /\ Passable = {}

\* The queue can stall only on what it never lets go: the hold of a native
\* request, or a front that holds duplicates next to the pages they copy.
StallNeedsKeptPages ==
    Stalled => \/ \E i \in DOMAIN pending : pending[i] \in Natives /\ held[pending[i]] # <<>>
               \/ Dups(held[Head(pending)]) > 0

=============================================================================
