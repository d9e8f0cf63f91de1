-------------------------- MODULE EntitlementLedger --------------------------
(***************************************************************************)
(* The page budget of a BlockPool (pegainfer-kv-store pool.rs): the        *)
(* entitled counter that promises an admitted request its lifetime of      *)
(* pages, the reserve gate that keeps opportunistic loads off that promise *)
(* and the operations that move pages without taking the gate.             *)
(*                                                                         *)
(* Two kinds of thread act.  The scheduler thread admits, matches, draws,  *)
(* applies and releases, one call at a time.  Each request's resolve task  *)
(* probes, reserves and commits on its own.  A call that holds the gate is *)
(* two steps, what it does to the pool and what it does to the counter, so *)
(* that everything which does not take the gate can come in between.       *)
(*                                                                         *)
(* Abstractions.  Pages are counted, not named.  Page i of request r       *)
(* carries hash Chain[r][i] once it is full, and the requests' chains may  *)
(* share hashes.  The manager is what BlockStore promises under the Allow  *)
(* policy: registering a hash that is already registered makes the page a  *)
(* duplicate, and a duplicate keeps the canonical page in use.  Which      *)
(* cached page an allocation evicts is left open.                          *)
(***************************************************************************)
EXTENDS Integers, Sequences, FiniteSets, FiniteSetsExt, SequencesExt

CONSTANTS Requests,
          Natives,         \* those that resolve a P/D handoff: all pages or none
          Chain,           \* request -> hashes of the pages that become full
          Probed,          \* request -> hashes of the chain that it resolves
          Lifetime,        \* request -> lifetime_blocks
          Cacheable,       \* request -> pages that its resolve may hold
          MatchCap,        \* request -> pages that its prefix match may return
          Total,           \* pages of the pool, the padding page excluded
          MaxDraw          \* most pages that one schedule_* call draws

ASSUME EntitlementAssumption ==
    /\ Natives \subseteq Requests
    /\ Total \in Nat
    /\ MaxDraw \in Nat \ {0}
    /\ \A r \in Requests :
          /\ Lifetime[r] \in Nat \ {0}
          /\ Len(Chain[r]) <= Lifetime[r]
          /\ Cacheable[r] \in 0 .. Len(Probed[r])
          /\ MatchCap[r] \in 0 .. Min({Len(Chain[r]), Cacheable[r]})
          /\ \A i \in 1 .. MatchCap[r] : Probed[r][i] = Chain[r][i]

VARIABLES reg,             \* hashes that have a canonical page
          assigned,        \* request -> kind of each registered page it has
          private,         \* request -> drawn pages that are not registered
          drawn,           \* request -> those of the schedule under way
          held,            \* request -> kind of each page its probe pins
          reserved,        \* request -> pages that it reserves for a load
          pc,              \* where a request is
          entitled,        \* BlockPool::entitled
          sched,           \* what the scheduler thread is in the middle of
          failed           \* requests a draw of which found too few pages

vars == <<reg, assigned, private, drawn, held, reserved, pc, entitled, sched, failed>>

Hashes == UNION {ToSet(Chain[r]) \cup ToSet(Probed[r]) : r \in Requests}

Idle == [op |-> "idle"]

\* A registered page is the canonical one of its hash or a duplicate of it.
Kinds == {"primary", "dup"}

\* The variables have their types.
TypeOK ==
    /\ reg \subseteq Hashes
    /\ \A r \in Requests :
          /\ assigned[r] \in Seq(Kinds) /\ Len(assigned[r]) <= Len(Chain[r])
          /\ held[r] \in Seq(Kinds) /\ Len(held[r]) <= Len(Probed[r])
          /\ private[r] \in Nat
          /\ drawn[r] \in 0 .. private[r]
          /\ reserved[r] \in Nat
          /\ pc[r] \in {"new", "probed", "reserving", "loading", "committing",
                        "ready", "admitted", "running", "retired"}
    /\ entitled \in Int
    /\ failed \subseteq Requests

-----------------------------------------------------------------------------
\* The manager's view of the pages.

AssignedHashes(r) == {Chain[r][i] : i \in DOMAIN assigned[r]}

HeldHashes(r) == {Probed[r][i] : i \in DOMAIN held[r]}

Referenced == UNION {AssignedHashes(r) \cup HeldHashes(r) : r \in Requests}

Cached == reg \ Referenced

Dups(kinds) == Cardinality({i \in DOMAIN kinds : kinds[i] = "dup"})

\* The pages of a reservation are its own once they are allocated.
Taken(r) == IF pc[r] = "reserving" THEN 0 ELSE reserved[r]

\* BlockManager::available_blocks: the free and the cached pages.
Available ==
    Total - Cardinality(Referenced)
          - MapThenSumSet(LAMBDA r : Dups(assigned[r]) + Dups(held[r])
                                     + private[r] + Taken(r), Requests)

\* BlockManager::allocate_blocks: free pages first, then evicted cached ones.
Allocate(n) ==
    LET free == Available - Cardinality(Cached)
        evictions == IF n > free THEN n - free ELSE 0
    IN  /\ n <= Available
        /\ \E out \in kSubset(evictions, Cached) : reg' = reg \ out

\* BlockManager::match_blocks: how many leading hashes are registered.
Matches(hashes) ==
    CHOOSE n \in 0 .. Len(hashes) :
        /\ \A i \in 1 .. n : hashes[i] \in reg
        /\ n < Len(hashes) => hashes[n + 1] \notin reg

\* BlockManager::register_block, for each of a run of full pages.
Registered(hashes) ==
    [i \in DOMAIN hashes |-> IF hashes[i] \in reg THEN "dup" ELSE "primary"]

Register(hashes) == reg' = reg \cup ToSet(hashes)

-----------------------------------------------------------------------------
\* EntitledSeq

Admitted(r) == pc[r] \in {"admitted", "running"}

Resident(r) == Len(assigned[r]) + private[r]

Remaining(r) == Lifetime[r] - Resident(r)

EntitledBlocks == IF entitled > 0 THEN entitled ELSE 0

\* reserve_gate, held by the scheduler thread or by one resolve task.
GateFree ==
    /\ sched.op \notin {"admit", "settle"}
    /\ \A r \in Requests : pc[r] # "reserving"

\* with_draw on an admitted request: run the mutation under the gate, which
\* leaves change pages fewer resident, and keep the gate for Settle.
WithDraw(r, change) ==
    /\ sched = Idle
    /\ GateFree
    /\ sched' = [op |-> "settle", req |-> r, refund |-> change]
    /\ UNCHANGED entitled

\* As Settle, without giving back what a revert or a rejected draft returns.
Settle_DrawsOnly ==
    /\ sched.op = "settle"
    /\ entitled' = entitled + (IF sched.refund < 0 THEN sched.refund ELSE 0)
    /\ sched' = Idle
    /\ UNCHANGED <<reg, assigned, private, drawn, held, reserved, pc, failed>>

\* The tail of with_draw: the counter, then the end of the gate's scope.
Settle ==
    /\ sched.op = "settle"
    /\ entitled' = entitled + sched.refund
    /\ sched' = Idle
    /\ UNCHANGED <<reg, assigned, private, drawn, held, reserved, pc, failed>>

-----------------------------------------------------------------------------
\* A resolve task.

\* probe_prefix_with_cache_salt: pin every leading page that is registered.
\* It takes no gate.
Probe(r) ==
    /\ pc[r] = "new"
    /\ held' = [held EXCEPT ![r] = [i \in 1 .. Matches(Probed[r]) |-> "primary"]]
    /\ pc' = [pc EXCEPT ![r] = "probed"]
    /\ UNCHANGED <<reg, assigned, private, drawn, reserved, entitled, sched, failed>>

\* As MayReserve, with no regard for the entitled floor.
MayReserve_Greedy(n) == Available >= n

\* reserve_loaded_blocks, the test against the entitled floor.
MayReserve(n) == Available >= n + EntitledBlocks

ReserveCheck(r, n) ==
    /\ pc[r] = "probed"
    /\ Len(held[r]) + n <= Cacheable[r]
    /\ GateFree
    /\ MayReserve(n)
    /\ pc' = [pc EXCEPT ![r] = "reserving"]
    /\ reserved' = [reserved EXCEPT ![r] = n]
    /\ UNCHANGED <<reg, assigned, private, drawn, held, entitled, sched, failed>>

\* The rest of reserve_loaded_blocks.  What a probe pinned since the test may
\* leave too few pages, and then there is no reservation.
ReserveTake(r) ==
    /\ pc[r] = "reserving"
    /\ IF reserved[r] <= Available
       THEN /\ Allocate(reserved[r])
            /\ pc' = [pc EXCEPT ![r] = "loading"]
            /\ UNCHANGED reserved
       ELSE /\ pc' = [pc EXCEPT ![r] = "probed"]
            /\ reserved' = [reserved EXCEPT ![r] = 0]
            /\ UNCHANGED reg
    /\ UNCHANGED <<assigned, private, drawn, held, entitled, sched, failed>>

\* The load has landed; commit_loaded_blocks registers page after page.
Loaded(r) ==
    /\ pc[r] = "loading"
    /\ pc' = [pc EXCEPT ![r] = "committing"]
    /\ UNCHANGED <<reg, assigned, private, drawn, held, reserved, entitled, sched, failed>>

Commit(r) ==
    LET page == <<Probed[r][Len(held[r]) + 1]>>
    IN  /\ pc[r] = "committing"
        /\ reserved[r] > 0
        /\ held' = [held EXCEPT ![r] = @ \o Registered(page)]
        /\ Register(page)
        /\ reserved' = [reserved EXCEPT ![r] = @ - 1]
        /\ UNCHANGED <<assigned, private, drawn, pc, entitled, sched, failed>>

\* The end of a resolve, with whatever it got: the probe keeps the pages that
\* the request may use (truncate_held).  A failed load drops its reservation.
\* A native resolve that falls short of its chain is a rejection.
Finish(r) ==
    LET n == Min({Len(held[r]), Cacheable[r]})
    IN  /\ pc[r] \in {"probed", "loading", "committing"}
        /\ pc[r] = "committing" => reserved[r] = 0
        /\ r \in Natives => n = Cacheable[r]
        /\ reserved' = [reserved EXCEPT ![r] = 0]
        /\ held' = [held EXCEPT ![r] = SubSeq(@, 1, n)]
        /\ pc' = [pc EXCEPT ![r] = "ready"]
        /\ UNCHANGED <<reg, assigned, private, drawn, entitled, sched, failed>>

\* A resolve that was cancelled, or whose request never gets to run: all of it
\* is dropped.
Abandon(r) ==
    /\ pc[r] \in {"probed", "loading", "ready"}
    /\ reserved' = [reserved EXCEPT ![r] = 0]
    /\ held' = [held EXCEPT ![r] = <<>>]
    /\ pc' = [pc EXCEPT ![r] = "new"]
    /\ UNCHANGED <<reg, assigned, private, drawn, entitled, sched, failed>>

-----------------------------------------------------------------------------
\* The scheduler thread.

\* The held pages that the match will turn into pages of the request.
Credit(r) == Min({Len(held[r]), MatchCap[r]})

\* RequestKv::try_admit: the test, then EntitledSeq::admit.
Admissible(r) == Available + Credit(r) >= EntitledBlocks + Remaining(r)

TryAdmit(r) ==
    /\ GateFree
    /\ Admissible(r)
    /\ sched' = [op |-> "admit", req |-> r]
    /\ UNCHANGED <<reg, assigned, private, drawn, held, reserved, pc, entitled, failed>>

Admit(r) ==
    /\ sched = [op |-> "admit", req |-> r]
    /\ entitled' = entitled + Remaining(r)
    /\ pc' = [pc EXCEPT ![r] = "admitted"]
    /\ sched' = Idle
    /\ UNCHANGED <<reg, assigned, private, drawn, held, reserved, failed>>

\* match_and_add_prefix, on the fresh request.
MatchAndAddPrefix(r) ==
    LET n == Matches(SubSeq(Chain[r], 1, MatchCap[r]))
    IN  /\ pc[r] = "admitted"
        /\ WithDraw(r, -n)
        /\ assigned' = [assigned EXCEPT ![r] = [i \in 1 .. n |-> "primary"]]
        /\ pc' = [pc EXCEPT ![r] = "running"]
        /\ UNCHANGED <<reg, private, drawn, held, reserved, failed>>

\* The prefix goes once the request has matched it, or, of a native request,
\* once its first step has copied the boundary page.
DropPrefix(r) ==
    /\ pc[r] = "running"
    /\ sched = Idle
    /\ held[r] # <<>>
    /\ held' = [held EXCEPT ![r] = <<>>]
    /\ UNCHANGED <<reg, assigned, private, drawn, reserved, pc, entitled, sched, failed>>

Stepping(r) ==
    /\ pc[r] = "running"
    /\ held[r] = <<>> \/ r \in Natives
    /\ r \notin failed

\* schedule_prefill, schedule_decode, schedule_speculative
Schedule(r, n) ==
    /\ Stepping(r)
    /\ drawn[r] = 0
    /\ n <= Remaining(r)
    /\ Allocate(n)
    /\ WithDraw(r, -n)
    /\ private' = [private EXCEPT ![r] = @ + n]
    /\ drawn' = [drawn EXCEPT ![r] = n]
    /\ UNCHANGED <<assigned, held, reserved, pc, failed>>

\* The same calls when the pool is too empty: nothing is drawn, and the
\* caller gives the request up.
ScheduleFails(r, n) ==
    /\ Stepping(r)
    /\ drawn[r] = 0
    /\ n <= Remaining(r)
    /\ n > Available
    /\ WithDraw(r, 0)
    /\ failed' = failed \cup {r}
    /\ UNCHANGED <<reg, assigned, private, drawn, held, reserved, pc>>

\* apply_prefill, apply_decode, apply_speculative: the n oldest pages are full
\* and are registered, and a speculative step returns the surplus pages of
\* its rejected draft.
Apply(r, n, surplus) ==
    LET have == Len(assigned[r])
        full == SubSeq(Chain[r], have + 1, have + n)
    IN  /\ Stepping(r)
        /\ drawn[r] + n > 0
        /\ n <= private[r] /\ have + n <= Len(Chain[r])
        /\ surplus <= drawn[r] /\ n + surplus <= private[r]
        /\ WithDraw(r, surplus)
        /\ assigned' = [assigned EXCEPT ![r] = @ \o Registered(full)]
        /\ Register(full)
        /\ private' = [private EXCEPT ![r] = @ - n - surplus]
        /\ drawn' = [drawn EXCEPT ![r] = 0]
        /\ UNCHANGED <<held, reserved, pc, failed>>

\* revert_schedule
Revert(r) ==
    /\ Stepping(r)
    /\ drawn[r] > 0
    /\ WithDraw(r, drawn[r])
    /\ private' = [private EXCEPT ![r] = @ - drawn[r]]
    /\ drawn' = [drawn EXCEPT ![r] = 0]
    /\ UNCHANGED <<reg, assigned, held, reserved, pc, failed>>

\* RequestKv::release, or the drop of the request: EntitledSeq::retire refunds
\* the remainder without the gate, and then the pages return.  A native request
\* may go with its prefix, and before its match: its client may be gone when
\* admit_native sends the anchor.
Retire(r) ==
    /\ Admitted(r)
    /\ sched = Idle
    /\ r \in Natives \/ (pc[r] = "running" /\ held[r] = <<>>)
    /\ entitled' = entitled - Remaining(r)
    /\ pc' = [pc EXCEPT ![r] = "retired"]
    /\ sched' = [op |-> "release", req |-> r]
    /\ UNCHANGED <<reg, assigned, private, drawn, held, reserved, failed>>

Release(r) ==
    /\ sched = [op |-> "release", req |-> r]
    /\ assigned' = [assigned EXCEPT ![r] = <<>>]
    /\ private' = [private EXCEPT ![r] = 0]
    /\ drawn' = [drawn EXCEPT ![r] = 0]
    /\ held' = [held EXCEPT ![r] = <<>>]
    /\ pc' = [pc EXCEPT ![r] = "new"]
    /\ failed' = failed \ {r}
    /\ sched' = Idle
    /\ UNCHANGED <<reg, reserved, entitled>>

\* BlockPool::evict_inactive
EvictInactive ==
    /\ Cached # {}
    /\ reg' = Referenced
    /\ UNCHANGED <<assigned, private, drawn, held, reserved, pc, entitled, sched, failed>>

LedgerInit ==
    /\ reg = {}
    /\ assigned = [r \in Requests |-> <<>>]
    /\ private = [r \in Requests |-> 0]
    /\ drawn = [r \in Requests |-> 0]
    /\ held = [r \in Requests |-> <<>>]
    /\ reserved = [r \in Requests |-> 0]
    /\ pc = [r \in Requests |-> "new"]
    /\ entitled = 0
    /\ sched = Idle
    /\ failed = {}

\* The steps of a resolve up to its end.
Resolve(r) ==
    \/ Probe(r)
    \/ \E n \in 1 .. Len(Probed[r]) : ReserveCheck(r, n)
    \/ ReserveTake(r)
    \/ Loaded(r)
    \/ Commit(r)

\* The steps of a request from its admission on.
Serve(r) ==
    \/ Admit(r)
    \/ MatchAndAddPrefix(r)
    \/ DropPrefix(r)
    \/ \E n \in 1 .. MaxDraw : Schedule(r, n) \/ ScheduleFails(r, n)
    \/ \E n \in 0 .. Len(Chain[r]), surplus \in 0 .. MaxDraw : Apply(r, n, surplus)
    \/ Revert(r)
    \/ Retire(r)
    \/ Release(r)

-----------------------------------------------------------------------------
\* The counter is the sum of what the admitted requests have not drawn, up to
\* the settlement that the gate still covers: every draw, return, match,
\* retire and drop keeps its books, whatever runs beside it.
LedgerExact ==
    entitled + (IF sched.op = "settle" THEN sched.refund ELSE 0)
        = MapThenSumSet(Remaining, {r \in Requests : Admitted(r)})

\* Pages that an admitted request has paid for out of its lifetime: the
\* canonical ones that it matched or registered, and those its probe holds
\* for the match to come.
Paid ==
    UNION {IF pc[r] = "admitted" THEN {Chain[r][i] : i \in 1 .. Credit(r)}
           ELSE {Chain[r][i] : i \in {j \in DOMAIN assigned[r] : assigned[r][j] = "primary"}} :
           r \in {q \in Requests : Admitted(q)}}

\* Pages in use that nobody's lifetime accounts for: what a probe pins, what a
\* retired request has not returned yet and the canonical page behind a
\* duplicate.
Unpaid == Referenced \ Paid

\* What the pool still owes, less the held pages that admission credited.
Owed == MapThenSumSet(LAMBDA r : Remaining(r) - (IF pc[r] = "admitted" THEN Credit(r) ELSE 0),
                      {r \in Requests : Admitted(r)})

\* The entitled floor: the pages that can be allocated cover everything owed to
\* admitted requests, but for pages that are in use without having been paid
\* for.  No load, admission or settlement takes a promised page.
FloorButForPins == Available + Cardinality(Unpaid) >= Owed

\* "a mid-flight page-crossing draw can never fail" (RequestKv::try_admit)
AdmittedDrawsSucceed == failed = {}

=============================================================================
