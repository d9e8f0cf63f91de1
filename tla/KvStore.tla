------------------------------- MODULE KvStore -------------------------------
(***************************************************************************)
(* The read and the write path of the KV store between a rank's GPU pages  *)
(* and its host tier (pegainfer-kv-store store.rs over tier.rs): resolving *)
(* a prefix through a leased tier hit and a load, saving sealed pages,     *)
(* retiring a request and draining the copies before the GPU arenas go     *)
(* (teardown of pegainfer-glm52 scheduler/mod.rs).                         *)
(*                                                                         *)
(* A resolve is an asynchronous task; its tier queries and its load run as *)
(* tasks of their own, which outlive it when its deadline passes.  A load  *)
(* is one copy per device, a save is one copy, and the tier completes them *)
(* when it pleases, or never.  Nothing can cancel a copy.                  *)
(*                                                                         *)
(* Abstractions.  A page is free, or in use by whoever can still name it:  *)
(* a reservation, a hold, a request, a save guard.  Whether the pool has   *)
(* room for a load is left open (EntitlementLedger models the budget), and *)
(* what the probe finds on the GPU is left out.  A hit is for one page.    *)
(* A request's pages are those it has filled and registered.               *)
(***************************************************************************)
EXTENDS Integers, Sequences, FiniteSets, Functions

CONSTANTS Resolves,        \* resolve_prefix calls
          Requests,        \* requests that run and are saved
          Pages,
          Devices,         \* sequence: the primary device, then its mirrors
          MaxPages         \* pages of a request

ASSUME KvStoreAssumption ==
    /\ Len(Devices) > 0 /\ IsInjective(Devices)
    /\ MaxPages \in Nat

VARIABLES task,            \* resolve -> where its task is
          fullHit,         \* resolves that wait for a full hit
          cancelled,       \* resolves whose client is gone
          late,            \* resolves whose deadline has passed
          query,           \* resolve -> state of its latest tier query
          lease,           \* resolve -> loads that its lease is still good for
          load,            \* resolve -> its load task
          hold,            \* resolve -> loaded pages that its KvPrefix holds
          kv,              \* request -> its RequestKv and its SaveCursor
          saves,           \* request -> its saves, in order of submission
          pinned,          \* RankState::pinned
          drain            \* how far teardown is, and what it saw

vars == <<task, fullHit, cancelled, late, query, lease, load, hold, kv, saves, pinned, drain>>

NoLoad == [state |-> "none", pages |-> {}, flying |-> {}, landed |-> {}]

KvPages(k) == Range(kv[k].pages)

GuardedPages ==
    {p \in Pages : \E k \in Requests : \E s \in Range(saves[k]) : s.guarded /\ p \in s.pages}

\* BlockManager: what nobody can name any more may be given to someone else.
FreePages ==
    {p \in Pages : /\ \A r \in Resolves : p \notin load[r].pages \cup hold[r]
                   /\ \A k \in Requests : p \notin KvPages(k)
                   /\ p \notin GuardedPages}

Init ==
    /\ task = [r \in Resolves |-> "new"]
    /\ fullHit = {}
    /\ cancelled = {}
    /\ late = {}
    /\ query = [r \in Resolves |-> "none"]
    /\ lease = [r \in Resolves |-> 0]
    /\ load = [r \in Resolves |-> NoLoad]
    /\ hold = [r \in Resolves |-> {}]
    /\ kv = [k \in Requests |-> [state |-> "running", pages |-> <<>>, matched |-> 0, saved |-> 0]]
    /\ saves = [k \in Requests |-> <<>>]
    /\ pinned = 0
    /\ drain = [phase |-> "serving", loads |-> FALSE]

storage == <<kv, saves, pinned, drain>>

inputs == <<fullHit, cancelled>>

-----------------------------------------------------------------------------
(***************************************************************************)
(* The outside world: clients, clocks and the tier.                        *)
(***************************************************************************)

\* The request's sink closes; the store sees it if it still looks.
Cancel(r) ==
    /\ task[r] \in {"new", "loop", "query", "reserved"} /\ r \notin cancelled
    /\ cancelled' = cancelled \cup {r}
    /\ UNCHANGED <<task, fullHit, late, query, lease, load, hold, storage>>

\* The deadline runs from the first look at the tier.
Deadline(r) ==
    /\ task[r] \in {"loop", "query", "reserved", "loading"} /\ r \notin late
    /\ late' = late \cup {r}
    /\ UNCHANGED <<task, inputs, query, lease, load, hold, storage>>

\* As QuerySettles, for a detached query whose output holds no guard.
QuerySettles_Unguarded(r, outcome) ==
    /\ query[r] = "flying"
    /\ query' = [query EXCEPT ![r] = outcome]
    /\ lease' = [lease EXCEPT ![r] = IF outcome = "hit" THEN Len(Devices) ELSE 0]
    /\ UNCHANGED <<task, inputs, late, load, hold, storage>>

\* tier.query settles in its detached task, which hands the outcome over or,
\* if the wait was abandoned, drops it: LeaseGuard then releases the lease.
QuerySettles(r, outcome) ==
    /\ query[r] = "flying"
    /\ query' = [query EXCEPT ![r] = IF task[r] = "query" THEN outcome ELSE "none"]
    /\ lease' = [lease EXCEPT ![r] = IF outcome = "hit" /\ task[r] = "query"
                                     THEN Len(Devices) ELSE 0]
    /\ UNCHANGED <<task, inputs, late, load, hold, storage>>

\* One device's copy of a load ends.
CopyLands(r, d, ok) ==
    /\ d \in load[r].flying
    /\ load' = [load EXCEPT ![r].flying = @ \ {d},
                            ![r].landed = IF ok THEN @ \cup {d} ELSE @]
    /\ UNCHANGED <<task, inputs, late, query, lease, hold, storage>>

-----------------------------------------------------------------------------
(***************************************************************************)
(* resolve_prefix.                                                         *)
(***************************************************************************)

\* A return, with what the probe holds or with KvPrefix::none().
Return(r) == task' = [task EXCEPT ![r] = "done"]

\* Up to the loop, with either policy.wait_for_full_hit.  The engine takes no
\* more requests once it tears down.
Begin(r, full) ==
    /\ task[r] = "new" /\ drain.phase = "serving"
    /\ IF r \in cancelled THEN Return(r) ELSE task' = [task EXCEPT ![r] = "loop"]
    /\ fullHit' = IF full THEN fullHit \cup {r} ELSE fullHit
    /\ UNCHANGED <<cancelled, late, query, lease, load, hold, storage>>

\* One turn of the loop up to its await.
Query(r) ==
    /\ task[r] = "loop"
    /\ IF r \in cancelled
       THEN Return(r) /\ UNCHANGED query
       ELSE /\ task' = [task EXCEPT ![r] = "query"]
            /\ query' = [query EXCEPT ![r] = "flying"]
    /\ UNCHANGED <<inputs, late, lease, load, hold, storage>>

\* The wait is over before the query is.
QueryTimesOut(r) ==
    /\ task[r] = "query" /\ query[r] = "flying" /\ r \in late
    /\ Return(r)
    /\ UNCHANGED <<inputs, late, query, lease, load, hold, storage>>

\* As AgainOrReturn, leaving the deadline to the query's own wait.
AgainOrReturn_Forever(r) == task' = [task EXCEPT ![r] = "loop"]

\* Try again unless the deadline has passed.
AgainOrReturn(r) ==
    IF r \in late THEN Return(r) ELSE task' = [task EXCEPT ![r] = "loop"]

NoHit(r) ==
    /\ task[r] = "query" /\ query[r] \in {"miss", "loading", "failed"}
    /\ IF query[r] = "failed" \/ (query[r] = "miss" /\ r \notin fullHit)
       THEN Return(r) ELSE AgainOrReturn(r)
    /\ UNCHANGED <<inputs, late, query, lease, load, hold, storage>>

\* A hit, and pages for it: guard.take() moves the lease to the resolve.
HitReserved(r) ==
    /\ task[r] = "query" /\ query[r] = "hit"
    /\ task' = [task EXCEPT ![r] = "reserved"]
    /\ \E p \in FreePages :
          load' = [load EXCEPT ![r] = [NoLoad EXCEPT !.state = "reserved", !.pages = {p}]]
    /\ UNCHANGED <<inputs, late, query, lease, hold, storage>>

\* A hit, and no room for it: the guard's drop releases the lease.
HitDeclined(r) ==
    /\ task[r] = "query" /\ query[r] = "hit"
    /\ AgainOrReturn(r)
    /\ lease' = [lease EXCEPT ![r] = 0]
    /\ UNCHANGED <<inputs, late, query, load, hold, storage>>

CancelledBeforeLoad(r) ==
    /\ task[r] = "reserved" /\ r \in cancelled
    /\ Return(r)
    /\ lease' = [lease EXCEPT ![r] = 0]
    /\ load' = [load EXCEPT ![r] = NoLoad]
    /\ UNCHANGED <<inputs, late, query, hold, storage>>

\* tier.load submits a copy per device, in order, until one is refused; each
\* takes one unit of the lease.  The tracked task owns the reservation.
StartLoad(r, submitted) ==
    /\ task[r] = "reserved" /\ r \notin cancelled
    /\ task' = [task EXCEPT ![r] = "loading"]
    /\ load' = [load EXCEPT ![r].state = "running",
                            ![r].flying = Range(SubSeq(Devices, 1, submitted))]
    /\ lease' = [lease EXCEPT ![r] = @ - submitted]
    /\ UNCHANGED <<inputs, late, query, hold, storage>>

\* The load's task ends when every copy it submitted has: it succeeded if all
\* devices have the page, and otherwise what is left of the lease goes back.
\* With nobody waiting, its output, the reservation, is dropped.
LoadSettles(r) ==
    /\ load[r].state = "running" /\ load[r].flying = {}
    /\ load' = [load EXCEPT ![r].state = IF load[r].landed = Range(Devices) THEN "ok" ELSE "error",
                            ![r].pages = IF task[r] = "loading" THEN @ ELSE {}]
    /\ lease' = [lease EXCEPT ![r] = 0]
    /\ UNCHANGED <<task, inputs, late, query, hold, storage>>

\* The resolve sees the load settled: commit, or drop the reservation.
LoadDone(r) ==
    /\ task[r] = "loading" /\ load[r].state \in {"ok", "error"}
    /\ Return(r)
    /\ hold' = [hold EXCEPT ![r] = IF load[r].state = "ok" THEN load[r].pages ELSE {}]
    /\ load' = [load EXCEPT ![r].pages = {}]
    /\ UNCHANGED <<inputs, late, query, lease, storage>>

\* As LoadTimesOut, with the reservation dropped by the resolve that gives up.
LoadTimesOut_DropsPages(r) ==
    /\ task[r] = "loading" /\ load[r].state = "running" /\ r \in late
    /\ Return(r)
    /\ load' = [load EXCEPT ![r].pages = {}]
    /\ UNCHANGED <<inputs, late, query, lease, hold, storage>>

\* The deadline abandons the wait, and the wait only.
LoadTimesOut(r) ==
    /\ task[r] = "loading" /\ load[r].state = "running" /\ r \in late
    /\ Return(r)
    /\ UNCHANGED <<inputs, late, query, lease, load, hold, storage>>

-----------------------------------------------------------------------------
reads == <<task, inputs, late, query, lease, load>>

(***************************************************************************)
(* Requests: admission with or without the prefix, pages filled, seal,     *)
(* retire.  (SchedulableSequence and EntitlementLedger have the rest of    *)
(* their life.)                                                            *)
(***************************************************************************)

\* The hold dies at admission; a request that matched it shares its page.
Admitted(r, k) ==
    /\ task[r] = "done" /\ hold[r] # {}
    /\ kv[k].state = "running" /\ kv[k].pages = <<>>
    /\ \E p \in hold[r] : kv' = [kv EXCEPT ![k].pages = <<p>>, ![k].matched = 1]
    /\ hold' = [hold EXCEPT ![r] = {}]
    /\ UNCHANGED <<reads, saves, pinned, drain>>

DropHold(r) ==
    /\ task[r] = "done" /\ hold[r] # {}
    /\ hold' = [hold EXCEPT ![r] = {}]
    /\ UNCHANGED <<reads, storage>>

FillPage(k) ==
    /\ kv[k].state = "running" /\ drain.phase = "serving" /\ Len(kv[k].pages) < MaxPages
    /\ \E p \in FreePages : kv' = [kv EXCEPT ![k].pages = Append(@, p)]
    /\ UNCHANGED <<reads, hold, saves, pinned, drain>>

\* What seal would save: the registered pages past the cursor, which starts
\* past the prefix hit.
Unsaved(k) ==
    LET from == IF kv[k].saved = 0 THEN kv[k].matched ELSE kv[k].saved
    IN  {kv[k].pages[i] : i \in from + 1 .. Len(kv[k].pages)}

\* A save: its pages, its class, whether its copy is over, whether its task
\* still holds the guards, whether the watcher has passed on the result.
NewSave(pages, class) ==
    [pages |-> pages, class |-> class, landed |-> FALSE, guarded |-> TRUE, watched |-> FALSE]

\* seal, but for the cursor.
SaveUnsaved(k, class) ==
    IF Unsaved(k) = {} THEN UNCHANGED <<saves, pinned>>
    ELSE /\ saves' = [saves EXCEPT ![k] = Append(@, NewSave(Unsaved(k), class))]
         /\ pinned' = pinned + Cardinality(Unsaved(k))

Seal(k, class) ==
    /\ kv[k].state = "running"
    /\ SaveUnsaved(k, class)
    /\ kv' = [kv EXCEPT ![k].saved = Len(kv[k].pages)]
    /\ UNCHANGED <<reads, hold, drain>>

\* As Retire, releasing whatever saves are pending.
Retire_NeverParks(k, class) ==
    /\ kv[k].state = "running" /\ drain.phase = "serving"
    /\ SaveUnsaved(k, class)
    /\ kv' = [kv EXCEPT ![k] = [@ EXCEPT !.state = "released", !.pages = <<>>]]
    /\ UNCHANGED <<reads, hold, drain>>

\* retire: a last seal, then release now, or when the handoff saves settle.
Retire(k, class) ==
    /\ kv[k].state = "running" /\ drain.phase = "serving"
    /\ SaveUnsaved(k, class)
    /\ kv' = [kv EXCEPT ![k] = IF \E s \in Range(saves'[k]) : s.class = "Handoff"
                               THEN [@ EXCEPT !.state = "parked"]
                               ELSE [@ EXCEPT !.state = "released", !.pages = <<>>]]
    /\ UNCHANGED <<reads, hold, drain>>

\* The parked task has awaited the outcome of every handoff save.
ParkedReleases(k) ==
    /\ kv[k].state = "parked"
    /\ \A s \in Range(saves[k]) : s.class = "Handoff" => s.watched
    /\ kv' = [kv EXCEPT ![k].state = "released", ![k].pages = <<>>]
    /\ UNCHANGED <<reads, hold, saves, pinned, drain>>

-----------------------------------------------------------------------------
(***************************************************************************)
(* A save after its submission: the tier's task lands the copy, sends the  *)
(* result and then drops the guards; the store's watcher acts on the       *)
(* result in a task of its own.                                            *)
(***************************************************************************)

SaveLands(k, i) ==
    /\ ~saves[k][i].landed
    /\ saves' = [saves EXCEPT ![k][i].landed = TRUE]
    /\ UNCHANGED <<reads, hold, kv, pinned, drain>>

GuardsDrop(k, i) ==
    /\ saves[k][i].landed /\ saves[k][i].guarded
    /\ saves' = [saves EXCEPT ![k][i].guarded = FALSE]
    /\ UNCHANGED <<reads, hold, kv, pinned, drain>>

\* As Watch, not waiting for the result.
Watch_Early(k, i) ==
    /\ ~saves[k][i].watched
    /\ saves' = [saves EXCEPT ![k][i].watched = TRUE]
    /\ pinned' = pinned - Cardinality(saves[k][i].pages)
    /\ UNCHANGED <<reads, hold, kv, drain>>

\* As Watch, by the request, which has to be running.
Watch_WhileRunning(k, i) ==
    /\ saves[k][i].landed /\ ~saves[k][i].watched /\ kv[k].state = "running"
    /\ saves' = [saves EXCEPT ![k][i].watched = TRUE]
    /\ pinned' = pinned - Cardinality(saves[k][i].pages)
    /\ UNCHANGED <<reads, hold, kv, drain>>

Watch(k, i) ==
    /\ saves[k][i].landed /\ ~saves[k][i].watched
    /\ saves' = [saves EXCEPT ![k][i].watched = TRUE]
    /\ pinned' = pinned - Cardinality(saves[k][i].pages)
    /\ UNCHANGED <<reads, hold, kv, drain>>

-----------------------------------------------------------------------------
(***************************************************************************)
(* teardown: the loads get their time to settle, then the saves; the       *)
(* arenas are freed only if both made it.                                  *)
(***************************************************************************)

served == <<reads, hold, kv, saves, pinned>>

\* The serve loop ends with no resolve in flight, nothing pending, no slot taken.
TearDown ==
    /\ drain.phase = "serving"
    /\ \A r \in Resolves : task[r] \in {"new", "done"} /\ hold[r] = {}
    /\ \A k \in Requests : kv[k].state # "running"
    /\ drain' = [drain EXCEPT !.phase = "loads"]
    /\ UNCHANGED served

LoadsSettled == \A r \in Resolves : load[r].state # "running"

\* flush_loads returns, or its timeout does.
FlushLoads ==
    /\ drain.phase = "loads"
    /\ drain' = [phase |-> "saves", loads |-> LoadsSettled]
    /\ UNCHANGED served

\* As Disposition, forgetting the loads that were given up on.
Disposition_SavesOnly(loads, flushed) == IF flushed THEN "freed" ELSE "leaked"

\* teardown_disposition.
Disposition(loads, flushed) == IF loads /\ flushed THEN "freed" ELSE "leaked"

\* The tier's flush awaits the save tasks, which end by dropping their guards.
FlushSaves ==
    /\ drain.phase = "saves"
    /\ drain' = [drain EXCEPT !.phase = Disposition(drain.loads, GuardedPages = {})]
    /\ UNCHANGED served

-----------------------------------------------------------------------------
\* What a resolve does when it is its turn to run.
ResolveRuns(r) ==
    \/ Query(r)
    \/ QueryTimesOut(r)
    \/ NoHit(r)
    \/ HitReserved(r)
    \/ HitDeclined(r)
    \/ CancelledBeforeLoad(r)
    \/ \E submitted \in 0 .. Len(Devices) : StartLoad(r, submitted)
    \/ LoadDone(r)
    \/ LoadTimesOut(r)

Next ==
    \/ \E r \in Resolves :
          \/ Cancel(r)
          \/ Deadline(r)
          \/ \E outcome \in {"miss", "loading", "failed", "hit"} : QuerySettles(r, outcome)
          \/ \E d \in Range(Devices), ok \in BOOLEAN : CopyLands(r, d, ok)
          \/ \E full \in BOOLEAN : Begin(r, full)
          \/ ResolveRuns(r)
          \/ LoadSettles(r)
          \/ DropHold(r)
          \/ \E k \in Requests : Admitted(r, k)
    \/ \E k \in Requests :
          \/ FillPage(k)
          \/ \E class \in {"Cacheable", "Handoff"} : Seal(k, class) \/ Retire(k, class)
          \/ ParkedReleases(k)
          \/ \E i \in DOMAIN saves[k] : SaveLands(k, i) \/ GuardsDrop(k, i) \/ Watch(k, i)
    \/ TearDown
    \/ FlushLoads
    \/ FlushSaves

Spec == Init /\ [][Next]_vars

\* The runtime runs what is ready and the clock moves on.  Nothing is asked of
\* the tier: queries and copies may take for ever.
Fairness ==
    /\ \A r \in Resolves :
          /\ WF_vars(Deadline(r))
          /\ WF_vars(ResolveRuns(r))
          /\ WF_vars(LoadSettles(r))
    /\ \A k \in Requests :
          /\ WF_vars(ParkedReleases(k))
          /\ WF_vars(\E i \in DOMAIN saves[k] : Watch(k, i))

FairSpec == Spec /\ Fairness

-----------------------------------------------------------------------------
UnlandedSaves(k) == {s \in Range(saves[k]) : ~s.landed}

\* The pages of request k's saves in S, counted once for each save.
SavedPages(k, S) == UNION {{<<k, i>>} \X saves[k][i].pages : i \in S}

BeingRead ==
    UNION {SavedPages(k, {i \in DOMAIN saves[k] : ~saves[k][i].landed}) : k \in Requests}

(***************************************************************************)
(* A page that a copy still touches is nobody else's.  The destination of  *)
(* a flying load belongs to its reservation alone, also after the resolve  *)
(* that made it has given up, and after an error on another device; the    *)
(* source of a flying save is neither free nor reserved for a load, also   *)
(* after its request has been released (store.rs:290, tier.rs load, save). *)
(***************************************************************************)
CopiesOwnTheirPages ==
    /\ \A r \in Resolves : load[r].flying # {} =>
          /\ load[r].pages # {}
          /\ load[r].pages \cap ((UNION {hold[s] : s \in Resolves})
                                 \cup (UNION {load[s].pages : s \in Resolves \ {r}})
                                 \cup (UNION {KvPages(k) : k \in Requests})) = {}
    /\ \A k \in Requests : \A s \in UnlandedSaves(k) :
          s.pages \cap (FreePages \cup (UNION {load[r].pages : r \in Resolves})) = {}

(***************************************************************************)
(* RankState::pinned, which admission subtracts from its budget, counts at *)
(* least the pages whose save has not landed, whatever the order in which  *)
(* saves land, guards drop and watchers run, and however requests end.     *)
(***************************************************************************)
PinnedCoversReads == Cardinality(BeingRead) <= pinned

(***************************************************************************)
(* The KV of a handoff stays resident until its saves have landed          *)
(* (SaveClass::Handoff, retire).                                           *)
(***************************************************************************)
HandoffOutlivesSaves ==
    \A k \in Requests : kv[k].state = "released" =>
        \A s \in UnlandedSaves(k) : s.class # "Handoff"

(***************************************************************************)
(* Arenas are freed only when no copy can touch them (the INVARIANT of     *)
(* teardown_disposition): none flies when they are, and none starts later. *)
(***************************************************************************)
FreedIsQuiet ==
    drain.phase = "freed" =>
        /\ \A r \in Resolves : load[r].flying = {} /\ task[r] \in {"new", "done"}
        /\ \A k \in Requests : UnlandedSaves(k) = {}

(***************************************************************************)
(* A resolve that has begun returns, even if the tier never answers.       *)
(***************************************************************************)
ResolveEnds == \A r \in Resolves : task[r] = "loop" ~> task[r] = "done"

(***************************************************************************)
(* A lease is consumed or given back, whenever the resolve was cancelled,  *)
(* timed out or declined its hit, unless the tier sits on a copy for ever  *)
(* (LeaseGuard: "always releases any lease the caller will never consume").*)
(***************************************************************************)
LeaseReturned ==
    \A r \in Resolves : lease[r] > 0 ~> (lease[r] = 0 \/ load[r].flying # {})

(***************************************************************************)
(* A parked KV is released once its saves have landed.                     *)
(***************************************************************************)
ParkedIsReleased ==
    \A k \in Requests :
        kv[k].state = "parked" ~> (kv[k].state = "released" \/ UnlandedSaves(k) # {})

=============================================================================
