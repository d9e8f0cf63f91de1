---------------------------- MODULE KvStoreProofs ----------------------------
(***************************************************************************)
(* Proofs about KvStore, for any resolves, requests, pages and devices:    *)
(* the safety invariants of the read path, of the write path and of the    *)
(* teardown that waits for both.                                           *)
(***************************************************************************)
EXTENDS KvStore, TLAPS

(* The provers to try, in this order. *)
USE SMTT(20), ZenonT(20), SMTT(60)

Loads == [state : {"none", "reserved", "running", "ok", "error"}, pages : SUBSET Pages,
          flying : SUBSET Range(Devices), landed : SUBSET Range(Devices)]

Kvs == [state : {"running", "parked", "released"}, pages : Seq(Pages),
        matched : Nat, saved : Nat]

Saves == [pages : SUBSET Pages, class : {"Cacheable", "Handoff"},
          landed : BOOLEAN, guarded : BOOLEAN, watched : BOOLEAN]

TaskOK == task \in [Resolves -> {"new", "loop", "query", "reserved", "loading", "done"}]
LoadOK == load \in [Resolves -> Loads]
HoldOK == hold \in [Resolves -> SUBSET Pages]
KvOK == kv \in [Requests -> Kvs]
SavesOK == saves \in [Requests -> Seq(Saves)]
DrainOK == drain \in [phase : {"serving", "loads", "saves", "freed", "leaked"}, loads : BOOLEAN]

TypeOK == TaskOK /\ LoadOK /\ HoldOK /\ KvOK /\ SavesOK /\ DrainOK

(* The load task of a resolve goes where the resolve goes, until it is     *)
(* abandoned; it flies copies only while it runs, into the reservation.    *)
LoadFollowsTask ==
    \A r \in Resolves :
        /\ task[r] \in {"new", "loop", "query"} => load[r] = NoLoad
        /\ task[r] = "reserved" <=> load[r].state = "reserved"
        /\ task[r] = "loading" => load[r].state \in {"running", "ok", "error"}
        /\ load[r].state \in {"reserved", "running"} => load[r].pages # {}
        /\ load[r].flying # {} => load[r].state = "running"

(* A reservation shares its pages with nobody, whether it is loading yet,  *)
(* still or no more.                                                       *)
ReservedIsExclusive ==
    \A r \in Resolves : \A p \in load[r].pages :
        /\ \A s \in Resolves : p \notin hold[s] /\ (s # r => p \notin load[s].pages)
        /\ \A k \in Requests :
              /\ \A i \in DOMAIN kv[k].pages : kv[k].pages[i] # p
              /\ \A i \in DOMAIN saves[k] : saves[k][i].guarded => p \notin saves[k][i].pages

(* The order of a save's last steps: it keeps its guards, and its watcher  *)
(* waits, until the copy has landed.                                       *)
SaveOrder ==
    \A k \in Requests : \A i \in DOMAIN saves[k] :
        /\ ~saves[k][i].landed => saves[k][i].guarded
        /\ saves[k][i].watched => saves[k][i].landed
        /\ saves[k][i].pages # {}

ReleasedIsHandedOff ==
    \A k \in Requests : kv[k].state = "released" =>
        \A i \in DOMAIN saves[k] : saves[k][i].class = "Handoff" => saves[k][i].landed

(* What teardown has seen stays so: nothing starts once the serve loop is  *)
(* over, and what it saw settled stays settled.                            *)
DrainIsFinal ==
    /\ drain.phase # "serving" =>
          /\ \A r \in Resolves : task[r] \in {"new", "done"}
          /\ \A k \in Requests : kv[k].state # "running"
    /\ drain.phase \in {"saves", "freed"} /\ drain.loads => LoadsSettled
    /\ drain.phase = "freed" =>
          /\ drain.loads
          /\ \A k \in Requests : \A i \in DOMAIN saves[k] : ~saves[k][i].guarded

(* The inductive invariant.  That a flying copy owns its page needs that   *)
(* every reservation is exclusive, flying or not, that only a running load *)
(* flies, and that guards outlast copies.                                  *)
IInv ==
    /\ TypeOK
    /\ LoadFollowsTask
    /\ ReservedIsExclusive
    /\ SaveOrder
    /\ ReleasedIsHandedOff
    /\ DrainIsFinal

-----------------------------------------------------------------------------
(* KvStore::new, and requests and resolves that have yet to come. *)
LEMMA InitIInv == Init => IInv
<1> SUFFICES ASSUME Init PROVE IInv
  BY Zenon
<1>1. TypeOK
  BY DEF Init, TypeOK, TaskOK, LoadOK, HoldOK, KvOK, SavesOK, DrainOK,
     Loads, Kvs, Saves, NoLoad
<1>2. LoadFollowsTask
  BY Zenon DEF Init, LoadFollowsTask, NoLoad
<1>3. ReservedIsExclusive /\ SaveOrder /\ ReleasedIsHandedOff /\ DrainIsFinal
  BY DEF Init, ReservedIsExclusive, SaveOrder, ReleasedIsHandedOff, DrainIsFinal, NoLoad
<1> QED BY <1>1, <1>2, <1>3, Zenon DEF IInv

(* The write path's part of the invariant, on a step that leaves it alone. *)
LEMMA StorageKeeps ==
    ASSUME IInv, UNCHANGED storage
    PROVE  SaveOrder' /\ ReleasedIsHandedOff'
BY Zenon DEF IInv, SaveOrder, ReleasedIsHandedOff, storage

(* A resolve that moves without touching pages: before it has any, or when *)
(* it walks away from a load that goes on without it.                      *)
LEMMA TaskMoves ==
    ASSUME IInv, UNCHANGED <<load, hold, storage>>, NEW r \in Resolves,
           NEW t \in {"loop", "query", "done"}, task' = [task EXCEPT ![r] = t],
           \/ task[r] = "new" /\ drain.phase = "serving"
           \/ task[r] \in {"loop", "query"}
           \/ task[r] = "loading" /\ t = "done"
    PROVE  IInv'
<1>1. TypeOK'
  BY Zenon DEF IInv, TypeOK, TaskOK, LoadOK, HoldOK, KvOK, SavesOK, DrainOK, storage
<1>2. LoadFollowsTask'
  BY ZenonT(40) DEF IInv, TypeOK, TaskOK, LoadOK, DrainOK, LoadFollowsTask, NoLoad
<1>3. ReservedIsExclusive'
  BY DEF IInv, ReservedIsExclusive, storage
<1>4. DrainIsFinal'
  BY Zenon DEF IInv, TypeOK, TaskOK, LoadOK, DrainOK, DrainIsFinal, LoadsSettled, storage
<1> QED BY <1>1, <1>2, <1>3, <1>4, StorageKeeps, Zenon DEF IInv

(* Clients, clocks and tier answers change nothing the invariant reads. *)
LEMMA NothingMoves ==
    ASSUME IInv, UNCHANGED <<task, load, hold, storage>>
    PROVE  IInv'
<1>1. TypeOK'
  BY Zenon DEF IInv, TypeOK, TaskOK, LoadOK, HoldOK, KvOK, SavesOK, DrainOK, storage
<1>2. LoadFollowsTask'
  BY Zenon DEF IInv, LoadFollowsTask
<1>3. ReservedIsExclusive'
  BY Zenon DEF IInv, ReservedIsExclusive, storage
<1>4. DrainIsFinal'
  BY Zenon DEF IInv, DrainIsFinal, LoadsSettled, storage
<1> QED BY <1>1, <1>2, <1>3, <1>4, StorageKeeps, Zenon DEF IInv

(* A resolve's load moves, and takes no page it had not reserved. *)
LEMMA LoadMoves ==
    ASSUME IInv, UNCHANGED <<hold, storage>>, NEW r \in Resolves, NEW after \in Loads,
           NEW t \in {"reserved", "loading", "done"},
           load' = [load EXCEPT ![r] = after], task' = [task EXCEPT ![r] = t],
           after.pages \subseteq load[r].pages,
           after.state \in {"reserved", "running"} => after.pages # {},
           after.flying # {} => after.state = "running",
           t = "reserved" <=> after.state = "reserved",
           t = "loading" => after.state \in {"running", "ok", "error"},
           drain.phase # "serving" =>
               t = "done" /\ (after.state = "running" => load[r].state = "running")
    PROVE  IInv'
<1>1. TypeOK'
  BY Zenon DEF IInv, TypeOK, TaskOK, LoadOK, HoldOK, KvOK, SavesOK, DrainOK, storage
<1>2. /\ load'[r] = after /\ task'[r] = t
      /\ \A s \in Resolves \ {r} : load'[s] = load[s] /\ task'[s] = task[s]
  BY Zenon DEF IInv, TypeOK, TaskOK, LoadOK
<1>3. LoadFollowsTask'
  <2>2. ASSUME NEW s \in Resolves PROVE LoadFollowsTask!(s)'
    <3>1. CASE s = r
      BY <1>2, <3>1, ZenonT(40) DEF IInv, LoadFollowsTask
    <3>2. CASE s # r
      BY <1>2, <3>2 DEF IInv, LoadFollowsTask
    <3> QED BY <3>1, <3>2, Zenon
  <2> QED BY <2>2, Zenon DEF LoadFollowsTask
<1>4. ReservedIsExclusive'
  <2>1. \A s \in Resolves : load'[s].pages \subseteq load[s].pages
    BY <1>2, Zenon
  <2> QED BY <2>1 DEF IInv, ReservedIsExclusive, storage
<1>5. DrainIsFinal'
  BY <1>2, Zenon DEF IInv, TypeOK, TaskOK, LoadOK, DrainOK, DrainIsFinal, LoadsSettled, storage
<1> QED BY <1>1, <1>3, <1>4, <1>5, StorageKeeps, Zenon DEF IInv

(* A load runs for a resolve that waits for it or has given up. *)
LEMMA RunningTask ==
    ASSUME IInv, NEW r \in Resolves, load[r].state = "running"
    PROVE  task[r] \in {"loading", "done"} /\ load[r].pages # {}
<1>1. load[r] # NoLoad
  BY DEF NoLoad
<1>2. task[r] \in {"new", "loop", "query", "reserved", "loading", "done"}
  BY Zenon DEF IInv, TypeOK, TaskOK
<1> QED BY <1>1, <1>2, Zenon DEF IInv, LoadFollowsTask

(* One copy of a load ends. *)
LEMMA CopyLandsKeeps ==
    ASSUME IInv, NEW r \in Resolves, NEW d \in Range(Devices), NEW ok \in BOOLEAN,
           CopyLands(r, d, ok)
    PROVE  IInv'
<1> DEFINE after == [load[r] EXCEPT !.flying = @ \ {d},
                                   !.landed = IF ok THEN @ \cup {d} ELSE @]
<1>1. /\ load' = [load EXCEPT ![r] = after] /\ d \in load[r].flying
      /\ UNCHANGED <<task, hold, storage>>
  BY Zenon DEF CopyLands
<1>2. load[r] \in Loads
  BY Zenon DEF IInv, TypeOK, LoadOK
<1>3. /\ after \in Loads /\ after.flying \subseteq load[r].flying
      /\ after.pages = load[r].pages /\ after.state = load[r].state
  BY <1>2, Zenon DEF Loads
<1>4. load[r].state = "running"
  BY <1>1, Zenon DEF IInv, LoadFollowsTask
<1>7. task[r] \in {"loading", "done"} /\ load[r].pages # {}
  BY <1>4, RunningTask, Zenon
<1>5. task' = [task EXCEPT ![r] = task[r]]
  BY <1>1, Zenon DEF IInv, TypeOK, TaskOK
<1>6. drain.phase # "serving" => task[r] = "done"
  BY <1>7, Zenon DEF IInv, DrainIsFinal
<1> HIDE DEF after
<1> QED BY <1>1, <1>3, <1>4, <1>5, <1>6, <1>7, LoadMoves, Zenon

(* The reservation is dropped before anything was submitted. *)
LEMMA CancelledBeforeLoadKeeps ==
    ASSUME IInv, NEW r \in Resolves, CancelledBeforeLoad(r)
    PROVE  IInv'
<1>1. NoLoad \in Loads
  BY Zenon DEF NoLoad, Loads
<1>2. /\ load' = [load EXCEPT ![r] = NoLoad] /\ task' = [task EXCEPT ![r] = "done"]
      /\ UNCHANGED <<hold, storage>>
  BY Zenon DEF CancelledBeforeLoad, Return
<1> QED BY <1>1, <1>2, LoadMoves, Zenon DEF NoLoad

(* PegaflowTier::load, on as many devices as took it. *)
LEMMA StartLoadKeeps ==
    ASSUME IInv, NEW r \in Resolves, NEW submitted \in 0 .. Len(Devices),
           StartLoad(r, submitted)
    PROVE  IInv'
<1> DEFINE after == [load[r] EXCEPT !.state = "running",
                                   !.flying = Range(SubSeq(Devices, 1, submitted))]
<1>1. /\ load' = [load EXCEPT ![r] = after] /\ task' = [task EXCEPT ![r] = "loading"]
      /\ task[r] = "reserved" /\ UNCHANGED <<hold, storage>>
  BY Zenon DEF StartLoad
<1>2. load[r] \in Loads
  BY Zenon DEF IInv, TypeOK, LoadOK
<1>3. Range(SubSeq(Devices, 1, submitted)) \subseteq Range(Devices)
  BY KvStoreAssumption DEF Range
<1>4. /\ after \in Loads /\ after.pages = load[r].pages /\ after.state = "running"
  BY <1>2, <1>3, Zenon DEF Loads
<1>5. load[r].pages # {} /\ drain.phase = "serving"
  BY <1>1, Zenon DEF IInv, LoadFollowsTask, DrainIsFinal
<1> HIDE DEF after
<1> QED BY <1>1, <1>4, <1>5, LoadMoves, Zenon

(* The load's task ends; an abandoned one takes its reservation with it. *)
LEMMA LoadSettlesKeeps ==
    ASSUME IInv, NEW r \in Resolves, LoadSettles(r)
    PROVE  IInv'
<1> DEFINE after == [load[r] EXCEPT
                        !.state = IF load[r].landed = Range(Devices) THEN "ok" ELSE "error",
                        !.pages = IF task[r] = "loading" THEN @ ELSE {}]
<1>1. /\ load' = [load EXCEPT ![r] = after]
      /\ load[r].state = "running" /\ load[r].flying = {}
      /\ UNCHANGED <<task, hold, storage>>
  BY Zenon DEF LoadSettles
<1>2. load[r] \in Loads
  BY Zenon DEF IInv, TypeOK, LoadOK
<1>3. /\ after \in Loads /\ after.flying = {}
      /\ after.pages \subseteq load[r].pages /\ after.state \in {"ok", "error"}
  BY <1>1, <1>2, Zenon DEF Loads
<1>4. task[r] \in {"loading", "done"}
  BY <1>1, RunningTask, Zenon
<1>5. task' = [task EXCEPT ![r] = task[r]]
  BY <1>1, Zenon DEF IInv, TypeOK, TaskOK
<1>6. drain.phase # "serving" => task[r] = "done"
  BY <1>4, Zenon DEF IInv, DrainIsFinal
<1> HIDE DEF after
<1> QED BY <1>1, <1>3, <1>4, <1>5, <1>6, LoadMoves, Zenon

(* schedule_load: the page comes from the free ones, which nobody names. *)
LEMMA HitReservedKeeps ==
    ASSUME IInv, NEW r \in Resolves, HitReserved(r)
    PROVE  IInv'
<1>0. /\ task[r] = "query" /\ task' = [task EXCEPT ![r] = "reserved"]
      /\ UNCHANGED <<hold, storage>>
  BY Zenon DEF HitReserved
<1>1. PICK p \in FreePages :
         load' = [load EXCEPT ![r] = [NoLoad EXCEPT !.state = "reserved", !.pages = {p}]]
  BY Zenon DEF HitReserved
<1>2. p \in Pages
  BY Zenon DEF FreePages
<1>3. \A s \in Resolves : p \notin load[s].pages /\ p \notin hold[s]
  BY Zenon DEF FreePages
<1>4. \A k \in Requests :
         /\ \A i \in DOMAIN kv[k].pages : kv[k].pages[i] # p
         /\ \A i \in DOMAIN saves[k] : saves[k][i].guarded => p \notin saves[k][i].pages
  BY Zenon DEF FreePages, KvPages, GuardedPages, Range
<1>5. TypeOK'
  BY <1>0, <1>1, <1>2, Zenon DEF IInv, TypeOK, TaskOK, LoadOK, HoldOK, KvOK, SavesOK, DrainOK, Loads, NoLoad, storage
<1>6. /\ load'[r].state = "reserved" /\ load'[r].pages = {p} /\ load'[r].flying = {}
      /\ \A s \in Resolves : s # r => load'[s] = load[s]
  BY <1>1, Zenon DEF IInv, TypeOK, LoadOK, NoLoad
<1>7. LoadFollowsTask'
  <2>2. \A s \in Resolves : s # r => task'[s] = task[s]
    BY <1>0, Zenon DEF IInv, TypeOK, TaskOK
  <2>3. task'[r] = "reserved"
    BY <1>0, Zenon DEF IInv, TypeOK, TaskOK
  <2>4. ASSUME NEW s \in Resolves PROVE LoadFollowsTask!(s)'
    <3>1. CASE s = r
      BY <1>0, <1>6, <2>3, <3>1, Zenon DEF IInv, LoadFollowsTask
    <3>2. CASE s # r
      BY <1>0, <1>6, <2>2, <3>2 DEF IInv, LoadFollowsTask
    <3> QED BY <3>1, <3>2, Zenon
  <2> QED BY <2>4, Zenon DEF LoadFollowsTask
<1>8. ReservedIsExclusive'
  BY <1>0, <1>3, <1>4, <1>6 DEF IInv, ReservedIsExclusive, storage
<1>9. DrainIsFinal'
  BY <1>0, <1>6, Zenon DEF IInv, TypeOK, TaskOK, LoadOK, DrainOK, DrainIsFinal, LoadsSettled, storage
<1> QED BY <1>0, <1>5, <1>7, <1>8, <1>9, StorageKeeps, Zenon DEF IInv

(* The loaded pages pass from the reservation to the hold, or to nobody. *)
LEMMA LoadDoneKeeps ==
    ASSUME IInv, NEW r \in Resolves, LoadDone(r)
    PROVE  IInv'
<1> DEFINE after == [load[r] EXCEPT !.pages = {}]
           kept == IF load[r].state = "ok" THEN load[r].pages ELSE {}
<1>1. /\ load' = [load EXCEPT ![r] = after] /\ hold' = [hold EXCEPT ![r] = kept]
      /\ task' = [task EXCEPT ![r] = "done"] /\ load[r].state \in {"ok", "error"}
      /\ task[r] = "loading" /\ UNCHANGED storage
  BY Zenon DEF LoadDone, Return
<1>2. load[r] \in Loads
  BY Zenon DEF IInv, TypeOK, LoadOK
<1>3. after \in Loads /\ after.state = load[r].state /\ after.flying = {} /\ after.pages = {}
  BY <1>1, <1>2, Zenon DEF IInv, LoadFollowsTask, Loads
<1>4. kept \subseteq load[r].pages /\ kept \subseteq Pages
  BY <1>2, Zenon DEF Loads
<1> HIDE DEF after, kept
<1>6. /\ load'[r] = after /\ task'[r] = "done" /\ hold'[r] = kept
      /\ \A s \in Resolves \ {r} : load'[s] = load[s] /\ task'[s] = task[s] /\ hold'[s] = hold[s]
  BY <1>1, Zenon DEF IInv, TypeOK, TaskOK, LoadOK, HoldOK
<1>7. TypeOK'
  BY <1>1, <1>3, <1>4, Zenon DEF IInv, TypeOK, TaskOK, LoadOK, HoldOK, KvOK, SavesOK, DrainOK, storage
<1>8. LoadFollowsTask'
  <2>1. ASSUME NEW s \in Resolves PROVE LoadFollowsTask!(s)'
    <3>1. CASE s = r
      BY <1>1, <1>3, <1>6, <3>1, Zenon
    <3>2. CASE s # r
      BY <1>6, <3>2 DEF IInv, LoadFollowsTask
    <3> QED BY <3>1, <3>2, Zenon
  <2> QED BY <2>1, Zenon DEF LoadFollowsTask
<1>9. ReservedIsExclusive'
  <2>1. UNCHANGED <<kv, saves>>
    BY <1>1, Zenon DEF storage
  <2>2. ASSUME NEW s \in Resolves, NEW p \in load'[s].pages
        PROVE  s # r /\ p \in load[s].pages
    BY <1>3, <1>6, <2>2, Zenon
  <2>3. ASSUME NEW s \in Resolves, NEW p \in load'[s].pages, NEW u \in Resolves
        PROVE  p \notin hold'[u] /\ (u # s => p \notin load'[u].pages)
    BY <1>3, <1>4, <1>6, <2>2, Zenon DEF IInv, ReservedIsExclusive
  <2> QED BY <2>1, <2>2, <2>3 DEF IInv, ReservedIsExclusive
<1>10. DrainIsFinal'
  BY <1>1, <1>3, <1>6, Zenon DEF IInv, TypeOK, TaskOK, LoadOK, DrainOK, DrainIsFinal, LoadsSettled, storage
<1> QED BY <1>1, <1>7, <1>8, <1>9, <1>10, StorageKeeps, Zenon DEF IInv

(* A KvPrefix is dropped. *)
LEMMA DropHoldKeeps ==
    ASSUME IInv, NEW r \in Resolves, DropHold(r)
    PROVE  IInv'
<1>1. /\ hold' = [hold EXCEPT ![r] = {}] /\ UNCHANGED <<task, load, storage>>
  BY Zenon DEF DropHold, reads
<1>3. \A s \in Resolves : hold'[s] = IF s = r THEN {} ELSE hold[s]
  BY <1>1, Zenon DEF IInv, TypeOK, HoldOK
<1>4. TypeOK'
  BY <1>1, Zenon DEF IInv, TypeOK, TaskOK, LoadOK, HoldOK, KvOK, SavesOK, DrainOK, storage
<1>5. LoadFollowsTask'
  BY <1>1, Zenon DEF IInv, LoadFollowsTask
<1>6. ReservedIsExclusive'
  BY <1>1, <1>3 DEF IInv, ReservedIsExclusive, storage
<1>7. DrainIsFinal'
  BY <1>1, Zenon DEF IInv, DrainIsFinal, LoadsSettled, storage
<1> QED BY <1>1, <1>4, <1>5, <1>6, <1>7, StorageKeeps, Zenon DEF IInv

-----------------------------------------------------------------------------
(* admit: the hold's pages become the request's, and stay exclusive of all *)
(* reservations.                                                           *)
LEMMA AdmittedKeeps ==
    ASSUME IInv, NEW r \in Resolves, NEW k \in Requests, Admitted(r, k)
    PROVE  IInv'
<1>0. PICK p \in hold[r] : kv' = [kv EXCEPT ![k].pages = <<p>>, ![k].matched = 1]
  BY Zenon DEF Admitted
<1> DEFINE after == [kv[k] EXCEPT !.pages = <<p>>, !.matched = 1]
<1>1. /\ kv' = [kv EXCEPT ![k] = after] /\ hold' = [hold EXCEPT ![r] = {}]
      /\ UNCHANGED <<task, load, saves, pinned, drain>>
  BY <1>0, Zenon DEF Admitted, reads
<1>2. <<p>> \in Seq(Pages)
  BY DEF IInv, TypeOK, HoldOK
<1>3. after \in Kvs /\ after.state = kv[k].state /\ after.pages = <<p>>
  <2>1. kv[k] \in Kvs
    BY Zenon DEF IInv, TypeOK, KvOK
  <2> QED BY <1>2, <2>1, Zenon DEF Kvs
<1> HIDE DEF after
<1>5. /\ kv'[k] = after /\ hold'[r] = {}
      /\ \A l \in Requests \ {k} : kv'[l] = kv[l]
      /\ \A s \in Resolves \ {r} : hold'[s] = hold[s]
  BY <1>1, Zenon DEF IInv, TypeOK, HoldOK, KvOK
<1>6. TypeOK'
  BY <1>1, <1>3, Zenon DEF IInv, TypeOK, TaskOK, LoadOK, HoldOK, KvOK, SavesOK, DrainOK
<1>7. LoadFollowsTask'
  BY <1>1, Zenon DEF IInv, LoadFollowsTask
<1>8. ReservedIsExclusive'
  <2>1. \A i \in DOMAIN after.pages : after.pages[i] \in hold[r]
    BY <1>3
  <2>2. ASSUME NEW s \in Resolves, NEW q \in load[s].pages, NEW l \in Requests,
               NEW i \in DOMAIN kv'[l].pages
        PROVE  kv'[l].pages[i] # q
    BY <1>5, <2>1 DEF IInv, ReservedIsExclusive
  <2>3. \A s \in Resolves : hold'[s] \subseteq hold[s]
    BY <1>5, Zenon
  <2> QED BY <1>1, <2>2, <2>3, ZenonT(40) DEF IInv, ReservedIsExclusive
<1>9. ReleasedIsHandedOff' /\ DrainIsFinal'
  <2>a. ReleasedIsHandedOff'
    BY <1>1, <1>3, <1>5 DEF IInv, ReleasedIsHandedOff
  <2>b. DrainIsFinal'
    BY <1>1, <1>3, <1>5 DEF IInv, DrainIsFinal, LoadsSettled
  <2> QED BY <2>a, <2>b, Zenon
<1>10. SaveOrder'
  BY <1>1, Zenon DEF IInv, SaveOrder
<1> QED BY <1>6, <1>7, <1>8, <1>9, <1>10, Zenon DEF IInv

(* apply_prefill and the like: a page nobody names. *)
LEMMA FillPageKeeps ==
    ASSUME IInv, NEW k \in Requests, FillPage(k)
    PROVE  IInv'
<1>1. PICK p \in FreePages : kv' = [kv EXCEPT ![k].pages = Append(@, p)]
  BY Zenon DEF FillPage
<1> DEFINE after == [kv[k] EXCEPT !.pages = Append(@, p)]
<1>2. /\ kv' = [kv EXCEPT ![k] = after]
      /\ UNCHANGED <<task, load, hold, saves, pinned, drain>>
  BY <1>1, Zenon DEF FillPage, reads
<1>3. p \in Pages /\ \A r \in Resolves : p \notin load[r].pages
  BY Zenon DEF FreePages
<1>4. /\ after \in Kvs /\ after.state = kv[k].state
      /\ after.pages = Append(kv[k].pages, p) /\ kv[k].pages \in Seq(Pages)
  <2>1. kv[k] \in Kvs
    BY Zenon DEF IInv, TypeOK, KvOK
  <2>2. Append(kv[k].pages, p) \in Seq(Pages)
    BY <1>3, <2>1 DEF Kvs
  <2> QED BY <2>1, <2>2, Zenon DEF Kvs
<1> HIDE DEF after
<1>5. kv'[k] = after /\ \A l \in Requests \ {k} : kv'[l] = kv[l]
  BY <1>2, Zenon DEF IInv, TypeOK, KvOK
<1>6. TypeOK' /\ LoadFollowsTask'
  <2>a. TypeOK'
    BY <1>2, <1>4, Zenon DEF IInv, TypeOK, TaskOK, LoadOK, HoldOK, KvOK, SavesOK, DrainOK
  <2>b. LoadFollowsTask'
    BY <1>2, <1>4, Zenon DEF IInv, LoadFollowsTask
  <2> QED BY <2>a, <2>b, Zenon
<1>7. ReservedIsExclusive'
  <2>1. ASSUME NEW s \in Resolves, NEW q \in load[s].pages, NEW l \in Requests,
               NEW i \in DOMAIN kv'[l].pages
        PROVE  kv'[l].pages[i] # q
    <3>1. CASE l # k
      BY <1>5, <3>1 DEF IInv, ReservedIsExclusive
    <3>2. CASE l = k
      <4>1. \A j \in DOMAIN kv[k].pages : kv[k].pages[j] # q
        BY Zenon DEF IInv, ReservedIsExclusive
      <4>2. i \in 1 .. Len(kv[k].pages) + 1 /\ kv'[l].pages = Append(kv[k].pages, p)
        BY <1>4, <1>5, <3>2
      <4>3. i \in DOMAIN kv[k].pages \/ Append(kv[k].pages, p)[i] = p
        BY <1>4, <4>2
      <4>4. i \in DOMAIN kv[k].pages => Append(kv[k].pages, p)[i] = kv[k].pages[i]
        BY <1>4
      <4>5. p # q
        BY <1>3, Zenon
      <4> QED BY <4>1, <4>2, <4>3, <4>4, <4>5, Zenon
    <3> QED BY <3>1, <3>2, Zenon
  <2> QED BY <1>2, <2>1, Zenon DEF IInv, ReservedIsExclusive
<1>8. ReleasedIsHandedOff' /\ DrainIsFinal'
  <2>a. ReleasedIsHandedOff'
    BY <1>2, <1>4, <1>5, ZenonT(40) DEF IInv, ReleasedIsHandedOff
  <2>b. DrainIsFinal'
    BY <1>2, <1>4, <1>5 DEF IInv, DrainIsFinal, LoadsSettled
  <2> QED BY <2>a, <2>b, Zenon
<1>9. SaveOrder'
  BY <1>2, Zenon DEF IInv, SaveOrder
<1> QED BY <1>6, <1>7, <1>8, <1>9, Zenon DEF IInv

-----------------------------------------------------------------------------
(* What seal would save is the request's own. *)
LEMMA UnsavedOwn ==
    ASSUME IInv, NEW k \in Requests
    PROVE  /\ Unsaved(k) \subseteq Pages
           /\ \A p \in Unsaved(k) : \E i \in DOMAIN kv[k].pages : p = kv[k].pages[i]
<1> DEFINE from == IF kv[k].saved = 0 THEN kv[k].matched ELSE kv[k].saved
<1>1. kv[k] \in Kvs
  BY Zenon DEF IInv, TypeOK, KvOK
<1>2. from \in Nat /\ kv[k].pages \in Seq(Pages)
  BY <1>1, Zenon DEF Kvs
<1>3. Unsaved(k) = {kv[k].pages[i] : i \in from + 1 .. Len(kv[k].pages)}
  BY Zenon DEF Unsaved
<1> HIDE DEF from
<1> QED BY <1>2, <1>3

(* seal: the saved pages are the request's own, which no reservation has;  *)
(* they are pinned as they are guarded.                                    *)
LEMMA SaveUnsavedKeeps ==
    ASSUME IInv, NEW k \in Requests, NEW class \in {"Cacheable", "Handoff"},
           SaveUnsaved(k, class)
    PROVE  /\ SavesOK' /\ SaveOrder'
           /\ \A l \in Requests \ {k} : saves'[l] = saves[l]
           /\ \A r \in Resolves : \A p \in load[r].pages : \A l \in Requests :
                 \A i \in DOMAIN saves'[l] : saves'[l][i].guarded => p \notin saves'[l][i].pages
<1>0. saves \in [Requests -> Seq(Saves)]
  BY Zenon DEF IInv, TypeOK, SavesOK
<1>1. CASE Unsaved(k) = {}
  <2>1. saves' = saves
    BY <1>1, Zenon DEF SaveUnsaved
  <2>2. SaveOrder'
    BY <2>1, Zenon DEF IInv, SaveOrder
  <2> QED BY <1>0, <2>1, <2>2, Zenon DEF IInv, ReservedIsExclusive, SavesOK
<1>2. CASE Unsaved(k) # {}
  <2> DEFINE new == NewSave(Unsaved(k), class)
             n == Len(saves[k]) + 1
  <2>1. saves' = [saves EXCEPT ![k] = Append(saves[k], new)]
    BY <1>2, Zenon DEF SaveUnsaved
  <2>2. /\ Unsaved(k) \subseteq Pages
        /\ \A p \in Unsaved(k) : \E i \in DOMAIN kv[k].pages : p = kv[k].pages[i]
    BY UnsavedOwn, Zenon
  <2>3. /\ new \in Saves /\ new.pages = Unsaved(k) /\ new.guarded = TRUE
        /\ new.landed = FALSE /\ new.watched = FALSE
    BY <2>2, Zenon DEF NewSave, Saves
  <2> HIDE DEF new
  <2>4. saves' \in [Requests -> Seq(Saves)] /\ n \in Nat
    BY <1>0, <2>1, <2>3
  <2>5. \A l \in Requests \ {k} : saves'[l] = saves[l]
    BY <1>0, <2>1, Zenon
  <2>6. /\ DOMAIN saves[k] = 1 .. n - 1 /\ DOMAIN saves'[k] = 1 .. n /\ saves'[k][n] = new
        /\ \A i \in DOMAIN saves[k] : saves'[k][i] = saves[k][i]
    BY <1>0, <2>1
  <2>7. DOMAIN saves'[k] = DOMAIN saves[k] \cup {n}
    BY <2>4, <2>6
  <2> HIDE DEF n
  <2>8. ASSUME NEW l \in Requests, NEW i \in DOMAIN saves'[l]
        PROVE  \/ l = k /\ i = n /\ saves'[l][i] = new
               \/ i \in DOMAIN saves[l] /\ saves'[l][i] = saves[l][i]
    BY <2>5, <2>6, <2>7, Zenon
  <2>9. SaveOrder'
    <3>1. ASSUME NEW l \in Requests, NEW i \in DOMAIN saves'[l]
          PROVE  SaveOrder!(l)!(i)'
      BY <1>2, <2>3, <2>8, Zenon DEF IInv, SaveOrder
    <3> QED BY <3>1, Zenon DEF SaveOrder
  <2>10. \A r \in Resolves : \A p \in load[r].pages : \A l \in Requests :
            \A i \in DOMAIN saves'[l] : saves'[l][i].guarded => p \notin saves'[l][i].pages
    <3>1. \A r \in Resolves : \A p \in load[r].pages : p \notin Unsaved(k)
      BY <2>2, Zenon DEF IInv, ReservedIsExclusive
    <3> QED BY <2>3, <2>8, <3>1 DEF IInv, ReservedIsExclusive
  <2> QED BY <2>4, <2>5, <2>9, <2>10, Zenon DEF SavesOK
<1> QED BY <1>1, <1>2, Zenon

(* The request's part of a seal or a retire: a seal moves the cursor, a    *)
(* retire releases only what has no handoff save.                          *)
LEMMA SealedKeeps ==
    ASSUME IInv, NEW k \in Requests, NEW class \in {"Cacheable", "Handoff"}, NEW after \in Kvs,
           kv[k].state = "running", SaveUnsaved(k, class), kv' = [kv EXCEPT ![k] = after],
           UNCHANGED <<task, load, hold, drain>>,
           after.pages \in {kv[k].pages, <<>>},
           after.state = "released" => \A i \in DOMAIN saves'[k] : saves'[k][i].class # "Handoff"
    PROVE  IInv'
<1>1. /\ SavesOK' /\ SaveOrder'
      /\ \A l \in Requests \ {k} : saves'[l] = saves[l]
      /\ \A r \in Resolves : \A p \in load[r].pages : \A l \in Requests :
            \A i \in DOMAIN saves'[l] : saves'[l][i].guarded => p \notin saves'[l][i].pages
  BY SaveUnsavedKeeps, Zenon
<1>2. kv'[k] = after /\ \A l \in Requests \ {k} : kv'[l] = kv[l]
  BY Zenon DEF IInv, TypeOK, KvOK
<1>3. TypeOK' /\ LoadFollowsTask'
  <2>a. TypeOK'
    BY <1>1, Zenon DEF IInv, TypeOK, TaskOK, LoadOK, HoldOK, KvOK, DrainOK
  <2>b. LoadFollowsTask'
    BY <1>1, Zenon DEF IInv, LoadFollowsTask
  <2> QED BY <2>a, <2>b, Zenon
<1>4. ReservedIsExclusive'
  <2>1. ASSUME NEW r \in Resolves, NEW p \in load[r].pages, NEW l \in Requests,
               NEW i \in DOMAIN kv'[l].pages
        PROVE  kv'[l].pages[i] # p
    BY <1>2 DEF IInv, ReservedIsExclusive
  <2> QED BY <1>1, <2>1 DEF IInv, ReservedIsExclusive
<1>5. ReleasedIsHandedOff'
  BY <1>1, <1>2, ZenonT(40) DEF IInv, ReleasedIsHandedOff
<1>6. DrainIsFinal'
  <2>1. drain.phase = "serving"
    BY Zenon DEF IInv, DrainIsFinal
  <2> QED BY <2>1, Zenon DEF DrainIsFinal
<1> QED BY <1>1, <1>3, <1>4, <1>5, <1>6, Zenon DEF IInv

LEMMA SealKeeps ==
    ASSUME IInv, NEW k \in Requests, NEW class \in {"Cacheable", "Handoff"}, Seal(k, class)
    PROVE  IInv'
<1> DEFINE after == [kv[k] EXCEPT !.saved = Len(kv[k].pages)]
<1>1. /\ kv' = [kv EXCEPT ![k] = after] /\ kv[k].state = "running"
      /\ SaveUnsaved(k, class) /\ UNCHANGED <<task, load, hold, drain>>
  BY Zenon DEF Seal, reads
<1>2. kv[k] \in Kvs
  BY Zenon DEF IInv, TypeOK, KvOK
<1>3. after \in Kvs /\ after.pages = kv[k].pages /\ after.state = kv[k].state
  BY <1>2 DEF Kvs
<1> HIDE DEF after
<1> QED BY <1>1, <1>3, SealedKeeps, Zenon

(* retire parks the request if any of its saves is a handoff. *)
LEMMA RetireKeeps ==
    ASSUME IInv, NEW k \in Requests, NEW class \in {"Cacheable", "Handoff"}, Retire(k, class)
    PROVE  IInv'
<1> DEFINE handsOff == \E s \in Range(saves'[k]) : s.class = "Handoff"
           after == IF handsOff THEN [kv[k] EXCEPT !.state = "parked"]
                    ELSE [kv[k] EXCEPT !.state = "released", !.pages = <<>>]
<1>1. /\ kv' = [kv EXCEPT ![k] = after] /\ kv[k].state = "running"
      /\ SaveUnsaved(k, class) /\ UNCHANGED <<task, load, hold, drain>>
  BY Zenon DEF Retire, reads
<1>2. kv[k] \in Kvs
  BY Zenon DEF IInv, TypeOK, KvOK
<1>3. CASE handsOff
  <2>1. after \in Kvs /\ after.pages = kv[k].pages /\ after.state = "parked"
    BY <1>2, <1>3, Zenon DEF Kvs
  <2> HIDE DEF after
  <2> QED BY <1>1, <2>1, SealedKeeps, Zenon
<1>4. CASE ~handsOff
  <2>1. after \in Kvs /\ after.pages = <<>> /\ after.state = "released"
    <3>1. <<>> \in Seq(Pages)
      OBVIOUS
    <3> QED BY <1>2, <1>4, <3>1, Zenon DEF Kvs
  <2>2. \A i \in DOMAIN saves'[k] : saves'[k][i].class # "Handoff"
    BY <1>4, Zenon DEF Range
  <2> HIDE DEF after, handsOff
  <2> QED BY <1>1, <2>1, <2>2, SealedKeeps, Zenon
<1> QED BY <1>3, <1>4, Zenon

(* The parked release waits for the watchers, which wait for the copies. *)
LEMMA ParkedReleasesKeeps ==
    ASSUME IInv, NEW k \in Requests, ParkedReleases(k)
    PROVE  IInv'
<1> DEFINE after == [kv[k] EXCEPT !.state = "released", !.pages = <<>>]
<1>1. /\ kv' = [kv EXCEPT ![k] = after]
      /\ \A s \in Range(saves[k]) : s.class = "Handoff" => s.watched
      /\ UNCHANGED <<task, load, hold, saves, pinned, drain>>
  BY Zenon DEF ParkedReleases, reads
<1>2. kv[k] \in Kvs
  BY Zenon DEF IInv, TypeOK, KvOK
<1>3. after \in Kvs /\ after.pages = <<>> /\ after.state = "released"
  <2>1. <<>> \in Seq(Pages)
    OBVIOUS
  <2> QED BY <1>2, <2>1, Zenon DEF Kvs
<1> HIDE DEF after
<1>4. kv'[k] = after /\ \A l \in Requests \ {k} : kv'[l] = kv[l]
  BY <1>1, Zenon DEF IInv, TypeOK, KvOK
<1>5. TypeOK' /\ LoadFollowsTask'
  <2>a. TypeOK'
    BY <1>1, <1>3, Zenon DEF IInv, TypeOK, TaskOK, LoadOK, HoldOK, KvOK, SavesOK, DrainOK
  <2>b. LoadFollowsTask'
    BY <1>1, <1>3, Zenon DEF IInv, LoadFollowsTask
  <2> QED BY <2>a, <2>b, Zenon
<1>6. ReservedIsExclusive'
  <2>1. ASSUME NEW r \in Resolves, NEW p \in load[r].pages, NEW l \in Requests,
               NEW i \in DOMAIN kv'[l].pages
        PROVE  kv'[l].pages[i] # p
    BY <1>3, <1>4 DEF IInv, ReservedIsExclusive
  <2> QED BY <1>1, <2>1, Zenon DEF IInv, ReservedIsExclusive
<1>7. ReleasedIsHandedOff'
  <2>1. \A i \in DOMAIN saves[k] : saves[k][i].class = "Handoff" => saves[k][i].landed
    BY <1>1, Zenon DEF IInv, SaveOrder, Range
  <2> QED BY <1>1, <1>4, <2>1, Zenon DEF IInv, ReleasedIsHandedOff
<1>8. DrainIsFinal'
  BY <1>1, <1>3, <1>4, Zenon DEF IInv, DrainIsFinal, LoadsSettled
<1>9. SaveOrder'
  BY <1>1, Zenon DEF IInv, SaveOrder
<1> QED BY <1>5, <1>6, <1>7, <1>8, <1>9, Zenon DEF IInv

-----------------------------------------------------------------------------
(* A save moves on: what its copy has read stays read, what it guarded may *)
(* be let go.                                                              *)
LEMMA SaveMoves ==
    ASSUME IInv, NEW k \in Requests, NEW i \in DOMAIN saves[k], NEW after \in Saves,
           saves' = [saves EXCEPT ![k][i] = after],
           UNCHANGED <<task, load, hold, kv, drain>>,
           after.pages = saves[k][i].pages, after.class = saves[k][i].class,
           saves[k][i].landed => after.landed, after.guarded => saves[k][i].guarded,
           ~after.landed => after.guarded, after.watched => after.landed
    PROVE  IInv'
<1>0. saves \in [Requests -> Seq(Saves)] /\ saves[k] \in Seq(Saves)
  BY Zenon DEF IInv, TypeOK, SavesOK
<1>1. saves' = [saves EXCEPT ![k] = [saves[k] EXCEPT ![i] = after]]
  BY Zenon
<1>2. [saves[k] EXCEPT ![i] = after] \in Seq(Saves)
  BY <1>0
<1>3. \A l \in Requests : DOMAIN saves'[l] = DOMAIN saves[l]
  BY <1>0, <1>1, Zenon
<1>4. \A l \in Requests : \A j \in DOMAIN saves[l] :
         saves'[l][j] = IF l = k /\ j = i THEN after ELSE saves[l][j]
  BY <1>0, <1>1
<1>5. TypeOK' /\ LoadFollowsTask'
  <2>1. saves' \in [Requests -> Seq(Saves)]
    BY <1>0, <1>1, <1>2, Zenon
  <2>2. TypeOK'
    BY <2>1, Zenon DEF IInv, TypeOK, TaskOK, LoadOK, HoldOK, KvOK, SavesOK, DrainOK
  <2>3. LoadFollowsTask'
    BY Zenon DEF IInv, LoadFollowsTask
  <2> QED BY <2>2, <2>3, Zenon
<1>6. ReservedIsExclusive'
  <2>1. \A l \in Requests : \A j \in DOMAIN saves'[l] :
           saves'[l][j].pages = saves[l][j].pages /\ (saves'[l][j].guarded => saves[l][j].guarded)
    BY <1>3, <1>4
  <2> QED BY <1>3, <2>1 DEF IInv, ReservedIsExclusive
<1>7. SaveOrder'
  BY <1>3, <1>4 DEF IInv, SaveOrder
<1>8. ReleasedIsHandedOff'
  BY <1>3, <1>4 DEF IInv, ReleasedIsHandedOff
<1>9. DrainIsFinal'
  <2>1. \A l \in Requests : \A j \in DOMAIN saves'[l] : saves'[l][j].guarded => saves[l][j].guarded
    BY <1>3, <1>4
  <2> QED BY <1>3, <2>1, Zenon DEF IInv, DrainIsFinal, LoadsSettled
<1> QED BY <1>5, <1>6, <1>7, <1>8, <1>9, Zenon DEF IInv

(* The tier's task lands the copy and drops the guards; the watcher acts   *)
(* on the result.                                                          *)
LEMMA SaveStepKeeps ==
    ASSUME IInv, NEW k \in Requests, NEW i \in DOMAIN saves[k],
           SaveLands(k, i) \/ GuardsDrop(k, i) \/ Watch(k, i)
    PROVE  IInv'
<1>1. saves[k][i] \in Saves
  BY DEF IInv, TypeOK, SavesOK
<1>2. UNCHANGED <<task, load, hold, kv, drain>>
  BY Zenon DEF SaveLands, GuardsDrop, Watch, reads
<1>3. /\ ~saves[k][i].landed => saves[k][i].guarded
      /\ saves[k][i].watched => saves[k][i].landed
  BY Zenon DEF IInv, SaveOrder
<1>4. CASE SaveLands(k, i)
  <2> DEFINE after == [saves[k][i] EXCEPT !.landed = TRUE]
  <2>1. saves' = [saves EXCEPT ![k][i] = after]
    BY <1>4, Zenon DEF SaveLands
  <2>2. /\ after \in Saves /\ after.landed
        /\ after.pages = saves[k][i].pages /\ after.class = saves[k][i].class
        /\ after.guarded = saves[k][i].guarded
    BY <1>1, Zenon DEF Saves
  <2> HIDE DEF after
  <2> QED BY <1>2, <2>1, <2>2, SaveMoves, Zenon
<1>5. CASE GuardsDrop(k, i)
  <2> DEFINE after == [saves[k][i] EXCEPT !.guarded = FALSE]
  <2>1. saves' = [saves EXCEPT ![k][i] = after] /\ saves[k][i].landed
    BY <1>5, Zenon DEF GuardsDrop
  <2>2. /\ after \in Saves /\ ~after.guarded
        /\ after.pages = saves[k][i].pages /\ after.class = saves[k][i].class
        /\ after.landed = saves[k][i].landed
    BY <1>1, Zenon DEF Saves
  <2> HIDE DEF after
  <2> QED BY <1>2, <2>1, <2>2, SaveMoves, Zenon
<1>6. CASE Watch(k, i)
  <2> DEFINE after == [saves[k][i] EXCEPT !.watched = TRUE]
  <2>1. saves' = [saves EXCEPT ![k][i] = after] /\ saves[k][i].landed
    BY <1>6, Zenon DEF Watch
  <2>2. /\ after \in Saves /\ after.landed = saves[k][i].landed
        /\ after.pages = saves[k][i].pages /\ after.class = saves[k][i].class
        /\ after.guarded = saves[k][i].guarded
    BY <1>1, Zenon DEF Saves
  <2> HIDE DEF after
  <2> QED BY <1>2, <2>1, <2>2, SaveMoves, Zenon
<1> QED BY <1>4, <1>5, <1>6, Zenon

-----------------------------------------------------------------------------
(* What teardown finds: a barrier passed is a fact that lasts. *)
LEMMA DrainKeeps ==
    ASSUME IInv, TearDown \/ FlushLoads \/ FlushSaves
    PROVE  IInv'
<1>1. UNCHANGED <<task, load, hold, kv, saves, pinned>>
  BY Zenon DEF TearDown, FlushLoads, FlushSaves, served, reads
<1>2. drain \in [phase : {"serving", "loads", "saves", "freed", "leaked"}, loads : BOOLEAN]
  BY Zenon DEF IInv, TypeOK, SavesOK, DrainOK
<1>3. LoadFollowsTask' /\ ReservedIsExclusive' /\ SaveOrder' /\ ReleasedIsHandedOff'
  <2>1. LoadFollowsTask'
    BY <1>1, Zenon DEF IInv, LoadFollowsTask
  <2>2. ReservedIsExclusive'
    BY <1>1, ZenonT(40) DEF IInv, ReservedIsExclusive
  <2>3. SaveOrder' /\ ReleasedIsHandedOff'
    BY <1>1, Zenon DEF IInv, SaveOrder, ReleasedIsHandedOff
  <2> QED BY <2>1, <2>2, <2>3, Zenon
<1>5. CASE TearDown
  <2>1. drain' = [drain EXCEPT !.phase = "loads"]
    BY <1>5, Zenon DEF TearDown
  <2>2. TypeOK'
    BY <1>1, <1>2, <2>1, Zenon DEF IInv, TypeOK, TaskOK, LoadOK, HoldOK, KvOK, SavesOK, DrainOK
  <2>3. DrainIsFinal'
    BY <1>1, <1>2, <1>5, <2>1, Zenon DEF TearDown, DrainIsFinal
  <2> QED BY <1>3, <2>2, <2>3, Zenon DEF IInv
<1>6. CASE FlushLoads
  <2>1. LoadsSettled \in BOOLEAN
    BY Zenon DEF LoadsSettled
  <2>2. drain' = [phase |-> "saves", loads |-> LoadsSettled] /\ drain.phase = "loads"
    BY <1>6, Zenon DEF FlushLoads
  <2>3. TypeOK'
    BY <1>1, <2>1, <2>2, Zenon DEF IInv, TypeOK, TaskOK, LoadOK, HoldOK, KvOK, SavesOK, DrainOK
  <2>4. LoadsSettled' <=> LoadsSettled
    BY <1>1, Zenon DEF LoadsSettled
  <2>5. DrainIsFinal'
    BY <1>1, <2>2, <2>4, Zenon DEF IInv, DrainIsFinal
  <2> QED BY <1>3, <2>3, <2>5, Zenon DEF IInv
<1>7. CASE FlushSaves
  <2> DEFINE end == Disposition(drain.loads, GuardedPages = {})
  <2>1. drain' = [drain EXCEPT !.phase = end] /\ drain.phase = "saves"
    BY <1>7, Zenon DEF FlushSaves
  <2>2. end \in {"freed", "leaked"} /\ (end = "freed" => drain.loads /\ GuardedPages = {})
    BY Zenon DEF Disposition
  <2> HIDE DEF end
  <2>3. TypeOK'
    BY <1>1, <1>2, <2>1, <2>2, Zenon DEF IInv, TypeOK, TaskOK, LoadOK, HoldOK, KvOK, SavesOK, DrainOK
  <2>4. drain'.phase = end /\ drain'.loads = drain.loads
    BY <1>2, <2>1, Zenon
  <2>5. GuardedPages = {} => \A k \in Requests : \A i \in DOMAIN saves[k] : ~saves[k][i].guarded
    <3> SUFFICES ASSUME GuardedPages = {}, NEW k \in Requests, NEW i \in DOMAIN saves[k],
                        saves[k][i].guarded
                 PROVE  FALSE
      BY Zenon
    <3>1. PICK p : p \in saves[k][i].pages
      BY Zenon DEF IInv, SaveOrder
    <3>2. saves[k][i] \in Saves
      BY DEF IInv, TypeOK, SavesOK
    <3>3. p \in Pages /\ saves[k][i] \in Range(saves[k])
      BY <3>1, <3>2, Zenon DEF Saves, Range
    <3>4. p \in GuardedPages
      BY <3>1, <3>3, Zenon DEF GuardedPages
    <3> QED BY <3>4, Zenon
  <2>6. LoadsSettled' <=> LoadsSettled
    BY <1>1, Zenon DEF LoadsSettled
  <2>7. DrainIsFinal'
    BY <1>1, <2>1, <2>2, <2>4, <2>5, <2>6, Zenon DEF IInv, DrainIsFinal
  <2> QED BY <1>3, <2>3, <2>7, Zenon DEF IInv
<1> QED BY <1>5, <1>6, <1>7, Zenon

-----------------------------------------------------------------------------
(* Every step of the store and of its tier. *)
LEMMA NextIInv == IInv /\ [Next]_vars => IInv'
<1> SUFFICES ASSUME IInv, [Next]_vars PROVE IInv'
  BY Zenon
<1>1. CASE UNCHANGED vars
  BY <1>1, NothingMoves, Zenon DEF vars, storage
<1>2. ASSUME NEW r \in Resolves, Cancel(r) \/ Deadline(r) PROVE IInv'
  BY <1>2, NothingMoves, Zenon DEF Cancel, Deadline
<1>3. ASSUME NEW r \in Resolves, NEW outcome \in {"miss", "loading", "failed", "hit"},
             QuerySettles(r, outcome)
      PROVE  IInv'
  BY <1>3, NothingMoves, Zenon DEF QuerySettles
<1>4. ASSUME NEW r \in Resolves, NEW full \in BOOLEAN, Begin(r, full) PROVE IInv'
  <2>1. PICK t \in {"loop", "query", "done"} : task' = [task EXCEPT ![r] = t]
    BY <1>4, Zenon DEF Begin, Return
  <2>2. task[r] = "new" /\ drain.phase = "serving" /\ UNCHANGED <<load, hold, storage>>
    BY <1>4, Zenon DEF Begin
  <2> QED BY <2>1, <2>2, TaskMoves, Zenon
<1>5. ASSUME NEW r \in Resolves,
             Query(r) \/ QueryTimesOut(r) \/ NoHit(r) \/ HitDeclined(r) \/ LoadTimesOut(r)
      PROVE  IInv'
  <2>1. PICK t \in {"loop", "query", "done"} :
           /\ task' = [task EXCEPT ![r] = t]
           /\ task[r] \in {"loop", "query"} \/ (task[r] = "loading" /\ t = "done")
    BY <1>5, Zenon DEF Query, QueryTimesOut, NoHit, HitDeclined, LoadTimesOut, Return, AgainOrReturn
  <2>2. UNCHANGED <<load, hold, storage>>
    BY <1>5, Zenon DEF Query, QueryTimesOut, NoHit, HitDeclined, LoadTimesOut
  <2> QED BY <2>1, <2>2, TaskMoves, Zenon
<1>6. ASSUME NEW r \in Resolves, ResolveRuns(r) PROVE IInv'
  BY <1>5, <1>6, HitReservedKeeps, CancelledBeforeLoadKeeps, StartLoadKeeps, LoadDoneKeeps
  DEF ResolveRuns
<1>7. ASSUME NEW r \in Resolves,
             \/ \E d \in Range(Devices), ok \in BOOLEAN : CopyLands(r, d, ok)
             \/ LoadSettles(r)
             \/ DropHold(r)
             \/ \E k \in Requests : Admitted(r, k)
      PROVE  IInv'
  BY <1>7, CopyLandsKeeps, LoadSettlesKeeps, DropHoldKeeps, AdmittedKeeps, Zenon
<1>8. ASSUME NEW k \in Requests,
             \/ FillPage(k)
             \/ \E class \in {"Cacheable", "Handoff"} : Seal(k, class) \/ Retire(k, class)
             \/ ParkedReleases(k)
             \/ \E i \in DOMAIN saves[k] : SaveLands(k, i) \/ GuardsDrop(k, i) \/ Watch(k, i)
      PROVE  IInv'
  BY <1>8, FillPageKeeps, SealKeeps, RetireKeeps, ParkedReleasesKeeps, SaveStepKeeps, Zenon
<1>9. CASE TearDown \/ FlushLoads \/ FlushSaves
  BY <1>9, DrainKeeps, Zenon
<1> QED BY <1>1, <1>2, <1>3, <1>4, <1>6, <1>7, <1>8, <1>9, Zenon DEF Next

(* What the inductive invariant says of the copies in flight. *)
LEMMA CopiesOwn == IInv => CopiesOwnTheirPages
<1> SUFFICES ASSUME IInv PROVE CopiesOwnTheirPages
  BY Zenon
<1>1. ASSUME NEW r \in Resolves, load[r].flying # {}
      PROVE  /\ load[r].pages # {}
             /\ load[r].pages \cap ((UNION {hold[s] : s \in Resolves})
                                    \cup (UNION {load[s].pages : s \in Resolves \ {r}})
                                    \cup (UNION {KvPages(k) : k \in Requests})) = {}
  <2>1. load[r].pages # {}
    BY <1>1, Zenon DEF IInv, LoadFollowsTask
  <2>2. ASSUME NEW p \in load[r].pages, NEW s \in Resolves
        PROVE  p \notin hold[s] /\ (s # r => p \notin load[s].pages)
    BY Zenon DEF IInv, ReservedIsExclusive
  <2>3. ASSUME NEW p \in load[r].pages, NEW k \in Requests PROVE p \notin KvPages(k)
    BY Zenon DEF IInv, ReservedIsExclusive, KvPages, Range
  <2>4. load[r].pages \cap UNION {hold[s] : s \in Resolves} = {}
    BY <2>2, Zenon
  <2>5. load[r].pages \cap UNION {load[s].pages : s \in Resolves \ {r}} = {}
    BY <2>2, Zenon
  <2>6. load[r].pages \cap UNION {KvPages(k) : k \in Requests} = {}
    BY <2>3, Zenon
  <2> QED BY <2>1, <2>4, <2>5, <2>6, Zenon
<1>2. ASSUME NEW k \in Requests, NEW s \in UnlandedSaves(k)
      PROVE  s.pages \cap (FreePages \cup (UNION {load[r].pages : r \in Resolves})) = {}
  <2>1. PICK i \in DOMAIN saves[k] : s = saves[k][i] /\ ~saves[k][i].landed
    BY Zenon DEF UnlandedSaves, Range
  <2>2. s.guarded /\ s \in Range(saves[k])
    BY <2>1, Zenon DEF IInv, SaveOrder, Range
  <2>3. ASSUME NEW p \in s.pages PROVE p \notin FreePages
    BY <2>2, Zenon DEF FreePages, GuardedPages
  <2>4. ASSUME NEW p \in s.pages, NEW r \in Resolves PROVE p \notin load[r].pages
    BY <2>1, <2>2, Zenon DEF IInv, ReservedIsExclusive
  <2> QED BY <2>3, <2>4, Zenon
<1> QED BY <1>1, <1>2, Zenon DEF CopiesOwnTheirPages

-----------------------------------------------------------------------------
(* The invariant of the store. *)
THEOREM StoreInvariant == Spec => []IInv
BY InitIInv, NextIInv, PTL DEF Spec

(* A page that a copy still touches is nobody else's: neither a deadline,  *)
(* nor an error on one device, nor the release of a request gives away a   *)
(* page under a load or a save (store.rs:290-299, tier.rs load and save).  *)
THEOREM CopySafety == Spec => []CopiesOwnTheirPages
BY StoreInvariant, CopiesOwn, PTL

(* retire releases the KV of a handoff only after its saves have landed. *)
THEOREM HandoffSafe == Spec => []HandoffOutlivesSaves
<1>1. IInv => HandoffOutlivesSaves
  BY Zenon DEF IInv, ReleasedIsHandedOff, HandoffOutlivesSaves, UnlandedSaves, Range
<1> QED BY StoreInvariant, <1>1, PTL

(* teardown_disposition frees the arenas only when no copy is in flight    *)
(* and none can start any more.                                            *)
THEOREM FreedSafe == Spec => []FreedIsQuiet
<1>1. IInv => FreedIsQuiet
  <2> SUFFICES ASSUME IInv, drain.phase = "freed" PROVE FreedIsQuiet
    BY Zenon DEF FreedIsQuiet
  <2>1. \A r \in Resolves : task[r] \in {"new", "done"} /\ load[r].state # "running"
    BY Zenon DEF IInv, DrainIsFinal, LoadsSettled
  <2>2. \A r \in Resolves : load[r].flying = {}
    BY <2>1, Zenon DEF IInv, LoadFollowsTask
  <2>3. \A k \in Requests : UnlandedSaves(k) = {}
    BY DEF IInv, DrainIsFinal, SaveOrder, UnlandedSaves, Range
  <2> QED BY <2>1, <2>2, <2>3, Zenon DEF FreedIsQuiet
<1> QED BY StoreInvariant, <1>1, PTL

-----------------------------------------------------------------------------
(***************************************************************************)
(* The count of the pinned pages.                                          *)
(***************************************************************************)
(* The pages of the saves whose watcher has not run. *)
Unwatched ==
    UNION {SavedPages(k, {i \in DOMAIN saves[k] : ~saves[k][i].watched}) : k \in Requests}

(* The pinned count is what the watchers have yet to take off, page by     *)
(* page: seal adds what a watcher takes off, once.                         *)
Counted ==
    /\ \A k \in Requests : \A i \in DOMAIN saves[k] : IsFiniteSet(saves[k][i].pages)
    /\ IsFiniteSet(Unwatched)
    /\ pinned = Cardinality(Unwatched)

LEMMA UnwatchedMember ==
    ASSUME NEW t
    PROVE  t \in Unwatched <=>
               \E k \in Requests : \E i \in DOMAIN saves[k] :
                   ~saves[k][i].watched /\ t \in {<<k, i>>} \X saves[k][i].pages
BY DEF Unwatched, SavedPages

(* What seal adds: a save of its own, which its watcher owes. *)
LEMMA SealOwes ==
    ASSUME TypeOK, NEW k \in Requests, NEW class, SaveUnsaved(k, class), Unsaved(k) # {}
    PROVE  \E n \in Nat :
              /\ Unwatched' = Unwatched \cup ({<<k, n>>} \X Unsaved(k))
              /\ Unwatched \cap ({<<k, n>>} \X Unsaved(k)) = {}
              /\ \A l \in Requests : \A i \in DOMAIN saves'[l] :
                    \/ saves'[l][i].pages = Unsaved(k)
                    \/ i \in DOMAIN saves[l] /\ saves'[l][i].pages = saves[l][i].pages
<1> DEFINE new == NewSave(Unsaved(k), class)
           n == Len(saves[k]) + 1
           fresh == {<<k, n>>} \X Unsaved(k)
<1>0. saves \in [Requests -> Seq(Saves)]
  BY Zenon DEF TypeOK, SavesOK
<1>1. saves' = [saves EXCEPT ![k] = Append(saves[k], new)]
  BY Zenon DEF SaveUnsaved
<1>2. new.pages = Unsaved(k) /\ new.watched = FALSE
  BY Zenon DEF NewSave
<1> HIDE DEF new
<1>3. \A l \in Requests \ {k} : saves'[l] = saves[l]
  BY <1>0, <1>1, Zenon
<1>4. /\ DOMAIN saves[k] = 1 .. n - 1 /\ DOMAIN saves'[k] = 1 .. n /\ saves'[k][n] = new
      /\ n \in Nat /\ \A i \in DOMAIN saves[k] : saves'[k][i] = saves[k][i]
  BY <1>0, <1>1
<1>5. DOMAIN saves'[k] = DOMAIN saves[k] \cup {n} /\ n \notin DOMAIN saves[k]
  BY <1>4
<1> HIDE DEF n
<1>6. ASSUME NEW l \in Requests, NEW i \in DOMAIN saves'[l]
      PROVE  \/ l = k /\ i = n /\ saves'[l][i] = new
             \/ i \in DOMAIN saves[l] /\ saves'[l][i] = saves[l][i]
  BY <1>3, <1>4, <1>5, Zenon
<1>7. ASSUME NEW l \in Requests, NEW i \in DOMAIN saves[l]
      PROVE  i \in DOMAIN saves'[l] /\ saves'[l][i] = saves[l][i]
  BY <1>3, <1>4, <1>5, Zenon
<1>8. Unwatched' = Unwatched \cup fresh
  <2>1. ASSUME NEW t PROVE t \in Unwatched' <=>
           \E l \in Requests : \E i \in DOMAIN saves'[l] :
               ~saves'[l][i].watched /\ t \in {<<l, i>>} \X saves'[l][i].pages
    BY DEF Unwatched, SavedPages
  <2>2. ASSUME NEW t \in Unwatched' PROVE t \in Unwatched \cup fresh
    BY <1>2, <1>6, <2>1, UnwatchedMember
  <2>3. ASSUME NEW t \in Unwatched PROVE t \in Unwatched'
    BY <1>7, <2>1, UnwatchedMember
  <2>4. ASSUME NEW t \in fresh PROVE t \in Unwatched'
    BY <1>2, <1>4, <1>5, <2>1, Zenon
  <2> QED BY <2>2, <2>3, <2>4, Zenon
<1>9. Unwatched \cap fresh = {}
  <2> SUFFICES ASSUME NEW t \in Unwatched, t \in fresh PROVE FALSE
    BY Zenon
  <2>1. PICK l \in Requests : \E i \in DOMAIN saves[l] : t \in {<<l, i>>} \X saves[l][i].pages
    BY UnwatchedMember, Zenon
  <2> QED BY <1>5, <2>1
<1>10. \A l \in Requests : \A i \in DOMAIN saves'[l] :
          \/ saves'[l][i].pages = Unsaved(k)
          \/ i \in DOMAIN saves[l] /\ saves'[l][i].pages = saves[l][i].pages
  BY <1>2, <1>6, Zenon
<1> QED BY <1>4, <1>8, <1>9, <1>10, Zenon

(* What the watchers owe after a step of a save. *)
LEMMA UnwatchedStep ==
    ASSUME TypeOK, NEW k \in Requests, NEW i \in DOMAIN saves[k], NEW after \in Saves,
           saves' = [saves EXCEPT ![k][i] = after], after.pages = saves[k][i].pages,
           ~after.watched => ~saves[k][i].watched
    PROVE  Unwatched' = IF after.watched THEN Unwatched \ ({<<k, i>>} \X saves[k][i].pages)
                        ELSE Unwatched
<1>1. ASSUME NEW t PROVE t \in Unwatched' <=>
         \E l \in Requests : \E j \in DOMAIN saves'[l] :
             ~saves'[l][j].watched /\ t \in {<<l, j>>} \X saves'[l][j].pages
  BY DEF Unwatched, SavedPages
<1>2. \A l \in Requests : DOMAIN saves'[l] = DOMAIN saves[l]
  BY Zenon DEF TypeOK, SavesOK
<1>3. \A l \in Requests : \A j \in DOMAIN saves[l] :
         saves'[l][j] = IF l = k /\ j = i THEN after ELSE saves[l][j]
  BY Zenon DEF TypeOK, SavesOK
<1>4. \A l \in Requests : \A j \in DOMAIN saves[l] :
         /\ saves'[l][j].pages = saves[l][j].pages
         /\ l # k \/ j # i => saves'[l][j].watched = saves[l][j].watched
         /\ l = k /\ j = i => saves'[l][j].watched = after.watched
  BY <1>3
<1>5. CASE after.watched
  <2>1. ASSUME NEW t \in Unwatched'
        PROVE  t \in Unwatched /\ t \notin {<<k, i>>} \X saves[k][i].pages
    <3>0. PICK l \in Requests : \E j \in DOMAIN saves[l] :
             ~saves'[l][j].watched /\ t \in {<<l, j>>} \X saves'[l][j].pages
      BY <1>1, <1>2, Zenon
    <3>1. PICK j \in DOMAIN saves[l] :
             ~saves'[l][j].watched /\ t \in {<<l, j>>} \X saves'[l][j].pages
      BY <3>0, Zenon
    <3>2. l # k \/ j # i
      BY <1>4, <1>5, <3>1, Zenon
    <3>3. ~saves[l][j].watched /\ t \in {<<l, j>>} \X saves[l][j].pages
      BY <1>4, <3>1, <3>2
    <3>4. t \notin {<<k, i>>} \X saves[k][i].pages
      BY <3>2, <3>3
    <3> QED BY <3>3, <3>4, UnwatchedMember, Zenon
  <2>2. ASSUME NEW t \in Unwatched, t \notin {<<k, i>>} \X saves[k][i].pages
        PROVE  t \in Unwatched'
    BY <1>1, <1>2, <1>4, <2>2, UnwatchedMember
  <2> QED BY <1>5, <2>1, <2>2, Zenon
<1>6. CASE ~after.watched
  <2>1. \A t : t \in Unwatched' <=> t \in Unwatched
    BY <1>1, <1>2, <1>4, <1>6, UnwatchedMember
  <2> QED BY <1>6, <2>1, Zenon
<1> QED BY <1>5, <1>6, Zenon

(* What the steps of a save do to the count and to what it counts. *)
LEMMA SaveStepOwes ==
    ASSUME TypeOK, NEW k \in Requests, NEW i \in DOMAIN saves[k],
           SaveLands(k, i) \/ GuardsDrop(k, i) \/ Watch(k, i)
    PROVE  /\ \/ Unwatched' = Unwatched /\ pinned' = pinned
              \/ /\ {<<k, i>>} \X saves[k][i].pages \subseteq Unwatched
                 /\ Unwatched' = Unwatched \ ({<<k, i>>} \X saves[k][i].pages)
                 /\ pinned' = pinned - Cardinality(saves[k][i].pages)
           /\ \A l \in Requests : \A j \in DOMAIN saves'[l] :
                 j \in DOMAIN saves[l] /\ saves'[l][j].pages = saves[l][j].pages
<1> DEFINE seen == {<<k, i>>} \X saves[k][i].pages
<1>1. saves[k][i] \in Saves
  BY DEF TypeOK, SavesOK
<1>2. PICK after \in Saves :
         /\ saves' = [saves EXCEPT ![k][i] = after] /\ after.pages = saves[k][i].pages
         /\ \/ after.watched = saves[k][i].watched /\ pinned' = pinned
            \/ /\ after.watched /\ ~saves[k][i].watched
               /\ pinned' = pinned - Cardinality(saves[k][i].pages)
  <2>1. CASE SaveLands(k, i)
    <3> DEFINE landed == [saves[k][i] EXCEPT !.landed = TRUE]
    <3>1. /\ landed \in Saves /\ landed.pages = saves[k][i].pages
          /\ landed.watched = saves[k][i].watched
      BY <1>1, Zenon DEF Saves
    <3>2. saves' = [saves EXCEPT ![k][i] = landed] /\ pinned' = pinned
      BY <2>1, Zenon DEF SaveLands
    <3> QED BY <3>1, <3>2, Zenon
  <2>2. CASE GuardsDrop(k, i)
    <3> DEFINE dropped == [saves[k][i] EXCEPT !.guarded = FALSE]
    <3>1. /\ dropped \in Saves /\ dropped.pages = saves[k][i].pages
          /\ dropped.watched = saves[k][i].watched
      BY <1>1, Zenon DEF Saves
    <3>2. saves' = [saves EXCEPT ![k][i] = dropped] /\ pinned' = pinned
      BY <2>2, Zenon DEF GuardsDrop
    <3> QED BY <3>1, <3>2, Zenon
  <2>3. CASE Watch(k, i)
    <3> DEFINE passed == [saves[k][i] EXCEPT !.watched = TRUE]
    <3>1. passed \in Saves /\ passed.pages = saves[k][i].pages /\ passed.watched
      BY <1>1, Zenon DEF Saves
    <3>2. /\ saves' = [saves EXCEPT ![k][i] = passed] /\ ~saves[k][i].watched
          /\ pinned' = pinned - Cardinality(saves[k][i].pages)
      BY <2>3, Zenon DEF Watch
    <3> QED BY <3>1, <3>2, Zenon
  <2> QED BY <2>1, <2>2, <2>3, Zenon
<1>3. Unwatched' = IF after.watched THEN Unwatched \ seen ELSE Unwatched
  BY <1>2, UnwatchedStep, Zenon
<1>4. \A l \in Requests : \A j \in DOMAIN saves'[l] :
         j \in DOMAIN saves[l] /\ saves'[l][j].pages = saves[l][j].pages
  <2>1. \A l \in Requests : DOMAIN saves'[l] = DOMAIN saves[l]
    BY <1>2, Zenon DEF TypeOK, SavesOK
  <2>2. \A l \in Requests : \A j \in DOMAIN saves[l] : saves'[l][j].pages = saves[l][j].pages
    BY <1>2, Zenon DEF TypeOK, SavesOK
  <2> QED BY <2>1, <2>2, Zenon
<1>5. saves[k][i].watched => Unwatched \cap seen = {}
  BY UnwatchedMember
<1>6. ~saves[k][i].watched => seen \subseteq Unwatched
  BY UnwatchedMember, Zenon
<1>7. CASE after.watched = saves[k][i].watched /\ pinned' = pinned
  <2>1. Unwatched' = Unwatched
    BY <1>3, <1>5, <1>7, Zenon
  <2> QED BY <1>4, <1>7, <2>1, Zenon
<1>8. CASE /\ after.watched /\ ~saves[k][i].watched
           /\ pinned' = pinned - Cardinality(saves[k][i].pages)
  BY <1>3, <1>4, <1>6, <1>8, Zenon
<1> QED BY <1>2, <1>7, <1>8, Zenon

(* The other steps leave the saves and the count alone. *)
LEMMA SaveSteps ==
    ASSUME [Next]_vars
    PROVE  \/ UNCHANGED <<saves, pinned>>
           \/ \E k \in Requests : \E class : SaveUnsaved(k, class)
           \/ \E k \in Requests : \E i \in DOMAIN saves[k] :
                 SaveLands(k, i) \/ GuardsDrop(k, i) \/ Watch(k, i)
<1>1. ASSUME NEW k \in Requests, NEW class, Seal(k, class) \/ Retire(k, class)
      PROVE  SaveUnsaved(k, class)
  BY <1>1, Zenon DEF Seal, Retire
<1>2. ASSUME NEW r \in Resolves, ResolveRuns(r) PROVE UNCHANGED <<saves, pinned>>
  BY <1>2, Zenon DEF ResolveRuns, Query, QueryTimesOut, NoHit, HitDeclined, HitReserved,
     CancelledBeforeLoad, StartLoad, LoadDone, LoadTimesOut, storage
<1>3. ASSUME NEW r \in Resolves,
             \/ Cancel(r) \/ Deadline(r) \/ LoadSettles(r) \/ DropHold(r)
             \/ \E outcome \in {"miss", "loading", "failed", "hit"} : QuerySettles(r, outcome)
             \/ \E d \in Range(Devices), ok \in BOOLEAN : CopyLands(r, d, ok)
             \/ \E full \in BOOLEAN : Begin(r, full)
             \/ \E k \in Requests : Admitted(r, k)
      PROVE  UNCHANGED <<saves, pinned>>
  BY <1>3, Zenon DEF Cancel, Deadline, LoadSettles, DropHold, QuerySettles, CopyLands, Begin,
     Admitted, storage
<1>4. ASSUME NEW k \in Requests, FillPage(k) \/ ParkedReleases(k)
      PROVE  UNCHANGED <<saves, pinned>>
  BY <1>4, Zenon DEF FillPage, ParkedReleases
<1>5. ASSUME UNCHANGED vars \/ TearDown \/ FlushLoads \/ FlushSaves
      PROVE  UNCHANGED <<saves, pinned>>
  BY <1>5, Zenon DEF vars, storage, TearDown, FlushLoads, FlushSaves, served
<1> QED BY <1>1, <1>2, <1>3, <1>4, <1>5, Zenon DEF Next

-----------------------------------------------------------------------------
(* Finite sets, from here on. *)
INSTANCE FiniteSetTheorems

(* A counter is a natural number, and zero only when it counts nothing. *)
LEMMA CountNat ==
    ASSUME NEW S, IsFiniteSet(S)
    PROVE  Cardinality(S) \in Nat /\ (Cardinality(S) = 0 <=> S = {})
BY FS_CardinalityType, FS_EmptySet, Zenon

(* Disjoint sets. *)
LEMMA CountUnion ==
    ASSUME NEW S, NEW T, IsFiniteSet(S), IsFiniteSet(T), S \cap T = {}
    PROVE  /\ IsFiniteSet(S \cup T)
           /\ Cardinality(S \cup T) = Cardinality(S) + Cardinality(T)
<1>1. Cardinality(S) \in Nat /\ Cardinality(T) \in Nat
  BY CountNat, Zenon
<1>2. /\ IsFiniteSet(S \cup T)
      /\ Cardinality(S \cup T) = Cardinality(S) + Cardinality(T) - Cardinality(S \cap T)
  BY FS_Union, Zenon
<1>3. Cardinality(S \cap T) = 0
  BY FS_EmptySet, Zenon
<1> QED BY <1>1, <1>2, <1>3

(* A set without a part of it. *)
LEMMA CountDifference ==
    ASSUME NEW S, NEW T \in SUBSET S, IsFiniteSet(S)
    PROVE  /\ IsFiniteSet(S \ T)
           /\ Cardinality(S \ T) = Cardinality(S) - Cardinality(T)
<1>1. IsFiniteSet(T)
  BY FS_Subset, Zenon
<1>2. S \cap T = T
  BY Zenon
<1> QED BY <1>1, <1>2, FS_Difference, Zenon

(* A set tagged with one value. *)
LEMMA CountTagged ==
    ASSUME NEW t, NEW S, IsFiniteSet(S)
    PROVE  IsFiniteSet({t} \X S) /\ Cardinality({t} \X S) = Cardinality(S)
<1>1. IsFiniteSet({t}) /\ Cardinality({t}) = 1
  BY FS_Singleton, Zenon
<1>2. Cardinality(S) \in Nat
  BY CountNat, Zenon
<1> QED BY <1>1, <1>2, FS_Product

LEMMA UnsavedFinite ==
    ASSUME TypeOK, NEW k \in Requests
    PROVE  IsFiniteSet(Unsaved(k))
<1> DEFINE from == IF kv[k].saved = 0 THEN kv[k].matched ELSE kv[k].saved
           f == [i \in from + 1 .. Len(kv[k].pages) |-> kv[k].pages[i]]
<1>1. kv[k] \in Kvs
  BY Zenon DEF TypeOK, KvOK
<1>2. from + 1 \in Int /\ Len(kv[k].pages) \in Int
  BY <1>1 DEF Kvs
<1>3. Unsaved(k) = {kv[k].pages[i] : i \in from + 1 .. Len(kv[k].pages)}
  BY Zenon DEF Unsaved
<1> HIDE DEF from
<1>4. f \in Surjection(from + 1 .. Len(kv[k].pages), Unsaved(k))
  BY <1>3, Zenon DEF Surjection
<1>5. IsFiniteSet(from + 1 .. Len(kv[k].pages))
  BY <1>2, FS_Interval, Zenon
<1> QED BY <1>4, <1>5, FS_Surjection, Zenon

(* seal pins what it saves; a watcher takes off the count what seal added *)
(* for its save.                                                           *)
LEMMA NextCounted == TypeOK /\ Counted /\ [Next]_vars => Counted'
<1> SUFFICES ASSUME TypeOK, Counted, [Next]_vars PROVE Counted'
  BY Zenon
<1>0. IsFiniteSet(Unwatched) /\ pinned = Cardinality(Unwatched)
  BY Zenon DEF Counted
<1>1. CASE UNCHANGED <<saves, pinned>>
  BY <1>1 DEF Counted, Unwatched, SavedPages
<1>2. ASSUME NEW k \in Requests, NEW class, SaveUnsaved(k, class), Unsaved(k) # {}
      PROVE  Counted'
  <2>1. PICK n \in Nat :
           /\ Unwatched' = Unwatched \cup ({<<k, n>>} \X Unsaved(k))
           /\ Unwatched \cap ({<<k, n>>} \X Unsaved(k)) = {}
           /\ \A l \in Requests : \A i \in DOMAIN saves'[l] :
                 \/ saves'[l][i].pages = Unsaved(k)
                 \/ i \in DOMAIN saves[l] /\ saves'[l][i].pages = saves[l][i].pages
    BY <1>2, SealOwes, Zenon
  <2> DEFINE fresh == {<<k, n>>} \X Unsaved(k)
  <2>2. pinned' = pinned + Cardinality(Unsaved(k))
    BY <1>2, Zenon DEF SaveUnsaved
  <2>3. IsFiniteSet(Unsaved(k))
    BY UnsavedFinite, Zenon
  <2>4. IsFiniteSet(fresh) /\ Cardinality(fresh) = Cardinality(Unsaved(k))
    BY <2>3, CountTagged, Zenon
  <2> HIDE DEF fresh
  <2>5. /\ IsFiniteSet(Unwatched \cup fresh)
        /\ Cardinality(Unwatched \cup fresh) = Cardinality(Unwatched) + Cardinality(fresh)
    BY <1>0, <2>1, <2>4, CountUnion, Zenon DEF fresh
  <2>6. Unwatched' = Unwatched \cup fresh
    BY <2>1, Zenon DEF fresh
  <2>7. \A l \in Requests : \A i \in DOMAIN saves'[l] : IsFiniteSet(saves'[l][i].pages)
    BY <2>1, <2>3, Zenon DEF Counted
  <2> QED BY <1>0, <2>2, <2>4, <2>5, <2>6, <2>7, Zenon DEF Counted
<1>3. ASSUME NEW k \in Requests, NEW i \in DOMAIN saves[k],
             SaveLands(k, i) \/ GuardsDrop(k, i) \/ Watch(k, i)
      PROVE  Counted'
  <2> DEFINE seen == {<<k, i>>} \X saves[k][i].pages
  <2>1. /\ \/ Unwatched' = Unwatched /\ pinned' = pinned
           \/ /\ seen \subseteq Unwatched /\ Unwatched' = Unwatched \ seen
              /\ pinned' = pinned - Cardinality(saves[k][i].pages)
        /\ \A l \in Requests : \A j \in DOMAIN saves'[l] :
              j \in DOMAIN saves[l] /\ saves'[l][j].pages = saves[l][j].pages
    BY <1>3, SaveStepOwes, Zenon
  <2>2. \A l \in Requests : \A j \in DOMAIN saves'[l] : IsFiniteSet(saves'[l][j].pages)
    BY <2>1, Zenon DEF Counted
  <2>3. CASE Unwatched' = Unwatched /\ pinned' = pinned
    BY <1>0, <2>2, <2>3, Zenon DEF Counted
  <2>4. IsFiniteSet(saves[k][i].pages)
    BY Zenon DEF Counted
  <2>5. Cardinality(seen) = Cardinality(saves[k][i].pages)
    BY <2>4, CountTagged, Zenon
  <2> HIDE DEF seen
  <2>6. CASE /\ seen \subseteq Unwatched /\ Unwatched' = Unwatched \ seen
             /\ pinned' = pinned - Cardinality(saves[k][i].pages)
    <3>1. /\ IsFiniteSet(Unwatched \ seen)
          /\ Cardinality(Unwatched \ seen) = Cardinality(Unwatched) - Cardinality(seen)
      BY <1>0, <2>6, CountDifference, Zenon
    <3> QED BY <1>0, <2>2, <2>5, <2>6, <3>1, Zenon DEF Counted
  <2> QED BY <2>1, <2>3, <2>6, Zenon
<1>4. ASSUME NEW k \in Requests, NEW class, SaveUnsaved(k, class), Unsaved(k) = {}
      PROVE  Counted'
  BY <1>1, <1>4, Zenon DEF SaveUnsaved
<1> QED BY <1>1, <1>2, <1>3, <1>4, SaveSteps, Zenon

(* RankState::pinned is exactly what the watchers have not yet taken off,  *)
(* so it never falls below the pages that a save is still reading.         *)
THEOREM PinnedSafe == Spec => []PinnedCoversReads
<1>1. Init => Counted
  <2> SUFFICES ASSUME Init PROVE Counted
    BY Zenon
  <2>1. \A k \in Requests : DOMAIN saves[k] = {}
    BY DEF Init
  <2>2. Unwatched = {} /\ pinned = 0
    BY <2>1, UnwatchedMember, Zenon DEF Init
  <2> QED BY <2>1, <2>2, FS_EmptySet, Zenon DEF Counted
<1>2. IInv /\ Counted => PinnedCoversReads
  <2> SUFFICES ASSUME IInv, Counted PROVE PinnedCoversReads
    BY Zenon
  <2>1. BeingRead \subseteq Unwatched
    <3> SUFFICES ASSUME NEW t \in BeingRead PROVE t \in Unwatched
      BY Zenon
    <3>1. PICK k \in Requests : \E i \in DOMAIN saves[k] :
             ~saves[k][i].landed /\ t \in {<<k, i>>} \X saves[k][i].pages
      BY DEF BeingRead, SavedPages
    <3> QED BY <3>1, UnwatchedMember, Zenon DEF IInv, SaveOrder
  <2>2. IsFiniteSet(Unwatched) /\ pinned = Cardinality(Unwatched)
    BY Zenon DEF Counted
  <2> QED BY <2>1, <2>2, FS_Subset, Zenon DEF PinnedCoversReads
<1>3. IInv => TypeOK
  BY Zenon DEF IInv
<1> QED BY <1>1, <1>2, <1>3, NextCounted, StoreInvariant, PTL DEF Spec
=============================================================================
