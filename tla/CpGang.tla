------------------------------- MODULE CpGang --------------------------------
(***************************************************************************)
(* The context-parallel prefill gang of one K3 engine (pegainfer-k3        *)
(* scheduler/gang.rs): a board of posted prompts that every scheduler      *)
(* thread serves in posting order, pumping padding steps until the whole   *)
(* gang is at one launch count before any of them computes.                *)
(*                                                                         *)
(* A job is named by its request; id[q] is its posting number, 0 while it  *)
(* is not posted.  Jobs that every rank executed are off the board.  What  *)
(* a rank does outside run_jobs (decode steps, local prefills) is the step *)
(* Elsewhere, which may only add launches; K3Scheduler says what it is.    *)
(* An executor error inside the gang ends the process (ep_fatal), so there *)
(* is no error path here.                                                  *)
(*                                                                         *)
(* The gang is the ranks of one process (local), which are all of the      *)
(* world or, on a fleet, some: a remote rank has no access to the board    *)
(* and takes part with the launches that pair with the gang's (Paired).    *)
(***************************************************************************)
EXTENDS LaunchClock

VARIABLES local,           \* ranks of the process, which K3CpGang::size counts
          id,              \* job -> posting number, 0 when not posted
          nextId,          \* GangBoard::next_id
          horizon,         \* rank -> last job of its run_jobs pass
          now,             \* rank -> the job its run_jobs is at
          entries,         \* job -> rank -> GangJob::entries
          entered,         \* job -> rank -> launch count at its prefill_cp
          executed         \* job -> ranks that finished their prefill_cp

board == <<local, id, nextId>>
gang == <<count, at, local, id, nextId, horizon, now, entries, entered, executed>>

\* Points of run_jobs; everything else is outside the gang.
GangPoints == {"jobs", "level", "pump", "pumping", "compute", "superstep"}
Outside(r) == at[r] \notin GangPoints

GangInit ==
    /\ local \in SUBSET Ranks
    /\ count = [r \in Ranks |-> 0]
    /\ id = [q \in Requests |-> 0]
    /\ nextId = 1
    /\ horizon = [r \in Ranks |-> 0]
    /\ now = [r \in Ranks |-> None]
    /\ entries = [q \in Requests |-> [r \in Ranks |-> None]]
    /\ entered = [q \in Requests |-> [r \in Ranks |-> None]]
    /\ executed = [q \in Requests |-> {}]
    /\ at \in [Ranks -> STRING]
    /\ \A r \in Ranks : Outside(r)

OnBoard(q) == id[q] # 0 /\ executed[q] # local

Pending(r, q) == id[q] # 0 /\ id[q] <= horizon[r] /\ r \notin executed[q]

\* post_and_run: a job of its own, and everything posted before it.
Post(r, q) ==
    /\ r \in local
    /\ Outside(r)
    /\ id[q] = 0
    /\ id' = [id EXCEPT ![q] = nextId]
    /\ nextId' = nextId + 1
    /\ horizon' = [horizon EXCEPT ![r] = nextId]
    /\ at' = [at EXCEPT ![r] = "jobs"]
    /\ UNCHANGED <<local, count, now, entries, entered, executed>>

\* serve: whatever is on the board when the pass begins.
Serve(r) ==
    /\ r \in local
    /\ Outside(r)
    /\ \E q \in Requests :
         /\ OnBoard(q)
         /\ \A p \in Requests : OnBoard(p) => id[p] <= id[q]
         /\ horizon' = [horizon EXCEPT ![r] = id[q]]
    /\ at' = [at EXCEPT ![r] = "jobs"]
    /\ UNCHANGED <<board, count, now, entries, entered, executed>>

\* The newest job, whatever the horizon of the pass.
Pick_Newest(r, q) ==
    /\ at[r] = "jobs"
    /\ id[q] # 0 /\ r \notin executed[q]
    /\ \A p \in Requests : id[p] > id[q] => r \in executed[p]
    /\ now' = [now EXCEPT ![r] = q]
    /\ at' = [at EXCEPT ![r] = "level"]
    /\ UNCHANGED <<board, count, horizon, entries, entered, executed>>

Pick(r, q) ==
    /\ at[r] = "jobs"
    /\ Pending(r, q)
    /\ \A p \in Requests : Pending(r, p) => id[q] <= id[p]
    /\ now' = [now EXCEPT ![r] = q]
    /\ at' = [at EXCEPT ![r] = "level"]
    /\ UNCHANGED <<board, count, horizon, entries, entered, executed>>

\* run_jobs has nothing left up to its horizon.
Return(r, to) ==
    /\ at[r] = "jobs"
    /\ \A q \in Requests : ~Pending(r, q)
    /\ at' = [at EXCEPT ![r] = to]
    /\ UNCHANGED <<board, count, horizon, now, entries, entered, executed>>

\* Every rank of the gang has checked in and none is past r.
Level(r, q) ==
    /\ \A s \in local \ {r} : entries[q][s] # None
    /\ \A s \in local \ {r} : entries[q][s] <= count[r]

\* The entry names the count the pump starts from, not the one it reaches.
CheckIn_Stale(r) ==
    LET q == now[r] IN
    /\ at[r] = "level"
    /\ entries' = [entries EXCEPT ![q] = [entries[q] EXCEPT ![r] = count[r]]]
    /\ at' = [at EXCEPT ![r] = IF Level(r, q) THEN "compute" ELSE "pump"]
    /\ UNCHANGED <<board, count, horizon, now, entered, executed>>

\* One pass of the levelling loop, under the board's lock: enter the compute,
\* or announce the count that a pump will reach.
CheckIn(r) ==
    LET q == now[r] IN
    /\ at[r] = "level"
    /\ \/ /\ Level(r, q)
          /\ entries' = [entries EXCEPT ![q] = [entries[q] EXCEPT ![r] = count[r]]]
          /\ at' = [at EXCEPT ![r] = "compute"]
       \/ /\ ~Level(r, q)
          /\ entries' = [entries EXCEPT ![q] = [entries[q] EXCEPT ![r] = count[r] + 1]]
          /\ at' = [at EXCEPT ![r] = "pump"]
    /\ UNCHANGED <<board, count, horizon, now, entered, executed>>

\* pump_step, off the lock, and its sync.
Pump(r) ==
    /\ at[r] = "pump"
    /\ Launch(r, 1, "pumping")
    /\ UNCHANGED <<board, horizon, now, entries, entered, executed>>

Pumped(r) ==
    /\ at[r] = "pumping"
    /\ Paired(r)
    /\ at' = [at EXCEPT ![r] = "level"]
    /\ UNCHANGED <<board, count, horizon, now, entries, entered, executed>>

\* prefill_cp: one superstep, whose exchange windows sync the stream in the
\* middle of the launch.
Compute(r) ==
    LET q == now[r] IN
    /\ at[r] = "compute"
    /\ Launch(r, 1, "superstep")
    /\ entered' = [entered EXCEPT ![q] = [entered[q] EXCEPT ![r] = count[r]]]
    /\ UNCHANGED <<board, horizon, now, entries, executed>>

\* It ends only when the whole gang is inside it at the same count.
Computed(r) ==
    LET q == now[r] IN
    /\ at[r] = "superstep"
    /\ Paired(r)
    /\ \A s \in local : entered[q][s] = entered[q][r]
    /\ executed' = [executed EXCEPT ![q] = executed[q] \cup {r}]
    /\ at' = [at EXCEPT ![r] = "jobs"]
    /\ UNCHANGED <<board, count, horizon, now, entries, entered>>

\* A step of the scheduler outside run_jobs.
Elsewhere(r) ==
    /\ Outside(r)
    /\ count'[r] \in Nat
    /\ count'[r] >= count[r]
    /\ count' = [count EXCEPT ![r] = count'[r]]
    /\ at'[r] \in STRING \ GangPoints
    /\ at' = [at EXCEPT ![r] = at'[r]]
    /\ UNCHANGED <<board, horizon, now, entries, entered, executed>>

RunJobs(r) ==
    \/ \E q \in Requests : Pick(r, q)
    \/ CheckIn(r)
    \/ Pump(r)
    \/ Pumped(r)
    \/ Compute(r)
    \/ Computed(r)

GangNext ==
    \E r \in Ranks :
      \/ Serve(r)
      \/ \E q \in Requests : Post(r, q)
      \/ RunJobs(r)
      \/ at'[r] \in STRING \ GangPoints /\ Return(r, at'[r])
      \/ Elsewhere(r)

GangSpec == GangInit /\ [][GangNext]_gang

(***************************************************************************)
(* All the ranks that entered the prefill_cp of a job entered it at one    *)
(* launch count: one that entered ahead of the others would wait in an     *)
(* exchange window for launches that peers parked at the window's barrier  *)
(* never queue.                                                            *)
(***************************************************************************)
LevelEntries ==
    \A q \in Requests : \A r, s \in Ranks :
        entered[q][r] # None /\ entered[q][s] # None => entered[q][r] = entered[q][s]

(***************************************************************************)
(* Jobs run in posting order on every rank: a rank that entered a job has  *)
(* executed every job posted before it, so two gangs never cross their     *)
(* exchange windows.                                                       *)
(***************************************************************************)
PostingOrder ==
    \A p, q \in Requests : \A r \in Ranks :
        id[p] # 0 /\ id[p] < id[q] /\ entered[q][r] # None => r \in executed[p]
=============================================================================
