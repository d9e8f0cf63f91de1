---------------------------- MODULE CpGangProofs -----------------------------
(***************************************************************************)
(* Proofs about the gang board for any number of ranks and jobs, any of    *)
(* the ranks being those of the process, and whatever the local and the    *)
(* remote ranks launch outside it: the ranks of a gang enter its           *)
(* prefill_cp at one launch count, and every rank runs the jobs in posting *)
(* order.                                                                  *)
(*                                                                         *)
(* Why the counts are level.  A rank computes once every rank has checked  *)
(* in and none of the entries is above its own.  From then on no entry can *)
(* rise above that one: a rank that pumps announces one more than its own  *)
(* count, and does so only while some entry is higher (Ceiling).  Since    *)
(* each rank that computes has a highest entry, they all have the same.    *)
(***************************************************************************)
EXTENDS CpGang, TLAPS

(* The provers to try, in this order. *)
USE SMTT(20), ZenonT(20), SMTT(60)

JobPoints == {"level", "pump", "pumping", "compute", "superstep"}

Busy(r, q) == at[r] \in JobPoints /\ now[r] = q

GangType ==
    /\ count \in [Ranks -> Nat]
    /\ DOMAIN at = Ranks
    /\ local \in SUBSET Ranks
    /\ id \in [Requests -> Nat]
    /\ nextId \in Nat \ {0}
    /\ horizon \in [Ranks -> Nat]
    /\ now \in [Ranks -> Requests \cup {None}]
    /\ entries \in [Requests -> [Ranks -> Nat \cup {None}]]
    /\ entered \in [Requests -> [Ranks -> Nat \cup {None}]]
    /\ executed \in [Requests -> SUBSET local]
    /\ \A r \in Ranks : at[r] \in GangPoints => r \in local
    /\ \A r \in Ranks : at[r] \in JobPoints => now[r] \in Requests

\* What the entry of rank r for job q says, from where the rank is.
Entry(r, q) ==
    /\ Busy(r, q) => r \notin executed[q]
    /\ ~Busy(r, q) /\ r \notin executed[q] => entries[q][r] = None
    /\ r \in executed[q] => entries[q][r] # None
    /\ Busy(r, q) /\ at[r] = "level" => entries[q][r] \in {None, count[r]}
    /\ Busy(r, q) /\ at[r] = "pump" => entries[q][r] = count[r] + 1
    /\ Busy(r, q) /\ at[r] \in {"pumping", "compute"} => entries[q][r] = count[r]

Computes(r, q) ==
    r \in executed[q] \/ (now[r] = q /\ at[r] \in {"compute", "superstep"})

\* The count that r entered q with is its entry.
Entrance(r, q) ==
    /\ entered[q][r] # None => Computes(r, q) /\ entered[q][r] = entries[q][r]

\* The entry of a rank that computes is the highest, and it stays so.
Ceiling(r, q) ==
    Computes(r, q) =>
        \A s \in local : entries[q][s] # None /\ entries[q][s] <= entries[q][r]

LevelInv ==
    /\ GangType
    /\ \A r \in Ranks : \A q \in Requests : Entry(r, q) /\ Entrance(r, q) /\ Ceiling(r, q)

\* r has executed everything that was posted before q.
Served(r, q) ==
    \A p \in Requests : id[p] # 0 /\ id[p] < id[q] => r \in executed[p]

OrderInv ==
    /\ \A q \in Requests : id[q] < nextId
    /\ \A r \in Ranks : \A q \in Requests :
         (Busy(r, q) \/ r \in executed[q]) => id[q] # 0 /\ Served(r, q)

\* Only ranks of the process compute.
LEMMA EntersLocal ==
    ASSUME GangType, NEW r \in Ranks, NEW q \in Requests, Computes(r, q)
    PROVE  r \in local
BY DEF GangType, Computes, GangPoints

\* A posted job is new: nobody has checked in for it.
LEMMA LevelPost ==
    ASSUME LevelInv, NEW r \in Ranks, NEW q \in Requests, Post(r, q)
    PROVE  LevelInv'
<1>1. GangType'
    BY DEF LevelInv, GangType, Post, board, Outside, GangPoints, JobPoints,
       None
<1>2. ASSUME NEW s \in Ranks, NEW p \in Requests PROVE Entry(s, p)'
    BY <1>2 DEF LevelInv, GangType, Entry, Busy, Post, board, Outside,
       GangPoints, JobPoints, None
<1>3. ASSUME NEW s \in Ranks, NEW p \in Requests PROVE Entrance(s, p)'
    BY <1>3 DEF LevelInv, GangType, Entry, Entrance, Computes, Busy, Post,
       board, Outside, GangPoints, JobPoints, None
<1>4. ASSUME NEW s \in Ranks, NEW p \in Requests PROVE Ceiling(s, p)'
    BY <1>4 DEF LevelInv, GangType, Entry, Ceiling, Computes, Busy, Post,
       board, Outside, GangPoints, JobPoints, None
<1> QED BY <1>1, <1>2, <1>3, <1>4 DEF LevelInv

\* Serving only sets the horizon.
LEMMA LevelServe ==
    ASSUME LevelInv, NEW r \in Ranks, Serve(r)
    PROVE  LevelInv'
<1>1. GangType'
    BY DEF LevelInv, GangType, Serve, board, Outside, GangPoints, JobPoints,
       None
<1>2. ASSUME NEW s \in Ranks, NEW p \in Requests PROVE Entry(s, p)'
    BY <1>2 DEF LevelInv, GangType, Entry, Busy, Serve, board, Outside,
       GangPoints, JobPoints, None
<1>3. ASSUME NEW s \in Ranks, NEW p \in Requests PROVE Entrance(s, p)'
    BY <1>3 DEF LevelInv, GangType, Entry, Entrance, Computes, Busy, Serve,
       board, Outside, GangPoints, JobPoints, None
<1>4. ASSUME NEW s \in Ranks, NEW p \in Requests PROVE Ceiling(s, p)'
    BY <1>4 DEF LevelInv, GangType, Entry, Ceiling, Computes, Busy, Serve,
       board, Outside, GangPoints, JobPoints, None
<1> QED BY <1>1, <1>2, <1>3, <1>4 DEF LevelInv

\* A picked job has no entry of the rank yet.
LEMMA LevelPick ==
    ASSUME LevelInv, NEW r \in Ranks, NEW q \in Requests, Pick(r, q)
    PROVE  LevelInv'
<1>1. GangType'
    BY DEF LevelInv, GangType, Pick, Pending, board, Outside, GangPoints,
       JobPoints, None
<1>2. ASSUME NEW s \in Ranks, NEW p \in Requests PROVE Entry(s, p)'
    BY <1>2 DEF LevelInv, GangType, Entry, Busy, Pick, Pending, board,
       Outside, GangPoints, JobPoints, None
<1>3. ASSUME NEW s \in Ranks, NEW p \in Requests PROVE Entrance(s, p)'
    BY <1>3 DEF LevelInv, GangType, Entry, Entrance, Computes, Busy, Pick,
       Pending, board, Outside, GangPoints, JobPoints, None
<1>4. ASSUME NEW s \in Ranks, NEW p \in Requests PROVE Ceiling(s, p)'
    BY <1>4 DEF LevelInv, GangType, Entry, Ceiling, Computes, Busy, Pick,
       Pending, board, Outside, GangPoints, JobPoints, None
<1> QED BY <1>1, <1>2, <1>3, <1>4 DEF LevelInv

\* The levelling pass: an entry that rises is below one that is there already.
LEMMA LevelCheckIn ==
    ASSUME LevelInv, NEW r \in Ranks, CheckIn(r)
    PROVE  LevelInv'
<1> DEFINE q == now[r]
<1> DEFINE e == entries'[q][r]
<1>0. /\ r \in local /\ local \subseteq Ranks /\ local' = local
      /\ \A t \in local : t \in Ranks
    BY ZenonT(20) DEF LevelInv, GangType, CheckIn, GangPoints, board
<1>1. /\ q \in Requests
      /\ Busy(r, q)
      /\ r \notin executed[q]
      /\ entered[q][r] = None
      /\ entries[q][r] \in {None, count[r]}
      /\ count[r] \in Nat
    BY ZenonT(20) DEF LevelInv, GangType, CheckIn, Entry, Entrance, Computes, Busy,
       JobPoints
<1>2. /\ e \in {count[r], count[r] + 1}
      /\ entries' = [entries EXCEPT ![q] = [entries[q] EXCEPT ![r] = e]]
      /\ UNCHANGED <<local, id, nextId, count, horizon, now, entered, executed>>
    BY <1>1 DEF LevelInv, GangType, CheckIn, board
<1>3. \/ Level(r, q) /\ e = count[r] /\ at' = [at EXCEPT ![r] = "compute"]
      \/ ~Level(r, q) /\ e = count[r] + 1 /\ at' = [at EXCEPT ![r] = "pump"]
    BY <1>1 DEF LevelInv, GangType, CheckIn
<1>4. GangType'
    <2>1. entries' \in [Requests -> [Ranks -> Nat \cup {None}]]
        <3>1. e \in Nat
            BY <1>1, <1>2
        <3>2. [entries[q] EXCEPT ![r] = e] \in [Ranks -> Nat \cup {None}]
            BY <1>1, <3>1 DEF LevelInv, GangType
        <3> HIDE DEF e
        <3> QED BY <1>1, <1>2, <3>2 DEF LevelInv, GangType
    <2>2. /\ DOMAIN at' = Ranks
          /\ \A s \in Ranks : at'[s] \in JobPoints => now'[s] \in Requests
          /\ \A s \in Ranks : at'[s] \in GangPoints => s \in local'
        <3>1. DOMAIN at' = Ranks /\ \A s \in Ranks \ {r} : at'[s] = at[s]
            BY <1>3 DEF LevelInv, GangType
        <3> HIDE DEF e
        <3> QED BY <1>0, <1>1, <1>2, <3>1, ZenonT(20) DEF LevelInv, GangType
    <2> QED BY <1>2, <2>1, <2>2 DEF LevelInv, GangType
<1>5. ASSUME NEW s \in Ranks, NEW p \in Requests, p # q \/ s # r
      PROVE  /\ entries'[p][s] = entries[p][s]
             /\ Busy(s, p)' <=> Busy(s, p)
             /\ Computes(s, p)' <=> Computes(s, p)
    <2>1. entries'[p][s] = entries[p][s]
        <3> HIDE DEF e
        <3>1. CASE p # q
            BY <1>1, <1>2, <3>1 DEF LevelInv, GangType
        <3>2. CASE p = q /\ s # r
            BY <1>1, <1>2, <3>2 DEF LevelInv, GangType
        <3> QED BY <1>5, <3>1, <3>2
    <2>2. CASE s # r
        BY <1>2, <1>3, <2>1, <2>2 DEF LevelInv, GangType, Busy, Computes
    <2>3. CASE p # q /\ s = r
        BY <1>2, <2>1, <2>3 DEF Busy, Computes
    <2> QED BY <1>5, <2>2, <2>3
<1>6. ASSUME NEW s \in Ranks, NEW p \in Requests
      PROVE  Entry(s, p)' /\ Entrance(s, p)'
    <2>1. CASE p = q /\ s = r
        BY <1>1, <1>2, <1>3, <2>1 DEF LevelInv, GangType, Entry, Entrance,
           Busy, JobPoints, None
    <2>2. CASE p # q \/ s # r
        <3>1. at'[s] = at[s] \/ ~Busy(s, p)'
            BY <1>1, <1>2, <1>3, <2>2 DEF LevelInv, GangType, Busy
        <3> QED BY <1>2, <1>5, <2>2, <3>1 DEF LevelInv, Entry, Entrance
    <2> QED BY <2>1, <2>2
<1>7. ASSUME NEW s \in Ranks, NEW p \in Requests, Computes(s, p)'
      PROVE  \A t \in local : entries'[p][t] # None /\ entries'[p][t] <= entries'[p][s]
    <2>1. CASE p # q
        BY <1>0, <1>2, <1>5, <1>7, <2>1 DEF LevelInv, Ceiling
    <2>2. CASE p = q /\ s = r
        <3>1. Level(r, q) /\ e = count[r]
            BY <1>1, <1>2, <1>3, <1>7, <2>2 DEF LevelInv, GangType, Computes
        <3> QED BY <1>0, <1>1, <1>5, <2>2, <3>1 DEF Level, None
    <2>3. CASE p = q /\ s # r
        <3>1. \A t \in local : entries[q][t] # None /\ entries[q][t] <= entries[q][s]
            BY <1>0, <1>5, <1>7, <2>3 DEF LevelInv, Ceiling
        <3>2. entries[q][r] = count[r] /\ entries[q][s] \in Nat
            BY <1>0, <1>1, <1>5, <1>7, <2>3, <3>1, EntersLocal DEF LevelInv, GangType
        <3>3. e <= entries[q][s]
            <4>1. CASE Level(r, q)
                BY <1>0, <1>3, <3>1, <3>2, <4>1
            <4>2. CASE ~Level(r, q)
                <5>1. PICK t \in local : ~(entries[q][t] <= count[r])
                    BY <3>1, <4>2 DEF Level
                <5>2. entries[q][t] \in Nat
                    BY <1>0, <1>1, <3>1 DEF LevelInv, GangType
                <5> QED BY <1>1, <1>3, <3>1, <3>2, <4>2, <5>1, <5>2
            <4> QED BY <4>1, <4>2
        <3> QED BY <1>0, <1>1, <1>3, <1>5, <2>3, <3>1, <3>3 DEF None
    <2> QED BY <2>1, <2>2, <2>3
<1> QED BY <1>0, <1>4, <1>6, <1>7 DEF LevelInv, Ceiling

\* The pump reaches the count that was announced.
LEMMA LevelPump ==
    ASSUME LevelInv, NEW r \in Ranks, Pump(r)
    PROVE  LevelInv'
<1>1. GangType'
    BY DEF LevelInv, GangType, Pump, Launch, board, Outside, GangPoints,
       JobPoints, None
<1>2. ASSUME NEW s \in Ranks, NEW p \in Requests PROVE Entry(s, p)'
    BY <1>2 DEF LevelInv, GangType, Entry, Busy, Pump, Launch, board, Outside,
       GangPoints, JobPoints, None
<1>3. ASSUME NEW s \in Ranks, NEW p \in Requests PROVE Entrance(s, p)'
    BY <1>3 DEF LevelInv, GangType, Entry, Entrance, Computes, Busy, Pump,
       Launch, board, Outside, GangPoints, JobPoints, None
<1>4. ASSUME NEW s \in Ranks, NEW p \in Requests PROVE Ceiling(s, p)'
    BY <1>4 DEF LevelInv, GangType, Entry, Ceiling, Computes, Busy, Pump,
       Launch, board, Outside, GangPoints, JobPoints, None
<1> QED BY <1>1, <1>2, <1>3, <1>4 DEF LevelInv

\* The entry is the count again.
LEMMA LevelPumped ==
    ASSUME LevelInv, NEW r \in Ranks, Pumped(r)
    PROVE  LevelInv'
<1>1. GangType'
    BY DEF LevelInv, GangType, Pumped, board, Outside, GangPoints, JobPoints,
       None
<1>2. ASSUME NEW s \in Ranks, NEW p \in Requests PROVE Entry(s, p)'
    BY <1>2 DEF LevelInv, GangType, Entry, Busy, Pumped, board, Outside,
       GangPoints, JobPoints, None
<1>3. ASSUME NEW s \in Ranks, NEW p \in Requests PROVE Entrance(s, p)'
    BY <1>3 DEF LevelInv, GangType, Entry, Entrance, Computes, Busy, Pumped,
       board, Outside, GangPoints, JobPoints, None
<1>4. ASSUME NEW s \in Ranks, NEW p \in Requests PROVE Ceiling(s, p)'
    BY <1>4 DEF LevelInv, GangType, Entry, Ceiling, Computes, Busy, Pumped,
       board, Outside, GangPoints, JobPoints, None
<1> QED BY <1>1, <1>2, <1>3, <1>4 DEF LevelInv

\* The rank enters at its entry.
LEMMA LevelCompute ==
    ASSUME LevelInv, NEW r \in Ranks, Compute(r)
    PROVE  LevelInv'
<1>1. GangType'
    BY DEF LevelInv, GangType, Compute, Launch, board, Outside, GangPoints,
       JobPoints, None
<1>2. ASSUME NEW s \in Ranks, NEW p \in Requests PROVE Entry(s, p)'
    BY <1>2 DEF LevelInv, GangType, Entry, Busy, Compute, Launch, board,
       Outside, GangPoints, JobPoints, None
<1>3. ASSUME NEW s \in Ranks, NEW p \in Requests PROVE Entrance(s, p)'
    BY <1>3 DEF LevelInv, GangType, Entry, Entrance, Computes, Busy, Compute,
       Launch, board, Outside, GangPoints, JobPoints, None
<1>4. ASSUME NEW s \in Ranks, NEW p \in Requests PROVE Ceiling(s, p)'
    BY <1>4 DEF LevelInv, GangType, Entry, Ceiling, Computes, Busy, Compute,
       Launch, board, Outside, GangPoints, JobPoints, None
<1> QED BY <1>1, <1>2, <1>3, <1>4 DEF LevelInv

\* The entry outlives the job.
LEMMA LevelComputed ==
    ASSUME LevelInv, NEW r \in Ranks, Computed(r)
    PROVE  LevelInv'
<1>1. GangType'
    BY DEF LevelInv, GangType, Computed, board, Outside, GangPoints,
       JobPoints, None
<1>2. ASSUME NEW s \in Ranks, NEW p \in Requests PROVE Entry(s, p)'
    BY <1>2 DEF LevelInv, GangType, Entry, Ceiling, Computes, Busy, Computed,
       board, Outside, GangPoints, JobPoints, None
<1>3. ASSUME NEW s \in Ranks, NEW p \in Requests PROVE Entrance(s, p)'
    BY <1>3 DEF LevelInv, GangType, Entry, Entrance, Computes, Busy, Computed,
       board, Outside, GangPoints, JobPoints, None
<1>4. ASSUME NEW s \in Ranks, NEW p \in Requests PROVE Ceiling(s, p)'
    BY <1>4 DEF LevelInv, GangType, Entry, Ceiling, Computes, Busy, Computed,
       board, Outside, GangPoints, JobPoints, None
<1> QED BY <1>1, <1>2, <1>3, <1>4 DEF LevelInv

\* Leaving run_jobs touches no entry.
LEMMA LevelReturn ==
    ASSUME LevelInv, NEW r \in Ranks, at'[r] \in STRING \ GangPoints, Return(r, at'[r])
    PROVE  LevelInv'
<1>1. GangType'
    BY DEF LevelInv, GangType, Return, board, Outside, GangPoints, JobPoints,
       None
<1>2. ASSUME NEW s \in Ranks, NEW p \in Requests PROVE Entry(s, p)'
    BY <1>2 DEF LevelInv, GangType, Entry, Busy, Return, board, Outside,
       GangPoints, JobPoints, None
<1>3. ASSUME NEW s \in Ranks, NEW p \in Requests PROVE Entrance(s, p)'
    BY <1>3, ZenonT(20) DEF LevelInv, GangType, Entry, Entrance, Computes, Busy, Return,
       board, Outside, GangPoints, JobPoints, None
<1>4. ASSUME NEW s \in Ranks, NEW p \in Requests PROVE Ceiling(s, p)'
    BY <1>4 DEF LevelInv, GangType, Entry, Ceiling, Computes, Busy, Return,
       board, Outside, GangPoints, JobPoints, None
<1> QED BY <1>1, <1>2, <1>3, <1>4 DEF LevelInv

\* Launches outside run_jobs touch no entry.
LEMMA LevelElsewhere ==
    ASSUME LevelInv, NEW r \in Ranks, Elsewhere(r)
    PROVE  LevelInv'
<1>1. GangType'
    BY ZenonT(40) DEF LevelInv, GangType, Elsewhere, board, Outside, GangPoints,
       JobPoints, None
<1>2. ASSUME NEW s \in Ranks, NEW p \in Requests PROVE Entry(s, p)'
    BY <1>2 DEF LevelInv, GangType, Entry, Busy, Elsewhere, board, Outside,
       GangPoints, JobPoints, None
<1>3. ASSUME NEW s \in Ranks, NEW p \in Requests PROVE Entrance(s, p)'
    BY <1>3, ZenonT(20) DEF LevelInv, GangType, Entry, Entrance, Computes, Busy,
       Elsewhere, board, Outside, GangPoints, JobPoints, None
<1>4. ASSUME NEW s \in Ranks, NEW p \in Requests PROVE Ceiling(s, p)'
    BY <1>4 DEF LevelInv, GangType, Entry, Ceiling, Computes, Busy, Elsewhere,
       board, Outside, GangPoints, JobPoints, None
<1> QED BY <1>1, <1>2, <1>3, <1>4 DEF LevelInv

\* Before any job there is no entry at all.
LEMMA LevelStart == GangInit => LevelInv
BY DEF GangInit, LevelInv, GangType, Entry, Entrance, Ceiling, Computes, Busy,
   Outside, GangPoints, JobPoints, None

\* Every step of the gang keeps LevelInv.
LEMMA LevelStep == LevelInv /\ [GangNext]_gang => LevelInv'
<1> SUFFICES ASSUME LevelInv, [GangNext]_gang PROVE LevelInv'
    OBVIOUS
<1>1. CASE UNCHANGED gang
    BY <1>1 DEF gang, LevelInv, GangType, Entry, Entrance, Ceiling, Computes,
       Busy
<1>2. CASE GangNext
    <2>1. PICK r \in Ranks :
            \/ Serve(r)
            \/ \E q \in Requests : Post(r, q)
            \/ RunJobs(r)
            \/ at'[r] \in STRING \ GangPoints /\ Return(r, at'[r])
            \/ Elsewhere(r)
        BY <1>2 DEF GangNext
    <2>2. CASE RunJobs(r)
        BY <2>2, LevelPick, LevelCheckIn, LevelPump, LevelPumped,
           LevelCompute, LevelComputed DEF RunJobs
    <2> QED BY <2>1, <2>2, LevelServe, LevelPost, LevelReturn, LevelElsewhere
<1> QED BY <1>1, <1>2

\* In every behaviour of the gang, for any number of ranks and jobs, the
\* process having all of the ranks or some, the ranks that entered a job's prefill_cp (gang.rs run_jobs) entered it at one
\* launch count, whatever decode steps and local prefills they launched
\* before it.
THEOREM GangLevel == GangSpec => []LevelEntries
<1>1. LevelInv => LevelEntries
    <2> SUFFICES ASSUME LevelInv, NEW q \in Requests, NEW r \in Ranks, NEW s \in Ranks,
                        entered[q][r] # None, entered[q][s] # None
                 PROVE  entered[q][r] = entered[q][s]
        BY DEF LevelEntries
    <2>1. entries[q][r] <= entries[q][s] /\ entries[q][s] <= entries[q][r]
        BY EntersLocal DEF LevelInv, Entrance, Ceiling
    <2>2. /\ entered[q][r] = entries[q][r] /\ entered[q][s] = entries[q][s]
          /\ entries[q][r] \in Nat /\ entries[q][s] \in Nat
        BY DEF LevelInv, GangType, Entrance
    <2> QED BY <2>1, <2>2
<1> QED BY <1>1, LevelStart, LevelStep, PTL DEF GangSpec

\* A new job has the highest number, so it is before no other.
LEMMA OrderPost ==
    ASSUME GangType, OrderInv, NEW r \in Ranks, NEW q \in Requests, Post(r, q)
    PROVE  OrderInv'
BY DEF OrderInv, GangType, Served, Busy, Post, board, Outside, GangPoints,
   JobPoints

\* Serving only sets the horizon.
LEMMA OrderServe ==
    ASSUME GangType, OrderInv, NEW r \in Ranks, Serve(r)
    PROVE  OrderInv'
BY DEF OrderInv, GangType, Served, Busy, Serve, board, Outside, GangPoints,
   JobPoints

\* The lowest pending job has none before it.
LEMMA OrderPick ==
    ASSUME GangType, OrderInv, NEW r \in Ranks, NEW q \in Requests, Pick(r, q)
    PROVE  OrderInv'
BY DEF OrderInv, GangType, Served, Busy, Pick, Pending, board, Outside,
   GangPoints, JobPoints

\* The levelling pass leaves the board's order alone.
LEMMA OrderCheckIn ==
    ASSUME GangType, OrderInv, NEW r \in Ranks, CheckIn(r)
    PROVE  OrderInv'
BY DEF OrderInv, GangType, Served, Busy, CheckIn, board, Outside, GangPoints,
   JobPoints

\* So does a pump.
LEMMA OrderPump ==
    ASSUME GangType, OrderInv, NEW r \in Ranks, Pump(r)
    PROVE  OrderInv'
BY DEF OrderInv, GangType, Served, Busy, Pump, Launch, board, Outside,
   GangPoints, JobPoints

\* And the end of one.
LEMMA OrderPumped ==
    ASSUME GangType, OrderInv, NEW r \in Ranks, Pumped(r)
    PROVE  OrderInv'
BY DEF OrderInv, GangType, Served, Busy, Pumped, board, Outside, GangPoints,
   JobPoints

\* And the entry into the compute.
LEMMA OrderCompute ==
    ASSUME GangType, OrderInv, NEW r \in Ranks, Compute(r)
    PROVE  OrderInv'
BY DEF OrderInv, GangType, Served, Busy, Compute, Launch, board, Outside,
   GangPoints, JobPoints

\* An executed job had all its predecessors executed.
LEMMA OrderComputed ==
    ASSUME GangType, OrderInv, NEW r \in Ranks, Computed(r)
    PROVE  OrderInv'
BY DEF OrderInv, GangType, Served, Busy, Computed, board, Outside, GangPoints,
   JobPoints

\* Leaving run_jobs executes nothing.
LEMMA OrderReturn ==
    ASSUME GangType, OrderInv, NEW r \in Ranks, at'[r] \in STRING \ GangPoints, Return(r, at'[r])
    PROVE  OrderInv'
BY DEF OrderInv, GangType, Served, Busy, Return, board, Outside, GangPoints,
   JobPoints

\* Nor does a step outside it.
LEMMA OrderElsewhere ==
    ASSUME GangType, OrderInv, NEW r \in Ranks, Elsewhere(r)
    PROVE  OrderInv'
BY DEF OrderInv, GangType, Served, Busy, Elsewhere, board, Outside,
   GangPoints, JobPoints

\* Before any job there is no order to keep.
LEMMA OrderStart == GangInit => OrderInv
BY DEF GangInit, OrderInv, Busy, Outside, GangPoints, JobPoints

\* Every step of the gang keeps OrderInv.
LEMMA OrderStep == LevelInv /\ OrderInv /\ [GangNext]_gang => OrderInv'
<1> SUFFICES ASSUME LevelInv, OrderInv, [GangNext]_gang PROVE OrderInv'
    OBVIOUS
<1>1. CASE UNCHANGED gang
    BY <1>1 DEF gang, OrderInv, Served, Busy
<1>2. CASE GangNext
    <2>1. PICK r \in Ranks :
            \/ Serve(r)
            \/ \E q \in Requests : Post(r, q)
            \/ RunJobs(r)
            \/ at'[r] \in STRING \ GangPoints /\ Return(r, at'[r])
            \/ Elsewhere(r)
        BY <1>2 DEF GangNext
    <2> GangType
        BY DEF LevelInv
    <2>2. CASE RunJobs(r)
        BY <2>2, OrderPick, OrderCheckIn, OrderPump, OrderPumped,
           OrderCompute, OrderComputed DEF RunJobs
    <2> QED BY <2>1, <2>2, OrderServe, OrderPost, OrderReturn, OrderElsewhere
<1> QED BY <1>1, <1>2

\* In every behaviour of the gang each rank runs the board's jobs in posting
\* order (gang.rs run_jobs picks the lowest id it has not executed), however
\* the posters' threads interleave.
THEOREM GangOrder == GangSpec => []PostingOrder
<1>1. LevelInv /\ OrderInv => PostingOrder
    BY DEF LevelInv, OrderInv, Entrance, Computes, Served, Busy, JobPoints,
       PostingOrder
<1> QED BY <1>1, LevelStart, LevelStep, OrderStart, OrderStep, PTL DEF GangSpec
=============================================================================
