----------------------------- MODULE K3Scheduler -----------------------------
(***************************************************************************)
(* The K3 schedulers of one fleet, a thread per rank (pegainfer-k3         *)
(* scheduler/mod.rs): the step each of them repeats - serve the gang board *)
(* (CpGang), serve the whale lane (WhaleRendezvous), admit from its queue, *)
(* decode - and the launch counts that tie them together (LaunchClock).    *)
(* An engine arms one of the two lanes for long prompts.  The gang is that *)
(* of one process; the ranks of the others serve short prompts and local   *)
(* prefills here.                                                          *)
(*                                                                         *)
(* Abstractions.  A request is its rank and its class: long enough for the *)
(* armed lane, or long to its poster but not to the sequencer (a misfit),  *)
(* short, or answered without a slot (refused, or nothing to generate).    *)
(* Tokens are left out, so that a decode step may finish any of the        *)
(* running requests (a failed step finishes all of them). Slots are        *)
(* counted. A local prefill takes 1 .. MaxBurst launches, queued at once   *)
(* before its one sync.                                                    *)
(*                                                                         *)
(* Bounds.  An idle rank launches for ever; here it stops at MaxLaunch     *)
(* unless a peer is ahead of it or it has something to do (MayStep).       *)
(* CommitLag is the transport's part of the rendezvous: a member takes     *)
(* less than that many launches between the last reply and the commit.     *)
(***************************************************************************)
EXTENDS CpGang, WhaleRendezvous

CONSTANTS Home,            \* request -> the rank it is submitted to
          Classes,         \* request -> the classes it may be of
          Processes,       \* what the ranks of the process with the gang may be
          GangWidth,       \* width of the gang of a long prompt
          Abortable,       \* requests whose client may give up
          MaxBatch,        \* execution slots of a rank
          MaxBurst,        \* launches of a local prefill
          MaxLaunch,       \* idle launches
          CommitLag        \* launches that the commit round trip takes

ASSUME K3Assumption ==
    /\ Home \in [Requests -> Ranks]
    /\ Classes \in [Requests -> SUBSET {"long", "misfit", "short", "verdict"}]
    /\ Processes \subseteq SUBSET Ranks
    /\ GangWidth \in 2 .. World
    /\ Abortable \subseteq Requests
    /\ {MaxBatch, MaxBurst, CommitLag} \subseteq Nat \ {0}
    /\ MaxLaunch \in Nat

VARIABLES class,           \* request -> "long", "misfit", "short" or "verdict"
          lane,            \* the lane for long prompts: "cp" or "whale"
          unsent,          \* requests that their client has not submitted
          queued,          \* rank -> K3Scheduler::queued
          posted,          \* rank -> WhaleLane::posted, or None
          postedSeq,       \* rank -> PostedWhale::seq of it
          fallback,        \* rank -> WhaleLane::fallback, or None
          prefilling,      \* rank -> the request its prefill is for, or None
          running,         \* rank -> K3Scheduler::running
          free,            \* rank -> how many free_slots it has
          aborted,         \* requests whose client gave up
          answered,        \* requests with a terminal, or retired
          ran              \* request -> rank -> launch of its whale superstep

whales == <<posted, postedSeq, fallback>>
slots == <<running, free, prefilling, answered>>
clients == <<class, lane, unsent, queued, aborted>>
jobs == <<local, id, nextId, horizon, now, entries, entered, executed>>
vars == <<gang, rendezvous, clients, whales, slots, ran>>

Init ==
    /\ lane \in {"cp", "whale"}
    /\ local \in IF lane = "cp" THEN Processes ELSE {{}}
    /\ at = [r \in Ranks |-> "step"]
    /\ GangInit
    /\ RendezvousInit
    /\ class \in {f \in [Requests -> UNION {Classes[q] : q \in Requests}] :
                    \A q \in Requests : f[q] \in Classes[q]}
    /\ width = [q \in Requests |-> IF class[q] = "long" THEN GangWidth ELSE 0]
    /\ unsent = Requests
    /\ queued = [r \in Ranks |-> <<>>]
    /\ posted = [r \in Ranks |-> None]
    /\ postedSeq = [r \in Ranks |-> None]
    /\ fallback = [r \in Ranks |-> None]
    /\ prefilling = [r \in Ranks |-> None]
    /\ running = [r \in Ranks |-> {}]
    /\ free = [r \in Ranks |-> MaxBatch]
    /\ aborted = {}
    /\ answered = {}
    /\ ran = [q \in Requests |-> [r \in Ranks |-> None]]

\* submit, which the driver calls between two steps.
Submit(q) ==
    LET r == Home[q] IN
    /\ q \in unsent
    /\ at[r] = "step"
    /\ unsent' = unsent \ {q}
    /\ queued' = [queued EXCEPT ![r] = Append(@, q)]
    /\ UNCHANGED <<gang, rendezvous, class, lane, aborted, whales, slots, ran>>

Abort(q) ==
    /\ q \in Abortable \ (unsent \cup aborted \cup answered)
    /\ aborted' = aborted \cup {q}
    /\ UNCHANGED <<gang, rendezvous, class, lane, unsent, queued, whales, slots, ran>>

\* release_slot, and a terminal or a silent retirement for its request.
Release(r, q) ==
    /\ free' = [free EXCEPT ![r] = @ + 1]
    /\ answered' = answered \cup {q}

\* commit_first_token: finished on the spot, or seated.  A local prefill
\* that failed answers its request like one that finished.
FirstToken(r, q) ==
    /\ prefilling' = [prefilling EXCEPT ![r] = None]
    /\ \/ Release(r, q) /\ UNCHANGED running
       \/ /\ running' = [running EXCEPT ![r] = @ \cup {q}]
          /\ UNCHANGED <<free, answered>>

Goto(r, to) ==
    /\ at' = [at EXCEPT ![r] = to]
    /\ UNCHANGED <<count, jobs>>

\* A commit reaches r within CommitLag launches of the last reply.
InTime(r) ==
    \A m \in ToSet(mailbox[r]) :
        m.kind = "commit" => count[r] < m.launch - Slack + CommitLag

WhaleEligible(q) == lane = "whale" /\ class[q] \in {"long", "misfit"}
CpEligible(q) == lane = "cp" /\ class[q] = "long" /\ Home[q] \in local
Outstanding(r) == posted[r] # None \/ fallback[r] # None

\* The head of the queue has an answer to get or a slot to take.
Admissible(r) ==
    LET q == Head(queued[r]) IN
    /\ queued[r] # <<>> /\ free[r] > 0
    /\ \/ q \in aborted \/ class[q] = "verdict"
       \/ IF WhaleEligible(q) THEN ~Outstanding(r) ELSE IsQuiet(r)

MayStep(r) ==
    \/ count[r] < MaxLaunch
    \/ \E s \in Ranks : count[s] > count[r]
    \/ committed[r] # <<>>
    \/ fallback[r] # None /\ IsQuiet(r)
    \/ Admissible(r)

\* serve_gang, at the top of a step.
ServeGang(r) ==
    /\ at[r] = "step"
    /\ lane = "cp"
    /\ \/ Serve(r)
       \/ /\ r \in local => \A q \in Requests : ~OnBoard(q)
          /\ MayStep(r)
          /\ Goto(r, "admit")
    /\ UNCHANGED <<rendezvous, clients, whales, slots, ran>>

\* Any cancel is taken for the refusal of a post that has not been gathered.
TrackOwnPost_AnyCancel(r, m) ==
    \/ /\ m.kind = "gather" /\ m.poster = r /\ posted[r] = m.request
       /\ postedSeq' = [postedSeq EXCEPT ![r] = m.seq]
       /\ UNCHANGED <<posted, fallback>>
    \/ /\ m.kind = "cancel" /\ posted[r] # None
       /\ postedSeq[r] \in {m.seq, None}
       /\ fallback' = [fallback EXCEPT ![r] = posted[r]]
       /\ posted' = [posted EXCEPT ![r] = None]
       /\ postedSeq' = [postedSeq EXCEPT ![r] = None]
    \/ /\ ~(m.kind = "gather" /\ m.poster = r /\ posted[r] = m.request)
       /\ ~(m.kind = "cancel" /\ posted[r] # None /\ postedSeq[r] \in {m.seq, None})
       /\ UNCHANGED whales

\* A cancel is for the post of r: its sequence, or the refusal of a post
\* that was not gathered.
Refuses(r, m) ==
    /\ m.kind = "cancel"
    /\ posted[r] # None
    /\ postedSeq[r] = m.seq \/ (postedSeq[r] = None /\ ~IsArmed(r, m.seq))

TrackOwnPost(r, m) ==
    LET own == m.kind = "gather" /\ m.poster = r /\ posted[r] = m.request IN
    \/ /\ own
       /\ postedSeq' = [postedSeq EXCEPT ![r] = m.seq]
       /\ UNCHANGED <<posted, fallback>>
    \/ /\ Refuses(r, m)
       /\ fallback' = [fallback EXCEPT ![r] = posted[r]]
       /\ posted' = [posted EXCEPT ![r] = None]
       /\ postedSeq' = [postedSeq EXCEPT ![r] = None]
    \/ /\ ~own /\ ~Refuses(r, m)
       /\ UNCHANGED whales

\* One message of the drain in serve_whale_lane.
Drain(r) ==
    /\ at[r] = "step"
    /\ mailbox[r] # <<>>
    /\ TrackOwnPost(r, Head(mailbox[r]))
    /\ MemberReceives(r)
    /\ UNCHANGED <<gang, clients, slots, ran>>

\* enter_whale, up to the superstep's sync.
EnterWhale(r) ==
    LET w == Head(committed[r]).whale IN
    /\ AtLaunch(r)
    /\ committed' = [committed EXCEPT ![r] = Tail(@)]
    /\ fault' = (w.poster = r /\ posted[r] # w.request)
    /\ ran' = [ran EXCEPT ![w.request][r] = count[r]]
    /\ Launch(r, 1, "whale")
    /\ IF w.poster = r
       THEN /\ posted' = [posted EXCEPT ![r] = None]
            /\ postedSeq' = [postedSeq EXCEPT ![r] = None]
            /\ prefilling' = [prefilling EXCEPT ![r] = w.request]
       ELSE UNCHANGED <<posted, postedSeq, prefilling>>
    /\ UNCHANGED <<jobs, width, sequencer, mailbox, armed, fallback, running, free, answered>>

\* run_whale_fallback, up to the prefill's sync.
RunFallback(r) ==
    LET q == fallback[r] IN
    /\ fallback' = [fallback EXCEPT ![r] = None]
    /\ \/ /\ q \in aborted
          /\ Release(r, q)
          /\ Goto(r, "admit")
          /\ UNCHANGED <<prefilling, running>>
       \/ /\ q \notin aborted
          /\ \E n \in 1 .. MaxBurst : Launch(r, n, "prefill")
          /\ prefilling' = [prefilling EXCEPT ![r] = q]
          /\ UNCHANGED <<jobs, running, free, answered>>
    /\ UNCHANGED <<posted, postedSeq, rendezvous, ran>>

\* The launch boundary of serve_whale_lane.
Consult(r) ==
    /\ at[r] = "step"
    /\ lane = "whale"
    /\ InTime(r)
    /\ MayStep(r)
    /\ \/ EnterWhale(r)
       \/ ~AtLaunch(r) /\ IsQuiet(r) /\ fallback[r] # None /\ RunFallback(r)
       \/ /\ ~AtLaunch(r) /\ ~(IsQuiet(r) /\ fallback[r] # None)
          /\ fault' = Overshot(r)
          /\ Goto(r, "admit")
          /\ UNCHANGED <<width, sequencer, mailbox, armed, committed, whales, slots, ran>>
    /\ UNCHANGED clients

\* The superstep ends once the whole gang is in it; then the rest of
\* enter_whale on the poster.
WhaleDone(r) ==
    LET q == CHOOSE p \in Requests : ran[p][r] = count[r] - 1
        poster == Home[q] = r
    IN  /\ at[r] = "whale"
        /\ Paired(r)
        /\ \A s \in Gang(Home[q], width[q]) : ran[q][s] = ran[q][r]
        /\ Goto(r, "step")
        /\ \/ /\ poster /\ q \in aborted
              /\ Release(r, q)
              /\ prefilling' = [prefilling EXCEPT ![r] = None]
              /\ UNCHANGED running
           \/ poster /\ q \notin aborted /\ FirstToken(r, q)
           \/ ~poster /\ UNCHANGED slots
        /\ UNCHANGED <<rendezvous, clients, whales, ran>>

\* The way out of the gang does not look for jobs still to be run.
PrefillDone_Early(r) ==
    /\ Goto(r, "admit")
    /\ \/ /\ at[r] = "prefill"
          /\ Paired(r)
          /\ FirstToken(r, prefilling[r])
       \/ /\ at[r] = "jobs"
          /\ IF prefilling[r] # None THEN FirstToken(r, prefilling[r]) ELSE UNCHANGED slots
    /\ UNCHANGED <<rendezvous, clients, whales, ran>>

\* A local prefill, or the gang's, is over: its first token.
PrefillDone(r) ==
    /\ \/ /\ at[r] = "prefill"
          /\ Paired(r)
          /\ Goto(r, "admit")
          /\ FirstToken(r, prefilling[r])
       \/ /\ Return(r, "admit")
          /\ IF prefilling[r] # None THEN FirstToken(r, prefilling[r]) ELSE UNCHANGED slots
    /\ UNCHANGED <<rendezvous, clients, whales, ran>>

\* A retired request keeps its slot.
Decode_KeepsSlot(r) ==
    LET gone == running[r] \cap aborted IN
    /\ running' = [running EXCEPT ![r] = @ \ gone]
    /\ answered' = answered \cup gone
    /\ Launch(r, 1, "decoding")
    /\ UNCHANGED <<jobs, free, prefilling>>

\* decode_running: retires what was aborted and launches, requests or not.
Decode(r) ==
    LET gone == running[r] \cap aborted IN
    /\ running' = [running EXCEPT ![r] = @ \ gone]
    /\ free' = [free EXCEPT ![r] = @ + Cardinality(gone)]
    /\ answered' = answered \cup gone
    /\ Launch(r, 1, "decoding")
    /\ UNCHANGED <<jobs, prefilling>>

\* One turn of admit_queued: the head of the queue is answered, takes a
\* slot, or waits and ends the pass, which the decode step follows.
Admit(r) ==
    LET q == Head(queued[r])
        Pop == queued' = [queued EXCEPT ![r] = Tail(@)]
        TakeSlot == free' = [free EXCEPT ![r] = @ - 1]
        Verdict == q \in aborted \/ class[q] = "verdict"
        Waits == IF free[r] = 0 \/ queued[r] = <<>> THEN TRUE
                 ELSE ~Verdict /\ IF WhaleEligible(q) THEN Outstanding(r) ELSE ~IsQuiet(r)
    IN
    /\ at[r] = "admit"
    /\ \/ /\ Waits
          /\ Decode(r)
          /\ UNCHANGED <<queued, rendezvous, whales>>
       \/ /\ ~Waits
          /\ Pop
          /\ \/ /\ Verdict
                /\ answered' = answered \cup {q}
                /\ UNCHANGED <<gang, rendezvous, whales, running, free, prefilling>>
             \/ /\ ~Verdict /\ WhaleEligible(q)
                /\ TakeSlot
                /\ OnRequest(r, q)
                /\ posted' = [posted EXCEPT ![r] = q]
                /\ UNCHANGED <<gang, postedSeq, fallback, running, prefilling, answered>>
             \/ /\ ~Verdict /\ CpEligible(q)
                /\ TakeSlot
                /\ Post(r, q)
                /\ prefilling' = [prefilling EXCEPT ![r] = q]
                /\ UNCHANGED <<rendezvous, whales, running, answered>>
             \/ /\ ~Verdict /\ ~WhaleEligible(q) /\ ~CpEligible(q)
                /\ TakeSlot
                /\ \E n \in 1 .. MaxBurst : Launch(r, n, "prefill")
                /\ prefilling' = [prefilling EXCEPT ![r] = q]
                /\ UNCHANGED <<jobs, rendezvous, whales, running, answered>>
    /\ UNCHANGED <<class, lane, unsent, aborted, ran>>

Decoded(r) ==
    /\ at[r] = "decoding"
    /\ Paired(r)
    /\ \E ended \in SUBSET running[r] :
         /\ running' = [running EXCEPT ![r] = @ \ ended]
         /\ free' = [free EXCEPT ![r] = @ + Cardinality(ended)]
         /\ answered' = answered \cup ended
    /\ Goto(r, "step")
    /\ UNCHANGED <<rendezvous, clients, whales, prefilling, ran>>

InGang(r) ==
    /\ RunJobs(r)
    /\ UNCHANGED <<rendezvous, clients, whales, slots, ran>>

Step(r) ==
    ServeGang(r) \/ InGang(r) \/ Consult(r) \/ WhaleDone(r) \/ PrefillDone(r)
    \/ Admit(r) \/ Decoded(r)

Timeout == GatherTimeout /\ UNCHANGED <<gang, clients, whales, slots, ran>>

Next ==
    /\ ~fault
    /\ \/ \E q \in Requests : Submit(q) \/ Abort(q)
       \/ \E r \in Ranks : Step(r) \/ Drain(r)
       \/ Timeout

Spec == Init /\ [][Next]_vars

-----------------------------------------------------------------------------

GangOf(q) == Gang(Home[q], width[q])

(***************************************************************************)
(* No ensure! of the rendezvous fails: commits reach their members before  *)
(* the launch they name and in increasing order, no member misses its      *)
(* launch, and a whale answers the request its poster has outstanding.     *)
(***************************************************************************)
NoFault == ~fault

(***************************************************************************)
(* A whale's superstep is unanimous: the ranks that ran it are of its gang *)
(* and ran it at one launch, and a member that has not run it yet is not   *)
(* past that launch.                                                       *)
(***************************************************************************)
WhaleUnanimous ==
    \A q \in Requests : \A r \in Ranks :
        ran[q][r] # None =>
            /\ r \in GangOf(q)
            /\ \A s \in GangOf(q) : ran[q][s] = ran[q][r]
                                    \/ (ran[q][s] = None /\ count[s] <= ran[q][r])

(***************************************************************************)
(* A post falls back to a local prefill only when its whale will not run:  *)
(* no rank has run it or is committed to it, and nobody gathers it.  A     *)
(* cancel of someone else's whale must not be taken for the refusal of a   *)
(* post that has not been gathered yet.                                    *)
(***************************************************************************)
FallbackIsFinal ==
    \A r \in Ranks : LET q == fallback[r] IN
        q # None =>
            /\ \A s \in Ranks : ran[q][s] = None
            /\ \A s \in Ranks : \A c \in ToSet(committed[s]) : c.whale.request # q
            /\ sequencer.gathering.request # q
            /\ \A i \in DOMAIN sequencer.queue : sequencer.queue[i].request # q

(***************************************************************************)
(* Slots are conserved: each is free or reserved for one request that is   *)
(* posted, fell back, is prefilled or runs, and no request has two.        *)
(***************************************************************************)
SlotsConserved ==
    \A r \in Ranks :
        LET held == {posted[r], fallback[r], prefilling[r]} \ {None}
            one(x) == IF x = None THEN 0 ELSE 1
        IN  /\ free[r] + Cardinality(running[r])
                 + one(posted[r]) + one(fallback[r]) + one(prefilling[r]) = MaxBatch
            /\ Cardinality(held) = one(posted[r]) + one(fallback[r]) + one(prefilling[r])
            /\ held \cap (running[r] \cup answered) = {}

(***************************************************************************)
(* Nobody waits for ever.  The ranks come to a stop, all idle ones at      *)
(* MaxLaunch, only with every step over, every posted whale run or fallen  *)
(* back and prefilled, and every gang job run by every rank: no rank waits *)
(* in a superstep for a member that is not coming, for a launch that no    *)
(* peer queues, or for an answer that nobody sends.                        *)
(***************************************************************************)
Halted == \A r \in Ranks : ~ENABLED (Step(r) \/ Drain(r))

NothingLeftBehind ==
    Halted =>
        /\ \A r \in Ranks : at[r] = "step" /\ mailbox[r] = <<>> /\ IsQuiet(r)
        /\ \A r \in Ranks : ~Outstanding(r) /\ prefilling[r] = None
        /\ \A q \in Requests : ~OnBoard(q)
=============================================================================
