--------------------------- MODULE WhaleRendezvous ---------------------------
(***************************************************************************)
(* The rendezvous that gathers a gang of ranks across processes for one    *)
(* long prefill (pegainfer-k3 scheduler/whale.rs over whale_hub.rs): one   *)
(* sequencer, a member on every rank, and the transport between them.      *)
(*                                                                         *)
(* The links are reliable and keep the order of each rank's messages.  The *)
(* sequencer handles a message when it is sent; all the delay of a round   *)
(* trip is on the way back, where a message waits in the mailbox of its    *)
(* member for as long as it likes.  A broken link ends the engine and is   *)
(* not modelled.  A descriptor's prompt and its hash, and the order of its *)
(* gang, are left out.                                                     *)
(* width[q] is what k3_whale_width gives for the prompt of q, 0 for None.  *)
(* `fault' is set where the code's ensure! or bail! stops the engine.      *)
(***************************************************************************)
EXTENDS LaunchClock, Sequences, SequencesExt, FiniteSetsExt

CONSTANT Slack             \* K3_WHALE_COMMIT_SLACK

ASSUME WhaleAssumption == Slack \in Nat \ {0}

VARIABLES width,           \* request -> the gang width its prompt admits, or 0
          sequencer,       \* WhaleSequencer
          mailbox,         \* rank -> messages on their way to its member
          armed,           \* rank -> WhaleMember::armed
          committed,       \* rank -> WhaleMember::committed
          fault            \* some ensure! failed

rendezvous == <<width, sequencer, mailbox, armed, committed, fault>>

Tray == 4

\* k3_whale_gang: the block of ranks around the poster.
Gang(poster, size) ==
    LET first == IF size >= Tray THEN (poster \div Tray) * Tray ELSE poster
        start == Min({first, World - size})
    IN  start .. start + size - 1

NoGather == [seq |-> None, request |-> None, poster |-> None, gang |-> {}, replies |-> <<>>]

RendezvousInit ==
    /\ sequencer = [next |-> 0, floor |-> None, gathering |-> NoGather, queue |-> <<>>]
    /\ mailbox = [r \in Ranks |-> <<>>]
    /\ armed = [r \in Ranks |-> <<>>]
    /\ committed = [r \in Ranks |-> <<>>]
    /\ fault = FALSE

\* The mailboxes `boxes' with the messages `out' appended where they are for.
Delivered(boxes, out) ==
    [r \in Ranks |->
        LET mine == SelectSeq(out, LAMBDA o : r \in o.to)
        IN  boxes[r] \o [i \in DOMAIN mine |-> mine[i].message]]

Gather(d) == [kind |-> "gather", seq |-> d.seq, request |-> d.request, poster |-> d.poster, gang |-> d.gang]
CommitAt(seq, launch) == [kind |-> "commit", seq |-> seq, launch |-> launch]
Cancel(seq) == [kind |-> "cancel", seq |-> seq]

\* start_next_gather, when nothing is gathered: cancels the queued whales that
\* no width admits, up to the first that one does, which it gathers.  Its
\* messages follow `out'.
StartNextGather(s, boxes, out) ==
    LET fits == {i \in DOMAIN s.queue : width[s.queue[i].request] # 0}
        first == IF fits = {} THEN Len(s.queue) + 1 ELSE Min(fits)
        refused == [i \in 1 .. first - 1 |->
                       [to |-> {s.queue[i].poster}, message |-> Cancel(s.next + i - 1)]]
    IN  IF fits = {}
        THEN /\ sequencer' = [s EXCEPT !.queue = <<>>, !.next = @ + Len(s.queue)]
             /\ mailbox' = Delivered(boxes, out \o refused)
        ELSE LET q == s.queue[first]
                 members == Gang(q.poster, width[q.request])
                 d == [seq |-> s.next + first - 1, request |-> q.request, poster |-> q.poster,
                       gang |-> members, replies |-> [r \in members |-> None]]
             IN  /\ sequencer' = [s EXCEPT !.queue = SubSeq(@, first + 1, Len(@)),
                                           !.next = @ + first,
                                           !.gathering = d]
                 /\ mailbox' = Delivered(boxes, out \o refused \o <<[to |-> members, message |-> Gather(d)]>>)

\* The launch the gang meets at: after every reply, and after the last whale's.
CommitLaunch(s, replies) ==
    Max({Max(Range(replies)) + Slack, IF s.floor = None THEN 0 ELSE s.floor + 1})

\* try_commit, after the reply of a member was recorded in `replies'.
TryCommit(replies, boxes) ==
    LET g == sequencer.gathering
        launch == CommitLaunch(sequencer, replies)
    IN  IF None \in Range(replies)
        THEN /\ sequencer' = [sequencer EXCEPT !.gathering = [g EXCEPT !.replies = replies]]
             /\ mailbox' = boxes
        ELSE StartNextGather([sequencer EXCEPT !.gathering = NoGather, !.floor = launch], boxes,
                             <<[to |-> g.gang, message |-> CommitAt(g.seq, launch)]>>)

\* WhaleSequencer::on_message with a Request of rank r for q.
OnRequest(r, q) ==
    /\ LET s == [sequencer EXCEPT !.queue = Append(@, [request |-> q, poster |-> r])]
       IN  IF s.gathering = NoGather
           THEN StartNextGather(s, mailbox, <<>>)
           ELSE sequencer' = s /\ UNCHANGED mailbox
    /\ UNCHANGED <<width, armed, committed, fault>>

\* ... and with the Ready of rank r, a stale one included.
OnReady(r, seq, boxes) ==
    LET g == sequencer.gathering IN
    \/ /\ seq # g.seq
       /\ mailbox' = boxes
       /\ UNCHANGED <<sequencer, fault>>
    \/ /\ seq = g.seq
       /\ fault' = (r \notin g.gang \/ g.replies[r] # None)
       /\ TryCommit([g.replies EXCEPT ![r] = count[r]], boxes)

\* The timeout leaves the whales queued behind the cancelled one alone.
GatherTimeout_NoRestart ==
    LET g == sequencer.gathering
    IN  /\ g # NoGather
        /\ sequencer' = [sequencer EXCEPT !.gathering = NoGather]
        /\ mailbox' = Delivered(mailbox, <<[to |-> g.gang, message |-> Cancel(g.seq)]>>)
        /\ UNCHANGED <<width, armed, committed, fault>>

\* on_gather_timeout.  The deadline is real time: it may pass at any point.
GatherTimeout ==
    LET g == sequencer.gathering
    IN  /\ g # NoGather
        /\ StartNextGather([sequencer EXCEPT !.gathering = NoGather], mailbox,
                           <<[to |-> g.gang, message |-> Cancel(g.seq)]>>)
        /\ UNCHANGED <<width, armed, committed, fault>>

IsArmed(r, seq) == \E i \in DOMAIN armed[r] : armed[r][i].seq = seq

\* A member that only waits for a commit counts as quiet.
IsQuiet_Armed(r) == committed[r] = <<>>

IsQuiet(r) == armed[r] = <<>> /\ committed[r] = <<>>

Disarmed(r, seq) == SelectSeq(armed[r], LAMBDA d : d.seq # seq)

\* WhaleMember::on_message with the next message of its mailbox.
MemberReceives(r) ==
    LET m == Head(mailbox[r])
        boxes == [mailbox EXCEPT ![r] = Tail(@)]
        mine == SelectSeq(armed[r], LAMBDA d : d.seq = m.seq)
        late == m.launch <= count[r]
        follows == committed[r] = <<>> \/ m.launch > Last(committed[r]).launch
    IN
    /\ UNCHANGED width
    /\ \/ /\ m.kind = "gather"
          /\ armed' = [armed EXCEPT ![r] = Append(@,
                 [seq |-> m.seq, request |-> m.request, poster |-> m.poster, gang |-> m.gang])]
          /\ OnReady(r, m.seq, boxes)
          /\ UNCHANGED committed
       \/ /\ m.kind = "commit"
          /\ armed' = [armed EXCEPT ![r] = Disarmed(r, m.seq)]
          /\ committed' = [committed EXCEPT ![r] =
                 @ \o [i \in DOMAIN mine |-> [whale |-> mine[i], launch |-> m.launch]]]
          /\ fault' = (mine = <<>> \/ late \/ ~follows)
          /\ mailbox' = boxes
          /\ UNCHANGED sequencer
       \/ /\ m.kind = "cancel"
          /\ armed' = [armed EXCEPT ![r] = Disarmed(r, m.seq)]
          /\ mailbox' = boxes
          /\ UNCHANGED <<sequencer, committed, fault>>

\* A commit is taken as leave to enter at once.
AtLaunch_Eager(r) == committed[r] # <<>>

\* at_launch: the committed whale of this launch, if there is one.
AtLaunch(r) == committed[r] # <<>> /\ Head(committed[r]).launch = count[r]

\* ... and the launch it is for has not gone by.
Overshot(r) == committed[r] # <<>> /\ Head(committed[r]).launch < count[r]
=============================================================================
