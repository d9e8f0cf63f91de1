------------------------ MODULE EngineContractProofs ------------------------
(***************************************************************************)
(* Proofs about EngineContract, for any set of requests of any length: who *)
(* owes an answer, and that tokens and answers add up.                     *)
(***************************************************************************)
EXTENDS EngineContract, TLAPS

(* The provers to try, in this order. *)
USE SMTT(20), ZenonT(20), SMTT(60)

Terminals == [kind : {"none", "finished", "failed", "rejected"}, count : Nat]
Updates == [scheduled : BOOLEAN, tokens : Seq(Nat), terminal : Terminals]
Messages == UNION {[R -> Updates] : R \in SUBSET Requests}

LedgerOK ==
    /\ account \in [Requests -> {"none", "queued", "active", "closed"}]
    /\ tally \in [Requests -> Nat]
    /\ statement \in [Requests -> Updates]
    /\ deferred \in [Requests -> Updates]

ChannelsOK == submissions \in Seq(Requests) /\ steps \in Seq(Messages)

BridgeOK ==
    /\ bridge \in Requests \cup {"loop", "down"}
    /\ stream \in [Requests -> {"new", "open", "finished", "aborted"}]
    /\ got \in [Requests -> Seq(Nat)]
    /\ answer \in [Requests -> Terminals]

TypeOK ==
    /\ LedgerOK /\ ChannelsOK /\ BridgeOK
    /\ driver \in {"drain", "step", "exited"}
    /\ lost \in SUBSET Requests

(* The stages of a request: the bridge opens one stream at a time, and a   *)
(* stream ends with an answer; a deferred update is a finish; what a       *)
(* closed account has in the statement ends with a terminal.               *)
Stages ==
    /\ driver # "exited" => lost = {}
    /\ \A r \in Requests :
          /\ bridge = r => stream[r] = "new"
          /\ stream[r] = "finished" => answer[r] # None
          /\ Vacant(deferred[r]) \/ deferred[r].terminal.kind = "finished"
          /\ ~Open(r) => Vacant(statement[r]) \/ statement[r].terminal # None
          /\ driver = "exited" => ~Open(r) /\ Vacant(statement[r]) /\ Envelopes(r) = {}
          /\ ~Submitted(r) => account[r] = "none"

(* The parties, and when each of them owes r its answer. *)
Parties == {"envelope", "message", "account", "statement", "deferred", "answer", "lost"}

Owes(d, r) ==
    \/ d = "envelope" /\ Envelopes(r) # {}
    \/ d = "message" /\ Ends(steps, r) # {}
    \/ d = "account" /\ Open(r)
    \/ d = "statement" /\ statement[r].terminal # None
    \/ d = "deferred" /\ ~Vacant(deferred[r])
    \/ d = "answer" /\ answer[r] # None
    \/ d = "lost" /\ r \in lost

Once(S) == \A i, j \in S : i = j

(* At most one party owes, and once. *)
OwedOnce(r) ==
    /\ Once(Envelopes(r))
    /\ Once(Ends(steps, r))
    /\ Once({d \in Parties : Owes(d, r)})

(* Nobody owes before the submission, and somebody does after, unless the  *)
(* client gave up.                                                         *)
OwedWhile(r) ==
    /\ ~Submitted(r) => \A d \in Parties : ~Owes(d, r)
    /\ Submitted(r) /\ stream[r] # "aborted" => \E d \in Parties : Owes(d, r)

Debts == Stages /\ \A r \in Requests : OwedOnce(r) /\ OwedWhile(r)

(* The inductive invariant of the debt; it says nothing once the bridge is *)
(* down and messages fall on the floor.                                    *)
DebtInv == bridge # "down" => Debts

-----------------------------------------------------------------------------
(* Messages. *)
LEMMA EmptyUpdate ==
    /\ Empty \in Updates /\ Empty.terminal = None /\ Empty.tokens = <<>>
    /\ None \in Terminals
BY DEF Empty, None, Updates, Terminals

LEMMA EndingUpdate ==
    ASSUME NEW u \in Updates, NEW t \in Terminals
    PROVE  /\ [u EXCEPT !.terminal = t] \in Updates
           /\ [u EXCEPT !.terminal = t].terminal = t
           /\ [u EXCEPT !.terminal = t].tokens = u.tokens
BY Zenon DEF Updates

LEMMA AnsweringUpdate ==
    ASSUME NEW kind \in {"finished", "failed", "rejected"}, NEW count \in Nat
    PROVE  /\ Terminal(kind, count) \in Terminals /\ Terminal(kind, count) # None
           /\ Answering(kind, count) \in Updates
           /\ Answering(kind, count).terminal = Terminal(kind, count)
           /\ Answering(kind, count).tokens = <<>>
<1>1. Terminal(kind, count) \in Terminals /\ Terminal(kind, count) # None
  BY Zenon DEF Terminal, None, Terminals
<1> QED BY <1>1, EmptyUpdate, EndingUpdate, Zenon DEF Answering

LEMMA IsMessage ==
    ASSUME NEW R \in SUBSET Requests, NEW f \in [R -> Updates]
    PROVE  f \in Messages
BY Zenon DEF Messages

LEMMA EndsOne ==
    ASSUME NEW m, NEW q
    PROVE  Ends(<<m>>, q) = IF q \in DOMAIN m /\ m[q].terminal # None THEN {1} ELSE {}
BY DEF Ends

LEMMA OnlyMessage ==
    ASSUME NEW r \in Requests, NEW update \in Updates
    PROVE  /\ Only(r, update) \in Messages
           /\ <<Only(r, update)>> \in Seq(Messages)
           /\ \A q \in Requests : Ends(<<Only(r, update)>>, q)
                 = IF q = r /\ update.terminal # None THEN {1} ELSE {}
<1>1. Only(r, update) \in Messages
  BY IsMessage, Zenon DEF Only
<1>2. <<Only(r, update)>> \in Seq(Messages)
  BY <1>1
<1>3. \A q \in Requests : Ends(<<Only(r, update)>>, q)
         = IF q = r /\ update.terminal # None THEN {1} ELSE {}
  BY DEF Ends, Only
<1> QED BY <1>1, <1>2, <1>3, Zenon

(* commit_step says what the statement holds. *)
LEMMA StatementMessage ==
    ASSUME LedgerOK
    PROVE  /\ Statement(statement) \in Seq(Messages)
           /\ \A q \in Requests : Ends(Statement(statement), q)
                 = IF statement[q].terminal # None THEN {1} ELSE {}
<1> DEFINE touched == {r \in Requests : ~Vacant(statement[r])}
           message == [r \in touched |-> statement[r]]
<1>1. Statement(statement) = IF touched = {} THEN <<>> ELSE <<message>>
  BY Zenon DEF Statement
<1>2. message \in Messages
  <2>1. touched \in SUBSET Requests /\ message \in [touched -> Updates]
    BY Zenon DEF LedgerOK
  <2> HIDE DEF touched, message
  <2> QED BY <2>1, IsMessage, Zenon
<1>3. \A q \in Requests : statement[q].terminal # None => q \in touched
  BY EmptyUpdate, Zenon DEF Vacant
<1>4. DOMAIN message = touched /\ \A q \in touched : message[q] = statement[q]
  BY Zenon
<1>5. touched \subseteq Requests
  BY Zenon
<1> HIDE DEF touched, message
<1>6. CASE touched = {}
  BY <1>1, <1>3, <1>6 DEF Ends
<1>7. CASE touched # {}
  <2>1. <<message>> \in Seq(Messages)
    BY <1>2
  <2>2. \A q \in Requests : Ends(<<message>>, q)
           = IF statement[q].terminal # None THEN {1} ELSE {}
    BY <1>3, <1>4, EndsOne, ZenonT(30)
  <2> QED BY <1>1, <1>7, <2>1, <2>2, Zenon
<1> QED BY <1>6, <1>7, Zenon

(* fail_all answers whatever account is open. *)
LEMMA WriteOffMessage ==
    ASSUME LedgerOK
    PROVE  /\ WriteOff \in Seq(Messages)
           /\ \A q \in Requests : Ends(WriteOff, q) = IF Open(q) THEN {1} ELSE {}
<1> DEFINE open == {r \in Requests : Open(r)}
           message == [r \in open |-> Answering("failed", tally[r])]
<1>1. WriteOff = IF open = {} THEN <<>> ELSE <<message>>
  BY Zenon DEF WriteOff
<1>2. \A r \in Requests : Answering("failed", tally[r]) \in Updates
                          /\ Answering("failed", tally[r]).terminal # None
  BY AnsweringUpdate, Zenon DEF LedgerOK
<1>3. message \in Messages
  <2>1. open \in SUBSET Requests /\ message \in [open -> Updates]
    BY <1>2, Zenon
  <2> HIDE DEF open, message
  <2> QED BY <2>1, IsMessage, Zenon
<1>4. DOMAIN message = open /\ \A q \in open : message[q].terminal # None
  BY <1>2, Zenon
<1>5. \A q \in Requests : q \in open <=> Open(q)
  BY Zenon
<1> HIDE DEF open, message
<1>6. CASE open = {}
  BY <1>1, <1>5, <1>6 DEF Ends
<1>7. CASE open # {}
  <2>1. <<message>> \in Seq(Messages)
    BY <1>3
  <2>2. \A q \in Requests : Ends(<<message>>, q) = IF Open(q) THEN {1} ELSE {}
    BY <1>4, <1>5, EndsOne, Zenon
  <2> QED BY <1>1, <1>7, <2>1, <2>2, Zenon
<1> QED BY <1>6, <1>7, Zenon

(* Every envelope in the channel answers as it drops. *)
LEMMA BombsMessage ==
    ASSUME submissions \in Seq(Requests)
    PROVE  /\ Bombs \in Seq(Messages) /\ Len(Bombs) = Len(submissions)
           /\ \A q \in Requests : Ends(Bombs, q) = Envelopes(q)
<1> DEFINE bomb(r) == Only(r, Answering("failed", 0))
<1>1. \A r \in Requests : bomb(r) \in Messages /\ DOMAIN bomb(r) = {r}
                          /\ bomb(r)[r].terminal # None
  <2>1. Answering("failed", 0) \in Updates /\ Answering("failed", 0).terminal # None
    BY AnsweringUpdate, Zenon
  <2> QED BY <2>1, OnlyMessage, Zenon DEF Only
<1>2. Bombs = [i \in 1 .. Len(submissions) |-> bomb(submissions[i])]
  BY DEF Bombs
<1> HIDE DEF bomb
<1>3. Len(submissions) \in Nat /\ DOMAIN submissions = 1 .. Len(submissions)
      /\ \A i \in 1 .. Len(submissions) : submissions[i] \in Requests
  OBVIOUS
<1>4. Bombs \in [1 .. Len(submissions) -> Messages]
  BY <1>1, <1>2, <1>3, Zenon
<1>5. Bombs \in Seq(Messages) /\ Len(Bombs) = Len(submissions)
  BY <1>3, <1>4
<1>6. \A i \in 1 .. Len(submissions) :
         DOMAIN Bombs[i] = {submissions[i]} /\ Bombs[i][submissions[i]].terminal # None
  BY <1>1, <1>2, <1>3, Zenon
<1>7. ASSUME NEW q \in Requests PROVE Ends(Bombs, q) = Envelopes(q)
  BY <1>3, <1>4, <1>6, Zenon DEF Ends, Envelopes
<1> QED BY <1>5, <1>7, Zenon

(* What is sent comes last. *)
LEMMA EndsConcat ==
    ASSUME NEW s \in Seq(Messages), NEW m \in Seq(Messages), NEW q
    PROVE  /\ s \o m \in Seq(Messages) /\ Len(s \o m) = Len(s) + Len(m)
           /\ Ends(s \o m, q) = Ends(s, q) \cup {Len(s) + i : i \in Ends(m, q)}
<1>1. s \o m \in Seq(Messages) /\ Len(s \o m) = Len(s) + Len(m)
      /\ DOMAIN (s \o m) = 1 .. Len(s) + Len(m)
  OBVIOUS
<1>2. \A i \in DOMAIN s : (s \o m)[i] = s[i] /\ i \in DOMAIN (s \o m)
  OBVIOUS
<1>3. \A i \in DOMAIN m : (s \o m)[Len(s) + i] = m[i] /\ Len(s) + i \in DOMAIN (s \o m)
  OBVIOUS
<1>4. \A i \in DOMAIN (s \o m) : i \in DOMAIN s \/ (\E j \in DOMAIN m : i = Len(s) + j)
  <2> TAKE i \in DOMAIN (s \o m)
  <2>1. CASE i <= Len(s)
    BY <1>1, <2>1
  <2>2. CASE i > Len(s)
    <3>1. i - Len(s) \in DOMAIN m /\ i = Len(s) + (i - Len(s))
      BY <1>1, <2>2
    <3> QED BY <3>1, Zenon
  <2> QED BY <1>1, <2>1, <2>2
<1>5. Ends(s \o m, q) = Ends(s, q) \cup {Len(s) + i : i \in Ends(m, q)}
  <2>1. ASSUME NEW i \in Ends(s, q) PROVE i \in Ends(s \o m, q)
    BY <1>2, Zenon DEF Ends
  <2>2. ASSUME NEW i \in Ends(m, q) PROVE Len(s) + i \in Ends(s \o m, q)
    BY <1>3, Zenon DEF Ends
  <2>3. ASSUME NEW i \in Ends(s \o m, q)
        PROVE  i \in Ends(s, q) \/ \E j \in Ends(m, q) : i = Len(s) + j
    <3>1. CASE i \in DOMAIN s
      BY <1>2, <3>1, Zenon DEF Ends
    <3>2. CASE \E j \in DOMAIN m : i = Len(s) + j
      BY <1>3, <3>2, Zenon DEF Ends
    <3> QED BY <1>4, <3>1, <3>2, Zenon DEF Ends
  <2> QED BY <2>1, <2>2, <2>3, Zenon
<1> QED BY <1>1, <1>5, Zenon

LEMMA SendType ==
    ASSUME steps \in Seq(Messages), NEW m \in Seq(Messages), Send(m)
    PROVE  steps' \in Seq(Messages)
BY EndsConcat, Zenon DEF Send

-----------------------------------------------------------------------------
LEMMA InitType == Init => TypeOK
BY ContractAssumption, EmptyUpdate DEF Init, TypeOK, LedgerOK, ChannelsOK, BridgeOK

(* The bridge's steps. *)
LEMMA BridgeType ==
    ASSUME TypeOK,
           (\E r \in Requests : Submit(r) \/ OpenStream(r) \/ Abort(r)) \/ DispatchStep \/ Shutdown
    PROVE  TypeOK'
<1>1. ASSUME NEW r \in Requests, Submit(r) PROVE TypeOK'
  <2>1. LedgerOK' /\ driver' = driver /\ lost' = lost
    BY <1>1, Zenon DEF Submit, TypeOK, LedgerOK, books
  <2>2. BridgeOK'
    BY <1>1, Zenon DEF Submit, TypeOK, BridgeOK
  <2>3. <<Only(r, Answering("failed", 0))>> \in Seq(Messages)
    BY AnsweringUpdate, OnlyMessage, Zenon
  <2>4. ChannelsOK'
    <3>1. submissions \in Seq(Requests) /\ steps \in Seq(Messages)
      BY Zenon DEF TypeOK, ChannelsOK
    <3>2. CASE driver = "exited"
      BY <1>1, <2>3, <3>1, <3>2, SendType, Zenon DEF Submit, ChannelsOK
    <3>3. CASE driver # "exited"
      BY <1>1, <3>1, <3>3 DEF Submit, ChannelsOK
    <3> QED BY <3>2, <3>3, Zenon
  <2> QED BY <2>1, <2>2, <2>4, Zenon DEF TypeOK
<1>2. ASSUME NEW r \in Requests, OpenStream(r) \/ Abort(r) PROVE TypeOK'
  <2>1. LedgerOK' /\ ChannelsOK' /\ driver' = driver /\ lost' = lost
    BY <1>2, Zenon DEF OpenStream, Abort, TypeOK, LedgerOK, ChannelsOK, books
  <2>2. BridgeOK'
    BY <1>2, Zenon DEF OpenStream, Abort, TypeOK, BridgeOK
  <2> QED BY <2>1, <2>2, Zenon DEF TypeOK
<1>3. CASE DispatchStep
  <2>1. LedgerOK' /\ driver' = driver /\ lost' = lost
    BY <1>3, Zenon DEF DispatchStep, TypeOK, LedgerOK, books
  <2>2. ChannelsOK'
    BY <1>3 DEF DispatchStep, TypeOK, ChannelsOK
  <2>3. \A q \in DOMAIN Head(steps) : Head(steps)[q] \in Updates
    <3>1. Head(steps) \in Messages
      BY <1>3 DEF DispatchStep, TypeOK, ChannelsOK
    <3> QED BY <3>1, Zenon DEF Messages
  <2>4. \A q \in DOMAIN Head(steps) :
           Head(steps)[q].tokens \in Seq(Nat) /\ Head(steps)[q].terminal \in Terminals
    BY <2>3, Zenon DEF Updates
  <2>5. BridgeOK'
    <3>1. stream' \in [Requests -> {"new", "open", "finished", "aborted"}]
      BY <1>3, Zenon DEF DispatchStep, TypeOK, BridgeOK
    <3>2. answer' \in [Requests -> Terminals]
      BY <1>3, <2>4, Zenon DEF DispatchStep, TypeOK, BridgeOK
    <3>3. \A q \in DOMAIN Head(steps), s \in Seq(Nat) : s \o Head(steps)[q].tokens \in Seq(Nat)
      BY <2>4
    <3>4. got' \in [Requests -> Seq(Nat)]
      BY <1>3, <3>3, Zenon DEF DispatchStep, TypeOK, BridgeOK
    <3> QED BY <1>3, <3>1, <3>2, <3>4, Zenon DEF DispatchStep, TypeOK, BridgeOK
  <2> QED BY <2>1, <2>2, <2>5, Zenon DEF TypeOK
<1>4. CASE Shutdown
  <2>1. LedgerOK' /\ driver' = driver /\ lost' = lost
    BY <1>4, Zenon DEF Shutdown, TypeOK, LedgerOK, books
  <2>2. BridgeOK' /\ ChannelsOK'
    BY <1>4 DEF Shutdown, TypeOK, BridgeOK, ChannelsOK
  <2> QED BY <2>1, <2>2, Zenon DEF TypeOK
<1> QED BY <1>1, <1>2, <1>3, <1>4, Zenon

(* The scheduler's steps. *)
LEMMA SchedulerType ==
    ASSUME TypeOK, NEW r \in Requests,
           \/ Admit(r) \/ Reject(r) \/ PushTokens(r)
           \/ Finish(r) \/ Fail(r) \/ Retire(r) \/ DeferFinish(r)
    PROVE  TypeOK'
<1>1. ChannelsOK' /\ BridgeOK' /\ driver' = driver /\ lost' = lost
  BY DEF Admit, Reject, PushTokens, Finish, Fail, Retire, DeferFinish, fixed, client,
     TypeOK, ChannelsOK, BridgeOK
<1>2. statement[r] \in Updates /\ tally[r] \in Nat /\ deferred[r] \in Updates
  BY Zenon DEF TypeOK, LedgerOK
<1>3. account' \in [Requests -> {"none", "queued", "active", "closed"}]
  BY Zenon DEF Admit, Reject, PushTokens, Finish, Fail, Retire, DeferFinish, TypeOK, LedgerOK
<1>4. tally' \in [Requests -> Nat]
  BY <1>2 DEF Admit, Reject, PushTokens, Finish, Fail, Retire, DeferFinish, TypeOK, LedgerOK
<1>5. \A kind \in {"finished", "failed", "rejected"}, n \in Nat :
         [statement[r] EXCEPT !.terminal = Terminal(kind, n)] \in Updates
  BY <1>2, AnsweringUpdate, EndingUpdate, Zenon
<1>6. statement' \in [Requests -> Updates]
  <2>1. CASE Admit(r)
    <3>1. [statement[r] EXCEPT !.scheduled = TRUE] \in Updates
      BY <1>2, Zenon DEF Updates
    <3> QED BY <2>1, <3>1, Zenon DEF Admit, TypeOK, LedgerOK
  <2>2. CASE PushTokens(r)
    <3>1. tally'[r] \in Nat
      BY <1>4, Zenon
    <3>2. Append(statement[r].tokens, tally'[r]) \in Seq(Nat)
      BY <1>2, <3>1 DEF Updates
    <3>3. [statement[r] EXCEPT !.tokens = Append(statement[r].tokens, tally'[r])] \in Updates
      BY <1>2, <3>2, Zenon DEF Updates
    <3> QED BY <2>2, <3>3, Zenon DEF PushTokens, TypeOK, LedgerOK
  <2>3. CASE Reject(r) \/ Finish(r) \/ Fail(r)
    BY <1>2, <1>5, <2>3 DEF Reject, Finish, Fail, TypeOK, LedgerOK
  <2>4. CASE Retire(r) \/ DeferFinish(r)
    BY <2>4, EmptyUpdate, Zenon DEF Retire, DeferFinish, TypeOK, LedgerOK
  <2> QED BY <2>1, <2>2, <2>3, <2>4, Zenon
<1>7. deferred' \in [Requests -> Updates]
  <2>1. CASE DeferFinish(r)
    BY <1>2, <1>5, <2>1, Zenon DEF DeferFinish, TypeOK, LedgerOK
  <2>2. CASE ~DeferFinish(r)
    BY <2>2, Zenon DEF Admit, Reject, PushTokens, Finish, Fail, Retire, TypeOK, LedgerOK
  <2> QED BY <2>1, <2>2, Zenon
<1> QED BY <1>1, <1>3, <1>4, <1>6, <1>7, Zenon DEF TypeOK, LedgerOK

(* The driver's locals drop. *)
LEMMA DropType ==
    ASSUME TypeOK, NEW m \in Seq(Messages), Drop(m), lost' \in SUBSET Requests
    PROVE  TypeOK'
<1>1. LedgerOK'
  BY EmptyUpdate, Zenon DEF Drop, frontend, TypeOK, LedgerOK
<1>2. BridgeOK' /\ driver' \in {"drain", "step", "exited"}
  BY Zenon DEF Drop, frontend, client, TypeOK, BridgeOK
<1>3. Bombs \in Seq(Messages)
  BY BombsMessage, Zenon DEF TypeOK, ChannelsOK
<1>4. m \o Bombs \in Seq(Messages)
  BY <1>3, EndsConcat, Zenon
<1>5. ChannelsOK'
  <2>1. steps' \in Seq(Messages)
    BY <1>4, SendType, Zenon DEF Drop, TypeOK, ChannelsOK
  <2> QED BY <2>1 DEF Drop, ChannelsOK
<1> QED BY <1>1, <1>2, <1>5, Zenon DEF TypeOK

(* The driver's steps, and the delivery of a deferred finish. *)
LEMMA DriverType ==
    ASSUME TypeOK, Register \/ Drained \/ Commit \/ Fatal \/ Panic
    PROVE  TypeOK'
<1>1. Statement(statement) \in Seq(Messages) /\ WriteOff \in Seq(Messages)
  BY StatementMessage, WriteOffMessage, Zenon DEF TypeOK
<1>2. Statement(statement) \o WriteOff \in Seq(Messages)
  BY <1>1, EndsConcat, Zenon
<1>3. CASE Register
  BY <1>3 DEF Register, frontend, client, TypeOK, LedgerOK, ChannelsOK, BridgeOK
<1>4. CASE Drained
  BY <1>4, Zenon DEF Drained, frontend, client, books, TypeOK, LedgerOK, ChannelsOK, BridgeOK
<1>5. CASE Commit /\ Idle /\ ~submissionsOpen
  BY <1>1, <1>5, DropType, Zenon DEF Commit, TypeOK
<1>6. CASE Commit /\ ~(Idle /\ ~submissionsOpen)
  <2>1. ChannelsOK'
    BY <1>1, <1>6, SendType, Zenon DEF Commit, TypeOK, ChannelsOK
  <2>2. LedgerOK'
    BY <1>6, EmptyUpdate, Zenon DEF Commit, frontend, TypeOK, LedgerOK
  <2> QED BY <1>6, <2>1, <2>2, Zenon DEF Commit, frontend, client, TypeOK, BridgeOK
<1>7. CASE Fatal
  BY <1>2, <1>7, DropType, Zenon DEF Fatal, TypeOK
<1>8. CASE Panic
  BY <1>1, <1>8, DropType, Zenon DEF Panic
<1> QED BY <1>3, <1>4, <1>5, <1>6, <1>7, <1>8, Zenon

LEMMA DeliverType ==
    ASSUME TypeOK, NEW r \in Requests, NEW kind \in {"finished", "failed"}, Deliver(r, kind)
    PROVE  TypeOK'
<1>1. [deferred[r] EXCEPT !.terminal.kind = kind] \in Updates
  <2>1. deferred[r] \in Updates
    BY Zenon DEF TypeOK, LedgerOK
  <2>2. [deferred[r].terminal EXCEPT !.kind = kind] \in Terminals
    BY <2>1, Zenon DEF Updates, Terminals
  <2> QED BY <2>1, <2>2, EndingUpdate, Zenon
<1>2. <<Only(r, [deferred[r] EXCEPT !.terminal.kind = kind])>> \in Seq(Messages)
  BY <1>1, OnlyMessage, Zenon
<1>3. ChannelsOK'
  BY <1>2, SendType, Zenon DEF Deliver, TypeOK, ChannelsOK
<1>4. LedgerOK'
  BY EmptyUpdate, Zenon DEF Deliver, books, TypeOK, LedgerOK
<1> QED BY <1>3, <1>4, Zenon DEF Deliver, client, TypeOK, BridgeOK

LEMMA NextType == TypeOK /\ [Next]_vars => TypeOK'
<1> SUFFICES ASSUME TypeOK, [Next]_vars PROVE TypeOK'
  BY Zenon
<1>1. CASE UNCHANGED vars
  BY <1>1, Zenon DEF vars, TypeOK, LedgerOK, ChannelsOK, BridgeOK
<1> QED BY <1>1, BridgeType, SchedulerType, DriverType, DeliverType, Zenon DEF Next

-----------------------------------------------------------------------------
(***************************************************************************)
(* The debt.  A step leaves a request's debt where it is, or passes it on. *)
(***************************************************************************)

LEMMA DebtStays ==
    ASSUME NEW q \in Requests, OwedOnce(q), OwedWhile(q),
           Envelopes(q)' = Envelopes(q), Ends(steps, q)' = Ends(steps, q),
           Open(q)' <=> Open(q),
           (statement[q].terminal # None)' <=> (statement[q].terminal # None),
           Vacant(deferred[q])' <=> Vacant(deferred[q]),
           (answer[q] # None)' <=> (answer[q] # None),
           (q \in lost)' <=> (q \in lost),
           Submitted(q)' <=> Submitted(q),
           stream'[q] # "aborted" => stream[q] # "aborted"
    PROVE  OwedOnce(q)' /\ OwedWhile(q)'
<1>1. \A d \in Parties : Owes(d, q)' <=> Owes(d, q)
  BY DEF Owes
<1> QED BY <1>1, Zenon DEF OwedOnce, OwedWhile, Once

(* As DebtStays, for the channels that a receive shifts. *)
LEMMA DebtShifts ==
    ASSUME NEW q \in Requests, OwedOnce(q), OwedWhile(q),
           (Envelopes(q) = {})' <=> (Envelopes(q) = {}),
           (Ends(steps, q) = {})' <=> (Ends(steps, q) = {}),
           Once(Envelopes(q))', Once(Ends(steps, q))',
           Open(q)' <=> Open(q),
           (statement[q].terminal # None)' <=> (statement[q].terminal # None),
           Vacant(deferred[q])' <=> Vacant(deferred[q]),
           (answer[q] # None)' <=> (answer[q] # None),
           (q \in lost)' <=> (q \in lost),
           Submitted(q)' <=> Submitted(q),
           stream'[q] # "aborted" => stream[q] # "aborted"
    PROVE  OwedOnce(q)' /\ OwedWhile(q)'
<1>1. \A d \in Parties : Owes(d, q)' <=> Owes(d, q)
  BY DEF Owes
<1> QED BY <1>1, Zenon DEF OwedOnce, OwedWhile, Once

LEMMA DebtPasses ==
    ASSUME NEW q \in Requests, NEW e \in Parties, Submitted(q)',
           Owes(e, q)', \A c \in Parties \ {e} : ~Owes(c, q)',
           Once(Envelopes(q))', Once(Ends(steps, q))'
    PROVE  OwedOnce(q)' /\ OwedWhile(q)'
BY Zenon DEF OwedOnce, OwedWhile, Once

LEMMA DebtForgiven ==
    ASSUME NEW q \in Requests, Submitted(q)', stream'[q] = "aborted",
           \A c \in Parties : ~Owes(c, q)'
    PROVE  OwedOnce(q)' /\ OwedWhile(q)'
<1>1. Envelopes(q)' = {} /\ Ends(steps, q)' = {}
  BY Zenon DEF Owes, Parties
<1> QED BY <1>1, Zenon DEF OwedOnce, OwedWhile, Once

(* Who owes is submitted, and owes alone. *)
LEMMA SoleDebtor ==
    ASSUME NEW q \in Requests, OwedOnce(q), OwedWhile(q), NEW d \in Parties, Owes(d, q)
    PROVE  Submitted(q) /\ \A e \in Parties \ {d} : ~Owes(e, q)
BY Zenon DEF OwedOnce, OwedWhile, Once

(* OpenStream, Abort, Admit, PushTokens and Drained owe as before. *)
LEMMA QuietDebt ==
    ASSUME TypeOK, Debts, bridge # "down",
           \/ \E r \in Requests : OpenStream(r) \/ Abort(r) \/ Admit(r) \/ PushTokens(r)
           \/ Drained
    PROVE  Debts'
<1>1. ASSUME NEW r \in Requests, OpenStream(r) \/ Abort(r) PROVE Debts'
  <2>1. UNCHANGED <<submissions, account, tally, statement, driver, deferred, steps, answer, lost>>
    BY <1>1, Zenon DEF OpenStream, Abort, books
  <2>2. ASSUME NEW q \in Requests
        PROVE  /\ Submitted(q)' <=> Submitted(q)
               /\ stream'[q] # "aborted" => stream[q] # "aborted"
               /\ bridge' = q => stream'[q] = "new"
               /\ stream'[q] = "finished" => stream[q] = "finished"
    BY <1>1, ContractAssumption DEF OpenStream, Abort, Submitted, TypeOK, BridgeOK, Debts, Stages
  <2>3. ASSUME NEW q \in Requests PROVE OwedOnce(q)' /\ OwedWhile(q)'
    <3>1. Envelopes(q)' = Envelopes(q) /\ Ends(steps, q)' = Ends(steps, q)
      BY <2>1, Zenon DEF Envelopes, Ends
    <3>2. (Open(q)' <=> Open(q)) /\ (Vacant(deferred[q])' <=> Vacant(deferred[q]))
      BY <2>1, Zenon DEF Open, Vacant
    <3> QED BY <2>1, <2>2, <3>1, <3>2, DebtStays, Zenon DEF Debts
  <2>4. Stages'
    BY <2>1, <2>2 DEF Debts, Stages, Open, Vacant, Envelopes
  <2> QED BY <2>3, <2>4, Zenon DEF Debts
<1>2. ASSUME NEW r \in Requests, Admit(r) \/ PushTokens(r) PROVE Debts'
  <2>1. UNCHANGED <<submissions, driver, deferred, steps, stream, bridge, answer, lost>>
    BY <1>2, Zenon DEF Admit, PushTokens, fixed, client
  <2>2. driver = "step" /\ Open(r)
    BY <1>2, Zenon DEF Admit, PushTokens, Open
  <2>3. \A q \in Requests : Open(q)' <=> Open(q)
    BY <1>2, Zenon DEF Admit, PushTokens, Open, TypeOK, LedgerOK
  <2>4. \A q \in Requests : statement'[q].terminal = statement[q].terminal
                            /\ (q # r => statement'[q] = statement[q])
    BY <1>2 DEF Admit, PushTokens, TypeOK, LedgerOK, Updates
  <2>5. \A q \in Requests : account[q] = "none" <=> account'[q] = "none"
    BY <1>2, Zenon DEF Admit, PushTokens, TypeOK, LedgerOK
  <2>6. ASSUME NEW q \in Requests PROVE OwedOnce(q)' /\ OwedWhile(q)'
    <3>1. Envelopes(q)' = Envelopes(q) /\ Ends(steps, q)' = Ends(steps, q)
      BY <2>1, Zenon DEF Envelopes, Ends
    <3>2. (Submitted(q)' <=> Submitted(q)) /\ (Vacant(deferred[q])' <=> Vacant(deferred[q]))
      BY <2>1, Zenon DEF Submitted, Vacant
    <3> QED BY <2>1, <2>3, <2>4, <3>1, <3>2, DebtStays, Zenon DEF Debts
  <2>7. Stages'
    BY <2>1, <2>2, <2>3, <2>4, <2>5 DEF Debts, Stages, Vacant, Envelopes, Submitted
  <2> QED BY <2>6, <2>7, Zenon DEF Debts
<1>3. CASE Drained
  <2>1. /\ UNCHANGED <<submissions, account, tally, statement, deferred, steps, answer, lost,
                       stream, bridge>>
        /\ driver = "drain" /\ driver' = "step"
    BY <1>3, Zenon DEF Drained, books, frontend, client
  <2>2. ASSUME NEW q \in Requests PROVE OwedOnce(q)' /\ OwedWhile(q)'
    <3>1. Envelopes(q)' = Envelopes(q) /\ Ends(steps, q)' = Ends(steps, q)
      BY <2>1, Zenon DEF Envelopes, Ends
    <3>2. (Open(q)' <=> Open(q)) /\ (Vacant(deferred[q])' <=> Vacant(deferred[q]))
          /\ (Submitted(q)' <=> Submitted(q))
      BY <2>1, Zenon DEF Open, Vacant, Submitted
    <3> QED BY <2>1, <3>1, <3>2, DebtStays, Zenon DEF Debts
  <2>3. Stages'
    BY <2>1, Zenon DEF Debts, Stages, Open, Vacant, Envelopes, Submitted
  <2> QED BY <2>2, <2>3, Zenon DEF Debts
<1> QED BY <1>1, <1>2, <1>3, Zenon

(* An account that closes hands its debt to the statement or to a deferred *)
(* finish, or is retired for a client that is gone.                        *)
LEMMA CloseDebt ==
    ASSUME TypeOK, Debts, NEW r \in Requests,
           Reject(r) \/ Finish(r) \/ Fail(r) \/ Retire(r) \/ DeferFinish(r)
    PROVE  Debts'
<1>1. UNCHANGED <<submissions, driver, steps, stream, bridge, answer, lost>>
  BY Zenon DEF Reject, Finish, Fail, Retire, DeferFinish, fixed, client
<1>2. driver = "step" /\ Open(r) /\ account' = [account EXCEPT ![r] = "closed"]
  BY Zenon DEF Reject, Finish, Fail, Retire, DeferFinish, Open
<1>3. \A q \in Requests \ {r} :
         statement'[q] = statement[q] /\ deferred'[q] = deferred[q] /\ account'[q] = account[q]
  BY Zenon DEF Reject, Finish, Fail, Retire, DeferFinish, TypeOK, LedgerOK
<1>4. account'[r] = "closed"
  BY <1>2, Zenon DEF TypeOK, LedgerOK
<1>5. statement[r] \in Updates /\ tally[r] \in Nat
  BY Zenon DEF TypeOK, LedgerOK
<1>6. \/ statement'[r].terminal # None /\ deferred'[r] = deferred[r]
      \/ statement'[r] = Empty /\ deferred'[r].terminal.kind = "finished"
      \/ statement'[r] = Empty /\ deferred'[r] = deferred[r] /\ stream[r] = "aborted"
  <2>1. CASE Reject(r) \/ Finish(r) \/ Fail(r)
    <3>1. PICK kind \in {"finished", "failed", "rejected"}, n \in Nat :
             statement' = [statement EXCEPT ![r].terminal = Terminal(kind, n)]
      BY <1>5, <2>1, Zenon DEF Reject, Finish, Fail
    <3>2. statement'[r] = [statement[r] EXCEPT !.terminal = Terminal(kind, n)]
      BY <3>1, Zenon DEF TypeOK, LedgerOK
    <3>3. Terminal(kind, n) \in Terminals /\ Terminal(kind, n) # None
      BY AnsweringUpdate, Zenon
    <3>4. statement'[r].terminal # None
      BY <1>5, <3>2, <3>3, EndingUpdate
    <3> QED BY <2>1, <3>4, Zenon DEF Reject, Finish, Fail
  <2>2. CASE Retire(r)
    BY <2>2, Zenon DEF Retire, TypeOK, LedgerOK
  <2>3. CASE DeferFinish(r)
    <3>1. deferred'[r] = [statement[r] EXCEPT !.terminal = Terminal("finished", tally[r])]
          /\ statement'[r] = Empty
      BY <2>3, Zenon DEF DeferFinish, TypeOK, LedgerOK
    <3>2. deferred'[r].terminal = Terminal("finished", tally[r])
      BY <1>5, <3>1, AnsweringUpdate, EndingUpdate
    <3> QED BY <3>1, <3>2 DEF Terminal
  <2> QED BY <2>1, <2>2, <2>3, Zenon
<1>7. \A q \in Requests : /\ Envelopes(q)' = Envelopes(q) /\ Ends(steps, q)' = Ends(steps, q)
                          /\ Submitted(q)' <=> Submitted(q)
  BY <1>1, Zenon DEF Envelopes, Ends, Submitted
<1>8. ASSUME NEW q \in Requests \ {r} PROVE OwedOnce(q)' /\ OwedWhile(q)'
  <2>1. (Open(q)' <=> Open(q)) /\ (Vacant(deferred[q])' <=> Vacant(deferred[q]))
    BY <1>3, Zenon DEF Open, Vacant
  <2> QED BY <1>1, <1>3, <1>7, <2>1, DebtStays, Zenon DEF Debts
<1>9. OwedOnce(r)' /\ OwedWhile(r)'
  <2>1. Submitted(r) /\ \A e \in Parties \ {"account"} : ~Owes(e, r)
    BY <1>2, SoleDebtor, Zenon DEF Owes, Parties, Debts
  <2>2. /\ Envelopes(r) = {} /\ Ends(steps, r) = {} /\ Vacant(deferred[r])
        /\ answer[r] = None /\ r \notin lost
    BY <2>1, Zenon DEF Owes, Parties
  <2>3. ~Open(r)' /\ Envelopes(r)' = {} /\ Ends(steps, r)' = {} /\ answer'[r] = None
        /\ r \notin lost' /\ Submitted(r)'
    BY <1>1, <1>4, <1>7, <2>1, <2>2, Zenon DEF Open
  <2>4. CASE statement'[r].terminal # None /\ deferred'[r] = deferred[r]
    <3>1. Vacant(deferred[r])'
      BY <2>2, <2>4, Zenon DEF Vacant
    <3>2. Owes("statement", r)' /\ \A c \in Parties \ {"statement"} : ~Owes(c, r)'
      BY <2>3, <2>4, <3>1, Zenon DEF Owes, Parties
    <3> QED BY <2>3, <3>2, DebtPasses, Zenon DEF Parties, Once
  <2>5. CASE statement'[r] = Empty /\ deferred'[r].terminal.kind = "finished"
    <3>1. ~Vacant(deferred[r])' /\ statement'[r].terminal = None
      BY <2>5, EmptyUpdate DEF Vacant, None
    <3>2. Owes("deferred", r)' /\ \A c \in Parties \ {"deferred"} : ~Owes(c, r)'
      BY <2>3, <3>1, Zenon DEF Owes, Parties
    <3> QED BY <2>3, <3>2, DebtPasses, Zenon DEF Parties, Once
  <2>6. CASE statement'[r] = Empty /\ deferred'[r] = deferred[r] /\ stream[r] = "aborted"
    <3>1. Vacant(deferred[r])' /\ statement'[r].terminal = None
      BY <2>2, <2>6, EmptyUpdate, Zenon DEF Vacant
    <3>2. \A c \in Parties : ~Owes(c, r)'
      BY <2>3, <3>1, Zenon DEF Owes, Parties
    <3> QED BY <1>1, <2>3, <2>6, <3>2, DebtForgiven, Zenon
  <2> QED BY <1>6, <2>4, <2>5, <2>6, Zenon
<1>10. Stages'
  <2>1. Submitted(r)
    BY <1>2, SoleDebtor, Zenon DEF Owes, Parties, Debts
  <2>2. Vacant(deferred[r])' \/ deferred'[r].terminal.kind = "finished"
    BY <1>6, Zenon DEF Vacant, Debts, Stages
  <2>3. Vacant(statement[r])' \/ statement'[r].terminal # None
    BY <1>6, Zenon DEF Vacant
  <2>4. \A q \in Requests \ {r} :
           /\ Open(q)' <=> Open(q)
           /\ Vacant(deferred[q])' <=> Vacant(deferred[q])
           /\ Vacant(statement[q])' <=> Vacant(statement[q])
    BY <1>3, Zenon DEF Open, Vacant
  <2> QED BY <1>1, <1>2, <1>3, <1>7, <2>1, <2>2, <2>3, <2>4 DEF Debts, Stages
<1> QED BY <1>8, <1>9, <1>10, Zenon DEF Debts

(* The first of a channel is received, the others move up. *)
LEMMA Received ==
    ASSUME submissions \in Seq(Requests), submissions # <<>>, submissions' = Tail(submissions),
           NEW q \in Requests, Once(Envelopes(q))
    PROVE  /\ Once(Envelopes(q))'
           /\ q = Head(submissions) => Envelopes(q) # {} /\ Envelopes(q)' = {}
           /\ q # Head(submissions) => (Envelopes(q)' = {} <=> Envelopes(q) = {})
<1>1. /\ Len(submissions) \in Nat /\ DOMAIN submissions = 1 .. Len(submissions)
      /\ Len(submissions) >= 1 /\ submissions[1] = Head(submissions)
      /\ DOMAIN submissions' = 1 .. Len(submissions) - 1
      /\ \A i \in 1 .. Len(submissions) - 1 : submissions'[i] = submissions[i + 1]
  OBVIOUS
<1>2. \A i \in Envelopes(q)' : i + 1 \in Envelopes(q)
  BY <1>1 DEF Envelopes
<1>3. \A i \in Envelopes(q) : i # 1 => i - 1 \in Envelopes(q)'
  BY <1>1 DEF Envelopes
<1>4. 1 \in Envelopes(q) <=> q = Head(submissions)
  BY <1>1 DEF Envelopes
<1>5. Envelopes(q)' \subseteq Nat \ {0}
  BY <1>1 DEF Envelopes
<1>6. Once(Envelopes(q))'
  BY <1>2, <1>5 DEF Once
<1>7. q = Head(submissions) => Envelopes(q)' = {}
  BY <1>2, <1>4, <1>5 DEF Once
<1>8. q # Head(submissions) => (Envelopes(q)' = {} <=> Envelopes(q) = {})
  BY <1>2, <1>3, <1>4, Zenon
<1> QED BY <1>4, <1>6, <1>7, <1>8, Zenon

LEMMA RegisterDebt ==
    ASSUME TypeOK, Debts, Register
    PROVE  Debts'
<1>1. submissions \in Seq(Requests) /\ submissions # <<>> /\ submissions' = Tail(submissions)
  BY Zenon DEF Register, TypeOK, ChannelsOK
<1>2. PICK h \in Requests : h = Head(submissions)
  BY <1>1
<1>3. /\ UNCHANGED <<statement, driver, steps, deferred, bridge, stream, answer, lost>>
      /\ driver = "drain"
  BY Zenon DEF Register, frontend, client
<1>4. /\ account'[h] = "queued"
      /\ \A q \in Requests \ {h} : account'[q] = account[q]
  BY <1>1, <1>2, Zenon DEF Register, TypeOK, LedgerOK
<1>5. \A q \in Requests : /\ Ends(steps, q)' = Ends(steps, q)
                          /\ Submitted(q)' <=> Submitted(q)
                          /\ Vacant(deferred[q])' <=> Vacant(deferred[q])
                          /\ Vacant(statement[q])' <=> Vacant(statement[q])
  BY <1>3, Zenon DEF Ends, Submitted, Vacant
<1>6. \A q \in Requests :
         /\ Once(Envelopes(q))'
         /\ q = h => Envelopes(q) # {} /\ Envelopes(q)' = {}
         /\ q # h => (Envelopes(q)' = {} <=> Envelopes(q) = {})
  BY <1>1, <1>2, Received, Zenon DEF Debts, OwedOnce
<1>7. ASSUME NEW q \in Requests \ {h} PROVE OwedOnce(q)' /\ OwedWhile(q)'
  <2>1. Open(q)' <=> Open(q)
    BY <1>4, Zenon DEF Open
  <2>2. Once(Ends(steps, q))'
    BY <1>5, Zenon DEF Debts, OwedOnce, Once
  <2> QED BY <1>3, <1>5, <1>6, <2>1, <2>2, DebtShifts, Zenon DEF Debts
<1>8. Submitted(h) /\ \A e \in Parties \ {"envelope"} : ~Owes(e, h)
  BY <1>1, <1>6, SoleDebtor, Zenon DEF Owes, Parties, Debts
<1>9. OwedOnce(h)' /\ OwedWhile(h)'
  <2>1. /\ Ends(steps, h) = {} /\ Vacant(deferred[h]) /\ answer[h] = None /\ h \notin lost
        /\ statement[h].terminal = None
    BY <1>8, Zenon DEF Owes, Parties
  <2>2. Open(h)'
    BY <1>4, Zenon DEF Open
  <2>3. Vacant(deferred[h])' /\ Ends(steps, h)' = {} /\ Envelopes(h)' = {} /\ Submitted(h)'
    BY <1>1, <1>5, <1>6, <1>8, <2>1, Zenon
  <2>4. Owes("account", h)' /\ \A c \in Parties \ {"account"} : ~Owes(c, h)'
    BY <1>3, <2>1, <2>2, <2>3, Zenon DEF Owes, Parties
  <2> QED BY <1>1, <2>3, <2>4, DebtPasses, Zenon DEF Parties, Once
<1>10. Stages'
  <2>1. \A q \in Requests \ {h} : Open(q)' <=> Open(q)
    BY <1>4, Zenon DEF Open
  <2>2. Open(h)'
    BY <1>4, Zenon DEF Open
  <2> QED BY <1>1, <1>3, <1>4, <1>5, <1>8, <2>1, <2>2, Zenon DEF Debts, Stages
<1> QED BY <1>7, <1>9, <1>10, Zenon DEF Debts

LEMMA Dispatched ==
    ASSUME steps \in Seq(Messages), steps # <<>>, steps' = Tail(steps),
           NEW q \in Requests, Once(Ends(steps, q))
    PROVE  LET over == q \in DOMAIN Head(steps) /\ Head(steps)[q].terminal # None
           IN  /\ Once(Ends(steps, q))'
               /\ over => Ends(steps, q) # {} /\ Ends(steps, q)' = {}
               /\ ~over => (Ends(steps, q)' = {} <=> Ends(steps, q) = {})
<1> DEFINE over == q \in DOMAIN Head(steps) /\ Head(steps)[q].terminal # None
<1>1. /\ Len(steps) \in Nat /\ DOMAIN steps = 1 .. Len(steps)
      /\ Len(steps) >= 1 /\ steps[1] = Head(steps)
      /\ DOMAIN steps' = 1 .. Len(steps) - 1
      /\ \A i \in 1 .. Len(steps) - 1 : steps'[i] = steps[i + 1]
  OBVIOUS
<1>2. \A i \in Ends(steps, q)' : i + 1 \in Ends(steps, q)
  BY <1>1 DEF Ends
<1>3. \A i \in Ends(steps, q) : i # 1 => i - 1 \in Ends(steps, q)'
  BY <1>1 DEF Ends
<1>4. 1 \in Ends(steps, q) <=> over
  BY <1>1 DEF Ends
<1>5. Ends(steps, q)' \subseteq Nat \ {0}
  BY <1>1 DEF Ends
<1>6. Once(Ends(steps, q))'
  BY <1>2, <1>5 DEF Once
<1> HIDE DEF over
<1>7. over => Ends(steps, q)' = {}
  BY <1>2, <1>4, <1>5 DEF Once
<1>8. ~over => (Ends(steps, q)' = {} <=> Ends(steps, q) = {})
  BY <1>2, <1>3, <1>4, Zenon
<1> QED BY <1>4, <1>6, <1>7, <1>8, Zenon DEF over

(* A message that ends a stream leaves the channel, and is the answer. *)
LEMMA DispatchDebt ==
    ASSUME TypeOK, Debts, DispatchStep
    PROVE  Debts'
<1> DEFINE over(q) == q \in DOMAIN Head(steps) /\ Head(steps)[q].terminal # None
<1>1. steps \in Seq(Messages) /\ steps # <<>> /\ steps' = Tail(steps) /\ bridge = "loop"
  BY Zenon DEF DispatchStep, TypeOK, ChannelsOK
<1>2. UNCHANGED <<submissions, account, statement, driver, deferred, bridge, lost>>
  BY Zenon DEF DispatchStep, books
<1>3. \A q \in Requests :
         /\ over(q) /\ stream[q] = "open"
               => stream'[q] = "finished" /\ answer'[q] = Head(steps)[q].terminal
         /\ ~(over(q) /\ stream[q] = "open") => stream'[q] = stream[q] /\ answer'[q] = answer[q]
  BY Zenon DEF DispatchStep
<1>4. \A q \in Requests :
         /\ Once(Ends(steps, q))'
         /\ over(q) => Ends(steps, q) # {} /\ Ends(steps, q)' = {}
         /\ ~over(q) => (Ends(steps, q)' = {} <=> Ends(steps, q) = {})
  BY <1>1, Dispatched, Zenon DEF Debts, OwedOnce
<1>5. \A q \in Requests : over(q) /\ stream[q] = "open" => answer'[q] # None
  BY <1>3, Zenon
<1>6. \A q \in Requests : /\ Envelopes(q)' = Envelopes(q)
                          /\ Open(q)' <=> Open(q)
                          /\ Vacant(deferred[q])' <=> Vacant(deferred[q])
                          /\ Vacant(statement[q])' <=> Vacant(statement[q])
  BY <1>2, Zenon DEF Envelopes, Open, Vacant
<1>7. \A q \in Requests : Submitted(q)' <=> Submitted(q)
  BY <1>2, <1>3, Zenon DEF Submitted
<1>8. \A q \in Requests : Submitted(q) => stream[q] \in {"open", "finished", "aborted"}
  BY <1>1, ContractAssumption, Zenon DEF Submitted, TypeOK, BridgeOK
<1> HIDE DEF over
<1>9. ASSUME NEW q \in Requests, ~over(q) PROVE OwedOnce(q)' /\ OwedWhile(q)'
  <2>1. Once(Envelopes(q))'
    BY <1>6, Zenon DEF Debts, OwedOnce, Once
  <2>2. stream'[q] = stream[q] /\ answer'[q] = answer[q]
    BY <1>3, <1>9, Zenon
  <2> QED BY <1>2, <1>4, <1>6, <1>7, <1>9, <2>1, <2>2, DebtShifts, Zenon DEF Debts
<1>10. ASSUME NEW q \in Requests, over(q) PROVE OwedOnce(q)' /\ OwedWhile(q)'
  <2>1. Submitted(q) /\ \A e \in Parties \ {"message"} : ~Owes(e, q)
    BY <1>4, <1>10, SoleDebtor, Zenon DEF Owes, Parties, Debts
  <2>2. /\ Envelopes(q) = {} /\ Vacant(deferred[q]) /\ answer[q] = None /\ q \notin lost
        /\ statement[q].terminal = None /\ ~Open(q)
    BY <2>1, Zenon DEF Owes, Parties
  <2>3. /\ Envelopes(q)' = {} /\ Vacant(deferred[q])' /\ q \notin lost'
        /\ statement'[q].terminal = None /\ ~Open(q)' /\ Ends(steps, q)' = {} /\ Submitted(q)'
    BY <1>2, <1>4, <1>6, <1>7, <1>10, <2>1, <2>2, Zenon
  <2>4. CASE stream[q] = "open"
    <3>1. answer'[q] # None
      BY <1>5, <1>10, <2>4, Zenon
    <3>2. Owes("answer", q)' /\ \A c \in Parties \ {"answer"} : ~Owes(c, q)'
      BY <2>3, <3>1, Zenon DEF Owes, Parties
    <3> QED BY <2>3, <3>2, DebtPasses, Zenon DEF Parties, Once
  <2>5. CASE stream[q] = "aborted"
    <3>1. answer'[q] = None /\ stream'[q] = "aborted"
      BY <1>3, <2>2, <2>5, Zenon
    <3>2. \A c \in Parties : ~Owes(c, q)'
      BY <2>3, <3>1, Zenon DEF Owes, Parties
    <3> QED BY <2>3, <3>1, <3>2, DebtForgiven, Zenon
  <2>6. stream[q] # "finished"
    BY <2>2, Zenon DEF Debts, Stages
  <2> QED BY <1>8, <2>1, <2>4, <2>5, <2>6, Zenon
<1>11. Stages'
  <2>1. \A q \in Requests : stream'[q] = "finished" => answer'[q] # None
    BY <1>3, <1>5, Zenon DEF Debts, Stages
  <2>2. \A q \in Requests : bridge' # q
    BY <1>1, <1>2, ContractAssumption, Zenon
  <2> QED BY <1>2, <1>6, <1>7, <2>1, <2>2, Zenon DEF Debts, Stages
<1> QED BY <1>9, <1>10, <1>11, Zenon DEF Debts

(* What is sent comes after what the stream holds. *)
LEMMA SentEnds ==
    ASSUME steps \in Seq(Messages), bridge # "down", NEW m \in Seq(Messages), Send(m),
           NEW q \in Requests
    PROVE  /\ Ends(m, q) = {} => Ends(steps, q)' = Ends(steps, q)
           /\ Ends(m, q) # {} => Ends(steps, q)' # {}
           /\ Ends(steps, q) = {} /\ Once(Ends(m, q)) => Once(Ends(steps, q))'
<1>1. steps' = steps \o m
  BY Zenon DEF Send
<1>2. Ends(steps, q)' = Ends(steps \o m, q)
  BY <1>1, Zenon DEF Ends
<1>3. Ends(steps, q)' = Ends(steps, q) \cup {Len(steps) + i : i \in Ends(m, q)}
  BY <1>2, EndsConcat
<1> QED BY <1>3, Zenon DEF Once

LEMMA SubmitDebt ==
    ASSUME TypeOK, Debts, NEW r \in Requests, Submit(r)
    PROVE  Debts'
<1> DEFINE bomb == <<Only(r, Answering("failed", 0))>>
<1>1. UNCHANGED <<account, tally, statement, driver, deferred, stream, answer, lost>>
  BY Zenon DEF Submit, books
<1>2. bridge = "loop" /\ bridge' = r /\ stream[r] = "new"
  BY Zenon DEF Submit
<1>3. \A q \in Requests : /\ q # r => (Submitted(q)' <=> Submitted(q))
                          /\ Open(q)' <=> Open(q)
                          /\ Vacant(deferred[q])' <=> Vacant(deferred[q])
                          /\ Vacant(statement[q])' <=> Vacant(statement[q])
  BY <1>1, <1>2, ContractAssumption, Zenon DEF Submitted, Open, Vacant
<1>4. ~Submitted(r) /\ Submitted(r)'
  BY <1>1, <1>2, ContractAssumption, Zenon DEF Submitted
<1>5. \A d \in Parties : ~Owes(d, r)
  BY <1>4, Zenon DEF Debts, OwedWhile
<1>6. /\ Envelopes(r) = {} /\ Ends(steps, r) = {} /\ Vacant(deferred[r]) /\ answer[r] = None
      /\ r \notin lost /\ statement[r].terminal = None /\ ~Open(r)
  BY <1>5, Zenon DEF Owes, Parties
<1>7. submissions \in Seq(Requests) /\ steps \in Seq(Messages)
  BY Zenon DEF TypeOK, ChannelsOK
<1>8. CASE driver = "exited"
  <2>1. bomb \in Seq(Messages) /\ \A q \in Requests : Ends(bomb, q) = IF q = r THEN {1} ELSE {}
    <3>1. Answering("failed", 0) \in Updates /\ Answering("failed", 0).terminal # None
      BY AnsweringUpdate, Zenon
    <3> QED BY <3>1, OnlyMessage, Zenon
  <2>2. submissions' = submissions /\ Send(bomb)
    BY <1>8, Zenon DEF Submit
  <2> HIDE DEF bomb
  <2>3. \A q \in Requests : Envelopes(q)' = Envelopes(q)
    BY <2>2, Zenon DEF Envelopes
  <2>4. \A q \in Requests \ {r} : Ends(steps, q)' = Ends(steps, q)
    BY <1>2, <1>7, <2>1, <2>2, SentEnds, Zenon
  <2>5. Ends(steps, r)' # {} /\ Once(Ends(steps, r))'
    <3>1. Once(Ends(bomb, r)) /\ Ends(bomb, r) # {}
      BY <2>1, Zenon DEF Once
    <3>2. bridge # "down"
      BY <1>2, Zenon
    <3> QED BY <1>6, <1>7, <2>1, <2>2, <3>1, <3>2, SentEnds, Zenon
  <2>6. ASSUME NEW q \in Requests \ {r} PROVE OwedOnce(q)' /\ OwedWhile(q)'
    BY <1>1, <1>3, <2>3, <2>4, DebtStays, Zenon DEF Debts
  <2>7. OwedOnce(r)' /\ OwedWhile(r)'
    <3>1. Owes("message", r)' /\ \A c \in Parties \ {"message"} : ~Owes(c, r)'
      BY <1>1, <1>3, <1>6, <2>3, <2>5, Zenon DEF Owes, Parties
    <3> QED BY <1>4, <1>6, <2>3, <2>5, <3>1, DebtPasses, Zenon DEF Parties, Once
  <2>8. Stages'
    BY <1>1, <1>2, <1>3, <1>4, <2>3, Zenon DEF Debts, Stages
  <2> QED BY <2>6, <2>7, <2>8, Zenon DEF Debts
<1>9. CASE driver # "exited"
  <2>1. submissions' = Append(submissions, r) /\ steps' = steps
    BY <1>9, Zenon DEF Submit
  <2>2. \A q \in Requests : Ends(steps, q)' = Ends(steps, q)
    BY <2>1, Zenon DEF Ends
  <2>3. \A q \in Requests \ {r} : Envelopes(q)' = Envelopes(q)
    BY <1>7, <2>1 DEF Envelopes
  <2>4. Envelopes(r)' = {Len(submissions) + 1}
    BY <1>6, <1>7, <2>1 DEF Envelopes
  <2>5. ASSUME NEW q \in Requests \ {r} PROVE OwedOnce(q)' /\ OwedWhile(q)'
    BY <1>1, <1>3, <2>2, <2>3, DebtStays, Zenon DEF Debts
  <2>6. OwedOnce(r)' /\ OwedWhile(r)'
    <3>1. Owes("envelope", r)' /\ \A c \in Parties \ {"envelope"} : ~Owes(c, r)'
      BY <1>1, <1>3, <1>6, <2>2, <2>4, Zenon DEF Owes, Parties
    <3> QED BY <1>4, <1>6, <2>2, <2>4, <3>1, DebtPasses, Zenon DEF Parties, Once
  <2>7. Stages'
    BY <1>1, <1>2, <1>3, <1>4, <1>9, Zenon DEF Debts, Stages
  <2> QED BY <2>5, <2>6, <2>7, Zenon DEF Debts
<1> QED BY <1>8, <1>9, Zenon

(* A deferred finish moves to the stream, wherever its holder runs. *)
LEMMA DeliverDebt ==
    ASSUME TypeOK, Debts, bridge # "down",
           NEW r \in Requests, NEW kind \in {"finished", "failed"}, Deliver(r, kind)
    PROVE  Debts'
<1> DEFINE update == [deferred[r] EXCEPT !.terminal.kind = kind]
           m == <<Only(r, update)>>
<1>1. UNCHANGED <<submissions, account, tally, statement, driver, stream, bridge, answer, lost>>
  BY Zenon DEF Deliver, books, client
<1>2. update \in Updates /\ update.terminal # None
  <2>1. deferred[r] \in Updates
    BY Zenon DEF TypeOK, LedgerOK
  <2>2. [deferred[r].terminal EXCEPT !.kind = kind] \in Terminals
        /\ [deferred[r].terminal EXCEPT !.kind = kind].kind = kind
    BY <2>1, Zenon DEF Updates, Terminals
  <2>3. [deferred[r].terminal EXCEPT !.kind = kind] # None
    BY <2>2, Zenon DEF None
  <2> QED BY <2>1, <2>2, <2>3, EndingUpdate, Zenon
<1>3. m \in Seq(Messages) /\ \A q \in Requests : Ends(m, q) = IF q = r THEN {1} ELSE {}
  BY <1>2, OnlyMessage, Zenon
<1>4. Send(m) /\ steps \in Seq(Messages)
  BY Zenon DEF Deliver, TypeOK, ChannelsOK
<1>5. Vacant(deferred[r])' /\ \A q \in Requests \ {r} : deferred'[q] = deferred[q]
  BY Zenon DEF Deliver, Vacant, TypeOK, LedgerOK
<1> HIDE DEF m, update
<1>6. \A q \in Requests : /\ Envelopes(q)' = Envelopes(q)
                          /\ Submitted(q)' <=> Submitted(q)
                          /\ Open(q)' <=> Open(q)
                          /\ Vacant(statement[q])' <=> Vacant(statement[q])
  BY <1>1, Zenon DEF Envelopes, Submitted, Open, Vacant
<1>7. \A q \in Requests \ {r} : Ends(steps, q)' = Ends(steps, q)
  BY <1>3, <1>4, SentEnds, Zenon
<1>8. Submitted(r) /\ \A e \in Parties \ {"deferred"} : ~Owes(e, r)
  BY SoleDebtor, Zenon DEF Deliver, Owes, Parties, Debts
<1>9. /\ Envelopes(r) = {} /\ Ends(steps, r) = {} /\ answer[r] = None /\ r \notin lost
      /\ statement[r].terminal = None /\ ~Open(r)
  BY <1>8, Zenon DEF Owes, Parties
<1>10. Ends(steps, r)' # {} /\ Once(Ends(steps, r))'
  <2>1. Once(Ends(m, r)) /\ Ends(m, r) # {}
    BY <1>3, Zenon DEF Once
  <2> QED BY <1>3, <1>4, <1>9, <2>1, SentEnds, Zenon
<1>11. ASSUME NEW q \in Requests \ {r} PROVE OwedOnce(q)' /\ OwedWhile(q)'
  <2>1. Vacant(deferred[q])' <=> Vacant(deferred[q])
    BY <1>5, Zenon DEF Vacant
  <2> QED BY <1>1, <1>6, <1>7, <2>1, DebtStays, Zenon DEF Debts
<1>12. OwedOnce(r)' /\ OwedWhile(r)'
  <2>1. Owes("message", r)' /\ \A c \in Parties \ {"message"} : ~Owes(c, r)'
    BY <1>1, <1>5, <1>6, <1>9, <1>10, Zenon DEF Owes, Parties
  <2> QED BY <1>6, <1>8, <1>9, <1>10, <2>1, DebtPasses, Zenon DEF Parties, Once
<1>13. Stages'
  BY <1>1, <1>5, <1>6, Zenon DEF Debts, Stages, Vacant
<1> QED BY <1>11, <1>12, <1>13, Zenon DEF Debts

(* The driver's messages: m has an ending for every open account if the    *)
(* accounts close, for what the statement holds unless that is lost, and   *)
(* for every envelope if the channel falls.                                *)
LEMMA SpokenDebt ==
    ASSUME TypeOK, Debts, bridge # "down",
           UNCHANGED <<deferred, bridge, stream, answer>>,
           NEW m \in Seq(Messages), Send(m),
           \A q \in Requests :
              /\ statement'[q] = Empty
              /\ Once(Ends(m, q))
              /\ \/ Ends(m, q) = {} /\ Envelopes(q)' = Envelopes(q)
                    /\ (Open(q)' <=> Open(q))
                    /\ (q \in lost' <=> q \in lost \/ statement[q].terminal # None)
                 \/ Ends(m, q) # {} /\ Envelopes(q)' = {} /\ ~Open(q)' /\ q \notin lost'
                    /\ (Open(q) \/ Envelopes(q) # {} \/ statement[q].terminal # None),
           NEW q \in Requests
    PROVE  OwedOnce(q)' /\ OwedWhile(q)'
<1>1. steps \in Seq(Messages)
  BY Zenon DEF TypeOK, ChannelsOK
<1>2. (Submitted(q)' <=> Submitted(q)) /\ (Vacant(deferred[q])' <=> Vacant(deferred[q]))
  BY Zenon DEF Submitted, Vacant
<1>3. statement'[q].terminal = None
  BY EmptyUpdate, Zenon
<1>4. CASE Ends(m, q) = {} /\ statement[q].terminal = None
  <2>1. Ends(steps, q)' = Ends(steps, q)
    BY <1>1, <1>4, SentEnds, Zenon
  <2> QED BY <1>2, <1>3, <1>4, <2>1, DebtStays, Zenon DEF Debts
<1>5. CASE Ends(m, q) = {} /\ statement[q].terminal # None
  <2>1. Submitted(q) /\ \A e \in Parties \ {"statement"} : ~Owes(e, q)
    BY <1>5, SoleDebtor, Zenon DEF Owes, Parties, Debts
  <2>2. /\ Envelopes(q) = {} /\ Ends(steps, q) = {} /\ answer[q] = None
        /\ Vacant(deferred[q]) /\ ~Open(q)
    BY <2>1, Zenon DEF Owes, Parties
  <2>3. Ends(steps, q)' = Ends(steps, q)
    BY <1>1, <1>5, SentEnds, Zenon
  <2>4. Owes("lost", q)' /\ \A c \in Parties \ {"lost"} : ~Owes(c, q)'
    BY <1>2, <1>3, <1>5, <2>2, <2>3, Zenon DEF Owes, Parties
  <2>5. Envelopes(q)' = {} /\ Ends(steps, q)' = {}
    BY <1>5, <2>2, <2>3, Zenon
  <2> QED BY <1>2, <2>1, <2>4, <2>5, DebtPasses, Zenon DEF Parties, Once
<1>6. CASE Ends(m, q) # {}
  <2>1. /\ Submitted(q) /\ Ends(steps, q) = {} /\ answer[q] = None /\ Vacant(deferred[q])
    <3>1. CASE Open(q)
      <4>1. Submitted(q) /\ \A e \in Parties \ {"account"} : ~Owes(e, q)
        BY <3>1, SoleDebtor, Zenon DEF Owes, Parties, Debts
      <4> QED BY <4>1, Zenon DEF Owes, Parties
    <3>2. CASE Envelopes(q) # {}
      <4>1. Submitted(q) /\ \A e \in Parties \ {"envelope"} : ~Owes(e, q)
        BY <3>2, SoleDebtor, Zenon DEF Owes, Parties, Debts
      <4> QED BY <4>1, Zenon DEF Owes, Parties
    <3>3. CASE statement[q].terminal # None
      <4>1. Submitted(q) /\ \A e \in Parties \ {"statement"} : ~Owes(e, q)
        BY <3>3, SoleDebtor, Zenon DEF Owes, Parties, Debts
      <4> QED BY <4>1, Zenon DEF Owes, Parties
    <3> QED BY <1>6, <3>1, <3>2, <3>3, Zenon
  <2>2. Ends(steps, q)' # {} /\ Once(Ends(steps, q))'
    BY <1>1, <1>6, <2>1, SentEnds, Zenon
  <2>3. Owes("message", q)' /\ \A c \in Parties \ {"message"} : ~Owes(c, q)'
    BY <1>2, <1>3, <1>6, <2>1, <2>2, Zenon DEF Owes, Parties
  <2>4. Once(Envelopes(q))'
    BY <1>6, Zenon DEF Once
  <2> QED BY <1>2, <2>1, <2>2, <2>3, <2>4, DebtPasses, Zenon DEF Parties
<1> QED BY <1>4, <1>5, <1>6, Zenon

(* commit_step, and the driver goes on. *)
LEMMA CommitDebt ==
    ASSUME TypeOK, Debts, bridge # "down", Commit, driver' = "drain"
    PROVE  Debts'
<1> DEFINE m == Statement(statement)
<1>1. /\ UNCHANGED <<submissions, account, tally, deferred, bridge, stream, answer, lost>>
      /\ Send(m) /\ driver = "step"
  BY Zenon DEF Commit, Drop, frontend, client
<1>2. \A q \in Requests : statement'[q] = Empty
  BY Zenon DEF Commit, Drop
<1>3. m \in Seq(Messages)
      /\ \A q \in Requests : Ends(m, q) = IF statement[q].terminal # None THEN {1} ELSE {}
  BY StatementMessage, Zenon DEF TypeOK
<1> HIDE DEF m
<1>4. \A q \in Requests : Envelopes(q)' = Envelopes(q) /\ (Open(q)' <=> Open(q))
                          /\ (Submitted(q)' <=> Submitted(q))
  BY <1>1, Zenon DEF Envelopes, Open, Submitted
<1>5. \A q \in Requests : Once(Ends(m, q))
  BY <1>3, Zenon DEF Once
<1>6. ASSUME NEW q \in Requests, statement[q].terminal # None
      PROVE  Envelopes(q) = {} /\ ~Open(q) /\ q \notin lost
  <2>1. \A e \in Parties \ {"statement"} : ~Owes(e, q)
    BY <1>6, SoleDebtor, Zenon DEF Owes, Parties, Debts
  <2> QED BY <2>1, Zenon DEF Owes, Parties
<1>7. \A q \in Requests : Ends(m, q) = {} <=> statement[q].terminal = None
  BY <1>3, Zenon
<1>8. \A q \in Requests :
         \/ Ends(m, q) = {} /\ Envelopes(q)' = Envelopes(q)
            /\ (Open(q)' <=> Open(q))
            /\ (q \in lost' <=> q \in lost \/ statement[q].terminal # None)
         \/ Ends(m, q) # {} /\ Envelopes(q)' = {} /\ ~Open(q)' /\ q \notin lost'
            /\ (Open(q) \/ Envelopes(q) # {} \/ statement[q].terminal # None)
  BY <1>1, <1>4, <1>6, <1>7, Zenon
<1>9. \A q \in Requests : OwedOnce(q)' /\ OwedWhile(q)'
  BY <1>1, <1>2, <1>3, <1>5, <1>8, SpokenDebt, Zenon
<1>10. Stages'
  BY <1>1, <1>2, <1>4, Zenon DEF Debts, Stages, Vacant
<1> QED BY <1>9, <1>10, Zenon DEF Debts

LEMMA ShiftOnce ==
    ASSUME NEW n, NEW S, Once(S)
    PROVE  /\ Once({n + i : i \in S})
           /\ {n + i : i \in S} = {} <=> S = {}
BY Zenon DEF Once

(* The driver exits: what the accounts and the channel owe is said. *)
LEMMA DropDebt ==
    ASSUME TypeOK, Debts, bridge # "down", driver = "step",
           NEW m \in Seq(Messages), Drop(m),
           \A q \in Requests :
              /\ Once(Ends(m, q))
              /\ \/ Ends(m, q) = {} /\ ~Open(q) /\ (q \in lost' <=> statement[q].terminal # None)
                 \/ Ends(m, q) # {} /\ q \notin lost' /\ (Open(q) \/ statement[q].terminal # None)
    PROVE  Debts'
<1> DEFINE all == m \o Bombs
<1>1. UNCHANGED <<deferred, bridge, stream, answer>> /\ driver' = "exited" /\ submissions' = <<>>
      /\ Send(all)
  BY Zenon DEF Drop, frontend, client
<1>2. Bombs \in Seq(Messages) /\ \A q \in Requests : Ends(Bombs, q) = Envelopes(q)
  BY BombsMessage, Zenon DEF TypeOK, ChannelsOK
<1>3. /\ all \in Seq(Messages)
      /\ \A q \in Requests : Ends(all, q) = Ends(m, q) \cup {Len(m) + i : i \in Envelopes(q)}
  BY <1>2, EndsConcat
<1> HIDE DEF all
<1>4. \A q \in Requests : statement'[q] = Empty /\ ~Open(q)' /\ Envelopes(q)' = {}
                          /\ (account'[q] = "none" <=> account[q] = "none")
  BY <1>1 DEF Drop, Open, Envelopes, TypeOK, LedgerOK
<1>5. ASSUME NEW q \in Requests, Ends(m, q) # {}
      PROVE  Envelopes(q) = {}
  <2>1. CASE Open(q)
    <3>1. \A e \in Parties \ {"account"} : ~Owes(e, q)
      BY <2>1, SoleDebtor, Zenon DEF Owes, Parties, Debts
    <3> QED BY <3>1, Zenon DEF Owes, Parties
  <2>2. CASE statement[q].terminal # None
    <3>1. \A e \in Parties \ {"statement"} : ~Owes(e, q)
      BY <2>2, SoleDebtor, Zenon DEF Owes, Parties, Debts
    <3> QED BY <3>1, Zenon DEF Owes, Parties
  <2> QED BY <1>5, <2>1, <2>2, Zenon
<1>6. ASSUME NEW q \in Requests, Envelopes(q) # {}
      PROVE  statement[q].terminal = None
  <2>1. \A e \in Parties \ {"envelope"} : ~Owes(e, q)
    BY <1>6, SoleDebtor, Zenon DEF Owes, Parties, Debts
  <2> QED BY <2>1, Zenon DEF Owes, Parties
<1>7. lost = {}
  BY Zenon DEF Debts, Stages
<1>8. ASSUME NEW q \in Requests
      PROVE  /\ Once(Ends(all, q))
             /\ \/ Ends(all, q) = {} /\ Envelopes(q)' = Envelopes(q)
                   /\ (Open(q)' <=> Open(q))
                   /\ (q \in lost' <=> q \in lost \/ statement[q].terminal # None)
                \/ Ends(all, q) # {} /\ Envelopes(q)' = {} /\ ~Open(q)' /\ q \notin lost'
                   /\ (Open(q) \/ Envelopes(q) # {} \/ statement[q].terminal # None)
  <2>1. CASE Ends(m, q) # {}
    <3>1. Ends(all, q) = Ends(m, q)
      <4>1. Envelopes(q) = {}
        BY <1>5, <2>1, Zenon
      <4> QED BY <1>3, <4>1, Zenon
    <3> QED BY <1>4, <2>1, <3>1, Zenon
  <2>2. CASE Ends(m, q) = {} /\ Envelopes(q) # {}
    <3>1. Ends(all, q) = {Len(m) + i : i \in Envelopes(q)}
      BY <1>3, <2>2, Zenon
    <3>2. Once(Envelopes(q))
      BY Zenon DEF Debts, OwedOnce
    <3>3. Once(Ends(all, q)) /\ Ends(all, q) # {}
      BY <2>2, <3>1, <3>2, ShiftOnce
    <3>4. q \notin lost'
      BY <1>6, <2>2, Zenon
    <3> QED BY <1>4, <2>2, <3>3, <3>4, Zenon
  <2>3. CASE Ends(m, q) = {} /\ Envelopes(q) = {}
    <3>1. Ends(all, q) = {}
      BY <1>3, <2>3, Zenon
    <3> QED BY <1>4, <1>7, <2>3, <3>1, Zenon DEF Once
  <2> QED BY <2>1, <2>2, <2>3, Zenon
<1>9. \A q \in Requests : OwedOnce(q)' /\ OwedWhile(q)'
  BY <1>1, <1>3, <1>4, <1>8, SpokenDebt, Zenon
<1>10. \A q \in Requests : Submitted(q)' <=> Submitted(q)
  BY <1>1, Zenon DEF Submitted
<1>11. Stages'
  BY <1>1, <1>4, <1>10, Zenon DEF Debts, Stages, Vacant
<1> QED BY <1>9, <1>11, Zenon DEF Debts

(* The ways out: idle with nobody left to serve, a fatal error, a panic. *)
LEMMA ExitDebt ==
    ASSUME TypeOK, Debts, bridge # "down",
           (Commit /\ driver' # "drain") \/ Fatal \/ Panic
    PROVE  Debts'
<1>1. driver = "step" /\ lost = {}
  BY Zenon DEF Commit, Fatal, Panic, Debts, Stages
<1>2. Statement(statement) \in Seq(Messages)
      /\ \A q \in Requests : Ends(Statement(statement), q)
            = IF statement[q].terminal # None THEN {1} ELSE {}
  BY StatementMessage, Zenon DEF TypeOK
<1>3. WriteOff \in Seq(Messages)
      /\ \A q \in Requests : Ends(WriteOff, q) = IF Open(q) THEN {1} ELSE {}
  BY WriteOffMessage, Zenon DEF TypeOK
<1>4. ASSUME NEW q \in Requests, Open(q) PROVE statement[q].terminal = None
  <2>1. \A e \in Parties \ {"account"} : ~Owes(e, q)
    BY <1>4, SoleDebtor, Zenon DEF Owes, Parties, Debts
  <2> QED BY <2>1, Zenon DEF Owes, Parties
<1>5. CASE Commit /\ driver' # "drain"
  <2>1. Drop(Statement(statement)) /\ lost' = lost /\ \A q \in Requests : ~Open(q)
    BY <1>5, Zenon DEF Commit, Idle
  <2>2. ASSUME NEW q \in Requests
        PROVE  /\ Once(Ends(Statement(statement), q))
               /\ Ends(Statement(statement), q) = {} <=> statement[q].terminal = None
    BY <1>2, Zenon DEF Once
  <2> QED BY <1>1, <1>2, <2>1, <2>2, DropDebt, Zenon
<1>6. CASE Fatal
  <2> DEFINE m == Statement(statement) \o WriteOff
  <2>1. Drop(m) /\ lost' = lost
    BY <1>6, Zenon DEF Fatal
  <2>2. /\ m \in Seq(Messages)
        /\ \A q \in Requests : Ends(m, q)
              = Ends(Statement(statement), q) \cup {Len(Statement(statement)) + i : i \in Ends(WriteOff, q)}
    BY <1>2, <1>3, EndsConcat, Zenon
  <2> HIDE DEF m
  <2>3. ASSUME NEW q \in Requests
        PROVE  /\ Once(Ends(m, q))
               /\ Ends(m, q) = {} <=> (statement[q].terminal = None /\ ~Open(q))
    <3>1. CASE Open(q)
      <4>1. Ends(Statement(statement), q) = {} /\ Ends(WriteOff, q) = {1}
        BY <1>2, <1>3, <1>4, <3>1, Zenon
      <4>2. Ends(m, q) = {Len(Statement(statement)) + i : i \in {1}}
        BY <2>2, <4>1, Zenon
      <4> QED BY <3>1, <4>2, Zenon DEF Once
    <3>2. CASE ~Open(q)
      <4>1. Ends(WriteOff, q) = {}
        BY <1>3, <3>2, Zenon
      <4>2. Ends(m, q) = Ends(Statement(statement), q)
        <5>1. {Len(Statement(statement)) + i : i \in Ends(WriteOff, q)} = {}
          BY <4>1, Zenon
        <5> QED BY <2>2, <5>1, Zenon
      <4>3. Ends(m, q) = IF statement[q].terminal # None THEN {1} ELSE {}
        BY <1>2, <4>2, Zenon
      <4> QED BY <3>2, <4>3, Zenon DEF Once
    <3> QED BY <3>1, <3>2, Zenon
  <2> QED BY <1>1, <2>1, <2>2, <2>3, DropDebt, Zenon
<1>7. CASE Panic
  <2>1. Drop(WriteOff) /\ lost' = {q \in Requests : statement[q].terminal # None}
    BY <1>7, Zenon DEF Panic
  <2>2. ASSUME NEW q \in Requests
        PROVE  Once(Ends(WriteOff, q)) /\ (Ends(WriteOff, q) = {} <=> ~Open(q))
    BY <1>3, Zenon DEF Once
  <2> QED BY <1>1, <1>3, <1>4, <2>1, <2>2, DropDebt, Zenon
<1> QED BY <1>5, <1>6, <1>7, Zenon

LEMMA NextDebt == TypeOK /\ DebtInv /\ [Next]_vars => DebtInv'
<1> SUFFICES ASSUME TypeOK, DebtInv, [Next]_vars, bridge' # "down" PROVE Debts'
  BY Zenon DEF DebtInv
<1>1. CASE UNCHANGED vars
  <2>1. \A q \in Requests :
           /\ Envelopes(q)' = Envelopes(q) /\ Ends(steps, q)' = Ends(steps, q)
           /\ Open(q)' <=> Open(q)
           /\ Vacant(deferred[q])' <=> Vacant(deferred[q])
           /\ Vacant(statement[q])' <=> Vacant(statement[q])
           /\ Submitted(q)' <=> Submitted(q)
    BY <1>1, Zenon DEF vars, Envelopes, Ends, Open, Vacant, Submitted
  <2>2. Debts /\ UNCHANGED <<account, statement, deferred, driver, bridge, stream, answer, lost>>
    BY <1>1, Zenon DEF vars, DebtInv
  <2>3. \A q \in Requests : OwedOnce(q)' /\ OwedWhile(q)'
    BY <2>1, <2>2, DebtStays, Zenon DEF Debts
  <2> QED BY <2>1, <2>2, <2>3, Zenon DEF Debts, Stages
<1>2. CASE Next
  <2>1. bridge # "down" /\ ~Shutdown
    <3>1. ~Shutdown
      BY Zenon DEF Shutdown
    <3>2. ASSUME NEW r \in Requests, Submit(r) \/ OpenStream(r) \/ Abort(r)
          PROVE  bridge # "down"
      BY <3>2, ContractAssumption, Zenon DEF Submit, OpenStream, Abort
    <3>3. ASSUME NEW r \in Requests,
                 \/ Admit(r) \/ Reject(r) \/ PushTokens(r)
                 \/ Finish(r) \/ Fail(r) \/ Retire(r) \/ DeferFinish(r)
                 \/ Deliver(r, "finished") \/ Deliver(r, "failed")
          PROVE  bridge # "down"
      BY <3>3 DEF Admit, Reject, PushTokens, Finish, Fail, Retire, DeferFinish, Deliver,
         fixed, client
    <3>4. CASE DispatchStep \/ Register \/ Drained \/ Commit \/ Fatal \/ Panic
      BY <3>1, <3>4, Zenon DEF DispatchStep, Register, Drained, Commit, Fatal, Panic, Drop, frontend, client
    <3> QED BY <1>2, <3>1, <3>2, <3>3, <3>4, Zenon DEF Next
  <2>2. Debts
    BY <2>1, Zenon DEF DebtInv
  <2>3. CASE \E r \in Requests : Submit(r)
    BY <2>2, <2>3, SubmitDebt, Zenon
  <2>4. CASE \/ \E r \in Requests : OpenStream(r) \/ Abort(r) \/ Admit(r) \/ PushTokens(r)
             \/ Drained
    BY <2>1, <2>2, <2>4, QuietDebt, Zenon
  <2>5. CASE \E r \in Requests : Reject(r) \/ Finish(r) \/ Fail(r) \/ Retire(r) \/ DeferFinish(r)
    BY <2>2, <2>5, CloseDebt, Zenon
  <2>6. CASE \E r \in Requests : Deliver(r, "finished") \/ Deliver(r, "failed")
    BY <2>1, <2>2, <2>6, DeliverDebt, Zenon
  <2>7. CASE DispatchStep
    BY <2>2, <2>7, DispatchDebt, Zenon
  <2>8. CASE Register
    BY <2>2, <2>8, RegisterDebt, Zenon
  <2>9. CASE Commit \/ Fatal \/ Panic
    BY <2>1, <2>2, <2>9, CommitDebt, ExitDebt, Zenon
  <2> QED BY <1>2, <2>1, <2>3, <2>4, <2>5, <2>6, <2>7, <2>8, <2>9, Zenon DEF Next
<1> QED BY <1>1, <1>2, Zenon

LEMMA InitDebt == Init => DebtInv
<1> SUFFICES ASSUME Init PROVE Debts
  BY Zenon DEF DebtInv
<1>1. \A q \in Requests : /\ Envelopes(q) = {} /\ Ends(steps, q) = {} /\ ~Open(q)
                          /\ Vacant(deferred[q]) /\ Vacant(statement[q]) /\ ~Submitted(q)
  BY ContractAssumption DEF Init, Envelopes, Ends, Open, Vacant, Submitted
<1>2. \A q \in Requests : statement[q].terminal = None /\ answer[q] = None /\ q \notin lost
                          /\ account[q] = "none" /\ stream[q] = "new"
  BY EmptyUpdate, Zenon DEF Init
<1>3. \A q \in Requests, d \in Parties : ~Owes(d, q)
  BY <1>1, <1>2, Zenon DEF Owes
<1>4. \A q \in Requests : OwedOnce(q) /\ OwedWhile(q)
  BY <1>1, <1>3, Zenon DEF OwedOnce, OwedWhile, Once
<1>5. Stages
  BY <1>1, <1>2, Zenon DEF Init, Stages
<1> QED BY <1>4, <1>5, Zenon DEF Debts

LEMMA DebtorsOwe ==
    ASSUME NEW r \in Requests, OwedOnce(r)
    PROVE  /\ \A d, e \in Debtors(r) : d = e
           /\ (\E d \in Parties : Owes(d, r)) => Debtors(r) # {}
<1>1. \A t \in Debtors(r) :
         \/ t \in {"envelope"} \X Envelopes(r)
         \/ t \in {"message"} \X Ends(steps, r)
         \/ \E d \in {"account", "statement", "deferred", "answer", "lost"} :
               t = <<d, 0>> /\ Owes(d, r)
  BY Zenon DEF Debtors, Owes
<1>2. \A t \in Debtors(r) : t[1] \in Parties /\ Owes(t[1], r)
  BY <1>1 DEF Owes, Parties
<1>3. ASSUME NEW d \in Debtors(r), NEW e \in Debtors(r) PROVE d = e
  <2>1. d[1] = e[1]
    BY <1>2, Zenon DEF OwedOnce, Once
  <2>2. CASE d \in {"envelope"} \X Envelopes(r)
    BY <1>1, <2>1, <2>2 DEF OwedOnce, Once
  <2>3. CASE d \in {"message"} \X Ends(steps, r)
    BY <1>1, <2>1, <2>3 DEF OwedOnce, Once
  <2>4. CASE \E c \in {"account", "statement", "deferred", "answer", "lost"} : d = <<c, 0>>
    BY <1>1, <2>1, <2>4
  <2> QED BY <1>1, <2>2, <2>3, <2>4, Zenon
<1>4. ASSUME NEW d \in Parties, Owes(d, r) PROVE Debtors(r) # {}
  <2>1. CASE d = "envelope"
    <3>1. PICK i \in Envelopes(r) : TRUE
      BY <1>4, <2>1, Zenon DEF Owes
    <3>2. <<"envelope", i>> \in Debtors(r)
      BY Zenon DEF Debtors
    <3> QED BY <3>2, Zenon
  <2>2. CASE d = "message"
    <3>1. PICK i \in Ends(steps, r) : TRUE
      BY <1>4, <2>2, Zenon DEF Owes
    <3>2. <<"message", i>> \in Debtors(r)
      BY Zenon DEF Debtors
    <3> QED BY <3>2, Zenon
  <2>3. CASE d \in {"account", "statement", "deferred", "answer", "lost"}
    BY <1>4, <2>3, ZenonT(30) DEF Owes, Debtors
  <2> QED BY <2>1, <2>2, <2>3, Zenon DEF Parties
<1> QED BY <1>3, <1>4, Zenon

(* Any number of requests, any scheduler that keeps to the trait, fatal    *)
(* errors, panics and submissions that race the driver's exit: every       *)
(* submitted request has exactly one party that owes it its answer or has  *)
(* given it (RequestLedger's terminal exactly once).                       *)
THEOREM OneDebtorAlways == Spec => []OneDebtor
<1>1. TypeOK /\ DebtInv => OneDebtor
  BY DebtorsOwe, Zenon DEF DebtInv, Debts, OwedWhile, OneDebtor
<1> QED BY <1>1, InitType, InitDebt, NextType, NextDebt, PTL DEF Spec

-----------------------------------------------------------------------------
(***************************************************************************)
(* The flow of tokens to a client.                                         *)
(***************************************************************************)

(* Tokens that continue a count. *)
Run(tokens, from) == \A j \in 1 .. Len(tokens) : tokens[j] = from + j

(* An update that continues a client's count of tokens, and ends it right. *)
Continues(update, from) ==
    /\ Run(update.tokens, from)
    /\ update.terminal.kind = "finished" => update.terminal.count = from + Len(update.tokens)
    /\ update.terminal.kind = "failed" => update.terminal.count >= from + Len(update.tokens)

(* What a message says to request r. *)
Said(message, r) == IF r \in DOMAIN message THEN message[r] ELSE Empty

(* Each message continues where the one before it ended: mark[i] is how    *)
(* many tokens the client has when it has message i.                       *)
Marks(messages, r, mark) ==
    \A i \in 1 .. Len(messages) :
        /\ Continues(Said(messages[i], r), mark[i - 1])
        /\ mark[i] = mark[i - 1] + Len(Said(messages[i], r).tokens)

(* The messages take r's client from one count to another. *)
Carries(messages, r, from, to) ==
    \E mark \in [0 .. Len(messages) -> 0 .. to] :
        mark[0] = from /\ mark[Len(messages)] = to /\ Marks(messages, r, mark)

(* What the ledger and a deferred finish hold goes on from there. *)
Tip(r, n) ==
    /\ Continues(statement[r], n)
    /\ Continues(deferred[r], n)
    /\ Open(r) => tally[r] = n + Len(statement[r].tokens)
    /\ account[r] = "none" => n = 0 /\ tally[r] = 0 /\ Vacant(statement[r]) /\ Vacant(deferred[r])

Flow(r) ==
    /\ Envelopes(r) # {} => account[r] = "none"
    /\ stream[r] \in {"new", "open"} =>
          /\ answer[r] = None
          /\ \E n \in Nat : Carries(steps, r, Len(got[r]), n) /\ Tip(r, n)

Adds(r) ==
    /\ Run(got[r], 0)
    /\ answer[r].kind = "finished" => Len(got[r]) = answer[r].count
    /\ answer[r].kind = "failed" => Len(got[r]) <= answer[r].count

(* The inductive invariant of the flow. *)
FlowInv ==
    /\ \A r \in Requests : Adds(r)
    /\ bridge # "down" => \A r \in Requests : Flow(r)

LEMMA RunAppend ==
    ASSUME NEW s \in Seq(Nat), NEW n \in Nat, Run(s, n), NEW x, x = n + Len(s) + 1
    PROVE  Run(Append(s, x), n) /\ Len(Append(s, x)) = Len(s) + 1
<1>1. Len(Append(s, x)) = Len(s) + 1
  OBVIOUS
<1>2. ASSUME NEW j \in 1 .. Len(s) + 1 PROVE Append(s, x)[j] = n + j
  <2>1. CASE j <= Len(s)
    BY <2>1 DEF Run
  <2>2. CASE j = Len(s) + 1
    BY <2>2
  <2> QED BY <2>1, <2>2
<1> QED BY <1>1, <1>2, Zenon DEF Run

LEMMA RunConcat ==
    ASSUME NEW s \in Seq(Nat), NEW t \in Seq(Nat), NEW n \in Nat, Run(s, n), Run(t, n + Len(s))
    PROVE  Run(s \o t, n) /\ Len(s \o t) = Len(s) + Len(t)
<1>1. Len(s \o t) = Len(s) + Len(t)
  OBVIOUS
<1>2. ASSUME NEW j \in 1 .. Len(s) + Len(t) PROVE (s \o t)[j] = n + j
  <2>1. CASE j <= Len(s)
    BY <2>1 DEF Run
  <2>2. CASE j > Len(s)
    <3>1. j - Len(s) \in 1 .. Len(t) /\ (s \o t)[j] = t[j - Len(s)]
      BY <2>2
    <3>2. t[j - Len(s)] = n + Len(s) + (j - Len(s))
      BY <3>1, Zenon DEF Run
    <3> QED BY <3>1, <3>2
  <2> QED BY <2>1, <2>2
<1> QED BY <1>1, <1>2, Zenon DEF Run

(* A message says an update to every request. *)
LEMMA SaidUpdate ==
    ASSUME NEW m \in Messages, NEW q
    PROVE  Said(m, q) \in Updates /\ Said(m, q).tokens \in Seq(Nat)
<1>1. PICK R \in SUBSET Requests : m \in [R -> Updates]
  BY Zenon DEF Messages
<1>2. Said(m, q) \in Updates
  BY <1>1, EmptyUpdate, Zenon DEF Said
<1> QED BY <1>2, Zenon DEF Updates

LEMMA ContinuesEmpty ==
    ASSUME NEW n \in Nat
    PROVE  Continues(Empty, n)
BY EmptyUpdate DEF Continues, Run, None

LEMMA ContinuesAnswering ==
    ASSUME NEW n \in Nat, NEW count \in Nat, count >= n
    PROVE  Continues(Answering("failed", count), n)
<1>1. /\ Answering("failed", count).terminal = Terminal("failed", count)
      /\ Answering("failed", count).tokens = <<>>
  BY AnsweringUpdate, Zenon
<1>2. Terminal("failed", count).kind = "failed" /\ Terminal("failed", count).count = count
  BY Zenon DEF Terminal
<1> QED BY <1>1, <1>2 DEF Continues, Run

(* Messages without tokens leave the count. *)
LEMMA CarriesSame ==
    ASSUME NEW m \in Seq(Messages), NEW q, NEW n \in Nat,
           \A i \in 1 .. Len(m) : Continues(Said(m[i], q), n) /\ Said(m[i], q).tokens = <<>>
    PROVE  Carries(m, q, n, n)
<1> DEFINE mark == [i \in 0 .. Len(m) |-> n]
<1>1. mark \in [0 .. Len(m) -> 0 .. n] /\ mark[0] = n /\ mark[Len(m)] = n
  OBVIOUS
<1>2. \A i \in 1 .. Len(m) : mark[i] = n /\ mark[i - 1] = n
  OBVIOUS
<1> HIDE DEF mark
<1>3. Marks(m, q, mark)
  BY <1>2 DEF Marks
<1> QED BY <1>1, <1>3, Zenon DEF Carries

LEMMA CarriesOne ==
    ASSUME NEW m \in Messages, NEW q, NEW n \in Nat, Continues(Said(m, q), n)
    PROVE  Carries(<<m>>, q, n, n + Len(Said(m, q).tokens))
<1> DEFINE to == n + Len(Said(m, q).tokens)
           mark == [i \in 0 .. 1 |-> IF i = 0 THEN n ELSE to]
<1>1. to \in Nat /\ n <= to
  BY SaidUpdate
<1>2. mark \in [0 .. 1 -> 0 .. to] /\ mark[0] = n /\ mark[1] = to
  BY <1>1
<1>3. Len(<<m>>) = 1 /\ <<m>>[1] = m
  BY Zenon
<1>4. to = n + Len(Said(m, q).tokens)
  BY Zenon
<1> HIDE DEF mark, to
<1>5. Marks(<<m>>, q, mark)
  BY <1>2, <1>3, <1>4 DEF Marks
<1> QED BY <1>2, <1>3, <1>4, <1>5, Zenon DEF Carries

LEMMA CarriesConcat ==
    ASSUME NEW s \in Seq(Messages), NEW m \in Seq(Messages), NEW q,
           NEW a \in Nat, NEW b \in Nat, NEW c \in Nat,
           Carries(s, q, a, b), Carries(m, q, b, c)
    PROVE  Carries(s \o m, q, a, c)
<1>1. PICK f \in [0 .. Len(s) -> 0 .. b] : f[0] = a /\ f[Len(s)] = b /\ Marks(s, q, f)
  BY Zenon DEF Carries
<1>2. PICK g \in [0 .. Len(m) -> 0 .. c] : g[0] = b /\ g[Len(m)] = c /\ Marks(m, q, g)
  BY Zenon DEF Carries
<1> DEFINE h == [i \in 0 .. Len(s) + Len(m) |-> IF i <= Len(s) THEN f[i] ELSE g[i - Len(s)]]
<1>3. Len(s) \in Nat /\ Len(m) \in Nat /\ Len(s \o m) = Len(s) + Len(m)
  OBVIOUS
<1>4. b <= c
  BY <1>2, <1>3
<1>5. \A i \in 0 .. Len(s) : h[i] = f[i]
  BY <1>3
<1>6. \A i \in 0 .. Len(m) : h[Len(s) + i] = g[i]
  <2> TAKE i \in 0 .. Len(m)
  <2>1. CASE i = 0
    BY <1>1, <1>2, <1>3, <1>5, <2>1
  <2>2. CASE i > 0
    BY <1>3, <2>2
  <2> QED BY <1>3, <2>1, <2>2
<1>7. h \in [0 .. Len(s) + Len(m) -> 0 .. c]
  BY <1>1, <1>2, <1>3, <1>4
<1>8. h[0] = a /\ h[Len(s) + Len(m)] = c
  BY <1>1, <1>2, <1>3, <1>5, <1>6
<1> HIDE DEF h
<1>9. ASSUME NEW i \in 1 .. Len(s) + Len(m)
      PROVE  /\ Continues(Said((s \o m)[i], q), h[i - 1])
             /\ h[i] = h[i - 1] + Len(Said((s \o m)[i], q).tokens)
  <2>1. CASE i <= Len(s)
    <3>1. i \in 1 .. Len(s) /\ (s \o m)[i] = s[i] /\ h[i] = f[i] /\ h[i - 1] = f[i - 1]
      BY <1>3, <1>5, <2>1
    <3> QED BY <1>1, <3>1, Zenon DEF Marks
  <2>2. CASE i > Len(s)
    <3>1. PICK j \in 1 .. Len(m) : i = Len(s) + j
      <4>1. i - Len(s) \in 1 .. Len(m) /\ i = Len(s) + (i - Len(s))
        BY <1>3, <2>2
      <4> QED BY <4>1, Zenon
    <3>2. (s \o m)[i] = m[j] /\ h[i] = g[j]
      BY <1>3, <1>6, <3>1
    <3>3. j - 1 \in 0 .. Len(m) /\ i - 1 = Len(s) + (j - 1)
      BY <1>3, <3>1
    <3>4. h[i - 1] = g[j - 1]
      BY <1>6, <3>3, Zenon
    <3> QED BY <1>2, <3>1, <3>2, <3>4, Zenon DEF Marks
  <2> QED BY <1>3, <2>1, <2>2
<1>10. Marks(s \o m, q, h)
  BY <1>3, <1>9, Zenon DEF Marks
<1> QED BY <1>3, <1>7, <1>8, <1>10, Zenon DEF Carries

(* The first message continues the count, the others go on from there. *)
LEMMA CarriesTail ==
    ASSUME NEW s \in Seq(Messages), s # <<>>, NEW q, NEW a \in Nat, NEW b \in Nat,
           Carries(s, q, a, b)
    PROVE  LET n == Len(Said(Head(s), q).tokens)
           IN  /\ n \in Nat /\ a + n <= b
               /\ Continues(Said(Head(s), q), a) /\ Carries(Tail(s), q, a + n, b)
<1>1. PICK f \in [0 .. Len(s) -> 0 .. b] : f[0] = a /\ f[Len(s)] = b /\ Marks(s, q, f)
  BY Zenon DEF Carries
<1>2. /\ Len(s) \in Nat /\ Len(s) >= 1 /\ s[1] = Head(s) /\ Head(s) \in Messages
      /\ Tail(s) \in Seq(Messages) /\ Len(Tail(s)) = Len(s) - 1
      /\ \A i \in 1 .. Len(s) - 1 : Tail(s)[i] = s[i + 1]
  OBVIOUS
<1> DEFINE n == Len(Said(Head(s), q).tokens)
           g == [i \in 0 .. Len(s) - 1 |-> f[i + 1]]
<1>3. n \in Nat
  BY <1>2, SaidUpdate
<1>4. Continues(Said(Head(s), q), a) /\ f[1] = a + n
  BY <1>1, <1>2 DEF Marks
<1>5. \A i \in 0 .. Len(s) - 1 : g[i] = f[i + 1]
  BY Zenon
<1>6. g \in [0 .. Len(s) - 1 -> 0 .. b]
  BY <1>1, <1>2
<1> HIDE DEF g, n
<1>7. g[0] = a + n /\ g[Len(s) - 1] = b
  BY <1>1, <1>2, <1>4, <1>5
<1>8. ASSUME NEW i \in 1 .. Len(s) - 1
      PROVE  /\ Continues(Said(Tail(s)[i], q), g[i - 1])
             /\ g[i] = g[i - 1] + Len(Said(Tail(s)[i], q).tokens)
  <2>1. i + 1 \in 1 .. Len(s) /\ (i + 1) - 1 = i /\ g[i] = f[i + 1] /\ g[i - 1] = f[i]
    BY <1>2, <1>5
  <2> QED BY <1>1, <1>2, <2>1, Zenon DEF Marks
<1>9. Marks(Tail(s), q, g)
  BY <1>2, <1>8, Zenon DEF Marks
<1>10. a + n <= b
  BY <1>1, <1>2, <1>4
<1>11. Carries(Tail(s), q, a + n, b)
  BY <1>2, <1>6, <1>7, <1>9, Zenon DEF Carries
<1> QED BY <1>3, <1>4, <1>10, <1>11, Zenon DEF n

-----------------------------------------------------------------------------
LEMMA FlowStays ==
    ASSUME NEW q \in Requests, Flow(q), steps' = steps, Envelopes(q)' = Envelopes(q),
           got'[q] = got[q], answer'[q] = answer[q], account'[q] = account[q],
           tally'[q] = tally[q], statement'[q] = statement[q], deferred'[q] = deferred[q],
           stream'[q] \in {"new", "open"} => stream[q] \in {"new", "open"}
    PROVE  Flow(q)'
<1>1. \A n : Tip(q, n)' <=> Tip(q, n)
  BY Zenon DEF Tip, Open, Vacant
<1> QED BY <1>1, Zenon DEF Flow

LEMMA FlowSent ==
    ASSUME TypeOK, bridge # "down", NEW m \in Seq(Messages), Send(m),
           NEW q \in Requests, got'[q] = got[q], NEW n \in Nat, NEW c \in Nat,
           Carries(steps, q, Len(got[q]), n), Carries(m, q, n, c)
    PROVE  Carries(steps, q, Len(got[q]), c)'
<1>1. steps \in Seq(Messages) /\ Len(got[q]) \in Nat
  BY DEF TypeOK, ChannelsOK, BridgeOK
<1>2. Carries(steps \o m, q, Len(got[q]), c)
  BY <1>1, CarriesConcat, Zenon
<1>3. steps' = steps \o m
  BY Zenon DEF Send
<1> QED BY <1>2, <1>3, Zenon

(* A request that owes has an account, or is yet to have one. *)
LEMMA OpenFlow ==
    ASSUME NEW r \in Requests, Debts, Open(r)
    PROVE  /\ statement[r].terminal = None /\ Vacant(deferred[r]) /\ account[r] # "none"
           /\ Envelopes(r) = {}
<1>1. \A e \in Parties \ {"account"} : ~Owes(e, r)
  BY SoleDebtor, Zenon DEF Owes, Parties, Debts
<1>2. account[r] # "none"
  BY Zenon DEF Open
<1> QED BY <1>1, <1>2, Zenon DEF Owes, Parties

(* The scheduler's steps. *)
LEMMA LedgerFlow ==
    ASSUME TypeOK, Debts, \A q \in Requests : Flow(q), NEW r \in Requests,
           \/ Admit(r) \/ Reject(r) \/ PushTokens(r)
           \/ Finish(r) \/ Fail(r) \/ Retire(r) \/ DeferFinish(r)
    PROVE  \A q \in Requests : Flow(q)'
<1>1. UNCHANGED <<submissions, steps, stream, got, answer>>
  BY Zenon DEF Admit, Reject, PushTokens, Finish, Fail, Retire, DeferFinish, fixed, client
<1>2. Open(r)
  BY Zenon DEF Admit, Reject, PushTokens, Finish, Fail, Retire, DeferFinish, Open
<1>3. statement[r].terminal = None /\ Vacant(deferred[r]) /\ Envelopes(r) = {}
  BY <1>2, OpenFlow, Zenon
<1>4. \A q \in Requests : Envelopes(q)' = Envelopes(q)
  BY <1>1, Zenon DEF Envelopes
<1>5. ASSUME NEW q \in Requests \ {r} PROVE Flow(q)'
  <2>1. account'[q] = account[q] /\ tally'[q] = tally[q]
        /\ statement'[q] = statement[q] /\ deferred'[q] = deferred[q]
    BY Zenon DEF Admit, Reject, PushTokens, Finish, Fail, Retire, DeferFinish, TypeOK, LedgerOK
  <2> QED BY <1>1, <1>4, <2>1, FlowStays, Zenon
<1>6. account'[r] \in {"active", "closed"}
  BY Zenon DEF Admit, Reject, PushTokens, Finish, Fail, Retire, DeferFinish, TypeOK, LedgerOK
<1>7. statement[r] \in Updates /\ tally[r] \in Nat /\ statement[r].tokens \in Seq(Nat)
  BY Zenon DEF TypeOK, LedgerOK, Updates
<1>8. ASSUME stream[r] \in {"new", "open"}, NEW n \in Nat, Tip(r, n) PROVE Tip(r, n)'
  <2>1. /\ Run(statement[r].tokens, n) /\ tally[r] = n + Len(statement[r].tokens)
    BY <1>2, <1>8, Zenon DEF Tip, Continues
  <2>2. Continues(Empty, n)
    BY ContinuesEmpty, Zenon
  <2>3. CASE Admit(r)
    <3>1. /\ tally'[r] = tally[r] /\ deferred'[r] = deferred[r]
          /\ statement'[r].tokens = statement[r].tokens
          /\ statement'[r].terminal = statement[r].terminal
      BY <1>7, <2>3, Zenon DEF Admit, TypeOK, LedgerOK, Updates
    <3> QED BY <1>6, <1>8, <2>1, <3>1, Zenon DEF Tip, Continues
  <2>4. CASE PushTokens(r)
    <3>1. /\ tally'[r] = tally[r] + 1 /\ deferred'[r] = deferred[r]
          /\ statement'[r].tokens = Append(statement[r].tokens, tally[r] + 1)
          /\ statement'[r].terminal = None
      BY <1>3, <1>7, <2>4, Zenon DEF PushTokens, TypeOK, LedgerOK, Updates
    <3>2. Run(statement'[r].tokens, n)
          /\ Len(statement'[r].tokens) = Len(statement[r].tokens) + 1
      <4>1. tally[r] + 1 = n + Len(statement[r].tokens) + 1
        BY <1>7, <2>1, Zenon
      <4>2. /\ Run(Append(statement[r].tokens, tally[r] + 1), n)
            /\ Len(Append(statement[r].tokens, tally[r] + 1)) = Len(statement[r].tokens) + 1
        BY <1>7, <2>1, <4>1, RunAppend, Zenon
      <4> QED BY <3>1, <4>2, Zenon
    <3>3. tally'[r] = n + Len(statement'[r].tokens)
      <4>1. PICK k \in Nat : k = Len(statement[r].tokens)
        BY <1>7
      <4>2. tally[r] = n + k /\ Len(statement'[r].tokens) = k + 1
        BY <2>1, <3>2, <4>1, Zenon
      <4>3. n + k + 1 = n + (k + 1)
        OBVIOUS
      <4> QED BY <3>1, <4>2, <4>3, Zenon
    <3>4. Continues(statement'[r], n)
      BY <3>1, <3>2 DEF Continues, None
    <3>5. Continues(deferred'[r], n) /\ account'[r] # "none"
      BY <1>6, <1>8, <3>1, Zenon DEF Tip
    <3> QED BY <3>3, <3>4, <3>5, Zenon DEF Tip
  <2>5. CASE Reject(r) \/ Finish(r) \/ Fail(r)
    <3>1. PICK kind \in {"finished", "failed", "rejected"}, k \in Nat :
             /\ statement' = [statement EXCEPT ![r].terminal = Terminal(kind, k)]
             /\ kind # "rejected" => k = tally[r]
      BY <1>7, <2>5, Zenon DEF Reject, Finish, Fail
    <3>2. statement'[r] = [statement[r] EXCEPT !.terminal = Terminal(kind, k)]
      BY <3>1, Zenon DEF TypeOK, LedgerOK
    <3>3. Terminal(kind, k) \in Terminals
      BY AnsweringUpdate, Zenon
    <3>4. statement'[r].terminal = Terminal(kind, k) /\ statement'[r].tokens = statement[r].tokens
      BY <1>7, <3>2, <3>3, EndingUpdate
    <3>5. Terminal(kind, k).kind = kind /\ Terminal(kind, k).count = k
      BY Zenon DEF Terminal
    <3>6. Continues(statement'[r], n)
      BY <1>7, <2>1, <3>1, <3>4, <3>5 DEF Continues
    <3>7. account'[r] = "closed" /\ deferred'[r] = deferred[r]
      BY <2>5, Zenon DEF Reject, Finish, Fail, TypeOK, LedgerOK
    <3> QED BY <1>8, <3>6, <3>7, Zenon DEF Tip, Open
  <2>6. CASE Retire(r)
    BY <1>8, <2>6, Zenon DEF Retire
  <2>7. CASE DeferFinish(r)
    <3>1. /\ deferred'[r] = [statement[r] EXCEPT !.terminal = Terminal("finished", tally[r])]
          /\ statement'[r] = Empty /\ account'[r] = "closed"
      BY <2>7, Zenon DEF DeferFinish, TypeOK, LedgerOK
    <3>2. /\ deferred'[r].terminal = Terminal("finished", tally[r])
          /\ deferred'[r].tokens = statement[r].tokens
      BY <1>7, <3>1, AnsweringUpdate, EndingUpdate
    <3>3. Terminal("finished", tally[r]).kind = "finished"
          /\ Terminal("finished", tally[r]).count = tally[r]
      BY Zenon DEF Terminal
    <3>4. Continues(deferred'[r], n)
      BY <2>1, <3>2, <3>3, Zenon DEF Continues
    <3> QED BY <2>2, <3>1, <3>4, Zenon DEF Tip, Open
  <2> QED BY <2>3, <2>4, <2>5, <2>6, <2>7, Zenon
<1>9. Flow(r)'
  <2>1. Envelopes(r)' = {}
    BY <1>3, <1>4, Zenon
  <2> QED BY <1>1, <1>8, <2>1, Zenon DEF Flow
<1> QED BY <1>5, <1>9, Zenon

(* OpenStream, Abort, Drained and Register leave the stream as it is. *)
LEMMA StillFlow ==
    ASSUME TypeOK, Debts, \A q \in Requests : Flow(q),
           (\E r \in Requests : OpenStream(r) \/ Abort(r)) \/ Drained \/ Register
    PROVE  \A q \in Requests : Flow(q)'
<1>1. CASE (\E r \in Requests : OpenStream(r) \/ Abort(r)) \/ Drained
  <2>1. UNCHANGED <<submissions, account, tally, statement, deferred, steps, got, answer>>
    BY <1>1, Zenon DEF OpenStream, Abort, Drained, books, frontend, client
  <2>2. \A q \in Requests : stream'[q] \in {"new", "open"} => stream[q] \in {"new", "open"}
    BY <1>1, Zenon DEF OpenStream, Abort, Drained, frontend, client, TypeOK, BridgeOK, Debts, Stages
  <2>3. \A q \in Requests : Envelopes(q)' = Envelopes(q)
    BY <2>1, Zenon DEF Envelopes
  <2> QED BY <2>1, <2>2, <2>3, FlowStays, Zenon
<1>2. CASE Register
  <2>1. submissions \in Seq(Requests) /\ submissions # <<>> /\ submissions' = Tail(submissions)
    BY <1>2, Zenon DEF Register, TypeOK, ChannelsOK
  <2>2. PICK h \in Requests : h = Head(submissions)
    BY <2>1
  <2>3. UNCHANGED <<tally, statement, steps, deferred, stream, got, answer>>
    BY <1>2, Zenon DEF Register, frontend, client
  <2>4. account'[h] = "queued" /\ \A q \in Requests \ {h} : account'[q] = account[q]
    BY <1>2, <2>1, <2>2, Zenon DEF Register, TypeOK, LedgerOK
  <2>5. \A q \in Requests :
           /\ q = h => Envelopes(q) # {} /\ Envelopes(q)' = {}
           /\ q # h => (Envelopes(q)' = {} <=> Envelopes(q) = {})
    BY <2>1, <2>2, Received, Zenon DEF Debts, OwedOnce
  <2>6. ASSUME NEW q \in Requests \ {h} PROVE Flow(q)'
    <3>1. \A n : Tip(q, n)' <=> Tip(q, n)
      BY <2>3, <2>4, Zenon DEF Tip, Open, Vacant
    <3> QED BY <2>3, <2>4, <2>5, <3>1, Zenon DEF Flow
  <2>7. Flow(h)'
    <3>1. account[h] = "none" /\ Envelopes(h)' = {}
      BY <2>5, Zenon DEF Flow
    <3>2. ASSUME NEW n \in Nat, Tip(h, n) PROVE Tip(h, n)'
      <4>1. n = 0 /\ tally[h] = 0 /\ statement[h].tokens = <<>>
        BY <3>1, <3>2, EmptyUpdate, Zenon DEF Tip, Vacant
      <4> QED BY <2>3, <2>4, <3>2, <4>1 DEF Tip
    <3> QED BY <2>3, <3>1, <3>2, Zenon DEF Flow
  <2> QED BY <2>6, <2>7, Zenon
<1> QED BY <1>1, <1>2, Zenon

LEMMA OnlyCarries ==
    ASSUME NEW r \in Requests, NEW u \in Updates, NEW q \in Requests, NEW n \in Nat,
           q = r => Continues(u, n)
    PROVE  Carries(<<Only(r, u)>>, q, n, IF q = r THEN n + Len(u.tokens) ELSE n)
<1>1. Only(r, u) \in Messages
  BY OnlyMessage, Zenon
<1>2. Said(Only(r, u), q) = IF q = r THEN u ELSE Empty
  BY Zenon DEF Said, Only
<1>3. Continues(Said(Only(r, u), q), n)
  BY <1>2, ContinuesEmpty, Zenon
<1>4. Carries(<<Only(r, u)>>, q, n, n + Len(Said(Only(r, u), q).tokens))
  BY <1>1, <1>3, CarriesOne, Zenon
<1>5. q # r => n + Len(Said(Only(r, u), q).tokens) = n
  BY <1>2, EmptyUpdate
<1> QED BY <1>2, <1>4, <1>5, Zenon

LEMMA SubmitFlow ==
    ASSUME TypeOK, Debts, \A q \in Requests : Flow(q), NEW r \in Requests, Submit(r)
    PROVE  \A q \in Requests : Flow(q)'
<1>1. UNCHANGED <<account, tally, statement, deferred, stream, got, answer>>
      /\ bridge = "loop" /\ stream[r] = "new"
  BY Zenon DEF Submit, books
<1>2. account[r] = "none"
  BY <1>1, ContractAssumption, Zenon DEF Debts, Stages, Submitted
<1>3. \A q \in Requests : \A n : Tip(q, n)' <=> Tip(q, n)
  BY <1>1, Zenon DEF Tip, Open, Vacant
<1>4. submissions \in Seq(Requests)
  BY Zenon DEF TypeOK, ChannelsOK
<1>5. \A q \in Requests \ {r} : Envelopes(q)' = Envelopes(q)
  BY <1>4 DEF Submit, Envelopes
<1>6. CASE driver = "exited"
  <2> DEFINE bomb == <<Only(r, Answering("failed", 0))>>
  <2>1. bomb \in Seq(Messages) /\ Answering("failed", 0) \in Updates
        /\ Answering("failed", 0).tokens = <<>>
    BY AnsweringUpdate, OnlyMessage, Zenon
  <2>2. Send(bomb) /\ bridge # "down"
    BY <1>1, <1>6, Zenon DEF Submit
  <2>3. ASSUME NEW q \in Requests, NEW n \in Nat, Tip(q, n) PROVE Carries(bomb, q, n, n)
    <3>1. q = r => Continues(Answering("failed", 0), n)
      BY <1>2, <2>3, ContinuesAnswering DEF Tip
    <3>2. Carries(bomb, q, n, IF q = r THEN n + Len(Answering("failed", 0).tokens) ELSE n)
      BY <2>1, <3>1, OnlyCarries, Zenon
    <3> QED BY <2>1, <3>2
  <2> HIDE DEF bomb
  <2>4. ASSUME NEW q \in Requests, NEW n \in Nat,
               Carries(steps, q, Len(got[q]), n), Tip(q, n)
        PROVE  Carries(steps, q, Len(got[q]), n)'
    <3>1. Carries(bomb, q, n, n) /\ got'[q] = got[q]
      BY <1>1, <2>3, <2>4, Zenon
    <3> QED BY <2>1, <2>2, <2>4, <3>1, FlowSent, Zenon
  <2> QED BY <1>1, <1>2, <1>3, <1>5, <2>4, Zenon DEF Flow
<1>7. CASE driver # "exited"
  <2>1. steps' = steps
    BY <1>7, Zenon DEF Submit
  <2> QED BY <1>1, <1>2, <1>3, <1>5, <2>1, Zenon DEF Flow
<1> QED BY <1>6, <1>7, Zenon

(* A deferred finish leaves when the statement has nothing of its request. *)
LEMMA DeferredFlow ==
    ASSUME NEW r \in Requests, Debts, ~Vacant(deferred[r])
    PROVE  ~Open(r) /\ Vacant(statement[r]) /\ deferred[r].terminal.kind = "finished"
           /\ Envelopes(r) = {}
<1>1. \A e \in Parties \ {"deferred"} : ~Owes(e, r)
  BY SoleDebtor, Zenon DEF Owes, Parties, Debts
<1>2. ~Open(r) /\ statement[r].terminal = None /\ Envelopes(r) = {}
  BY <1>1, Zenon DEF Owes, Parties
<1> QED BY <1>2, Zenon DEF Debts, Stages

LEMMA DeliverFlow ==
    ASSUME TypeOK, Debts, bridge # "down", \A q \in Requests : Flow(q),
           NEW r \in Requests, NEW kind \in {"finished", "failed"}, Deliver(r, kind)
    PROVE  \A q \in Requests : Flow(q)'
<1> DEFINE end == [deferred[r].terminal EXCEPT !.kind = kind]
           update == [deferred[r] EXCEPT !.terminal.kind = kind]
           m == <<Only(r, update)>>
<1>1. UNCHANGED <<submissions, account, tally, statement, stream, got, answer>>
  BY Zenon DEF Deliver, books, client
<1>2. Send(m)
  BY Zenon DEF Deliver
<1>3. deferred'[r] = Empty /\ \A q \in Requests \ {r} : deferred'[q] = deferred[q]
  BY Zenon DEF Deliver, TypeOK, LedgerOK
<1>4. ~Open(r) /\ Vacant(statement[r]) /\ deferred[r].terminal.kind = "finished"
      /\ Envelopes(r) = {}
  BY DeferredFlow, Zenon DEF Deliver
<1>5. deferred[r] \in Updates
  BY Zenon DEF TypeOK, LedgerOK
<1>6. /\ update \in Updates /\ update.tokens = deferred[r].tokens
      /\ update.terminal.kind = kind /\ update.terminal.count = deferred[r].terminal.count
  <2>1. end \in Terminals /\ end.kind = kind /\ end.count = deferred[r].terminal.count
    BY <1>5, Zenon DEF Updates, Terminals
  <2> QED BY <1>5, <2>1, EndingUpdate, Zenon
<1>7. m \in Seq(Messages)
  BY <1>6, OnlyMessage, Zenon
<1>8. \A q \in Requests : Envelopes(q)' = Envelopes(q)
  BY <1>1, Zenon DEF Envelopes
<1>9. \A n : Continues(deferred[r], n) => Continues(update, n)
  <2>1. deferred[r].tokens \in Seq(Nat) /\ deferred[r].terminal.count \in Nat
    BY <1>5, Zenon DEF Updates, Terminals
  <2> QED BY <1>4, <1>6, <2>1 DEF Continues
<1>10. PICK k \in Nat : k = Len(update.tokens)
  BY <1>6 DEF Updates
<1> DEFINE next(q, n) == IF q = r THEN n + k ELSE n
<1>11. ASSUME NEW q \in Requests, NEW n \in Nat, Tip(q, n) PROVE Carries(m, q, n, next(q, n))
  <2>1. q = r => Continues(update, n)
    BY <1>9, <1>11, Zenon DEF Tip
  <2> HIDE DEF update
  <2>2. Carries(<<Only(r, update)>>, q, n, IF q = r THEN n + Len(update.tokens) ELSE n)
    BY <1>6, <2>1, OnlyCarries, Zenon
  <2> QED BY <1>10, <2>2, Zenon
<1> HIDE DEF m, update
<1>12. \A q \in Requests, n \in Nat : next(q, n) \in Nat
  OBVIOUS
<1>13. ASSUME NEW q \in Requests, NEW n \in Nat, Tip(q, n) PROVE Tip(q, next(q, n))'
  <2>1. CASE q # r
    BY <1>1, <1>3, <1>13, <2>1, Zenon DEF Tip, Open, Vacant
  <2>2. CASE q = r
    <3>1. Continues(Empty, n + k)
      BY ContinuesEmpty
    <3>2. account[r] # "none"
      BY <1>13, <2>2, Zenon DEF Tip, Deliver
    <3>3. statement'[r] = Empty /\ ~Open(r)' /\ account'[r] # "none"
      BY <1>1, <1>4, <3>2, Zenon DEF Vacant, Open
    <3>4. Tip(r, n + k)'
      BY <1>3, <3>1, <3>3, Zenon DEF Tip
    <3> QED BY <2>2, <3>4, Zenon
  <2> QED BY <2>1, <2>2, Zenon
<1>14. ASSUME NEW q \in Requests, NEW n \in Nat, Carries(steps, q, Len(got[q]), n), Tip(q, n)
       PROVE  Carries(steps, q, Len(got[q]), next(q, n))'
  <2>1. got'[q] = got[q] /\ next(q, n) \in Nat /\ Carries(m, q, n, next(q, n))
    BY <1>1, <1>11, <1>12, <1>14, Zenon
  <2> QED BY <1>2, <1>7, <1>14, <2>1, FlowSent, Zenon
<1> HIDE DEF next
<1>15. ASSUME NEW q \in Requests PROVE Flow(q)'
  BY <1>1, <1>8, <1>12, <1>13, <1>14, Zenon DEF Flow
<1> QED BY <1>15, Zenon

(* The bridge takes a message: the client's count follows it. *)
LEMMA DispatchFlow ==
    ASSUME TypeOK, Debts, DispatchStep, \A q \in Requests : Flow(q), \A q \in Requests : Adds(q)
    PROVE  \A q \in Requests : Flow(q)' /\ Adds(q)'
<1> DEFINE said(q) == Said(Head(steps), q)
<1>1. /\ UNCHANGED <<submissions, account, tally, statement, deferred, bridge>>
      /\ bridge = "loop" /\ steps # <<>> /\ steps' = Tail(steps)
  BY Zenon DEF DispatchStep, books
<1>2. steps \in Seq(Messages)
  BY Zenon DEF TypeOK, ChannelsOK
<1>3. Head(steps) \in Messages
  BY <1>1, <1>2
<1>4. \A q \in Requests : said(q) \in Updates /\ said(q).tokens \in Seq(Nat)
  BY <1>3, SaidUpdate, Zenon
<1>5. ASSUME NEW q \in Requests, stream[q] = "open"
      PROVE  /\ got'[q] = got[q] \o said(q).tokens
             /\ answer'[q] = IF said(q).terminal # None THEN said(q).terminal ELSE answer[q]
             /\ stream'[q] = IF said(q).terminal # None THEN "finished" ELSE "open"
  <2>1. got[q] \in Seq(Nat)
    BY Zenon DEF TypeOK, BridgeOK
  <2>2. q \notin DOMAIN Head(steps) => said(q).tokens = <<>> /\ said(q).terminal = None
    BY EmptyUpdate, Zenon DEF Said
  <2>3. q \in DOMAIN Head(steps) => said(q) = Head(steps)[q]
    BY Zenon DEF Said
  <2>4. got[q] \o <<>> = got[q]
    BY <2>1
  <2> HIDE DEF said
  <2> QED BY <1>5, <2>2, <2>3, <2>4, Zenon DEF DispatchStep
<1>6. \A q \in Requests : stream[q] # "open" =>
         got'[q] = got[q] /\ answer'[q] = answer[q] /\ stream'[q] = stream[q]
  BY Zenon DEF DispatchStep
<1>7. \A q \in Requests : Envelopes(q)' = Envelopes(q) /\ \A n : Tip(q, n)' <=> Tip(q, n)
  BY <1>1, Zenon DEF Envelopes, Tip, Open, Vacant
<1>8. ASSUME NEW q \in Requests PROVE got[q] \in Seq(Nat) /\ Len(got[q]) \in Nat
  BY DEF TypeOK, BridgeOK
<1>9. ASSUME NEW q \in Requests, NEW n \in Nat, Carries(steps, q, Len(got[q]), n)
      PROVE  LET k == Len(said(q).tokens)
             IN  /\ k \in Nat /\ Len(got[q]) + k <= n
                 /\ Continues(said(q), Len(got[q])) /\ Carries(steps', q, Len(got[q]) + k, n)
  BY <1>1, <1>2, <1>8, <1>9, CarriesTail, Zenon
<1> HIDE DEF said
<1>10. ASSUME NEW q \in Requests, stream[q] = "open" PROVE Flow(q)' /\ Adds(q)'
  <2>1. PICK n \in Nat : Carries(steps, q, Len(got[q]), n) /\ Tip(q, n)
    BY <1>10, Zenon DEF Flow
  <2>2. /\ Continues(said(q), Len(got[q])) /\ Carries(steps', q, Len(got[q]) + Len(said(q).tokens), n)
    BY <1>9, <2>1, Zenon
  <2>3. Run(got'[q], 0) /\ Len(got'[q]) = Len(got[q]) + Len(said(q).tokens)
    <3>1. Run(got[q], 0) /\ Run(said(q).tokens, 0 + Len(got[q]))
      BY <1>8, <2>2 DEF Adds, Continues
    <3>2. /\ Run(got[q] \o said(q).tokens, 0)
          /\ Len(got[q] \o said(q).tokens) = Len(got[q]) + Len(said(q).tokens)
      BY <1>4, <1>8, <3>1, RunConcat, Zenon
    <3> QED BY <1>5, <1>10, <3>2, Zenon
  <2>4. answer[q] = None
    BY <1>10, Zenon DEF Flow
  <2>5. Adds(q)'
    <3>1. CASE said(q).terminal = None
      <4>1. answer'[q] = None
        BY <1>5, <1>10, <2>4, <3>1, Zenon
      <4>2. answer'[q].kind = "none"
        BY <4>1 DEF None
      <4> QED BY <2>3, <4>2, Zenon DEF Adds
    <3>2. CASE said(q).terminal # None
      <4>1. answer'[q] = said(q).terminal
        BY <1>5, <1>10, <3>2, Zenon
      <4> QED BY <2>2, <2>3, <4>1, Zenon DEF Adds, Continues
    <3> QED BY <3>1, <3>2, Zenon
  <2>6. Flow(q)'
    <3>1. CASE said(q).terminal = None
      <4>1. answer'[q] = None /\ Carries(steps', q, Len(got'[q]), n)
        BY <1>5, <1>10, <2>2, <2>3, <2>4, <3>1, Zenon
      <4> QED BY <1>1, <1>7, <2>1, <4>1, Zenon DEF Flow
    <3>2. CASE said(q).terminal # None
      <4>1. stream'[q] = "finished"
        BY <1>5, <1>10, <3>2, Zenon
      <4> QED BY <1>1, <1>7, <4>1, Zenon DEF Flow
    <3> QED BY <3>1, <3>2, Zenon
  <2> QED BY <2>5, <2>6, Zenon
<1>11. ASSUME NEW q \in Requests, stream[q] # "open" PROVE Flow(q)' /\ Adds(q)'
  <2>1. got'[q] = got[q] /\ answer'[q] = answer[q] /\ stream'[q] = stream[q]
    BY <1>6, <1>11, Zenon
  <2>2. Adds(q)'
    BY <2>1, Zenon DEF Adds
  <2>3. CASE stream[q] # "new"
    BY <1>1, <1>7, <1>11, <2>1, <2>2, <2>3, Zenon DEF Flow
  <2>4. CASE stream[q] = "new"
    <3>1. PICK n \in Nat : Carries(steps, q, Len(got[q]), n) /\ Tip(q, n)
      BY <2>4, Zenon DEF Flow
    <3>2. account[q] = "none"
      BY <1>1, <2>4, ContractAssumption, Zenon DEF Debts, Stages, Submitted
    <3>3. n = 0
      BY <3>1, <3>2, Zenon DEF Tip
    <3>4. /\ Len(said(q).tokens) \in Nat /\ Len(got[q]) + Len(said(q).tokens) <= n
          /\ Carries(steps', q, Len(got[q]) + Len(said(q).tokens), n)
      BY <1>9, <3>1, Zenon
    <3>5. Len(got[q]) + Len(said(q).tokens) = Len(got[q])
      <4>1. PICK a \in Nat, k \in Nat : a = Len(got[q]) /\ k = Len(said(q).tokens)
        BY <1>8, <3>4, Zenon
      <4>2. a + k <= 0
        BY <3>3, <3>4, <4>1, Zenon
      <4>3. a + k = a
        BY <4>2
      <4> QED BY <4>1, <4>3, Zenon
    <3>6. Carries(steps', q, Len(got'[q]), n)
      BY <2>1, <3>4, <3>5, Zenon
    <3> QED BY <1>1, <1>7, <2>1, <2>2, <2>4, <3>1, <3>6, Zenon DEF Flow
  <2> QED BY <2>2, <2>3, <2>4, Zenon
<1> QED BY <1>10, <1>11, Zenon

(* commit_step brings the client to where the ledger is. *)
LEMMA StatementCarries ==
    ASSUME LedgerOK, NEW q \in Requests, NEW n \in Nat, Continues(statement[q], n)
    PROVE  Carries(Statement(statement), q, n, n + Len(statement[q].tokens))
<1> DEFINE touched == {r \in Requests : ~Vacant(statement[r])}
           message == [r \in touched |-> statement[r]]
<1>1. Statement(statement) = IF touched = {} THEN <<>> ELSE <<message>>
  BY Zenon DEF Statement
<1>2. message \in Messages
  <2>1. touched \in SUBSET Requests /\ message \in [touched -> Updates]
    BY Zenon DEF LedgerOK
  <2> HIDE DEF touched, message
  <2> QED BY <2>1, IsMessage, Zenon
<1>3. Said(message, q) = statement[q]
  BY Zenon DEF Said, Vacant
<1>4. q \notin touched => statement[q] = Empty
  BY Zenon DEF Vacant
<1> HIDE DEF touched, message
<1>5. CASE touched = {}
  <2>1. n + Len(statement[q].tokens) = n
    BY <1>4, <1>5, EmptyUpdate
  <2>2. /\ <<>> \in Seq(Messages)
        /\ \A i \in 1 .. Len(<<>>) : Continues(Said(<<>>[i], q), n) /\ Said(<<>>[i], q).tokens = <<>>
    OBVIOUS
  <2>3. Carries(<<>>, q, n, n)
    BY <2>2, CarriesSame, Zenon
  <2> QED BY <1>1, <1>5, <2>1, <2>3, Zenon
<1>6. CASE touched # {}
  <2>1. Carries(<<message>>, q, n, n + Len(Said(message, q).tokens))
    BY <1>2, <1>3, CarriesOne, Zenon
  <2> QED BY <1>1, <1>3, <1>6, <2>1, Zenon
<1> QED BY <1>5, <1>6, Zenon

LEMMA WriteOffCarries ==
    ASSUME LedgerOK, NEW q \in Requests, NEW n \in Nat, Open(q) => n <= tally[q]
    PROVE  Carries(WriteOff, q, n, n)
<1> DEFINE open == {r \in Requests : Open(r)}
           message == [r \in open |-> Answering("failed", tally[r])]
<1>1. WriteOff = IF open = {} THEN <<>> ELSE <<message>>
  BY Zenon DEF WriteOff
<1>2. WriteOff \in Seq(Messages)
  BY WriteOffMessage, Zenon
<1>3. Said(message, q) = IF Open(q) THEN Answering("failed", tally[q]) ELSE Empty
  BY Zenon DEF Said
<1>4. tally[q] \in Nat
  BY Zenon DEF LedgerOK
<1>5. Continues(Said(message, q), n) /\ Said(message, q).tokens = <<>>
  <2>1. CASE Open(q)
    BY <1>3, <1>4, <2>1, ContinuesAnswering, AnsweringUpdate, Zenon
  <2>2. CASE ~Open(q)
    BY <1>3, <2>2, ContinuesEmpty, EmptyUpdate, Zenon
  <2> QED BY <2>1, <2>2, Zenon
<1> HIDE DEF open, message
<1>6. \A i \in 1 .. Len(WriteOff) : WriteOff[i] = message
  BY <1>1
<1> QED BY <1>2, <1>5, <1>6, CarriesSame, Zenon

LEMMA BombsCarries ==
    ASSUME submissions \in Seq(Requests), NEW q \in Requests, NEW n \in Nat,
           Envelopes(q) # {} => n = 0
    PROVE  Carries(Bombs, q, n, n)
<1>1. Bombs \in Seq(Messages) /\ Len(Bombs) = Len(submissions)
  BY BombsMessage, Zenon
<1>2. ASSUME NEW i \in 1 .. Len(Bombs)
      PROVE  Continues(Said(Bombs[i], q), n) /\ Said(Bombs[i], q).tokens = <<>>
  <2>1. i \in DOMAIN submissions
    BY <1>1
  <2>2. Bombs[i] = Only(submissions[i], Answering("failed", 0))
    BY <2>1, Zenon DEF Bombs
  <2>3. CASE submissions[i] = q
    <3>1. n = 0
      BY <2>1, <2>3, Zenon DEF Envelopes
    <3>2. Said(Bombs[i], q) = Answering("failed", 0)
      BY <2>2, <2>3, Zenon DEF Said, Only
    <3>3. Continues(Answering("failed", 0), n) /\ Answering("failed", 0).tokens = <<>>
      BY <3>1, ContinuesAnswering, AnsweringUpdate
    <3> QED BY <3>2, <3>3, Zenon
  <2>4. CASE submissions[i] # q
    <3>1. Said(Bombs[i], q) = Empty
      BY <2>2, <2>4, Zenon DEF Said, Only
    <3> QED BY <3>1, ContinuesEmpty, EmptyUpdate, Zenon
  <2> QED BY <2>3, <2>4, Zenon
<1> QED BY <1>1, <1>2, CarriesSame, Zenon

(* What the driver says takes clients to where it leaves the ledger. *)
LEMMA SpokenFlow ==
    ASSUME TypeOK, bridge # "down", NEW q \in Requests, Flow(q),
           NEW m \in Seq(Messages), Send(m),
           UNCHANGED <<tally, deferred, stream, got, answer>>, statement'[q] = Empty,
           Envelopes(q)' # {} => Envelopes(q) # {},
           \/ account'[q] = account[q]
           \/ account'[q] = "closed" /\ Envelopes(q)' = {},
           \A n \in Nat : Tip(q, n) => \E c \in Nat :
              /\ Carries(m, q, n, c) /\ Continues(deferred[q], c)
              /\ account[q] = "none" => c = n
              /\ Open(q)' => tally[q] = c
    PROVE  Flow(q)'
<1>1. CASE stream[q] \notin {"new", "open"}
  BY <1>1, Zenon DEF Flow
<1>2. CASE stream[q] \in {"new", "open"}
  <2>1. PICK n \in Nat : Carries(steps, q, Len(got[q]), n) /\ Tip(q, n)
    BY <1>2, Zenon DEF Flow
  <2>2. PICK c \in Nat : /\ Carries(m, q, n, c) /\ Continues(deferred[q], c)
                         /\ account[q] = "none" => c = n
                         /\ Open(q)' => tally[q] = c
    BY <2>1, Zenon
  <2>3. Carries(steps, q, Len(got[q]), c)'
    BY <2>1, <2>2, FlowSent, Zenon
  <2>4. statement'[q].tokens = <<>> /\ Continues(statement'[q], c)
    BY ContinuesEmpty, EmptyUpdate, Zenon
  <2>5. Tip(q, c)'
    <3>1. Len(statement'[q].tokens) = 0 /\ c + 0 = c
      BY <2>4
    <3>2. Open(q)' => tally'[q] = c + Len(statement'[q].tokens)
      BY <2>2, <3>1, Zenon
    <3>3. deferred'[q] = deferred[q] /\ tally'[q] = tally[q]
          /\ (account'[q] = "none" => account[q] = "none") /\ Vacant(statement'[q])
      BY EmptyUpdate DEF Vacant
    <3> QED BY <2>1, <2>2, <2>4, <3>2, <3>3, Zenon DEF Tip
  <2> QED BY <1>2, <2>3, <2>5, Zenon DEF Flow
<1> QED BY <1>1, <1>2, Zenon

(* Where a commit leaves the count: only an account has more to come. *)
LEMMA CommittedTip ==
    ASSUME TypeOK, Debts, NEW q \in Requests, NEW n \in Nat, Tip(q, n), NEW c,
           c = n \/ c = n + Len(statement[q].tokens)
    PROVE  /\ c \in Nat /\ n <= c
           /\ Continues(deferred[q], c)
           /\ account[q] = "none" => c = n
<1>1. Len(statement[q].tokens) \in Nat
  BY DEF TypeOK, LedgerOK, Updates
<1>2. c \in Nat /\ n <= c
  BY <1>1
<1>3. Vacant(statement[q]) => c = n
  BY EmptyUpdate DEF Vacant
<1>4. account[q] = "none" => c = n
  BY <1>3, Zenon DEF Tip
<1>5. CASE Vacant(deferred[q])
  BY <1>2, <1>4, <1>5, ContinuesEmpty, Zenon DEF Vacant
<1>6. CASE ~Vacant(deferred[q])
  BY <1>2, <1>3, <1>4, <1>6, DeferredFlow, Zenon DEF Tip
<1> QED BY <1>5, <1>6, Zenon

LEMMA CommitFlow ==
    ASSUME TypeOK, Debts, bridge # "down", \A q \in Requests : Flow(q),
           Commit, driver' = "drain"
    PROVE  \A q \in Requests : Flow(q)'
<1>1. /\ UNCHANGED <<submissions, account, tally, deferred, stream, got, answer>>
      /\ Send(Statement(statement)) /\ \A q \in Requests : statement'[q] = Empty
  BY Zenon DEF Commit, Drop, frontend, client
<1>2. Statement(statement) \in Seq(Messages)
  BY StatementMessage, Zenon DEF TypeOK
<1>3. ASSUME NEW q \in Requests PROVE Flow(q)'
  <2>1. ASSUME NEW n \in Nat, Tip(q, n)
        PROVE  \E c \in Nat : /\ Carries(Statement(statement), q, n, c) /\ Continues(deferred[q], c)
                              /\ account[q] = "none" => c = n
                              /\ Open(q)' => tally[q] = c
    <3>1. Carries(Statement(statement), q, n, n + Len(statement[q].tokens))
      BY <2>1, StatementCarries, Zenon DEF Tip, TypeOK
    <3>2. Open(q)' => tally[q] = n + Len(statement[q].tokens)
      BY <1>1, <2>1, Zenon DEF Tip, Open
    <3> QED BY <2>1, <3>1, <3>2, CommittedTip
  <2>2. Envelopes(q)' = Envelopes(q)
    BY <1>1, Zenon DEF Envelopes
  <2> QED BY <1>1, <1>2, <2>1, <2>2, SpokenFlow, Zenon
<1> QED BY <1>3, Zenon

LEMMA DropFlow ==
    ASSUME TypeOK, Debts, bridge # "down", \A q \in Requests : Flow(q),
           NEW m \in Seq(Messages), Drop(m),
           \A q \in Requests, n \in Nat : Tip(q, n) => \E c \in Nat :
              Carries(m, q, n, c) /\ (c = n \/ c = n + Len(statement[q].tokens))
    PROVE  \A q \in Requests : Flow(q)'
<1> DEFINE all == m \o Bombs
<1>1. /\ UNCHANGED <<tally, deferred, stream, got, answer>> /\ submissions' = <<>> /\ Send(all)
  BY Zenon DEF Drop, frontend, client
<1>2. Bombs \in Seq(Messages) /\ submissions \in Seq(Requests)
  BY BombsMessage, Zenon DEF TypeOK, ChannelsOK
<1>3. all \in Seq(Messages)
  BY <1>2, EndsConcat, Zenon
<1>4. \A q \in Requests :
         /\ statement'[q] = Empty /\ ~Open(q)' /\ Envelopes(q)' = {}
         /\ account'[q] = account[q] \/ account'[q] = "closed"
  BY <1>1 DEF Drop, Open, Envelopes, TypeOK, LedgerOK
<1>5. ASSUME NEW q \in Requests PROVE Flow(q)'
  <2>1. ASSUME NEW n \in Nat, Tip(q, n)
        PROVE  \E c \in Nat : /\ Carries(all, q, n, c) /\ Continues(deferred[q], c)
                              /\ account[q] = "none" => c = n
                              /\ Open(q)' => tally[q] = c
    <3>1. PICK c \in Nat : Carries(m, q, n, c) /\ (c = n \/ c = n + Len(statement[q].tokens))
      BY <2>1, Zenon
    <3>2. Continues(deferred[q], c) /\ (account[q] = "none" => c = n)
      BY <2>1, <3>1, CommittedTip, Zenon
    <3>3. Envelopes(q) # {} => c = 0
      BY <2>1, <3>2, Zenon DEF Flow, Tip
    <3>4. Carries(Bombs, q, c, c)
      BY <1>2, <3>3, BombsCarries, Zenon
    <3>5. Carries(all, q, n, c)
      BY <1>2, <3>1, <3>4, CarriesConcat, Zenon
    <3> QED BY <1>4, <3>2, <3>5, Zenon
  <2> HIDE DEF all
  <2> QED BY <1>1, <1>3, <1>4, <2>1, SpokenFlow, Zenon
<1> QED BY <1>5, Zenon

LEMMA ExitFlow ==
    ASSUME TypeOK, Debts, bridge # "down", \A q \in Requests : Flow(q),
           (Commit /\ driver' # "drain") \/ Fatal \/ Panic
    PROVE  \A q \in Requests : Flow(q)'
<1>1. Statement(statement) \in Seq(Messages) /\ WriteOff \in Seq(Messages) /\ LedgerOK
  BY StatementMessage, WriteOffMessage, Zenon DEF TypeOK
<1>2. ASSUME NEW q \in Requests, NEW n \in Nat, Tip(q, n)
      PROVE  /\ n + Len(statement[q].tokens) \in Nat
             /\ Open(q) => n <= tally[q] /\ n + Len(statement[q].tokens) <= tally[q]
             /\ Carries(Statement(statement), q, n, n + Len(statement[q].tokens))
  <2>1. Len(statement[q].tokens) \in Nat
    BY DEF TypeOK, LedgerOK, Updates
  <2>2. Open(q) => tally[q] = n + Len(statement[q].tokens)
    BY <1>2, Zenon DEF Tip
  <2>3. Carries(Statement(statement), q, n, n + Len(statement[q].tokens))
    BY <1>1, <1>2, StatementCarries, Zenon DEF Tip
  <2> QED BY <2>1, <2>2, <2>3
<1>3. CASE Commit /\ driver' # "drain"
  <2>1. Drop(Statement(statement))
    BY <1>3, Zenon DEF Commit
  <2> QED BY <1>1, <1>2, <2>1, DropFlow, Zenon
<1>4. CASE Fatal
  <2>1. Drop(Statement(statement) \o WriteOff)
    BY <1>4, Zenon DEF Fatal
  <2>2. Statement(statement) \o WriteOff \in Seq(Messages)
    BY <1>1, EndsConcat, Zenon
  <2>3. ASSUME NEW q \in Requests, NEW n \in Nat, Tip(q, n)
        PROVE  Carries(Statement(statement) \o WriteOff, q, n, n + Len(statement[q].tokens))
    <3>1. Carries(WriteOff, q, n + Len(statement[q].tokens), n + Len(statement[q].tokens))
      BY <1>1, <1>2, <2>3, WriteOffCarries, Zenon
    <3> QED BY <1>1, <1>2, <2>3, <3>1, CarriesConcat, Zenon
  <2> QED BY <1>2, <2>1, <2>2, <2>3, DropFlow, Zenon
<1>5. CASE Panic
  <2>1. Drop(WriteOff)
    BY <1>5, Zenon DEF Panic
  <2>2. ASSUME NEW q \in Requests, NEW n \in Nat, Tip(q, n) PROVE Carries(WriteOff, q, n, n)
    BY <1>1, <1>2, <2>2, WriteOffCarries, Zenon
  <2> QED BY <1>1, <2>1, <2>2, DropFlow, Zenon
<1> QED BY <1>3, <1>4, <1>5, Zenon

LEMMA InitFlow == Init => FlowInv
<1> SUFFICES ASSUME Init, NEW q \in Requests PROVE Adds(q) /\ Flow(q)
  BY Zenon DEF FlowInv
<1>1. /\ got[q] = <<>> /\ answer[q] = None /\ account[q] = "none" /\ tally[q] = 0
      /\ statement[q] = Empty /\ deferred[q] = Empty /\ steps = <<>> /\ submissions = <<>>
  BY Zenon DEF Init
<1>2. Adds(q)
  BY <1>1 DEF Adds, Run, None
<1>3. Tip(q, 0)
  BY <1>1, ContinuesEmpty DEF Tip, Open, Vacant
<1>4. /\ <<>> \in Seq(Messages)
      /\ \A i \in 1 .. Len(<<>>) : Continues(Said(<<>>[i], q), 0) /\ Said(<<>>[i], q).tokens = <<>>
  OBVIOUS
<1>5. Carries(<<>>, q, 0, 0)
  BY <1>4, CarriesSame, Zenon
<1>6. Len(got[q]) = 0 /\ Envelopes(q) = {}
  BY <1>1 DEF Envelopes
<1> QED BY <1>1, <1>2, <1>3, <1>5, <1>6, Zenon DEF Flow

LEMMA NextFlow == TypeOK /\ DebtInv /\ FlowInv /\ [Next]_vars => FlowInv'
<1> SUFFICES ASSUME TypeOK, DebtInv, FlowInv, [Next]_vars PROVE FlowInv'
  BY Zenon
<1>1. CASE UNCHANGED vars
  <2>1. \A q \in Requests : Envelopes(q)' = Envelopes(q)
    BY <1>1, Zenon DEF vars, Envelopes
  <2>2. \A q \in Requests : Flow(q) => Flow(q)'
    BY <1>1, <2>1, FlowStays, Zenon DEF vars
  <2>3. \A q \in Requests : Adds(q)' <=> Adds(q)
    BY <1>1, Zenon DEF vars, Adds
  <2> QED BY <1>1, <2>2, <2>3, Zenon DEF vars, FlowInv
<1>2. CASE Next /\ ~DispatchStep
  <2>1. got' = got /\ answer' = answer /\ (bridge = "down" => bridge' = "down")
    <3>1. ASSUME NEW r \in Requests, Submit(r) \/ OpenStream(r) \/ Abort(r)
          PROVE  got' = got /\ answer' = answer /\ bridge # "down"
      BY <3>1, ContractAssumption, Zenon DEF Submit, OpenStream, Abort
    <3>2. ASSUME NEW r \in Requests,
                 \/ Admit(r) \/ Reject(r) \/ PushTokens(r)
                 \/ Finish(r) \/ Fail(r) \/ Retire(r) \/ DeferFinish(r)
                 \/ Deliver(r, "finished") \/ Deliver(r, "failed")
          PROVE  got' = got /\ answer' = answer /\ bridge' = bridge
      BY <3>2 DEF Admit, Reject, PushTokens, Finish, Fail, Retire, DeferFinish, Deliver,
         fixed, client
    <3>3. CASE Shutdown
      BY <3>3, Zenon DEF Shutdown
    <3>4. CASE Register \/ Drained \/ Commit \/ Fatal \/ Panic
      BY <3>4, Zenon DEF Register, Drained, Commit, Fatal, Panic, Drop, frontend, client
    <3> QED BY <1>2, <3>1, <3>2, <3>3, <3>4, Zenon DEF Next
  <2>2. \A q \in Requests : Adds(q)'
    BY <2>1, Zenon DEF FlowInv, Adds
  <2>3. ASSUME bridge' # "down" PROVE \A q \in Requests : Flow(q)'
    <3>1. bridge # "down" /\ Debts /\ \A q \in Requests : Flow(q)
      BY <2>1, <2>3, Zenon DEF DebtInv, FlowInv
    <3>2. ~Shutdown
      BY <2>3, Zenon DEF Shutdown
    <3>3. CASE \E r \in Requests : Submit(r)
      BY <3>1, <3>3, SubmitFlow, Zenon
    <3>4. CASE (\E r \in Requests : OpenStream(r) \/ Abort(r)) \/ Drained \/ Register
      BY <3>1, <3>4, StillFlow, Zenon
    <3>5. CASE \E r \in Requests :
                  \/ Admit(r) \/ Reject(r) \/ PushTokens(r)
                  \/ Finish(r) \/ Fail(r) \/ Retire(r) \/ DeferFinish(r)
      BY <3>1, <3>5, LedgerFlow, Zenon
    <3>6. CASE \E r \in Requests : Deliver(r, "finished") \/ Deliver(r, "failed")
      BY <3>1, <3>6, DeliverFlow, Zenon
    <3>7. CASE Commit \/ Fatal \/ Panic
      BY <3>1, <3>7, CommitFlow, ExitFlow, Zenon
    <3> QED BY <1>2, <3>2, <3>3, <3>4, <3>5, <3>6, <3>7, Zenon DEF Next
  <2> QED BY <2>2, <2>3, Zenon DEF FlowInv
<1>3. CASE DispatchStep
  <2>1. bridge = "loop"
    BY <1>3, Zenon DEF DispatchStep
  <2>2. \A q \in Requests : Flow(q)' /\ Adds(q)'
    BY <1>3, <2>1, DispatchFlow, Zenon DEF DebtInv, FlowInv
  <2> QED BY <2>2, Zenon DEF FlowInv
<1> QED BY <1>1, <1>2, <1>3, Zenon

(* A client gets its tokens in order and without a gap; a finish comes     *)
(* with all the tokens that the ledger counted, whichever thread delivers  *)
(* it (RequestLedger::defer_finish), and a failure never with more.        *)
THEOREM AnswersAddUpAlways == Spec => []AnswersAddUp
<1>1. TypeOK /\ FlowInv => AnswersAddUp
  <2> SUFFICES ASSUME TypeOK, FlowInv, NEW r \in Requests
               PROVE  /\ got[r] = [i \in 1 .. Len(got[r]) |-> i]
                      /\ answer[r].kind = "finished" => Len(got[r]) = answer[r].count
                      /\ answer[r].kind = "failed" => Len(got[r]) <= answer[r].count
    BY Zenon DEF AnswersAddUp
  <2>1. got[r] \in Seq(Nat)
    BY Zenon DEF TypeOK, BridgeOK
  <2>2. Adds(r)
    BY Zenon DEF FlowInv
  <2>3. \A j \in 1 .. Len(got[r]) : got[r][j] = j
    BY <2>1, <2>2 DEF Adds, Run
  <2>4. got[r] = [i \in 1 .. Len(got[r]) |-> i]
    BY <2>1, <2>3
  <2> QED BY <2>2, <2>4, Zenon DEF Adds
<1> QED BY <1>1, InitType, InitDebt, InitFlow, NextType, NextDebt, NextFlow, PTL DEF Spec
=============================================================================
