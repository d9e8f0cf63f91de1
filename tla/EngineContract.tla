--------------------------- MODULE EngineContract ---------------------------
(***************************************************************************)
(* The contract between the frontend and a model's scheduler: who owes a   *)
(* request its answer, and how the answer travels (pegainfer-frontend      *)
(* engine/driver.rs, ledger.rs, request_lifecycle.rs, wiring.rs and the    *)
(* bridge vllm/bridge/stepped.rs).                                         *)
(*                                                                         *)
(* Three kinds of threads: the bridge, which submits requests and streams  *)
(* the updates of each step to clients; the driver, which runs the         *)
(* scheduler step by step over the ledger; and whoever holds a deferred    *)
(* finish.  They share the submission channel and the step stream.         *)
(*                                                                         *)
(* Abstractions.  The scheduler is any one that keeps to the Scheduler     *)
(* trait, or that panics in a step.  Tokens are numbered.  Facts that ride *)
(* on updates (cached tokens, logprobs, transfer parameters) and requests  *)
(* that the bridge refuses by itself are left out.                         *)
(***************************************************************************)
EXTENDS Integers, Sequences

CONSTANTS Requests,
          MaxTokens        \* request -> tokens that it may produce

ASSUME ContractAssumption ==
    /\ MaxTokens \in [Requests -> Nat]
    /\ Requests \cap {"loop", "down"} = {}

VARIABLES submissions,     \* the channel of RequestEnvelopes
          account,         \* request -> state of its ledger account
          tally,           \* request -> tokens pushed on it
          statement,       \* request -> its update in the step's statement
          driver,          \* where the driver's loop is
          submissionsOpen, \* the driver's flag
          deferred,        \* request -> the update its DeferredFinish holds
          steps,           \* the step stream: sequence of messages
          bridge,          \* "loop", "down", or the request just submitted
          stream,          \* request -> the bridge's SteppedStream
          got,             \* request -> tokens its client got
          answer,          \* request -> the terminal its client got
          lost             \* requests whose terminal was in a step that panicked

vars == <<submissions, account, tally, statement, driver, submissionsOpen, deferred,
          steps, bridge, stream, got, answer, lost>>

books == <<account, tally, statement>>
client == <<bridge, stream, got, answer>>

None == [kind |-> "none", count |-> 0]

\* RequestUpdate::empty.
Empty == [scheduled |-> FALSE, tokens |-> <<>>, terminal |-> None]

Vacant(update) == update = Empty

Terminal(kind, count) == [kind |-> kind, count |-> count]

Answering(kind, count) == [Empty EXCEPT !.terminal = Terminal(kind, count)]

\* A message of one update.
Only(r, update) == [q \in {r} |-> update]

Open(r) == account[r] \in {"queued", "active"}

Init ==
    /\ submissions = <<>>
    /\ account = [r \in Requests |-> "none"]
    /\ tally = [r \in Requests |-> 0]
    /\ statement = [r \in Requests |-> Empty]
    /\ driver = "drain"
    /\ submissionsOpen = TRUE
    /\ deferred = [r \in Requests |-> Empty]
    /\ steps = <<>>
    /\ bridge = "loop"
    /\ stream = [r \in Requests |-> "new"]
    /\ got = [r \in Requests |-> <<>>]
    /\ answer = [r \in Requests |-> None]
    /\ lost = {}

\* Messages reach the stream while its receiver lives.
Send(messages) == steps' = IF bridge = "down" THEN steps ELSE steps \o messages

-----------------------------------------------------------------------------
(***************************************************************************)
(* The bridge: one task that submits, dispatches and aborts.               *)
(***************************************************************************)

\* SchedulerHandle::submit.  With the driver gone the envelope comes back and
\* its drop answers, on the handle's own end of the stream.
Submit(r) ==
    /\ bridge = "loop" /\ stream[r] = "new"
    /\ bridge' = r
    /\ IF driver = "exited"
       THEN Send(<<Only(r, Answering("failed", 0))>>) /\ UNCHANGED submissions
       ELSE submissions' = Append(submissions, r) /\ UNCHANGED steps
    /\ UNCHANGED <<books, driver, submissionsOpen, deferred, stream, got, answer, lost>>

\* The rest of start_request: the stream state follows the submission.
OpenStream(r) ==
    /\ bridge = r
    /\ bridge' = "loop"
    /\ stream' = [stream EXCEPT ![r] = "open"]
    /\ UNCHANGED <<submissions, books, driver, submissionsOpen, deferred, steps, got, answer, lost>>

\* dispatch_step: updates of unknown streams are dropped, a terminal closes
\* the stream.
DispatchStep ==
    /\ bridge = "loop" /\ steps # <<>>
    /\ LET updates == Head(steps)
           live == {r \in DOMAIN updates : stream[r] = "open"}
           over == {r \in live : updates[r].terminal # None}
       IN  /\ got' = [r \in Requests |-> IF r \in live THEN got[r] \o updates[r].tokens ELSE got[r]]
           /\ answer' = [r \in Requests |-> IF r \in over THEN updates[r].terminal ELSE answer[r]]
           /\ stream' = [r \in Requests |-> IF r \in over THEN "finished" ELSE stream[r]]
    /\ steps' = Tail(steps)
    /\ UNCHANGED <<submissions, books, driver, submissionsOpen, deferred, bridge, lost>>

\* The client gives up: the stream state goes, then the abort flag is raised.
Abort(r) ==
    /\ bridge = "loop" /\ stream[r] = "open"
    /\ stream' = [stream EXCEPT ![r] = "aborted"]
    /\ UNCHANGED <<submissions, books, driver, submissionsOpen, deferred, steps, bridge, got, answer, lost>>

\* The bridge ends: every stream aborted, the handle and the receiver dropped.
Shutdown ==
    /\ bridge = "loop"
    /\ bridge' = "down"
    /\ stream' = [r \in Requests |-> IF stream[r] = "open" THEN "aborted" ELSE stream[r]]
    /\ steps' = <<>>
    /\ UNCHANGED <<submissions, books, driver, submissionsOpen, deferred, got, answer, lost>>

-----------------------------------------------------------------------------
(***************************************************************************)
(* The driver: drain the submissions, step, commit.                        *)
(***************************************************************************)

frontend == <<deferred, client>>

\* RequestLedger::register consumes the envelope and opens the account.
Register ==
    /\ driver = "drain" /\ submissions # <<>>
    /\ account' = [account EXCEPT ![Head(submissions)] = "queued"]
    /\ submissions' = Tail(submissions)
    /\ UNCHANGED <<tally, statement, driver, submissionsOpen, steps, frontend, lost>>

\* As Drained, taking a channel without senders for one that is only empty.
Drained_NeverCloses ==
    /\ driver = "drain" /\ submissions = <<>>
    /\ driver' = "step"
    /\ UNCHANGED <<submissions, books, submissionsOpen, steps, frontend, lost>>

\* try_recv finds the channel empty, or empty for good.
Drained ==
    /\ driver = "drain" /\ submissions = <<>>
    /\ driver' = "step"
    /\ submissionsOpen' = (submissionsOpen /\ bridge # "down")
    /\ UNCHANGED <<submissions, books, steps, frontend, lost>>

\* commit_step: one message with every update that is not vacant, if any.
Statement(updates) ==
    LET touched == {r \in Requests : ~Vacant(updates[r])}
    IN  IF touched = {} THEN <<>> ELSE <<[r \in touched |-> updates[r]]>>

\* One failed terminal per open account: fail_all, and the ledger's drop.
WriteOff ==
    LET open == {r \in Requests : Open(r)}
    IN  IF open = {} THEN <<>> ELSE <<[r \in open |-> Answering("failed", tally[r])]>>

\* As Bombs, for envelopes that drop in silence.
Bombs_Defused == <<>>

\* Envelopes still in the channel fall with its receiver.
Bombs == [i \in DOMAIN submissions |-> Only(submissions[i], Answering("failed", 0))]

\* The driver's locals drop: the channel with its envelopes, and the accounts.
Drop(messages) ==
    /\ driver' = "exited"
    /\ Send(messages \o Bombs)
    /\ submissions' = <<>>
    /\ account' = [r \in Requests |-> IF Open(r) THEN "closed" ELSE account[r]]
    /\ statement' = [r \in Requests |-> Empty]
    /\ UNCHANGED <<tally, submissionsOpen, frontend>>

\* The scheduler reports nothing running and nothing waiting.  One whose
\* metrics leave some requests out (K3's, those in the whale lane) may be done
\* earlier: its driver exits with accounts open, which the ledger's drop writes
\* off, and that is the step Fatal.
Idle == \A r \in Requests : ~Open(r)

\* The step is over; an idle driver with nobody left to serve exits.
Commit ==
    /\ driver = "step"
    /\ IF Idle /\ ~submissionsOpen
       THEN Drop(Statement(statement)) /\ UNCHANGED lost
       ELSE /\ driver' = "drain"
            /\ Send(Statement(statement))
            /\ statement' = [r \in Requests |-> Empty]
            /\ UNCHANGED <<submissions, account, tally, submissionsOpen, frontend, lost>>

\* step returns Err: commit, fail_all, commit, return.
Fatal ==
    /\ driver = "step"
    /\ Drop(Statement(statement) \o WriteOff)
    /\ UNCHANGED lost

\* step panics: the ledger's drop writes off the accounts that are still open;
\* the statement is dropped as it is.
Panic ==
    /\ driver = "step"
    /\ Drop(WriteOff)
    /\ lost' = {r \in Requests : statement[r].terminal # None}

-----------------------------------------------------------------------------
(***************************************************************************)
(* What a scheduler does to the ledger in a step.                          *)
(***************************************************************************)

fixed == <<submissions, driver, submissionsOpen, steps, client, lost>>

Admit(r) ==
    /\ driver = "step" /\ account[r] = "queued"
    /\ account' = [account EXCEPT ![r] = "active"]
    /\ statement' = [statement EXCEPT ![r].scheduled = TRUE]
    /\ UNCHANGED <<tally, deferred, fixed>>

Reject(r) ==
    /\ driver = "step" /\ account[r] = "queued"
    /\ account' = [account EXCEPT ![r] = "closed"]
    /\ statement' = [statement EXCEPT ![r].terminal = Terminal("rejected", 0)]
    /\ UNCHANGED <<tally, deferred, fixed>>

PushTokens(r) ==
    /\ driver = "step" /\ account[r] = "active" /\ tally[r] < MaxTokens[r]
    /\ tally' = [tally EXCEPT ![r] = @ + 1]
    /\ statement' = [statement EXCEPT ![r].tokens = Append(@, tally'[r])]
    /\ UNCHANGED <<account, deferred, fixed>>

\* As Finish, leaving the account open.
Finish_KeepsAccount(r) ==
    /\ driver = "step" /\ account[r] = "active"
    /\ statement' = [statement EXCEPT ![r].terminal = Terminal("finished", tally[r])]
    /\ UNCHANGED <<account, tally, deferred, fixed>>

Finish(r) ==
    /\ driver = "step" /\ account[r] = "active"
    /\ account' = [account EXCEPT ![r] = "closed"]
    /\ statement' = [statement EXCEPT ![r].terminal = Terminal("finished", tally[r])]
    /\ UNCHANGED <<tally, deferred, fixed>>

Fail(r) ==
    /\ driver = "step" /\ Open(r)
    /\ account' = [account EXCEPT ![r] = "closed"]
    /\ statement' = [statement EXCEPT ![r].terminal = Terminal("failed", tally[r])]
    /\ UNCHANGED <<tally, deferred, fixed>>

\* is_aborted, then retire: nothing is said, and nothing that was buffered.
Retire(r) ==
    /\ driver = "step" /\ Open(r) /\ stream[r] = "aborted"
    /\ account' = [account EXCEPT ![r] = "closed"]
    /\ statement' = [statement EXCEPT ![r] = Empty]
    /\ UNCHANGED <<tally, deferred, fixed>>

\* As DeferFinish, with a fresh update for the terminal.
DeferFinish_FreshUpdate(r) ==
    /\ driver = "step" /\ account[r] = "active"
    /\ account' = [account EXCEPT ![r] = "closed"]
    /\ deferred' = [deferred EXCEPT ![r] = Answering("finished", tally[r])]
    /\ UNCHANGED <<statement, tally, fixed>>

\* defer_finish: what is buffered for the request leaves with its terminal.
DeferFinish(r) ==
    /\ driver = "step" /\ account[r] = "active"
    /\ account' = [account EXCEPT ![r] = "closed"]
    /\ deferred' = [deferred EXCEPT
                       ![r] = [statement[r] EXCEPT !.terminal = Terminal("finished", tally[r])]]
    /\ statement' = [statement EXCEPT ![r] = Empty]
    /\ UNCHANGED <<tally, fixed>>

\* Its holder, on any thread, delivers it or drops it, which fails it.
Deliver(r, kind) ==
    /\ ~Vacant(deferred[r])
    /\ Send(<<Only(r, [deferred[r] EXCEPT !.terminal.kind = kind])>>)
    /\ deferred' = [deferred EXCEPT ![r] = Empty]
    /\ UNCHANGED <<submissions, books, driver, submissionsOpen, client, lost>>

-----------------------------------------------------------------------------
Close(r) == Finish(r) \/ Fail(r) \/ Retire(r) \/ DeferFinish(r)

Next ==
    \/ \E r \in Requests :
          \/ Submit(r) \/ OpenStream(r) \/ Abort(r)
          \/ Admit(r) \/ Reject(r) \/ PushTokens(r)
          \/ Finish(r) \/ Fail(r) \/ Retire(r) \/ DeferFinish(r)
          \/ Deliver(r, "finished") \/ Deliver(r, "failed")
    \/ DispatchStep \/ Shutdown
    \/ Register \/ Drained \/ Commit \/ Fatal \/ Panic

Spec == Init /\ [][Next]_vars

\* Threads that can go on do; and a scheduler keeps to its contract: it does
\* not leave a request without a verdict, or an admitted one without an end,
\* for ever.
Fairness ==
    /\ WF_vars(Register \/ Drained)
    /\ WF_vars(Commit)
    /\ WF_vars(DispatchStep)
    /\ \A r \in Requests :
          /\ WF_vars(OpenStream(r))
          /\ WF_vars(Deliver(r, "finished") \/ Deliver(r, "failed"))
          /\ SF_vars(Admit(r) \/ Reject(r) \/ Close(r))

FairSpec == Spec /\ Fairness

-----------------------------------------------------------------------------
Submitted(r) == stream[r] # "new" \/ bridge = r

Envelopes(r) == {i \in DOMAIN submissions : submissions[i] = r}

\* The messages that carry a terminal for r.
Ends(messages, r) ==
    {i \in DOMAIN messages : r \in DOMAIN messages[i] /\ messages[i][r].terminal # None}

\* Where the answer that a request is owed may be.
Debtors(r) ==
    ({"envelope"} \X Envelopes(r)) \cup ({"message"} \X Ends(steps, r))
    \cup {<<d, 0>> : d \in {e \in {"account", "statement", "deferred", "answer", "lost"} :
             \/ e = "account" /\ Open(r)
             \/ e = "statement" /\ statement[r].terminal # None
             \/ e = "deferred" /\ ~Vacant(deferred[r])
             \/ e = "answer" /\ answer[r] # None
             \/ e = "lost" /\ r \in lost}}

\* At any moment exactly one party owes a submitted request its answer, or has
\* given it: the envelope, the account, the step's statement, a deferred
\* finish, a message on the stream, the bridge (the ledger's "terminal exactly
\* once", across drops, fatal errors and submissions that race the driver's
\* exit).  An aborted request may be owed nothing.
OneDebtor ==
    bridge # "down" => \A r \in Requests :
        /\ Submitted(r) => \A d, e \in Debtors(r) : d = e
        /\ Submitted(r) /\ stream[r] # "aborted" => Debtors(r) # {}

\* A client gets its tokens in order, and with a finish all that the ledger
\* counted: a finish delivered from another thread does not overtake them
\* (RequestLedger::defer_finish), and nothing follows it.
AnswersAddUp ==
    \A r \in Requests :
        /\ got[r] = [i \in 1 .. Len(got[r]) |-> i]
        /\ answer[r].kind = "finished" => Len(got[r]) = answer[r].count
        /\ answer[r].kind = "failed" => Len(got[r]) <= answer[r].count

\* Every request that a client waits on is answered, or was in the statement
\* of a step that panicked.
AnsweredUnlessLost ==
    \A r \in Requests : stream[r] = "open" ~> (stream[r] # "open" \/ r \in lost)

\* "An unanswered request must surface as a `Failed` terminal, never a client
\* hang." (request_lifecycle.rs)
NeverAHang == \A r \in Requests : stream[r] = "open" ~> stream[r] # "open"

\* When the frontend is gone the scheduler drains and its thread ends (drive).
DriverExits == bridge = "down" ~> driver = "exited"

=============================================================================
