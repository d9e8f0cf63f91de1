------------------------- MODULE SchedulableSequence -------------------------
(***************************************************************************)
(* The two-phase schedule/apply protocol of a request's KV blocks          *)
(* (kvbm-logical integrations/scheduled.rs over request.rs and sequence/   *)
(* assignments/logical.rs, wrapped by RequestKv of pegainfer-kv-cache),    *)
(* with the forward passes that fill the blocks in between and the prefix  *)
(* cache through which the requests share them.                            *)
(*                                                                         *)
(* One action is one method of SchedulableSequence, or one forward pass.   *)
(* The scheduler thread calls them, so a method is atomic; requests        *)
(* interleave between methods.                                             *)
(*                                                                         *)
(* Abstractions.  All requests read the same token stream: block i of one  *)
(* has the hash of block i of another, which is the case of most sharing.  *)
(* The block manager is what BlockStore promises under the Allow policy:   *)
(* a registered block stays the canonical one of its hash until it is      *)
(* evicted, and one that anybody holds, itself or through a duplicate, is  *)
(* not.  Staged blocks do not outlive complete_and_register_pending.       *)
(* drop_unassigned, append_tokens and reacquire have no caller in the      *)
(* repository and are left out; so is pad_tail_block, whose one caller     *)
(* pads requests that a cache salt keeps out of the shared stream.         *)
(***************************************************************************)
EXTENDS Integers, Sequences, FiniteSets, FiniteSetsExt

CONSTANTS Seqs,            \* requests
          Blocks,          \* block ids of the pool
          BlockSize,
          Inputs,          \* the prompt lengths that requests have
          MaxOutput,       \* max_output_tokens
          MaxDraft,        \* longest speculative draft; 0: no speculation
          Alignments,      \* the values that aligned may have
          NoBlock

ASSUME SequenceAssumption ==
    /\ BlockSize \in Nat \ {0}
    /\ Inputs \subseteq Nat \ {0}
    /\ \E longest \in Inputs : \A input \in Inputs : longest >= input
    /\ MaxOutput \in Nat
    /\ MaxDraft \in Nat
    /\ Alignments \subseteq BOOLEAN
    /\ NoBlock \notin Blocks

VARIABLES req,             \* what a request's SchedulableSequence holds
          canonical,       \* registry of the manager: hash -> canonical block
          written,         \* positions whose K/V a block in use holds
          aligned          \* whether the scheduler ends the prefill chunks
                           \* before the last on a block boundary

vars == <<req, canonical, written, aligned>>

-----------------------------------------------------------------------------
\* usize::div_ceil and saturating_sub.
DivCeil(n, d) == (n + d - 1) \div d
Minus(n, d) == IF n > d THEN n - d ELSE 0
AtMost(n, d) == IF n < d THEN n ELSE d

MaxTokens == Max(Inputs) + MaxOutput

\* A sequence hash: the stream is one, so its index names a block's content.
Hashes == 1 .. MaxTokens \div BlockSize

\* RequestSequence::new
Fresh(input) ==
    [state |-> "Idle", input |-> input, generated |-> 0, total |-> input,
     prefill |-> 0, kv |-> 0, tokens |-> 0, allocated |-> 0, accepted |-> 0,
     forwarded |-> FALSE, assigned |-> <<>>, unassigned |-> <<>>, matched |-> 0]

Absent == [Fresh(0) EXCEPT !.state = "Absent"]

Pages(r) == r.assigned \o r.unassigned

Complete(r) == r.total \div BlockSize

Finished(r) == r.generated >= MaxOutput

\* The block that holds the K/V of position p.
PageOf(r, p) == Pages(r)[p \div BlockSize + 1]

-----------------------------------------------------------------------------
\* The block manager.

\* A duplicate keeps the canonical block of its hash alive.
Held == UNION {Range(Pages(req[s])) \cup
               {canonical[i] : i \in DOMAIN req[s].assigned} : s \in Seqs}

Cached == {canonical[h] : h \in Hashes} \ {NoBlock}

FreeBlocks == Blocks \ (Held \cup Cached)

\* allocate_blocks: free blocks first, then evicted inactive ones.
Allocations(count) ==
    {T \in SUBSET (Blocks \ Held) :
        /\ Cardinality(T) = count
        /\ T \subseteq FreeBlocks \/ FreeBlocks \subseteq T}

Evicted_Stale(T) == canonical
Evicted(T) == [h \in Hashes |-> IF canonical[h] \in T THEN NoBlock ELSE canonical[h]]

\* What a block held is of no use to whoever gets it next.
ForgetFree == written' = [b \in Blocks |-> IF b \in FreeBlocks' THEN {} ELSE written[b]]

\* match_blocks: n is the longest run of leading hashes that are in the cache.
Matches(r, n) ==
    /\ \A i \in 1 .. n : canonical[i] # NoBlock
    /\ n < Complete(r) => canonical[n + 1] = NoBlock

-----------------------------------------------------------------------------
\* RequestSequence and SchedulableSequence helpers.

\* stage pairs the oldest unassigned blocks with the next token blocks.
Stageable(r) == AtMost(Minus(Complete(r), Len(r.assigned)), Len(r.unassigned))

\* complete_and_register_pending
Registered(r) ==
    LET n == Stageable(r)
    IN  [r EXCEPT !.assigned = @ \o SubSeq(r.unassigned, 1, n),
                  !.unassigned = SubSeq(@, n + 1, Len(@))]

\* register_block makes a block canonical unless its hash has one.
Canonical(r) ==
    LET have == Len(r.assigned)
    IN  [h \in Hashes |->
            IF h \in have + 1 .. have + Stageable(r) /\ canonical[h] = NoBlock
            THEN r.unassigned[h - have]
            ELSE canonical[h]]

\* append_token, count times.
Appended(r, count) ==
    [r EXCEPT !.total = @ + count, !.generated = @ + count]

\* lifo_pop_unassigned
Popped_First(r, count) ==
    [r EXCEPT !.unassigned = SubSeq(@, AtMost(count, Len(@)) + 1, Len(@))]
Popped(r, count) ==
    [r EXCEPT !.unassigned = SubSeq(@, 1, Minus(Len(@), count))]

Idle(r) == [r EXCEPT !.state = "Idle", !.tokens = 0, !.allocated = 0,
                     !.accepted = 0, !.forwarded = FALSE]

Put(s, r) == req' = [req EXCEPT ![s] = r]

\* The tail of every schedule_*: pre-allocate and leave Idle.
Schedule(s, state, tokens, count) ==
    \E T \in Allocations(count) : \E q \in Bijection(1 .. count, T) :
        /\ Put(s, [req[s] EXCEPT !.state = state, !.tokens = tokens, !.allocated = count,
                                 !.unassigned = @ \o q])
        /\ canonical' = Evicted(T)
        /\ written' = [b \in Blocks |-> IF b \in T THEN {} ELSE written[b]]

\* tail_tokens: the tokens whose K/V is still to be computed.
TailTokens(r) == Minus(r.total, r.kv)

-----------------------------------------------------------------------------
Init ==
    /\ req = [s \in Seqs |-> Absent]
    /\ canonical = [h \in Hashes |-> NoBlock]
    /\ written = [b \in Blocks |-> {}]
    /\ aligned \in Alignments

\* BlockPool::new_request
NewRequest(s) ==
    /\ req[s].state = "Absent"
    /\ \E input \in Inputs : Put(s, Fresh(input))
    /\ UNCHANGED <<canonical, written>>

\* The cap on a prefix match: one input token stays to be computed.
MatchCap_Whole(r) == r.input \div BlockSize
MatchCap(r) == Minus(r.input, 1) \div BlockSize

\* match_and_add_prefix, on a fresh request as its doc demands.
MatchAndAddPrefix(s) ==
    LET r == req[s]
    IN  /\ r.state = "Idle"
        /\ r.prefill = 0
        /\ Pages(r) = <<>>
        /\ \E cached \in 1 .. Complete(r) :
              LET n == AtMost(cached, MatchCap(r))
              IN  /\ Matches(r, cached)
                  /\ n > 0
                  /\ Put(s, [r EXCEPT !.assigned = SubSeq(canonical, 1, n), !.matched = n,
                                      !.prefill = n * BlockSize, !.kv = n * BlockSize])
        /\ UNCHANGED <<canonical, written>>

SchedulePrefill(s) ==
    LET r == req[s]
    IN  /\ r.state = "Idle"
        /\ \E n \in 1 .. Minus(r.input, r.prefill) :
              LET end == r.prefill + n
              IN  /\ aligned => end = r.input \/ end % BlockSize = 0
                  /\ Schedule(s, "Prefill", n,
                              Minus(DivCeil(end, BlockSize), Len(Pages(r))))

\* require_prefill_complete, require_not_complete, require_one_dangling
MayDecode(r) ==
    /\ r.state = "Idle"
    /\ r.prefill >= r.input
    /\ ~Finished(r)
    /\ TailTokens(r) = 1

\* Blocks already full at the sequence level, and the one that generation
\* is to fill.
DecodeNeed_NoGen(r) == Minus(Complete(r), Len(r.assigned))
DecodeNeed(r) == Minus(Complete(r), Len(r.assigned)) + 1

ScheduleDecode(s) ==
    LET r == req[s]
    IN  /\ MayDecode(r)
        /\ Schedule(s, "Decode", 1, Minus(DecodeNeed(r), Len(r.unassigned)))

\* The draft is clamped to the output that is left.
Draft(r, n) == AtMost(n, MaxOutput - r.generated)

ScheduleSpeculative(s) ==
    LET r == req[s]
    IN  /\ MayDecode(r)
        /\ \E d \in 1 .. MaxDraft :
              LET n == Draft(r, d)
              IN  Schedule(s, "Speculative", n,
                           Minus(DivCeil(r.total + n, BlockSize), Len(Pages(r))))

\* The forward pass of a scheduled step writes the K/V of its tokens through
\* the page row (step_page_indices).  Of a draft only the accepted prefix is
\* the K/V of the sequence; the rest overwrites its slots with other K/V.
Forward(s) ==
    LET r == req[s]
        span == r.kv .. r.kv + r.tokens - 1
    IN  /\ r.state \in {"Prefill", "Decode", "Speculative"}
        /\ ~r.forwarded
        /\ \E good \in IF r.state = "Speculative" THEN 0 .. r.tokens ELSE {r.tokens} :
              /\ Put(s, [r EXCEPT !.forwarded = TRUE, !.accepted = good])
              /\ written' = [b \in Blocks |->
                    LET here == {p \in span : PageOf(r, p) = b}
                    IN  {q \in written[b] : \A p \in here : q % BlockSize # p % BlockSize}
                        \cup {p \in here : p < r.kv + good}]
        /\ UNCHANGED canonical

\* The final chunk brings the first generated token, whose block is not
\* registered here.
ApplyPrefill(s) ==
    LET r == req[s]
        end == r.prefill + r.tokens
        out == IF end >= r.input /\ MaxOutput > 0 THEN 1 ELSE 0
    IN  /\ r.state = "Prefill"
        /\ r.forwarded
        /\ canonical' = Canonical(r)
        /\ Put(s, Idle(Appended([Registered(r) EXCEPT !.prefill = end, !.kv = end], out)))
        /\ UNCHANGED written

ApplyDecode(s) ==
    LET r == Appended(req[s], 1)
    IN  /\ r.state = "Decode"
        /\ r.forwarded
        /\ canonical' = Canonical(r)
        /\ Put(s, Idle([Registered(r) EXCEPT !.kv = @ + 1]))
        /\ UNCHANGED written

\* lifo_drop_excess_unassigned keeps the block in progress.
NeedGen_None(r) == 0
NeedGen(r) == IF Finished(r) THEN 0 ELSE 1

ApplySpeculative(s) ==
    LET r == Appended(req[s], req[s].accepted)
        next == Registered(r)
    IN  /\ r.state = "Speculative"
        /\ r.forwarded
        /\ canonical' = Canonical(r)
        /\ Put(s, Idle(Popped([next EXCEPT !.kv = @ + r.accepted],
                              Minus(Len(next.unassigned), NeedGen(r)))))
        /\ ForgetFree

\* revert_schedule, before the forward pass or after one that failed.
RevertSchedule(s) ==
    /\ req[s].state \in {"Prefill", "Decode", "Speculative"}
    /\ Put(s, Idle(Popped(req[s], req[s].allocated)))
    /\ UNCHANGED canonical
    /\ ForgetFree

\* adopt_external_prefill_anchor turns the last input token into the first
\* generated one.
AdoptExternalPrefillAnchor(s) ==
    LET r == req[s]
    IN  /\ r.state = "Idle"
        /\ r.prefill = r.kv
        /\ r.prefill + 1 = r.input
        /\ TailTokens(r) = 1
        /\ ~Finished(r)
        /\ Put(s, [r EXCEPT !.input = @ - 1, !.generated = @ + 1])
        /\ UNCHANGED <<canonical, written>>

\* release, and the drop of a RequestKv in any state: RAII returns the
\* unregistered blocks and the duplicates, the canonical ones stay cached.
Release(s) ==
    /\ req[s].state # "Absent"
    /\ Put(s, Absent)
    /\ UNCHANGED canonical
    /\ ForgetFree

Next ==
    /\ UNCHANGED aligned
    /\ \E s \in Seqs :
         \/ NewRequest(s)
         \/ MatchAndAddPrefix(s)
         \/ SchedulePrefill(s)
         \/ ScheduleDecode(s)
         \/ ScheduleSpeculative(s)
         \/ Forward(s)
         \/ ApplyPrefill(s)
         \/ ApplyDecode(s)
         \/ ApplySpeculative(s)
         \/ RevertSchedule(s)
         \/ AdoptExternalPrefillAnchor(s)
         \/ Release(s)

Spec == Init /\ [][Next]_vars

-----------------------------------------------------------------------------
HasPage(r, p) == p \div BlockSize < Len(Pages(r))

HasKv(r, p) == HasPage(r, p) /\ p \in written[PageOf(r, p)]

Live == {s \in Seqs : req[s].state # "Absent"}

\* Scheduler: what admission sets aside for a request over its lifetime
\* (request_lifetime_blocks).
LifetimeBlocks_KvOnly(r) == DivCeil(r.total - r.generated + Minus(MaxOutput, 1), BlockSize)
LifetimeBlocks(r) ==
    LET prompt == r.total - r.generated
        tokens == IF MaxOutput <= 1 THEN prompt ELSE prompt + MaxOutput
    IN  DivCeil(tokens, BlockSize)

\* The page row handed to a forward pass covers every token of the step: the
\* assertion of KvView::new, that the pages are as many as the tokens need,
\* cannot fail.
PagesCoverStep ==
    \A s \in Seqs : req[s].state \in {"Prefill", "Decode", "Speculative"} =>
        DivCeil(req[s].kv + req[s].tokens, BlockSize) <= Len(Pages(req[s]))

\* A request never holds more blocks than admission set aside for it, the
\* eagerly allocated generation block and a whole draft included.
WithinLifetime ==
    \A s \in Live : Len(Pages(req[s])) <= LifetimeBlocks(req[s])

\* Every K/V row a request computed itself is still in its page when later
\* steps read it: no revert, rejected draft, eviction or other request takes
\* the page away or writes over the row.
OwnKvIntact ==
    \A s \in Live : ~Finished(req[s]) =>
        \A p \in req[s].matched * BlockSize .. req[s].kv - 1 : HasKv(req[s], p)

\* An idle request that has not reached its output limit always has a legal
\* next step: prefill is left, or exactly one token dangles.
NextStepExists ==
    \A s \in Live : req[s].state = "Idle" /\ ~Finished(req[s]) =>
        req[s].prefill < req[s].input \/ TailTokens(req[s]) = 1

\* With prefill chunks that end on block boundaries, the prefix cache names
\* only blocks whose K/V is computed up to the last token.
CachedButLast ==
    aligned => \A h \in Hashes : canonical[h] # NoBlock =>
        (h - 1) * BlockSize .. h * BlockSize - 2 \subseteq written[canonical[h]]

\* The page of a committed token does not change while the request goes on
\* generating: device-side page tables stay right across schedule, apply and
\* revert.
PagesStable ==
    [][\A s \in Live : req'[s].state # "Absent" /\ ~Finished(req'[s]) =>
          \A p \in {q \in 0 .. req[s].kv - 1 : HasPage(req[s], q)} :
              HasPage(req'[s], p) /\ PageOf(req'[s], p) = PageOf(req[s], p)]_vars

=============================================================================
