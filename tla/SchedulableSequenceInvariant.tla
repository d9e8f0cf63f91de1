-------------------- MODULE SchedulableSequenceInvariant --------------------
(***************************************************************************)
(* The inductive invariant of SchedulableSequence, for any requests,       *)
(* blocks, block size, prompt lengths, output limit and draft length, and  *)
(* the lemmas about it: what each operation makes of one request, which    *)
(* requests may have the same page, and which rows are in the pages.       *)
(* SchedulableSequenceProofs has the steps and the theorems.               *)
(***************************************************************************)
EXTENDS SchedulableSequence, TLAPS

(* The provers to try, in this order. *)
USE SMTT(20), SMTT(30), ZenonT(20), SMTT(60)

(* The states of a request, with one for a name that is not in use. *)
States == {"Absent", "Idle", "Prefill", "Decode", "Speculative"}

(* What is kept for a request. *)
Requests ==
    [state : States, input : Nat, generated : Nat, total : Nat, prefill : Nat, kv : Nat,
     tokens : Nat, allocated : Nat, accepted : Nat, forwarded : BOOLEAN,
     assigned : Seq(Blocks), unassigned : Seq(Blocks), matched : Nat]

(* The types of the variables. *)
TypeOK ==
    /\ req \in [Seqs -> Requests]
    /\ canonical \in [Hashes -> Blocks \cup {NoBlock}]
    /\ written \in [Blocks -> SUBSET Nat]
    /\ aligned \in BOOLEAN

(* The blocks a request has registered, the ones it has not, and all of    *)
(* them.                                                                   *)
Have(r) == Len(r.assigned)
Spare(r) == Len(r.unassigned)
PageCount(r) == Have(r) + Spare(r)

(* The books of one request. *)
Books(r) ==
    /\ r.total = r.input + r.generated
    /\ r.generated <= MaxOutput
    /\ r.input + MaxOutput <= MaxTokens
    /\ r.prefill <= r.input
    /\ Have(r) <= Complete(r)
    /\ r.matched <= Have(r)
    /\ r.matched * BlockSize <= r.kv
    /\ r.accepted <= r.tokens
    /\ r.allocated <= Spare(r)
    /\ PageCount(r) <= LifetimeBlocks(r)

(* Before the prompt is computed the pages that the step at hand did not   *)
(* bring are the pages of what is; afterwards one token dangles, and they  *)
(* cover all before it while the request goes on.                          *)
Phase(r) ==
    /\ r.prefill < r.input =>
          /\ r.kv = r.prefill /\ r.generated = 0
          /\ PageCount(r) - r.allocated = DivCeil(r.prefill, BlockSize)
          /\ aligned => r.prefill % BlockSize = 0
    /\ r.prefill = r.input =>
          /\ MaxOutput = 0 => r.kv = r.total
          /\ MaxOutput > 0 => r.generated > 0 /\ r.kv + 1 = r.total
          /\ ~Finished(r) => r.kv <= (PageCount(r) - r.allocated) * BlockSize

(* The step at hand. *)
Step(r) ==
    /\ r.state = "Idle" => r.tokens = 0 /\ r.allocated = 0 /\ ~r.forwarded
    /\ ~r.forwarded => r.accepted = 0
    /\ r.state = "Prefill" =>
          /\ r.tokens > 0 /\ r.prefill + r.tokens <= r.input
          /\ PageCount(r) = DivCeil(r.prefill + r.tokens, BlockSize)
          /\ aligned => \/ r.prefill + r.tokens = r.input
                        \/ (r.prefill + r.tokens) % BlockSize = 0
          /\ r.forwarded => r.accepted = r.tokens
    /\ r.state \in {"Decode", "Speculative"} =>
          /\ r.prefill = r.input /\ r.tokens > 0
          /\ r.generated + r.tokens <= MaxOutput
          /\ r.kv + r.tokens <= PageCount(r) * BlockSize
    /\ r.state = "Decode" => r.tokens = 1 /\ (r.forwarded => r.accepted = r.tokens)

(* What holds of every request by itself. *)
Sound(r) == Books(r) /\ (r.state # "Absent" => Phase(r) /\ Step(r))

(* The numbers of the pages of a request. *)
PageNos(s) == 1 .. PageCount(req[s])

(* Who shares a page: requests that matched the canonical block of a hash, *)
(* with the one that computed it and with each other.                      *)
SharedPages ==
    \A s, t \in Seqs : \A i \in PageNos(s), j \in PageNos(t) :
        Pages(req[s])[i] = Pages(req[t])[j] =>
            /\ i = j
            /\ s = t \/ i <= req[s].matched \/ i <= req[t].matched

(* A page that is also canonical is so under the hash of its place, and    *)
(* the request has it registered.                                          *)
CachedPages ==
    \A s \in Seqs : \A h \in Hashes, i \in PageNos(s) :
        canonical[h] = Pages(req[s])[i] => h = i /\ i <= Have(req[s])

(* No block is canonical for two hashes. *)
CachedOnce ==
    \A g, h \in Hashes : canonical[g] = canonical[h] => g = h \/ canonical[h] = NoBlock

(* The hashes of registered blocks have a canonical block, not always this *)
(* one.                                                                    *)
AssignedCached ==
    \A s \in Seqs : \A i \in 1 .. Have(req[s]) : i \in Hashes /\ canonical[i] # NoBlock

(* The blocks a request matched are the canonical ones. *)
MatchedCached ==
    \A s \in Seqs : \A i \in 1 .. req[s].matched : Pages(req[s])[i] = canonical[i]

(* Which pages may be the same block. *)
Sharing == SharedPages /\ CachedPages /\ CachedOnce /\ AssignedCached /\ MatchedCached

(* A request with prompt left to compute, or output.                       *)
GoesOn(r) == r.state # "Absent" /\ (r.prefill < r.input \/ ~Finished(r))

(* The rows a request computed itself, the accepted ones of the step at    *)
(* hand included: what it matched was there before.                        *)
OwnRows(r) == r.matched * BlockSize .. r.kv + r.accepted - 1

(* A request that goes on finds every row it computed in the page of its   *)
(* position.                                                               *)
Rows ==
    \A s \in Seqs : GoesOn(req[s]) =>
        \A p \in OwnRows(req[s]) : p \in written[PageOf(req[s], p)]

(* The invariant of the proofs: each request by itself, the sharing of     *)
(* blocks, the rows in them, and those of the cached blocks.               *)
IInv ==
    /\ TypeOK
    /\ \A s \in Seqs : Sound(req[s])
    /\ Sharing
    /\ Rows
    /\ CachedButLast

-----------------------------------------------------------------------------

(* The counters of a request are numbers. *)
Counts(r) ==
    /\ r.input \in Nat /\ r.generated \in Nat /\ r.total \in Nat /\ r.prefill \in Nat
    /\ r.kv \in Nat /\ r.tokens \in Nat /\ r.allocated \in Nat /\ r.accepted \in Nat
    /\ r.matched \in Nat /\ r.forwarded \in BOOLEAN
    /\ Have(r) \in Nat /\ Spare(r) \in Nat /\ PageCount(r) \in Nat

(* The fields of a request. *)
LEMMA Fields ==
    ASSUME NEW r \in Requests
    PROVE  /\ r.assigned \in Seq(Blocks) /\ r.unassigned \in Seq(Blocks)
           /\ Counts(r)
<1>1. r.assigned \in Seq(Blocks) /\ r.unassigned \in Seq(Blocks)
  BY DEF Requests
<1>2. Have(r) \in Nat /\ Spare(r) \in Nat
  BY <1>1 DEF Have, Spare
<1>3. PageCount(r) \in Nat
  BY <1>2 DEF PageCount
<1> QED BY <1>1, <1>2, <1>3 DEF Requests, Counts

(* What a concatenation is made of. *)
LEMMA Concat ==
    ASSUME NEW a \in Seq(Blocks), NEW b \in Seq(Blocks)
    PROVE  /\ a \o b \in Seq(Blocks)
           /\ Len(a \o b) = Len(a) + Len(b)
           /\ \A i \in 1 .. Len(a) : (a \o b)[i] = a[i]
           /\ \A i \in Len(a) + 1 .. Len(a) + Len(b) : (a \o b)[i] = b[i - Len(a)]
OBVIOUS

(* Pages of tokens. *)
LEMMA Covers ==
    ASSUME NEW n \in Nat, NEW q \in Nat
    PROVE  /\ DivCeil(n, BlockSize) \in Nat
           /\ DivCeil(n, BlockSize) <= q <=> n <= q * BlockSize
BY SequenceAssumption DEF DivCeil

(* More tokens take no fewer pages. *)
LEMMA CeilGrows ==
    ASSUME NEW n \in Nat, NEW m \in Nat, n <= m
    PROVE  DivCeil(n, BlockSize) <= DivCeil(m, BlockSize)
BY SequenceAssumption DEF DivCeil

(* Whole blocks of tokens: how many there are, and the page of one token   *)
(* more.                                                                   *)
LEMMA Fills ==
    ASSUME NEW n \in Nat, NEW q \in Nat
    PROVE  /\ n \div BlockSize \in Nat
           /\ q <= n \div BlockSize <=> q * BlockSize <= n
           /\ DivCeil(n + 1, BlockSize) = n \div BlockSize + 1
BY SequenceAssumption DEF DivCeil

(* The tokens of n whole blocks take n pages. *)
LEMMA WholePages ==
    ASSUME NEW n \in Nat
    PROVE  /\ n * BlockSize \in Nat
           /\ n > 0 => n * BlockSize > 0
           /\ DivCeil(n * BlockSize, BlockSize) = n
           /\ (n * BlockSize) % BlockSize = 0
<1>1. n * BlockSize \in Nat /\ (n > 0 => n * BlockSize > 0)
  BY SequenceAssumption
<1>2. (n * BlockSize) \div BlockSize = n
  BY SequenceAssumption
<1>3. DivCeil(n * BlockSize, BlockSize) = n
  BY SequenceAssumption DEF DivCeil
<1>4. (n * BlockSize) % BlockSize = 0
  BY <1>1, <1>2, SequenceAssumption
<1> QED BY <1>1, <1>3, <1>4

(* The longest prompt bounds the tokens of a request. *)
LEMMA LongestPrompt ==
    /\ MaxTokens \in Nat
    /\ \A input \in Inputs : input + MaxOutput <= MaxTokens
<1>1. Max(Inputs) \in Inputs /\ \A input \in Inputs : Max(Inputs) >= input
  BY SequenceAssumption, Zenon DEF Max
<1>2. PICK longest \in Nat : longest = Max(Inputs)
  BY <1>1, SequenceAssumption, Zenon
<1>3. MaxTokens = longest + MaxOutput /\ MaxOutput \in Nat
  BY <1>2, SequenceAssumption DEF MaxTokens
<1>4. \A input \in Inputs : input \in Nat /\ input <= longest
  BY <1>1, <1>2, SequenceAssumption
<1> QED BY <1>3, <1>4

(* What admission sets aside covers the prompt, and all the output when    *)
(* there is more than a token of it.                                       *)
LEMMA LifetimeCovers ==
    ASSUME NEW r \in Requests, r.total = r.input + r.generated
    PROVE  /\ LifetimeBlocks(r) \in Nat
           /\ DivCeil(r.input, BlockSize) <= LifetimeBlocks(r)
           /\ MaxOutput > 1 => LifetimeBlocks(r) = DivCeil(r.input + MaxOutput, BlockSize)
<1>1. r.input \in Nat /\ r.generated \in Nat /\ r.total \in Nat /\ r.total - r.generated = r.input
  BY DEF Requests
<1>2. MaxOutput \in Nat
  BY SequenceAssumption
<1>3. LifetimeBlocks(r) = DivCeil(IF MaxOutput <= 1 THEN r.input ELSE r.input + MaxOutput, BlockSize)
  BY <1>1 DEF LifetimeBlocks
<1>4. DivCeil(r.input, BlockSize) <= DivCeil(r.input + MaxOutput, BlockSize)
  BY <1>1, <1>2, CeilGrows
<1>5. DivCeil(r.input, BlockSize) \in Nat /\ DivCeil(r.input + MaxOutput, BlockSize) \in Nat
  BY <1>1, <1>2, Covers
<1> QED BY <1>2, <1>3, <1>4, <1>5

-----------------------------------------------------------------------------
(***************************************************************************)
(* One request at a time: each operation keeps its books.                  *)
(***************************************************************************)

(* A new request is sound. *)
LEMMA FreshSound ==
    ASSUME NEW input \in Inputs
    PROVE  Fresh(input) \in Requests /\ Sound(Fresh(input))
<1>1. input \in Nat /\ input > 0 /\ BlockSize \in Nat \ {0} /\ MaxOutput \in Nat
  BY SequenceAssumption
<1>2. Fresh(input) \in Requests
  BY <1>1 DEF Fresh, Requests, States
<1>3. Books(Fresh(input))
  <2>1. 0 <= LifetimeBlocks(Fresh(input))
    BY <1>1, <1>2, LifetimeCovers DEF Fresh
  <2>2. 0 <= Complete(Fresh(input))
    BY <1>1, Fills DEF Fresh, Complete
  <2> QED BY <1>1, <2>1, <2>2, LongestPrompt DEF Fresh, Books, PageCount, Have, Spare
<1>4. Phase(Fresh(input)) /\ Step(Fresh(input))
  <2>1. DivCeil(0, BlockSize) = 0 /\ 0 % BlockSize = 0
    BY <1>1 DEF DivCeil
  <2> QED BY <1>1, <2>1 DEF Fresh, Phase, Step, PageCount, Have, Spare
<1> QED BY <1>2, <1>3, <1>4 DEF Sound

(* A name that is not in use is sound. *)
LEMMA AbsentSound == Absent \in Requests /\ Sound(Absent)
<1>1. BlockSize \in Nat \ {0} /\ MaxOutput \in Nat
  BY SequenceAssumption
<1>2. Absent \in Requests
  <2>1. Fresh(0) \in Requests
    BY DEF Fresh, Requests, States
  <2> QED BY <2>1, Zenon DEF Absent, Requests, States
<1>3. Books(Absent)
  <2>1. 0 <= LifetimeBlocks(Absent)
    BY <1>1, <1>2, LifetimeCovers DEF Absent, Fresh
  <2>2. 0 <= Complete(Absent)
    BY <1>1, Fills DEF Absent, Fresh, Complete
  <2>3. MaxOutput <= MaxTokens
    BY <1>1, LongestPrompt, SequenceAssumption
  <2> QED BY <1>1, <2>1, <2>2, <2>3 DEF Absent, Fresh, Books, PageCount, Have, Spare
<1> QED BY <1>2, <1>3 DEF Sound, Absent, Fresh

(* match_and_add_prefix leaves the request sound. *)
LEMMA MatchedSound ==
    ASSUME NEW r \in Requests, Sound(r), r.state = "Idle", r.prefill = 0, PageCount(r) = 0,
           NEW n \in 1 .. MatchCap(r), NEW hits \in Seq(Blocks), Len(hits) = n,
           NEW m, m = [r EXCEPT !.assigned = hits, !.matched = n,
                                !.prefill = n * BlockSize, !.kv = n * BlockSize]
    PROVE  m \in Requests /\ Sound(m)
<1>1. BlockSize \in Nat \ {0} /\ MaxOutput \in Nat
  BY SequenceAssumption
<1>2. r.input \in Nat /\ r.input > 0 /\ n \in Nat /\ n * BlockSize \in Nat /\ n * BlockSize < r.input
  <2>1. r.input \in Nat
    BY DEF Requests
  <2>2. Minus(r.input, 1) \in Nat /\ n <= Minus(r.input, 1) \div BlockSize
    BY <1>1, <2>1, Fills DEF MatchCap, Minus
  <2>3. n * BlockSize <= Minus(r.input, 1) /\ n * BlockSize > 0 /\ n * BlockSize \in Nat
    BY <2>2, Fills, WholePages
  <2> QED BY <2>1, <2>2, <2>3 DEF Minus
<1>0. Counts(r)
  BY Fields
<1>3. m \in Requests
  BY <1>2, ZenonT(40) DEF Requests
<1>4. /\ m.state = "Idle" /\ m.input = r.input /\ m.generated = r.generated /\ m.total = r.total
      /\ m.prefill = n * BlockSize /\ m.kv = n * BlockSize /\ m.tokens = r.tokens
      /\ m.allocated = r.allocated /\ m.accepted = r.accepted /\ m.forwarded = r.forwarded
      /\ m.assigned = hits /\ m.unassigned = r.unassigned /\ m.matched = n
  BY DEF Requests
<1>5. Spare(r) = 0 /\ r.generated = 0 /\ r.total = r.input
  BY <1>0, <1>2 DEF PageCount, Sound, Phase, Books, Counts
<1>6. Have(m) = n /\ Spare(m) = 0 /\ PageCount(m) = n
  BY <1>2, <1>4, <1>5 DEF PageCount, Have, Spare
<1>7. n <= Complete(m) /\ DivCeil(n * BlockSize, BlockSize) = n /\ (n * BlockSize) % BlockSize = 0
  <2>1. n * BlockSize <= r.total
    BY <1>2, <1>5
  <2>2. n <= r.total \div BlockSize
    BY <1>2, <1>5, <2>1, Fills
  <2> QED BY <1>2, <1>4, <2>2, WholePages DEF Complete
<1>8. PageCount(m) <= LifetimeBlocks(m)
  <2>1. n <= DivCeil(r.input, BlockSize)
    BY <1>2, <1>7, CeilGrows
  <2>2. DivCeil(r.input, BlockSize) \in Nat
    BY <1>2, Covers
  <2>3. LifetimeBlocks(m) \in Nat /\ DivCeil(r.input, BlockSize) <= LifetimeBlocks(m)
    <3>1. m.total = m.input + m.generated
      BY <1>4, <1>5 DEF Requests
    <3>2. LifetimeBlocks(m) \in Nat /\ DivCeil(m.input, BlockSize) <= LifetimeBlocks(m)
      BY <1>3, <3>1, LifetimeCovers, Zenon
    <3> QED BY <1>4, <3>2
  <2> QED BY <1>2, <1>6, <2>1, <2>2, <2>3
<1>9. Books(m)
  BY <1>0, <1>2, <1>4, <1>5, <1>6, <1>7, <1>8 DEF Books, Sound, Counts
<1>10. Phase(m) /\ Step(m)
  BY <1>0, <1>2, <1>4, <1>5, <1>6, <1>7 DEF Phase, Step, Sound, Counts
<1> QED BY <1>3, <1>9, <1>10 DEF Sound

(* The tail of every schedule_*. *)
Scheduled(r, state, tokens, count, q) ==
    [r EXCEPT !.state = state, !.tokens = tokens, !.allocated = count, !.unassigned = @ \o q]

(* The same request with a step scheduled and count more blocks. *)
Grown(m, r, state, tokens, count) ==
    /\ m.state = state /\ m.input = r.input /\ m.generated = r.generated
    /\ m.total = r.total /\ m.prefill = r.prefill /\ m.kv = r.kv
    /\ m.tokens = tokens /\ m.allocated = count /\ m.accepted = r.accepted
    /\ m.forwarded = r.forwarded /\ m.matched = r.matched
    /\ Have(m) = Have(r) /\ Spare(m) = Spare(r) + count
    /\ PageCount(m) = PageCount(r) + count

(* Scheduling does that. *)
LEMMA ScheduledGrown ==
    ASSUME NEW r \in Requests, NEW state \in States, NEW tokens \in Nat, NEW count \in Nat,
           NEW q \in Seq(Blocks), Len(q) = count,
           NEW m, m = Scheduled(r, state, tokens, count, q)
    PROVE  m \in Requests /\ Grown(m, r, state, tokens, count)
<1>0. Counts(r) /\ r.unassigned \in Seq(Blocks)
  BY Fields
<1>1. r.unassigned \o q \in Seq(Blocks) /\ Len(r.unassigned \o q) = Len(r.unassigned) + count
  BY <1>0, Concat, Zenon
<1>2. m \in Requests
  BY <1>1, Zenon DEF Requests, Scheduled
<1>3. /\ m.state = state /\ m.input = r.input /\ m.generated = r.generated
      /\ m.total = r.total /\ m.prefill = r.prefill /\ m.kv = r.kv
      /\ m.tokens = tokens /\ m.allocated = count /\ m.accepted = r.accepted
      /\ m.forwarded = r.forwarded /\ m.assigned = r.assigned /\ m.matched = r.matched
      /\ m.unassigned = r.unassigned \o q
  BY Zenon DEF Requests, Scheduled
<1>4. Have(m) = Have(r) /\ Spare(m) = Spare(r) + count
  BY <1>1, <1>3, Zenon DEF Have, Spare
<1>5. PageCount(m) = PageCount(r) + count
  BY <1>0, <1>4 DEF PageCount, Counts
<1> QED BY <1>2, <1>3, <1>4, <1>5, Zenon DEF Grown

(* What a step that commits nothing leaves as it is. *)
LEMMA SameBooks ==
    ASSUME NEW r, NEW m, m.input = r.input, m.generated = r.generated, m.total = r.total,
           m.kv = r.kv, m.matched = r.matched
    PROVE  /\ LifetimeBlocks(m) = LifetimeBlocks(r)
           /\ Complete(m) = Complete(r)
           /\ m.matched * BlockSize <= m.kv <=> r.matched * BlockSize <= r.kv
BY Zenon DEF LifetimeBlocks, Complete

(* schedule_prefill leaves the request sound. *)
LEMMA PrefillSound ==
    ASSUME NEW r \in Requests, Sound(r), r.state = "Idle",
           NEW n \in 1 .. Minus(r.input, r.prefill),
           aligned => r.prefill + n = r.input \/ (r.prefill + n) % BlockSize = 0,
           NEW count \in Nat, count = Minus(DivCeil(r.prefill + n, BlockSize), PageCount(r)),
           NEW m \in Requests, Grown(m, r, "Prefill", n, count)
    PROVE  Sound(m)
<1>0. Counts(r)
  BY Fields
<1>1. r.input \in Nat /\ r.prefill \in Nat /\ n \in Nat /\ n > 0 /\ r.prefill + n <= r.input
  BY <1>0 DEF Counts, Minus
<1>2. PICK pages \in Nat : pages = PageCount(r)
  BY Fields, Zenon DEF Counts
<1>3. PICK need \in Nat : need = DivCeil(r.prefill + n, BlockSize)
  BY <1>1, Covers
<1>4. /\ r.prefill < r.input /\ r.kv = r.prefill /\ r.generated = 0 /\ r.allocated = 0
      /\ pages = DivCeil(r.prefill, BlockSize)
      /\ r.tokens = 0 /\ ~r.forwarded /\ r.accepted = 0
      /\ aligned => r.prefill % BlockSize = 0
  BY <1>1, <1>2 DEF Sound, Phase, Step, Books
<1>5. pages <= need /\ count = need - pages
  <2>1. pages <= need
    BY <1>1, <1>3, <1>4, CeilGrows
  <2> QED BY <1>2, <1>3, <2>1 DEF Minus
<1>6. PageCount(m) = need
  BY <1>2, <1>3, <1>5 DEF Grown
<1>7. need <= LifetimeBlocks(r)
  <2>1. need <= DivCeil(r.input, BlockSize) /\ DivCeil(r.input, BlockSize) \in Nat
    <3>1. r.prefill + n \in Nat
      BY <1>1
    <3> QED BY <1>1, <1>3, <3>1, CeilGrows, Covers, Zenon
  <2>2. r.total = r.input + r.generated
    BY DEF Sound, Books
  <2>3. LifetimeBlocks(r) \in Nat /\ DivCeil(r.input, BlockSize) <= LifetimeBlocks(r)
    BY <2>2, LifetimeCovers
  <2> QED BY <1>3, <2>1, <2>3
<1>8. Books(m)
  <2>1. /\ LifetimeBlocks(m) = LifetimeBlocks(r)
        /\ Complete(m) = Complete(r)
        /\ m.matched * BlockSize <= m.kv <=> r.matched * BlockSize <= r.kv
    BY SameBooks, Zenon DEF Grown
  <2> QED BY <1>0, <1>1, <1>4, <1>5, <1>6, <1>7, <2>1 DEF Books, Sound, Grown, Counts
<1>9. Phase(m)
  <2>1. PageCount(m) - m.allocated = DivCeil(m.prefill, BlockSize)
    BY <1>2, <1>3, <1>4, <1>5, <1>6 DEF Grown
  <2> QED BY <1>1, <1>4, <2>1 DEF Phase, Grown
<1>10. Step(m)
  BY <1>1, <1>3, <1>4, <1>6 DEF Step, Grown
<1> QED BY <1>8, <1>9, <1>10 DEF Sound

(* schedule_decode and schedule_speculative, for need pages in all *)
LEMMA GeneratingSound ==
    ASSUME NEW r \in Requests, Sound(r), MayDecode(r),
           NEW state \in {"Decode", "Speculative"}, NEW n \in 1 .. MaxOutput - r.generated,
           state = "Decode" => n = 1,
           NEW need \in Nat, need <= DivCeil(r.input + MaxOutput, BlockSize),
           r.kv + n <= need * BlockSize,
           NEW count \in Nat, count = Minus(need, PageCount(r)),
           NEW m \in Requests, Grown(m, r, state, n, count)
    PROVE  Sound(m)
<1>0. Counts(r) /\ r.state = "Idle" /\ MaxOutput \in Nat /\ n \in Nat /\ n > 0
  BY Fields, SequenceAssumption DEF MayDecode, Counts
<1>1. /\ r.prefill = r.input /\ r.generated > 0 /\ r.kv + 1 = r.total
      /\ r.generated < MaxOutput /\ MaxOutput > 1
      /\ r.tokens = 0 /\ r.allocated = 0 /\ ~r.forwarded /\ r.accepted = 0
  BY <1>0 DEF MayDecode, Finished, Sound, Books, Phase, Step, Counts
<1>2. PICK pages \in Nat : pages = PageCount(r)
  BY <1>0, Zenon DEF Counts
<1>3. PICK all \in Nat : all = PageCount(m) /\ all = pages + count /\ pages <= all /\ need <= all
  <2>1. PageCount(m) = pages + count
    BY <1>2 DEF Grown
  <2>2. need <= pages + count
    BY <1>2 DEF Minus
  <2> QED BY <1>2, <2>1, <2>2
<1>4. r.kv + n <= all * BlockSize
  BY <1>0, <1>3, SequenceAssumption DEF Counts
<1>5. all <= LifetimeBlocks(r)
  <2>1. r.total = r.input + r.generated /\ pages <= LifetimeBlocks(r)
    BY <1>2 DEF Sound, Books
  <2>2. LifetimeBlocks(r) = DivCeil(r.input + MaxOutput, BlockSize) /\ LifetimeBlocks(r) \in Nat
    BY <1>1, <2>1, LifetimeCovers
  <2>3. all = pages \/ all = need
    BY <1>2, <1>3 DEF Minus
  <2> QED BY <2>1, <2>2, <2>3
<1>6. Books(m)
  <2>1. /\ LifetimeBlocks(m) = LifetimeBlocks(r)
        /\ Complete(m) = Complete(r)
        /\ m.matched * BlockSize <= m.kv <=> r.matched * BlockSize <= r.kv
    BY SameBooks, Zenon DEF Grown
  <2> QED BY <1>0, <1>1, <1>3, <1>5, <2>1 DEF Books, Sound, Grown, Counts
<1>7. Phase(m)
  <2>1. PageCount(m) - m.allocated = pages
    BY <1>2, <1>3 DEF Grown
  <2>2. r.kv <= pages * BlockSize
    BY <1>0, <1>1, <1>2 DEF Sound, Phase, Finished, Counts
  <2> QED BY <1>0, <1>1, <2>1, <2>2 DEF Phase, Grown, Counts
<1>8. Step(m)
  BY <1>0, <1>1, <1>3, <1>4 DEF Step, Grown, Counts
<1> QED BY <1>6, <1>7, <1>8 DEF Sound

(* schedule_decode: the dangling token and the block of the next. *)
LEMMA DecodeNeeds ==
    ASSUME NEW r \in Requests, Sound(r), MayDecode(r)
    PROVE  /\ Complete(r) + 1 \in Nat
           /\ Complete(r) + 1 <= DivCeil(r.input + MaxOutput, BlockSize)
           /\ r.kv + 1 <= (Complete(r) + 1) * BlockSize
           /\ 1 \in 1 .. MaxOutput - r.generated
           /\ Minus(DecodeNeed(r), Spare(r)) = Minus(Complete(r) + 1, PageCount(r))
<1>0. Counts(r) /\ r.state = "Idle" /\ MaxOutput \in Nat
  BY Fields, SequenceAssumption DEF MayDecode
<1>1. /\ r.kv + 1 = r.total /\ r.generated < MaxOutput /\ r.total + 1 <= r.input + MaxOutput
      /\ r.total \in Nat /\ r.input \in Nat /\ r.generated \in Nat
  BY <1>0 DEF MayDecode, Finished, Sound, Books, Phase, Counts
<1>2. PICK full \in Nat : full = Complete(r) /\ DivCeil(r.total + 1, BlockSize) = full + 1
  BY <1>1, Fills DEF Complete
<1>3. full + 1 <= DivCeil(r.input + MaxOutput, BlockSize)
  BY <1>0, <1>1, <1>2, CeilGrows
<1>4. r.total + 1 <= (full + 1) * BlockSize
  BY <1>1, <1>2, Covers
<1>5. r.kv + 1 <= (full + 1) * BlockSize
  BY <1>1, <1>4, SequenceAssumption
<1>6. Minus(DecodeNeed(r), Spare(r)) = Minus(full + 1, PageCount(r))
  <2>1. Have(r) <= full /\ Have(r) \in Nat /\ Spare(r) \in Nat /\ PageCount(r) = Have(r) + Spare(r)
    BY <1>0, <1>2 DEF Sound, Books, Counts, PageCount
  <2>2. DecodeNeed(r) = Minus(full, Have(r)) + 1
    BY <1>2, Zenon DEF DecodeNeed, Have
  <2> QED BY <1>2, <2>1, <2>2 DEF Minus
<1> QED BY <1>0, <1>1, <1>2, <1>3, <1>5, <1>6

(* schedule_speculative: the dangling token and a draft, clamped. *)
LEMMA DraftNeeds ==
    ASSUME NEW r \in Requests, Sound(r), MayDecode(r), NEW d \in 1 .. MaxDraft,
           NEW n, n = Draft(r, d)
    PROVE  /\ n \in 1 .. MaxOutput - r.generated
           /\ DivCeil(r.total + n, BlockSize) \in Nat
           /\ DivCeil(r.total + n, BlockSize) <= DivCeil(r.input + MaxOutput, BlockSize)
           /\ r.kv + n <= DivCeil(r.total + n, BlockSize) * BlockSize
<1>0. Counts(r) /\ r.state = "Idle" /\ MaxOutput \in Nat /\ MaxDraft \in Nat
  BY Fields, SequenceAssumption DEF MayDecode
<1>1. /\ r.kv + 1 = r.total /\ r.generated < MaxOutput /\ r.total = r.input + r.generated
      /\ r.kv \in Nat /\ r.total \in Nat /\ r.input \in Nat /\ r.generated \in Nat
  BY <1>0 DEF MayDecode, Finished, Sound, Books, Phase, Counts
<1>2. n \in Nat /\ n > 0 /\ n <= MaxOutput - r.generated
  BY <1>0, <1>1 DEF Draft, AtMost
<1>3. PICK need \in Nat : need = DivCeil(r.total + n, BlockSize)
  BY <1>1, <1>2, Covers
<1>4. need <= DivCeil(r.input + MaxOutput, BlockSize)
  BY <1>0, <1>1, <1>2, <1>3, CeilGrows
<1>5. r.total + n <= need * BlockSize
  BY <1>1, <1>2, <1>3, Covers
<1>6. r.kv + n <= need * BlockSize
  BY <1>1, <1>2, <1>5, SequenceAssumption
<1> QED BY <1>0, <1>1, <1>2, <1>3, <1>4, <1>6

-----------------------------------------------------------------------------
(* The pages of a request, and what registering and dropping does to them. *)
LEMMA PagesAre ==
    ASSUME NEW r \in Requests
    PROVE  /\ Pages(r) \in Seq(Blocks) /\ Len(Pages(r)) = PageCount(r)
           /\ \A i \in 1 .. Have(r) : Pages(r)[i] = r.assigned[i]
           /\ \A i \in Have(r) + 1 .. PageCount(r) : Pages(r)[i] = r.unassigned[i - Have(r)]
<1>1. r.assigned \in Seq(Blocks) /\ r.unassigned \in Seq(Blocks)
  BY Fields
<1> QED BY <1>1, Concat, Zenon DEF Pages, PageCount, Have, Spare

(* The same tokens. *)
SameBook(m, r) ==
    /\ m.input = r.input /\ m.generated = r.generated /\ m.total = r.total
    /\ m.prefill = r.prefill /\ m.kv = r.kv /\ m.matched = r.matched

(* The same step at hand. *)
SameStep(m, r) ==
    /\ m.state = r.state /\ m.tokens = r.tokens /\ m.allocated = r.allocated
    /\ m.accepted = r.accepted /\ m.forwarded = r.forwarded

(* Pages are kept in place or dropped from the end. *)
KeepsPages(m, r) ==
    /\ PageCount(m) <= PageCount(r)
    /\ \A i \in 1 .. PageCount(m) : Pages(m)[i] = Pages(r)[i]

(* The first k elements of a sequence, and the rest. *)
LEMMA SubSequence ==
    ASSUME NEW u \in Seq(Blocks), NEW k \in 0 .. Len(u)
    PROVE  /\ SubSeq(u, 1, k) \in Seq(Blocks) /\ Len(SubSeq(u, 1, k)) = k
           /\ \A i \in 1 .. k : SubSeq(u, 1, k)[i] = u[i]
           /\ SubSeq(u, k + 1, Len(u)) \in Seq(Blocks)
           /\ Len(SubSeq(u, k + 1, Len(u))) = Len(u) - k
           /\ \A i \in 1 .. Len(u) - k : SubSeq(u, k + 1, Len(u))[i] = u[k + i]
OBVIOUS

(* complete_and_register_pending moves blocks and no page. *)
LEMMA RegisteredPages ==
    ASSUME NEW r \in Requests, NEW m, m = Registered(r)
    PROVE  /\ m \in Requests /\ SameBook(m, r) /\ SameStep(m, r)
           /\ Stageable(r) \in 0 .. Spare(r)
           /\ Have(m) = Have(r) + Stageable(r) /\ Spare(m) = Spare(r) - Stageable(r)
           /\ PageCount(m) = PageCount(r) /\ KeepsPages(m, r)
<1>1. Counts(r) /\ r.assigned \in Seq(Blocks) /\ r.unassigned \in Seq(Blocks)
  BY Fields
<1>2. PICK n \in 0 .. Spare(r) : n = Stageable(r)
  <2>1. Complete(r) \in Nat
    <3>1. r.total \in Nat
      BY <1>1 DEF Counts
    <3> QED BY <3>1, Fills, Zenon DEF Complete
  <2>2. Stageable(r) = AtMost(Minus(Complete(r), Have(r)), Spare(r))
    BY Zenon DEF Stageable, Have, Spare
  <2>3. Minus(Complete(r), Have(r)) \in Nat
    BY <1>1, <2>1 DEF Minus, Counts
  <2> QED BY <1>1, <2>2, <2>3 DEF AtMost, Counts
<1> DEFINE staged == SubSeq(r.unassigned, 1, n)
           rest == SubSeq(r.unassigned, n + 1, Len(r.unassigned))
<1>3. n \in 0 .. Len(r.unassigned)
  BY <1>2 DEF Spare
<1>4. /\ staged \in Seq(Blocks) /\ Len(staged) = n
      /\ rest \in Seq(Blocks) /\ Len(rest) = Spare(r) - n
      /\ \A i \in 1 .. n : staged[i] = r.unassigned[i]
      /\ \A i \in 1 .. Spare(r) - n : rest[i] = r.unassigned[n + i]
  BY <1>1, <1>3, SubSequence, Zenon DEF Spare
<1>5. m = [r EXCEPT !.assigned = r.assigned \o staged, !.unassigned = rest]
  BY <1>2, Zenon DEF Registered, Requests
<1> HIDE DEF staged, rest
<1>6. r.assigned \o staged \in Seq(Blocks) /\ Len(r.assigned \o staged) = Len(r.assigned) + n
  BY <1>1, <1>4, Concat, Zenon
<1>7. m \in Requests
  <2>1. r.assigned \o staged \in Seq(Blocks) /\ rest \in Seq(Blocks)
    BY <1>4, <1>6, Zenon
  <2> QED BY <1>5, <2>1, Zenon DEF Requests
<1>8. m.assigned = r.assigned \o staged /\ m.unassigned = rest /\ SameBook(m, r) /\ SameStep(m, r)
  BY <1>5 DEF Requests, SameBook, SameStep
<1>9. Have(m) = Have(r) + n /\ Spare(m) = Spare(r) - n
  BY <1>4, <1>6, <1>8, Zenon DEF Have, Spare
<1>10. PageCount(m) = PageCount(r)
  BY <1>1, <1>2, <1>9 DEF PageCount, Counts
<1>11. ASSUME NEW i \in 1 .. PageCount(r) PROVE Pages(m)[i] = Pages(r)[i]
  <2>0. PICK have \in Nat, spare \in Nat : have = Have(r) /\ spare = Spare(r) /\ PageCount(r) = have + spare
    BY <1>1, Zenon DEF Counts, PageCount
  <2>1. CASE i <= have
    <3>1. i \in 1 .. Have(r) /\ i \in 1 .. Have(m)
      BY <1>2, <1>9, <2>0, <2>1
    <3>2. Pages(r)[i] = r.assigned[i] /\ Pages(m)[i] = m.assigned[i]
      BY <1>7, <3>1, PagesAre, Zenon
    <3>3. (r.assigned \o staged)[i] = r.assigned[i]
      BY <1>1, <1>4, <3>1, Concat, ZenonT(40) DEF Have
    <3> QED BY <1>8, <3>2, <3>3, Zenon
  <2>2. CASE i > have /\ i <= have + n
    <3>1. i \in Have(r) + 1 .. PageCount(r) /\ i \in 1 .. Have(m) /\ i \in Have(r) + 1 .. Have(r) + n
          /\ i - Have(r) \in 1 .. n
      BY <1>2, <1>9, <2>0, <2>2
    <3>2. Pages(r)[i] = r.unassigned[i - Have(r)] /\ Pages(m)[i] = m.assigned[i]
      BY <1>7, <3>1, PagesAre, Zenon
    <3>3. (r.assigned \o staged)[i] = staged[i - Have(r)]
      BY <1>1, <1>4, <3>1, Concat, ZenonT(40) DEF Have
    <3> QED BY <1>4, <1>8, <3>1, <3>2, <3>3, Zenon
  <2>3. CASE i > have + n
    <3>1. i \in Have(r) + 1 .. PageCount(r) /\ i \in Have(m) + 1 .. PageCount(m)
          /\ i - Have(m) \in 1 .. Spare(r) - n /\ n + (i - Have(m)) = i - Have(r)
      BY <1>2, <1>9, <1>10, <2>0, <2>3
    <3>2. Pages(r)[i] = r.unassigned[i - Have(r)] /\ Pages(m)[i] = m.unassigned[i - Have(m)]
      BY <1>7, <3>1, PagesAre, Zenon
    <3>3. rest[i - Have(m)] = r.unassigned[n + (i - Have(m))]
      BY <1>4, <3>1, Zenon
    <3> QED BY <1>8, <3>1, <3>2, <3>3, Zenon
  <2> QED BY <1>2, <2>0, <2>1, <2>2, <2>3
<1>12. KeepsPages(m, r)
  BY <1>1, <1>10, <1>11 DEF KeepsPages, Counts
<1> QED BY <1>2, <1>7, <1>8, <1>9, <1>10, <1>12

(* lifo_pop_unassigned drops pages from the end. *)
LEMMA PoppedPages ==
    ASSUME NEW r \in Requests, NEW count \in Nat, NEW m, m = Popped(r, count)
    PROVE  /\ m \in Requests /\ SameBook(m, r) /\ SameStep(m, r)
           /\ Have(m) = Have(r) /\ Spare(m) = Minus(Spare(r), count)
           /\ KeepsPages(m, r)
<1>1. Counts(r) /\ r.assigned \in Seq(Blocks) /\ r.unassigned \in Seq(Blocks)
  BY Fields
<1>2. PICK n \in 0 .. Spare(r) : n = Minus(Spare(r), count)
  BY <1>1 DEF Counts, Minus
<1> DEFINE kept == SubSeq(r.unassigned, 1, n)
<1>3. n \in 0 .. Len(r.unassigned)
  BY <1>2 DEF Spare
<1>4. /\ kept \in Seq(Blocks) /\ Len(kept) = n
      /\ \A i \in 1 .. n : kept[i] = r.unassigned[i]
  BY <1>1, <1>3, SubSequence, Zenon
<1>5. m = [r EXCEPT !.unassigned = kept]
  BY <1>2, Zenon DEF Popped, Requests, Spare
<1> HIDE DEF kept
<1>6. m \in Requests
  BY <1>4, <1>5, ZenonT(40) DEF Requests
<1>7. m.assigned = r.assigned /\ m.unassigned = kept /\ SameBook(m, r) /\ SameStep(m, r)
  BY <1>5 DEF Requests, SameBook, SameStep
<1>8. Have(m) = Have(r) /\ Spare(m) = n
  BY <1>4, <1>7, Zenon DEF Have, Spare
<1>9. PageCount(m) = Have(r) + n /\ PageCount(m) <= PageCount(r)
  BY <1>1, <1>2, <1>8 DEF PageCount, Counts
<1>10. ASSUME NEW i \in 1 .. PageCount(m) PROVE Pages(m)[i] = Pages(r)[i]
  <2>0. PICK have \in Nat, spare \in Nat : have = Have(r) /\ spare = Spare(r) /\ PageCount(r) = have + spare
    BY <1>1, Zenon DEF Counts, PageCount
  <2>1. CASE i <= have
    <3>1. i \in 1 .. Have(r) /\ i \in 1 .. Have(m)
      BY <1>8, <1>9, <2>0, <2>1
    <3>2. Pages(r)[i] = r.assigned[i] /\ Pages(m)[i] = m.assigned[i]
      BY <1>6, <3>1, PagesAre, Zenon
    <3> QED BY <1>7, <3>2, Zenon
  <2>2. CASE i > have
    <3>1. i \in Have(r) + 1 .. PageCount(r) /\ i \in Have(m) + 1 .. PageCount(m) /\ i - Have(r) \in 1 .. n
      BY <1>2, <1>8, <1>9, <2>0, <2>2
    <3>2. Pages(r)[i] = r.unassigned[i - Have(r)] /\ Pages(m)[i] = m.unassigned[i - Have(m)]
      BY <1>6, <3>1, PagesAre, Zenon
    <3> QED BY <1>4, <1>7, <1>8, <3>1, <3>2, Zenon
  <2> QED BY <1>2, <1>9, <2>0, <2>1, <2>2
<1> QED BY <1>2, <1>6, <1>7, <1>8, <1>9, <1>10, Zenon DEF KeepsPages

(* A step that is over: out tokens are committed. *)
Settled(m, r, out, prefill, kv) ==
    /\ m.state = "Idle" /\ m.tokens = 0 /\ m.allocated = 0 /\ m.accepted = 0 /\ m.forwarded = FALSE
    /\ m.input = r.input /\ m.matched = r.matched
    /\ m.generated = r.generated + out /\ m.total = r.total + out
    /\ m.prefill = prefill /\ m.kv = kv

(* Going back to Idle clears the step and nothing else. *)
LEMMA IdleFields ==
    ASSUME NEW r \in Requests, NEW m, m = Idle(r)
    PROVE  /\ m \in Requests
           /\ m.state = "Idle" /\ m.tokens = 0 /\ m.allocated = 0 /\ m.accepted = 0
           /\ m.forwarded = FALSE
           /\ SameBook(m, r) /\ m.assigned = r.assigned /\ m.unassigned = r.unassigned
<1>1. m \in Requests
  BY Zenon DEF Idle, Requests, States
<1> QED BY <1>1 DEF Idle, Requests, SameBook

(* The same blocks make the same pages. *)
LEMMA SamePages ==
    ASSUME NEW r, NEW m, m.assigned = r.assigned, m.unassigned = r.unassigned
    PROVE  /\ Have(m) = Have(r) /\ Spare(m) = Spare(r) /\ PageCount(m) = PageCount(r)
           /\ Pages(m) = Pages(r)
BY Zenon DEF Have, Spare, PageCount, Pages

(* The request after a forward pass with good tokens. *)
Forwarded(r, good) == [r EXCEPT !.forwarded = TRUE, !.accepted = good]

(* A forward pass keeps a request sound: it changes no count but the       *)
(* accepted tokens.                                                        *)
LEMMA ForwardedSound ==
    ASSUME NEW r \in Requests, Sound(r), r.state \in {"Prefill", "Decode", "Speculative"},
           NEW good \in 0 .. r.tokens, r.state # "Speculative" => good = r.tokens,
           NEW m, m = Forwarded(r, good)
    PROVE  /\ m \in Requests /\ Sound(m) /\ SameBook(m, r)
           /\ m.state = r.state /\ m.tokens = r.tokens /\ m.accepted = good
           /\ Have(m) = Have(r) /\ PageCount(m) = PageCount(r) /\ Pages(m) = Pages(r)
<1>1. Counts(r)
  BY Fields
<1>2. m \in Requests
  <2>1. good \in Nat
    BY <1>1 DEF Counts
  <2> QED BY <2>1, Zenon DEF Requests, Forwarded
<1>3. /\ SameBook(m, r) /\ m.state = r.state /\ m.tokens = r.tokens /\ m.allocated = r.allocated
      /\ m.accepted = good /\ m.forwarded = TRUE
      /\ m.assigned = r.assigned /\ m.unassigned = r.unassigned
  BY DEF Requests, SameBook, Forwarded
<1>4. Have(m) = Have(r) /\ Spare(m) = Spare(r) /\ PageCount(m) = PageCount(r) /\ Pages(m) = Pages(r)
  BY <1>3, SamePages, ZenonT(40)
<1>5. Books(m)
  <2>1. /\ LifetimeBlocks(m) = LifetimeBlocks(r)
        /\ Complete(m) = Complete(r)
        /\ m.matched * BlockSize <= m.kv <=> r.matched * BlockSize <= r.kv
    BY <1>3, SameBooks, Zenon DEF SameBook
  <2> QED BY <1>1, <1>3, <1>4, <2>1 DEF Books, Sound, SameBook, Counts
<1>6. Phase(m)
  BY <1>3, <1>4, ZenonT(40) DEF Phase, Sound, SameBook, Finished
<1>7. Step(m)
  BY <1>1, <1>3, <1>4 DEF Step, Sound, SameBook, Counts
<1> QED BY <1>2, <1>3, <1>4, <1>5, <1>6, <1>7 DEF Sound

(* revert_schedule leaves the request sound, without the blocks of the step. *)
LEMMA RevertedSound ==
    ASSUME NEW r \in Requests, Sound(r), r.state \in {"Prefill", "Decode", "Speculative"},
           NEW m, m = Idle(Popped(r, r.allocated))
    PROVE  /\ m \in Requests /\ Sound(m) /\ Settled(m, r, 0, r.prefill, r.kv)
           /\ Have(m) = Have(r) /\ KeepsPages(m, r) /\ PageCount(m) = PageCount(r) - r.allocated
<1>1. Counts(r)
  BY Fields
<1> DEFINE n == Popped(r, r.allocated)
<1>2. /\ n \in Requests /\ SameBook(n, r) /\ Have(n) = Have(r)
      /\ Spare(n) = Minus(Spare(r), r.allocated) /\ KeepsPages(n, r)
  BY <1>1, PoppedPages, ZenonT(40) DEF Counts
<1> HIDE DEF n
<1>3. m = Idle(n)
  BY DEF n
<1>4. /\ m \in Requests
      /\ m.state = "Idle" /\ m.tokens = 0 /\ m.allocated = 0 /\ m.accepted = 0
      /\ m.forwarded = FALSE
      /\ SameBook(m, n) /\ m.assigned = n.assigned /\ m.unassigned = n.unassigned
  BY <1>2, <1>3, IdleFields, Zenon
<1>5. Settled(m, r, 0, r.prefill, r.kv)
  BY <1>1, <1>2, <1>4 DEF Settled, SameBook, Counts
<1>6. /\ Have(m) = Have(r) /\ Spare(m) = Spare(r) - r.allocated
      /\ PageCount(m) = PageCount(r) - r.allocated /\ KeepsPages(m, r)
  <2>1. Have(m) = Have(n) /\ Spare(m) = Spare(n) /\ PageCount(m) = PageCount(n) /\ Pages(m) = Pages(n)
    BY <1>4, SamePages
  <2>2. r.allocated <= Spare(r)
    BY DEF Sound, Books
  <2>3. Spare(n) = Spare(r) - r.allocated
    BY <1>1, <1>2, <2>2 DEF Minus, Counts
  <2>4. PageCount(m) = PageCount(r) - r.allocated
    BY <1>1, <1>2, <2>1, <2>3 DEF PageCount, Counts
  <2>5. KeepsPages(m, r)
    BY <1>2, <2>1, Zenon DEF KeepsPages
  <2> QED BY <1>2, <2>1, <2>3, <2>4, <2>5
<1>7. m.input = r.input /\ m.generated = r.generated /\ m.total = r.total /\ m.kv = r.kv /\ m.matched = r.matched
  BY <1>1, <1>5 DEF Settled, Counts
<1>8. Books(m)
  <2>1. /\ LifetimeBlocks(m) = LifetimeBlocks(r)
        /\ Complete(m) = Complete(r)
        /\ m.matched * BlockSize <= m.kv <=> r.matched * BlockSize <= r.kv
    BY <1>7, SameBooks, Zenon
  <2>2. LifetimeBlocks(r) \in Nat
    BY LifetimeCovers DEF Sound, Books
  <2> QED BY <1>1, <1>5, <1>6, <1>7, <2>1, <2>2 DEF Books, Sound, Settled, Counts
<1>9. Phase(m)
  <2>1. PageCount(m) - m.allocated = PageCount(r) - r.allocated
    BY <1>1, <1>5, <1>6 DEF Settled, Counts
  <2>2. m.prefill = r.prefill
    BY <1>5 DEF Settled
  <2> QED BY <1>7, <2>1, <2>2, Zenon DEF Phase, Sound, Finished
<1>10. Step(m)
  BY <1>5 DEF Step, Settled
<1> QED BY <1>4, <1>5, <1>6, <1>8, <1>9, <1>10 DEF Sound

(* adopt_external_prefill_anchor leaves the request sound. *)
LEMMA AdoptedSound ==
    ASSUME NEW r \in Requests, Sound(r), r.state = "Idle", r.prefill = r.kv,
           r.prefill + 1 = r.input, ~Finished(r),
           NEW m, m = [r EXCEPT !.input = @ - 1, !.generated = @ + 1]
    PROVE  /\ m \in Requests /\ Sound(m)
           /\ m.state = "Idle" /\ m.kv = r.kv /\ m.accepted = r.accepted /\ m.matched = r.matched
           /\ Have(m) = Have(r) /\ PageCount(m) = PageCount(r) /\ Pages(m) = Pages(r)
<1>1. Counts(r) /\ MaxOutput \in Nat
  BY Fields, SequenceAssumption
<1>2. r.input - 1 \in Nat /\ r.generated + 1 \in Nat
  BY <1>1 DEF Counts
<1>3. m \in Requests
  BY <1>2, Zenon DEF Requests
<1>4. /\ m.input = r.prefill /\ m.generated = r.generated + 1
      /\ m.total = r.total /\ m.prefill = r.prefill /\ m.kv = r.kv /\ m.matched = r.matched
      /\ SameStep(m, r) /\ m.assigned = r.assigned /\ m.unassigned = r.unassigned
  <2>1. m.input = r.input - 1
    BY DEF Requests
  <2>2. r.input - 1 = r.prefill
    BY <1>1 DEF Counts
  <2> QED BY <2>1, <2>2 DEF Requests, SameStep
<1>5. Have(m) = Have(r) /\ Spare(m) = Spare(r) /\ PageCount(m) = PageCount(r) /\ Pages(m) = Pages(r)
  BY <1>4, SamePages, Zenon
<1>6. /\ r.generated = 0 /\ r.total = r.input /\ r.prefill < r.input /\ MaxOutput > 0
      /\ r.allocated = 0 /\ r.tokens = 0 /\ ~r.forwarded /\ r.accepted = 0
      /\ PageCount(r) = DivCeil(r.prefill, BlockSize)
  BY <1>1 DEF Sound, Books, Phase, Step, Finished, Counts
<1>7. m.total = m.input + m.generated
  BY <1>1, <1>4, <1>6 DEF Counts
<1>8. PageCount(m) <= LifetimeBlocks(m)
  <2>1. DivCeil(m.input, BlockSize) <= LifetimeBlocks(m)
    BY <1>3, <1>7, LifetimeCovers, Zenon
  <2> QED BY <1>4, <1>5, <1>6, <2>1, Zenon
<1>9. Books(m)
  <2>1. Complete(m) = Complete(r) /\ (m.matched * BlockSize <= m.kv <=> r.matched * BlockSize <= r.kv)
    BY <1>4, Zenon DEF Complete
  <2> QED BY <1>1, <1>4, <1>5, <1>6, <1>7, <1>8, <2>1, LongestPrompt
          DEF Books, Sound, SameStep, Counts
<1>10. Phase(m)
  <2>1. r.kv <= PageCount(r) * BlockSize
    BY <1>1, <1>6, Covers DEF Counts
  <2>2. m.kv <= (PageCount(m) - m.allocated) * BlockSize
    BY <1>1, <1>4, <1>5, <1>6, <2>1 DEF SameStep, Counts
  <2> QED BY <1>1, <1>4, <1>6, <2>2 DEF Phase, Counts
<1>11. Step(m)
  BY <1>4, <1>6 DEF Step, SameStep
<1> QED BY <1>3, <1>4, <1>5, <1>9, <1>10, <1>11 DEF Sound, SameStep

(* A step that is over keeps its room: lifetimes are of prompts. *)
LEMMA SettledLifetime ==
    ASSUME NEW r \in Requests, NEW m \in Requests, NEW out \in Nat, NEW prefill, NEW kv,
           Settled(m, r, out, prefill, kv)
    PROVE  LifetimeBlocks(m) = LifetimeBlocks(r)
<1>1. Counts(r)
  BY Fields
<1>2. m.total - m.generated = r.total - r.generated
  BY <1>1 DEF Settled, Counts
<1> QED BY <1>2, Zenon DEF LifetimeBlocks

(* How many blocks are registered once the request has total tokens. *)
Staged(total, r) == AtMost(Minus(total \div BlockSize, Have(r)), Spare(r))

(* Registering stops at the last block or at the last complete one. *)
LEMMA StagedBound ==
    ASSUME NEW r \in Requests, Sound(r), NEW total \in Nat, r.total <= total
    PROVE  /\ Staged(total, r) \in 0 .. Spare(r)
           /\ Have(r) + Staged(total, r) <= total \div BlockSize
           /\ \/ Staged(total, r) = Spare(r)
              \/ Have(r) + Staged(total, r) = total \div BlockSize
<1>1. Counts(r) /\ Have(r) <= r.total \div BlockSize
  BY Fields DEF Sound, Books, Complete
<1>2. r.total \div BlockSize \in Nat /\ total \div BlockSize \in Nat
  BY <1>1, Fills DEF Counts
<1>3. r.total \div BlockSize <= total \div BlockSize
  BY <1>1, SequenceAssumption DEF Counts
<1> QED BY <1>1, <1>2, <1>3 DEF Staged, AtMost, Minus, Counts

(* apply_prefill leaves the request sound. *)
LEMMA PrefillApplied ==
    ASSUME NEW r \in Requests, Sound(r), r.state = "Prefill",
           NEW end, end = r.prefill + r.tokens,
           NEW out, out = (IF end >= r.input /\ MaxOutput > 0 THEN 1 ELSE 0),
           NEW m \in Requests, Settled(m, r, out, end, end),
           Have(m) = Have(r) + Staged(r.total, r), PageCount(m) = PageCount(r)
    PROVE  Sound(m)
<1>1. Counts(r) /\ Counts(m) /\ MaxOutput \in Nat
  BY Fields, SequenceAssumption, ZenonT(40)
<1>2. /\ r.tokens > 0 /\ end \in Nat /\ end <= r.input /\ out \in Nat
      /\ r.prefill < r.input /\ r.kv = r.prefill /\ r.generated = 0 /\ r.total = r.input
      /\ PageCount(r) = DivCeil(end, BlockSize)
      /\ aligned => end = r.input \/ end % BlockSize = 0
  BY <1>1 DEF Sound, Books, Phase, Step, Counts
<1>3. Have(m) <= r.total \div BlockSize
  BY <1>1, StagedBound DEF Counts
<1>4. r.total \div BlockSize <= Complete(m)
  <2>1. m.total \in Nat /\ r.total <= m.total /\ r.total \in Nat
    BY <1>1, <1>2 DEF Settled, Counts
  <2> QED BY <2>1, SequenceAssumption DEF Complete
<1>5. Staged(r.total, r) \in 0 .. Spare(r)
  BY <1>1, StagedBound DEF Counts
<1>6. Books(m)
  <2>1. LifetimeBlocks(m) = LifetimeBlocks(r)
    BY <1>2, SettledLifetime
  <2>2. Have(m) <= Complete(m)
    <3>1. r.total \div BlockSize \in Nat /\ Complete(m) \in Nat
      BY <1>1, Fills, Zenon DEF Complete, Counts
    <3> QED BY <1>1, <1>3, <1>4, <3>1 DEF Counts
  <2>3. m.matched * BlockSize <= m.kv
    <3>1. r.matched * BlockSize <= r.kv
      BY DEF Sound, Books
    <3>2. m.matched * BlockSize = r.matched * BlockSize /\ r.matched * BlockSize \in Nat
      BY <1>1, SequenceAssumption DEF Settled, Counts
    <3>3. r.kv <= m.kv /\ r.kv \in Nat /\ m.kv \in Nat
      BY <1>1, <1>2 DEF Settled, Counts
    <3> QED BY <3>1, <3>2, <3>3
  <2> QED BY <1>1, <1>2, <1>5, <2>1, <2>2, <2>3 DEF Books, Sound, Settled, Counts
<1>7. Phase(m)
  <2>1. end <= PageCount(m) * BlockSize
    BY <1>1, <1>2, Covers DEF Counts
  <2> QED BY <1>1, <1>2, <2>1 DEF Phase, Settled, Counts
<1>8. Step(m)
  BY DEF Step, Settled
<1> QED BY <1>6, <1>7, <1>8 DEF Sound

(* apply_decode and apply_speculative *)
LEMMA GeneratedSound ==
    ASSUME NEW r \in Requests, Sound(r), r.state \in {"Decode", "Speculative"},
           NEW n \in 0 .. r.tokens,
           NEW m \in Requests, Settled(m, r, n, r.prefill, r.kv + n),
           Have(m) = Have(r) + Staged(r.total + n, r), PageCount(m) <= PageCount(r),
           \/ PageCount(m) = PageCount(r)
           \/ r.generated + n >= MaxOutput
           \/ PageCount(m) >= Have(m) + 1 /\ Have(m) < PageCount(r)
    PROVE  Sound(m)
<1>0. Counts(r) /\ Counts(m) /\ MaxOutput \in Nat
  BY Fields, SequenceAssumption, ZenonT(40)
<1>1. Counts(r) /\ Counts(m) /\ MaxOutput \in Nat /\ n \in Nat
  BY <1>0 DEF Counts
<1>2. /\ r.prefill = r.input /\ r.generated + r.tokens <= MaxOutput /\ r.tokens > 0
      /\ r.kv + r.tokens <= PageCount(r) * BlockSize
      /\ r.generated > 0 /\ r.kv + 1 = r.total /\ r.total = r.input + r.generated
  BY <1>1 DEF Sound, Books, Phase, Step, Counts
<1>3. m.total = r.total + n /\ m.total \in Nat /\ r.total <= m.total
  BY <1>1 DEF Settled, Counts
<1>4. /\ Have(m) <= Complete(m) /\ Have(r) <= Have(m)
      /\ Have(m) = PageCount(r) \/ Have(m) = Complete(m)
  <2>1. /\ Staged(m.total, r) \in 0 .. Spare(r)
        /\ Have(r) + Staged(m.total, r) <= m.total \div BlockSize
        /\ \/ Staged(m.total, r) = Spare(r)
           \/ Have(r) + Staged(m.total, r) = m.total \div BlockSize
    BY <1>3, StagedBound
  <2>2. Have(m) = Have(r) + Staged(m.total, r)
    BY <1>3
  <2>3. PageCount(r) = Have(r) + Spare(r)
    BY DEF PageCount
  <2> QED BY <1>1, <2>1, <2>2, <2>3 DEF Complete, Counts
<1>5. Books(m)
  <2>1. LifetimeBlocks(m) = LifetimeBlocks(r) /\ LifetimeBlocks(r) \in Nat
    BY <1>1, <1>2, SettledLifetime, LifetimeCovers
  <2>2. m.matched * BlockSize <= m.kv
    <3>1. r.matched * BlockSize <= r.kv
      BY DEF Sound, Books
    <3>2. m.matched * BlockSize = r.matched * BlockSize /\ r.matched * BlockSize \in Nat
      BY <1>1, SequenceAssumption DEF Settled, Counts
    <3>3. r.kv <= m.kv /\ r.kv \in Nat /\ m.kv \in Nat
      BY <1>1, <1>2 DEF Settled, Counts
    <3> QED BY <3>1, <3>2, <3>3
  <2> QED BY <1>1, <1>2, <1>4, <2>1, <2>2 DEF Books, Sound, Settled, Counts
<1>6. Phase(m)
  <2>1. ASSUME ~Finished(m) PROVE m.kv <= PageCount(m) * BlockSize
    <3>1. m.kv + 1 = m.total /\ m.kv \in Nat /\ m.kv <= PageCount(r) * BlockSize
      <4>1. PICK room \in Nat : room = PageCount(r) * BlockSize
        BY <1>1, SequenceAssumption DEF Counts
      <4>2. r.kv + n <= room
        BY <1>1, <1>2, <4>1 DEF Counts
      <4> QED BY <1>1, <1>2, <4>1, <4>2 DEF Settled, Counts
    <3>2. CASE PageCount(m) = PageCount(r)
      BY <3>1, <3>2
    <3>3. CASE PageCount(m) >= Complete(m) + 1
      <4>1. PICK full \in Nat : full = Complete(m) /\ m.total + 1 <= (full + 1) * BlockSize
        BY <1>3, Fills, Covers DEF Complete
      <4>2. (full + 1) * BlockSize <= PageCount(m) * BlockSize
        BY <1>1, <3>3, <4>1, SequenceAssumption DEF Counts
      <4>3. (full + 1) * BlockSize \in Nat /\ PageCount(m) * BlockSize \in Nat
        BY <1>1, SequenceAssumption DEF Counts
      <4> QED BY <1>3, <3>1, <4>1, <4>2, <4>3
    <3>4. r.generated + n < MaxOutput
      BY <1>1, <2>1 DEF Finished, Settled, Counts
    <3>5. PageCount(m) = PageCount(r) \/ PageCount(m) >= Complete(m) + 1
      BY <1>1, <1>4, <3>4 DEF Counts
    <3> QED BY <3>2, <3>3, <3>5
  <2>2. PageCount(m) - m.allocated = PageCount(m)
    BY <1>1 DEF Settled, Counts
  <2> QED BY <1>1, <1>2, <2>1, <2>2 DEF Phase, Settled, Counts
<1>7. Step(m)
  BY DEF Step, Settled
<1> QED BY <1>5, <1>6, <1>7 DEF Sound

(* The same blocks with the counters moved on. *)
Moved(m, r, out, prefill, kv) ==
    /\ m.total = r.total + out /\ m.generated = r.generated + out
    /\ m.input = r.input /\ m.prefill = prefill /\ m.kv = kv /\ m.matched = r.matched
    /\ m.assigned = r.assigned /\ m.unassigned = r.unassigned

(* Appending tokens moves the counters. *)
LEMMA AppendedFields ==
    ASSUME NEW r \in Requests, NEW n \in Nat, NEW m, m = Appended(r, n)
    PROVE  /\ m \in Requests /\ Moved(m, r, n, r.prefill, r.kv)
           /\ Stageable(m) = Staged(r.total + n, r)
<1>1. Counts(r)
  BY Fields
<1>2. r.total + n \in Nat /\ r.generated + n \in Nat
  BY <1>1 DEF Counts
<1>3. m \in Requests
  BY <1>2, Zenon DEF Appended, Requests
<1>4. Moved(m, r, n, r.prefill, r.kv)
  BY DEF Appended, Requests, Moved
<1>5. Stageable(m) = Staged(r.total + n, r)
  BY <1>4, Zenon DEF Stageable, Staged, Complete, Have, Spare, Moved
<1> QED BY <1>3, <1>4, <1>5

(* Recording computed positions moves the counters. *)
LEMMA MovedFields ==
    ASSUME NEW r \in Requests, NEW prefill \in Nat, NEW kv \in Nat,
           NEW m, m = [r EXCEPT !.prefill = prefill, !.kv = kv]
    PROVE  m \in Requests /\ Moved(m, r, 0, prefill, kv)
<1>1. m \in Requests
  BY Zenon DEF Requests
<1>2. r.total + 0 = r.total /\ r.generated + 0 = r.generated
  BY Fields DEF Counts
<1> QED BY <1>1, <1>2 DEF Requests, Moved

(* What apply_prefill makes of a request. *)
Prefilled(r, end, out) ==
    Idle(Appended([Registered(r) EXCEPT !.prefill = end, !.kv = end], out))

(* What becomes of the blocks of a request in apply_prefill. *)
LEMMA PrefillCommits ==
    ASSUME NEW r \in Requests, NEW end \in Nat, NEW out \in Nat,
           NEW m, m = Prefilled(r, end, out)
    PROVE  /\ m \in Requests /\ Settled(m, r, out, end, end)
           /\ Have(m) = Have(r) + Stageable(r) /\ Stageable(r) = Staged(r.total, r)
           /\ PageCount(m) = PageCount(r) /\ KeepsPages(m, r)
<1>1. PICK g \in Requests :
         /\ g = Registered(r) /\ SameBook(g, r)
         /\ Have(g) = Have(r) + Stageable(r) /\ PageCount(g) = PageCount(r) /\ KeepsPages(g, r)
  BY RegisteredPages, Zenon
<1>2. PICK a \in Requests : a = [g EXCEPT !.prefill = end, !.kv = end] /\ Moved(a, g, 0, end, end)
  BY MovedFields, Zenon
<1>3. PICK b \in Requests : b = Appended(a, out) /\ Moved(b, a, out, a.prefill, a.kv)
  BY AppendedFields, Zenon
<1>4. m = Idle(b)
  BY <1>1, <1>2, <1>3, Zenon DEF Prefilled
<1>5. /\ m \in Requests
      /\ m.state = "Idle" /\ m.tokens = 0 /\ m.allocated = 0 /\ m.accepted = 0
      /\ m.forwarded = FALSE
      /\ SameBook(m, b) /\ m.assigned = b.assigned /\ m.unassigned = b.unassigned
  BY <1>4, IdleFields, Zenon
<1>6. Settled(m, r, out, end, end)
  <2>1. Counts(r)
    BY Fields
  <2> QED BY <1>1, <1>2, <1>3, <1>5, <2>1 DEF Settled, SameBook, Moved, Counts
<1>7. Have(m) = Have(g) /\ PageCount(m) = PageCount(g) /\ Pages(m) = Pages(g)
  <2>1. m.assigned = g.assigned /\ m.unassigned = g.unassigned
    BY <1>2, <1>3, <1>5, Zenon DEF Moved
  <2> QED BY <2>1, SamePages, Zenon
<1>8. KeepsPages(m, r)
  BY <1>1, <1>7, Zenon DEF KeepsPages
<1>9. Stageable(r) = Staged(r.total, r)
  BY Zenon DEF Stageable, Staged, Complete, Have, Spare
<1> QED BY <1>1, <1>5, <1>6, <1>7, <1>8, <1>9, Zenon

(* What apply_decode and apply_speculative make of a request; the second   *)
(* drops count pages.                                                      *)
Advanced(g, n) == [g EXCEPT !.kv = @ + n]

(* What apply_decode and apply_speculative make of a request. *)
Generated(m, g, n, count) ==
    \/ m = Idle(Advanced(g, n)) /\ count = 0
    \/ m = Idle(Popped(Advanced(g, n), count))

(* The request after n tokens, with the blocks registered and the rest but *)
(* count dropped.                                                          *)
Committed(m, r, n, a, g, count) ==
    /\ m \in Requests /\ Settled(m, r, n, r.prefill, r.kv + n)
    /\ a \in Requests /\ Pages(a) = Pages(r) /\ Have(a) = Have(r) /\ Spare(a) = Spare(r)
    /\ Stageable(a) = Staged(r.total + n, r)
    /\ Have(m) = Have(r) + Stageable(a) /\ Spare(g) = Spare(r) - Stageable(a)
    /\ Stageable(a) \in 0 .. Spare(r)
    /\ Spare(m) = Minus(Spare(g), count) /\ KeepsPages(m, r)

(* What becomes of the blocks in apply_decode and apply_speculative. *)
LEMMA GenerationCommits ==
    ASSUME NEW r \in Requests, NEW n \in Nat, NEW count \in Nat,
           NEW a, a = Appended(r, n), NEW g, g = Registered(a),
           NEW m, Generated(m, g, n, count)
    PROVE  Committed(m, r, n, a, g, count)
<1>1. Counts(r)
  BY Fields
<1>2. a \in Requests /\ Moved(a, r, n, r.prefill, r.kv) /\ Stageable(a) = Staged(r.total + n, r)
  BY AppendedFields, Zenon
<1>3. Have(a) = Have(r) /\ Spare(a) = Spare(r) /\ PageCount(a) = PageCount(r) /\ Pages(a) = Pages(r)
  BY <1>2, SamePages, Zenon DEF Moved
<1>4. /\ g \in Requests /\ SameBook(g, a)
      /\ Stageable(a) \in 0 .. Spare(a)
      /\ Have(g) = Have(a) + Stageable(a) /\ Spare(g) = Spare(a) - Stageable(a)
      /\ KeepsPages(g, a)
  BY <1>2, RegisteredPages, ZenonT(40)
<1>5. r.kv + n \in Nat /\ g.kv = r.kv /\ g.prefill = r.prefill /\ g.prefill \in Nat
  BY <1>1, <1>2, <1>4 DEF SameBook, Counts, Moved
<1>6. PICK k \in Requests :
         k = Advanced(g, n) /\ Moved(k, g, 0, g.prefill, r.kv + n)
  <2>1. Advanced(g, n) = [g EXCEPT !.prefill = g.prefill, !.kv = r.kv + n]
    BY <1>4, <1>5, Zenon DEF Requests, Advanced
  <2> QED BY <1>4, <1>5, <2>1, MovedFields, Zenon
<1>7. Have(k) = Have(g) /\ Spare(k) = Spare(g) /\ PageCount(k) = PageCount(g) /\ Pages(k) = Pages(g)
  BY <1>6, SamePages, Zenon DEF Moved
<1>8. PICK p \in Requests :
         /\ m = Idle(p) /\ SameBook(p, k) /\ Have(p) = Have(k)
         /\ Spare(p) = Minus(Spare(k), count) /\ KeepsPages(p, k)
  <2>1. Counts(k) /\ Minus(Spare(k), 0) = Spare(k)
    BY Fields DEF Counts, Minus
  <2>2. CASE m = Idle(Advanced(g, n)) /\ count = 0
    <3>1. SameBook(k, k) /\ KeepsPages(k, k)
      BY <2>1 DEF SameBook, KeepsPages, Counts
    <3> QED BY <1>6, <2>1, <2>2, <3>1, Zenon
  <2>3. CASE m = Idle(Popped(Advanced(g, n), count))
    BY <1>6, <2>3, PoppedPages, Zenon
  <2> QED BY <2>2, <2>3, Zenon DEF Generated
<1>9. /\ m \in Requests
      /\ m.state = "Idle" /\ m.tokens = 0 /\ m.allocated = 0 /\ m.accepted = 0
      /\ m.forwarded = FALSE
      /\ SameBook(m, p) /\ m.assigned = p.assigned /\ m.unassigned = p.unassigned
  BY <1>8, IdleFields, Zenon
<1>10. Have(m) = Have(p) /\ Spare(m) = Spare(p) /\ PageCount(m) = PageCount(p) /\ Pages(m) = Pages(p)
  BY <1>9, SamePages, ZenonT(40)
<1>11. Settled(m, r, n, r.prefill, r.kv + n)
  BY <1>1, <1>2, <1>4, <1>6, <1>8, <1>9 DEF Settled, SameBook, Moved, Counts
<1>12. KeepsPages(m, r)
  <2>1. PageCount(m) <= PageCount(k) /\ PageCount(k) = PageCount(g) /\ PageCount(g) <= PageCount(r)
    BY <1>3, <1>4, <1>7, <1>8, <1>10, Zenon DEF KeepsPages
  <2>2. /\ PageCount(m) \in Nat /\ PageCount(g) \in Nat /\ PageCount(r) \in Nat
    BY <1>1, <1>4, <1>9, Fields, Zenon DEF Counts
  <2>3. PageCount(m) <= PageCount(r)
    BY <2>1, <2>2
  <2>4. ASSUME NEW i \in 1 .. PageCount(m) PROVE Pages(m)[i] = Pages(r)[i]
    <3>1. i \in 1 .. PageCount(p) /\ i \in 1 .. PageCount(g)
      BY <1>10, <2>1, <2>2
    <3> QED BY <1>3, <1>4, <1>7, <1>8, <1>10, <3>1, ZenonT(40) DEF KeepsPages
  <2> QED BY <2>3, <2>4, Zenon DEF KeepsPages
<1> QED BY <1>2, <1>3, <1>4, <1>7, <1>8, <1>9, <1>10, <1>11, <1>12, ZenonT(40) DEF Committed

-----------------------------------------------------------------------------
(***************************************************************************)
(* Requests together: who shares which page.                               *)
(***************************************************************************)

(* Numbers in order. *)
LEMMA AtMostAtMost ==
    ASSUME NEW a \in Nat, NEW b \in Nat, NEW c \in Nat, a <= b, b <= c
    PROVE  a <= c
OBVIOUS

(* The places up to a number are among those up to a larger one. *)
LEMMA Nested ==
    ASSUME NEW a \in Nat, NEW b \in Nat, NEW c \in Nat, NEW d \in Nat, a <= b, b <= c, c <= d,
           NEW i \in 1 .. a
    PROVE  i \in 1 .. b /\ i \in 1 .. c /\ i \in 1 .. d
OBVIOUS

(* The same for one larger number. *)
LEMMA Inside ==
    ASSUME NEW a \in Nat, NEW b \in Nat, a <= b, NEW i \in 1 .. a
    PROVE  i \in 1 .. b /\ i \in Nat
OBVIOUS

(* Places are counted up to the last. *)
LEMMA UpTo ==
    ASSUME NEW a \in Nat, NEW i \in 1 .. a
    PROVE  i <= a
OBVIOUS

(* The places after the first a. *)
LEMMA After ==
    ASSUME NEW a \in Nat, NEW b \in Nat, NEW c \in Nat, b <= c
    PROVE  /\ \A i \in a + 1 .. b : i \in 1 .. b /\ i \in 1 .. c /\ i > a /\ i <= b
           /\ \A i \in 1 .. b : i \in 1 .. a \/ i \in a + 1 .. b
OBVIOUS

(* A number above a is not among those up to a. *)
LEMMA Above ==
    ASSUME NEW a \in Nat, NEW b \in Nat, NEW c \in Nat, b <= a, c > a
    PROVE  ~(c <= b)
OBVIOUS

(* The registered blocks of a request are among its pages. *)
LEMMA InOrder ==
    ASSUME NEW r, Counts(r)
    PROVE  /\ r.matched \in Nat /\ Have(r) \in Nat /\ PageCount(r) \in Nat
           /\ Have(r) <= PageCount(r) /\ Have(r) <= Have(r) /\ PageCount(r) <= PageCount(r)
BY DEF Counts, PageCount

(* A call for one request replaces that request. *)
LEMMA PutFields ==
    ASSUME TypeOK, NEW s \in Seqs, NEW m \in Requests, Put(s, m)
    PROVE  /\ req' \in [Seqs -> Requests] /\ req'[s] = m
           /\ \A t \in Seqs \ {s} : req'[t] = req[t]
BY DEF TypeOK, Put

(* Whether a request is sound depends on it and on the alignment only. *)
LEMMA SoundKept ==
    ASSUME aligned' = aligned, NEW t \in Seqs, Sound(req'[t])
    PROVE  Sound(req[t])'
<1>1. Books(req'[t]) /\ (req'[t].state # "Absent" => Phase(req'[t]) /\ Step(req'[t]))
  BY Zenon DEF Sound
<1>2. Books(req[t])'
  BY <1>1, Zenon DEF Books
<1>3. Phase(req'[t]) => Phase(req[t])'
  BY ZenonT(40) DEF Phase
<1>4. Step(req'[t]) => Step(req[t])'
  BY ZenonT(40) DEF Step
<1> QED BY <1>1, <1>2, <1>3, <1>4, Zenon DEF Sound

(* One request changes, soundly. *)
LEMMA SoundStep ==
    ASSUME TypeOK, \A t \in Seqs : Sound(req[t]), aligned' = aligned,
           NEW s \in Seqs, NEW m \in Requests, Put(s, m), Sound(m)
    PROVE  \A t \in Seqs : Sound(req[t])'
<1> SUFFICES ASSUME NEW t \in Seqs PROVE Sound(req[t])'
  OBVIOUS
<1>1. req'[t] = m \/ req'[t] = req[t]
  BY PutFields, Zenon
<1>2. Sound(req'[t])
  BY <1>1, Zenon
<1> QED BY <1>2, SoundKept, ZenonT(40)

(* Where a canonical block can be among the pages. *)
LEMMA CachedPage ==
    ASSUME Sharing, NEW s \in Seqs, NEW h \in Hashes, NEW i \in PageNos(s),
           canonical[h] = Pages(req[s])[i]
    PROVE  h = i /\ i <= Have(req[s])
BY Zenon DEF Sharing, CachedPages

(* Pages and the canonical blocks of registered hashes are held. *)
LEMMA PageIsHeld ==
    ASSUME TypeOK, NEW s \in Seqs
    PROVE  /\ \A i \in PageNos(s) : Pages(req[s])[i] \in Held /\ Pages(req[s])[i] \in Blocks
           /\ \A i \in 1 .. Have(req[s]) : canonical[i] \in Held
<1>1. req[s] \in Requests
  BY DEF TypeOK
<1>2. Pages(req[s]) \in Seq(Blocks) /\ Len(Pages(req[s])) = PageCount(req[s])
  BY <1>1, PagesAre, Zenon
<1>3. DOMAIN Pages(req[s]) = PageNos(s) /\ \A i \in PageNos(s) : Pages(req[s])[i] \in Blocks
  BY <1>2 DEF PageNos
<1>4. DOMAIN req[s].assigned = 1 .. Have(req[s])
  <2>1. req[s].assigned \in Seq(Blocks)
    BY <1>1, Fields, Zenon
  <2> QED BY <2>1 DEF Have
<1>5. ASSUME NEW b, b \in Range(Pages(req[s])) \cup {canonical[i] : i \in DOMAIN req[s].assigned}
      PROVE  b \in Held
  BY <1>5, Zenon DEF Held
<1>6. ASSUME NEW i \in PageNos(s) PROVE Pages(req[s])[i] \in Held
  <2>1. Pages(req[s])[i] \in Range(Pages(req[s]))
    BY <1>3, Zenon DEF Range
  <2> QED BY <1>5, <2>1, Zenon
<1>7. ASSUME NEW i \in 1 .. Have(req[s]) PROVE canonical[i] \in Held
  BY <1>4, <1>5, Zenon
<1> QED BY <1>3, <1>6, <1>7, Zenon

(* Every request keeps its pages or drops the last of them. *)
Thins(m, r) ==
    /\ KeepsPages(m, r)
    /\ Have(m) <= Have(r) /\ m.matched <= r.matched
    /\ \A i \in 1 .. PageCount(m) :
          /\ i <= Have(r) => i <= Have(m)
          /\ i <= r.matched => i <= m.matched

(* Dropping pages makes no two pages meet. *)
LEMMA SharingThins ==
    ASSUME TypeOK, Sharing, req' \in [Seqs -> Requests], canonical' = canonical,
           \A t \in Seqs : Sound(req'[t]) /\ Thins(req'[t], req[t])
    PROVE  Sharing'
<1>1. ASSUME NEW t \in Seqs
      PROVE  /\ req'[t].matched \in Nat /\ Have(req'[t]) \in Nat /\ PageCount(req'[t]) \in Nat
             /\ req[t].matched \in Nat /\ Have(req[t]) \in Nat /\ PageCount(req[t]) \in Nat
             /\ req'[t].matched <= Have(req'[t]) /\ Have(req'[t]) <= PageCount(req'[t])
             /\ Have(req'[t]) <= Have(req[t]) /\ req'[t].matched <= req[t].matched
             /\ PageCount(req'[t]) <= PageCount(req[t])
  <2>1. req[t] \in Requests /\ req'[t] \in Requests
    BY Zenon DEF TypeOK
  <2>2. Counts(req[t]) /\ Counts(req'[t])
    BY <2>1, Fields, ZenonT(40)
  <2>3. req'[t].matched <= Have(req'[t])
    BY ZenonT(40) DEF Sound, Books
  <2>4. /\ Have(req'[t]) <= Have(req[t]) /\ req'[t].matched <= req[t].matched
        /\ PageCount(req'[t]) <= PageCount(req[t])
    BY ZenonT(40) DEF Thins, KeepsPages
  <2> QED BY <2>2, <2>3, <2>4, InOrder, ZenonT(40)
<1>2. ASSUME NEW t \in Seqs, NEW i \in PageNos(t)'
      PROVE  /\ i \in PageNos(t) /\ Pages(req'[t])[i] = Pages(req[t])[i]
             /\ i <= Have(req[t]) => i <= Have(req'[t])
             /\ i <= req[t].matched => i <= req'[t].matched
  <2>1. i \in 1 .. PageCount(req'[t])
    BY Zenon DEF PageNos
  <2>2. i \in 1 .. PageCount(req[t])
    BY <1>1, <2>1, Inside, ZenonT(40)
  <2> QED BY <2>1, <2>2, ZenonT(40) DEF PageNos, Thins, KeepsPages
<1>3. SharedPages'
  <2> SUFFICES ASSUME NEW t \in Seqs, NEW u \in Seqs, NEW i \in PageNos(t)', NEW j \in PageNos(u)',
                      Pages(req'[t])[i] = Pages(req'[u])[j]
               PROVE  i = j /\ (t = u \/ i <= req'[t].matched \/ i <= req'[u].matched)
    BY Zenon DEF SharedPages
  <2>1. /\ i \in PageNos(t) /\ j \in PageNos(u)
        /\ Pages(req'[t])[i] = Pages(req[t])[i] /\ Pages(req'[u])[j] = Pages(req[u])[j]
    BY <1>2, Zenon
  <2>2. Pages(req[t])[i] = Pages(req[u])[j]
    BY <2>1, Zenon
  <2>3. i = j /\ (t = u \/ i <= req[t].matched \/ i <= req[u].matched)
    BY <2>1, <2>2, Zenon DEF Sharing, SharedPages
  <2> QED BY <1>2, <2>3, Zenon
<1>4. CachedPages'
  <2> SUFFICES ASSUME NEW t \in Seqs, NEW h \in Hashes, NEW i \in PageNos(t)',
                      canonical'[h] = Pages(req'[t])[i]
               PROVE  h = i /\ i <= Have(req'[t])
    BY Zenon DEF CachedPages
  <2>1. i \in PageNos(t) /\ Pages(req'[t])[i] = Pages(req[t])[i]
    BY <1>2, Zenon
  <2>2. canonical[h] = Pages(req[t])[i]
    BY <2>1, Zenon
  <2>3. h = i /\ i <= Have(req[t])
    BY <2>1, <2>2, Zenon DEF Sharing, CachedPages
  <2> QED BY <1>2, <2>3, Zenon
<1>5. AssignedCached'
  <2> SUFFICES ASSUME NEW t \in Seqs, NEW i \in 1 .. Have(req'[t])
               PROVE  i \in Hashes /\ canonical'[i] # NoBlock
    BY ZenonT(40) DEF AssignedCached
  <2>1. i \in 1 .. Have(req[t])
    BY <1>1, Inside, ZenonT(40)
  <2> QED BY <2>1, Zenon DEF Sharing, AssignedCached
<1>6. MatchedCached'
  <2> SUFFICES ASSUME NEW t \in Seqs, NEW i \in 1 .. req'[t].matched
               PROVE  Pages(req'[t])[i] = canonical'[i]
    BY ZenonT(40) DEF MatchedCached
  <2>1. i \in 1 .. req[t].matched /\ i \in PageNos(t)'
    <3>1. i \in 1 .. req[t].matched
      BY <1>1, Inside, ZenonT(40)
    <3>2. i \in 1 .. Have(req'[t])
      BY <1>1, Inside, ZenonT(40)
    <3>3. i \in 1 .. PageCount(req'[t])
      BY <1>1, <3>2, Inside, ZenonT(40)
    <3> QED BY <3>1, <3>3, Zenon DEF PageNos
  <2>2. Pages(req'[t])[i] = Pages(req[t])[i]
    BY <1>2, <2>1, Zenon
  <2> QED BY <2>1, <2>2, Zenon DEF Sharing, MatchedCached
<1>7. CachedOnce'
  BY Zenon DEF Sharing, CachedOnce
<1> QED BY <1>3, <1>4, <1>5, <1>6, <1>7, Zenon DEF Sharing

(* Blocks that nobody holds join the pages of one request. *)
Extends(m, r, T) ==
    /\ Have(m) = Have(r) /\ m.matched = r.matched /\ PageCount(r) <= PageCount(m)
    /\ \A i \in 1 .. PageCount(r) : Pages(m)[i] = Pages(r)[i]
    /\ \A i \in PageCount(r) + 1 .. PageCount(m) : Pages(m)[i] \in T
    /\ \A i, j \in PageCount(r) + 1 .. PageCount(m) : Pages(m)[i] = Pages(m)[j] => i = j

(* Allocating blocks that nobody holds, evicted from the cache if they     *)
(* were in it, makes no two pages meet.                                    *)
LEMMA SharingExtends ==
    ASSUME TypeOK, Sharing, NEW s \in Seqs, NEW m \in Requests, Put(s, m),
           \A t \in Seqs : req[t].matched <= Have(req[t]),
           NEW T, T \cap Held = {}, NoBlock \notin T, Extends(m, req[s], T), canonical' = Evicted(T)
    PROVE  Sharing'
<1>1. ASSUME NEW t \in Seqs
      PROVE  /\ Counts(req[t]) /\ Counts(req'[t]) /\ Have(req[t]) <= PageCount(req[t])
             /\ req'[t].matched = req[t].matched /\ Have(req'[t]) = Have(req[t])
             /\ PageCount(req[t]) <= PageCount(req'[t])
             /\ t # s => req'[t] = req[t]
  <2>1. req[t] \in Requests /\ (req'[t] = req[t] \/ (t = s /\ req'[t] = m))
    <3>1. req[t] \in Requests
      BY Zenon DEF TypeOK
    <3> QED BY <3>1, PutFields, Zenon
  <2>2. Counts(req[t]) /\ Counts(m)
    BY <2>1, Fields, ZenonT(40)
  <2>3. Have(req[t]) <= PageCount(req[t]) /\ PageCount(req[t]) <= PageCount(req[t])
    BY <2>2, InOrder, ZenonT(40)
  <2>4. t # s => req'[t] = req[t]
    BY PutFields, ZenonT(40)
  <2> QED BY <2>1, <2>2, <2>3, <2>4, ZenonT(40) DEF Extends
<1>2. ASSUME NEW t \in Seqs, NEW i \in PageNos(t)'
      PROVE  /\ i \in PageNos(t) => Pages(req'[t])[i] = Pages(req[t])[i]
             /\ i \notin PageNos(t) => t = s /\ i \in PageCount(req[s]) + 1 .. PageCount(m)
  <2>1. CASE t # s
    BY <1>1, <2>1, Zenon DEF PageNos
  <2>2. CASE t = s
    <3>1. req'[t] = m
      BY <2>2, PutFields, Zenon
    <3>2. Counts(m) /\ Counts(req[s]) /\ i \in 1 .. PageCount(m)
      BY <1>1, <2>2, <3>1, ZenonT(40) DEF PageNos
    <3>3. i \in 1 .. PageCount(req[s]) \/ i \in PageCount(req[s]) + 1 .. PageCount(m)
      BY <1>1, <3>2, After, InOrder, ZenonT(40)
    <3> QED BY <2>2, <3>1, <3>3, Zenon DEF Extends, PageNos
  <2> QED BY <2>1, <2>2, Zenon
<1>3. ASSUME NEW i \in PageCount(req[s]) + 1 .. PageCount(m) PROVE Pages(m)[i] \in T
  BY Zenon DEF Extends
<1>4. ASSUME NEW t \in Seqs, NEW i \in PageNos(t) PROVE Pages(req[t])[i] \notin T
  BY PageIsHeld, Zenon
<1>5. ASSUME NEW h \in Hashes
      PROVE  canonical'[h] \notin T /\ (canonical'[h] = canonical[h] \/ canonical'[h] = NoBlock)
             /\ (canonical[h] \notin T => canonical'[h] = canonical[h])
  BY Zenon DEF Evicted
<1>6. ASSUME NEW t \in Seqs, NEW i \in 1 .. Have(req[t])
      PROVE  i \in Hashes /\ canonical[i] # NoBlock /\ canonical'[i] = canonical[i]
  <2>1. i \in Hashes /\ canonical[i] # NoBlock /\ canonical[i] \in Held
    BY PageIsHeld, Zenon DEF Sharing, AssignedCached
  <2> QED BY <1>5, <2>1, Zenon
<1>7. SharedPages'
  <2> SUFFICES ASSUME NEW t \in Seqs, NEW u \in Seqs, NEW i \in PageNos(t)', NEW j \in PageNos(u)',
                      Pages(req'[t])[i] = Pages(req'[u])[j]
               PROVE  i = j /\ (t = u \/ i <= req'[t].matched \/ i <= req'[u].matched)
    BY Zenon DEF SharedPages
  <2>1. CASE i \in PageNos(t) /\ j \in PageNos(u)
    <3>1. Pages(req[t])[i] = Pages(req[u])[j]
      BY <1>2, <2>1, Zenon
    <3>2. i = j /\ (t = u \/ i <= req[t].matched \/ i <= req[u].matched)
      BY <2>1, <3>1, Zenon DEF Sharing, SharedPages
    <3> QED BY <1>1, <3>2, Zenon
  <2>2. CASE i \notin PageNos(t) /\ j \notin PageNos(u)
    <3>1. /\ t = s /\ i \in PageCount(req[s]) + 1 .. PageCount(m)
          /\ u = s /\ j \in PageCount(req[s]) + 1 .. PageCount(m)
      BY <1>2, <2>2, Zenon
    <3>2. Pages(m)[i] = Pages(m)[j]
      BY <3>1, PutFields, Zenon
    <3>3. i = j
      BY <3>1, <3>2, Zenon DEF Extends
    <3> QED BY <3>1, <3>3, Zenon
  <2>3. CASE i \in PageNos(t) /\ j \notin PageNos(u)
    <3>1. u = s /\ Pages(m)[j] \in T
      BY <1>2, <1>3, <2>3, Zenon
    <3>2. Pages(req'[u])[j] \in T
      BY <3>1, PutFields, Zenon
    <3>3. Pages(req'[t])[i] \notin T
      BY <1>2, <1>4, <2>3, Zenon
    <3> QED BY <3>2, <3>3, Zenon
  <2>4. CASE i \notin PageNos(t) /\ j \in PageNos(u)
    <3>1. t = s /\ Pages(m)[i] \in T
      BY <1>2, <1>3, <2>4, Zenon
    <3>2. Pages(req'[t])[i] \in T
      BY <3>1, PutFields, Zenon
    <3>3. Pages(req'[u])[j] \notin T
      BY <1>2, <1>4, <2>4, Zenon
    <3> QED BY <3>2, <3>3, Zenon
  <2> QED BY <2>1, <2>2, <2>3, <2>4, Zenon
<1>8. CachedPages'
  <2> SUFFICES ASSUME NEW t \in Seqs, NEW h \in Hashes, NEW i \in PageNos(t)',
                      canonical'[h] = Pages(req'[t])[i]
               PROVE  h = i /\ i <= Have(req'[t])
    BY Zenon DEF CachedPages
  <2>1. i \in PageNos(t)
    <3> SUFFICES ASSUME i \notin PageNos(t) PROVE FALSE
      BY Zenon
    <3>1. t = s /\ Pages(m)[i] \in T
      BY <1>2, <1>3, Zenon
    <3>2. Pages(req'[t])[i] \in T
      BY <3>1, PutFields, Zenon
    <3> QED BY <1>5, <3>2, Zenon
  <2>2. canonical'[h] = Pages(req[t])[i] /\ Pages(req[t])[i] \in Blocks
    BY <1>2, <2>1, PageIsHeld, Zenon
  <2>3. canonical[h] = Pages(req[t])[i]
    BY <1>5, <2>2, SequenceAssumption, Zenon
  <2>4. h = i /\ i <= Have(req[t])
    BY <2>1, <2>3, Zenon DEF Sharing, CachedPages
  <2> QED BY <1>1, <2>4, Zenon
<1>9. CachedOnce'
  BY <1>5, Zenon DEF Sharing, CachedOnce
<1>10. AssignedCached'
  <2> SUFFICES ASSUME NEW t \in Seqs, NEW i \in 1 .. Have(req'[t])
               PROVE  i \in Hashes /\ canonical'[i] # NoBlock
    BY Zenon DEF AssignedCached
  <2>1. i \in 1 .. Have(req[t])
    BY <1>1, Zenon
  <2> QED BY <1>6, <2>1, Zenon
<1>11. MatchedCached'
  <2> SUFFICES ASSUME NEW t \in Seqs, NEW i \in 1 .. req'[t].matched
               PROVE  Pages(req'[t])[i] = canonical'[i]
    BY Zenon DEF MatchedCached
  <2>1. i \in 1 .. req[t].matched
    BY <1>1, ZenonT(40)
  <2>2. i \in 1 .. Have(req[t]) /\ i \in PageNos(t) /\ i \in PageNos(t)'
    <3>1. Counts(req[t]) /\ Counts(req'[t]) /\ PageCount(req[t]) <= PageCount(req'[t])
      BY <1>1, Zenon
    <3>2. /\ req[t].matched \in Nat /\ Have(req[t]) \in Nat /\ PageCount(req[t]) \in Nat
          /\ PageCount(req'[t]) \in Nat
      BY <3>1, Zenon DEF Counts
    <3>3. i \in 1 .. Have(req[t]) /\ i \in 1 .. PageCount(req[t]) /\ i \in 1 .. PageCount(req'[t])
      BY <1>1, <2>1, <3>1, <3>2, Nested, Zenon
    <3> QED BY <3>3, Zenon DEF PageNos
  <2>3. Pages(req'[t])[i] = Pages(req[t])[i] /\ canonical'[i] = canonical[i]
    BY <1>2, <1>6, <2>2, Zenon
  <2> QED BY <2>1, <2>3, Zenon DEF Sharing, MatchedCached
<1> QED BY <1>7, <1>8, <1>9, <1>10, <1>11, Zenon DEF Sharing

(* One request's pages become canonical where their hashes have no block.  *)
Registers(m, r) ==
    /\ KeepsPages(m, r) /\ m.matched = r.matched
    /\ Have(r) <= Have(m) /\ Have(m) <= PageCount(m) /\ 1 .. Have(m) \subseteq Hashes
    /\ canonical' = [h \in Hashes |->
          IF h \in Have(r) + 1 .. Have(m) /\ canonical[h] = NoBlock
          THEN Pages(r)[h]
          ELSE canonical[h]]

(* Registering blocks makes no two pages meet, the loser of a race for a   *)
(* hash included: it keeps its own block.                                  *)
LEMMA SharingRegisters ==
    ASSUME TypeOK, Sharing, NEW s \in Seqs, NEW m \in Requests, Put(s, m),
           \A t \in Seqs : req[t].matched <= Have(req[t]), Registers(m, req[s])
    PROVE  Sharing'
<1>1. ASSUME NEW t \in Seqs
      PROVE  /\ Counts(req[t]) /\ Counts(req'[t]) /\ Have(req[t]) <= PageCount(req[t])
             /\ req'[t].matched = req[t].matched /\ Have(req[t]) <= Have(req'[t])
             /\ PageCount(req'[t]) <= PageCount(req[t])
             /\ Have(req'[t]) <= PageCount(req'[t])
             /\ t # s => req'[t] = req[t]
  <2>1. req[t] \in Requests /\ (req'[t] = req[t] \/ (t = s /\ req'[t] = m))
    <3>1. req[t] \in Requests
      BY Zenon DEF TypeOK
    <3> QED BY <3>1, PutFields, Zenon
  <2>2. Counts(req[t]) /\ Counts(m)
    BY <2>1, Fields, Zenon
  <2>3. /\ Have(req[t]) <= PageCount(req[t]) /\ Have(req[t]) <= Have(req[t])
        /\ PageCount(req[t]) <= PageCount(req[t])
    BY <2>2, InOrder, ZenonT(40)
  <2>4. t # s => req'[t] = req[t]
    BY PutFields, Zenon
  <2> QED BY <2>1, <2>2, <2>3, <2>4, Zenon DEF Registers, KeepsPages
<1>2. ASSUME NEW t \in Seqs, NEW i \in PageNos(t)'
      PROVE  i \in PageNos(t) /\ Pages(req'[t])[i] = Pages(req[t])[i]
  <2>1. i \in PageNos(t)
    <3>1. i \in 1 .. PageCount(req'[t])
      BY Zenon DEF PageNos
    <3>2. i \in 1 .. PageCount(req[t])
      BY <1>1, <3>1, Inside, InOrder, ZenonT(40)
    <3> QED BY <3>2, Zenon DEF PageNos
  <2>2. CASE t = s
    <3>1. req'[t] = m /\ i \in 1 .. PageCount(m)
      BY <2>2, PutFields, Zenon DEF PageNos
    <3> QED BY <2>1, <2>2, <3>1, Zenon DEF Registers, KeepsPages
  <2> QED BY <1>1, <2>1, <2>2, ZenonT(40)
<1>Places. ASSUME NEW t \in Seqs, NEW i \in PageNos(t) PROVE i \in Nat
  BY <1>1, Inside, InOrder, ZenonT(40) DEF PageNos
<1> DEFINE New == Have(req[s]) + 1 .. Have(m)
<1>3. ASSUME NEW h \in New
      PROVE  /\ h \in Hashes /\ h \in PageNos(s) /\ h > Have(req[s]) /\ h <= Have(req'[s])
             /\ Pages(req[s])[h] \in Blocks /\ Pages(req[s])[h] # NoBlock
  <2>1. req'[s] = m
    BY PutFields, ZenonT(40)
  <2>2. /\ Have(req[s]) \in Nat /\ Have(m) \in Nat /\ PageCount(req[s]) \in Nat
        /\ Have(m) <= PageCount(req[s])
    <3>1. Counts(req[s]) /\ Counts(m) /\ Have(m) <= PageCount(m) /\ PageCount(m) <= PageCount(req[s])
      BY <1>1, <2>1, ZenonT(40)
    <3> QED BY <3>1, AtMostAtMost, InOrder, ZenonT(40)
  <2>3. h \in 1 .. Have(m) /\ h \in PageNos(s) /\ h > Have(req[s]) /\ h <= Have(m)
    BY <2>2, After, ZenonT(40) DEF PageNos
  <2>4. h \in Hashes
    BY <2>3, Zenon DEF Registers
  <2>5. Pages(req[s])[h] \in Blocks
    BY <2>3, PageIsHeld, Zenon
  <2> QED BY <2>1, <2>3, <2>4, <2>5, SequenceAssumption, ZenonT(40)
<1>4. ASSUME NEW h \in Hashes
      PROVE  \/ canonical'[h] = canonical[h] /\ (h \in New => canonical[h] # NoBlock)
             \/ h \in New /\ canonical'[h] = Pages(req[s])[h] /\ canonical[h] = NoBlock
  BY ZenonT(40) DEF Registers
<1>5. ASSUME NEW t \in Seqs, NEW h \in New, NEW i \in PageNos(t), Pages(req[s])[h] = Pages(req[t])[i]
      PROVE  h = i /\ (s = t \/ i <= Have(req[t]))
  <2>1. h = i /\ (s = t \/ h <= req[s].matched \/ h <= req[t].matched)
    BY <1>3, <1>5, Zenon DEF Sharing, SharedPages
  <2>2. h > Have(req[s]) /\ req[s].matched <= Have(req[s]) /\ req[t].matched <= Have(req[t])
        /\ Counts(req[s]) /\ Counts(req[t])
    BY <1>1, <1>3, Zenon
  <2>3. h \in Nat
    BY <1>3, <1>Places, Zenon
  <2>4. ~(h <= req[s].matched)
    BY <2>2, <2>3, Above, InOrder, ZenonT(40)
  <2>5. h <= req[t].matched => h <= Have(req[t])
    BY <2>2, <2>3, AtMostAtMost, InOrder, ZenonT(40)
  <2> QED BY <2>1, <2>4, <2>5, Zenon
<1>6. SharedPages'
  <2> SUFFICES ASSUME NEW t \in Seqs, NEW u \in Seqs, NEW i \in PageNos(t)', NEW j \in PageNos(u)',
                      Pages(req'[t])[i] = Pages(req'[u])[j]
               PROVE  i = j /\ (t = u \/ i <= req'[t].matched \/ i <= req'[u].matched)
    BY Zenon DEF SharedPages
  <2>1. /\ i \in PageNos(t) /\ j \in PageNos(u)
        /\ Pages(req'[t])[i] = Pages(req[t])[i] /\ Pages(req'[u])[j] = Pages(req[u])[j]
    BY <1>2, Zenon
  <2>2. Pages(req[t])[i] = Pages(req[u])[j]
    BY <2>1, Zenon
  <2>3. i = j /\ (t = u \/ i <= req[t].matched \/ i <= req[u].matched)
    BY <2>1, <2>2, Zenon DEF Sharing, SharedPages
  <2> QED BY <1>1, <2>3, Zenon
<1>7. CachedPages'
  <2> SUFFICES ASSUME NEW t \in Seqs, NEW h \in Hashes, NEW i \in PageNos(t)',
                      canonical'[h] = Pages(req'[t])[i]
               PROVE  h = i /\ i <= Have(req'[t])
    BY Zenon DEF CachedPages
  <2>1. i \in PageNos(t) /\ canonical'[h] = Pages(req[t])[i]
    BY <1>2, ZenonT(40)
  <2>2. CASE canonical'[h] = canonical[h]
    <3>1. i \in Nat
      BY <2>1, <1>Places, Zenon
    <3>2. h = i /\ i <= Have(req[t])
      BY <2>1, <2>2, CachedPage, Zenon
    <3> QED BY <1>1, <3>1, <3>2, AtMostAtMost, InOrder, ZenonT(40)
  <2>3. CASE h \in New /\ canonical'[h] = Pages(req[s])[h]
    <3>1. h = i /\ (s = t \/ i <= Have(req[t])) /\ i \in Nat
      <4>1. Pages(req[s])[h] = Pages(req[t])[i]
        BY <2>1, <2>3, Zenon
      <4>2. i \in Nat
        BY <2>1, <1>Places, Zenon
      <4> QED BY <1>5, <2>1, <2>3, <4>1, <4>2, Zenon
    <3>2. CASE s = t
      BY <1>3, <2>3, <3>1, <3>2, ZenonT(40)
    <3>3. CASE i <= Have(req[t])
      BY <1>1, <3>1, <3>3, AtMostAtMost, InOrder, ZenonT(40)
    <3> QED BY <3>1, <3>2, <3>3, Zenon
  <2> QED BY <1>4, <2>2, <2>3, Zenon
<1>8. CachedOnce'
  <2> SUFFICES ASSUME NEW g \in Hashes, NEW h \in Hashes, canonical'[g] = canonical'[h],
                      canonical'[h] # NoBlock
               PROVE  g = h
    BY Zenon DEF CachedOnce
  <2>1. ASSUME NEW k \in New, NEW l \in Hashes, canonical[l] = Pages(req[s])[k] PROVE k = l
    BY <1>3, <2>1, Zenon DEF Sharing, CachedPages
  <2>2. ASSUME NEW k \in New, NEW l \in New, Pages(req[s])[l] = Pages(req[s])[k] PROVE k = l
    BY <1>3, <1>5, <2>2, Zenon
  <2>3. CASE canonical'[g] = canonical[g] /\ canonical'[h] = canonical[h]
    BY <2>3, Zenon DEF Sharing, CachedOnce
  <2>4. CASE canonical'[g] = canonical[g] /\ h \in New /\ canonical'[h] = Pages(req[s])[h]
    BY <2>1, <2>4, Zenon
  <2>5. CASE canonical'[h] = canonical[h] /\ g \in New /\ canonical'[g] = Pages(req[s])[g]
    BY <2>1, <2>5, Zenon
  <2>6. CASE /\ h \in New /\ canonical'[h] = Pages(req[s])[h]
             /\ g \in New /\ canonical'[g] = Pages(req[s])[g]
    BY <2>2, <2>6, Zenon
  <2> QED BY <1>4, <2>3, <2>4, <2>5, <2>6, Zenon
<1>9. AssignedCached'
  <2> SUFFICES ASSUME NEW t \in Seqs, NEW i \in 1 .. Have(req'[t])
               PROVE  i \in Hashes /\ canonical'[i] # NoBlock
    BY Zenon DEF AssignedCached
  <2>1. CASE i \in 1 .. Have(req[t])
    <3>1. i \in Hashes /\ canonical[i] # NoBlock
      BY <2>1, Zenon DEF Sharing, AssignedCached
    <3> QED BY <1>4, <3>1, Zenon
  <2>2. CASE i \notin 1 .. Have(req[t])
    <3>1. t = s
      BY <1>1, <2>2, ZenonT(40)
    <3>2. i \in New
      <4>1. req'[s] = m /\ Counts(req[s]) /\ Counts(m)
        BY <1>1, PutFields, Zenon
      <4> QED BY <2>2, <3>1, <4>1, After, InOrder, ZenonT(40)
    <3> QED BY <1>3, <1>4, <3>2, Zenon
  <2> QED BY <2>1, <2>2, Zenon
<1>10. MatchedCached'
  <2> SUFFICES ASSUME NEW t \in Seqs, NEW i \in 1 .. req'[t].matched
               PROVE  Pages(req'[t])[i] = canonical'[i]
    BY Zenon DEF MatchedCached
  <2>1. i \in 1 .. req[t].matched
    BY <1>1, ZenonT(40)
  <2>2. i \in 1 .. Have(req[t]) /\ i \in PageNos(t)'
    <3>1. i \in 1 .. Have(req[t])
      BY <1>1, <2>1, Inside, InOrder, ZenonT(40)
    <3>2. i \in 1 .. Have(req'[t])
      BY <1>1, <3>1, Inside, InOrder, ZenonT(40)
    <3>3. i \in 1 .. PageCount(req'[t])
      BY <1>1, <3>2, Inside, InOrder, ZenonT(40)
    <3> QED BY <3>1, <3>3, Zenon DEF PageNos
  <2>3. i \in Hashes /\ canonical[i] # NoBlock
    BY <2>2, Zenon DEF Sharing, AssignedCached
  <2>4. Pages(req'[t])[i] = Pages(req[t])[i] /\ canonical'[i] = canonical[i]
    BY <1>2, <1>4, <2>2, <2>3, Zenon
  <2> QED BY <2>1, <2>4, Zenon DEF Sharing, MatchedCached
<1> QED BY <1>6, <1>7, <1>8, <1>9, <1>10, Zenon DEF Sharing

(* A request without pages takes the canonical blocks of the first hashes. *)
LEMMA SharingMatches ==
    ASSUME TypeOK, Sharing, NEW s \in Seqs, NEW m \in Requests, Put(s, m), canonical' = canonical,
           m.matched = Have(m), PageCount(m) = Have(m),
           \A i \in 1 .. Have(m) :
              i \in Hashes /\ canonical[i] # NoBlock /\ Pages(m)[i] = canonical[i]
    PROVE  Sharing'
<1>1. req'[s] = m /\ (PageNos(s))' = 1 .. Have(m) /\ Have(m) \in Nat
  <2>1. Counts(m)
    BY Fields, Zenon
  <2> QED BY <2>1, PutFields, Zenon DEF PageNos, Counts
<1>2. ASSUME NEW i \in (PageNos(s))'
      PROVE  /\ i \in Hashes /\ canonical[i] # NoBlock /\ Pages(req'[s])[i] = canonical[i]
             /\ i <= Have(req'[s]) /\ i <= req'[s].matched
  <2>1. i \in 1 .. Have(m) /\ i <= Have(m)
    BY <1>1, UpTo, Zenon
  <2> QED BY <1>1, <2>1, Zenon
<1>3. ASSUME NEW t \in Seqs, t # s PROVE req'[t] = req[t] /\ (PageNos(t))' = PageNos(t)
  BY <1>3, PutFields, Zenon DEF PageNos
<1>4. SharedPages'
  <2> SUFFICES ASSUME NEW t \in Seqs, NEW u \in Seqs, NEW i \in PageNos(t)', NEW j \in PageNos(u)',
                      Pages(req'[t])[i] = Pages(req'[u])[j]
               PROVE  i = j /\ (t = u \/ i <= req'[t].matched \/ i <= req'[u].matched)
    BY Zenon DEF SharedPages
  <2>1. CASE t = s /\ u = s
    <3>1. /\ i \in Hashes /\ j \in Hashes /\ canonical[i] = canonical[j] /\ canonical[j] # NoBlock
      BY <1>2, <2>1, Zenon
    <3> QED BY <2>1, <3>1, Zenon DEF Sharing, CachedOnce
  <2>2. CASE t = s /\ u # s
    <3>1. /\ i \in Hashes /\ j \in PageNos(u) /\ canonical[i] = Pages(req[u])[j]
          /\ i <= req'[t].matched
      BY <1>2, <1>3, <2>2, Zenon
    <3>2. i = j /\ j <= Have(req[u])
      BY <3>1, CachedPage, Zenon
    <3> QED BY <3>1, <3>2, Zenon
  <2>3. CASE t # s /\ u = s
    <3>1. /\ j \in Hashes /\ i \in PageNos(t) /\ canonical[j] = Pages(req[t])[i]
          /\ j <= req'[u].matched
      BY <1>2, <1>3, <2>3, Zenon
    <3>2. j = i /\ i <= Have(req[t])
      BY <3>1, CachedPage, Zenon
    <3> QED BY <3>1, <3>2, Zenon
  <2>4. CASE t # s /\ u # s
    <3>1. i \in PageNos(t) /\ j \in PageNos(u) /\ Pages(req[t])[i] = Pages(req[u])[j]
      BY <1>3, <2>4, Zenon
    <3>2. i = j /\ (t = u \/ i <= req[t].matched \/ i <= req[u].matched)
      BY <3>1, Zenon DEF Sharing, SharedPages
    <3> QED BY <1>3, <2>4, <3>2, Zenon
  <2> QED BY <2>1, <2>2, <2>3, <2>4, Zenon
<1>5. CachedPages'
  <2> SUFFICES ASSUME NEW t \in Seqs, NEW h \in Hashes, NEW i \in PageNos(t)',
                      canonical'[h] = Pages(req'[t])[i]
               PROVE  h = i /\ i <= Have(req'[t])
    BY Zenon DEF CachedPages
  <2>1. CASE t = s
    <3>1. i \in Hashes /\ canonical[h] = canonical[i] /\ canonical[i] # NoBlock /\ i <= Have(req'[t])
      BY <1>2, <2>1, Zenon
    <3> QED BY <3>1, Zenon DEF Sharing, CachedOnce
  <2>2. CASE t # s
    BY <1>3, <2>2, ZenonT(40) DEF Sharing, CachedPages
  <2> QED BY <2>1, <2>2, Zenon
<1>6. AssignedCached'
  <2> SUFFICES ASSUME NEW t \in Seqs, NEW i \in 1 .. Have(req'[t])
               PROVE  i \in Hashes /\ canonical'[i] # NoBlock
    BY Zenon DEF AssignedCached
  <2>1. CASE t = s
    BY <1>1, <2>1, Zenon
  <2>2. CASE t # s
    BY <1>3, <2>2, Zenon DEF Sharing, AssignedCached
  <2> QED BY <2>1, <2>2, Zenon
<1>7. MatchedCached'
  <2> SUFFICES ASSUME NEW t \in Seqs, NEW i \in 1 .. req'[t].matched
               PROVE  Pages(req'[t])[i] = canonical'[i]
    BY Zenon DEF MatchedCached
  <2>1. CASE t = s
    BY <1>1, <2>1, Zenon
  <2>2. CASE t # s
    BY <1>3, <2>2, ZenonT(40) DEF Sharing, MatchedCached
  <2> QED BY <2>1, <2>2, Zenon
<1>8. CachedOnce'
  BY Zenon DEF Sharing, CachedOnce
<1> QED BY <1>4, <1>5, <1>6, <1>7, <1>8, Zenon DEF Sharing

-----------------------------------------------------------------------------
(***************************************************************************)
(* The K/V in the pages.                                                   *)
(***************************************************************************)

(* The pages of a request that goes on reach over all it has computed. *)
LEMMA Covered ==
    ASSUME NEW r \in Requests, Sound(r), GoesOn(r)
    PROVE  r.kv + r.accepted <= PageCount(r) * BlockSize
<1>1. Counts(r) /\ BlockSize \in Nat \ {0} /\ r.prefill <= r.input /\ r.accepted <= r.tokens
      /\ r.allocated <= PageCount(r) /\ r.state \in States
  <2>1. Counts(r) /\ r.state \in States
    BY Fields DEF Requests
  <2> QED BY <2>1, SequenceAssumption DEF Sound, Books, Counts, PageCount
<1>2. r.kv <= (PageCount(r) - r.allocated) * BlockSize
  <2>1. CASE r.prefill < r.input
    <3>1. /\ r.kv = r.prefill /\ PageCount(r) - r.allocated = DivCeil(r.prefill, BlockSize)
          /\ PageCount(r) - r.allocated \in Nat
      BY <1>1, <2>1 DEF Sound, Phase, Counts, GoesOn
    <3> QED BY <1>1, <3>1, Covers DEF Counts
  <2>2. CASE r.prefill = r.input
    <3>1. ~(r.prefill < r.input)
      BY <1>1, <2>2 DEF Counts
    <3> QED BY <2>2, <3>1, Zenon DEF Sound, Phase, GoesOn
  <2>3. r.prefill < r.input \/ r.prefill = r.input
    BY <1>1 DEF Counts
  <2> QED BY <2>1, <2>2, <2>3, Zenon
<1>3. CASE r.state = "Idle"
  BY <1>1, <1>2, <1>3 DEF Sound, Step, Counts, GoesOn
<1>4. CASE r.state = "Prefill"
  <2>1. /\ r.prefill + r.tokens <= r.input /\ r.tokens > 0
        /\ PageCount(r) = DivCeil(r.prefill + r.tokens, BlockSize)
    BY <1>4 DEF Sound, Step, GoesOn
  <2>2. r.kv = r.prefill
    BY <1>1, <2>1 DEF Sound, Phase, Counts, GoesOn
  <2>3. r.prefill + r.tokens \in Nat /\ r.kv + r.accepted <= r.prefill + r.tokens
    BY <1>1, <2>2 DEF Counts
  <2>4. r.prefill + r.tokens <= PageCount(r) * BlockSize
    BY <1>1, <2>1, <2>3, Covers DEF Counts
  <2>5. PICK k \in Nat : k = PageCount(r) * BlockSize
    BY <1>1 DEF Counts
  <2> QED BY <1>1, <2>3, <2>4, <2>5 DEF Counts
<1>5. CASE r.state \in {"Decode", "Speculative"}
  <2>1. r.kv + r.tokens <= PageCount(r) * BlockSize
    BY <1>5 DEF Sound, Step, GoesOn
  <2>2. PICK k \in Nat : k = PageCount(r) * BlockSize
    BY <1>1 DEF Counts
  <2> QED BY <1>1, <2>1, <2>2 DEF Counts
<1> QED BY <1>1, <1>3, <1>4, <1>5, Zenon DEF States, GoesOn

(* The page of a position below the end of n pages is one of them. *)
LEMMA PageNumber ==
    ASSUME NEW p \in Nat, NEW n \in Nat, p < n * BlockSize
    PROVE  p \div BlockSize + 1 \in 1 .. n /\ p \div BlockSize < n
BY SequenceAssumption

(* The same pages as far as both go. *)
SamePrefix(m, r) ==
    \A i \in 1 .. PageCount(m) : i \in 1 .. PageCount(r) => Pages(m)[i] = Pages(r)[i]

(* Keeping, dropping and adding pages leaves a common prefix. *)
LEMMA SamePrefixes ==
    ASSUME NEW r \in Requests, NEW m \in Requests
    PROVE  /\ KeepsPages(m, r) => SamePrefix(m, r)
           /\ \A T : Extends(m, r, T) => SamePrefix(m, r)
           /\ Pages(m) = Pages(r) => SamePrefix(m, r)
BY Zenon DEF SamePrefix, KeepsPages, Extends

(* A request has computed no more than itself. *)
LEMMA NoMore ==
    ASSUME NEW r \in Requests
    PROVE  r.kv + r.accepted <= r.kv + r.accepted /\ r.kv <= r.kv
BY DEF Requests

(* A request that has computed no more finds its rows in the same pages. *)
LEMMA RowsOfPrefix ==
    ASSUME NEW r \in Requests, NEW m \in Requests, Sound(r), Sound(m), GoesOn(r), GoesOn(m),
           SamePrefix(m, r), m.matched = r.matched, m.kv + m.accepted <= r.kv + r.accepted
    PROVE  \A p \in OwnRows(m) :
              /\ p \in OwnRows(r) /\ PageOf(m, p) = PageOf(r, p)
              /\ p \div BlockSize + 1 \in 1 .. PageCount(m)
<1> SUFFICES ASSUME NEW p \in OwnRows(m)
             PROVE  /\ p \in OwnRows(r) /\ PageOf(m, p) = PageOf(r, p)
                    /\ p \div BlockSize + 1 \in 1 .. PageCount(m)
  BY Zenon
<1>1. Counts(m) /\ Counts(r)
  BY Fields, Zenon
<1>2. PICK b \in Nat : b = r.matched * BlockSize
  BY <1>1, SequenceAssumption DEF Counts
<1>3. p \in b .. m.kv + m.accepted - 1
  BY <1>2, ZenonT(40) DEF OwnRows
<1>4. p \in Nat /\ p < m.kv + m.accepted /\ p < r.kv + r.accepted /\ p \in b .. r.kv + r.accepted - 1
  BY <1>1, <1>3 DEF Counts
<1>5. p \in OwnRows(r)
  BY <1>2, <1>4, Zenon DEF OwnRows
<1>6. ASSUME NEW n \in Requests, Sound(n), GoesOn(n), p < n.kv + n.accepted
      PROVE  p \div BlockSize + 1 \in 1 .. PageCount(n)
  <2>1. n.kv + n.accepted <= PageCount(n) * BlockSize /\ Counts(n)
    BY <1>6, Covered, Fields, ZenonT(40)
  <2>2. PICK k \in Nat : k = PageCount(n) * BlockSize
    BY <2>1, SequenceAssumption DEF Counts
  <2>3. p < k
    BY <1>4, <1>6, <2>1, <2>2 DEF Counts
  <2> QED BY <1>4, <2>1, <2>2, <2>3, PageNumber, Zenon DEF Counts
<1>7. p \div BlockSize + 1 \in 1 .. PageCount(m) /\ p \div BlockSize + 1 \in 1 .. PageCount(r)
  BY <1>4, <1>6, Zenon
<1> QED BY <1>5, <1>7, Zenon DEF SamePrefix, PageOf

(* What PagesStable says of one request. *)
Stable(m, r) ==
    \A p \in {q \in 0 .. r.kv - 1 : HasPage(r, q)} : HasPage(m, p) /\ PageOf(m, p) = PageOf(r, p)

(* Pages with a common prefix keep the positions of the computed tokens in *)
(* place.                                                                  *)
LEMMA StablePrefix ==
    ASSUME NEW r \in Requests, NEW m \in Requests, Sound(m), GoesOn(m),
           SamePrefix(m, r), r.kv <= m.kv
    PROVE  Stable(m, r)
<1> SUFFICES ASSUME NEW p \in 0 .. r.kv - 1, HasPage(r, p)
             PROVE  HasPage(m, p) /\ PageOf(m, p) = PageOf(r, p)
  BY Zenon DEF Stable
<1>1. Counts(m) /\ Counts(r) /\ m.kv + m.accepted <= PageCount(m) * BlockSize
  BY Fields, Covered, Zenon
<1>2. PICK k \in Nat : k = PageCount(m) * BlockSize
  BY <1>1, SequenceAssumption DEF Counts
<1>3. p \in Nat /\ p < k
  BY <1>1, <1>2 DEF Counts
<1>4. p \div BlockSize < PageCount(m)
  BY <1>1, <1>2, <1>3, PageNumber, Zenon DEF Counts
<1>5. p \div BlockSize < PageCount(r)
  BY PagesAre, Zenon DEF HasPage
<1>6. p \div BlockSize \in Nat
  BY <1>3, Fills, Zenon
<1>7. p \div BlockSize + 1 \in 1 .. PageCount(m) /\ p \div BlockSize + 1 \in 1 .. PageCount(r)
  BY <1>1, <1>4, <1>5, <1>6 DEF Counts
<1>8. HasPage(m, p)
  BY <1>4, PagesAre, Zenon DEF HasPage
<1> QED BY <1>7, <1>8, Zenon DEF SamePrefix, PageOf

(* The requests whose rows nobody touches. *)
Carried(m, r) ==
    /\ GoesOn(r)
    /\ \A p \in OwnRows(m) :
          /\ p \in OwnRows(r) /\ PageOf(m, p) = PageOf(r, p)
          /\ p \in written[PageOf(r, p)] => p \in written'[PageOf(r, p)]

(* When every request carries its rows along, each still finds them. *)
LEMMA RowsCarried ==
    ASSUME Rows,
           \A t \in Seqs : GoesOn(req'[t]) => OwnRows(req'[t]) = {} \/ Carried(req'[t], req[t])
    PROVE  Rows'
<1> SUFFICES ASSUME NEW t \in Seqs, GoesOn(req'[t]), NEW p \in OwnRows(req'[t])
             PROVE  p \in written'[PageOf(req'[t], p)]
  BY Zenon DEF Rows
<1>1. Carried(req'[t], req[t])
  BY Zenon
<1>2. p \in OwnRows(req[t]) /\ PageOf(req'[t], p) = PageOf(req[t], p)
      /\ (p \in written[PageOf(req[t], p)] => p \in written'[PageOf(req[t], p)])
      /\ GoesOn(req[t])
  BY <1>1, Zenon DEF Carried
<1>3. p \in written[PageOf(req[t], p)]
  BY <1>2, Zenon DEF Rows
<1> QED BY <1>2, <1>3, Zenon

(* When no cached block loses a row and no block enters the cache, the     *)
(* cache still lacks last rows only.                                       *)
LEMMA CacheCarried ==
    ASSUME CachedButLast, aligned' = aligned,
           \A h \in Hashes : canonical'[h] # NoBlock =>
              canonical'[h] = canonical[h] /\ written[canonical[h]] \subseteq written'[canonical[h]]
    PROVE  CachedButLast'
<1> SUFFICES ASSUME aligned, NEW h \in Hashes, canonical'[h] # NoBlock,
                    NEW p \in (h - 1) * BlockSize .. h * BlockSize - 2
             PROVE  p \in written'[canonical'[h]]
  BY Zenon DEF CachedButLast
<1>1. canonical'[h] = canonical[h] /\ written[canonical[h]] \subseteq written'[canonical[h]]
  BY Zenon
<1>2. p \in written[canonical[h]]
  BY <1>1, Zenon DEF CachedButLast
<1> QED BY <1>1, <1>2, Zenon

(* Blocks in use and blocks in the cache keep their rows. *)
LEMMA UsedKeepRows ==
    ASSUME TypeOK, req' \in [Seqs -> Requests], ForgetFree \/ written' = written,
           canonical' \in [Hashes -> Blocks \cup {NoBlock}]
    PROVE  /\ written' \in [Blocks -> SUBSET Nat]
           /\ \A t \in Seqs : \A i \in (PageNos(t))' :
                 written'[Pages(req'[t])[i]] = written[Pages(req'[t])[i]]
           /\ \A h \in Hashes : canonical'[h] # NoBlock =>
                 written'[canonical'[h]] = written[canonical'[h]]
<1>1. written' \in [Blocks -> SUBSET Nat]
  BY DEF TypeOK, ForgetFree
<1>2. ASSUME NEW b \in Blocks, b \notin FreeBlocks' PROVE written'[b] = written[b]
  BY <1>2, Zenon DEF ForgetFree
<1>3. ASSUME NEW t \in Seqs, NEW i \in (PageNos(t))'
      PROVE  Pages(req'[t])[i] \in Blocks /\ Pages(req'[t])[i] \notin FreeBlocks'
  <2>1. req'[t] \in Requests
    BY Zenon
  <2>2. Pages(req'[t]) \in Seq(Blocks) /\ Len(Pages(req'[t])) = PageCount(req'[t])
    BY <2>1, PagesAre, Zenon
  <2>3. i \in DOMAIN Pages(req'[t]) /\ Pages(req'[t])[i] \in Blocks
    BY <2>2 DEF PageNos
  <2>4. Pages(req'[t])[i] \in Range(Pages(req'[t]))
    BY <2>3, Zenon DEF Range
  <2>5. Pages(req'[t])[i] \in
            Range(Pages(req'[t])) \cup {canonical'[j] : j \in DOMAIN req'[t].assigned}
    BY <2>4, Zenon
  <2>6. Pages(req'[t])[i] \in Held'
    BY <2>5, Zenon DEF Held
  <2> QED BY <2>3, <2>6, Zenon DEF FreeBlocks
<1>4. ASSUME NEW h \in Hashes, canonical'[h] # NoBlock
      PROVE  canonical'[h] \in Blocks /\ canonical'[h] \notin FreeBlocks'
  <2>1. canonical'[h] \in Blocks \cup {NoBlock}
    BY Zenon
  <2>2. canonical'[h] \in Cached'
    BY <1>4, Zenon DEF Cached
  <2> QED BY <1>4, <2>1, <2>2, Zenon DEF FreeBlocks
<1>5. \A t \in Seqs : \A i \in (PageNos(t))' :
          written'[Pages(req'[t])[i]] = written[Pages(req'[t])[i]]
  BY <1>2, <1>3, Zenon
<1>6. \A h \in Hashes : canonical'[h] # NoBlock =>
          written'[canonical'[h]] = written[canonical'[h]]
  BY <1>2, <1>4, Zenon
<1> QED BY <1>1, <1>5, <1>6, Zenon

(* A request has registered what it matched. *)
LEMMA SoundMatched ==
    ASSUME IInv
    PROVE  \A t \in Seqs : req[t].matched <= Have(req[t])
BY Zenon DEF IInv, Sound, Books

(* A request that does not change keeps its pages. *)
LEMMA ThinsItself ==
    ASSUME NEW r \in Requests
    PROVE  Thins(r, r)
<1>1. Counts(r)
  BY Fields, Zenon
<1> QED BY <1>1 DEF Thins, KeepsPages, Counts

(* Requests that do not change carry their rows along. *)
LEMMA RowsElsewhere ==
    ASSUME IInv, NEW t \in Seqs, req'[t] = req[t], GoesOn(req[t]),
           \A i \in PageNos(t) : written'[Pages(req[t])[i]] = written[Pages(req[t])[i]]
    PROVE  Carried(req'[t], req[t])
<1>1. req[t] \in Requests /\ Sound(req[t]) /\ Counts(req[t])
  <2>1. req[t] \in Requests /\ Sound(req[t])
    BY DEF IInv, TypeOK
  <2> QED BY <2>1, Fields, ZenonT(40)
<1>2. SamePrefix(req[t], req[t]) /\ req[t].kv + req[t].accepted <= req[t].kv + req[t].accepted
  BY <1>1, NoMore, Zenon DEF SamePrefix
<1>3. \A p \in OwnRows(req[t]) : p \div BlockSize + 1 \in PageNos(t)
  BY <1>1, <1>2, RowsOfPrefix, Zenon DEF PageNos
<1> QED BY <1>3, Zenon DEF Carried, PageOf

=============================================================================
