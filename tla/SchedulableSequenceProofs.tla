---------------------- MODULE SchedulableSequenceProofs ----------------------
(***************************************************************************)
(* Every step of SchedulableSequence keeps the invariant of                *)
(* SchedulableSequenceInvariant, and what follows from it: a step has its  *)
(* pages, a request stays within what admission set aside, pages and their *)
(* K/V stay in place, and the prefix cache lacks last rows only.           *)
(***************************************************************************)
EXTENDS SchedulableSequenceInvariant

(* The provers to try, in this order. *)
USE SMTT(20), SMTT(30), ZenonT(20), SMTT(60)

-----------------------------------------------------------------------------
(***************************************************************************)
(* Where the invariant starts, and what follows from it.                   *)
(***************************************************************************)

(* Saturating subtraction gives a number. *)
LEMMA MinusNat ==
    ASSUME NEW a \in Nat, NEW b \in Nat
    PROVE  Minus(a, b) \in Nat
BY DEF Minus

(* So does a sum. *)
LEMMA PlusNat ==
    ASSUME NEW a \in Nat, NEW b \in Nat
    PROVE  a + b \in Nat
OBVIOUS

(* The invariant holds before the first request. *)
LEMMA InitIInv ==
    ASSUME Init
    PROVE  IInv
<1>1. /\ req = [s \in Seqs |-> Absent] /\ canonical = [h \in Hashes |-> NoBlock]
      /\ written = [b \in Blocks |-> {}] /\ aligned \in BOOLEAN
  BY SequenceAssumption DEF Init
<1>2. \A s \in Seqs : req[s] = Absent
  BY <1>1, Zenon
<1>3. TypeOK
  <2>1. req \in [Seqs -> Requests]
    BY <1>1, AbsentSound, Zenon
  <2>2. canonical \in [Hashes -> Blocks \cup {NoBlock}] /\ written \in [Blocks -> SUBSET Nat]
    BY <1>1
  <2> QED BY <1>1, <2>1, <2>2, Zenon DEF TypeOK
<1>4. \A s \in Seqs : Sound(req[s])
  BY <1>2, AbsentSound, Zenon
<1>5. /\ Absent.state = "Absent" /\ Have(Absent) = 0 /\ PageCount(Absent) = 0 /\ Absent.matched = 0
  BY DEF Absent, Fresh, Have, Spare, PageCount
<1>6. \A h \in Hashes : canonical[h] = NoBlock
  BY <1>1, Zenon
<1>7. Sharing
  <2>1. \A s \in Seqs : PageNos(s) = {} /\ 1 .. Have(req[s]) = {} /\ 1 .. req[s].matched = {}
    BY <1>2, <1>5 DEF PageNos
  <2> QED BY <1>6, <2>1, Zenon
          DEF Sharing, SharedPages, CachedPages, CachedOnce, AssignedCached, MatchedCached
<1>8. Rows
  BY <1>2, <1>5, Zenon DEF Rows, GoesOn
<1>9. CachedButLast
  BY <1>6, Zenon DEF CachedButLast
<1> QED BY <1>3, <1>4, <1>7, <1>8, <1>9, Zenon DEF IInv

(* A scheduled request goes on, and its pages reach over the step. *)
LEMMA StepCovered ==
    ASSUME NEW r \in Requests, Sound(r), r.state \in {"Prefill", "Decode", "Speculative"}
    PROVE  GoesOn(r) /\ r.kv + r.tokens <= PageCount(r) * BlockSize
<1>1. Counts(r) /\ r.tokens \in 0 .. r.tokens /\ r.state # "Absent" /\ MaxOutput \in Nat
  BY Fields, SequenceAssumption DEF Counts
<1>2. GoesOn(r)
  <2>1. CASE r.state = "Prefill"
    <3>1. r.tokens > 0 /\ r.prefill + r.tokens <= r.input
      BY <2>1 DEF Sound, Step
    <3> QED BY <1>1, <3>1 DEF GoesOn, Counts
  <2>2. CASE r.state \in {"Decode", "Speculative"}
    <3>1. r.tokens > 0 /\ r.generated + r.tokens <= MaxOutput
      BY <2>2 DEF Sound, Step
    <3> QED BY <1>1, <3>1 DEF GoesOn, Finished, Counts
  <2> QED BY <2>1, <2>2, Zenon
<1>3. PICK m : m = Forwarded(r, r.tokens)
  OBVIOUS
<1>4. /\ m \in Requests /\ Sound(m) /\ SameBook(m, r) /\ m.state = r.state
      /\ m.accepted = r.tokens /\ PageCount(m) = PageCount(r)
  BY <1>1, <1>3, ForwardedSound, ZenonT(60)
<1>5. GoesOn(m) /\ m.kv = r.kv
  BY <1>2, <1>4, Zenon DEF GoesOn, Finished, SameBook
<1>6. m.kv + m.accepted <= PageCount(m) * BlockSize
  BY <1>4, <1>5, Covered, Zenon
<1> QED BY <1>2, <1>4, <1>5, <1>6, Zenon

(* The rows of a request that goes on are in its pages. *)
LEMMA RowsAre ==
    ASSUME NEW r \in Requests, Sound(r), GoesOn(r), NEW p \in OwnRows(r)
    PROVE  p \in Nat /\ r.matched * BlockSize <= p /\ p \div BlockSize + 1 \in 1 .. PageCount(r)
<1>1. SamePrefix(r, r) /\ r.kv + r.accepted <= r.kv + r.accepted /\ Counts(r)
  BY NoMore, Fields, Zenon DEF SamePrefix
<1>2. p \div BlockSize + 1 \in 1 .. PageCount(r)
  BY <1>1, RowsOfPrefix, Zenon
<1>3. PICK b \in Nat : b = r.matched * BlockSize
  BY <1>1, SequenceAssumption DEF Counts
<1>4. p \in b .. r.kv + r.accepted - 1
  BY <1>3, Zenon DEF OwnRows
<1>5. p \in Nat /\ b <= p
  BY <1>1, <1>4 DEF Counts
<1> QED BY <1>2, <1>3, <1>5, Zenon

(* A row of a request is in a page of its own. *)
LEMMA RowPage ==
    ASSUME IInv, NEW t \in Seqs, GoesOn(req[t]), NEW q \in OwnRows(req[t])
    PROVE  /\ q \in Nat /\ req[t].matched * BlockSize <= q /\ q \div BlockSize + 1 \in PageNos(t)
           /\ PageOf(req[t], q) \in Blocks /\ q \in written[PageOf(req[t], q)]
<1>1. req[t] \in Requests /\ Sound(req[t]) /\ TypeOK /\ Rows
  BY DEF IInv, TypeOK
<1>2. q \in Nat /\ req[t].matched * BlockSize <= q /\ q \div BlockSize + 1 \in PageNos(t)
  BY <1>1, RowsAre, Zenon DEF PageNos
<1> QED BY <1>1, <1>2, PageIsHeld, Zenon DEF PageOf, Rows

(* What the invariant says of one request. *)
LEMMA InvariantFacts ==
    ASSUME IInv, NEW s \in Seqs
    PROVE  /\ req[s] \in Requests /\ Sound(req[s]) /\ Counts(req[s])
           /\ Len(Pages(req[s])) = PageCount(req[s])
<1>1. req[s] \in Requests /\ Sound(req[s])
  BY DEF IInv, TypeOK
<1> QED BY <1>1, Fields, PagesAre, Zenon

(* The invariant gives a scheduled step its pages. *)
LEMMA IInvCoverStep ==
    ASSUME IInv
    PROVE  PagesCoverStep
<1> SUFFICES ASSUME NEW s \in Seqs, req[s].state \in {"Prefill", "Decode", "Speculative"}
             PROVE  DivCeil(req[s].kv + req[s].tokens, BlockSize) <= Len(Pages(req[s]))
  BY Zenon DEF PagesCoverStep
<1>1. PICK r : r = req[s]
  OBVIOUS
<1>2. /\ r \in Requests /\ Sound(r) /\ Counts(r) /\ Len(Pages(r)) = PageCount(r)
      /\ r.state \in {"Prefill", "Decode", "Speculative"}
  BY <1>1, InvariantFacts, Zenon
<1>3. r.kv + r.tokens <= PageCount(r) * BlockSize
  BY <1>2, StepCovered, ZenonT(40)
<1>4. r.kv + r.tokens \in Nat /\ PageCount(r) \in Nat
  BY <1>2, PlusNat, Zenon DEF Counts
<1>5. DivCeil(r.kv + r.tokens, BlockSize) <= PageCount(r)
  BY <1>3, <1>4, Covers, Zenon
<1> QED BY <1>1, <1>2, <1>5, Zenon

(* The invariant bounds the pages of a request. *)
LEMMA IInvLifetime ==
    ASSUME IInv
    PROVE  WithinLifetime
<1>1. ASSUME NEW s \in Seqs PROVE Len(Pages(req[s])) <= LifetimeBlocks(req[s])
  BY InvariantFacts, Zenon DEF Sound, Books
<1> QED BY <1>1, Zenon DEF WithinLifetime, Live

(* The invariant leaves a request that goes on a step to take. *)
LEMMA IInvNextStep ==
    ASSUME IInv
    PROVE  NextStepExists
<1> SUFFICES ASSUME NEW s \in Seqs, req[s].state = "Idle", ~Finished(req[s]),
                    ~(req[s].prefill < req[s].input)
             PROVE  TailTokens(req[s]) = 1
  BY Zenon DEF NextStepExists, Live
<1>1. PICK r : r = req[s]
  OBVIOUS
<1>2. /\ r \in Requests /\ Sound(r) /\ Counts(r) /\ MaxOutput \in Nat
      /\ r.state = "Idle" /\ ~Finished(r) /\ ~(r.prefill < r.input)
  BY <1>1, InvariantFacts, SequenceAssumption, ZenonT(40)
<1>3. r.prefill = r.input /\ Phase(r)
  BY <1>2 DEF Sound, Books, Counts
<1>4. MaxOutput > 0
  BY <1>2 DEF Finished, Counts
<1>5. r.kv + 1 = r.total
  BY <1>3, <1>4 DEF Phase
<1>6. TailTokens(r) = 1
  BY <1>2, <1>5 DEF TailTokens, Minus, Counts
<1> QED BY <1>1, <1>6, Zenon

(* The invariant puts the rows of a request where its page table says. *)
LEMMA IInvKvIntact ==
    ASSUME IInv
    PROVE  OwnKvIntact
<1> SUFFICES ASSUME NEW s \in Seqs, req[s].state # "Absent", ~Finished(req[s]),
                    NEW p \in req[s].matched * BlockSize .. req[s].kv - 1
             PROVE  HasKv(req[s], p)
  BY Zenon DEF OwnKvIntact, Live
<1>1. PICK r : r = req[s]
  OBVIOUS
<1>2. Counts(r) /\ Len(Pages(r)) = PageCount(r) /\ r.matched * BlockSize \in Nat
  <2>1. Counts(r) /\ Len(Pages(r)) = PageCount(r)
    BY <1>1, InvariantFacts, Zenon
  <2> QED BY <2>1, WholePages, Zenon DEF Counts
<1>3. GoesOn(req[s])
  BY Zenon DEF GoesOn
<1>4. p \in OwnRows(req[s])
  <2>1. p \in r.matched * BlockSize .. r.kv - 1
    BY <1>1, Zenon
  <2>2. p \in OwnRows(r)
    BY <1>2, <2>1 DEF OwnRows, Counts
  <2> QED BY <1>1, <2>2, Zenon
<1>5. /\ p \in Nat /\ p \div BlockSize + 1 \in PageNos(s)
      /\ p \in written[PageOf(req[s], p)]
  BY <1>3, <1>4, RowPage, Zenon
<1>6. p \div BlockSize \in Nat
  BY <1>5, Fills, Zenon
<1>7. p \div BlockSize + 1 \in 1 .. PageCount(r)
  BY <1>1, <1>5, Zenon DEF PageNos
<1>8. p \div BlockSize < PageCount(r)
  BY <1>2, <1>6, <1>7 DEF Counts
<1>9. HasPage(req[s], p)
  BY <1>1, <1>2, <1>8, Zenon DEF HasPage
<1> QED BY <1>5, <1>9, Zenon DEF HasKv

(* A step that replaces one request by a sound one with the same pages, or *)
(* fewer, and no more rows keeps the invariant.                            *)
LEMMA ThinKeeps ==
    ASSUME IInv, aligned' = aligned, NEW s \in Seqs, NEW m \in Requests, Put(s, m), Sound(m),
           Thins(m, req[s]), canonical' = canonical, ForgetFree \/ written' = written,
           GoesOn(m) =>
              \/ OwnRows(m) = {}
              \/ /\ GoesOn(req[s]) /\ m.matched = req[s].matched
                 /\ m.kv + m.accepted <= req[s].kv + req[s].accepted
    PROVE  IInv'
<1>1. /\ TypeOK /\ Sharing /\ Rows /\ CachedButLast /\ \A t \in Seqs : Sound(req[t])
      /\ canonical \in [Hashes -> Blocks \cup {NoBlock}] /\ aligned \in BOOLEAN
      /\ \A t \in Seqs : req[t] \in Requests
  BY DEF IInv, TypeOK
<1>2. /\ req' \in [Seqs -> Requests] /\ req'[s] = m /\ \A t \in Seqs \ {s} : req'[t] = req[t]
  BY <1>1, PutFields, Zenon
<1>3. /\ written' \in [Blocks -> SUBSET Nat]
      /\ \A t \in Seqs : \A i \in (PageNos(t))' :
            written'[Pages(req'[t])[i]] = written[Pages(req'[t])[i]]
      /\ \A h \in Hashes : canonical'[h] # NoBlock =>
            written'[canonical'[h]] = written[canonical'[h]]
  BY <1>1, <1>2, UsedKeepRows, Zenon
<1>4. TypeOK'
  BY <1>1, <1>2, <1>3, Zenon DEF TypeOK
<1>5. \A t \in Seqs : Sound(req[t])'
  BY <1>1, SoundStep, Zenon
<1>6. Sharing'
  <2>1. \A t \in Seqs : Sound(req'[t]) /\ Thins(req'[t], req[t])
    BY <1>1, <1>2, ThinsItself, Zenon
  <2> QED BY <1>1, <1>2, <2>1, SharingThins, Zenon
<1>7. Rows'
  <2>1. ASSUME NEW t \in Seqs, GoesOn(req'[t]), OwnRows(req'[t]) # {}
        PROVE  Carried(req'[t], req[t])
    <3>1. CASE t = s
      <4>1. /\ GoesOn(m) /\ GoesOn(req[s]) /\ m.matched = req[s].matched
            /\ m.kv + m.accepted <= req[s].kv + req[s].accepted
        BY <1>2, <2>1, <3>1, Zenon
      <4>2. SamePrefix(m, req[s])
        BY <1>1, SamePrefixes, Zenon DEF Thins
      <4>3. \A p \in OwnRows(m) : /\ p \in OwnRows(req[s]) /\ PageOf(m, p) = PageOf(req[s], p)
                                  /\ p \div BlockSize + 1 \in 1 .. PageCount(m)
        BY <1>1, <4>1, <4>2, RowsOfPrefix, Zenon
      <4>4. \A p \in OwnRows(m) : written'[PageOf(m, p)] = written[PageOf(m, p)]
        BY <1>2, <1>3, <4>3, Zenon DEF PageNos, PageOf
      <4> QED BY <1>2, <3>1, <4>1, <4>3, <4>4, Zenon DEF Carried
    <3>2. CASE t # s
      <4>1. req'[t] = req[t]
        BY <1>2, <3>2, Zenon
      <4>2. \A i \in PageNos(t) : written'[Pages(req[t])[i]] = written[Pages(req[t])[i]]
        <5> SUFFICES ASSUME NEW i \in PageNos(t)
                     PROVE  written'[Pages(req[t])[i]] = written[Pages(req[t])[i]]
          BY Zenon
        <5>1. i \in (PageNos(t))'
          BY <4>1, Zenon DEF PageNos
        <5>2. written'[Pages(req'[t])[i]] = written[Pages(req'[t])[i]]
          BY <1>3, <5>1, Zenon
        <5> QED BY <4>1, <5>2, Zenon
      <4> QED BY <2>1, <4>1, <4>2, RowsElsewhere, Zenon
    <3> QED BY <3>1, <3>2, Zenon
  <2> QED BY <1>1, <2>1, RowsCarried, Zenon
<1>8. CachedButLast'
  BY <1>1, <1>3, CacheCarried, Zenon
<1> QED BY <1>4, <1>5, <1>6, <1>7, <1>8, Zenon DEF IInv

-----------------------------------------------------------------------------
(***************************************************************************)
(* One lemma for each call.                                                *)
(***************************************************************************)

(* The invariant is kept, and so are the pages of what is computed. *)
Keeps(s) ==
    /\ IInv'
    /\ req[s].state # "Absent" /\ GoesOn(req'[s]) => Stable(req'[s], req[s])

(* A request without pages has dropped them. *)
LEMMA EmptyThins ==
    ASSUME NEW r \in Requests, NEW m \in Requests, PageCount(m) = 0, m.matched = 0
    PROVE  Thins(m, r)
<1>1. Counts(r) /\ Counts(m)
  BY Fields, Zenon
<1>2. Have(m) <= Have(r) /\ m.matched <= r.matched /\ PageCount(m) <= PageCount(r)
  BY <1>1 DEF Counts, PageCount
<1>3. 1 .. PageCount(m) = {}
  OBVIOUS
<1> QED BY <1>2, <1>3, Zenon DEF Thins, KeepsPages

(* RequestKv::new keeps the invariant. *)
LEMMA NewRequestKeeps ==
    ASSUME IInv, aligned' = aligned, NEW s \in Seqs, NewRequest(s)
    PROVE  Keeps(s)
<1>1. PICK input \in Inputs : Put(s, Fresh(input))
  BY Zenon DEF NewRequest
<1>2. req[s].state = "Absent" /\ canonical' = canonical /\ written' = written
  BY Zenon DEF NewRequest
<1>3. PICK m : m = Fresh(input)
  OBVIOUS
<1>4. m \in Requests /\ Sound(m) /\ req[s] \in Requests /\ Put(s, m)
  <2>1. req[s] \in Requests
    BY DEF IInv, TypeOK
  <2> QED BY <1>1, <1>3, <2>1, FreshSound, Zenon
<1>5. m.matched = 0 /\ m.kv = 0 /\ m.accepted = 0 /\ PageCount(m) = 0
  BY <1>3 DEF Fresh, PageCount, Have, Spare
<1>6. OwnRows(m) = {}
  BY <1>5, SequenceAssumption DEF OwnRows
<1>7. IInv'
  BY <1>2, <1>4, <1>5, <1>6, EmptyThins, ThinKeeps, Zenon
<1> QED BY <1>2, <1>7, Zenon DEF Keeps

(* Every hash of a request's complete blocks is one of the registry's. *)
LEMMA CompleteHashes ==
    ASSUME NEW r \in Requests, Sound(r)
    PROVE  Complete(r) \in Nat /\ 1 .. Complete(r) \subseteq Hashes
<1>1. Counts(r) /\ MaxTokens \in Nat /\ MaxOutput \in Nat
  BY Fields, LongestPrompt, SequenceAssumption, Zenon
<1>2. r.total \in Nat /\ r.total <= MaxTokens
  BY <1>1 DEF Sound, Books, Counts
<1>3. PICK c \in Nat : c = r.total \div BlockSize
  BY <1>2, Fills, Zenon
<1>4. PICK d \in Nat : d = MaxTokens \div BlockSize
  BY <1>1, Fills, Zenon
<1>5. c <= d
  <2>1. c <= c
    OBVIOUS
  <2>2. c * BlockSize <= r.total
    BY <1>2, <1>3, <2>1, Fills, Zenon
  <2>3. c * BlockSize <= MaxTokens
    BY <1>1, <1>2, <2>2, SequenceAssumption
  <2> QED BY <1>1, <1>4, <2>3, Fills, Zenon
<1>6. 1 .. c \subseteq 1 .. d
  BY <1>5
<1> QED BY <1>3, <1>4, <1>6, Zenon DEF Complete, Hashes

(* The request with the first n canonical blocks. *)
WithPrefix(r, n) ==
    [r EXCEPT !.assigned = SubSeq(canonical, 1, n), !.matched = n,
              !.prefill = n * BlockSize, !.kv = n * BlockSize]

(* All its pages come from the cache, and it has computed no row. *)
FromCache(m, n) ==
    /\ Have(m) = n /\ m.matched = n /\ PageCount(m) = n /\ OwnRows(m) = {}
    /\ \A i \in 1 .. n : i \in Hashes /\ canonical[i] # NoBlock /\ Pages(m)[i] = canonical[i]

(* match_and_add_prefix: what it hands out is the canonical blocks. *)
LEMMA PrefixMatched ==
    ASSUME TypeOK, NEW r \in Requests, Sound(r), r.state = "Idle", r.prefill = 0, Pages(r) = <<>>,
           NEW k \in 1 .. Complete(r), Matches(r, k),
           NEW n, n = AtMost(k, MatchCap(r)), n > 0, NEW m, m = WithPrefix(r, n)
    PROVE  m \in Requests /\ Sound(m) /\ r.kv = 0 /\ FromCache(m, n)
<1>1. Counts(r) /\ canonical \in [Hashes -> Blocks \cup {NoBlock}]
  BY Fields, Zenon DEF TypeOK
<1>2. PageCount(r) = 0
  <2>1. Len(Pages(r)) = 0
    OBVIOUS
  <2> QED BY <2>1, PagesAre, Zenon
<1>3. PICK c \in Nat : c = Complete(r) /\ 1 .. c \subseteq Hashes
  BY CompleteHashes, Zenon
<1>4. k \in 1 .. c /\ \A i \in 1 .. k : canonical[i] # NoBlock
  BY <1>3, Zenon DEF Matches
<1>5. Minus(r.input, 1) \in Nat /\ MatchCap(r) \in Nat
  <2>1. Minus(r.input, 1) \in Nat
    BY <1>1 DEF Minus, Counts
  <2> QED BY <2>1, Fills, Zenon DEF MatchCap
<1>6. n \in 1 .. MatchCap(r) /\ n <= MatchCap(r) /\ n \in 0 .. c /\ n <= k /\ n \in Nat
  BY <1>4, <1>5 DEF AtMost
<1>7. ASSUME NEW i \in 1 .. n
      PROVE  i \in Hashes /\ canonical[i] # NoBlock /\ canonical[i] \in Blocks
  <2>1. i \in 1 .. c /\ i \in 1 .. k
    BY <1>4, <1>6
  <2> QED BY <1>1, <1>3, <1>4, <2>1, Zenon
<1>8. PICK hits : hits = SubSeq(canonical, 1, n)
  BY Zenon
<1>9. hits \in Seq(Blocks) /\ Len(hits) = n /\ \A i \in 1 .. n : hits[i] = canonical[i]
  <2>1. \A i \in 1 .. n : canonical[i] \in Blocks
    BY <1>7, Zenon
  <2>2. hits = [i \in 1 .. n |-> canonical[i]]
    BY <1>6, <1>8 DEF SubSeq
  <2> QED BY <1>6, <2>1, <2>2
<1>10. m = [r EXCEPT !.assigned = hits, !.matched = n, !.prefill = n * BlockSize, !.kv = n * BlockSize]
  BY <1>8, Zenon DEF WithPrefix
<1>11. m \in Requests /\ Sound(m)
  BY <1>2, <1>6, <1>9, <1>10, MatchedSound, Zenon
<1>12. /\ m.assigned = hits /\ m.unassigned = r.unassigned /\ m.matched = n
       /\ m.kv = n * BlockSize /\ m.accepted = r.accepted
  BY <1>10 DEF Requests
<1>13. Spare(r) = 0 /\ Have(r) = 0
  BY <1>1, <1>2 DEF PageCount, Counts
<1>14. Have(m) = n /\ Spare(m) = 0 /\ PageCount(m) = n
  BY <1>6, <1>9, <1>12, <1>13 DEF PageCount, Have, Spare
<1>15. Pages(m) = hits \o r.unassigned /\ Len(r.unassigned) = 0 /\ r.unassigned \in Seq(Blocks)
  BY <1>12, <1>13, Fields, Zenon DEF Pages, Spare
<1>16. \A i \in 1 .. n : Pages(m)[i] = hits[i]
  BY <1>6, <1>9, <1>15
<1>17. r.kv = 0 /\ r.accepted = 0
  <2>1. r.prefill < r.input
    <3>1. Minus(r.input, 1) \in Nat /\ n <= Minus(r.input, 1) \div BlockSize
      BY <1>5, <1>6, Zenon DEF MatchCap
    <3>2. n * BlockSize <= Minus(r.input, 1)
      BY <1>6, <3>1, Fills, Zenon
    <3>3. n * BlockSize > 0 /\ n * BlockSize \in Nat
      BY <1>6, SequenceAssumption
    <3> QED BY <1>1, <3>1, <3>2, <3>3 DEF Minus, Counts
  <2> QED BY <2>1 DEF Sound, Phase, Step
<1>18. OwnRows(m) = {}
  <2>1. n * BlockSize \in Nat
    BY <1>6, SequenceAssumption
  <2>2. m.matched * BlockSize > m.kv + m.accepted - 1
    BY <1>12, <1>17, <2>1
  <2> QED BY <1>12, <1>17, <2>1 DEF OwnRows
<1> QED BY <1>7, <1>9, <1>11, <1>12, <1>14, <1>16, <1>17, <1>18, ZenonT(40) DEF FromCache

(* The step of match_and_add_prefix for a prefix of cached blocks. *)
MatchesPrefix(s, cached) ==
    /\ Matches(req[s], cached)
    /\ AtMost(cached, MatchCap(req[s])) > 0
    /\ Put(s, WithPrefix(req[s], AtMost(cached, MatchCap(req[s]))))

(* match_and_add_prefix keeps the invariant. *)
LEMMA MatchKeeps ==
    ASSUME IInv, aligned' = aligned, NEW s \in Seqs, MatchAndAddPrefix(s)
    PROVE  Keeps(s)
<1>1. PICK r : r = req[s]
  OBVIOUS
<1>2. /\ TypeOK /\ Sharing /\ Rows /\ CachedButLast /\ r \in Requests /\ Sound(r) /\ Counts(r)
      /\ canonical \in [Hashes -> Blocks \cup {NoBlock}] /\ aligned \in BOOLEAN
      /\ written \in [Blocks -> SUBSET Nat]
      /\ \A t \in Seqs : req[t] \in Requests /\ Sound(req[t])
  <2>1. /\ TypeOK /\ Sharing /\ Rows /\ CachedButLast /\ req[s] \in Requests /\ Sound(req[s])
        /\ canonical \in [Hashes -> Blocks \cup {NoBlock}] /\ aligned \in BOOLEAN
        /\ written \in [Blocks -> SUBSET Nat]
        /\ \A t \in Seqs : req[t] \in Requests /\ Sound(req[t])
    BY DEF IInv, TypeOK
  <2> QED BY <1>1, <2>1, Fields, Zenon
<1>3. /\ req[s].state = "Idle" /\ req[s].prefill = 0 /\ Pages(req[s]) = <<>>
      /\ canonical' = canonical /\ written' = written
      /\ \E cached \in 1 .. Complete(req[s]) : MatchesPrefix(s, cached)
  BY Zenon DEF MatchAndAddPrefix, MatchesPrefix, WithPrefix
<1>4. PICK cached \in 1 .. Complete(req[s]) : MatchesPrefix(s, cached)
  BY <1>3, Zenon
<1>5. PICK n, m : n = AtMost(cached, MatchCap(r)) /\ m = WithPrefix(r, n)
  OBVIOUS
<1>6. m \in Requests /\ Sound(m) /\ r.kv = 0 /\ FromCache(m, n)
  <2>1. /\ r.state = "Idle" /\ r.prefill = 0 /\ n > 0 /\ Pages(r) = <<>>
        /\ cached \in 1 .. Complete(r) /\ Matches(r, cached)
    BY <1>1, <1>3, <1>4, <1>5, Zenon DEF MatchesPrefix
  <2> QED BY <1>2, <1>5, <2>1, PrefixMatched, Zenon
<1>7. Put(s, m) /\ canonical' = canonical /\ written' = written
  BY <1>1, <1>3, <1>4, <1>5, Zenon DEF MatchesPrefix
<1>8. /\ req' \in [Seqs -> Requests] /\ req'[s] = m /\ \A t \in Seqs \ {s} : req'[t] = req[t]
  BY <1>2, <1>6, <1>7, PutFields, Zenon
<1>9. TypeOK'
  BY <1>2, <1>7, <1>8, Zenon DEF TypeOK
<1>10. \A t \in Seqs : Sound(req[t])'
  BY <1>2, <1>6, <1>7, SoundStep, Zenon
<1>11. Sharing'
  BY <1>2, <1>6, <1>7, SharingMatches, Zenon DEF FromCache
<1>12. Rows'
  <2>1. ASSUME NEW t \in Seqs, GoesOn(req'[t]), OwnRows(req'[t]) # {}
        PROVE  Carried(req'[t], req[t])
    <3>1. t # s
      BY <1>6, <1>8, <2>1, Zenon DEF FromCache
    <3>2. req'[t] = req[t]
      BY <1>8, <3>1, Zenon
    <3> QED BY <1>7, <2>1, <3>2, RowsElsewhere, Zenon
  <2> QED BY <1>2, <2>1, RowsCarried, Zenon
<1>13. CachedButLast'
  BY <1>2, <1>7, CacheCarried, Zenon
<1>14. IInv'
  BY <1>9, <1>10, <1>11, <1>12, <1>13, Zenon DEF IInv
<1>15. Stable(req'[s], req[s])
  <2>1. 0 .. r.kv - 1 = {}
    BY <1>6
  <2> QED BY <1>1, <2>1, Zenon DEF Stable
<1> QED BY <1>14, <1>15, Zenon DEF Keeps

(* The common end of the steps that keep or drop pages. *)
LEMMA ThinStable ==
    ASSUME IInv, NEW s \in Seqs, NEW m \in Requests, Put(s, m), Sound(m),
           KeepsPages(m, req[s]), req[s].kv <= m.kv
    PROVE  GoesOn(req'[s]) => Stable(req'[s], req[s])
<1>1. req[s] \in Requests /\ TypeOK
  BY DEF IInv, TypeOK
<1>2. req'[s] = m
  BY <1>1, PutFields, Zenon
<1>3. SamePrefix(m, req[s])
  BY <1>1, SamePrefixes, Zenon
<1> QED BY <1>1, <1>2, <1>3, StablePrefix, Zenon

(* revert_schedule keeps the invariant. *)
LEMMA RevertScheduleKeeps ==
    ASSUME IInv, aligned' = aligned, NEW s \in Seqs, RevertSchedule(s)
    PROVE  Keeps(s)
<1>1. PICK r : r = req[s]
  OBVIOUS
<1>2. PICK m : m = Idle(Popped(r, r.allocated))
  OBVIOUS
<1>3. r \in Requests /\ Sound(r) /\ Counts(r)
  <2>1. req[s] \in Requests /\ Sound(req[s])
    BY DEF IInv, TypeOK
  <2> QED BY <1>1, <2>1, Fields, Zenon
<1>4. /\ r.state \in {"Prefill", "Decode", "Speculative"} /\ Put(s, m)
      /\ canonical' = canonical /\ ForgetFree
  BY <1>1, <1>2, Zenon DEF RevertSchedule
<1>5. /\ m \in Requests /\ Sound(m) /\ Settled(m, r, 0, r.prefill, r.kv)
      /\ Have(m) = Have(r) /\ KeepsPages(m, r)
  BY <1>2, <1>3, <1>4, RevertedSound, Zenon
<1>6. /\ m.kv = r.kv /\ m.accepted = 0 /\ m.matched = r.matched /\ m.prefill = r.prefill
      /\ m.input = r.input /\ m.generated = r.generated
  BY <1>3, <1>5 DEF Settled, Counts
<1>7. Thins(m, r)
  BY <1>3, <1>5, <1>6 DEF Thins, Counts
<1>8. GoesOn(m) => GoesOn(r)
  BY <1>4, <1>6 DEF GoesOn, Finished
<1>9. m.kv + m.accepted <= r.kv + r.accepted /\ r.kv <= m.kv
  BY <1>3, <1>6 DEF Counts
<1>10. IInv'
  BY <1>1, <1>4, <1>5, <1>6, <1>7, <1>8, <1>9, ThinKeeps, Zenon
<1>11. GoesOn(req'[s]) => Stable(req'[s], req[s])
  BY <1>1, <1>4, <1>5, <1>9, ThinStable, Zenon
<1> QED BY <1>10, <1>11, Zenon DEF Keeps

(* adopt_external_prefill_anchor keeps the invariant. *)
LEMMA AdoptKeeps ==
    ASSUME IInv, aligned' = aligned, NEW s \in Seqs, AdoptExternalPrefillAnchor(s)
    PROVE  Keeps(s)
<1>1. PICK r : r = req[s]
  OBVIOUS
<1>2. PICK m : m = [r EXCEPT !.input = @ - 1, !.generated = @ + 1]
  OBVIOUS
<1>3. r \in Requests /\ Sound(r) /\ Counts(r)
  <2>1. req[s] \in Requests /\ Sound(req[s])
    BY DEF IInv, TypeOK
  <2> QED BY <1>1, <2>1, Fields, Zenon
<1>4. /\ r.state = "Idle" /\ r.prefill = r.kv /\ r.prefill + 1 = r.input /\ ~Finished(r)
      /\ Put(s, m) /\ canonical' = canonical /\ written' = written
  BY <1>1, <1>2 DEF AdoptExternalPrefillAnchor
<1>5. /\ m \in Requests /\ Sound(m) /\ m.kv = r.kv /\ m.accepted = r.accepted
      /\ m.matched = r.matched /\ Have(m) = Have(r) /\ PageCount(m) = PageCount(r)
      /\ Pages(m) = Pages(r)
  BY <1>2, <1>3, <1>4, AdoptedSound, Zenon
<1>6. KeepsPages(m, r)
  BY <1>3, <1>5 DEF KeepsPages, Counts
<1>7. Thins(m, r)
  BY <1>3, <1>5, <1>6 DEF Thins, Counts
<1>8. GoesOn(r)
  BY <1>4 DEF GoesOn
<1>9. m.kv + m.accepted <= r.kv + r.accepted /\ r.kv <= m.kv
  BY <1>3, <1>5 DEF Counts
<1>10. IInv'
  BY <1>1, <1>4, <1>5, <1>7, <1>8, <1>9, ThinKeeps, Zenon
<1>11. GoesOn(req'[s]) => Stable(req'[s], req[s])
  BY <1>1, <1>4, <1>5, <1>6, <1>9, ThinStable, Zenon
<1> QED BY <1>10, <1>11, Zenon DEF Keeps

(* Concatenation is associative. *)
LEMMA ConcatAssociates ==
    ASSUME NEW a \in Seq(Blocks), NEW b \in Seq(Blocks), NEW c \in Seq(Blocks)
    PROVE  a \o (b \o c) = (a \o b) \o c
OBVIOUS

(* Places counted from n + 1 are places counted from 1. *)
LEMMA Offset ==
    ASSUME NEW n \in Nat, NEW count \in Nat,
           NEW i \in n + 1 .. n + count, NEW j \in n + 1 .. n + count
    PROVE  i - n \in 1 .. count /\ j - n \in 1 .. count /\ (i - n = j - n => i = j)
OBVIOUS

(* The schedule calls add blocks at the end. *)
LEMMA ScheduledExtends ==
    ASSUME NEW r \in Requests, NEW state \in States, NEW tokens \in Nat, NEW count \in Nat,
           NEW T \in SUBSET Blocks, NEW q \in Bijection(1 .. count, T),
           NEW m, m = Scheduled(r, state, tokens, count, q)
    PROVE  m \in Requests /\ Grown(m, r, state, tokens, count) /\ Extends(m, r, T)
<1>1. q \in [1 .. count -> T] /\ \A i, j \in 1 .. count : q[i] = q[j] => i = j
  BY DEF Bijection, Injection, IsInjective
<1>2. q \in Seq(Blocks) /\ Len(q) = count
  BY <1>1
<1>3. m \in Requests /\ Grown(m, r, state, tokens, count)
  BY <1>2, ScheduledGrown, Zenon
<1>4. Counts(r) /\ Counts(m) /\ Have(m) = Have(r) /\ PageCount(m) = PageCount(r) + count
      /\ m.matched = r.matched
  BY <1>3, Fields, Zenon DEF Grown
<1>5. m.assigned = r.assigned /\ m.unassigned = r.unassigned \o q
  BY DEF Scheduled, Requests
<1>6. r.assigned \in Seq(Blocks) /\ r.unassigned \in Seq(Blocks)
  BY Fields, Zenon
<1>7. Pages(m) = Pages(r) \o q
  <2>1. Pages(r) = r.assigned \o r.unassigned /\ Pages(m) = r.assigned \o (r.unassigned \o q)
    BY <1>5, Zenon DEF Pages
  <2>2. r.assigned \o (r.unassigned \o q) = (r.assigned \o r.unassigned) \o q
    BY <1>2, <1>6, ConcatAssociates, Zenon
  <2> QED BY <2>1, <2>2, Zenon
<1>8. Pages(r) \in Seq(Blocks) /\ Len(Pages(r)) = PageCount(r)
  BY PagesAre, Zenon
<1>9. /\ \A i \in 1 .. PageCount(r) : Pages(m)[i] = Pages(r)[i]
      /\ \A i \in PageCount(r) + 1 .. PageCount(m) : Pages(m)[i] = q[i - PageCount(r)]
  <2>1. /\ \A i \in 1 .. Len(Pages(r)) : (Pages(r) \o q)[i] = Pages(r)[i]
        /\ \A i \in Len(Pages(r)) + 1 .. Len(Pages(r)) + Len(q) :
              (Pages(r) \o q)[i] = q[i - Len(Pages(r))]
    BY <1>2, <1>8, Concat, Zenon
  <2> QED BY <1>2, <1>4, <1>7, <1>8, <2>1, Zenon
<1>10. ASSUME NEW i \in PageCount(r) + 1 .. PageCount(m), NEW j \in PageCount(r) + 1 .. PageCount(m)
       PROVE  /\ i - PageCount(r) \in 1 .. count /\ j - PageCount(r) \in 1 .. count
              /\ (i - PageCount(r) = j - PageCount(r) => i = j)
  <2>1. PageCount(r) \in Nat /\ i \in PageCount(r) + 1 .. PageCount(r) + count
        /\ j \in PageCount(r) + 1 .. PageCount(r) + count
    BY <1>4, Zenon DEF Counts
  <2> QED BY <2>1, Offset, Zenon
<1>11. \A i \in PageCount(r) + 1 .. PageCount(m) : Pages(m)[i] \in T
  <2>1. \A k \in 1 .. count : q[k] \in T
    BY <1>1, Zenon
  <2> QED BY <1>9, <1>10, <2>1, Zenon
<1>12. ASSUME NEW i \in PageCount(r) + 1 .. PageCount(m), NEW j \in PageCount(r) + 1 .. PageCount(m),
              Pages(m)[i] = Pages(m)[j]
       PROVE  i = j
  <2>1. q[i - PageCount(r)] = q[j - PageCount(r)]
    BY <1>9, <1>12, Zenon
  <2>2. i - PageCount(r) \in 1 .. count /\ j - PageCount(r) \in 1 .. count
    BY <1>10, Zenon
  <2>3. i - PageCount(r) = j - PageCount(r)
    BY <1>1, <2>1, <2>2, Zenon
  <2> QED BY <1>10, <2>3, Zenon
<1>13. PageCount(r) <= PageCount(m)
  BY <1>4 DEF Counts
<1> QED BY <1>3, <1>4, <1>9, <1>11, <1>12, <1>13, Zenon DEF Extends

(* Scheduling with blocks that nobody holds keeps the invariant, if it     *)
(* leaves the request sound.                                               *)
LEMMA ScheduleKeeps ==
    ASSUME IInv, aligned' = aligned, NEW s \in Seqs, NEW r, r = req[s], r.state = "Idle",
           NEW state \in States \ {"Absent"}, NEW tokens \in Nat, NEW count \in Nat,
           Schedule(s, state, tokens, count),
           \A m \in Requests : Grown(m, r, state, tokens, count) => Sound(m)
    PROVE  Keeps(s)
<1>1. PICK T \in Allocations(count) : \E q \in Bijection(1 .. count, T) :
          /\ Put(s, Scheduled(r, state, tokens, count, q))
          /\ canonical' = Evicted(T)
          /\ written' = [b \in Blocks |-> IF b \in T THEN {} ELSE written[b]]
  BY Zenon DEF Schedule, Scheduled
<1>2. PICK q \in Bijection(1 .. count, T) : Put(s, Scheduled(r, state, tokens, count, q))
  BY <1>1, Zenon
<1>3. PICK m : m = Scheduled(r, state, tokens, count, q)
  OBVIOUS
<1>4. /\ TypeOK /\ Sharing /\ Rows /\ CachedButLast /\ \A t \in Seqs : Sound(req[t])
      /\ canonical \in [Hashes -> Blocks \cup {NoBlock}] /\ aligned \in BOOLEAN
      /\ written \in [Blocks -> SUBSET Nat]
      /\ r \in Requests /\ Sound(r)
  BY DEF IInv, TypeOK
<1>5. T \in SUBSET Blocks /\ T \cap Held = {} /\ NoBlock \notin T
  BY <1>1, SequenceAssumption DEF Allocations
<1>6. m \in Requests /\ Grown(m, r, state, tokens, count) /\ Extends(m, r, T)
  <2>1. state \in States
    BY Zenon
  <2> QED BY <1>3, <1>4, <1>5, <2>1, ScheduledExtends, Zenon
<1>7. Sound(m) /\ Put(s, m)
  BY <1>2, <1>3, <1>6, Zenon
<1>8. /\ req' \in [Seqs -> Requests] /\ req'[s] = m /\ \A t \in Seqs \ {s} : req'[t] = req[t]
  BY <1>4, <1>6, <1>7, PutFields, Zenon
<1>9. /\ written' \in [Blocks -> SUBSET Nat]
      /\ \A b \in Blocks : b \notin T => written'[b] = written[b]
  BY <1>1, <1>4
<1>10. /\ canonical' \in [Hashes -> Blocks \cup {NoBlock}]
       /\ \A h \in Hashes : canonical'[h] # NoBlock =>
             canonical'[h] = canonical[h] /\ canonical[h] \in Blocks /\ canonical[h] \notin T
  BY <1>1, <1>4 DEF Evicted
<1>11. TypeOK'
  BY <1>4, <1>8, <1>9, <1>10, Zenon DEF TypeOK
<1>12. \A t \in Seqs : Sound(req[t])'
  BY <1>4, <1>6, <1>7, SoundStep, Zenon
<1>13. Sharing'
  BY <1>1, <1>4, <1>5, <1>6, <1>7, SoundMatched, SharingExtends, Zenon
<1>14. \A t \in Seqs : \A i \in PageNos(t) : written'[Pages(req[t])[i]] = written[Pages(req[t])[i]]
  BY <1>4, <1>5, <1>9, PageIsHeld, Zenon
<1>15. /\ m.kv = r.kv /\ m.accepted = r.accepted /\ m.matched = r.matched /\ m.prefill = r.prefill
       /\ m.input = r.input /\ m.generated = r.generated
  BY <1>6, Zenon DEF Grown
<1>16. m.kv + m.accepted <= r.kv + r.accepted /\ r.kv <= m.kv
  BY <1>4, <1>15, NoMore, Zenon
<1>17. GoesOn(m) => GoesOn(r)
  BY <1>15 DEF GoesOn, Finished
<1>18. SamePrefix(m, r)
  BY <1>4, <1>6, SamePrefixes, Zenon
<1>19. Rows'
  <2>1. ASSUME NEW t \in Seqs, GoesOn(req'[t]) PROVE Carried(req'[t], req[t])
    <3>1. CASE t = s
      <4>1. GoesOn(m) /\ GoesOn(r)
        BY <1>8, <1>17, <2>1, <3>1, Zenon
      <4>2. SamePrefix(r, r) /\ r.kv + r.accepted <= r.kv + r.accepted
        BY <1>4, NoMore, Zenon DEF SamePrefix
      <4>3. \A p \in OwnRows(m) : p \in OwnRows(r) /\ PageOf(m, p) = PageOf(r, p)
        BY <1>4, <1>6, <1>7, <1>15, <1>16, <1>18, <4>1, RowsOfPrefix, Zenon
      <4>4. \A p \in OwnRows(r) : p \div BlockSize + 1 \in PageNos(s)
        BY <1>4, <4>1, <4>2, RowsOfPrefix, Zenon DEF PageNos
      <4>5. \A p \in OwnRows(r) : written'[PageOf(r, p)] = written[PageOf(r, p)]
        BY <1>14, <4>4, Zenon DEF PageOf
      <4> QED BY <1>8, <3>1, <4>1, <4>3, <4>5, Zenon DEF Carried
    <3>2. CASE t # s
      <4>1. req'[t] = req[t]
        BY <1>8, <3>2, Zenon
      <4> QED BY <1>14, <2>1, <4>1, RowsElsewhere, Zenon
    <3> QED BY <3>1, <3>2, Zenon
  <2> QED BY <1>4, <2>1, RowsCarried, Zenon
<1>20. CachedButLast'
  <2>1. \A h \in Hashes : canonical'[h] # NoBlock =>
            canonical'[h] = canonical[h] /\ written[canonical[h]] \subseteq written'[canonical[h]]
    BY <1>9, <1>10, Zenon
  <2> QED BY <1>4, <2>1, CacheCarried, Zenon
<1>21. IInv'
  BY <1>11, <1>12, <1>13, <1>19, <1>20, Zenon DEF IInv
<1>22. GoesOn(req'[s]) => Stable(req'[s], req[s])
  BY <1>4, <1>6, <1>7, <1>8, <1>16, <1>18, StablePrefix, Zenon
<1> QED BY <1>21, <1>22, Zenon DEF Keeps

(* schedule_prefill keeps the invariant. *)
LEMMA SchedulePrefillKeeps ==
    ASSUME IInv, aligned' = aligned, NEW s \in Seqs, SchedulePrefill(s)
    PROVE  Keeps(s)
<1>1. PICK r : r = req[s]
  OBVIOUS
<1>2. r \in Requests /\ Sound(r) /\ Counts(r)
  <2>1. req[s] \in Requests /\ Sound(req[s])
    BY DEF IInv, TypeOK
  <2> QED BY <1>1, <2>1, Fields, Zenon
<1>3. r.state = "Idle"
  BY <1>1, Zenon DEF SchedulePrefill
<1>4. PICK n \in 1 .. Minus(r.input, r.prefill) :
          /\ aligned => r.prefill + n = r.input \/ (r.prefill + n) % BlockSize = 0
          /\ Schedule(s, "Prefill", n, Minus(DivCeil(r.prefill + n, BlockSize), Len(Pages(r))))
  BY <1>1, Zenon DEF SchedulePrefill
<1>5. PICK count : count = Minus(DivCeil(r.prefill + n, BlockSize), PageCount(r))
  OBVIOUS
<1>6. Schedule(s, "Prefill", n, count)
  BY <1>2, <1>4, <1>5, PagesAre, Zenon
<1>7. n \in Nat /\ count \in Nat
  <2>1. n \in Nat /\ r.prefill \in Nat /\ PageCount(r) \in Nat
    BY <1>2 DEF Counts, Minus
  <2>2. r.prefill + n \in Nat
    BY <2>1
  <2>3. DivCeil(r.prefill + n, BlockSize) \in Nat
    BY <2>2, Covers, Zenon
  <2> QED BY <1>5, <2>1, <2>3, MinusNat, ZenonT(40)
<1>8. \A m \in Requests : Grown(m, r, "Prefill", n, count) => Sound(m)
  BY <1>2, <1>3, <1>4, <1>5, <1>7, PrefillSound, Zenon
<1>9. "Prefill" \in States \ {"Absent"}
  BY DEF States
<1> QED BY <1>1, <1>3, <1>6, <1>7, <1>8, <1>9, ScheduleKeeps, Zenon

(* schedule_decode keeps the invariant. *)
LEMMA ScheduleDecodeKeeps ==
    ASSUME IInv, aligned' = aligned, NEW s \in Seqs, ScheduleDecode(s)
    PROVE  Keeps(s)
<1>1. PICK r : r = req[s]
  OBVIOUS
<1>2. r \in Requests /\ Sound(r) /\ Counts(r)
  <2>1. req[s] \in Requests /\ Sound(req[s])
    BY DEF IInv, TypeOK
  <2> QED BY <1>1, <2>1, Fields, Zenon
<1>3. /\ MayDecode(r) /\ r.state = "Idle"
      /\ Schedule(s, "Decode", 1, Minus(DecodeNeed(r), Len(r.unassigned)))
  BY <1>1, Zenon DEF ScheduleDecode, MayDecode
<1>4. PICK need : need = Complete(r) + 1
  OBVIOUS
<1>5. /\ need \in Nat /\ need <= DivCeil(r.input + MaxOutput, BlockSize)
      /\ r.kv + 1 <= need * BlockSize /\ 1 \in 1 .. MaxOutput - r.generated
      /\ Minus(DecodeNeed(r), Spare(r)) = Minus(need, PageCount(r))
  BY <1>2, <1>3, <1>4, DecodeNeeds, Zenon
<1>6. PICK count : count = Minus(need, PageCount(r))
  OBVIOUS
<1>7. Schedule(s, "Decode", 1, count)
  BY <1>3, <1>5, <1>6, Zenon DEF Spare
<1>8. count \in Nat
  BY <1>2, <1>5, <1>6, MinusNat, Zenon DEF Counts
<1>9. "Decode" \in States \ {"Absent"} /\ "Decode" \in {"Decode", "Speculative"} /\ 1 \in Nat
  BY DEF States
<1>10. \A m \in Requests : Grown(m, r, "Decode", 1, count) => Sound(m)
  BY <1>2, <1>3, <1>5, <1>6, <1>8, <1>9, GeneratingSound, Zenon
<1> QED BY <1>1, <1>3, <1>7, <1>8, <1>9, <1>10, ScheduleKeeps, ZenonT(40)

(* schedule_speculative keeps the invariant. *)
LEMMA ScheduleSpeculativeKeeps ==
    ASSUME IInv, aligned' = aligned, NEW s \in Seqs, ScheduleSpeculative(s)
    PROVE  Keeps(s)
<1>1. PICK r : r = req[s]
  OBVIOUS
<1>2. r \in Requests /\ Sound(r) /\ Counts(r)
  <2>1. req[s] \in Requests /\ Sound(req[s])
    BY DEF IInv, TypeOK
  <2> QED BY <1>1, <2>1, Fields, Zenon
<1>3. MayDecode(r) /\ r.state = "Idle"
  BY <1>1, Zenon DEF ScheduleSpeculative, MayDecode
<1>4. PICK d \in 1 .. MaxDraft :
          Schedule(s, "Speculative", Draft(r, d),
                   Minus(DivCeil(r.total + Draft(r, d), BlockSize), Len(Pages(r))))
  BY <1>1, Zenon DEF ScheduleSpeculative
<1>5. PICK n : n = Draft(r, d)
  OBVIOUS
<1>6. PICK need : need = DivCeil(r.total + n, BlockSize)
  OBVIOUS
<1>7. /\ n \in 1 .. MaxOutput - r.generated /\ need \in Nat
      /\ need <= DivCeil(r.input + MaxOutput, BlockSize) /\ r.kv + n <= need * BlockSize
  BY <1>2, <1>3, <1>5, <1>6, DraftNeeds, Zenon
<1>8. PICK count : count = Minus(need, PageCount(r))
  OBVIOUS
<1>9. Schedule(s, "Speculative", n, count)
  BY <1>2, <1>4, <1>5, <1>6, <1>8, PagesAre, Zenon
<1>10. count \in Nat
  BY <1>2, <1>7, <1>8, MinusNat, ZenonT(40) DEF Counts
<1>11. n \in Nat
  BY <1>2, <1>7, SequenceAssumption DEF Counts
<1>12. /\ "Speculative" \in States \ {"Absent"} /\ "Speculative" \in {"Decode", "Speculative"}
       /\ "Speculative" # "Decode"
  BY DEF States
<1>13. \A m \in Requests : Grown(m, r, "Speculative", n, count) => Sound(m)
  BY <1>2, <1>3, <1>7, <1>8, <1>10, <1>12, GeneratingSound, Zenon
<1> QED BY <1>1, <1>3, <1>9, <1>10, <1>11, <1>12, <1>13, ScheduleKeeps, Zenon

(* The rows of block h that a cached block must have are in page h. *)
LEMMA RowsOfBlock ==
    ASSUME NEW h \in Nat \ {0}, NEW p \in (h - 1) * BlockSize .. h * BlockSize - 2
    PROVE  p \in Nat /\ p \div BlockSize + 1 = h
<1>1. BlockSize \in Nat \ {0}
  BY SequenceAssumption
<1>2. (h - 1) * BlockSize \in Nat /\ h * BlockSize = (h - 1) * BlockSize + BlockSize
  BY <1>1
<1>3. PICK k \in Nat : k = h - 1
  OBVIOUS
<1>4. PICK j \in 0 .. BlockSize - 1 : p = k * BlockSize + j
  BY <1>1, <1>2, <1>3
<1>5. p \div BlockSize = k
  BY <1>1, <1>4
<1> QED BY <1>2, <1>3, <1>5

(* The rows of a block that becomes complete, but for its last, are rows   *)
(* the request has computed itself.                                        *)
LEMMA BlockOfRows ==
    ASSUME NEW matched \in Nat, NEW have \in Nat, NEW top \in Nat, NEW k \in Nat,
           matched <= have, top * BlockSize <= k + 1, NEW h \in have + 1 .. top,
           NEW p \in (h - 1) * BlockSize .. h * BlockSize - 2
    PROVE  p \in matched * BlockSize .. k - 1
<1>1. BlockSize \in Nat \ {0} /\ h \in Nat /\ h - 1 \in Nat /\ matched <= h - 1 /\ h <= top
  BY SequenceAssumption
<1>2. matched * BlockSize <= (h - 1) * BlockSize
  BY <1>1
<1>3. h * BlockSize <= top * BlockSize
  BY <1>1
<1>4. matched * BlockSize \in Nat /\ (h - 1) * BlockSize \in Nat /\ h * BlockSize \in Nat
      /\ top * BlockSize \in Nat
  BY <1>1
<1>5. PICK a \in Nat, b \in Nat, c \in Nat, d \in Nat :
          /\ a = matched * BlockSize /\ b = (h - 1) * BlockSize
          /\ c = h * BlockSize /\ d = top * BlockSize
  BY <1>4
<1>6. p \in b .. c - 2 /\ a <= b /\ c <= d /\ d <= k + 1
  BY <1>2, <1>3, <1>5
<1>7. p \in a .. k - 1
  BY <1>6
<1> QED BY <1>5, <1>7

(* Committing the accepted tokens and registering the complete blocks      *)
(* keeps the invariant.                                                    *)
LEMMA ApplyKeeps ==
    ASSUME IInv, aligned' = aligned, NEW s \in Seqs, NEW r, r = req[s],
           NEW m \in Requests, Put(s, m), Sound(m), Registers(m, r),
           ForgetFree \/ written' = written, GoesOn(r),
           m.kv = r.kv + r.accepted, m.accepted = 0,
           aligned => Have(m) * BlockSize <= r.kv + r.accepted + 1
    PROVE  Keeps(s)
<1>1. /\ TypeOK /\ Sharing /\ Rows /\ CachedButLast /\ \A t \in Seqs : Sound(req[t])
      /\ canonical \in [Hashes -> Blocks \cup {NoBlock}] /\ aligned \in BOOLEAN
      /\ r \in Requests /\ Sound(r)
  BY DEF IInv, TypeOK
<1>2. /\ req' \in [Seqs -> Requests] /\ req'[s] = m /\ \A t \in Seqs \ {s} : req'[t] = req[t]
  BY <1>1, PutFields, ZenonT(40)
<1>3. Counts(r) /\ Counts(m) /\ r.matched <= Have(r) /\ Have(m) <= PageCount(r)
  <2>1. Counts(r) /\ Counts(m) /\ r.matched <= Have(r)
    BY <1>1, Fields, SoundMatched, Zenon
  <2> QED BY <2>1 DEF Registers, KeepsPages, Counts
<1> DEFINE New == Have(r) + 1 .. Have(m)
<1>4. ASSUME NEW h \in New PROVE h \in PageNos(s) /\ h \in Nat \ {0} /\ Pages(r)[h] \in Blocks
  <2>1. h \in PageNos(s) /\ h \in Nat \ {0}
    BY <1>3 DEF PageNos, Counts
  <2> QED BY <1>1, <2>1, PageIsHeld, ZenonT(40)
<1>5. /\ canonical' \in [Hashes -> Blocks \cup {NoBlock}]
      /\ \A h \in Hashes :
            canonical'[h] = canonical[h] \/ (h \in New /\ canonical'[h] = Pages(r)[h])
  <2>1. canonical' = [h \in Hashes |-> IF h \in New /\ canonical[h] = NoBlock
                                       THEN Pages(r)[h]
                                       ELSE canonical[h]]
    BY Zenon DEF Registers
  <2> QED BY <1>1, <1>4, <2>1
<1>6. /\ written' \in [Blocks -> SUBSET Nat]
      /\ \A t \in Seqs : \A i \in (PageNos(t))' :
            written'[Pages(req'[t])[i]] = written[Pages(req'[t])[i]]
      /\ \A h \in Hashes : canonical'[h] # NoBlock =>
            written'[canonical'[h]] = written[canonical'[h]]
  BY <1>1, <1>2, <1>5, UsedKeepRows, Zenon
<1>7. TypeOK'
  BY <1>1, <1>2, <1>5, <1>6, Zenon DEF TypeOK
<1>8. \A t \in Seqs : Sound(req[t])'
  BY <1>1, SoundStep, Zenon
<1>9. Sharing'
  BY <1>1, SoundMatched, SharingRegisters, Zenon
<1>10. SamePrefix(m, r) /\ m.matched = r.matched
  BY <1>1, SamePrefixes, ZenonT(40) DEF Registers
<1>11. m.kv + m.accepted <= r.kv + r.accepted /\ r.kv <= m.kv
  BY <1>3 DEF Counts
<1>12. Rows'
  <2>1. ASSUME NEW t \in Seqs, GoesOn(req'[t]) PROVE Carried(req'[t], req[t])
    <3>1. CASE t = s
      <4>1. GoesOn(m)
        BY <1>2, <2>1, <3>1, Zenon
      <4>2. \A p \in OwnRows(m) : /\ p \in OwnRows(r) /\ PageOf(m, p) = PageOf(r, p)
                                  /\ p \div BlockSize + 1 \in 1 .. PageCount(m)
        BY <1>1, <1>10, <1>11, <4>1, RowsOfPrefix, Zenon
      <4>3. \A p \in OwnRows(m) : written'[PageOf(m, p)] = written[PageOf(m, p)]
        BY <1>2, <1>6, <4>2, Zenon DEF PageNos, PageOf
      <4> QED BY <1>2, <3>1, <4>2, <4>3, Zenon DEF Carried
    <3>2. CASE t # s
      <4>1. req'[t] = req[t]
        BY <1>2, <3>2, Zenon
      <4>2. ASSUME NEW i \in PageNos(t)
            PROVE  written'[Pages(req[t])[i]] = written[Pages(req[t])[i]]
        <5>1. i \in (PageNos(t))'
          BY <4>1, Zenon DEF PageNos
        <5>2. written'[Pages(req'[t])[i]] = written[Pages(req'[t])[i]]
          BY <1>6, <5>1, Zenon
        <5> QED BY <4>1, <5>2, Zenon
      <4> QED BY <2>1, <4>1, <4>2, RowsElsewhere, Zenon
    <3> QED BY <3>1, <3>2, Zenon
  <2> QED BY <1>1, <2>1, RowsCarried, Zenon
<1>13. CachedButLast'
  <2> SUFFICES ASSUME aligned, NEW h \in Hashes, canonical'[h] # NoBlock,
                      NEW p \in (h - 1) * BlockSize .. h * BlockSize - 2
               PROVE  p \in written'[canonical'[h]]
    BY Zenon DEF CachedButLast
  <2>1. written'[canonical'[h]] = written[canonical'[h]]
    BY <1>6, Zenon
  <2>2. CASE canonical'[h] = canonical[h]
    <3>1. p \in written[canonical[h]]
      BY <1>1, <2>2, Zenon DEF CachedButLast
    <3> QED BY <2>1, <2>2, <3>1, Zenon
  <2>3. CASE h \in New /\ canonical'[h] = Pages(r)[h]
    <3>1. p \in OwnRows(r)
      <4>1. PICK k \in Nat : k = r.kv + r.accepted
        BY <1>3 DEF Counts
      <4>2. Have(m) * BlockSize <= k + 1
        BY <4>1, Zenon
      <4>3. p \in r.matched * BlockSize .. k - 1
        BY <1>3, <2>3, <4>2, BlockOfRows, Zenon DEF Counts
      <4>4. k - 1 = r.kv + r.accepted - 1
        BY <1>3, <4>1 DEF Counts
      <4> QED BY <4>3, <4>4, ZenonT(40) DEF OwnRows
    <3>2. PageOf(r, p) = Pages(r)[h]
      <4>1. p \div BlockSize + 1 = h
        BY <1>4, <2>3, RowsOfBlock, Zenon
      <4> QED BY <4>1, Zenon DEF PageOf
    <3>3. p \in written[PageOf(r, p)]
      BY <1>1, <3>1, Zenon DEF Rows
    <3> QED BY <2>1, <2>3, <3>2, <3>3, Zenon
  <2> QED BY <1>5, <2>2, <2>3, Zenon
<1>14. IInv'
  BY <1>7, <1>8, <1>9, <1>12, <1>13, Zenon DEF IInv
<1>15. GoesOn(req'[s]) => Stable(req'[s], req[s])
  BY <1>1, <1>2, <1>10, <1>11, StablePrefix, Zenon
<1> QED BY <1>14, <1>15, Zenon DEF Keeps

(* complete_and_register_pending makes the staged pages canonical. *)
LEMMA CommitRegisters ==
    ASSUME NEW r \in Requests, NEW a \in Requests, NEW m \in Requests, Sound(m),
           Pages(a) = Pages(r), Have(a) = Have(r), Spare(a) = Spare(r),
           Stageable(a) \in 0 .. Spare(r), Have(m) = Have(r) + Stageable(a),
           KeepsPages(m, r), m.matched = r.matched, canonical' = Canonical(a)
    PROVE  Registers(m, r)
<1>1. Counts(r) /\ Counts(m) /\ PageCount(a) = PageCount(r)
  BY Fields, Zenon DEF PageCount
<1>2. Have(r) <= Have(m) /\ Have(m) <= PageCount(m) /\ Have(m) <= PageCount(r)
  BY <1>1 DEF PageCount, Counts
<1>3. 1 .. Have(m) \subseteq Hashes
  <2>1. MaxTokens \in Nat /\ MaxOutput \in Nat
    BY LongestPrompt, SequenceAssumption
  <2>2. m.total \in Nat /\ m.total <= MaxTokens /\ Have(m) <= m.total \div BlockSize
    BY <1>1, <2>1 DEF Sound, Books, Counts, Complete
  <2>3. Have(m) * BlockSize <= m.total /\ Have(m) \in Nat
    BY <1>1, <2>2, Fills, Zenon DEF Counts
  <2>4. PICK k \in Nat : k = Have(m) * BlockSize
    BY <2>3, SequenceAssumption
  <2>5. Have(m) * BlockSize <= MaxTokens
    BY <2>1, <2>2, <2>3, <2>4
  <2>6. Have(m) <= MaxTokens \div BlockSize /\ MaxTokens \div BlockSize \in Nat
    BY <2>1, <2>3, <2>5, Fills, Zenon
  <2> QED BY <2>3, <2>6 DEF Hashes
<1>4. ASSUME NEW h \in Have(r) + 1 .. Have(m) PROVE a.unassigned[h - Have(a)] = Pages(r)[h]
  <2>1. h \in Have(a) + 1 .. PageCount(a)
    BY <1>1, <1>2 DEF Counts
  <2> QED BY <2>1, PagesAre, Zenon
<1>5. canonical' = [h \in Hashes |->
          IF h \in Have(r) + 1 .. Have(m) /\ canonical[h] = NoBlock
          THEN a.unassigned[h - Have(a)]
          ELSE canonical[h]]
  BY Zenon DEF Canonical, Have
<1>6. canonical' = [h \in Hashes |->
          IF h \in Have(r) + 1 .. Have(m) /\ canonical[h] = NoBlock
          THEN Pages(r)[h]
          ELSE canonical[h]]
  BY <1>4, <1>5, Zenon
<1> QED BY <1>2, <1>3, <1>6, Zenon DEF Registers

(* A whole number of blocks leaves nothing over. *)
LEMMA EvenPages ==
    ASSUME NEW n \in Nat, n % BlockSize = 0
    PROVE  DivCeil(n, BlockSize) * BlockSize = n
<1>1. PICK k \in Nat : n = k * BlockSize
  BY SequenceAssumption
<1>2. DivCeil(n, BlockSize) = k
  BY <1>1, WholePages, Zenon
<1> QED BY <1>1, <1>2, Zenon

(* apply_prefill keeps the invariant. *)
LEMMA ApplyPrefillKeeps ==
    ASSUME IInv, aligned' = aligned, NEW s \in Seqs, ApplyPrefill(s)
    PROVE  Keeps(s)
<1>1. PICK r : r = req[s]
  OBVIOUS
<1>2. r \in Requests /\ Sound(r) /\ Counts(r)
  <2>1. req[s] \in Requests /\ Sound(req[s])
    BY DEF IInv, TypeOK
  <2> QED BY <1>1, <2>1, Fields, Zenon
<1>3. PICK end : end = r.prefill + r.tokens
  OBVIOUS
<1>4. PICK out : out = IF end >= r.input /\ MaxOutput > 0 THEN 1 ELSE 0
  OBVIOUS
<1>5. PICK m : m = Prefilled(r, end, out)
  OBVIOUS
<1>6. r.state = "Prefill" /\ r.forwarded /\ canonical' = Canonical(r) /\ Put(s, m) /\ written' = written
  BY <1>1, <1>3, <1>4, <1>5, Zenon DEF ApplyPrefill, Prefilled
<1>7. end \in Nat /\ out \in Nat
  BY <1>2, <1>3, <1>4 DEF Counts
<1>8. /\ m \in Requests /\ Settled(m, r, out, end, end)
      /\ Have(m) = Have(r) + Stageable(r) /\ Stageable(r) = Staged(r.total, r)
      /\ PageCount(m) = PageCount(r) /\ KeepsPages(m, r)
  BY <1>2, <1>5, <1>7, PrefillCommits, Zenon
<1>9. Sound(m)
  <2>1. Have(m) = Have(r) + Staged(r.total, r)
    BY <1>8, Zenon
  <2> QED BY <1>2, <1>3, <1>4, <1>6, <1>8, <2>1, PrefillApplied, Zenon
<1>10. /\ r.tokens > 0 /\ end <= r.input /\ r.accepted = r.tokens
       /\ PageCount(r) = DivCeil(end, BlockSize)
       /\ aligned => end = r.input \/ end % BlockSize = 0
  BY <1>2, <1>3, <1>6 DEF Sound, Step
<1>11. r.prefill < r.input
  BY <1>2, <1>3, <1>10 DEF Counts
<1>12. r.kv = r.prefill /\ r.generated = 0 /\ r.total = r.input
  BY <1>2, <1>6, <1>11 DEF Sound, Phase, Books, Counts
<1>13. GoesOn(r)
  BY <1>6, <1>11 DEF GoesOn
<1>14. m.kv = r.kv + r.accepted /\ m.accepted = 0 /\ m.matched = r.matched
  BY <1>3, <1>8, <1>10, <1>12, Zenon DEF Settled
<1>15. Registers(m, r)
  <2>1. Stageable(r) \in 0 .. Spare(r)
    <3>1. r.total \in Nat /\ r.total <= r.total
      BY <1>2 DEF Counts
    <3> QED BY <1>2, <1>8, <3>1, StagedBound, ZenonT(40)
  <2> QED BY <1>2, <1>6, <1>8, <1>9, <1>14, <2>1, CommitRegisters, Zenon
<1>16. ASSUME aligned PROVE Have(m) * BlockSize <= r.kv + r.accepted + 1
  <2>1. Counts(m)
    BY <1>8, Fields, ZenonT(40)
  <2>2. CASE end = r.input
    <3>1. Have(m) <= r.total \div BlockSize
      <4>1. r.total \in Nat /\ r.total <= r.total
        BY <1>2 DEF Counts
      <4> QED BY <1>2, <1>8, <4>1, StagedBound, Zenon
    <3>2. Have(m) * BlockSize <= r.total
      BY <1>2, <2>1, <3>1, Fills, Zenon DEF Counts
    <3>3. PICK k \in Nat : k = Have(m) * BlockSize
      BY <2>1, SequenceAssumption DEF Counts
    <3> QED BY <1>2, <1>3, <1>10, <1>12, <2>2, <3>2, <3>3 DEF Counts
  <2>3. CASE end % BlockSize = 0
    <3>1. PageCount(r) * BlockSize = end
      BY <1>7, <1>10, <2>3, EvenPages, ZenonT(40)
    <3>2. Have(m) <= PageCount(r)
      BY <1>8, <2>1 DEF PageCount, Counts
    <3>3. Have(m) * BlockSize <= PageCount(r) * BlockSize
      BY <1>2, <2>1, <3>2, SequenceAssumption DEF Counts
    <3>4. PICK k \in Nat : k = Have(m) * BlockSize
      BY <2>1, SequenceAssumption DEF Counts
    <3>5. k <= end
      BY <3>1, <3>3, <3>4
    <3> QED BY <1>2, <1>3, <1>10, <1>12, <3>4, <3>5 DEF Counts
  <2> QED BY <1>10, <1>16, <2>2, <2>3, Zenon
<1> QED BY <1>1, <1>6, <1>8, <1>9, <1>13, <1>14, <1>15, <1>16, ApplyKeeps, Zenon

(* The common body of apply_decode and apply_speculative. *)
Generation(s, r, n, a, g, count, m) ==
    /\ r = req[s] /\ r.state \in {"Decode", "Speculative"}
    /\ n = r.accepted /\ a = Appended(r, n) /\ g = Registered(a)
    /\ count \in {0, Minus(Spare(g), NeedGen(a))} /\ Generated(m, g, n, count)
    /\ Put(s, m) /\ canonical' = Canonical(a) /\ (ForgetFree \/ written' = written)

(* What the books say of a request in a decode or speculative step. *)
LEMMA GenerationBounds ==
    ASSUME NEW r \in Requests, Sound(r), r.state \in {"Decode", "Speculative"}
    PROVE  /\ r.kv + 1 = r.total /\ r.generated < MaxOutput
           /\ r.accepted \in 0 .. r.tokens /\ GoesOn(r)
<1>1. Counts(r) /\ MaxOutput \in Nat /\ Books(r) /\ Phase(r) /\ Step(r)
  <2>1. Counts(r) /\ r.state # "Absent"
    BY Fields
  <2> QED BY <2>1, SequenceAssumption, Zenon DEF Sound
<1>2. /\ r.generated + r.tokens <= MaxOutput /\ r.tokens > 0 /\ r.prefill = r.input
      /\ r.accepted <= r.tokens
  BY <1>1, ZenonT(40) DEF Step, Books
<1>3. r.generated < MaxOutput /\ MaxOutput > 0 /\ r.accepted \in 0 .. r.tokens
  BY <1>1, <1>2 DEF Counts
<1>4. r.kv + 1 = r.total
  BY <1>1, <1>2, <1>3, ZenonT(40) DEF Phase
<1>5. GoesOn(r)
  BY <1>1, <1>3 DEF GoesOn, Finished, Counts
<1> QED BY <1>3, <1>4, <1>5, Zenon

(* That body keeps the invariant. *)
LEMMA GenerationKeeps ==
    ASSUME IInv, aligned' = aligned, NEW s \in Seqs, NEW r, NEW n, NEW a, NEW g, NEW count, NEW m,
           Generation(s, r, n, a, g, count, m)
    PROVE  Keeps(s)
<1>0. /\ r = req[s] /\ r.state \in {"Decode", "Speculative"}
      /\ n = r.accepted /\ a = Appended(r, n) /\ g = Registered(a)
      /\ count \in {0, Minus(Spare(g), NeedGen(a))} /\ Generated(m, g, n, count)
      /\ Put(s, m) /\ canonical' = Canonical(a) /\ (ForgetFree \/ written' = written)
  BY Zenon DEF Generation
<1>1. r \in Requests /\ Sound(r) /\ Counts(r)
  <2>1. req[s] \in Requests /\ Sound(req[s])
    BY DEF IInv, TypeOK
  <2> QED BY <1>0, <2>1, Fields, Zenon
<1>2. n \in Nat
  BY <1>0, <1>1, Zenon DEF Counts
<1>3. a \in Requests /\ a.generated = r.generated + n
  BY <1>0, <1>1, <1>2, AppendedFields, ZenonT(40) DEF Moved
<1>4. PICK spare \in Nat : spare = Spare(g)
  <2>1. g \in Requests
    BY <1>0, <1>3, RegisteredPages, Zenon
  <2> QED BY <2>1, Fields, Zenon DEF Counts
<1>5. NeedGen(a) \in Nat /\ (r.generated + n < MaxOutput => NeedGen(a) = 1)
  BY <1>1, <1>2, <1>3, SequenceAssumption DEF NeedGen, Finished, Counts
<1>6. count \in Nat
  <2>1. Minus(Spare(g), NeedGen(a)) \in Nat /\ 0 \in Nat
    BY <1>4, <1>5, MinusNat
  <2> QED BY <1>0, <2>1, Zenon
<1>7. /\ m \in Requests /\ Settled(m, r, n, r.prefill, r.kv + n)
      /\ Pages(a) = Pages(r) /\ Have(a) = Have(r) /\ Spare(a) = Spare(r)
      /\ Stageable(a) = Staged(r.total + n, r)
      /\ Have(m) = Have(r) + Stageable(a) /\ Spare(g) = Spare(r) - Stageable(a)
      /\ Stageable(a) \in 0 .. Spare(r)
      /\ Spare(m) = Minus(Spare(g), count) /\ KeepsPages(m, r)
  <2>1. Committed(m, r, n, a, g, count)
    BY <1>0, <1>1, <1>2, <1>6, GenerationCommits, ZenonT(40)
  <2> QED BY <2>1, Zenon DEF Committed
<1>8. /\ r.kv + 1 = r.total /\ r.generated < MaxOutput
      /\ r.accepted \in 0 .. r.tokens /\ GoesOn(r)
  BY <1>0, <1>1, GenerationBounds, ZenonT(40)
<1>9. n \in 0 .. r.tokens
  BY <1>0, <1>8, Zenon
<1>10. \/ PageCount(m) = PageCount(r)
       \/ r.generated + n >= MaxOutput
       \/ PageCount(m) >= Have(m) + 1 /\ Have(m) < PageCount(r)
  <2>1. PICK have \in Nat, st \in Nat, all \in Nat :
           have = Have(r) /\ st = Stageable(a) /\ all = Spare(r)
    BY <1>1, <1>7 DEF Counts
  <2>2. /\ Have(m) = have + st /\ spare = all - st /\ st <= all /\ PageCount(r) = have + all
        /\ PageCount(m) = have + st + Spare(m) /\ Spare(m) = Minus(spare, count)
    BY <1>4, <1>7, <2>1 DEF PageCount
  <2>3. CASE count = 0
    BY <1>4, <2>1, <2>2, <2>3 DEF Minus
  <2>4. CASE count = Minus(spare, NeedGen(a)) /\ r.generated + n < MaxOutput
    <3>1. count = Minus(spare, 1)
      BY <1>5, <2>4, Zenon
    <3>2. CASE spare = 0
      BY <1>4, <2>1, <2>2, <3>1, <3>2 DEF Minus
    <3>3. CASE spare > 0
      BY <1>4, <2>1, <2>2, <3>1, <3>3 DEF Minus
    <3> QED BY <1>4, <3>2, <3>3
  <2>5. r.generated + n < MaxOutput \/ r.generated + n >= MaxOutput
    BY <1>1, <1>2, SequenceAssumption DEF Counts
  <2> QED BY <1>0, <1>4, <2>3, <2>4, <2>5, Zenon
<1>11. Sound(m)
  <2>1. PageCount(m) <= PageCount(r) /\ Have(m) = Have(r) + Staged(r.total + n, r)
    BY <1>7, ZenonT(40) DEF KeepsPages
  <2> QED BY <1>0, <1>1, <1>7, <1>9, <1>10, <2>1, GeneratedSound, ZenonT(40)
<1>12. GoesOn(r)
  BY <1>8, Zenon
<1>13. m.kv = r.kv + r.accepted /\ m.accepted = 0 /\ m.matched = r.matched
  BY <1>0, <1>7, Zenon DEF Settled
<1>14. Registers(m, r)
  BY <1>1, <1>3, <1>7, <1>0, <1>11, <1>13, CommitRegisters, Zenon
<1>15. Have(m) * BlockSize <= r.kv + r.accepted + 1
  <2>1. PICK total \in Nat : total = r.total + n /\ r.total <= total /\ total = r.kv + r.accepted + 1
    BY <1>0, <1>1, <1>2, <1>8 DEF Counts
  <2>2. Have(m) <= total \div BlockSize
    BY <1>1, <1>7, <2>1, StagedBound, ZenonT(40)
  <2>3. Have(m) \in Nat
    BY <1>7, Fields, Zenon DEF Counts
  <2> QED BY <2>1, <2>2, <2>3, Fills, ZenonT(40)
<1> QED BY <1>0, <1>7, <1>11, <1>12, <1>13, <1>14, <1>15, ApplyKeeps, Zenon

(* apply_decode keeps the invariant. *)
LEMMA ApplyDecodeKeeps ==
    ASSUME IInv, aligned' = aligned, NEW s \in Seqs, ApplyDecode(s)
    PROVE  Keeps(s)
<1>1. PICK r : r = req[s]
  OBVIOUS
<1>2. PICK a : a = Appended(r, 1)
  OBVIOUS
<1>3. PICK g : g = Registered(a)
  OBVIOUS
<1>4. r \in Requests /\ Sound(r)
  <2>1. req[s] \in Requests /\ Sound(req[s])
    BY DEF IInv, TypeOK
  <2> QED BY <1>1, <2>1, Zenon
<1>5. /\ a.state = "Decode" /\ a.forwarded /\ canonical' = Canonical(a)
      /\ Put(s, Idle(Advanced(g, 1))) /\ written' = written
  BY <1>1, <1>2, <1>3, Zenon DEF ApplyDecode, Advanced
<1>6. r.state = "Decode" /\ r.forwarded
  BY <1>2, <1>4, <1>5 DEF Appended, Requests
<1>7. r.accepted = 1
  BY <1>4, <1>6 DEF Sound, Step
<1>8. r.state \in {"Decode", "Speculative"}
  BY <1>6, Zenon
<1>9. PICK m : m = Idle(Advanced(g, 1))
  OBVIOUS
<1>10. Generated(m, g, 1, 0) /\ Put(s, m) /\ 0 \in {0, Minus(Spare(g), NeedGen(a))}
  BY <1>5, <1>9, Zenon DEF Generated
<1>11. Generation(s, r, 1, a, g, 0, m)
  BY <1>1, <1>2, <1>3, <1>5, <1>7, <1>8, <1>10, Zenon DEF Generation
<1> QED BY <1>11, GenerationKeeps, Zenon

(* apply_speculative keeps the invariant. *)
LEMMA ApplySpeculativeKeeps ==
    ASSUME IInv, aligned' = aligned, NEW s \in Seqs, ApplySpeculative(s)
    PROVE  Keeps(s)
<1>1. PICK r : r = req[s]
  OBVIOUS
<1>2. PICK n : n = r.accepted
  OBVIOUS
<1>3. PICK a : a = Appended(r, n)
  OBVIOUS
<1>4. PICK g : g = Registered(a)
  OBVIOUS
<1>5. r \in Requests
  BY <1>1 DEF IInv, TypeOK
<1>6. a.state = r.state /\ a.accepted = n
  BY <1>2, <1>3, <1>5 DEF Appended, Requests
<1>7. PICK count : count = Minus(Spare(g), NeedGen(a))
  OBVIOUS
<1>8. /\ a.state = "Speculative" /\ canonical' = Canonical(a) /\ ForgetFree
      /\ Put(s, Idle(Popped([g EXCEPT !.kv = @ + a.accepted],
                            Minus(Len(g.unassigned), NeedGen(a)))))
  BY <1>1, <1>2, <1>3, <1>4, Zenon DEF ApplySpeculative
<1>9. Put(s, Idle(Popped(Advanced(g, n), count)))
  BY <1>6, <1>7, <1>8, Zenon DEF Advanced, Spare
<1>10. r.state \in {"Decode", "Speculative"}
  BY <1>6, <1>8, Zenon
<1>11. PICK m : m = Idle(Popped(Advanced(g, n), count))
  OBVIOUS
<1>12. Generated(m, g, n, count) /\ Put(s, m) /\ count \in {0, Minus(Spare(g), NeedGen(a))}
  BY <1>7, <1>9, <1>11, Zenon DEF Generated
<1>13. Generation(s, r, n, a, g, count, m)
  BY <1>1, <1>2, <1>3, <1>4, <1>8, <1>10, <1>12, Zenon DEF Generation
<1> QED BY <1>13, GenerationKeeps, Zenon

(* A position past n whole blocks is in none of their pages. *)
LEMMA RowAbove ==
    ASSUME NEW p \in Nat, NEW n \in Nat, n * BlockSize <= p
    PROVE  ~(p \div BlockSize + 1 <= n)
<1>1. n <= p \div BlockSize /\ p \div BlockSize \in Nat
  BY Fills, Zenon
<1> QED BY <1>1

(* Two positions of one page have two rows. *)
LEMMA SameRow ==
    ASSUME NEW p \in Nat, NEW q \in Nat, p # q, p \div BlockSize + 1 = q \div BlockSize + 1
    PROVE  p % BlockSize # q % BlockSize
<1>1. PICK a \in Nat, b \in Nat : a = p \div BlockSize /\ b = q \div BlockSize
  BY Fills, Zenon
<1>2. a = b
  BY <1>1
<1>3. p = BlockSize * a + (p % BlockSize) /\ q = BlockSize * b + (q % BlockSize)
  BY <1>1, SequenceAssumption
<1> QED BY <1>2, <1>3, Zenon

(* A forward pass writes none of the rows that the registered blocks must  *)
(* have.                                                                   *)
LEMMA LastRow ==
    ASSUME NEW h \in Nat \ {0}, NEW have \in Nat, NEW kv \in Nat, NEW p \in Nat,
           h <= have, have * BlockSize <= kv + 1, kv <= p,
           NEW q \in (h - 1) * BlockSize .. h * BlockSize - 2
    PROVE  p # q
<1>1. h * BlockSize <= have * BlockSize /\ h * BlockSize \in Nat /\ have * BlockSize \in Nat
  BY SequenceAssumption
<1>2. (h - 1) * BlockSize \in Nat
  BY SequenceAssumption
<1>3. PICK a \in Nat, b \in Nat, c \in Nat :
         a = h * BlockSize /\ b = have * BlockSize /\ c = (h - 1) * BlockSize
  BY <1>1, <1>2
<1>4. q \in c .. a - 2 /\ a <= b /\ b <= kv + 1
  BY <1>1, <1>3, Zenon
<1> QED BY <1>4

(* With aligned chunks the registered blocks are computed but for the last *)
(* row.                                                                    *)
LEMMA HaveComputed ==
    ASSUME NEW r \in Requests, Sound(r), r.state \in {"Prefill", "Decode", "Speculative"}, aligned
    PROVE  Have(r) * BlockSize <= r.kv + 1
<1>1. Counts(r) /\ r.state # "Absent"
  BY Fields, Zenon
<1>2. PICK k \in Nat : k = Have(r) * BlockSize
  BY <1>1, SequenceAssumption DEF Counts
<1>3. CASE r.state = "Prefill"
  <2>1. r.tokens > 0 /\ r.prefill + r.tokens <= r.input /\ r.allocated <= Spare(r)
    BY <1>3 DEF Sound, Step, Books
  <2>2. r.prefill < r.input
    BY <1>1, <2>1 DEF Counts
  <2>3. /\ r.kv = r.prefill /\ PageCount(r) - r.allocated = DivCeil(r.prefill, BlockSize)
        /\ r.prefill % BlockSize = 0
    BY <1>1, <2>2 DEF Sound, Phase
  <2>4. DivCeil(r.prefill, BlockSize) * BlockSize = r.prefill /\ DivCeil(r.prefill, BlockSize) \in Nat
    BY <1>1, <2>3, EvenPages, Covers, Zenon DEF Counts
  <2>5. Have(r) <= DivCeil(r.prefill, BlockSize)
    BY <1>1, <2>1, <2>3 DEF PageCount, Counts
  <2>6. Have(r) * BlockSize <= DivCeil(r.prefill, BlockSize) * BlockSize
    BY <1>1, <2>4, <2>5, SequenceAssumption DEF Counts
  <2> QED BY <1>1, <1>2, <2>3, <2>4, <2>6 DEF Counts
<1>4. CASE r.state \in {"Decode", "Speculative"}
  <2>1. r.prefill = r.input /\ r.tokens > 0 /\ r.generated + r.tokens <= MaxOutput
    BY <1>4 DEF Sound, Step
  <2>2. MaxOutput > 0
    BY <1>1, <2>1, SequenceAssumption DEF Counts
  <2>3. r.kv + 1 = r.total /\ Have(r) <= r.total \div BlockSize
    BY <1>1, <2>1, <2>2 DEF Sound, Phase, Books, Complete
  <2> QED BY <1>1, <2>3, Fills, Zenon DEF Counts
<1> QED BY <1>3, <1>4, Zenon

(* The positions a forward pass writes. *)
Span(r) == r.kv .. r.kv + r.tokens - 1

(* What it leaves in the blocks: the good rows of its positions, and the   *)
(* rows it did not write over.                                             *)
Overwrites(r, good) ==
    written' = [b \in Blocks |->
        {q \in written[b] : \A p \in {x \in Span(r) : PageOf(r, x) = b} : q % BlockSize # p % BlockSize}
        \cup {p \in {x \in Span(r) : PageOf(r, x) = b} : p < r.kv + good}]

(* Which rows are there after it. *)
LEMMA OverwritesRows ==
    ASSUME TypeOK, NEW r \in Requests, NEW good, Overwrites(r, good)
    PROVE  /\ written' \in [Blocks -> SUBSET Nat]
           /\ \A b \in Blocks : \A q \in written[b] :
                 (\A p \in Span(r) : PageOf(r, p) = b => q % BlockSize # p % BlockSize)
                 => q \in written'[b]
           /\ \A p \in Span(r) :
                 PageOf(r, p) \in Blocks /\ p < r.kv + good => p \in written'[PageOf(r, p)]
<1>1. Span(r) \subseteq Nat
  BY DEF Requests, Span
<1>2. written \in [Blocks -> SUBSET Nat]
  BY Zenon DEF TypeOK
<1>3. ASSUME NEW b \in Blocks
      PROVE  /\ written'[b] \subseteq Nat
             /\ \A q \in written[b] :
                   (\A p \in Span(r) : PageOf(r, p) = b => q % BlockSize # p % BlockSize)
                   => q \in written'[b]
             /\ \A p \in Span(r) : PageOf(r, p) = b /\ p < r.kv + good => p \in written'[b]
  <2>1. written'[b] =
            {q \in written[b] :
                \A p \in {x \in Span(r) : PageOf(r, x) = b} : q % BlockSize # p % BlockSize}
            \cup {p \in {x \in Span(r) : PageOf(r, x) = b} : p < r.kv + good}
    BY Zenon DEF Overwrites
  <2>2. written[b] \subseteq Nat
    BY <1>2, Zenon
  <2> QED BY <1>1, <2>1, <2>2, Zenon
<1>4. written' \in [Blocks -> SUBSET Nat]
  <2>1. written' = [b \in Blocks |-> written'[b]]
    BY Zenon DEF Overwrites
  <2> QED BY <1>3, <2>1, Zenon
<1> QED BY <1>3, <1>4, Zenon

(* A row that a forward pass writes shares its page with no row of another *)
(* request, and with rows of its own block only.                           *)
LEMMA WrittenApart ==
    ASSUME TypeOK, Sharing, NEW s \in Seqs, NEW t \in Seqs, NEW p \in Nat, NEW q \in Nat,
           p \div BlockSize + 1 \in PageNos(s), q \div BlockSize + 1 \in PageNos(t),
           req[s].matched * BlockSize <= p, req[t].matched * BlockSize <= q,
           PageOf(req[s], p) = PageOf(req[t], q)
    PROVE  s = t /\ p \div BlockSize + 1 = q \div BlockSize + 1
<1>1. req[s].matched \in Nat /\ req[t].matched \in Nat
  BY Zenon DEF TypeOK, Requests
<1>2. /\ ~(p \div BlockSize + 1 <= req[s].matched)
      /\ ~(q \div BlockSize + 1 <= req[t].matched)
  BY <1>1, RowAbove, Zenon
<1>3. PICK i \in PageNos(s), j \in PageNos(t) :
         i = p \div BlockSize + 1 /\ j = q \div BlockSize + 1
  BY Zenon
<1>4. Pages(req[s])[i] = Pages(req[t])[j]
  BY <1>3, Zenon DEF PageOf
<1>5. i = j /\ (s = t \/ i <= req[s].matched \/ i <= req[t].matched)
  BY <1>4, Zenon DEF Sharing, SharedPages
<1> QED BY <1>2, <1>3, <1>5, Zenon

(* The positions a forward pass writes are in the pages, above what was    *)
(* matched and computed.                                                   *)
LEMMA SpanIs ==
    ASSUME NEW r \in Requests, Sound(r), r.state \in {"Prefill", "Decode", "Speculative"},
           NEW p \in Span(r)
    PROVE  /\ p \in Nat /\ r.matched * BlockSize <= p /\ r.kv <= p
           /\ p \div BlockSize + 1 \in 1 .. PageCount(r)
<1>1. Counts(r) /\ r.kv + r.tokens <= PageCount(r) * BlockSize /\ r.matched * BlockSize <= r.kv
  BY StepCovered, Fields, Zenon DEF Sound, Books
<1>2. PICK a \in Nat, b \in Nat : a = PageCount(r) * BlockSize /\ b = r.matched * BlockSize
  BY <1>1, SequenceAssumption DEF Counts
<1>3. p \in Nat /\ r.kv <= p /\ p < a /\ b <= p
  BY <1>1, <1>2 DEF Counts, Span
<1>4. p \div BlockSize + 1 \in 1 .. PageCount(r)
  BY <1>1, <1>2, <1>3, PageNumber, Zenon DEF Counts
<1> QED BY <1>2, <1>3, <1>4, Zenon

(* Who wrote a page is found again by the blocks of the rows. *)
LEMMA SpanPage ==
    ASSUME IInv, NEW s \in Seqs, req[s].state \in {"Prefill", "Decode", "Speculative"},
           NEW p \in Span(req[s])
    PROVE  /\ p \in Nat /\ req[s].matched * BlockSize <= p /\ req[s].kv <= p
           /\ p \div BlockSize + 1 \in PageNos(s) /\ PageOf(req[s], p) \in Blocks
<1>1. req[s] \in Requests /\ Sound(req[s]) /\ TypeOK
  BY DEF IInv, TypeOK
<1>2. /\ p \in Nat /\ req[s].matched * BlockSize <= p /\ req[s].kv <= p
      /\ p \div BlockSize + 1 \in PageNos(s)
  BY <1>1, SpanIs, Zenon DEF PageNos
<1> QED BY <1>1, <1>2, PageIsHeld, ZenonT(40) DEF PageOf

(* A forward pass leaves the rows of every request, its own good ones      *)
(* included.                                                               *)
LEMMA ForwardRows ==
    ASSUME IInv, NEW s \in Seqs, NEW r, r = req[s],
           r.state \in {"Prefill", "Decode", "Speculative"},
           NEW good \in 0 .. r.tokens, Overwrites(r, good),
           NEW m \in Requests, m.kv = r.kv, m.accepted = good, m.matched = r.matched,
           Pages(m) = Pages(r), Put(s, m)
    PROVE  Rows'
<1>1. /\ TypeOK /\ Sharing /\ Rows /\ r \in Requests /\ Sound(r) /\ GoesOn(r) /\ Counts(r)
  <2>1. TypeOK /\ Sharing /\ Rows /\ r \in Requests /\ Sound(r)
    BY DEF IInv, TypeOK
  <2> QED BY <2>1, StepCovered, Fields, ZenonT(40)
<1>2. req'[s] = m /\ \A t \in Seqs \ {s} : req'[t] = req[t]
  BY <1>1, PutFields, Zenon
<1>3. /\ \A b \in Blocks : \A q \in written[b] :
            (\A p \in Span(r) : PageOf(r, p) = b => q % BlockSize # p % BlockSize)
            => q \in written'[b]
      /\ \A p \in Span(r) :
            PageOf(r, p) \in Blocks /\ p < r.kv + good => p \in written'[PageOf(r, p)]
  BY <1>1, OverwritesRows, Zenon
<1>4. \A p \in OwnRows(m) : PageOf(m, p) = PageOf(r, p)
  BY Zenon DEF PageOf
<1>5. ASSUME NEW t \in Seqs, GoesOn(req[t]), NEW q \in OwnRows(req[t]), t = s => q < r.kv
      PROVE  q \in written'[PageOf(req[t], q)]
  <2>1. /\ q \in Nat /\ req[t].matched * BlockSize <= q /\ q \div BlockSize + 1 \in PageNos(t)
        /\ PageOf(req[t], q) \in Blocks /\ q \in written[PageOf(req[t], q)]
    BY <1>5, RowPage, Zenon
  <2>2. ASSUME NEW p \in Span(r), PageOf(r, p) = PageOf(req[t], q)
        PROVE  q % BlockSize # p % BlockSize
    <3>1. /\ p \in Nat /\ r.matched * BlockSize <= p /\ r.kv <= p
          /\ p \div BlockSize + 1 \in PageNos(s)
      BY SpanPage, Zenon
    <3>2. s = t /\ p \div BlockSize + 1 = q \div BlockSize + 1
      BY <1>1, <2>1, <2>2, <3>1, WrittenApart, ZenonT(40)
    <3>3. p # q
      BY <1>1, <1>5, <2>1, <3>1, <3>2 DEF Counts
    <3> QED BY <2>1, <3>1, <3>2, <3>3, SameRow, Zenon
  <2> QED BY <1>3, <2>1, <2>2, Zenon
<1> SUFFICES ASSUME NEW t \in Seqs, GoesOn(req'[t]), NEW q \in OwnRows(req'[t])
             PROVE  q \in written'[PageOf(req'[t], q)]
  BY Zenon DEF Rows
<1>6. CASE t # s
  <2>1. req'[t] = req[t]
    BY <1>2, <1>6, Zenon
  <2> QED BY <1>5, <1>6, <2>1, Zenon
<1>7. CASE t = s
  <2>1. q \in OwnRows(m) /\ PageOf(req'[t], q) = PageOf(r, q)
    BY <1>2, <1>4, <1>7, ZenonT(40)
  <2>2. PICK b \in Nat : b = r.matched * BlockSize
    BY <1>1, SequenceAssumption DEF Counts
  <2>3. q \in b .. r.kv + good - 1
    BY <2>1, <2>2, Zenon DEF OwnRows
  <2>4. CASE q < r.kv
    <3>1. q \in b .. r.kv + r.accepted - 1
      BY <1>1, <2>3, <2>4 DEF Counts
    <3>2. q \in OwnRows(r)
      BY <2>2, <3>1, Zenon DEF OwnRows
    <3> QED BY <1>1, <1>5, <1>7, <2>1, <2>4, <3>2, ZenonT(40)
  <2>5. CASE ~(q < r.kv)
    <3>1. q \in Span(r) /\ q < r.kv + good
      BY <1>1, <2>3, <2>5 DEF Counts, Span
    <3>2. PageOf(r, q) \in Blocks
      BY <3>1, SpanPage, Zenon
    <3> QED BY <1>3, <2>1, <3>1, <3>2, ZenonT(40)
  <2> QED BY <2>4, <2>5, Zenon
<1> QED BY <1>6, <1>7, Zenon

(* A forward pass leaves the rows of the cached blocks. *)
LEMMA ForwardCache ==
    ASSUME IInv, aligned' = aligned, NEW s \in Seqs, NEW r, r = req[s],
           r.state \in {"Prefill", "Decode", "Speculative"},
           NEW good, Overwrites(r, good), canonical' = canonical
    PROVE  CachedButLast'
<1>1. /\ TypeOK /\ Sharing /\ CachedButLast /\ r \in Requests /\ Sound(r) /\ Counts(r)
      /\ canonical \in [Hashes -> Blocks \cup {NoBlock}] /\ aligned \in BOOLEAN
  <2>1. /\ TypeOK /\ Sharing /\ CachedButLast /\ r \in Requests /\ Sound(r)
        /\ canonical \in [Hashes -> Blocks \cup {NoBlock}] /\ aligned \in BOOLEAN
    BY DEF IInv, TypeOK
  <2> QED BY <2>1, Fields, ZenonT(40)
<1>2. \A b \in Blocks : \A q \in written[b] :
          (\A p \in Span(r) : PageOf(r, p) = b => q % BlockSize # p % BlockSize)
          => q \in written'[b]
  BY <1>1, OverwritesRows, Zenon
<1> SUFFICES ASSUME aligned, NEW h \in Hashes, canonical[h] # NoBlock,
                    NEW q \in (h - 1) * BlockSize .. h * BlockSize - 2
             PROVE  q \in written'[canonical[h]]
  BY Zenon DEF CachedButLast
<1>3. canonical[h] \in Blocks /\ q \in written[canonical[h]]
  BY <1>1, ZenonT(40) DEF CachedButLast
<1>4. h \in Nat \ {0}
  BY LongestPrompt, Fills DEF Hashes
<1>5. q \in Nat /\ q \div BlockSize + 1 = h
  BY <1>4, RowsOfBlock, Zenon
<1>6. Have(r) * BlockSize <= r.kv + 1
  BY <1>1, HaveComputed, Zenon
<1>7. ASSUME NEW p \in Span(r), PageOf(r, p) = canonical[h]
      PROVE  q % BlockSize # p % BlockSize
  <2>1. p \in Nat /\ r.kv <= p /\ p \div BlockSize + 1 \in PageNos(s)
    BY SpanPage, Zenon
  <2>2. PICK i \in PageNos(s) : i = p \div BlockSize + 1
    BY <2>1, Zenon
  <2>3. canonical[h] = Pages(req[s])[i]
    BY <1>7, <2>2, Zenon DEF PageOf
  <2>4. h = i /\ i <= Have(r)
    BY <1>1, <2>3, CachedPage, Zenon
  <2>5. p # q
    BY <1>1, <1>4, <1>6, <2>1, <2>4, LastRow, Zenon DEF Counts
  <2>6. p \div BlockSize + 1 = q \div BlockSize + 1
    BY <1>5, <2>2, <2>4, Zenon
  <2> QED BY <1>5, <2>1, <2>5, <2>6, SameRow, Zenon
<1> QED BY <1>2, <1>3, <1>7, Zenon

(* A forward pass keeps the invariant. *)
LEMMA ForwardKeeps ==
    ASSUME IInv, aligned' = aligned, NEW s \in Seqs, Forward(s)
    PROVE  Keeps(s)
<1>1. PICK r : r = req[s]
  OBVIOUS
<1>2. /\ TypeOK /\ Sharing /\ r \in Requests /\ Sound(r) /\ Counts(r)
      /\ canonical \in [Hashes -> Blocks \cup {NoBlock}] /\ aligned \in BOOLEAN
      /\ \A t \in Seqs : req[t] \in Requests /\ Sound(req[t])
  <2>1. /\ TypeOK /\ Sharing /\ req[s] \in Requests /\ Sound(req[s])
        /\ canonical \in [Hashes -> Blocks \cup {NoBlock}] /\ aligned \in BOOLEAN
        /\ \A t \in Seqs : req[t] \in Requests /\ Sound(req[t])
    BY DEF IInv, TypeOK
  <2> QED BY <1>1, <2>1, Fields, Zenon
<1>3. /\ r.state \in {"Prefill", "Decode", "Speculative"} /\ canonical' = canonical
      /\ \E good \in IF r.state = "Speculative" THEN 0 .. r.tokens ELSE {r.tokens} :
            Put(s, Forwarded(r, good)) /\ Overwrites(r, good)
  <2>1. /\ req[s].state \in {"Prefill", "Decode", "Speculative"} /\ canonical' = canonical
        /\ \E good \in IF req[s].state = "Speculative" THEN 0 .. req[s].tokens ELSE {req[s].tokens} :
              Put(s, Forwarded(req[s], good)) /\ Overwrites(req[s], good)
    BY Zenon DEF Forward, Forwarded, Overwrites, Span
  <2> QED BY <1>1, <2>1, Zenon
<1>4. PICK good \in IF r.state = "Speculative" THEN 0 .. r.tokens ELSE {r.tokens} :
         Put(s, Forwarded(r, good)) /\ Overwrites(r, good)
  BY <1>3, ZenonT(40)
<1>5. good \in 0 .. r.tokens /\ (r.state # "Speculative" => good = r.tokens)
  BY <1>2 DEF Counts
<1>6. PICK m : m = Forwarded(r, good)
  OBVIOUS
<1>7. /\ m \in Requests /\ Sound(m) /\ SameBook(m, r) /\ m.accepted = good
      /\ Have(m) = Have(r) /\ PageCount(m) = PageCount(r) /\ Pages(m) = Pages(r)
  BY <1>2, <1>3, <1>5, <1>6, ForwardedSound, ZenonT(40)
<1>8. Put(s, m) /\ m.kv = r.kv /\ m.matched = r.matched
  BY <1>4, <1>6, <1>7, Zenon DEF SameBook
<1>9. /\ req' \in [Seqs -> Requests] /\ req'[s] = m /\ \A t \in Seqs \ {s} : req'[t] = req[t]
  BY <1>2, <1>7, <1>8, PutFields, Zenon
<1>10. written' \in [Blocks -> SUBSET Nat]
  BY <1>2, <1>4, OverwritesRows, ZenonT(40)
<1>11. TypeOK'
  BY <1>2, <1>3, <1>9, <1>10, ZenonT(40) DEF TypeOK
<1>12. \A t \in Seqs : Sound(req[t])'
  BY <1>2, <1>7, <1>8, SoundStep, ZenonT(40)
<1>13. Sharing'
  <2>1. Thins(m, r)
    BY <1>2, <1>7, <1>8 DEF Thins, KeepsPages, Counts
  <2>2. \A t \in Seqs : Sound(req'[t]) /\ Thins(req'[t], req[t])
    BY <1>1, <1>2, <1>7, <1>9, <2>1, ThinsItself, ZenonT(40)
  <2> QED BY <1>2, <1>3, <1>9, <2>2, SharingThins, ZenonT(40)
<1>14. Rows'
  BY <1>1, <1>3, <1>4, <1>5, <1>7, <1>8, ForwardRows, ZenonT(40)
<1>15. CachedButLast'
  BY <1>1, <1>3, <1>4, ForwardCache, Zenon
<1>16. IInv'
  BY <1>11, <1>12, <1>13, <1>14, <1>15, Zenon DEF IInv
<1>17. SamePrefix(m, r) /\ r.kv <= m.kv
  BY <1>2, <1>7, <1>8, SamePrefixes, NoMore, Zenon
<1>18. GoesOn(req'[s]) => Stable(req'[s], req[s])
  BY <1>1, <1>2, <1>7, <1>9, <1>17, StablePrefix, ZenonT(40)
<1> QED BY <1>16, <1>18, Zenon DEF Keeps

(* The drop of a request keeps the invariant. *)
LEMMA ReleaseKeeps ==
    ASSUME IInv, aligned' = aligned, NEW s \in Seqs, Release(s)
    PROVE  Keeps(s)
<1>1. Put(s, Absent) /\ canonical' = canonical /\ ForgetFree
  BY Zenon DEF Release
<1>2. PICK m : m = Absent
  OBVIOUS
<1>3. m \in Requests /\ Sound(m) /\ req[s] \in Requests /\ Put(s, m) /\ TypeOK
  <2>1. req[s] \in Requests /\ TypeOK
    BY DEF IInv, TypeOK
  <2> QED BY <1>1, <1>2, <2>1, AbsentSound, Zenon
<1>4. m.matched = 0 /\ m.state = "Absent" /\ PageCount(m) = 0
  BY <1>2 DEF Absent, Fresh, PageCount, Have, Spare
<1>5. ~GoesOn(m)
  BY <1>4, Zenon DEF GoesOn
<1>6. IInv'
  BY <1>1, <1>3, <1>4, <1>5, EmptyThins, ThinKeeps, Zenon
<1>7. req'[s] = m
  BY <1>3, PutFields, Zenon
<1> QED BY <1>5, <1>6, <1>7, Zenon DEF Keeps

-----------------------------------------------------------------------------

(* A call for one request leaves the fields of the others alone. *)
LEMMA OthersStay ==
    ASSUME TypeOK, NEW s \in Seqs, NEW m, Put(s, m), NEW t \in Seqs, t # s
    PROVE  req'[t] = req[t]
BY Zenon DEF TypeOK, Put

(* Every step is a call for one request, and keeps the invariant. *)
LEMMA ActionKeeps ==
    ASSUME IInv, Next
    PROVE  \E s \in Seqs : Keeps(s) /\ \E m : Put(s, m)
<1>1. aligned' = aligned
  BY DEF Next
<1>2. PICK s \in Seqs :
         \/ NewRequest(s) \/ MatchAndAddPrefix(s) \/ SchedulePrefill(s) \/ ScheduleDecode(s)
         \/ ScheduleSpeculative(s) \/ Forward(s) \/ ApplyPrefill(s) \/ ApplyDecode(s)
         \/ ApplySpeculative(s) \/ RevertSchedule(s) \/ AdoptExternalPrefillAnchor(s) \/ Release(s)
  BY Zenon DEF Next
<1>3. CASE NewRequest(s)
  <2>1. \E m : Put(s, m)
    BY <1>3, ZenonT(40) DEF NewRequest
  <2> QED BY <1>1, <1>3, <2>1, NewRequestKeeps, ZenonT(40)
<1>4. CASE MatchAndAddPrefix(s)
  <2>1. \E m : Put(s, m)
    BY <1>4, ZenonT(40) DEF MatchAndAddPrefix
  <2> QED BY <1>1, <1>4, <2>1, MatchKeeps, Zenon
<1>5. CASE SchedulePrefill(s)
  <2>1. \E m : Put(s, m)
    BY <1>5, ZenonT(40) DEF SchedulePrefill, Schedule
  <2> QED BY <1>1, <1>5, <2>1, SchedulePrefillKeeps, Zenon
<1>6. CASE ScheduleDecode(s)
  <2>1. \E m : Put(s, m)
    BY <1>6, ZenonT(40) DEF ScheduleDecode, Schedule
  <2> QED BY <1>1, <1>6, <2>1, ScheduleDecodeKeeps, Zenon
<1>7. CASE ScheduleSpeculative(s)
  <2>1. \E m : Put(s, m)
    BY <1>7, ZenonT(40) DEF ScheduleSpeculative, Schedule
  <2> QED BY <1>1, <1>7, <2>1, ScheduleSpeculativeKeeps, Zenon
<1>8. CASE Forward(s)
  <2>1. \E m : Put(s, m)
    BY <1>8, ZenonT(40) DEF Forward
  <2> QED BY <1>1, <1>8, <2>1, ForwardKeeps, Zenon
<1>9. CASE ApplyPrefill(s)
  <2>1. \E m : Put(s, m)
    BY <1>9, ZenonT(40) DEF ApplyPrefill
  <2> QED BY <1>1, <1>9, <2>1, ApplyPrefillKeeps, Zenon
<1>10. CASE ApplyDecode(s)
  <2>1. \E m : Put(s, m)
    BY <1>10, ZenonT(40) DEF ApplyDecode
  <2> QED BY <1>1, <1>10, <2>1, ApplyDecodeKeeps, Zenon
<1>11. CASE ApplySpeculative(s)
  <2>1. \E m : Put(s, m)
    BY <1>11, ZenonT(40) DEF ApplySpeculative
  <2> QED BY <1>1, <1>11, <2>1, ApplySpeculativeKeeps, Zenon
<1>12. CASE RevertSchedule(s)
  <2>1. \E m : Put(s, m)
    BY <1>12, ZenonT(40) DEF RevertSchedule
  <2> QED BY <1>1, <1>12, <2>1, RevertScheduleKeeps, Zenon
<1>13. CASE AdoptExternalPrefillAnchor(s)
  <2>1. \E m : Put(s, m)
    BY <1>13, ZenonT(40) DEF AdoptExternalPrefillAnchor
  <2> QED BY <1>1, <1>13, <2>1, AdoptKeeps, Zenon
<1>14. CASE Release(s)
  <2>1. \E m : Put(s, m)
    BY <1>14, Zenon DEF Release
  <2> QED BY <1>1, <1>14, <2>1, ReleaseKeeps, Zenon
<1> QED BY <1>2, <1>3, <1>4, <1>5, <1>6, <1>7, <1>8, <1>9, <1>10, <1>11, <1>12, <1>13, <1>14, ZenonT(40)

(* Every step keeps the invariant. *)
LEMMA StepIInv ==
    ASSUME IInv, [Next]_vars
    PROVE  IInv'
<1>1. CASE Next
  BY <1>1, ActionKeeps, ZenonT(40) DEF Keeps
<1>2. CASE UNCHANGED vars
  <2>1. req' = req /\ canonical' = canonical /\ written' = written /\ aligned' = aligned
    BY <1>2, Zenon DEF vars
  <2>2. TypeOK /\ Sharing /\ Rows /\ CachedButLast /\ \A t \in Seqs : Sound(req[t])
    BY Zenon DEF IInv
  <2>3. TypeOK'
    BY <2>1, <2>2, Zenon DEF TypeOK
  <2>4. \A t \in Seqs : Sound(req[t])'
    BY <2>1, <2>2, SoundKept, ZenonT(40)
  <2>5. SharedPages' /\ CachedPages'
    <3>1. \A t \in Seqs : PageNos(t)' = PageNos(t) /\ req'[t] = req[t]
      BY <2>1, Zenon DEF PageNos
    <3>2. SharedPages /\ CachedPages
      BY <2>2, Zenon DEF Sharing
    <3>3. SharedPages'
      <4> SUFFICES ASSUME NEW t \in Seqs, NEW u \in Seqs, NEW i \in PageNos(t)', NEW j \in PageNos(u)',
                          Pages(req'[t])[i] = Pages(req'[u])[j]
                   PROVE  i = j /\ (t = u \/ i <= req'[t].matched \/ i <= req'[u].matched)
        BY Zenon DEF SharedPages
      <4>1. /\ i \in PageNos(t) /\ j \in PageNos(u) /\ req'[t] = req[t] /\ req'[u] = req[u]
            /\ Pages(req[t])[i] = Pages(req[u])[j]
        BY <3>1, Zenon
      <4>2. i = j /\ (t = u \/ i <= req[t].matched \/ i <= req[u].matched)
        BY <3>2, <4>1, Zenon DEF SharedPages
      <4> QED BY <4>1, <4>2, Zenon
    <3>4. CachedPages'
      BY <2>1, <3>1, <3>2, ZenonT(40) DEF CachedPages
    <3> QED BY <3>3, <3>4, Zenon
  <2>6. CachedOnce' /\ AssignedCached' /\ MatchedCached'
    BY <2>1, <2>2, Zenon DEF Sharing, CachedOnce, AssignedCached, MatchedCached
  <2>7. Rows'
    BY <2>1, <2>2, Zenon DEF Rows
  <2>8. CachedButLast'
    BY <2>1, <2>2, Zenon DEF CachedButLast
  <2> QED BY <2>3, <2>4, <2>5, <2>6, <2>7, <2>8, ZenonT(40) DEF IInv, Sharing
<1> QED BY <1>1, <1>2, Zenon

(* What a step may do to the pages of a request that goes on. *)
PagesKept ==
    \A s \in Live : req'[s].state # "Absent" /\ ~Finished(req'[s]) =>
        \A p \in {q \in 0 .. req[s].kv - 1 : HasPage(req[s], q)} :
            HasPage(req'[s], p) /\ PageOf(req'[s], p) = PageOf(req[s], p)

(* No step moves a page of a request that goes on. *)
LEMMA StepPagesKept ==
    ASSUME IInv, [Next]_vars
    PROVE  PagesKept
<1>1. ASSUME NEW t \in Seqs, req'[t] = req[t] PROVE Stable(req'[t], req[t])
  BY <1>1, Zenon DEF Stable
<1>2. CASE Next
  <2>1. PICK s \in Seqs : Keeps(s) /\ \E m : Put(s, m)
    BY <1>2, ActionKeeps, Zenon
  <2>2. TypeOK
    BY DEF IInv
  <2>3. ASSUME NEW t \in Live, req'[t].state # "Absent", ~Finished(req'[t])
        PROVE  Stable(req'[t], req[t])
    <3>1. t \in Seqs /\ req[t].state # "Absent"
      BY Zenon DEF Live
    <3>2. CASE t = s
      BY <2>1, <2>3, <3>1, <3>2, Zenon DEF Keeps, GoesOn
    <3>3. CASE t # s
      <4>1. req'[t] = req[t]
        BY <2>1, <2>2, <3>1, <3>3, OthersStay, ZenonT(40)
      <4> QED BY <1>1, <3>1, <4>1, Zenon
    <3> QED BY <3>2, <3>3
  <2> QED BY <2>3, Zenon DEF PagesKept, Stable
<1>3. CASE UNCHANGED vars
  <2>1. \A t \in Seqs : req'[t] = req[t]
    BY <1>3, Zenon DEF vars
  <2> QED BY <1>1, <2>1, ZenonT(40) DEF PagesKept, Stable, Live
<1> QED BY <1>2, <1>3, ZenonT(40)

-----------------------------------------------------------------------------
(* The books, the sharing of pages and the computed rows are kept by every *)
(* method of SchedulableSequence and by the forward passes between them.   *)
THEOREM Invariance == Spec => []IInv
<1>1. Init => IInv
  BY InitIInv, Zenon
<1>2. IInv /\ [Next]_vars => IInv'
  BY StepIInv, Zenon
<1> QED BY <1>1, <1>2, PTL DEF Spec

(* schedule_prefill, schedule_decode and schedule_speculative leave pages  *)
(* for every token of the step, whatever was matched, reverted or rejected *)
(* before: the assertion of KvView::new never fails.                       *)
THEOREM StepsAreCovered == Spec => []PagesCoverStep
<1>1. IInv => PagesCoverStep
  BY IInvCoverStep, Zenon
<1> QED BY <1>1, Invariance, PTL

(* A request never holds more blocks than request_lifetime_blocks sets     *)
(* aside at admission, the eager generation block and a draft included.    *)
THEOREM LifetimeSuffices == Spec => []WithinLifetime
<1>1. IInv => WithinLifetime
  BY IInvLifetime, Zenon
<1> QED BY <1>1, Invariance, PTL

(* Between steps a request that is below its output limit has prompt left  *)
(* to prefill or exactly one token to decode from: require_one_dangling    *)
(* cannot reject it.                                                       *)
THEOREM NeverStuck == Spec => []NextStepExists
<1>1. IInv => NextStepExists
  BY IInvNextStep, Zenon
<1> QED BY <1>1, Invariance, PTL

(* The K/V a request computed stays in its pages: registration, eviction,  *)
(* reverts, rejected drafts and the forward passes of requests that share  *)
(* blocks with it leave those rows alone.                                  *)
THEOREM KvStays == Spec => []OwnKvIntact
<1>1. IInv => OwnKvIntact
  BY IInvKvIntact, Zenon
<1> QED BY <1>1, Invariance, PTL

(* With prefill chunks that end on block boundaries, the prefix cache      *)
(* names only blocks that lack at most the K/V of their last token.        *)
THEOREM CacheLacksOneRow == Spec => []CachedButLast
<1>1. IInv => CachedButLast
  BY Zenon DEF IInv
<1> QED BY <1>1, Invariance, PTL

(* No method moves the page of a committed token while the request goes    *)
(* on: the page tables that the device holds stay right.                   *)
THEOREM PagesStayPut == Spec => PagesStable
<1>1. IInv /\ [Next]_vars => PagesKept
  BY StepPagesKept, Zenon
<1> QED BY <1>1, Invariance, PTL DEF Spec, PagesStable, PagesKept

=============================================================================
