---------------------------- MODULE MCBlockStore ----------------------------
(* Small instances of BlockStore for TLC. *)
EXTENDS BlockStore, TLC

(* Every order of one or two hashes: lookups with a hit before a miss, a   *)
(* miss before a hit, and two hits.                                        *)
PromptsUpTo2 == {<<g>> : g \in Hashes} \cup {p \in Hashes \X Hashes : p[1] # p[2]}

Symmetry == Permutations(Blocks) \cup Permutations(Hashes)
              \cup Permutations(Inners) \cup Permutations(Clients)
=============================================================================
