-------------------------- MODULE MCEngineContract --------------------------
(***************************************************************************)
(* EngineContract for TLC: a request with a token, which may leave in      *)
(* another step than its end, beside one that ends without any.            *)
(***************************************************************************)
EXTENDS EngineContract

CONSTANTS r1

MCMaxTokens == [r \in Requests |-> IF r = r1 THEN 1 ELSE 0]
=============================================================================
