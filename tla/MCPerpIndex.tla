----------------------------- MODULE MCPerpIndex -----------------------------
(* Small instances of PerpIndex. *)
EXTENDS PerpIndex

Alike == Permutations(Requests) \cup Permutations(Txs)
===============================================================================
