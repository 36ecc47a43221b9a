---------------------------- MODULE MCOptionExecution ----------------------------
(* One trade of the order book and one of an RFQ share the executor's nonces. *)
EXTENDS OptionExecution, TLC

CONSTANTS trade, quote, c1, c2

MCCalls == {c1, c2}

CallSymmetry == Permutations(MCCalls)

MCIntents == {trade, quote}

MCCorrelated == {trade}
==================================================================================
