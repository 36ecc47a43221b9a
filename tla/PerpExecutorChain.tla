---------------------------- MODULE PerpExecutorChain ----------------------------
(***************************************************************************)
(* The node behind the executor's RPC and the chain of the executor's      *)
(* account, as broadcast_policy.rs and execution/rpc.rs use them: a pool   *)
(* with one transaction per nonce, blocks that take the next nonce, and    *)
(* the matching engine, which settles an intent at most once.              *)
(***************************************************************************)
EXTENDS PerpBroadcastStore

CONSTANT MaxFaults      \* bound: failed calls, refusals, evictions and forks

ASSUME FaultBound == MaxFaults \in Nat

VARIABLES
    mined,      \* the executor's transactions on the chain, by nonce
    mempool,    \* its transactions in the pool
    receipts,   \* every receipt the chain has shown, forked ones included
    faults      \* faults so far

chainVars == <<mined, mempool, receipts, faults>>

(* receipt.status 1 with the TradeExecuted event of the intent, 1 without *)
(* it (the target runs no settlement), 0                                  *)
Results == {"settled", "no event", "reverted"}

Replies == {"ok", "already known", "nonce too low", "underpriced", "rejected", "lost"}

ChainInit == mined = <<>> /\ mempool = {} /\ receipts = {} /\ faults = 0

Fault == faults < MaxFaults /\ faults' = faults + 1

PooledNonces == {t.nonce : t \in mempool}

(* eth_getTransactionCount(executor, "pending") *)
PendingNonce ==
    CHOOSE n \in Len(mined) .. Len(mined) + Cardinality(mempool) :
        n \notin PooledNonces /\ Len(mined) .. (n - 1) \subseteq PooledNonces

Receipt(tx) == {r \in Range(mined) : r.tx = tx}

(***************************************************************************)
(* eth_sendRawTransaction.  A fresh transaction is accepted or refused     *)
(* (funds, fees); a lost call may or may not have been accepted.           *)
(***************************************************************************)
Verdict(tx) ==
    CASE tx.nonce < Len(mined)                           -> "nonce too low"
      [] tx \in mempool                                  -> "already known"
      [] tx \notin mempool /\ tx.nonce \in PooledNonces  -> "underpriced"
      [] OTHER                                           -> "ok"

Send(tx, reply) ==
    /\ \/ reply = Verdict(tx) /\ reply # "ok" /\ UNCHANGED <<mempool, faults>>
       \/ reply = "ok" /\ Verdict(tx) = "ok" /\ mempool' = mempool \cup {tx} /\ UNCHANGED faults
       \/ reply = "rejected" /\ Verdict(tx) = "ok" /\ Fault /\ UNCHANGED mempool
       \/ reply = "lost" /\ Fault /\ mempool' = mempool
       \/ reply = "lost" /\ Verdict(tx) = "ok" /\ Fault /\ mempool' = mempool \cup {tx}
    /\ UNCHANGED <<mined, receipts>>

Settled == {r.tx.intent : r \in {r \in Range(mined) : r.result = "settled"}}

Mine(tx, result) ==
    /\ tx \in mempool /\ tx.nonce = Len(mined)
    /\ result = "settled" => tx.intent \notin Settled
    /\ mined' = Append(mined, [tx |-> tx, result |-> result])
    /\ mempool' = mempool \ {tx}
    /\ receipts' = receipts \cup {[tx |-> tx, result |-> result]}
    /\ UNCHANGED faults

Evict(tx) ==
    /\ tx \in mempool /\ Fault
    /\ mempool' = mempool \ {tx}
    /\ UNCHANGED <<mined, receipts>>

(* The last block is replaced; its transaction is back in the pool *)
Fork ==
    /\ mined # <<>> /\ Fault
    /\ mempool' = mempool \cup {Last(mined).tx}
    /\ mined' = Front(mined)
    /\ UNCHANGED receipts
================================================================================
