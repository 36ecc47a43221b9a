--------------------------- MODULE BroadcastChain ---------------------------
(***************************************************************************)
(* What the broadcast pipeline observes and cannot control: one JSON-RPC   *)
(* node with its mempool and canonical chain, the Hybrid V2 indexer that   *)
(* follows that chain, and the wall clock.                                 *)
(*                                                                         *)
(* Block n of the chain is identified by the pair (n, chain[n]), where     *)
(* chain[n] is the number of the fork that produced it; the pair stands    *)
(* for the block hash.  A transaction is named by its execution: the       *)
(* signed bytes of an execution never change.                              *)
(***************************************************************************)
EXTENDS Naturals, Sequences, BroadcastStore

CONSTANTS MaxHead,   \* bound: height of the chain
          MaxForks,  \* bound: number of reorganisations
          MaxNow     \* bound: readings of the clock

ASSUME ChainAssumption == MaxHead \in Nat /\ MaxForks \in Nat /\ MaxNow \in Nat

VARIABLES chain,     \* chain[n]: the fork that produced canonical block n
          fork,      \* the latest fork
          pool,      \* transactions in the node's mempool
          wire,      \* transactions still travelling to the node
          mined,     \* mined[e]: the node's receipt for e, or None
          included,  \* included[e]: every inclusion e ever had (history)
          indexed,   \* the blocks the indexer has applied, as `chain`
          matched,   \* matched[e]: inclusion behind a COMPLETE row, or None
          now        \* the wall clock

nodeVars == <<chain, fork, pool, wire, mined, included>>
indexVars == <<indexed, matched>>
chainVars == <<nodeVars, indexVars, now>>

Tip == Len(chain)
Known(e) == e \in pool \/ mined[e] # None
Admitted(e) == IF mined[e] = None THEN pool \cup {e} ELSE pool
IsCanonical(r) == r.n \in 1..Tip /\ chain[r.n] = r.fork
Executed(e) == \E r \in included[e] : r.status = 1

ChainTypeOK ==
    /\ chain \in Seq(Nat) /\ fork \in Nat
    /\ pool \subseteq Exec /\ wire \subseteq Exec
    /\ mined \in [Exec -> Receipts \cup {None}]
    /\ included \in [Exec -> SUBSET Receipts]
    /\ indexed \in Seq(Nat)
    /\ matched \in [Exec -> Receipts \cup {None}]
    /\ now \in Nat

ChainInit ==
    /\ chain = <<>> /\ fork = 0
    /\ pool = {} /\ wire = {}
    /\ mined = [e \in Exec |-> None]
    /\ included = [e \in Exec |-> {}]
    /\ indexed = <<>>
    /\ matched = [e \in Exec |-> None]
    /\ now = 0

-----------------------------------------------------------------------------
\* Record that every e in the domain of status is mined in block (n, f).
Include(base, n, f, status) ==
    LET rcpt(e) == [n |-> n, fork |-> f, status |-> status[e]]
        in == DOMAIN status
    IN  /\ mined' = [e \in Exec |-> IF e \in in THEN rcpt(e) ELSE base[e]]
        /\ included' = [e \in Exec |-> IF e \in in
                                       THEN included[e] \cup {rcpt(e)}
                                       ELSE included[e]]

\* The next block takes any part of the mempool; a transaction may revert.
MineBlock(txs) ==
    /\ Tip < MaxHead
    /\ txs \subseteq pool
    /\ chain' = Append(chain, fork)
    /\ \E status \in [txs -> {0, 1}] : Include(mined, Tip + 1, fork, status)
    /\ pool' = pool \ txs
    /\ UNCHANGED <<fork, wire, indexVars, now>>

\* A longer branch replaces the blocks from k on.  A transaction of a
\* replaced block is mined again in the first block of the branch, returns
\* to the mempool, or is lost.
Reorg(k) ==
    /\ fork < MaxForks /\ Tip < MaxHead
    /\ k \in 1..Tip
    /\ fork' = fork + 1
    /\ chain' = SubSeq(chain, 1, k - 1) \o [i \in 1..Tip - k + 2 |-> fork']
    /\ LET gone == {e \in Exec : mined[e] # None /\ mined[e].n >= k}
           kept == [e \in Exec |-> IF e \in gone THEN None ELSE mined[e]]
       IN  \E again \in SUBSET gone, back \in SUBSET gone :
              /\ again \cap back = {}
              /\ pool' = pool \cup back
              /\ \E status \in [again -> {0, 1}] : Include(kept, k, fork', status)
    /\ UNCHANGED <<wire, indexVars, now>>

\* The mempool forgets a transaction (restart, eviction, a replacement).
Evict(e) ==
    /\ e \in pool
    /\ pool' = pool \ {e}
    /\ UNCHANGED <<chain, fork, wire, mined, included, indexVars, now>>

\* Bytes whose sender got no answer reach the node late, or never do.
Arrive(e) ==
    /\ e \in wire
    /\ wire' = wire \ {e}
    /\ pool' \in {pool, Admitted(e)}
    /\ UNCHANGED <<chain, fork, mined, included, indexVars, now>>

\* One POST of eth_sendRawTransaction: what the node does with the bytes and
\* what its client hears.  Only a timeout can leave them on the wire.  A
\* provider that garbles its answer may have accepted them all the same, and
\* one that finds the nonce too high may queue them.
SendResponses == {"accepted", "already_known", "nonce_low", "nonce_conflict",
                  "rejected", "malformed", "mismatch", "ambiguous"}

Transmit(e, resp) ==
    /\ \/ resp = "accepted" /\ ~Known(e) /\ pool' = Admitted(e) /\ UNCHANGED wire
       \/ resp = "already_known" /\ e \in pool /\ UNCHANGED <<pool, wire>>
       \/ resp \in {"nonce_low", "rejected"} /\ UNCHANGED <<pool, wire>>
       \/ resp \in {"nonce_conflict", "malformed", "mismatch", "ambiguous"}
             /\ pool' \in {pool, Admitted(e)} /\ UNCHANGED wire
       \/ resp = "ambiguous" /\ wire' = wire \cup {e} /\ UNCHANGED pool
    /\ UNCHANGED <<chain, fork, mined, included, indexVars, now>>

-----------------------------------------------------------------------------
\* What the rows of matched executions say once the blocks in s are applied;
\* an INVALIDATED_BY_REORG row is treated by every reader as a missing one.
MatchedOver(s) ==
    [e \in Exec |->
        IF \E r \in included[e] : r.status = 1 /\ r.n \in 1..Len(s) /\ s[r.n] = r.fork
        THEN CHOOSE r \in included[e] :
                r.status = 1 /\ r.n \in 1..Len(s) /\ s[r.n] = r.fork
        ELSE None]

OnCanonicalChain(s) == s = SubSeq(chain, 1, Len(s))

\* One more canonical block is journalled and applied.
IndexBlock ==
    /\ Len(indexed) < Tip
    /\ OnCanonicalChain(indexed)
    /\ indexed' = Append(indexed, chain[Len(indexed) + 1])
    /\ matched' = MatchedOver(indexed')
    /\ UNCHANGED <<nodeVars, now>>

\* commit_reorg_recovery: orphaned rows are invalidated and the replacement
\* branch applied in one database transaction.
IndexReorg ==
    /\ ~OnCanonicalChain(indexed)
    /\ indexed' = chain
    /\ matched' = MatchedOver(indexed')
    /\ UNCHANGED <<nodeVars, now>>

ClockTick ==
    /\ now < MaxNow
    /\ now' = now + 1
    /\ UNCHANGED <<nodeVars, indexVars>>
=============================================================================
