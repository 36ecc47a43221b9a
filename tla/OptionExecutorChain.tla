--------------------------- MODULE OptionExecutorChain ---------------------------
(***************************************************************************)
(* The node and the chain of the executor account as the options executor  *)
(* uses them: a pool with one transaction per nonce, blocks, receipts, and *)
(* reorgs that spare every block that ever had finality_blocks on it.      *)
(***************************************************************************)
EXTENDS OptionExecutionStore

CONSTANTS
    Finality,   \* finality_blocks
    MaxHead,    \* bound: the highest block
    MaxFaults   \* bound: lost replies, failed reads, crashes, reorgs

ASSUME ChainBounds == Finality \in Nat /\ MaxHead \in Nat /\ MaxFaults \in Nat

VARIABLES
    mined,      \* the account's transactions on the chain, by nonce
    pool,       \* its transactions in the pool
    head,       \* eth_blockNumber
    peak,       \* the highest head so far
    handed,     \* history: transactions given to eth_sendRawTransaction
    succeeded,  \* history: transactions that were once mined with status 1
    faults

chainVars == <<mined, pool, head, peak, handed, succeeded, faults>>

ChainInit ==
    /\ mined = <<>> /\ pool = {} /\ head = 0 /\ peak = 0
    /\ handed = {} /\ succeeded = {} /\ faults = 0

Fault == faults < MaxFaults /\ faults' = faults + 1

PooledNonces == {t.nonce : t \in pool}

(* eth_getTransactionCount(executor, "pending") *)
PendingNonce ==
    CHOOSE n \in Len(mined) .. Len(mined) + Cardinality(pool) :
        n \notin PooledNonces /\ Len(mined) .. (n - 1) \subseteq PooledNonces

Acceptable(tx) == tx.nonce >= Len(mined) /\ tx.nonce \notin PooledNonces

Receipt(tx) == {r \in Range(mined) : r.tx = tx}

(* accepted with its hash, accepted with another hash, refused, or lost *)
Send(tx, reply) ==
    /\ \/ reply = "ok" /\ Acceptable(tx) /\ pool' = pool \cup {tx} /\ UNCHANGED faults
       \/ reply = "mismatch" /\ Acceptable(tx) /\ pool' = pool \cup {tx} /\ Fault
       \/ reply = "error" /\ ~Acceptable(tx) /\ UNCHANGED <<pool, faults>>
       \/ reply = "error" /\ Acceptable(tx) /\ Fault /\ pool' \in {pool, pool \cup {tx}}
    /\ handed' = handed \cup {tx}
    /\ UNCHANGED <<mined, head, peak, succeeded>>

Advance == head' = head + 1 /\ peak' = IF head < peak THEN peak ELSE head + 1

(* the engine executes an intent at most once *)
Mine(tx, ok) ==
    /\ tx \in pool /\ tx.nonce = Len(mined)
    /\ head < MaxHead
    /\ ok => \A r \in Range(mined) : ~(r.ok /\ r.tx.intent = tx.intent)
    /\ Advance
    /\ mined' = Append(mined, [tx |-> tx, ok |-> ok, block |-> head + 1])
    /\ pool' = pool \ {tx}
    /\ succeeded' = IF ok THEN succeeded \cup {tx} ELSE succeeded
    /\ UNCHANGED <<handed, faults>>

EmptyBlock ==
    /\ mined # <<>> /\ head < MaxHead
    /\ Advance
    /\ UNCHANGED <<mined, pool, handed, succeeded, faults>>

(* the blocks of mined increase, so those up to height are its first ones *)
UpTo(height) == SubSeq(mined, 1, Cardinality({k \in DOMAIN mined : mined[k].block <= height}))

Reorg(height) ==
    /\ height < head /\ height + Finality >= peak
    /\ Fault
    /\ head' = height
    /\ mined' = UpTo(height)
    /\ pool' = pool \cup {r.tx : r \in {q \in Range(mined) : q.block > height}}
    /\ UNCHANGED <<peak, handed, succeeded>>
==================================================================================
