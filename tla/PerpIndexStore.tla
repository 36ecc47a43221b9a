---------------------------- MODULE PerpIndexStore ----------------------------
(***************************************************************************)
(* The tables behind the perp indexer, the reconciliation and the          *)
(* confirmation (db/repository.rs), and the chain they are filled from.    *)
(* One transaction per block at most; a block's hash is its height and the *)
(* number of forks before it, so a replaced block never comes back.        *)
(***************************************************************************)
EXTENDS Integers, FiniteSets, Sequences, SequencesExt, FiniteSetsExt

CONSTANTS
    Txs,            \* transactions that call a matching engine
    None,
    MaxHead,        \* bound: height of the chain
    MaxForks,       \* bound: reorganisations
    BatchSize       \* reconciliation max_batch_size

ASSUME IndexBounds ==
    IsFiniteSet(Txs) /\ MaxHead \in Nat /\ MaxForks \in Nat /\ BatchSize \in Nat \ {0}

Blocks == [fork : 0 .. MaxForks, tx : Txs \cup {None}, ok : BOOLEAN, index : 0 .. MaxForks]

Trades == [tx : Txs, index : 0 .. MaxForks, height : 1 .. MaxHead, hash : 0 .. MaxForks]

Cursors == [block : 1 .. MaxHead, hash : 0 .. MaxForks]

Receipts == [height : 1 .. MaxHead, hash : 0 .. MaxForks, ok : BOOLEAN]

EventKeys == Txs \X (0 .. MaxForks)

ASSUME NoneAssumption ==
    None \notin Txs \cup (0 .. MaxForks) /\ None \notin Cursors \cup Receipts \cup Trades

VARIABLES
    chain,      \* the canonical blocks above start_block
    forks,      \* reorganisations so far
    origin,     \* what a transaction is: see Origins
    cursor,     \* indexer_cursors: height and hash, or None
    events,     \* indexed_perp_trades
    links,      \* execution_reconciliations
    confStatus, \* confirmation_status of execution_transactions
    confirmed,  \* intents with status Confirmed
    feeless,    \* history: intents confirmed while no fees were recorded
    feeEvents,  \* fee_events of the legacy ledger: trade and payer
    volume,     \* contributions to volume_buckets
    rebates,    \* rebate_accruals
    canonFees   \* canonical_v2_perp_fees

ledgerVars == <<feeEvents, volume, rebates, canonFees>>

indexVars == <<cursor, events>>

nodeVars == <<chain, forks, origin>>

storeVars == <<nodeVars, indexVars, links, confStatus, confirmed, feeless, ledgerVars>>

(* A transaction calls the V1 or the V2 engine for an intent of this         *)
(* backend, which submitted it, or it is somebody else's.  Nothing here      *)
(* keeps a V1 trade from having one account on both sides.  An intent has    *)
(* one transaction (broadcast_executor_intent refuses a second), so an       *)
(* intent is named by it.                                                    *)
Origins == {"V1", "V1 self", "V2", "foreign"}

Submitted == {t \in Txs : origin[t] # "foreign"}

Roles == {"maker", "taker"}

(* The account that pays a role's fee, named by the first role it has *)
Payer(t, role) == IF origin[t] = "V1 self" THEN "maker" ELSE role

-----------------------------------------------------------------------------
(* The node *)

Block(tx, ok, index) == [fork |-> forks, tx |-> tx, ok |-> ok, index |-> index]

BlockNumber == Len(chain)

(* eth_getBlockByNumber: absent above the head *)
BlockHash(h) == IF h = 0 THEN 0 ELSE IF h <= Len(chain) THEN chain[h].fork ELSE None

(* eth_getLogs for TradeExecuted of both engines *)
Logs(lo, hi) ==
    {[tx |-> chain[h].tx, index |-> chain[h].index, height |-> h, hash |-> chain[h].fork] :
        h \in {h \in (lo .. hi) \cap (1 .. Len(chain)) : chain[h].ok}}

(* eth_getTransactionReceipt *)
Receipt(t) ==
    {[height |-> h, hash |-> chain[h].fork, ok |-> chain[h].ok] : h \in {h \in 1 .. Len(chain) : chain[h].tx = t}}

(* A transaction may be mined again after a fork, at another log index.  A *)
(* reverted transaction of somebody else is an empty block.                *)
Mine ==
    /\ Len(chain) < MaxHead
    /\ \/ chain' = Append(chain, Block(None, FALSE, 0))
       \/ \E t \in Txs, index \in 0 .. forks : Receipt(t) = {} /\ chain' = Append(chain, Block(t, TRUE, index))
       \/ \E t \in Submitted : Receipt(t) = {} /\ chain' = Append(chain, Block(t, FALSE, 0))
    /\ UNCHANGED <<forks, origin>>

Fork ==
    /\ forks < MaxForks /\ forks' = forks + 1
    /\ \E h \in 0 .. Len(chain) - 1 : chain' = SubSeq(chain, 1, h)
    /\ UNCHANGED origin

-----------------------------------------------------------------------------
(* The tables *)

StoreInit ==
    /\ chain = <<>> /\ forks = 0 /\ origin \in [Txs -> Origins]
    /\ cursor = None /\ events = {} /\ links = {}
    /\ confStatus = [t \in Txs |-> "pending"] /\ confirmed = {} /\ feeless = {}
    /\ feeEvents = {} /\ volume = [f \in {} |-> 0] /\ rebates = {} /\ canonFees = {}

Key(e) == <<e.tx, e.index>>

(* insert_indexed_perp_trade: ON CONFLICT (chain, tx_hash, log_index) DO NOTHING *)
Inserted(trades) ==
    events \cup {e \in trades : \A f \in events : Key(f) # Key(e)}

(* persist_indexed_perp_trades_and_cursor: compare, insert and advance in one *)
(* transaction under an advisory lock                                         *)
Persist(expected, trades, next) ==
    IF cursor = expected
    THEN events' = Inserted(trades) /\ cursor' = next
    ELSE UNCHANGED indexVars

(* find_indexed_trades_by_onchain_intent_id *)
EventsOf(t) == {e \in events : e.tx = t}

Before(e, f) == e.height < f.height \/ (e.height = f.height /\ e.index < f.index)

(* list_unreconciled_indexed_perp_trades: ORDER BY block, log LIMIT.  Rows of *)
(* replaced blocks may tie, and then come in any order.                       *)
Unreconciled ==
    LET open == {e \in events : \A l \in links : l.event # Key(e)}
    IN  {s \in SeqOf(open, BatchSize) :
            /\ \A i, j \in DOMAIN s : s[i] = s[j] => i = j
            /\ \A i \in DOMAIN s, e \in open : Before(e, s[i]) => \E j \in DOMAIN s : j < i /\ s[j] = e
            /\ Len(s) < BatchSize => open \subseteq Range(s)}

(* insert_execution_reconciliation: ON CONFLICT (intent, event) DO NOTHING *)
Link(e, status) ==
    links' = IF \E l \in links : l.event = Key(e) THEN links
             ELSE links \cup {[event |-> Key(e), status |-> status]}

(* has_indexed_trade_for_confirmation *)
HasIndexed(t) == EventsOf(t) # {}

(* has_matched_reconciliation_for_confirmation, find_matched_indexed_trade *)
MatchedOf(t) == {e \in EventsOf(t) : [event |-> Key(e), status |-> "matched"] \in links}

(* apply_confirmation_decision: both rows in one transaction, unconditionally *)
Apply(t, decision) ==
    /\ confStatus' = [confStatus EXCEPT ![t] = decision]
    /\ confirmed' = IF decision = "confirmed" THEN confirmed \cup {t} ELSE confirmed

(* insert_rebate_accrual: ON CONFLICT (fee event, account) DO NOTHING *)
AddRebate(f) == rebates' = rebates \cup {f}

(* upsert_fee_volume_delta adds *)
AddVolume(f) ==
    volume' = [g \in DOMAIN volume \cup {f} |->
                  (IF g \in DOMAIN volume THEN volume[g] ELSE 0) + (IF g = f THEN 1 ELSE 0)]

-----------------------------------------------------------------------------
StoreTypeOK ==
    /\ chain \in Seq(Blocks) /\ Len(chain) <= MaxHead /\ forks \in 0 .. MaxForks
    /\ origin \in [Txs -> Origins]
    /\ cursor \in Cursors \cup {None}
    /\ events \subseteq Trades /\ links \subseteq [event : EventKeys, status : {"matched", "ambiguous"}]
    /\ confStatus \in [Txs -> {"pending", "refused", "confirmed"}] /\ confirmed \subseteq Txs
    /\ feeless \subseteq confirmed
    /\ feeEvents \subseteq EventKeys \X Roles /\ rebates \subseteq feeEvents /\ canonFees \subseteq events
    /\ volume \in [DOMAIN volume -> Nat] /\ DOMAIN volume \subseteq feeEvents
===============================================================================
