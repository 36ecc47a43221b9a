------------------------------- MODULE PerpIndex -------------------------------
(***************************************************************************)
(* The first-generation path from the chain to Confirmed: the indexer      *)
(* (indexer/runner.rs), the direct reconciliation and the confirmation     *)
(* with its fee recording (api/routes.rs, fees/).  The indexer loop and    *)
(* the HTTP requests are processes; every step ends at an await.  A        *)
(* process may end at any await: an RPC or database error, a client that   *)
(* hangs up, or the end of the server.                                     *)
(***************************************************************************)
EXTENDS PerpIndexStore

CONSTANTS
    Requests,       \* HTTP requests that run at the same time
    Kinds,          \* the requests that are made
    MaxBlockRange,         \* indexer max_block_range
    Required,       \* CONFIRMATION_REQUIRED_BLOCKS
    MaxRequests,    \* bound: requests
    MaxActive,      \* bound: processes under way at a time
    MaxFaults       \* bound: processes that end early

ASSUME PerpIndexBounds ==
    /\ MaxBlockRange \in Nat \ {0} /\ Required \in Nat
    /\ MaxRequests \in Nat /\ MaxActive \in Nat /\ MaxFaults \in Nat
    /\ Kinds \subseteq {"index", "reconcile", "confirm"}

VARIABLES
    task, requests, faults,
    lost            \* history: fee events whose volume was cut off

vars == <<storeVars, task, requests, faults, lost>>

Loop == "loop"

Proc == Requests \cup {Loop}

Idle == [pc |-> "idle"]

Init ==
    /\ StoreInit
    /\ task = [p \in Proc |-> Idle] /\ requests = 0 /\ faults = 0
    /\ lost = {}

Become(p, t) == task' = [task EXCEPT ![p] = t]

Goto(p, pc) == Become(p, [task[p] EXCEPT !.pc = pc])

End(p) == Become(p, Idle)

Admit == Cardinality({p \in Proc : task[p] # Idle}) < MaxActive
-----------------------------------------------------------------------------
(***************************************************************************)
(* Indexer::tick.  The cursor's block must still be canonical; the range   *)
(* is read between two reads of its last block's hash.  Merged, because    *)
(* the other orders only make a tick fail or stop sooner: the reads of the *)
(* height, the cursor and its hash, and the comparison of each log's block *)
(* with the last read of the range (a fork that replaces a log's block     *)
(* replaces the last block too).                                           *)
(***************************************************************************)
TickStart(p) ==
    /\ task[p] = Idle
    /\ Become(p, [pc |-> "verify", head |-> BlockNumber, stored |-> cursor, to |-> 0, toHash |-> None, logs |-> {}])
    /\ UNCHANGED storeVars

From(t) == IF t.stored = None THEN 1 ELSE t.stored.block + 1

(* from_block .. to_block, or nothing to do *)
Ranged(t) ==
    IF From(t) > t.head THEN Idle
    ELSE [t EXCEPT !.pc = "tohash", !.to = Min({t.head, From(t) + MaxBlockRange - 1}), !.head = 0]

TickVerify(p) ==
    /\ task[p].pc = "verify"
    /\ LET at == task[p].stored
       IN  Become(p, IF at = None \/ BlockHash(at.block) = at.hash THEN Ranged(task[p]) ELSE Idle)
    /\ UNCHANGED storeVars

TickToHash(p) ==
    /\ task[p].pc = "tohash"
    /\ LET hash == BlockHash(task[p].to)
       IN  Become(p, IF hash = None THEN Idle ELSE [task[p] EXCEPT !.pc = "logs", !.toHash = hash])
    /\ UNCHANGED storeVars

TickLogs(p) ==
    /\ task[p].pc = "logs"
    /\ Become(p, [task[p] EXCEPT !.pc = "recheck", !.logs = Logs(From(task[p]), task[p].to)])
    /\ UNCHANGED storeVars

Canonical(logs) == \A l \in logs : BlockHash(l.height) = l.hash

(* Mutant: the hash is read once, after the logs. *)
HashAfter(p) ==
    /\ task[p].pc = "recheck"
    /\ IF Canonical(task[p].logs)
       THEN Become(p, [task[p] EXCEPT !.pc = "persist", !.toHash = BlockHash(task[p].to)])
       ELSE End(p)
    /\ UNCHANGED storeVars

TickRecheck(p) ==
    /\ task[p].pc = "recheck"
    /\ IF Canonical(task[p].logs) /\ BlockHash(task[p].to) = task[p].toHash THEN Goto(p, "persist") ELSE End(p)
    /\ UNCHANGED storeVars

TickPersist(p) ==
    /\ task[p].pc = "persist"
    /\ LET t == task[p] IN Persist(t.stored, t.logs, [block |-> t.to, hash |-> t.toHash])
    /\ End(p)
    /\ UNCHANGED <<nodeVars, links, confStatus, confirmed, feeless, ledgerVars>>

Tick(p) == TickVerify(p) \/ TickToHash(p) \/ TickLogs(p) \/ TickRecheck(p) \/ TickPersist(p)

-----------------------------------------------------------------------------
(***************************************************************************)
(* reconciliation_tick: the open events are listed once; for each, the     *)
(* intents and the events of its intent id are counted, and the verdict is *)
(* written after that.                                                     *)
(***************************************************************************)
ReconcileStart(p) ==
    /\ task[p] = Idle
    /\ \E trades \in Unreconciled \ {<<>>} : Become(p, [pc |-> "count", todo |-> trades, verdict |-> "none"])
    /\ UNCHANGED storeVars

NextTrade(t) == IF Len(t.todo) = 1 THEN Idle ELSE [pc |-> "count", todo |-> Tail(t.todo), verdict |-> "none"]

(* Mutant: the number of events of the intent is not looked at. *)
MatchFirst(t) == IF t \in Submitted THEN "matched" ELSE "unmatched"

(* decide_direct_reconciliation: intent ids are unique in execution_intents *)
Decide(t) ==
    CASE t \notin Submitted                                   -> "unmatched"
      [] t \in Submitted /\ Cardinality(EventsOf(t)) = 1      -> "matched"
      [] t \in Submitted /\ Cardinality(EventsOf(t)) > 1      -> "ambiguous"

ReconcileCount(p) ==
    /\ task[p].pc = "count"
    /\ LET verdict == Decide(Head(task[p].todo).tx)
       IN  Become(p, IF verdict = "unmatched" THEN NextTrade(task[p])
                     ELSE [task[p] EXCEPT !.pc = "link", !.verdict = verdict])
    /\ UNCHANGED storeVars

ReconcileLink(p) ==
    /\ task[p].pc = "link"
    /\ Link(Head(task[p].todo), task[p].verdict)
    /\ Become(p, NextTrade(task[p]))
    /\ UNCHANGED <<nodeVars, indexVars, confStatus, confirmed, feeless, ledgerVars>>

Reconcile(p) == ReconcileCount(p) \/ ReconcileLink(p)

-----------------------------------------------------------------------------
(***************************************************************************)
(* confirm_transaction, for one intent (confirm_executor_intent) or for    *)
(* each unconfirmed transaction (confirmation_tick).                       *)
(***************************************************************************)
ConfirmNext(todo) ==
    IF todo = <<>> THEN Idle
    ELSE [pc |-> "receipt", tx |-> Head(todo), todo |-> Tail(todo),
          receipt |-> None, head |-> 0, decision |-> "none", event |-> None, feeless |-> FALSE]

Unconfirmed == {t \in Submitted : confStatus[t] # "confirmed"}

ConfirmStart(p) ==
    /\ task[p] = Idle
    /\ \/ \E t \in Submitted : Become(p, ConfirmNext(<<t>>))
       \/ \E todo \in SetToSeqs(Unconfirmed) \ {<<>>} : Become(p, ConfirmNext(todo))
    /\ UNCHANGED storeVars

ConfirmReceipt(p) ==
    /\ task[p].pc = "receipt"
    /\ LET found == Receipt(task[p].tx)
       IN  Become(p, IF found = {} THEN [task[p] EXCEPT !.pc = "decide"]
                     ELSE [task[p] EXCEPT !.pc = "height", !.receipt = CHOOSE r \in found : TRUE])
    /\ UNCHANGED storeVars

ConfirmHeight(p) ==
    /\ task[p].pc = "height"
    /\ Become(p, [task[p] EXCEPT !.pc = "decide", !.head = BlockNumber])
    /\ UNCHANGED storeVars

(* decide_confirmation; the reasons for a refusal are one value *)
DecideConfirmation(t) ==
    /\ t.receipt # None /\ t.receipt.ok /\ t.head >= t.receipt.height + Required
    /\ HasIndexed(t.tx) /\ MatchedOf(t.tx) # {}

FirstOf(trades) ==
    CHOOSE e \in trades : \A f \in trades : e.height < f.height \/ (e.height = f.height /\ e.index <= f.index)

(* After the decision a V2 trade's fee is reconciled; a V1 trade's fees are *)
(* recorded if FEES_ENABLED is set in the server the request runs in, which *)
(* may be another one after a restart.                                      *)
FeePaths(t) == IF origin[t] = "V2" THEN {"v2receipt"} ELSE {"maker", "apply"}

(* The event, the link and the trade are read one after the other, and rows *)
(* are only added: one step.                                                *)
ConfirmDecide(p) ==
    /\ task[p].pc = "decide"
    /\ LET t == [task[p] EXCEPT !.receipt = None, !.head = 0]
       IN  IF DecideConfirmation(task[p])
           THEN \E path \in FeePaths(t.tx) :
                    Become(p, [t EXCEPT !.decision = "confirmed", !.event = FirstOf(MatchedOf(t.tx)),
                                        !.pc = path, !.feeless = (path = "apply")])
           ELSE Become(p, [t EXCEPT !.decision = "refused", !.pc = "apply"])
    /\ UNCHANGED storeVars

(* Mutant: the taker is forgotten. *)
MakerOnly(p, role) == Goto(p, "apply")

(* record_perp_trade_fees: record_participant_fee for the maker, then the taker *)
AfterRole(p, role) == Goto(p, IF role = "maker" THEN "taker" ELSE "apply")

(* The unique key of fee_events: source, payer and (always the same) recipient *)
Fee(p, role) == <<Key(task[p].event), Payer(task[p].tx, role)>>

VolumePc(role) == IF role = "maker" THEN "maker volume" ELSE "taker volume"

(* Mutant: volume follows although the event was there. *)
FeeInsertAgain(p, role) ==
    /\ task[p].pc = role
    /\ feeEvents' = feeEvents \cup {Fee(p, role)} /\ Goto(p, VolumePc(role))
    /\ UNCHANGED <<nodeVars, indexVars, links, confStatus, confirmed, feeless, volume, rebates, canonFees>>

(* insert_fee_event: nothing more to do when the row was there *)
FeeInsert(p, role) ==
    /\ task[p].pc = role
    /\ IF Fee(p, role) \in feeEvents
       THEN AfterRole(p, role) /\ UNCHANGED feeEvents
       ELSE feeEvents' = feeEvents \cup {Fee(p, role)} /\ Goto(p, VolumePc(role))
    /\ UNCHANGED <<nodeVars, indexVars, links, confStatus, confirmed, feeless, volume, rebates, canonFees>>

(* The maker is due a rebate *)
FeeVolume(p, role) ==
    /\ task[p].pc = VolumePc(role)
    /\ AddVolume(Fee(p, role))
    /\ IF role = "maker" THEN Goto(p, "rebate") ELSE AfterRole(p, role)
    /\ UNCHANGED <<nodeVars, indexVars, links, confStatus, confirmed, feeless, feeEvents, rebates, canonFees>>

FeeRebate(p) ==
    /\ task[p].pc = "rebate"
    /\ AddRebate(Fee(p, "maker")) /\ AfterRole(p, "maker")
    /\ UNCHANGED <<nodeVars, indexVars, links, confStatus, confirmed, feeless, feeEvents, volume, canonFees>>

(***************************************************************************)
(* reconcile_confirmed_v2_trade: the receipt is read again and must name   *)
(* the indexed block, which must be canonical, before the fee is stored.   *)
(* The policy, market and tier reads before it may only fail.              *)
(***************************************************************************)
V2ReceiptValid(e) == \E r \in Receipt(e.tx) : r.ok /\ r.height = e.height /\ r.hash = e.hash

V2Receipt(p) ==
    /\ task[p].pc = "v2receipt"
    /\ IF V2ReceiptValid(task[p].event) THEN Goto(p, "v2block") ELSE End(p)
    /\ UNCHANGED storeVars

V2Block(p) ==
    /\ task[p].pc = "v2block"
    /\ IF BlockHash(task[p].event.height) = task[p].event.hash THEN Goto(p, "v2persist") ELSE End(p)
    /\ UNCHANGED storeVars

V2Persist(p) ==
    /\ task[p].pc = "v2persist"
    /\ canonFees' = canonFees \cup {task[p].event} /\ Goto(p, "apply")
    /\ UNCHANGED <<nodeVars, indexVars, links, confStatus, confirmed, feeless, feeEvents, volume, rebates>>

ConfirmApply(p) ==
    /\ task[p].pc = "apply"
    /\ LET t == task[p]
       IN  /\ Apply(t.tx, t.decision)
           /\ feeless' = IF t.feeless THEN feeless \cup {t.tx} ELSE feeless
    /\ Become(p, ConfirmNext(task[p].todo))
    /\ UNCHANGED <<nodeVars, indexVars, links, ledgerVars>>

Confirm(p) ==
    \/ ConfirmReceipt(p) \/ ConfirmHeight(p) \/ ConfirmDecide(p)
    \/ \E role \in Roles : FeeInsert(p, role) \/ FeeVolume(p, role)
    \/ FeeRebate(p) \/ V2Receipt(p) \/ V2Block(p) \/ V2Persist(p) \/ ConfirmApply(p)

-----------------------------------------------------------------------------
Node == (Mine \/ Fork) /\ UNCHANGED <<indexVars, links, confStatus, confirmed, feeless, ledgerVars, task, requests, faults, lost>>

Request(p) ==
    /\ Admit /\ requests < MaxRequests /\ requests' = requests + 1
    /\ \/ "index" \in Kinds /\ TickStart(p)
       \/ "reconcile" \in Kinds /\ ReconcileStart(p)
       \/ "confirm" \in Kinds /\ ConfirmStart(p)
    /\ UNCHANGED <<faults, lost>>

Step(p) == (Tick(p) \/ Reconcile(p) \/ Confirm(p)) /\ UNCHANGED <<requests, faults, lost>>

LoopTick == Admit /\ TickStart(Loop) /\ UNCHANGED <<requests, faults, lost>>

(* A fee event is in the table and its volume is yet to be added. *)
Owes(p, f) == \E role \in Roles : task[p].pc = VolumePc(role) /\ f = Fee(p, role)

OwedBy(S) == {f \in feeEvents : \E p \in S : Owes(p, f)}

(* An error, a hang-up or a restart at an await.  A tick writes once, at the *)
(* end: cut short it leaves what it leaves when one of its checks fails.     *)
Abort(p) ==
    /\ task[p] # Idle /\ faults < MaxFaults /\ faults' = faults + 1
    /\ lost' = lost \cup OwedBy({p})
    /\ End(p)
    /\ UNCHANGED <<storeVars, requests>>

Next ==
    \/ Node \/ LoopTick
    \/ \E p \in Requests : Request(p) \/ Abort(p)
    \/ \E p \in Proc : Step(p)

Spec == Init /\ [][Next]_vars

-----------------------------------------------------------------------------
TickTasks ==
    [pc : {"verify", "tohash", "logs", "recheck", "persist"}, head : 0 .. MaxHead, stored : Cursors \cup {None},
     to : 0 .. MaxHead, toHash : (0 .. MaxForks) \cup {None}, logs : SUBSET Trades]

MatchTasks ==
    [pc : {"count", "link"}, todo : Seq(Trades) \ {<<>>}, verdict : {"none", "matched", "ambiguous"}]

ConfirmTasks ==
    [pc : {"receipt", "height", "decide", "maker", "maker volume", "rebate", "taker", "taker volume",
           "v2receipt", "v2block", "v2persist", "apply"},
     tx : Txs, todo : Seq(Txs), receipt : Receipts \cup {None}, head : 0 .. MaxHead,
     decision : {"none", "refused", "confirmed"}, event : Trades \cup {None}, feeless : BOOLEAN]

TypeOK ==
    /\ StoreTypeOK
    /\ task \in [Proc -> {Idle} \cup TickTasks \cup MatchTasks \cup ConfirmTasks]
    /\ requests \in 0 .. MaxRequests /\ faults \in 0 .. MaxFaults
    /\ lost \subseteq feeEvents

(* Whatever reorganisation hits a tick: if the block the cursor comes to     *)
(* stand on is canonical, the rows added with it are canonical and every     *)
(* settlement since the previous cursor is stored (tick's two reads of the   *)
(* last block's hash around eth_getLogs).                                    *)
BatchIsExact ==
    [][cursor' # cursor /\ BlockHash(cursor'.block) = cursor'.hash =>
        LET batch == Logs(IF cursor = None THEN 1 ELSE cursor.block + 1, cursor'.block)
        IN  /\ events' \ events \subseteq batch
            /\ \A l \in batch : \E e \in events' : Key(e) = Key(l)]_vars

(* An intent is matched with one event at most, although passes overlap and  *)
(* a re-mined transaction brings a second event while one counts             *)
(* (reconciliation_tick).                                                    *)
OneMatchPerIntent ==
    \A k, l \in links : k.status = "matched" /\ l.status = "matched" /\ k.event[1] = l.event[1] => k = l

(* A Confirmed intent is accounted for: its transaction has a matched event  *)
(* and the fees of that event are stored, a row for each paying account in   *)
(* the legacy ledger, or the on-chain fee of the very block the event was    *)
(* indexed in.  Only a V1 trade confirmed while FEES_ENABLED was false has   *)
(* none (confirm_transaction writes the fees before the decision).           *)
ConfirmedIsAccounted ==
    \A t \in confirmed : \E e \in MatchedOf(t) :
        \/ origin[t] = "V2" /\ e \in canonFees
        \/ origin[t] # "V2" /\ \A role \in Roles : <<Key(e), Payer(t, role)>> \in feeEvents
        \/ origin[t] # "V2" /\ t \in feeless

Counted(f) == IF f \in DOMAIN volume THEN volume[f] ELSE 0

(* However often a confirmation is repeated or overlaps with others, a trade *)
(* counts exactly once towards the volume of each account that paid a fee,   *)
(* unless the confirmation that stored the fee is still to add the volume,   *)
(* or was cut short before it did: then it never counts, because whoever     *)
(* finds the row stops (record_participant_fee).                             *)
VolumeCountedOnce ==
    \A f \in EventKeys \X Roles :
        Counted(f) = IF f \in feeEvents /\ f \notin lost \cup OwedBy(Proc) THEN 1 ELSE 0

(* README.md:329: with fees enabled confirmed trades update the volume       *)
(* buckets.  Not so: see VolumeCountedOnce.                                  *)
ConfirmedTradesCount ==
    \A t \in confirmed \ feeless : origin[t] # "V2" =>
        \A e \in MatchedOf(t), role \in Roles : Counted(<<Key(e), Payer(t, role)>>) = 1

Diverged == cursor # None /\ BlockHash(cursor.block) # cursor.hash

(* While the cursor's block is canonical the indexed trades are the          *)
(* settlements of the canonical chain up to it: a replaced block below the   *)
(* cursor is noticed (indexer/runner.rs:246).                                *)
IndexedExactly ==
    cursor # None /\ ~Diverged =>
        {Key(e) : e \in events} = {Key(l) : l \in Logs(1, cursor.block)}
===============================================================================
