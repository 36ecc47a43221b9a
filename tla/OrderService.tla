------------------------------ MODULE OrderService -----------------------------
(***************************************************************************)
(* The order service (orders/service.rs) between its callers, the engine   *)
(* behind its mutex and the v1 tables.  A call is a task of its caller: it *)
(* reserves the nonce, runs the engine and then persists what the engine   *)
(* did; other calls run between these steps.  The engine's effect stands   *)
(* when a later step fails, the transaction's does not.                    *)
(*                                                                         *)
(*   book, queue      EngineState: the book and the execution queue        *)
(*   nonces           the in-memory NonceStore, used without a repository  *)
(*   repository       whether the process has a database (AppState)        *)
(*   usedNonces, rows, intents   committed rows of used_nonces, orders and *)
(*                               execution_intents                         *)
(*   task             one record per caller; pc names the next step        *)
(*   arrived          orders the engine has numbered                       *)
(*   sender, failed   history: who sent an order, and the orders whose     *)
(*                    call returned an error after the engine took them    *)
(*   faults           persistence failures and restarts so far (bounded)   *)
(*                                                                         *)
(* The statements of one transaction and its commit are one step: two      *)
(* concurrent transactions share at most one order row (only the last      *)
(* maker of a submission stays open), so running the statements apart      *)
(* gives no other final row.                                               *)
(***************************************************************************)
EXTENDS OrderBook

CONSTANTS
    Callers,        \* tasks that call the service
    Accounts,
    SignedOrders,   \* signed orders a caller may send, any number of times
    NoOrder,        \* "no signed order in hand"
    MaxFaults       \* bound: persistence failures and restarts

ASSUME FaultBound == MaxFaults \in Nat

VARIABLES book, queue, nonces, repository, usedNonces, rows, intents,
          task, arrived, sender, failed, faults

engineVars == <<book, queue, arrived, sender>>
storeVars == <<usedNonces, rows, intents>>
serviceVars == <<book, queue, nonces, repository, usedNonces, rows, intents,
                 task, arrived, sender, failed, faults>>

SignedOrder == [account : Accounts, nonce : Nat, side : Sides, price : Nat, size : Nat,
                tif : TimesInForce, postOnly : BOOLEAN, client : STRING]

ASSUME SignedOrdersAreOrders == SignedOrders \subseteq SignedOrder /\ NoOrder \notin SignedOrders

Row == [status : OrderStatuses, remaining : Nat]

(* What a call returns: SubmitOrderOutcome or the outcomes of a cancel *)
Outcome == [ok : BOOLEAN, resting : BOOLEAN, clients : SUBSET STRING]

NoOutcome == [ok |-> FALSE, resting |-> FALSE, clients |-> {}]

IdleTask == [pc |-> "idle", signed |-> NoOrder, id |-> 0, ids |-> {}, single |-> FALSE,
             rows |-> <<>>, intents |-> <<>>, outcome |-> NoOutcome]

NonceOf(signed) == <<signed.account, signed.nonce>>

ServiceInit ==
    /\ book = EmptyBook /\ queue = <<>> /\ nonces = {} /\ repository \in BOOLEAN
    /\ usedNonces = {} /\ rows = <<>> /\ intents = {}
    /\ task = [c \in Callers |-> IdleTask]
    /\ arrived = 0 /\ sender = <<>> /\ failed = {} /\ faults = 0

Return(c, outcome) == task' = [task EXCEPT ![c] = [IdleTask EXCEPT !.pc = "done", !.outcome = outcome]]

(***************************************************************************)
(* submit_signed_order                                                     *)
(***************************************************************************)
SubmitSignedOrder(c, signed) ==
    /\ task[c].pc = "idle"
    /\ task' = [task EXCEPT ![c].pc = "reserve", ![c].signed = signed]
    /\ UNCHANGED <<engineVars, storeVars, nonces, repository, failed, faults>>

(* Nonces inserted by transactions still open: a second insert waits for them *)
HeldNonces == {NonceOf(task[c].signed) : c \in {d \in Callers :
                    repository /\ task[d].pc \in {"process", "persist"} /\ task[d].signed # NoOrder}}

(* Mutant: the nonce is checked against committed rows only. *)
ReserveNonceWithoutLock(c) ==
    /\ task[c].pc = "reserve"
    /\ NonceOf(task[c].signed) \notin nonces \cup usedNonces
    /\ nonces' = IF repository THEN nonces ELSE nonces \cup {NonceOf(task[c].signed)}
    /\ task' = [task EXCEPT ![c].pc = "process"]
    /\ UNCHANGED <<engineVars, storeVars, repository, failed, faults>>

(* insert_nonce_tx, or NonceStore::reserve without a repository *)
ReserveNonce(c) ==
    /\ task[c].pc = "reserve"
    /\ NonceOf(task[c].signed) \notin HeldNonces \cup nonces \cup usedNonces
    /\ nonces' = IF repository THEN nonces ELSE nonces \cup {NonceOf(task[c].signed)}
    /\ task' = [task EXCEPT ![c].pc = "process"]
    /\ UNCHANGED <<engineVars, storeVars, repository, failed, faults>>

NonceAlreadyUsed(c) ==
    /\ task[c].pc = "reserve"
    /\ NonceOf(task[c].signed) \in nonces \cup usedNonces
    /\ Return(c, NoOutcome)
    /\ UNCHANGED <<engineVars, storeVars, nonces, repository, failed, faults>>

NewOrder(signed) ==
    [account |-> signed.account, nonce |-> signed.nonce, side |-> signed.side,
     price |-> signed.price, size |-> signed.size, remaining |-> signed.size,
     tif |-> signed.tif, postOnly |-> signed.postOnly, client |-> signed.client,
     status |-> "New"]

(* Mutant: the row stores what was filled in place of what is left. *)
RowOfFilled(order) == [status |-> order.status, remaining |-> order.size - order.remaining]

RowOf(order) == [status |-> order.status, remaining |-> order.remaining]

(***************************************************************************)
(* outcome_from_events: "resting" looks for any accepted or partially      *)
(* filled order with something left, the makers' events included.          *)
(***************************************************************************)
SubmitOutcome(res, id, signed) ==
    [ok |-> res.accepted,
     resting |-> /\ res.accepted
                 /\ \/ res.book.orders[id].remaining > 0
                    \/ \E i \in DOMAIN res.makers : res.book.orders[res.makers[i]].remaining > 0,
     clients |-> {signed.client}]

(* engine.process(SubmitOrder) under the mutex; every trade queues an intent *)
ProcessSubmit(c) ==
    LET id == arrived + 1
        signed == task[c].signed
        res == BookSubmit(book, id, NewOrder(signed))
        outcome == SubmitOutcome(res, id, signed)
        touched == {res.makers[i] : i \in DOMAIN res.makers}
                       \cup (IF res.accepted THEN {id} ELSE {})
    IN  /\ task[c].pc = "process"
        /\ arrived' = id
        /\ book' = res.book
        /\ queue' = queue \o res.trades
        /\ sender' = With(sender, id, c)
        /\ IF repository
           THEN task' = [task EXCEPT ![c].pc = "persist", ![c].id = id,
                                     ![c].rows = [o \in touched |-> RowOf(res.book.orders[o])],
                                     ![c].intents = res.trades, ![c].outcome = outcome]
           ELSE Return(c, outcome)
        /\ UNCHANGED <<storeVars, nonces, repository, failed, faults>>

(***************************************************************************)
(* persist_submission_tx and commit: the new order is inserted, the makers *)
(* updated; an UPDATE of a row that is not there changes nothing.          *)
(***************************************************************************)
RowsAfter(written, inserted) ==
    [o \in DOMAIN rows \cup (DOMAIN written \cap inserted) |->
        IF o \in DOMAIN written THEN written[o] ELSE rows[o]]

PersistSubmission(c) ==
    /\ task[c].pc = "persist" /\ task[c].signed # NoOrder
    /\ usedNonces' = usedNonces \cup {NonceOf(task[c].signed)}
    /\ rows' = RowsAfter(task[c].rows, {task[c].id})
    /\ intents' = intents \cup {task[c].intents[i] : i \in DOMAIN task[c].intents}
    /\ Return(c, task[c].outcome)
    /\ UNCHANGED <<engineVars, nonces, repository, failed, faults>>

(* The transaction fails or its commit does: everything it wrote is rolled back *)
PersistFails(c) ==
    /\ task[c].pc = "persist" /\ faults < MaxFaults
    /\ faults' = faults + 1
    /\ failed' = failed \cup (IF task[c].signed # NoOrder THEN {task[c].id} ELSE {})
    /\ Return(c, NoOutcome)
    /\ UNCHANGED <<engineVars, storeVars, nonces, repository>>

(***************************************************************************)
(* cancel_order and cancel_resting_orders: the ids are read under the      *)
(* engine's mutex, which is released before they are cancelled.            *)
(***************************************************************************)
RestingOf(account) == {id \in RestingOrders(book) : book.orders[id].account = account}

(* resolve_cancel_order_id: by order id, whatever its status *)
ResolveByOrderId(account) == {{id} : id \in {o \in DOMAIN book.orders : book.orders[o].account = account}}

(* or the oldest resting order under a client id *)
ResolveByClientId(account, client) ==
    LET found == {id \in RestingOf(account) : book.orders[id].client = client}
    IN  IF found = {} THEN {} ELSE {Min(found)}

Cancel(c, ids, single) ==
    /\ task[c].pc = "idle"
    /\ task' = [task EXCEPT ![c].pc = "cancel", ![c].ids = ids, ![c].single = single]
    /\ UNCHANGED <<engineVars, storeVars, nonces, repository, failed, faults>>

CancelEach(b, ids) == FoldSet(LAMBDA id, bk : BookCancel(bk, id), b, ids)

(* An id that is no longer open is an error of cancel_order, skipped by cancel_resting_orders *)
ProcessCancel(c) ==
    LET hits == task[c].ids \cap RestingOrders(book)
        after == CancelEach(book, hits)
        outcome == [ok |-> ~task[c].single \/ hits # {}, resting |-> FALSE,
                    clients |-> {book.orders[id].client : id \in hits}]
    IN  /\ task[c].pc = "cancel"
        /\ book' = after
        /\ IF repository /\ hits # {}
           THEN task' = [task EXCEPT ![c].pc = "persist", ![c].outcome = outcome,
                                     ![c].rows = [o \in hits |-> RowOf(after.orders[o])]]
           ELSE Return(c, outcome)
        /\ UNCHANGED <<queue, arrived, sender, storeVars, nonces, repository, failed, faults>>

(* persist_engine_events *)
PersistCancel(c) ==
    /\ task[c].pc = "persist" /\ task[c].signed = NoOrder
    /\ rows' = RowsAfter(task[c].rows, {})
    /\ Return(c, task[c].outcome)
    /\ UNCHANGED <<engineVars, usedNonces, intents, nonces, repository, failed, faults>>

(* A restart loses the engine, the nonce store and every call under way *)
RestartService ==
    /\ faults < MaxFaults
    /\ faults' = faults + 1
    /\ book' = EmptyBook /\ queue' = <<>> /\ nonces' = {}
    /\ task' = [c \in Callers |-> IdleTask]
    /\ UNCHANGED <<storeVars, repository, arrived, sender, failed>>

ServiceStep(c) ==
    \/ ReserveNonce(c) \/ NonceAlreadyUsed(c) \/ ProcessSubmit(c)
    \/ PersistSubmission(c) \/ PersistFails(c) \/ ProcessCancel(c) \/ PersistCancel(c)
================================================================================
