------------------------------- MODULE MmGateway -------------------------------
(***************************************************************************)
(* The market-maker gateway (mm/service.rs) over the order service: the    *)
(* HTTP order routes answer PerpsNotLive, so its sessions are the callers. *)
(* A session handles one message at a time (webtransport.rs runs the       *)
(* handler inside its loop, a disconnect is seen after it), keeps the      *)
(* client ids of its open orders and of its quotes, and cancels the former *)
(* when it ends.                                                           *)
(*                                                                         *)
(*   session[s].call   what the service call under way is for              *)
(*   session[s].todo   orders of a bulk or of a quote still to be sent     *)
(*                                                                         *)
(* Sessions use MM_GATEWAY_AUTH_MODE=disabled: "auth" binds the account,   *)
(* again at any time, and cancel_on_disconnect keeps its default, true.    *)
(* Rate limits, permissions and heartbeats only refuse messages and are    *)
(* left out; a bulk_cancel is cancel_order repeated.                       *)
(***************************************************************************)
EXTENDS OrderService, Functions

CONSTANTS
    NoAccount,      \* a session that has not bound an account
    Batches,        \* order sequences a client may submit in one message
    Quotes,         \* legs of the quotes a client may replace
    MaxOpen,        \* max_open_orders_per_account
    MaxMessages     \* bound: messages of the clients

ASSUME GatewayBounds == MaxOpen \in Nat /\ MaxMessages \in Nat

ASSUME ClientInputs ==
    /\ NoAccount \notin Accounts
    /\ Batches \subseteq Seq(SignedOrders) /\ Quotes \subseteq Seq(SignedOrders) \ {<<>>}

VARIABLES session, messages

vars == <<serviceVars, session, messages>>

Sessions == Callers

NewSession == [live |-> TRUE, account |-> NoAccount, open |-> {}, quotes |-> {}, call |-> "none", todo |-> <<>>, quoting |-> FALSE]

Init == ServiceInit /\ session = [s \in Sessions |-> NewSession] /\ messages = 0

(* The session's loop waits for a message *)
Ready(s) == /\ session[s].live /\ task[s].pc = "idle"
            /\ session[s].call = "none" /\ session[s].todo = <<>>

Receive(s) == Ready(s) /\ messages < MaxMessages /\ messages' = messages + 1

Auth(s, account) ==
    /\ Receive(s)
    /\ session[s].account # account
    /\ session' = [session EXCEPT ![s].account = account]
    /\ UNCHANGED serviceVars

(***************************************************************************)
(* submit_order and bulk_submit.  A bulk of more than one order is weighed *)
(* against the session's own list of open client ids first.                *)
(***************************************************************************)
CheckOpenOrders(current, additional) == current + additional <= MaxOpen

SubmitOrders(s, batch) ==
    /\ Receive(s)
    /\ Len(batch) > 1 => CheckOpenOrders(Cardinality(session[s].open), Len(batch))
    /\ session' = [session EXCEPT ![s].todo = batch, ![s].quoting = FALSE]
    /\ UNCHANGED serviceVars

(* session_account: the payload's account must be the session's, or binds it *)
SessionAccepts(s, account) == session[s].account \in {NoAccount, account}

(* submit_payload: permissions, then the account's resting orders in the engine *)
SubmitPayload(s) ==
    LET signed == Head(session[s].todo)
    IN  /\ session[s].call = "none" /\ session[s].todo # <<>>
        /\ SessionAccepts(s, signed.account)
        /\ CheckOpenOrders(Cardinality(RestingOf(signed.account)), 1)
        /\ session' = [session EXCEPT ![s].account = signed.account,
                                      ![s].call = "submit", ![s].todo = Tail(@)]
        /\ SubmitSignedOrder(s, signed)
        /\ UNCHANGED messages

RefusePayload(s) ==
    LET signed == Head(session[s].todo)
    IN  /\ session[s].call = "none" /\ session[s].todo # <<>>
        /\ \/ ~SessionAccepts(s, signed.account)
           \/ ~CheckOpenOrders(Cardinality(RestingOf(signed.account)), 1)
        /\ session' = [session EXCEPT ![s].todo = Tail(@),
                                      ![s].account = IF @ = NoAccount THEN signed.account ELSE @]
        /\ UNCHANGED <<serviceVars, messages>>

(* Mutant: only an order that did not trade at all is registered. *)
RegisterUntraded(s) ==
    /\ session[s].call = "submit" /\ task[s].pc = "done"
    /\ LET added == IF task[s].outcome.ok /\ task[s].outcome.resting /\ queue = <<>>
                    THEN task[s].outcome.clients ELSE {}
       IN  session' = [session EXCEPT ![s].call = "none", ![s].open = @ \cup added,
                                      ![s].quotes = @ \cup (IF session[s].quoting THEN added ELSE {})]
    /\ task' = [task EXCEPT ![s] = IdleTask]
    /\ UNCHANGED <<engineVars, storeVars, nonces, repository, failed, faults, messages>>

(* The outcome of a submission: an accepted, resting order is registered *)
RegisterOpen(s) ==
    /\ session[s].call = "submit" /\ task[s].pc = "done"
    /\ LET added == IF task[s].outcome.ok /\ task[s].outcome.resting
                    THEN task[s].outcome.clients ELSE {}
       IN  session' = [session EXCEPT ![s].call = "none", ![s].open = @ \cup added,
                                      ![s].quotes = @ \cup (IF session[s].quoting THEN added ELSE {})]
    /\ task' = [task EXCEPT ![s] = IdleTask]
    /\ UNCHANGED <<engineVars, storeVars, nonces, repository, failed, faults, messages>>

(***************************************************************************)
(* cancel_order, cancel_all, and quote_replace with its cancel_previous    *)
(***************************************************************************)
CancelOrder(s) ==
    /\ Receive(s) /\ session[s].account # NoAccount
    /\ \/ \E ids \in ResolveByOrderId(session[s].account) : Cancel(s, ids, TRUE)
       \/ \E client \in {signed.client : signed \in SignedOrders} :
             LET ids == ResolveByClientId(session[s].account, client)
             IN  ids # {} /\ Cancel(s, ids, TRUE)
    /\ session' = [session EXCEPT ![s].call = "cancel"]

CancelAll(s) ==
    /\ Receive(s) /\ session[s].account # NoAccount
    /\ Cancel(s, RestingOf(session[s].account), FALSE)
    /\ session' = [session EXCEPT ![s].call = "cancel"]

WithClients(account, clients) == {id \in RestingOf(account) : book.orders[id].client \in clients}

(* The legs follow one by one through SubmitPayload once the old quotes are cancelled *)
QuoteReplace(s, legs, cancelPrevious) ==
    LET account == legs[1].account
    IN  /\ Receive(s) /\ SessionAccepts(s, account)
        /\ session' = [session EXCEPT ![s].account = account, ![s].todo = legs, ![s].quoting = TRUE,
                                      ![s].call = IF cancelPrevious THEN "cancel" ELSE "none"]
        /\ IF cancelPrevious THEN Cancel(s, WithClients(account, session[s].quotes), FALSE)
                             ELSE UNCHANGED serviceVars

(* The cancelled client ids are forgotten; a failed cancel drops the legs of a quote *)
CancelReturns(s) ==
    /\ session[s].call = "cancel" /\ task[s].pc = "done"
    /\ session' = [session EXCEPT ![s].call = "none",
                                  ![s].open = @ \ task[s].outcome.clients,
                                  ![s].quotes = @ \ task[s].outcome.clients,
                                  ![s].todo = IF task[s].outcome.ok THEN @ ELSE <<>>]
    /\ task' = [task EXCEPT ![s] = IdleTask]
    /\ UNCHANGED <<engineVars, storeVars, nonces, repository, failed, faults, messages>>

(***************************************************************************)
(* cancel_on_disconnect, after the handler of the last message             *)
(***************************************************************************)
DisconnectCancelling(s) ==
    /\ Ready(s)
    /\ session[s].account # NoAccount /\ session[s].open # {}
    /\ Cancel(s, WithClients(session[s].account, session[s].open), FALSE)
    /\ session' = [session EXCEPT ![s].call = "disconnect"]
    /\ UNCHANGED messages

DisconnectPlainly(s) ==
    /\ Ready(s)
    /\ session[s].account = NoAccount \/ session[s].open = {}
    /\ session' = [session EXCEPT ![s].live = FALSE]
    /\ UNCHANGED <<serviceVars, messages>>

Disconnected(s) ==
    /\ session[s].call = "disconnect" /\ task[s].pc = "done"
    /\ session' = [session EXCEPT ![s].live = FALSE, ![s].call = "none"]
    /\ task' = [task EXCEPT ![s] = IdleTask]
    /\ UNCHANGED <<engineVars, storeVars, nonces, repository, failed, faults, messages>>

Restart ==
    /\ RestartService
    /\ session' = [s \in Sessions |-> NewSession]
    /\ UNCHANGED messages

Next ==
    \/ \E s \in Sessions :
         \/ \E account \in Accounts : Auth(s, account)
         \/ \E batch \in Batches : SubmitOrders(s, batch)
         \/ \E legs \in Quotes, previous \in BOOLEAN : QuoteReplace(s, legs, previous)
         \/ SubmitPayload(s) \/ RefusePayload(s) \/ RegisterOpen(s)
         \/ CancelOrder(s) \/ CancelAll(s) \/ CancelReturns(s)
         \/ DisconnectCancelling(s) \/ DisconnectPlainly(s) \/ Disconnected(s)
         \/ ServiceStep(s) /\ UNCHANGED <<session, messages>>
    \/ Restart

Spec == Init /\ [][Next]_vars
--------------------------------------------------------------------------------
(* Type invariant. *)
TypeOK ==
    /\ DOMAIN book.orders \subseteq 1..arrived /\ RestingOrders(book) \subseteq DOMAIN book.orders
    /\ \A id \in DOMAIN book.orders :
          book.orders[id].status \in OrderStatuses /\ book.orders[id].remaining \in Nat
    /\ \A t \in Range(queue) : t.size \in Nat \ {0}
    /\ repository \in BOOLEAN /\ arrived \in Nat /\ messages \in 0..MaxMessages
    /\ \A id \in DOMAIN rows : rows[id] \in Row
    /\ failed \subseteq 1..arrived /\ faults \in 0..MaxFaults
    /\ \A s \in Sessions : session[s].account \in Accounts \cup {NoAccount}

(***************************************************************************)
(* The best bid is below the best ask: whatever the interleaving of        *)
(* submissions and cancels, no two resting orders could trade (submit      *)
(* matches before it rests, an emptied level disappears).                  *)
(***************************************************************************)
BookNotCrossed ==
    \A bid \in DOMAIN book.levels["Buy"], ask \in DOMAIN book.levels["Sell"] : bid < ask

(***************************************************************************)
(* The three views of the book agree: a level holds exactly the orders     *)
(* located there, each once and in order of arrival, no level is empty,    *)
(* and an order rests exactly when something of it is left - so a          *)
(* cancelled, filled or immediate-or-cancel order can never trade again.   *)
(***************************************************************************)
LevelsAndLocationsAgree ==
    /\ \A side \in Sides : \A p \in DOMAIN book.levels[side] :
          LET level == book.levels[side][p]
          IN  /\ level # <<>>
              /\ Range(level) = {id \in RestingOrders(book) :
                                    book.locations[id] = [side |-> side, price |-> p]}
              /\ \A i, j \in DOMAIN level : i < j => level[i] < level[j]
    /\ \A id \in RestingOrders(book) :
          book.locations[id].price \in DOMAIN book.levels[book.locations[id].side]
    /\ RestingOrders(book) =
          {id \in DOMAIN book.orders : /\ book.orders[id].tif = "Gtc"
                                       /\ book.orders[id].remaining > 0
                                       /\ book.orders[id].status # "Rejected"}

(* Size of the trades an order took part in since the engine started *)
TradedIn(trades, id) ==
    SumFunctionOnSet([i \in DOMAIN trades |-> trades[i].size],
                     {i \in DOMAIN trades : id \in {trades[i].maker, trades[i].taker}})

Traded(id) == TradedIn(queue, id)

(***************************************************************************)
(* What left an open or filled order is exactly what it traded: fills are  *)
(* neither lost nor counted twice between the taker, the makers and the    *)
(* intents in the execution queue.                                         *)
(***************************************************************************)
FillsAreConserved ==
    \A id \in DOMAIN book.orders :
       LET order == book.orders[id]
       IN  /\ Traded(id) <= order.size
           /\ id \in RestingOrders(book) \/ order.status = "Filled"
                 => order.size - order.remaining = Traded(id)

(***************************************************************************)
(* A stored order row never shows less left than the engine has: rows are  *)
(* written after the fact and in any order, so they can lag, but a client  *)
(* that reads them never sees a fill or a cancel that did not happen.      *)
(***************************************************************************)
StoredRowsNeverAhead ==
    \A id \in DOMAIN rows \cap DOMAIN book.orders :
       rows[id].remaining >= book.orders[id].remaining

(***************************************************************************)
(* Cancel on disconnect: once a session has ended, an order it sent rests  *)
(* only if its submission returned an error after the engine took it, if   *)
(* the session is bound to another account, or if an order under the same  *)
(* client id, of this or of another account, has been cancelled (that made *)
(* the session forget both: it keeps client ids without their account).    *)
(***************************************************************************)
DisconnectCancels ==
    \A s \in Sessions :
       ~session[s].live =>
          \A id \in RestingOrders(book) :
             sender[id] = s =>
                \/ id \in failed
                \/ book.orders[id].account # session[s].account
                \/ \E o \in DOMAIN book.orders \ {id} :
                      /\ book.orders[o].status = "Cancelled"
                      /\ book.orders[o].client = book.orders[id].client

(***************************************************************************)
(* Price-time priority: when a step trades against a maker, every resting  *)
(* order of its side at a better price, or earlier at the same price, is   *)
(* completely filled by that same step.                                    *)
(***************************************************************************)
Beats(b, o, maker) ==
    LET mine == b.orders[o]
        other == b.orders[maker]
    IN  /\ mine.side = other.side
        /\ \/ mine.side = "Buy" /\ mine.price > other.price
           \/ mine.side = "Sell" /\ mine.price < other.price
           \/ mine.price = other.price /\ o < maker

PriceTimePriority ==
    [][\A i \in DOMAIN queue' \ DOMAIN queue :
          \A o \in RestingOrders(book) :
             Beats(book, o, queue'[i].maker) => book'.orders[o].status = "Filled"]_vars

(***************************************************************************)
(* A signed order is taken once: the engine takes a second order of the    *)
(* same account and nonce only when the call that brought the first one    *)
(* returned an error after the engine had run - its transaction, and the   *)
(* used_nonces row in it, were rolled back while the book kept the order.  *)
(***************************************************************************)
SignedOrderOnce ==
    \A first, second \in DOMAIN book.orders :
       first < second /\ NonceOf(book.orders[first]) = NonceOf(book.orders[second])
          => first \in failed
================================================================================
