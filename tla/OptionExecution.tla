----------------------------- MODULE OptionExecution -----------------------------
(***************************************************************************)
(* Broadcast and confirmation of options trades: concurrent calls of       *)
(* broadcast_option_execution_intent, resubmission of signatures, the      *)
(* confirmation worker and the operator's confirm endpoint, which share    *)
(* the tables of OptionExecutionStore without a lock.                      *)
(***************************************************************************)
EXTENDS OptionExecutorChain

CONSTANTS
    Calls,          \* broadcast requests, one intent each
    MaxSignings,    \* bound: submissions of both signatures
    MaxByHand       \* bound: confirmations by the operator

ASSUME RequestBounds == MaxSignings \in Nat /\ MaxByHand \in Nat

VARIABLES
    call,       \* the broadcast calls
    pass,       \* the confirmation passes of the worker and of the operator
    signings,   \* signature submissions so far
    byHand,     \* confirmations by the operator so far
    blind,      \* history: intents sent after the read of their correlation failed
    finalBy     \* history: who recorded the final outcome of the row

callVars == <<call, signings, blind>>
passVars == <<pass, byHand, finalBy>>
vars == <<storeVars, chainVars, callVars, passVars>>

Idle == [at |-> "idle", head |-> None, queue |-> <<>>, decision |-> None]

NoCall(at) == [at |-> at, intent |-> None, read |-> None, tx |-> None]

Init ==
    /\ StoreInit /\ ChainInit
    /\ call = [c \in Calls |-> NoCall("new")]
    /\ pass = [p \in {"worker", "operator"} |-> Idle]
    /\ signings = 0 /\ byHand = 0 /\ blind = {}
    /\ finalBy = [i \in Intents |-> None]

At(c) == call[c].at
IntentOf(c) == call[c].intent

Goto(c, at) == call' = [call EXCEPT ![c].at = at]

Return(c) == call' = [call EXCEPT ![c] = NoCall("done")]

--------------------------------------------------------------------------------
(***************************************************************************)
(* submit_option_execution_signatures has no condition on the status.  It  *)
(* writes CalldataReady if it has both signatures, sent with the request   *)
(* or read before, and SignaturesRequired if it saw one only.              *)
(***************************************************************************)
SubmitSignatures(i) ==
    /\ signings < MaxSignings
    /\ signings' = signings + 1
    /\ \E ready \in {"CalldataReady", "SignaturesRequired"} : SetStatus(i, ready)
    /\ UNCHANGED <<row, corr, chainVars, call, blind, passVars>>

(***************************************************************************)
(* broadcast_option_execution_intent                                       *)
(***************************************************************************)
ReadIntent(c, i) ==
    /\ At(c) = "new"
    /\ call' = [call EXCEPT ![c] = [at |-> "gathering", intent |-> i, read |-> status[i], tx |-> None]]
    /\ UNCHANGED <<storeVars, chainVars, signings, blind, passVars>>

(* every refusal records a failed row that nothing reads, and this status *)
FailBroadcast(c) ==
    /\ SetStatus(IntentOf(c), "BroadcastFailed")
    /\ Return(c)

IsDuplicate(c) == row[IntentOf(c)] # None

(***************************************************************************)
(* should_broadcast with the dedupe inputs: a stored transaction ends the  *)
(* call, another reason fails the intent.  The policy's other inputs       *)
(* (margin, simulation, fees, product, data provider) may refuse at will,  *)
(* and those decided before the dedupe (data provider, drift, chain id) do *)
(* so although a transaction is stored.                                    *)
(***************************************************************************)
Decide(c) ==
    /\ At(c) = "gathering"
    /\ \/ IsDuplicate(c) /\ Return(c) /\ UNCHANGED status
       \/ FailBroadcast(c)
       \/ /\ ~IsDuplicate(c) /\ call[c].read = "CalldataReady"
          /\ call' = [call EXCEPT ![c].at = "approved", ![c].read = None]
          /\ UNCHANGED status
    /\ UNCHANGED <<row, corr, chainVars, signings, blind, passVars>>

(* gas check, nonce, signer; a refusal of the first or the last fails the intent *)
Sign(c) ==
    /\ At(c) = "approved"
    /\ \/ FailBroadcast(c)
       \/ /\ call' = [call EXCEPT ![c].at = "signed",
                                  ![c].tx = [intent |-> IntentOf(c), nonce |-> PendingNonce]]
          /\ UNCHANGED status
    /\ UNCHANGED <<row, corr, chainVars, signings, blind, passVars>>

(***************************************************************************)
(* The hash is bound to the correlation before the bytes leave.  A read    *)
(* that fails is taken for a missing correlation.                          *)
(***************************************************************************)
BindHash(c) ==
    LET i == IntentOf(c)
    IN  /\ At(c) = "signed"
        /\ \/ /\ i \in Correlated /\ MayAttach(i, call[c].tx)
              /\ AttachLocalTxIdentity(i, call[c].tx)
              /\ Goto(c, "bound")
              /\ UNCHANGED <<status, faults, blind>>
           \/ /\ i \in Correlated /\ ~MayAttach(i, call[c].tx)
              /\ FailBroadcast(c)
              /\ UNCHANGED <<corr, faults, blind>>
           \/ /\ i \notin Correlated
              /\ Goto(c, "bound")
              /\ UNCHANGED <<status, corr, faults, blind>>
           \/ /\ i \in Correlated /\ Fault
              /\ blind' = blind \cup {i}
              /\ Goto(c, "bound")
              /\ UNCHANGED <<status, corr>>
        /\ UNCHANGED <<row, mined, pool, head, peak, handed, succeeded, signings, passVars>>

SendRaw(c, reply) ==
    LET tx == call[c].tx
    IN  /\ At(c) = "bound"
        /\ Send(tx, reply)
        /\ CASE reply = "ok"    -> Goto(c, "accepted") /\ UNCHANGED <<status, row>>
             [] reply = "error" -> FailBroadcast(c) /\ UNCHANGED row
             [] OTHER           -> IF IsDuplicate(c)
                                   THEN Return(c) /\ UNCHANGED <<status, row>>
                                   ELSE InsertSubmitted(tx) /\ FailBroadcast(c)
        /\ UNCHANGED <<corr, signings, blind, passVars>>

(* the unique index refuses a second submitted row: the call ends in error *)
InsertRow(c) ==
    /\ At(c) = "accepted"
    /\ IF IsDuplicate(c) THEN Return(c) /\ UNCHANGED row
                         ELSE InsertSubmitted(call[c].tx) /\ Goto(c, "inserted")
    /\ UNCHANGED <<status, corr, chainVars, signings, blind, passVars>>

(***************************************************************************)
(* attach_tx_hash, whose failure is only logged, and the status of the     *)
(* intent: two statements, between which nothing reads what they write.    *)
(***************************************************************************)
FinishBroadcast(c) ==
    /\ At(c) = "inserted"
    /\ IF IntentOf(c) \in Correlated THEN AttachTxHash(IntentOf(c), call[c].tx) ELSE UNCHANGED corr
    /\ SetStatus(IntentOf(c), "BroadcastSubmitted")
    /\ Return(c)
    /\ UNCHANGED <<row, chainVars, signings, blind, passVars>>

--------------------------------------------------------------------------------
(***************************************************************************)
(* confirm_pending_option_execution_transactions: one head for the tick,   *)
(* then the list, then receipt, row and status of each transaction.  The   *)
(* operator's confirm_option_execution_intent does one row without a head. *)
(***************************************************************************)
Moves(p, to) == pass' = [pass EXCEPT ![p] = to]

ReadHead ==
    /\ pass["worker"].at = "idle"
    /\ \/ Moves("worker", [Idle EXCEPT !.at = "listing", !.head = head]) /\ UNCHANGED faults
       \/ Fault /\ Moves("worker", [Idle EXCEPT !.at = "listing"])
    /\ UNCHANGED <<storeVars, mined, pool, head, peak, handed, succeeded, callVars, byHand, finalBy>>

NextRow(p, queue) ==
    IF queue = <<>> THEN Moves(p, Idle)
    ELSE Moves(p, [pass[p] EXCEPT !.at = "asking", !.queue = queue, !.decision = None])

ListRows ==
    /\ pass["worker"].at = "listing"
    /\ NextRow("worker", ListPending)
    /\ UNCHANGED <<storeVars, chainVars, callVars, byHand, finalBy>>

ConfirmByHand(i) ==
    /\ pass["operator"].at = "idle"
    /\ row[i] # None
    /\ byHand < MaxByHand /\ byHand' = byHand + 1
    /\ NextRow("operator", <<i>>)
    /\ UNCHANGED <<storeVars, chainVars, callVars, finalBy>>

(* Mutant: one block of finality too few. *)
EarlyDecision(seen, r) ==
    IF seen = None \/ seen + 1 < r.block + Finality THEN "pending"
    ELSE IF r.ok THEN "mined_success" ELSE "mined_failed"

(* compute_worker_decision on a receipt r that names its block *)
WorkerDecision(seen, r) ==
    IF seen = None \/ seen < r.block + Finality THEN "pending"
    ELSE IF r.ok THEN "mined_success" ELSE "mined_failed"

(* Mutant: the status of the receipt is ignored. *)
AnyReceiptSucceeds(r) == "mined_success"

OperatorDecision(r) == IF r.ok THEN "mined_success" ELSE "mined_reverted"

ReadReceipt(p) ==
    LET receipt == Receipt(row[Head(pass[p].queue)].tx)
        Decided(d) == Moves(p, [pass[p] EXCEPT !.at = "deciding", !.decision = d])
    IN  /\ pass[p].at = "asking"
        /\ \/ receipt = {} /\ Decided("receipt_missing") /\ UNCHANGED faults
           \/ /\ \E r \in receipt :
                    Decided(IF p = "worker" THEN WorkerDecision(pass[p].head, r) ELSE OperatorDecision(r))
              /\ UNCHANGED faults
           \/ Fault /\ Decided("receipt_error")
        /\ UNCHANGED <<storeVars, mined, pool, head, peak, handed, succeeded, callVars, byHand, finalBy>>

ApplyDecision(p) ==
    LET i == Head(pass[p].queue)
        d == pass[p].decision
    IN  /\ pass[p].at = "deciding"
        /\ PersistConfirmation(i, d)
        /\ finalBy' = [finalBy EXCEPT ![i] = IF d \in Unfinal THEN None ELSE p]
        /\ IF d \in Unfinal THEN NextRow(p, Tail(pass[p].queue))
                            ELSE Moves(p, [pass[p] EXCEPT !.at = "applied"])
        /\ UNCHANGED <<status, corr, chainVars, callVars, byHand>>

StatusOf(decision) ==
    CASE decision = "mined_success"  -> "BroadcastConfirmed"
      [] decision = "mined_failed"   -> "BroadcastFailed"
      [] decision = "mined_reverted" -> "BroadcastReverted"

ApplyStatus(p) ==
    /\ pass[p].at = "applied"
    /\ SetStatus(Head(pass[p].queue), StatusOf(pass[p].decision))
    /\ NextRow(p, Tail(pass[p].queue))
    /\ UNCHANGED <<row, corr, chainVars, callVars, byHand, finalBy>>

Crash ==
    /\ Fault
    /\ call' = [c \in Calls |-> NoCall(IF At(c) = "new" THEN "new" ELSE "done")]
    /\ pass' = [p \in DOMAIN pass |-> Idle]
    /\ UNCHANGED <<storeVars, mined, pool, head, peak, handed, succeeded, signings, blind, byHand, finalBy>>

--------------------------------------------------------------------------------
Broadcast(c) ==
    \/ \E i \in Intents : ReadIntent(c, i)
    \/ Decide(c) \/ Sign(c) \/ BindHash(c)
    \/ \E reply \in {"ok", "mismatch", "error"} : SendRaw(c, reply)
    \/ InsertRow(c) \/ FinishBroadcast(c)

Confirm(p) == ReadReceipt(p) \/ ApplyDecision(p) \/ ApplyStatus(p)

Worker == ReadHead \/ ListRows \/ Confirm("worker")

Operator == \/ \E i \in Intents : ConfirmByHand(i)
            \/ Confirm("operator")

Chain ==
    /\ \/ \E tx \in pool, ok \in BOOLEAN : Mine(tx, ok)
       \/ EmptyBlock
       \/ \E height \in 0 .. MaxHead : Reorg(height)
    /\ UNCHANGED <<storeVars, callVars, passVars>>

Next ==
    \/ \E i \in Intents : SubmitSignatures(i)
    \/ \E c \in Calls : Broadcast(c)
    \/ Worker \/ Operator \/ Chain \/ Crash

Spec == Init /\ [][Next]_vars

--------------------------------------------------------------------------------
CallAts == {"new", "gathering", "approved", "signed", "bound", "accepted", "inserted", "done"}

PassAts == {"idle", "listing", "asking", "deciding", "applied"}

(* The tables, the chain, the calls and the passes keep their types. *)
TypeOK ==
    /\ status \in [Intents -> Statuses]
    /\ row \in [Intents -> Rows \cup {None}]
    /\ corr \in [Correlated -> [status : Open, tx : Tx \cup {None}]]
    /\ mined \in Seq([tx : Tx, ok : BOOLEAN, block : Nat])
    /\ pool \subseteq Tx /\ IsFiniteSet(pool) /\ handed \subseteq Tx /\ succeeded \subseteq Tx
    /\ peak \in 0 .. MaxHead /\ head \in 0 .. peak /\ faults \in 0 .. MaxFaults
    /\ call \in [Calls -> [at : CallAts, intent : Intents \cup {None}, read : Statuses \cup {None}, tx : Tx \cup {None}]]
    /\ \A c \in Calls : At(c) \notin {"new", "done"} => IntentOf(c) \in Intents
    /\ signings \in 0 .. MaxSignings /\ blind \subseteq Intents
    /\ pass \in [{"worker", "operator"} ->
                    [at : PassAts, head : Nat \cup {None}, queue : Seq(Intents), decision : Confirmations \cup {None}]]
    /\ byHand \in 0 .. MaxByHand /\ finalBy \in [Intents -> {"worker", "operator", None}]

(***************************************************************************)
(* Whatever calls overlap, fail, crash or are repeated, every transaction  *)
(* the node was given for a trade of the order book carries the hash that  *)
(* its correlation bound before: one trade, one hash.  The exception is a  *)
(* call that could not read the correlation and sent without binding.      *)
(***************************************************************************)
HandedIsBound ==
    \A tx \in handed :
        tx.intent \in Correlated \ blind => corr[tx.intent].tx = tx

(***************************************************************************)
(* What the worker records as mined is settled: although the head, the     *)
(* receipt and the row are read and written apart from each other while    *)
(* the chain forks, the transaction stays on the chain with that outcome.  *)
(***************************************************************************)
FinalIsPermanent ==
    \A i \in Intents :
        finalBy[i] = "worker" /\ row[i].conf \in {"mined_success", "mined_failed"}
            => \E r \in Receipt(row[i].tx) : r.ok = (row[i].conf = "mined_success")

(***************************************************************************)
(* An intent is BroadcastConfirmed only if the transaction of its row was  *)
(* mined with success, whichever of the two confirmers wrote it and        *)
(* whatever broadcasters wrote in between.                                 *)
(***************************************************************************)
ConfirmedSucceeded ==
    \A i \in Intents :
        status[i] = "BroadcastConfirmed" => row[i] # None /\ row[i].tx \in succeeded
==================================================================================
