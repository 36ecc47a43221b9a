-------------------------- MODULE OptionExecutionStore --------------------------
(***************************************************************************)
(* The rows behind the execution of an options trade: the status of the    *)
(* intent (option_execution_intents), its submitted transaction            *)
(* (option_execution_transactions; the unique index admits one, and        *)
(* nothing reads the failed ones) and, for trades of the order book, the   *)
(* correlation row written together with the intent.  An RFQ intent has    *)
(* no canonical execution id and no correlation.                           *)
(*                                                                         *)
(* Fees, gas and calldata are functions of the intent and the local signer *)
(* is deterministic, so [intent, nonce] stands for the bytes and their     *)
(* hash.  A second signature by a remote signer may have another hash,     *)
(* which the bound correlation refuses as it refuses another nonce.        *)
(***************************************************************************)
EXTENDS Naturals, FiniteSets, SequencesExt

CONSTANTS
    Intents,        \* rows of option_execution_intents
    Correlated,     \* those of order book fills
    None            \* no row, no hash

ASSUME IntentsAssumption == IsFiniteSet(Intents) /\ Correlated \subseteq Intents

VARIABLES
    status,     \* option_execution_intents.status
    row,        \* the 'submitted' row of option_execution_transactions
    corr        \* option_execution_correlations

storeVars == <<status, row, corr>>

Tx == [intent : Intents, nonce : Nat]

Statuses == {"SignaturesRequired", "CalldataReady", "BroadcastSubmitted",
             "BroadcastConfirmed", "BroadcastReverted", "BroadcastFailed"}

Unfinal == {"none", "pending", "receipt_missing", "receipt_error"}

Confirmations == Unfinal \cup {"mined_success", "mined_failed", "mined_reverted"}

Rows == [tx : Tx, conf : Confirmations]

ASSUME NoneAssumption ==
    None \notin Rows \cup Tx \cup Intents \cup Nat \cup Confirmations \cup {"worker", "operator"}

StoreInit ==
    /\ status = [i \in Intents |-> "SignaturesRequired"]
    /\ row = [i \in Intents |-> None]
    /\ corr = [i \in Correlated |-> [status |-> "AWAITING", tx |-> None]]

(* update_option_execution_intent_status: no condition on the old status *)
SetStatus(i, to) == status' = [status EXCEPT ![i] = to]

InsertSubmitted(tx) == row' = [row EXCEPT ![tx.intent] = [tx |-> tx, conf |-> "none"]]

(* update_option_execution_confirmation, unconditional too *)
PersistConfirmation(i, conf) == row' = [row EXCEPT ![i].conf = conf]

(* list_pending_option_execution_transactions, below its limit *)
ListPending ==
    SetToSeq({i \in Intents : row[i] # None /\ row[i].conf \in Unfinal})

(***************************************************************************)
(* attach_local_tx_identity and attach_tx_hash: the hash of an open        *)
(* correlation is written once.                                            *)
(***************************************************************************)
Open == {"AWAITING", "SUBMISSION_UNKNOWN", "SUBMITTED"}

(* Mutant: a bound hash is overwritten. *)
AnyHashAttaches(i, tx) == corr[i].status \in Open

MayAttach(i, tx) == corr[i].status \in Open /\ corr[i].tx \in {None, tx}

AttachLocalTxIdentity(i, tx) ==
    corr' = [corr EXCEPT ![i].tx = tx,
                         ![i].status = IF @ = "AWAITING" THEN "SUBMISSION_UNKNOWN" ELSE @]

AttachTxHash(i, tx) ==
    corr' = [corr EXCEPT ![i] = IF MayAttach(i, tx) THEN [status |-> "SUBMITTED", tx |-> tx] ELSE @]
=================================================================================
