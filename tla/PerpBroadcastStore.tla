--------------------------- MODULE PerpBroadcastStore ---------------------------
(***************************************************************************)
(* The tables the perp executor of the first generation writes: the status *)
(* of execution_intents, the durable envelopes of                          *)
(* execution_intent_broadcasts and the execution_transactions rows of the  *)
(* operator route.  Every operator is one SQL statement or transaction.    *)
(*                                                                         *)
(* The envelope of an intent is a function of the intent and of the nonce  *)
(* (fees and gas come from the configuration, the local signer is          *)
(* deterministic), so [intent, nonce] stands for raw_tx_hex and tx_hash.   *)
(* A remote signer may answer with another signature of the same fields;   *)
(* the stored bytes are what is sent, and they are stored once per intent. *)
(***************************************************************************)
EXTENDS Naturals, FiniteSets, SequencesExt

CONSTANTS
    Intents,        \* rows of execution_intents
    Cosigned,       \* those whose trade both parties have signed before the start
    None,           \* no execution_intent_broadcasts row; no request
    MaxAttempts,    \* rebroadcast_max_attempts
    BatchSize       \* rows a reconcile pass inspects

ASSUME StoreBounds ==
    /\ IsFiniteSet(Intents) /\ Cosigned \subseteq Intents
    /\ MaxAttempts \in Nat /\ BatchSize \in Nat \ {0}

VARIABLES
    status,     \* execution_intents.status
    cosigned,   \* intents whose two trade signatures are stored
    row,        \* execution_intent_broadcasts
    operatorTx  \* intents with a 'submitted' row in execution_transactions

storeVars == <<status, cosigned, row, operatorTx>>

Broadcastable == {"Pending", "CalldataReady", "SimulationOk"}

RetireEligible == {"Pending", "DryRun", "CalldataReady", "SimulationOk", "SimulationFailed"}

Statuses == RetireEligible \cup {"Prepared", "Submitted", "Confirmed", "Failed", "Abandoned"}

Unfinalized == {"Prepared", "Submitted"}

Tx == [intent : Intents, nonce : Nat]

Rows == [nonce : Nat, status : {"Prepared", "Submitted", "Confirmed", "Failed"}, attempts : Nat, order : Nat]

ASSUME NoRow == None \notin Rows

StoreInit ==
    /\ status = [i \in Intents |-> IF i \in Cosigned THEN "CalldataReady" ELSE "Pending"]
    /\ cosigned = Cosigned
    /\ row = [i \in Intents |-> None]
    /\ operatorTx = {}

Recorded == {i \in Intents : row[i] # None}

Envelope(i) == [intent |-> i, nonce |-> row[i].nonce]

SetStatus(i, to) == status' = [status EXCEPT ![i] = to]

(* Mutant: the table has no unique key on the nonce. *)
RivalNonceIsFree(i, nonce) == row[i] = None

(***************************************************************************)
(* record_prepared_transaction: the unique constraints refuse a second row *)
(* of the intent and a second row with the nonce.                          *)
(***************************************************************************)
NonceIsFree(i, nonce) ==
    row[i] = None /\ \A j \in Recorded : row[j].nonce # nonce

RecordPrepared(i, nonce) ==
    row' = [row EXCEPT ![i] = [nonce |-> nonce, status |-> "Prepared", attempts |-> 0,
                               order |-> Cardinality(Recorded)]]

BumpSendAttempt(i) == row' = [row EXCEPT ![i].attempts = @ + 1]

(* Mutant: the update has no WHERE on the status. *)
UnguardedMark(i, to) == row' = [row EXCEPT ![i].status = to] /\ SetStatus(i, to)

(***************************************************************************)
(* mark_intent_submitted, _confirmed, _failed: the broadcast row moves     *)
(* only out of Prepared and Submitted, the status of the intent always.    *)
(***************************************************************************)
Mark(i, to) ==
    /\ row' = [row EXCEPT ![i].status = IF @ \in Unfinalized THEN to ELSE @]
    /\ SetStatus(i, to)

(* Mutant: only Prepared rows are listed. *)
ListPrepared == SetToSeq({i \in Recorded : row[i].status = "Prepared"})

(* list_unfinalized_broadcasts, oldest envelope first: the k-th row of the *)
(* page is the open one with k - 1 older open ones                         *)
ListUnfinalized ==
    LET open     == {i \in Recorded : row[i].status \in Unfinalized}
        Older(i) == {j \in open : row[j].order < row[i].order}
        size     == Cardinality(open)
    IN  [k \in 1 .. (IF size < BatchSize THEN size ELSE BatchSize) |->
            CHOOSE i \in open : Cardinality(Older(i)) = k - 1]
================================================================================
