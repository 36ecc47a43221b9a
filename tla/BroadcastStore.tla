--------------------------- MODULE BroadcastStore ---------------------------
(***************************************************************************)
(* The table hybrid_v2_broadcast_state and the four store calls that the   *)
(* broadcast pipeline makes on it.  Each call is one SQL statement, hence  *)
(* one atomic step; everything between two calls can interleave.           *)
(*                                                                         *)
(* Columns no decision of the pipeline reads (gas figures, provider        *)
(* classification, confirmation_count, time stamps other than              *)
(* last_submission_at_ms) are left out.  first_submission_at_ms is only    *)
(* read when last_submission_at_ms is NULL, and the two are set together.  *)
(* The four receipt_* columns are always written together: field rcpt.     *)
(***************************************************************************)
EXTENDS Naturals, BroadcastPhase

CONSTANTS Exec,  \* canonical execution ids
          None   \* an absent Option / SQL NULL

VARIABLE row    \* row[e]: the broadcast row of execution e, or None

Failures == {"SERIALIZATION_FAILED", "FIREWALL_REJECTED", "PROVIDER_REJECTED",
             "PROVIDER_HASH_MISMATCH", "NONCE_CONFLICT", "TRANSPORT_AMBIGUOUS",
             "MINED_REVERTED", "RECEIPT_HASH_MISMATCH", "REORG_NONCE_STOLEN",
             "ADMIN_MANUAL_INTERVENTION"}

Canonicalities == {"UNKNOWN", "CANONICAL", "ORPHANED"}

\* A receipt names the block (height and fork, which stand for the block
\* hash) that includes the transaction, and the execution status.
Receipts == [n : Nat, fork : Nat, status : {0, 1}]

BroadcastStateRow ==
    [phase : Phases, tx : Exec \cup {None}, attempts : Nat,
     lastSub : Nat \cup {None}, rcpt : Receipts \cup {None},
     canon : Canonicalities, reorgs : Nat, fail : Failures \cup {None}]

ASSUME NoneAssumption ==
    /\ None \notin Exec \cup Nat
    /\ None \notin Receipts /\ None \notin BroadcastStateRow

NewRow == [phase |-> "BroadcastDisabled", tx |-> None, attempts |-> 0,
           lastSub |-> None, rcpt |-> None, canon |-> "UNKNOWN",
           reorgs |-> 0, fail |-> None]

\* A sparse patch: a field that is None leaves the column as it is.
BroadcastStatePatch ==
    [attempts : Nat \cup {None}, lastSub : Nat \cup {None},
     rcpt : Receipts \cup {None}, canon : Canonicalities \cup {None},
     reorgs : Nat \cup {None}, fail : Failures \cup {None}]

NoPatch == [attempts |-> None, lastSub |-> None, rcpt |-> None,
            canon |-> None, reorgs |-> None, fail |-> None]

Coalesce(new, old) == IF new = None THEN old ELSE new

\* Mutant: the COALESCE around canonicality_state is missing.
PatchedOverwriting(r, to, patch) ==
    [phase |-> to, tx |-> r.tx,
     attempts |-> Coalesce(patch.attempts, r.attempts),
     lastSub  |-> Coalesce(patch.lastSub, r.lastSub),
     rcpt     |-> Coalesce(patch.rcpt, r.rcpt),
     canon    |-> patch.canon,
     reorgs   |-> Coalesce(patch.reorgs, r.reorgs),
     fail     |-> Coalesce(patch.fail, r.fail)]

Patched(r, to, patch) ==
    [phase |-> to, tx |-> r.tx,
     attempts |-> Coalesce(patch.attempts, r.attempts),
     lastSub  |-> Coalesce(patch.lastSub, r.lastSub),
     rcpt     |-> Coalesce(patch.rcpt, r.rcpt),
     canon    |-> Coalesce(patch.canon, r.canon),
     reorgs   |-> Coalesce(patch.reorgs, r.reorgs),
     fail     |-> Coalesce(patch.fail, r.fail)]

PhaseOf(e) == IF row[e] = None THEN "BroadcastDisabled" ELSE row[e].phase

-----------------------------------------------------------------------------
\* INSERT ... ON CONFLICT DO NOTHING.
InsertBroadcastState(e) ==
    row' = [row EXCEPT ![e] = IF @ = None THEN NewRow ELSE @]

\* Mutant: the UPDATE lacks "AND phase = $2".
UpdateAppliesAnyPhase(e, from, to) == CanTransition(from, to) /\ row[e] # None

\* The update is refused before the database is touched when the edge is
\* illegal, and applies only if the row is still in phase `from`.
UpdateApplies(e, from, to) ==
    /\ CanTransition(from, to)
    /\ row[e] # None
    /\ row[e].phase = from

UpdateBroadcastPhase(e, from, to, patch) ==
    row' = IF UpdateApplies(e, from, to)
           THEN [row EXCEPT ![e] = Patched(@, to, patch)]
           ELSE row

\* A hash once written only matches itself.
TxHashWritable(e, h) == row[e] # None /\ row[e].tx \in {None, h}

\* Mutant: the hash is kept in memory only.
SetBroadcastTxHashNowhere(e, h) == row' = row

SetBroadcastTxHash(e, h) ==
    row' = IF TxHashWritable(e, h)
           THEN [row EXCEPT ![e] = [@ EXCEPT !.tx = h]]
           ELSE row

StoreTypeOK == row \in [Exec -> BroadcastStateRow \cup {None}]
=============================================================================
