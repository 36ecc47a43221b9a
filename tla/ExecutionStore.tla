--------------------------- MODULE ExecutionStore ---------------------------
(***************************************************************************)
(* What one deployment keeps in the database for the preparation of        *)
(* executions and for the projection operations it excludes: the execution *)
(* requests, the reserved executor nonces, the operation lock, the reorg   *)
(* recovery row and the rebuild rows.  Every operator is one SQL statement *)
(* and so one atomic step; anything can happen between two statements.     *)
(*                                                                         *)
(* Of an execution request the columns that decide something are kept.     *)
(* Plan hash, calldata and signer are written together with the nonce; gas *)
(* limit and fees together with signing_payload_hash.  A payload or a      *)
(* signature is represented by the nonce it commits to.                    *)
(***************************************************************************)
EXTENDS Integers, ExecutionPhase

CONSTANTS Exec,      \* canonical execution ids of the deployment
          None,      \* an absent Option / SQL NULL / row
          MaxNonce,  \* bound: nonces that can be reserved are 0..MaxNonce
          MaxEpoch   \* bound: recoveries and rebuilds that can be started

VARIABLES req,       \* req[e]: the execution request, or None
          nonces,    \* nonces[n]: the execution nonce n is bound to, or None
          lock,      \* the operation lock of the deployment, or None
          reorg,     \* the reorg recovery row, or None
          rebuilds   \* rebuilds[k]: phase of the rebuild of epoch k, or None

Nonces == 0 .. MaxNonce
Epochs == 1 .. MaxEpoch

ExecutionRequestRow ==
    [phase : Phases, epoch : Nat \cup {None}, nonce : Nonces \cup {None},
     sim : {"ok", "reverted", None}, payload : Nonces \cup {None},
     sig : Nonces \cup {None}]

Operations == {"REORG", "REBUILD", "RECONCILIATION", "EXECUTION"}
OperationLock == [op : Operations, epoch : Nat]

\* The phases in which a recovery or a rebuild is under way are one value,
\* "Active": no decision in the code tells them apart.  Nor does any tell a
\* COMPLETE rebuild from a FAILED one: both are "Ended".
ReorgRecoveryState ==
    [epoch : Epochs, phase : {"Active", "Recovered", "Failed", "Manual"}]
RebuildPhases == {"Active", "Ended", "Manual"}

ASSUME StoreAssumption ==
    /\ MaxNonce \in Nat /\ MaxEpoch \in Nat
    /\ None \notin Nat /\ None \notin Exec
    /\ None \notin {"ok", "reverted"} \cup RebuildPhases
    /\ None \notin ExecutionRequestRow
    /\ None \notin OperationLock /\ None \notin ReorgRecoveryState

NewRequest == [phase |-> "Discovered", epoch |-> None, nonce |-> None,
               sim |-> None, payload |-> None, sig |-> None]

\* A sparse patch: a field that is None leaves the column as it is.
NoPatch == [epoch |-> None, nonce |-> None, sim |-> None,
            payload |-> None, sig |-> None]

Coalesce(new, old) == IF new = None THEN old ELSE new

Patched(r, to, patch) ==
    [phase   |-> to,
     epoch   |-> Coalesce(patch.epoch, r.epoch),
     nonce   |-> Coalesce(patch.nonce, r.nonce),
     sim     |-> Coalesce(patch.sim, r.sim),
     payload |-> Coalesce(patch.payload, r.payload),
     sig     |-> Coalesce(patch.sig, r.sig)]

-----------------------------------------------------------------------------
\* INSERT ... ON CONFLICT DO NOTHING.
InsertExecutionRequest(e) ==
    req' = [req EXCEPT ![e] = IF @ = None THEN NewRequest ELSE @]

\* Mutant: the UPDATE lacks "AND phase = $2".
UpdateAppliesAnyPhase(e, from, to) == CanTransition(from, to) /\ req[e] # None

UpdateApplies(e, from, to) ==
    /\ CanTransition(from, to)
    /\ req[e] # None
    /\ req[e].phase = from

UpdateExecutionPhase(e, from, to, patch) ==
    req' = IF UpdateApplies(e, from, to)
           THEN [req EXCEPT ![e] = Patched(@, to, patch)]
           ELSE req

\* The smallest nonce above every nonce ever reserved, whatever its status.
NextReserved == IF \A n \in Nonces : nonces[n] = None THEN 0
                ELSE 1 + CHOOSE n \in Nonces :
                            /\ nonces[n] # None
                            /\ \A m \in Nonces : nonces[m] # None => m <= n

\* Mutant: ON CONFLICT DO UPDATE instead of DO NOTHING.
NonceFreeAlways(n) == n \in Nonces

NonceFree(n) == n \in Nonces /\ nonces[n] = None

ReserveExecutorNonce(n, e) ==
    nonces' = IF NonceFree(n) THEN [nonces EXCEPT ![n] = e] ELSE nonces

-----------------------------------------------------------------------------
\* Mutant: a RECONCILIATION lock counts as left behind when no recovery is
\* in flight.
LockIsStaleReconciling ==
    /\ lock # None
    /\ lock.op = "RECONCILIATION"
    /\ reorg # None /\ reorg.phase # "Active"

\* Mutant: the EXECUTION lock is judged by any finished execution.
LockIsStaleAnyRow ==
    /\ lock # None
    /\ lock.op = "EXECUTION"
    /\ \E e \in Exec : req[e] # None /\ IsTerminal(req[e].phase)

\* The cleanup that precedes every acquisition.  Only the EXECUTION lock is
\* matched with its own operation by the epoch; a REORG or REBUILD lock is
\* judged by any finished operation of its kind, a RECONCILIATION lock never.
LockIsStale ==
    /\ lock # None
    /\ \/ /\ lock.op = "REORG"
          /\ reorg # None /\ reorg.phase \in {"Recovered", "Manual"}
       \/ /\ lock.op = "REBUILD"
          /\ \E k \in Epochs : rebuilds[k] \in {"Ended", "Manual"}
       \/ /\ lock.op = "EXECUTION"
          /\ \E e \in Exec : /\ req[e] # None
                             /\ req[e].epoch = lock.epoch
                             /\ IsTerminal(req[e].phase)

CleanupLock == lock' = IF LockIsStale THEN None ELSE lock

\* INSERT ... ON CONFLICT (deployment_id) DO NOTHING.
InsertLock(op, epoch) ==
    lock' = IF lock = None THEN [op |-> op, epoch |-> epoch] ELSE lock

\* Mutant: the DELETE names the deployment only.
ReleaseOperationLockOfAnyone(epoch) == lock' = None

\* DELETE ... WHERE holder_epoch = $2.
ReleaseOperationLock(epoch) ==
    lock' = IF lock # None /\ lock.epoch = epoch THEN None ELSE lock

StoreTypeOK ==
    /\ req \in [Exec -> ExecutionRequestRow \cup {None}]
    /\ nonces \in [Nonces -> Exec \cup {None}]
    /\ lock \in OperationLock \cup {None}
    /\ reorg \in ReorgRecoveryState \cup {None}
    /\ rebuilds \in [Epochs -> RebuildPhases \cup {None}]

StoreInit ==
    /\ req = [e \in Exec |-> None]
    /\ nonces = [n \in Nonces |-> None]
    /\ lock = None
    /\ reorg = None
    /\ rebuilds = [k \in Epochs |-> None]
=============================================================================
