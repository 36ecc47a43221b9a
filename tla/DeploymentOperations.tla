------------------------ MODULE DeploymentOperations ------------------------
(***************************************************************************)
(* One deployment: concurrent calls of the execution orchestrator, the     *)
(* projection operations, and the lock that is to keep them apart.         *)
(***************************************************************************)
EXTENDS ProjectionOperations

vars == <<storeVars, drive, now, asked, op>>

Init ==
    /\ StoreInit
    /\ OrchestratorInit
    /\ op = [o \in Ops |-> None]

Next ==
    \/ OrchestratorNext /\ UNCHANGED op
    \/ \E o \in Ops : OpStart(o) \/ OpStep(o) \/ OpAbandon(o)

Spec == Init /\ [][Next]_vars

\* The indexer worker calls recover on every tick while a reorganisation is
\* unresolved, its calls make progress, a recovery that is tried again and
\* again meets a node that answers, and the process does not stop in the
\* middle of a recovery for ever and ever.
RecoverSucceeds(o) == RecoverWork(o) /\ reorg'.phase = "Recovered"

StopsMidway(o) == OpAbandon(o) /\ op[o].pc \in {"cleanup", "start", "work"}

FairSpec ==
    /\ Spec
    /\ \A o \in Recoverers : /\ WF_vars(OpStart(o))
                             /\ WF_vars(OpStep(o))
                             /\ SF_vars(RecoverSucceeds(o))
    /\ <>[][\A o \in Ops : ~StopsMidway(o)]_vars

-----------------------------------------------------------------------------
TypeOK ==
    /\ StoreTypeOK
    /\ drive \in [Drives -> Drive \cup {None}]
    /\ now \in Nat
    /\ asked \in [Exec -> Seq(Nonces \cup {None})]
    /\ op \in [Ops -> Operation \cup {None}]

\* A nonce on a row is reserved for that row, so that no two executions can
\* be signed for the same slot of the executor's account, however the calls
\* that reserve, crash and repeat are interleaved.
NonceIsOwned ==
    \A e \in Exec : req[e] # None /\ req[e].nonce # None =>
                        nonces[req[e].nonce] = e

\* The signer is asked at most once for an execution, whatever crashes, is
\* repeated or races: the row leaves AwaitingSignature before the signer is
\* asked and no call enters Signing from outside.
SignedAtMostOnce == \A e \in Exec : Len(asked[e]) <= 1

\* The cancellation of an execution, which takes no lock, and its signing
\* exclude each other.
CancelledIsUnsigned ==
    \A e \in Exec : req[e] # None /\ req[e].phase = "Cancelled" =>
                        asked[e] = << >>

\* What the broadcast pipeline takes for granted of the rows it is given: a
\* prepared execution was simulated and carries the one signature the signer
\* gave for it, of the payload priced for its own nonce, although fail_from
\* walks rows without a payload through AwaitingSignature and Signing.
PreparedIsSigned ==
    \A e \in Exec :
        req[e] # None /\ req[e].phase \in {"SignatureVerified",
                            "ReadyForBroadcast", "BroadcastDisabled"} =>
            /\ asked[e] = <<req[e].nonce>>
            /\ req[e].sig = req[e].nonce
            /\ req[e].sim = "ok" /\ req[e].payload = req[e].nonce
            /\ nonces[req[e].nonce] = e

\* An execution that was started in millisecond k is finished.
FinishedUnder(k) ==
    \E e \in Exec : req[e] # None /\ req[e].epoch = k /\ IsTerminal(req[e].phase)

\* While a call is inside the lock and its row is not finished, the lock is
\* its own.  Neither the cleanup that others run before they acquire nor the
\* release of others takes it away, with one exception: holder_epoch is read
\* from the clock, and an execution that was started in the same millisecond
\* and is finished makes the lock of the other one look left behind.
LiveDriveHoldsLock ==
    \A d \in Drives :
        /\ drive[d] # None /\ drive[d].pc \in Inside
        /\ ~IsTerminal(req[drive[d].ex].phase)
        => \/ lock = [op |-> "EXECUTION", epoch |-> drive[d].epoch]
           \/ FinishedUnder(drive[d].epoch)

\* A reconciliation has no persisted state by which its lock could be judged:
\* whatever else asks for the lock, it is the tick's until the tick ends,
\* unless an execution started in the same millisecond is finished, whose
\* call may give back every lock of that millisecond.
ReconciliationKeepsLock ==
    \A o \in Reconcilers :
        op[o] # None /\ op[o].pc \in {"work", "release"} =>
            \/ lock = [op |-> "RECONCILIATION", epoch |-> op[o].epoch]
            \/ FinishedUnder(op[o].epoch)

\* The COALESCE of update_execution_phase would overwrite, but the artifacts
\* of a preparation are written once: a repeated call never exchanges the
\* nonce, the payload or the signature of a row.
ArtifactsAreWrittenOnce ==
    [][\A e \in Exec : req[e] # None =>
          /\ req[e].nonce # None => req'[e].nonce = req[e].nonce
          /\ req[e].payload # None => req'[e].payload = req[e].payload
          /\ req[e].sig # None => req'[e].sig = req[e].sig]_vars

-----------------------------------------------------------------------------
\* "at most one may hold the lock per deployment at any time": of the calls
\* and operations that acquired it and have work left, there is only one.
Holders == {d \in Drives : drive[d] # None /\ drive[d].pc \in Inside \ {"release"}}
           \cup {o \in Ops : op[o] # None /\ op[o].pc \in {"start", "work"}}

LockIsExclusive == \A x, y \in Holders : x = y

\* CleanupLock's comment (persistence.rs:1340), that a competing operation must
\* not "silently steal the lock mid-run": while a call whose execution is not
\* finished is in progress, there is a lock.
LiveLockIsNeverStolen ==
    \A d \in Drives :
        /\ drive[d] # None /\ drive[d].pc \in Inside
        /\ ~IsTerminal(req[drive[d].ex].phase)
        => lock # None

\* Every production caller releases the lock: one that is held for a
\* reconciliation is held by a tick in progress.
ReconciliationReleases ==
    lock # None /\ lock.op = "RECONCILIATION" => \E o \in Reconcilers : op[o] # None

RecoveryInFlight == reorg # None /\ reorg.phase = "Active"

\* "an in-flight recovery that a subsequent tick should resume": after a
\* restart too, a recovery that was started ends.
RecoveryResumes == RecoveryInFlight ~> ~RecoveryInFlight
=============================================================================
