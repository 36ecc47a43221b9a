------------------------ MODULE ProjectionOperations ------------------------
(***************************************************************************)
(* The three operations on the projection of a deployment that contend     *)
(* with the execution orchestrator for its operation lock: the recovery    *)
(* from a chain reorganisation, the rebuild and the reconciliation.  What  *)
(* they compute is left out; how they take the lock, keep their persisted  *)
(* state row and give the lock back is kept, one action per store call.    *)
(***************************************************************************)
EXTENDS ExecutionOrchestrator

CONSTANTS Recoverers,   \* the recovery service of the indexer worker
          Rebuilders,   \* admin requests for a rebuild
          Reconcilers   \* ticks of the reconciliation worker

ASSUME OperationsAssumption ==
    /\ Recoverers \cap Rebuilders = {}
    /\ Reconcilers \cap (Recoverers \cup Rebuilders) = {}

Ops == Recoverers \cup Rebuilders \cup Reconcilers

VARIABLE op   \* op[o]: the operation in progress in o, or None

Operation == [epoch : Nat, pc : {"request", "cleanup", "insert", "contended",
                                 "start", "work", "release"},
              found : {"Active", "Recovered", "Failed", "Manual", None}]

KindOf(o) == CASE o \in Recoverers -> "REORG"
               [] o \in Rebuilders -> "REBUILD"
               [] OTHER -> "RECONCILIATION"

OpAt(o, pc) == op[o] # None /\ op[o].pc = pc
OpGoto(o, pc) == op' = [op EXCEPT ![o].pc = pc]
OpEnd(o) == op' = [op EXCEPT ![o] = None]

orchestratorVars == <<drive, asked>>
-----------------------------------------------------------------------------
LatestRebuild == IF \A k \in Epochs : rebuilds[k] = None THEN 0
                 ELSE CHOOSE k \in Epochs :
                        /\ rebuilds[k] # None
                        /\ \A j \in Epochs : rebuilds[j] # None => j <= k

LatestRebuildIs(phases) ==
    LatestRebuild > 0 /\ rebuilds[LatestRebuild] \in phases

\* recover: the persisted row is read before the lock is taken.  The worker's
\* loop skips its tick while a rebuild is active or needs an operator; the
\* call that resumes a recovery after a restart does not look.
Recover(o) ==
    LET found == IF reorg = None THEN None ELSE reorg.phase
        epoch == CASE reorg = None -> 1
                   [] found = "Active" -> reorg.epoch
                   [] OTHER -> reorg.epoch + 1
    IN  /\ o \in Recoverers /\ op[o] = None
        /\ epoch <= MaxEpoch
        /\ ~LatestRebuildIs({"Active", "Manual"}) \/ ("crash" \in Events /\ found = "Active")
        /\ op' = [op EXCEPT ![o] =
                    [epoch |-> epoch, pc |-> "cleanup", found |-> found]]
        /\ UNCHANGED <<storeVars, orchestratorVars, now>>

\* An active row is taken up; one that needs an operator is left alone; else
\* the detection that made the worker call is persisted under a new epoch.
RecoverStart(o) ==
    /\ o \in Recoverers /\ OpAt(o, "start")
    /\ IF op[o].found = "Manual"
       THEN OpGoto(o, "release") /\ UNCHANGED reorg
       ELSE /\ reorg' = [epoch |-> op[o].epoch, phase |-> "Active"]
            /\ OpGoto(o, "work")
    /\ UNCHANGED <<req, nonces, lock, rebuilds, orchestratorVars, now>>

\* The recovery ends in one of three phases, or an error leaves the row.
RecoverWork(o) ==
    /\ o \in Recoverers /\ OpAt(o, "work")
    /\ \E p \in {"Recovered", "Failed", "Manual", "Active"} :
          reorg' = [epoch |-> op[o].epoch, phase |-> p]
    /\ OpGoto(o, "release")
    /\ UNCHANGED <<req, nonces, lock, rebuilds, orchestratorVars, now>>

-----------------------------------------------------------------------------
\* next_epoch: an unfinished rebuild is taken up under its own epoch.
Rebuild(o) ==
    LET epoch == IF LatestRebuildIs({"Active"})
                 THEN LatestRebuild ELSE LatestRebuild + 1
    IN  /\ o \in Rebuilders /\ op[o] = None
        /\ epoch <= MaxEpoch
        /\ op' = [op EXCEPT ![o] =
                    [epoch |-> epoch, pc |-> "request", found |-> None]]
        /\ UNCHANGED <<storeVars, orchestratorVars, now>>

UpsertRebuild(o, phase, pc) ==
    /\ o \in Rebuilders
    /\ rebuilds' = [rebuilds EXCEPT ![op[o].epoch] = phase]
    /\ IF pc = None THEN OpEnd(o) ELSE OpGoto(o, pc)
    /\ UNCHANGED <<req, nonces, lock, reorg, orchestratorVars, now>>

RebuildRequested(o) == OpAt(o, "request") /\ UpsertRebuild(o, "Active", "cleanup")

RebuildContended(o) == OpAt(o, "contended") /\ UpsertRebuild(o, "Ended", None)

RebuildStart(o) == OpAt(o, "start") /\ UpsertRebuild(o, "Active", "work")

RebuildWork(o) ==
    /\ OpAt(o, "work")
    /\ \E p \in RebuildPhases : UpsertRebuild(o, p, "release")

-----------------------------------------------------------------------------
Reconcile(o) ==
    /\ o \in Reconcilers /\ op[o] = None
    /\ now < MaxNow /\ ClockMoves
    /\ op' = [op EXCEPT ![o] =
                [epoch |-> now, pc |-> "cleanup", found |-> None]]
    /\ UNCHANGED <<storeVars, orchestratorVars>>

\* The comparison with the chain and the insertion of its result.
ReconcileWork(o) ==
    /\ o \in Reconcilers /\ OpAt(o, "work")
    /\ OpGoto(o, "release")
    /\ UNCHANGED <<storeVars, orchestratorVars, now>>

-----------------------------------------------------------------------------
\* try_acquire_operation_lock, its two statements.
OpCleanup(o) ==
    /\ OpAt(o, "cleanup")
    /\ CleanupLock
    /\ OpGoto(o, "insert")
    /\ UNCHANGED <<req, nonces, reorg, rebuilds, orchestratorVars, now>>

OpAcquire(o) ==
    /\ OpAt(o, "insert")
    /\ InsertLock(KindOf(o), op[o].epoch)
    /\ IF lock = None
       THEN OpGoto(o, IF o \in Reconcilers THEN "work" ELSE "start")
       ELSE IF o \in Rebuilders THEN OpGoto(o, "contended") ELSE OpEnd(o)
    /\ UNCHANGED <<req, nonces, reorg, rebuilds, orchestratorVars, now>>

\* OperationLockGuard::release does nothing when the guard has no store, and
\* the store returns it without one; only the recovery attaches its own.
GuardRelease(o) ==
    /\ OpAt(o, "release")
    /\ IF o \in Recoverers THEN ReleaseOperationLock(op[o].epoch)
       ELSE UNCHANGED lock
    /\ OpEnd(o)
    /\ UNCHANGED <<req, nonces, reorg, rebuilds, orchestratorVars, now>>

\* The process stops, or a store call fails where the error is returned at
\* once (the result of a reconciliation, the state of a rebuild): the lock
\* stays.
OpAbandon(o) ==
    /\ "crash" \in Events /\ op[o] # None
    /\ OpEnd(o)
    /\ UNCHANGED <<storeVars, orchestratorVars, now>>

OpStart(o) == Recover(o) \/ Rebuild(o) \/ Reconcile(o)

OpStep(o) ==
    \/ RecoverStart(o) \/ RecoverWork(o)
    \/ RebuildRequested(o) \/ RebuildContended(o) \/ RebuildStart(o)
    \/ RebuildWork(o) \/ ReconcileWork(o)
    \/ OpCleanup(o) \/ OpAcquire(o) \/ GuardRelease(o)
=============================================================================
