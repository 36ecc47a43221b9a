-------------------------- MODULE BroadcastPipeline --------------------------
(***************************************************************************)
(* The broadcast pipeline as a whole: admin requests and the confirmation  *)
(* worker run concurrently on the same rows, against a node, an indexer    *)
(* and a clock that move on their own.                                     *)
(***************************************************************************)
EXTENDS BroadcastOutbox, BroadcastWorker

CONSTANTS Worker,  \* the task of the supervised worker loop
          Events   \* the kinds of event that a behaviour may contain

EventKinds == {"broadcast", "manual", "recheck", "resend", "finalize",
               "recover", "crash", "rpcerror", "reorg", "evict"}

ASSUME PipelineAssumption ==
    /\ Worker \in Proc
    /\ Events \subseteq EventKinds

vars == <<row, task, execPhase, handed, chainVars>>

Requests == Proc \ {Worker}

Init ==
    /\ row = [e \in Exec |-> None]
    /\ task = [p \in Proc |-> IdleTask]
    /\ execPhase = [e \in Exec |-> "SignatureVerified"]
    /\ handed = [e \in Exec |-> 0]
    /\ ChainInit

-----------------------------------------------------------------------------
\* Requests that arrive from outside, for any execution.
Request(p, e) ==
    \/ "broadcast" \in Events /\ AdminBroadcast(p, e)
    \/ "resend" \in Events /\ ResendRead(p, e)
    \/ "manual" \in Events /\ ManualRead(p, e)
    \/ /\ \/ "recheck" \in Events /\ Recheck(p, e)
          \/ "finalize" \in Events /\ FinalizeRead(p, e)
          \/ "recover" \in Events /\ RecoverRead(p, e)
       /\ UNCHANGED <<execPhase, handed>>

\* The steps of a task under way.
OutboxStep(p) ==
    \/ AdminBranch(p) \/ Firewall(p) \/ Probe(p) \/ SetTxHash(p) \/ ReRead(p)
    \/ Claim(p) \/ Send(p) \/ ClassifySend(p)
    \/ ResumeRead(p) \/ ResumeLookup(p)
    \/ Resend(p) \/ ClassifyResend(p)

WorkerStep(p) ==
    /\ \/ TickRead(p) \/ TickReceipt(p) \/ TickPoll(p) \/ TickHeader(p)
       \/ FinalizeHeader(p) \/ FinalizeDepth(p) \/ CorrelateHead(p) \/ CorrelateMatch(p)
       \/ RecoverReceipt(p) \/ RecoverHeader(p) \/ RecoverLookup(p) \/ RecoverNonce(p)
       \/ EscalateRead(p) \/ Write(p)
    /\ UNCHANGED <<execPhase, handed>>

Tick(e) == TickList(Worker, e) /\ UNCHANGED <<execPhase, handed>>

Fault(p) ==
    /\ \/ "rpcerror" \in Events /\ RpcError(p)
       \/ "crash" \in Events /\ Crash(p)
    /\ UNCHANGED <<execPhase, handed>>

\* A transaction leaves the mempool, or the wire, other than into a block.
Leave(e) ==
    /\ ("evict" \in Events /\ Evict(e)) \/ Arrive(e)
    /\ UNCHANGED <<row, task, execPhase, handed>>

Advance ==
    /\ IndexBlock \/ IndexReorg \/ ClockTick
    /\ UNCHANGED <<row, task, execPhase, handed>>

ChainGrows ==
    /\ \/ \E txs \in SUBSET pool : MineBlock(txs)
       \/ "reorg" \in Events /\ \E k \in 1..Tip : Reorg(k)
    /\ UNCHANGED <<row, task, execPhase, handed>>

Next ==
    \/ \E e \in Exec : OrchestratorAdvance(e) \/ Tick(e)
    \/ \E p \in Requests, e \in Exec : Request(p, e)
    \/ \E p \in Proc : OutboxStep(p) \/ WorkerStep(p) \/ Fault(p)
    \/ \E e \in Exec : Leave(e)
    \/ Advance
    \/ ChainGrows

Spec == Init /\ [][Next]_vars

\* The supervised loop keeps ticking, and a tick visits every row it lists.
\* An RPC call or a process that fails is tried again and does not fail each
\* time: strong fairness of the worker's steps.  No transaction stays in a
\* mempool, or on the wire, for ever; clock and indexer move.
Fairness ==
    /\ \A e \in Exec : SF_vars(Tick(e)) /\ WF_vars(Leave(e))
    /\ SF_vars(TickRead(Worker) /\ UNCHANGED <<execPhase, handed>>)
    /\ SF_vars(TickReceipt(Worker) /\ UNCHANGED <<execPhase, handed>>)
    /\ SF_vars(TickPoll(Worker) /\ UNCHANGED <<execPhase, handed>>)
    /\ SF_vars(TickHeader(Worker) /\ UNCHANGED <<execPhase, handed>>)
    /\ SF_vars(Write(Worker) /\ UNCHANGED <<execPhase, handed>>)
    /\ WF_vars(Advance)

FairSpec == Spec /\ Fairness

-----------------------------------------------------------------------------
TypeOK == StoreTypeOK /\ ChainTypeOK /\ TaskTypeOK /\ OutboxTypeOK

\* Some task is about to hand over the bytes of e.
Claimant(e) == \E p \in Proc : task[p].pc = "send" /\ task[p].ex = e

\* "PERSIST BEFORE SEND": once the bytes of an execution have been handed to
\* the RPC, and already while a task is about to hand them over, the row
\* carries their hash and has left the unsent phases for good.
PersistBeforeSend ==
    \A e \in Exec :
        handed[e] > 0 \/ Claimant(e)
        => /\ row[e] # None /\ row[e].tx = e
           /\ row[e].phase \notin Unsent \cup {Cancelled}

\* Concurrent broadcast requests, restarts and dropped handlers never make
\* submit hand the same execution to the RPC twice.
AtMostOneHandOff == \A e \in Exec : handed[e] <= 1

\* The whole pipeline implements the hand-off protocol, whichever requests,
\* observers and faults interleave with the submitter.
HandOffStatus ==
    [e \in Exec |-> IF handed[e] > 0 THEN "sent"
                    ELSE IF Claimant(e) THEN "claimed"
                    ELSE IF PhaseOf(e) \in Unsent THEN "open" ELSE "closed"]
HandOffs == INSTANCE HandOffProtocol WITH status <- HandOffStatus, count <- handed
ImplementsHandOff == HandOffs!Spec

\* submission_attempt_count runs at most one ahead of the hand-offs that were
\* made: the claim counts before the bytes leave, and a claimant may crash or
\* be overtaken by a resend, but no hand-off is counted twice.
AttemptsAreHandOffs ==
    \A e \in Exec : row[e] # None => row[e].attempts <= handed[e] + 1

\* A row says that its transaction was seen on the network only if the outbox
\* handed it over, whichever task observed it.
ObservedPhases == {"Submitted", "Pending", "MinedSuccess", "MinedReverted",
                   "Confirming", "Confirmed", "Reorged"}
ObservedMeansHanded ==
    \A e \in Exec : PhaseOf(e) \in ObservedPhases => handed[e] > 0

\* Every receipt on a row names a block in which the chain once included the
\* transaction, whichever of tick, recheck and recover wrote it and however
\* the chain moved between their calls.  (Its status may be made up: recover
\* has none to go by when the receipt call found nothing.)
ReceiptNamesInclusion ==
    \A e \in Exec : row[e] # None /\ row[e].rcpt # None =>
        \E r \in included[e] : r.n = row[e].rcpt.n /\ r.fork = row[e].rcpt.fork

\* The inclusion r bears out a confirmation made on basis b: it lies
\* confirmation_depth deep, it is canonical unless the chain forked after
\* maybe_finalize looked at its header, and it succeeded unless the row had
\* been through a reorganisation (recover makes up the status it writes).
BearsOut(r, b) ==
    /\ DepthReached(r)
    /\ b.fork = fork => IsCanonical(r)
    /\ b.reorgs = 0 => r.status = 1

Confirms(e) == PhaseOf(e) # "Confirmed" /\ (PhaseOf(e) = "Confirmed")'

\* Whatever forks, ticks, rechecks and recoveries came between the awaits of
\* maybe_finalize, the update that makes a row Confirmed is borne out at that
\* moment by an inclusion of its transaction, and the transaction succeeded
\* in some block.
ConfirmedWasBuried ==
    [][\A e \in Exec : Confirms(e) =>
          /\ Executed(e)
          /\ \E p \in Proc :
                /\ task[p].pc = "write" /\ task[p].ex = e /\ task'[p].pc = "idle"
                /\ \E r \in included[e] : BearsOut(r, task[p].basis)]_vars

\* A row that waits for the network is eventually resolved by the worker: it
\* is mined, reverted, reorged, dropped or escalated.  (The exception is a
\* row whose last submission is so late that its age budget does not run out
\* before the clock of the model stops.)
Waiting == {"Submitted", "Pending", "SubmissionUnknown"}
OutOfTime(e) == row[e].lastSub + MaxPendingAge >= MaxNow
WaitingRowsSettle ==
    \A e \in Exec : PhaseOf(e) \in Waiting
                   ~> (PhaseOf(e) \notin Waiting \/ OutOfTime(e))

-----------------------------------------------------------------------------
(* What the comments of the code say and the code does not do.             *)

\* handle_firewall_rejection, by the phase matrix's comment "Firewall reject
\* before any submission": a firewall rejection never marks a row whose bytes
\* have been handed over.
FirewallSparesInFlight ==
    \A e \in Exec : handed[e] > 0 => row[e].fail # "FIREWALL_REJECTED"

\* maybe_finalize, "ONLY when ALL final-confirmation invariants hold", among
\* them that the receipt's block is canonical and the status 1: when a row
\* becomes Confirmed, a SUCCESS of its transaction lies confirmation_depth deep
\* on the canonical chain.  The header is not looked at again after the other
\* awaits, and recover makes up the status of a receipt it looked up.
ConfirmedIsFinal ==
    [][\A e \in Exec : Confirms(e) =>
          \E r \in included[e] : r.status = 1 /\ DepthReached(r) /\ IsCanonical(r)]_vars

\* BroadcastPhase::Broadcasting, "A restart mid-call resumes here": a row left
\* in Broadcasting by a restart leaves that phase again.
RestartResumesBroadcasting ==
    \A e \in Exec : PhaseOf(e) = "Broadcasting" ~> PhaseOf(e) # "Broadcasting"

\* "A confirmed row is NEVER left on an orphaned block - every tick re-verifies
\* canonicality even after CONFIRMED."
ConfirmedLeavesOrphan ==
    \A e \in Exec : (PhaseOf(e) = "Confirmed" /\ ~IsCanonical(row[e].rcpt))
                   ~> PhaseOf(e) # "Confirmed"
=============================================================================
