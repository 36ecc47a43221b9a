--------------------------- MODULE BroadcastWorker ---------------------------
(***************************************************************************)
(* The confirmation worker (tick, and tick_single on an admin recheck),    *)
(* the final confirmation rule maybe_finalize with its indexer correlation *)
(* check, and the recovery of Reorged rows.  None of them sends anything.  *)
(***************************************************************************)
EXTENDS BroadcastTask

CONSTANT ConfirmationDepth  \* config confirmation_depth

ASSUME WorkerAssumption == ConfirmationDepth \in Nat

\* The phases whose rows a tick lists.
TickPhases == {"Submitted", "Pending", "SubmissionUnknown", "MinedSuccess",
               "Confirming", "Reorged"}

-----------------------------------------------------------------------------
\* Mutant: the scan forgets the rows whose submission is in doubt.
TickListKnown(p, e) ==
    /\ PhaseOf(e) \in TickPhases \ {"SubmissionUnknown"}
    /\ Start(p, e, "tick")
    /\ UNCHANGED <<row, chainVars>>

\* list_pending_broadcast_states picks the row; tick_single reads it again.
TickList(p, e) ==
    /\ PhaseOf(e) \in TickPhases
    /\ Start(p, e, "tick")
    /\ UNCHANGED <<row, chainVars>>

\* admin_broadcast_recheck: tick_single on any row.
Recheck(p, e) ==
    /\ row[e] # None
    /\ Start(p, e, "tick")
    /\ UNCHANGED <<row, chainVars>>

TickRead(p) ==
    LET r == row[task[p].ex]
    IN  /\ task[p].pc = "tick"
        /\ IF r.tx = None
           THEN Finish(p)
           ELSE task' = [task EXCEPT ![p].pc = "receipt", ![p].snap = r, ![p].ts = now]
        /\ UNCHANGED <<row, chainVars>>

\* The update, planned only if the phase the task read has that edge.
PersistPhase(p, to, patch) ==
    IF CanTransition(task[p].snap.phase, to)
    THEN PlanWrite(p, "write", task[p].snap.phase, to, patch)
    ELSE Finish(p)

\* A receipt for another transaction is escalated from the phase read, or
\* from the live one if that phase has no edge to manual intervention.
EscalateReceiptMismatch(p) ==
    LET was == task[p].snap.phase
    IN  IF CanTransition(was, Manual)
        THEN PlanWrite(p, "write", was, Manual, FailPatch("RECEIPT_HASH_MISMATCH"))
        ELSE PlanEscalation(p, was, Manual, "RECEIPT_HASH_MISMATCH")

TickReceipt(p) ==
    LET t == task[p]
        rcpt == mined[t.ex]
    IN  /\ t.pc = "receipt"
        /\ \/ FaultyProvider /\ EscalateReceiptMismatch(p)
           \/ rcpt = None /\ Goto(p, "poll")
           \/ /\ rcpt # None /\ rcpt.status = 0
              /\ PersistPhase(p, "MinedReverted",
                     [NoPatch EXCEPT !.rcpt = rcpt, !.fail = "MINED_REVERTED"])
           \/ /\ rcpt # None /\ rcpt.status = 1
              /\ task' = [task EXCEPT ![p].pc = "header", ![p].seen = rcpt]
        /\ UNCHANGED <<row, chainVars>>

\* no_receipt_step.
TickPoll(p) ==
    LET t == task[p]
        expired == Age(t.snap, t.ts) > MaxPendingAge
        dropped == ~Known(t.ex) /\ expired /\ CanTransition(t.snap.phase, "Dropped")
    IN  /\ t.pc = "poll"
        /\ \/ dropped /\ PersistPhase(p, "Dropped", FailPatch("TRANSPORT_AMBIGUOUS"))
           \/ /\ ~dropped /\ t.snap.phase = "Submitted"
              /\ PersistPhase(p, "Pending", NoPatch)
           \/ ~dropped /\ t.snap.phase # "Submitted" /\ Finish(p)
        /\ UNCHANGED <<row, chainVars>>

\* verify_canonical_receipt: the header at the height of the receipt's block,
\* which the node may not have.
CanonicalityOf(r) == {"UNKNOWN", IF IsCanonical(r) THEN "CANONICAL" ELSE "ORPHANED"}

\* Where a successful receipt on a block that is not orphaned takes a row.
MinedTarget(phase) ==
    IF phase \in {"Submitted", "Pending", "SubmissionUnknown"} THEN "MinedSuccess"
    ELSE IF phase \in {"MinedSuccess", "Reorged"} THEN "Confirming"
    ELSE phase

\* Mutant: the head is recorded instead of the receipt's block.
TickHeaderAtTip(p) ==
    LET t == task[p]
    IN  /\ t.pc = "header"
        /\ PersistPhase(p, MinedTarget(t.snap.phase),
               [NoPatch EXCEPT !.rcpt = [t.seen EXCEPT !.n = Tip],
                               !.canon = "CANONICAL"])
        /\ UNCHANGED <<row, chainVars>>

TickHeader(p) ==
    LET t == task[p]
    IN  /\ t.pc = "header"
        /\ \E c \in CanonicalityOf(t.seen) :
              LET patch == [NoPatch EXCEPT !.rcpt = t.seen, !.canon = c]
              IN  IF c = "ORPHANED"
                  THEN PersistPhase(p, "Reorged",
                           [patch EXCEPT !.reorgs = t.snap.reorgs + 1])
                  ELSE PersistPhase(p, MinedTarget(t.snap.phase), patch)
        /\ UNCHANGED <<row, chainVars>>

-----------------------------------------------------------------------------
\* maybe_finalize, on a row the caller has just read.
FinalizeRead(p, e) ==
    /\ PhaseOf(e) = "Confirming"
    /\ row[e].rcpt # None /\ row[e].rcpt.status = 1
    /\ row[e].tx # None
    /\ task[p].pc = "idle"
    /\ task' = [task EXCEPT ![p] = [IdleTask EXCEPT
           !.pc = "fheader", !.ex = e, !.snap = row[e]]]
    /\ UNCHANGED <<row, chainVars>>

AwaitDepth(p) ==
    task' = [task EXCEPT ![p].pc = "depth",
                ![p].basis = [fork |-> fork, reorgs |-> task[p].snap.reorgs]]

\* Mutant: a header that the node does not have is taken for the right one.
FinalizeUnverified(p) ==
    /\ task[p].pc = "fheader"
    /\ \E c \in CanonicalityOf(task[p].snap.rcpt) :
          IF c # "ORPHANED" THEN AwaitDepth(p) ELSE Finish(p)
    /\ UNCHANGED <<row, chainVars>>

FinalizeHeader(p) ==
    /\ task[p].pc = "fheader"
    /\ \E c \in CanonicalityOf(task[p].snap.rcpt) :
          IF c = "CANONICAL" THEN AwaitDepth(p) ELSE Finish(p)
    /\ UNCHANGED <<row, chainVars>>

\* Heights only: that the block is still on the chain is not asked again.
DepthReached(r) == r.n + ConfirmationDepth <= Tip

FinalizeDepth(p) ==
    /\ task[p].pc = "depth"
    /\ IF DepthReached(task[p].snap.rcpt) THEN Goto(p, "indexed") ELSE Finish(p)
    /\ UNCHANGED <<row, chainVars>>

\* The correlation check: first the indexer's head, then its matched row.
CorrelateHead(p) ==
    /\ task[p].pc = "indexed"
    /\ IF task[p].snap.rcpt.n <= Len(indexed) THEN Goto(p, "matched") ELSE Finish(p)
    /\ UNCHANGED <<row, chainVars>>

CorrelateMatch(p) ==
    LET t == task[p]
    IN  /\ t.pc = "matched"
        /\ IF matched[t.ex] # None /\ t.snap.canon # "ORPHANED"
           THEN PersistPhase(p, "Confirmed", [NoPatch EXCEPT !.canon = "CANONICAL"])
           ELSE Finish(p)
        /\ UNCHANGED <<row, chainVars>>

-----------------------------------------------------------------------------
\* BroadcastReorgRecovery::recover, which only acts on Reorged rows.
RecoverRead(p, e) ==
    /\ PhaseOf(e) = "Reorged"
    /\ row[e].tx # None
    /\ task[p].pc = "idle"
    /\ task' = [task EXCEPT ![p] = [IdleTask EXCEPT
           !.pc = "rreceipt", !.ex = e, !.snap = row[e]]]
    /\ UNCHANGED <<row, chainVars>>

\* Judge a receipt that was returned, or made up from a transaction lookup.
ConsiderReceipt(p, r) ==
    task' = [task EXCEPT ![p].pc = "rheader", ![p].seen = r]

ReturnToPending(p) ==
    PersistPhase(p, "Pending", [NoPatch EXCEPT !.canon = "UNKNOWN"])

\* Some providers answer with a receipt of block zero while a transaction is
\* still in the mempool.
RecoverReceipt(p) ==
    LET rcpt == mined[task[p].ex]
    IN  /\ task[p].pc = "rreceipt"
        /\ \/ rcpt # None /\ ConsiderReceipt(p, rcpt)
           \/ rcpt = None /\ Goto(p, "rlookup")
           \/ task[p].ex \in pool /\ ReturnToPending(p)
        /\ UNCHANGED <<row, chainVars>>

\* Only a canonical block other than the one on record moves the row.
RecoverHeader(p) ==
    LET t == task[p]
        sameSlot == t.snap.rcpt # None /\ t.snap.rcpt.n = t.seen.n
                                       /\ t.snap.rcpt.fork = t.seen.fork
    IN  /\ t.pc = "rheader"
        /\ \E c \in CanonicalityOf(t.seen) :
              IF c = "CANONICAL" /\ ~sameSlot
              THEN PersistPhase(p, "Confirming",
                       [NoPatch EXCEPT !.rcpt = t.seen, !.canon = "CANONICAL",
                                       !.reorgs = t.snap.reorgs + 1])
              ELSE Finish(p)
        /\ UNCHANGED <<row, chainVars>>

\* A lookup that finds the transaction mined is turned into a receipt whose
\* status is taken to be success; one that finds it pending returns it.
Synthetic(r) == [r EXCEPT !.status = 1]

FoundByLookup(p) ==
    LET e == task[p].ex
    IN  IF mined[e] # None THEN ConsiderReceipt(p, Synthetic(mined[e]))
                           ELSE ReturnToPending(p)

RecoverLookup(p) ==
    /\ task[p].pc = "rlookup"
    /\ \/ Known(task[p].ex) /\ FoundByLookup(p)
       \/ (~Known(task[p].ex) \/ FaultyProvider) /\ Goto(p, "rnonce")
    /\ UNCHANGED <<row, chainVars>>

\* The nonce investigation looks again, then compares the account's nonce:
\* another transaction may have consumed ours; the other verdicts only log.
RecoverNonce(p) ==
    /\ task[p].pc = "rnonce"
    /\ \/ Known(task[p].ex) /\ FoundByLookup(p)
       \/ /\ ~Known(task[p].ex)
          /\ \/ PersistPhase(p, Manual, FailPatch("REORG_NONCE_STOLEN"))
             \/ Finish(p)
       \/ FaultyProvider /\ Finish(p)
    /\ UNCHANGED <<row, chainVars>>
=============================================================================
