--------------------------- MODULE BroadcastProofs ---------------------------
(***************************************************************************)
(* Proofs about the broadcast pipeline, for any number of executions,      *)
(* tasks, retries, blocks and reorganisations.                             *)
(*                                                                         *)
(* The first part is about types and what is persisted before a hand-off,  *)
(* the second about hand-offs, the third about receipts.                   *)
(*                                                                         *)
(* Neither property of the first part is inductive by itself: what a task  *)
(* may do at its next await depends on what it established at earlier      *)
(* ones, while the row was free to move.  Fit(t, row) records what a task  *)
(* at each await still knows about its row, and RowsFit why a row beyond   *)
(* the unsent phases has its hash.                                         *)
(***************************************************************************)
EXTENDS BroadcastPipeline, TLAPS

Snapping == {"lookup", "resend", "reclassify", "receipt", "poll", "header",
             "fheader", "depth", "indexed", "matched", "rreceipt", "rheader",
             "rlookup", "rnonce"}

\* A row in one of these phases can never be claimed, or return to a phase in
\* which it can.
Left(r) == r.phase \notin Unsent \cup {Cancelled}

Fit(t, rows) ==
    /\ t.pc # "idle" => t.ex \in Exec /\ rows[t.ex] # None
    /\ t.pc \in Snapping => t.snap # None
    /\ t.pc \in {"claim", "write", "escalate"} => t.from \in Phases /\ t.to \in Phases
    /\ t.pc \in {"header", "rheader"} => t.seen # None
    /\ t.pc \in {"write", "escalate"} => t.to # "Broadcasting"
    /\ t.pc \in {"reread", "claim"} => rows[t.ex].tx = t.ex
    /\ t.pc = "claim" => t.from \in Unsent /\ t.to = "Broadcasting"
    /\ t.pc \in {"send", "resend"} => rows[t.ex].tx = t.ex /\ Left(rows[t.ex])

TasksFit == \A p \in Proc : Fit(task[p], row)

RowsFit ==
    \A e \in Exec : row[e] # None =>
        /\ row[e].tx \in {None, e}
        /\ row[e].phase \notin Unsent \cup {Cancelled, Manual} => row[e].tx = e

HandedFit ==
    \A e \in Exec : handed[e] > 0 => row[e] # None /\ row[e].tx = e /\ Left(row[e])

Inv == TypeOK /\ TasksFit /\ RowsFit /\ HandedFit

-----------------------------------------------------------------------------
(* The phase matrix.                                                       *)

LEMMA EdgesAreTyped ==
    ASSUME NEW p, NEW q, CanTransition(p, q) PROVE p \in Phases /\ q \in Phases
BY DEF CanTransition, LegalSuccessors, Phases, IsTerminal, Manual, Cancelled

\* A row that has left the unsent phases stays out of them.
LEMMA LeftIsForGood ==
    ASSUME NEW p, NEW q, CanTransition(p, q), p \notin Unsent
    PROVE  q \notin Unsent \cup {Cancelled}
BY DEF CanTransition, LegalSuccessors, Unsent, IsTerminal, Manual, Cancelled

\* The only way out that does not end in manual intervention is the claim.
LEMMA OnlyClaimLeaves ==
    ASSUME NEW p, NEW q, CanTransition(p, q), p \in Unsent \cup {Cancelled, Manual},
           q # "Broadcasting"
    PROVE  q \in Unsent \cup {Cancelled, Manual}
BY DEF CanTransition, LegalSuccessors, Unsent, IsTerminal, Manual, Cancelled

-----------------------------------------------------------------------------
(* Changes of rows.                                                        *)

\* What every update of the table preserves.
Grows(old, new) ==
    \A e \in Exec : old[e] # None =>
        /\ new[e] # None
        /\ old[e].tx = e => new[e].tx = e
        /\ Left(old[e]) => Left(new[e])
        /\ old[e].phase \notin Unsent => new[e].phase \notin Unsent

\* One store call: the rows keep their invariants and at most one changes.
RowsKept ==
    /\ StoreTypeOK' /\ RowsFit' /\ Grows(row, row')
    /\ \A d, e \in Exec : row'[d] # row[d] /\ row'[e] # row[e] => d = e

LEMMA GrowsRefl == ASSUME NEW rows PROVE Grows(rows, rows)
BY DEF Grows

LEMMA UnchangedKeepsRows ==
    ASSUME StoreTypeOK, RowsFit, UNCHANGED row PROVE RowsKept
BY GrowsRefl DEF RowsKept, StoreTypeOK, RowsFit

LEMMA PatchedType ==
    ASSUME NEW r \in BroadcastStateRow, NEW to \in Phases,
           NEW patch \in BroadcastStatePatch
    PROVE  /\ Patched(r, to, patch) \in BroadcastStateRow
           /\ Patched(r, to, patch) # None
           /\ Patched(r, to, patch).tx = r.tx
           /\ Patched(r, to, patch).phase = to
<1> USE NoneAssumption
<1>1. Patched(r, to, patch) \in BroadcastStateRow
  BY DEF Patched, Coalesce, BroadcastStateRow, BroadcastStatePatch
<1> QED BY <1>1 DEF Patched

\* update_broadcast_phase, unless it claims a row whose hash is not set.
LEMMA UpdateKeepsRows ==
    ASSUME StoreTypeOK, RowsFit, NEW e \in Exec, NEW from, NEW to \in Phases,
           NEW patch \in BroadcastStatePatch,
           UpdateBroadcastPhase(e, from, to, patch),
           row[e] # None => to # "Broadcasting" \/ row[e].tx = e
    PROVE  RowsKept
<1>1. CASE ~UpdateApplies(e, from, to)
  BY <1>1, UnchangedKeepsRows DEF UpdateBroadcastPhase
<1>2. CASE UpdateApplies(e, from, to)
  <2> DEFINE new == Patched(row[e], to, patch)
  <2>1. /\ row[e] \in BroadcastStateRow /\ row[e] # None
        /\ CanTransition(row[e].phase, to)
    BY <1>2 DEF UpdateApplies, StoreTypeOK
  <2>2. new \in BroadcastStateRow /\ new # None /\ new.tx = row[e].tx /\ new.phase = to
    BY <2>1, PatchedType
  <2> HIDE DEF new
  <2>3. row' = [row EXCEPT ![e] = new]
    BY <1>2 DEF UpdateBroadcastPhase, new
  <2>4. StoreTypeOK'
    BY <2>2, <2>3 DEF StoreTypeOK
  <2>5. row[e].phase \notin Unsent => to \notin Unsent \cup {Cancelled}
    BY <2>1, LeftIsForGood DEF Left
  <2>6. Grows(row, row')
    BY <2>1, <2>2, <2>3, <2>5 DEF Grows, Left, StoreTypeOK
  <2>7. to \notin Unsent \cup {Cancelled, Manual} => row[e].tx = e
    BY <2>1, OnlyClaimLeaves DEF RowsFit
  <2>8. RowsFit'
    BY <2>1, <2>2, <2>3, <2>7 DEF RowsFit, StoreTypeOK
  <2>9. \A d \in Exec : d # e => row'[d] = row[d]
    BY <2>3 DEF StoreTypeOK
  <2> QED BY <2>4, <2>6, <2>8, <2>9 DEF RowsKept
<1> QED BY <1>1, <1>2

LEMMA InsertKeepsRows ==
    ASSUME StoreTypeOK, RowsFit, NEW e \in Exec, InsertBroadcastState(e)
    PROVE  RowsKept /\ row'[e] # None
<1>1. NewRow \in BroadcastStateRow /\ NewRow.tx = None
      /\ NewRow.phase \in Unsent /\ NewRow # None
  BY NoneAssumption DEF NewRow, BroadcastStateRow, Phases, Canonicalities, Unsent
<1> QED
  BY <1>1 DEF InsertBroadcastState, StoreTypeOK, RowsFit, Grows, RowsKept

LEMMA SetHashKeepsRows ==
    ASSUME StoreTypeOK, RowsFit, NEW e \in Exec, SetBroadcastTxHash(e, e)
    PROVE  /\ RowsKept
           /\ TxHashWritable(e, e) => row'[e] # None /\ row'[e].tx = e
<1>1. CASE ~TxHashWritable(e, e)
  BY <1>1, UnchangedKeepsRows DEF SetBroadcastTxHash
<1>2. CASE TxHashWritable(e, e)
  <2> DEFINE new == [row[e] EXCEPT !.tx = e]
  <2>1. row[e] \in BroadcastStateRow /\ row[e] # None
    BY <1>2 DEF TxHashWritable, StoreTypeOK
  <2>2. new \in BroadcastStateRow /\ new.tx = e /\ new.phase = row[e].phase
    BY <2>1 DEF BroadcastStateRow
  <2>3. new # None
    BY <2>2, NoneAssumption
  <2>4. row' = [row EXCEPT ![e] = new]
    BY <1>2 DEF SetBroadcastTxHash
  <2> HIDE DEF new
  <2> QED BY <2>1, <2>2, <2>3, <2>4 DEF StoreTypeOK, RowsFit, Grows, Left, RowsKept
<1> QED BY <1>1, <1>2

-----------------------------------------------------------------------------
(* Moves of tasks.                                                         *)

Sending == {"send", "resend", "reclassify"}

\* The step of task p leaves it at an await other than a hand-off.
Moves(p) ==
    \E t \in Task : /\ Fit(t, row') /\ t.pc \notin Sending
                     /\ task' = [task EXCEPT ![p] = t]

LEMMA FitSurvives ==
    ASSUME NEW t, NEW old, NEW new, Grows(old, new), Fit(t, old)
    PROVE  Fit(t, new)
BY DEF Fit, Grows

LEMMA NoPatchType == NoPatch \in BroadcastStatePatch
BY DEF NoPatch, BroadcastStatePatch

LEMMA FailPatchType ==
    ASSUME NEW f \in Failures PROVE FailPatch(f) \in BroadcastStatePatch
BY DEF FailPatch, NoPatch, BroadcastStatePatch

LEMMA IdleType == IdleTask \in Task /\ IdleTask.pc = "idle"
BY NoPatchType DEF IdleTask, Task, PCs, NoBasis, Basis

LEMMA IdleFit == ASSUME NEW rows PROVE Fit(IdleTask, rows)
BY IdleType DEF Fit, Snapping

LEMMA FinishMoves ==
    ASSUME NEW p \in Proc, Finish(p) PROVE Moves(p)
BY IdleType, IdleFit DEF Finish, Moves, Sending

LEMMA GotoMoves ==
    ASSUME TaskTypeOK, NEW p \in Proc, NEW pc \in PCs, Goto(p, pc),
           Fit([task[p] EXCEPT !.pc = pc], row'), pc \notin Sending
    PROVE  Moves(p)
<1> DEFINE t == [task[p] EXCEPT !.pc = pc]
<1>1. task[p] \in Task
  BY DEF TaskTypeOK
<1>2. t \in Task /\ t.pc = pc
  BY <1>1 DEF Task
<1>3. task' = [task EXCEPT ![p] = t]
  BY DEF Goto
<1>4. Fit(t, row')
  OBVIOUS
<1> HIDE DEF t
<1> QED BY <1>2, <1>3, <1>4 DEF Moves

\* Planning an update, by PlanUpdate, PlanWrite or PlanEscalation.
LEMMA PlanMoves ==
    ASSUME TaskTypeOK, NEW p \in Proc, NEW e \in Exec, row'[e] # None,
           NEW pc \in {"write", "escalate"}, NEW from \in Phases,
           NEW to \in Phases, to # "Broadcasting",
           NEW patch \in BroadcastStatePatch, PlanUpdate(p, e, pc, from, to, patch)
    PROVE  Moves(p)
<1> DEFINE t == [IdleTask EXCEPT !.pc = pc, !.ex = e, !.from = from, !.to = to,
                                 !.patch = patch, !.basis = task[p].basis]
<1>0. task[p].basis \in Basis
  BY DEF TaskTypeOK, Task
<1>1. /\ t \in Task /\ t.pc = pc /\ t.ex = e /\ t.from = from /\ t.to = to
  BY <1>0, IdleType DEF Task, IdleTask, PCs
<1>2. task' = [task EXCEPT ![p] = t]
  BY DEF PlanUpdate
<1> HIDE DEF t
<1>3. Fit(t, row')
  BY <1>1 DEF Fit, Snapping
<1> QED BY <1>1, <1>2, <1>3 DEF Moves, Sending

\* A planned update of a task whose phase read has the edge, or its end.
LEMMA PersistMoves ==
    ASSUME TaskTypeOK, TasksFit, UNCHANGED row, NEW p \in Proc,
           task[p].pc \in Snapping, NEW to \in Phases, to # "Broadcasting",
           NEW patch \in BroadcastStatePatch, PersistPhase(p, to, patch)
    PROVE  Moves(p)
<1>1. task[p] \in Task /\ Fit(task[p], row)
  BY DEF TaskTypeOK, TasksFit
<1>2. task[p].ex \in Exec /\ row'[task[p].ex] # None
  BY <1>1 DEF Fit, Snapping
<1>3. task[p].snap.phase \in Phases
  BY <1>1 DEF Fit, Task, BroadcastStateRow
<1>4. CASE Finish(p)
  BY <1>4, FinishMoves
<1>5. CASE PlanUpdate(p, task[p].ex, "write", task[p].snap.phase, to, patch)
  BY <1>2, <1>3, <1>5, PlanMoves
<1> QED BY <1>4, <1>5 DEF PersistPhase, PlanWrite

LEMMA EscalationMoves ==
    ASSUME TaskTypeOK, TasksFit, UNCHANGED row, NEW p \in Proc,
           task[p].pc # "idle", NEW from \in Phases, NEW to \in Phases,
           to # "Broadcasting", NEW f \in Failures, PlanEscalation(p, from, to, f)
    PROVE  Moves(p)
<1>1. task[p].ex \in Exec /\ row'[task[p].ex] # None
  BY DEF TasksFit, Fit
<1>2. PlanUpdate(p, task[p].ex, "escalate", from, to, FailPatch(f))
  BY DEF PlanEscalation, PlanWrite
<1> QED BY <1>1, <1>2, PlanMoves, FailPatchType

-----------------------------------------------------------------------------
(* The steps that move a task and change neither rows nor hand-offs.       *)

Typed == StoreTypeOK /\ ChainTypeOK /\ TaskTypeOK

\* The requests and the scan start a task that reads a row.
LEMMA StartsMove ==
    ASSUME Typed, TasksFit, NEW p \in Proc, NEW e \in Exec,
           TickList(p, e) \/ Recheck(p, e) \/ FinalizeRead(p, e) \/ RecoverRead(p, e)
    PROVE  Moves(p)
<1>0. TickPhases \cap Unsent = {}
  BY DEF TickPhases, Unsent
<1>1. CASE TickList(p, e) \/ Recheck(p, e)
  <2> DEFINE t == [IdleTask EXCEPT !.pc = "tick", !.ex = e]
  <2>1. t \in Task /\ t.pc = "tick" /\ t.ex = e
    BY IdleType DEF Task, IdleTask, PCs
  <2>2. row[e] # None /\ row' = row /\ task' = [task EXCEPT ![p] = t]
    BY <1>0, <1>1 DEF TickList, Recheck, Start, PhaseOf, Unsent
  <2> HIDE DEF t
  <2>3. Fit(t, row')
    BY <2>1, <2>2 DEF Fit, Snapping
  <2> QED BY <2>1, <2>2, <2>3 DEF Moves, Sending
<1>2. ASSUME NEW pc \in {"fheader", "rreceipt"}, UNCHANGED row,
             row[e] # None,
             task' = [task EXCEPT ![p] = [IdleTask EXCEPT
                         !.pc = pc, !.ex = e, !.snap = row[e]]]
      PROVE  Moves(p)
  <2> DEFINE t == [IdleTask EXCEPT !.pc = pc, !.ex = e, !.snap = row[e]]
  <2>1. row[e] \in BroadcastStateRow
    BY <1>2 DEF Typed, StoreTypeOK
  <2>2. t \in Task /\ t.pc = pc /\ t.ex = e /\ t.snap = row[e]
    BY <2>1, IdleType DEF Task, IdleTask, PCs
  <2>3. task' = [task EXCEPT ![p] = t]
    BY <1>2
  <2> HIDE DEF t
  <2>4. Fit(t, row')
    BY <1>2, <2>2 DEF Fit, Snapping
  <2> QED BY <2>2, <2>3, <2>4 DEF Moves, Sending
<1>3. CASE FinalizeRead(p, e)
  BY <1>2, <1>3 DEF FinalizeRead, PhaseOf
<1>4. CASE RecoverRead(p, e)
  BY <1>2, <1>4 DEF RecoverRead, PhaseOf
<1> QED BY <1>1, <1>3, <1>4

\* tick_single.
LEMMA TickMoves ==
    ASSUME Typed, TasksFit, NEW p \in Proc,
           TickRead(p) \/ TickReceipt(p) \/ TickPoll(p) \/ TickHeader(p)
    PROVE  Moves(p)
<1> DEFINE t == task[p]
<1>1. t \in Task /\ Fit(t, row) /\ TaskTypeOK
  BY DEF Typed, TaskTypeOK, TasksFit
<1>2. UNCHANGED row
  BY DEF TickRead, TickReceipt, TickPoll, TickHeader
<1>3. CASE TickRead(p)
  <2>1. row[t.ex] \in BroadcastStateRow /\ row[t.ex] # None /\ t.ex \in Exec /\ now \in Nat
    BY <1>1, <1>3 DEF TickRead, Fit, Typed, StoreTypeOK, ChainTypeOK
  <2>2. CASE Finish(p)
    BY <2>2, FinishMoves
  <2>3. CASE task' = [task EXCEPT ![p].pc = "receipt", ![p].snap = row[t.ex], ![p].ts = now]
    <3> DEFINE u == [t EXCEPT !.pc = "receipt", !.snap = row[t.ex], !.ts = now]
    <3>1. u \in Task /\ u.pc = "receipt" /\ u.ex = t.ex /\ u.snap = row[t.ex]
      BY <1>1, <2>1 DEF Task, PCs
    <3>2. task' = [task EXCEPT ![p] = u]
      BY <2>3
    <3> HIDE DEF u
    <3>3. Fit(u, row')
      BY <1>2, <2>1, <3>1 DEF Fit, Snapping
    <3> QED BY <3>1, <3>2, <3>3 DEF Moves, Sending
  <2> QED BY <1>3, <2>2, <2>3 DEF TickRead
<1>4. CASE TickReceipt(p)
  <2>0. /\ t.pc \in Snapping /\ t.pc # "idle" /\ t.ex \in Exec /\ t.snap # None
        /\ t.snap.phase \in Phases /\ mined[t.ex] \in Receipts \cup {None}
        /\ row[t.ex] # None
    BY <1>1, <1>4 DEF TickReceipt, Fit, Snapping, Task, BroadcastStateRow, Typed, ChainTypeOK
  <2>1. CASE EscalateReceiptMismatch(p)
    <3>1. Manual \in Phases /\ Manual # "Broadcasting" /\ "RECEIPT_HASH_MISMATCH" \in Failures
      BY DEF Manual, Phases, Failures
    <3>2. CASE PlanEscalation(p, t.snap.phase, Manual, "RECEIPT_HASH_MISMATCH")
      BY <1>1, <1>2, <2>0, <3>1, <3>2, EscalationMoves
    <3>3. CASE PlanWrite(p, "write", t.snap.phase, Manual, FailPatch("RECEIPT_HASH_MISMATCH"))
      BY <1>1, <1>2, <2>0, <3>1, <3>3, PlanMoves, FailPatchType DEF PlanWrite
    <3> QED BY <2>1, <3>2, <3>3 DEF EscalateReceiptMismatch
  <2>2. CASE Goto(p, "poll")
    <3>1. Fit([t EXCEPT !.pc = "poll"], row')
      BY <1>1, <1>2, <2>0 DEF Fit, Snapping, Task
    <3> QED BY <1>1, <2>2, <3>1, GotoMoves DEF PCs, Sending
  <2>3. CASE /\ mined[t.ex] # None
             /\ PersistPhase(p, "MinedReverted",
                  [NoPatch EXCEPT !.rcpt = mined[t.ex], !.fail = "MINED_REVERTED"])
    <3>1. [NoPatch EXCEPT !.rcpt = mined[t.ex], !.fail = "MINED_REVERTED"]
             \in BroadcastStatePatch
      BY <2>0 DEF NoPatch, BroadcastStatePatch, Failures
    <3> QED BY <1>1, <1>2, <2>0, <2>3, <3>1, PersistMoves DEF Phases
  <2>4. CASE /\ mined[t.ex] # None
             /\ task' = [task EXCEPT ![p].pc = "header", ![p].seen = mined[t.ex]]
    <3> DEFINE u == [t EXCEPT !.pc = "header", !.seen = mined[t.ex]]
    <3>1. u \in Task /\ u.pc = "header" /\ u.ex = t.ex /\ u.snap = t.snap
          /\ u.seen = mined[t.ex]
      BY <1>1, <2>0 DEF Task, PCs
    <3>2. task' = [task EXCEPT ![p] = u]
      BY <2>4
    <3> HIDE DEF u
    <3>3. Fit(u, row')
      BY <1>2, <2>0, <2>4, <3>1 DEF Fit
    <3> QED BY <3>1, <3>2, <3>3 DEF Moves, Sending
  <2> QED BY <1>4, <2>1, <2>2, <2>3, <2>4 DEF TickReceipt
<1>5. CASE TickPoll(p)
  <2>1. t.pc \in Snapping
    BY <1>5 DEF TickPoll, Snapping
  <2>2. CASE PersistPhase(p, "Dropped", FailPatch("TRANSPORT_AMBIGUOUS"))
    BY <1>1, <1>2, <2>1, <2>2, PersistMoves, FailPatchType DEF Phases, Failures
  <2>3. CASE PersistPhase(p, "Pending", NoPatch)
    BY <1>1, <1>2, <2>1, <2>3, PersistMoves, NoPatchType DEF Phases
  <2> QED BY <1>5, <2>2, <2>3, FinishMoves DEF TickPoll
<1>6. CASE TickHeader(p)
  <2>1. PICK c \in CanonicalityOf(t.seen) :
           LET patch == [NoPatch EXCEPT !.rcpt = t.seen, !.canon = c]
           IN  IF c = "ORPHANED"
               THEN PersistPhase(p, "Reorged", [patch EXCEPT !.reorgs = t.snap.reorgs + 1])
               ELSE PersistPhase(p, MinedTarget(t.snap.phase), patch)
    BY <1>6 DEF TickHeader
  <2>2. /\ t.pc \in Snapping /\ t.seen \in Receipts /\ t.snap \in BroadcastStateRow
        /\ t.snap.reorgs + 1 \in Nat /\ c \in Canonicalities
    BY <1>1, <1>6 DEF TickHeader, Fit, Snapping, Task, BroadcastStateRow, CanonicalityOf,
       Canonicalities
  <2> DEFINE patch == [NoPatch EXCEPT !.rcpt = t.seen, !.canon = c]
             orphaned == [patch EXCEPT !.reorgs = t.snap.reorgs + 1]
  <2>3. patch \in BroadcastStatePatch /\ orphaned \in BroadcastStatePatch
    BY <2>2 DEF NoPatch, BroadcastStatePatch
  <2>4. PersistPhase(p, "Reorged", orphaned) \/ PersistPhase(p, MinedTarget(t.snap.phase), patch)
    BY <2>1
  <2> HIDE DEF patch, orphaned
  <2>5. CASE PersistPhase(p, "Reorged", orphaned)
    BY <1>1, <1>2, <2>2, <2>3, <2>5, PersistMoves DEF Phases
  <2>6. CASE PersistPhase(p, MinedTarget(t.snap.phase), patch)
    <3>1. t.snap.phase \in Phases
      BY <2>2 DEF BroadcastStateRow
    <3>2. CASE MinedTarget(t.snap.phase) = "Broadcasting"
      <4>1. t.snap.phase = "Broadcasting"
        BY <3>2 DEF MinedTarget
      <4>2. ~CanTransition("Broadcasting", "Broadcasting")
        BY DEF CanTransition, LegalSuccessors, IsTerminal, Manual, Cancelled
      <4> QED BY <2>6, <3>2, <4>1, <4>2, FinishMoves DEF PersistPhase
    <3>3. CASE MinedTarget(t.snap.phase) # "Broadcasting"
      <4>1. MinedTarget(t.snap.phase) \in Phases
        BY <3>1 DEF MinedTarget, Phases
      <4> QED BY <1>1, <1>2, <2>2, <2>3, <2>6, <3>3, <4>1, PersistMoves
    <3> QED BY <3>2, <3>3
  <2> QED BY <2>4, <2>5, <2>6
<1> QED BY <1>3, <1>4, <1>5, <1>6

\* maybe_finalize.
LEMMA FinalizeMoves ==
    ASSUME Typed, TasksFit, NEW p \in Proc,
           FinalizeHeader(p) \/ FinalizeDepth(p) \/ CorrelateHead(p) \/ CorrelateMatch(p)
    PROVE  Moves(p)
<1> DEFINE t == task[p]
<1>1. t \in Task /\ Fit(t, row) /\ TaskTypeOK
  BY DEF Typed, TaskTypeOK, TasksFit
<1>2. UNCHANGED row /\ t.pc \in {"fheader", "depth", "indexed", "matched"}
  BY DEF FinalizeHeader, FinalizeDepth, CorrelateHead, CorrelateMatch
<1>3. ASSUME NEW pc \in {"depth", "indexed", "matched"}, Goto(p, pc)
      PROVE  Moves(p)
  <2>1. Fit([t EXCEPT !.pc = pc], row')
    BY <1>1, <1>2 DEF Fit, Snapping, Task
  <2> QED BY <1>1, <1>3, <2>1, GotoMoves DEF PCs, Sending
<1>6. CASE t.pc = "fheader" /\ AwaitDepth(p)
  <2>1. t.snap \in BroadcastStateRow /\ t.ex \in Exec /\ row'[t.ex] # None /\ t.snap # None
    BY <1>1, <1>2, <1>6 DEF Fit, Snapping, Task
  <2>2. PICK b : b = [fork |-> fork, reorgs |-> t.snap.reorgs]
    OBVIOUS
  <2>3. b \in Basis
    BY <2>1, <2>2 DEF Basis, BroadcastStateRow, Typed, ChainTypeOK
  <2>4. PICK u : u = [t EXCEPT !.pc = "depth", !.basis = b]
    OBVIOUS
  <2>5. u \in Task /\ u.pc = "depth" /\ u.ex = t.ex /\ u.snap = t.snap
    BY <1>1, <2>3, <2>4 DEF Task, PCs
  <2>6. task' = [task EXCEPT ![p] = u]
    BY <1>6, <2>2, <2>4 DEF AwaitDepth
  <2>7. Fit(u, row')
    BY <2>1, <2>5 DEF Fit, Snapping
  <2> QED BY <2>5, <2>6, <2>7 DEF Moves, Sending
<1>4. CASE FinalizeHeader(p) \/ FinalizeDepth(p) \/ CorrelateHead(p)
  BY <1>3, <1>4, <1>6, FinishMoves DEF FinalizeHeader, FinalizeDepth, CorrelateHead
<1>5. CASE CorrelateMatch(p)
  <2>1. [NoPatch EXCEPT !.canon = "CANONICAL"] \in BroadcastStatePatch
    BY DEF NoPatch, BroadcastStatePatch, Canonicalities
  <2>2. CASE PersistPhase(p, "Confirmed", [NoPatch EXCEPT !.canon = "CANONICAL"])
    BY <1>1, <1>2, <2>1, <2>2, PersistMoves DEF Phases, Snapping
  <2> QED BY <1>5, <2>2, FinishMoves DEF CorrelateMatch
<1> QED BY <1>4, <1>5

\* BroadcastReorgRecovery::recover.
LEMMA RecoverMoves ==
    ASSUME Typed, TasksFit, NEW p \in Proc,
           RecoverReceipt(p) \/ RecoverHeader(p) \/ RecoverLookup(p) \/ RecoverNonce(p)
    PROVE  Moves(p)
<1> DEFINE t == task[p]
<1>1. t \in Task /\ Fit(t, row) /\ TaskTypeOK
  BY DEF Typed, TaskTypeOK, TasksFit
<1>2. UNCHANGED row /\ t.pc \in {"rreceipt", "rheader", "rlookup", "rnonce"}
  BY DEF RecoverReceipt, RecoverHeader, RecoverLookup, RecoverNonce
<1>3. /\ t.ex \in Exec /\ row[t.ex] # None /\ t.snap \in BroadcastStateRow /\ t.snap # None
      /\ mined[t.ex] \in Receipts \cup {None} /\ t.pc \in Snapping
  BY <1>1, <1>2 DEF Fit, Snapping, Task, Typed, ChainTypeOK
<1>4. ASSUME NEW pc \in {"rlookup", "rnonce"}, Goto(p, pc)
      PROVE  Moves(p)
  <2>1. Fit([t EXCEPT !.pc = pc], row')
    BY <1>1, <1>2, <1>3 DEF Fit, Snapping, Task
  <2> QED BY <1>1, <1>4, <2>1, GotoMoves DEF PCs, Sending
<1>5. ASSUME NEW r \in Receipts, r # None, ConsiderReceipt(p, r)
      PROVE  Moves(p)
  <2> DEFINE u == [t EXCEPT !.pc = "rheader", !.seen = r]
  <2>1. u \in Task /\ u.pc = "rheader" /\ u.ex = t.ex /\ u.snap = t.snap /\ u.seen = r
    BY <1>1 DEF Task, PCs
  <2>2. task' = [task EXCEPT ![p] = u]
    BY <1>5 DEF ConsiderReceipt
  <2> HIDE DEF u
  <2>3. Fit(u, row')
    BY <1>2, <1>3, <1>5, <2>1 DEF Fit
  <2> QED BY <2>1, <2>2, <2>3 DEF Moves, Sending
<1>6. ASSUME ReturnToPending(p) PROVE Moves(p)
  <2>1. [NoPatch EXCEPT !.canon = "UNKNOWN"] \in BroadcastStatePatch
    BY DEF NoPatch, BroadcastStatePatch, Canonicalities
  <2> QED BY <1>1, <1>2, <1>3, <1>6, <2>1, PersistMoves DEF ReturnToPending, Phases
<1>7. ASSUME FoundByLookup(p) PROVE Moves(p)
  <2>1. CASE mined[t.ex] # None
    <3>1. mined[t.ex] \in Receipts
      BY <1>3, <2>1
    <3>2. Synthetic(mined[t.ex]) \in Receipts
      BY <3>1 DEF Synthetic, Receipts
    <3>3. Synthetic(mined[t.ex]) # None
      BY <3>2, NoneAssumption
    <3> QED BY <1>5, <1>7, <2>1, <3>2, <3>3 DEF FoundByLookup
  <2>2. CASE mined[t.ex] = None
    BY <1>6, <1>7, <2>2 DEF FoundByLookup
  <2> QED BY <2>1, <2>2
<1>8. CASE RecoverReceipt(p)
  BY <1>3, <1>4, <1>5, <1>6, <1>8 DEF RecoverReceipt
<1>9. CASE RecoverHeader(p)
  <2> DEFINE patch == [NoPatch EXCEPT !.rcpt = t.seen, !.canon = "CANONICAL",
                                      !.reorgs = t.snap.reorgs + 1]
  <2>1. t.seen \in Receipts /\ t.snap.reorgs + 1 \in Nat
    BY <1>1, <1>3, <1>9 DEF RecoverHeader, Fit, Task, BroadcastStateRow
  <2>2. patch \in BroadcastStatePatch
    BY <2>1 DEF NoPatch, BroadcastStatePatch, Canonicalities
  <2>3. Finish(p) \/ PersistPhase(p, "Confirming", patch)
    BY <1>9 DEF RecoverHeader
  <2> HIDE DEF patch
  <2> QED BY <1>1, <1>2, <1>3, <2>2, <2>3, PersistMoves, FinishMoves DEF Phases
<1>10. CASE RecoverLookup(p)
  BY <1>4, <1>7, <1>10 DEF RecoverLookup
<1>11. CASE RecoverNonce(p)
  <2>1. CASE PersistPhase(p, Manual, FailPatch("REORG_NONCE_STOLEN"))
    BY <1>1, <1>2, <1>3, <2>1, PersistMoves, FailPatchType DEF Phases, Manual, Failures
  <2> QED BY <1>7, <1>11, <2>1, FinishMoves DEF RecoverNonce
<1> QED BY <1>8, <1>9, <1>10, <1>11

\* The shared escalation and every way a task may fail.
LEMMA FaultsMove ==
    ASSUME Typed, TasksFit, NEW p \in Proc, EscalateRead(p) \/ RpcError(p) \/ Crash(p)
    PROVE  Moves(p)
<1> DEFINE t == task[p]
<1>1. CASE EscalateRead(p)
  <2>1. PICK from : from \in {t.from, row[t.ex].phase}
                    /\ task' = [task EXCEPT ![p].pc = "write", ![p].from = from]
    BY <1>1 DEF EscalateRead
  <2>2. /\ t \in Task /\ Fit(t, row) /\ t.pc = "escalate" /\ UNCHANGED row
        /\ t.ex \in Exec /\ row[t.ex] # None /\ t.from \in Phases /\ t.to \in Phases
        /\ t.to # "Broadcasting"
    BY <1>1 DEF EscalateRead, Typed, TaskTypeOK, TasksFit, Fit
  <2>3. from \in Phases
    BY <2>1, <2>2 DEF Typed, StoreTypeOK, BroadcastStateRow
  <2> DEFINE u == [t EXCEPT !.pc = "write", !.from = from]
  <2>4. u \in Task /\ u.pc = "write" /\ u.ex = t.ex /\ u.from = from /\ u.to = t.to
    BY <2>2, <2>3 DEF Task, PCs
  <2>5. task' = [task EXCEPT ![p] = u]
    BY <2>1
  <2> HIDE DEF u
  <2>6. Fit(u, row')
    BY <2>2, <2>3, <2>4 DEF Fit, Snapping
  <2> QED BY <2>4, <2>5, <2>6 DEF Moves, Sending
<1>2. CASE RpcError(p) \/ Crash(p)
  BY <1>2, FinishMoves DEF RpcError, Crash
<1> QED BY <1>1, <1>2

\* The reads and decisions of the outbox.
LEMMA OutboxReadsMove ==
    ASSUME Typed, TasksFit, NEW p \in Proc,
           AdminBranch(p) \/ Firewall(p) \/ Probe(p) \/ ReRead(p)
           \/ ResumeRead(p) \/ ResumeLookup(p)
    PROVE  Moves(p)
<1> DEFINE t == task[p]
<1>1. t \in Task /\ Fit(t, row) /\ TaskTypeOK
  BY DEF Typed, TaskTypeOK, TasksFit
<1>2. UNCHANGED row /\ t.pc # "idle"
  BY DEF AdminBranch, Firewall, Probe, ReRead, ResumeRead, ResumeLookup
<1>3. /\ t.ex \in Exec /\ row[t.ex] # None /\ row[t.ex] \in BroadcastStateRow
      /\ row[t.ex].phase \in Phases /\ now \in Nat
  BY <1>1, <1>2 DEF Fit, Typed, StoreTypeOK, ChainTypeOK, BroadcastStateRow
<1>4. ASSUME NEW pc \in {"firewall", "resume", "probe", "sethash"}, Goto(p, pc)
      PROVE  Moves(p)
  <2>1. Fit([t EXCEPT !.pc = pc], row')
    BY <1>1, <1>2, <1>3 DEF Fit, Snapping, Task
  <2> QED BY <1>1, <1>4, <2>1, GotoMoves DEF PCs, Sending
<1>5. ASSUME NEW from \in Phases, NEW to \in {Manual, Cancelled}, NEW f \in Failures,
             PlanEscalation(p, from, to, f)
      PROVE  Moves(p)
  <2>1. to \in Phases /\ to # "Broadcasting"
    BY DEF Manual, Cancelled, Phases
  <2> QED BY <1>1, <1>2, <1>5, <2>1, EscalationMoves DEF Typed
<1>6. ASSUME NEW from \in Phases, NEW to \in Phases, to # "Broadcasting",
             NEW patch \in BroadcastStatePatch, PlanWrite(p, "write", from, to, patch)
      PROVE  Moves(p)
  BY <1>2, <1>3, <1>6, PlanMoves DEF PlanWrite, Typed
<1>7. /\ "BroadcastDisabled" \in Phases /\ "SERIALIZATION_FAILED" \in Failures
      /\ "FIREWALL_REJECTED" \in Failures /\ "TRANSPORT_AMBIGUOUS" \in Failures
      /\ "PROVIDER_HASH_MISMATCH" \in Failures
  BY DEF Phases, Failures
<1>8. CASE AdminBranch(p)
  BY <1>4, <1>8, FinishMoves DEF AdminBranch
<1>9. CASE Firewall(p)
  BY <1>4, <1>5, <1>7, <1>9 DEF Firewall
<1>10. CASE Probe(p)
  BY <1>4, <1>5, <1>7, <1>10 DEF Probe
<1>11. CASE ReRead(p)
  <2> DEFINE r == row[t.ex]
             patch == [NoPatch EXCEPT !.attempts = r.attempts + 1, !.lastSub = now]
             u == [IdleTask EXCEPT !.pc = "claim", !.ex = t.ex, !.from = r.phase,
                                   !.to = "Broadcasting", !.patch = patch,
                                   !.basis = t.basis]
  <2>1. CASE r.phase \in Unsent
    <3>0. r.attempts + 1 \in Nat
      BY <1>3 DEF BroadcastStateRow
    <3>1. patch \in BroadcastStatePatch
      BY <1>3, <3>0 DEF NoPatch, BroadcastStatePatch
    <3>2. task' = [task EXCEPT ![p] = u]
      BY <1>11, <2>1 DEF ReRead, PlanWrite, PlanUpdate
    <3> HIDE DEF patch
    <3>3. u \in Task /\ u.pc = "claim" /\ u.ex = t.ex /\ u.from = r.phase
          /\ u.to = "Broadcasting"
      BY <1>1, <1>3, <3>1, IdleType DEF Task, IdleTask, PCs, Phases
    <3> HIDE DEF u
    <3>4. row[t.ex].tx = t.ex
      BY <1>1, <1>11 DEF ReRead, Fit
    <3>5. Fit(u, row')
      BY <1>2, <1>3, <2>1, <3>3, <3>4 DEF Fit, Snapping, Phases
    <3> QED BY <3>2, <3>3, <3>5 DEF Moves, Sending
  <2> QED BY <1>11, <2>1, FinishMoves DEF ReRead
<1>12. CASE ResumeRead(p)
  <2> DEFINE r == row[t.ex]
             u == [t EXCEPT !.pc = "lookup", !.snap = r, !.ts = now]
  <2>1. CASE task' = [task EXCEPT ![p].pc = "lookup", ![p].snap = r, ![p].ts = now]
    <3>1. u \in Task /\ u.pc = "lookup" /\ u.ex = t.ex /\ u.snap = r
      BY <1>1, <1>3 DEF Task, PCs
    <3>2. task' = [task EXCEPT ![p] = u]
      BY <2>1
    <3> HIDE DEF u
    <3>3. Fit(u, row')
      BY <1>2, <1>3, <3>1 DEF Fit, Snapping
    <3> QED BY <3>1, <3>2, <3>3 DEF Moves, Sending
  <2> QED BY <1>3, <1>5, <1>7, <1>12, <2>1, FinishMoves DEF ResumeRead
<1>13. CASE ResumeLookup(p)
  <2> DEFINE stamp == [NoPatch EXCEPT !.lastSub = t.ts]
  <2>1. t.snap.phase \in Phases /\ t.ts \in Nat
    BY <1>1, <1>13 DEF ResumeLookup, Fit, Snapping, Task, BroadcastStateRow
  <2>2. /\ stamp \in BroadcastStatePatch
        /\ [stamp EXCEPT !.fail = "TRANSPORT_AMBIGUOUS"] \in BroadcastStatePatch
    BY <1>7, <2>1 DEF NoPatch, BroadcastStatePatch
  <2>3. {"Submitted", "Pending", "SubmissionUnknown"} \subseteq Phases \ {"Broadcasting"}
    BY DEF Phases
  <2>4. ASSUME NEW to \in {"Submitted", "Pending"},
               PlanWrite(p, "write", t.snap.phase, to, stamp)
        PROVE  Moves(p)
    BY <1>6, <2>1, <2>2, <2>3, <2>4
  <2>5. ASSUME PlanWrite(p, "write", t.snap.phase, "SubmissionUnknown",
                         [stamp EXCEPT !.fail = "TRANSPORT_AMBIGUOUS"])
        PROVE  Moves(p)
    BY <1>6, <2>1, <2>2, <2>3, <2>5
  <2> QED BY <1>5, <1>7, <1>13, <2>1, <2>4, <2>5, FinishMoves DEF ResumeLookup
<1> QED BY <1>8, <1>9, <1>10, <1>11, <1>12, <1>13

LEMMA ManualMoves ==
    ASSUME Typed, NEW p \in Proc, NEW e \in Exec, ManualRead(p, e)
    PROVE  Moves(p)
<1>1. row'[e] # None /\ row[e].phase \in Phases /\ Manual \in Phases
      /\ Manual # "Broadcasting" /\ "ADMIN_MANUAL_INTERVENTION" \in Failures
  BY DEF ManualRead, Typed, StoreTypeOK, BroadcastStateRow, Manual, Phases, Failures
<1>2. PlanUpdate(p, e, "write", row[e].phase, Manual, FailPatch("ADMIN_MANUAL_INTERVENTION"))
  BY DEF ManualRead
<1> QED BY <1>1, <1>2, PlanMoves, FailPatchType DEF Typed

-----------------------------------------------------------------------------
(* The steps that write a row.                                             *)

LEMMA BroadcastRequestMoves ==
    ASSUME Typed, RowsFit, NEW p \in Proc, NEW e \in Exec, AdminBroadcast(p, e)
    PROVE  Moves(p) /\ RowsKept
<1>1. RowsKept /\ row'[e] # None
  BY InsertKeepsRows DEF AdminBroadcast, Typed
<1> DEFINE t == [IdleTask EXCEPT !.pc = "branch", !.ex = e]
<1>2. t \in Task /\ t.pc = "branch" /\ t.ex = e
  BY IdleType DEF Task, IdleTask, PCs
<1>3. task' = [task EXCEPT ![p] = t]
  BY DEF AdminBroadcast, Start
<1> HIDE DEF t
<1>4. Fit(t, row')
  BY <1>1, <1>2 DEF Fit, Snapping
<1> QED BY <1>1, <1>2, <1>3, <1>4 DEF Moves, Sending

LEMMA SetTxHashMoves ==
    ASSUME Typed, RowsFit, TasksFit, NEW p \in Proc, SetTxHash(p)
    PROVE  Moves(p) /\ RowsKept
<1> DEFINE t == task[p]
<1>1. t \in Task /\ Fit(t, row) /\ TaskTypeOK /\ t.pc = "sethash" /\ t.ex \in Exec
  BY DEF Typed, TaskTypeOK, TasksFit, SetTxHash, Fit
<1>2. RowsKept /\ (TxHashWritable(t.ex, t.ex) => row'[t.ex] # None /\ row'[t.ex].tx = t.ex)
  BY <1>1, SetHashKeepsRows DEF SetTxHash, Typed
<1>3. CASE TxHashWritable(t.ex, t.ex)
  <2>1. Fit([t EXCEPT !.pc = "reread"], row')
    BY <1>1, <1>2, <1>3 DEF Fit, Snapping, Task
  <2> QED BY <1>1, <1>2, <1>3, <2>1, GotoMoves DEF SetTxHash, PCs, Sending
<1>4. CASE ~TxHashWritable(t.ex, t.ex)
  BY <1>2, <1>4, FinishMoves DEF SetTxHash
<1> QED BY <1>3, <1>4

LEMMA WriteMoves ==
    ASSUME Typed, RowsFit, TasksFit, NEW p \in Proc, Write(p)
    PROVE  Moves(p) /\ RowsKept
<1> DEFINE t == task[p]
<1>1. /\ t.pc = "write" /\ t.ex \in Exec /\ t.to \in Phases /\ t.to # "Broadcasting"
      /\ t.patch \in BroadcastStatePatch
  BY DEF Typed, TaskTypeOK, TasksFit, Write, Fit, Task
<1>2. RowsKept
  BY <1>1, UpdateKeepsRows DEF Write, Typed
<1> QED BY <1>2, FinishMoves DEF Write

\* classify_and_persist and classify_resend_and_persist.
LEMMA ClassifyMoves ==
    ASSUME Typed, RowsFit, TasksFit, NEW p \in Proc, ClassifySend(p) \/ ClassifyResend(p)
    PROVE  Moves(p) /\ RowsKept
<1> DEFINE t == task[p]
<1>1. /\ t \in Task /\ Fit(t, row) /\ TaskTypeOK /\ t.pc # "idle" /\ t.ex \in Exec
      /\ now \in Nat /\ t.ts \in Nat
  BY DEF Typed, TaskTypeOK, TasksFit, ClassifySend, ClassifyResend, Fit, Task, ChainTypeOK
<1>2. ASSUME NEW from \in Phases, NEW f \in Failures, UNCHANGED row,
             PlanEscalation(p, from, Manual, f)
      PROVE  Moves(p) /\ RowsKept
  <2>1. Manual \in Phases /\ Manual # "Broadcasting"
    BY DEF Manual, Phases
  <2> QED BY <1>1, <1>2, <2>1, EscalationMoves, UnchangedKeepsRows DEF Typed
<1>3. ASSUME NEW from, NEW to \in {"Submitted", "SubmissionUnknown"},
             NEW patch \in BroadcastStatePatch,
             UpdateBroadcastPhase(t.ex, from, to, patch), Finish(p)
      PROVE  Moves(p) /\ RowsKept
  <2>1. to \in Phases /\ to # "Broadcasting"
    BY DEF Phases
  <2>2. RowsKept
    BY <1>1, <1>3, <2>1, UpdateKeepsRows DEF Typed
  <2> QED BY <1>3, <2>2, FinishMoves
<1>4. /\ "Broadcasting" \in Phases /\ "TRANSPORT_AMBIGUOUS" \in Failures
      /\ "PROVIDER_HASH_MISMATCH" \in Failures /\ "NONCE_CONFLICT" \in Failures
      /\ "PROVIDER_REJECTED" \in Failures
  BY DEF Phases, Failures
<1>5. CASE ClassifySend(p)
  <2>1. \A f \in {None, "TRANSPORT_AMBIGUOUS"} :
           [NoPatch EXCEPT !.lastSub = now, !.fail = f] \in BroadcastStatePatch
    BY <1>1, <1>4 DEF NoPatch, BroadcastStatePatch
  <2> QED BY <1>2, <1>3, <1>4, <1>5, <2>1 DEF ClassifySend
<1>6. CASE ClassifyResend(p)
  <2> DEFINE patch == [NoPatch EXCEPT !.attempts = t.snap.attempts + 1, !.lastSub = t.ts]
  <2>1. t.snap \in BroadcastStateRow
    BY <1>1, <1>6 DEF ClassifyResend, Fit, Snapping, Task
  <2>2. t.snap.phase \in Phases /\ t.snap.attempts + 1 \in Nat
    BY <2>1 DEF BroadcastStateRow
  <2>3. patch \in BroadcastStatePatch
    BY <1>1, <2>2 DEF NoPatch, BroadcastStatePatch
  <2>4. ASSUME Finish(p), UNCHANGED row PROVE Moves(p) /\ RowsKept
    BY <2>4, FinishMoves, UnchangedKeepsRows DEF Typed
  <2>5. ASSUME UpdateBroadcastPhase(t.ex, t.snap.phase, "Submitted", patch), Finish(p)
        PROVE  Moves(p) /\ RowsKept
    BY <1>3, <2>3, <2>5
  <2> QED BY <1>2, <1>4, <1>6, <2>2, <2>4, <2>5 DEF ClassifyResend
<1> QED BY <1>5, <1>6

-----------------------------------------------------------------------------
(* The claim, the hand-offs, and the start of a resend.                    *)

\* A submitter that wins the compare-and-set goes on to send, and the row it
\* won was unsent until then.
LEMMA ClaimMoves ==
    ASSUME Typed, RowsFit, TasksFit, NEW p \in Proc, Claim(p)
    PROVE  /\ RowsKept
           /\ \E t \in Task :
                 /\ Fit(t, row') /\ task' = [task EXCEPT ![p] = t]
                 /\ \/ t.pc = "idle" /\ UNCHANGED row
                    \/ /\ t.pc = "send" /\ t.posts = 0 /\ t.ex = task[p].ex
                       /\ row[t.ex] # None /\ row[t.ex].phase \in Unsent
<1> DEFINE t == task[p]
<1>1. /\ t.pc = "claim" /\ t.ex \in Exec /\ t.to = "Broadcasting" /\ t.from \in Unsent
      /\ t.patch \in BroadcastStatePatch /\ row[t.ex] # None /\ row[t.ex].tx = t.ex
  BY DEF Typed, TaskTypeOK, TasksFit, Claim, Fit, Task
<1>2. RowsKept
  BY <1>1, UpdateKeepsRows DEF Claim, Typed, Phases
<1>3. CASE UpdateApplies(t.ex, t.from, t.to)
  <2> DEFINE u == [IdleTask EXCEPT !.pc = "send", !.ex = t.ex]
  <2>1. u \in Task /\ u.pc = "send" /\ u.ex = t.ex /\ u.posts = 0
    BY <1>1, IdleType DEF Task, IdleTask, PCs
  <2>2. task' = [task EXCEPT ![p] = u]
    BY <1>3 DEF Claim
  <2>3. row' = [row EXCEPT ![t.ex] = Patched(row[t.ex], t.to, t.patch)]
    BY <1>3 DEF Claim, UpdateBroadcastPhase
  <2>4. row[t.ex] \in BroadcastStateRow /\ row[t.ex].phase \in Unsent /\ t.to \in Phases
    BY <1>1, <1>3 DEF UpdateApplies, Typed, StoreTypeOK, Phases
  <2>5. row'[t.ex] # None /\ row'[t.ex].tx = t.ex /\ row'[t.ex].phase = "Broadcasting"
    BY <1>1, <2>3, <2>4, PatchedType DEF Typed, StoreTypeOK
  <2>6. Left(row'[t.ex])
    BY <2>5 DEF Left, Unsent, Cancelled
  <2> HIDE DEF u
  <2>7. Fit(u, row')
    BY <1>1, <2>1, <2>5, <2>6 DEF Fit, Snapping
  <2> QED BY <1>1, <1>2, <2>1, <2>2, <2>4, <2>7
<1>4. CASE ~UpdateApplies(t.ex, t.from, t.to)
  BY <1>2, <1>4, IdleType, IdleFit DEF Claim, Finish, UpdateBroadcastPhase
<1> QED BY <1>3, <1>4

\* One POST: the task stays where it is, with its retry counted, or goes on to
\* classify the answer; the first POST of a call counts as the hand-off.
LEMMA HandOffMoves ==
    ASSUME Typed, TasksFit, NEW p \in Proc, NEW next \in {"classify", "reclassify"},
           next = "reclassify" => task[p].pc = "resend",
           task[p].pc \in {"send", "resend"}, HandOff(p, next)
    PROVE  /\ UNCHANGED row
           /\ handed' = [handed EXCEPT ![task[p].ex] =
                             IF task[p].posts = 0 THEN @ + 1 ELSE @]
           /\ \E t \in Task :
                 /\ Fit(t, row') /\ task' = [task EXCEPT ![p] = t] /\ t.ex = task[p].ex
                 /\ t.pc = next \/ (t.pc = task[p].pc /\ t.posts # 0)
<1> DEFINE t == task[p]
<1>1. /\ t \in Task /\ Fit(t, row) /\ t.posts \in Nat /\ t.pc \in PCs /\ next \in PCs
  BY DEF Typed, TaskTypeOK, TasksFit, Task, PCs
<1>2. PICK pc \in PCs, resp \in SendResponses \cup {None}, posts \in Nat :
         /\ task' = [task EXCEPT ![p].pc = pc, ![p].resp = resp, ![p].posts = posts]
         /\ pc = next \/ (pc = t.pc /\ posts # 0)
         /\ handed' = [handed EXCEPT ![t.ex] = IF t.posts = 0 THEN @ + 1 ELSE @]
         /\ UNCHANGED row
  <2>1. PICK r \in SendResponses :
           /\ task' = [task EXCEPT
               ![p].pc    = IF r = "ambiguous" /\ t.posts < RpcMaxRetries
                            THEN t.pc ELSE next,
               ![p].resp  = IF r = "ambiguous" /\ t.posts < RpcMaxRetries
                            THEN None ELSE r,
               ![p].posts = IF r = "ambiguous" /\ t.posts < RpcMaxRetries
                            THEN t.posts + 1 ELSE 0]
           /\ handed' = [handed EXCEPT ![t.ex] = IF t.posts = 0 THEN @ + 1 ELSE @]
           /\ UNCHANGED row
    BY DEF HandOff
  <2>2. CASE r = "ambiguous" /\ t.posts < RpcMaxRetries
    <3>1. t.posts + 1 \in Nat /\ t.posts + 1 # 0
      BY <1>1
    <3>2. task' = [task EXCEPT ![p].pc = t.pc, ![p].resp = None,
                               ![p].posts = t.posts + 1]
      BY <2>1, <2>2
    <3> t.pc \in PCs /\ None \in SendResponses \cup {None} /\ t.posts + 1 \in Nat
      BY <1>1
    <3> WITNESS t.pc \in PCs, None \in SendResponses \cup {None}, t.posts + 1 \in Nat
    <3> QED BY <2>1, <3>1, <3>2
  <2>3. CASE ~(r = "ambiguous" /\ t.posts < RpcMaxRetries)
    <3>1. task' = [task EXCEPT ![p].pc = next, ![p].resp = r, ![p].posts = 0]
      BY <2>1, <2>3
    <3> QED BY <1>1, <2>1, <3>1
  <2> QED BY <2>2, <2>3
<1> DEFINE u == [t EXCEPT !.pc = pc, !.resp = resp, !.posts = posts]
<1>3. task' = [task EXCEPT ![p] = u]
  BY <1>2
<1>4. /\ u \in Task /\ u.ex = t.ex /\ u.snap = t.snap /\ u.pc = pc /\ u.posts = posts
  BY <1>1, <1>2 DEF Task
<1> HIDE DEF u
<1>5. Fit(u, row')
  BY <1>1, <1>2, <1>4 DEF Fit, Snapping
<1> QED BY <1>2, <1>3, <1>4, <1>5

LEMMA ResendReadMoves ==
    ASSUME Typed, RowsFit, NEW p \in Proc, NEW e \in Exec, ResendRead(p, e)
    PROVE  /\ UNCHANGED row
           /\ \E t \in Task : Fit(t, row') /\ task' = [task EXCEPT ![p] = t]
<1>1. /\ row[e] # None /\ row[e] \in BroadcastStateRow /\ row[e].phase \in Phases
      /\ row[e].phase \in {"SubmissionUnknown", "Dropped"} /\ UNCHANGED row /\ now \in Nat
  BY DEF ResendRead, Typed, StoreTypeOK, ChainTypeOK, BroadcastStateRow
<1>2. ASSUME NEW f \in Failures,
             PlanUpdate(p, e, "escalate", row[e].phase, Manual, FailPatch(f))
      PROVE  Moves(p)
  <2>1. Manual \in Phases /\ Manual # "Broadcasting"
    BY DEF Manual, Phases
  <2> QED BY <1>1, <1>2, <2>1, PlanMoves, FailPatchType DEF Typed
<1>3. ASSUME task' = [task EXCEPT ![p] = [IdleTask EXCEPT
                 !.pc = "resend", !.ex = e, !.snap = row[e], !.ts = now]]
      PROVE  \E t \in Task : Fit(t, row') /\ task' = [task EXCEPT ![p] = t]
  <2> DEFINE t == [IdleTask EXCEPT !.pc = "resend", !.ex = e, !.snap = row[e], !.ts = now]
  <2>1. t \in Task /\ t.pc = "resend" /\ t.ex = e /\ t.snap = row[e]
    BY <1>1, IdleType DEF Task, IdleTask, PCs
  <2>2. row[e].tx = e /\ Left(row[e])
    BY <1>1 DEF RowsFit, Left, Unsent, Cancelled, Manual
  <2>3. task' = [task EXCEPT ![p] = t]
    BY <1>3
  <2> HIDE DEF t
  <2>4. Fit(t, row')
    BY <1>1, <2>1, <2>2 DEF Fit, Snapping
  <2> QED BY <2>1, <2>3, <2>4
<1>4. /\ "TRANSPORT_AMBIGUOUS" \in Failures /\ "SERIALIZATION_FAILED" \in Failures
      /\ "PROVIDER_HASH_MISMATCH" \in Failures
  BY DEF Failures
<1>5. Moves(p) \/ task' = [task EXCEPT ![p] = [IdleTask EXCEPT
                 !.pc = "resend", !.ex = e, !.snap = row[e], !.ts = now]]
  BY <1>2, <1>4 DEF ResendRead
<1> QED BY <1>1, <1>3, <1>5 DEF Moves

-----------------------------------------------------------------------------
(* The chain, the indexer and the clock keep their types.                  *)

LEMMA IncludeType ==
    ASSUME ChainTypeOK, NEW base \in [Exec -> Receipts \cup {None}],
           NEW n \in Nat, NEW f \in Nat, NEW txs \in SUBSET Exec,
           NEW status \in [txs -> {0, 1}], Include(base, n, f, status)
    PROVE  /\ mined' \in [Exec -> Receipts \cup {None}]
           /\ included' \in [Exec -> SUBSET Receipts]
<1>1. \A e \in txs : [n |-> n, fork |-> f, status |-> status[e]] \in Receipts
  BY DEF Receipts
<1>2. \A e \in Exec : included[e] \in SUBSET Receipts
  BY DEF ChainTypeOK
<1>3. DOMAIN status = txs
  OBVIOUS
<1> QED BY <1>1, <1>2, <1>3 DEF Include

LEMMA MatchedType ==
    ASSUME ChainTypeOK, NEW blocks PROVE MatchedOver(blocks) \in [Exec -> Receipts \cup {None}]
BY DEF MatchedOver, ChainTypeOK

LEMMA ChainKept ==
    ASSUME ChainTypeOK,
           \/ \E txs \in SUBSET pool : MineBlock(txs)
           \/ \E k \in 1..Tip : Reorg(k)
           \/ \E e \in Exec : Evict(e) \/ Arrive(e)
           \/ \E e \in Exec, resp \in SendResponses : Transmit(e, resp)
           \/ IndexBlock \/ IndexReorg \/ ClockTick
    PROVE  ChainTypeOK'
<1>1. ASSUME NEW txs \in SUBSET pool, MineBlock(txs) PROVE ChainTypeOK'
  <2>1. PICK status \in [txs -> {0, 1}] : Include(mined, Tip + 1, fork, status)
    BY <1>1 DEF MineBlock
  <2>2. Tip + 1 \in Nat /\ fork \in Nat /\ txs \in SUBSET Exec
    BY DEF Tip, ChainTypeOK
  <2>3. mined' \in [Exec -> Receipts \cup {None}] /\ included' \in [Exec -> SUBSET Receipts]
    BY <2>1, <2>2, IncludeType DEF ChainTypeOK
  <2>4. chain' \in Seq(Nat)
    BY <1>1 DEF MineBlock, ChainTypeOK
  <2> QED BY <1>1, <2>3, <2>4 DEF MineBlock, ChainTypeOK, indexVars
<1>2. ASSUME NEW k \in 1..Tip, Reorg(k) PROVE ChainTypeOK'
  <2> DEFINE gone == {e \in Exec : mined[e] # None /\ mined[e].n >= k}
             kept == [e \in Exec |-> IF e \in gone THEN None ELSE mined[e]]
             branch == [i \in 1..Tip - k + 2 |-> fork']
  <2>1. PICK again \in SUBSET gone, back \in SUBSET gone :
           /\ pool' = pool \cup back
           /\ \E status \in [again -> {0, 1}] : Include(kept, k, fork', status)
    BY <1>2 DEF Reorg
  <2>2. PICK status \in [again -> {0, 1}] : Include(kept, k, fork', status)
    BY <2>1
  <2>3. kept \in [Exec -> Receipts \cup {None}] /\ gone \in SUBSET Exec
    BY DEF ChainTypeOK
  <2>4. k \in Nat /\ fork' \in Nat /\ fork' = fork + 1 /\ Tip \in Nat
    BY <1>2 DEF Reorg, ChainTypeOK, Tip
  <2>5. again \in SUBSET Exec /\ back \in SUBSET Exec
    BY <2>3
  <2> HIDE DEF gone, kept
  <2>6. mined' \in [Exec -> Receipts \cup {None}] /\ included' \in [Exec -> SUBSET Receipts]
    BY <2>2, <2>3, <2>4, <2>5, IncludeType
  <2>7. branch \in Seq(Nat)
    BY <2>4
  <2>8. SubSeq(chain, 1, k - 1) \in Seq(Nat)
    BY <2>4 DEF ChainTypeOK, Tip
  <2>9. chain' \in Seq(Nat)
    <3>1. chain' = SubSeq(chain, 1, k - 1) \o branch
      BY <1>2 DEF Reorg
    <3> HIDE DEF branch
    <3> QED BY <2>7, <2>8, <3>1
  <2> QED BY <1>2, <2>1, <2>4, <2>5, <2>6, <2>9 DEF Reorg, ChainTypeOK, indexVars
<1>3. ASSUME NEW e \in Exec, Evict(e) \/ Arrive(e) PROVE ChainTypeOK'
  BY <1>3 DEF Evict, Arrive, Admitted, ChainTypeOK, indexVars
<1>4. ASSUME NEW e \in Exec, NEW resp \in SendResponses, Transmit(e, resp)
      PROVE  ChainTypeOK'
  <2>1. pool' \subseteq Exec /\ wire' \subseteq Exec
    BY <1>4 DEF Transmit, Admitted, ChainTypeOK
  <2> QED BY <1>4, <2>1 DEF Transmit, ChainTypeOK, indexVars
<1>5. CASE IndexBlock
  <2>1. Len(indexed) \in Nat /\ Len(indexed) + 1 \in 1..Len(chain)
    BY <1>5 DEF IndexBlock, ChainTypeOK, Tip
  <2>2. indexed' \in Seq(Nat)
    BY <1>5, <2>1 DEF IndexBlock, ChainTypeOK
  <2>3. matched' \in [Exec -> Receipts \cup {None}]
    BY <1>5, MatchedType DEF IndexBlock
  <2> QED BY <1>5, <2>2, <2>3 DEF IndexBlock, ChainTypeOK, nodeVars
<1>6. CASE IndexReorg
  <2>1. matched' \in [Exec -> Receipts \cup {None}]
    BY <1>6, MatchedType DEF IndexReorg
  <2> QED BY <1>6, <2>1 DEF IndexReorg, ChainTypeOK, nodeVars
<1>7. CASE ClockTick
  BY <1>7 DEF ClockTick, ChainTypeOK, nodeVars, indexVars
<1> QED BY <1>1, <1>2, <1>3, <1>4, <1>5, <1>6, <1>7

LEMMA ChainUnchanged == ASSUME ChainTypeOK, UNCHANGED chainVars PROVE ChainTypeOK'
BY DEF ChainTypeOK, chainVars, nodeVars, indexVars

-----------------------------------------------------------------------------
(* Every step, seen from the rows, the tasks and the hand-offs.            *)

\* Task p moves on, possibly with one store call of its own.
Ordinary(p) ==
    /\ Moves(p) /\ RowsKept /\ UNCHANGED handed
    /\ UNCHANGED row \/ task[p].pc # "send"

Elsewhere == UNCHANGED <<row, task, handed>>

LEMMA StepKinds ==
    ASSUME Inv, [Next]_vars
    PROVE  /\ \/ \E p \in Proc : Ordinary(p) \/ Claim(p) \/ Send(p) \/ Resend(p)
              \/ "resend" \in Events /\ \E p \in Proc, e \in Exec : ResendRead(p, e)
              \/ Elsewhere
           /\ ChainTypeOK' /\ execPhase' \in [Exec -> ExecPhases]
<1>0. Typed /\ RowsFit /\ TasksFit /\ OutboxTypeOK
  BY DEF Inv, TypeOK, Typed
<1> DEFINE Kinds ==
      \/ \E p \in Proc : Ordinary(p) \/ Claim(p) \/ Send(p) \/ Resend(p)
      \/ "resend" \in Events /\ \E p \in Proc, e \in Exec : ResendRead(p, e)
      \/ Elsewhere
    Typing == ChainTypeOK' /\ execPhase' \in [Exec -> ExecPhases]
<1>1. ASSUME NEW p \in Proc, Moves(p), UNCHANGED <<row, execPhase, handed, chainVars>>
      PROVE  Kinds /\ Typing
  BY <1>0, <1>1, UnchangedKeepsRows, ChainUnchanged DEF Ordinary, Typed, OutboxTypeOK
<1>2. ASSUME NEW p \in Proc, Moves(p) /\ RowsKept, task[p].pc # "send",
             UNCHANGED <<execPhase, handed, chainVars>>
      PROVE  Kinds /\ Typing
  BY <1>0, <1>2, ChainUnchanged DEF Ordinary, Typed, OutboxTypeOK
<1>3. ASSUME NEW e \in Exec, OrchestratorAdvance(e) PROVE Kinds /\ Typing
  <2>1. Elsewhere
    BY <1>3 DEF OrchestratorAdvance, Elsewhere
  <2>2. execPhase' \in [Exec -> ExecPhases]
    BY <1>0, <1>3 DEF OrchestratorAdvance, OutboxTypeOK, ExecPhases
  <2> QED BY <1>0, <1>3, <2>1, <2>2, ChainUnchanged DEF OrchestratorAdvance, Typed
<1>4. ASSUME NEW e \in Exec, Tick(e) PROVE Kinds /\ Typing
  BY <1>0, <1>1, <1>4, StartsMove, PipelineAssumption DEF Tick, TickList
<1>5. ASSUME NEW p \in Requests, NEW e \in Exec, Request(p, e) PROVE Kinds /\ Typing
  <2> p \in Proc
    BY DEF Requests
  <2>1. CASE AdminBroadcast(p, e)
    <3>1. task[p].pc # "send"
      BY <2>1 DEF AdminBroadcast, Start
    <3> QED BY <1>0, <1>2, <2>1, <3>1, BroadcastRequestMoves DEF AdminBroadcast
  <2>2. CASE "resend" \in Events /\ ResendRead(p, e)
    BY <1>0, <2>2, ChainUnchanged DEF ResendRead, Typed, OutboxTypeOK
  <2>3. CASE ManualRead(p, e)
    BY <1>0, <1>1, <2>3, ManualMoves DEF ManualRead
  <2>4. CASE (Recheck(p, e) \/ FinalizeRead(p, e) \/ RecoverRead(p, e))
             /\ UNCHANGED <<execPhase, handed>>
    BY <1>0, <1>1, <2>4, StartsMove DEF Recheck, FinalizeRead, RecoverRead
  <2> QED BY <1>5, <2>1, <2>2, <2>3, <2>4 DEF Request
<1>6. ASSUME NEW p \in Proc, OutboxStep(p) PROVE Kinds /\ Typing
  <2>1. CASE \/ AdminBranch(p) \/ Firewall(p) \/ Probe(p) \/ ReRead(p)
             \/ ResumeRead(p) \/ ResumeLookup(p)
    BY <1>0, <1>1, <2>1, OutboxReadsMove
    DEF AdminBranch, Firewall, Probe, ReRead, ResumeRead, ResumeLookup
  <2>2. CASE SetTxHash(p)
    BY <1>0, <1>2, <2>2, SetTxHashMoves DEF SetTxHash
  <2>3. CASE ClassifySend(p) \/ ClassifyResend(p)
    BY <1>0, <1>2, <2>3, ClassifyMoves DEF ClassifySend, ClassifyResend
  <2>4. CASE Claim(p)
    BY <1>0, <2>4, ChainUnchanged DEF Claim, Typed, OutboxTypeOK
  <2>5. CASE Send(p) \/ Resend(p)
    <3>1. task[p].ex \in Exec
      BY <1>0, <2>5 DEF Send, Resend, TasksFit, Fit
    <3>2. PICK resp \in SendResponses : Transmit(task[p].ex, resp)
      BY <2>5 DEF Send, Resend, HandOff
    <3>3. ChainTypeOK'
      BY <1>0, <3>1, <3>2, ChainKept DEF Typed
    <3>4. UNCHANGED execPhase
      BY <2>5 DEF Send, Resend, HandOff
    <3> QED BY <1>0, <2>5, <3>3, <3>4 DEF OutboxTypeOK
  <2> QED BY <1>6, <2>1, <2>2, <2>3, <2>4, <2>5 DEF OutboxStep
<1>7. ASSUME NEW p \in Proc, WorkerStep(p) PROVE Kinds /\ Typing
  <2>1. CASE TickRead(p) \/ TickReceipt(p) \/ TickPoll(p) \/ TickHeader(p)
    BY <1>0, <1>1, <1>7, <2>1, TickMoves
    DEF WorkerStep, TickRead, TickReceipt, TickPoll, TickHeader
  <2>2. CASE FinalizeHeader(p) \/ FinalizeDepth(p) \/ CorrelateHead(p) \/ CorrelateMatch(p)
    BY <1>0, <1>1, <1>7, <2>2, FinalizeMoves
    DEF WorkerStep, FinalizeHeader, FinalizeDepth, CorrelateHead, CorrelateMatch
  <2>3. CASE RecoverReceipt(p) \/ RecoverHeader(p) \/ RecoverLookup(p) \/ RecoverNonce(p)
    BY <1>0, <1>1, <1>7, <2>3, RecoverMoves
    DEF WorkerStep, RecoverReceipt, RecoverHeader, RecoverLookup, RecoverNonce
  <2>4. CASE EscalateRead(p)
    BY <1>0, <1>1, <1>7, <2>4, FaultsMove DEF WorkerStep, EscalateRead
  <2>5. CASE Write(p)
    BY <1>0, <1>2, <1>7, <2>5, WriteMoves DEF WorkerStep, Write
  <2> QED BY <1>7, <2>1, <2>2, <2>3, <2>4, <2>5 DEF WorkerStep
<1>8. ASSUME NEW p \in Proc, Fault(p) PROVE Kinds /\ Typing
  BY <1>0, <1>1, <1>8, FaultsMove DEF Fault, RpcError, Crash
<1>9. CASE (\E e \in Exec : Leave(e)) \/ Advance \/ ChainGrows
  <2>1. ChainTypeOK'
    BY <1>0, <1>9, ChainKept DEF Leave, Advance, ChainGrows, Typed
  <2>2. Elsewhere /\ UNCHANGED execPhase
    BY <1>9 DEF Leave, Advance, ChainGrows, Elsewhere
  <2> QED BY <1>0, <2>1, <2>2 DEF OutboxTypeOK
<1>10. CASE UNCHANGED vars
  <2>1. Elsewhere /\ UNCHANGED <<execPhase, chainVars>>
    BY <1>10 DEF vars, Elsewhere
  <2> QED BY <1>0, <2>1, ChainUnchanged DEF OutboxTypeOK, Typed
<1> QED
  BY <1>3, <1>4, <1>5, <1>6, <1>7, <1>8, <1>9, <1>10 DEF Next

-----------------------------------------------------------------------------
(* The invariant.                                                          *)

LEMMA TaskStepKeepsFit ==
    ASSUME TaskTypeOK, TasksFit, Grows(row, row'), NEW p \in Proc, NEW t \in Task,
           Fit(t, row'), task' = [task EXCEPT ![p] = t]
    PROVE  TaskTypeOK' /\ TasksFit'
<1>1. TaskTypeOK'
  BY DEF TaskTypeOK
<1>2. ASSUME NEW q \in Proc PROVE Fit(task'[q], row')
  <2>1. CASE q = p
    BY <2>1 DEF TaskTypeOK
  <2>2. CASE q # p
    <3>1. task'[q] = task[q]
      BY <2>2 DEF TaskTypeOK
    <3> QED BY <3>1, FitSurvives DEF TasksFit
  <2> QED BY <2>1, <2>2
<1> QED BY <1>1, <1>2 DEF TasksFit

LEMMA HandedSurvives ==
    ASSUME HandedFit, Grows(row, row'), UNCHANGED handed PROVE HandedFit'
BY DEF HandedFit, Grows

LEMMA InvInit == Init => Inv
<1> SUFFICES ASSUME Init PROVE Inv
  OBVIOUS
<1>1. StoreTypeOK /\ RowsFit
  BY DEF Init, StoreTypeOK, RowsFit
<1>2. TaskTypeOK /\ TasksFit
  BY IdleType, IdleFit DEF Init, TaskTypeOK, TasksFit
<1>3. ChainTypeOK
  BY DEF Init, ChainInit, ChainTypeOK
<1>4. OutboxTypeOK /\ HandedFit
  BY DEF Init, OutboxTypeOK, ExecPhases, HandedFit
<1> QED BY <1>1, <1>2, <1>3, <1>4 DEF Inv, TypeOK

LEMMA InvStep == Inv /\ [Next]_vars => Inv'
<1> SUFFICES ASSUME Inv, [Next]_vars PROVE Inv'
  OBVIOUS
<1>0. Typed /\ RowsFit /\ TasksFit /\ HandedFit /\ OutboxTypeOK /\ TaskTypeOK /\ StoreTypeOK
  BY DEF Inv, TypeOK, Typed
<1>1. ChainTypeOK' /\ execPhase' \in [Exec -> ExecPhases]
  BY StepKinds
<1>2. ASSUME RowsKept, UNCHANGED handed,
             NEW p \in Proc, NEW t \in Task, Fit(t, row'), task' = [task EXCEPT ![p] = t]
      PROVE  Inv'
  <2>1. TaskTypeOK' /\ TasksFit'
    BY <1>0, <1>2, TaskStepKeepsFit DEF RowsKept
  <2>2. HandedFit'
    BY <1>0, <1>2, HandedSurvives DEF RowsKept
  <2>3. OutboxTypeOK'
    BY <1>0, <1>1, <1>2 DEF OutboxTypeOK
  <2> QED BY <1>1, <1>2, <2>1, <2>2, <2>3 DEF Inv, TypeOK, RowsKept
<1>3. ASSUME NEW p \in Proc, Ordinary(p) PROVE Inv'
  BY <1>2, <1>3 DEF Ordinary, Moves
<1>4. ASSUME NEW p \in Proc, Claim(p) PROVE Inv'
  <2>1. UNCHANGED handed
    BY <1>4 DEF Claim
  <2> QED BY <1>0, <1>2, <1>4, <2>1, ClaimMoves
<1>5. ASSUME NEW p \in Proc, Send(p) \/ Resend(p) PROVE Inv'
  <2> DEFINE e == task[p].ex
  <2>1. PICK next \in {"classify", "reclassify"} :
           /\ HandOff(p, next) /\ task[p].pc \in {"send", "resend"}
           /\ next = "reclassify" => task[p].pc = "resend"
    BY <1>5 DEF Send, Resend
  <2>2. /\ UNCHANGED row
        /\ handed' = [handed EXCEPT ![e] = IF task[p].posts = 0 THEN @ + 1 ELSE @]
        /\ \E t \in Task : Fit(t, row') /\ task' = [task EXCEPT ![p] = t]
    BY <1>0, <2>1, HandOffMoves
  <2>3. TaskTypeOK' /\ TasksFit'
    BY <1>0, <2>2, GrowsRefl, TaskStepKeepsFit
  <2>4. e \in Exec /\ row[e] # None /\ row[e].tx = e /\ Left(row[e])
    BY <1>0, <2>1 DEF TasksFit, Fit
  <2>5. HandedFit'
    BY <1>0, <2>2, <2>4 DEF HandedFit, OutboxTypeOK
  <2>6. OutboxTypeOK'
    BY <1>0, <1>1, <2>2, <2>4 DEF OutboxTypeOK
  <2>7. StoreTypeOK' /\ RowsFit'
    BY <1>0, <2>2, UnchangedKeepsRows DEF RowsKept
  <2> QED BY <1>1, <2>3, <2>5, <2>6, <2>7 DEF Inv, TypeOK
<1>6. ASSUME NEW p \in Proc, NEW e \in Exec, ResendRead(p, e) PROVE Inv'
  <2>1. UNCHANGED handed
    BY <1>6 DEF ResendRead
  <2>2. RowsKept
    BY <1>0, <1>6, ResendReadMoves, UnchangedKeepsRows
  <2> QED BY <1>0, <1>2, <1>6, <2>1, <2>2, ResendReadMoves
<1>7. CASE Elsewhere
  <2>1. StoreTypeOK' /\ RowsFit' /\ TaskTypeOK' /\ TasksFit'
    BY <1>0, <1>7 DEF Elsewhere, StoreTypeOK, RowsFit, TaskTypeOK, TasksFit
  <2>2. HandedFit' /\ OutboxTypeOK'
    BY <1>0, <1>1, <1>7 DEF Elsewhere, HandedFit, OutboxTypeOK
  <2> QED BY <1>1, <2>1, <2>2 DEF Inv, TypeOK
<1> QED BY <1>3, <1>4, <1>5, <1>6, <1>7, StepKinds

THEOREM Invariance == Spec => []Inv
BY InvInit, InvStep, PTL DEF Spec

\* Type correctness of rows, tasks, chain, indexer and counters, whichever
\* requests, faults and reorganisations occur.
THEOREM TypeCorrect == Spec => []TypeOK
<1>1. Inv => TypeOK
  BY DEF Inv
<1> QED BY <1>1, Invariance, PTL

\* submit and resend_same_bytes never hand over bytes whose hash is not on a
\* row beyond the unsent phases, however requests, crashes, escalations and
\* worker ticks interleave with them.
THEOREM PersistBeforeSendCorrect == Spec => []PersistBeforeSend
<1>1. Inv => PersistBeforeSend
  BY DEF Inv, HandedFit, TasksFit, Fit, PersistBeforeSend, Claimant, Left
<1> QED BY <1>1, Invariance, PTL

-----------------------------------------------------------------------------
(***************************************************************************)
(* Without resend_same_bytes the pipeline hands an execution over at most  *)
(* once, and implements HandOffProtocol.                                   *)
(*                                                                         *)
(* The compare-and-set gives an execution one claimant in its lifetime:    *)
(* OneClaimant says so for the tasks, FirstPost that the claimant's first  *)
(* POST is the first hand-off.                                             *)
(***************************************************************************)

NoResends == \A p \in Proc : task[p].pc \notin {"resend", "reclassify"}

OneClaimant ==
    \A p, q \in Proc : task[p].pc = "send" /\ task[q].pc = "send"
                       /\ task[p].ex = task[q].ex => p = q

\* A claimant that has not posted yet is the first, one that has is the only.
FirstPost ==
    \A p \in Proc : task[p].pc = "send" =>
        (task[p].posts = 0 <=> handed[task[p].ex] = 0)

OneInv == NoResends /\ OneClaimant /\ FirstPost /\ AtMostOneHandOff

LEMMA OneInit == Init => OneInv
BY IdleType DEF Init, OneInv, NoResends, OneClaimant, FirstPost, AtMostOneHandOff

\* Nobody claims, or has handed over, an execution whose row is unsent.
LEMMA UnsentIsFree ==
    ASSUME Inv, NEW e \in Exec, row[e] # None, row[e].phase \in Unsent
    PROVE  handed[e] = 0 /\ ~Claimant(e)
<1>1. ~Left(row[e])
  BY DEF Left
<1>2. ~(handed[e] > 0)
  BY <1>1 DEF Inv, HandedFit
<1>3. handed[e] \in Nat
  BY DEF Inv, TypeOK, OutboxTypeOK
<1>4. ~Claimant(e)
  BY <1>1 DEF Inv, TasksFit, Fit, Claimant
<1> QED BY <1>2, <1>3, <1>4

\* A step of a task that neither claims nor sends.
LEMMA OneKeptByMoves ==
    ASSUME Inv, OneInv, NEW p \in Proc, Moves(p), UNCHANGED handed
    PROVE  OneInv'
<1>1. PICK t \in Task : t.pc \notin Sending /\ task' = [task EXCEPT ![p] = t]
  BY DEF Moves
<1>2. \A q \in Proc : task'[q] = IF q = p THEN t ELSE task[q]
  BY <1>1 DEF Inv, TypeOK, TaskTypeOK
<1>3. t.pc \notin {"send", "resend", "reclassify"}
  BY <1>1 DEF Sending
<1>4. NoResends' /\ OneClaimant' /\ FirstPost'
  BY <1>2, <1>3 DEF OneInv, NoResends, OneClaimant, FirstPost
<1> QED BY <1>4 DEF OneInv, AtMostOneHandOff

LEMMA OneKeptByClaim ==
    ASSUME Inv, OneInv, NEW p \in Proc, Claim(p) PROVE OneInv'
<1>1. UNCHANGED handed
  BY DEF Claim
<1>2. PICK t \in Task :
         /\ task' = [task EXCEPT ![p] = t]
         /\ \/ t.pc = "idle"
            \/ t.pc = "send" /\ t.posts = 0 /\ t.ex = task[p].ex
                  /\ row[t.ex] # None /\ row[t.ex].phase \in Unsent
  BY ClaimMoves DEF Inv, TypeOK, Typed
<1>3. \A q \in Proc : task'[q] = IF q = p THEN t ELSE task[q]
  BY <1>2 DEF Inv, TypeOK, TaskTypeOK
<1>4. CASE t.pc = "idle"
  BY <1>1, <1>3, <1>4 DEF OneInv, NoResends, OneClaimant, FirstPost, AtMostOneHandOff
<1>5. CASE t.pc = "send"
  <2>1. t.ex \in Exec /\ row[t.ex] # None /\ row[t.ex].phase \in Unsent
    BY <1>2, <1>5 DEF Claim, Inv, TasksFit, Fit
  <2>2. handed[t.ex] = 0 /\ ~Claimant(t.ex)
    BY <2>1, UnsentIsFree
  <2>3. NoResends' /\ FirstPost'
    BY <1>1, <1>2, <1>3, <1>5, <2>2 DEF OneInv, NoResends, FirstPost
  <2>4. OneClaimant'
    BY <1>3, <2>2 DEF OneInv, OneClaimant, Claimant
  <2> QED BY <1>1, <2>3, <2>4 DEF OneInv, AtMostOneHandOff
<1> QED BY <1>2, <1>4, <1>5

LEMMA OneKeptBySend ==
    ASSUME Inv, OneInv, NEW p \in Proc, Send(p) PROVE OneInv'
<1> DEFINE e == task[p].ex
<1>1. task[p].pc = "send" /\ e \in Exec
  BY DEF Send, Inv, TasksFit, Fit
<1>2. /\ handed' = [handed EXCEPT ![e] = IF task[p].posts = 0 THEN @ + 1 ELSE @]
      /\ \E t \in Task :
            /\ task' = [task EXCEPT ![p] = t] /\ t.ex = e
            /\ t.pc = "classify" \/ (t.pc = "send" /\ t.posts # 0)
  BY <1>1, HandOffMoves DEF Send, Inv, TypeOK, Typed
<1>3. PICK t \in Task :
            /\ task' = [task EXCEPT ![p] = t] /\ t.ex = e
            /\ t.pc = "classify" \/ (t.pc = "send" /\ t.posts # 0)
  BY <1>2
<1>4. \A q \in Proc : task'[q] = IF q = p THEN t ELSE task[q]
  BY <1>3 DEF Inv, TypeOK, TaskTypeOK
<1>5. handed \in [Exec -> Nat]
  BY DEF Inv, TypeOK, OutboxTypeOK
<1>6. NoResends' /\ OneClaimant'
  BY <1>1, <1>3, <1>4 DEF OneInv, NoResends, OneClaimant
<1>7. AtMostOneHandOff'
  BY <1>1, <1>2, <1>5 DEF OneInv, FirstPost, AtMostOneHandOff
<1>8. ASSUME NEW q \in Proc, q # p, task[q].pc = "send"
      PROVE  task[q].posts = 0 <=> handed'[task[q].ex] = 0
  <2>1. task[q].ex # e
    BY <1>1, <1>8 DEF OneInv, OneClaimant
  <2>2. task[q].ex \in Exec
    BY <1>8 DEF Inv, TasksFit, Fit
  <2> QED BY <1>2, <1>5, <1>8, <2>1, <2>2 DEF OneInv, FirstPost
<1>9. FirstPost'
  <2>1. handed'[e] # 0
    BY <1>1, <1>2, <1>5 DEF OneInv, FirstPost
  <2> QED BY <1>3, <1>4, <1>8, <2>1 DEF FirstPost
<1> QED BY <1>6, <1>7, <1>9 DEF OneInv

LEMMA OneStep ==
    ASSUME "resend" \notin Events PROVE Inv /\ OneInv /\ [Next]_vars => OneInv'
<1> SUFFICES ASSUME Inv, OneInv, [Next]_vars PROVE OneInv'
  OBVIOUS
<1>1. \A p \in Proc : ~Resend(p)
  BY DEF OneInv, NoResends, Resend
<1>2. CASE Elsewhere
  BY <1>2 DEF Elsewhere, OneInv, NoResends, OneClaimant, FirstPost, AtMostOneHandOff
<1> QED BY <1>1, <1>2, StepKinds, OneKeptByMoves, OneKeptByClaim, OneKeptBySend DEF Ordinary

\* Whatever interleaving of broadcast requests, resumes, escalations, ticks
\* and crashes, submit hands an execution to the RPC at most once.
THEOREM AtMostOneHandOffCorrect ==
    ASSUME "resend" \notin Events PROVE Spec => []AtMostOneHandOff
<1>1. Inv /\ OneInv => AtMostOneHandOff
  BY DEF OneInv
<1> QED BY <1>1, OneInit, OneStep, InvInit, InvStep, PTL DEF Spec

-----------------------------------------------------------------------------
(* Refinement.                                                             *)

LEMMA PhaseOfKept ==
    ASSUME Grows(row, row'), NEW e \in Exec, PhaseOf(e) \notin Unsent
    PROVE  PhaseOf(e)' \notin Unsent
BY DEF PhaseOf, Grows, Unsent

\* A status that changes by an ordinary step is closed.
LEMMA OrdinarySimulates ==
    ASSUME Inv, OneInv, NEW p \in Proc, Ordinary(p)
    PROVE  [HandOffs!Next]_<<HandOffStatus, handed>>
<1>1. PICK t \in Task : t.pc # "send" /\ task' = [task EXCEPT ![p] = t]
  BY DEF Ordinary, Moves, Sending
<1>2. \A q \in Proc : task'[q] = IF q = p THEN t ELSE task[q]
  BY <1>1 DEF Inv, TypeOK, TaskTypeOK
<1>3. UNCHANGED handed /\ Grows(row, row')
  BY DEF Ordinary, RowsKept
<1>4. CASE task[p].pc = "send"
  <2>1. PICK e \in Exec : e = task[p].ex /\ PhaseOf(e) \notin Unsent
    BY <1>4 DEF Inv, TasksFit, Fit, Left, PhaseOf
  <2>2. Claimant(e) /\ ~Claimant(e)' /\ \A d \in Exec \ {e} : Claimant(d)' <=> Claimant(d)
    BY <1>1, <1>2, <1>4, <2>1 DEF Claimant, OneInv, OneClaimant
  <2>3. \A d \in Exec : PhaseOf(d)' = PhaseOf(d)
    BY <1>4 DEF Ordinary, PhaseOf
  <2>4. CASE handed[e] > 0
    BY <1>3, <2>1, <2>2, <2>3, <2>4 DEF HandOffStatus
  <2>5. CASE ~(handed[e] > 0)
    <3>1. HandOffStatus[e] = "claimed"
      BY <2>1, <2>2, <2>5 DEF HandOffStatus
    <3>2. HandOffStatus' = [HandOffStatus EXCEPT ![e] = "closed"]
      BY <1>3, <2>1, <2>2, <2>3, <2>5 DEF HandOffStatus
    <3> QED BY <1>3, <2>1, <3>1, <3>2 DEF HandOffs!Next, HandOffs!Close
  <2> QED BY <2>4, <2>5
<1>5. CASE task[p].pc # "send"
  <2>1. \A d \in Exec : Claimant(d)' <=> Claimant(d)
    BY <1>1, <1>2, <1>5 DEF Claimant
  <2>2. CASE \A d \in Exec : HandOffStatus'[d] = HandOffStatus[d]
    BY <1>3, <2>2 DEF HandOffStatus
  <2>3. ASSUME NEW e \in Exec, HandOffStatus'[e] # HandOffStatus[e]
        PROVE  HandOffs!Next
    <3>1. PhaseOf(e) \in Unsent /\ PhaseOf(e)' \notin Unsent /\ row'[e] # row[e]
      BY <1>3, <2>1, <2>3, PhaseOfKept DEF HandOffStatus, PhaseOf
    <3>2. HandOffStatus[e] = "open" /\ HandOffStatus'[e] = "closed"
      BY <1>3, <2>1, <2>3, <3>1 DEF HandOffStatus
    <3>3. \A d \in Exec \ {e} : row'[d] = row[d]
      BY <3>1 DEF Ordinary, RowsKept
    <3>4. \A d \in Exec \ {e} : HandOffStatus'[d] = HandOffStatus[d]
      BY <1>3, <2>1, <3>3 DEF HandOffStatus, PhaseOf
    <3>5. HandOffStatus' = [HandOffStatus EXCEPT ![e] = "closed"]
      BY <3>2, <3>4 DEF HandOffStatus
    <3> QED BY <1>3, <3>2, <3>5 DEF HandOffs!Next, HandOffs!Close
  <2> QED BY <2>2, <2>3
<1> QED BY <1>4, <1>5

LEMMA ClaimSimulates ==
    ASSUME Inv, OneInv, NEW p \in Proc, Claim(p)
    PROVE  [HandOffs!Next]_<<HandOffStatus, handed>>
<1>1. UNCHANGED handed /\ task[p].pc = "claim" /\ RowsKept
  BY ClaimMoves DEF Claim, Inv, TypeOK, Typed
<1>2. PICK t \in Task :
         /\ task' = [task EXCEPT ![p] = t] /\ Fit(t, row')
         /\ \/ t.pc = "idle" /\ UNCHANGED row
            \/ t.pc = "send" /\ t.ex = task[p].ex
                  /\ row[t.ex] # None /\ row[t.ex].phase \in Unsent
  BY ClaimMoves DEF Inv, TypeOK, Typed
<1>3. \A q \in Proc : task'[q] = IF q = p THEN t ELSE task[q]
  BY <1>2 DEF Inv, TypeOK, TaskTypeOK
<1>4. CASE t.pc = "idle"
  <2>1. \A d \in Exec : Claimant(d)' <=> Claimant(d)
    BY <1>1, <1>3, <1>4 DEF Claimant
  <2>2. UNCHANGED row
    BY <1>2, <1>4
  <2> QED BY <1>1, <2>1, <2>2 DEF HandOffStatus, PhaseOf
<1>5. CASE t.pc = "send"
  <2>1. PICK e \in Exec : e = t.ex /\ e = task[p].ex /\ row[e] # None
                          /\ row[e].phase \in Unsent
    BY <1>2, <1>5 DEF Fit
  <2>2. Claimant(e)' /\ \A d \in Exec \ {e} : Claimant(d)' <=> Claimant(d)
    BY <1>1, <1>3, <1>5, <2>1 DEF Claimant
  <2>3. handed[e] = 0 /\ ~Claimant(e)
    BY <2>1, UnsentIsFree
  <2>4. row'[e] # row[e]
    BY <1>2, <1>5, <2>1 DEF Fit, Left
  <2>5. \A d \in Exec \ {e} : row'[d] = row[d]
    BY <1>1, <2>1, <2>4 DEF RowsKept
  <2>6. HandOffStatus[e] = "open"
    BY <2>1, <2>3 DEF HandOffStatus, PhaseOf
  <2>7. HandOffStatus' = [HandOffStatus EXCEPT ![e] = "claimed"]
    <3>1. \A d \in Exec \ {e} : PhaseOf(d)' = PhaseOf(d)
      BY <2>5 DEF PhaseOf
    <3>2. \A d \in Exec \ {e} : HandOffStatus'[d] = HandOffStatus[d]
      BY <1>1, <2>2, <3>1 DEF HandOffStatus
    <3>3. HandOffStatus'[e] = "claimed"
      BY <1>1, <2>2, <2>3 DEF HandOffStatus
    <3> QED BY <3>2, <3>3 DEF HandOffStatus
  <2> QED BY <1>1, <2>1, <2>6, <2>7 DEF HandOffs!Next, HandOffs!Claim, HandOffs!Open
<1> QED BY <1>2, <1>4, <1>5

LEMMA SendSimulates ==
    ASSUME Inv, OneInv, NEW p \in Proc, Send(p)
    PROVE  [HandOffs!Next]_<<HandOffStatus, handed>>
<1>1. PICK e \in Exec : task[p].pc = "send" /\ e = task[p].ex /\ Claimant(e)
  BY DEF Send, Inv, TasksFit, Fit, Claimant
<1>2. /\ UNCHANGED row
      /\ handed' = [handed EXCEPT ![e] = IF task[p].posts = 0 THEN @ + 1 ELSE @]
      /\ \E t \in Task : task' = [task EXCEPT ![p] = t] /\ t.ex = e
  BY <1>1, HandOffMoves DEF Send, Inv, TypeOK, Typed
<1>3. PICK t \in Task : task' = [task EXCEPT ![p] = t] /\ t.ex = e
  BY <1>2
<1>4. \A q \in Proc : task'[q] = IF q = p THEN t ELSE task[q]
  BY <1>3 DEF Inv, TypeOK, TaskTypeOK
<1>5. handed \in [Exec -> Nat]
  BY DEF Inv, TypeOK, OutboxTypeOK
<1>6. \A d \in Exec \ {e} : Claimant(d)' <=> Claimant(d)
  BY <1>1, <1>3, <1>4 DEF Claimant
<1>7. CASE task[p].posts = 0
  <2>1. handed[e] = 0 /\ handed' = [handed EXCEPT ![e] = @ + 1]
    BY <1>1, <1>2, <1>7 DEF OneInv, FirstPost
  <2>2. HandOffStatus[e] = "claimed"
    BY <1>1, <2>1 DEF HandOffStatus
  <2>3. HandOffStatus' = [HandOffStatus EXCEPT ![e] = "sent"]
    <3>1. \A d \in Exec : PhaseOf(d)' = PhaseOf(d)
      BY <1>2 DEF PhaseOf
    <3>2. handed'[e] = 1 /\ \A d \in Exec \ {e} : handed'[d] = handed[d]
      BY <1>1, <1>5, <2>1
    <3>3. \A d \in Exec \ {e} : HandOffStatus'[d] = HandOffStatus[d]
      BY <1>6, <3>1, <3>2 DEF HandOffStatus
    <3>4. HandOffStatus'[e] = "sent"
      BY <3>2 DEF HandOffStatus
    <3> QED BY <3>3, <3>4 DEF HandOffStatus
  <2> QED BY <1>1, <2>1, <2>2, <2>3 DEF HandOffs!Next, HandOffs!HandOver
<1>8. CASE task[p].posts # 0
  <2>1. handed[e] > 0 /\ handed' = handed
    BY <1>1, <1>2, <1>5, <1>8 DEF OneInv, FirstPost
  <2>2. HandOffStatus' = HandOffStatus
    BY <1>1, <1>2, <1>6, <2>1 DEF HandOffStatus, PhaseOf
  <2> QED BY <2>1, <2>2
<1> QED BY <1>7, <1>8

LEMMA InitSimulates == Init => HandOffs!Init
BY IdleType DEF Init, HandOffs!Init, HandOffStatus, Claimant, PhaseOf, Unsent

LEMMA StepSimulates ==
    ASSUME "resend" \notin Events
    PROVE  Inv /\ OneInv /\ [Next]_vars => [HandOffs!Next]_<<HandOffStatus, handed>>
<1> SUFFICES ASSUME Inv, OneInv, [Next]_vars
             PROVE  [HandOffs!Next]_<<HandOffStatus, handed>>
  OBVIOUS
<1>1. \A p \in Proc : ~Resend(p)
  BY DEF OneInv, NoResends, Resend
<1>2. CASE Elsewhere
  BY <1>2 DEF Elsewhere, HandOffStatus, Claimant, PhaseOf
<1> QED BY <1>1, <1>2, StepKinds, OrdinarySimulates, ClaimSimulates, SendSimulates

\* The pipeline implements the hand-off protocol: claims, the single hand-off
\* and everything that closes an execution, for every number of tasks.
THEOREM HandOffRefinement ==
    ASSUME "resend" \notin Events PROVE Spec => ImplementsHandOff
BY InitSimulates, StepSimulates, OneInit, OneStep, InvInit, InvStep, PTL
   DEF Spec, ImplementsHandOff, HandOffs!Spec

-----------------------------------------------------------------------------
(***************************************************************************)
(* Proofs about what the rows of the broadcast pipeline claim to have      *)
(* observed: a hand-off, an inclusion, a success, a depth.                 *)
(*                                                                         *)
(* A claim travels from the chain to a row through a task that read both   *)
(* at different awaits, so each property is carried by everything on the   *)
(* way: the chain's own books, the receipt a task was given, the row it    *)
(* read, the update it plans.  All of it stays true while the chain moves, *)
(* because hand-offs, inclusions and the height of the chain only grow.    *)
(***************************************************************************)

\* A receipt stands for an inclusion of e, and is that inclusion if it is
\* exact: recover makes up the status of the receipts it looks up.
Named(e, r, exact) ==
    \E i \in included[e] : i.n = r.n /\ i.fork = r.fork /\ (exact => i = r)

\* A row of e, as it is or as some task once read it.  Recover only writes
\* to rows that were reorged, and counts the reorganisation once more.
RowKnown(e, r) ==
    r # None =>
        /\ r.rcpt # None => Named(e, r.rcpt, r.reorgs = 0)
        /\ r.phase \in ObservedPhases => handed[e] > 0
        /\ r.attempts <= handed[e] + 1
        /\ r.phase \in Unsent => r.attempts = 0

\* An update of the row of e to phase `to`.
PlanKnown(e, to, patch) ==
    /\ patch.rcpt # None => Named(e, patch.rcpt, patch.reorgs = None)
    /\ patch.reorgs # 0
    /\ to \in ObservedPhases => handed[e] > 0

\* A confirmation of e on basis b is borne out.
Backed(e, b) ==
    /\ b.fork <= fork
    /\ Executed(e)
    /\ \E r \in included[e] : BearsOut(r, b)

\* The header check of maybe_finalize, as it stands some awaits later.
Checked(t) ==
    /\ t.basis.fork <= fork
    /\ t.basis.fork = fork => IsCanonical(t.snap.rcpt)
    /\ t.basis.reorgs = t.snap.reorgs

Finalizing == {"fheader", "depth", "indexed", "matched"}
Planning == {"write", "escalate"}

\* What a task under way has to go by.
TaskKnown(t) ==
    t.pc # "idle" =>
        /\ RowKnown(t.ex, t.snap)
        /\ t.seen # None => Named(t.ex, t.seen, t.pc # "rheader")
        /\ t.pc \in Planning =>
              PlanKnown(t.ex, t.to, t.patch) /\ t.patch.attempts = None
        /\ t.pc \in Planning /\ t.to = "Confirmed" => Backed(t.ex, t.basis)
        /\ t.pc = "claim" => /\ t.patch.attempts = 1 /\ t.patch.rcpt = None
                             /\ t.patch.reorgs = None
        /\ t.pc \in {"classify", "reclassify"} \/ t.posts > 0 => handed[t.ex] > 0
        /\ t.pc = "reclassify" \/ (t.pc = "resend" /\ t.posts > 0)
              => t.snap.attempts <= handed[t.ex]
        /\ t.pc \in Finalizing => t.snap.rcpt # None /\ t.snap.rcpt.status = 1
        /\ t.pc \in Finalizing \ {"fheader"} => Checked(t)
        /\ t.pc \in {"indexed", "matched"} => DepthReached(t.snap.rcpt)

RowsKnown == \A e \in Exec : RowKnown(e, row[e])
TasksKnown == \A p \in Proc : TaskKnown(task[p])

\* The chain's books: what is known of a transaction was handed over.
ChainKnown ==
    \A e \in Exec :
        /\ e \in pool \cup wire \/ included[e] # {} => handed[e] > 0
        /\ mined[e] # None => mined[e] \in included[e]
        /\ matched[e] # None => Executed(e)

Evidence == RowsKnown /\ TasksKnown /\ ChainKnown

-----------------------------------------------------------------------------
(* The world grows.                                                        *)

Later ==
    /\ \A e \in Exec : handed[e] <= handed'[e] /\ included[e] \subseteq included'[e]
    /\ Tip <= Tip' /\ fork <= fork'
    /\ fork' = fork => \A n \in 1..Tip : chain'[n] = chain[n]

LEMMA NamedLater ==
    ASSUME Later, NEW e \in Exec, NEW r, NEW exact, Named(e, r, exact)
    PROVE  Named(e, r, exact)'
BY DEF Later, Named

LEMMA DepthLater ==
    ASSUME ChainTypeOK, ChainTypeOK', Later, NEW r \in Receipts, DepthReached(r)
    PROVE  DepthReached(r)'
<1>1. Tip \in Nat /\ Tip' \in Nat /\ r.n \in Nat
  BY DEF Tip, ChainTypeOK, Receipts
<1> QED BY <1>1, WorkerAssumption DEF Later, DepthReached

LEMMA CanonicalLater ==
    ASSUME ChainTypeOK, ChainTypeOK', Later, fork' = fork, NEW r \in Receipts, IsCanonical(r)
    PROVE  IsCanonical(r)'
<1>1. Tip \in Nat /\ Tip' \in Nat /\ r.n \in 1..Tip /\ chain[r.n] = r.fork
  BY DEF Tip, ChainTypeOK, IsCanonical
<1>2. r.n \in 1..Tip'
  BY <1>1 DEF Later
<1>3. chain'[r.n] = r.fork
  BY <1>1 DEF Later
<1> QED BY <1>2, <1>3 DEF IsCanonical

\* A basis outlives a fork, and then excuses what it no longer promises.
LEMMA BasisLater ==
    ASSUME ChainTypeOK, ChainTypeOK', Later, NEW b \in Basis, b.fork <= fork,
           NEW r \in Receipts, b.fork = fork => IsCanonical(r)
    PROVE  b.fork <= fork' /\ (b.fork = fork' => IsCanonical(r)')
<1>1. b.fork \in Nat /\ fork \in Nat /\ fork' \in Nat /\ fork <= fork'
  BY DEF Basis, ChainTypeOK, Later
<1>2. ASSUME b.fork = fork' PROVE IsCanonical(r)'
  <2>1. b.fork = fork /\ fork' = fork
    BY <1>1, <1>2
  <2> QED BY <2>1, CanonicalLater
<1> QED BY <1>1, <1>2

LEMMA BackedLater ==
    ASSUME ChainTypeOK, ChainTypeOK', Later, NEW e \in Exec, NEW b \in Basis, Backed(e, b)
    PROVE  Backed(e, b)'
<1>1. \A r \in included[e] : r \in included'[e] /\ r \in Receipts
  BY DEF Later, ChainTypeOK
<1>2. PICK r \in included[e] : BearsOut(r, b)
  BY DEF Backed
<1>3. b.fork <= fork' /\ BearsOut(r, b)'
  BY <1>1, <1>2, BasisLater, DepthLater DEF Backed, BearsOut
<1>4. Executed(e)'
  BY <1>1 DEF Backed, Executed
<1> QED BY <1>1, <1>3, <1>4 DEF Backed

LEMMA RowLater ==
    ASSUME Inv, Inv', Later, NEW e \in Exec, NEW r \in BroadcastStateRow \cup {None},
           RowKnown(e, r)
    PROVE  RowKnown(e, r)'
<1> SUFFICES ASSUME r # None PROVE RowKnown(e, r)'
  BY DEF RowKnown
<1>1. ChainTypeOK /\ ChainTypeOK' /\ handed[e] \in Nat /\ handed'[e] \in Nat
  BY DEF Inv, TypeOK, OutboxTypeOK
<1>2. handed[e] <= handed'[e] /\ r.attempts \in Nat
  BY DEF Later, BroadcastStateRow
<1>3. r.rcpt # None => Named(e, r.rcpt, r.reorgs = 0)'
  BY NamedLater DEF RowKnown
<1>5. r.phase \in ObservedPhases => handed'[e] > 0
  BY <1>1, <1>2 DEF RowKnown
<1>6. r.attempts <= handed'[e] + 1
  BY <1>1, <1>2 DEF RowKnown
<1> QED BY <1>3, <1>5, <1>6 DEF RowKnown

LEMMA TaskLater ==
    ASSUME Inv, Inv', Later, NEW t \in Task, Fit(t, row), TaskKnown(t)
    PROVE  TaskKnown(t)'
<1> SUFFICES ASSUME t.pc # "idle" PROVE TaskKnown(t)'
  BY DEF TaskKnown
<1>1. t.ex \in Exec /\ t.snap \in BroadcastStateRow \cup {None}
  BY DEF Fit, Task
<1>2. /\ ChainTypeOK /\ ChainTypeOK' /\ handed[t.ex] \in Nat /\ handed'[t.ex] \in Nat
      /\ handed[t.ex] <= handed'[t.ex]
  BY <1>1 DEF Inv, TypeOK, OutboxTypeOK, Later
<1>3. RowKnown(t.ex, t.snap)'
  BY <1>1, RowLater DEF TaskKnown
<1>4. t.seen # None => Named(t.ex, t.seen, t.pc # "rheader")'
  BY <1>1, NamedLater DEF TaskKnown
<1>5. ASSUME t.pc \in Planning PROVE PlanKnown(t.ex, t.to, t.patch)'
  <2>1. t.patch.rcpt # None => Named(t.ex, t.patch.rcpt, t.patch.reorgs = None)'
    BY <1>1, <1>5, NamedLater DEF TaskKnown, PlanKnown
  <2>2. t.to \in ObservedPhases => handed'[t.ex] > 0
    BY <1>2, <1>5 DEF TaskKnown, PlanKnown
  <2>3. t.patch.reorgs # 0
    BY <1>5 DEF TaskKnown, PlanKnown
  <2> QED BY <2>1, <2>2, <2>3 DEF PlanKnown
<1>9. t.basis \in Basis
  BY DEF Task
<1>10. t.pc \in Planning /\ t.to = "Confirmed" => Backed(t.ex, t.basis)'
  BY <1>1, <1>2, <1>9, BackedLater DEF TaskKnown
<1>11. t.pc \in Finalizing \ {"fheader"} => Checked(t)'
  <2> SUFFICES ASSUME t.pc \in Finalizing \ {"fheader"} PROVE Checked(t)'
    OBVIOUS
  <2>1. t.snap # None /\ t.snap.rcpt # None /\ Checked(t)
    BY DEF TaskKnown, Fit, Snapping, Finalizing
  <2>2. t.snap.rcpt \in Receipts
    BY <1>1, <2>1 DEF BroadcastStateRow
  <2> QED BY <1>2, <1>9, <2>1, <2>2, BasisLater DEF Checked
<1>6. t.pc \in {"classify", "reclassify"} \/ t.posts > 0 => handed'[t.ex] > 0
  BY <1>2 DEF TaskKnown
<1>7. t.pc = "reclassify" \/ (t.pc = "resend" /\ t.posts > 0)
         => t.snap.attempts <= handed'[t.ex]
  <2> SUFFICES ASSUME t.pc = "reclassify" \/ (t.pc = "resend" /\ t.posts > 0)
               PROVE  t.snap.attempts <= handed'[t.ex]
    OBVIOUS
  <2>1. t.snap # None /\ t.snap.attempts <= handed[t.ex]
    BY DEF TaskKnown, Fit, Snapping
  <2>2. t.snap.attempts \in Nat
    BY <1>1, <2>1 DEF BroadcastStateRow
  <2> QED BY <1>2, <2>1, <2>2
<1>8. t.pc \in {"indexed", "matched"} => DepthReached(t.snap.rcpt)'
  <2> SUFFICES ASSUME t.pc \in {"indexed", "matched"} PROVE DepthReached(t.snap.rcpt)'
    OBVIOUS
  <2>1. t.snap # None /\ t.snap.rcpt # None /\ DepthReached(t.snap.rcpt)
    BY DEF TaskKnown, Fit, Snapping, Finalizing
  <2>2. t.snap.rcpt \in Receipts
    BY <1>1, <2>1 DEF BroadcastStateRow
  <2> QED BY <1>2, <2>1, <2>2, DepthLater
<1> QED BY <1>3, <1>4, <1>5, <1>6, <1>7, <1>8, <1>10, <1>11 DEF TaskKnown

LEMMA QuietIsLater ==
    ASSUME Inv, UNCHANGED <<handed, chainVars>> PROVE Later
<1>1. \A e \in Exec : handed[e] \in Nat
  BY DEF Inv, TypeOK, OutboxTypeOK
<1>2. Tip \in Nat
  BY DEF Inv, TypeOK, ChainTypeOK, Tip
<1>3. fork \in Nat
  BY DEF Inv, TypeOK, ChainTypeOK
<1> QED BY <1>1, <1>2, <1>3 DEF Later, Tip, chainVars, nodeVars

-----------------------------------------------------------------------------
(* Steps of a task while the world stands still.                           *)

Quiet == UNCHANGED <<handed, chainVars>>

Advances(p) == \E t : TaskKnown(t) /\ task' = [task EXCEPT ![p] = t]

LEMMA TaskQuiet ==
    ASSUME Quiet, NEW t, TaskKnown(t) PROVE TaskKnown(t)'
<1>1. handed' = handed /\ included' = included /\ chain' = chain /\ fork' = fork
  BY DEF Quiet, chainVars, nodeVars
<1>2. ASSUME NEW e, NEW r, NEW exact, Named(e, r, exact) PROVE Named(e, r, exact)'
  BY <1>1, <1>2 DEF Named
<1>3. ASSUME NEW r, DepthReached(r) PROVE DepthReached(r)'
  BY <1>1, <1>3 DEF DepthReached, Tip
<1>4. ASSUME NEW e, NEW b, Backed(e, b) PROVE Backed(e, b)'
  BY <1>1, <1>4 DEF Backed, BearsOut, IsCanonical, Executed, DepthReached, Tip
<1>7. ASSUME Checked(t) PROVE Checked(t)'
  BY <1>1, <1>7 DEF Checked, IsCanonical, Tip
<1>5. ASSUME NEW e, NEW r, RowKnown(e, r) PROVE RowKnown(e, r)'
  BY <1>1, <1>2, <1>5 DEF RowKnown
<1>6. ASSUME NEW e, NEW to, NEW patch, PlanKnown(e, to, patch)
      PROVE  PlanKnown(e, to, patch)'
  BY <1>1, <1>2, <1>6 DEF PlanKnown
<1> QED BY <1>1, <1>2, <1>3, <1>4, <1>5, <1>6, <1>7 DEF TaskKnown

LEMMA RowsQuiet == ASSUME Inv, RowsKnown, Inv', Quiet, UNCHANGED row PROVE RowsKnown'
<1>1. Later
  BY QuietIsLater DEF Quiet
<1>2. ASSUME NEW e \in Exec PROVE RowKnown(e, row[e])'
  <2>1. row[e] \in BroadcastStateRow \cup {None} /\ RowKnown(e, row[e]) /\ row' = row
    BY DEF Inv, TypeOK, StoreTypeOK, RowsKnown
  <2>2. PICK r \in BroadcastStateRow \cup {None} : r = row[e] /\ RowKnown(e, r)
    BY <2>1
  <2>3. RowKnown(e, r)'
    BY <1>1, <2>2, RowLater
  <2>4. row'[e] = r
    BY <2>1, <2>2
  <2> QED BY <2>3, <2>4 DEF RowKnown
<1> QED BY <1>2 DEF RowsKnown

LEMMA ChainQuiet == ASSUME ChainKnown, Quiet PROVE ChainKnown'
BY DEF ChainKnown, Quiet, chainVars, nodeVars, indexVars, Executed

LEMMA QuietStep ==
    ASSUME Inv, Evidence, Quiet, NEW p \in Proc, Advances(p), RowsKnown'
    PROVE  Evidence'
<1>1. PICK t : TaskKnown(t) /\ task' = [task EXCEPT ![p] = t]
  BY DEF Advances
<1>2. ASSUME NEW q \in Proc PROVE TaskKnown(task[q])'
  <2>1. TaskKnown(task[q]) /\ task'[q] \in {t, task[q]}
    BY <1>1 DEF Evidence, TasksKnown, Inv, TypeOK, TaskTypeOK
  <2>2. PICK u : u = task'[q] /\ TaskKnown(u)
    BY <1>1, <2>1
  <2>3. TaskKnown(u)'
    BY <2>2, TaskQuiet
  <2> QED BY <2>2, <2>3 DEF TaskKnown
<1> QED BY <1>2, ChainQuiet DEF Evidence, TasksKnown

-----------------------------------------------------------------------------
(* Updates of rows.                                                        *)

LEMMA UpdateKnown ==
    ASSUME Inv, Inv', RowsKnown, Quiet, NEW e \in Exec, NEW from, NEW to \in Phases,
           NEW patch \in BroadcastStatePatch, PlanKnown(e, to, patch),
           \/ patch.attempts = None
           \/ patch.attempts # None /\ patch.attempts <= handed[e] + 1 /\ to \notin Unsent,
           UpdateBroadcastPhase(e, from, to, patch)
    PROVE  RowsKnown'
<1>1. CASE ~UpdateApplies(e, from, to)
  BY <1>1, RowsQuiet DEF UpdateBroadcastPhase
<1>2. CASE UpdateApplies(e, from, to)
  <2>1. /\ row[e] \in BroadcastStateRow /\ row[e] # None /\ RowKnown(e, row[e])
        /\ CanTransition(row[e].phase, to)
    BY <1>2 DEF UpdateApplies, Inv, TypeOK, StoreTypeOK, RowsKnown
  <2>2. PICK r : r = Patched(row[e], to, patch)
    OBVIOUS
  <2>3. /\ r.phase = to
        /\ r.rcpt = Coalesce(patch.rcpt, row[e].rcpt)
        /\ r.attempts = Coalesce(patch.attempts, row[e].attempts)
        /\ r.reorgs = Coalesce(patch.reorgs, row[e].reorgs)
    BY <2>2 DEF Patched
  <2>4. to \in Unsent => row[e].phase \in Unsent
    BY <2>1, LeftIsForGood
  <2>5. RowKnown(e, r)
    <3>1. ASSUME r.rcpt # None PROVE Named(e, r.rcpt, r.reorgs = 0)
      <4>1. r.reorgs = 0 => patch.reorgs = None /\ row[e].reorgs = 0
        BY <2>3 DEF PlanKnown, Coalesce
      <4>2. CASE patch.rcpt # None
        BY <2>3, <4>1, <4>2 DEF PlanKnown, Coalesce, Named
      <4>3. CASE patch.rcpt = None
        BY <2>1, <2>3, <3>1, <4>1, <4>3 DEF RowKnown, Coalesce, Named
      <4> QED BY <4>2, <4>3
    <3>2. r.attempts <= handed[e] + 1
      BY <2>1, <2>3 DEF RowKnown, Coalesce
    <3>3. r.phase \in Unsent => r.attempts = 0
      BY <2>1, <2>3, <2>4 DEF RowKnown, Coalesce
    <3> QED BY <2>3, <3>1, <3>2, <3>3 DEF RowKnown, PlanKnown
  <2>6. row' = [row EXCEPT ![e] = r]
    BY <1>2, <2>2 DEF UpdateBroadcastPhase
  <2>7. ASSUME NEW d \in Exec PROVE RowKnown(d, row[d])'
    <3>1. RowKnown(d, row'[d]) /\ row'[d] \in BroadcastStateRow \cup {None}
      BY <2>5, <2>6 DEF RowsKnown, Inv, TypeOK, StoreTypeOK
    <3>2. PICK s \in BroadcastStateRow \cup {None} : s = row'[d] /\ RowKnown(d, s)
      BY <3>1
    <3>3. RowKnown(d, s)'
      BY <3>2, RowLater, QuietIsLater DEF Quiet
    <3> QED BY <3>2, <3>3 DEF RowKnown
  <2> QED BY <2>7 DEF RowsKnown
<1> QED BY <1>1, <1>2

-----------------------------------------------------------------------------
(* Ways for a task to go on.                                               *)

LEMMA IdleKnown == TaskKnown(IdleTask)
BY DEF TaskKnown, IdleTask

LEMMA FinishAdvances == ASSUME NEW p \in Proc, Finish(p) PROVE Advances(p)
BY IdleKnown DEF Finish, Advances

\* A task that starts from scratch for e, with a row it may have read.
LEMMA FreshAdvances ==
    ASSUME NEW p \in Proc, NEW e \in Exec, NEW t, t.ex = e,
           t.seen = None, t.posts = 0, RowKnown(e, t.snap),
           t.pc \notin {"write", "escalate", "claim", "classify", "reclassify"},
           t.pc \in Finalizing => /\ t.snap.rcpt # None /\ t.snap.rcpt.status = 1
                                  /\ t.pc = "fheader",
           task' = [task EXCEPT ![p] = t]
    PROVE  Advances(p)
<1>1. TaskKnown(t)
  BY DEF TaskKnown, Finalizing, Planning
<1> QED BY <1>1 DEF Advances

LEMMA GotoAdvances ==
    ASSUME TaskTypeOK, TasksKnown, NEW p \in Proc, task[p].pc # "idle", NEW pc,
           Goto(p, pc),
           pc \notin {"write", "escalate", "claim", "classify", "reclassify", "resend"},
           pc \in Finalizing => task[p].pc \in Finalizing \ {"fheader"} /\ pc # "fheader",
           pc \in {"indexed", "matched"} => DepthReached(task[p].snap.rcpt),
           pc # "rheader", task[p].pc # "rheader"
    PROVE  Advances(p)
<1>1. PICK t : t = [task[p] EXCEPT !.pc = pc]
  OBVIOUS
<1>2. task[p] \in Task /\ TaskKnown(task[p])
  BY DEF TaskTypeOK, TasksKnown
<1>3. /\ t.pc = pc /\ t.ex = task[p].ex /\ t.snap = task[p].snap
      /\ t.seen = task[p].seen /\ t.posts = task[p].posts /\ t.basis = task[p].basis
      /\ task' = [task EXCEPT ![p] = t]
  BY <1>1, <1>2 DEF Goto, Task
<1>4. Checked(task[p]) => Checked(t)
  BY <1>3 DEF Checked
<1>5. TaskKnown(t)
  BY <1>2, <1>3, <1>4 DEF TaskKnown, Planning
<1> QED BY <1>3, <1>5 DEF Advances

LEMMA PlanAdvances ==
    ASSUME NEW p \in Proc, NEW e, NEW pc \in Planning, NEW from, NEW to,
           NEW patch, PlanKnown(e, to, patch), patch.attempts = None,
           to = "Confirmed" => Backed(e, task[p].basis),
           PlanUpdate(p, e, pc, from, to, patch)
    PROVE  Advances(p)
<1>1. PICK t : t = [IdleTask EXCEPT !.pc = pc, !.ex = e, !.from = from, !.to = to,
                                    !.patch = patch, !.basis = task[p].basis]
  OBVIOUS
<1>2. /\ t.basis = task[p].basis
      /\ t.pc = pc /\ t.ex = e /\ t.to = to /\ t.patch = patch
      /\ t.snap = None /\ t.seen = None /\ t.posts = 0
      /\ task' = [task EXCEPT ![p] = t]
  BY <1>1 DEF IdleTask, PlanUpdate
<1>3. TaskKnown(t)
  BY <1>2 DEF TaskKnown, RowKnown, Finalizing, Planning
<1> QED BY <1>2, <1>3 DEF Advances

LEMMA PersistAdvances ==
    ASSUME NEW p \in Proc, NEW to, NEW patch, patch.attempts = None,
           CanTransition(task[p].snap.phase, to) =>
              /\ PlanKnown(task[p].ex, to, patch)
              /\ to = "Confirmed" => Backed(task[p].ex, task[p].basis),
           PersistPhase(p, to, patch)
    PROVE  Advances(p)
<1>1. CASE Finish(p)
  BY <1>1, FinishAdvances
<1>2. CASE /\ CanTransition(task[p].snap.phase, to)
           /\ PlanUpdate(p, task[p].ex, "write", task[p].snap.phase, to, patch)
  BY <1>2, PlanAdvances DEF Planning
<1> QED BY <1>1, <1>2 DEF PersistPhase, PlanWrite

Unobserved == {Manual, Cancelled, "Dropped", "SubmissionUnknown"}

LEMMA UnobservedKnown ==
    ASSUME NEW e, NEW to \in Unobserved, NEW patch, patch.rcpt = None, patch.reorgs = None
    PROVE  PlanKnown(e, to, patch) /\ to # "Confirmed"
BY NoneAssumption DEF PlanKnown, Unobserved, ObservedPhases, Manual, Cancelled

LEMMA FailPatchSparse ==
    ASSUME NEW f
    PROVE  /\ FailPatch(f).rcpt = None /\ FailPatch(f).attempts = None
           /\ FailPatch(f).reorgs = None
BY DEF FailPatch, NoPatch

LEMMA EscalationAdvances ==
    ASSUME NEW p \in Proc, NEW from, NEW to \in {Manual, Cancelled}, NEW f,
           PlanEscalation(p, from, to, f)
    PROVE  Advances(p)
<1>1. to \in Unobserved
  BY DEF Unobserved
<1>2. /\ PlanKnown(task[p].ex, to, FailPatch(f)) /\ FailPatch(f).attempts = None
      /\ to # "Confirmed"
  BY <1>1, UnobservedKnown, FailPatchSparse
<1>3. PlanUpdate(p, task[p].ex, "escalate", from, to, FailPatch(f))
  BY DEF PlanEscalation, PlanWrite
<1> QED BY <1>2, <1>3, PlanAdvances DEF Planning

\* What a task may plan once the transaction is known to the node.
LEMMA HandedKnown ==
    ASSUME ChainKnown, NEW e \in Exec,
           e \in pool \cup wire \/ mined[e] # None \/ (\E r, x : Named(e, r, x))
    PROVE  handed[e] > 0
BY DEF ChainKnown, Named

LEMMA PatchKnown ==
    ASSUME NEW e, handed[e] > 0, NEW to, NEW patch, patch.reorgs # 0,
           patch.rcpt # None => Named(e, patch.rcpt, patch.reorgs = None)
    PROVE  PlanKnown(e, to, patch)
BY DEF PlanKnown

LEMMA MinedNamed ==
    ASSUME ChainKnown, NEW e \in Exec, mined[e] # None PROVE Named(e, mined[e], TRUE)
BY DEF ChainKnown, Named

-----------------------------------------------------------------------------
(* The steps of the worker.                                                *)

\* What the proofs below share: task p is under way and p's facts are at hand.
LEMMA UnderWay ==
    ASSUME Inv, Evidence, NEW p \in Proc, task[p].pc # "idle"
    PROVE  /\ task[p] \in Task /\ TaskTypeOK /\ TasksKnown /\ ChainKnown
           /\ task[p].ex \in Exec /\ row[task[p].ex] \in BroadcastStateRow
           /\ row[task[p].ex] # None /\ RowKnown(task[p].ex, row[task[p].ex])
           /\ TaskKnown(task[p]) /\ Fit(task[p], row)
           /\ RowKnown(task[p].ex, task[p].snap)
           /\ task[p].seen # None => Named(task[p].ex, task[p].seen, task[p].pc # "rheader")
<1>1. task[p] \in Task /\ TaskTypeOK /\ TasksKnown /\ ChainKnown /\ TaskKnown(task[p])
      /\ Fit(task[p], row)
  BY DEF Inv, TypeOK, TaskTypeOK, TasksFit, Evidence, TasksKnown
<1>2. task[p].ex \in Exec /\ row[task[p].ex] # None
  BY <1>1 DEF Fit
<1>3. row[task[p].ex] \in BroadcastStateRow
  BY <1>2 DEF Inv, TypeOK, StoreTypeOK
<1>4. RowKnown(task[p].ex, row[task[p].ex])
  BY <1>2 DEF Evidence, RowsKnown
<1>5. RowKnown(task[p].ex, task[p].snap)
      /\ (task[p].seen # None => Named(task[p].ex, task[p].seen, task[p].pc # "rheader"))
  BY <1>1 DEF TaskKnown
<1> QED BY <1>1, <1>2, <1>3, <1>4, <1>5

\* The requests and the scan.
LEMMA StartsAdvance ==
    ASSUME Inv, Evidence, NEW p \in Proc, NEW e \in Exec,
           TickList(p, e) \/ Recheck(p, e) \/ FinalizeRead(p, e) \/ RecoverRead(p, e)
    PROVE  Advances(p)
<1>1. CASE TickList(p, e) \/ Recheck(p, e)
  <2>1. PICK t : t = [IdleTask EXCEPT !.pc = "tick", !.ex = e]
    OBVIOUS
  <2>2. /\ t.pc = "tick" /\ t.ex = e /\ t.seen = None /\ t.posts = 0 /\ t.snap = None
        /\ task' = [task EXCEPT ![p] = t]
    BY <1>1, <2>1 DEF IdleTask, TickList, Recheck, Start
  <2> QED BY <2>2, FreshAdvances DEF RowKnown, Finalizing, Planning
<1>2. ASSUME NEW pc \in {"fheader", "rreceipt"},
             pc = "fheader" => row[e].rcpt # None /\ row[e].rcpt.status = 1,
             task' = [task EXCEPT ![p] = [IdleTask EXCEPT
                         !.pc = pc, !.ex = e, !.snap = row[e]]]
      PROVE  Advances(p)
  <2>1. PICK t : t = [IdleTask EXCEPT !.pc = pc, !.ex = e, !.snap = row[e]]
    OBVIOUS
  <2>2. /\ t.pc = pc /\ t.ex = e /\ t.seen = None /\ t.posts = 0 /\ t.snap = row[e]
        /\ task' = [task EXCEPT ![p] = t]
    BY <1>2, <2>1 DEF IdleTask
  <2>3. RowKnown(e, t.snap)
    BY <2>2 DEF Evidence, RowsKnown
  <2>4. TaskKnown(t)
    BY <1>2, <2>2, <2>3 DEF TaskKnown, Finalizing, Planning
  <2> QED BY <2>2, <2>4 DEF Advances
<1>3. CASE FinalizeRead(p, e)
  BY <1>2, <1>3 DEF FinalizeRead
<1>4. CASE RecoverRead(p, e)
  BY <1>2, <1>4 DEF RecoverRead
<1> QED BY <1>1, <1>3, <1>4

LEMMA TickReadAdvances ==
    ASSUME Inv, Evidence, NEW p \in Proc, TickRead(p) PROVE Advances(p)
<1>1. CASE Finish(p)
  BY <1>1, FinishAdvances
<1>2. CASE task' = [task EXCEPT ![p].pc = "receipt", ![p].snap = row[task[p].ex],
                                ![p].ts = now]
  <2>1. PICK t : t = [task[p] EXCEPT !.pc = "receipt", !.snap = row[task[p].ex], !.ts = now]
    OBVIOUS
  <2>2. /\ task[p] \in Task /\ TaskKnown(task[p]) /\ task[p].pc = "tick"
        /\ RowKnown(task[p].ex, row[task[p].ex])
    BY UnderWay DEF TickRead
  <2>3. /\ t.pc = "receipt" /\ t.ex = task[p].ex /\ t.snap = row[task[p].ex]
        /\ t.seen = task[p].seen /\ t.posts = task[p].posts
        /\ task' = [task EXCEPT ![p] = t]
    BY <1>2, <2>1, <2>2 DEF Task
  <2>4. TaskKnown(t)
    BY <2>2, <2>3 DEF TaskKnown, Finalizing, Planning
  <2> QED BY <2>3, <2>4 DEF Advances
<1> QED BY <1>1, <1>2 DEF TickRead

\* A receipt the task was given goes with it to the canonicality check.
LEMMA SeenAdvances ==
    ASSUME Inv, Evidence, NEW p \in Proc, task[p].pc # "idle",
           NEW pc \in {"header", "rheader"},
           NEW r, Named(task[p].ex, r, pc # "rheader"),
           task' = [task EXCEPT ![p].pc = pc, ![p].seen = r]
    PROVE  Advances(p)
<1>1. PICK t : t = [task[p] EXCEPT !.pc = pc, !.seen = r]
  OBVIOUS
<1>2. task[p] \in Task /\ TaskKnown(task[p])
  BY UnderWay
<1>3. /\ t.pc = pc /\ t.ex = task[p].ex /\ t.snap = task[p].snap
      /\ t.seen = r /\ t.posts = task[p].posts
      /\ task' = [task EXCEPT ![p] = t]
  BY <1>1, <1>2 DEF Task
<1>4. TaskKnown(t)
  BY <1>2, <1>3 DEF TaskKnown, Finalizing, Planning
<1> QED BY <1>3, <1>4 DEF Advances

LEMMA ManualWriteAdvances ==
    ASSUME NEW p \in Proc, NEW from, NEW f,
           PlanWrite(p, "write", from, Manual, FailPatch(f))
    PROVE  Advances(p)
<1>1. /\ PlanKnown(task[p].ex, Manual, FailPatch(f)) /\ FailPatch(f).attempts = None
      /\ Manual # "Confirmed"
  BY UnobservedKnown, FailPatchSparse DEF Unobserved
<1> QED BY <1>1, PlanAdvances DEF PlanWrite, Planning

LEMMA TickReceiptAdvances ==
    ASSUME Inv, Evidence, NEW p \in Proc, TickReceipt(p) PROVE Advances(p)
<1> DEFINE e == task[p].ex
<1>0. task[p].pc = "receipt" /\ e \in Exec /\ ChainKnown
  BY UnderWay DEF TickReceipt
<1>1. CASE EscalateReceiptMismatch(p)
  BY <1>1, ManualWriteAdvances, EscalationAdvances DEF EscalateReceiptMismatch
<1>2. CASE Goto(p, "poll")
  BY <1>0, <1>2, UnderWay, GotoAdvances DEF Finalizing
<1>3. ASSUME mined[e] # None,
             PersistPhase(p, "MinedReverted",
                 [NoPatch EXCEPT !.rcpt = mined[e], !.fail = "MINED_REVERTED"])
      PROVE  Advances(p)
  <2>1. PICK patch : patch = [NoPatch EXCEPT !.rcpt = mined[e], !.fail = "MINED_REVERTED"]
    OBVIOUS
  <2>2. patch.rcpt = mined[e] /\ patch.attempts = None /\ patch.reorgs = None
    BY <2>1 DEF NoPatch
  <2>3. PlanKnown(e, "MinedReverted", patch)
    <3>1. handed[e] > 0 /\ Named(e, mined[e], TRUE)
      BY <1>0, <1>3, HandedKnown, MinedNamed
    <3>2. patch.reorgs # 0 /\ Named(e, patch.rcpt, patch.reorgs = None)
      BY <2>2, <3>1, NoneAssumption DEF Named
    <3> QED BY <3>1, <3>2, PatchKnown
  <2> QED BY <1>3, <2>1, <2>2, <2>3, PersistAdvances
<1>4. CASE mined[e] # None
           /\ task' = [task EXCEPT ![p].pc = "header", ![p].seen = mined[e]]
  BY <1>0, <1>4, MinedNamed, SeenAdvances
<1> QED BY <1>1, <1>2, <1>3, <1>4 DEF TickReceipt

LEMMA TickPollAdvances ==
    ASSUME Inv, Evidence, NEW p \in Proc, TickPoll(p) PROVE Advances(p)
<1>0. /\ task[p].pc = "poll" /\ task[p].ex \in Exec /\ task[p].snap # None
      /\ RowKnown(task[p].ex, task[p].snap)
  BY UnderWay DEF TickPoll, Fit, Snapping
<1>1. CASE PersistPhase(p, "Dropped", FailPatch("TRANSPORT_AMBIGUOUS"))
  <2>1. PlanKnown(task[p].ex, "Dropped", FailPatch("TRANSPORT_AMBIGUOUS"))
    BY UnobservedKnown, FailPatchSparse DEF Unobserved
  <2> QED BY <1>1, <2>1, PersistAdvances, FailPatchSparse
<1>2. CASE task[p].snap.phase = "Submitted" /\ PersistPhase(p, "Pending", NoPatch)
  <2>1. handed[task[p].ex] > 0
    BY <1>0, <1>2 DEF RowKnown, ObservedPhases
  <2>2. NoPatch.rcpt = None /\ NoPatch.attempts = None /\ NoPatch.reorgs # 0
    BY NoneAssumption DEF NoPatch
  <2>3. PlanKnown(task[p].ex, "Pending", NoPatch)
    BY <2>1, <2>2, PatchKnown
  <2> QED BY <1>2, <2>2, <2>3, PersistAdvances
<1>3. CASE Finish(p)
  BY <1>3, FinishAdvances
<1> QED BY <1>1, <1>2, <1>3 DEF TickPoll

\* No successful receipt takes a row to Confirmed.
LEMMA MinedTargetMoves ==
    ASSUME NEW phase, CanTransition(phase, MinedTarget(phase))
    PROVE  MinedTarget(phase) # "Confirmed"
BY DEF MinedTarget, CanTransition, LegalSuccessors, IsTerminal, Manual, Cancelled

\* An update to a phase below Confirmed with the receipt the task has seen.
LEMMA SeenPersists ==
    ASSUME Inv, Evidence, NEW p \in Proc, task[p].pc \in {"header", "rheader"}, NEW to,
           CanTransition(task[p].snap.phase, to) => to # "Confirmed",
           NEW patch, patch.rcpt = task[p].seen, patch.attempts = None, patch.reorgs # 0,
           patch.reorgs = None => task[p].pc = "header",
           PersistPhase(p, to, patch)
    PROVE  Advances(p)
<1>1. /\ task[p].ex \in Exec /\ ChainKnown /\ task[p].seen # None
      /\ Named(task[p].ex, task[p].seen, patch.reorgs = None)
  BY UnderWay DEF Fit, Named
<1>2. handed[task[p].ex] > 0
  BY <1>1, HandedKnown
<1> QED BY <1>1, <1>2, PatchKnown, PersistAdvances

\* The count that a reorganisation puts on the row is positive.
LEMMA SnapCounts ==
    ASSUME Inv, NEW p \in Proc, task[p].pc \in {"header", "rheader"}
    PROVE  task[p].snap.reorgs + 1 # 0
<1>1. task[p] \in Task /\ Fit(task[p], row)
  BY DEF Inv, TypeOK, TaskTypeOK, TasksFit
<1>2. task[p].snap \in BroadcastStateRow
  BY <1>1 DEF Fit, Snapping, Task
<1>3. task[p].snap.reorgs \in Nat
  BY <1>2 DEF BroadcastStateRow
<1> QED BY <1>3

LEMMA TickHeaderAdvances ==
    ASSUME Inv, Evidence, NEW p \in Proc, TickHeader(p) PROVE Advances(p)
<1> DEFINE t == task[p]
<1>0. t.pc = "header"
  BY DEF TickHeader
<1>1. PICK c \in CanonicalityOf(t.seen) :
         \/ PersistPhase(p, "Reorged",
                [[NoPatch EXCEPT !.rcpt = t.seen, !.canon = c]
                    EXCEPT !.reorgs = t.snap.reorgs + 1])
         \/ PersistPhase(p, MinedTarget(t.snap.phase),
                [NoPatch EXCEPT !.rcpt = t.seen, !.canon = c])
  BY DEF TickHeader
<1>2. CASE PersistPhase(p, "Reorged",
                [[NoPatch EXCEPT !.rcpt = t.seen, !.canon = c]
                    EXCEPT !.reorgs = t.snap.reorgs + 1])
  <2>1. PICK patch : patch = [[NoPatch EXCEPT !.rcpt = t.seen, !.canon = c]
                                 EXCEPT !.reorgs = t.snap.reorgs + 1]
    OBVIOUS
  <2>2. /\ patch.rcpt = t.seen /\ patch.attempts = None /\ PersistPhase(p, "Reorged", patch)
        /\ patch.reorgs = t.snap.reorgs + 1
    BY <1>2, <2>1 DEF NoPatch
  <2>3. patch.reorgs # 0
    BY <1>0, <2>2, SnapCounts
  <2> QED BY <1>0, <2>2, <2>3, SeenPersists
<1>3. CASE PersistPhase(p, MinedTarget(t.snap.phase),
                [NoPatch EXCEPT !.rcpt = t.seen, !.canon = c])
  <2>1. PICK patch : patch = [NoPatch EXCEPT !.rcpt = t.seen, !.canon = c]
    OBVIOUS
  <2>2. /\ patch.rcpt = t.seen /\ patch.attempts = None
        /\ patch.reorgs = None /\ patch.reorgs # 0
    BY <2>1, NoneAssumption DEF NoPatch
  <2>3. PICK to : to = MinedTarget(t.snap.phase)
    OBVIOUS
  <2>4. CanTransition(t.snap.phase, to) => to # "Confirmed"
    BY <2>3, MinedTargetMoves
  <2>5. PersistPhase(p, to, patch)
    BY <1>3, <2>1, <2>3
  <2> QED BY <1>0, <2>2, <2>4, <2>5, SeenPersists
<1> QED BY <1>1, <1>2, <1>3

\* maybe_finalize: what a task establishes at one await it keeps to the last.
LEMMA FinalizeAdvances ==
    ASSUME Inv, Evidence, NEW p \in Proc,
           FinalizeHeader(p) \/ FinalizeDepth(p) \/ CorrelateHead(p) \/ CorrelateMatch(p)
    PROVE  Advances(p)
<1>0. /\ task[p].pc \in Finalizing /\ TaskKnown(task[p]) /\ task[p].ex \in Exec
      /\ task[p] \in Task /\ task[p].snap # None /\ RowKnown(task[p].ex, task[p].snap)
      /\ TaskTypeOK /\ TasksKnown /\ ChainKnown
  BY UnderWay
  DEF FinalizeHeader, FinalizeDepth, CorrelateHead, CorrelateMatch, Finalizing, Fit, Snapping
<1>1. CASE Finish(p)
  BY <1>1, FinishAdvances
<1>2. CASE /\ task[p].pc = "fheader" /\ AwaitDepth(p)
           /\ IsCanonical(task[p].snap.rcpt)
  <2>1. PICK b : b = [fork |-> fork, reorgs |-> task[p].snap.reorgs]
    OBVIOUS
  <2>2. PICK t : t = [task[p] EXCEPT !.pc = "depth", !.basis = b]
    OBVIOUS
  <2>3. /\ t.pc = "depth" /\ t.ex = task[p].ex /\ t.snap = task[p].snap
        /\ t.seen = task[p].seen /\ t.posts = task[p].posts /\ t.basis = b
        /\ task' = [task EXCEPT ![p] = t]
    BY <1>0, <1>2, <2>1, <2>2 DEF Task, AwaitDepth
  <2>4. b.fork = fork /\ b.reorgs = task[p].snap.reorgs /\ fork \in Nat
    BY <2>1 DEF Inv, TypeOK, ChainTypeOK
  <2>5. Checked(t)
    BY <1>2, <2>3, <2>4 DEF Checked
  <2>6. TaskKnown(t)
    BY <1>0, <1>2, <2>3, <2>5 DEF TaskKnown, Finalizing, Planning
  <2> QED BY <2>3, <2>6 DEF Advances
<1>3. ASSUME NEW pc \in {"indexed", "matched"}, Goto(p, pc), task[p].pc # "fheader",
             DepthReached(task[p].snap.rcpt)
      PROVE  Advances(p)
  BY <1>0, <1>3, GotoAdvances DEF Finalizing
<1>4. ASSUME task[p].pc = "matched", matched[task[p].ex] # None,
             PersistPhase(p, "Confirmed", [NoPatch EXCEPT !.canon = "CANONICAL"])
      PROVE  Advances(p)
  <2> DEFINE e == task[p].ex
             r == task[p].snap.rcpt
             b == task[p].basis
  <2>1. /\ r # None /\ DepthReached(r) /\ Checked(task[p])
        /\ Named(e, r, task[p].snap.reorgs = 0)
    BY <1>0, <1>4 DEF TaskKnown, Finalizing, RowKnown
  <2>2. PICK i \in included[e] : /\ i.n = r.n /\ i.fork = r.fork
                                 /\ task[p].snap.reorgs = 0 => i = r
    BY <2>1 DEF Named
  <2>3. DepthReached(i) /\ (b.fork = fork => IsCanonical(i)) /\ b.fork <= fork
    BY <2>1, <2>2 DEF DepthReached, Checked, IsCanonical
  <2>4. Executed(e)
    BY <1>0, <1>4 DEF ChainKnown
  <2>5. r.status = 1
    BY <1>0, <1>4 DEF TaskKnown, Finalizing
  <2>6. b.reorgs = 0 => i.status = 1
    BY <2>1, <2>2, <2>5 DEF Checked
  <2>7. Backed(e, b)
    BY <2>3, <2>4, <2>6 DEF Backed, BearsOut
  <2>8. handed[e] > 0
    BY <1>0, <2>1, HandedKnown
  <2>9. PICK patch : patch = [NoPatch EXCEPT !.canon = "CANONICAL"]
    OBVIOUS
  <2>10. patch.rcpt = None /\ patch.attempts = None /\ patch.reorgs # 0
    BY <2>9, NoneAssumption DEF NoPatch
  <2>11. PlanKnown(e, "Confirmed", patch)
    BY <2>8, <2>10 DEF PlanKnown
  <2> QED BY <1>4, <2>7, <2>9, <2>10, <2>11, PersistAdvances
<1>5. CASE FinalizeHeader(p)
  BY <1>1, <1>2, <1>5 DEF FinalizeHeader, CanonicalityOf
<1>6. CASE FinalizeDepth(p)
  BY <1>1, <1>3, <1>6 DEF FinalizeDepth
<1>7. CASE CorrelateHead(p)
  <2>1. DepthReached(task[p].snap.rcpt)
    BY <1>0, <1>7 DEF CorrelateHead, TaskKnown
  <2> QED BY <1>1, <1>3, <1>7, <2>1 DEF CorrelateHead
<1>8. CASE CorrelateMatch(p)
  BY <1>1, <1>4, <1>8 DEF CorrelateMatch
<1> QED BY <1>5, <1>6, <1>7, <1>8

-----------------------------------------------------------------------------
(* The recovery of reorganised rows.                                       *)

\* The receipt made up from a lookup names the right block all the same.
LEMMA SyntheticNamed ==
    ASSUME Inv, ChainKnown, NEW e \in Exec, mined[e] # None
    PROVE  Named(e, Synthetic(mined[e]), FALSE)
<1>1. mined[e] \in Receipts /\ mined[e] \in included[e]
  BY DEF Inv, TypeOK, ChainTypeOK, ChainKnown
<1>2. Synthetic(mined[e]).n = mined[e].n /\ Synthetic(mined[e]).fork = mined[e].fork
  BY <1>1 DEF Synthetic, Receipts
<1> QED BY <1>1, <1>2 DEF Named

LEMMA ReturnAdvances ==
    ASSUME Inv, Evidence, NEW p \in Proc, task[p].pc # "idle",
           Known(task[p].ex), ReturnToPending(p)
    PROVE  Advances(p)
<1>1. PICK patch : patch = [NoPatch EXCEPT !.canon = "UNKNOWN"]
  OBVIOUS
<1>2. patch.rcpt = None /\ patch.attempts = None /\ patch.reorgs # 0
  BY <1>1, NoneAssumption DEF NoPatch
<1>3. handed[task[p].ex] > 0
  BY UnderWay, HandedKnown DEF Known
<1>4. PlanKnown(task[p].ex, "Pending", patch)
  BY <1>2, <1>3, PatchKnown
<1> QED BY <1>1, <1>2, <1>4, PersistAdvances DEF ReturnToPending

LEMMA LookupAdvances ==
    ASSUME Inv, Evidence, NEW p \in Proc, task[p].pc # "idle",
           Known(task[p].ex), FoundByLookup(p)
    PROVE  Advances(p)
<1>1. CASE mined[task[p].ex] # None /\ ConsiderReceipt(p, Synthetic(mined[task[p].ex]))
  <2>1. PICK r : r = Synthetic(mined[task[p].ex])
    OBVIOUS
  <2>2. Named(task[p].ex, r, FALSE)
    BY <1>1, <2>1, UnderWay, SyntheticNamed
  <2>3. task' = [task EXCEPT ![p].pc = "rheader", ![p].seen = r]
    BY <1>1, <2>1 DEF ConsiderReceipt
  <2> QED BY <2>2, <2>3, SeenAdvances
<1>2. CASE ReturnToPending(p)
  BY <1>2, ReturnAdvances
<1> QED BY <1>1, <1>2 DEF FoundByLookup

LEMMA RecoverAdvances ==
    ASSUME Inv, Evidence, NEW p \in Proc,
           RecoverReceipt(p) \/ RecoverHeader(p) \/ RecoverLookup(p) \/ RecoverNonce(p)
    PROVE  Advances(p)
<1> DEFINE e == task[p].ex
<1>0. task[p].pc # "idle"
  BY DEF RecoverReceipt, RecoverHeader, RecoverLookup, RecoverNonce
<1>1. e \in Exec /\ ChainKnown /\ TaskTypeOK /\ TasksKnown
  BY <1>0, UnderWay
<1>2. CASE Finish(p)
  BY <1>2, FinishAdvances
<1>3. ASSUME NEW pc \in {"rlookup", "rnonce"}, Goto(p, pc), task[p].pc # "rheader"
      PROVE  Advances(p)
  BY <1>0, <1>1, <1>3, GotoAdvances DEF Finalizing
<1>4. CASE RecoverReceipt(p)
  <2>1. CASE mined[e] # None /\ ConsiderReceipt(p, mined[e])
    <3>1. PICK r : r = mined[e]
      OBVIOUS
    <3>2. Named(e, r, FALSE) /\ task' = [task EXCEPT ![p].pc = "rheader", ![p].seen = r]
      BY <1>1, <2>1, <3>1, MinedNamed DEF ConsiderReceipt, Named
    <3> QED BY <1>0, <3>2, SeenAdvances
  <2>2. CASE e \in pool /\ ReturnToPending(p)
    BY <1>0, <2>2, ReturnAdvances DEF Known
  <2> QED BY <1>3, <1>4, <2>1, <2>2 DEF RecoverReceipt
<1>5. CASE RecoverHeader(p)
  <2>1. CASE PersistPhase(p, "Confirming",
                 [NoPatch EXCEPT !.rcpt = task[p].seen, !.canon = "CANONICAL",
                                 !.reorgs = task[p].snap.reorgs + 1])
    <3>1. PICK patch : patch = [NoPatch EXCEPT !.rcpt = task[p].seen, !.canon = "CANONICAL",
                                               !.reorgs = task[p].snap.reorgs + 1]
      OBVIOUS
    <3>2. /\ patch.rcpt = task[p].seen /\ patch.attempts = None
          /\ PersistPhase(p, "Confirming", patch)
          /\ patch.reorgs = task[p].snap.reorgs + 1
      BY <2>1, <3>1 DEF NoPatch
    <3>3. task[p].pc = "rheader" /\ task[p].snap.reorgs \in Nat
      BY <1>1, <1>5, UnderWay DEF RecoverHeader, Fit, Snapping, Task, BroadcastStateRow
    <3>4. patch.reorgs # 0 /\ patch.reorgs # None
      BY <3>2, <3>3, NoneAssumption
    <3> QED BY <3>2, <3>3, <3>4, SeenPersists
  <2> QED BY <1>2, <1>5, <2>1 DEF RecoverHeader
<1>6. CASE RecoverLookup(p)
  BY <1>0, <1>3, <1>6, LookupAdvances DEF RecoverLookup
<1>7. CASE RecoverNonce(p)
  <2>1. CASE PersistPhase(p, Manual, FailPatch("REORG_NONCE_STOLEN"))
    <3>1. PlanKnown(e, Manual, FailPatch("REORG_NONCE_STOLEN")) /\ Manual # "Confirmed"
      BY UnobservedKnown, FailPatchSparse DEF Unobserved
    <3> QED BY <2>1, <3>1, PersistAdvances, FailPatchSparse
  <2> QED BY <1>0, <1>2, <1>7, <2>1, LookupAdvances DEF RecoverNonce
<1> QED BY <1>4, <1>5, <1>6, <1>7

-----------------------------------------------------------------------------
(* The shared steps.                                                       *)

LEMMA EscalateAdvances ==
    ASSUME Inv, Evidence, NEW p \in Proc, EscalateRead(p) PROVE Advances(p)
<1>0. task[p].pc = "escalate" /\ task[p] \in Task /\ TaskKnown(task[p])
  BY UnderWay DEF EscalateRead
<1>1. PICK from : task' = [task EXCEPT ![p].pc = "write", ![p].from = from]
  BY DEF EscalateRead
<1>2. PICK t : t = [task[p] EXCEPT !.pc = "write", !.from = from]
  OBVIOUS
<1>3. /\ t.pc = "write" /\ t.ex = task[p].ex /\ t.snap = task[p].snap
      /\ t.seen = task[p].seen /\ t.posts = task[p].posts
      /\ t.to = task[p].to /\ t.patch = task[p].patch /\ t.basis = task[p].basis
      /\ task' = [task EXCEPT ![p] = t]
  BY <1>0, <1>1, <1>2 DEF Task
<1>4. TaskKnown(t)
  BY <1>0, <1>3 DEF TaskKnown, Finalizing, Planning
<1> QED BY <1>3, <1>4 DEF Advances

LEMMA WriteKnown ==
    ASSUME Inv, Inv', Evidence, Quiet, NEW p \in Proc, Write(p)
    PROVE  Advances(p) /\ RowsKnown'
<1>1. task[p].pc = "write" /\ task[p] \in Task /\ TaskKnown(task[p]) /\ Fit(task[p], row)
      /\ task[p].ex \in Exec
  BY UnderWay DEF Write
<1>2. /\ task[p].to \in Phases /\ task[p].patch \in BroadcastStatePatch
      /\ PlanKnown(task[p].ex, task[p].to, task[p].patch) /\ task[p].patch.attempts = None
  BY <1>1 DEF Fit, Task, TaskKnown, Planning
<1>3. PICK e \in Exec, to \in Phases, patch \in BroadcastStatePatch :
         e = task[p].ex /\ to = task[p].to /\ patch = task[p].patch
  BY <1>1, <1>2
<1>4. UpdateBroadcastPhase(e, task[p].from, to, patch) /\ Finish(p)
  BY <1>3 DEF Write
<1>5. RowsKnown'
  BY <1>2, <1>3, <1>4, UpdateKnown DEF Evidence
<1> QED BY <1>4, <1>5, FinishAdvances

-----------------------------------------------------------------------------
(* The steps of the outbox.                                                *)

\* One row is replaced by another of which as much is known.
LEMMA RowReplaced ==
    ASSUME Inv, Inv', RowsKnown, Quiet, NEW e \in Exec, NEW r, RowKnown(e, r),
           row' = [row EXCEPT ![e] = r]
    PROVE  RowsKnown'
<1>1. ASSUME NEW d \in Exec PROVE RowKnown(d, row[d])'
  <2>1. RowKnown(d, row'[d]) /\ row'[d] \in BroadcastStateRow \cup {None}
    BY DEF RowsKnown, Inv, TypeOK, StoreTypeOK
  <2>2. PICK s \in BroadcastStateRow \cup {None} : s = row'[d] /\ RowKnown(d, s)
    BY <2>1
  <2>3. RowKnown(d, s)'
    BY <2>2, RowLater, QuietIsLater DEF Quiet
  <2> QED BY <2>2, <2>3 DEF RowKnown
<1> QED BY <1>1 DEF RowsKnown

LEMMA AdminBroadcastKnown ==
    ASSUME Inv, Inv', Evidence, Quiet, NEW p \in Proc, NEW e \in Exec, AdminBroadcast(p, e)
    PROVE  Advances(p) /\ RowsKnown'
<1>1. Advances(p)
  <2>1. PICK t : t = [IdleTask EXCEPT !.pc = "branch", !.ex = e]
    OBVIOUS
  <2>2. /\ t.pc = "branch" /\ t.ex = e /\ t.seen = None /\ t.posts = 0 /\ t.snap = None
        /\ task' = [task EXCEPT ![p] = t]
    BY <2>1 DEF IdleTask, AdminBroadcast, Start
  <2> QED BY <2>2, FreshAdvances DEF RowKnown, Finalizing, Planning
<1>2. PICK r : r = IF row[e] = None THEN NewRow ELSE row[e]
  OBVIOUS
<1>3. row' = [row EXCEPT ![e] = r]
  BY <1>2 DEF AdminBroadcast, InsertBroadcastState
<1>4. handed[e] \in Nat
  BY DEF Inv, TypeOK, OutboxTypeOK
<1>5. RowKnown(e, NewRow)
  BY <1>4 DEF RowKnown, NewRow, ObservedPhases
<1>6. RowKnown(e, r)
  BY <1>2, <1>5 DEF Evidence, RowsKnown
<1> QED BY <1>1, <1>3, <1>6, RowReplaced DEF Evidence

LEMMA SetTxHashKnown ==
    ASSUME Inv, Inv', Evidence, Quiet, NEW p \in Proc, SetTxHash(p)
    PROVE  Advances(p) /\ RowsKnown'
<1> DEFINE e == task[p].ex
<1>1. /\ task[p].pc # "idle" /\ e \in Exec /\ TaskTypeOK /\ TasksKnown
      /\ row[e] \in BroadcastStateRow /\ RowKnown(e, row[e]) /\ row[e] # None
  BY UnderWay DEF SetTxHash
<1>2. Advances(p)
  BY <1>1, FinishAdvances, GotoAdvances DEF SetTxHash, Finalizing, Planning
<1>3. CASE UNCHANGED row
  BY <1>2, <1>3, RowsQuiet DEF Evidence
<1>4. CASE row' = [row EXCEPT ![e] = [row[e] EXCEPT !.tx = e]]
  <2>1. PICK r : r = [row[e] EXCEPT !.tx = e]
    OBVIOUS
  <2>2. /\ r.rcpt = row[e].rcpt /\ r.phase = row[e].phase /\ r.attempts = row[e].attempts
        /\ r.reorgs = row[e].reorgs
        /\ row' = [row EXCEPT ![e] = r]
    BY <1>1, <1>4, <2>1 DEF BroadcastStateRow
  <2>3. RowKnown(e, r)
    BY <1>1, <2>2 DEF RowKnown
  <2> QED BY <1>1, <1>2, <2>2, <2>3, RowReplaced DEF Evidence
<1> QED BY <1>2, <1>3, <1>4 DEF SetTxHash, SetBroadcastTxHash

\* A row that is still unsent was never claimed: the claim is its first.
LEMMA ReReadAdvances ==
    ASSUME Inv, Evidence, NEW p \in Proc, ReRead(p) PROVE Advances(p)
<1> DEFINE r == row[task[p].ex]
<1>1. RowKnown(task[p].ex, r) /\ r # None
  BY UnderWay DEF ReRead
<1>2. CASE Finish(p)
  BY <1>2, FinishAdvances
<1>3. CASE /\ r.phase \in Unsent
           /\ PlanWrite(p, "claim", r.phase, "Broadcasting",
                 [NoPatch EXCEPT !.attempts = r.attempts + 1, !.lastSub = now])
  <2>1. r.attempts = 0
    BY <1>1, <1>3 DEF RowKnown
  <2>2. PICK patch : patch = [NoPatch EXCEPT !.attempts = r.attempts + 1, !.lastSub = now]
    OBVIOUS
  <2>3. patch.attempts = 1 /\ patch.rcpt = None /\ patch.reorgs = None
    BY <2>1, <2>2 DEF NoPatch
  <2>4. PICK t : t = [IdleTask EXCEPT !.pc = "claim", !.ex = task[p].ex, !.from = r.phase,
                                      !.to = "Broadcasting", !.patch = patch,
                                      !.basis = task[p].basis]
    OBVIOUS
  <2>5. /\ t.pc = "claim" /\ t.ex = task[p].ex /\ t.patch = patch
        /\ t.snap = None /\ t.seen = None /\ t.posts = 0
        /\ task' = [task EXCEPT ![p] = t]
    BY <1>3, <2>2, <2>4 DEF IdleTask, PlanWrite, PlanUpdate
  <2>6. TaskKnown(t)
    BY <2>3, <2>5 DEF TaskKnown, RowKnown, Finalizing, Planning
  <2> QED BY <2>5, <2>6 DEF Advances
<1> QED BY <1>2, <1>3 DEF ReRead

LEMMA ClaimKnown ==
    ASSUME Inv, Inv', Evidence, Quiet, NEW p \in Proc, Claim(p)
    PROVE  Advances(p) /\ RowsKnown'
<1>1. task[p].pc = "claim" /\ task[p] \in Task /\ TaskKnown(task[p]) /\ Fit(task[p], row)
      /\ task[p].ex \in Exec
  BY UnderWay DEF Claim
<1>2. /\ task[p].to = "Broadcasting" /\ task[p].patch \in BroadcastStatePatch
      /\ task[p].patch.attempts = 1 /\ task[p].patch.rcpt = None
      /\ task[p].patch.reorgs = None
  BY <1>1 DEF Fit, Task, TaskKnown
<1>3. PICK e \in Exec, patch \in BroadcastStatePatch : e = task[p].ex /\ patch = task[p].patch
  BY <1>1, <1>2
<1>4. UpdateBroadcastPhase(e, task[p].from, "Broadcasting", patch)
  BY <1>2, <1>3 DEF Claim
<1>5. handed[e] \in Nat /\ 1 # None /\ "Broadcasting" \in Phases \ Unsent
  BY NoneAssumption DEF Inv, TypeOK, OutboxTypeOK, Phases, Unsent
<1>6. PlanKnown(e, "Broadcasting", patch)
  BY <1>2, <1>3, NoneAssumption DEF PlanKnown, ObservedPhases
<1>7. RowsKnown'
  BY <1>2, <1>3, <1>4, <1>5, <1>6, UpdateKnown DEF Evidence
<1>8. CASE Finish(p)
  BY <1>7, <1>8, FinishAdvances
<1>9. CASE task' = [task EXCEPT ![p] = [IdleTask EXCEPT !.pc = "send", !.ex = task[p].ex]]
  <2>1. PICK t : t = [IdleTask EXCEPT !.pc = "send", !.ex = task[p].ex]
    OBVIOUS
  <2>2. /\ t.pc = "send" /\ t.ex = e /\ t.seen = None /\ t.posts = 0 /\ t.snap = None
        /\ task' = [task EXCEPT ![p] = t]
    BY <1>3, <1>9, <2>1 DEF IdleTask
  <2>3. Advances(p)
    BY <2>2, FreshAdvances DEF RowKnown, Finalizing, Planning
  <2> QED BY <1>7, <2>3
<1> QED BY <1>8, <1>9 DEF Claim

LEMMA OutboxReadsAdvance ==
    ASSUME Inv, Evidence, NEW p \in Proc, AdminBranch(p) \/ Firewall(p) \/ Probe(p)
    PROVE  Advances(p)
<1>1. task[p].pc \notin {"idle", "rheader"} /\ TaskTypeOK /\ TasksKnown
  BY UnderWay DEF AdminBranch, Firewall, Probe
<1>2. CASE Finish(p)
  BY <1>2, FinishAdvances
<1>3. ASSUME NEW pc \in {"firewall", "resume", "probe", "sethash"}, Goto(p, pc)
      PROVE  Advances(p)
  BY <1>1, <1>3, GotoAdvances DEF Finalizing
<1>4. ASSUME NEW to \in {Manual, Cancelled}, NEW f,
             PlanEscalation(p, "BroadcastDisabled", to, f)
      PROVE  Advances(p)
  BY <1>4, EscalationAdvances
<1>5. CASE AdminBranch(p)
  BY <1>2, <1>3, <1>5 DEF AdminBranch
<1>6. CASE Firewall(p)
  BY <1>3, <1>4, <1>6 DEF Firewall
<1>7. CASE Probe(p)
  BY <1>3, <1>4, <1>7 DEF Probe
<1> QED BY <1>5, <1>6, <1>7

LEMMA ResumeReadAdvances ==
    ASSUME Inv, Evidence, NEW p \in Proc, ResumeRead(p) PROVE Advances(p)
<1> DEFINE r == row[task[p].ex]
<1>0. /\ task[p].pc = "resume" /\ task[p] \in Task /\ TaskKnown(task[p])
      /\ RowKnown(task[p].ex, r)
  BY UnderWay DEF ResumeRead
<1>1. CASE Finish(p)
  BY <1>1, FinishAdvances
<1>2. CASE PlanEscalation(p, r.phase, Manual, "TRANSPORT_AMBIGUOUS")
  BY <1>2, EscalationAdvances
<1>3. CASE task' = [task EXCEPT ![p].pc = "lookup", ![p].snap = r, ![p].ts = now]
  <2>1. PICK t : t = [task[p] EXCEPT !.pc = "lookup", !.snap = r, !.ts = now]
    OBVIOUS
  <2>2. /\ t.pc = "lookup" /\ t.ex = task[p].ex /\ t.snap = r
        /\ t.seen = task[p].seen /\ t.posts = task[p].posts
        /\ task' = [task EXCEPT ![p] = t]
    BY <1>0, <1>3, <2>1 DEF Task
  <2>3. TaskKnown(t)
    BY <1>0, <2>2 DEF TaskKnown, Finalizing, Planning
  <2> QED BY <2>2, <2>3 DEF Advances
<1> QED BY <1>1, <1>2, <1>3 DEF ResumeRead

LEMMA ResumeLookupAdvances ==
    ASSUME Inv, Evidence, NEW p \in Proc, ResumeLookup(p) PROVE Advances(p)
<1> DEFINE was == task[p].snap.phase
           seenAs == IF was = "Broadcasting" THEN "Submitted" ELSE "Pending"
           stamp == [NoPatch EXCEPT !.lastSub = task[p].ts]
<1>0. task[p].ex \in Exec /\ ChainKnown
  BY UnderWay DEF ResumeLookup
<1>1. CASE Finish(p)
  BY <1>1, FinishAdvances
<1>2. ASSUME NEW f, PlanEscalation(p, was, Manual, f) PROVE Advances(p)
  BY <1>2, EscalationAdvances
<1>3. CASE Known(task[p].ex) /\ PlanWrite(p, "write", was, seenAs, stamp)
  <2>1. PICK patch : patch = stamp
    OBVIOUS
  <2>2. patch.rcpt = None /\ patch.attempts = None /\ patch.reorgs # 0
    BY <2>1, NoneAssumption DEF NoPatch
  <2>3. PICK to : to = seenAs /\ to # "Confirmed"
    OBVIOUS
  <2>4. handed[task[p].ex] > 0
    BY <1>0, <1>3, HandedKnown DEF Known
  <2>5. PlanKnown(task[p].ex, to, patch)
    BY <2>2, <2>3, <2>4, PatchKnown
  <2>6. PlanUpdate(p, task[p].ex, "write", was, to, patch)
    BY <1>3, <2>1, <2>3 DEF PlanWrite
  <2> QED BY <2>2, <2>3, <2>5, <2>6, PlanAdvances DEF Planning
<1>4. CASE PlanWrite(p, "write", was, "SubmissionUnknown",
                     [stamp EXCEPT !.fail = "TRANSPORT_AMBIGUOUS"])
  <2>1. PICK patch : patch = [stamp EXCEPT !.fail = "TRANSPORT_AMBIGUOUS"]
    OBVIOUS
  <2>2. patch.rcpt = None /\ patch.attempts = None /\ patch.reorgs = None
    BY <2>1 DEF NoPatch
  <2>3. PlanKnown(task[p].ex, "SubmissionUnknown", patch)
    BY <2>2, UnobservedKnown DEF Unobserved
  <2>4. PlanUpdate(p, task[p].ex, "write", was, "SubmissionUnknown", patch)
    BY <1>4, <2>1 DEF PlanWrite
  <2> QED BY <2>2, <2>3, <2>4, PlanAdvances DEF Planning
<1> QED BY <1>1, <1>2, <1>3, <1>4 DEF ResumeLookup

LEMMA AdminReadsAdvance ==
    ASSUME Inv, Evidence, NEW p \in Proc, NEW e \in Exec, ResendRead(p, e) \/ ManualRead(p, e)
    PROVE  Advances(p)
<1>1. ASSUME NEW pc \in {"write", "escalate"}, NEW from, NEW f,
             PlanUpdate(p, e, pc, from, Manual, FailPatch(f))
      PROVE  Advances(p)
  <2>1. /\ PlanKnown(e, Manual, FailPatch(f)) /\ FailPatch(f).attempts = None
        /\ Manual # "Confirmed"
    BY UnobservedKnown, FailPatchSparse DEF Unobserved
  <2> QED BY <1>1, <2>1, PlanAdvances DEF Planning
<1>2. CASE task' = [task EXCEPT ![p] = [IdleTask EXCEPT
                      !.pc = "resend", !.ex = e, !.snap = row[e], !.ts = now]]
  <2>1. PICK t : t = [IdleTask EXCEPT !.pc = "resend", !.ex = e, !.snap = row[e], !.ts = now]
    OBVIOUS
  <2>2. /\ t.pc = "resend" /\ t.ex = e /\ t.seen = None /\ t.posts = 0 /\ t.snap = row[e]
        /\ task' = [task EXCEPT ![p] = t]
    BY <1>2, <2>1 DEF IdleTask
  <2>3. RowKnown(e, t.snap)
    BY <2>2 DEF Evidence, RowsKnown
  <2> QED BY <2>2, <2>3, FreshAdvances DEF Finalizing
<1>3. CASE ResendRead(p, e)
  BY <1>1, <1>2, <1>3 DEF ResendRead
<1>4. CASE ManualRead(p, e)
  BY <1>1, <1>4 DEF ManualRead
<1> QED BY <1>3, <1>4

\* classify_and_persist, after a first submission.
LEMMA ClassifySendKnown ==
    ASSUME Inv, Inv', Evidence, Quiet, NEW p \in Proc, ClassifySend(p)
    PROVE  Advances(p) /\ RowsKnown'
<1>1. /\ task[p].pc = "classify" /\ task[p].ex \in Exec /\ TaskKnown(task[p])
      /\ handed[task[p].ex] > 0 /\ now \in Nat
  BY UnderWay DEF ClassifySend, TaskKnown, Inv, TypeOK, ChainTypeOK
<1>2. ASSUME NEW f, PlanEscalation(p, "Broadcasting", Manual, f), UNCHANGED row
      PROVE  Advances(p) /\ RowsKnown'
  BY <1>2, EscalationAdvances, RowsQuiet DEF Evidence
<1>3. ASSUME NEW to \in {"Submitted", "SubmissionUnknown"}, NEW f \in Failures \cup {None},
             UpdateBroadcastPhase(task[p].ex, "Broadcasting", to,
                 [NoPatch EXCEPT !.lastSub = now, !.fail = f]),
             Finish(p)
      PROVE  Advances(p) /\ RowsKnown'
  <2>1. PICK patch : patch = [NoPatch EXCEPT !.lastSub = now, !.fail = f]
    OBVIOUS
  <2>2. /\ patch \in BroadcastStatePatch /\ patch.rcpt = None /\ patch.attempts = None
        /\ patch.reorgs = None
    BY <1>1, <2>1, NoPatchType DEF NoPatch, BroadcastStatePatch
  <2>3. PICK e \in Exec : e = task[p].ex
    BY <1>1
  <2>4. PlanKnown(e, to, patch) /\ to \in Phases
    BY <1>1, <2>2, <2>3, PatchKnown, NoneAssumption DEF Phases
  <2>5. RowsKnown'
    BY <1>3, <2>1, <2>2, <2>3, <2>4, UpdateKnown DEF Evidence
  <2> QED BY <1>3, <2>5, FinishAdvances
<1>4. "TRANSPORT_AMBIGUOUS" \in Failures
  BY DEF Failures
<1> QED BY <1>2, <1>3, <1>4 DEF ClassifySend

\* The resend counts from the attempts of the row it read, which its own
\* hand-off has caught up with by now.
LEMMA ClassifyResendKnown ==
    ASSUME Inv, Inv', Evidence, Quiet, NEW p \in Proc, ClassifyResend(p)
    PROVE  Advances(p) /\ RowsKnown'
<1> DEFINE t == task[p]
<1>1. /\ t.pc = "reclassify" /\ t.ex \in Exec /\ t \in Task /\ TaskKnown(t) /\ t.snap # None
  BY UnderWay DEF ClassifyResend, Fit, Snapping
<1>2. /\ handed[t.ex] > 0 /\ t.snap.attempts <= handed[t.ex] /\ handed[t.ex] \in Nat
      /\ t.snap.attempts \in Nat /\ t.ts \in Nat
  BY <1>1 DEF TaskKnown, Task, BroadcastStateRow, Inv, TypeOK, OutboxTypeOK
<1>3. ASSUME NEW from, NEW f, PlanEscalation(p, from, Manual, f), UNCHANGED row
      PROVE  Advances(p) /\ RowsKnown'
  BY <1>3, EscalationAdvances, RowsQuiet DEF Evidence
<1>4. CASE Finish(p) /\ UNCHANGED row
  BY <1>4, FinishAdvances, RowsQuiet DEF Evidence
<1>5. CASE /\ UpdateBroadcastPhase(t.ex, t.snap.phase, "Submitted",
                  [NoPatch EXCEPT !.attempts = t.snap.attempts + 1, !.lastSub = t.ts])
           /\ Finish(p)
  <2>0. PICK n \in Nat, ts \in Nat : n = t.snap.attempts + 1 /\ ts = t.ts
    BY <1>2
  <2>1. PICK patch : patch = [NoPatch EXCEPT !.attempts = n, !.lastSub = ts]
    OBVIOUS
  <2>2. /\ patch \in BroadcastStatePatch /\ patch.rcpt = None /\ patch.attempts = n
        /\ patch.reorgs = None
    BY <2>1, NoPatchType DEF NoPatch, BroadcastStatePatch
  <2>3. PICK e \in Exec : e = t.ex
    BY <1>1
  <2>4. patch.attempts # None /\ patch.attempts <= handed[e] + 1
    BY <1>2, <2>0, <2>2, <2>3, NoneAssumption
  <2>5. PlanKnown(e, "Submitted", patch) /\ "Submitted" \in Phases \ Unsent
    BY <1>2, <2>2, <2>3, PatchKnown, NoneAssumption DEF Phases, Unsent
  <2>6. UpdateBroadcastPhase(e, t.snap.phase, "Submitted", patch)
    BY <1>5, <2>0, <2>1, <2>3
  <2>7. RowsKnown'
    BY <2>2, <2>4, <2>5, <2>6, UpdateKnown DEF Evidence
  <2> QED BY <1>5, <2>7, FinishAdvances
<1> QED BY <1>3, <1>4, <1>5 DEF ClassifyResend

-----------------------------------------------------------------------------
(* The steps that move the world.                                          *)

LEMMA HandOffKnown ==
    ASSUME Inv, Inv', Evidence, NEW p \in Proc, NEW next \in {"classify", "reclassify"},
           task[p].pc \in {"send", "resend"}, next = "reclassify" => task[p].pc = "resend",
           HandOff(p, next)
    PROVE  Evidence'
<1>0. PICK e \in Exec : e = task[p].ex
  BY UnderWay
<1>1. PICK resp, t :
         /\ resp \in SendResponses
         /\ Transmit(e, resp)
         /\ t = [task[p] EXCEPT
                !.pc    = IF resp = "ambiguous" /\ task[p].posts < RpcMaxRetries
                          THEN task[p].pc ELSE next,
                !.resp  = IF resp = "ambiguous" /\ task[p].posts < RpcMaxRetries
                          THEN None ELSE resp,
                !.posts = IF resp = "ambiguous" /\ task[p].posts < RpcMaxRetries
                          THEN task[p].posts + 1 ELSE 0]
         /\ task' = [task EXCEPT ![p] = t]
  <2>1. PICK resp \in SendResponses :
         /\ Transmit(task[p].ex, resp)
         /\ task' = [task EXCEPT
                ![p].pc    = IF resp = "ambiguous" /\ task[p].posts < RpcMaxRetries
                             THEN task[p].pc ELSE next,
                ![p].resp  = IF resp = "ambiguous" /\ task[p].posts < RpcMaxRetries
                             THEN None ELSE resp,
                ![p].posts = IF resp = "ambiguous" /\ task[p].posts < RpcMaxRetries
                             THEN task[p].posts + 1 ELSE 0]
    BY DEF HandOff
  <2> QED BY <1>0, <2>1
<1>2. /\ handed' = [handed EXCEPT ![e] = IF task[p].posts = 0 THEN handed[e] + 1 ELSE handed[e]]
      /\ row' = row
  BY <1>0 DEF HandOff
<1>3. /\ task[p] \in Task /\ TaskKnown(task[p]) /\ Fit(task[p], row) /\ task[p].posts \in Nat
      /\ handed \in [Exec -> Nat] /\ task[p].pc # "idle" /\ ChainKnown /\ task \in [Proc -> Task]
  BY UnderWay DEF Task, Inv, TypeOK, OutboxTypeOK, TaskTypeOK
<1>4. /\ handed'[e] > 0 /\ \A d \in Exec : handed[d] <= handed'[d]
  BY <1>0, <1>2, <1>3 DEF TaskKnown
<1>5. included' = included /\ chain' = chain /\ mined' = mined /\ matched' = matched
      /\ fork' = fork
      /\ pool' \subseteq pool \cup {e} /\ wire' \subseteq wire \cup {e}
  BY <1>1 DEF Transmit, indexVars, Admitted
<1>6. Later
  <2>1. Tip \in Nat /\ fork \in Nat
    BY DEF Inv, TypeOK, ChainTypeOK, Tip
  <2> QED BY <1>4, <1>5, <2>1 DEF Later, Tip
<1>7. ChainKnown'
  <2>1. \A d \in Exec : d = e \/ (d \in pool' \cup wire' => d \in pool \cup wire)
    BY <1>5
  <2>2. \A d \in Exec : handed[d] > 0 => handed'[d] > 0
    BY <1>3, <1>4, Inv' DEF Inv, TypeOK, OutboxTypeOK
  <2> QED BY <1>3, <1>4, <1>5, <2>1, <2>2 DEF ChainKnown, Executed
<1>8. RowsKnown'
  <2>1. ASSUME NEW d \in Exec PROVE RowKnown(d, row[d])'
    <3>1. PICK r \in BroadcastStateRow \cup {None} : r = row[d] /\ RowKnown(d, r)
      BY DEF Evidence, RowsKnown, Inv, TypeOK, StoreTypeOK
    <3>2. RowKnown(d, r)' /\ row'[d] = r
      BY <1>2, <1>6, <3>1, RowLater
    <3> QED BY <3>2
  <2> QED BY <2>1 DEF RowsKnown
<1>9. TaskKnown(t)'
  <2>1. PICK u \in Task : u = task[p] /\ TaskKnown(u) /\ Fit(u, row)
    BY <1>3
  <2>2. TaskKnown(u)'
    BY <1>6, <2>1, TaskLater
  <2>3. /\ t.ex = e /\ u.ex = e /\ t.snap = u.snap /\ t.seen = u.seen
        /\ t.pc \in {u.pc, next} /\ u.pc \in {"send", "resend"}
    BY <1>0, <1>1, <1>3, <2>1 DEF Task
  <2>4. next = "reclassify" \/ u.pc = "resend" => u.snap.attempts <= handed'[e]
    <3> SUFFICES ASSUME u.pc = "resend" PROVE u.snap.attempts <= handed'[e]
      BY <2>1
    <3>1. u.snap # None /\ u.snap.attempts <= handed[e] + 1
      BY <2>1, <2>3 DEF Fit, Snapping, TaskKnown, RowKnown
    <3>2. u.snap.attempts \in Nat
      BY <3>1 DEF Task, BroadcastStateRow
    <3>3. CASE u.posts = 0
      BY <1>2, <1>3, <2>1, <3>1, <3>2, <3>3
    <3>4. CASE u.posts # 0
      <4>1. u.snap.attempts <= handed[e]
        BY <1>3, <2>1, <2>3, <3>4 DEF TaskKnown
      <4> QED BY <1>2, <1>3, <2>1, <3>4, <4>1
    <3> QED BY <3>3, <3>4
  <2>5. RowKnown(e, t.snap)' /\ (t.seen # None => Named(e, t.seen, t.pc # "rheader")')
    BY <2>2, <2>3 DEF TaskKnown
  <2>6. t.pc \in {"send", "resend", "classify", "reclassify"}
        /\ (t.pc \in {"resend", "reclassify"} => t.snap.attempts <= handed'[e])
    BY <2>1, <2>3, <2>4
  <2> QED BY <1>4, <2>3, <2>5, <2>6 DEF TaskKnown, Finalizing, Planning
<1>10. ASSUME NEW q \in Proc PROVE TaskKnown(task[q])'
  <2>1. CASE q = p
    BY <1>1, <1>3, <1>9, <2>1
  <2>2. CASE q # p
    <3>1. PICK u \in Task : u = task[q] /\ TaskKnown(u) /\ Fit(u, row)
      BY DEF Evidence, TasksKnown, Inv, TypeOK, TaskTypeOK, TasksFit
    <3>2. TaskKnown(u)' /\ task'[q] = u
      BY <1>1, <1>3, <1>6, <2>2, <3>1, TaskLater
    <3> QED BY <3>2
  <2> QED BY <2>1, <2>2
<1> QED BY <1>7, <1>8, <1>10 DEF Evidence, TasksKnown

LEMMA WorldStep ==
    ASSUME Inv, Inv', Evidence, UNCHANGED <<row, task>>, Later, ChainKnown'
    PROVE  Evidence'
<1>1. ASSUME NEW e \in Exec PROVE RowKnown(e, row[e])'
  <2>1. PICK r \in BroadcastStateRow \cup {None} : r = row[e] /\ RowKnown(e, r)
    BY DEF Evidence, RowsKnown, Inv, TypeOK, StoreTypeOK
  <2>2. RowKnown(e, r)' /\ row'[e] = r
    BY <2>1, RowLater
  <2> QED BY <2>2
<1>2. ASSUME NEW p \in Proc PROVE TaskKnown(task[p])'
  <2>1. PICK t \in Task : t = task[p] /\ TaskKnown(t) /\ Fit(t, row)
    BY DEF Evidence, TasksKnown, Inv, TypeOK, TaskTypeOK, TasksFit
  <2>2. TaskKnown(t)' /\ task'[p] = t
    BY <2>1, TaskLater
  <2> QED BY <2>2
<1> QED BY <1>1, <1>2 DEF Evidence, RowsKnown, TasksKnown

LEMMA IncludeKnown ==
    ASSUME ChainKnown, UNCHANGED <<handed, matched>>,
           NEW base \in [Exec -> Receipts \cup {None}],
           \A e \in Exec : base[e] \in {None, mined[e]},
           NEW n, NEW f, NEW txs \in SUBSET Exec, \A e \in txs : handed[e] > 0,
           NEW status \in [txs -> {0, 1}], Include(base, n, f, status)
    PROVE  \A e \in Exec :
              /\ included[e] \subseteq included'[e]
              /\ included'[e] # {} => handed'[e] > 0
              /\ mined'[e] # None => mined'[e] \in included'[e]
              /\ matched'[e] # None => Executed(e)'
<1> SUFFICES ASSUME NEW e \in Exec
             PROVE  /\ included[e] \subseteq included'[e]
                    /\ included'[e] # {} => handed'[e] > 0
                    /\ mined'[e] # None => mined'[e] \in included'[e]
                    /\ matched'[e] # None => Executed(e)'
  OBVIOUS
<1>1. DOMAIN status = txs
  OBVIOUS
<1>2. CASE e \in txs
  <2>1. PICK r : mined'[e] = r /\ included'[e] = included[e] \cup {r}
    BY <1>1, <1>2 DEF Include
  <2> QED BY <1>2, <2>1 DEF ChainKnown, Executed
<1>3. CASE e \notin txs
  <2>1. mined'[e] = base[e] /\ included'[e] = included[e]
    BY <1>1, <1>3 DEF Include
  <2> QED BY <2>1 DEF ChainKnown, Executed
<1> QED BY <1>2, <1>3

\* A reorganisation replaces blocks, but its branch is longer.
LEMMA ReorgGrows ==
    ASSUME ChainTypeOK, NEW k \in 1..Tip, Reorg(k) PROVE Tip' = Tip + 1
<1> DEFINE branch == [i \in 1..Tip - k + 2 |-> fork']
<1>1. Tip \in Nat /\ k \in Nat /\ fork' \in Nat /\ chain \in Seq(Nat) /\ Tip = Len(chain)
      /\ 1 <= k /\ k <= Tip
  BY DEF Tip, ChainTypeOK, Reorg
<1>2. branch \in Seq(Nat) /\ Len(branch) = Tip - k + 2
  BY <1>1
<1>3. SubSeq(chain, 1, k - 1) \in Seq(Nat) /\ Len(SubSeq(chain, 1, k - 1)) = k - 1
  BY <1>1
<1>4. chain' = SubSeq(chain, 1, k - 1) \o branch
  BY DEF Reorg
<1> HIDE DEF branch
<1>5. PICK a \in Seq(Nat), b \in Seq(Nat) : a = SubSeq(chain, 1, k - 1) /\ b = branch
  BY <1>2, <1>3
<1>6. Len(a \o b) = Len(a) + Len(b)
  OBVIOUS
<1>7. Len(chain') = (k - 1) + (Tip - k + 2)
  BY <1>2, <1>3, <1>4, <1>5, <1>6
<1> QED BY <1>1, <1>7 DEF Tip

LEMMA ChainGrowsKnown ==
    ASSUME Inv, Evidence, UNCHANGED handed,
           (\E txs \in SUBSET pool : MineBlock(txs)) \/ (\E k \in 1..Tip : Reorg(k))
    PROVE  Later /\ ChainKnown'
<1>0. /\ ChainTypeOK /\ ChainKnown /\ handed \in [Exec -> Nat] /\ Tip \in Nat
      /\ pool \subseteq Exec
  BY DEF Inv, TypeOK, OutboxTypeOK, Evidence, ChainTypeOK, Tip
<1>1. ASSUME \A e \in Exec :
                 /\ included[e] \subseteq included'[e]
                 /\ included'[e] # {} => handed'[e] > 0
                 /\ mined'[e] # None => mined'[e] \in included'[e]
                 /\ matched'[e] # None => Executed(e)',
             Tip' = Tip + 1, wire' = wire, \A e \in pool' : handed[e] > 0,
             fork <= fork', fork' = fork => \A n \in 1..Tip : chain'[n] = chain[n]
      PROVE  Later /\ ChainKnown'
  <2>1. Later
    BY <1>0, <1>1 DEF Later
  <2>2. ChainKnown'
    BY <1>0, <1>1 DEF ChainKnown
  <2> QED BY <2>1, <2>2
<1>2. ASSUME NEW txs \in SUBSET pool, MineBlock(txs) PROVE Later /\ ChainKnown'
  <2>1. PICK status \in [txs -> {0, 1}] : Include(mined, Tip + 1, fork, status)
    BY <1>2 DEF MineBlock
  <2>2. /\ mined \in [Exec -> Receipts \cup {None}] /\ txs \in SUBSET Exec
        /\ \A e \in pool : handed[e] > 0
    BY <1>0 DEF ChainTypeOK, ChainKnown
  <2>3. matched' = matched /\ wire' = wire /\ pool' \subseteq pool
    BY <1>2 DEF MineBlock, indexVars
  <2>4. /\ Tip' = Tip + 1 /\ fork' = fork /\ fork <= fork'
        /\ \A n \in 1..Tip : chain'[n] = chain[n]
    BY <1>0, <1>2 DEF MineBlock, Tip, ChainTypeOK
  <2>5. PICK n : n = Tip + 1
    OBVIOUS
  <2>6. Include(mined, n, fork, status)
    BY <2>1, <2>5
  <2>7. PICK base, f : base \in [Exec -> Receipts \cup {None}] /\ base = mined /\ f = fork
    BY <2>2
  <2>8. Include(base, n, f, status) /\ \A e \in Exec : base[e] \in {None, mined[e]}
    BY <2>6, <2>7
  <2>9. \A e \in txs : handed[e] > 0
    BY <2>2
  <2>10. \A e \in Exec :
              /\ included[e] \subseteq included'[e]
              /\ included'[e] # {} => handed'[e] > 0
              /\ mined'[e] # None => mined'[e] \in included'[e]
              /\ matched'[e] # None => Executed(e)'
    BY <1>0, <2>2, <2>3, <2>7, <2>8, <2>9, IncludeKnown
  <2> QED BY <1>1, <2>2, <2>3, <2>4, <2>10
<1>3. ASSUME NEW k \in 1..Tip, Reorg(k) PROVE Later /\ ChainKnown'
  <2> DEFINE gone == {e \in Exec : mined[e] # None /\ mined[e].n >= k}
             kept == [e \in Exec |-> IF e \in gone THEN None ELSE mined[e]]
  <2>1. PICK again \in SUBSET gone, back \in SUBSET gone :
           /\ pool' = pool \cup back
           /\ \E status \in [again -> {0, 1}] : Include(kept, k, fork', status)
    BY <1>3 DEF Reorg
  <2>2. PICK status \in [again -> {0, 1}] : Include(kept, k, fork', status)
    BY <2>1
  <2>3. /\ kept \in [Exec -> Receipts \cup {None}] /\ gone \in SUBSET Exec
        /\ \A e \in Exec : kept[e] \in {None, mined[e]}
    BY <1>0 DEF ChainTypeOK
  <2>4. \A e \in gone : handed[e] > 0
    BY <1>0, HandedKnown
  <2>5. matched' = matched /\ wire' = wire
    BY <1>3 DEF Reorg, indexVars
  <2>6. Tip' = Tip + 1 /\ fork <= fork' /\ fork' # fork
    <3>1. fork \in Nat /\ fork' = fork + 1
      BY <1>0, <1>3 DEF Reorg, ChainTypeOK
    <3> QED BY <1>0, <1>3, <3>1, ReorgGrows
  <2> HIDE DEF gone, kept
  <2>7. PICK base, f : base \in [Exec -> Receipts \cup {None}] /\ base = kept /\ f = fork'
    BY <2>3
  <2>8. Include(base, k, f, status) /\ \A e \in Exec : base[e] \in {None, mined[e]}
    BY <2>2, <2>3, <2>7
  <2>9. again \in SUBSET Exec /\ \A e \in again : handed[e] > 0
    BY <2>3, <2>4
  <2>10. \A e \in Exec :
              /\ included[e] \subseteq included'[e]
              /\ included'[e] # {} => handed'[e] > 0
              /\ mined'[e] # None => mined'[e] \in included'[e]
              /\ matched'[e] # None => Executed(e)'
    BY <1>0, <2>5, <2>7, <2>8, <2>9, IncludeKnown
  <2>11. \A e \in pool' : handed[e] > 0
    BY <1>0, <2>1, <2>4 DEF ChainKnown
  <2> QED BY <1>1, <2>5, <2>6, <2>10, <2>11
<1> QED BY <1>2, <1>3

LEMMA ElsewhereKnown ==
    ASSUME Inv, Evidence, UNCHANGED handed,
           \/ \E e \in Exec : Evict(e) \/ Arrive(e)
           \/ IndexBlock \/ IndexReorg \/ ClockTick
    PROVE  Later /\ ChainKnown'
<1>0. ChainKnown /\ \A e \in Exec : handed[e] \in Nat
  BY DEF Inv, TypeOK, OutboxTypeOK, Evidence
<1>1. included' = included /\ mined' = mined /\ chain' = chain /\ fork' = fork
  BY DEF Evict, Arrive, IndexBlock, IndexReorg, ClockTick, nodeVars
<1>2. Later
  <2>1. Tip \in Nat /\ fork \in Nat
    BY DEF Inv, TypeOK, ChainTypeOK, Tip
  <2> QED BY <1>0, <1>1, <2>1 DEF Later, Tip
<1>3. \A e \in Exec : e \in pool' \cup wire' => e \in pool \cup wire
  BY DEF Evict, Arrive, Admitted, IndexBlock, IndexReorg, ClockTick, nodeVars
<1>4. ASSUME NEW e \in Exec, NEW s, MatchedOver(s)[e] # None PROVE Executed(e)
  BY <1>4 DEF MatchedOver, Executed
<1>5. \A e \in Exec : matched'[e] # None => Executed(e)
  <2>1. CASE matched' = matched
    BY <1>0, <2>1 DEF ChainKnown
  <2>2. CASE IndexBlock \/ IndexReorg
    <3>1. PICK s : s = indexed'
      OBVIOUS
    <3>2. matched' = MatchedOver(s)
      BY <2>2, <3>1 DEF IndexBlock, IndexReorg
    <3> QED BY <1>4, <3>2
  <2> QED BY <2>1, <2>2 DEF Evict, Arrive, ClockTick, indexVars
<1>6. ChainKnown'
  BY <1>0, <1>1, <1>3, <1>5 DEF ChainKnown, Executed
<1> QED BY <1>2, <1>6

-----------------------------------------------------------------------------
(* The theorems.                                                           *)

LEMMA EvidenceInit == Init => Evidence
<1> SUFFICES ASSUME Init PROVE Evidence
  OBVIOUS
<1>1. RowsKnown
  BY DEF Init, RowsKnown, RowKnown
<1>2. TasksKnown
  BY IdleKnown DEF Init, TasksKnown
<1>3. ChainKnown
  BY DEF Init, ChainInit, ChainKnown
<1> QED BY <1>1, <1>2, <1>3 DEF Evidence

LEMMA EvidenceStep == Inv /\ Inv' /\ Evidence /\ [Next]_vars => Evidence'
<1> SUFFICES ASSUME Inv, Inv', Evidence, [Next]_vars PROVE Evidence'
  OBVIOUS
<1>1. ASSUME NEW p \in Proc, Quiet, Advances(p), UNCHANGED row PROVE Evidence'
  <2>1. RowsKnown'
    BY <1>1, RowsQuiet DEF Evidence
  <2> QED BY <1>1, <2>1, QuietStep
<1>2. ASSUME NEW p \in Proc, Quiet, Advances(p) /\ RowsKnown' PROVE Evidence'
  BY <1>2, QuietStep
<1>3. ASSUME NEW e \in Exec, OrchestratorAdvance(e) PROVE Evidence'
  <2>1. Quiet /\ UNCHANGED <<row, task>>
    BY <1>3 DEF OrchestratorAdvance, Quiet
  <2>2. Later /\ ChainKnown'
    BY <2>1, QuietIsLater, ChainQuiet DEF Quiet, Evidence
  <2> QED BY <2>1, <2>2, WorldStep
<1>4. ASSUME NEW e \in Exec, Tick(e) PROVE Evidence'
  <2>1. Advances(Worker) /\ Worker \in Proc
    BY <1>4, StartsAdvance, PipelineAssumption DEF Tick
  <2> QED BY <1>1, <1>4, <2>1 DEF Tick, TickList, Quiet
<1>5. ASSUME NEW p \in Requests, NEW e \in Exec, Request(p, e) PROVE Evidence'
  <2> p \in Proc
    BY DEF Requests
  <2>1. CASE AdminBroadcast(p, e)
    <3>1. Quiet
      BY <2>1 DEF AdminBroadcast, Quiet
    <3> QED BY <1>2, <2>1, <3>1, AdminBroadcastKnown
  <2>2. CASE ResendRead(p, e) \/ ManualRead(p, e)
    BY <1>1, <2>2, AdminReadsAdvance DEF ResendRead, ManualRead, Quiet
  <2>3. CASE /\ Recheck(p, e) \/ FinalizeRead(p, e) \/ RecoverRead(p, e)
             /\ UNCHANGED <<execPhase, handed>>
    BY <1>1, <2>3, StartsAdvance DEF Recheck, FinalizeRead, RecoverRead, Quiet
  <2> QED BY <1>5, <2>1, <2>2, <2>3 DEF Request
<1>6. ASSUME NEW p \in Proc, OutboxStep(p) PROVE Evidence'
  <2>1. CASE AdminBranch(p) \/ Firewall(p) \/ Probe(p)
    BY <1>1, <2>1, OutboxReadsAdvance DEF AdminBranch, Firewall, Probe, Quiet
  <2>2. CASE ReRead(p) \/ ResumeRead(p) \/ ResumeLookup(p)
    BY <1>1, <2>2, ReReadAdvances, ResumeReadAdvances, ResumeLookupAdvances
    DEF ReRead, ResumeRead, ResumeLookup, Quiet
  <2>3. CASE SetTxHash(p) \/ Claim(p) \/ ClassifySend(p) \/ ClassifyResend(p)
    <3>1. Quiet
      BY <2>3 DEF SetTxHash, Claim, ClassifySend, ClassifyResend, Quiet
    <3> QED BY <1>2, <2>3, <3>1, SetTxHashKnown, ClaimKnown, ClassifySendKnown,
               ClassifyResendKnown
  <2>4. CASE Send(p) \/ Resend(p)
    BY <2>4, HandOffKnown DEF Send, Resend
  <2> QED BY <1>6, <2>1, <2>2, <2>3, <2>4 DEF OutboxStep
<1>7. ASSUME NEW p \in Proc, WorkerStep(p) PROVE Evidence'
  <2>0. UNCHANGED handed
    BY <1>7 DEF WorkerStep
  <2>1. CASE TickRead(p) \/ TickReceipt(p) \/ TickPoll(p) \/ TickHeader(p)
    BY <1>1, <2>0, <2>1, TickReadAdvances, TickReceiptAdvances, TickPollAdvances,
       TickHeaderAdvances
    DEF TickRead, TickReceipt, TickPoll, TickHeader, Quiet
  <2>2. CASE FinalizeHeader(p) \/ FinalizeDepth(p) \/ CorrelateHead(p) \/ CorrelateMatch(p)
    BY <1>1, <2>0, <2>2, FinalizeAdvances
    DEF FinalizeHeader, FinalizeDepth, CorrelateHead, CorrelateMatch, Quiet
  <2>3. CASE RecoverReceipt(p) \/ RecoverHeader(p) \/ RecoverLookup(p) \/ RecoverNonce(p)
    BY <1>1, <2>0, <2>3, RecoverAdvances
    DEF RecoverReceipt, RecoverHeader, RecoverLookup, RecoverNonce, Quiet
  <2>4. CASE EscalateRead(p)
    BY <1>1, <2>0, <2>4, EscalateAdvances DEF EscalateRead, Quiet
  <2>5. CASE Write(p)
    <3>1. Quiet
      BY <2>0, <2>5 DEF Write, Quiet
    <3> QED BY <1>2, <2>5, <3>1, WriteKnown
  <2> QED BY <1>7, <2>1, <2>2, <2>3, <2>4, <2>5 DEF WorkerStep
<1>8. ASSUME NEW p \in Proc, Fault(p) PROVE Evidence'
  BY <1>1, <1>8, FinishAdvances DEF Fault, RpcError, Crash, Quiet
<1>9. CASE (\E e \in Exec : Leave(e)) \/ Advance
  <2>1. UNCHANGED <<row, task, handed>>
    BY <1>9 DEF Leave, Advance
  <2>2. Later /\ ChainKnown'
    BY <1>9, <2>1, ElsewhereKnown DEF Leave, Advance
  <2> QED BY <2>1, <2>2, WorldStep
<1>10. CASE ChainGrows
  <2>1. UNCHANGED <<row, task, handed>>
    BY <1>10 DEF ChainGrows
  <2>2. Later /\ ChainKnown'
    BY <1>10, <2>1, ChainGrowsKnown DEF ChainGrows
  <2> QED BY <2>1, <2>2, WorldStep
<1>11. CASE UNCHANGED vars
  <2>1. Quiet /\ UNCHANGED <<row, task>>
    BY <1>11 DEF vars, Quiet
  <2>2. Later /\ ChainKnown'
    BY <2>1, QuietIsLater, ChainQuiet DEF Quiet, Evidence
  <2> QED BY <2>1, <2>2, WorldStep
<1> QED
  BY <1>3, <1>4, <1>5, <1>6, <1>7, <1>8, <1>9, <1>10, <1>11 DEF Next

THEOREM EvidenceHolds == Spec => [](Inv /\ Evidence)
BY EvidenceInit, EvidenceStep, Invariance, PTL DEF Spec

\* A row is in a phase that speaks of the network only if submit or
\* resend_same_bytes handed its bytes over, whichever of tick, resume and
\* recover made the observation and however stale the row was they read.
THEOREM ObservedMeansHandedCorrect == Spec => []ObservedMeansHanded
<1>1. Evidence => ObservedMeansHanded
  BY DEF Evidence, RowsKnown, RowKnown, ObservedMeansHanded, PhaseOf, ObservedPhases
<1> QED BY <1>1, EvidenceHolds, PTL

\* submission_attempt_count never counts a hand-off twice, although the
\* resend adds one to the count of a row it read before it sent.
THEOREM AttemptsAreHandOffsCorrect == Spec => []AttemptsAreHandOffs
<1>1. Evidence => AttemptsAreHandOffs
  BY DEF Evidence, RowsKnown, RowKnown, AttemptsAreHandOffs
<1> QED BY <1>1, EvidenceHolds, PTL

\* The receipt columns name a block in which the chain once included the
\* transaction, however reorganisations fall between the receipt, header and
\* lookup calls of tick and recover.
THEOREM ReceiptNamesInclusionCorrect == Spec => []ReceiptNamesInclusion
<1>1. Evidence => ReceiptNamesInclusion
  BY DEF Evidence, RowsKnown, RowKnown, Named, ReceiptNamesInclusion
<1> QED BY <1>1, EvidenceHolds, PTL

\* The only update that takes a row to Confirmed is one that a finalising task
\* planned.
LEMMA ConfirmingWrite ==
    ASSUME Inv, [Next]_vars, NEW e \in Exec, Confirms(e)
    PROVE  \E p \in Proc : /\ task[p].pc = "write" /\ task[p].ex = e
                           /\ task[p].to = "Confirmed" /\ task'[p].pc = "idle"
<1>0. /\ row \in [Exec -> BroadcastStateRow \cup {None}] /\ task \in [Proc -> Task]
      /\ PhaseOf(e) # "Confirmed" /\ row'[e] # None /\ row'[e].phase = "Confirmed"
  BY DEF Inv, TypeOK, StoreTypeOK, TaskTypeOK, Confirms, PhaseOf
<1>1. ASSUME UNCHANGED row PROVE FALSE
  BY <1>0, <1>1 DEF PhaseOf
<1>2. ASSUME NEW d \in Exec, NEW from, NEW to, NEW patch,
             UpdateBroadcastPhase(d, from, to, patch)
      PROVE  d = e /\ to = "Confirmed"
  <2>1. UpdateApplies(d, from, to) /\ row' = [row EXCEPT ![d] = Patched(row[d], to, patch)]
    BY <1>1, <1>2 DEF UpdateBroadcastPhase
  <2>2. Patched(row[d], to, patch).phase = to
    BY DEF Patched
  <2> QED BY <1>0, <2>1, <2>2 DEF PhaseOf
<1>3. ASSUME NEW p \in Requests, NEW d \in Exec, Request(p, d) PROVE FALSE
  <2>1. CASE AdminBroadcast(p, d)
    BY <1>0, <2>1 DEF AdminBroadcast, InsertBroadcastState, PhaseOf, NewRow
  <2> QED BY <1>1, <1>3, <2>1
          DEF Request, ResendRead, ManualRead, Recheck, FinalizeRead, RecoverRead
<1>4. ASSUME NEW p \in Proc, OutboxStep(p) PROVE FALSE
  <2>1. CASE SetTxHash(p)
    <3>1. task[p].ex \in Exec /\ row[task[p].ex] \in BroadcastStateRow
      BY <2>1 DEF SetTxHash, Inv, TasksFit, Fit, TypeOK, StoreTypeOK
    <3>2. PICK r : r = [row[task[p].ex] EXCEPT !.tx = task[p].ex]
      OBVIOUS
    <3>3. r.phase = row[task[p].ex].phase /\ row[task[p].ex] # None
      BY <3>1, <3>2, NoneAssumption DEF BroadcastStateRow
    <3>4. row' \in {row, [row EXCEPT ![task[p].ex] = r]}
      BY <2>1, <3>2 DEF SetTxHash, SetBroadcastTxHash
    <3> QED BY <1>0, <3>1, <3>3, <3>4 DEF PhaseOf
  <2>2. CASE Claim(p)
    <3>1. task[p].ex \in Exec /\ task[p].to = "Broadcasting"
      BY <2>2 DEF Claim, Inv, TasksFit, Fit
    <3> QED BY <1>2, <2>2, <3>1 DEF Claim
  <2>3. CASE ClassifySend(p) \/ ClassifyResend(p)
    <3>1. task[p].ex \in Exec
      BY <2>3 DEF ClassifySend, ClassifyResend, Inv, TasksFit, Fit
    <3> QED BY <1>1, <1>2, <2>3, <3>1 DEF ClassifySend, ClassifyResend
  <2> QED BY <1>1, <1>4, <2>1, <2>2, <2>3
          DEF OutboxStep, AdminBranch, Firewall, Probe, ReRead, Send, Resend, HandOff,
              ResumeRead, ResumeLookup
<1>5. ASSUME NEW p \in Proc, WorkerStep(p)
      PROVE  /\ task[p].pc = "write" /\ task[p].ex = e
             /\ task[p].to = "Confirmed" /\ task'[p].pc = "idle"
  <2>1. CASE Write(p)
    <3>1. task[p].ex \in Exec /\ task[p].pc = "write" /\ task'[p] = IdleTask
      BY <1>0, <2>1 DEF Write, Finish, Inv, TasksFit, Fit
    <3>2. task[p].ex = e /\ task[p].to = "Confirmed"
      BY <1>2, <2>1, <3>1 DEF Write
    <3> QED BY <3>1, <3>2, IdleType
  <2> QED BY <1>1, <1>5, <2>1
          DEF WorkerStep, TickRead, TickReceipt, TickPoll, TickHeader, FinalizeHeader,
              FinalizeDepth, CorrelateHead, CorrelateMatch, RecoverReceipt, RecoverHeader,
              RecoverLookup, RecoverNonce, EscalateRead
<1> QED BY <1>1, <1>3, <1>4, <1>5
        DEF Next, vars, OrchestratorAdvance, Tick, TickList, Fault, RpcError, Crash, Leave,
            Advance, ChainGrows

\* maybe_finalize: the update that makes a row Confirmed is borne out by an
\* inclusion of the transaction, for every depth and number of tasks: that
\* inclusion lies deep enough, is canonical unless the chain forked after the
\* header check, and succeeded unless the row went through a reorganisation.
THEOREM ConfirmedWasBuriedCorrect == Spec => ConfirmedWasBuried
<1>1. ASSUME Inv, Evidence, [Next]_vars
      PROVE  [\A e \in Exec : Confirms(e) =>
                 /\ Executed(e)
                 /\ \E p \in Proc :
                       /\ task[p].pc = "write" /\ task[p].ex = e /\ task'[p].pc = "idle"
                       /\ \E r \in included[e] : BearsOut(r, task[p].basis)]_vars
  <2> SUFFICES ASSUME NEW e \in Exec, Confirms(e)
               PROVE  /\ Executed(e)
                      /\ \E p \in Proc :
                            /\ task[p].pc = "write" /\ task[p].ex = e
                            /\ task'[p].pc = "idle"
                            /\ \E r \in included[e] : BearsOut(r, task[p].basis)
    OBVIOUS
  <2>1. PICK p \in Proc : /\ task[p].pc = "write" /\ task[p].ex = e
                          /\ task[p].to = "Confirmed" /\ task'[p].pc = "idle"
    BY <1>1, ConfirmingWrite
  <2>2. Backed(e, task[p].basis)
    BY <1>1, <2>1 DEF Evidence, TasksKnown, TaskKnown, Planning
  <2> QED BY <2>1, <2>2 DEF Backed
<1> QED BY <1>1, EvidenceHolds, PTL DEF Spec, ConfirmedWasBuried
=============================================================================
