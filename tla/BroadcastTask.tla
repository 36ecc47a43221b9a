---------------------------- MODULE BroadcastTask ----------------------------
(***************************************************************************)
(* The asynchronous tasks (admin requests, worker ticks) that drive the    *)
(* broadcast rows, and the two steps that all of them share: the refresh   *)
(* of the live phase before an escalation and the compare-and-set update.  *)
(*                                                                         *)
(* A task runs without interruption from one await to the next: one await  *)
(* (a store call or an RPC call) with the local code that follows it is    *)
(* one action.  task[p].pc names the await p is about to make.             *)
(***************************************************************************)
EXTENDS BroadcastChain

CONSTANTS Proc,            \* tasks alive at the same time
          MaxPendingAge,   \* config max_pending_age_ms
          FaultyProvider   \* may the provider answer with a foreign hash?

ASSUME TaskAssumption ==
    /\ MaxPendingAge \in Nat
    /\ FaultyProvider \in BOOLEAN

VARIABLE task

PCs == {"idle",
        "branch", "firewall", "probe", "sethash", "reread", "claim", "send",
        "classify", "escalate", "write", "resume", "lookup", "resend",
        "reclassify",
        "tick", "receipt", "poll", "header", "fheader", "depth", "indexed",
        "matched", "rreceipt", "rheader", "rlookup", "rnonce"}

\* The awaits that are reads of the node; each may fail.
RpcReads == {"lookup", "receipt", "poll", "header", "fheader", "depth",
             "rreceipt", "rheader", "rlookup", "rnonce"}

\* The latest fork when maybe_finalize found its receipt canonical, and how
\* many reorganisations the row that it had read was through.
Basis == [fork : Nat, reorgs : Nat]
NoBasis == [fork |-> 0, reorgs |-> 0]

Task == [pc : PCs, ex : Exec \cup {None},
         snap : BroadcastStateRow \cup {None},  \* the row as the task read it
         ts : Nat,                              \* the task's now_ms
         seen : Receipts \cup {None},           \* the receipt it was given
         resp : SendResponses \cup {None},      \* the answer to its send
         posts : Nat,                           \* POSTs made by this send
         from : Phases \cup {None}, to : Phases \cup {None},
         patch : BroadcastStatePatch,           \* the update it is about to do
         basis : Basis]                         \* what it finalises on (history)

IdleTask == [pc |-> "idle", ex |-> None, snap |-> None, ts |-> 0,
             seen |-> None, resp |-> None, posts |-> 0,
             from |-> None, to |-> None, patch |-> NoPatch, basis |-> NoBasis]

TaskTypeOK == task \in [Proc -> Task]

Start(p, e, pc) ==
    /\ task[p].pc = "idle"
    /\ task' = [task EXCEPT ![p] = [IdleTask EXCEPT !.pc = pc, !.ex = e]]

Finish(p) == task' = [task EXCEPT ![p] = IdleTask]

Goto(p, pc) == task' = [task EXCEPT ![p].pc = pc]

FailPatch(fail) == [NoPatch EXCEPT !.fail = fail]

\* Go on to update_broadcast_phase(from -> to, patch).
PlanUpdate(p, e, pc, from, to, patch) ==
    task' = [task EXCEPT ![p] = [IdleTask EXCEPT
                !.pc = pc, !.ex = e, !.from = from, !.to = to, !.patch = patch,
                !.basis = task[p].basis]]

PlanWrite(p, pc, from, to, patch) ==
    PlanUpdate(p, task[p].ex, pc, from, to, patch)

\* Go on to the escalation to phase `to`, as if from phase `from`.
PlanEscalation(p, from, to, fail) ==
    PlanWrite(p, "escalate", from, to, FailPatch(fail))

\* saturating_sub: a clock that is behind the stamp gives age zero.
Age(r, ts) == IF r.lastSub = None \/ ts < r.lastSub THEN 0 ELSE ts - r.lastSub

-----------------------------------------------------------------------------
\* The escalation starts from the live phase whenever that phase has an edge
\* to the target, whatever phase the caller had in mind.
EscalateRead(p) ==
    LET t == task[p]
        live == IF row[t.ex] = None THEN t.from ELSE row[t.ex].phase
    IN  /\ t.pc = "escalate"
        /\ task' = [task EXCEPT ![p].pc = "write",
                       ![p].from = IF CanTransition(live, t.to) THEN live ELSE t.from]
        /\ UNCHANGED <<row, chainVars>>

\* The last store call of a task; an update that finds another phase is
\* reported to the caller and not retried.
Write(p) ==
    LET t == task[p]
    IN  /\ t.pc = "write"
        /\ UpdateBroadcastPhase(t.ex, t.from, t.to, t.patch)
        /\ Finish(p)
        /\ UNCHANGED chainVars

\* A read of the node fails: the task reports the error, the row is kept.
RpcError(p) ==
    /\ task[p].pc \in RpcReads
    /\ Finish(p)
    /\ UNCHANGED <<row, chainVars>>

\* The process restarts, or the client hangs up and the handler is dropped.
Crash(p) ==
    /\ task[p].pc # "idle"
    /\ Finish(p)
    /\ UNCHANGED <<row, chainVars>>
=============================================================================
