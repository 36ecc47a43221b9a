------------------------------ MODULE PerpBroadcast ------------------------------
(***************************************************************************)
(* The perp broadcast runtime of the first generation (execution/): the    *)
(* executor task that turns the armed intent into a signed envelope and    *)
(* sends it, the reconciler task that resolves envelopes afterwards, and   *)
(* the HTTP routes and the operator command that write the same tables.    *)
(* Every step between two awaits is an action.                             *)
(*                                                                         *)
(*   runtime   the process: down, starting (the initial reconciliation     *)
(*             runs alone), ready, or refused (routes only)                *)
(*   exec      execute_pending_batch and broadcast_intent                  *)
(*   recon     reconcile_unfinalized                                       *)
(*   call      one HTTP request under way: cosign, simulate or broadcast   *)
(*                                                                         *)
(* The gates before the nonce (chain id, engine state, deadline, drift)    *)
(* and the simulation read the chain only: their outcome is free.          *)
(* Signature checks, fee fields and metrics are left out.                  *)
(***************************************************************************)
EXTENDS PerpExecutorChain

CONSTANTS
    MaxCalls,   \* bound: HTTP requests and operator commands
    MaxStarts   \* bound: starts of the process

ASSUME CallBounds == MaxCalls \in Nat /\ MaxStarts \in Nat

VARIABLES
    runtime, armed, exec, recon, call,
    calls,      \* requests so far
    starts,     \* starts so far
    handed,     \* envelopes the runtime gave to the node
    sends       \* how often it gave one, per intent

taskVars == <<runtime, armed, exec, recon, call, calls, starts, handed, sends>>

vars == <<storeVars, chainVars, taskVars>>

IdleExec == [pc |-> "idle", nonce |-> 0, note |-> "none"]

IdleRecon == [pc |-> "idle", todo |-> <<>>, note |-> "none"]

IdleCall == [kind |-> "none", pc |-> "idle", intent |-> None, note |-> "none", nonce |-> 0]

Init ==
    /\ StoreInit /\ ChainInit
    /\ runtime = "down" /\ armed \in Intents
    /\ exec = IdleExec /\ recon = IdleRecon /\ call = IdleCall
    /\ calls = 0 /\ starts = 0 /\ handed = {} /\ sends = [i \in Intents |-> 0]

-----------------------------------------------------------------------------
(***************************************************************************)
(* execute_pending_batch: only the armed intent, once it has its           *)
(* signatures, is simulated and broadcast.                                 *)
(***************************************************************************)
ExecTo(pc) == exec' = [exec EXCEPT !.pc = pc, !.note = "none"]

ExecIdle == exec' = IdleExec

ExecList ==
    /\ runtime = "ready" /\ exec.pc = "idle"
    /\ status[armed] \in Broadcastable /\ armed \in cosigned
    /\ ExecTo(IF status[armed] = "SimulationOk" THEN "guard" ELSE "simulate")
    /\ UNCHANGED <<storeVars, chainVars, runtime, armed, starts, recon, call, calls, handed, sends>>

ExecSimulate ==
    /\ exec.pc = "simulate"
    /\ \/ SetStatus(armed, "SimulationOk") /\ ExecTo("guard")
       \/ SetStatus(armed, "SimulationFailed") /\ ExecIdle
    /\ UNCHANGED <<cosigned, row, operatorTx, chainVars, runtime, armed, starts, recon, call, calls, handed, sends>>

(***************************************************************************)
(* broadcast_intent.  The guard reads the durable row (only this task      *)
(* inserts one), the gates may refuse, the nonce is read, and the envelope *)
(* is stored before it is sent; the status write after it is               *)
(* unconditional.                                                          *)
(***************************************************************************)
ExecGuard ==
    /\ exec.pc = "guard"
    /\ \/ ExecIdle
       \/ row[armed] = None /\ exec' = [exec EXCEPT !.pc = "record", !.nonce = PendingNonce]
    /\ UNCHANGED <<storeVars, chainVars, runtime, armed, starts, recon, call, calls, handed, sends>>

(* Mutant: the envelope is sent without being stored first. *)
ExecSendUnrecorded ==
    /\ exec.pc = "record" /\ ExecTo("send")
    /\ UNCHANGED <<storeVars, chainVars, runtime, armed, starts, recon, call, calls, handed, sends>>

ExecRecord ==
    /\ exec.pc = "record"
    /\ IF NonceIsFree(armed, exec.nonce)
       THEN RecordPrepared(armed, exec.nonce) /\ ExecTo("prepare")
       ELSE ExecIdle /\ UNCHANGED row
    /\ UNCHANGED <<status, cosigned, operatorTx, chainVars, runtime, armed, starts, recon, call, calls, handed, sends>>

ExecPrepare ==
    /\ exec.pc = "prepare"
    /\ SetStatus(armed, "Prepared") /\ ExecTo("bump")
    /\ UNCHANGED <<cosigned, row, operatorTx, chainVars, runtime, armed, starts, recon, call, calls, handed, sends>>

ExecBump ==
    /\ exec.pc = "bump"
    /\ BumpSendAttempt(armed) /\ ExecTo("send")
    /\ UNCHANGED <<status, cosigned, operatorTx, chainVars, runtime, armed, starts, recon, call, calls, handed, sends>>

HandOver(tx, reply) ==
    /\ Send(tx, reply)
    /\ handed' = handed \cup {tx}
    /\ sends' = [sends EXCEPT ![tx.intent] = @ + 1]

ExecSend(reply) ==
    /\ exec.pc = "send"
    /\ HandOver([intent |-> armed, nonce |-> exec.nonce], reply)
    /\ exec' = [exec EXCEPT !.pc = "reply", !.note = reply]
    /\ UNCHANGED <<storeVars, runtime, armed, starts, recon, call, calls>>

(* classify_send_error *)
ExecReply ==
    /\ exec.pc = "reply"
    /\ \/ exec.note \in {"ok", "already known", "nonce too low"} /\ Mark(armed, "Submitted") /\ ExecTo("poll")
       \/ exec.note \in {"underpriced", "lost"} /\ ExecIdle /\ UNCHANGED <<row, status>>
       \/ exec.note = "rejected" /\ Mark(armed, "Failed") /\ ExecIdle
    /\ UNCHANGED <<cosigned, operatorTx, chainVars, runtime, armed, starts, recon, call, calls, handed, sends>>

(* poll_receipt: a receipt, or the budget runs out *)
ExecPoll ==
    /\ exec.pc = "poll"
    /\ LET found == Receipt([intent |-> armed, nonce |-> exec.nonce])
       IN  \/ \E r \in found : exec' = [exec EXCEPT !.pc = "finalize", !.note = r.result]
           \/ found = {} /\ ExecIdle
    /\ UNCHANGED <<storeVars, chainVars, runtime, armed, starts, recon, call, calls, handed, sends>>

(* Mutant: receipt.status = 1 is taken for success. *)
Unverified(result) == IF result = "reverted" THEN "Failed" ELSE "Confirmed"

(***************************************************************************)
(* finalize_receipt with verify_pme_event: success needs the event of the  *)
(* intent, not only receipt.status = 1.                                    *)
(***************************************************************************)
Verified(result) == IF result = "settled" THEN "Confirmed" ELSE "Failed"

Finalize(i, result) == Mark(i, Verified(result))

ExecFinalize ==
    /\ exec.pc = "finalize"
    /\ Finalize(armed, exec.note) /\ ExecIdle
    /\ UNCHANGED <<cosigned, operatorTx, chainVars, runtime, armed, starts, recon, call, calls, handed, sends>>

(* A failed RPC or database call ends the tick; the loop goes on *)
ExecError ==
    /\ exec.pc # "idle" /\ Fault
    /\ ExecIdle
    /\ UNCHANGED <<storeVars, mined, mempool, receipts, runtime, armed, starts, recon, call, calls, handed, sends>>

-----------------------------------------------------------------------------
(***************************************************************************)
(* reconcile_unfinalized, at startup and then in a loop: per row, the      *)
(* receipt first; without one, a row read as Prepared is sent again, the   *)
(* same bytes, while attempts are left.  Replies are ignored.  The row and *)
(* its receipt are read in one step: the row matters only when there is no *)
(* receipt, and then there was none when the row was read.                 *)
(***************************************************************************)
ReconList ==
    /\ runtime \in {"starting", "ready"} /\ recon.pc = "idle"
    /\ LET todo == ListUnfinalized
       IN  IF todo = <<>>
           THEN runtime' = "ready" /\ UNCHANGED recon
           ELSE recon' = [recon EXCEPT !.pc = "row", !.todo = todo] /\ UNCHANGED runtime
    /\ UNCHANGED <<storeVars, chainVars, armed, starts, exec, call, calls, handed, sends>>

NextRow ==
    IF Len(recon.todo) = 1
    THEN recon' = IdleRecon /\ runtime' = "ready"
    ELSE recon' = [IdleRecon EXCEPT !.pc = "row", !.todo = Tail(recon.todo)] /\ UNCHANGED runtime

(* Mutant: the attempts are not compared with the limit. *)
ResendRegardless(i) == row[i].status = "Prepared"

MayResend(i) == row[i].status = "Prepared" /\ row[i].attempts < MaxAttempts

ReconRow ==
    /\ recon.pc = "row"
    /\ LET i == Head(recon.todo)
           found == Receipt(Envelope(i))
       IN  \/ \E r \in found : recon' = [recon EXCEPT !.pc = "finalize", !.note = r.result] /\ UNCHANGED runtime
           \/ found = {} /\ MayResend(i) /\ recon' = [recon EXCEPT !.pc = "bump"] /\ UNCHANGED runtime
           \/ found = {} /\ ~MayResend(i) /\ NextRow
    /\ UNCHANGED <<storeVars, chainVars, armed, starts, exec, call, calls, handed, sends>>

ReconBump ==
    /\ recon.pc = "bump"
    /\ BumpSendAttempt(Head(recon.todo))
    /\ recon' = [recon EXCEPT !.pc = "send"]
    /\ UNCHANGED <<status, cosigned, operatorTx, chainVars, runtime, armed, starts, exec, call, calls, handed, sends>>

ReconSend(reply) ==
    /\ recon.pc = "send"
    /\ HandOver(Envelope(Head(recon.todo)), reply)
    /\ NextRow
    /\ UNCHANGED <<storeVars, armed, starts, exec, call, calls>>

ReconFinalize ==
    /\ recon.pc = "finalize"
    /\ Finalize(Head(recon.todo), recon.note)
    /\ NextRow
    /\ UNCHANGED <<cosigned, operatorTx, chainVars, armed, starts, exec, call, calls, handed, sends>>

(* An error ends the pass; at startup it refuses the runtime *)
ReconError ==
    /\ recon.pc # "idle" /\ Fault
    /\ recon' = IdleRecon
    /\ runtime' = IF runtime = "starting" THEN "refused" ELSE runtime
    /\ UNCHANGED <<storeVars, mined, mempool, receipts, armed, starts, exec, call, calls, handed, sends>>

-----------------------------------------------------------------------------
(***************************************************************************)
(* The process.  wire_broadcast_runtime: preflight, initial                *)
(* reconciliation, then the loops; the armed intent is configuration.      *)
(***************************************************************************)
Start(i) ==
    /\ runtime = "down" /\ starts < MaxStarts
    /\ runtime' = "starting" /\ armed' = i /\ starts' = starts + 1
    /\ UNCHANGED <<storeVars, chainVars, exec, recon, call, calls, handed, sends>>

PreflightFails ==
    /\ runtime = "starting" /\ recon.pc = "idle" /\ Fault
    /\ runtime' = "refused"
    /\ UNCHANGED <<storeVars, mined, mempool, receipts, armed, starts, exec, recon, call, calls, handed, sends>>

Crash ==
    /\ runtime # "down"
    /\ runtime' = "down" /\ exec' = IdleExec /\ recon' = IdleRecon /\ call' = IdleCall
    /\ UNCHANGED <<storeVars, chainVars, armed, starts, calls, handed, sends>>

-----------------------------------------------------------------------------
(***************************************************************************)
(* HTTP routes.  Each reads the intent and writes its status later,        *)
(* whatever it has become in between.                                      *)
(***************************************************************************)
Request(kind, pc, i) ==
    /\ runtime # "down" /\ call.pc = "idle" /\ calls < MaxCalls
    /\ calls' = calls + 1
    /\ call' = [kind |-> kind, pc |-> pc, intent |-> i, note |-> status[i], nonce |-> 0]

(* perps_closed_test_cosign_trade *)
Cosign(i) ==
    /\ Request("cosign", "sign", i)
    /\ status[i] \in {"Pending", "CalldataReady"}
    /\ UNCHANGED <<storeVars, chainVars, runtime, armed, starts, exec, recon, handed, sends>>

CosignStore ==
    /\ call.pc = "sign"
    /\ cosigned' = cosigned \cup {call.intent}
    /\ call' = IF call.note = "Pending" THEN [call EXCEPT !.pc = "calldata"] ELSE IdleCall
    /\ UNCHANGED <<status, row, operatorTx, chainVars, runtime, armed, starts, exec, recon, calls, handed, sends>>

CosignReady ==
    /\ call.pc = "calldata"
    /\ SetStatus(call.intent, "CalldataReady") /\ call' = IdleCall
    /\ UNCHANGED <<cosigned, row, operatorTx, chainVars, runtime, armed, starts, exec, recon, calls, handed, sends>>

(* simulate_executor_intent: no status is refused *)
Simulate(i) ==
    /\ Request("simulate", "simulated", i)
    /\ i \in cosigned
    /\ UNCHANGED <<storeVars, chainVars, runtime, armed, starts, exec, recon, handed, sends>>

SimulatePersist(result) ==
    /\ call.pc = "simulated" /\ result \in {"SimulationOk", "SimulationFailed"}
    /\ SetStatus(call.intent, result) /\ call' = IdleCall
    /\ UNCHANGED <<cosigned, row, operatorTx, chainVars, runtime, armed, starts, exec, recon, calls, handed, sends>>

(***************************************************************************)
(* broadcast_executor_intent: the operator's own send, guarded by          *)
(* execution_transactions and not by the runtime's durable row.            *)
(***************************************************************************)
Broadcast(i) ==
    /\ Request("broadcast", "nonce", i)
    /\ i \notin operatorTx /\ i \in cosigned /\ status[i] = "SimulationOk"
    /\ UNCHANGED <<storeVars, chainVars, runtime, armed, starts, exec, recon, handed, sends>>

BroadcastNonce ==
    /\ call.pc = "nonce"
    /\ call' = [call EXCEPT !.pc = "send", !.nonce = PendingNonce]
    /\ UNCHANGED <<storeVars, chainVars, runtime, armed, starts, exec, recon, calls, handed, sends>>

BroadcastSend(reply) ==
    /\ call.pc = "send"
    /\ Send([intent |-> call.intent, nonce |-> call.nonce], reply)
    /\ call' = IF reply = "ok" THEN [call EXCEPT !.pc = "insert"] ELSE IdleCall
    /\ UNCHANGED <<storeVars, runtime, armed, starts, exec, recon, calls, handed, sends>>

BroadcastInsert ==
    /\ call.pc = "insert"
    /\ operatorTx' = operatorTx \cup {call.intent}
    /\ call' = [call EXCEPT !.pc = "submitted"]
    /\ UNCHANGED <<status, cosigned, row, chainVars, runtime, armed, starts, exec, recon, calls, handed, sends>>

BroadcastSubmitted ==
    /\ call.pc = "submitted"
    /\ SetStatus(call.intent, "Submitted") /\ call' = IdleCall
    /\ UNCHANGED <<cosigned, row, operatorTx, chainVars, runtime, armed, starts, exec, recon, calls, handed, sends>>

(* bin/retire_execution_intent.rs: a process of its own, one transaction *)
Retire(i) ==
    /\ calls < MaxCalls /\ calls' = calls + 1
    /\ status[i] \in RetireEligible
    /\ SetStatus(i, "Abandoned")
    /\ UNCHANGED <<cosigned, row, operatorTx, chainVars, runtime, armed, starts, exec, recon, call, handed, sends>>

-----------------------------------------------------------------------------
Node ==
    /\ (\E tx \in mempool : Evict(tx) \/ \E result \in Results : Mine(tx, result)) \/ Fork
    /\ UNCHANGED <<storeVars, taskVars>>

Executor ==
    \/ ExecList \/ ExecSimulate \/ ExecGuard \/ ExecRecord \/ ExecPrepare
    \/ ExecBump \/ (\E reply \in Replies : ExecSend(reply)) \/ ExecReply \/ ExecPoll \/ ExecFinalize

Reconciler ==
    \/ ReconList \/ ReconRow \/ ReconBump
    \/ (\E reply \in Replies : ReconSend(reply)) \/ ReconFinalize

Routes ==
    \/ \E i \in Intents : Cosign(i) \/ Simulate(i) \/ Broadcast(i) \/ Retire(i)
    \/ \E result \in {"SimulationOk", "SimulationFailed"} : SimulatePersist(result)
    \/ CosignStore \/ CosignReady
    \/ BroadcastNonce \/ (\E reply \in Replies : BroadcastSend(reply)) \/ BroadcastInsert \/ BroadcastSubmitted

Next ==
    \/ Executor \/ Reconciler \/ Routes \/ Node
    \/ ExecError \/ ReconError \/ PreflightFails \/ Crash
    \/ \E i \in Intents : Start(i)

Spec == Init /\ [][Next]_vars

(***************************************************************************)
(* The reconciler loop is spawned and never ends while the process lives.  *)
(* Its sends fail only by a Fault, of which there are finitely many.       *)
(***************************************************************************)
FairSpec == Spec /\ WF_vars(Reconciler)

-----------------------------------------------------------------------------
ExecPcs == {"idle", "simulate", "guard", "record", "prepare", "bump", "send", "reply", "poll", "finalize"}

ReconPcs == {"idle", "row", "bump", "send", "finalize"}

CallPcs == {"idle", "sign", "calldata", "simulated", "nonce", "send", "insert", "submitted"}

TypeOK ==
    /\ status \in [Intents -> Statuses] /\ cosigned \subseteq Intents /\ operatorTx \subseteq Intents
    /\ row \in [Intents -> Rows \cup {None}]
    /\ mined \in Seq([tx : Tx, result : Results]) /\ receipts \subseteq [tx : Tx, result : Results]
    /\ mempool \subseteq Tx /\ IsFiniteSet(mempool) /\ handed \subseteq Tx /\ faults \in 0 .. MaxFaults
    /\ runtime \in {"down", "starting", "ready", "refused"} /\ armed \in Intents
    /\ exec \in [pc : ExecPcs, nonce : Nat, note : Replies \cup Results \cup {"none"}]
    /\ recon \in [pc : ReconPcs, todo : Seq(Intents), note : Results \cup {"none"}]
    /\ recon.pc = "idle" <=> recon.todo = <<>>
    /\ call \in [kind : {"none", "cosign", "simulate", "broadcast"}, pc : CallPcs,
                 intent : Intents \cup {None}, note : Statuses \cup {"none"}, nonce : Nat]
    /\ call.pc # "idle" => call.intent \in Intents
    /\ calls \in 0 .. MaxCalls /\ starts \in 0 .. MaxStarts
    /\ sends \in [Intents -> Nat]

(* Crash safety of the envelope: whatever the runtime has ever handed to the *)
(* node is the one envelope stored for its intent, so that after a crash, a  *)
(* lost reply or a re-arming no second transaction is built for the intent   *)
(* (broadcast_intent's "Persist the raw envelope BEFORE send").              *)
HandedIsRecorded ==
    \A tx \in handed : row[tx.intent] # None /\ Envelope(tx.intent) = tx

(* Two intents of the runtime never compete for one nonce, although the      *)
(* pending nonce is read before the row is stored and an envelope the node   *)
(* lost leaves it unchanged (record_prepared_transaction's unique key).      *)
NoRivalEnvelopes ==
    \A t, u \in handed : t.nonce = u.nonce => t = u

(* Bounded retry: the counter is written before every hand-over, so it is    *)
(* never behind the sends, and the executor's own send racing a pass that    *)
(* read the row earlier exceeds rebroadcast_max_attempts by one at most.     *)
RetryIsBounded ==
    \A i \in Recorded : sends[i] <= row[i].attempts /\ row[i].attempts <= MaxAttempts + 1

(* A Confirmed row's own envelope was seen mined with the settlement event   *)
(* of its intent, whoever finalised it (finalize_receipt).                   *)
ConfirmedWasSettled ==
    \A i \in Recorded :
        row[i].status = "Confirmed" => [tx |-> Envelope(i), result |-> "settled"] \in receipts

(* A broadcast row never leaves Confirmed or Failed, never goes back to      *)
(* Prepared and never changes its envelope, with the executor and the        *)
(* reconciler marking it from stale reads (mark_intent_*'s WHERE clause).    *)
RowsNeverRegress ==
    [][\A i \in Recorded :
        /\ row'[i] # None /\ row'[i].nonce = row[i].nonce /\ row'[i].attempts >= row[i].attempts
        /\ row[i].status \in {"Confirmed", "Failed"} => row'[i].status = row[i].status
        /\ row[i].status = "Submitted" => row'[i].status # "Prepared"]_vars

IsMined(i) == i \in Recorded /\ Receipt(Envelope(i)) # {}

IsFinalized(i) == i \in Recorded /\ row[i].status \notin Unfinalized

(* The rows that stand before i in list_unfinalized_broadcasts and that no   *)
(* pass can finalise                                                         *)
Ahead(i) == {j \in Recorded : row[j].order < row[i].order /\ ~IsFinalized(j) /\ ~IsMined(j)}

(* If the process stays ready and the mined envelope of a row stays mined,   *)
(* the row is finalised although a pass looks at the oldest BatchSize rows   *)
(* only, unless as many rows before it stay without a receipt: no row is     *)
(* lost between executor, reconciler and crashes, and those before it that   *)
(* can be finalised make room (reconcile_unfinalized's receipt-first loop).  *)
MinedIsFinalized ==
    \A i \in Intents :
        <>[](runtime = "ready" /\ IsMined(i) /\ Cardinality(Ahead(i)) < BatchSize)
            => <>IsFinalized(i)

(* "For each intent whose durable broadcast has not yet converged", "repeated *)
(* invocations converge" (broadcast_policy.rs:748): no exception.            *)
EveryMinedIsFinalized ==
    \A i \in Intents : <>[](runtime = "ready" /\ IsMined(i)) => <>IsFinalized(i)

(* What the operator command and ExecutionIntentStatus document of a retired *)
(* intent: it is terminal and never broadcast (db/repository.rs:1402).       *)
AbandonedIsTerminal ==
    [][\A i \in Intents : status[i] = "Abandoned" => status'[i] = "Abandoned"]_vars
================================================================================
