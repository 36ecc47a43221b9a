------------------------ MODULE ExecutionOrchestrator ------------------------
(***************************************************************************)
(* The step engine that takes an execution request from Discovered to      *)
(* BroadcastDisabled: prepare, resume and the operator's cancel.           *)
(*                                                                         *)
(* A drive is one call of prepare or resume.  One await (a store call or a *)
(* call of the RPC node or of the signer) with the local code after it is  *)
(* one action; drive[d].pc names the await that comes next.  drive[d].at   *)
(* is the phase the call believes its row to be in.                        *)
(*                                                                         *)
(* A reload of the row that follows an update is one step with the await   *)
(* after it.  Only two things can happen to the row in between: nothing,   *)
(* or a cancellation, which the next compare-and-set (or the final load)   *)
(* meets all the same and which ends the call in both cases.               *)
(*                                                                         *)
(* The answers of the node, of the policies and of the signer are chosen   *)
(* freely: what matters is what the engine does with each of them.         *)
(***************************************************************************)
EXTENDS Sequences, ExecutionStore

CONSTANTS Drives,       \* calls in progress at the same time
          Events,       \* which of the optional events can happen: a call
                        \* can end at an await ("hangup"), an operation on
                        \* the projection can ("crash"), ...
          MaxAttempts,  \* attempts to insert a nonce reservation
          MaxOnchain,   \* bound on the transaction count the node reports
          MaxNow        \* bound on the clock

ASSUME OrchestratorAssumption ==
    /\ MaxAttempts \in Nat \ {0} /\ MaxOnchain \in Nat /\ MaxNow \in Nat
    /\ Events \subseteq {"resume", "cancel", "hangup", "crash", "dberror",
                   "same_ms"}

VARIABLES drive,  \* drive[d]: the call d, or None
          now,    \* wall clock in ms; always above the small epoch counters
          asked   \* asked[e]: the nonces the signer was asked to sign for e

storeVars == <<req, nonces, lock, reorg, rebuilds>>

\* The awaits before the lock is held, and those after.
Outside == {"seed", "load", "cleanup", "insert"}
Inside == {"enter", "step", "reserve", "simulating", "simulate", "gas",
           "firewall", "sign", "verified", "fail", "failsigning", "release"}

Drive == [ex : Exec, intent : BOOLEAN, pc : Outside \cup Inside,
          epoch : Nat, at : Phases \cup {None}, nonce : Nat, tries : Nat]

Goto(d, pc) == drive' = [drive EXCEPT ![d].pc = pc]
End(d) == drive' = [drive EXCEPT ![d] = None]
At(d, pc) == drive[d] # None /\ drive[d].pc = pc

\* transition(): a lost update is an error that ends the call.
Transition(d, to, patch, pc) ==
    LET t == drive[d] IN
    /\ UpdateExecutionPhase(t.ex, t.at, to, patch)
    /\ drive' = [drive EXCEPT ![d] =
                    IF UpdateApplies(t.ex, t.at, to)
                    THEN [t EXCEPT !.pc = pc, !.at = to]
                    ELSE [t EXCEPT !.pc = "release"]]

\* No step of the pipeline is taken from the phase the row is in.
NoStep == {"Simulating", "SimulationSucceeded", "SimulationFailed", "Signing"}
-----------------------------------------------------------------------------
Call(d, e, intent) ==
    /\ drive[d] = None
    /\ intent \/ "resume" \in Events
    /\ drive' = [drive EXCEPT ![d] =
                    [ex |-> e, intent |-> intent, epoch |-> 0, at |-> None,
                     pc |-> IF intent THEN "seed" ELSE "load",
                     nonce |-> 0, tries |-> 0]]
    /\ UNCHANGED <<storeVars, now, asked>>

UpsertSeedRow(d) ==
    /\ At(d, "seed")
    /\ InsertExecutionRequest(drive[d].ex)
    /\ Goto(d, "load")
    /\ UNCHANGED <<nonces, lock, reorg, rebuilds, now, asked>>

\* A row that is absent is an error, a terminal one the result.
Load(d) ==
    LET r == req[drive[d].ex] IN
    /\ At(d, "load")
    /\ IF r = None \/ IsTerminal(r.phase) THEN End(d) ELSE Goto(d, "cleanup")
    /\ UNCHANGED <<storeVars, now, asked>>

\* holder_epoch is the wall clock: two calls that read it in the same
\* millisecond, which is the event "same_ms", have the same epoch.
ClockMoves == now' \in {now + 1} \cup IF "same_ms" \in Events THEN {now} ELSE {}

Cleanup(d) ==
    /\ At(d, "cleanup")
    /\ now < MaxNow
    /\ drive' = [drive EXCEPT ![d].epoch = now, ![d].pc = "insert"]
    /\ ClockMoves
    /\ CleanupLock
    /\ UNCHANGED <<req, nonces, reorg, rebuilds, asked>>

\* Contention is reported to the caller.
Acquire(d) ==
    /\ At(d, "insert")
    /\ InsertLock("EXECUTION", drive[d].epoch)
    /\ IF lock = None THEN Goto(d, "enter") ELSE End(d)
    /\ UNCHANGED <<req, nonces, reorg, rebuilds, now, asked>>

Enter(d) ==
    LET r == req[drive[d].ex] IN
    /\ At(d, "enter")
    /\ drive' = [drive EXCEPT ![d].at = r.phase,
                    ![d].pc = IF IsTerminal(r.phase) \/ r.phase \in NoStep
                              THEN "release" ELSE "step"]
    /\ UNCHANGED <<storeVars, now, asked>>

-----------------------------------------------------------------------------
\* The lock's epoch is written to the row on this edge only.
Discover(d) ==
    /\ At(d, "step") /\ drive[d].at = "Discovered"
    /\ Transition(d, "Validating", [NoPatch EXCEPT !.epoch = drive[d].epoch],
                  "step")
    /\ UNCHANGED <<nonces, lock, reorg, rebuilds, now, asked>>

Preflight(d) ==
    /\ At(d, "step") /\ drive[d].at = "Validating" /\ drive[d].intent
    /\ \/ Transition(d, "ReadyToSimulate", NoPatch, "step")
       \/ \E to \in {"Cancelled", "Failed"} :
             Transition(d, to, NoPatch, "release")
    /\ UNCHANGED <<nonces, lock, reorg, rebuilds, now, asked>>

\* resume cannot rebuild the plan; the row is left as it is.
MissingIntent(d) ==
    /\ At(d, "step") /\ ~drive[d].intent
    /\ drive[d].at \in {"Validating", "ReadyToSimulate", "AwaitingSignature"}
    /\ Goto(d, "release")
    /\ UNCHANGED <<storeVars, now, asked>>

\* The plan is built, the row reloaded and, unless the row carries a nonce,
\* the transaction count and the reserved nonces are read.
PlanAndCount(d) ==
    LET t == drive[d] IN
    /\ At(d, "step") /\ t.at = "ReadyToSimulate" /\ t.intent
    /\ \/ Goto(d, "fail")   \* no plan, or the node does not answer
       \/ /\ req[t.ex].phase # t.at
          /\ Goto(d, "release")
       \/ /\ req[t.ex].phase = t.at /\ req[t.ex].nonce # None
          /\ drive' = [drive EXCEPT ![d].nonce = req[t.ex].nonce,
                                    ![d].pc = "simulating"]
       \/ /\ req[t.ex].phase = t.at /\ req[t.ex].nonce = None
          /\ \E count \in 0 .. MaxOnchain :
                drive' = [drive EXCEPT
                    ![d].nonce = IF count > NextReserved THEN count
                                 ELSE NextReserved,
                    ![d].tries = 0, ![d].pc = "reserve"]
    /\ UNCHANGED <<storeVars, now, asked>>

ReserveNonce(d) ==
    LET t == drive[d] IN
    /\ At(d, "reserve")
    /\ t.nonce \in Nonces
    /\ ReserveExecutorNonce(t.nonce, t.ex)
    /\ drive' = [drive EXCEPT ![d] =
                    IF NonceFree(t.nonce)
                    THEN [t EXCEPT !.pc = "simulating"]
                    ELSE [t EXCEPT !.nonce = @ + 1, !.tries = @ + 1,
                            !.pc = IF t.tries + 1 = MaxAttempts
                                   THEN "fail" ELSE "reserve"]]
    /\ UNCHANGED <<req, lock, reorg, rebuilds, now, asked>>

PersistPlan(d) ==
    /\ At(d, "simulating")
    /\ Transition(d, "Simulating", [NoPatch EXCEPT !.nonce = drive[d].nonce],
                  "simulate")
    /\ UNCHANGED <<nonces, lock, reorg, rebuilds, now, asked>>

\* The simulator with its transport retries.
Simulate(d) ==
    /\ At(d, "simulate")
    /\ \/ Transition(d, "SimulationSucceeded", [NoPatch EXCEPT !.sim = "ok"], "gas")
       \/ Transition(d, "SimulationFailed", [NoPatch EXCEPT !.sim = "reverted"], "fail")
       \/ Goto(d, "fail") /\ UNCHANGED req
    /\ UNCHANGED <<nonces, lock, reorg, rebuilds, now, asked>>

\* Mutant: the payload commits to the next free nonce, not the reserved one.
PriceGasUnreserved(d) ==
    /\ At(d, "gas")
    /\ Transition(d, "AwaitingSignature",
                  [NoPatch EXCEPT !.payload = NextReserved], "step")
    /\ UNCHANGED <<nonces, lock, reorg, rebuilds, now, asked>>

\* Fee history, gas policy, signing payload.
PriceGas(d) ==
    /\ At(d, "gas")
    /\ \/ Transition(d, "AwaitingSignature",
                     [NoPatch EXCEPT !.payload = drive[d].nonce], "step")
       \/ Goto(d, "fail") /\ UNCHANGED req
    /\ UNCHANGED <<nonces, lock, reorg, rebuilds, now, asked>>

-----------------------------------------------------------------------------
\* Mutant: the signer is asked first and the phase advanced afterwards.
BeginSigningLate(d) ==
    /\ At(d, "step") /\ drive[d].at = "AwaitingSignature" /\ drive[d].intent
    /\ drive' = [drive EXCEPT ![d].pc = "sign"]
    /\ UNCHANGED <<storeVars, now, asked>>

BeginSigning(d) ==
    LET t == drive[d] IN
    /\ At(d, "step") /\ t.at = "AwaitingSignature" /\ t.intent
    /\ IF req[t.ex].nonce = None THEN Goto(d, "release") /\ UNCHANGED req
       ELSE Transition(d, "Signing", NoPatch, "firewall")
    /\ UNCHANGED <<nonces, lock, reorg, rebuilds, now, asked>>

\* What the signer firewall insists on; it may refuse for other reasons
\* (policy, age of the simulation) too.
FirewallAdmits(r) ==
    /\ r.nonce # None /\ r.payload # None /\ r.sim = "ok"
    /\ ~IsTerminal(r.phase) /\ r.sig = None

Firewall(d) ==
    /\ At(d, "firewall")
    /\ \/ FirewallAdmits(req[drive[d].ex]) /\ Goto(d, "sign")
       \/ Goto(d, "failsigning")
    /\ UNCHANGED <<storeVars, now, asked>>

\* A signer that fails may have signed: only the answer is lost.
Sign(d) ==
    LET t == drive[d] IN
    /\ At(d, "sign")
    /\ \/ /\ asked' = [asked EXCEPT ![t.ex] = Append(@, req[t.ex].nonce)]
          /\ \/ Goto(d, "verified") \/ Goto(d, "failsigning")
       \/ Goto(d, "failsigning") /\ UNCHANGED asked
    /\ UNCHANGED <<storeVars, now>>

PersistSignature(d) ==
    /\ At(d, "verified")
    /\ Transition(d, "SignatureVerified",
                  [NoPatch EXCEPT !.sig = req[drive[d].ex].payload], "step")
    /\ UNCHANGED <<nonces, lock, reorg, rebuilds, now, asked>>

DisableBroadcast(d) ==
    /\ At(d, "step")
    /\ \/ /\ drive[d].at = "SignatureVerified"
          /\ Transition(d, "ReadyForBroadcast", NoPatch, "step")
       \/ /\ drive[d].at = "ReadyForBroadcast"
          /\ Transition(d, "BroadcastDisabled", NoPatch, "release")
    /\ UNCHANGED <<nonces, lock, reorg, rebuilds, now, asked>>

-----------------------------------------------------------------------------
\* fail_from walks to Failed along legal edges, one update per edge.
FailEdge(p) ==
    CASE p = "ReadyToSimulate" -> "Simulating"
      [] p = "SimulationSucceeded" -> "AwaitingSignature"
      [] p = "AwaitingSignature" -> "Signing"
      [] OTHER -> "Failed"

FailFrom(d) ==
    LET to == FailEdge(drive[d].at) IN
    /\ At(d, "fail")
    /\ Transition(d, to, NoPatch, IF to = "Failed" THEN "release" ELSE "fail")
    /\ UNCHANGED <<nonces, lock, reorg, rebuilds, now, asked>>

FailFromSigning(d) ==
    /\ At(d, "failsigning")
    /\ Transition(d, "Failed", NoPatch, "release")
    /\ UNCHANGED <<nonces, lock, reorg, rebuilds, now, asked>>

Release(d) ==
    /\ At(d, "release")
    /\ ReleaseOperationLock(drive[d].epoch)
    /\ End(d)
    /\ UNCHANGED <<req, nonces, reorg, rebuilds, now, asked>>

\* A store call fails.  Inside the lock the call still tries the release; a
\* failed release is ignored.  The nonce reserver reports the failure, which
\* fails the execution.  The signer is not a store.
StoreError(d) ==
    /\ "dberror" \in Events /\ drive[d] # None /\ drive[d].pc # "sign"
    /\ CASE drive[d].pc = "reserve" -> Goto(d, "fail")
         [] drive[d].pc \in Inside \ {"reserve", "release"} -> Goto(d, "release")
         [] OTHER -> End(d)
    /\ UNCHANGED <<storeVars, now, asked>>

\* The process stops, or the client hangs up and its handler is dropped: the
\* lock is an ordinary row and stays.
Abandon(d) ==
    /\ "hangup" \in Events /\ drive[d] # None
    /\ End(d)
    /\ UNCHANGED <<storeVars, now, asked>>

\* The admin route: no lock; the compare-and-set is from the phase it read.
CancelExecution(e) ==
    /\ "cancel" \in Events /\ req[e] # None
    /\ req[e].phase \in {"Discovered", "Validating", "ReadyToSimulate",
                         "SimulationSucceeded", "AwaitingSignature"}
    /\ UpdateExecutionPhase(e, req[e].phase, "Cancelled", NoPatch)
    /\ UNCHANGED <<nonces, lock, reorg, rebuilds, drive, now, asked>>

-----------------------------------------------------------------------------
DriveStep(d) ==
    \/ UpsertSeedRow(d) \/ Load(d) \/ Cleanup(d) \/ Acquire(d) \/ Enter(d)
    \/ Discover(d) \/ Preflight(d) \/ MissingIntent(d) \/ PlanAndCount(d)
    \/ ReserveNonce(d) \/ PersistPlan(d) \/ Simulate(d) \/ PriceGas(d)
    \/ BeginSigning(d) \/ Firewall(d) \/ Sign(d) \/ PersistSignature(d)
    \/ DisableBroadcast(d) \/ FailFrom(d) \/ FailFromSigning(d) \/ Release(d)

OrchestratorNext ==
    \/ \E d \in Drives : \/ \E e \in Exec, i \in BOOLEAN : Call(d, e, i)
                         \/ DriveStep(d)
                         \/ StoreError(d)
                         \/ Abandon(d)
    \/ \E e \in Exec : CancelExecution(e)

OrchestratorInit ==
    /\ drive = [d \in Drives |-> None]
    /\ now = MaxEpoch + 1
    /\ asked = [e \in Exec |-> << >>]
=============================================================================
