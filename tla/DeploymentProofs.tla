-------------------------- MODULE DeploymentProofs --------------------------
(***************************************************************************)
(* What holds of the preparation of executions for any number of calls,    *)
(* executions and operations, any bounds and any of the optional events.   *)
(*                                                                         *)
(* The properties relate rows, reserved nonces and signer requests; none   *)
(* is inductive.  What is missing is what a call in progress knows: that   *)
(* the nonce it carries is reserved for its execution and on its row once  *)
(* the plan is persisted, and that the call which won the compare-and-set  *)
(* into Signing is alone with a row that nobody else can move.             *)
(***************************************************************************)
EXTENDS DeploymentOperations, NumberFacts

\* The artifacts a row cannot carry yet, by phase.
BeforeNonce == {"Discovered", "Validating", "ReadyToSimulate"}
BeforePayload == BeforeNonce \cup {"Simulating", "SimulationSucceeded", "SimulationFailed"}
BeforeSignature == BeforePayload \cup {"AwaitingSignature", "Signing"}
Prepared == {"SignatureVerified", "ReadyForBroadcast", "BroadcastDisabled"}

\* What the signer saw: the row it is asked to sign for.
Signable(r) == r.nonce # None /\ r.sim = "ok" /\ r.payload # None

\* The row r of execution e with the signer's requests a and reservations N.
RowFits(e, r, a, N) ==
    /\ r.nonce # None => N[r.nonce] = e
    /\ r.payload # None => r.payload = r.nonce
    /\ r.phase \in BeforeNonce => r.nonce = None
    /\ r.phase \in BeforePayload => r.payload = None
    /\ r.phase \in BeforeSignature => r.sig = None
    /\ a # << >> => /\ a = <<r.nonce>>
                    /\ r.phase \in {"Signing", "Failed"} \cup Prepared
    /\ r.phase \in Prepared => a = <<r.nonce>> /\ Signable(r) /\ r.sig = r.nonce

\* A call between the compare-and-set into Signing and the one out of it.
Signs(t) == \/ t.pc \in {"firewall", "sign", "verified", "failsigning"}
            \/ t.pc = "fail" /\ t.at = "Signing"

\* The call t on an execution with row r, signer's requests a.
CallFits(t, r, a, N) ==
    /\ t.pc \notin {"seed", "load"} => r # None
    /\ t.pc \in {"reserve", "simulating"} => t.at = "ReadyToSimulate"
    /\ t.pc = "simulating" => t.nonce \in Nonces /\ N[t.nonce] = t.ex
    /\ t.pc = "simulate" => t.at = "Simulating"
    /\ t.pc = "gas" => t.at = "SimulationSucceeded"
    /\ t.pc \in {"simulate", "gas"} => /\ t.nonce \in Nonces /\ r.nonce = t.nonce
                                       /\ r.phase \notin BeforeNonce
    /\ Signs(t) => r.phase = "Signing" /\ t.at = "Signing"
    /\ t.pc \in {"firewall", "sign"} => a = << >>
    /\ t.pc \in {"sign", "verified"} => Signable(r)
    /\ t.pc = "verified" => a = <<r.nonce>>

RowsFit ==
    \A e \in Exec : IF req[e] = None THEN asked[e] = << >>
                    ELSE RowFits(e, req[e], asked[e], nonces)

CallsFit ==
    \A d \in Drives : drive[d] # None =>
        CallFits(drive[d], req[drive[d].ex], asked[drive[d].ex], nonces)

OneSigner ==
    \A c, d \in Drives :
        /\ drive[c] # None /\ Signs(drive[c])
        /\ drive[d] # None /\ Signs(drive[d])
        /\ drive[c].ex = drive[d].ex
        => c = d

\* Operations write their epoch to the recovery row or the rebuild table.
OpsFit ==
    \A o \in Ops : op[o] # None => /\ o \in Recoverers => op[o].epoch \in Epochs
                                   /\ o \in Rebuilders => op[o].epoch <= MaxEpoch

Inv == TypeOK /\ RowsFit /\ CallsFit /\ OneSigner /\ OpsFit

-----------------------------------------------------------------------------
\* Writing None, or a call at any await, is a well-typed value of drive[d].
LEMMA CallTypes ==
    ASSUME TypeOK, NEW d \in Drives
    PROVE  /\ drive[d] # None => drive[d] \in Drive /\ drive[d].ex \in Exec
           /\ \A e \in Exec : req[e] # None => req[e] \in ExecutionRequestRow
BY DEF TypeOK, StoreTypeOK, Drive

\* A step that only moves the call d: the rest of the invariant follows from
\* what the call knows at its next await.
LEMMA MoveKeeps ==
    ASSUME Inv, NEW d \in Drives, NEW t \in Drive \cup {None},
           drive' = [drive EXCEPT ![d] = t],
           UNCHANGED <<req, nonces, asked>>,
           t # None => CallFits(t, req[t.ex], asked[t.ex], nonces),
           t # None /\ Signs(t) =>
               drive[d] # None /\ Signs(drive[d]) /\ drive[d].ex = t.ex
    PROVE  /\ drive' \in [Drives -> Drive \cup {None}]
           /\ RowsFit' /\ CallsFit' /\ OneSigner'
<1>1. drive \in [Drives -> Drive \cup {None}]
  BY DEF Inv, TypeOK
<1>2. \A c \in Drives : drive'[c] = IF c = d THEN t ELSE drive[c]
  BY <1>1
<1>3. drive' \in [Drives -> Drive \cup {None}]
  BY <1>1
<1>4. RowsFit'
  BY DEF Inv, RowsFit
<1>5. CallsFit'
  BY <1>2 DEF Inv, CallsFit
<1>6. OneSigner'
  BY <1>2 DEF Inv, OneSigner
<1> QED BY <1>3, <1>4, <1>5, <1>6

\* A step that gives the row of execution e the value s: what the calls that
\* are not signing for e know of it survives.
LEMMA RowKeeps ==
    ASSUME Inv, NEW e \in Exec, NEW s \in ExecutionRequestRow,
           req' = [req EXCEPT ![e] = s], UNCHANGED <<nonces, asked>>,
           RowFits(e, s, asked[e], nonces),
           req[e] # None /\ req[e].phase \notin BeforeNonce =>
               s.phase \notin BeforeNonce /\ s.nonce = req[e].nonce
    PROVE  /\ req' \in [Exec -> ExecutionRequestRow \cup {None}]
           /\ RowsFit'
           /\ \A c \in Drives :
                 /\ drive[c] # None
                 /\ drive[c].ex # e \/ ~Signs(drive[c])
                 => CallFits(drive[c], req'[drive[c].ex], asked[drive[c].ex], nonces)
<1>1. req \in [Exec -> ExecutionRequestRow \cup {None}]
  BY DEF Inv, TypeOK, StoreTypeOK
<1>2. \A f \in Exec : req'[f] = IF f = e THEN s ELSE req[f]
  BY <1>1
<1>3. req' \in [Exec -> ExecutionRequestRow \cup {None}]
  BY <1>1
<1>4. s # None
  BY StoreAssumption
<1>5. RowsFit'
  BY <1>2, <1>4 DEF Inv, RowsFit
<1>6. ASSUME NEW c \in Drives, drive[c] # None, drive[c].ex # e \/ ~Signs(drive[c])
      PROVE  CallFits(drive[c], req'[drive[c].ex], asked[drive[c].ex], nonces)
  <2>1. drive[c] \in Drive /\ drive[c].ex \in Exec
    BY <1>6, CallTypes DEF Inv
  <2>2. CallFits(drive[c], req[drive[c].ex], asked[drive[c].ex], nonces)
    BY <1>6 DEF Inv, CallsFit
  <2>3. CASE drive[c].ex # e
    BY <1>2, <2>1, <2>2, <2>3
  <2>4. CASE drive[c].ex = e
    <3>1. ~Signs(drive[c])
      BY <1>6, <2>4
    <3>2. req'[e] = s
      BY <1>2
    <3> QED BY <2>2, <2>4, <3>1, <3>2, <1>4 DEF CallFits, Signs
  <2> QED BY <2>3, <2>4
<1> QED BY <1>3, <1>5, <1>6

-----------------------------------------------------------------------------
\* What is left alone by the awaits that update the row.
Rest == <<nonces, lock, reorg, rebuilds, now, asked, op>>

\* A row of e that a call may write in place of r: transition(), for every
\* edge and patch of the pipeline.
LEMMA TransitionKeeps ==
    ASSUME Inv, NEW d \in Drives, drive[d] # None,
           NEW to \in Phases, NEW patch, NEW pc \in Outside \cup Inside,
           Transition(d, to, patch, pc), UNCHANGED Rest,
           drive[d].pc \notin {"seed", "load"},
           UpdateApplies(drive[d].ex, drive[d].at, to) =>
               LET t == drive[d]
                   r == req[t.ex]
                   s == Patched(r, to, patch)
                   u == [t EXCEPT !.pc = pc, !.at = to]
               IN  /\ s \in ExecutionRequestRow
                   /\ RowFits(t.ex, s, asked[t.ex], nonces)
                   /\ r.phase \notin BeforeNonce =>
                         s.phase \notin BeforeNonce /\ s.nonce = r.nonce
                   /\ r.phase = "Signing" => Signs(t) /\ ~Signs(u)
                   /\ CallFits(u, s, asked[t.ex], nonces)
    PROVE  Inv'
<1> DEFINE t == drive[d]
           r == req[t.ex]
           s == Patched(r, to, patch)
           u == [t EXCEPT !.pc = pc, !.at = to]
<1>1. t \in Drive /\ t.ex \in Exec /\ TypeOK /\ CallFits(t, r, asked[t.ex], nonces)
  BY CallTypes DEF Inv, CallsFit
<1>2. OpsFit'
  BY DEF Inv, OpsFit, Rest
<1>3. CASE ~UpdateApplies(t.ex, t.at, to)
  <2> DEFINE v == [t EXCEPT !.pc = "release"]
  <2>1. req' = req /\ drive' = [drive EXCEPT ![d] = v]
    BY <1>3 DEF Transition, UpdateExecutionPhase
  <2>2. v \in Drive /\ v.pc = "release" /\ v.ex = t.ex
    BY <1>1 DEF Drive, Inside
  <2>3. r # None
    BY <1>1 DEF CallFits
  <2>4. ~Signs(v) /\ CallFits(v, req[v.ex], asked[v.ex], nonces)
    BY <2>2, <2>3 DEF CallFits, Signs
  <2> HIDE DEF v
  <2>5. /\ drive' \in [Drives -> Drive \cup {None}]
        /\ RowsFit' /\ CallsFit' /\ OneSigner'
    BY <2>1, <2>2, <2>4, MoveKeeps DEF Rest
  <2>6. TypeOK'
    BY <1>1, <2>1, <2>5 DEF Rest, TypeOK, StoreTypeOK
  <2> QED BY <1>2, <2>5, <2>6 DEF Inv
<1>4. CASE UpdateApplies(t.ex, t.at, to)
  <2>1. /\ r # None /\ r.phase = t.at
        /\ req' = [req EXCEPT ![t.ex] = s]
        /\ drive' = [drive EXCEPT ![d] = u]
    BY <1>4 DEF Transition, UpdateExecutionPhase, UpdateApplies
  <2>2. u \in Drive /\ u.ex = t.ex
    BY <1>1 DEF Drive
  <2>3. /\ s \in ExecutionRequestRow
        /\ RowFits(t.ex, s, asked[t.ex], nonces)
        /\ r.phase \notin BeforeNonce =>
              s.phase \notin BeforeNonce /\ s.nonce = r.nonce
        /\ r.phase = "Signing" => Signs(t) /\ ~Signs(u)
        /\ CallFits(u, s, asked[t.ex], nonces)
    BY <1>4
  <2> HIDE DEF s, u
  <2>4. UNCHANGED <<nonces, asked>>
    BY DEF Rest
  <2>5. /\ req' \in [Exec -> ExecutionRequestRow \cup {None}]
        /\ RowsFit'
        /\ \A c \in Drives :
              /\ drive[c] # None
              /\ drive[c].ex # t.ex \/ ~Signs(drive[c])
              => CallFits(drive[c], req'[drive[c].ex], asked[drive[c].ex], nonces)
    BY <1>1, <2>1, <2>3, <2>4, RowKeeps
  <2>6. drive \in [Drives -> Drive \cup {None}] /\ req \in [Exec -> ExecutionRequestRow \cup {None}]
    BY <1>1 DEF TypeOK, StoreTypeOK
  <2>7. \A c \in Drives : drive'[c] = IF c = d THEN u ELSE drive[c]
    BY <2>1, <2>6
  <2>8. req'[t.ex] = s
    BY <1>1, <2>1, <2>6
  \* No other call signs for this execution.
  <2>9. \A c \in Drives : c # d /\ drive[c] # None /\ drive[c].ex = t.ex => ~Signs(drive[c])
    <3> SUFFICES ASSUME NEW c \in Drives, c # d, drive[c] # None, drive[c].ex = t.ex,
                        Signs(drive[c])
                 PROVE  FALSE
      OBVIOUS
    <3>1. r.phase = "Signing"
      BY DEF Inv, CallsFit, CallFits
    <3> QED BY <3>1, <2>3 DEF Inv, OneSigner
  <2>10. CallsFit'
    BY <2>2, <2>3, <2>4, <2>5, <2>7, <2>8, <2>9 DEF CallsFit
  <2>11. OneSigner'
    BY <2>2, <2>7, <2>9 DEF Inv, OneSigner
  <2>12. drive' \in [Drives -> Drive \cup {None}]
    BY <2>1, <2>2, <2>6
  <2>13. TypeOK'
    BY <1>1, <2>5, <2>12 DEF Rest, TypeOK, StoreTypeOK
  <2> QED BY <1>2, <2>5, <2>10, <2>11, <2>13 DEF Inv
<1> QED BY <1>3, <1>4

-----------------------------------------------------------------------------
\* The next nonce to reserve and the latest rebuild are numbers.
LEMMA NextReservedIsNat == TypeOK => NextReserved \in Nat
<1> SUFFICES ASSUME TypeOK, ~ \A n \in Nonces : nonces[n] = None
             PROVE  NextReserved \in Nat
  BY DEF NextReserved
<1> DEFINE S == {n \in Nonces : nonces[n] # None}
<1>1. S \subseteq 0 .. MaxNonce /\ S # {} /\ MaxNonce \in Nat
  BY StoreAssumption DEF Nonces
<1>2. PICK x \in S : \A y \in S : y <= x
  BY <1>1, GreatestElement
<1>3. \E n \in Nonces : nonces[n] # None /\ \A m \in Nonces : nonces[m] # None => m <= n
  BY <1>2
<1> QED BY <1>3, StoreAssumption DEF NextReserved, Nonces

LEMMA LatestRebuildIsNat == TypeOK => LatestRebuild \in Nat
<1> SUFFICES ASSUME TypeOK, ~ \A k \in Epochs : rebuilds[k] = None
             PROVE  LatestRebuild \in Nat
  BY DEF LatestRebuild
<1> DEFINE S == {n \in Epochs : rebuilds[n] # None}
<1>1. S \subseteq 0 .. MaxEpoch /\ S # {} /\ MaxEpoch \in Nat
  BY StoreAssumption DEF Epochs
<1>2. PICK x \in S : \A y \in S : y <= x
  BY <1>1, GreatestElement
<1>3. \E n \in Epochs : rebuilds[n] # None /\ \A m \in Epochs : rebuilds[m] # None => m <= n
  BY <1>2
<1> QED BY <1>3, StoreAssumption DEF LatestRebuild, Epochs

\* The part of the invariant about rows and calls, after a step.
Kept == /\ drive' \in [Drives -> Drive \cup {None}]
        /\ RowsFit' /\ CallsFit' /\ OneSigner'

LEMMA GotoKeeps ==
    ASSUME Inv, NEW d \in Drives, drive[d] # None, NEW pc \in Outside \cup Inside,
           Goto(d, pc), UNCHANGED <<req, nonces, asked>>,
           LET t == [drive[d] EXCEPT !.pc = pc]
           IN  /\ CallFits(t, req[t.ex], asked[t.ex], nonces)
               /\ Signs(t) => Signs(drive[d])
    PROVE  Kept
<1> DEFINE t == [drive[d] EXCEPT !.pc = pc]
<1>1. drive[d] \in Drive
  BY CallTypes DEF Inv
<1>2. t \in Drive /\ t.ex = drive[d].ex
  BY <1>1 DEF Drive
<1>3. drive' = [drive EXCEPT ![d] = t]
  BY DEF Goto
<1>4. CallFits(t, req[t.ex], asked[t.ex], nonces) /\ (Signs(t) => Signs(drive[d]))
  OBVIOUS
<1> HIDE DEF t
<1> QED BY <1>2, <1>3, <1>4, MoveKeeps DEF Kept

\* The awaits that only need a row: a call can always go to one of them.
LEMMA RetreatKeeps ==
    ASSUME Inv, NEW d \in Drives, drive[d] # None,
           drive[d].pc \notin {"seed", "load"} \/ req[drive[d].ex] # None,
           NEW pc \in {"cleanup", "insert", "enter", "step", "release"},
           Goto(d, pc), UNCHANGED <<req, nonces, asked>>
    PROVE  Kept
<1> DEFINE t == [drive[d] EXCEPT !.pc = pc]
<1>1. drive[d] \in Drive /\ CallFits(drive[d], req[drive[d].ex], asked[drive[d].ex], nonces)
  BY CallTypes DEF Inv, CallsFit
<1>2. t.ex = drive[d].ex /\ t.pc = pc
  BY <1>1 DEF Drive
<1>3. req[t.ex] # None
  BY <1>1, <1>2 DEF CallFits
<1>4. CallFits(t, req[t.ex], asked[t.ex], nonces) /\ ~Signs(t)
  BY <1>2, <1>3 DEF CallFits, Signs
<1>5. pc \in Outside \cup Inside
  BY DEF Outside, Inside
<1> HIDE DEF t
<1> QED BY <1>4, <1>5, GotoKeeps DEF t

LEMMA EndKeeps ==
    ASSUME Inv, NEW d \in Drives, End(d), UNCHANGED <<req, nonces, asked>>
    PROVE  Kept
BY MoveKeeps DEF End, Kept

LEMMA InvInit == Init => Inv
<1> SUFFICES ASSUME Init PROVE Inv
  OBVIOUS
<1> USE DEF Init, StoreInit, OrchestratorInit
<1>1. TypeOK
  BY StoreAssumption DEF TypeOK, StoreTypeOK
<1>2. RowsFit /\ CallsFit /\ OneSigner /\ OpsFit
  BY DEF RowsFit, CallsFit, OneSigner, OpsFit
<1> QED BY <1>1, <1>2 DEF Inv

LEMMA CallInv ==
    ASSUME Inv, NEW d \in Drives, NEW e \in Exec, NEW i \in BOOLEAN,
           Call(d, e, i), UNCHANGED op
    PROVE  Inv'
<1>1. PICK t : /\ t = [ex |-> e, intent |-> i, epoch |-> 0, at |-> None,
                       pc |-> IF i THEN "seed" ELSE "load", nonce |-> 0, tries |-> 0]
               /\ drive' = [drive EXCEPT ![d] = t]
  BY DEF Call
<1>2. t.pc \in {"seed", "load"}
  BY <1>1
<1>3. t \in Drive
  BY <1>1, <1>2 DEF Drive, Outside
<1>4. CallFits(t, req[t.ex], asked[t.ex], nonces) /\ ~Signs(t)
  BY <1>2 DEF CallFits, Signs
<1>5. UNCHANGED <<req, nonces, asked>>
  BY DEF Call, storeVars
<1>6. Kept
  BY <1>1, <1>3, <1>4, <1>5, MoveKeeps DEF Kept
<1> QED BY <1>6 DEF Kept, Inv, TypeOK, StoreTypeOK, OpsFit, Call, storeVars

LEMMA UpsertSeedRowInv ==
    ASSUME Inv, NEW d \in Drives, UpsertSeedRow(d), UNCHANGED op
    PROVE  Inv'
<1> DEFINE e == drive[d].ex
           t == [drive[d] EXCEPT !.pc = "load"]
           s == IF req[e] = None THEN NewRequest ELSE req[e]
<1>1. /\ drive[d] \in Drive /\ e \in Exec /\ drive[d] # None /\ drive[d].pc = "seed"
      /\ TypeOK /\ req \in [Exec -> ExecutionRequestRow \cup {None}]
      /\ drive \in [Drives -> Drive \cup {None}]
  BY CallTypes DEF Inv, UpsertSeedRow, At, TypeOK, StoreTypeOK
<1>2. NewRequest \in ExecutionRequestRow
  BY DEF NewRequest, ExecutionRequestRow, Phases
<1>3. s \in ExecutionRequestRow
  BY <1>1, <1>2
<1>4. req' = [req EXCEPT ![e] = s] /\ UNCHANGED <<nonces, asked>>
  BY DEF UpsertSeedRow, InsertExecutionRequest
<1>5. RowFits(e, s, asked[e], nonces)
  <2>1. CASE req[e] = None
    <3>1. asked[e] = << >>
      BY <1>1, <2>1 DEF Inv, RowsFit
    <3> QED BY <2>1, <3>1 DEF RowFits, NewRequest, Prepared
  <2>2. CASE req[e] # None
    BY <1>1, <2>2 DEF Inv, RowsFit
  <2> QED BY <2>1, <2>2
<1>6. req[e] # None /\ req[e].phase \notin BeforeNonce =>
               s.phase \notin BeforeNonce /\ s.nonce = req[e].nonce
  OBVIOUS
<1>7. s # None
  BY <1>3, StoreAssumption
<1>8. req'[e] = s /\ \A f \in Exec : f # e => req'[f] = req[f]
  BY <1>1, <1>4
<1> HIDE DEF s
<1>9. /\ req' \in [Exec -> ExecutionRequestRow \cup {None}]
      /\ RowsFit'
      /\ \A c \in Drives :
            /\ drive[c] # None
            /\ drive[c].ex # e \/ ~Signs(drive[c])
            => CallFits(drive[c], req'[drive[c].ex], asked[drive[c].ex], nonces)
  BY <1>1, <1>3, <1>4, <1>5, <1>6, RowKeeps
<1>10. \A c \in Drives : drive[c] # None /\ Signs(drive[c]) /\ drive[c].ex = e =>
          CallFits(drive[c], req'[e], asked[e], nonces)
  <2> SUFFICES ASSUME NEW c \in Drives, drive[c] # None, Signs(drive[c]), drive[c].ex = e
               PROVE  CallFits(drive[c], req'[e], asked[e], nonces)
    OBVIOUS
  <2>1. CallFits(drive[c], req[e], asked[e], nonces)
    BY DEF Inv, CallsFit
  <2>2. req[e] # None
    BY <2>1 DEF CallFits, Signs
  <2> QED BY <1>8, <2>1, <2>2 DEF s
<1>11. drive' = [drive EXCEPT ![d] = t] /\ t \in Drive /\ t.pc = "load"
  BY <1>1 DEF UpsertSeedRow, Goto, Drive, Outside
<1>12. ~Signs(t) /\ \A r, a, N : CallFits(t, r, a, N)
  BY <1>11 DEF CallFits, Signs
<1> HIDE DEF t
<1>13. \A c \in Drives : drive'[c] = IF c = d THEN t ELSE drive[c]
  BY <1>1, <1>11
<1>14. CallsFit'
  BY <1>4, <1>9, <1>10, <1>12, <1>13 DEF CallsFit
<1>15. OneSigner'
  BY <1>12, <1>13 DEF Inv, OneSigner
<1>16. drive' \in [Drives -> Drive \cup {None}]
  BY <1>1, <1>11
<1>17. TypeOK' /\ OpsFit'
  BY <1>1, <1>9, <1>16 DEF UpsertSeedRow, Inv, OpsFit, TypeOK, StoreTypeOK
<1> QED BY <1>9, <1>14, <1>15, <1>17 DEF Inv

-----------------------------------------------------------------------------
\* The awaits before and after the pipeline, which leave the rows alone.
LEMMA LoadInv ==
    ASSUME Inv, NEW d \in Drives, Load(d), UNCHANGED op PROVE Inv'
<1> SUFFICES Kept
  BY DEF Kept, Inv, TypeOK, StoreTypeOK, OpsFit, Load, storeVars
<1>1. drive[d] # None /\ UNCHANGED <<req, nonces, asked>>
  BY DEF Load, At, storeVars
<1>2. CASE req[drive[d].ex] = None \/ IsTerminal(req[drive[d].ex].phase)
  BY <1>1, <1>2, EndKeeps DEF Load
<1>3. CASE ~(req[drive[d].ex] = None \/ IsTerminal(req[drive[d].ex].phase))
  BY <1>1, <1>3, RetreatKeeps DEF Load
<1> QED BY <1>2, <1>3 DEF Load

LEMMA CleanupInv ==
    ASSUME Inv, NEW d \in Drives, Cleanup(d), UNCHANGED op PROVE Inv'
<1>1. /\ drive[d] # None /\ drive[d].pc = "cleanup" /\ drive[d] \in Drive
      /\ UNCHANGED <<req, nonces, asked>>
      /\ now \in Nat
  BY CallTypes DEF Cleanup, At, Inv, TypeOK
<1> DEFINE t == [drive[d] EXCEPT !.epoch = now, !.pc = "insert"]
<1>2. drive' = [drive EXCEPT ![d] = t]
  BY DEF Cleanup
<1>3. t \in Drive /\ t.ex = drive[d].ex /\ t.pc = "insert"
  BY <1>1 DEF Drive, Outside
<1>4. req[t.ex] # None
  BY <1>1, <1>3 DEF Inv, CallsFit, CallFits
<1>5. CallFits(t, req[t.ex], asked[t.ex], nonces) /\ ~Signs(t)
  BY <1>3, <1>4 DEF CallFits, Signs
<1> HIDE DEF t
<1>6. Kept
  BY <1>1, <1>2, <1>3, <1>5, MoveKeeps DEF Kept
<1>7. now' \in Nat /\ lock' \in OperationLock \cup {None}
  BY <1>1 DEF Cleanup, ClockMoves, CleanupLock, Inv, TypeOK, StoreTypeOK
<1> QED BY <1>6, <1>7 DEF Kept, Inv, TypeOK, StoreTypeOK, OpsFit, Cleanup

LEMMA AcquireInv ==
    ASSUME Inv, NEW d \in Drives, Acquire(d), UNCHANGED op PROVE Inv'
<1>1. drive[d] # None /\ drive[d].pc = "insert" /\ UNCHANGED <<req, nonces, asked>>
  BY DEF Acquire, At
<1>2. lock = None => Kept
  BY <1>1, RetreatKeeps DEF Acquire
<1>3. lock # None => Kept
  BY <1>1, EndKeeps DEF Acquire
<1>4. Kept
  BY <1>2, <1>3
<1>5. drive[d].epoch \in Nat /\ lock \in OperationLock \cup {None}
  BY <1>1, CallTypes DEF Inv, Drive, TypeOK, StoreTypeOK
<1>6. lock' \in OperationLock \cup {None}
  BY <1>5 DEF Acquire, InsertLock, OperationLock, Operations
<1> QED BY <1>4, <1>6 DEF Kept, Inv, TypeOK, StoreTypeOK, OpsFit, Acquire

LEMMA EnterInv ==
    ASSUME Inv, NEW d \in Drives, Enter(d), UNCHANGED op PROVE Inv'
<1> DEFINE r == req[drive[d].ex]
           pc == IF IsTerminal(r.phase) \/ r.phase \in NoStep THEN "release" ELSE "step"
           t == [drive[d] EXCEPT !.at = r.phase, !.pc = pc]
<1>1. /\ drive[d] # None /\ drive[d].pc = "enter" /\ drive[d] \in Drive
      /\ drive[d].ex \in Exec /\ UNCHANGED <<req, nonces, asked>>
  BY CallTypes DEF Enter, At, Inv, storeVars
<1>2. drive' = [drive EXCEPT ![d] = t]
  BY DEF Enter
<1>3. r # None
  BY <1>1 DEF Inv, CallsFit, CallFits
<1>4. r.phase \in Phases
  BY <1>1, <1>3, CallTypes DEF Inv, ExecutionRequestRow
<1>5. t \in Drive /\ t.ex = drive[d].ex /\ t.pc \in {"release", "step"}
  BY <1>1, <1>4 DEF Drive, Inside
<1>6. CallFits(t, req[t.ex], asked[t.ex], nonces) /\ ~Signs(t)
  BY <1>3, <1>5 DEF CallFits, Signs
<1> HIDE DEF t
<1>7. Kept
  BY <1>1, <1>2, <1>5, <1>6, MoveKeeps DEF Kept
<1> QED BY <1>7 DEF Kept, Inv, TypeOK, StoreTypeOK, OpsFit, Enter, storeVars

LEMMA ReleaseInv ==
    ASSUME Inv, NEW d \in Drives, Release(d), UNCHANGED op PROVE Inv'
<1>1. Kept
  BY EndKeeps DEF Release
<1>2. lock' \in OperationLock \cup {None}
  BY DEF Release, ReleaseOperationLock, Inv, TypeOK, StoreTypeOK
<1> QED BY <1>1, <1>2 DEF Kept, Inv, TypeOK, StoreTypeOK, OpsFit, Release

LEMMA MissingIntentInv ==
    ASSUME Inv, NEW d \in Drives, MissingIntent(d), UNCHANGED op PROVE Inv'
<1>1. Kept
  BY RetreatKeeps DEF MissingIntent, At, storeVars
<1> QED BY <1>1 DEF Kept, Inv, TypeOK, StoreTypeOK, OpsFit, MissingIntent, storeVars

LEMMA AbandonInv ==
    ASSUME Inv, NEW d \in Drives, Abandon(d), UNCHANGED op PROVE Inv'
<1>1. Kept
  BY EndKeeps DEF Abandon, storeVars
<1> QED BY <1>1 DEF Kept, Inv, TypeOK, StoreTypeOK, OpsFit, Abandon, storeVars

\* fail_from is entered from the phases it can leave, Signing not among them.
LEMMA FailKeeps ==
    ASSUME Inv, NEW d \in Drives, drive[d] # None, Goto(d, "fail"),
           drive[d].at # "Signing", drive[d].pc \notin {"seed", "load"},
           UNCHANGED <<req, nonces, asked>>
    PROVE  Kept
<1> DEFINE t == [drive[d] EXCEPT !.pc = "fail"]
<1>1. drive[d] \in Drive
  BY CallTypes DEF Inv
<1>2. t.ex = drive[d].ex /\ t.pc = "fail" /\ t.at # "Signing"
  BY <1>1 DEF Drive
<1>3. req[t.ex] # None
  BY <1>2 DEF Inv, CallsFit, CallFits
<1>4. CallFits(t, req[t.ex], asked[t.ex], nonces) /\ ~Signs(t)
  BY <1>2, <1>3 DEF CallFits, Signs
<1>5. "fail" \in Outside \cup Inside
  BY DEF Inside
<1> HIDE DEF t
<1> QED BY <1>4, <1>5, GotoKeeps DEF t

LEMMA StoreErrorInv ==
    ASSUME Inv, NEW d \in Drives, StoreError(d), UNCHANGED op PROVE Inv'
<1> SUFFICES Kept
  BY DEF Kept, Inv, TypeOK, StoreTypeOK, OpsFit, StoreError, storeVars
<1>1. drive[d] # None /\ UNCHANGED <<req, nonces, asked>>
  BY DEF StoreError, storeVars
<1>2. CASE drive[d].pc = "reserve"
  <2>1. drive[d].at # "Signing"
    BY <1>1, <1>2 DEF Inv, CallsFit, CallFits
  <2> QED BY <1>1, <1>2, <2>1, FailKeeps DEF StoreError
<1>3. CASE drive[d].pc \in Inside \ {"reserve", "release"}
  BY <1>1, <1>3, RetreatKeeps DEF StoreError, Inside
<1>4. CASE drive[d].pc \notin Inside \ {"release"}
  BY <1>1, <1>4, EndKeeps DEF StoreError, Inside
<1> QED BY <1>2, <1>3, <1>4

LEMMA PlanAndCountInv ==
    ASSUME Inv, NEW d \in Drives, PlanAndCount(d), UNCHANGED op PROVE Inv'
<1> SUFFICES Kept
  BY DEF Kept, Inv, TypeOK, StoreTypeOK, OpsFit, PlanAndCount, storeVars
<1> DEFINE r == req[drive[d].ex]
<1>1. /\ drive[d] # None /\ drive[d].pc = "step" /\ drive[d] \in Drive
      /\ drive[d].ex \in Exec /\ drive[d].at = "ReadyToSimulate"
      /\ UNCHANGED <<req, nonces, asked>>
  BY CallTypes DEF PlanAndCount, At, Inv, storeVars
<1>2. r # None /\ r \in ExecutionRequestRow
  BY <1>1, CallTypes DEF Inv, CallsFit, CallFits
<1>3. CASE Goto(d, "fail")
  BY <1>1, <1>3, FailKeeps
<1>4. CASE Goto(d, "release")
  BY <1>1, <1>4, RetreatKeeps
<1>5. ASSUME NEW n \in Nat, NEW k \in Nat, NEW pc \in {"reserve", "simulating"},
             drive' = [drive EXCEPT ![d] = [drive[d] EXCEPT !.nonce = n, !.tries = k, !.pc = pc]],
             pc = "simulating" => n \in Nonces /\ nonces[n] = drive[d].ex
      PROVE  Kept
  <2> DEFINE t == [drive[d] EXCEPT !.nonce = n, !.tries = k, !.pc = pc]
  <2>1. t \in Drive /\ t.ex = drive[d].ex /\ t.pc = pc /\ t.nonce = n /\ t.at = "ReadyToSimulate"
    BY <1>1 DEF Drive, Inside
  <2>2. CallFits(t, req[t.ex], asked[t.ex], nonces) /\ ~Signs(t)
    BY <1>2, <1>5, <2>1 DEF CallFits, Signs
  <2>3. drive' = [drive EXCEPT ![d] = t]
    BY <1>5
  <2> HIDE DEF t
  <2> QED BY <1>1, <2>1, <2>2, <2>3, MoveKeeps DEF Kept
<1>6. CASE /\ r.nonce # None
           /\ drive' = [drive EXCEPT ![d].nonce = r.nonce, ![d].pc = "simulating"]
  <2>1. r.nonce \in Nonces /\ r.nonce \in Nat /\ nonces[r.nonce] = drive[d].ex
    BY <1>1, <1>2, <1>6, StoreAssumption
    DEF ExecutionRequestRow, Nonces, Inv, RowsFit, RowFits
  <2>2. drive[d].tries \in Nat
    BY <1>1 DEF Drive
  <2>3. drive' = [drive EXCEPT ![d] = [drive[d] EXCEPT !.nonce = r.nonce,
                    !.tries = drive[d].tries, !.pc = "simulating"]]
    BY <1>1, <1>6 DEF Drive
  <2> QED BY <1>5, <2>1, <2>2, <2>3
<1>7. ASSUME NEW count \in 0 .. MaxOnchain,
             drive' = [drive EXCEPT
                ![d].nonce = IF count > NextReserved THEN count ELSE NextReserved,
                ![d].tries = 0, ![d].pc = "reserve"]
      PROVE  Kept
  <2>1. NextReserved \in Nat /\ count \in Nat
    BY NextReservedIsNat, OrchestratorAssumption DEF Inv
  <2> DEFINE n == IF count > NextReserved THEN count ELSE NextReserved
  <2>2. n \in Nat
    BY <2>1
  <2>3. drive' = [drive EXCEPT ![d] = [drive[d] EXCEPT !.nonce = n, !.tries = 0, !.pc = "reserve"]]
    BY <1>7
  <2> HIDE DEF n
  <2> QED BY <1>5, <2>2, <2>3
<1> QED BY <1>3, <1>4, <1>6, <1>7 DEF PlanAndCount

LEMMA FirewallInv ==
    ASSUME Inv, NEW d \in Drives, Firewall(d), UNCHANGED op PROVE Inv'
<1>1. /\ drive[d] # None /\ drive[d].pc = "firewall" /\ drive[d] \in Drive
      /\ UNCHANGED <<req, nonces, asked>>
  BY CallTypes DEF Firewall, At, Inv, storeVars
<1>2. CallFits(drive[d], req[drive[d].ex], asked[drive[d].ex], nonces)
  BY <1>1 DEF Inv, CallsFit
<1>3. PICK pc \in {"sign", "failsigning"} :
          Goto(d, pc) /\ (pc = "sign" => FirewallAdmits(req[drive[d].ex]))
  BY DEF Firewall
<1> DEFINE t == [drive[d] EXCEPT !.pc = pc]
<1>4. t.ex = drive[d].ex /\ t.pc = pc /\ t.at = drive[d].at
  BY <1>1 DEF Drive
<1>5. Signs(drive[d])
  BY <1>1 DEF Signs
<1>6. CallFits(t, req[t.ex], asked[t.ex], nonces)
  BY <1>1, <1>2, <1>3, <1>4 DEF CallFits, Signs, FirewallAdmits, Signable
<1>7. pc \in Outside \cup Inside
  BY DEF Inside
<1> HIDE DEF t
<1>8. Kept
  BY <1>1, <1>3, <1>5, <1>6, <1>7, GotoKeeps DEF t
<1> QED BY <1>8 DEF Kept, Inv, TypeOK, StoreTypeOK, OpsFit, Firewall, storeVars

\* The signer is asked by the only call that signs for the execution, and
\* nobody asked before.
LEMMA SignInv ==
    ASSUME Inv, NEW d \in Drives, Sign(d), UNCHANGED op PROVE Inv'
<1> DEFINE e == drive[d].ex
<1>1. /\ drive[d] # None /\ drive[d].pc = "sign" /\ drive[d] \in Drive /\ e \in Exec
      /\ UNCHANGED <<req, nonces, lock, reorg, rebuilds, now, op>>
  BY CallTypes DEF Sign, At, Inv, storeVars
<1>2. CallFits(drive[d], req[e], asked[e], nonces)
  BY <1>1 DEF Inv, CallsFit
<1>3. Signs(drive[d])
  BY <1>1 DEF Signs
<1>4. /\ req[e] # None /\ req[e].phase = "Signing" /\ drive[d].at = "Signing"
      /\ asked[e] = << >> /\ Signable(req[e])
  BY <1>1, <1>2, <1>3 DEF CallFits
<1>5. PICK pc \in {"verified", "failsigning"} :
          /\ Goto(d, pc)
          /\ \/ asked' = [asked EXCEPT ![e] = Append(@, req[e].nonce)]
             \/ asked' = asked /\ pc = "failsigning"
  BY DEF Sign
<1>6. req[e] \in ExecutionRequestRow /\ asked \in [Exec -> Seq(Nonces \cup {None})]
  BY <1>1, <1>4, CallTypes DEF Inv, TypeOK
<1>7. req[e].nonce \in Nonces \cup {None} /\ Append(<< >>, req[e].nonce) = <<req[e].nonce>>
  BY <1>6 DEF ExecutionRequestRow
<1>8. asked'[e] \in {<< >>, <<req[e].nonce>>} /\ (pc = "verified" => asked'[e] = <<req[e].nonce>>)
  BY <1>1, <1>4, <1>5, <1>6, <1>7
<1>9. \A f \in Exec : f # e => asked'[f] = asked[f]
  BY <1>1, <1>5, <1>6
<1>10. asked' \in [Exec -> Seq(Nonces \cup {None})]
  <2>1. CASE asked' = asked
    BY <1>6, <2>1
  <2>2. CASE asked' = [asked EXCEPT ![e] = Append(@, req[e].nonce)]
    <3>1. Append(asked[e], req[e].nonce) \in Seq(Nonces \cup {None})
      BY <1>1, <1>6, <1>7
    <3> QED BY <1>1, <1>6, <2>2, <3>1
  <2> QED BY <1>5, <2>1, <2>2
<1> DEFINE t == [drive[d] EXCEPT !.pc = pc]
<1>11. drive' = [drive EXCEPT ![d] = t] /\ drive \in [Drives -> Drive \cup {None}]
  BY <1>5 DEF Goto, Inv, TypeOK
<1>12. t \in Drive /\ t.ex = e /\ t.pc = pc /\ t.at = "Signing"
  BY <1>1, <1>4 DEF Drive, Inside
<1>13. Signs(t) /\ CallFits(t, req[e], asked'[e], nonces)
  BY <1>4, <1>8, <1>12 DEF CallFits, Signs
<1> HIDE DEF t
<1>14. \A c \in Drives : drive'[c] = IF c = d THEN t ELSE drive[c]
  BY <1>11
<1>15. \A c \in Drives : c # d /\ drive[c] # None /\ drive[c].ex = e => ~Signs(drive[c])
  BY <1>1, <1>3 DEF Inv, OneSigner
<1>16. RowsFit'
  <2> SUFFICES ASSUME NEW f \in Exec
               PROVE  IF req[f] = None THEN asked'[f] = << >>
                      ELSE RowFits(f, req[f], asked'[f], nonces)
    BY <1>1 DEF RowsFit
  <2>1. CASE f = e
    <3>1. RowFits(e, req[e], asked[e], nonces)
      BY <1>1, <1>4 DEF Inv, RowsFit
    <3> QED BY <1>4, <1>8, <2>1, <3>1 DEF RowFits, Prepared
  <2>2. CASE f # e
    BY <1>9, <2>2 DEF Inv, RowsFit
  <2> QED BY <2>1, <2>2
<1>17. CallsFit'
  <2> SUFFICES ASSUME NEW c \in Drives, drive'[c] # None
               PROVE  CallFits(drive'[c], req[drive'[c].ex], asked'[drive'[c].ex], nonces)
    BY <1>1 DEF CallsFit
  <2>1. CASE c = d
    BY <1>12, <1>13, <1>14, <2>1
  <2>2. CASE c # d
    <3>1. drive'[c] = drive[c] /\ drive[c] # None
      BY <1>14, <2>2
    <3>2. CallFits(drive[c], req[drive[c].ex], asked[drive[c].ex], nonces) /\ drive[c].ex \in Exec
      BY <3>1, CallTypes DEF Inv, CallsFit
    <3>3. CASE drive[c].ex = e
      BY <1>15, <2>2, <3>1, <3>2, <3>3 DEF CallFits, Signs
    <3>4. CASE drive[c].ex # e
      BY <1>9, <3>1, <3>2, <3>4
    <3> QED BY <3>3, <3>4
  <2> QED BY <2>1, <2>2
<1>18. OneSigner'
  BY <1>3, <1>1, <1>12, <1>14, <1>15 DEF Inv, OneSigner
<1>19. drive' \in [Drives -> Drive \cup {None}]
  BY <1>11, <1>12
<1>20. TypeOK' /\ OpsFit'
  BY <1>1, <1>10, <1>19 DEF Inv, OpsFit, TypeOK, StoreTypeOK
<1> QED BY <1>16, <1>17, <1>18, <1>20 DEF Inv

\* A reservation takes a nonce nobody has.
LEMMA ReserveNonceInv ==
    ASSUME Inv, NEW d \in Drives, ReserveNonce(d), UNCHANGED op PROVE Inv'
<1> DEFINE t == drive[d]
           n == t.nonce
<1>1. /\ t # None /\ t.pc = "reserve" /\ t \in Drive /\ t.ex \in Exec
      /\ n \in Nonces
      /\ UNCHANGED <<req, lock, reorg, rebuilds, now, asked, op>>
  BY CallTypes DEF ReserveNonce, At, Inv
<1>2. CallFits(t, req[t.ex], asked[t.ex], nonces)
  BY <1>1 DEF Inv, CallsFit
<1>3. req[t.ex] # None /\ t.at = "ReadyToSimulate"
  BY <1>1, <1>2 DEF CallFits
<1>4. OpsFit'
  BY <1>1 DEF Inv, OpsFit
<1>5. CASE ~NonceFree(n)
  <2> DEFINE pc == IF t.tries + 1 = MaxAttempts THEN "fail" ELSE "reserve"
             u == [t EXCEPT !.nonce = t.nonce + 1, !.tries = t.tries + 1, !.pc = pc]
  <2>0. t.nonce + 1 \in Nat /\ t.tries + 1 \in Nat /\ pc \in {"fail", "reserve"}
    BY <1>1 DEF Drive
  <2>1. nonces' = nonces /\ drive' = [drive EXCEPT ![d] = u]
    BY <1>5 DEF ReserveNonce, ReserveExecutorNonce
  <2>2. u \in Drive /\ u.ex = t.ex /\ u.pc \in {"fail", "reserve"} /\ u.at = t.at
    <3> HIDE DEF pc
    <3> QED BY <1>1, <2>0 DEF Drive, Inside
  <2>3. CallFits(u, req[u.ex], asked[u.ex], nonces) /\ ~Signs(u)
    BY <1>3, <2>2 DEF CallFits, Signs
  <2> HIDE DEF u
  <2>4. Kept
    BY <1>1, <2>1, <2>2, <2>3, MoveKeeps DEF Kept
  <2> QED BY <1>1, <1>4, <2>1, <2>4 DEF Kept, Inv, TypeOK, StoreTypeOK
<1>6. CASE NonceFree(n)
  <2> DEFINE u == [t EXCEPT !.pc = "simulating"]
  <2>1. nonces' = [nonces EXCEPT ![n] = t.ex] /\ drive' = [drive EXCEPT ![d] = u]
    BY <1>6 DEF ReserveNonce, ReserveExecutorNonce
  <2>2. /\ nonces[n] = None /\ nonces \in [Nonces -> Exec \cup {None}]
        /\ drive \in [Drives -> Drive \cup {None}]
    BY <1>6 DEF NonceFree, Inv, TypeOK, StoreTypeOK
  <2>3. nonces' \in [Nonces -> Exec \cup {None}] /\ nonces'[n] = t.ex
    BY <1>1, <2>1, <2>2
  <2>4. \A m \in Nonces, e \in Exec : nonces[m] = e => nonces'[m] = e
    BY <1>1, <2>1, <2>2, StoreAssumption
  <2>5. u \in Drive /\ u.ex = t.ex /\ u.pc = "simulating" /\ u.at = t.at /\ u.nonce = n
    BY <1>1 DEF Drive, Inside
  <2>6. CallFits(u, req[t.ex], asked[t.ex], nonces') /\ ~Signs(u)
    BY <1>1, <1>3, <2>3, <2>5 DEF CallFits, Signs
  <2> HIDE DEF u
  <2>7. \A c \in Drives : drive'[c] = IF c = d THEN u ELSE drive[c]
    BY <2>1, <2>2
  <2>8. RowsFit'
    <3> SUFFICES ASSUME NEW f \in Exec, req[f] # None, RowFits(f, req[f], asked[f], nonces)
                 PROVE  RowFits(f, req[f], asked[f], nonces')
      BY <1>1 DEF Inv, RowsFit
    <3>1. req[f].nonce \in Nonces \cup {None}
      BY CallTypes DEF Inv, TypeOK, StoreTypeOK, ExecutionRequestRow
    <3> QED BY <2>4, <3>1 DEF RowFits
  <2>9. CallsFit'
    <3> SUFFICES ASSUME NEW c \in Drives, drive'[c] # None
                 PROVE  CallFits(drive'[c], req[drive'[c].ex], asked[drive'[c].ex], nonces')
      BY <1>1 DEF CallsFit
    <3>1. CASE c = d
      BY <2>5, <2>6, <2>7, <3>1
    <3>2. CASE c # d
      <4>1. drive'[c] = drive[c] /\ drive[c] # None
        BY <2>7, <3>2
      <4>2. CallFits(drive[c], req[drive[c].ex], asked[drive[c].ex], nonces) /\ drive[c].ex \in Exec
        BY <4>1, CallTypes DEF Inv, CallsFit
      <4> QED BY <4>1, <4>2, <2>4 DEF CallFits
    <3> QED BY <3>1, <3>2
  <2>10. OneSigner'
    BY <2>6, <2>7 DEF Inv, OneSigner
  <2>11. drive' \in [Drives -> Drive \cup {None}]
    BY <2>1, <2>2, <2>5
  <2>12. TypeOK'
    BY <1>1, <2>3, <2>11 DEF Inv, TypeOK, StoreTypeOK
  <2> QED BY <1>4, <2>8, <2>9, <2>10, <2>12 DEF Inv
<1> QED BY <1>5, <1>6

-----------------------------------------------------------------------------
\* The edges of the pipeline.

\* A row that is updated keeps its type when the patch is well typed.
LEMMA PatchedType ==
    ASSUME NEW r \in ExecutionRequestRow, NEW to \in Phases, NEW patch,
           patch.epoch \in Nat \cup {None}, patch.nonce \in Nonces \cup {None},
           patch.sim \in {"ok", "reverted", None}, patch.payload \in Nonces \cup {None},
           patch.sig \in Nonces \cup {None}
    PROVE  Patched(r, to, patch) \in ExecutionRequestRow
BY DEF Patched, Coalesce, ExecutionRequestRow

\* A patch that only writes the lock's epoch, or nothing.
Plain(patch) == /\ patch.nonce = None /\ patch.sim = None
                /\ patch.payload = None /\ patch.sig = None

\* An edge on which no artifact is written keeps what is known of the row.
LEMMA PlainEdge ==
    ASSUME Inv, NEW e \in Exec, req[e] # None, NEW to \in Phases, NEW patch,
           Plain(patch), patch.epoch \in Nat \cup {None},
           CanTransition(req[e].phase, to),
           to \in Prepared => req[e].phase \in Prepared,
           asked[e] # << >> => to # "Cancelled"
    PROVE  LET s == Patched(req[e], to, patch) IN
           /\ s \in ExecutionRequestRow
           /\ RowFits(e, s, asked[e], nonces)
           /\ req[e].phase \notin BeforeNonce =>
                 s.phase \notin BeforeNonce /\ s.nonce = req[e].nonce
<1> DEFINE r == req[e]
           s == Patched(r, to, patch)
<1>1. r \in ExecutionRequestRow /\ RowFits(e, r, asked[e], nonces)
  BY DEF Inv, RowsFit, TypeOK, StoreTypeOK
<1>2. s \in ExecutionRequestRow
  BY <1>1, PatchedType DEF Plain
<1>3. /\ s.phase = to /\ s.nonce = r.nonce /\ s.sim = r.sim
      /\ s.payload = r.payload /\ s.sig = r.sig
  BY <1>1 DEF Patched, Coalesce, Plain
<1>4. r.phase \in Phases /\ to \in LegalSuccessors(r.phase) /\ ~IsTerminal(r.phase)
  BY <1>1 DEF CanTransition, ExecutionRequestRow
<1>5. /\ to \in BeforeNonce => r.phase \in BeforeNonce
      /\ to \in BeforePayload => r.phase \in BeforePayload
      /\ to \in BeforeSignature => r.phase \in BeforeSignature
      /\ r.phase \in {"Signing", "Failed"} \cup Prepared =>
            to \in {"Signing", "Failed"} \cup Prepared
  BY <1>4 DEF LegalSuccessors, IsTerminal, BeforeNonce, BeforePayload, BeforeSignature,
              Prepared, Phases
<1>6. RowFits(e, s, asked[e], nonces)
  BY <1>1, <1>3, <1>5 DEF RowFits, Signable
<1> QED BY <1>2, <1>3, <1>5, <1>6

LEMMA NoPatchIsPlain ==
    /\ Plain(NoPatch) /\ NoPatch.epoch \in Nat \cup {None}
    /\ \A k \in Nat : /\ Plain([NoPatch EXCEPT !.epoch = k])
                      /\ [NoPatch EXCEPT !.epoch = k].epoch \in Nat \cup {None}
BY DEF Plain, NoPatch

\* The pipeline's own plain edges, whatever the await that follows.
LEMMA PlainTransition ==
    ASSUME Inv, NEW d \in Drives, drive[d] # None,
           NEW to \in Phases, NEW patch,
           NEW pc \in {"step", "release", "fail", "firewall"},
           Transition(d, to, patch, pc), UNCHANGED Rest,
           Plain(patch), patch.epoch \in Nat \cup {None},
           drive[d].pc \notin {"seed", "load"},
           drive[d].at = "Signing" => Signs(drive[d]) /\ pc \in {"step", "release"},
           to \in Prepared => drive[d].at \in Prepared,
           pc = "firewall" => to = "Signing"
    PROVE  Inv'
<1> DEFINE t == drive[d]
           r == req[t.ex]
           s == Patched(r, to, patch)
           u == [t EXCEPT !.pc = pc, !.at = to]
<1>1. t \in Drive /\ t.ex \in Exec /\ pc \in Outside \cup Inside
  BY CallTypes DEF Inv, Inside
<1>2. ASSUME UpdateApplies(t.ex, t.at, to)
      PROVE  /\ s \in ExecutionRequestRow
             /\ RowFits(t.ex, s, asked[t.ex], nonces)
             /\ r.phase \notin BeforeNonce =>
                   s.phase \notin BeforeNonce /\ s.nonce = r.nonce
             /\ r.phase = "Signing" => Signs(t) /\ ~Signs(u)
             /\ CallFits(u, s, asked[t.ex], nonces)
  <2>1. r # None /\ r.phase = t.at /\ CanTransition(r.phase, to)
    BY <1>2 DEF UpdateApplies
  <2>2. /\ asked[t.ex] # << >> => to # "Cancelled"
        /\ to = "Signing" => asked[t.ex] = << >>
    <3>1. RowFits(t.ex, r, asked[t.ex], nonces)
      BY <1>1, <2>1 DEF Inv, RowsFit
    <3> QED BY <2>1, <3>1 DEF RowFits, CanTransition, LegalSuccessors, Prepared, IsTerminal
  <2>3. u.pc = pc /\ u.at = to
    BY <1>1 DEF Drive
  <2>4. /\ s \in ExecutionRequestRow
        /\ RowFits(t.ex, s, asked[t.ex], nonces)
        /\ r.phase \notin BeforeNonce =>
              s.phase \notin BeforeNonce /\ s.nonce = r.nonce
    BY <1>1, <2>1, <2>2, PlainEdge
  <2>5. s # None /\ s.phase = to
    BY <2>4, StoreAssumption DEF Patched
  <2> HIDE DEF s, u
  <2>6. Signs(u) => to = "Signing" /\ pc \in {"fail", "firewall"}
    BY <2>3 DEF Signs
  <2>7. CallFits(u, s, asked[t.ex], nonces)
    BY <2>2, <2>3, <2>5, <2>6 DEF CallFits
  <2> QED BY <2>1, <2>4, <2>6, <2>7
<1> QED BY <1>1, <1>2, TransitionKeeps

LEMMA DiscoverInv ==
    ASSUME Inv, NEW d \in Drives, Discover(d), UNCHANGED op PROVE Inv'
<1>1. drive[d] # None /\ drive[d].pc = "step" /\ drive[d].at = "Discovered" /\ UNCHANGED Rest
  BY DEF Discover, At, Rest
<1>2. drive[d].epoch \in Nat
  BY <1>1, CallTypes DEF Inv, Drive
<1>3. "Validating" \in Phases /\ "Validating" \notin Prepared
  BY DEF Phases, Prepared
<1> QED BY <1>1, <1>2, <1>3, NoPatchIsPlain, PlainTransition DEF Discover

LEMMA PreflightInv ==
    ASSUME Inv, NEW d \in Drives, Preflight(d), UNCHANGED op PROVE Inv'
<1>1. drive[d] # None /\ drive[d].pc = "step" /\ drive[d].at = "Validating" /\ UNCHANGED Rest
  BY DEF Preflight, At, Rest
<1>2. PICK to \in {"ReadyToSimulate", "Cancelled", "Failed"}, pc \in {"step", "release"} :
          Transition(d, to, NoPatch, pc)
  BY DEF Preflight
<1>3. to \in Phases /\ to \notin Prepared
  BY DEF Phases, Prepared
<1> QED BY <1>1, <1>2, <1>3, NoPatchIsPlain, PlainTransition

LEMMA DisableBroadcastInv ==
    ASSUME Inv, NEW d \in Drives, DisableBroadcast(d), UNCHANGED op PROVE Inv'
<1>1. /\ drive[d] # None /\ drive[d].pc = "step" /\ UNCHANGED Rest
      /\ drive[d].at \in Prepared /\ drive[d].at # "Signing"
  BY DEF DisableBroadcast, At, Rest, Prepared
<1>2. PICK to \in Prepared, pc \in {"step", "release"} : Transition(d, to, NoPatch, pc)
  BY DEF DisableBroadcast, Prepared
<1>3. to \in Phases
  BY DEF Phases, Prepared
<1> QED BY <1>1, <1>2, <1>3, NoPatchIsPlain, PlainTransition

LEMMA FailFromInv ==
    ASSUME Inv, NEW d \in Drives, FailFrom(d), UNCHANGED op PROVE Inv'
<1> DEFINE to == FailEdge(drive[d].at)
           pc == IF to = "Failed" THEN "release" ELSE "fail"
<1>1. /\ drive[d] # None /\ drive[d].pc = "fail" /\ UNCHANGED Rest
      /\ Transition(d, to, NoPatch, pc)
  BY DEF FailFrom, At, Rest
<1>2. /\ to \in {"Simulating", "AwaitingSignature", "Signing", "Failed"}
      /\ drive[d].at = "Signing" => to = "Failed"
  BY DEF FailEdge
<1>3. to \in Phases /\ to \notin Prepared
  BY <1>2 DEF Phases, Prepared
<1>4. drive[d].at = "Signing" => Signs(drive[d])
  BY <1>1 DEF Signs
<1> HIDE DEF to
<1>5. pc \in {"release", "fail"} /\ (to = "Failed" => pc = "release")
  OBVIOUS
<1> HIDE DEF pc
<1> QED BY <1>1, <1>2, <1>3, <1>4, <1>5, NoPatchIsPlain, PlainTransition

LEMMA FailFromSigningInv ==
    ASSUME Inv, NEW d \in Drives, FailFromSigning(d), UNCHANGED op PROVE Inv'
<1>1. drive[d] # None /\ drive[d].pc = "failsigning" /\ UNCHANGED Rest
  BY DEF FailFromSigning, At, Rest
<1>2. Signs(drive[d])
  BY <1>1 DEF Signs
<1>3. "Failed" \in Phases /\ "Failed" \notin Prepared
  BY DEF Phases, Prepared
<1> QED BY <1>1, <1>2, <1>3, NoPatchIsPlain, PlainTransition DEF FailFromSigning

LEMMA BeginSigningInv ==
    ASSUME Inv, NEW d \in Drives, BeginSigning(d), UNCHANGED op PROVE Inv'
<1>1. /\ drive[d] # None /\ drive[d].pc = "step" /\ drive[d].at = "AwaitingSignature"
      /\ UNCHANGED Rest
  BY DEF BeginSigning, At, Rest
<1>2. CASE Goto(d, "release") /\ UNCHANGED req
  <2>1. Kept
    BY <1>1, <1>2, RetreatKeeps DEF Rest
  <2> QED BY <1>1, <1>2, <2>1 DEF Kept, Inv, TypeOK, StoreTypeOK, OpsFit, Rest
<1>3. CASE Transition(d, "Signing", NoPatch, "firewall")
  <2>1. "Signing" \in Phases /\ "Signing" \notin Prepared
    BY DEF Phases, Prepared
  <2> QED BY <1>1, <1>3, <2>1, NoPatchIsPlain, PlainTransition
<1> QED BY <1>2, <1>3 DEF BeginSigning

-----------------------------------------------------------------------------
\* The edges that write an artifact.
LEMMA PersistPlanInv ==
    ASSUME Inv, NEW d \in Drives, PersistPlan(d), UNCHANGED op PROVE Inv'
<1> DEFINE t == drive[d]
           r == req[t.ex]
           patch == [NoPatch EXCEPT !.nonce = t.nonce]
           s == Patched(r, "Simulating", patch)
           u == [t EXCEPT !.pc = "simulate", !.at = "Simulating"]
<1>1. /\ t # None /\ t.pc = "simulating" /\ t \in Drive /\ t.ex \in Exec
      /\ UNCHANGED Rest /\ Transition(d, "Simulating", patch, "simulate")
  BY CallTypes DEF PersistPlan, At, Rest, Inv
<1>2. t.at = "ReadyToSimulate" /\ t.nonce \in Nonces /\ nonces[t.nonce] = t.ex
  BY <1>1 DEF Inv, CallsFit, CallFits
<1>3. ASSUME UpdateApplies(t.ex, t.at, "Simulating")
      PROVE  /\ s \in ExecutionRequestRow
             /\ RowFits(t.ex, s, asked[t.ex], nonces)
             /\ r.phase \notin BeforeNonce =>
                   s.phase \notin BeforeNonce /\ s.nonce = r.nonce
             /\ r.phase = "Signing" => Signs(t) /\ ~Signs(u)
             /\ CallFits(u, s, asked[t.ex], nonces)
  <2>1. r # None /\ r.phase = "ReadyToSimulate"
    BY <1>2, <1>3 DEF UpdateApplies
  <2>2. r \in ExecutionRequestRow /\ RowFits(t.ex, r, asked[t.ex], nonces)
    BY <1>1, <2>1, CallTypes DEF Inv, RowsFit
  <2>3. /\ patch.nonce = t.nonce /\ patch.epoch = None /\ patch.sim = None
        /\ patch.payload = None /\ patch.sig = None
    BY DEF NoPatch
  <2>4. t.nonce # None
    BY <1>2, StoreAssumption DEF Nonces
  <2> HIDE DEF patch
  <2>5. /\ s.phase = "Simulating" /\ s.nonce = t.nonce /\ s.sim = r.sim
        /\ s.payload = r.payload /\ s.sig = r.sig
    BY <2>3, <2>4 DEF Patched, Coalesce
  <2>6. s \in ExecutionRequestRow
    BY <1>2, <2>2, <2>3, PatchedType DEF Phases
  <2> HIDE DEF s
  <2>7. RowFits(t.ex, s, asked[t.ex], nonces)
    BY <1>2, <2>1, <2>2, <2>5
    DEF RowFits, Prepared, BeforeNonce, BeforePayload, BeforeSignature
  <2>8. s # None
    BY <2>6, StoreAssumption
  <2>9. u.pc = "simulate" /\ u.at = "Simulating" /\ u.nonce = t.nonce
    BY <1>1 DEF Drive
  <2> HIDE DEF u
  <2>10. CallFits(u, s, asked[t.ex], nonces)
    BY <1>2, <2>5, <2>8, <2>9 DEF CallFits, Signs, BeforeNonce
  <2> QED BY <2>1, <2>6, <2>7, <2>10 DEF BeforeNonce
<1>4. "Simulating" \in Phases /\ "simulate" \in Outside \cup Inside
  BY DEF Phases, Inside
<1> HIDE DEF patch
<1> QED BY <1>1, <1>3, <1>4, TransitionKeeps

\* The simulator's verdict is written and the call goes on or fails.
LEMMA SimulateInv ==
    ASSUME Inv, NEW d \in Drives, Simulate(d), UNCHANGED op PROVE Inv'
<1> DEFINE t == drive[d]
           r == req[t.ex]
<1>1. /\ t # None /\ t.pc = "simulate" /\ t \in Drive /\ t.ex \in Exec
      /\ UNCHANGED Rest
  BY CallTypes DEF Simulate, At, Rest, Inv
<1>2. t.at = "Simulating" /\ t.nonce \in Nonces /\ r.nonce = t.nonce
  BY <1>1 DEF Inv, CallsFit, CallFits
<1>3. CASE Goto(d, "fail") /\ UNCHANGED req
  <2>1. Kept
    BY <1>1, <1>2, <1>3, FailKeeps DEF Rest
  <2> QED BY <1>1, <1>3, <2>1 DEF Kept, Inv, TypeOK, StoreTypeOK, OpsFit, Rest
<1>4. ASSUME NEW to \in {"SimulationSucceeded", "SimulationFailed"},
             NEW sim \in {"ok", "reverted"}, NEW pc \in {"gas", "fail"},
             pc = "gas" => to = "SimulationSucceeded",
             Transition(d, to, [NoPatch EXCEPT !.sim = sim], pc)
      PROVE  Inv'
  <2> DEFINE patch == [NoPatch EXCEPT !.sim = sim]
             s == Patched(r, to, patch)
             u == [t EXCEPT !.pc = pc, !.at = to]
  <2>0. ASSUME UpdateApplies(t.ex, t.at, to)
        PROVE  /\ s \in ExecutionRequestRow
               /\ RowFits(t.ex, s, asked[t.ex], nonces)
               /\ r.phase \notin BeforeNonce =>
                     s.phase \notin BeforeNonce /\ s.nonce = r.nonce
               /\ r.phase = "Signing" => Signs(t) /\ ~Signs(u)
               /\ CallFits(u, s, asked[t.ex], nonces)
    <3>1. r # None /\ r.phase = "Simulating"
      BY <1>2, <2>0 DEF UpdateApplies
    <3>2. r \in ExecutionRequestRow /\ RowFits(t.ex, r, asked[t.ex], nonces)
      BY <1>1, <3>1, CallTypes DEF Inv, RowsFit
    <3>3. /\ patch.sim = sim /\ patch.epoch = None /\ patch.nonce = None
          /\ patch.payload = None /\ patch.sig = None
      BY DEF NoPatch
    <3> HIDE DEF patch
    <3>4. s.phase = to /\ s.nonce = r.nonce /\ s.payload = r.payload /\ s.sig = r.sig
      BY <3>3 DEF Patched, Coalesce
    <3>5. s \in ExecutionRequestRow
      BY <3>2, <3>3, PatchedType DEF Phases
    <3> HIDE DEF s
    <3>6. RowFits(t.ex, s, asked[t.ex], nonces)
      BY <3>1, <3>2, <3>4
      DEF RowFits, Prepared, BeforeNonce, BeforePayload, BeforeSignature
    <3>7. s # None
      BY <3>5, StoreAssumption
    <3>8. u.pc = pc /\ u.at = to /\ u.nonce = t.nonce
      BY <1>1 DEF Drive
    <3> HIDE DEF u
    <3>9. CallFits(u, s, asked[t.ex], nonces)
      BY <1>2, <1>4, <3>4, <3>7, <3>8 DEF CallFits, Signs, BeforeNonce
    <3> QED BY <3>1, <3>4, <3>5, <3>6, <3>9 DEF BeforeNonce
  <2>1. to \in Phases /\ pc \in Outside \cup Inside
    BY DEF Phases, Inside
  <2>2. Transition(d, to, patch, pc)
    BY <1>4
  <2> HIDE DEF patch
  <2> QED BY <1>1, <2>0, <2>1, <2>2, TransitionKeeps
<1> QED BY <1>3, <1>4 DEF Simulate

\* The payload commits to the nonce that the plan persisted.
LEMMA PriceGasInv ==
    ASSUME Inv, NEW d \in Drives, PriceGas(d), UNCHANGED op PROVE Inv'
<1> DEFINE t == drive[d]
           r == req[t.ex]
           patch == [NoPatch EXCEPT !.payload = t.nonce]
           s == Patched(r, "AwaitingSignature", patch)
           u == [t EXCEPT !.pc = "step", !.at = "AwaitingSignature"]
<1>1. /\ t # None /\ t.pc = "gas" /\ t \in Drive /\ t.ex \in Exec
      /\ UNCHANGED Rest
  BY CallTypes DEF PriceGas, At, Rest, Inv
<1>2. t.at = "SimulationSucceeded" /\ t.nonce \in Nonces /\ r.nonce = t.nonce
  BY <1>1 DEF Inv, CallsFit, CallFits
<1>3. CASE Goto(d, "fail") /\ UNCHANGED req
  <2>1. Kept
    BY <1>1, <1>2, <1>3, FailKeeps DEF Rest
  <2> QED BY <1>1, <1>3, <2>1 DEF Kept, Inv, TypeOK, StoreTypeOK, OpsFit, Rest
<1>4. ASSUME UpdateApplies(t.ex, t.at, "AwaitingSignature")
      PROVE  /\ s \in ExecutionRequestRow
             /\ RowFits(t.ex, s, asked[t.ex], nonces)
             /\ r.phase \notin BeforeNonce =>
                   s.phase \notin BeforeNonce /\ s.nonce = r.nonce
             /\ r.phase = "Signing" => Signs(t) /\ ~Signs(u)
             /\ CallFits(u, s, asked[t.ex], nonces)
  <2>1. r # None /\ r.phase = "SimulationSucceeded"
    BY <1>2, <1>4 DEF UpdateApplies
  <2>2. r \in ExecutionRequestRow /\ RowFits(t.ex, r, asked[t.ex], nonces)
    BY <1>1, <2>1, CallTypes DEF Inv, RowsFit
  <2>3. /\ patch.payload = t.nonce /\ patch.epoch = None /\ patch.sim = None
        /\ patch.nonce = None /\ patch.sig = None
    BY DEF NoPatch
  <2>4. t.nonce # None
    BY <1>2, StoreAssumption DEF Nonces
  <2> HIDE DEF patch
  <2>5. /\ s.phase = "AwaitingSignature" /\ s.nonce = r.nonce
        /\ s.payload = r.nonce /\ s.sig = r.sig
    BY <1>2, <2>3, <2>4 DEF Patched, Coalesce
  <2>6. s \in ExecutionRequestRow
    BY <1>2, <2>2, <2>3, PatchedType DEF Phases
  <2> HIDE DEF s
  <2>7. RowFits(t.ex, s, asked[t.ex], nonces)
    BY <2>1, <2>2, <2>5
    DEF RowFits, Prepared, BeforeNonce, BeforePayload, BeforeSignature
  <2>8. s # None
    BY <2>6, StoreAssumption
  <2>9. u.pc = "step"
    BY <1>1 DEF Drive
  <2> HIDE DEF u
  <2>10. CallFits(u, s, asked[t.ex], nonces)
    BY <2>8, <2>9 DEF CallFits, Signs
  <2> QED BY <2>1, <2>5, <2>6, <2>7, <2>10 DEF BeforeNonce
<1>5. "AwaitingSignature" \in Phases /\ "step" \in Outside \cup Inside
  BY DEF Phases, Inside
<1>6. CASE Transition(d, "AwaitingSignature", patch, "step")
  <2> HIDE DEF patch
  <2> QED BY <1>1, <1>4, <1>5, <1>6, TransitionKeeps
<1> QED BY <1>3, <1>6 DEF PriceGas

\* The signature that is persisted is the one of the row's own payload.
LEMMA PersistSignatureInv ==
    ASSUME Inv, NEW d \in Drives, PersistSignature(d), UNCHANGED op PROVE Inv'
<1> DEFINE t == drive[d]
           r == req[t.ex]
           patch == [NoPatch EXCEPT !.sig = r.payload]
           s == Patched(r, "SignatureVerified", patch)
           u == [t EXCEPT !.pc = "step", !.at = "SignatureVerified"]
<1>1. /\ t # None /\ t.pc = "verified" /\ t \in Drive /\ t.ex \in Exec
      /\ UNCHANGED Rest /\ Transition(d, "SignatureVerified", patch, "step")
  BY CallTypes DEF PersistSignature, At, Rest, Inv
<1>2. CallFits(t, r, asked[t.ex], nonces)
  BY <1>1 DEF Inv, CallsFit
<1>3. r # None /\ Signable(r) /\ asked[t.ex] = <<r.nonce>> /\ Signs(t)
  BY <1>1, <1>2 DEF CallFits, Signs
<1>4. r \in ExecutionRequestRow /\ RowFits(t.ex, r, asked[t.ex], nonces)
  BY <1>1, <1>3, CallTypes DEF Inv, RowsFit
<1>5. r.payload \in Nonces /\ r.payload = r.nonce /\ r.payload # None
  BY <1>3, <1>4 DEF Signable, RowFits, ExecutionRequestRow
<1>6. /\ patch.sig = r.payload /\ patch.epoch = None /\ patch.sim = None
      /\ patch.nonce = None /\ patch.payload = None
  BY DEF NoPatch
<1> HIDE DEF patch
<1>7. /\ s.phase = "SignatureVerified" /\ s.nonce = r.nonce /\ s.sim = r.sim
      /\ s.payload = r.payload /\ s.sig = r.nonce
  BY <1>5, <1>6 DEF Patched, Coalesce
<1>8. s \in ExecutionRequestRow
  BY <1>4, <1>5, <1>6, PatchedType DEF Phases
<1> HIDE DEF s
<1>9. RowFits(t.ex, s, asked[t.ex], nonces)
  BY <1>3, <1>4, <1>5, <1>7
  DEF RowFits, Signable, Prepared, BeforeNonce, BeforePayload, BeforeSignature
<1>10. s # None
  BY <1>8, StoreAssumption
<1>11. u.pc = "step"
  BY <1>1 DEF Drive
<1> HIDE DEF u
<1>12. ~Signs(u) /\ CallFits(u, s, asked[t.ex], nonces)
  BY <1>10, <1>11 DEF CallFits, Signs
<1>13. "SignatureVerified" \in Phases /\ "step" \in Outside \cup Inside
  BY DEF Phases, Inside
<1> QED BY <1>1, <1>3, <1>7, <1>8, <1>9, <1>12, <1>13, TransitionKeeps DEF s, u, BeforeNonce

\* The admin route moves no row that is being signed for.
LEMMA CancelExecutionInv ==
    ASSUME Inv, NEW e \in Exec, CancelExecution(e), UNCHANGED op PROVE Inv'
<1> DEFINE r == req[e]
           s == Patched(r, "Cancelled", NoPatch)
<1>1. /\ r # None /\ r.phase \in {"Discovered", "Validating", "ReadyToSimulate",
                                  "SimulationSucceeded", "AwaitingSignature"}
      /\ UNCHANGED <<nonces, lock, reorg, rebuilds, drive, now, asked, op>>
  BY DEF CancelExecution
<1>2. CanTransition(r.phase, "Cancelled")
  BY <1>1 DEF CanTransition, LegalSuccessors, IsTerminal
<1>3. req' = [req EXCEPT ![e] = s]
  BY <1>1, <1>2 DEF CancelExecution, UpdateExecutionPhase, UpdateApplies
<1>4. asked[e] = << >>
  BY <1>1 DEF Inv, RowsFit, RowFits, Prepared
<1>5. "Cancelled" \in Phases /\ "Cancelled" \notin Prepared
  BY DEF Phases, Prepared
<1>6. /\ s \in ExecutionRequestRow
      /\ RowFits(e, s, asked[e], nonces)
      /\ r.phase \notin BeforeNonce =>
            s.phase \notin BeforeNonce /\ s.nonce = r.nonce
  BY <1>1, <1>2, <1>4, <1>5, PlainEdge, NoPatchIsPlain
<1> HIDE DEF s
<1>7. /\ req' \in [Exec -> ExecutionRequestRow \cup {None}]
      /\ RowsFit'
      /\ \A c \in Drives :
            /\ drive[c] # None
            /\ drive[c].ex # e \/ ~Signs(drive[c])
            => CallFits(drive[c], req'[drive[c].ex], asked[drive[c].ex], nonces)
  BY <1>1, <1>3, <1>6, RowKeeps
<1>8. \A c \in Drives : drive[c] # None /\ drive[c].ex = e => ~Signs(drive[c])
  BY <1>1 DEF Inv, CallsFit, CallFits
<1>9. CallsFit'
  BY <1>1, <1>7, <1>8 DEF CallsFit
<1>10. OneSigner' /\ OpsFit'
  BY <1>1 DEF Inv, OneSigner, OpsFit
<1>11. TypeOK'
  BY <1>1, <1>7 DEF Inv, TypeOK, StoreTypeOK
<1> QED BY <1>7, <1>9, <1>10, <1>11 DEF Inv

-----------------------------------------------------------------------------
\* The operations on the projection leave rows, nonces, calls and signer alone.
OpStore == <<req, nonces, drive, asked>>

LEMMA OpMoves ==
    ASSUME Inv, NEW o \in Ops, op[o] # None, NEW pc, OpGoto(o, pc) \/ OpEnd(o),
           pc \in {"request", "cleanup", "insert", "contended", "start", "work", "release"}
    PROVE  op' \in [Ops -> Operation \cup {None}] /\ OpsFit'
<1>1. op \in [Ops -> Operation \cup {None}] /\ op[o] \in Operation
  BY DEF Inv, TypeOK
<1>2. CASE OpEnd(o)
  BY <1>1, <1>2 DEF OpEnd, Inv, OpsFit
<1>3. CASE OpGoto(o, pc)
  <2> DEFINE p == [op[o] EXCEPT !.pc = pc]
  <2>1. op' = [op EXCEPT ![o] = p]
    BY <1>3 DEF OpGoto
  <2>2. p \in Operation /\ p.epoch = op[o].epoch
    BY <1>1 DEF Operation
  <2> HIDE DEF p
  <2>3. \A q \in Ops : op'[q] = IF q = o THEN p ELSE op[q]
    BY <1>1, <2>1
  <2>4. OpsFit'
    BY <2>2, <2>3 DEF Inv, OpsFit
  <2> QED BY <1>1, <2>1, <2>2, <2>4
<1> QED BY <1>2, <1>3

\* An operation begins with an epoch of its kind.
LEMMA OpBegins ==
    ASSUME Inv, NEW o \in Ops, NEW p \in Operation, op' = [op EXCEPT ![o] = p],
           o \in Recoverers => p.epoch \in Epochs,
           o \in Rebuilders => p.epoch <= MaxEpoch
    PROVE  op' \in [Ops -> Operation \cup {None}] /\ OpsFit'
<1>1. op \in [Ops -> Operation \cup {None}]
  BY DEF Inv, TypeOK
<1>2. \A q \in Ops : op'[q] = IF q = o THEN p ELSE op[q]
  BY <1>1
<1> QED BY <1>1, <1>2 DEF Inv, OpsFit

\* What Inv' needs of a step of an operation.
LEMMA OpKeeps ==
    ASSUME Inv, UNCHANGED OpStore, op' \in [Ops -> Operation \cup {None}], OpsFit',
           lock' \in OperationLock \cup {None}, reorg' \in ReorgRecoveryState \cup {None},
           rebuilds' \in [Epochs -> RebuildPhases \cup {None}], now' \in Nat
    PROVE  Inv'
<1>1. RowsFit' /\ CallsFit' /\ OneSigner'
  BY DEF Inv, RowsFit, CallsFit, OneSigner, OpStore
<1> QED BY <1>1 DEF Inv, TypeOK, StoreTypeOK, OpStore

LEMMA OpStartInv ==
    ASSUME Inv, NEW o \in Ops, OpStart(o) PROVE Inv'
<1>1. UNCHANGED OpStore /\ UNCHANGED <<lock, reorg, rebuilds>>
  BY DEF OpStart, Recover, Rebuild, Reconcile, storeVars, orchestratorVars, OpStore
<1>2. /\ lock \in OperationLock \cup {None} /\ reorg \in ReorgRecoveryState \cup {None}
      /\ rebuilds \in [Epochs -> RebuildPhases \cup {None}]
      /\ now \in Nat /\ MaxEpoch \in Nat
  BY StoreAssumption DEF Inv, TypeOK, StoreTypeOK
<1>3. CASE Recover(o)
  <2> DEFINE found == IF reorg = None THEN None ELSE reorg.phase
             epoch == CASE reorg = None -> 1
                        [] found = "Active" -> reorg.epoch
                        [] OTHER -> reorg.epoch + 1
             p == [epoch |-> epoch, pc |-> "cleanup", found |-> found]
  <2>1. o \in Recoverers /\ epoch <= MaxEpoch /\ op' = [op EXCEPT ![o] = p] /\ now' = now
    BY <1>3 DEF Recover
  <2>2. found \in {"Active", "Recovered", "Failed", "Manual", None}
    BY <1>2 DEF ReorgRecoveryState
  <2>3. epoch \in Nat /\ epoch >= 1
    <3>1. CASE reorg = None
      BY <3>1, StoreAssumption DEF RebuildPhases
    <3>2. CASE reorg # None
      <4>1. reorg.epoch \in Nat /\ reorg.epoch >= 1
        BY <1>2, <3>2 DEF ReorgRecoveryState, Epochs
      <4> QED BY <3>2, <4>1
    <3> QED BY <3>1, <3>2
  <2> HIDE DEF found, epoch
  <2>4. p \in Operation /\ p.epoch \in Epochs
    BY <1>2, <2>1, <2>2, <2>3 DEF Operation, Epochs
  <2>5. o \notin Rebuilders
    BY <2>1, OperationsAssumption
  <2> HIDE DEF p
  <2>6. op' \in [Ops -> Operation \cup {None}] /\ OpsFit'
    BY <2>1, <2>4, <2>5, OpBegins
  <2> QED BY <1>1, <1>2, <2>1, <2>6, OpKeeps
<1>4. CASE Rebuild(o)
  <2> DEFINE epoch == IF LatestRebuildIs({"Active"}) THEN LatestRebuild ELSE LatestRebuild + 1
             p == [epoch |-> epoch, pc |-> "request", found |-> None]
  <2>1. o \in Rebuilders /\ epoch <= MaxEpoch /\ op' = [op EXCEPT ![o] = p] /\ now' = now
    BY <1>4 DEF Rebuild
  <2>2. epoch \in Nat
    BY LatestRebuildIsNat DEF Inv
  <2> HIDE DEF epoch
  <2>3. p \in Operation /\ p.epoch <= MaxEpoch
    BY <2>1, <2>2 DEF Operation
  <2>4. o \notin Recoverers
    BY <2>1, OperationsAssumption
  <2> HIDE DEF p
  <2>5. op' \in [Ops -> Operation \cup {None}] /\ OpsFit'
    BY <2>1, <2>3, <2>4, OpBegins
  <2> QED BY <1>1, <1>2, <2>1, <2>5, OpKeeps
<1>5. CASE Reconcile(o)
  <2> DEFINE p == [epoch |-> now, pc |-> "cleanup", found |-> None]
  <2>1. o \in Reconcilers /\ op' = [op EXCEPT ![o] = p] /\ now' \in Nat
    BY <1>2, <1>5 DEF Reconcile, ClockMoves
  <2>2. p \in Operation
    BY <1>2 DEF Operation
  <2>3. o \notin Recoverers /\ o \notin Rebuilders
    BY <2>1, OperationsAssumption
  <2> HIDE DEF p
  <2>4. op' \in [Ops -> Operation \cup {None}] /\ OpsFit'
    BY <2>1, <2>2, <2>3, OpBegins
  <2> QED BY <1>1, <1>2, <2>1, <2>4, OpKeeps
<1> QED BY <1>3, <1>4, <1>5 DEF OpStart

LEMMA OpStepInv ==
    ASSUME Inv, NEW o \in Ops, OpStep(o) \/ OpAbandon(o) PROVE Inv'
<1> USE DEF storeVars, orchestratorVars, OpStore
<1>1. /\ lock \in OperationLock \cup {None} /\ reorg \in ReorgRecoveryState \cup {None}
      /\ rebuilds \in [Epochs -> RebuildPhases \cup {None}] /\ now \in Nat
      /\ op[o] # None => op[o] \in Operation /\ op[o].epoch \in Nat
  BY DEF Inv, TypeOK, StoreTypeOK, Operation
<1>2. CASE RecoverStart(o) \/ RecoverWork(o)
  <2>1. op[o] # None /\ o \in Recoverers
    BY <1>2 DEF RecoverStart, RecoverWork, OpAt
  <2>2. op[o].epoch \in Epochs
    BY <2>1 DEF Inv, OpsFit
  <2>3. PICK pc \in {"release", "work"} : OpGoto(o, pc)
    BY <1>2 DEF RecoverStart, RecoverWork
  <2>4. op' \in [Ops -> Operation \cup {None}] /\ OpsFit'
    BY <2>1, <2>3, OpMoves
  <2>5. reorg' \in ReorgRecoveryState \cup {None}
    BY <1>1, <1>2, <2>2 DEF RecoverStart, RecoverWork, ReorgRecoveryState
  <2>6. UNCHANGED OpStore /\ UNCHANGED <<lock, rebuilds, now>>
    BY <1>2 DEF RecoverStart, RecoverWork
  <2> QED BY <1>1, <2>4, <2>5, <2>6, OpKeeps
<1>3. CASE RebuildRequested(o) \/ RebuildContended(o) \/ RebuildStart(o) \/ RebuildWork(o)
  <2>1. /\ op[o] # None
        /\ \E phase \in RebuildPhases, pc \in {"cleanup", None, "work", "release"} :
              UpsertRebuild(o, phase, pc)
    BY <1>3 DEF RebuildRequested, RebuildContended, RebuildStart, RebuildWork, OpAt,
                RebuildPhases
  <2>2. PICK phase \in RebuildPhases, pc \in {"cleanup", None, "work", "release"} :
              UpsertRebuild(o, phase, pc)
    BY <2>1
  <2>3. rebuilds' \in [Epochs -> RebuildPhases \cup {None}]
    BY <1>1, <2>2 DEF UpsertRebuild
  <2>4. UNCHANGED OpStore /\ UNCHANGED <<lock, reorg, now>>
    BY <2>2 DEF UpsertRebuild
  <2>5. OpEnd(o) \/ \E x \in {"cleanup", "work", "release"} : OpGoto(o, x)
    BY <2>2 DEF UpsertRebuild
  <2>6. op' \in [Ops -> Operation \cup {None}] /\ OpsFit'
    BY <2>1, <2>5, OpMoves
  <2> QED BY <1>1, <2>3, <2>4, <2>6, OpKeeps
<1>4. CASE ReconcileWork(o) \/ OpAbandon(o)
  <2>1. /\ op[o] # None /\ UNCHANGED OpStore /\ UNCHANGED <<lock, reorg, rebuilds, now>>
        /\ OpEnd(o) \/ OpGoto(o, "release")
    BY <1>4 DEF ReconcileWork, OpAbandon, OpAt
  <2>2. op' \in [Ops -> Operation \cup {None}] /\ OpsFit'
    BY <2>1, OpMoves
  <2> QED BY <1>1, <2>1, <2>2, OpKeeps
<1>5. CASE OpCleanup(o) \/ OpAcquire(o) \/ GuardRelease(o)
  <2>1. op[o] # None /\ UNCHANGED OpStore /\ UNCHANGED <<reorg, rebuilds, now>>
    BY <1>5 DEF OpCleanup, OpAcquire, GuardRelease, OpAt
  <2>2. OpEnd(o) \/ \E x \in {"insert", "work", "start", "contended"} : OpGoto(o, x)
    BY <1>5 DEF OpCleanup, OpAcquire, GuardRelease
  <2>3. op' \in [Ops -> Operation \cup {None}] /\ OpsFit'
    BY <2>1, <2>2, OpMoves
  <2>4. KindOf(o) \in Operations
    BY DEF KindOf, Operations
  <2>5. CASE OpCleanup(o)
    <3>1. lock' \in OperationLock \cup {None}
      BY <1>1, <2>5 DEF OpCleanup, CleanupLock
    <3> QED BY <1>1, <2>1, <2>3, <3>1, OpKeeps
  <2>6. CASE OpAcquire(o)
    <3>1. lock' \in OperationLock \cup {None}
      BY <1>1, <2>1, <2>4, <2>6 DEF OpAcquire, InsertLock, OperationLock
    <3> QED BY <1>1, <2>1, <2>3, <3>1, OpKeeps
  <2>7. CASE GuardRelease(o)
    <3>1. lock' \in OperationLock \cup {None}
      BY <1>1, <2>7 DEF GuardRelease, ReleaseOperationLock
    <3> QED BY <1>1, <2>1, <2>3, <3>1, OpKeeps
  <2> QED BY <1>5, <2>5, <2>6, <2>7
<1> QED BY <1>2, <1>3, <1>4, <1>5 DEF OpStep

-----------------------------------------------------------------------------
LEMMA InvStep == Inv /\ [Next]_vars => Inv'
<1> SUFFICES ASSUME Inv, [Next]_vars PROVE Inv'
  OBVIOUS
<1>1. ASSUME NEW d \in Drives, NEW e \in Exec, NEW i \in BOOLEAN, Call(d, e, i), UNCHANGED op
      PROVE  Inv'
  BY <1>1, CallInv
<1>2. ASSUME NEW d \in Drives, DriveStep(d), UNCHANGED op
      PROVE  Inv'
  BY <1>2, UpsertSeedRowInv, LoadInv, CleanupInv, AcquireInv, EnterInv, DiscoverInv,
     PreflightInv, MissingIntentInv, PlanAndCountInv, ReserveNonceInv, PersistPlanInv,
     SimulateInv, PriceGasInv, BeginSigningInv, FirewallInv, SignInv, PersistSignatureInv,
     DisableBroadcastInv, FailFromInv, FailFromSigningInv, ReleaseInv
  DEF DriveStep
<1>3. ASSUME NEW d \in Drives, StoreError(d) \/ Abandon(d), UNCHANGED op
      PROVE  Inv'
  BY <1>3, StoreErrorInv, AbandonInv
<1>4. ASSUME NEW e \in Exec, CancelExecution(e), UNCHANGED op
      PROVE  Inv'
  BY <1>4, CancelExecutionInv
<1>5. ASSUME NEW o \in Ops, OpStart(o) \/ OpStep(o) \/ OpAbandon(o)
      PROVE  Inv'
  BY <1>5, OpStartInv, OpStepInv
<1>6. CASE UNCHANGED vars
  BY <1>6 DEF vars, storeVars, Inv, TypeOK, StoreTypeOK, RowsFit, CallsFit, OneSigner, OpsFit
<1> QED BY <1>1, <1>2, <1>3, <1>4, <1>5, <1>6 DEF Next, OrchestratorNext

\* The strengthened invariant holds in every reachable state.
THEOREM Invariant == Spec => []Inv
BY InvInit, InvStep, PTL DEF Spec

\* Rows, reserved nonces, lock, recovery, rebuilds, calls, signer requests and
\* operations keep their types.
THEOREM TypeCorrect == Spec => []TypeOK
<1>1. Inv => TypeOK
  BY DEF Inv
<1> QED BY <1>1, Invariant, PTL

\* A nonce on a row is reserved for that row, however prepare, resume, cancel,
\* hang-ups and failing store calls interleave.
THEOREM NonceIsOwnedCorrect == Spec => []NonceIsOwned
<1>1. Inv => NonceIsOwned
  BY DEF Inv, RowsFit, RowFits, NonceIsOwned
<1> QED BY <1>1, Invariant, PTL

\* run_step asks the signer at most once in the life of an execution.
THEOREM SignedAtMostOnceCorrect == Spec => []SignedAtMostOnce
<1>1. ASSUME Inv, NEW e \in Exec PROVE Len(asked[e]) <= 1
  <2>1. asked[e] = << >> \/ asked[e] = <<req[e].nonce>>
    BY <1>1 DEF Inv, RowsFit, RowFits
  <2>2. CASE asked[e] = << >>
    BY <2>2
  <2>3. CASE asked[e] = <<req[e].nonce>>
    <3>1. Len(<<req[e].nonce>>) = 1
      OBVIOUS
    <3>2. Len(asked[e]) = 1
      BY <2>3, <3>1, Zenon
    <3> QED BY <3>2
  <2> QED BY <2>1, <2>2, <2>3
<1>2. Inv => SignedAtMostOnce
  BY <1>1 DEF SignedAtMostOnce
<1> QED BY <1>2, Invariant, PTL

\* cancel_execution_request, which takes no lock, never cancels an execution
\* the signer was asked about.
THEOREM CancelledIsUnsignedCorrect == Spec => []CancelledIsUnsigned
<1>1. Inv => CancelledIsUnsigned
  BY DEF Inv, RowsFit, RowFits, CancelledIsUnsigned, Prepared
<1> QED BY <1>1, Invariant, PTL

\* What the orchestrator leaves for the broadcast pipeline: one signature, of
\* the payload of the row's own nonce, after a simulation that succeeded.
THEOREM PreparedIsSignedCorrect == Spec => []PreparedIsSigned
<1>1. Inv => PreparedIsSigned
  BY DEF Inv, RowsFit, RowFits, PreparedIsSigned, Prepared, Signable
<1> QED BY <1>1, Invariant, PTL

-----------------------------------------------------------------------------
\* What ArtifactsAreWrittenOnce allows of a step.
WrittenOnce ==
    \A e \in Exec : req[e] # None =>
        /\ req[e].nonce # None => req'[e].nonce = req[e].nonce
        /\ req[e].payload # None => req'[e].payload = req[e].payload
        /\ req[e].sig # None => req'[e].sig = req[e].sig

\* A patch may write an artifact only on an edge out of a phase in which no
\* row carries it yet.
LEMMA TransitionWritesOnce ==
    ASSUME Inv, NEW d \in Drives, drive[d] # None, NEW to, NEW patch, NEW pc,
           Transition(d, to, patch, pc),
           patch.nonce = None \/ drive[d].at \in BeforeNonce,
           patch.payload = None \/ drive[d].at \in BeforePayload,
           patch.sig = None \/ drive[d].at \in BeforeSignature
    PROVE  WrittenOnce
<1> DEFINE t == drive[d]
           r == req[t.ex]
           s == Patched(r, to, patch)
<1>1. t.ex \in Exec /\ req \in [Exec -> ExecutionRequestRow \cup {None}]
  BY CallTypes DEF Inv, TypeOK, StoreTypeOK
<1>2. CASE ~UpdateApplies(t.ex, t.at, to)
  BY <1>2 DEF Transition, UpdateExecutionPhase, WrittenOnce
<1>3. CASE UpdateApplies(t.ex, t.at, to)
  <2>1. r # None /\ r.phase = t.at /\ req' = [req EXCEPT ![t.ex] = s]
    BY <1>3 DEF Transition, UpdateExecutionPhase, UpdateApplies
  <2>2. RowFits(t.ex, r, asked[t.ex], nonces)
    BY <1>1, <2>1 DEF Inv, RowsFit
  <2>3. /\ r.nonce # None => s.nonce = r.nonce
        /\ r.payload # None => s.payload = r.payload
        /\ r.sig # None => s.sig = r.sig
    BY <2>1, <2>2 DEF RowFits, Patched, Coalesce
  <2> HIDE DEF s
  <2>4. \A e \in Exec : req'[e] = IF e = t.ex THEN s ELSE req[e]
    BY <1>1, <2>1
  <2> QED BY <2>3, <2>4 DEF WrittenOnce
<1> QED BY <1>2, <1>3

LEMMA StepWritesOnce ==
    ASSUME Inv, [Next]_vars PROVE WrittenOnce
<1>1. ASSUME UNCHANGED req PROVE WrittenOnce
  BY <1>1 DEF WrittenOnce
<1>2. ASSUME NEW d \in Drives, DriveStep(d) PROVE WrittenOnce
  <2>1. CASE \/ Load(d) \/ Cleanup(d) \/ Acquire(d) \/ Enter(d) \/ MissingIntent(d)
             \/ PlanAndCount(d) \/ ReserveNonce(d) \/ Firewall(d) \/ Sign(d) \/ Release(d)
    BY <1>1, <2>1 DEF Load, Cleanup, Acquire, Enter, MissingIntent, PlanAndCount,
                      ReserveNonce, Firewall, Sign, Release, storeVars
  <2>2. CASE UpsertSeedRow(d)
    <3>1. drive[d].ex \in Exec /\ req \in [Exec -> ExecutionRequestRow \cup {None}]
      BY <2>2, CallTypes DEF UpsertSeedRow, At, Inv, TypeOK, StoreTypeOK
    <3> QED BY <2>2, <3>1 DEF UpsertSeedRow, InsertExecutionRequest, WrittenOnce
  <2>3. CASE Discover(d)
    <3>1. PICK patch : /\ patch = [NoPatch EXCEPT !.epoch = drive[d].epoch]
                       /\ Transition(d, "Validating", patch, "step")
      BY <2>3 DEF Discover
    <3>2. patch.nonce = None /\ patch.payload = None /\ patch.sig = None
      BY <3>1 DEF NoPatch
    <3>3. drive[d] # None
      BY <2>3 DEF Discover, At
    <3> QED BY <3>1, <3>2, <3>3, TransitionWritesOnce
  <2>4. ASSUME NEW to, NEW pc, drive[d] # None, Transition(d, to, NoPatch, pc) PROVE WrittenOnce
    <3>1. NoPatch.nonce = None /\ NoPatch.payload = None /\ NoPatch.sig = None
      BY DEF NoPatch
    <3> QED BY <2>4, <3>1, TransitionWritesOnce
  <2>5. CASE \/ Preflight(d) \/ BeginSigning(d) \/ DisableBroadcast(d) \/ FailFrom(d)
             \/ FailFromSigning(d)
    BY <1>1, <2>4, <2>5 DEF Preflight, BeginSigning, DisableBroadcast, FailFrom,
                            FailFromSigning, At
  <2>6. CASE PersistPlan(d)
    <3>1. PICK patch : /\ patch = [NoPatch EXCEPT !.nonce = drive[d].nonce]
                       /\ Transition(d, "Simulating", patch, "simulate")
      BY <2>6 DEF PersistPlan
    <3>2. patch.payload = None /\ patch.sig = None
      BY <3>1 DEF NoPatch
    <3>3. drive[d] # None /\ drive[d].at \in BeforeNonce
      BY <2>6 DEF PersistPlan, At, Inv, CallsFit, CallFits, BeforeNonce
    <3> QED BY <3>1, <3>2, <3>3, TransitionWritesOnce
  <2>7. CASE Simulate(d)
    <3>1. ASSUME NEW to, NEW sim, NEW pc, Transition(d, to, [NoPatch EXCEPT !.sim = sim], pc)
          PROVE  WrittenOnce
      <4>1. PICK patch : /\ patch = [NoPatch EXCEPT !.sim = sim] /\ Transition(d, to, patch, pc)
        BY <3>1
      <4>2. patch.nonce = None /\ patch.payload = None /\ patch.sig = None
        BY <4>1 DEF NoPatch
      <4>3. drive[d] # None
        BY <2>7 DEF Simulate, At
      <4> QED BY <4>1, <4>2, <4>3, TransitionWritesOnce
    <3> QED BY <1>1, <2>7, <3>1 DEF Simulate
  <2>8. CASE PriceGas(d)
    <3>1. CASE UNCHANGED req
      BY <1>1, <3>1
    <3>2. CASE Transition(d, "AwaitingSignature", [NoPatch EXCEPT !.payload = drive[d].nonce], "step")
      <4>1. PICK patch : /\ patch = [NoPatch EXCEPT !.payload = drive[d].nonce]
                         /\ Transition(d, "AwaitingSignature", patch, "step")
        BY <3>2
      <4>2. patch.nonce = None /\ patch.sig = None
        BY <4>1 DEF NoPatch
      <4>3. drive[d] # None /\ drive[d].at \in BeforePayload
        BY <2>8 DEF PriceGas, At, Inv, CallsFit, CallFits, BeforePayload
      <4> QED BY <4>1, <4>2, <4>3, TransitionWritesOnce
    <3> QED BY <2>8, <3>1, <3>2 DEF PriceGas
  <2>9. CASE PersistSignature(d)
    <3>1. PICK patch : /\ patch = [NoPatch EXCEPT !.sig = req[drive[d].ex].payload]
                       /\ Transition(d, "SignatureVerified", patch, "step")
      BY <2>9 DEF PersistSignature
    <3>2. patch.nonce = None /\ patch.payload = None
      BY <3>1 DEF NoPatch
    <3>3. drive[d] # None /\ drive[d].at \in BeforeSignature
      BY <2>9 DEF PersistSignature, At, Inv, CallsFit, CallFits, Signs, BeforeSignature
    <3> QED BY <3>1, <3>2, <3>3, TransitionWritesOnce
  <2> QED BY <1>2, <2>1, <2>2, <2>3, <2>5, <2>6, <2>7, <2>8, <2>9 DEF DriveStep
<1>3. ASSUME NEW e \in Exec, CancelExecution(e) PROVE WrittenOnce
  <2>1. req \in [Exec -> ExecutionRequestRow \cup {None}]
    BY DEF Inv, TypeOK, StoreTypeOK
  <2> QED BY <1>1, <1>3, <2>1
      DEF CancelExecution, UpdateExecutionPhase, Patched, Coalesce, NoPatch, WrittenOnce
<1>4. ASSUME NEW d \in Drives, NEW e \in Exec, NEW i \in BOOLEAN, Call(d, e, i) PROVE WrittenOnce
  BY <1>1, <1>4 DEF Call, storeVars
<1>5. ASSUME NEW d \in Drives, StoreError(d) \/ Abandon(d) PROVE WrittenOnce
  BY <1>1, <1>5 DEF StoreError, Abandon, storeVars
<1>6. ASSUME NEW o \in Ops, OpStart(o) \/ OpStep(o) \/ OpAbandon(o) PROVE WrittenOnce
  <2>1. UNCHANGED req
    BY <1>6 DEF OpStart, Recover, Rebuild, Reconcile, OpStep, RecoverStart, RecoverWork,
        RebuildRequested, RebuildContended, RebuildStart, RebuildWork, UpsertRebuild,
        ReconcileWork, OpCleanup, OpAcquire, GuardRelease, OpAbandon, storeVars
  <2> QED BY <1>1, <2>1
<1>7. CASE UNCHANGED vars
  BY <1>1, <1>7 DEF vars, storeVars
<1> QED BY <1>2, <1>3, <1>4, <1>5, <1>6, <1>7 DEF Next, OrchestratorNext

\* No repeated or concurrent prepare exchanges the nonce, the payload or the
\* signature that update_execution_phase has put on a row.
THEOREM ArtifactsAreWrittenOnceCorrect == Spec => ArtifactsAreWrittenOnce
<1>1. Inv /\ [Next]_vars => [WrittenOnce]_vars
  BY StepWritesOnce
<1> QED BY <1>1, Invariant, PTL DEF Spec, ArtifactsAreWrittenOnce, WrittenOnce

-----------------------------------------------------------------------------
(***************************************************************************)
(* The operation lock.  Its holder is named by an epoch.  Epochs read from *)
(* the clock lie above the counters of recoveries and rebuilds, but two    *)
(* calls may read the same millisecond.  Whoever was let in keeps the lock *)
(* until an execution of its own epoch is finished, which lets the cleanup *)
(* delete it; only then can a second call of this epoch get in, whose      *)
(* release takes away every lock of the epoch.                             *)
(***************************************************************************)
Epoched(d) == drive[d] # None /\ drive[d].pc \notin {"seed", "load", "cleanup"}
Ticking(o) == o \in Reconcilers /\ op[o] # None

EpochsFit ==
    /\ now > MaxEpoch
    /\ \A d \in Drives : Epoched(d) => drive[d].epoch > MaxEpoch
    /\ \A o \in Ops : Ticking(o) => op[o].epoch > MaxEpoch

\* A call, a reconciliation that was given the lock.
Entered(d) == drive[d] # None /\ drive[d].pc \in Inside
Holding(o) == o \in Reconcilers /\ op[o] # None /\ op[o].pc \in {"work", "release"}

HeldOrFinished(kind, k) == lock = [op |-> kind, epoch |-> k] \/ FinishedUnder(k)

CallsHold == \A d \in Drives : Entered(d) => HeldOrFinished("EXECUTION", drive[d].epoch)
TicksHold == \A o \in Ops : Holding(o) => HeldOrFinished("RECONCILIATION", op[o].epoch)

\* Two calls of one epoch are inside only once an execution of it is finished.
TwinsFinished ==
    \A c, d \in Drives :
        Entered(c) /\ Entered(d) /\ c # d /\ drive[c].epoch = drive[d].epoch =>
            FinishedUnder(drive[d].epoch)

LockInv == EpochsFit /\ CallsHold /\ TicksHold /\ TwinsFinished

\* Nobody takes an epoch, and no row leaves a terminal phase.
CallCalm(d) == drive'[d] # None /\ drive'[d].pc \notin {"seed", "load", "cleanup"} =>
    Epoched(d) /\ drive'[d].epoch = drive[d].epoch

OpCalm(o) == op'[o] # None /\ o \in Reconcilers =>
    op[o] # None /\ op'[o].epoch = op[o].epoch

RowEnds(e) == req[e] # None /\ IsTerminal(req[e].phase) => req'[e] = req[e]

CallsCalm == \A d \in Drives : CallCalm(d)
OpsCalm == \A o \in Ops : OpCalm(o)
RowsCalm == \A e \in Exec : RowEnds(e)

LEMMA CalmEpochs ==
    ASSUME EpochsFit, CallsCalm, OpsCalm, now' = now
    PROVE  EpochsFit'
<1>1. \A d \in Drives : Epoched(d)' => Epoched(d) /\ drive'[d].epoch = drive[d].epoch
  BY DEF CallsCalm, CallCalm, Epoched
<1>2. \A o \in Ops : Ticking(o)' => Ticking(o) /\ op'[o].epoch = op[o].epoch
  BY DEF OpsCalm, OpCalm, Ticking
<1> QED BY <1>1, <1>2 DEF EpochsFit

\* What is finished stays so: the excuse of LiveDriveHoldsLock is permanent.
LEMMA FinishedStays ==
    ASSUME RowsCalm, NEW k, FinishedUnder(k)
    PROVE  FinishedUnder(k)'
<1>1. PICK e \in Exec : req[e] # None /\ req[e].epoch = k /\ IsTerminal(req[e].phase)
  BY DEF FinishedUnder
<1>2. req'[e] = req[e]
  BY <1>1 DEF RowsCalm, RowEnds
<1> QED BY <1>1, <1>2 DEF FinishedUnder

\* The cleanup deletes a lock only once an execution of its epoch is finished,
\* and never that of a reconciliation.
LEMMA CleanupSpares ==
    ASSUME CleanupLock, RowsCalm, NEW kind \in {"EXECUTION", "RECONCILIATION"}, NEW k,
           HeldOrFinished(kind, k)
    PROVE  HeldOrFinished(kind, k)'
<1>1. CASE FinishedUnder(k)
  BY <1>1, FinishedStays DEF HeldOrFinished
<1>2. CASE lock = [op |-> kind, epoch |-> k] /\ ~LockIsStale
  BY <1>2 DEF CleanupLock, HeldOrFinished
<1>3. CASE lock = [op |-> kind, epoch |-> k] /\ LockIsStale
  <2>1. lock.op = kind /\ lock.epoch = k
    BY <1>3
  <2>2. \E e \in Exec : req[e] # None /\ req[e].epoch = lock.epoch /\ IsTerminal(req[e].phase)
    BY <1>3, <2>1 DEF LockIsStale
  <2>3. FinishedUnder(k)
    BY <2>1, <2>2 DEF FinishedUnder
  <2> QED BY <2>3, FinishedStays DEF HeldOrFinished
<1> QED BY <1>1, <1>2, <1>3 DEF HeldOrFinished

\* A step in which nobody enters the lock or starts to work.
Settled == /\ \A d \in Drives : Entered(d)' => Entered(d)
           /\ \A o \in Ops : Holding(o)' => Holding(o)

\* Whoever is inside after such a step was so before, under the same epoch.
LEMMA SettledWas ==
    ASSUME CallsCalm, OpsCalm, Settled
    PROVE  /\ \A d \in Drives : Entered(d)' => Entered(d) /\ drive'[d].epoch = drive[d].epoch
           /\ \A o \in Ops : Holding(o)' => Holding(o) /\ op'[o].epoch = op[o].epoch
<1>1. \A d \in Drives : Entered(d)' => drive'[d].epoch = drive[d].epoch
  BY DEF Entered, CallsCalm, CallCalm, Inside
<1>2. \A o \in Ops : Holding(o)' => op'[o].epoch = op[o].epoch
  BY DEF OpsCalm, OpCalm, Holding
<1> QED BY <1>1, <1>2 DEF Settled

\* What the lock invariant needs of a settled step.
LEMMA SettledKeepsLock ==
    ASSUME LockInv, CallsCalm, OpsCalm, RowsCalm, Settled, EpochsFit',
           \A d \in Drives : Entered(d)' => \A k :
               k = drive[d].epoch /\ HeldOrFinished("EXECUTION", k) => HeldOrFinished("EXECUTION", k)',
           \A o \in Ops : Holding(o)' => \A k :
               k = op[o].epoch /\ HeldOrFinished("RECONCILIATION", k) =>
                   HeldOrFinished("RECONCILIATION", k)'
    PROVE  LockInv'
<1>1. CallsHold'
  <2> SUFFICES ASSUME NEW d \in Drives, Entered(d)'
               PROVE  HeldOrFinished("EXECUTION", drive[d].epoch)'
    BY DEF CallsHold
  <2>1. PICK k : k = drive[d].epoch /\ drive'[d].epoch = k
    BY SettledWas
  <2>2. HeldOrFinished("EXECUTION", k)'
    BY <2>1, SettledWas DEF LockInv, CallsHold
  <2> QED BY <2>1, <2>2 DEF HeldOrFinished, FinishedUnder
<1>2. TicksHold'
  <2> SUFFICES ASSUME NEW o \in Ops, Holding(o)'
               PROVE  HeldOrFinished("RECONCILIATION", op[o].epoch)'
    BY DEF TicksHold
  <2>1. PICK k : k = op[o].epoch /\ op'[o].epoch = k
    BY SettledWas
  <2>2. HeldOrFinished("RECONCILIATION", k)'
    BY <2>1, SettledWas DEF LockInv, TicksHold
  <2> QED BY <2>1, <2>2 DEF HeldOrFinished, FinishedUnder
<1>3. TwinsFinished'
  <2> SUFFICES ASSUME NEW c \in Drives, NEW d \in Drives, Entered(c)', Entered(d)', c # d,
                      drive'[c].epoch = drive'[d].epoch
               PROVE  FinishedUnder(drive[d].epoch)'
    BY DEF TwinsFinished
  <2>1. /\ Entered(c) /\ drive'[c].epoch = drive[c].epoch
        /\ Entered(d) /\ drive'[d].epoch = drive[d].epoch
    BY SettledWas
  <2>2. FinishedUnder(drive[d].epoch)
    BY <2>1 DEF LockInv, TwinsFinished
  <2>3. PICK k : k = drive[d].epoch /\ drive'[d].epoch = k
    BY <2>1
  <2>4. FinishedUnder(k)'
    BY <2>2, <2>3, FinishedStays
  <2> QED BY <2>3, <2>4 DEF FinishedUnder
<1> QED BY <1>1, <1>2, <1>3 DEF LockInv

LEMMA QuietKeepsLock ==
    ASSUME LockInv, CallsCalm, OpsCalm, RowsCalm, Settled, UNCHANGED <<now, lock>>
    PROVE  LockInv'
<1>1. ASSUME NEW kind, NEW k, HeldOrFinished(kind, k) PROVE HeldOrFinished(kind, k)'
  BY <1>1, FinishedStays DEF HeldOrFinished
<1>2. EpochsFit'
  BY CalmEpochs DEF LockInv
<1> QED BY <1>1, <1>2, SettledKeepsLock

-----------------------------------------------------------------------------
\* A step that only moves the call d, without taking an epoch or the lock.
LEMMA MoveIsCalm ==
    ASSUME Inv, NEW d \in Drives, NEW t, drive' = [drive EXCEPT ![d] = t],
           \/ t = None
           \/ t.pc \in {"seed", "load", "cleanup"}
           \/ /\ Epoched(d) /\ t.epoch = drive[d].epoch
              /\ t.pc \in Inside => drive[d].pc \in Inside,
           UNCHANGED op
    PROVE  CallsCalm /\ OpsCalm /\ Settled
<1>1. \A c \in Drives : drive'[c] = IF c = d THEN t ELSE drive[c]
  BY DEF Inv, TypeOK
<1>2. CallsCalm
  BY <1>1 DEF CallsCalm, CallCalm, Epoched
<1>3. OpsCalm
  BY DEF OpsCalm, OpCalm
<1>4. Settled
  BY <1>1 DEF Settled, Entered, Holding, Epoched, Inside
<1> QED BY <1>2, <1>3, <1>4

LEMMA GotoIsCalm ==
    ASSUME Inv, NEW d \in Drives, drive[d] # None, NEW pc, Goto(d, pc),
           \/ pc \in {"load", "cleanup"}
           \/ drive[d].pc \in Inside,
           UNCHANGED op
    PROVE  CallsCalm /\ OpsCalm /\ Settled
<1> DEFINE t == [drive[d] EXCEPT !.pc = pc]
<1>1. drive' = [drive EXCEPT ![d] = t]
  BY DEF Goto
<1>2. t.pc = pc /\ t.epoch = drive[d].epoch
  BY CallTypes DEF Inv, Drive
<1>3. drive[d].pc \in Inside => Epoched(d)
  BY DEF Epoched, Inside
<1> HIDE DEF t
<1> QED BY <1>1, <1>2, <1>3, MoveIsCalm

LEMMA SameRowsAreCalm == ASSUME UNCHANGED req PROVE RowsCalm
BY DEF RowsCalm, RowEnds

\* transition() moves a row that is not finished and stays inside the lock.
LEMMA TransitionIsCalm ==
    ASSUME Inv, NEW d \in Drives, drive[d] # None, drive[d].pc \in Inside,
           NEW to, NEW patch, NEW pc, Transition(d, to, patch, pc), UNCHANGED op
    PROVE  CallsCalm /\ OpsCalm /\ RowsCalm /\ Settled
<1> DEFINE t == drive[d]
           r == req[t.ex]
<1>1. t \in Drive /\ t.ex \in Exec /\ req \in [Exec -> ExecutionRequestRow \cup {None}]
  BY CallTypes DEF Inv, TypeOK, StoreTypeOK
<1>2. Epoched(d)
  BY DEF Epoched, Inside
<1> DEFINE u == IF UpdateApplies(t.ex, t.at, to)
                THEN [t EXCEPT !.pc = pc, !.at = to] ELSE [t EXCEPT !.pc = "release"]
<1>3. drive' = [drive EXCEPT ![d] = u] /\ u.epoch = t.epoch
  <2>1. drive' = [drive EXCEPT ![d] = u]
    BY DEF Transition
  <2>2. u.epoch = t.epoch
    BY <1>1 DEF Drive
  <2> QED BY <2>1, <2>2
<1> HIDE DEF u
<1>4. CallsCalm /\ OpsCalm /\ Settled
  BY <1>2, <1>3, MoveIsCalm
<1>5. CASE ~UpdateApplies(t.ex, t.at, to)
  BY <1>4, <1>5, SameRowsAreCalm DEF Transition, UpdateExecutionPhase
<1>6. CASE UpdateApplies(t.ex, t.at, to)
  <2>1. ~IsTerminal(r.phase) /\ \E s : req' = [req EXCEPT ![t.ex] = s]
    BY <1>6 DEF Transition, UpdateExecutionPhase, UpdateApplies, CanTransition
  <2>2. \A e \in Exec : e # t.ex => req'[e] = req[e]
    BY <1>1, <2>1
  <2>3. RowsCalm
    BY <2>1, <2>2 DEF RowsCalm, RowEnds
  <2> QED BY <1>4, <2>3
<1> QED BY <1>5, <1>6

\* The steps of a call that leave lock and clock alone.
LEMMA DriveIsQuiet ==
    ASSUME Inv, NEW d \in Drives, UNCHANGED op,
           \/ UpsertSeedRow(d) \/ Load(d) \/ Enter(d) \/ Discover(d) \/ Preflight(d)
           \/ MissingIntent(d) \/ PlanAndCount(d) \/ ReserveNonce(d) \/ PersistPlan(d)
           \/ Simulate(d) \/ PriceGas(d) \/ BeginSigning(d) \/ Firewall(d) \/ Sign(d)
           \/ PersistSignature(d) \/ DisableBroadcast(d) \/ FailFrom(d) \/ FailFromSigning(d)
           \/ StoreError(d) \/ Abandon(d)
    PROVE  CallsCalm /\ OpsCalm /\ RowsCalm /\ Settled /\ UNCHANGED <<now, lock>>
<1>0. UNCHANGED <<now, lock>>
  BY DEF UpsertSeedRow, Load, Enter, Discover, Preflight, MissingIntent, PlanAndCount,
     ReserveNonce, PersistPlan, Simulate, PriceGas, BeginSigning, Firewall, Sign,
     PersistSignature, DisableBroadcast, FailFrom, FailFromSigning, StoreError, Abandon, storeVars
<1> SUFFICES CallsCalm /\ OpsCalm /\ RowsCalm /\ Settled
  BY <1>0
<1>1. drive[d] # None /\ drive[d] \in Drive /\ drive[d].ex \in Exec
  BY CallTypes DEF Inv, At, UpsertSeedRow, Load, Enter, Discover, Preflight, MissingIntent,
     PlanAndCount, ReserveNonce, PersistPlan, Simulate, PriceGas, BeginSigning, Firewall, Sign,
     PersistSignature, DisableBroadcast, FailFrom, FailFromSigning, StoreError, Abandon
<1>2. ASSUME NEW pc, drive[d].pc \in Inside, Goto(d, pc), UNCHANGED req
      PROVE  CallsCalm /\ OpsCalm /\ RowsCalm /\ Settled
  BY <1>1, <1>2, GotoIsCalm, SameRowsAreCalm
<1>3. ASSUME End(d), UNCHANGED req
      PROVE  CallsCalm /\ OpsCalm /\ RowsCalm /\ Settled
  BY <1>1, <1>3, MoveIsCalm, SameRowsAreCalm DEF End
<1>4. ASSUME NEW to, NEW patch, NEW pc, drive[d].pc \in Inside, Transition(d, to, patch, pc)
      PROVE  CallsCalm /\ OpsCalm /\ RowsCalm /\ Settled
  BY <1>1, <1>4, TransitionIsCalm
<1>5. CASE UpsertSeedRow(d)
  <2>1. CallsCalm /\ OpsCalm /\ Settled
    BY <1>1, <1>5, GotoIsCalm DEF UpsertSeedRow
  <2>2. req \in [Exec -> ExecutionRequestRow \cup {None}]
    BY DEF Inv, TypeOK, StoreTypeOK
  <2> DEFINE s == IF req[drive[d].ex] = None THEN NewRequest ELSE req[drive[d].ex]
  <2>0. req' = [req EXCEPT ![drive[d].ex] = s]
    BY <1>5 DEF UpsertSeedRow, InsertExecutionRequest
  <2>3. \A e \in Exec : req'[e] = req[e] \/ (req'[e] = NewRequest /\ req[e] = None)
    BY <1>1, <2>0, <2>2
  <2>4. RowsCalm
    BY <2>3 DEF RowsCalm, RowEnds
  <2> QED BY <2>1, <2>4
<1>6. CASE Load(d)
  <2>1. CASE End(d)
    BY <1>3, <1>6, <2>1 DEF Load, storeVars
  <2>2. CASE Goto(d, "cleanup")
    BY <1>1, <1>6, <2>2, GotoIsCalm, SameRowsAreCalm DEF Load, storeVars
  <2> QED BY <1>6, <2>1, <2>2 DEF Load
<1>7. ASSUME drive[d].pc \in Inside,
             \E t : drive' = [drive EXCEPT ![d] = t] /\ t.epoch = drive[d].epoch,
             UNCHANGED req
      PROVE  CallsCalm /\ OpsCalm /\ RowsCalm /\ Settled
  <2>1. Epoched(d)
    BY <1>1, <1>7 DEF Epoched, Inside
  <2> QED BY <1>7, <2>1, MoveIsCalm, SameRowsAreCalm
<1>8. CASE Enter(d)
  <2>1. drive[d].pc \in Inside /\ UNCHANGED req
    BY <1>8 DEF Enter, At, Inside, storeVars
  <2> DEFINE ph == req[drive[d].ex].phase
             pc == IF IsTerminal(ph) \/ ph \in NoStep THEN "release" ELSE "step"
             t == [drive[d] EXCEPT !.at = ph, !.pc = pc]
  <2>2. drive' = [drive EXCEPT ![d] = t]
    BY <1>8 DEF Enter
  <2>3. t.epoch = drive[d].epoch
    BY <1>1 DEF Drive
  <2> QED BY <1>7, <2>1, <2>2, <2>3
<1>9. CASE PlanAndCount(d)
  <2>1. drive[d].pc \in Inside /\ UNCHANGED req
    BY <1>9 DEF PlanAndCount, At, Inside, storeVars
  <2>2. CASE Goto(d, "fail") \/ Goto(d, "release")
    BY <1>2, <2>1, <2>2
  <2>3. ASSUME NEW n, drive' = [drive EXCEPT ![d].nonce = n, ![d].pc = "simulating"]
        PROVE  CallsCalm /\ OpsCalm /\ RowsCalm /\ Settled
    <3> DEFINE t == [drive[d] EXCEPT !.nonce = n, !.pc = "simulating"]
    <3>1. drive' = [drive EXCEPT ![d] = t]
      BY <2>3
    <3>2. t.epoch = drive[d].epoch
      BY <1>1 DEF Drive
    <3> QED BY <1>7, <2>1, <3>1, <3>2
  <2>4. ASSUME NEW n, drive' = [drive EXCEPT ![d].nonce = n, ![d].tries = 0, ![d].pc = "reserve"]
        PROVE  CallsCalm /\ OpsCalm /\ RowsCalm /\ Settled
    <3> DEFINE t == [drive[d] EXCEPT !.nonce = n, !.tries = 0, !.pc = "reserve"]
    <3>1. drive' = [drive EXCEPT ![d] = t]
      BY <2>4
    <3>2. t.epoch = drive[d].epoch
      BY <1>1 DEF Drive
    <3> QED BY <1>7, <2>1, <3>1, <3>2
  <2> QED BY <1>9, <2>2, <2>3, <2>4 DEF PlanAndCount
<1>10. CASE ReserveNonce(d)
  <2>1. drive[d].pc \in Inside /\ UNCHANGED req
    BY <1>10 DEF ReserveNonce, At, Inside
  <2> DEFINE t == IF NonceFree(drive[d].nonce)
                  THEN [drive[d] EXCEPT !.pc = "simulating"]
                  ELSE [drive[d] EXCEPT !.nonce = drive[d].nonce + 1,
                          !.tries = drive[d].tries + 1,
                          !.pc = IF drive[d].tries + 1 = MaxAttempts THEN "fail" ELSE "reserve"]
  <2>2. drive' = [drive EXCEPT ![d] = t]
    BY <1>10 DEF ReserveNonce
  <2>3. t.epoch = drive[d].epoch
    BY <1>1 DEF Drive
  <2> QED BY <1>7, <2>1, <2>2, <2>3
<1>11. CASE \/ Discover(d) \/ PersistPlan(d) \/ Simulate(d) \/ PriceGas(d) \/ PersistSignature(d)
            \/ Preflight(d) \/ BeginSigning(d) \/ DisableBroadcast(d) \/ FailFrom(d)
            \/ FailFromSigning(d)
  <2>1. drive[d].pc \in Inside
    BY <1>11 DEF Discover, PersistPlan, Simulate, PriceGas, PersistSignature, Preflight,
       BeginSigning, DisableBroadcast, FailFrom, FailFromSigning, At, Inside
  <2> QED BY <1>2, <1>4, <1>11, <2>1
      DEF Discover, PersistPlan, Simulate, PriceGas, PersistSignature, Preflight,
      BeginSigning, DisableBroadcast, FailFrom, FailFromSigning
<1>12. CASE MissingIntent(d) \/ Firewall(d) \/ Sign(d)
  <2>1. drive[d].pc \in Inside /\ UNCHANGED req
    BY <1>12 DEF MissingIntent, Firewall, Sign, At, Inside, storeVars
  <2> QED BY <1>2, <1>12, <2>1 DEF MissingIntent, Firewall, Sign
<1>13. CASE StoreError(d)
  <2>1. UNCHANGED req
    BY <1>13 DEF StoreError, storeVars
  <2>2. CASE drive[d].pc \in Inside \ {"release"}
    <3>1. Goto(d, "fail") \/ Goto(d, "release")
      BY <1>13, <2>2 DEF StoreError
    <3> QED BY <1>2, <2>1, <2>2, <3>1
  <2>3. CASE drive[d].pc \notin Inside \ {"release"}
    <3>1. End(d)
      BY <1>13, <2>3 DEF StoreError, Inside
    <3> QED BY <1>3, <2>1, <3>1
  <2> QED BY <2>2, <2>3
<1>14. CASE Abandon(d)
  BY <1>3, <1>14 DEF Abandon, storeVars
<1> QED BY <1>5, <1>6, <1>8, <1>9, <1>10, <1>11, <1>12, <1>13, <1>14

LEMMA CancelIsQuiet ==
    ASSUME Inv, NEW e \in Exec, CancelExecution(e), UNCHANGED op
    PROVE  CallsCalm /\ OpsCalm /\ RowsCalm /\ Settled /\ UNCHANGED <<now, lock>>
<1>1. UNCHANGED <<drive, op, now, lock>>
  BY DEF CancelExecution
<1>2. CallsCalm /\ OpsCalm /\ Settled
  BY <1>1 DEF CallsCalm, CallCalm, Epoched, OpsCalm, OpCalm, Settled, Entered, Holding
<1>3. req \in [Exec -> ExecutionRequestRow \cup {None}]
  BY DEF Inv, TypeOK, StoreTypeOK
<1>4. req' = req \/ (~IsTerminal(req[e].phase) /\ \E s : req' = [req EXCEPT ![e] = s])
  BY DEF CancelExecution, UpdateExecutionPhase, UpdateApplies, CanTransition
<1>5. RowsCalm
  BY <1>3, <1>4 DEF RowsCalm, RowEnds
<1> QED BY <1>1, <1>2, <1>5

LEMMA CallIsQuiet ==
    ASSUME Inv, NEW d \in Drives, NEW e \in Exec, NEW i \in BOOLEAN, Call(d, e, i), UNCHANGED op
    PROVE  CallsCalm /\ OpsCalm /\ RowsCalm /\ Settled /\ UNCHANGED <<now, lock>>
<1>1. PICK t : /\ t = [ex |-> e, intent |-> i, epoch |-> 0, at |-> None,
                       pc |-> IF i THEN "seed" ELSE "load", nonce |-> 0, tries |-> 0]
               /\ drive' = [drive EXCEPT ![d] = t]
  BY DEF Call
<1>2. t.pc \in {"seed", "load"}
  BY <1>1
<1>3. CallsCalm /\ OpsCalm /\ Settled
  BY <1>1, <1>2, MoveIsCalm
<1> QED BY <1>3, SameRowsAreCalm DEF Call, storeVars

\* A step of an operation that takes neither an epoch nor the lock.
LEMMA OpIsCalm ==
    ASSUME Inv, NEW o \in Ops, UNCHANGED <<drive, req>>,
           \/ OpEnd(o)
           \/ \E pc : OpGoto(o, pc) /\ op[o] # None
                      /\ (o \in Reconcilers /\ pc \in {"work", "release"} => Holding(o))
           \/ o \notin Reconcilers /\ \E p : op' = [op EXCEPT ![o] = p]
    PROVE  CallsCalm /\ OpsCalm /\ RowsCalm /\ Settled
<1>1. op \in [Ops -> Operation \cup {None}]
  BY DEF Inv, TypeOK
<1>2. CallsCalm
  BY DEF CallsCalm, CallCalm, Epoched
<1>3. RowsCalm
  BY SameRowsAreCalm
<1>4. \A q \in Ops : q # o => op'[q] = op[q]
  BY <1>1 DEF OpEnd, OpGoto
<1>5. o \in Reconcilers /\ op'[o] # None =>
          /\ op[o] # None /\ op'[o].epoch = op[o].epoch
          /\ op'[o].pc \in {"work", "release"} => Holding(o)
  <2>1. CASE OpEnd(o)
    BY <1>1, <2>1 DEF OpEnd
  <2>2. ASSUME NEW pc, OpGoto(o, pc), op[o] # None,
               o \in Reconcilers /\ pc \in {"work", "release"} => Holding(o), o \in Reconcilers
        PROVE  /\ op'[o].epoch = op[o].epoch
               /\ op'[o].pc \in {"work", "release"} => Holding(o)
    <3> DEFINE p == [op[o] EXCEPT !.pc = pc]
    <3>1. op'[o] = p
      BY <1>1, <2>2 DEF OpGoto
    <3>2. p.epoch = op[o].epoch /\ p.pc = pc
      BY <1>1, <2>2 DEF Operation
    <3> QED BY <2>2, <3>1, <3>2
  <2> QED BY <2>1, <2>2
<1>6. OpsCalm
  BY <1>4, <1>5 DEF OpsCalm, OpCalm
<1>7. Settled
  BY <1>4, <1>5 DEF Settled, Entered, Holding
<1> QED BY <1>2, <1>3, <1>6, <1>7

LEMMA OpIsQuiet ==
    ASSUME Inv, NEW o \in Ops,
           \/ Recover(o) \/ Rebuild(o) \/ RecoverStart(o) \/ RecoverWork(o)
           \/ RebuildRequested(o) \/ RebuildContended(o) \/ RebuildStart(o) \/ RebuildWork(o)
           \/ ReconcileWork(o) \/ OpAbandon(o)
    PROVE  CallsCalm /\ OpsCalm /\ RowsCalm /\ Settled /\ UNCHANGED <<now, lock>>
<1>1. UNCHANGED <<drive, req, now, lock>>
  BY DEF Recover, Rebuild, RecoverStart, RecoverWork, RebuildRequested, RebuildContended,
     RebuildStart, RebuildWork, UpsertRebuild, ReconcileWork, OpAbandon, storeVars, orchestratorVars
<1>2. CASE ReconcileWork(o)
  <2>1. op[o] # None /\ Holding(o) /\ OpGoto(o, "release")
    BY <1>2 DEF ReconcileWork, OpAt, Holding
  <2> QED BY <1>1, <2>1, OpIsCalm
<1>3. CASE OpAbandon(o)
  BY <1>1, <1>3, OpIsCalm DEF OpAbandon
<1>4. CASE ~ReconcileWork(o) /\ ~OpAbandon(o)
  <2>1. o \notin Reconcilers
    BY <1>4, OperationsAssumption DEF Recover, Rebuild, RecoverStart, RecoverWork,
       RebuildRequested, RebuildContended, RebuildStart, RebuildWork, UpsertRebuild
  <2>2. \E p : op' = [op EXCEPT ![o] = p]
    BY <1>4 DEF Recover, Rebuild, RecoverStart, RecoverWork, RebuildRequested, RebuildContended,
       RebuildStart, RebuildWork, UpsertRebuild, OpGoto, OpEnd
  <2> QED BY <1>1, <2>1, <2>2, OpIsCalm
<1> QED BY <1>2, <1>3, <1>4

-----------------------------------------------------------------------------
\* The steps on the lock.
LEMMA CleanupKeepsLock ==
    ASSUME Inv, LockInv, NEW d \in Drives, Cleanup(d), UNCHANGED op
    PROVE  LockInv'
<1> DEFINE t == [drive[d] EXCEPT !.epoch = now, !.pc = "insert"]
<1>1. /\ drive[d] # None /\ drive[d] \in Drive
      /\ now \in Nat /\ MaxEpoch \in Nat
      /\ drive \in [Drives -> Drive \cup {None}]
      /\ UNCHANGED <<req, op>> /\ now' \in {now, now + 1} /\ CleanupLock
      /\ drive' = [drive EXCEPT ![d] = t]
  BY CallTypes, StoreAssumption DEF Cleanup, ClockMoves, At, Inv, TypeOK
<1>2. t.epoch = now /\ t.pc = "insert"
  BY <1>1 DEF Drive
<1> HIDE DEF t
<1>3. \A c \in Drives : drive'[c] = IF c = d THEN t ELSE drive[c]
  BY <1>1
<1>4. EpochsFit
  BY DEF LockInv
<1>5. /\ \A c \in Drives : Epoched(c)' =>
            \/ drive'[c].epoch = now
            \/ Epoched(c) /\ drive'[c] = drive[c]
      /\ \A o \in Ops : Ticking(o)' => Ticking(o) /\ op'[o] = op[o]
  BY <1>1, <1>2, <1>3 DEF Epoched, Ticking
<1>6. EpochsFit'
  <2>1. now' > MaxEpoch
    BY <1>1, <1>4 DEF EpochsFit
  <2> QED BY <1>4, <1>5, <2>1 DEF EpochsFit
<1>7. RowsCalm
  BY <1>1, SameRowsAreCalm
<1>8. \A c \in Drives : Entered(c)' => Entered(c) /\ drive'[c] = drive[c]
  BY <1>2, <1>3 DEF Entered, Inside
<1>9. CallsHold'
  BY <1>1, <1>7, <1>8, CleanupSpares DEF LockInv, CallsHold
<1>10. TicksHold'
  BY <1>1, <1>7, CleanupSpares DEF LockInv, TicksHold, Holding
<1>11. TwinsFinished'
  BY <1>1, <1>8 DEF LockInv, TwinsFinished, FinishedUnder
<1> QED BY <1>6, <1>9, <1>10, <1>11 DEF LockInv

LEMMA ReconcileKeepsLock ==
    ASSUME Inv, LockInv, NEW o \in Ops, Reconcile(o)
    PROVE  LockInv'
<1> DEFINE p == [epoch |-> now, pc |-> "cleanup", found |-> None]
<1>1. /\ now \in Nat /\ MaxEpoch \in Nat /\ op \in [Ops -> Operation \cup {None}]
      /\ UNCHANGED <<req, drive, lock>> /\ now' \in {now, now + 1}
      /\ op' = [op EXCEPT ![o] = p]
  BY StoreAssumption DEF Reconcile, ClockMoves, storeVars, orchestratorVars, Inv, TypeOK
<1>2. p.epoch = now /\ p.pc = "cleanup"
  OBVIOUS
<1> HIDE DEF p
<1>3. \A q \in Ops : op'[q] = IF q = o THEN p ELSE op[q]
  BY <1>1
<1>4. EpochsFit
  BY DEF LockInv
<1>5. /\ \A c \in Drives : Epoched(c)' => Epoched(c) /\ drive'[c] = drive[c]
      /\ \A q \in Ops : Ticking(q)' => \/ op'[q].epoch = now
                                       \/ Ticking(q) /\ op'[q] = op[q]
  BY <1>1, <1>2, <1>3 DEF Epoched, Ticking
<1>6. EpochsFit'
  <2>1. now' > MaxEpoch
    BY <1>1, <1>4 DEF EpochsFit
  <2> QED BY <1>4, <1>5, <2>1 DEF EpochsFit
<1>7. \A q \in Ops : Holding(q)' => Holding(q) /\ op'[q] = op[q]
  BY <1>2, <1>3 DEF Holding
<1>8. TicksHold'
  BY <1>1, <1>7 DEF LockInv, TicksHold, HeldOrFinished, FinishedUnder
<1>9. CallsHold' /\ TwinsFinished'
  BY <1>1 DEF LockInv, CallsHold, TwinsFinished, Entered, HeldOrFinished, FinishedUnder
<1> QED BY <1>6, <1>8, <1>9 DEF LockInv

\* When the lock is free, whoever is inside is excused.
LEMMA FreeLock ==
    ASSUME Inv, LockInv, lock = None
    PROVE  /\ \A c \in Drives : Entered(c) => FinishedUnder(drive[c].epoch)
           /\ \A o \in Ops : Holding(o) => FinishedUnder(op[o].epoch)
<1>1. \A k \in Nat, x \in Operations : [op |-> x, epoch |-> k] # None
  BY StoreAssumption DEF OperationLock
<1>2. \A k \in Nat, x \in Operations : HeldOrFinished(x, k) => FinishedUnder(k)
  BY <1>1 DEF HeldOrFinished
<1>3. /\ \A c \in Drives : Entered(c) => drive[c].epoch \in Nat
      /\ \A o \in Ops : Holding(o) => op[o].epoch \in Nat
  BY DEF Entered, Holding, Inv, TypeOK, Drive, Operation
<1> QED BY <1>2, <1>3 DEF LockInv, CallsHold, TicksHold, Operations

LEMMA AcquireKeepsLock ==
    ASSUME Inv, LockInv, NEW d \in Drives, Acquire(d), UNCHANGED op
    PROVE  LockInv'
<1>1. /\ drive[d] # None /\ drive[d].pc = "insert" /\ drive[d] \in Drive
      /\ drive \in [Drives -> Drive \cup {None}]
      /\ UNCHANGED <<req, now, op>>
  BY CallTypes DEF Acquire, At, Inv, TypeOK
<1>2. Epoched(d) /\ ~Entered(d)
  BY <1>1 DEF Epoched, Entered, Inside
<1>3. CASE lock # None
  <2>1. End(d) /\ lock' = lock
    BY <1>3 DEF Acquire, InsertLock
  <2>2. CallsCalm /\ OpsCalm /\ Settled
    BY <1>1, <2>1, MoveIsCalm DEF End
  <2> QED BY <1>1, <2>1, <2>2, SameRowsAreCalm, QuietKeepsLock
<1>4. CASE lock = None
  <2> DEFINE t == [drive[d] EXCEPT !.pc = "enter"]
  <2>1. /\ drive' = [drive EXCEPT ![d] = t]
        /\ lock' = [op |-> "EXECUTION", epoch |-> drive[d].epoch]
    BY <1>4 DEF Acquire, InsertLock, Goto
  <2>2. t.epoch = drive[d].epoch
    BY <1>1 DEF Drive
  <2> HIDE DEF t
  <2>3. \A c \in Drives : drive'[c] = IF c = d THEN t ELSE drive[c]
    BY <1>1, <2>1
  <2>4. CallsCalm
    BY <1>2, <2>2, <2>3 DEF CallsCalm, CallCalm, Epoched
  <2>5. OpsCalm
    BY <1>1 DEF OpsCalm, OpCalm
  <2>6. EpochsFit'
    BY <1>1, <2>4, <2>5, CalmEpochs DEF LockInv
  <2>7. \A k : FinishedUnder(k)' <=> FinishedUnder(k)
    BY <1>1 DEF FinishedUnder
  <2>8. ASSUME NEW c \in Drives, c # d, Entered(c)' PROVE FinishedUnder(drive[c].epoch)'
    <3>1. Entered(c) /\ drive'[c] = drive[c]
      BY <2>3, <2>8 DEF Entered
    <3>2. FinishedUnder(drive[c].epoch)
      BY <1>4, <3>1, FreeLock
    <3> QED BY <1>1, <3>1, <3>2 DEF FinishedUnder
  <2>9. drive'[d].epoch = drive[d].epoch
    BY <2>2, <2>3
  <2>10. CallsHold'
    <3> SUFFICES ASSUME NEW c \in Drives, Entered(c)'
                 PROVE  HeldOrFinished("EXECUTION", drive[c].epoch)'
      BY DEF CallsHold
    <3> QED BY <2>1, <2>8, <2>9 DEF HeldOrFinished
  <2>11. TicksHold'
    BY <1>1, <1>4, <2>7, FreeLock DEF TicksHold, Holding, HeldOrFinished
  <2>12. TwinsFinished'
    <3> SUFFICES ASSUME NEW b \in Drives, NEW c \in Drives, Entered(b)', Entered(c)', b # c,
                        drive'[b].epoch = drive'[c].epoch
                 PROVE  FinishedUnder(drive[c].epoch)'
      BY DEF TwinsFinished
    <3>1. CASE c # d
      BY <2>8, <3>1
    <3>2. CASE c = d
      <4>1. FinishedUnder(drive[b].epoch)'
        BY <2>8, <3>2
      <4> QED BY <4>1 DEF FinishedUnder
    <3> QED BY <3>1, <3>2
  <2> QED BY <2>6, <2>10, <2>11, <2>12 DEF LockInv
<1> QED BY <1>3, <1>4

\* A release names its epoch: it takes the lock of another only if both have
\* one epoch, and then the first to come is excused.
LEMMA ReleaseKeepsLock ==
    ASSUME Inv, LockInv, NEW d \in Drives, Release(d), UNCHANGED op
    PROVE  LockInv'
<1>1. /\ drive[d] # None /\ drive[d].pc = "release"
      /\ drive \in [Drives -> Drive \cup {None}] /\ UNCHANGED <<req, now, op>>
      /\ drive' = [drive EXCEPT ![d] = None]
      /\ lock' = IF lock # None /\ lock.epoch = drive[d].epoch THEN None ELSE lock
  BY DEF Release, ReleaseOperationLock, At, End, Inv, TypeOK
<1>2. Entered(d)
  BY <1>1 DEF Entered, Inside
<1>3. CallsCalm /\ OpsCalm /\ RowsCalm /\ Settled
  BY <1>1, MoveIsCalm, SameRowsAreCalm
<1>4. EpochsFit'
  BY <1>1, <1>3, CalmEpochs DEF LockInv
<1>5. \A k : FinishedUnder(k)' <=> FinishedUnder(k)
  BY <1>1 DEF FinishedUnder
<1>6. ASSUME NEW kind, NEW k, k # drive[d].epoch, HeldOrFinished(kind, k)
      PROVE  HeldOrFinished(kind, k)'
  BY <1>1, <1>5, <1>6 DEF HeldOrFinished
<1>7. ASSUME NEW c \in Drives, Entered(c)', NEW k, k = drive[c].epoch,
             HeldOrFinished("EXECUTION", k)
      PROVE  HeldOrFinished("EXECUTION", k)'
  <2>1. c # d /\ drive'[c] = drive[c]
    BY <1>1, <1>7 DEF Entered
  <2>2. CASE k # drive[d].epoch
    BY <1>6, <1>7, <2>2
  <2>3. CASE k = drive[d].epoch
    <3>1. FinishedUnder(k)
      BY <1>2, <1>7, <2>1, <2>3 DEF LockInv, TwinsFinished, Entered
    <3> QED BY <1>5, <3>1 DEF HeldOrFinished
  <2> QED BY <2>2, <2>3
<1>8. ASSUME NEW o \in Ops, Holding(o)', NEW k, k = op[o].epoch,
             HeldOrFinished("RECONCILIATION", k)
      PROVE  HeldOrFinished("RECONCILIATION", k)'
  <2>1. CASE k # drive[d].epoch
    BY <1>6, <1>8, <2>1
  <2>2. CASE k = drive[d].epoch
    <3>1. HeldOrFinished("EXECUTION", k)
      BY <1>2, <2>2 DEF LockInv, CallsHold
    <3>2. [op |-> "EXECUTION", epoch |-> k].op # [op |-> "RECONCILIATION", epoch |-> k].op
      OBVIOUS
    <3>3. FinishedUnder(k)
      BY <1>8, <3>1, <3>2 DEF HeldOrFinished
    <3> QED BY <1>5, <3>3 DEF HeldOrFinished
  <2> QED BY <2>1, <2>2
<1> QED BY <1>3, <1>4, <1>7, <1>8, SettledKeepsLock

LEMMA OpCleanupKeepsLock ==
    ASSUME Inv, LockInv, NEW o \in Ops, OpCleanup(o)
    PROVE  LockInv'
<1>1. op[o] # None /\ OpGoto(o, "insert") /\ CleanupLock /\ UNCHANGED <<drive, req, now>>
  BY DEF OpCleanup, OpAt, orchestratorVars
<1>2. CallsCalm /\ OpsCalm /\ RowsCalm /\ Settled
  BY <1>1, OpIsCalm
<1>3. EpochsFit'
  BY <1>1, <1>2, CalmEpochs DEF LockInv
<1>4. ASSUME NEW kind \in {"EXECUTION", "RECONCILIATION"}, NEW k, HeldOrFinished(kind, k)
      PROVE  HeldOrFinished(kind, k)'
  BY <1>1, <1>2, <1>4, CleanupSpares
<1> QED BY <1>2, <1>3, <1>4, SettledKeepsLock

LEMMA GuardReleaseKeepsLock ==
    ASSUME Inv, LockInv, NEW o \in Ops, GuardRelease(o)
    PROVE  LockInv'
<1>1. op[o] # None /\ OpEnd(o) /\ UNCHANGED <<drive, req, now>>
  BY DEF GuardRelease, OpAt, orchestratorVars
<1>2. CallsCalm /\ OpsCalm /\ RowsCalm /\ Settled
  BY <1>1, OpIsCalm
<1>3. CASE o \notin Recoverers
  BY <1>1, <1>2, <1>3, QuietKeepsLock DEF GuardRelease
<1>4. CASE o \in Recoverers
  <2>1. op[o].epoch <= MaxEpoch /\ op[o].epoch \in Nat /\ MaxEpoch \in Nat
    BY <1>1, <1>4, StoreAssumption DEF Inv, OpsFit, Epochs
  <2>2. lock' = IF lock # None /\ lock.epoch = op[o].epoch THEN None ELSE lock
    BY <1>4 DEF GuardRelease, ReleaseOperationLock
  <2>3. ASSUME NEW kind, NEW k \in Nat, k > MaxEpoch, HeldOrFinished(kind, k)
        PROVE  HeldOrFinished(kind, k)'
    <3>1. k # op[o].epoch
      BY <2>1, <2>3
    <3>2. CASE FinishedUnder(k)
      BY <1>2, <3>2, FinishedStays DEF HeldOrFinished
    <3>3. CASE lock = [op |-> kind, epoch |-> k]
      BY <2>2, <3>1, <3>3 DEF HeldOrFinished
    <3> QED BY <2>3, <3>2, <3>3 DEF HeldOrFinished
  <2>4. EpochsFit'
    BY <1>1, <1>2, CalmEpochs DEF LockInv
  <2>5. \A c \in Drives : Entered(c)' => drive[c].epoch \in Nat /\ drive[c].epoch > MaxEpoch
    BY <1>1, CallTypes DEF Entered, Epoched, Inside, LockInv, EpochsFit, Inv, Drive
  <2>6. \A q \in Ops : Holding(q)' => op[q].epoch \in Nat /\ op[q].epoch > MaxEpoch
    <3> SUFFICES ASSUME NEW q \in Ops, Holding(q)'
                 PROVE  op[q].epoch \in Nat /\ op[q].epoch > MaxEpoch
      OBVIOUS
    <3>1. Holding(q)
      BY <1>2, SettledWas
    <3>2. op[q].epoch \in Nat
      BY <3>1 DEF Holding, Inv, TypeOK, Operation
    <3> QED BY <3>1, <3>2 DEF Holding, Ticking, LockInv, EpochsFit
  <2> QED BY <1>2, <2>3, <2>4, <2>5, <2>6, SettledKeepsLock
<1> QED BY <1>3, <1>4

LEMMA OpAcquireKeepsLock ==
    ASSUME Inv, LockInv, NEW o \in Ops, OpAcquire(o)
    PROVE  LockInv'
<1>1. /\ op[o] # None /\ op[o].pc = "insert" /\ op[o] \in Operation
      /\ op \in [Ops -> Operation \cup {None}]
      /\ UNCHANGED <<drive, req, now>>
  BY DEF OpAcquire, OpAt, orchestratorVars, Inv, TypeOK
<1>2. CASE lock # None
  <2>1. lock' = lock /\ (OpEnd(o) \/ OpGoto(o, "contended"))
    BY <1>2 DEF OpAcquire, InsertLock
  <2>2. CallsCalm /\ OpsCalm /\ RowsCalm /\ Settled
    BY <1>1, <2>1, OpIsCalm
  <2> QED BY <1>1, <2>1, <2>2, QuietKeepsLock
<1>3. CASE lock = None
  <2> DEFINE pc == IF o \in Reconcilers THEN "work" ELSE "start"
             p == [op[o] EXCEPT !.pc = pc]
  <2>1. op' = [op EXCEPT ![o] = p] /\ lock' = [op |-> KindOf(o), epoch |-> op[o].epoch]
    BY <1>3 DEF OpAcquire, InsertLock, OpGoto
  <2>2. p.epoch = op[o].epoch
    BY <1>1 DEF Operation
  <2> HIDE DEF p
  <2>3. \A q \in Ops : op'[q] = IF q = o THEN p ELSE op[q]
    BY <1>1, <2>1
  <2>4. CallsCalm
    BY <1>1 DEF CallsCalm, CallCalm, Epoched
  <2>5. OpsCalm
    BY <1>1, <2>2, <2>3 DEF OpsCalm, OpCalm
  <2>6. EpochsFit'
    BY <1>1, <2>4, <2>5, CalmEpochs DEF LockInv
  <2>7. \A k : FinishedUnder(k)' <=> FinishedUnder(k)
    BY <1>1 DEF FinishedUnder
  <2>8. CallsHold'
    BY <1>1, <1>3, <2>7, FreeLock DEF CallsHold, Entered, HeldOrFinished
  <2>9. TwinsFinished'
    BY <1>1, <2>7 DEF LockInv, TwinsFinished, Entered
  <2>10. TicksHold'
    <3> SUFFICES ASSUME NEW q \in Ops, Holding(q)'
                 PROVE  HeldOrFinished("RECONCILIATION", op[q].epoch)'
      BY DEF TicksHold
    <3>1. CASE q = o
      <4>1. KindOf(o) = "RECONCILIATION"
        BY <3>1, OperationsAssumption DEF Holding, KindOf
      <4>2. op'[q].epoch = op[o].epoch
        BY <2>2, <2>3, <3>1
      <4> QED BY <2>1, <4>1, <4>2 DEF HeldOrFinished
    <3>2. CASE q # o
      <4>1. Holding(q) /\ op'[q] = op[q]
        BY <2>3, <3>2 DEF Holding
      <4>2. FinishedUnder(op[q].epoch)
        BY <1>3, <4>1, FreeLock
      <4> QED BY <1>1, <4>1, <4>2 DEF HeldOrFinished, FinishedUnder
    <3> QED BY <3>1, <3>2
  <2> QED BY <2>6, <2>8, <2>9, <2>10 DEF LockInv
<1> QED BY <1>2, <1>3

LEMMA LockInit == Init => LockInv
<1> SUFFICES ASSUME Init PROVE LockInv
  OBVIOUS
<1> USE DEF Init, StoreInit, OrchestratorInit
<1>1. MaxEpoch + 1 > MaxEpoch
  BY StoreAssumption
<1>2. EpochsFit
  BY <1>1 DEF EpochsFit, Epoched, Ticking
<1>3. CallsHold /\ TicksHold /\ TwinsFinished
  BY DEF CallsHold, TicksHold, TwinsFinished, Entered, Holding
<1> QED BY <1>2, <1>3 DEF LockInv

LEMMA LockStep == Inv /\ LockInv /\ [Next]_vars => LockInv'
<1> SUFFICES ASSUME Inv, LockInv, [Next]_vars PROVE LockInv'
  OBVIOUS
<1>1. ASSUME NEW d \in Drives, NEW e \in Exec, NEW i \in BOOLEAN, Call(d, e, i), UNCHANGED op
      PROVE  LockInv'
  BY <1>1, CallIsQuiet, QuietKeepsLock
<1>2. ASSUME NEW d \in Drives, DriveStep(d) \/ StoreError(d) \/ Abandon(d), UNCHANGED op
      PROVE  LockInv'
  <2>1. CASE Cleanup(d) \/ Acquire(d) \/ Release(d)
    BY <1>2, <2>1, CleanupKeepsLock, AcquireKeepsLock, ReleaseKeepsLock
  <2>2. CASE ~(Cleanup(d) \/ Acquire(d) \/ Release(d))
    BY <1>2, <2>2, DriveIsQuiet, QuietKeepsLock DEF DriveStep
  <2> QED BY <2>1, <2>2
<1>3. ASSUME NEW e \in Exec, CancelExecution(e), UNCHANGED op PROVE LockInv'
  BY <1>3, CancelIsQuiet, QuietKeepsLock
<1>4. ASSUME NEW o \in Ops, OpStart(o) \/ OpStep(o) \/ OpAbandon(o) PROVE LockInv'
  <2>1. CASE Reconcile(o) \/ OpCleanup(o) \/ OpAcquire(o) \/ GuardRelease(o)
    BY <2>1, ReconcileKeepsLock, OpCleanupKeepsLock, OpAcquireKeepsLock, GuardReleaseKeepsLock
  <2>2. CASE ~(Reconcile(o) \/ OpCleanup(o) \/ OpAcquire(o) \/ GuardRelease(o))
    BY <1>4, <2>2, OpIsQuiet, QuietKeepsLock DEF OpStart, OpStep
  <2> QED BY <2>1, <2>2
<1>5. CASE UNCHANGED vars
  BY <1>5 DEF vars, storeVars, LockInv, EpochsFit, CallsHold, TicksHold, TwinsFinished,
              Epoched, Ticking, Entered, Holding, HeldOrFinished, FinishedUnder
<1> QED BY <1>1, <1>2, <1>3, <1>4, <1>5 DEF Next, OrchestratorNext

\* Neither the cleanup that precedes every acquisition nor the release of
\* another takes the lock of a call whose row is not finished, unless an
\* execution that was started in the same millisecond is finished.
THEOREM LiveDriveHoldsLockCorrect == Spec => []LiveDriveHoldsLock
<1>1. LockInv => LiveDriveHoldsLock
  BY DEF LockInv, CallsHold, Entered, HeldOrFinished, LiveDriveHoldsLock
<1> QED BY <1>1, LockStep, LockInit, Invariant, PTL DEF Spec

\* The lock of a reconciliation tick is its own until the tick ends, with the
\* same exception.
THEOREM ReconciliationKeepsLockCorrect == Spec => []ReconciliationKeepsLock
<1>1. LockInv => ReconciliationKeepsLock
  BY DEF LockInv, TicksHold, Holding, HeldOrFinished, ReconciliationKeepsLock, Ops
<1> QED BY <1>1, LockStep, LockInit, Invariant, PTL DEF Spec
=============================================================================
