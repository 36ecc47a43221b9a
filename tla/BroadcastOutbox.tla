--------------------------- MODULE BroadcastOutbox ---------------------------
(***************************************************************************)
(* The outbox: the first submission of a signed execution, the recovery of *)
(* a row after a restart, the same-byte resend, and the admin requests     *)
(* that reach them.                                                        *)
(***************************************************************************)
EXTENDS BroadcastTask

CONSTANTS RetryMax,        \* config submission_retry_max
          RpcMaxRetries,   \* retries of one RPC call by the HTTP client
          HashProbe,       \* config pre_send_hash_probe
          MaxSends         \* bound: hand-offs per execution

ASSUME OutboxAssumption ==
    /\ RetryMax \in Nat /\ RpcMaxRetries \in Nat /\ MaxSends \in Nat
    /\ HashProbe \in BOOLEAN

VARIABLES execPhase,  \* phase of the execution request
          handed      \* handed[e]: calls of send_raw_transaction (history)

ExecPhases == {"SignatureVerified", "ReadyForBroadcast", "BroadcastDisabled"}
Broadcastable == {"SignatureVerified", "ReadyForBroadcast"}

OutboxTypeOK ==
    /\ execPhase \in [Exec -> ExecPhases]
    /\ handed \in [Exec -> Nat]

\* The orchestrator's last two transitions, which nothing waits for.
OrchestratorAdvance(e) ==
    /\ \/ execPhase[e] = "SignatureVerified"
             /\ execPhase' = [execPhase EXCEPT ![e] = "ReadyForBroadcast"]
       \/ execPhase[e] = "ReadyForBroadcast"
             /\ execPhase' = [execPhase EXCEPT ![e] = "BroadcastDisabled"]
    /\ UNCHANGED <<row, task, handed, chainVars>>

-----------------------------------------------------------------------------
\* admin_broadcast_execution.  The execution row read here is the one the
\* firewall will judge, however much later.
AdminBroadcast(p, e) ==
    /\ execPhase[e] \in Broadcastable
    /\ InsertBroadcastState(e)
    /\ Start(p, e, "branch")
    /\ UNCHANGED <<execPhase, handed, chainVars>>

AdminBranch(p) ==
    LET phase == row[task[p].ex].phase
    IN  /\ task[p].pc = "branch"
        /\ \/ phase \in Unsent /\ Goto(p, "firewall")
           \/ phase \in {"Broadcasting", "SubmissionUnknown", "Dropped"}
                 /\ Goto(p, "resume")
           \/ phase \notin Unsent \cup {"Broadcasting", "SubmissionUnknown", "Dropped"}
                 /\ Finish(p)
        /\ UNCHANGED <<row, execPhase, handed, chainVars>>

-----------------------------------------------------------------------------
\* submit.  The envelope may fail to serialize, and any of the policy checks
\* around the phase gate may refuse; the gate itself reads the live row.
FirewallPasses(e) == row[e].phase \in Unsent /\ row[e].tx \in {None, e}

Firewall(p) ==
    LET e == task[p].ex
        target == IF row[e].phase = Cancelled THEN Cancelled ELSE Manual
    IN  /\ task[p].pc = "firewall"
        /\ \/ PlanEscalation(p, "BroadcastDisabled", Manual, "SERIALIZATION_FAILED")
           \/ PlanEscalation(p, "BroadcastDisabled", Manual, "FIREWALL_REJECTED")
           \/ /\ ~FirewallPasses(e)
              /\ PlanEscalation(p, "BroadcastDisabled", target, "FIREWALL_REJECTED")
           \/ /\ FirewallPasses(e)
              /\ Goto(p, IF HashProbe THEN "probe" ELSE "sethash")
        /\ UNCHANGED <<row, execPhase, handed, chainVars>>

\* The optional pre-send probe: a hash the node knows, or cannot be asked
\* about, is a rejection.
Probe(p) ==
    /\ task[p].pc = "probe"
    /\ \/ PlanEscalation(p, "BroadcastDisabled", Manual, "FIREWALL_REJECTED")
       \/ ~Known(task[p].ex) /\ Goto(p, "sethash")
    /\ UNCHANGED <<row, execPhase, handed, chainVars>>

SetTxHash(p) ==
    LET e == task[p].ex
    IN  /\ task[p].pc = "sethash"
        /\ SetBroadcastTxHash(e, e)
        /\ IF TxHashWritable(e, e) THEN Goto(p, "reread") ELSE Finish(p)
        /\ UNCHANGED <<execPhase, handed, chainVars>>

\* Mutant: the attempt is counted twice.
ReReadCountingTwice(p) ==
    LET r == row[task[p].ex]
    IN  /\ task[p].pc = "reread"
        /\ IF r.phase \in Unsent
           THEN PlanWrite(p, "claim", r.phase, "Broadcasting",
                    [NoPatch EXCEPT !.attempts = r.attempts + 2, !.lastSub = now])
           ELSE Finish(p)
        /\ UNCHANGED <<row, execPhase, handed, chainVars>>

\* A row that has left the unsent phases belongs to a concurrent submitter.
ReRead(p) ==
    LET r == row[task[p].ex]
    IN  /\ task[p].pc = "reread"
        /\ IF r.phase \in Unsent
           THEN PlanWrite(p, "claim", r.phase, "Broadcasting",
                    [NoPatch EXCEPT !.attempts = r.attempts + 1, !.lastSub = now])
           ELSE Finish(p)
        /\ UNCHANGED <<row, execPhase, handed, chainVars>>

\* Mutant: the result of the update is ignored.
ClaimUnchecked(p) ==
    LET t == task[p]
    IN  /\ t.pc = "claim"
        /\ UpdateBroadcastPhase(t.ex, t.from, t.to, t.patch)
        /\ task' = [task EXCEPT ![p] = [IdleTask EXCEPT !.pc = "send", !.ex = t.ex]]
        /\ UNCHANGED <<execPhase, handed, chainVars>>

\* Whoever moves the row to Broadcasting may send; the others give up.
Claim(p) ==
    LET t == task[p]
    IN  /\ t.pc = "claim"
        /\ UpdateBroadcastPhase(t.ex, t.from, t.to, t.patch)
        /\ IF UpdateApplies(t.ex, t.from, t.to)
           THEN task' = [task EXCEPT ![p] =
                            [IdleTask EXCEPT !.pc = "send", !.ex = t.ex]]
           ELSE Finish(p)
        /\ UNCHANGED <<execPhase, handed, chainVars>>

-----------------------------------------------------------------------------
\* send_raw_transaction.  The HTTP client repeats the POST after an ambiguous
\* failure, up to its own limit, and only then reports it.  The outbox hands
\* the bytes over once per call.
HandOff(p, next) ==
    LET t == task[p]
        repeated == t.posts < RpcMaxRetries
    IN  \E resp \in SendResponses :
          /\ resp = "mismatch" => FaultyProvider
          /\ Transmit(t.ex, resp)
          /\ task' = [task EXCEPT
                ![p].pc    = IF resp = "ambiguous" /\ repeated THEN t.pc ELSE next,
                ![p].resp  = IF resp = "ambiguous" /\ repeated THEN None ELSE resp,
                ![p].posts = IF resp = "ambiguous" /\ repeated THEN t.posts + 1 ELSE 0]
          /\ handed' = [handed EXCEPT ![t.ex] = IF t.posts = 0 THEN @ + 1 ELSE @]
          /\ UNCHANGED <<row, execPhase>>

Send(p) ==
    /\ task[p].pc = "send"
    /\ HandOff(p, "classify")

\* classify_and_persist: the two non-escalating answers update the row right
\* away, from Broadcasting.
ClassifySend(p) ==
    LET t == task[p]
        settle(to, fail) ==
            /\ UpdateBroadcastPhase(t.ex, "Broadcasting", to,
                   [NoPatch EXCEPT !.lastSub = now, !.fail = fail])
            /\ Finish(p)
        escalate(fail) ==
            PlanEscalation(p, "Broadcasting", Manual, fail) /\ UNCHANGED row
    IN  /\ t.pc = "classify"
        /\ \/ t.resp \in {"accepted", "already_known"} /\ settle("Submitted", None)
           \/ t.resp = "ambiguous" /\ settle("SubmissionUnknown", "TRANSPORT_AMBIGUOUS")
           \/ t.resp = "mismatch" /\ escalate("PROVIDER_HASH_MISMATCH")
           \/ t.resp \in {"nonce_low", "nonce_conflict"} /\ escalate("NONCE_CONFLICT")
           \/ t.resp \in {"rejected", "malformed"} /\ escalate("PROVIDER_REJECTED")
        /\ UNCHANGED <<execPhase, handed, chainVars>>

-----------------------------------------------------------------------------
\* resume: look the transaction up, never resend.
ResumeRead(p) ==
    LET r == row[task[p].ex]
    IN  /\ task[p].pc = "resume"
        /\ \/ /\ r.phase \notin {"Broadcasting", "SubmissionUnknown"}
              /\ Finish(p)
           \/ /\ r.phase \in {"Broadcasting", "SubmissionUnknown"}
              /\ IF r.tx = None
                 THEN PlanEscalation(p, r.phase, Manual, "TRANSPORT_AMBIGUOUS")
                 ELSE task' = [task EXCEPT ![p].pc = "lookup", ![p].snap = r,
                                           ![p].ts = now]
        /\ UNCHANGED <<row, execPhase, handed, chainVars>>

\* Mutant: an empty answer is taken for an observation.
ResumeLookupHasty(p) ==
    LET was == task[p].snap.phase
    IN  /\ task[p].pc = "lookup"
        /\ PlanWrite(p, "write", was,
                     IF was = "Broadcasting" THEN "Submitted" ELSE "Pending",
                     [NoPatch EXCEPT !.lastSub = task[p].ts])
        /\ UNCHANGED <<row, execPhase, handed, chainVars>>

ResumeLookup(p) ==
    LET t == task[p]
        was == t.snap.phase
        stamp == [NoPatch EXCEPT !.lastSub = t.ts]
        seenAs == IF was = "Broadcasting" THEN "Submitted" ELSE "Pending"
    IN  /\ t.pc = "lookup"
        /\ \/ FaultyProvider /\ PlanEscalation(p, was, Manual, "PROVIDER_HASH_MISMATCH")
           \/ Known(t.ex) /\ PlanWrite(p, "write", was, seenAs, stamp)
           \/ /\ ~Known(t.ex) /\ was = "Broadcasting"
              /\ PlanWrite(p, "write", was, "SubmissionUnknown",
                           [stamp EXCEPT !.fail = "TRANSPORT_AMBIGUOUS"])
           \/ /\ ~Known(t.ex) /\ was = "SubmissionUnknown"
              /\ IF Age(t.snap, t.ts) > MaxPendingAge
                 THEN PlanEscalation(p, was, Manual, "TRANSPORT_AMBIGUOUS")
                 ELSE Finish(p)
        /\ UNCHANGED <<row, execPhase, handed, chainVars>>

-----------------------------------------------------------------------------
\* resend_same_bytes.  The row keeps its phase while the bytes are sent, so
\* the attempt counter moves only if the answer moves the phase.
ResendRead(p, e) ==
    /\ row[e] # None
    /\ row[e].phase \in {"SubmissionUnknown", "Dropped"}
    /\ handed[e] < MaxSends
    /\ task[p].pc = "idle"
    /\ LET r == row[e]
           refused(fail) ==
               PlanUpdate(p, e, "escalate", r.phase, Manual, FailPatch(fail))
       IN  IF r.attempts >= RetryMax + 1
           THEN refused("TRANSPORT_AMBIGUOUS")
           ELSE \/ refused("SERIALIZATION_FAILED")
                \/ r.tx \notin {None, e} /\ refused("PROVIDER_HASH_MISMATCH")
                \/ /\ r.tx \in {None, e}
                   /\ task' = [task EXCEPT ![p] = [IdleTask EXCEPT
                          !.pc = "resend", !.ex = e, !.snap = r, !.ts = now]]
    /\ UNCHANGED <<row, execPhase, handed, chainVars>>

Resend(p) ==
    /\ task[p].pc = "resend"
    /\ HandOff(p, "reclassify")

ClassifyResend(p) ==
    LET t == task[p]
        was == t.snap.phase
        escalate(fail) ==
            PlanEscalation(p, was, Manual, fail) /\ UNCHANGED row
    IN  /\ t.pc = "reclassify"
        /\ \/ /\ t.resp \in {"accepted", "already_known"}
              /\ IF CanTransition(was, "Submitted")
                 THEN /\ UpdateBroadcastPhase(t.ex, was, "Submitted",
                             [NoPatch EXCEPT !.attempts = t.snap.attempts + 1,
                                             !.lastSub = t.ts])
                      /\ Finish(p)
                 ELSE escalate("TRANSPORT_AMBIGUOUS")
           \/ t.resp = "ambiguous" /\ Finish(p) /\ UNCHANGED row
           \/ /\ t.resp = "mismatch"
              /\ PlanEscalation(p, "Broadcasting", Manual, "PROVIDER_HASH_MISMATCH")
              /\ UNCHANGED row
           \/ t.resp \in {"nonce_low", "nonce_conflict"} /\ escalate("NONCE_CONFLICT")
           \/ t.resp \in {"rejected", "malformed"} /\ escalate("PROVIDER_REJECTED")
        /\ UNCHANGED <<execPhase, handed, chainVars>>

-----------------------------------------------------------------------------
\* admin_broadcast_manual_intervention: escalate from the phase just read.
ManualRead(p, e) ==
    /\ row[e] # None
    /\ CanTransition(row[e].phase, Manual)
    /\ task[p].pc = "idle"
    /\ PlanUpdate(p, e, "write", row[e].phase, Manual,
                  FailPatch("ADMIN_MANUAL_INTERVENTION"))
    /\ UNCHANGED <<row, execPhase, handed, chainVars>>
=============================================================================
