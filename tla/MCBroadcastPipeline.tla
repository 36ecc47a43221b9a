------------------------ MODULE MCBroadcastPipeline ------------------------
EXTENDS BroadcastPipeline, TLC

CONSTANTS e1, w, a1, a2

Requesters == Permutations({a1, a2})

\* The runs about observation start where every submission succeeded: the row
\* is Submitted, the node has the transaction, and the orchestrator has closed
\* the execution request, so that no further broadcast is admitted.
InitSubmitted ==
    /\ row = [e \in Exec |-> [NewRow EXCEPT !.phase = "Submitted", !.tx = e,
                                  !.attempts = 1, !.lastSub = 0]]
    /\ task = [p \in Proc |-> IdleTask]
    /\ execPhase = [e \in Exec |-> "BroadcastDisabled"]
    /\ handed = [e \in Exec |-> 1]
    /\ chain = <<>> /\ fork = 0
    /\ pool = Exec /\ wire = {}
    /\ mined = [e \in Exec |-> None]
    /\ included = [e \in Exec |-> {}]
    /\ indexed = <<>>
    /\ matched = [e \in Exec |-> None]
    /\ now = 0

SpecSubmitted == InitSubmitted /\ [][Next]_vars

FairSpecSubmitted == SpecSubmitted /\ Fairness

\* An operator who keeps asking for the broadcast of every execution whose
\* request is admitted, and whose requests are served.
Operated ==
    \A p \in Requests :
        /\ \A e \in Exec : SF_vars(Request(p, e))
        /\ WF_vars(OutboxStep(p) \/ WorkerStep(p))

FairSpecOperated == FairSpec /\ Operated
=============================================================================
