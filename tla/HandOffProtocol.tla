--------------------------- MODULE HandOffProtocol ---------------------------
(***************************************************************************)
(* What the outbox promises about the network, leaving out rows, tasks and *)
(* the chain: an execution is open until one submitter claims it; a        *)
(* claimed execution is handed over once, or given up after a crash; what  *)
(* is sent or closed never opens again.                                    *)
(***************************************************************************)
EXTENDS Naturals

CONSTANT Exec

VARIABLES status,  \* status[e]
          count    \* count[e]: times the bytes were handed to the RPC

Open(e) == status[e] = "open"

Init ==
    /\ status = [e \in Exec |-> "open"]
    /\ count = [e \in Exec |-> 0]

Claim(e) ==
    /\ Open(e)
    /\ status' = [status EXCEPT ![e] = "claimed"]
    /\ UNCHANGED count

HandOver(e) ==
    /\ status[e] = "claimed"
    /\ status' = [status EXCEPT ![e] = "sent"]
    /\ count' = [count EXCEPT ![e] = @ + 1]

\* Rejected or escalated before the hand-off, or the claimant crashed.
Close(e) ==
    /\ status[e] \in {"open", "claimed"}
    /\ status' = [status EXCEPT ![e] = "closed"]
    /\ UNCHANGED count

Next == \E e \in Exec : Claim(e) \/ HandOver(e) \/ Close(e)

Spec == Init /\ [][Next]_<<status, count>>
=============================================================================
