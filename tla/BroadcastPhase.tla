--------------------------- MODULE BroadcastPhase ---------------------------
(***************************************************************************)
(* The phases of one broadcast row and the legal-edge matrix that the      *)
(* persistence layer enforces on every phase update.                       *)
(***************************************************************************)

Phases == {"BroadcastDisabled", "ReadyForBroadcast", "Broadcasting",
           "SubmissionUnknown", "Submitted", "Pending", "MinedSuccess",
           "MinedReverted", "Confirming", "Confirmed", "Reorged", "Dropped",
           "ManualInterventionRequired", "CancelledBeforeBroadcast"}

Manual == "ManualInterventionRequired"
Cancelled == "CancelledBeforeBroadcast"

\* The phases from which the first hand-off to the network may still start.
Unsent == {"BroadcastDisabled", "ReadyForBroadcast"}

IsTerminal(p) == p \in {"MinedReverted", "Dropped", Cancelled, Manual}

\* The legal successors of a phase; self-loops are never legal, so a field of
\* a row can only be rewritten together with a change of phase.
LegalSuccessors(p) ==
    CASE p = "BroadcastDisabled" ->
            {"ReadyForBroadcast", Cancelled, "Broadcasting", Manual}
      [] p = "ReadyForBroadcast" -> {"Broadcasting", Cancelled, Manual}
      [] p = "Broadcasting" -> {"Submitted", "SubmissionUnknown", Manual}
      [] p = "SubmissionUnknown" ->
            {"Submitted", "Pending", "MinedSuccess", "MinedReverted",
             "Dropped", Manual}
      [] p = "Submitted" ->
            {"Pending", "MinedSuccess", "MinedReverted", "Dropped",
             "Reorged", Manual}
      [] p = "Pending" ->
            {"MinedSuccess", "MinedReverted", "Dropped", "Reorged", Manual}
      [] p = "MinedSuccess" -> {"Confirming", "Reorged", Manual}
      [] p = "Confirming" -> {"Confirmed", "Reorged", Manual}
      [] p = "Confirmed" -> {"Reorged", Manual}
      [] p = "Reorged" -> {"Pending", "Confirming", Manual}
      [] OTHER -> {}

CanTransition(p, q) == ~IsTerminal(p) /\ q \in LegalSuccessors(p)
=============================================================================
