--------------------------- MODULE ExecutionPhase ---------------------------
(***************************************************************************)
(* The phases of one execution request and the legal-edge matrix that      *)
(* update_execution_phase enforces on every phase update.                  *)
(***************************************************************************)

Phases == {"Discovered", "Validating", "ReadyToSimulate", "Simulating",
           "SimulationSucceeded", "SimulationFailed", "AwaitingSignature",
           "Signing", "SignatureVerified", "ReadyForBroadcast",
           "BroadcastDisabled", "Cancelled", "Stale", "Failed"}

IsTerminal(p) == p \in {"BroadcastDisabled", "Cancelled", "Stale", "Failed"}

LegalSuccessors(p) ==
    CASE p = "Discovered" -> {"Validating", "Cancelled", "Failed"}
      [] p = "Validating" ->
            {"ReadyToSimulate", "Failed", "Cancelled", "Stale"}
      [] p = "ReadyToSimulate" -> {"Simulating", "Cancelled", "Stale"}
      [] p = "Simulating" ->
            {"SimulationSucceeded", "SimulationFailed", "Failed"}
      [] p = "SimulationSucceeded" ->
            {"AwaitingSignature", "Cancelled", "Stale"}
      [] p = "SimulationFailed" -> {"Failed"}
      [] p = "AwaitingSignature" -> {"Signing", "Cancelled", "Stale"}
      [] p = "Signing" -> {"SignatureVerified", "Failed"}
      [] p = "SignatureVerified" -> {"ReadyForBroadcast", "Failed"}
      [] p = "ReadyForBroadcast" -> {"BroadcastDisabled"}
      [] OTHER -> {}

CanTransition(p, q) == ~IsTerminal(p) /\ q \in LegalSuccessors(p)
=============================================================================
