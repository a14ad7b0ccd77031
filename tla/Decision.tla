------------------------------ MODULE Decision ------------------------------
(***************************************************************************)
(* The decision of prepare_result (src/fabric_commit.cpp): what the        *)
(* consensus state and the arbitration report authorize together, and the  *)
(* execution status the commit gate stores for it.                         *)
(***************************************************************************)
EXTENDS EnsembleQuorum, Consensus, Arbitration

\* A vote tie still yields a selection when the policy breaks ties deterministically.
has_selection(consensus, arbitration, tie_break) ==
    /\ arbitration.selected # 0
    /\ ~arbitration.no_eligible_candidate
    /\ ~arbitration.tie_unresolved
    /\ \/ Resolved(consensus)
       \/ consensus = "tie" /\ tie_break # "report_tie"

decision_for(consensus, selection) ==
    CASE consensus = "cancelled" -> "cancelled"
      [] consensus = "superseded" -> "superseded"
      [] consensus = "revalidation_required" -> "revalidation_required"
      [] consensus = "fallback_required" -> "fallback_required"
      [] consensus \in {"quorum_not_reached", "quorum_impossible",
                        "required_participant_failed"} -> "failed"
      [] OTHER -> IF selection THEN "committed" ELSE "no_eligible_candidate"

status_for(decision) ==
    IF decision \in {"failed", "fallback_required"} THEN "failed" ELSE decision
=============================================================================
