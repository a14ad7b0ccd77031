---------------------------- MODULE DurableState ----------------------------
(***************************************************************************)
(* The layouts of the result and of the runtime state that save_state      *)
(* writes and recover_state reads (fabric_persist.cpp), continued.         *)
(***************************************************************************)
EXTENDS StateRecords

\* Two writers are bounded by one limit and their readers by another; Limits::validate does not
\* compare them.
ASSUME SnapshotsAssumption ==
    /\ limits.max_explanation_entries <= limits.max_records_per_snapshot
    /\ limits.max_fallback_depth <= limits.max_stages_per_ensemble

Factor(bound) == enum("factor", 1, 13) \o u64(<<"value">>) \o text("detail", bound)
RankingWritten ==
    u64(<<"candidate", "generation", "participant", "participant_generation">>)
      \o enum("role", 1, 5) \o boolean(<<"eligible">>) \o enum("elimination", 0, 18)
      \o text("elimination_detail", limits.max_metadata_bytes)
      \o list("factors", 13, Factor(limits.max_metadata_bytes))
      \o u64(<<"rank">>) \o boolean(<<"selected">>)
RankingRead ==
    u64(<<"candidate", "generation", "participant", "participant_generation">>)
      \o enum("role", 1, 5) \o boolean(<<"eligible">>) \o enum("elimination", 0, 18)
      \o text("elimination_detail", limits.max_metadata_bytes)
      \o list("factors", 16, Factor(limits.max_metadata_bytes))
      \o u64(<<"rank">>) \o boolean(<<"selected">>)

put_arbitration_report ==
    u64(<<"ensemble_generation", "coordinator_epoch", "computed_sequence">>)
      \o enum("tie_break", 1, 4) \o list("factor_order", 13, enum("factor", 1, 13))
      \o list("ranking", limits.max_candidates_per_execution, RankingWritten)
      \o u64(<<"selected", "selected_generation", "selected_participant">>)
      \o enum("selected_role", 1, 5) \o boolean(<<"tie_unresolved", "no_eligible_candidate">>)
      \o u32(<<"considered", "eliminated">>)
      \o list("notes", Unchecked, text("note", limits.max_metadata_bytes))
get_arbitration_report ==
    u64(<<"ensemble_generation", "coordinator_epoch", "computed_sequence">>)
      \o enum("tie_break", 1, 4) \o list("factor_order", 16, enum("factor", 1, 13))
      \o list("ranking", limits.max_candidates_per_execution, RankingRead)
      \o u64(<<"selected", "selected_generation", "selected_participant">>)
      \o enum("selected_role", 1, 5) \o boolean(<<"tie_unresolved", "no_eligible_candidate">>)
      \o u32(<<"considered", "eliminated">>)
      \o list("notes", limits.max_explanation_entries, text("note", limits.max_metadata_bytes))

put_candidate_snapshot ==
    u64(<<"id", "generation", "ensemble", "ensemble_generation", "execution",
          "attempt_generation", "participant", "participant_generation">>)
      \o enum("role", 1, 5) \o u64(<<"stage">>) \o enum("state", 1, 13)
      \o u32(<<"attempt", "attempts_used">>) \o text("domain", limits.max_metadata_bytes)
      \o text("payload", limits.max_candidate_payload_bytes) \o u64(<<"payload_digest">>)
      \o size("payload_bytes", "payload")
      \o u64(<<"received_sequence", "coordinator_epoch", "worker", "worker_boot">>)
      \o code("failure") \o text("failure_detail", Unchecked)
      \o u32(<<"evaluation_count", "hard_failures">>) \o boolean(<<"fallback", "current">>)
      \o text("elimination_reason", limits.max_metadata_bytes)
get_candidate_snapshot ==
    u64(<<"id", "generation", "ensemble", "ensemble_generation", "execution",
          "attempt_generation", "participant", "participant_generation">>)
      \o enum("role", 1, 5) \o u64(<<"stage">>) \o enum("state", 1, 13)
      \o u32(<<"attempt", "attempts_used">>) \o text("domain", limits.max_metadata_bytes)
      \o text("payload", limits.max_candidate_payload_bytes) \o u64(<<"payload_digest">>)
      \o size("payload_bytes", "payload")
      \o u64(<<"received_sequence", "coordinator_epoch", "worker", "worker_boot">>)
      \o code("failure") \o text("failure_detail", limits.max_metadata_bytes)
      \o u32(<<"evaluation_count", "hard_failures">>) \o boolean(<<"fallback", "current">>)
      \o text("elimination_reason", limits.max_metadata_bytes)

put_evaluation_snapshot ==
    u64(<<"id", "generation", "ensemble", "ensemble_generation", "execution",
          "attempt_generation", "evaluator", "evaluator_generation">>)
      \o enum("evaluator_role", 1, 5) \o u64(<<"candidate", "candidate_generation">>)
      \o nested("criterion", "criterion") \o enum("kind", 1, 2) \o enum("verification", 1, 4)
      \o enum("judgment", 1, 4) \o boolean(<<"score_defined">>) \o u64(<<"score", "weight">>)
      \o text("evidence", limits.max_evaluation_payload_bytes)
      \o text("rationale", limits.max_metadata_bytes)
      \o u64(<<"received_sequence", "coordinator_epoch", "worker", "worker_boot">>)
      \o boolean(<<"current", "superseded">>)
get_evaluation_snapshot ==
    u64(<<"id", "generation", "ensemble", "ensemble_generation", "execution",
          "attempt_generation", "evaluator", "evaluator_generation">>)
      \o enum("evaluator_role", 1, 5) \o u64(<<"candidate", "candidate_generation">>)
      \o nested("criterion", "criterion") \o enum("kind", 1, 2) \o enum("verification", 1, 4)
      \o enum("judgment", 1, 4) \o boolean(<<"score_defined">>) \o u64(<<"score", "weight">>)
      \o text("evidence", limits.max_evaluation_payload_bytes)
      \o text("rationale", limits.max_metadata_bytes)
      \o u64(<<"received_sequence", "coordinator_epoch", "worker", "worker_boot">>)
      \o boolean(<<"current", "superseded">>)

-----------------------------------------------------------------------------
(* Results. *)

OutcomeWritten ==
    u64(<<"id", "generation">>) \o roles("roles") \o boolean(<<"required">>)
      \o enum("final_status", 1, 6)
      \o u32(<<"candidates", "candidates_valid", "candidates_failed", "candidates_abstained",
               "evaluations", "retries">>) \o boolean(<<"fallback", "authoritative">>)
OutcomeRead ==
    u64(<<"id", "generation">>) \o roles("roles") \o boolean(<<"required">>)
      \o enum("final_status", 1, 6)
      \o u32(<<"candidates", "candidates_valid", "candidates_failed", "candidates_abstained",
               "evaluations", "retries">>) \o boolean(<<"fallback", "authoritative">>)

put_result ==
    u64(<<"id", "generation", "ensemble", "ensemble_generation", "execution",
          "attempt_generation", "coordinator_epoch">>)
      \o enum("decision", 0, 7) \o boolean(<<"has_selected">>)
      \o u64(<<"selected_candidate", "selected_candidate_generation", "selected_participant",
               "selected_participant_generation">>) \o enum("selected_role", 1, 5)
      \o text("payload", limits.max_candidate_payload_bytes) \o u64(<<"payload_digest">>)
      \o size("payload_bytes", "payload")
      \o nested("quorum", "quorum_report") \o nested("consensus", "consensus_report")
      \o nested("arbitration", "arbitration_report")
      \o list("participants", limits.max_participants_per_ensemble, OutcomeWritten)
      \o list("candidates", limits.max_explanation_entries, nested("candidate", "candidate_snapshot"))
      \o list("evaluations", limits.max_explanation_entries, nested("evaluation", "evaluation_snapshot"))
      \o list("explanation", limits.max_explanation_entries,
              text("subject", limits.max_label_bytes) \o text("detail", limits.max_metadata_bytes))
      \o boolean(<<"fallback_used">>) \o u32(<<"fallback_depth">>)
      \o u64(<<"commit_sequence", "commit_fingerprint">>)
get_result ==
    u64(<<"id", "generation", "ensemble", "ensemble_generation", "execution",
          "attempt_generation", "coordinator_epoch">>)
      \o enum("decision", 0, 7) \o boolean(<<"has_selected">>)
      \o u64(<<"selected_candidate", "selected_candidate_generation", "selected_participant",
               "selected_participant_generation">>) \o enum("selected_role", 1, 5)
      \o text("payload", limits.max_candidate_payload_bytes) \o u64(<<"payload_digest">>)
      \o size("payload_bytes", "payload")
      \o nested("quorum", "quorum_report") \o nested("consensus", "consensus_report")
      \o nested("arbitration", "arbitration_report")
      \o list("participants", limits.max_participants_per_ensemble, OutcomeRead)
      \o list("candidates", limits.max_records_per_snapshot, nested("candidate", "candidate_snapshot"))
      \o list("evaluations", limits.max_records_per_snapshot, nested("evaluation", "evaluation_snapshot"))
      \o list("explanation", limits.max_explanation_entries,
              text("subject", limits.max_label_bytes) \o text("detail", limits.max_metadata_bytes))
      \o boolean(<<"fallback_used">>) \o u32(<<"fallback_depth">>)
      \o u64(<<"commit_sequence", "commit_fingerprint">>)

encode_result_payload == zero("reserved") \o nested("result", "result")
decode_result_payload == zero("reserved") \o nested("result", "result")

-----------------------------------------------------------------------------
(* Runtime records.  pending, commit_attempts, the explanation and the last *)
(* reports of an execution are not written.                                 *)

put_participant_record ==
    u64(<<"id", "generation">>) \o nested("declaration", "participant_spec") \o enum("status", 1, 6)
      \o u64(<<"worker", "worker_boot", "coordinator_epoch">>)
      \o nested("profile", "compatibility_profile") \o boolean(<<"registered">>)
      \o text("failure_detail", Unchecked)
      \o u32(<<"replacement_count", "candidates_completed", "candidates_failed",
               "candidates_abstained", "evaluations_submitted", "retries_consumed">>)
      \o boolean(<<"fallback_activated">>)
get_participant_record ==
    u64(<<"id", "generation">>) \o nested("declaration", "participant_spec") \o enum("status", 1, 6)
      \o u64(<<"worker", "worker_boot", "coordinator_epoch">>)
      \o nested("profile", "compatibility_profile") \o boolean(<<"registered">>)
      \o text("failure_detail", limits.max_metadata_bytes)
      \o u32(<<"replacement_count", "candidates_completed", "candidates_failed",
               "candidates_abstained", "evaluations_submitted", "retries_consumed">>)
      \o boolean(<<"fallback_activated">>)

put_candidate_record ==
    u64(<<"id", "generation", "participant", "participant_generation">>) \o enum("role", 1, 5)
      \o u64(<<"stage">>) \o enum("state", 1, 13) \o u32(<<"attempt", "attempts_used">>)
      \o text("domain", limits.max_metadata_bytes)
      \o text("payload", limits.max_candidate_payload_bytes)
      \o u64(<<"payload_digest", "received_sequence", "dispatch_sequence", "worker",
               "worker_boot", "coordinator_epoch">>)
      \o code("failure") \o text("failure_detail", Unchecked)
      \o u32(<<"evaluation_count", "hard_failures", "hard_unknowns", "hard_predicates",
               "budget_units_used", "latency">>) \o boolean(<<"fallback", "current">>)
      \o text("elimination_reason", limits.max_metadata_bytes)
get_candidate_record ==
    u64(<<"id", "generation", "participant", "participant_generation">>) \o enum("role", 1, 5)
      \o u64(<<"stage">>) \o enum("state", 1, 13) \o u32(<<"attempt", "attempts_used">>)
      \o text("domain", limits.max_metadata_bytes)
      \o text("payload", limits.max_candidate_payload_bytes)
      \o u64(<<"payload_digest", "received_sequence", "dispatch_sequence", "worker",
               "worker_boot", "coordinator_epoch">>)
      \o code("failure") \o text("failure_detail", limits.max_metadata_bytes)
      \o u32(<<"evaluation_count", "hard_failures", "hard_unknowns", "hard_predicates",
               "budget_units_used", "latency">>) \o boolean(<<"fallback", "current">>)
      \o text("elimination_reason", limits.max_metadata_bytes)

put_evaluation_record ==
    u64(<<"id", "generation", "evaluator", "evaluator_generation">>) \o enum("role", 1, 5)
      \o u64(<<"candidate", "candidate_generation">>) \o nested("criterion", "criterion")
      \o enum("kind", 1, 2) \o enum("verification", 1, 4) \o enum("judgment", 1, 4)
      \o boolean(<<"score_defined">>) \o u64(<<"score", "weight">>)
      \o text("evidence", limits.max_evaluation_payload_bytes)
      \o text("rationale", limits.max_metadata_bytes)
      \o u64(<<"received_sequence", "coordinator_epoch", "worker", "worker_boot", "fingerprint">>)
      \o boolean(<<"current">>)
get_evaluation_record ==
    u64(<<"id", "generation", "evaluator", "evaluator_generation">>) \o enum("role", 1, 5)
      \o u64(<<"candidate", "candidate_generation">>) \o nested("criterion", "criterion")
      \o enum("kind", 1, 2) \o enum("verification", 1, 4) \o enum("judgment", 1, 4)
      \o boolean(<<"score_defined">>) \o u64(<<"score", "weight">>)
      \o text("evidence", limits.max_evaluation_payload_bytes)
      \o text("rationale", limits.max_metadata_bytes)
      \o u64(<<"received_sequence", "coordinator_epoch", "worker", "worker_boot", "fingerprint">>)
      \o boolean(<<"current">>)

put_commit_record ==
    u64(<<"result", "generation", "sequence", "coordinator_epoch", "execution",
          "attempt_generation">>) \o enum("decision", 0, 7) \o u64(<<"commit_fingerprint">>)
get_commit_record ==
    u64(<<"result", "generation", "sequence", "coordinator_epoch", "execution",
          "attempt_generation">>) \o enum("decision", 0, 7) \o u64(<<"commit_fingerprint">>)

\* stage_index is a number because its reader bounds it; it passes the declared stages once
\* fallback stages are appended.
put_execution_record ==
    u64(<<"id", "attempt_generation">>) \o enum("status", 0, 7)
      \o u64(<<"coordinator_epoch", "report_generation">>)
      \o Ranged(8, "stage_index", 0, Unchecked)
      \o boolean(<<"declared_current_stage", "planning_complete", "fallback_activated">>)
      \o u32(<<"fallback_depth">>) \o boolean(<<"cancellation_requested">>)
      \o text("cancellation_reason", limits.max_metadata_bytes) \o boolean(<<"cancellation_emitted">>)
      \o u64(<<"cancelled_sequence", "committed_sequence">>)
      \o optional("result", nested("result", "result"))
      \o list("candidates", limits.max_candidates_per_execution, nested("candidate", "candidate_record"))
      \o list("evaluations", Unchecked, nested("evaluation", "evaluation_record"))
      \o list("extra_stages", limits.max_fallback_depth, nested("stage", "stage_spec"))
      \o list("commits", limits.max_retained_commits, nested("commit", "commit_record"))
get_execution_record ==
    u64(<<"id", "attempt_generation">>) \o enum("status", 0, 7)
      \o u64(<<"coordinator_epoch", "report_generation">>)
      \o Ranged(8, "stage_index", 0, limits.max_stages_per_ensemble)
      \o boolean(<<"declared_current_stage", "planning_complete", "fallback_activated">>)
      \o u32(<<"fallback_depth">>) \o boolean(<<"cancellation_requested">>)
      \o text("cancellation_reason", limits.max_metadata_bytes) \o boolean(<<"cancellation_emitted">>)
      \o u64(<<"cancelled_sequence", "committed_sequence">>)
      \o optional("result", nested("result", "result"))
      \o list("candidates", limits.max_candidates_per_execution, nested("candidate", "candidate_record"))
      \o list("evaluations", limits.max_evaluations_per_execution, nested("evaluation", "evaluation_record"))
      \o list("extra_stages", limits.max_stages_per_ensemble, nested("stage", "stage_spec"))
      \o list("commits", limits.max_retained_commits, nested("commit", "commit_record"))

EnsembleRecordWritten ==
    nested("spec", "spec") \o boolean(<<"superseded">>)
      \o list("participants", limits.max_participants_per_ensemble,
              nested("participant", "participant_record"))
      \o optional("execution", nested("execution", "execution_record"))
      \o list("history", limits.max_retained_results, nested("result", "result"))
EnsembleRecordRead ==
    nested("spec", "spec") \o boolean(<<"superseded">>)
      \o list("participants", limits.max_participants_per_ensemble,
              nested("participant", "participant_record"))
      \o optional("execution", nested("execution", "execution_record"))
      \o list("history", limits.max_retained_results, nested("result", "result"))

serialize_state ==
    zero("reserved")
      \o u64(<<"epoch", "coordinator_boot", "ensemble_ids", "candidate_ids", "evaluation_ids",
               "result_ids", "sequences", "commits_accepted", "commits_rejected_conflicting",
               "commits_rejected_stale", "stale_submissions_rejected",
               "duplicate_submissions_suppressed", "duplicate_votes_suppressed",
               "fallback_activations", "retries_issued", "cancellations", "supersessions",
               "revalidations_required">>)
      \o list("ensembles", Unchecked, EnsembleRecordWritten)
recover_state ==
    zero("reserved")
      \o u64(<<"epoch", "coordinator_boot", "ensemble_ids", "candidate_ids", "evaluation_ids",
               "result_ids", "sequences", "commits_accepted", "commits_rejected_conflicting",
               "commits_rejected_stale", "stale_submissions_rejected",
               "duplicate_submissions_suppressed", "duplicate_votes_suppressed",
               "fallback_activations", "retries_issued", "cancellations", "supersessions",
               "revalidations_required">>)
      \o list("ensembles", limits.max_records_per_snapshot, EnsembleRecordRead)

-----------------------------------------------------------------------------

\* record |-> what its put function writes and what its get function reads.
StateLayouts ==
    [criterion |-> <<put_criterion, get_criterion>>,
     compatibility_profile |-> <<put_compatibility_profile, get_compatibility_profile>>,
     compatibility_requirement |-> <<put_compatibility_requirement, get_compatibility_requirement>>,
     participant_spec |-> <<put_participant_spec, get_participant_spec>>,
     stage_spec |-> <<put_stage_spec, get_stage_spec>>,
     quorum_policy |-> <<put_quorum_policy, get_quorum_policy>>,
     evidence_requirement |-> <<put_evidence_requirement, get_evidence_requirement>>,
     spec |-> <<encode_spec, decode_spec>>,
     report |-> <<encode_report, decode_report>>,
     quorum_report |-> <<put_quorum_report, get_quorum_report>>,
     consensus_report |-> <<put_consensus_report, get_consensus_report>>,
     arbitration_report |-> <<put_arbitration_report, get_arbitration_report>>,
     candidate_snapshot |-> <<put_candidate_snapshot, get_candidate_snapshot>>,
     evaluation_snapshot |-> <<put_evaluation_snapshot, get_evaluation_snapshot>>,
     result |-> <<put_result, get_result>>,
     result_payload |-> <<encode_result_payload, decode_result_payload>>,
     participant_record |-> <<put_participant_record, get_participant_record>>,
     candidate_record |-> <<put_candidate_record, get_candidate_record>>,
     evaluation_record |-> <<put_evaluation_record, get_evaluation_record>>,
     commit_record |-> <<put_commit_record, get_commit_record>>,
     execution_record |-> <<put_execution_record, get_execution_record>>,
     state |-> <<serialize_state, recover_state>>]

\* Whose reader calls require_exhausted; the others are read from a longer input.
ExhaustedRecords == {"spec", "report", "result_payload", "state"}
=============================================================================
