---------------------------- MODULE StateRecords ----------------------------
(***************************************************************************)
(* The layouts of the specification, the result and the durable state      *)
(* (fabric_persist.cpp), each as its put function writes it and as its get *)
(* function reads it.  A writer's bound is the one validate_spec or the    *)
(* engine enforces; Unchecked where neither does.                          *)
(***************************************************************************)
EXTENDS Messages

CONSTANT MaxJudgingCriteria   \* a literal of decode_spec

put_criterion == u32(<<"id", "version">>)
get_criterion == u32(<<"id", "version">>)

put_compatibility_profile ==
    u16(<<"protocol_version">>)
      \o u32(<<"capability_mask", "task_class", "output_schema", "model_family", "backend_features">>)
get_compatibility_profile ==
    u16(<<"protocol_version">>)
      \o u32(<<"capability_mask", "task_class", "output_schema", "model_family", "backend_features">>)

put_compatibility_requirement ==
    u16(<<"min_protocol_version">>)
      \o u32(<<"required_capabilities", "required_task_class", "required_output_schema",
               "excluded_model_family", "required_backend_features">>)
      \o boolean(<<"require_model_family_diversity">>)
get_compatibility_requirement ==
    u16(<<"min_protocol_version">>)
      \o u32(<<"required_capabilities", "required_task_class", "required_output_schema",
               "excluded_model_family", "required_backend_features">>)
      \o boolean(<<"require_model_family_diversity">>)

put_participant_spec ==
    u64(<<"id">>) \o text("label", limits.max_label_bytes) \o roles("roles")
      \o boolean(<<"required">>) \o text("domain", limits.max_metadata_bytes)
      \o u32(<<"priority", "execution_budget_units">>)
      \o optional("selectable_override", boolean(<<"value">>))
      \o nested("compatibility", "compatibility_requirement")
get_participant_spec ==
    u64(<<"id">>) \o text("label", limits.max_label_bytes) \o roles("roles")
      \o boolean(<<"required">>) \o text("domain", limits.max_metadata_bytes)
      \o u32(<<"priority", "execution_budget_units">>)
      \o optional("selectable_override", boolean(<<"value">>))
      \o nested("compatibility", "compatibility_requirement")

put_stage_spec ==
    u64(<<"id">>) \o text("label", limits.max_label_bytes) \o enum("mode", 1, 2)
      \o list("participants", limits.max_parallel_branches, u64(<<"id">>))
      \o list("required_domains", Unchecked, text("domain", limits.max_metadata_bytes))
      \o boolean(<<"fallback_stage">>)
get_stage_spec ==
    u64(<<"id">>) \o text("label", limits.max_label_bytes) \o enum("mode", 1, 2)
      \o list("participants", limits.max_parallel_branches, u64(<<"id">>))
      \o list("required_domains", limits.max_participants_per_ensemble,
              text("domain", limits.max_metadata_bytes))
      \o boolean(<<"fallback_stage">>)

put_quorum_policy ==
    u32(<<"min_participants">>)
      \o list("role_quota", limits.max_role_quota_entries, enum("role", 1, 5) \o u32(<<"min_count">>))
      \o u32(<<"min_evaluations", "min_valid_candidates", "consensus_threshold_percent">>)
      \o enum("vote_basis", 1, 5)
      \o boolean(<<"count_abstentions", "count_optional_participants",
                   "count_failed_in_denominator", "count_unavailable_in_denominator">>)
      \o u32(<<"max_failures", "max_abstentions">>)
get_quorum_policy ==
    u32(<<"min_participants">>)
      \o list("role_quota", limits.max_role_quota_entries, enum("role", 1, 5) \o u32(<<"min_count">>))
      \o u32(<<"min_evaluations", "min_valid_candidates", "consensus_threshold_percent">>)
      \o enum("vote_basis", 1, 5)
      \o boolean(<<"count_abstentions", "count_optional_participants",
                   "count_failed_in_denominator", "count_unavailable_in_denominator">>)
      \o u32(<<"max_failures", "max_abstentions">>)

put_evidence_requirement ==
    Ranged(4, "min_candidate_payload_bytes", 0, Unchecked)
      \o u32(<<"min_evaluations_per_candidate">>) \o boolean(<<"require_rationale">>)
      \o list("mandatory_criteria", Unchecked, nested("criterion", "criterion"))
      \o boolean(<<"unknown_verification_is_failure", "abstention_is_failure">>)
get_evidence_requirement ==
    Ranged(4, "min_candidate_payload_bytes", 0, limits.max_candidate_payload_bytes)
      \o u32(<<"min_evaluations_per_candidate">>) \o boolean(<<"require_rationale">>)
      \o list("mandatory_criteria", limits.max_role_quota_entries * 4, nested("criterion", "criterion"))
      \o boolean(<<"unknown_verification_is_failure", "abstention_is_failure">>)

encode_spec ==
    zero("reserved") \o u64(<<"id", "generation">>) \o text("label", limits.max_label_bytes)
      \o text("task_class", limits.max_metadata_bytes)
      \o u32(<<"task_class_id">>) \o u64(<<"fingerprint">>)
      \o list("participants", limits.max_participants_per_ensemble,
              nested("participant", "participant_spec"))
      \o list("stages", limits.max_stages_per_ensemble, nested("stage", "stage_spec"))
      \o nested("quorum", "quorum_policy") \o enum("aggregation", 1, 6)
      \o boolean(<<"use_weights", "require_verification_pass", "require_judge_acceptance">>)
      \o u64(<<"min_aggregate_score", "min_judge_acceptance_ratio">>)
      \o list("factors", 13, enum("factor", 1, 13))
      \o enum("tie_break", 1, 4) \o boolean(<<"require_unique_winner">>) \o u32(<<"max_selected">>)
      \o boolean(<<"fallback_enabled">>) \o list("triggers", 8, enum("trigger", 1, 8))
      \o list("fallback_participants", Unchecked, u64(<<"id">>))
      \o boolean(<<"eager_speculative">>) \o u32(<<"max_depth">>)
      \o boolean(<<"require_consensus", "require_all_required_participants",
                   "allow_partial_results">>)
      \o u32(<<"max_attempts">>)
      \o boolean(<<"retry_on_unavailable", "retry_on_transport_error",
                   "retry_on_malformed_candidate", "retry_on_participant_failed",
                   "replace_participant", "rerun_evaluations", "cancel_on_required_failure",
                   "cancel_on_quorum_impossible", "preserve_committed_results">>)
      \o nested("evidence", "evidence_requirement")
      \o list("judging_criteria", Unchecked, nested("criterion", "criterion"))
      \o nested("requirements", "compatibility_requirement")
      \o u32(<<"overall_budget_units">>) \o u64(<<"deterministic_seed">>)
decode_spec ==
    zero("reserved") \o u64(<<"id", "generation">>) \o text("label", limits.max_label_bytes)
      \o text("task_class", limits.max_metadata_bytes)
      \o u32(<<"task_class_id">>) \o u64(<<"fingerprint">>)
      \o list("participants", limits.max_participants_per_ensemble,
              nested("participant", "participant_spec"))
      \o list("stages", limits.max_stages_per_ensemble, nested("stage", "stage_spec"))
      \o nested("quorum", "quorum_policy") \o enum("aggregation", 1, 6)
      \o boolean(<<"use_weights", "require_verification_pass", "require_judge_acceptance">>)
      \o u64(<<"min_aggregate_score", "min_judge_acceptance_ratio">>)
      \o list("factors", 16, enum("factor", 1, 13))
      \o enum("tie_break", 1, 4) \o boolean(<<"require_unique_winner">>) \o u32(<<"max_selected">>)
      \o boolean(<<"fallback_enabled">>) \o list("triggers", 8, enum("trigger", 1, 8))
      \o list("fallback_participants", limits.max_participants_per_ensemble, u64(<<"id">>))
      \o boolean(<<"eager_speculative">>) \o u32(<<"max_depth">>)
      \o boolean(<<"require_consensus", "require_all_required_participants",
                   "allow_partial_results">>)
      \o u32(<<"max_attempts">>)
      \o boolean(<<"retry_on_unavailable", "retry_on_transport_error",
                   "retry_on_malformed_candidate", "retry_on_participant_failed",
                   "replace_participant", "rerun_evaluations", "cancel_on_required_failure",
                   "cancel_on_quorum_impossible", "preserve_committed_results">>)
      \o nested("evidence", "evidence_requirement")
      \o list("judging_criteria", MaxJudgingCriteria, nested("criterion", "criterion"))
      \o nested("requirements", "compatibility_requirement")
      \o u32(<<"overall_budget_units">>) \o u64(<<"deterministic_seed">>)

encode_report == text("text", Unchecked)
decode_report == text("text", limits.max_explanation_entries * 512)

-----------------------------------------------------------------------------
(* Reports. *)

put_id_list(name) == list(name, limits.max_participants_per_ensemble, u64(<<"id">>))
get_id_list(name) == list(name, limits.max_participants_per_ensemble, u64(<<"id">>))

put_quorum_report ==
    enum("state", 0, 4) \o enum("basis", 1, 5)
      \o u32(<<"denominator", "contributors", "abstentions", "failures", "excluded_optional",
               "excluded_unavailable", "excluded_stale", "required_total", "required_present",
               "evaluations", "valid_candidates", "duplicate_votes_suppressed",
               "stale_votes_rejected", "threshold_percent", "threshold_count", "leading_votes",
               "role_quota_met", "role_quota_required">>)
      \o boolean(<<"failure_budget_exceeded", "abstention_budget_exceeded">>)
      \o u64(<<"ensemble_generation", "coordinator_epoch", "computed_sequence">>)
      \o put_id_list("members") \o put_id_list("member_generations")
      \o put_id_list("contributors_list") \o put_id_list("abstaining_members")
      \o put_id_list("failed_members")
      \o list("notes", Unchecked, text("note", limits.max_metadata_bytes))
get_quorum_report ==
    enum("state", 0, 4) \o enum("basis", 1, 5)
      \o u32(<<"denominator", "contributors", "abstentions", "failures", "excluded_optional",
               "excluded_unavailable", "excluded_stale", "required_total", "required_present",
               "evaluations", "valid_candidates", "duplicate_votes_suppressed",
               "stale_votes_rejected", "threshold_percent", "threshold_count", "leading_votes",
               "role_quota_met", "role_quota_required">>)
      \o boolean(<<"failure_budget_exceeded", "abstention_budget_exceeded">>)
      \o u64(<<"ensemble_generation", "coordinator_epoch", "computed_sequence">>)
      \o get_id_list("members") \o get_id_list("member_generations")
      \o get_id_list("contributors_list") \o get_id_list("abstaining_members")
      \o get_id_list("failed_members")
      \o list("notes", limits.max_explanation_entries, text("note", limits.max_metadata_bytes))

put_consensus_report ==
    enum("state", 0, 16)
      \o u64(<<"leading_candidate", "leading_generation", "leading_participant">>)
      \o u32(<<"agreeing", "disagreeing", "abstaining", "missing", "invalid_candidates",
               "eligible_candidates", "candidates_declared", "threshold_percent",
               "threshold_count", "vote_basis", "runner_up_votes">>)
      \o boolean(<<"unresolved_disagreement">>)
      \o u64(<<"ensemble_generation", "coordinator_epoch", "computed_sequence">>)
      \o put_id_list("agreeing_members") \o put_id_list("disagreeing_members")
      \o put_id_list("abstaining_members") \o put_id_list("missing_members")
      \o list("eligible_candidates_list", limits.max_candidates_per_execution, u64(<<"id">>))
get_consensus_report ==
    enum("state", 0, 16)
      \o u64(<<"leading_candidate", "leading_generation", "leading_participant">>)
      \o u32(<<"agreeing", "disagreeing", "abstaining", "missing", "invalid_candidates",
               "eligible_candidates", "candidates_declared", "threshold_percent",
               "threshold_count", "vote_basis", "runner_up_votes">>)
      \o boolean(<<"unresolved_disagreement">>)
      \o u64(<<"ensemble_generation", "coordinator_epoch", "computed_sequence">>)
      \o get_id_list("agreeing_members") \o get_id_list("disagreeing_members")
      \o get_id_list("abstaining_members") \o get_id_list("missing_members")
      \o list("eligible_candidates_list", limits.max_candidates_per_execution, u64(<<"id">>))
=============================================================================
