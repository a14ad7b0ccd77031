------------------------------ MODULE Messages ------------------------------
(***************************************************************************)
(* The payload layouts of the wire protocol (protocol.cpp), each as its    *)
(* encode function writes it and as its decode function reads it.          *)
(***************************************************************************)
EXTENDS Codec

CONSTANTS limits,       \* the Limits both ends are configured with
          wire,         \* the lengths the decoders accept: literals of protocol.cpp
          Unchecked     \* the longest value of a field nothing bounds before it is written

\* EnsembleError::internal_error, the last code.
LastError == 110

\* What Limits::validate checks of the lengths that matter here.  Three of them may be zero.
ASSUME LimitsAssumption ==
    /\ limits.max_candidate_payload_bytes <= limits.max_frame_bytes
    /\ \A n \in DOMAIN limits :
          /\ limits[n] \in Nat
          /\ n \in {"max_fallback_depth", "max_retained_commits", "max_explanation_entries"}
                \/ limits[n] > 0
\* What it does not: the decoders' literals allow for whatever the limits do.
ASSUME WireAssumption ==
    /\ limits.max_metadata_bytes <= wire.text
    /\ limits.max_frame_bytes <= wire.payload
    /\ limits.max_frame_bytes <= wire.spec
    /\ limits.max_frame_bytes <= wire.result
    /\ limits.max_frame_bytes <= wire.report
    /\ limits.max_evaluation_payload_bytes <= wire.evidence

\* Parts written and read inline by several messages.
ProfileWritten ==
    u16(<<"protocol_version">>)
      \o u32(<<"capability_mask", "task_class", "output_schema", "model_family", "backend_features">>)
ProfileRead ==
    u16(<<"protocol_version">>)
      \o u32(<<"capability_mask", "task_class", "output_schema", "model_family", "backend_features">>)
AuthorityWritten ==
    u64(<<"ensemble", "ensemble_generation", "participant", "participant_generation", "worker",
          "worker_boot", "coordinator_epoch">>)
AuthorityRead ==
    u64(<<"ensemble", "ensemble_generation", "participant", "participant_generation", "worker",
          "worker_boot", "coordinator_epoch">>)
AttemptWritten == u64(<<"execution", "attempt_generation", "candidate", "candidate_generation">>)
AttemptRead == u64(<<"execution", "attempt_generation", "candidate", "candidate_generation">>)
EnsembleWritten == u64(<<"ensemble", "ensemble_generation">>)
EnsembleRead == u64(<<"ensemble", "ensemble_generation">>)
code(name) == Ranged(2, name, 0, LastError)
roles(name) == Ranged(4, name, 0, 31)
detail == text("detail", limits.max_metadata_bytes)
detail_read == text("detail", wire.text)

-----------------------------------------------------------------------------
(* Sessions. *)

encode_hello == u64(<<"worker", "worker_boot", "coordinator_epoch">>) \o ProfileWritten
                  \o text("label", Unchecked)
decode_hello == u64(<<"worker", "worker_boot", "coordinator_epoch">>) \o ProfileRead
                  \o text("label", wire.text)

encode_worker_ready == u64(<<"worker", "worker_boot", "coordinator_epoch", "participant">>)
                         \o roles("roles") \o ProfileWritten \o text("label", Unchecked)
decode_worker_ready == u64(<<"worker", "worker_boot", "coordinator_epoch", "participant">>)
                         \o roles("roles") \o ProfileRead \o text("label", wire.text)

encode_coordinator_ack == u64(<<"coordinator_epoch", "coordinator_boot">>) \o u32(<<"status_code">>)
                            \o boolean(<<"accepted">>) \o detail
decode_coordinator_ack == u64(<<"coordinator_epoch", "coordinator_boot">>) \o u32(<<"status_code">>)
                            \o boolean(<<"accepted">>) \o detail_read

encode_register_participant ==
    u64(<<"ensemble", "ensemble_generation", "participant", "worker", "worker_boot",
          "coordinator_epoch">>) \o roles("claimed_roles") \o ProfileWritten
decode_register_participant ==
    u64(<<"ensemble", "ensemble_generation", "participant", "worker", "worker_boot",
          "coordinator_epoch">>) \o roles("claimed_roles") \o ProfileRead

encode_registration_ack == u64(<<"coordinator_epoch", "participant", "participant_generation">>)
                             \o boolean(<<"accepted">>) \o code("code") \o detail
decode_registration_ack == u64(<<"coordinator_epoch", "participant", "participant_generation">>)
                             \o boolean(<<"accepted">>) \o code("code") \o detail_read

encode_heartbeat == u64(<<"worker", "worker_boot", "coordinator_epoch", "sequence">>)
decode_heartbeat == u64(<<"worker", "worker_boot", "coordinator_epoch", "sequence">>)

-----------------------------------------------------------------------------
(* Candidates and evaluations. *)

encode_dispatch_candidate ==
    EnsembleWritten
      \o u64(<<"execution", "attempt_generation", "participant", "participant_generation",
               "coordinator_epoch", "candidate", "candidate_generation">>)
      \o enum("role", 1, 5) \o u64(<<"stage">>) \o u32(<<"attempt", "budget_units">>)
      \o u64(<<"deterministic_seed">>) \o text("domain", limits.max_metadata_bytes)
      \o text("request", Unchecked)
decode_dispatch_candidate ==
    EnsembleRead
      \o u64(<<"execution", "attempt_generation", "participant", "participant_generation",
               "coordinator_epoch", "candidate", "candidate_generation">>)
      \o enum("role", 1, 5) \o u64(<<"stage">>) \o u32(<<"attempt", "budget_units">>)
      \o u64(<<"deterministic_seed">>) \o text("domain", wire.text)
      \o text("request", wire.request)

encode_candidate_result == AuthorityWritten \o AttemptWritten
                             \o text("payload", limits.max_frame_bytes) \o u32(<<"produced_units">>)
decode_candidate_result == AuthorityRead \o AttemptRead
                             \o text("payload", wire.payload) \o u32(<<"produced_units">>)

encode_candidate_failure == AuthorityWritten \o AttemptWritten \o enum("kind", 1, 6)
                              \o text("detail", Unchecked)
decode_candidate_failure == AuthorityRead \o AttemptRead \o enum("kind", 1, 6) \o detail_read

encode_candidate_abstention == AuthorityWritten \o AttemptWritten \o text("rationale", Unchecked)
decode_candidate_abstention == AuthorityRead \o AttemptRead \o text("rationale", wire.text)

encode_evaluation_request ==
    EnsembleWritten
      \o u64(<<"execution", "attempt_generation", "judge", "judge_generation",
               "coordinator_epoch", "evaluation", "evaluation_generation">>)
      \o enum("role", 1, 5) \o u64(<<"candidate", "candidate_generation">>)
      \o u32(<<"criterion_id", "criterion_version">>) \o enum("criterion_kind", 1, 2)
      \o text("candidate_payload", limits.max_candidate_payload_bytes)
      \o text("domain", limits.max_metadata_bytes)
decode_evaluation_request ==
    EnsembleRead
      \o u64(<<"execution", "attempt_generation", "judge", "judge_generation",
               "coordinator_epoch", "evaluation", "evaluation_generation">>)
      \o enum("role", 1, 5) \o u64(<<"candidate", "candidate_generation">>)
      \o u32(<<"criterion_id", "criterion_version">>) \o enum("criterion_kind", 1, 2)
      \o text("candidate_payload", wire.payload) \o text("domain", wire.text)

encode_evaluation_result ==
    AuthorityWritten
      \o u64(<<"execution", "attempt_generation", "evaluation", "evaluation_generation",
               "candidate", "candidate_generation">>)
      \o u32(<<"criterion_id", "criterion_version">>) \o enum("criterion_kind", 1, 2)
      \o enum("verification", 1, 4) \o enum("judgment", 1, 4) \o boolean(<<"score_defined">>)
      \o u64(<<"score", "weight">>) \o text("evidence", Unchecked) \o text("rationale", Unchecked)
decode_evaluation_result ==
    AuthorityRead
      \o u64(<<"execution", "attempt_generation", "evaluation", "evaluation_generation",
               "candidate", "candidate_generation">>)
      \o u32(<<"criterion_id", "criterion_version">>) \o enum("criterion_kind", 1, 2)
      \o enum("verification", 1, 4) \o enum("judgment", 1, 4) \o boolean(<<"score_defined">>)
      \o u64(<<"score", "weight">>) \o text("evidence", wire.evidence) \o text("rationale", wire.text)

encode_cancel == EnsembleWritten
                   \o u64(<<"execution", "attempt_generation", "coordinator_epoch", "candidate",
                            "candidate_generation", "participant", "participant_generation">>)
                   \o text("reason", limits.max_metadata_bytes)
decode_cancel == EnsembleRead
                   \o u64(<<"execution", "attempt_generation", "coordinator_epoch", "candidate",
                            "candidate_generation", "participant", "participant_generation">>)
                   \o text("reason", wire.text)

-----------------------------------------------------------------------------
(* Controller requests and their answers. *)

encode_define_ensemble == text("encoded_spec", limits.max_frame_bytes)
decode_define_ensemble == text("encoded_spec", wire.spec)
encode_define_ensemble_ack == u64(<<"ensemble", "generation">>) \o boolean(<<"accepted">>)
                                \o code("code") \o detail
decode_define_ensemble_ack == u64(<<"ensemble", "generation">>) \o boolean(<<"accepted">>)
                                \o code("code") \o detail_read

encode_open_execution == EnsembleWritten
decode_open_execution == EnsembleRead
encode_open_execution_ack == EnsembleWritten \o u64(<<"execution">>) \o boolean(<<"accepted">>)
                               \o code("code") \o detail
decode_open_execution_ack == EnsembleRead \o u64(<<"execution">>) \o boolean(<<"accepted">>)
                               \o code("code") \o detail_read

encode_finalize_request == EnsembleWritten
decode_finalize_request == EnsembleRead
encode_finalize_response == EnsembleWritten \o enum("decision", 0, 7) \o boolean(<<"accepted">>)
                              \o code("code") \o text("encoded_result", limits.max_frame_bytes) \o detail
decode_finalize_response == EnsembleRead \o enum("decision", 0, 7) \o boolean(<<"accepted">>)
                              \o code("code") \o text("encoded_result", wire.result) \o detail_read

encode_cancel_ensemble == EnsembleWritten \o text("reason", limits.max_metadata_bytes)
decode_cancel_ensemble == EnsembleRead \o text("reason", wire.text)

encode_query_result == EnsembleWritten
decode_query_result == EnsembleRead
encode_result_response == EnsembleWritten \o boolean(<<"has_result">>) \o enum("decision", 0, 7)
                            \o text("encoded_result", limits.max_frame_bytes) \o code("code")
decode_result_response == EnsembleRead \o boolean(<<"has_result">>) \o enum("decision", 0, 7)
                            \o text("encoded_result", wire.result) \o code("code")

encode_inspect_request == u64(<<"ensemble">>)
decode_inspect_request == u64(<<"ensemble">>)
encode_inspect_response == EnsembleWritten \o text("encoded_report", limits.max_frame_bytes)
                             \o code("code")
decode_inspect_response == EnsembleRead \o text("encoded_report", wire.report) \o code("code")

encode_status_response == code("code") \o detail
decode_status_response == code("code") \o detail_read
encode_error_response == code("code") \o u64(<<"correlation">>) \o detail
decode_error_response == code("code") \o u64(<<"correlation">>) \o detail_read

-----------------------------------------------------------------------------

\* message |-> what its encode function writes and what its decode function reads.
MessageLayouts ==
    [hello |-> <<encode_hello, decode_hello>>,
     worker_ready |-> <<encode_worker_ready, decode_worker_ready>>,
     coordinator_ack |-> <<encode_coordinator_ack, decode_coordinator_ack>>,
     register_participant |-> <<encode_register_participant, decode_register_participant>>,
     registration_ack |-> <<encode_registration_ack, decode_registration_ack>>,
     heartbeat |-> <<encode_heartbeat, decode_heartbeat>>,
     dispatch_candidate |-> <<encode_dispatch_candidate, decode_dispatch_candidate>>,
     candidate_result |-> <<encode_candidate_result, decode_candidate_result>>,
     candidate_failure |-> <<encode_candidate_failure, decode_candidate_failure>>,
     candidate_abstention |-> <<encode_candidate_abstention, decode_candidate_abstention>>,
     evaluation_request |-> <<encode_evaluation_request, decode_evaluation_request>>,
     evaluation_result |-> <<encode_evaluation_result, decode_evaluation_result>>,
     cancel |-> <<encode_cancel, decode_cancel>>,
     define_ensemble |-> <<encode_define_ensemble, decode_define_ensemble>>,
     define_ensemble_ack |-> <<encode_define_ensemble_ack, decode_define_ensemble_ack>>,
     open_execution |-> <<encode_open_execution, decode_open_execution>>,
     open_execution_ack |-> <<encode_open_execution_ack, decode_open_execution_ack>>,
     finalize_request |-> <<encode_finalize_request, decode_finalize_request>>,
     finalize_response |-> <<encode_finalize_response, decode_finalize_response>>,
     cancel_ensemble |-> <<encode_cancel_ensemble, decode_cancel_ensemble>>,
     query_result |-> <<encode_query_result, decode_query_result>>,
     result_response |-> <<encode_result_response, decode_result_response>>,
     inspect_request |-> <<encode_inspect_request, decode_inspect_request>>,
     inspect_response |-> <<encode_inspect_response, decode_inspect_response>>,
     status_response |-> <<encode_status_response, decode_status_response>>,
     error_response |-> <<encode_error_response, decode_error_response>>]

\* Whose receiver calls require_exhausted.  Of the two receivers of coordinator_ack the client
\* does (client.cpp:61) and the worker does not (worker.cpp:114).
ExhaustedMessages ==
    {"register_participant", "candidate_result", "candidate_failure", "candidate_abstention",
     "evaluation_result", "dispatch_candidate", "evaluation_request", "coordinator_ack",
     "define_ensemble_ack", "open_execution_ack", "finalize_response", "result_response",
     "inspect_response", "status_response"}
=============================================================================
