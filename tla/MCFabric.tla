------------------------------ MODULE MCFabric ------------------------------
(* Small ensembles for model checking the runtime. *)
EXTENDS Claims

Member(roles, required) ==
    [roles |-> roles, required |-> required, selectable |-> TRUE, priority |-> 1,
     specialist_matches |-> 0, execution_budget_units |-> 1]

\* The defaults of EnsembleSpec: best of the candidates, one attempt, no fallback.
DefaultSpec(members) ==
    [participants |-> members,
     stages |-> <<>>,
     judging_criteria |-> {},
     quorum |-> [min_participants |-> 0, role_quota |-> {}, min_evaluations |-> 0,
                 min_valid_candidates |-> 1, consensus_threshold_percent |-> 0,
                 vote_basis |-> "authoritative", count_optional_participants |-> TRUE,
                 count_failed_in_denominator |-> FALSE,
                 count_unavailable_in_denominator |-> FALSE,
                 max_failures |-> unbounded, max_abstentions |-> unbounded],
     aggregation |-> [kind |-> "best_of_n", require_verification_pass |-> FALSE,
                      require_judge_acceptance |-> FALSE,
                      min_judge_acceptance_ratio |-> <<0, 1>>, min_aggregate_score |-> <<0, 1>>],
     arbitration |-> [factors |-> <<>>, tie_break |-> "lowest_candidate_id"],
     evidence |-> [min_evaluations_per_candidate |-> 0, mandatory_criteria |-> {},
                   unknown_verification_is_failure |-> TRUE],
     fallback |-> [enabled |-> FALSE, triggers |-> {}, fallback_participants |-> <<>>,
                   eager_speculative |-> FALSE, max_depth |-> 1],
     retry |-> [max_attempts |-> 1, retry_on_unavailable |-> TRUE,
                retry_on_transport_error |-> FALSE, retry_on_malformed_candidate |-> FALSE,
                retry_on_participant_failed |-> FALSE, replace_participant |-> FALSE],
     cancellation |-> [cancel_on_required_failure |-> FALSE],
     completion |-> [require_all_required_participants |-> FALSE]]

Candidate == Member({"candidate"}, FALSE)
Judge == Member({"judge"}, FALSE)
Verifier == Member({"verifier"}, FALSE)

\* A single producer: everything is about the commit gate.
SoloSpec ==
    LET members == <<Candidate>>
    IN DefaultSpec(members)

\* A sequential stage of two, then a parallel stage; a fallback when nothing valid came out.
StagedSpec ==
    LET members == <<Candidate, Candidate, Member({"fallback"}, FALSE)>>
    IN [DefaultSpec(members) EXCEPT
           !.stages = << [mode |-> "sequential", participants |-> <<1, 2>>],
                         [mode |-> "parallel", participants |-> <<1>>] >>,
           !.fallback = [@ EXCEPT !.enabled = TRUE, !.fallback_participants = <<3>>,
                                  !.triggers = {"all_primary_invalid"}]]

\* A producer whose output a judge has to accept; its rejection calls for the fallback, whose
\* output is judged too.
JudgedSpec ==
    LET members == <<Candidate, Judge, Member({"fallback"}, FALSE)>>
    IN [DefaultSpec(members) EXCEPT
           !.aggregation.require_judge_acceptance = TRUE,
           !.aggregation.min_judge_acceptance_ratio = <<1, 2>>,
           !.arbitration.factors = <<"vote_count">>,
           !.fallback = [@ EXCEPT !.enabled = TRUE, !.fallback_participants = <<3>>,
                                  !.triggers = {"judge_disagreement"}]]

\* A producer that may be retried by a replacement, and a judge.
RetryJudgedSpec ==
    LET members == <<Candidate, Judge>>
    IN [DefaultSpec(members) EXCEPT
           !.retry.max_attempts = 2, !.retry.replace_participant = TRUE]

Accept == [judgment |-> "accept", verification |-> "unknown", score_defined |-> TRUE,
           score |-> 1, weight |-> 1]
Reject == [Accept EXCEPT !.judgment = "reject", !.score = 0]

JudgeVerdicts == {Accept, Reject}

Passed == [judgment |-> "unknown", verification |-> "pass", score_defined |-> FALSE,
           score |-> 0, weight |-> 1]
VerifierVerdicts == {Passed, [Passed EXCEPT !.verification = "fail"]}
=============================================================================
