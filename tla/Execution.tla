----------------------------- MODULE Execution -----------------------------
(***************************************************************************)
(* The data of one execution and what is derived from it: participant      *)
(* authority, candidate lifecycle helpers, the evaluation summaries and    *)
(* compute_reports (src/fabric_participant.cpp, src/fabric_commit.cpp).    *)
(*                                                                         *)
(*   spec   the EnsembleSpec.  Participants and stages are sequences, so a *)
(*          ParticipantId or a StageId is a position; criteria, triggers   *)
(*          and quotas, whose order decides nothing, are sets;             *)
(*   w      the evidence of an execution (part of ExecutionRecord):        *)
(*          candidates, evaluations (both in arrival order, a CandidateId  *)
(*          is a position), pending evaluations and planner bookkeeping;   *)
(*   e      what the engine reads besides: participants, epoch, and the    *)
(*          status, epoch and supersession of the execution.               *)
(*                                                                         *)
(* A worker and its boot are one value, 0 standing for an invalid boot; a  *)
(* payload is a number, 0 standing for the empty one.                      *)
(***************************************************************************)
EXTENDS Decision

CONSTANTS spec,           \* the ensemble specification, the same in every generation
          MaxCandidates   \* limits.max_candidates_per_execution

Participants == DOMAIN spec.participants

\* A StageSpec: who is asked, in parallel or one after the other.
Stage == [mode : {"parallel", "sequential"}, participants : Seq(Participants)]

\* What validate_spec makes sure of before the engine accepts a specification: participants
\* are numbered, and stages and the fallback name declared participants only.
ASSUME StagesAssumption ==
    /\ Len(spec.participants) \in Nat /\ Participants = 1..Len(spec.participants)
    /\ spec.stages \in Seq(Stage)
    /\ spec.fallback.fallback_participants \in Seq(Participants)
ASSUME RetryAssumption == spec.retry.max_attempts \in Nat \ {0}

Declaration(p) == spec.participants[p]
HasRole(p, role) == role \in Declaration(p).roles

evaluating_participants == {p \in Participants : HasRole(p, "judge") \/ HasRole(p, "verifier")}

judging_criteria == IF spec.judging_criteria = {} THEN {"default"} ELSE spec.judging_criteria

\* The participants that answer with candidates, in their order.
produces(p) ==
    \/ HasRole(p, "candidate") \/ HasRole(p, "specialist")
    \/ spec.fallback.eager_speculative /\ HasRole(p, "fallback")
AddProducer(s, p) == IF produces(p) THEN Append(s, p) ELSE s
producers ==
    LET among[n \in 0..Len(spec.participants)] ==
          IF n = 0 THEN <<>> ELSE AddProducer(among[n - 1], n)
    IN among[Len(spec.participants)]

\* The declared stages, or one implicit parallel stage of every producer.
effective_stages ==
    IF spec.stages # <<>> THEN spec.stages
    ELSE IF producers = <<>> THEN <<>>
    ELSE << [mode |-> "parallel", participants |-> producers] >>

\* The stage every fallback activation appends to extra_stages.
FallbackStage == [mode |-> "parallel", participants |-> spec.fallback.fallback_participants]

-----------------------------------------------------------------------------
(* ParticipantRecord and CandidateRecord. *)

authoritative(r, ep) == r.registered /\ r.status = "current" /\ r.epoch = ep
capable(r) == r.status \in {"current", "revalidation_required"}

\* Mutant: participant generations start at 0.
NewParticipantZero ==
    [generation |-> 0, status |-> "revalidation_required", registered |-> FALSE,
     worker_boot |-> 0, epoch |-> 0]

NewParticipant ==
    [generation |-> 1, status |-> "revalidation_required", registered |-> FALSE,
     worker_boot |-> 0, epoch |-> 0]

NewCandidate(p, pgen, stage, fallback) ==
    [participant |-> p, participant_generation |-> pgen, stage |-> stage,
     fallback |-> fallback, state |-> "declared", generation |-> 1,
     attempts_used |-> 0, worker_boot |-> 0, epoch |-> 0, payload |-> 0, current |-> TRUE]

NewExecution ==
    [candidates |-> <<>>, evaluations |-> <<>>, pending |-> {}, plans |-> 0,
     stage_index |-> 0, declared_current_stage |-> FALSE, planning_complete |-> FALSE,
     fallback_activated |-> FALSE, fallback_depth |-> 0, cancellation_emitted |-> FALSE,
     quorum |-> "not_evaluated", consensus |-> "not_evaluated"]

in_flight(c) == c.state \in {"declared", "dispatched"}

failure_error(kind) ==
    CASE kind \in {"unavailable", "timeout_reported"} -> "participant_unavailable"
      [] kind = "transport_error" -> "transport_error"
      [] kind = "malformed_output" -> "malformed_candidate"
      [] kind \in {"internal_error", "explicit_abort"} -> "participant_failed"

\* Mutant: one attempt too many.
RetryOnceMore(c, failure) ==
    c.attempts_used <= spec.retry.max_attempts /\ failure = "participant_unavailable"

retry_authorized(c, failure) ==
    /\ c.fallback => spec.fallback.enabled
    /\ c.attempts_used < spec.retry.max_attempts
    /\ CASE failure = "participant_unavailable" -> spec.retry.retry_on_unavailable
         [] failure = "transport_error" -> spec.retry.retry_on_transport_error
         [] failure = "malformed_candidate" -> spec.retry.retry_on_malformed_candidate
         [] failure = "participant_failed" -> spec.retry.retry_on_participant_failed

\* supersede_candidate_evidence, for every candidate of the set ids.
supersede_candidate_evidence(w, ids) ==
    [w EXCEPT !.evaluations = [i \in DOMAIN @ |-> IF @[i].candidate \in ids
                                                   THEN [@[i] EXCEPT !.current = FALSE] ELSE @[i]],
              !.pending = {q \in @ : q.candidate \in ids => q.answered}]

failed_candidate(c) == [c EXCEPT !.state = "failed", !.payload = 0]

\* Mutant: the retry keeps the generation of the attempt before.
rewound_in_generation(c) ==
    [c EXCEPT !.state = "declared", !.payload = 0, !.current = TRUE]

rewound_candidate(c) ==
    [c EXCEPT !.generation = @ + 1, !.state = "declared", !.payload = 0, !.current = TRUE]

\* fail_candidate or rewind_candidate_for_retry, for every candidate of the set ids.
fail_or_retry(w, ids, failure) ==
    supersede_candidate_evidence(
        [w EXCEPT !.candidates = [i \in DOMAIN @ |->
            IF i \notin ids THEN @[i]
            ELSE IF retry_authorized(@[i], failure) THEN rewound_candidate(@[i])
                                                    ELSE failed_candidate(@[i])]],
        ids)

\* Mutants: dispatched candidates are forgotten; resolved candidates are touched too.
AffectedDeclared(w, p, pgen) ==
    {i \in DOMAIN w.candidates :
        w.candidates[i].participant = p /\ w.candidates[i].state = "declared"}
AffectedResolved(w, p, pgen) ==
    {i \in DOMAIN w.candidates :
        w.candidates[i].participant = p /\ w.candidates[i].participant_generation = pgen}

\* The candidates handle_participant_failure_locked touches when p fails.
AffectedCandidates(w, p, pgen) ==
    {i \in DOMAIN w.candidates :
        /\ w.candidates[i].participant = p
        /\ w.candidates[i].participant_generation = pgen
        /\ in_flight(w.candidates[i])}

handle_participant_failure_locked(w, p, r, kind) ==
    LET ids == AffectedCandidates(w, p, r.generation)
        retried == {i \in ids : retry_authorized(w.candidates[i], failure_error(kind))}
    IN fail_or_retry(
          [w EXCEPT !.candidates = [i \in DOMAIN @ |->
              IF i \in retried THEN [@[i] EXCEPT !.worker_boot = r.worker_boot] ELSE @[i]]],
          ids, failure_error(kind))

-----------------------------------------------------------------------------
(* Reports. *)

\* The evaluations that are evidence about the current generation of candidate i.
EvidenceOf(w, i) ==
    {k \in DOMAIN w.evaluations :
        /\ w.evaluations[k].candidate = i
        /\ w.evaluations[k].current
        /\ w.evaluations[k].candidate_generation = w.candidates[i].generation}

summarize_candidate(w, i) ==
    LET evidence == EvidenceOf(w, i)
        judged(j) == Cardinality({k \in evidence : w.evaluations[k].judgment = j})
        verified(v) == Cardinality({k \in evidence : w.evaluations[k].verification = v})
        hard == {k \in evidence : w.evaluations[k].kind = "hard_predicate"}
        scored == {k \in evidence : w.evaluations[k].score_defined}
    IN [evaluations |-> Cardinality(evidence),
        accepts |-> judged("accept"), rejects |-> judged("reject"),
        hard_predicates |-> Cardinality(hard),
        hard_failures |-> Cardinality({k \in hard : w.evaluations[k].verification = "fail"}),
        hard_unknowns |-> Cardinality({k \in hard : w.evaluations[k].verification
                                                      \in {"abstain", "unknown"}}),
        verifier_pass |-> verified("pass"), verifier_fail |-> verified("fail"),
        verifier_abstain |-> verified("abstain"),
        weighted_score_sum |-> MapThenSumSet(LAMBDA k : w.evaluations[k].score
                                                          * w.evaluations[k].weight, scored),
        weight_sum |-> MapThenSumSet(LAMBDA k : w.evaluations[k].weight, scored),
        min_score |-> IF scored = {} THEN 0 ELSE Min({w.evaluations[k].score : k \in scored})]

QuorumMembership(e) ==
    [p \in Participants |->
        [roles |-> Declaration(p).roles,
         required |-> Declaration(p).required,
         authorized |-> authoritative(e.participants[p], e.execution_epoch),
         available |-> e.participants[p].status # "unavailable",
         failed |-> e.participants[p].status = "failed",
         role_available |-> TRUE]]

EligibleVotes(w) ==
    LET vote(v) == [participant |-> v.evaluator, generation |-> v.evaluator_generation,
                    candidate |-> v.candidate,
                    abstained |-> v.judgment = "abstain" \/ v.verification = "abstain"]
        live == SelectSeq(w.evaluations, LAMBDA v : v.current)
    IN [i \in DOMAIN live |-> vote(live[i])]

CandidatesIn(w, states) == {i \in DOMAIN w.candidates : w.candidates[i].state \in states}

CandidateTallies(w) ==
    [i \in DOMAIN w.candidates |->
        LET agree == {k \in EvidenceOf(w, i) : w.evaluations[k].judgment = "accept"}
        IN [eligible |-> is_content_state(w.candidates[i].state),
            agreeing |-> Cardinality(agree),
            weighted_agree |-> MapThenSumSet(LAMBDA k : w.evaluations[k].weight, agree)]]

required_participant_failed(e) ==
    \E p \in Participants : Declaration(p).required /\ e.participants[p].status = "failed"

\* Mutant: one primary without content is enough.
AnyPrimaryInvalid(trigger, w, e) ==
    \E i \in DOMAIN w.candidates :
        ~w.candidates[i].fallback /\ ~is_content_state(w.candidates[i].state)

fallback_trigger_fires(trigger, w, e) ==
    CASE trigger = "participant_unavailable" ->
           \E p \in Participants :
              /\ Declaration(p).required
              /\ \/ e.participants[p].status = "unavailable"
                 \/ e.participants[p].status = "failed" /\ ~e.participants[p].registered
      [] trigger = "required_participant_failed" -> required_participant_failed(e)
      [] trigger = "retry_exhausted" ->
           \E i \in CandidatesIn(w, {"failed"}) :
              w.candidates[i].attempts_used >= spec.retry.max_attempts
      [] trigger = "all_primary_invalid" ->
           LET primaries == {i \in DOMAIN w.candidates : ~w.candidates[i].fallback}
           IN primaries # {} /\ primaries \cap CandidatesIn(w, ContentStates) = {}
      [] trigger = "quorum_impossible" -> w.quorum = "impossible"
      [] trigger = "required_role_unavailable" ->
           \E q \in spec.quorum.role_quota :
              Cardinality({p \in Participants : HasRole(p, q.role) /\ capable(e.participants[p])})
                 < q.min_count
      [] trigger = "insufficient_evidence" ->
           \A p \in evaluating_participants : ~capable(e.participants[p])
      [] trigger = "judge_disagreement" ->
           w.consensus \in {"disagreement", "tie", "insufficient_evidence"}

\* Fallback may not be requested any more and has produced nothing.
fallback_required(w, e) ==
    /\ spec.fallback.enabled
    /\ w.fallback_depth >= spec.fallback.max_depth
    /\ ~\E i \in CandidatesIn(w, ContentStates) : w.candidates[i].fallback
    /\ \E trigger \in spec.fallback.triggers : fallback_trigger_fires(trigger, w, e)

ArbitrationInputs(w, e) ==
    [candidates |->
        [i \in DOMAIN w.candidates |->
            LET c == w.candidates[i]
            IN [state |-> c.state, generation_current |-> c.current,
                participant_authoritative |->
                    authoritative(e.participants[c.participant], e.execution_epoch),
                compatible |-> TRUE,
                role_selectable |-> Declaration(c.participant).selectable,
                required_participant |-> Declaration(c.participant).required,
                fallback |-> c.fallback,
                participant_priority |-> Declaration(c.participant).priority,
                specialist_matches |-> Declaration(c.participant).specialist_matches,
                execution_cost |-> Declaration(c.participant).execution_budget_units,
                ev |-> summarize_candidate(w, i)]],
     factors |-> spec.arbitration.factors,
     tie_break |-> spec.arbitration.tie_break,
     aggregation |-> spec.aggregation,
     evidence |-> [spec.evidence EXCEPT !.mandatory_criteria = Cardinality(@)]]

QuorumReport(w, e) ==
    compute_quorum(spec.quorum, QuorumMembership(e), EligibleVotes(w),
                   Cardinality(CandidatesIn(w, ContentStates)))

\* The consensus stored by the previous computation is an input (judge_disagreement); the
\* quorum is the new one.
ConsensusInputs(w, e) ==
    LET quorum == QuorumReport(w, e)
    IN [quorum |-> quorum,
        tallies |-> CandidateTallies(w),
        candidates_declared |-> Len(w.candidates),
        invalid_candidates |-> Cardinality(CandidatesIn(w, {"invalid", "failed"})),
        required_participant_failed |-> required_participant_failed(e),
        require_all_required |-> spec.completion.require_all_required_participants,
        cancelled |-> e.status = "cancelled",
        superseded |-> e.status = "superseded" \/ e.superseded,
        revalidation_required |-> e.status = "revalidation_required",
        fallback_required |-> fallback_required([w EXCEPT !.quorum = quorum.state], e),
        requires_votes |-> evaluating_participants # {}]

ConsensusState(w, e) == compute_consensus(ConsensusInputs(w, e))

\* compute_reports: the quorum and the consensus it stores.  The arbitration report it also
\* stores is only read by prepare_result, which computes it from ArbitrationInputs.
compute_reports(w, e) ==
    [w EXCEPT !.quorum = QuorumReport(w, e).state, !.consensus = ConsensusState(w, e)]
=============================================================================
