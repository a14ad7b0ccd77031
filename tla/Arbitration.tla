---------------------------- MODULE Arbitration ----------------------------
(***************************************************************************)
(* Candidate arbitration (src/arbitration.cpp): hard eligibility, then the *)
(* configured factors in order, then the tie-break policy.                 *)
(*                                                                         *)
(* arbitrate is a pure function of                                         *)
(*   inputs.candidates  candidate id -> ArbitrationCandidateInput, where   *)
(*                      .ev is the CandidateEvaluationSummary;             *)
(*   inputs.factors     the sequence of ranking factors;                   *)
(*   inputs.tie_break, inputs.aggregation, inputs.evidence  the policies.  *)
(*                                                                         *)
(* A double is a ratio <<numerator, denominator>> with a positive          *)
(* denominator, compared exactly; the explanation of the ranking is left   *)
(* out.                                                                    *)
(***************************************************************************)
EXTENDS Integers, Sequences, FiniteSets, FiniteSetsExt

Ratio(n, d) == IF d = 0 THEN <<0, 1>> ELSE <<n, d>>
RatioLess(x, y) == x[1] * y[2] < y[1] * x[2]
RatioEq(x, y) == x[1] * y[2] = y[1] * x[2]

ContentStates == {"valid", "eligible", "selected"}
is_content_state(state) == state \in ContentStates

mean_score(ev) == Ratio(ev.weighted_score_sum, ev.weight_sum)
AcceptanceRatio(ev) == Ratio(ev.accepts, ev.accepts + ev.rejects)

higher_is_better(factor) == factor \notin {"execution_cost", "latency"}

factor_value(factor, c) ==
    LET ev == c.ev
    IN CASE factor = "judge_acceptance_ratio" -> AcceptanceRatio(ev)
         [] factor = "verifier_state" ->
              IF ev.verifier_fail > 0 THEN <<0, 1>>
              ELSE IF ev.verifier_pass > 0 THEN <<2, 1>>
              ELSE IF ev.verifier_abstain > 0 THEN <<1, 2>> ELSE <<0, 1>>
         [] factor = "vote_count" -> <<ev.accepts, 1>>
         [] factor = "weighted_vote" -> <<Max({0, ev.weighted_score_sum}), 1>>
         [] factor = "aggregate_score" -> mean_score(ev)
         [] factor = "min_score" -> IF ev.evaluations = 0 THEN <<0, 1>> ELSE <<ev.min_score, 1>>
         [] factor = "confidence" -> Ratio(ev.accepts, ev.evaluations)
         [] factor = "participant_priority" -> <<c.participant_priority, 1>>
         [] factor = "specialist_relevance" -> <<c.specialist_matches, 1>>
         [] factor = "execution_cost" -> <<c.execution_cost, 1>>
         [] factor = "latency" -> <<c.latency, 1>>
         [] factor = "provenance_quality" -> IF c.participant_authoritative THEN <<1, 1>> ELSE <<0, 1>>
         [] factor = "fallback_status" -> IF c.fallback THEN <<1, 1>> ELSE <<0, 1>>

factor_ties(factor, l, r) == RatioEq(factor_value(factor, l), factor_value(factor, r))

factor_precedes(factor, l, r) ==
    IF higher_is_better(factor)
      THEN RatioLess(factor_value(factor, r), factor_value(factor, l))
      ELSE RatioLess(factor_value(factor, l), factor_value(factor, r))

(***************************************************************************)
(* Hard eligibility: the checks of check_eligibility in the order they     *)
(* run, each with the reason it eliminates for.                            *)
(***************************************************************************)
EligibilityChecks(c, inputs) ==
    LET ev == c.ev
        evidence == inputs.evidence
        mandatory == evidence.mandatory_criteria > 0
        verifier_gating == \/ inputs.aggregation.require_verification_pass
                           \/ inputs.aggregation.kind = "verifier_gated"
        judge_gating == \/ inputs.aggregation.require_judge_acceptance
                        \/ inputs.aggregation.kind = "judge_arbitration"
    IN << <<~c.generation_current, "stale_generation">>,
          <<c.state = "superseded", "superseded">>,
          <<c.state = "cancelled", "cancelled">>,
          <<c.state = "failed", "failed_attempt">>,
          <<c.state = "abstained", "abstained">>,
          <<c.state = "invalid", "invalid_candidate">>,
          <<~is_content_state(c.state), "not_a_content_state">>,
          <<~c.participant_authoritative, "participant_not_authoritative">>,
          <<~c.compatible, "incompatible_participant">>,
          <<~c.role_selectable, "not_selectable_role">>,
          <<mandatory /\ ev.hard_failures > 0, "hard_predicate_failed">>,
          <<mandatory /\ ev.hard_unknowns > 0 /\ evidence.unknown_verification_is_failure,
            "hard_predicate_failed">>,
          <<mandatory /\ ev.hard_predicates < evidence.mandatory_criteria,
            "missing_required_evidence">>,
          <<verifier_gating /\ (ev.verifier_fail > 0 \/ ev.verifier_pass = 0), "verifier_failed">>,
          <<judge_gating /\ \/ ev.accepts + ev.rejects = 0
                            \/ RatioLess(AcceptanceRatio(ev),
                                         inputs.aggregation.min_judge_acceptance_ratio),
            "insufficient_judge_acceptance">>,
          <<ev.evaluations < evidence.min_evaluations_per_candidate, "missing_required_evidence">>,
          <</\ RatioLess(<<0, 1>>, inputs.aggregation.min_aggregate_score)
            /\ RatioLess(mean_score(ev), inputs.aggregation.min_aggregate_score),
            "below_minimum_score">> >>

\* The reason a candidate is eliminated, "none" when it is eligible.
check_eligibility(c, inputs) ==
    LET checks == EligibilityChecks(c, inputs)
        failing == {i \in DOMAIN checks : checks[i][1]}
    IN IF failing = {} THEN "none" ELSE checks[Min(failing)][2]

EligibleCandidates(inputs) ==
    {c \in DOMAIN inputs.candidates : check_eligibility(inputs.candidates[c], inputs) = "none"}

TiesOnAll(inputs, a, b) ==
    \A i \in DOMAIN inputs.factors :
        factor_ties(inputs.factors[i], inputs.candidates[a], inputs.candidates[b])

\* The comparator given to std::sort.
RanksAhead(inputs, a, b) ==
    \/ /\ TiesOnAll(inputs, a, b)
       /\ a < b
    \/ \E i \in DOMAIN inputs.factors :
          /\ \A j \in 1..(i - 1) :
                factor_ties(inputs.factors[j], inputs.candidates[a], inputs.candidates[b])
          /\ factor_precedes(inputs.factors[i], inputs.candidates[a], inputs.candidates[b])

\* Mutant: only the first factor is compared.
FirstFactorFrontOf(inputs, S) ==
    Min({c \in S : ~\E d \in S : factor_precedes(inputs.factors[1], inputs.candidates[d],
                                                 inputs.candidates[c])})

\* How many of S rank ahead of c, and the front of S in the sorted order.
Position(inputs, S, c) == Cardinality({d \in S : RanksAhead(inputs, d, c)})
FrontOf(inputs, S) ==
    CHOOSE c \in S : \A d \in S : Position(inputs, S, c) <= Position(inputs, S, d)

\* ArbitrationReport: the selected candidate (0 when there is none) and why there is none.
Winner(c) == [selected |-> c, no_eligible_candidate |-> FALSE, tie_unresolved |-> FALSE]
NoEligible == [selected |-> 0, no_eligible_candidate |-> TRUE, tie_unresolved |-> FALSE]
Unresolved == [selected |-> 0, no_eligible_candidate |-> FALSE, tie_unresolved |-> TRUE]

\* The tie-break policy compares the first two of the tied candidates.
TakeSecond(inputs, first, second) ==
    CASE inputs.tie_break = "highest_score_then_id" ->
           RatioLess(mean_score(inputs.candidates[first].ev),
                     mean_score(inputs.candidates[second].ev))
      [] inputs.tie_break = "prefer_required_participant" ->
           /\ ~inputs.candidates[first].required_participant
           /\ inputs.candidates[second].required_participant
      [] OTHER -> FALSE

\* Selection among the two that rank first; second is 0 when first is the only eligible one.
SelectTop(inputs, first, second) ==
    IF second = 0 \/ ~TiesOnAll(inputs, first, second) THEN Winner(first)
    ELSE IF inputs.tie_break = "report_tie" THEN Unresolved
    ELSE Winner(IF TakeSecond(inputs, first, second) THEN second ELSE first)

SelectFrom(inputs, eligible) ==
    LET first == FrontOf(inputs, eligible)
        rest == eligible \ {first}
    IN IF eligible = {} THEN NoEligible
       ELSE SelectTop(inputs, first, IF rest = {} THEN 0 ELSE FrontOf(inputs, rest))

arbitrate(inputs) == SelectFrom(inputs, EligibleCandidates(inputs))
=============================================================================
