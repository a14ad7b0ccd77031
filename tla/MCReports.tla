----------------------------- MODULE MCReports -----------------------------
(* The pure reports over every small input: quorum over every short sequence of votes under    *)
(* every denominator rule, arbitration over every small field of candidates.                   *)
EXTENDS EnsembleQuorum, Arbitration, SequencesExt

CONSTANTS MaxVotes, MaxField   \* model bounds

VARIABLES report, policy, votes, factors, tie_break, candidates

vars == <<report, policy, votes, factors, tie_break, candidates>>

\* A required judge, an optional one, a failed one and an unavailable one.
Membership ==
    [p \in 1..4 |-> [roles |-> {"judge"}, required |-> p = 1, authorized |-> p # 4,
                     available |-> p # 4, failed |-> p = 3, role_available |-> TRUE]]

Policy(basis, optional) ==
    [min_participants |-> 2, role_quota |-> {[role |-> "judge", min_count |-> 2]},
     min_evaluations |-> 2, min_valid_candidates |-> 1, consensus_threshold_percent |-> 51,
     vote_basis |-> basis, count_optional_participants |-> optional,
     count_failed_in_denominator |-> TRUE, count_unavailable_in_denominator |-> TRUE,
     max_failures |-> 1, max_abstentions |-> 0]

Policies ==
    {Policy(basis, optional) :
        basis \in {"declared", "authoritative", "contributing", "required", "eligible"},
        optional \in BOOLEAN}

Votes == [participant : {1, 2, 3}, generation : {1}, candidate : {1, 2}, abstained : BOOLEAN]

\* An authoritative candidate with the given evidence and attributes.
Contender(state, accepts, score, cost, required) ==
    [state |-> state, generation_current |-> TRUE, participant_authoritative |-> TRUE,
     compatible |-> TRUE, role_selectable |-> TRUE, required_participant |-> required,
     fallback |-> FALSE, participant_priority |-> 1, specialist_matches |-> 0,
     execution_cost |-> cost,
     ev |-> [evaluations |-> 1, accepts |-> accepts, rejects |-> 1 - accepts,
             hard_predicates |-> 0, hard_failures |-> 0, hard_unknowns |-> 0,
             verifier_pass |-> 0, verifier_fail |-> 0, verifier_abstain |-> 0,
             weighted_score_sum |-> score, weight_sum |-> 1, min_score |-> score]]

Contenders ==
    {Contender("valid", accepts, score, cost, required) :
        accepts \in {0, 1}, score \in {0, 1}, cost \in {1, 2}, required \in BOOLEAN}
    \cup {Contender("failed", 1, 1, 1, TRUE)}

Inputs ==
    [candidates |-> candidates, factors |-> factors, tie_break |-> tie_break,
     aggregation |-> [kind |-> "best_of_n", require_verification_pass |-> FALSE,
                      require_judge_acceptance |-> FALSE,
                      min_judge_acceptance_ratio |-> <<0, 1>>, min_aggregate_score |-> <<0, 1>>],
     evidence |-> [min_evaluations_per_candidate |-> 0, mandatory_criteria |-> 0,
                   unknown_verification_is_failure |-> TRUE]]

-----------------------------------------------------------------------------
(* A behaviour asks for one of the reports and builds its input step by step. *)

Init ==
    /\ votes = <<>> /\ candidates = <<>>
    /\ \/ /\ report = "quorum"
          /\ policy \in Policies
          /\ factors = <<>> /\ tie_break = "report_tie"
       \/ /\ report = "arbitration"
          /\ policy = Policy("authoritative", TRUE)
          /\ factors \in {<<"vote_count">>, <<"vote_count", "execution_cost">>,
                          <<"execution_cost", "aggregate_score">>}
          /\ tie_break \in {"report_tie", "lowest_candidate_id", "highest_score_then_id",
                            "prefer_required_participant"}

CastVote ==
    /\ report = "quorum" /\ Len(votes) < MaxVotes
    /\ \E v \in Votes : votes' = Append(votes, v)
    /\ UNCHANGED <<report, policy, factors, tie_break, candidates>>

Enter ==
    /\ report = "arbitration" /\ Len(candidates) < MaxField
    /\ \E c \in Contenders : candidates' = Append(candidates, c)
    /\ UNCHANGED <<report, policy, votes, factors, tie_break>>

Next == CastVote \/ Enter

Spec == Init /\ [][Next]_vars

-----------------------------------------------------------------------------
(* The reference of arbitration: filter the field by one factor after the other. *)

BestBy(inputs, factor, field) ==
    {c \in field :
        ~\E d \in field : factor_precedes(factor, inputs.candidates[d], inputs.candidates[c])}

Survivors(inputs) ==
    LET left[n \in 0..Len(inputs.factors)] ==
          IF n = 0 THEN EligibleCandidates(inputs)
                   ELSE BestBy(inputs, inputs.factors[n], left[n - 1])
    IN left[Len(inputs.factors)]

\* The tied candidates the tie-break policy prefers.
Preferred(inputs, tied) ==
    LET score(c) == mean_score(inputs.candidates[c].ev)
        required == {c \in tied : inputs.candidates[c].required_participant}
    IN CASE inputs.tie_break = "highest_score_then_id" ->
              {c \in tied : ~\E d \in tied : RatioLess(score(c), score(d))}
         [] inputs.tie_break = "prefer_required_participant" /\ required # {} -> required
         [] OTHER -> tied

Reference(inputs) ==
    LET tied == Survivors(inputs)
    IN IF tied = {} \/ (inputs.tie_break = "report_tie" /\ Cardinality(tied) > 1)
         THEN 0 ELSE Min(Preferred(inputs, tied))

\* What arbitrate selects is what the reference selects, as long as at most two candidates tie.
MatchesReference(inputs) ==
    /\ Cardinality(Survivors(inputs)) <= 2 => arbitrate(inputs).selected = Reference(inputs)
    /\ arbitrate(inputs).selected \in Survivors(inputs) \cup {0}

-----------------------------------------------------------------------------

\* No second vote of a participant generation on a candidate ever moves the report
\* (compute_quorum collapses votes by participant, generation and candidate).
DuplicateVotesAreInert ==
    report = "quorum" =>
        \A v \in Votes : DuplicateIsInert(policy, Membership, votes, v, 1)

\* A vote that is not an abstention never takes a reached quorum away, under any denominator
\* rule: it may enlarge the denominator and ends the abstention of its voter.
VotingKeepsQuorum ==
    [][/\ report = "quorum"
       /\ compute_quorum(policy, Membership, votes, 1).state = "reached"
       /\ ~votes'[Len(votes')].abstained
       => compute_quorum(policy, Membership, votes', 1).state = "reached"]_vars

\* arbitrate selects what filtering the eligible candidates factor by factor leaves, whatever
\* candidates enter and in whatever order: the sort with its comparator, the detection of a tie
\* at the top and the tie-break agree with the policy as long as at most two candidates tie.
ArbitrationMatchesReference ==
    report = "arbitration" => MatchesReference(Inputs)

\* The same whatever the number of tied candidates.  The note of arbitrate says "tie resolved by
\* stable candidate identity (equal aggregate scores)" when highest_score_then_id selects the
\* lowest identity; it has compared the first two of the tied candidates only.
TieBreakSeesEveryTie ==
    report = "arbitration" => arbitrate(Inputs).selected = Reference(Inputs)
=============================================================================
