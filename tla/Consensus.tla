----------------------------- MODULE Consensus -----------------------------
(***************************************************************************)
(* The consensus report (src/consensus.cpp).                               *)
(*                                                                         *)
(* compute_consensus is a pure function of the quorum report, of one tally *)
(* per candidate and of the terminal conditions of the execution:          *)
(*                                                                         *)
(*   inputs.tallies  candidate id -> [eligible, agreeing, weighted_agree]. *)
(***************************************************************************)
EXTENDS Integers, FiniteSets, FiniteSetsExt

\* The order std::sort gives the eligible tallies; ids are distinct, so it is total.
better_tally(tallies, a, b) ==
    LET l == tallies[a]
        r == tallies[b]
    IN \/ l.agreeing > r.agreeing
       \/ /\ l.agreeing = r.agreeing
          /\ \/ l.weighted_agree > r.weighted_agree
             \/ l.weighted_agree = r.weighted_agree /\ a < b

EligibleTallies(tallies) == {c \in DOMAIN tallies : tallies[c].eligible}

\* eligible.front() after the sort.
Leader(tallies) ==
    CHOOSE c \in EligibleTallies(tallies) :
        \A d \in EligibleTallies(tallies) \ {c} : better_tally(tallies, c, d)

RunnerUpVotes(tallies) ==
    Max({0} \cup {tallies[c].agreeing :
                    c \in EligibleTallies(tallies) \ {Leader(tallies)}})

\* ConsensusReport::resolved
Resolved(state) ==
    state \in {"consensus", "consensus_with_abstentions", "plurality_without_threshold"}

\* What the vote arithmetic says once an eligible candidate leads and quorum is reached.
VoteState(inputs) ==
    LET quorum == inputs.quorum
        votes == inputs.tallies[Leader(inputs.tallies)].agreeing
        runner_up == RunnerUpVotes(inputs.tallies)
        thresholded == quorum.threshold_percent > 0
    IN IF votes = 0
         THEN IF inputs.requires_votes
                THEN "insufficient_evidence"
                ELSE IF Cardinality(EligibleTallies(inputs.tallies)) = 1
                       THEN "consensus" ELSE "plurality_without_threshold"
         ELSE IF runner_up = votes /\ (thresholded => votes < quorum.threshold_count)
                THEN "tie"
                ELSE IF thresholded /\ votes < quorum.threshold_count
                       THEN "disagreement"
                       ELSE IF quorum.abstentions > 0
                              THEN "consensus_with_abstentions"
                              ELSE IF thresholded THEN "consensus"
                                                  ELSE "plurality_without_threshold"

\* Terminal conditions win over any vote arithmetic, in this order.
compute_consensus(inputs) ==
    IF inputs.superseded THEN "superseded"
    ELSE IF inputs.revalidation_required THEN "revalidation_required"
    ELSE IF inputs.cancelled THEN "cancelled"
    ELSE IF inputs.required_participant_failed /\ inputs.require_all_required
      THEN "required_participant_failed"
    ELSE IF inputs.quorum.state = "impossible" THEN "quorum_impossible"
    ELSE IF EligibleTallies(inputs.tallies) = {}
      THEN IF /\ inputs.candidates_declared > 0
              /\ inputs.invalid_candidates >= inputs.candidates_declared
             THEN "all_candidates_invalid" ELSE "no_eligible_candidate"
    ELSE IF inputs.fallback_required THEN "fallback_required"
    ELSE IF inputs.quorum.state # "reached" THEN "quorum_not_reached"
    ELSE VoteState(inputs)
=============================================================================
