--------------------------- MODULE EnsembleQuorum ---------------------------
(***************************************************************************)
(* The quorum report (src/quorum.cpp).                                     *)
(*                                                                         *)
(* compute_quorum is a pure function of a policy, the membership of the    *)
(* ensemble, the votes cast so far and the number of candidates that hold  *)
(* content.  Notes, rendering and duplicate_votes_suppressed, which no     *)
(* decision reads, are left out; every other count and every decision of   *)
(* the report is kept.                                                     *)
(*                                                                         *)
(*   policy      a record with the fields of QuorumPolicy;                 *)
(*   membership  participant -> [roles, required, authorized, available,   *)
(*               failed, role_available];                                  *)
(*   votes       a sequence of [participant, generation, candidate,        *)
(*               abstained], in the order the evaluations were admitted.   *)
(***************************************************************************)
EXTENDS Integers, Sequences, FiniteSets, FiniteSetsExt

\* The sentinel "no limit configured" (0xFFFFFFFF, a value no count reaches).
unbounded == -1

percentage_ceiling(total, percent) == (total * percent + 99) \div 100

VoteKey(vote) == <<vote.participant, vote.generation, vote.candidate>>

\* Mutant: votes are only collapsed when they say the same.
EqualVotesCollapse(votes) == {votes[i] : i \in DOMAIN votes}

\* unique_votes: std::map::emplace keeps the first vote of every key.
UniqueVotes(votes) ==
    {votes[i] : i \in {j \in DOMAIN votes :
                         \A k \in 1..(j - 1) : VoteKey(votes[k]) # VoteKey(votes[j])}}

Contributors(votes) ==
    {v.participant : v \in {u \in UniqueVotes(votes) : ~u.abstained}}

Abstainers(votes) ==
    {v.participant : v \in {u \in UniqueVotes(votes) : u.abstained}}

LeadingVotes(votes) ==
    Max({0} \cup {Cardinality({v \in UniqueVotes(votes) :
                                  ~v.abstained /\ v.candidate = c}) :
                    c \in {v.candidate : v \in UniqueVotes(votes)}})

\* The basis of the denominator, before the counting rules are applied.
Basis(policy, membership, votes) ==
    LET InBasis(p, m) ==
          CASE policy.vote_basis = "declared"      -> TRUE
            [] policy.vote_basis = "authoritative" -> m.authorized
            [] policy.vote_basis = "contributing"  ->
                 p \in Contributors(votes) \cup Abstainers(votes)
            [] policy.vote_basis = "required"      -> m.required
            [] policy.vote_basis = "eligible"      ->
                 m.authorized /\ m.available /\ ~m.failed
    IN {p \in DOMAIN membership : InBasis(p, membership[p])}

Denominator(policy, membership, votes) ==
    {p \in Basis(policy, membership, votes) :
        LET m == membership[p]
        IN /\ policy.count_optional_participants \/ m.required
           /\ policy.count_failed_in_denominator \/ ~m.failed
           /\ policy.count_unavailable_in_denominator \/ m.available}

\* A member that could still act.
Achievable(m) == m.authorized /\ m.available /\ ~m.failed /\ m.role_available

\* Mutant: a quota is met by exactly its minimum.
QuotaMetExactly(quota, membership, denominator) ==
    Cardinality({p \in denominator : quota.role \in membership[p].roles}) = quota.min_count

QuotaMet(quota, membership, denominator) ==
    Cardinality({p \in denominator :
                   /\ quota.role \in membership[p].roles
                   /\ membership[p].authorized
                   /\ membership[p].role_available}) >= quota.min_count

QuotaAchievable(quota, membership) ==
    Cardinality({p \in DOMAIN membership :
                   quota.role \in membership[p].roles /\ Achievable(membership[p])})
        >= quota.min_count

Exceeds(count, budget) == budget # unbounded /\ count > budget

compute_quorum(policy, membership, votes, valid_candidates) ==
    LET denominator == Denominator(policy, membership, votes)
        contributors == denominator \cap Contributors(votes)
        abstentions == (denominator \cap Abstainers(votes)) \ contributors
        failures == {p \in DOMAIN membership : membership[p].failed}
        quotas == policy.role_quota
        enough == Cardinality(denominator) >= policy.min_participants
        state ==
          IF ~enough \/ \E q \in quotas : ~QuotaAchievable(q, membership)
            THEN "impossible"
            ELSE IF /\ \A q \in quotas : QuotaMet(q, membership, denominator)
                    /\ Cardinality(UniqueVotes(votes)) >= policy.min_evaluations
                    /\ valid_candidates >= policy.min_valid_candidates
                    /\ ~Exceeds(Cardinality(failures), policy.max_failures)
                    /\ ~Exceeds(Cardinality(abstentions), policy.max_abstentions)
                   THEN "reached"
                   ELSE "not_reached"
    IN [state |-> state,
        denominator |-> Cardinality(denominator),
        contributors |-> Cardinality(contributors),
        abstentions |-> Cardinality(abstentions),
        failures |-> Cardinality(failures),
        threshold_percent |-> policy.consensus_threshold_percent,
        threshold_count |-> percentage_ceiling(Cardinality(denominator),
                                               policy.consensus_threshold_percent),
        leading_votes |-> LeadingVotes(votes)]

-----------------------------------------------------------------------------

\* quorum.hpp: duplicate votes from one participant generation collapse "into a single vote so
\* that vote inflation is structurally impossible".  Whatever the policy and the membership, one
\* more vote with the key of an earlier vote, even one that says something else, changes no
\* number and no state of the report (the unique_votes map of compute_quorum).
DuplicateIsInert(policy, membership, votes, v, valid_candidates) ==
    (\E i \in DOMAIN votes : VoteKey(votes[i]) = VoteKey(v)) =>
        compute_quorum(policy, membership, Append(votes, v), valid_candidates)
            = compute_quorum(policy, membership, votes, valid_candidates)

\* One more vote that is not an abstention leaves a reached quorum reached, whatever the policy
\* and the membership: it may add its voter to the denominator, which counts for a minimum and
\* not against a maximum (the denominator, quota and abstention counts of compute_quorum).
VoteKeepsQuorum(policy, membership, votes, v, valid_candidates) ==
    /\ compute_quorum(policy, membership, votes, valid_candidates).state = "reached"
    /\ ~v.abstained
    => compute_quorum(policy, membership, Append(votes, v), valid_candidates).state = "reached"
=============================================================================
