--------------------------- MODULE DecisionProofs ---------------------------
(***************************************************************************)
(* Proofs about the pure reports, for all of their inputs: the quorum      *)
(* under every policy, membership and sequence of votes, and arbitration   *)
(* under every list of factors and every field of candidates.              *)
(*                                                                         *)
(* Recursive definitions are reached by induction over the natural         *)
(* numbers, as the least counterexample of a set.                          *)
(***************************************************************************)
EXTENDS Decision, FiniteSetTheorems, WellFoundedInduction, TLAPS

-----------------------------------------------------------------------------
(* Induction. *)

\* Every nonempty set of natural numbers has a least element.
LEMMA LeastNatural ==
    ASSUME NEW T \in SUBSET Nat, T # {}
    PROVE  \E n \in T : \A m \in T : n <= m
<1> DEFINE R == OpToRel(<, Nat)
<1>1. \E n \in T : \A m \in T : ~(<<m, n>> \in R)
  <2>1. IsWellFoundedOn(R, Nat)
    BY NatLessThanWellFounded
  <2> HIDE DEF R
  <2> QED
    BY <2>1, WFMin
<1>2. PICK n \in T : \A m \in T : ~(<<m, n>> \in R)
  BY <1>1
<1>3. \A m \in T : ~(m < n)
  BY <1>2 DEF OpToRel
<1> QED
  BY <1>3

\* Induction over the natural numbers, for a property given as a set.
LEMMA SetInduction ==
    ASSUME NEW S, 0 \in S, \A n \in Nat : n \in S => n + 1 \in S
    PROVE  Nat \subseteq S
<1> SUFFICES ASSUME Nat \ S # {} PROVE FALSE
  OBVIOUS
<1>1. Nat \ S \in SUBSET Nat
  OBVIOUS
<1>2. PICK n \in Nat \ S : \A m \in Nat \ S : n <= m
  BY <1>1, LeastNatural
<1>3. n # 0 /\ n - 1 \in Nat
  BY <1>2
<1>4. n - 1 \in S
  BY <1>2, <1>3
<1> QED
  BY <1>2, <1>3, <1>4

\* The least element of a set of natural numbers, as Min of FiniteSetsExt chooses it.
LEMMA MinIsLeast ==
    ASSUME NEW T \in SUBSET Nat, T # {}
    PROVE  Min(T) \in T /\ \A m \in T : Min(T) <= m
BY LeastNatural DEF Min

-----------------------------------------------------------------------------
(* The quorum report. *)

\* The map of unique votes keeps the first vote of a key, so a later one leaves it alone.
LEMMA UniqueVotesAppend ==
    ASSUME NEW S, NEW votes \in Seq(S), NEW v \in S, NEW i \in DOMAIN votes,
           VoteKey(votes[i]) = VoteKey(v)
    PROVE  UniqueVotes(Append(votes, v)) = UniqueVotes(votes)
<1> DEFINE longer == Append(votes, v)
           First(s, j) == \A k \in 1..(j - 1) : VoteKey(s[k]) # VoteKey(s[j])
<1>1. /\ DOMAIN votes = 1..Len(votes) /\ Len(votes) \in Nat
      /\ DOMAIN longer = 1..(Len(votes) + 1)
      /\ \A j \in DOMAIN votes : longer[j] = votes[j]
      /\ longer[Len(votes) + 1] = v
  OBVIOUS
<1>2. \A j \in DOMAIN votes : First(longer, j) <=> First(votes, j)
  <2> SUFFICES ASSUME NEW j \in DOMAIN votes PROVE First(longer, j) <=> First(votes, j)
    OBVIOUS
  <2>1. \A k \in 1..(j - 1) : k \in DOMAIN votes
    BY <1>1
  <2> QED
    BY <1>1, <2>1
<1>3. ~First(longer, Len(votes) + 1)
  BY <1>1
<1>4. {j \in DOMAIN longer : First(longer, j)} = {j \in DOMAIN votes : First(votes, j)}
  <2> HIDE DEF First
  <2> QED
    BY <1>1, <1>2, <1>3
<1>5. {longer[j] : j \in {l \in DOMAIN longer : First(longer, l)}}
        = {votes[j] : j \in {l \in DOMAIN votes : First(votes, l)}}
  <2> HIDE DEF First, longer
  <2> QED
    BY <1>1, <1>4
<1> QED
  BY <1>5 DEF UniqueVotes

\* The report depends on the votes only through the map of unique votes.
LEMMA ReportOfUniqueVotes ==
    ASSUME NEW policy, NEW membership, NEW a, NEW b, NEW valid,
           UniqueVotes(a) = UniqueVotes(b)
    PROVE  compute_quorum(policy, membership, a, valid)
             = compute_quorum(policy, membership, b, valid)
<1>1. Contributors(a) = Contributors(b) /\ Abstainers(a) = Abstainers(b)
  BY Zenon DEF Contributors, Abstainers
<1>2. LeadingVotes(a) = LeadingVotes(b)
  BY Zenon DEF LeadingVotes
<1>3. Basis(policy, membership, a) = Basis(policy, membership, b)
  BY <1>1, Zenon DEF Basis
<1>4. Denominator(policy, membership, a) = Denominator(policy, membership, b)
  BY <1>3, Zenon DEF Denominator
<1> QED
  BY <1>1, <1>2, <1>4, Zenon DEF compute_quorum

\* A second vote of one participant generation on one candidate never changes the quorum report,
\* whatever it says, for every policy, every membership and every number of votes.
THEOREM DuplicateVoteIsInert ==
    ASSUME NEW S, NEW policy, NEW membership, NEW votes \in Seq(S), NEW v \in S, NEW valid
    PROVE  DuplicateIsInert(policy, membership, votes, v, valid)
<1> SUFFICES ASSUME NEW i \in DOMAIN votes, VoteKey(votes[i]) = VoteKey(v)
             PROVE  compute_quorum(policy, membership, Append(votes, v), valid)
                      = compute_quorum(policy, membership, votes, valid)
  BY DEF DuplicateIsInert
<1> QED
  BY UniqueVotesAppend, ReportOfUniqueVotes

-----------------------------------------------------------------------------
(* A vote never takes a reached quorum away. *)

\* A vote with a key of its own is added to the unique votes.
LEMMA UniqueVotesMore ==
    ASSUME NEW S, NEW votes \in Seq(S), NEW v \in S,
           \A i \in DOMAIN votes : VoteKey(votes[i]) # VoteKey(v)
    PROVE  UniqueVotes(Append(votes, v)) = UniqueVotes(votes) \cup {v}
<1> DEFINE longer == Append(votes, v)
           First(s, j) == \A k \in 1..(j - 1) : VoteKey(s[k]) # VoteKey(s[j])
           D == {j \in DOMAIN votes : First(votes, j)}
<1>1. /\ DOMAIN votes = 1..Len(votes) /\ Len(votes) \in Nat
      /\ DOMAIN longer = 1..(Len(votes) + 1)
      /\ \A j \in DOMAIN votes : longer[j] = votes[j]
      /\ longer[Len(votes) + 1] = v
  OBVIOUS
<1>2. \A j \in DOMAIN votes : First(longer, j) <=> First(votes, j)
  <2> SUFFICES ASSUME NEW j \in DOMAIN votes PROVE First(longer, j) <=> First(votes, j)
    OBVIOUS
  <2>1. \A k \in 1..(j - 1) : k \in DOMAIN votes
    BY <1>1
  <2> QED
    BY <1>1, <2>1
<1>3. First(longer, Len(votes) + 1)
  <2>1. \A k \in 1..(Len(votes) + 1 - 1) : k \in DOMAIN votes
    BY <1>1
  <2> QED
    BY <1>1, <2>1
<1>4. {j \in DOMAIN longer : First(longer, j)} = D \cup {Len(votes) + 1}
  <2> HIDE DEF First, longer
  <2> QED
    BY <1>1, <1>2, <1>3
<1>5. {longer[j] : j \in D \cup {Len(votes) + 1}} = {votes[j] : j \in D} \cup {v}
  <2>1. \A j \in D : j \in DOMAIN votes /\ longer[j] = votes[j]
    BY <1>1
  <2> HIDE DEF D, longer
  <2> QED
    BY <1>1, <2>1
<1>6. UniqueVotes(longer) = {longer[j] : j \in D \cup {Len(votes) + 1}}
  <2>1. UniqueVotes(longer) = {longer[j] : j \in {l \in DOMAIN longer : First(longer, l)}}
    BY DEF UniqueVotes
  <2> HIDE DEF First, longer, D
  <2> QED
    BY <1>4, <2>1
<1>7. UniqueVotes(votes) = {votes[j] : j \in D}
  BY DEF UniqueVotes
<1> QED
  BY <1>5, <1>6, <1>7

\* There are finitely many.
LEMMA UniqueVotesFinite ==
    ASSUME NEW S, NEW votes \in Seq(S)
    PROVE  IsFiniteSet(UniqueVotes(votes))
<1> DEFINE D == {j \in DOMAIN votes :
                    \A k \in 1..(j - 1) : VoteKey(votes[k]) # VoteKey(votes[j])}
           T == UniqueVotes(votes)
           f == [j \in D |-> votes[j]]
<1>1. IsFiniteSet(DOMAIN votes) /\ D \subseteq DOMAIN votes
  <2>1. DOMAIN votes = 1..Len(votes) /\ Len(votes) \in Nat
    OBVIOUS
  <2> QED
    BY <2>1, FS_Interval
<1>2. IsFiniteSet(D)
  BY <1>1, FS_Subset
<1>3. T = {votes[j] : j \in D}
  BY DEF UniqueVotes
<1> HIDE DEF D, T
<1>4. f \in Surjection(D, T)
  BY <1>3 DEF Surjection
<1>5. IsFiniteSet(T)
  BY <1>2, <1>4, FS_Surjection
<1> QED
  BY <1>5 DEF T

\* A subset of a finite set, counted against a minimum.
LEMMA AtLeast ==
    ASSUME NEW S, IsFiniteSet(S), NEW T \in SUBSET S, NEW n \in Int, Cardinality(T) >= n
    PROVE  Cardinality(S) >= n
<1>1. Cardinality(S) \in Nat /\ Cardinality(T) \in Nat /\ Cardinality(T) <= Cardinality(S)
  BY FS_Subset, FS_CardinalityType
<1> QED
  BY <1>1

\* And against a maximum.
LEMMA AtMost ==
    ASSUME NEW S, IsFiniteSet(S), NEW T \in SUBSET S, NEW budget \in Int,
           ~Exceeds(Cardinality(S), budget)
    PROVE  ~Exceeds(Cardinality(T), budget)
<1>1. Cardinality(S) \in Nat /\ Cardinality(T) \in Nat /\ Cardinality(T) <= Cardinality(S)
  BY FS_Subset, FS_CardinalityType
<1> QED
  BY <1>1 DEF Exceeds

\* The numbers of a QuorumPolicy are numbers and its basis is a VoteBasis.
IsPolicy(policy) ==
    /\ policy.min_participants \in Int /\ policy.min_evaluations \in Int
    /\ policy.max_abstentions \in Int
    /\ \A q \in policy.role_quota : q.min_count \in Int
    /\ policy.vote_basis \in {"declared", "authoritative", "contributing", "required", "eligible"}

\* A vote adds nobody but its voter to the denominator.
LEMMA DenominatorMore ==
    ASSUME NEW policy, IsPolicy(policy), NEW membership, NEW a, NEW b, NEW v, ~v.abstained,
           UniqueVotes(b) = UniqueVotes(a) \cup {v}
    PROVE  /\ Contributors(b) = Contributors(a) \cup {v.participant}
           /\ Abstainers(b) = Abstainers(a)
           /\ Denominator(policy, membership, a) \subseteq Denominator(policy, membership, b)
           /\ Denominator(policy, membership, b)
                \subseteq Denominator(policy, membership, a) \cup {v.participant}
<1>1. Contributors(b) = Contributors(a) \cup {v.participant} /\ Abstainers(b) = Abstainers(a)
  BY DEF Contributors, Abstainers
<1>2. /\ Basis(policy, membership, a) \subseteq Basis(policy, membership, b)
      /\ Basis(policy, membership, b) \subseteq Basis(policy, membership, a) \cup {v.participant}
  <2>1. CASE policy.vote_basis = "contributing"
    BY <1>1, <2>1 DEF Basis
  <2>2. CASE policy.vote_basis \in {"declared", "authoritative", "required", "eligible"}
    BY <2>2 DEF Basis
  <2> QED
    BY <2>1, <2>2 DEF IsPolicy
<1> QED
  BY <1>2, <1>1 DEF Denominator

\* What a reached quorum means.
LEMMA ReachedMeans ==
    ASSUME NEW policy, NEW membership, NEW votes, NEW valid
    PROVE  LET denominator == Denominator(policy, membership, votes)
               failures == {p \in DOMAIN membership : membership[p].failed}
               abstentions == (denominator \cap Abstainers(votes))
                                 \ (denominator \cap Contributors(votes))
           IN compute_quorum(policy, membership, votes, valid).state = "reached" <=>
                /\ Cardinality(denominator) >= policy.min_participants
                /\ \A q \in policy.role_quota : QuotaAchievable(q, membership)
                /\ \A q \in policy.role_quota : QuotaMet(q, membership, denominator)
                /\ Cardinality(UniqueVotes(votes)) >= policy.min_evaluations
                /\ valid >= policy.min_valid_candidates
                /\ ~Exceeds(Cardinality(failures), policy.max_failures)
                /\ ~Exceeds(Cardinality(abstentions), policy.max_abstentions)
BY Zenon DEF compute_quorum

\* A vote that is not an abstention never takes a reached quorum away, for every policy, every
\* finite membership and every sequence of votes, whichever of the denominator rules is in force
\* (compute_quorum, VoteKeepsQuorum).
THEOREM VoteNeverUndoesQuorum ==
    ASSUME NEW S, NEW policy, IsPolicy(policy), NEW membership, IsFiniteSet(DOMAIN membership),
           NEW votes \in Seq(S), NEW v \in S, NEW valid
    PROVE  VoteKeepsQuorum(policy, membership, votes, v, valid)
<1> DEFINE longer == Append(votes, v)
           D == Denominator(policy, membership, votes)
           E == Denominator(policy, membership, longer)
           A == (D \cap Abstainers(votes)) \ (D \cap Contributors(votes))
           B == (E \cap Abstainers(longer)) \ (E \cap Contributors(longer))
<1> SUFFICES ASSUME compute_quorum(policy, membership, votes, valid).state = "reached",
                    ~v.abstained
             PROVE  compute_quorum(policy, membership, longer, valid).state = "reached"
  BY DEF VoteKeepsQuorum
<1>1. CASE \E i \in DOMAIN votes : VoteKey(votes[i]) = VoteKey(v)
  BY <1>1, DuplicateVoteIsInert DEF DuplicateIsInert
<1>2. CASE \A i \in DOMAIN votes : VoteKey(votes[i]) # VoteKey(v)
  <2>1. UniqueVotes(longer) = UniqueVotes(votes) \cup {v}
    BY <1>2, UniqueVotesMore
  <2>2. longer \in Seq(S)
    OBVIOUS
  <2> HIDE DEF longer
  <2>3. IsFiniteSet(UniqueVotes(longer))
    BY <2>2, UniqueVotesFinite
  <2>4. /\ Contributors(longer) = Contributors(votes) \cup {v.participant}
        /\ Abstainers(longer) = Abstainers(votes)
        /\ D \subseteq E /\ E \subseteq D \cup {v.participant}
    BY <2>1, DenominatorMore
  <2>5. B \subseteq A
    BY <2>4
  <2>6. D \subseteq DOMAIN membership /\ E \subseteq DOMAIN membership
    BY DEF Denominator, Basis
  <2>7. IsFiniteSet(D) /\ IsFiniteSet(E)
    BY <2>6, FS_Subset
  <2> HIDE DEF D, E
  <2>8. IsFiniteSet(A)
    BY <2>7, FS_Subset
  <2> USE DEF D, E
  <2>9. /\ Cardinality(D) >= policy.min_participants
        /\ \A q \in policy.role_quota : QuotaAchievable(q, membership)
        /\ \A q \in policy.role_quota : QuotaMet(q, membership, D)
        /\ Cardinality(UniqueVotes(votes)) >= policy.min_evaluations
        /\ valid >= policy.min_valid_candidates
        /\ ~Exceeds(Cardinality({p \in DOMAIN membership : membership[p].failed}),
                    policy.max_failures)
        /\ ~Exceeds(Cardinality(A), policy.max_abstentions)
    BY ReachedMeans, Zenon
  <2> HIDE DEF D, E
  <2>10. Cardinality(E) >= policy.min_participants
    BY <2>4, <2>7, <2>9, AtLeast DEF IsPolicy
  <2>11. Cardinality(UniqueVotes(longer)) >= policy.min_evaluations
    BY <2>1, <2>3, <2>9, AtLeast DEF IsPolicy
  <2>12. ~Exceeds(Cardinality(B), policy.max_abstentions)
    <3> HIDE DEF A, B
    <3> QED
      BY <2>5, <2>8, <2>9, AtMost DEF IsPolicy
  <2>13. ASSUME NEW q \in policy.role_quota PROVE QuotaMet(q, membership, E)
    <3> DEFINE Q(M) == {p \in M : /\ q.role \in membership[p].roles
                                  /\ membership[p].authorized /\ membership[p].role_available}
    <3>1. Q(D) \subseteq Q(E) /\ Q(E) \subseteq E
      BY <2>4
    <3>2. Cardinality(Q(D)) >= q.min_count /\ q.min_count \in Int
      BY <2>9 DEF QuotaMet, IsPolicy
    <3>3. IsFiniteSet(Q(E))
      <4> HIDE DEF Q
      <4> QED
        BY <2>7, <3>1, FS_Subset
    <3>4. Cardinality(Q(E)) >= q.min_count
      <4> HIDE DEF Q
      <4> QED
        BY <3>1, <3>2, <3>3, AtLeast
    <3> QED
      BY <3>4 DEF QuotaMet
  <2> USE DEF D, E
  <2> QED
    BY <2>9, <2>10, <2>11, <2>12, <2>13, ReachedMeans, Zenon
<1> QED
  BY <1>1, <1>2

-----------------------------------------------------------------------------
(* Arbitration. *)

\* The front of a nonempty finite set of candidates is one of them.
LEMMA FrontOfMember ==
    ASSUME NEW inputs, NEW S, IsFiniteSet(S), S # {}
    PROVE  FrontOf(inputs, S) \in S
<1> DEFINE T == {Position(inputs, S, c) : c \in S}
<1>1. ASSUME NEW c \in S PROVE Position(inputs, S, c) \in Nat
  <2>1. IsFiniteSet({d \in S : RanksAhead(inputs, d, c)})
    BY FS_Subset
  <2> QED
    BY <2>1, FS_CardinalityType DEF Position
<1>2. T \in SUBSET Nat /\ T # {}
  BY <1>1
<1>3. \E n \in T : \A m \in T : n <= m
  <2> HIDE DEF T
  <2> QED
    BY <1>2, LeastNatural
<1>4. \E c \in S : \A d \in S : Position(inputs, S, c) <= Position(inputs, S, d)
  BY <1>3
<1> QED
  BY <1>4 DEF FrontOf

\* Only candidates with content pass check_eligibility.
LEMMA EligibleHasContent ==
    ASSUME NEW inputs, NEW i \in EligibleCandidates(inputs)
    PROVE  is_content_state(inputs.candidates[i].state)
<1> DEFINE c == inputs.candidates[i]
           checks == EligibilityChecks(c, inputs)
           failing == {n \in DOMAIN checks : checks[n][1]}
<1>1. check_eligibility(c, inputs) = "none"
  BY DEF EligibleCandidates
<1>2. DOMAIN checks = 1..17 /\ \A n \in 1..17 : checks[n][2] # "none"
  BY DEF EligibilityChecks
<1>3. checks[7][1] = ~is_content_state(c.state)
  BY DEF EligibilityChecks
<1>4. failing \in SUBSET Nat
  BY <1>2
<1>5. IF failing = {} THEN "none" = "none" ELSE checks[Min(failing)][2] = "none"
  BY <1>1 DEF check_eligibility
<1> HIDE DEF checks
<1>6. failing = {}
  <2> SUFFICES ASSUME failing # {} PROVE FALSE
    OBVIOUS
  <2>1. Min(failing) \in failing
    <3> HIDE DEF failing
    <3> QED
      BY <1>4, MinIsLeast
  <2>2. Min(failing) \in 1..17
    <3>1. failing \subseteq 1..17
      BY <1>2
    <3> QED
      BY <2>1, <3>1
  <2> QED
    BY <1>2, <1>5, <2>2
<1>7. ~checks[7][1]
  BY <1>2, <1>6
<1> QED
  BY <1>3, <1>7, Zenon

\* Whatever arbitrate selects is eligible.
LEMMA ArbitrationSelects ==
    ASSUME NEW inputs, IsFiniteSet(DOMAIN inputs.candidates), arbitrate(inputs).selected # 0
    PROVE  arbitrate(inputs).selected \in EligibleCandidates(inputs)
<1> DEFINE eligible == EligibleCandidates(inputs)
           first == FrontOf(inputs, eligible)
           rest == eligible \ {first}
           second == IF rest = {} THEN 0 ELSE FrontOf(inputs, rest)
<1>1. IsFiniteSet(eligible) /\ IsFiniteSet(rest)
  <2>1. eligible \subseteq DOMAIN inputs.candidates /\ rest \subseteq DOMAIN inputs.candidates
    BY DEF EligibleCandidates
  <2> QED
    BY <2>1, FS_Subset
<1>2. arbitrate(inputs) = IF eligible = {} THEN NoEligible ELSE SelectTop(inputs, first, second)
  BY DEF arbitrate, SelectFrom
<1>3. eligible # {}
  BY <1>2 DEF NoEligible
<1>4. first \in eligible /\ (second = 0 \/ second \in eligible)
  <2>1. first \in eligible
    BY <1>1, <1>3, FrontOfMember
  <2>2. rest # {} => FrontOf(inputs, rest) \in rest
    BY <1>1, FrontOfMember
  <2> QED
    BY <2>1, <2>2
<1> HIDE DEF first, second, eligible
<1>5. \/ SelectTop(inputs, first, second) = Unresolved
      \/ SelectTop(inputs, first, second) = Winner(first)
      \/ SelectTop(inputs, first, second) = Winner(second) /\ second # 0
  BY DEF SelectTop
<1>6. arbitrate(inputs).selected \in {first, second} \ {0}
  BY <1>2, <1>3, <1>5 DEF Unresolved, Winner
<1> QED
  BY <1>4, <1>6 DEF eligible

-----------------------------------------------------------------------------
(* The order of the candidates. *)

\* The doubles of arbitrate: the denominator of a ratio is positive.
Ratios == Int \X (Nat \ {0})

\* Multiplying by a natural number keeps an inequality.
LEMMA ProductsKeepOrder ==
    ASSUME NEW a \in Int, NEW b \in Int, NEW n \in Nat, a <= b
    PROVE  a * n <= b * n
<1>1. PICK c \in Nat : b = a + c
  <2>1. b - a \in Nat /\ b = a + (b - a)
    OBVIOUS
  <2> QED
    BY <2>1
<1>2. (a + c) * n = a * n + c * n
  OBVIOUS
<1>3. c * n \in Nat /\ a * n \in Int
  OBVIOUS
<1>4. a * n <= a * n + c * n
  BY <1>3
<1> QED
  BY <1>1, <1>2, <1>4

\* Dividing by a positive one does too.
LEMMA QuotientsKeepOrder ==
    ASSUME NEW a \in Int, NEW b \in Int, NEW n \in Nat \ {0}, a * n <= b * n
    PROVE  a <= b
<1> SUFFICES ASSUME b + 1 <= a PROVE FALSE
  OBVIOUS
<1>1. (b + 1) * n <= a * n
  BY ProductsKeepOrder
<1>2. (b + 1) * n = b * n + n
  OBVIOUS
<1>3. a * n \in Int /\ b * n \in Int
  OBVIOUS
<1> QED
  BY <1>1, <1>2, <1>3

\* a/b is at most c/d, c/d at most g/h: a/b is at most g/h.
LEMMA FractionsTransitive ==
    ASSUME NEW a \in Int, NEW b \in Nat \ {0}, NEW c \in Int, NEW d \in Nat \ {0},
           NEW g \in Int, NEW h \in Nat \ {0}, a * d <= c * b, c * h <= g * d
    PROVE  a * h <= g * b
<1>1. a * d \in Int /\ c * b \in Int /\ c * h \in Int /\ g * d \in Int
      /\ a * h \in Int /\ g * b \in Int
  OBVIOUS
<1>2. (a * d) * h <= (c * b) * h
  BY <1>1, ProductsKeepOrder
<1>3. (c * h) * b <= (g * d) * b
  BY <1>1, ProductsKeepOrder
<1>4. (a * d) * h = (a * h) * d /\ (c * b) * h = (c * h) * b /\ (g * d) * b = (g * b) * d
  OBVIOUS
<1>5. (a * h) * d \in Int /\ (c * h) * b \in Int /\ (g * b) * d \in Int
  BY <1>1
<1>6. (a * h) * d <= (g * b) * d
  BY <1>2, <1>3, <1>4, <1>5
<1> QED
  BY <1>1, <1>6, QuotientsKeepOrder

\* Ratios are compared like the numbers they stand for.
LEMMA RatiosOrdered ==
    ASSUME NEW x \in Ratios, NEW y \in Ratios, NEW z \in Ratios
    PROVE  /\ RatioEq(x, y) <=> ~RatioLess(x, y) /\ ~RatioLess(y, x)
           /\ ~(RatioLess(x, y) /\ RatioLess(y, x))
           /\ ~RatioLess(x, y) /\ ~RatioLess(y, z) => ~RatioLess(x, z)
<1>1. PICK a \in Int, b \in Nat \ {0} : x[1] = a /\ x[2] = b
  BY DEF Ratios
<1>2. PICK c \in Int, d \in Nat \ {0} : y[1] = c /\ y[2] = d
  BY DEF Ratios
<1>3. PICK g \in Int, h \in Nat \ {0} : z[1] = g /\ z[2] = h
  BY DEF Ratios
<1>4. /\ a * d \in Int /\ c * b \in Int /\ c * h \in Int /\ g * d \in Int
      /\ a * h \in Int /\ g * b \in Int
  OBVIOUS
<1>5. /\ RatioLess(x, y) <=> a * d < c * b
      /\ RatioLess(y, x) <=> c * b < a * d
      /\ RatioLess(y, z) <=> c * h < g * d
      /\ RatioLess(x, z) <=> a * h < g * b
      /\ RatioEq(x, y) <=> a * d = c * b
  BY <1>1, <1>2, <1>3, Zenon DEF RatioLess, RatioEq
<1>6. g * d <= c * h /\ c * b <= a * d => g * b <= a * h
  BY FractionsTransitive
<1> QED
  BY <1>4, <1>5, <1>6

\* The factors arbitration can rank by; latency, which the engine never fills in, is left out.
RankingFactors ==
    {"judge_acceptance_ratio", "verifier_state", "vote_count", "weighted_vote", "aggregate_score",
     "min_score", "confidence", "participant_priority", "specialist_relevance",
     "execution_cost", "provenance_quality", "fallback_status"}

\* The counts of a summary are not negative; scores may be.
IsContender(c) ==
    /\ {c.ev.evaluations, c.ev.accepts, c.ev.rejects, c.ev.weight_sum} \subseteq Nat
    /\ {c.ev.weighted_score_sum, c.ev.min_score} \subseteq Int
    /\ {c.participant_priority, c.specialist_matches, c.execution_cost} \subseteq Int

\* What arbitrate ranks: numbered candidates under a list of factors.
IsField(inputs) ==
    /\ inputs.factors \in Seq(RankingFactors)
    /\ IsFiniteSet(DOMAIN inputs.candidates) /\ DOMAIN inputs.candidates \subseteq Nat \ {0}
    /\ \A c \in DOMAIN inputs.candidates : IsContender(inputs.candidates[c])

\* A quotient is a ratio.
LEMMA RatioType ==
    ASSUME NEW n \in Int, NEW d \in Nat
    PROVE  Ratio(n, d) \in Ratios
BY DEF Ratio, Ratios

\* The value of every factor is a ratio, and so is the mean score.
LEMMA FactorValueType ==
    ASSUME NEW factor \in RankingFactors, NEW c, IsContender(c)
    PROVE  factor_value(factor, c) \in Ratios /\ mean_score(c.ev) \in Ratios
<1>1. \A n \in Int : <<n, 1>> \in Ratios
  BY DEF Ratios
<1>2. mean_score(c.ev) \in Ratios
  BY RatioType DEF IsContender, mean_score
<1>3. AcceptanceRatio(c.ev) \in Ratios
  BY RatioType DEF IsContender, AcceptanceRatio
<1>4. /\ Ratio(c.ev.accepts, c.ev.evaluations) \in Ratios
      /\ <<1, 2>> \in Ratios /\ <<0, 1>> \in Ratios /\ <<1, 1>> \in Ratios /\ <<2, 1>> \in Ratios
  <2>1. Ratio(c.ev.accepts, c.ev.evaluations) \in Ratios
    BY RatioType DEF IsContender
  <2>2. /\ <<1, 2>> \in Ratios /\ <<0, 1>> \in Ratios
        /\ <<1, 1>> \in Ratios /\ <<2, 1>> \in Ratios
    BY DEF Ratios
  <2> QED
    BY <2>1, <2>2
<1>5. \A n \in Int : Max({0, n}) \in Int
  <2> SUFFICES ASSUME NEW n \in Int PROVE Max({0, n}) \in Int
    OBVIOUS
  <2>1. \E m \in {0, n} : \A k \in {0, n} : m >= k
    OBVIOUS
  <2>2. Max({0, n}) \in {0, n}
    BY <2>1 DEF Max
  <2> QED
    BY <2>2
<1>6. CASE factor = "judge_acceptance_ratio"
  <2>1. factor_value(factor, c) = AcceptanceRatio(c.ev)
    BY <1>6 DEF factor_value
  <2> QED
    BY <1>2, <1>3, <2>1
<1>7. CASE factor = "verifier_state"
  <2>1. factor_value(factor, c) \in {<<0, 1>>, <<2, 1>>, <<1, 2>>}
    BY <1>7 DEF factor_value
  <2> QED
    BY <1>2, <1>4, <2>1
<1>8. CASE factor = "vote_count"
  <2>1. factor_value(factor, c) = <<c.ev.accepts, 1>>
    BY <1>8 DEF factor_value
  <2> QED
    BY <1>1, <1>2, <2>1 DEF IsContender
<1>9. CASE factor = "weighted_vote"
  <2>1. factor_value(factor, c) = <<Max({0, c.ev.weighted_score_sum}), 1>>
    BY <1>9 DEF factor_value
  <2> QED
    BY <1>1, <1>2, <1>5, <2>1 DEF IsContender
<1>10. CASE factor = "aggregate_score"
  <2>1. factor_value(factor, c) = mean_score(c.ev)
    BY <1>10 DEF factor_value
  <2> QED
    BY <1>2, <2>1
<1>11. CASE factor = "min_score"
  <2>1. factor_value(factor, c) \in {<<0, 1>>, <<c.ev.min_score, 1>>}
    BY <1>11 DEF factor_value
  <2> QED
    BY <1>1, <1>2, <2>1 DEF IsContender
<1>12. CASE factor = "confidence"
  <2>1. factor_value(factor, c) = Ratio(c.ev.accepts, c.ev.evaluations)
    BY <1>12 DEF factor_value
  <2> QED
    BY <1>2, <1>4, <2>1
<1>13. CASE factor = "participant_priority"
  <2>1. factor_value(factor, c) = <<c.participant_priority, 1>>
    BY <1>13 DEF factor_value
  <2> QED
    BY <1>1, <1>2, <2>1 DEF IsContender
<1>14. CASE factor = "specialist_relevance"
  <2>1. factor_value(factor, c) = <<c.specialist_matches, 1>>
    BY <1>14 DEF factor_value
  <2> QED
    BY <1>1, <1>2, <2>1 DEF IsContender
<1>15. CASE factor = "execution_cost"
  <2>1. factor_value(factor, c) = <<c.execution_cost, 1>>
    BY <1>15 DEF factor_value
  <2> QED
    BY <1>1, <1>2, <2>1 DEF IsContender
<1>16. CASE factor \in {"provenance_quality", "fallback_status"}
  <2>1. factor_value(factor, c) \in {<<0, 1>>, <<1, 1>>}
    BY <1>16 DEF factor_value
  <2> QED
    BY <1>2, <1>4, <2>1
<1> QED
  BY <1>6, <1>7, <1>8, <1>9, <1>10, <1>11, <1>12, <1>13, <1>14, <1>15, <1>16
     DEF RankingFactors

\* How one factor compares two candidates.
Tie(inputs, i, a, b) ==
    factor_ties(inputs.factors[i], inputs.candidates[a], inputs.candidates[b])
Beats(inputs, i, a, b) ==
    factor_precedes(inputs.factors[i], inputs.candidates[a], inputs.candidates[b])

\* A factor puts the candidates in a strict weak order.
LEMMA FactorOrders ==
    ASSUME NEW inputs, IsField(inputs), NEW i \in DOMAIN inputs.factors,
           NEW a \in DOMAIN inputs.candidates, NEW b \in DOMAIN inputs.candidates,
           NEW c \in DOMAIN inputs.candidates
    PROVE  /\ Tie(inputs, i, a, b) <=> ~Beats(inputs, i, a, b) /\ ~Beats(inputs, i, b, a)
           /\ ~(Beats(inputs, i, a, b) /\ Beats(inputs, i, b, a))
           /\ ~Beats(inputs, i, a, b) /\ ~Beats(inputs, i, b, c) => ~Beats(inputs, i, a, c)
<1> DEFINE f == inputs.factors[i]
           x == factor_value(f, inputs.candidates[a])
           y == factor_value(f, inputs.candidates[b])
           z == factor_value(f, inputs.candidates[c])
<1>1. f \in RankingFactors
  BY DEF IsField
<1> HIDE DEF f
<1>2. x \in Ratios /\ y \in Ratios /\ z \in Ratios
  BY <1>1, FactorValueType DEF IsField
<1>3. /\ Tie(inputs, i, a, b) <=> RatioEq(x, y)
      /\ higher_is_better(f) => /\ Beats(inputs, i, a, b) <=> RatioLess(y, x)
                                /\ Beats(inputs, i, b, a) <=> RatioLess(x, y)
                                /\ Beats(inputs, i, b, c) <=> RatioLess(z, y)
                                /\ Beats(inputs, i, a, c) <=> RatioLess(z, x)
      /\ ~higher_is_better(f) => /\ Beats(inputs, i, a, b) <=> RatioLess(x, y)
                                 /\ Beats(inputs, i, b, a) <=> RatioLess(y, x)
                                 /\ Beats(inputs, i, b, c) <=> RatioLess(y, z)
                                 /\ Beats(inputs, i, a, c) <=> RatioLess(x, z)
  BY Zenon DEF Tie, Beats, factor_ties, factor_precedes, f
<1> HIDE DEF x, y, z
<1>4. /\ RatioEq(x, y) <=> ~RatioLess(x, y) /\ ~RatioLess(y, x)
      /\ ~(RatioLess(x, y) /\ RatioLess(y, x))
      /\ ~RatioLess(x, y) /\ ~RatioLess(y, z) => ~RatioLess(x, z)
      /\ ~RatioLess(z, y) /\ ~RatioLess(y, x) => ~RatioLess(z, x)
  BY <1>2, RatiosOrdered
<1> QED
  BY <1>3, <1>4

\* RanksAhead, factor by factor.
TieBelow(inputs, i, a, b) == \A j \in 1..(i - 1) : Tie(inputs, j, a, b)

LEMMA RanksAheadIs ==
    ASSUME NEW inputs, NEW a, NEW b
    PROVE  RanksAhead(inputs, a, b) <=>
              \/ TiesOnAll(inputs, a, b) /\ a < b
              \/ \E i \in DOMAIN inputs.factors : TieBelow(inputs, i, a, b) /\ Beats(inputs, i, a, b)
BY Zenon DEF RanksAhead, TieBelow, Tie, Beats

\* A tie is the same both ways and passes on.
LEMMA TiesPassOn ==
    ASSUME NEW inputs, IsField(inputs), NEW i \in DOMAIN inputs.factors,
           NEW a \in DOMAIN inputs.candidates, NEW b \in DOMAIN inputs.candidates,
           NEW c \in DOMAIN inputs.candidates, Tie(inputs, i, a, b)
    PROVE  /\ Tie(inputs, i, a, a) /\ Tie(inputs, i, b, a)
           /\ Tie(inputs, i, b, c) => Tie(inputs, i, a, c)
           /\ Beats(inputs, i, b, c) <=> Beats(inputs, i, a, c)
           /\ Beats(inputs, i, c, b) <=> Beats(inputs, i, c, a)
BY FactorOrders

\* Of two candidates some factor tells apart, a first one does.
LEMMA FirstDifference ==
    ASSUME NEW inputs, IsField(inputs), NEW a \in DOMAIN inputs.candidates,
           NEW b \in DOMAIN inputs.candidates, ~TiesOnAll(inputs, a, b)
    PROVE  \E i \in DOMAIN inputs.factors :
              TieBelow(inputs, i, a, b) /\ (Beats(inputs, i, a, b) \/ Beats(inputs, i, b, a))
<1> DEFINE T == {i \in DOMAIN inputs.factors : ~Tie(inputs, i, a, b)}
<1>1. PICK m \in Nat : DOMAIN inputs.factors = 1..m
  <2>1. Len(inputs.factors) \in Nat /\ DOMAIN inputs.factors = 1..Len(inputs.factors)
    BY DEF IsField
  <2> QED
    BY <2>1
<1>2. T # {} /\ T \in SUBSET Nat
  BY <1>1 DEF TiesOnAll, Tie
<1>3. PICK i \in T : \A j \in T : i <= j
  <2> HIDE DEF T
  <2> QED
    BY <1>2, LeastNatural
<1>4. TieBelow(inputs, i, a, b)
  BY <1>1, <1>3 DEF TieBelow
<1>5. Beats(inputs, i, a, b) \/ Beats(inputs, i, b, a)
  BY <1>3, FactorOrders
<1> QED
  BY <1>3, <1>4, <1>5

\* No two candidates rank ahead of each other.
LEMMA RanksAsymmetric ==
    ASSUME NEW inputs, IsField(inputs), NEW a \in DOMAIN inputs.candidates,
           NEW b \in DOMAIN inputs.candidates, RanksAhead(inputs, a, b)
    PROVE  ~RanksAhead(inputs, b, a)
<1> SUFFICES ASSUME RanksAhead(inputs, b, a) PROVE FALSE
  OBVIOUS
<1>1. PICK m \in Nat : DOMAIN inputs.factors = 1..m
  <2>1. Len(inputs.factors) \in Nat /\ DOMAIN inputs.factors = 1..Len(inputs.factors)
    BY DEF IsField
  <2> QED
    BY <2>1
<1>2. a \in Nat /\ b \in Nat
  BY DEF IsField
<1>3. \A i \in DOMAIN inputs.factors :
         /\ Tie(inputs, i, a, b) => ~Beats(inputs, i, a, b) /\ ~Beats(inputs, i, b, a)
         /\ Tie(inputs, i, b, a) => ~Beats(inputs, i, a, b) /\ ~Beats(inputs, i, b, a)
         /\ ~(Beats(inputs, i, a, b) /\ Beats(inputs, i, b, a))
  BY FactorOrders
<1>4. /\ TiesOnAll(inputs, a, b) => \A i \in DOMAIN inputs.factors : Tie(inputs, i, a, b)
      /\ TiesOnAll(inputs, b, a) => \A i \in DOMAIN inputs.factors : Tie(inputs, i, b, a)
  BY DEF TiesOnAll, Tie
<1>5. \/ TiesOnAll(inputs, a, b) /\ a < b
      \/ \E i \in DOMAIN inputs.factors : TieBelow(inputs, i, a, b) /\ Beats(inputs, i, a, b)
  BY RanksAheadIs
<1>6. \/ TiesOnAll(inputs, b, a) /\ b < a
      \/ \E i \in DOMAIN inputs.factors : TieBelow(inputs, i, b, a) /\ Beats(inputs, i, b, a)
  BY RanksAheadIs
<1>7. CASE TiesOnAll(inputs, a, b) /\ a < b
  BY <1>2, <1>3, <1>4, <1>6, <1>7
<1>8. CASE \E i \in DOMAIN inputs.factors : TieBelow(inputs, i, a, b) /\ Beats(inputs, i, a, b)
  <2>1. PICK i \in 1..m : TieBelow(inputs, i, a, b) /\ Beats(inputs, i, a, b)
    BY <1>1, <1>8
  <2>2. PICK j \in 1..m : TieBelow(inputs, j, b, a) /\ Beats(inputs, j, b, a)
    BY <1>1, <1>3, <1>4, <1>6, <2>1
  <2>3. CASE i < j
    <3>1. i \in 1..(j - 1)
      BY <2>3
    <3> QED
      BY <1>1, <1>3, <2>1, <2>2, <3>1 DEF TieBelow
  <2>4. CASE j < i
    <3>1. j \in 1..(i - 1)
      BY <2>4
    <3> QED
      BY <1>1, <1>3, <2>1, <2>2, <3>1 DEF TieBelow
  <2>5. CASE i = j
    BY <1>1, <1>3, <2>1, <2>2, <2>5
  <2> QED
    BY <2>3, <2>4, <2>5
<1> QED
  BY <1>5, <1>7, <1>8

\* Of two candidates one ranks ahead.
LEMMA RanksTotal ==
    ASSUME NEW inputs, IsField(inputs), NEW a \in DOMAIN inputs.candidates,
           NEW b \in DOMAIN inputs.candidates, a # b
    PROVE  RanksAhead(inputs, a, b) \/ RanksAhead(inputs, b, a)
<1>1. CASE TiesOnAll(inputs, a, b)
  <2>1. TiesOnAll(inputs, b, a)
    BY <1>1, TiesPassOn DEF TiesOnAll, Tie
  <2>2. a < b \/ b < a
    BY DEF IsField
  <2> QED
    BY <1>1, <2>1, <2>2, RanksAheadIs
<1>2. CASE ~TiesOnAll(inputs, a, b)
  <2>1. PICK i \in DOMAIN inputs.factors :
           TieBelow(inputs, i, a, b) /\ (Beats(inputs, i, a, b) \/ Beats(inputs, i, b, a))
    BY <1>2, FirstDifference
  <2>2. 1..(i - 1) \subseteq DOMAIN inputs.factors
    <3>1. Len(inputs.factors) \in Nat /\ DOMAIN inputs.factors = 1..Len(inputs.factors)
      BY DEF IsField
    <3> QED
      BY <3>1
  <2>3. TieBelow(inputs, i, b, a)
    BY <2>1, <2>2, TiesPassOn DEF TieBelow
  <2> QED
    BY <2>1, <2>3, RanksAheadIs
<1> QED
  BY <1>1, <1>2

\* Ranking ahead passes on.
LEMMA RanksTransitive ==
    ASSUME NEW inputs, IsField(inputs), NEW a \in DOMAIN inputs.candidates,
           NEW b \in DOMAIN inputs.candidates, NEW c \in DOMAIN inputs.candidates,
           RanksAhead(inputs, a, b), RanksAhead(inputs, b, c)
    PROVE  RanksAhead(inputs, a, c)
<1>1. PICK m \in Nat : DOMAIN inputs.factors = 1..m
  <2>1. Len(inputs.factors) \in Nat /\ DOMAIN inputs.factors = 1..Len(inputs.factors)
    BY DEF IsField
  <2> QED
    BY <2>1
<1>2. a \in Nat /\ b \in Nat /\ c \in Nat
  BY DEF IsField
<1>3. \A i \in 1..m :
         /\ Tie(inputs, i, a, b) => /\ Tie(inputs, i, b, c) => Tie(inputs, i, a, c)
                                    /\ Beats(inputs, i, b, c) => Beats(inputs, i, a, c)
         /\ Tie(inputs, i, b, c) /\ Beats(inputs, i, a, b) => Beats(inputs, i, a, c)
         /\ Beats(inputs, i, a, b) /\ Beats(inputs, i, b, c) => Beats(inputs, i, a, c)
  BY <1>1, FactorOrders
<1>4. /\ TiesOnAll(inputs, a, b) => \A i \in 1..m : Tie(inputs, i, a, b)
      /\ TiesOnAll(inputs, b, c) => \A i \in 1..m : Tie(inputs, i, b, c)
      /\ (\A i \in 1..m : Tie(inputs, i, a, c)) => TiesOnAll(inputs, a, c)
  BY <1>1 DEF TiesOnAll, Tie
<1>5. \/ TiesOnAll(inputs, a, b) /\ a < b
      \/ \E i \in 1..m : TieBelow(inputs, i, a, b) /\ Beats(inputs, i, a, b)
  BY <1>1, RanksAheadIs
<1>6. \/ TiesOnAll(inputs, b, c) /\ b < c
      \/ \E i \in 1..m : TieBelow(inputs, i, b, c) /\ Beats(inputs, i, b, c)
  BY <1>1, RanksAheadIs
<1>7. \A i \in 1..m : TieBelow(inputs, i, a, c) /\ Beats(inputs, i, a, c) =>
                         RanksAhead(inputs, a, c)
  BY <1>1, RanksAheadIs
<1>8. CASE TiesOnAll(inputs, a, b) /\ a < b /\ TiesOnAll(inputs, b, c) /\ b < c
  <2>1. TiesOnAll(inputs, a, c) /\ a < c
    BY <1>2, <1>3, <1>4, <1>8
  <2> QED
    BY <2>1, RanksAheadIs
<1>9. ASSUME TiesOnAll(inputs, a, b), NEW j \in 1..m,
             TieBelow(inputs, j, b, c), Beats(inputs, j, b, c)
      PROVE  RanksAhead(inputs, a, c)
  <2>1. TieBelow(inputs, j, a, c)
    BY <1>3, <1>4, <1>9 DEF TieBelow
  <2> QED
    BY <1>3, <1>4, <1>7, <1>9, <2>1
<1>10. ASSUME TiesOnAll(inputs, b, c), NEW i \in 1..m,
              TieBelow(inputs, i, a, b), Beats(inputs, i, a, b)
       PROVE  RanksAhead(inputs, a, c)
  <2>1. TieBelow(inputs, i, a, c)
    BY <1>3, <1>4, <1>10 DEF TieBelow
  <2> QED
    BY <1>3, <1>4, <1>7, <1>10, <2>1
<1>11. ASSUME NEW i \in 1..m, TieBelow(inputs, i, a, b), Beats(inputs, i, a, b),
              NEW j \in 1..m, TieBelow(inputs, j, b, c), Beats(inputs, j, b, c)
       PROVE  RanksAhead(inputs, a, c)
  <2>1. CASE i < j
    <3>1. TieBelow(inputs, i, a, c)
      BY <1>3, <1>11, <2>1 DEF TieBelow
    <3>2. Tie(inputs, i, b, c)
      BY <1>11, <2>1 DEF TieBelow
    <3> QED
      BY <1>3, <1>7, <1>11, <3>1, <3>2
  <2>2. CASE j < i
    <3>1. TieBelow(inputs, j, a, c)
      BY <1>3, <1>11, <2>2 DEF TieBelow
    <3>2. Tie(inputs, j, a, b)
      BY <1>11, <2>2 DEF TieBelow
    <3> QED
      BY <1>3, <1>7, <1>11, <3>1, <3>2
  <2>3. CASE i = j
    <3>1. TieBelow(inputs, i, a, c)
      BY <1>3, <1>11, <2>3 DEF TieBelow
    <3> QED
      BY <1>3, <1>7, <1>11, <2>3, <3>1
  <2> QED
    BY <2>1, <2>2, <2>3
<1> QED
  BY <1>5, <1>6, <1>8, <1>9, <1>10, <1>11

\* The front of a set ranks ahead of everyone else in it: the order std::sort is given is a
\* strict total order, so the sorted sequence is determined.
LEMMA FrontLeads ==
    ASSUME NEW inputs, IsField(inputs), NEW S \in SUBSET DOMAIN inputs.candidates, S # {}
    PROVE  /\ FrontOf(inputs, S) \in S
           /\ \A d \in S \ {FrontOf(inputs, S)} : RanksAhead(inputs, FrontOf(inputs, S), d)
<1> DEFINE c == FrontOf(inputs, S)
           Ahead(x) == {y \in S : RanksAhead(inputs, y, x)}
<1>1. IsFiniteSet(S)
  BY FS_Subset DEF IsField
<1>2. c \in S
  BY <1>1, FrontOfMember
<1>3. \A x \in S : IsFiniteSet(Ahead(x)) /\ Cardinality(Ahead(x)) \in Nat
  BY <1>1, FS_Subset, FS_CardinalityType
<1>4. \A x \in S : Position(inputs, S, x) = Cardinality(Ahead(x))
  BY DEF Position
<1>5. \A d \in S : Cardinality(Ahead(c)) <= Cardinality(Ahead(d))
  <2>1. \E x \in S : \A d \in S : Position(inputs, S, x) <= Position(inputs, S, d)
    <3> DEFINE T == {Cardinality(Ahead(x)) : x \in S}
    <3>1. T \in SUBSET Nat /\ T # {}
      BY <1>3
    <3>2. PICK n \in T : \A m \in T : n <= m
      <4> HIDE DEF T
      <4> QED
        BY <3>1, LeastNatural
    <3>3. PICK x \in S : n = Cardinality(Ahead(x))
      BY <3>2
    <3> HIDE DEF Ahead
    <3> QED
      BY <1>4, <3>2, <3>3
  <2>2. \A d \in S : Position(inputs, S, c) <= Position(inputs, S, d)
    BY <2>1 DEF FrontOf
  <2> QED
    BY <1>2, <1>4, <2>2
<1> HIDE DEF c
<1>6. ASSUME NEW d \in S, d # c, ~RanksAhead(inputs, c, d) PROVE FALSE
  <2>1. RanksAhead(inputs, d, c)
    BY <1>2, <1>6, RanksTotal
  <2>2. Ahead(d) \subseteq Ahead(c)
    BY <1>2, <1>6, <2>1, RanksTransitive
  <2>3. d \in Ahead(c) /\ d \notin Ahead(d)
    BY <1>2, <1>6, <2>1, RanksAsymmetric
  <2> HIDE DEF Ahead
  <2>4. Cardinality(Ahead(d)) <= Cardinality(Ahead(c)) /\ Cardinality(Ahead(d)) # Cardinality(Ahead(c))
    BY <1>2, <1>3, <1>6, <2>2, <2>3, FS_Subset
  <2> QED
    BY <1>2, <1>3, <1>5, <1>6, <2>4
<1> QED
  BY <1>2, <1>6 DEF c

\* Somebody some factor puts before c, ties apart.
Precedes(inputs, d, c) ==
    \E i \in DOMAIN inputs.factors : TieBelow(inputs, i, d, c) /\ Beats(inputs, i, d, c)

\* Nobody precedes the front of a set, nor whoever ties with it.
LEMMA FrontUnpreceded ==
    ASSUME NEW inputs, IsField(inputs), NEW S \in SUBSET DOMAIN inputs.candidates,
           NEW a \in S, \A d \in S \ {a} : RanksAhead(inputs, a, d),
           NEW c \in S, c = a \/ TiesOnAll(inputs, a, c), NEW d \in S
    PROVE  ~Precedes(inputs, d, c)
<1> SUFFICES ASSUME NEW i \in DOMAIN inputs.factors, TieBelow(inputs, i, d, c),
                    Beats(inputs, i, d, c)
             PROVE  FALSE
  BY DEF Precedes
<1>1. 1..(i - 1) \subseteq DOMAIN inputs.factors
  <2>1. Len(inputs.factors) \in Nat /\ DOMAIN inputs.factors = 1..Len(inputs.factors)
    BY DEF IsField
  <2> QED
    BY <2>1
<1>2. ASSUME NEW j \in DOMAIN inputs.factors PROVE Tie(inputs, j, a, c) /\ Tie(inputs, j, c, a)
  <2>1. CASE c = a
    BY <2>1, FactorOrders
  <2>2. CASE TiesOnAll(inputs, a, c)
    <3>1. Tie(inputs, j, a, c)
      BY <2>2 DEF TiesOnAll, Tie
    <3> QED
      BY <3>1, FactorOrders
  <2> QED
    BY <2>1, <2>2
<1>3. Beats(inputs, i, d, a)
  BY <1>2, TiesPassOn
<1>4. TieBelow(inputs, i, d, a)
  BY <1>1, <1>2, TiesPassOn DEF TieBelow
<1>5. RanksAhead(inputs, d, a)
  BY <1>3, <1>4, RanksAheadIs
<1>6. d # a
  BY <1>3, FactorOrders
<1>7. RanksAhead(inputs, a, d)
  BY <1>6
<1> QED
  BY <1>5, <1>7, RanksAsymmetric

\* Whatever the factors, the tie-break policy and the field of candidates: what arbitrate selects
\* is eligible and no eligible candidate precedes it in the order of the factors.
THEOREM SelectedIsUnpreceded ==
    ASSUME NEW inputs, IsField(inputs), arbitrate(inputs).selected # 0
    PROVE  LET c == arbitrate(inputs).selected
           IN /\ c \in EligibleCandidates(inputs)
              /\ \A d \in EligibleCandidates(inputs) : ~Precedes(inputs, d, c)
<1> DEFINE eligible == EligibleCandidates(inputs)
           first == FrontOf(inputs, eligible)
           rest == eligible \ {first}
           second == IF rest = {} THEN 0 ELSE FrontOf(inputs, rest)
           c == arbitrate(inputs).selected
<1>1. eligible \in SUBSET DOMAIN inputs.candidates
  BY DEF EligibleCandidates
<1>2. arbitrate(inputs) = IF eligible = {} THEN NoEligible ELSE SelectTop(inputs, first, second)
  BY DEF arbitrate, SelectFrom
<1>3. eligible # {}
  BY <1>2 DEF NoEligible
<1>4. c \in eligible
  BY ArbitrationSelects DEF IsField
<1>5. first \in eligible /\ \A d \in eligible \ {first} : RanksAhead(inputs, first, d)
  BY <1>1, <1>3, FrontLeads
<1>6. c = first \/ TiesOnAll(inputs, first, c)
  <2> HIDE DEF first, second, eligible
  <2>1. \/ SelectTop(inputs, first, second) = Unresolved
        \/ SelectTop(inputs, first, second) = Winner(first)
        \/ SelectTop(inputs, first, second) = Winner(second) /\ TiesOnAll(inputs, first, second)
    BY DEF SelectTop
  <2>2. arbitrate(inputs) = SelectTop(inputs, first, second)
    BY <1>2, <1>3
  <2> QED
    BY <2>1, <2>2 DEF Unresolved, Winner
<1> HIDE DEF c, first, eligible
<1> QED
  BY <1>1, <1>4, <1>5, <1>6, FrontUnpreceded DEF c, eligible

=============================================================================
