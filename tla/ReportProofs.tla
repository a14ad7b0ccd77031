---------------------------- MODULE ReportProofs ----------------------------
(***************************************************************************)
(* What the run of the reports checks, for every number of votes and       *)
(* candidates: the theorems of DecisionProofs, which hold for all inputs,  *)
(* applied to the votes and candidates of the run, and arbitration against *)
(* its reference.                                                          *)
(***************************************************************************)
EXTENDS MCReports, DecisionProofs

\* The votes are votes and the policy is one of the policies, however many votes are cast.
InputInv == votes \in Seq(Votes) /\ policy \in Policies

\* The inputs stay inputs.
LEMMA InputsAreWellFormed == Spec => []InputInv
<1>1. Init => InputInv
  <2>1. Policy("authoritative", TRUE) \in Policies
    <3>1. \A b \in {"declared", "authoritative", "contributing", "required", "eligible"},
             o \in BOOLEAN : Policy(b, o) \in Policies
      BY DEF Policies
    <3>2. "authoritative" \in {"declared", "authoritative", "contributing", "required", "eligible"}
      OBVIOUS
    <3> QED
      BY <3>1, <3>2, Zenon
  <2>2. Init => votes = <<>> /\ policy \in Policies
    BY <2>1, Zenon DEF Init
  <2> QED
    BY <2>2 DEF InputInv
<1>2. InputInv /\ [Next]_vars => InputInv'
  BY DEF InputInv, Next, CastVote, Enter, vars
<1> QED
  BY <1>1, <1>2, PTL DEF Spec

\* The policies of the run are policies and the membership is finite.
LEMMA InputsAreAdmitted ==
    (\A p \in Policies : IsPolicy(p)) /\ IsFiniteSet(DOMAIN Membership)
<1>1. \A p \in Policies : IsPolicy(p)
  BY DEF Policies, Policy, IsPolicy
<1>2. PICK n \in Int : n = 4
  OBVIOUS
<1>3. DOMAIN Membership = 1..n
  BY <1>2 DEF Membership
<1>4. IsFiniteSet(1..n)
  BY FS_Interval
<1> QED
  BY <1>1, <1>3, <1>4

\* However many votes are cast, a second vote of a participant generation on a candidate moves
\* nothing of the report (the unique_votes map of compute_quorum).
THEOREM DuplicatesStayInert == Spec => []DuplicateVotesAreInert
<1>1. InputInv => DuplicateVotesAreInert
  BY DuplicateVoteIsInert DEF InputInv, DuplicateVotesAreInert
<1> QED
  BY <1>1, InputsAreWellFormed, PTL

\* However many votes are cast and under every denominator rule, no vote but an abstention takes
\* a reached quorum away (compute_quorum).
THEOREM QuorumSurvivesVotes == Spec => VotingKeepsQuorum
<1> DEFINE Kept ==
        /\ report = "quorum"
        /\ compute_quorum(policy, Membership, votes, 1).state = "reached"
        /\ ~votes'[Len(votes')].abstained
        => compute_quorum(policy, Membership, votes', 1).state = "reached"
<1>1. InputInv /\ [Next]_vars => [Kept]_vars
  <2> SUFFICES ASSUME InputInv, Next,
                      report = "quorum",
                      compute_quorum(policy, Membership, votes, 1).state = "reached",
                      ~votes'[Len(votes')].abstained
               PROVE  compute_quorum(policy, Membership, votes', 1).state = "reached"
    OBVIOUS
  <2>1. CASE CastVote
    <3>1. PICK v \in Votes : votes' = Append(votes, v)
      BY <2>1 DEF CastVote
    <3>2. votes'[Len(votes')] = v
      BY <3>1 DEF InputInv
    <3>3. VoteKeepsQuorum(policy, Membership, votes, v, 1)
      BY InputsAreAdmitted, VoteNeverUndoesQuorum DEF InputInv
    <3> QED
      BY <3>1, <3>2, <3>3 DEF VoteKeepsQuorum
  <2>2. CASE Enter
    BY <2>2 DEF Enter
  <2> QED
    BY <2>1, <2>2 DEF Next
<1> QED
  BY <1>1, InputsAreWellFormed, PTL DEF Spec, VotingKeepsQuorum
-----------------------------------------------------------------------------
(* Arbitration against the reference. *)

\* Filtering by one factor after the other is well defined.
LEMMA FiltersExist ==
    ASSUME NEW inputs, NEW b \in Nat
    PROVE  \E f : f = [n \in 0..b |-> IF n = 0 THEN EligibleCandidates(inputs)
                                      ELSE BestBy(inputs, inputs.factors[n], f[n - 1])]
<1> DEFINE Rule(m, f) == f = [n \in 0..m |-> IF n = 0 THEN EligibleCandidates(inputs)
                                             ELSE BestBy(inputs, inputs.factors[n], f[n - 1])]
           D == {m \in Nat : \E f : Rule(m, f)}
<1>1. 0 \in D
  <2>1. Rule(0, [n \in 0..0 |-> EligibleCandidates(inputs)])
    OBVIOUS
  <2> QED
    BY <2>1
<1>2. ASSUME NEW m \in Nat, m \in D PROVE m + 1 \in D
  <2>1. PICK f : Rule(m, f)
    BY <1>2
  <2> DEFINE g == [n \in 0..(m + 1) |-> IF n = 0 THEN EligibleCandidates(inputs)
                                        ELSE BestBy(inputs, inputs.factors[n], f[n - 1])]
  <2>2. \A n \in 0..m : g[n] = f[n]
    BY <2>1
  <2>3. \A n \in 0..(m + 1) : n # 0 => n - 1 \in 0..m
    OBVIOUS
  <2>4. Rule(m + 1, g)
    BY <2>2, <2>3
  <2> HIDE DEF g, Rule
  <2> QED
    BY <2>4
<1> HIDE DEF D
<1>3. b \in D
  BY <1>1, <1>2, SetInduction
<1> QED
  BY <1>3 DEF D

\* The candidates of E that tie with a on the first n factors.
TiedUpTo(inputs, E, a, n) == {c \in E : \A j \in 1..n : Tie(inputs, j, a, c)}

\* One filter keeps those the leader still ties with.
LEMMA FilterKeepsTies ==
    ASSUME NEW inputs, IsField(inputs), NEW E \in SUBSET DOMAIN inputs.candidates,
           NEW a \in E, \A d \in E \ {a} : RanksAhead(inputs, a, d),
           NEW n \in Nat, n + 1 \in DOMAIN inputs.factors
    PROVE  BestBy(inputs, inputs.factors[n + 1], TiedUpTo(inputs, E, a, n))
             = TiedUpTo(inputs, E, a, n + 1)
<1> DEFINE T(m) == {c \in E : \A j \in 1..m : Tie(inputs, j, a, c)}
           k == n + 1
           Best == BestBy(inputs, inputs.factors[k], T(n))
<1>1. PICK m \in Nat : DOMAIN inputs.factors = 1..m
  <2>1. Len(inputs.factors) \in Nat /\ DOMAIN inputs.factors = 1..Len(inputs.factors)
    BY DEF IsField
  <2> QED
    BY <2>1
<1>2. /\ k \in 1..m /\ 1..n \subseteq 1..m /\ 1..k = (1..n) \cup {k} /\ k - 1 = n
  BY <1>1
<1>3. Best = {c \in T(n) : ~\E d \in T(n) : Beats(inputs, k, d, c)}
  BY DEF BestBy, Beats
<1> HIDE DEF Best, k
<1>4. \A j \in 1..m : Tie(inputs, j, a, a)
  BY <1>1, FactorOrders
<1>5. a \in T(n)
  BY <1>2, <1>4
<1>6. ASSUME NEW d \in T(n) PROVE ~Beats(inputs, k, d, a)
  <2> SUFFICES ASSUME Beats(inputs, k, d, a) PROVE FALSE
    OBVIOUS
  <2>1. TieBelow(inputs, k, d, a)
    BY <1>1, <1>2, TiesPassOn DEF TieBelow
  <2>2. RanksAhead(inputs, d, a)
    BY <1>1, <1>2, <2>1, RanksAheadIs
  <2>3. d # a
    BY <1>1, <1>2, FactorOrders
  <2>4. RanksAhead(inputs, a, d)
    BY <2>3
  <2> QED
    BY <2>2, <2>4, RanksAsymmetric
<1>7. Best \subseteq T(k)
  <2> SUFFICES ASSUME NEW c \in Best PROVE c \in T(k)
    OBVIOUS
  <2>1. c \in T(n) /\ ~Beats(inputs, k, a, c) /\ ~Beats(inputs, k, c, a)
    BY <1>3, <1>5, <1>6
  <2>2. Tie(inputs, k, a, c)
    BY <1>1, <1>2, <2>1, FactorOrders
  <2> QED
    BY <1>2, <2>1, <2>2
<1>8. T(k) \subseteq Best
  <2> SUFFICES ASSUME NEW c \in T(k) PROVE c \in Best
    OBVIOUS
  <2>1. c \in T(n) /\ Tie(inputs, k, a, c)
    BY <1>2
  <2>2. ASSUME NEW d \in T(n) PROVE ~Beats(inputs, k, d, c)
    BY <1>1, <1>2, <1>6, <2>1, <2>2, TiesPassOn
  <2> QED
    BY <1>3, <2>1, <2>2
<1> QED
  BY <1>7, <1>8, Zenon DEF Best, k, TiedUpTo

\* The reference keeps those who tie with the leader on every factor.
LEMMA SurvivorsAre ==
    ASSUME NEW inputs, IsField(inputs), NEW a \in EligibleCandidates(inputs),
           \A d \in EligibleCandidates(inputs) \ {a} : RanksAhead(inputs, a, d)
    PROVE  Survivors(inputs) = {c \in EligibleCandidates(inputs) : TiesOnAll(inputs, a, c)}
<1> DEFINE E == EligibleCandidates(inputs)
           T(n) == TiedUpTo(inputs, E, a, n)
           left[n \in 0..Len(inputs.factors)] ==
             IF n = 0 THEN E ELSE BestBy(inputs, inputs.factors[n], left[n - 1])
<1>1. PICK m \in Nat : m = Len(inputs.factors) /\ DOMAIN inputs.factors = 1..m
  <2>1. Len(inputs.factors) \in Nat /\ DOMAIN inputs.factors = 1..Len(inputs.factors)
    BY DEF IsField
  <2> QED
    BY <2>1
<1>2. left = [n \in 0..m |-> IF n = 0 THEN E ELSE BestBy(inputs, inputs.factors[n], left[n - 1])]
  <2>1. \E f : f = [n \in 0..m |-> IF n = 0 THEN E ELSE BestBy(inputs, inputs.factors[n], f[n - 1])]
    BY FiltersExist
  <2> QED
    BY <1>1, <2>1
<1>3. Survivors(inputs) = left[m]
  BY <1>1 DEF Survivors
<1>4. /\ E \in SUBSET DOMAIN inputs.candidates
      /\ a \in E /\ \A d \in E \ {a} : RanksAhead(inputs, a, d)
  BY DEF EligibleCandidates
<1> HIDE DEF left, E
<1> DEFINE S == {n \in Nat : n <= m => left[n] = T(n)}
<1>5. 0 \in S
  <2>1. left[0] = E
    BY <1>2
  <2>2. T(0) = E
    BY DEF TiedUpTo
  <2> QED
    BY <2>1, <2>2
<1>6. ASSUME NEW n \in Nat, n \in S PROVE n + 1 \in S
  <2> SUFFICES ASSUME n + 1 <= m PROVE left[n + 1] = T(n + 1)
    OBVIOUS
  <2>1. n + 1 \in 0..m /\ n + 1 # 0 /\ (n + 1) - 1 = n /\ n + 1 \in DOMAIN inputs.factors
    BY <1>1
  <2>2. left[n + 1] = BestBy(inputs, inputs.factors[n + 1], left[n])
    BY <1>2, <2>1
  <2>3. left[n] = T(n)
    BY <1>6, <2>1
  <2>4. BestBy(inputs, inputs.factors[n + 1], T(n)) = T(n + 1)
    BY <1>4, <2>1, FilterKeepsTies
  <2> QED
    BY <2>2, <2>3, <2>4
<1>7. m \in S
  <2> HIDE DEF S
  <2> QED
    BY <1>5, <1>6, SetInduction
<1>8. T(m) = {c \in E : TiesOnAll(inputs, a, c)}
  BY <1>1 DEF TiesOnAll, Tie, TiedUpTo
<1> QED
  BY <1>3, <1>7, <1>8 DEF E

\* Of no eligible candidate none is left.
LEMMA NoneSurvives ==
    ASSUME NEW inputs, IsField(inputs), EligibleCandidates(inputs) = {}
    PROVE  Survivors(inputs) = {}
<1> DEFINE E == EligibleCandidates(inputs)
           left[n \in 0..Len(inputs.factors)] ==
             IF n = 0 THEN E ELSE BestBy(inputs, inputs.factors[n], left[n - 1])
<1>1. PICK m \in Nat : m = Len(inputs.factors)
  BY DEF IsField
<1>2. left = [n \in 0..m |-> IF n = 0 THEN E ELSE BestBy(inputs, inputs.factors[n], left[n - 1])]
  <2>1. \E f : f = [n \in 0..m |-> IF n = 0 THEN E ELSE BestBy(inputs, inputs.factors[n], f[n - 1])]
    BY FiltersExist
  <2> QED
    BY <1>1, <2>1
<1>3. Survivors(inputs) = left[m] /\ E = {}
  BY <1>1 DEF Survivors
<1> HIDE DEF left, E
<1> DEFINE S == {n \in Nat : n <= m => left[n] = {}}
<1>4. 0 \in S
  BY <1>2, <1>3
<1>5. ASSUME NEW n \in Nat, n \in S PROVE n + 1 \in S
  <2> SUFFICES ASSUME n + 1 <= m PROVE left[n + 1] = {}
    OBVIOUS
  <2>1. n + 1 \in 0..m /\ n + 1 # 0 /\ (n + 1) - 1 = n
    OBVIOUS
  <2>2. left[n + 1] = BestBy(inputs, inputs.factors[n + 1], left[n])
    BY <1>2, <2>1
  <2>3. left[n] = {}
    BY <1>5, <2>1
  <2> QED
    BY <2>2, <2>3 DEF BestBy
<1>6. m \in S
  <2> HIDE DEF S
  <2> QED
    BY <1>4, <1>5, SetInduction
<1> QED
  BY <1>3, <1>6

\* The least element is the minimum.
LEMMA LeastIsMin ==
    ASSUME NEW T \in SUBSET Nat, NEW n \in T, \A m \in T : n <= m
    PROVE  Min(T) = n
<1>1. Min(T) \in T /\ \A m \in T : Min(T) <= m
  BY MinIsLeast
<1>2. Min(T) \in Nat /\ n \in Nat /\ Min(T) <= n /\ n <= Min(T)
  BY <1>1
<1> QED
  BY <1>2

\* The reference of a sole survivor.
LEMMA SoleReference ==
    ASSUME NEW inputs, NEW a \in Nat \ {0}, IsContender(inputs.candidates[a]),
           Survivors(inputs) = {a}
    PROVE  Reference(inputs) = a
<1>1. Cardinality({a}) = 1
  BY FS_Singleton
<1>2. Preferred(inputs, {a}) = {a}
  <2>1. mean_score(inputs.candidates[a].ev) \in Ratios
    BY FactorValueType, "vote_count" \in RankingFactors DEF RankingFactors
  <2>2. ~RatioLess(mean_score(inputs.candidates[a].ev), mean_score(inputs.candidates[a].ev))
    BY <2>1, RatiosOrdered
  <2> QED
    BY <2>2, Zenon DEF Preferred
<1>3. Min({a}) = a
  BY LeastIsMin
<1> QED
  BY <1>1, <1>2, <1>3 DEF Reference

\* The reference of two survivors.
LEMMA PairReference ==
    ASSUME NEW inputs, NEW a \in Nat \ {0}, NEW b \in Nat \ {0}, a < b,
           IsContender(inputs.candidates[a]), IsContender(inputs.candidates[b]),
           Survivors(inputs) = {a, b}, inputs.tie_break # "report_tie"
    PROVE  Reference(inputs) = IF TakeSecond(inputs, a, b) THEN b ELSE a
<1> DEFINE x == mean_score(inputs.candidates[a].ev)
           y == mean_score(inputs.candidates[b].ev)
           P == Preferred(inputs, {a, b})
<1>1. Reference(inputs) = Min(P)
  BY DEF Reference
<1>2. Min({a}) = a /\ Min({b}) = b /\ Min({a, b}) = a
  BY LeastIsMin
<1>3. /\ ~RatioLess(x, x) /\ ~RatioLess(y, y)
      /\ ~(RatioLess(x, y) /\ RatioLess(y, x))
  <2>1. x \in Ratios /\ y \in Ratios
    BY FactorValueType, "vote_count" \in RankingFactors DEF RankingFactors
  <2> QED
    BY <2>1, RatiosOrdered
<1>4. CASE inputs.tie_break = "highest_score_then_id"
  <2>1. P = {c \in {a, b} : ~\E d \in {a, b} : RatioLess(mean_score(inputs.candidates[c].ev),
                                                         mean_score(inputs.candidates[d].ev))}
    BY <1>4 DEF Preferred
  <2>2. TakeSecond(inputs, a, b) <=> RatioLess(x, y)
    BY <1>4 DEF TakeSecond
  <2>3. a \in P <=> ~RatioLess(x, y)
    BY <1>3, <2>1, Zenon
  <2>4. b \in P <=> ~RatioLess(y, x)
    BY <1>3, <2>1, Zenon
  <2>5. P \subseteq {a, b}
    BY <2>1
  <2> HIDE DEF P, x, y
  <2> QED
    BY <1>1, <1>2, <1>3, <2>2, <2>3, <2>4, <2>5, P \in {{a}, {b}, {a, b}}
<1>5. CASE inputs.tie_break = "prefer_required_participant"
  <2> DEFINE R == {c \in {a, b} : inputs.candidates[c].required_participant}
  <2>1. P = IF R # {} THEN R ELSE {a, b}
    BY <1>5 DEF Preferred
  <2>2. TakeSecond(inputs, a, b) <=> ~(a \in R) /\ b \in R
    BY <1>5 DEF TakeSecond
  <2>3. R \subseteq {a, b}
    OBVIOUS
  <2>4. R \in {{}, {a}, {b}, {a, b}}
    BY <2>3
  <2> HIDE DEF R, P
  <2> QED
    BY <1>1, <1>2, <2>1, <2>2, <2>4
<1>6. CASE inputs.tie_break \notin {"highest_score_then_id", "prefer_required_participant"}
  <2>1. P = {a, b} /\ ~TakeSecond(inputs, a, b)
    BY <1>6 DEF Preferred, TakeSecond
  <2> QED
    BY <1>1, <1>2, <2>1
<1> QED
  BY <1>4, <1>5, <1>6

\* arbitrate selects what filtering the eligible candidates factor by factor leaves, whatever the
\* field of candidates, the factors and the tie-break policy (arbitrate, as long as at most two
\* candidates tie; with more, what it selects is still one of those that tie at the top).
THEOREM ArbitrationIsReference ==
    ASSUME NEW inputs, IsField(inputs)
    PROVE  MatchesReference(inputs)
<1> DEFINE E == EligibleCandidates(inputs)
           W == Survivors(inputs)
           first == FrontOf(inputs, E)
           rest == E \ {first}
           second == IF rest = {} THEN 0 ELSE FrontOf(inputs, rest)
           chosen == arbitrate(inputs).selected
<1>1. E \in SUBSET DOMAIN inputs.candidates /\ DOMAIN inputs.candidates \subseteq Nat \ {0}
  BY DEF EligibleCandidates, IsField
<1>2. arbitrate(inputs) = IF E = {} THEN NoEligible ELSE SelectTop(inputs, first, second)
  BY DEF arbitrate, SelectFrom
<1>3. \A c \in DOMAIN inputs.candidates : IsContender(inputs.candidates[c])
  BY DEF IsField
<1> SUFFICES /\ Cardinality(W) <= 2 => chosen = Reference(inputs)
             /\ chosen \in W \cup {0}
  BY DEF MatchesReference
<1>4. CASE E = {}
  <2>1. W = {}
    BY <1>4, NoneSurvives
  <2>2. chosen = 0
    BY <1>2, <1>4 DEF NoEligible
  <2>3. Reference(inputs) = 0
    BY <2>1 DEF Reference
  <2> QED
    BY <2>2, <2>3
<1>5. CASE E # {}
  <2>1. first \in E /\ \A d \in E \ {first} : RanksAhead(inputs, first, d)
    BY <1>1, <1>5, FrontLeads
  <2>2. W = {c \in E : TiesOnAll(inputs, first, c)}
    <3> HIDE DEF first
    <3> QED
      BY <2>1, SurvivorsAre
  <2>3. first \in DOMAIN inputs.candidates /\ first \in Nat \ {0}
    BY <1>1, <2>1
  <2>4. first \in W
    <3>1. \A i \in DOMAIN inputs.factors : Tie(inputs, i, first, first)
      BY <2>3, FactorOrders
    <3> QED
      BY <2>1, <2>2, <3>1 DEF TiesOnAll, Tie
  <2>5. arbitrate(inputs) = SelectTop(inputs, first, second)
    BY <1>2, <1>5
  <2>6. ASSUME W = {first}, arbitrate(inputs) = Winner(first)
        PROVE  chosen = Reference(inputs) /\ chosen \in W
    <3>1. Reference(inputs) = first
      BY <1>3, <2>3, <2>6, SoleReference
    <3> QED
      BY <2>6, <3>1 DEF Winner
  <2>7. CASE rest = {}
    <3>1. W = {first}
      BY <2>1, <2>2, <2>4, <2>7
    <3>2. arbitrate(inputs) = Winner(first)
      BY <2>5, <2>7 DEF SelectTop
    <3> QED
      BY <2>6, <3>1, <3>2
  <2>8. CASE rest # {}
    <3>1. second \in rest /\ \A d \in rest \ {second} : RanksAhead(inputs, second, d)
      <4>1. second = FrontOf(inputs, rest) /\ rest \in SUBSET DOMAIN inputs.candidates
        BY <1>1, <2>8
      <4> HIDE DEF rest, second
      <4> QED
        BY <2>8, <4>1, FrontLeads
    <3>2. /\ second \in E /\ second # first
          /\ second \in DOMAIN inputs.candidates /\ second \in Nat \ {0}
      BY <1>1, <3>1
    <3>3. RanksAhead(inputs, first, second)
      BY <2>1, <3>2
    <3> HIDE DEF first, second, E, W
    <3>4. CASE ~TiesOnAll(inputs, first, second)
      <4>1. PICK i \in DOMAIN inputs.factors :
              TieBelow(inputs, i, first, second) /\ Beats(inputs, i, first, second)
        BY <3>3, <3>4, RanksAheadIs
      <4>2. ASSUME NEW d \in W, d # first PROVE FALSE
        <5>1. d \in E /\ d \in DOMAIN inputs.candidates /\ TiesOnAll(inputs, first, d)
          BY <1>1, <2>2, <4>2
        <5>2. d # second
          BY <3>4, <5>1
        <5>3. RanksAhead(inputs, second, d)
          BY <3>1, <4>2, <5>1, <5>2 DEF E
        <5>4. \A j \in DOMAIN inputs.factors : Tie(inputs, j, first, d)
          BY <5>1 DEF TiesOnAll, Tie
        <5>5. Beats(inputs, i, d, second)
          BY <2>3, <3>2, <4>1, <5>1, <5>4, TiesPassOn
        <5>6. TieBelow(inputs, i, d, second)
          <6> SUFFICES ASSUME NEW j \in 1..(i - 1) PROVE Tie(inputs, j, d, second)
            BY DEF TieBelow
          <6>1. j \in DOMAIN inputs.factors /\ Tie(inputs, j, first, second)
            <7>1. Len(inputs.factors) \in Nat /\ DOMAIN inputs.factors = 1..Len(inputs.factors)
              BY DEF IsField
            <7> QED
              BY <4>1, <7>1 DEF TieBelow
          <6>2. Tie(inputs, j, d, first)
            BY <2>3, <5>1, <5>4, <6>1, TiesPassOn
          <6> QED
            BY <2>3, <3>2, <5>1, <6>1, <6>2, TiesPassOn
        <5>7. RanksAhead(inputs, d, second)
          BY <4>1, <5>5, <5>6, RanksAheadIs
        <5> QED
          BY <3>2, <5>1, <5>3, <5>7, RanksAsymmetric
      <4>3. W = {first}
        BY <2>4, <4>2
      <4>4. arbitrate(inputs) = Winner(first)
        BY <2>5, <3>4 DEF SelectTop
      <4> QED
        BY <2>6, <4>3, <4>4
    <3>5. CASE TiesOnAll(inputs, first, second)
      <4>1. second \in W
        BY <2>2, <3>2, <3>5
      <4>2. first < second
        <5>1. \A i \in DOMAIN inputs.factors : ~Beats(inputs, i, first, second)
          <6> SUFFICES ASSUME NEW i \in DOMAIN inputs.factors PROVE ~Beats(inputs, i, first, second)
            OBVIOUS
          <6>1. Tie(inputs, i, first, second)
            BY <3>5 DEF TiesOnAll, Tie
          <6> QED
            BY <2>3, <3>2, <6>1, FactorOrders
        <5> QED
          BY <3>3, <5>1, RanksAheadIs
      <4>3. IsFiniteSet(W) /\ Cardinality(W) \in Nat /\ {first, second} \in SUBSET W
        <5>1. W \in SUBSET DOMAIN inputs.candidates
          BY <1>1, <2>2
        <5>2. IsFiniteSet(DOMAIN inputs.candidates)
          BY DEF IsField
        <5>3. IsFiniteSet(W)
          BY <5>1, <5>2, FS_Subset
        <5> QED
          BY <2>4, <4>1, <5>3, FS_CardinalityType
      <4>4. Cardinality({first, second}) = 2
        <5>1. {first, second} = {first} \cup {second}
          OBVIOUS
        <5>2. IsFiniteSet({first}) /\ Cardinality({first}) = 1
          BY FS_Singleton
        <5>3. Cardinality({first} \cup {second}) = 2
          BY <3>2, <5>2, FS_AddElement
        <5> QED
          BY <5>1, <5>3
      <4>5. Cardinality(W) >= 2 /\ (Cardinality(W) = 2 => W = {first, second})
        BY <4>3, <4>4, FS_Subset
      <4>6. CASE inputs.tie_break = "report_tie"
        <5>1. chosen = 0
          BY <2>5, <3>2, <3>5, <4>6 DEF SelectTop, Unresolved
        <5>2. Reference(inputs) = 0
          BY <4>3, <4>5, <4>6 DEF Reference, W
        <5> QED
          BY <5>1, <5>2
      <4>7. CASE inputs.tie_break # "report_tie"
        <5>1. chosen = IF TakeSecond(inputs, first, second) THEN second ELSE first
          BY <2>5, <3>2, <3>5, <4>7 DEF SelectTop, Winner
        <5>2. ASSUME Cardinality(W) <= 2 PROVE chosen = Reference(inputs)
          <6>1. Survivors(inputs) = {first, second}
            BY <4>3, <4>5, <5>2 DEF W
          <6>2. Reference(inputs) = IF TakeSecond(inputs, first, second) THEN second ELSE first
            BY <1>3, <2>3, <3>2, <4>2, <4>7, <6>1, PairReference
          <6> QED
            BY <5>1, <6>2
        <5> QED
          BY <2>4, <4>1, <5>1, <5>2
      <4> QED
        BY <4>6, <4>7
    <3> QED
      BY <3>4, <3>5
  <2> QED
    BY <2>7, <2>8
<1> QED
  BY <1>4, <1>5

\* The candidates stay candidates and the factors factors.
FieldInv ==
    /\ candidates \in Seq(Contenders)
    /\ factors \in {<<"vote_count">>, <<"vote_count", "execution_cost">>,
                    <<"execution_cost", "aggregate_score">>, <<>>}

\* Every candidate of the run is one arbitrate can rank.
LEMMA ContendersAreRanked == \A c \in Contenders : IsContender(c)
<1>1. ASSUME NEW state, NEW accepts \in {0, 1}, NEW score \in {0, 1}, NEW cost \in {1, 2},
             NEW required
      PROVE  IsContender(Contender(state, accepts, score, cost, required))
  <2> DEFINE c == Contender(state, accepts, score, cost, required)
  <2>1. /\ c.ev.evaluations = 1 /\ c.ev.accepts = accepts /\ c.ev.rejects = 1 - accepts
        /\ c.ev.weight_sum = 1 /\ c.ev.weighted_score_sum = score /\ c.ev.min_score = score
        /\ c.participant_priority = 1 /\ c.specialist_matches = 0 /\ c.execution_cost = cost
    BY DEF Contender
  <2> HIDE DEF c
  <2>2. IsContender(c)
    BY <2>1 DEF IsContender
  <2> QED
    BY <2>2 DEF c
<1>2. 1 \in {0, 1} /\ 1 \in {1, 2}
  OBVIOUS
<1> SUFFICES ASSUME NEW c \in Contenders PROVE IsContender(c)
  OBVIOUS
<1>3. CASE c = Contender("failed", 1, 1, 1, TRUE)
  BY <1>1, <1>2, <1>3, Zenon
<1>4. CASE \E accepts \in {0, 1}, score \in {0, 1}, cost \in {1, 2}, required \in BOOLEAN :
              c = Contender("valid", accepts, score, cost, required)
  <2>1. PICK accepts \in {0, 1}, score \in {0, 1}, cost \in {1, 2}, required \in BOOLEAN :
           c = Contender("valid", accepts, score, cost, required)
    BY <1>4
  <2>2. IsContender(Contender("valid", accepts, score, cost, required))
    BY <1>1
  <2> QED
    BY <2>1, <2>2
<1> DEFINE Valid == {Contender("valid", accepts, score, cost, required) :
                       accepts \in {0, 1}, score \in {0, 1}, cost \in {1, 2}, required \in BOOLEAN}
<1>5. c \in Valid \/ c = Contender("failed", 1, 1, 1, TRUE)
  <2>1. Contenders = Valid \cup {Contender("failed", 1, 1, 1, TRUE)}
    BY DEF Contenders
  <2> HIDE DEF Valid
  <2> QED
    BY <2>1
<1>6. CASE c \in Valid
  <2>1. \E accepts \in {0, 1}, score \in {0, 1}, cost \in {1, 2}, required \in BOOLEAN :
           c = Contender("valid", accepts, score, cost, required)
    BY <1>6
  <2> QED
    BY <1>4, <2>1
<1> HIDE DEF Valid
<1> QED
  BY <1>3, <1>5, <1>6

LEMMA FieldsAreWellFormed == Spec => []FieldInv
<1>1. Init => FieldInv
  <2>1. <<>> \in Seq(Contenders)
    OBVIOUS
  <2>2. Init => candidates = <<>> /\ FieldInv!2
    BY Zenon DEF Init, FieldInv
  <2> QED
    BY <2>1, <2>2 DEF FieldInv
<1>2. FieldInv /\ [Next]_vars => FieldInv'
  BY DEF FieldInv, Next, CastVote, Enter, vars
<1> QED
  BY <1>1, <1>2, PTL DEF Spec

\* However many candidates enter and in whatever order, what arbitrate selects is what the
\* reference selects (arbitrate with its comparator, the tie at the top and the tie-break).
THEOREM ArbitrationStaysReference == Spec => []ArbitrationMatchesReference
<1>1. FieldInv => IsField(Inputs)
  <2> SUFFICES ASSUME FieldInv PROVE IsField(Inputs)
    OBVIOUS
  <2>1. Inputs.candidates = candidates /\ Inputs.factors = factors
    BY DEF Inputs
  <2>2. factors \in Seq(RankingFactors)
    <3>1. {"vote_count", "execution_cost", "aggregate_score"} \subseteq RankingFactors
      BY DEF RankingFactors
    <3> HIDE DEF RankingFactors
    <3>2. CASE factors = <<>>
      BY <3>2
    <3>3. CASE factors = <<"vote_count">>
      BY <3>1, <3>3
    <3>4. CASE factors = <<"vote_count", "execution_cost">>
      BY <3>1, <3>4
    <3>5. CASE factors = <<"execution_cost", "aggregate_score">>
      BY <3>1, <3>5
    <3> QED
      BY <3>2, <3>3, <3>4, <3>5, Zenon DEF FieldInv
  <2>3. PICK n \in Nat : n = Len(candidates) /\ DOMAIN candidates = 1..n
    BY DEF FieldInv
  <2>4. IsFiniteSet(DOMAIN candidates) /\ DOMAIN candidates \subseteq Nat \ {0}
    <3>1. IsFiniteSet(1..n)
      BY FS_Interval
    <3> QED
      BY <2>3, <3>1
  <2>5. \A c \in DOMAIN candidates : IsContender(candidates[c])
    BY ContendersAreRanked DEF FieldInv
  <2> QED
    BY <2>1, <2>2, <2>4, <2>5, Zenon DEF IsField
<1>2. FieldInv => ArbitrationMatchesReference
  BY <1>1, ArbitrationIsReference DEF ArbitrationMatchesReference
<1> QED
  BY <1>2, FieldsAreWellFormed, PTL

=============================================================================
