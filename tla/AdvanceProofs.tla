---------------------------- MODULE AdvanceProofs ----------------------------
(***************************************************************************)
(* Proofs about the planner: every part of advance, its stage loop and its *)
(* 64 passes keep the invariants of the evidence, whatever the ensemble,   *)
(* its stages and the participants' state.                                 *)
(*                                                                         *)
(* The loops of the planner are recursive functions.  What they compute is *)
(* reached by induction over the number of iterations, as the least        *)
(* counterexample of a set of natural numbers.                             *)
(***************************************************************************)
EXTENDS Evidence, DecisionProofs

-----------------------------------------------------------------------------
(* Stages. *)

\* The implicit stage names declared participants.
LEMMA ProducersExist ==
    ASSUME NEW b \in Nat
    PROVE  \E f : f = [n \in 0..b |-> IF n = 0 THEN <<>> ELSE AddProducer(f[n - 1], n)]
<1> DEFINE Rule(m, f) == f = [n \in 0..m |-> IF n = 0 THEN <<>> ELSE AddProducer(f[n - 1], n)]
           D == {m \in Nat : \E f : Rule(m, f)}
<1>1. 0 \in D
  <2>1. Rule(0, [n \in 0..0 |-> <<>>])
    OBVIOUS
  <2> QED
    BY <2>1
<1>2. ASSUME NEW m \in Nat, m \in D PROVE m + 1 \in D
  <2>1. PICK f : Rule(m, f)
    BY <1>2
  <2> DEFINE g == [n \in 0..(m + 1) |-> IF n = 0 THEN <<>> ELSE AddProducer(f[n - 1], n)]
  <2>2. \A n \in 0..m : g[n] = f[n]
    BY <2>1
  <2>3. \A n \in 0..(m + 1) : n # 0 => n - 1 \in 0..m
    OBVIOUS
  <2>4. Rule(m + 1, g)
    BY <2>2, <2>3
  <2> HIDE DEF g, Rule
  <2> QED
    BY <2>4
<1> HIDE DEF D
<1>3. b \in D
  BY <1>1, <1>2, SetInduction
<1> QED
  BY <1>3 DEF D

\* One more participant, or none.
LEMMA AddProducerType ==
    ASSUME NEW s \in Seq(Participants), NEW p \in Participants
    PROVE  AddProducer(s, p) \in Seq(Participants)
BY DEF AddProducer

\* The implicit stage names participants.
LEMMA ProducersType == producers \in Seq(Participants)
<1> DEFINE among[n \in 0..Len(spec.participants)] ==
             IF n = 0 THEN <<>> ELSE AddProducer(among[n - 1], n)
<1>1. PICK top \in Nat : top = Len(spec.participants) /\ Participants = 1..top
  BY StagesAssumption
<1>2. among = [n \in 0..top |-> IF n = 0 THEN <<>> ELSE AddProducer(among[n - 1], n)]
  BY <1>1, ProducersExist
<1> HIDE DEF among
<1> DEFINE S == {n \in Nat : n \in 0..top => among[n] \in Seq(Participants)}
<1>3. 0 \in S
  BY <1>2
<1>4. ASSUME NEW n \in Nat, n \in S PROVE n + 1 \in S
  <2> SUFFICES ASSUME n + 1 \in 0..top PROVE among[n + 1] \in Seq(Participants)
    OBVIOUS
  <2>1. n \in 0..top /\ n + 1 \in Participants /\ (n + 1) - 1 = n
    BY <1>1
  <2>2. among[n] \in Seq(Participants)
    BY <1>4, <2>1
  <2>3. among[n + 1] = AddProducer(among[n], n + 1)
    BY <1>2, <2>1
  <2> QED
    BY <2>1, <2>2, <2>3, AddProducerType
<1>5. among[top] \in Seq(Participants)
  <2>1. top \in S
    <3> HIDE DEF S
    <3> QED
      BY <1>3, <1>4, SetInduction
  <2> QED
    BY <2>1
<1> QED
  BY <1>1, <1>5 DEF producers, among

\* Both kinds of stages are stages.
LEMMA StagesType == effective_stages \in Seq(Stage) /\ FallbackStage \in Stage
<1>1. producers \in Seq(Participants)
  BY ProducersType
<1>2. [mode |-> "parallel", participants |-> producers] \in Stage
  BY <1>1 DEF Stage
<1>3. FallbackStage \in Stage
  BY StagesAssumption DEF FallbackStage, Stage
<1> QED
  BY <1>2, <1>3, StagesAssumption DEF effective_stages

\* The stages of an execution are the effective ones followed by one per fallback activation.
LEMMA StagesOfStages ==
    ASSUME NEW w, w.fallback_depth \in Nat
    PROVE  /\ Len(effective_stages) \in Nat
           /\ Len(StagesOf(w)) = Len(effective_stages) + w.fallback_depth
           /\ \A k \in 1..Len(StagesOf(w)) : StagesOf(w)[k] = StageAt(k) /\ StageAt(k) \in Stage
<1> DEFINE extra == [d \in 1..w.fallback_depth |-> FallbackStage]
<1>1. effective_stages \in Seq(Stage) /\ FallbackStage \in Stage
  BY StagesType
<1>2. extra \in Seq(Stage) /\ Len(extra) = w.fallback_depth
  BY <1>1
<1>3. StagesOf(w) = effective_stages \o extra
  BY DEF StagesOf
<1>4. \A d \in 1..w.fallback_depth : extra[d] = FallbackStage
  OBVIOUS
<1> HIDE DEF extra
<1> QED
  BY <1>1, <1>2, <1>3, <1>4 DEF StageAt, IsFallbackStage

-----------------------------------------------------------------------------
(* Slots. *)

\* The state of the planner between two of its parts.
Planning == [w : WorkRecord, progress : BOOLEAN, halt : BOOLEAN, error : BOOLEAN]

\* What the planner reads besides the evidence.
IsEnv(e) == e.participants \in [Participants -> ParticipantRecord] /\ e.epoch \in Nat

\* The fields of a slot that nothing ever changes.
SameSlot(c, d) == d.participant = c.participant /\ d.stage = c.stage /\ d.fallback = c.fallback

\* What any operation may make of a slot: what has resolved stays as it is, except that content
\* is selected or rejected in the end, and only what was in flight is in flight or gets content.
SlotKept(c, d) ==
    /\ SameSlot(c, d)
    /\ in_flight(d) => in_flight(c)
    /\ ~in_flight(c) => /\ d.generation = c.generation
                        /\ \/ d.state = c.state
                           \/ is_content_state(c.state) /\ d.state \in {"selected", "rejected"}
    /\ is_content_state(d.state) => is_content_state(c.state) \/ in_flight(c)
    /\ d.attempts_used <= spec.retry.max_attempts
    /\ d.state = "declared" => d.attempts_used < spec.retry.max_attempts

\* The evidence v has the slots of w, moved, and no evaluation, planned or given, w has not.
SlotsKept(w, v) ==
    /\ v.stage_index = w.stage_index /\ v.fallback_depth = w.fallback_depth
    /\ DOMAIN v.candidates = DOMAIN w.candidates
    /\ \A i \in DOMAIN w.candidates : SlotKept(w.candidates[i], v.candidates[i])
    /\ \A q \in v.pending : \E p \in w.pending : p.candidate = q.candidate
    /\ DOMAIN v.evaluations = DOMAIN w.evaluations
    /\ \A k \in DOMAIN w.evaluations :
          /\ SameVote(w.evaluations[k], v.evaluations[k])
          /\ v.evaluations[k].candidate_generation = w.evaluations[k].candidate_generation

\* Slots that are only moved stay in their stages and a fallback stays where it was.
LEMMA StagesMoved ==
    ASSUME NEW w, NEW v, StagesKept(w), FallbackKept(w), SlotsKept(w, v)
    PROVE  StagesKept(v) /\ FallbackKept(v)
<1>1. StagesKept(v)
  BY DEF StagesKept, SlotsKept, SlotKept, SameSlot
<1>2. FallbackKept(v)
  BY DEF FallbackKept, SlotsKept, SlotKept, SameSlot
<1> QED
  BY <1>1, <1>2

\* Votes stay with the content they were given for.
LEMMA VotesMoved ==
    ASSUME NEW w, NEW v, VotesKept(w), SlotsKept(w, v)
    PROVE  VotesKept(v)
<1>1. ASSUME NEW q \in v.pending
      PROVE  q.candidate \in DOMAIN v.candidates /\ ~in_flight(v.candidates[q.candidate])
  BY <1>1 DEF VotesKept, SlotsKept, SlotKept
<1>2. ASSUME NEW k \in DOMAIN v.evaluations
      PROVE  LET u == v.evaluations[k]
             IN /\ u.candidate \in CandidatesIn(v, ContentStates \cup {"rejected"})
                /\ u.candidate_generation = v.candidates[u.candidate].generation
  <2> DEFINE j == w.evaluations[k].candidate
  <2>1. /\ k \in DOMAIN w.evaluations /\ v.evaluations[k].candidate = j
        /\ v.evaluations[k].candidate_generation = w.evaluations[k].candidate_generation
    BY <1>2 DEF SlotsKept, SameVote
  <2>2. /\ j \in DOMAIN w.candidates /\ w.candidates[j].state \in ContentStates \cup {"rejected"}
        /\ w.evaluations[k].candidate_generation = w.candidates[j].generation
    BY <2>1 DEF VotesKept, CandidatesIn
  <2>3. j \in DOMAIN v.candidates /\ SlotKept(w.candidates[j], v.candidates[j])
    BY <2>2 DEF SlotsKept
  <2>4. ~in_flight(w.candidates[j])
    BY <2>2 DEF in_flight, ContentStates
  <2>5. /\ v.candidates[j].state \in ContentStates \cup {"rejected"}
        /\ v.candidates[j].generation = w.candidates[j].generation
    BY <2>2, <2>3, <2>4 DEF SlotKept, ContentStates
  <2> QED
    BY <2>1, <2>2, <2>3, <2>5 DEF CandidatesIn
<1>3. ASSUME NEW k \in DOMAIN v.evaluations, NEW l \in DOMAIN v.evaluations,
             SameVote(v.evaluations[k], v.evaluations[l])
      PROVE  k = l
  <2>1. SameVote(w.evaluations[k], w.evaluations[l])
    BY <1>3 DEF SlotsKept, SameVote
  <2> QED
    BY <1>3, <2>1 DEF VotesKept, SlotsKept
<1> QED
  BY <1>1, <1>2, <1>3 DEF VotesKept

\* No slot gets beyond its attempts.
LEMMA BudgetMoved ==
    ASSUME NEW w, NEW v, SlotsKept(w, v)
    PROVE  BudgetKept(v)
BY DEF BudgetKept, SlotsKept, SlotKept

\* Nobody is sent out.
LEMMA SequenceMoved ==
    ASSUME NEW w, NEW v, SequenceKept(w), SlotsKept(w, v),
           \A i \in DOMAIN w.candidates :
              v.candidates[i].state = "dispatched" => w.candidates[i].state = "dispatched"
    PROVE  SequenceKept(v)
BY DEF SequenceKept, SlotsKept, SlotKept, SameSlot

\* Together: an operation that only answers, fails or fences slots keeps the invariant.
LEMMA WorkMoved ==
    ASSUME NEW w, NEW v \in WorkRecord, WorkInv(w), SlotsKept(w, v),
           \A i \in DOMAIN w.candidates :
              v.candidates[i].state = "dispatched" => w.candidates[i].state = "dispatched"
    PROVE  WorkInv(v)
BY StagesMoved, VotesMoved, BudgetMoved, SequenceMoved DEF WorkInv

-----------------------------------------------------------------------------
(* Records. *)

\* A declared slot.
LEMMA NewCandidateType ==
    ASSUME NEW p \in Participants, NEW g \in Nat, NEW k \in Nat \ {0}, NEW fallback \in BOOLEAN
    PROVE  NewCandidate(p, g, k, fallback) \in CandidateRecord
BY DEF NewCandidate, CandidateRecord, CandidateStates

\* A slot that has failed.
LEMMA FailedType ==
    ASSUME NEW c \in CandidateRecord
    PROVE  /\ failed_candidate(c) \in CandidateRecord
           /\ failed_candidate(c).state = "failed"
           /\ failed_candidate(c).attempts_used = c.attempts_used
           /\ failed_candidate(c).generation = c.generation
           /\ SameSlot(c, failed_candidate(c))
BY DEF failed_candidate, CandidateRecord, CandidateStates, SameSlot

\* A slot rewound for a retry waits in a later generation.
LEMMA RewoundType ==
    ASSUME NEW c \in CandidateRecord
    PROVE  /\ rewound_candidate(c) \in CandidateRecord
           /\ rewound_candidate(c).state = "declared"
           /\ rewound_candidate(c).attempts_used = c.attempts_used
           /\ rewound_candidate(c).generation = c.generation + 1
           /\ SameSlot(c, rewound_candidate(c))
<1>1. c.generation + 1 \in Nat \ {0}
  BY DEF CandidateRecord
<1>2. PICK g \in Nat \ {0} : g = c.generation + 1
  BY <1>1
<1>3. rewound_candidate(c) =
        [c EXCEPT !.generation = g, !.state = "declared", !.payload = 0, !.current = TRUE]
  BY <1>2 DEF rewound_candidate
<1>4. [c EXCEPT !.generation = g, !.state = "declared", !.payload = 0, !.current = TRUE]
        \in CandidateRecord
  BY DEF CandidateRecord, CandidateStates
<1> QED
  BY <1>2, <1>3, <1>4 DEF CandidateRecord, SameSlot

\* A slot whose participant_generation or worker_boot is refreshed.
LEMMA RefreshedType ==
    ASSUME NEW c \in CandidateRecord, NEW g \in Nat
    PROVE  LET d == [c EXCEPT !.participant_generation = g]
               b == [c EXCEPT !.worker_boot = g]
           IN /\ d \in CandidateRecord /\ d.state = c.state /\ d.generation = c.generation
              /\ d.attempts_used = c.attempts_used /\ SameSlot(c, d)
              /\ b \in CandidateRecord /\ b.state = c.state /\ b.generation = c.generation
              /\ b.attempts_used = c.attempts_used /\ SameSlot(c, b)
BY DEF CandidateRecord, SameSlot

\* A slot that is sent out is held by the participant's current incarnation.
LEMMA DispatchedType ==
    ASSUME NEW c \in CandidateRecord, NEW e, IsEnv(e)
    PROVE  LET d == Dispatched(c, e)
           IN /\ d \in CandidateRecord /\ d.state = "dispatched"
              /\ d.generation = c.generation /\ d.attempts_used = c.attempts_used + 1
              /\ SameSlot(c, d)
              /\ authoritative(e.participants[c.participant], e.epoch)
                    => HeldBy(d, e.participants[c.participant])
<1> DEFINE r == e.participants[c.participant]
<1>1. r.generation \in Nat /\ r.worker_boot \in Nat /\ e.epoch \in Nat
  BY DEF IsEnv, ParticipantRecord, CandidateRecord
<1>2. PICK n \in Nat : n = c.attempts_used + 1
  BY DEF CandidateRecord
<1>3. PICK g \in Nat, b \in Nat, ep \in Nat :
         g = r.generation /\ b = r.worker_boot /\ ep = e.epoch
  BY <1>1
<1> DEFINE d == [c EXCEPT !.state = "dispatched", !.attempts_used = n, !.epoch = ep,
                          !.participant_generation = g, !.worker_boot = b]
<1>4. Dispatched(c, e) = d
  BY <1>2, <1>3 DEF Dispatched
<1>5. d \in CandidateRecord
  BY DEF CandidateRecord, CandidateStates
<1>6. /\ d.state = "dispatched" /\ d.attempts_used = n /\ d.epoch = ep
      /\ d.participant_generation = g /\ d.worker_boot = b /\ d.generation = c.generation
      /\ SameSlot(c, d)
  BY DEF CandidateRecord, SameSlot
<1> HIDE DEF d
<1> QED
  BY <1>2, <1>3, <1>4, <1>5, <1>6 DEF HeldBy

\* A function over the positions of a sequence is a sequence as long.
LEMMA MappedSeq ==
    ASSUME NEW S, NEW T, NEW s \in Seq(S), NEW t, t = [i \in DOMAIN s |-> t[i]],
           \A i \in DOMAIN s : t[i] \in T
    PROVE  t \in Seq(T) /\ Len(t) = Len(s) /\ DOMAIN t = DOMAIN s
<1>1. DOMAIN s = 1..Len(s) /\ Len(s) \in Nat
  OBVIOUS
<1>2. t \in [1..Len(s) -> T]
  BY <1>1
<1> QED
  BY <1>1, <1>2

\* supersede_candidate_evidence leaves everything but the currency of votes and plans alone.
LEMMA SupersededType ==
    ASSUME NEW w \in WorkRecord, NEW ids
    PROVE  LET v == supersede_candidate_evidence(w, ids)
           IN /\ v \in WorkRecord
              /\ v.candidates = w.candidates /\ v.stage_index = w.stage_index
              /\ v.fallback_depth = w.fallback_depth
              /\ v.pending \subseteq w.pending
              /\ DOMAIN v.evaluations = DOMAIN w.evaluations
              /\ \A k \in DOMAIN w.evaluations :
                    /\ SameVote(w.evaluations[k], v.evaluations[k])
                    /\ v.evaluations[k].candidate_generation = w.evaluations[k].candidate_generation
<1> DEFINE votes == [i \in DOMAIN w.evaluations |->
                       IF w.evaluations[i].candidate \in ids
                         THEN [w.evaluations[i] EXCEPT !.current = FALSE] ELSE w.evaluations[i]]
           plans == {q \in w.pending : q.candidate \in ids => q.answered}
           v == [w EXCEPT !.evaluations = votes, !.pending = plans]
<1>1. supersede_candidate_evidence(w, ids) = v
  BY DEF supersede_candidate_evidence
<1>2. w.evaluations \in Seq(EvaluationRecord) /\ w.pending \in SUBSET PlannedRecord
  BY DEF WorkRecord
<1>3. ASSUME NEW u \in EvaluationRecord
      PROVE  LET t == [u EXCEPT !.current = FALSE]
             IN /\ t \in EvaluationRecord /\ SameVote(u, t)
                /\ t.candidate_generation = u.candidate_generation
  BY DEF EvaluationRecord, SameVote
<1>4. \A k \in DOMAIN w.evaluations :
         /\ votes[k] \in EvaluationRecord /\ SameVote(w.evaluations[k], votes[k])
         /\ votes[k].candidate_generation = w.evaluations[k].candidate_generation
  BY <1>2, <1>3 DEF SameVote
<1>5. votes \in Seq(EvaluationRecord) /\ DOMAIN votes = DOMAIN w.evaluations
  <2>1. votes = [i \in DOMAIN w.evaluations |-> votes[i]]
    OBVIOUS
  <2> HIDE DEF votes
  <2> QED
    BY <1>2, <1>4, <2>1, MappedSeq
<1>6. plans \in SUBSET PlannedRecord /\ plans \subseteq w.pending
  BY <1>2
<1> HIDE DEF votes, plans
<1>7. v \in WorkRecord
  BY <1>5, <1>6 DEF WorkRecord
<1>8. /\ v.candidates = w.candidates /\ v.stage_index = w.stage_index
      /\ v.fallback_depth = w.fallback_depth /\ v.pending = plans /\ v.evaluations = votes
  BY DEF WorkRecord
<1> HIDE DEF v
<1> QED
  BY <1>1, <1>4, <1>5, <1>6, <1>7, <1>8

-----------------------------------------------------------------------------
(* What a part of the planner does to the slots. *)

Attempted(d, n) == d.attempts_used = IF d.state = "dispatched" THEN n + 1 ELSE n

\* A slot that waits is sent, failed or left waiting; every other slot is left alone.
PlannedSlot(c, d) ==
    \/ d = c
    \/ /\ SameSlot(c, d) /\ d.generation = c.generation /\ c.state = "declared"
       /\ d.state \in {"declared", "failed", "dispatched"} /\ Attempted(d, c.attempts_used)

\* A slot that was declared meanwhile.
FreshSlot(d) ==
    d.generation = 1 /\ d.state \in {"declared", "failed", "dispatched"} /\ Attempted(d, 0)

Planned(w, v) ==
    /\ DOMAIN w.candidates \subseteq DOMAIN v.candidates
    /\ \A i \in DOMAIN w.candidates : PlannedSlot(w.candidates[i], v.candidates[i])
    /\ \A i \in DOMAIN v.candidates \ DOMAIN w.candidates : FreshSlot(v.candidates[i])

\* The planner is in a state it can go on from.
Sound(x, e) ==
    x \in Planning /\ WorkInv(x.w) /\ DispatchesHeld(x.w, e.participants)

\* Two parts of the planner, one after the other.
LEMMA PlannedTransitive ==
    ASSUME NEW w \in WorkRecord, NEW v \in WorkRecord, NEW u, Planned(w, v), Planned(v, u)
    PROVE  Planned(w, u)
<1>1. ASSUME NEW i \in DOMAIN w.candidates
      PROVE  PlannedSlot(w.candidates[i], u.candidates[i])
  <2>1. PlannedSlot(w.candidates[i], v.candidates[i]) /\ PlannedSlot(v.candidates[i], u.candidates[i])
    BY <1>1 DEF Planned
  <2> QED
    BY <2>1 DEF PlannedSlot, SameSlot, Attempted
<1>2. ASSUME NEW i \in DOMAIN u.candidates \ DOMAIN w.candidates
      PROVE  FreshSlot(u.candidates[i])
  <2>1. CASE i \in DOMAIN v.candidates
    <3>1. FreshSlot(v.candidates[i]) /\ PlannedSlot(v.candidates[i], u.candidates[i])
      BY <1>2, <2>1 DEF Planned
    <3> QED
      BY <3>1 DEF FreshSlot, PlannedSlot, Attempted
  <2>2. CASE i \notin DOMAIN v.candidates
    BY <1>2, <2>2 DEF Planned
  <2> QED
    BY <2>1, <2>2
<1> QED
  BY <1>1, <1>2 DEF Planned

\* A part that does nothing.
LEMMA PlannedReflexive == ASSUME NEW w PROVE Planned(w, w)
BY DEF Planned, PlannedSlot

\* A step that leaves the candidates alone.
LEMMA PlannedSame ==
    ASSUME NEW w, NEW v, v.candidates = w.candidates
    PROVE  Planned(w, v)
BY DEF Planned, PlannedSlot

-----------------------------------------------------------------------------
(* Declaration. *)

\* Evidence with other candidates, everything else left alone.
LEMMA CandidatesReplaced ==
    ASSUME NEW w \in WorkRecord, NEW cs \in Seq(CandidateRecord)
    PROVE  LET v == [w EXCEPT !.candidates = cs]
           IN /\ v \in WorkRecord /\ v.candidates = cs
              /\ v.stage_index = w.stage_index /\ v.fallback_depth = w.fallback_depth
              /\ v.pending = w.pending /\ v.evaluations = w.evaluations
BY DEF WorkRecord

\* A member of the current stage is given its slot.
LEMMA DeclaredOne ==
    ASSUME NEW w, WorkInv(w), NEW e, IsEnv(e), DispatchesHeld(w, e.participants),
           w.stage_index < Len(StagesOf(w)),
           NEW p \in Participants,
           \E n \in DOMAIN StageAt(w.stage_index + 1).participants :
               StageAt(w.stage_index + 1).participants[n] = p
    PROVE  LET k == w.stage_index + 1
               c == NewCandidate(p, e.participants[p].generation, k, IsFallbackStage(k))
               v == [w EXCEPT !.candidates = Append(w.candidates, c)]
           IN /\ Append(w.candidates, c) \in Seq(CandidateRecord)
              /\ WorkInv(v) /\ DispatchesHeld(v, e.participants) /\ Planned(w, v)
<1> DEFINE k == w.stage_index + 1
           c == NewCandidate(p, e.participants[p].generation, k, IsFallbackStage(k))
           cs == Append(w.candidates, c)
           v == [w EXCEPT !.candidates = cs]
<1>1. /\ w \in WorkRecord /\ w.stage_index \in Nat /\ w.fallback_depth \in Nat
      /\ w.candidates \in Seq(CandidateRecord)
  BY DEF WorkInv, WorkRecord
<1>2. /\ Len(effective_stages) \in Nat /\ k <= Len(effective_stages) + w.fallback_depth
      /\ k \in Nat \ {0}
  BY <1>1, StagesOfStages
<1>3. c \in CandidateRecord
  <2>1. e.participants[p].generation \in Nat /\ IsFallbackStage(k) \in BOOLEAN
    BY DEF IsEnv, ParticipantRecord, IsFallbackStage
  <2> QED
    BY <1>2, <2>1, NewCandidateType
<1>4. /\ c.participant = p /\ c.stage = k /\ c.fallback = IsFallbackStage(k)
      /\ c.state = "declared" /\ c.generation = 1 /\ c.attempts_used = 0
  BY DEF NewCandidate
<1> HIDE DEF c
<1>5. /\ cs \in Seq(CandidateRecord) /\ DOMAIN cs = 1..(Len(w.candidates) + 1)
      /\ DOMAIN w.candidates = 1..Len(w.candidates) /\ Len(w.candidates) \in Nat
      /\ cs[Len(w.candidates) + 1] = c
      /\ \A i \in DOMAIN w.candidates : cs[i] = w.candidates[i]
  BY <1>1, <1>3
<1> DEFINE last == Len(w.candidates) + 1
<1>6. /\ DOMAIN cs = DOMAIN w.candidates \cup {last} /\ last \notin DOMAIN w.candidates
      /\ \A i \in DOMAIN w.candidates : ~(last < i)
      /\ cs[last] = c /\ \A i \in DOMAIN w.candidates : cs[i] = w.candidates[i]
  BY <1>5
<1> HIDE DEF cs, last
<1>7. /\ v \in WorkRecord /\ v.candidates = cs /\ v.stage_index = w.stage_index
      /\ v.fallback_depth = w.fallback_depth
      /\ v.pending = w.pending /\ v.evaluations = w.evaluations
  BY <1>1, <1>5, CandidatesReplaced
<1> HIDE DEF v
<1>8. in_flight(c) /\ ~is_content_state(c.state)
  BY <1>4 DEF in_flight, is_content_state, ContentStates
<1>9. StagesKept(v)
  <2>1. StagesKept(w) /\ w.stage_index \in Nat
    BY <1>1 DEF WorkInv
  <2>2. ASSUME NEW i \in DOMAIN cs
        PROVE  /\ cs[i].stage <= w.stage_index + 1
               /\ cs[i].stage <= Len(effective_stages) + w.fallback_depth
               /\ \E n \in DOMAIN StageAt(cs[i].stage).participants :
                     StageAt(cs[i].stage).participants[n] = cs[i].participant
               /\ cs[i].stage <= w.stage_index => ~in_flight(cs[i])
               /\ cs[i].fallback = IsFallbackStage(cs[i].stage)
    <3>1. CASE i \in DOMAIN w.candidates
      BY <1>6, <2>1, <3>1 DEF StagesKept
    <3>2. CASE i = last
      BY <1>1, <1>2, <1>4, <1>6, <3>2
    <3> QED
      BY <1>6, <2>2, <3>1, <3>2
  <2> QED
    BY <1>7, <2>1, <2>2 DEF StagesKept
<1>10. FallbackKept(v)
  <2> SUFFICES ASSUME w.fallback_depth > 0
               PROVE  /\ w.stage_index >= Len(effective_stages)
                      /\ spec.fallback.triggers = {"all_primary_invalid"} =>
                            \A i \in DOMAIN cs : ~cs[i].fallback =>
                                ~in_flight(cs[i]) /\ ~is_content_state(cs[i].state)
    BY <1>7 DEF FallbackKept
  <2>1. FallbackKept(w) /\ w.stage_index >= Len(effective_stages)
    BY DEF WorkInv, FallbackKept
  <2>2. k > Len(effective_stages)
    BY <1>1, <1>2, <2>1
  <2>3. IsFallbackStage(k)
    BY <2>2 DEF IsFallbackStage
  <2>4. c.fallback
    BY <1>4, <2>3, Zenon
  <2> QED
    BY <1>6, <2>1, <2>4 DEF FallbackKept
<1>11. SequenceKept(v)
  <2>1. SequenceKept(w)
    BY DEF WorkInv
  <2> QED
    BY <1>4, <1>6, <1>7, <2>1 DEF SequenceKept
<1>12. VotesKept(v)
  BY <1>5, <1>6, <1>7 DEF WorkInv, VotesKept, CandidatesIn
<1>13. BudgetKept(v)
  BY <1>4, <1>5, <1>6, <1>7, RetryAssumption DEF WorkInv, BudgetKept
<1>14. DispatchesHeld(v, e.participants)
  BY <1>4, <1>5, <1>6, <1>7 DEF DispatchesHeld
<1>15. Planned(w, v)
  BY <1>4, <1>5, <1>6, <1>7 DEF Planned, PlannedSlot, FreshSlot, Attempted
<1> QED
  BY <1>5, <1>7, <1>9, <1>10, <1>11, <1>12, <1>13, <1>14, <1>15 DEF WorkInv, v, cs, c

\* The slots cs may take the place of those of w.
Declarable(w, cs, e) ==
    LET v == [w EXCEPT !.candidates = cs]
    IN /\ cs \in Seq(CandidateRecord)
       /\ WorkInv(v) /\ DispatchesHeld(v, e.participants) /\ Planned(w, v)

\* DeclareMember leaves the slots alone or gives one to a member of the current stage.
LEMMA DeclareMemberKeeps ==
    ASSUME NEW w \in WorkRecord, NEW e, IsEnv(e), w.stage_index < Len(StagesOf(w)),
           NEW cs, Declarable(w, cs, e), NEW p \in Participants,
           \E n \in DOMAIN StageAt(w.stage_index + 1).participants :
               StageAt(w.stage_index + 1).participants[n] = p
    PROVE  Declarable(w, DeclareMember(cs, p, w.stage_index + 1, e), e)
<1> DEFINE k == w.stage_index + 1
           v == [w EXCEPT !.candidates = cs]
           c == NewCandidate(p, e.participants[p].generation, k, IsFallbackStage(k))
           ds == Append(cs, c)
           u == [v EXCEPT !.candidates = ds]
<1>1. CASE DeclareMember(cs, p, k, e) = cs
  BY <1>1
<1>2. CASE DeclareMember(cs, p, k, e) = ds
  <2>1. /\ cs \in Seq(CandidateRecord) /\ WorkInv(v) /\ DispatchesHeld(v, e.participants)
        /\ Planned(w, v)
    BY DEF Declarable
  <2>2. /\ v \in WorkRecord /\ v.candidates = cs /\ v.stage_index = w.stage_index
        /\ v.fallback_depth = w.fallback_depth
    BY <2>1, CandidatesReplaced
  <2>3. u = [w EXCEPT !.candidates = ds]
    BY DEF WorkRecord
  <2> HIDE DEF v
  <2>4. StagesOf(v) = StagesOf(w)
    BY <2>2 DEF StagesOf
  <2>5. /\ ds \in Seq(CandidateRecord) /\ WorkInv(u) /\ DispatchesHeld(u, e.participants)
        /\ Planned(v, u)
    BY <2>1, <2>2, <2>4, DeclaredOne
  <2>6. u \in WorkRecord
    BY <2>5 DEF WorkInv
  <2> HIDE DEF u, ds
  <2>7. Planned(w, u)
    BY <2>1, <2>2, <2>5, <2>6, PlannedTransitive
  <2>8. Declarable(w, ds, e)
    BY <2>3, <2>5, <2>7 DEF Declarable
  <2> QED
    BY <1>2, <2>8
<1> QED
  BY <1>1, <1>2 DEF DeclareMember

\* f is what the loop of DeclareMembers has computed after each of b members.
MemberLoop(f, b, cs, members, k, e) ==
    f = [n \in 0..b |-> IF n = 0 THEN cs ELSE DeclareMember(f[n - 1], members[n], k, e)]

\* The loop over the members is well defined.
LEMMA DeclareMembersExist ==
    ASSUME NEW cs, NEW members, NEW k, NEW e, NEW b \in Nat
    PROVE  \E f : MemberLoop(f, b, cs, members, k, e)
<1> DEFINE Rule(m, f) == f = [n \in 0..m |->
                           IF n = 0 THEN cs ELSE DeclareMember(f[n - 1], members[n], k, e)]
           D == {m \in Nat : \E f : Rule(m, f)}
<1>1. 0 \in D
  <2>1. Rule(0, [n \in 0..0 |-> cs])
    OBVIOUS
  <2> QED
    BY <2>1
<1>2. ASSUME NEW m \in Nat, m \in D PROVE m + 1 \in D
  <2>1. PICK f : Rule(m, f)
    BY <1>2
  <2> DEFINE g == [n \in 0..(m + 1) |->
                     IF n = 0 THEN cs ELSE DeclareMember(f[n - 1], members[n], k, e)]
  <2>2. \A n \in 0..m : g[n] = f[n]
    BY <2>1
  <2>3. \A n \in 0..(m + 1) : n # 0 => n - 1 \in 0..m
    OBVIOUS
  <2>4. Rule(m + 1, g)
    BY <2>2, <2>3
  <2> HIDE DEF g, Rule
  <2> QED
    BY <2>4
<1> HIDE DEF D
<1>3. b \in D
  BY <1>1, <1>2, SetInduction
<1> QED
  BY <1>3 DEF D, MemberLoop

\* The members of the current stage get their slots one after the other.
LEMMA DeclareMembersKeep ==
    ASSUME NEW w \in WorkRecord, NEW e, IsEnv(e), w.stage_index < Len(StagesOf(w)),
           WorkInv(w), DispatchesHeld(w, e.participants)
    PROVE  Declarable(w, DeclareMembers(w.candidates, StageAt(w.stage_index + 1).participants,
                                        w.stage_index + 1, e), e)
<1> DEFINE k == w.stage_index + 1
           members == StageAt(k).participants
           cs == w.candidates
           declared[n \in 0..Len(members)] ==
             IF n = 0 THEN cs ELSE DeclareMember(declared[n - 1], members[n], k, e)
<1>1. members \in Seq(Participants) /\ Len(members) \in Nat /\ DOMAIN members = 1..Len(members)
  <2>1. w.stage_index \in Nat /\ w.fallback_depth \in Nat
    BY DEF WorkRecord
  <2>2. k \in 1..Len(StagesOf(w))
    BY <2>1, StagesOfStages
  <2>3. StageAt(k) \in Stage
    BY <2>1, <2>2, StagesOfStages
  <2> QED
    BY <2>3 DEF Stage
<1> HIDE DEF members, k
<1>2. PICK top \in Nat : top = Len(members)
  BY <1>1
<1>3. declared = [n \in 0..top |->
                    IF n = 0 THEN cs ELSE DeclareMember(declared[n - 1], members[n], k, e)]
  <2> HIDE DEF cs
  <2>1. \E f : MemberLoop(f, top, cs, members, k, e)
    BY DeclareMembersExist
  <2> QED
    BY <1>2, <2>1 DEF MemberLoop
<1> HIDE DEF declared
<1> DEFINE S == {n \in Nat : n \in 0..top => Declarable(w, declared[n], e)}
<1>4. 0 \in S
  <2>1. declared[0] = w.candidates
    BY <1>3
  <2>2. [w EXCEPT !.candidates = w.candidates] = w /\ w.candidates \in Seq(CandidateRecord)
    BY DEF WorkRecord
  <2>3. Declarable(w, w.candidates, e)
    BY <2>2, PlannedReflexive DEF Declarable
  <2> QED
    BY <2>1, <2>3
<1>5. ASSUME NEW n \in Nat, n \in S PROVE n + 1 \in S
  <2> SUFFICES ASSUME n + 1 \in 0..top PROVE Declarable(w, declared[n + 1], e)
    OBVIOUS
  <2>1. n \in 0..top /\ n + 1 \in DOMAIN members /\ (n + 1) - 1 = n
    BY <1>1, <1>2
  <2>2. Declarable(w, declared[n], e)
    BY <1>5, <2>1
  <2>3. declared[n + 1] = DeclareMember(declared[n], members[n + 1], k, e)
    BY <1>3, <2>1
  <2>4. members[n + 1] \in Participants
    BY <1>1, <2>1
  <2>5. \E m \in DOMAIN StageAt(w.stage_index + 1).participants :
           StageAt(w.stage_index + 1).participants[m] = members[n + 1]
    BY <2>1 DEF members, k
  <2>6. Declarable(w, DeclareMember(declared[n], members[n + 1], k, e), e)
    BY <2>2, <2>4, <2>5, DeclareMemberKeeps DEF k
  <2> QED
    BY <2>3, <2>6
<1>6. Declarable(w, declared[top], e)
  <2>1. top \in S
    <3> HIDE DEF S
    <3> QED
      BY <1>4, <1>5, SetInduction
  <2> QED
    BY <2>1
<1> QED
  BY <1>2, <1>6 DEF DeclareMembers, declared, members, k

\* The invariant is about the slots, the votes and the position in the stages only.
LEMMA WorkSame ==
    ASSUME NEW w, WorkInv(w), NEW v \in WorkRecord, v.candidates = w.candidates,
           v.stage_index = w.stage_index, v.fallback_depth = w.fallback_depth,
           v.pending = w.pending, v.evaluations = w.evaluations, NEW records
    PROVE  /\ WorkInv(v) /\ Planned(w, v)
           /\ DispatchesHeld(w, records) => DispatchesHeld(v, records)
<1>1. StagesKept(v) /\ FallbackKept(v)
  BY DEF WorkInv, StagesKept, FallbackKept
<1>2. SequenceKept(v) /\ BudgetKept(v)
  BY DEF WorkInv, SequenceKept, BudgetKept
<1>3. VotesKept(v)
  BY DEF WorkInv, VotesKept, CandidatesIn
<1>4. DispatchesHeld(w, records) => DispatchesHeld(v, records)
  BY DEF DispatchesHeld
<1> QED
  BY <1>1, <1>2, <1>3, <1>4, PlannedSame DEF WorkInv

\* What DeclareStage adds to the current stage.
LEMMA DeclareStageKeeps ==
    ASSUME NEW x, NEW e, IsEnv(e), Sound(x, e), ~AllStagesDone(x.w)
    PROVE  LET y == DeclareStage(x, x.w.stage_index + 1, e)
           IN /\ Sound(y, e) /\ Planned(x.w, y.w)
              /\ y.w.stage_index = x.w.stage_index /\ y.w.fallback_depth = x.w.fallback_depth
<1> DEFINE w == x.w
           k == w.stage_index + 1
           members == StagesOf(w)[k].participants
           cs == DeclareMembers(w.candidates, members, k, e)
           full == \E n \in DOMAIN members : ~Exists(cs, members[n], k)
           y == DeclareStage(x, k, e)
<1>1. /\ x \in Planning /\ w \in WorkRecord /\ WorkInv(w) /\ DispatchesHeld(w, e.participants)
      /\ w.stage_index \in Nat /\ w.fallback_depth \in Nat
  BY DEF Sound, Planning, WorkRecord
<1>2. w.stage_index < Len(StagesOf(w)) /\ k \in 1..Len(StagesOf(w))
  BY <1>1, StagesOfStages DEF AllStagesDone
<1>3. members = StageAt(k).participants
  BY <1>1, <1>2, StagesOfStages
<1>4. Declarable(w, cs, e)
  BY <1>1, <1>2, <1>3, DeclareMembersKeep
<1>5. PICK b \in BOOLEAN : b = ~full
  OBVIOUS
<1>6. PICK a \in BOOLEAN : a = (x.progress \/ b)
  OBVIOUS
<1>7. PICK d \in BOOLEAN : d = ~b
  OBVIOUS
<1>8. DeclareStage(x, k, e) =
        IF w.declared_current_stage THEN x
        ELSE [x EXCEPT !.w = [w EXCEPT !.candidates = cs, !.declared_current_stage = b],
                       !.progress = a, !.error = d]
  BY <1>5, <1>6, <1>7 DEF DeclareStage
<1> HIDE DEF cs, members
<1>9. CASE w.declared_current_stage
  BY <1>8, <1>9, PlannedReflexive
<1>10. CASE ~w.declared_current_stage
  <2> DEFINE v == [w EXCEPT !.candidates = cs]
             u == [w EXCEPT !.candidates = cs, !.declared_current_stage = b]
             z == [x EXCEPT !.w = u, !.progress = a, !.error = d]
  <2>1. /\ cs \in Seq(CandidateRecord) /\ WorkInv(v) /\ DispatchesHeld(v, e.participants)
        /\ Planned(w, v)
    BY <1>4 DEF Declarable
  <2>2. u \in WorkRecord
    BY <1>1, <2>1 DEF WorkRecord
  <2>3. /\ u.candidates = v.candidates /\ u.stage_index = v.stage_index
        /\ u.fallback_depth = v.fallback_depth /\ u.pending = v.pending
        /\ u.evaluations = v.evaluations
        /\ u.stage_index = w.stage_index /\ u.fallback_depth = w.fallback_depth
    BY <1>1 DEF WorkRecord
  <2>4. v \in WorkRecord
    BY <2>1 DEF WorkInv
  <2> HIDE DEF u, v
  <2>5. WorkInv(u) /\ DispatchesHeld(u, e.participants) /\ Planned(v, u)
    BY <2>1, <2>2, <2>3, WorkSame
  <2>6. Planned(w, u)
    BY <1>1, <2>1, <2>4, <2>5, PlannedTransitive
  <2>7. z \in Planning /\ z.w = u
    BY <1>1, <2>2 DEF Planning
  <2>8. y = z
    BY <1>8, <1>10 DEF u
  <2> HIDE DEF z, y
  <2> QED
    BY <2>3, <2>5, <2>6, <2>7, <2>8 DEF Sound, y
<1> QED
  BY <1>9, <1>10

-----------------------------------------------------------------------------
(* Dispatch. *)

\* What DispatchStage makes of the slot c: sent, and then held by whoever is asked, failed, or
\* left waiting with the participant's generation brought up to date.
LEMMA DispatchSlot ==
    ASSUME NEW c \in CandidateRecord, NEW e, IsEnv(e), c.state = "declared",
           c.attempts_used < spec.retry.max_attempts,
           NEW send \in BOOLEAN, NEW doom \in BOOLEAN,
           send => authoritative(e.participants[c.participant], e.epoch)
    PROVE  LET d == IF send THEN Dispatched(c, e)
                    ELSE [(IF doom THEN failed_candidate(c) ELSE c) EXCEPT
                            !.participant_generation = e.participants[c.participant].generation]
           IN /\ d \in CandidateRecord /\ SlotKept(c, d) /\ PlannedSlot(c, d)
              /\ d.state = "dispatched" <=> send
              /\ ~send /\ doom => ~in_flight(d)
              /\ send => HeldBy(d, e.participants[d.participant])
<1>1. in_flight(c)
  BY DEF in_flight
<1>2. CASE send
  <2> DEFINE d == Dispatched(c, e)
  <2>1. /\ d \in CandidateRecord /\ d.state = "dispatched" /\ d.generation = c.generation
        /\ d.attempts_used = c.attempts_used + 1 /\ SameSlot(c, d)
        /\ HeldBy(d, e.participants[c.participant])
    BY <1>2, DispatchedType
  <2> HIDE DEF d
  <2>2. SlotKept(c, d)
    BY <1>1, <2>1, RetryAssumption DEF SlotKept, CandidateRecord, is_content_state, ContentStates
  <2>3. PlannedSlot(c, d)
    BY <2>1 DEF PlannedSlot, Attempted
  <2>4. d.participant = c.participant
    BY <2>1 DEF SameSlot
  <2> QED
    BY <1>2, <2>1, <2>2, <2>3, <2>4 DEF d
<1>3. CASE ~send
  <2> DEFINE b == IF doom THEN failed_candidate(c) ELSE c
             g == e.participants[c.participant].generation
             d == [b EXCEPT !.participant_generation = g]
  <2>1. g \in Nat
    BY DEF IsEnv, ParticipantRecord, CandidateRecord
  <2>2. /\ b \in CandidateRecord /\ b.attempts_used = c.attempts_used
        /\ b.generation = c.generation /\ SameSlot(c, b)
        /\ b.state = IF doom THEN "failed" ELSE "declared"
    BY FailedType DEF SameSlot
  <2> HIDE DEF b, g
  <2>3. /\ d \in CandidateRecord /\ d.state = b.state /\ d.generation = b.generation
        /\ d.attempts_used = b.attempts_used /\ SameSlot(b, d)
    BY <2>1, <2>2, RefreshedType
  <2> HIDE DEF d
  <2>4. SlotKept(c, d)
    BY <1>1, <2>2, <2>3, RetryAssumption
    DEF SlotKept, SameSlot, CandidateRecord, is_content_state, ContentStates
  <2>5. PlannedSlot(c, d)
    BY <2>2, <2>3 DEF PlannedSlot, Attempted, SameSlot
  <2>6. d.state # "dispatched" /\ (doom => ~in_flight(d))
    BY <2>2, <2>3 DEF in_flight
  <2> QED
    BY <1>3, <2>3, <2>4, <2>5, <2>6 DEF d, b, g
<1> QED
  BY <1>2, <1>3

\* In a sequential stage only the first slot that may go is sent, and only when nobody before it
\* is in flight: SequenceKept survives.
LEMMA DispatchInSequence ==
    ASSUME NEW w, NEW v, SequenceKept(w), DOMAIN v.candidates = DOMAIN w.candidates,
           NEW k, NEW sent, NEW doomed, DOMAIN w.candidates \subseteq Nat,
           sent \subseteq InStage(w, k), doomed \subseteq InStage(w, k),
           \A i \in sent \cup doomed : w.candidates[i].state = "declared",
           \A i \in DOMAIN w.candidates :
              /\ SlotKept(w.candidates[i], v.candidates[i])
              /\ i \notin sent \cup doomed => v.candidates[i].state = w.candidates[i].state
              /\ i \in doomed \ sent => ~in_flight(v.candidates[i]),
           StageAt(k).mode = "sequential" =>
              /\ \A i, j \in sent : i = j
              /\ \A i \in sent : ~earlier_pending(w, k, i, doomed)
    PROVE  SequenceKept(v)
<1> DEFINE c(i) == w.candidates[i]
           d(i) == v.candidates[i]
<1> SUFFICES ASSUME NEW i \in DOMAIN w.candidates, NEW j \in DOMAIN w.candidates,
                    d(i).state = "dispatched", i # j, d(i).stage = d(j).stage,
                    StageAt(d(i).stage).mode = "sequential"
             PROVE  d(j).state # "dispatched" /\ (j < i => ~in_flight(d(j)))
  BY DEF SequenceKept
<1>1. /\ c(i).stage = d(i).stage /\ c(j).stage = d(j).stage
      /\ in_flight(d(j)) => in_flight(c(j))
  BY DEF SlotKept, SameSlot
<1>2. i \in Nat /\ j \in Nat
  OBVIOUS
<1>3. in_flight(d(i)) /\ (d(j).state = "dispatched" => in_flight(d(j)))
  BY DEF in_flight
<1>4. \A n \in sent : in_flight(c(n)) /\ c(n).state # "dispatched"
  BY DEF in_flight
<1>5. CASE i \notin sent
  <2>1. c(i).state = "dispatched" /\ i \notin doomed /\ in_flight(c(i))
    BY <1>3, <1>5 DEF in_flight
  <2>2. c(j).state # "dispatched" /\ (j < i => ~in_flight(c(j)))
    BY <1>1, <2>1 DEF SequenceKept
  <2>3. ASSUME j \in sent PROVE FALSE
    <3>1. c(j).stage = k /\ i \in InStage(w, k)
      BY <1>1, <2>3 DEF InStage
    <3>2. i < j
      BY <1>2, <1>4, <2>2, <2>3
    <3>3. earlier_pending(w, k, j, doomed)
      BY <2>1, <3>1, <3>2 DEF earlier_pending
    <3>4. StageAt(k).mode = "sequential"
      BY <1>1, <3>1
    <3> QED
      BY <2>3, <3>3, <3>4
  <2>4. d(j).state # "dispatched"
    BY <1>3, <2>2, <2>3 DEF in_flight
  <2> QED
    BY <1>1, <2>2, <2>4
<1>6. CASE i \in sent
  <2>1. c(i).stage = k /\ j \in InStage(w, k) /\ StageAt(k).mode = "sequential"
    BY <1>1, <1>6 DEF InStage
  <2>2. j \notin sent /\ ~earlier_pending(w, k, i, doomed)
    BY <1>6, <2>1
  <2>3. j < i => ~in_flight(d(j))
    BY <1>1, <2>1, <2>2 DEF earlier_pending
  <2>4. ASSUME d(j).state = "dispatched" PROVE FALSE
    <3>1. ~(j < i) /\ j \notin doomed
      BY <1>3, <2>2, <2>3, <2>4
    <3>2. c(j).state = "dispatched" /\ i < j
      BY <1>2, <2>2, <2>4, <3>1
    <3>3. ~in_flight(c(i))
      BY <1>1, <3>2 DEF SequenceKept
    <3> QED
      BY <1>4, <1>6, <3>3
  <2> QED
    BY <2>3, <2>4
<1> QED
  BY <1>5, <1>6

\* DispatchStage sends, fails or refreshes slots of the current stage only.
LEMMA DispatchStageKeeps ==
    ASSUME NEW x, NEW e, IsEnv(e), Sound(x, e), ~AllStagesDone(x.w)
    PROVE  LET y == DispatchStage(x, x.w.stage_index + 1, e)
           IN /\ Sound(y, e) /\ Planned(x.w, y.w)
              /\ y.w.stage_index = x.w.stage_index /\ y.w.fallback_depth = x.w.fallback_depth
<1> DEFINE w == x.w
           k == w.stage_index + 1
           y == DispatchStage(x, k, e)
           declared == {i \in InStage(w, k) : w.candidates[i].state = "declared"}
           ready == {i \in declared :
                       authoritative(e.participants[w.candidates[i].participant], e.epoch)}
           sequential == StagesOf(w)[k].mode = "sequential"
           scanned == IF sequential /\ ready # {} THEN {i \in declared : i <= Min(ready)}
                                                  ELSE declared
           doomed == {i \in scanned \ ready : Unservable(w.candidates[i], e)}
           sent == {i \in scanned \cap ready : sequential => ~earlier_pending(w, k, i, doomed)}
           outcome(i) ==
             LET c == w.candidates[i]
             IN IF i \in sent THEN Dispatched(c, e)
                ELSE IF i \in scanned
                  THEN [(IF i \in doomed THEN failed_candidate(c) ELSE c) EXCEPT
                          !.participant_generation = e.participants[c.participant].generation]
                  ELSE c
           cs == [i \in DOMAIN w.candidates |-> outcome(i)]
           w1 == [w EXCEPT !.candidates = cs]
           v == supersede_candidate_evidence(w1, doomed)
<1>1. /\ x \in Planning /\ w \in WorkRecord /\ WorkInv(w) /\ DispatchesHeld(w, e.participants)
      /\ w.stage_index \in Nat /\ w.fallback_depth \in Nat
      /\ w.candidates \in Seq(CandidateRecord) /\ DOMAIN w.candidates \subseteq Nat
      /\ \A i \in DOMAIN w.candidates : w.candidates[i] \in CandidateRecord
  BY DEF Sound, Planning, WorkRecord
<1>2. k \in 1..Len(StagesOf(w))
  BY <1>1, StagesOfStages DEF AllStagesDone
<1>3. sequential <=> StageAt(k).mode = "sequential"
  BY <1>1, <1>2, StagesOfStages
<1>4. PICK a \in BOOLEAN : a = (x.progress \/ doomed # {} \/ sent # {})
  OBVIOUS
<1>5. y = [x EXCEPT !.w = v, !.progress = a]
  BY <1>4 DEF DispatchStage
<1>6. /\ scanned \subseteq declared /\ sent \subseteq scanned \cap ready
      /\ doomed \subseteq scanned \ ready
      /\ declared \subseteq InStage(w, k) /\ InStage(w, k) \subseteq DOMAIN w.candidates
      /\ \A i \in declared : w.candidates[i].state = "declared"
      /\ \A i \in ready : authoritative(e.participants[w.candidates[i].participant], e.epoch)
  BY DEF InStage
<1>7. StageAt(k).mode = "sequential" => /\ \A i, j \in sent : i = j
                                        /\ \A i \in sent : ~earlier_pending(w, k, i, doomed)
  <2> SUFFICES ASSUME sequential
               PROVE  /\ \A i, j \in sent : i = j
                      /\ \A i \in sent : ~earlier_pending(w, k, i, doomed)
    BY <1>3
  <2>1. \A i \in sent : ~earlier_pending(w, k, i, doomed)
    OBVIOUS
  <2>2. ASSUME NEW i \in sent, NEW j \in sent PROVE i = j
    <3>1. ready \in SUBSET Nat /\ ready # {} /\ i \in ready /\ j \in ready
      BY <1>1, <1>6
    <3>2. i <= Min(ready) /\ j <= Min(ready)
      BY <3>1
    <3> HIDE DEF ready
    <3>3. Min(ready) \in ready /\ Min(ready) <= i /\ Min(ready) <= j
      BY <3>1, MinIsLeast
    <3> QED
      BY <3>1, <3>2, <3>3
  <2> QED
    BY <2>1, <2>2
<1> HIDE DEF sent, doomed, scanned, sequential, ready, declared
<1>8. ASSUME NEW i \in DOMAIN w.candidates
      PROVE  LET c == w.candidates[i]
                 d == cs[i]
             IN /\ d \in CandidateRecord /\ SlotKept(c, d) /\ PlannedSlot(c, d)
                /\ i \notin sent \cup doomed => d.state = c.state
                /\ i \in doomed \ sent => ~in_flight(d)
                /\ d.state = "dispatched" =>
                      IF i \in sent THEN HeldBy(d, e.participants[d.participant]) ELSE d = c
  <2> DEFINE c == w.candidates[i]
             d == cs[i]
  <2>1. c \in CandidateRecord
    BY <1>1
  <2>2. CASE i \notin scanned
    <3>1. d = c /\ i \notin sent /\ i \notin doomed
      BY <1>6, <2>2
    <3>2. SlotKept(c, c)
      BY <1>1 DEF WorkInv, BudgetKept, SlotKept, SameSlot
    <3>3. PlannedSlot(c, c)
      BY DEF PlannedSlot
    <3> QED
      BY <2>1, <3>1, <3>2, <3>3
  <2>3. CASE i \in scanned
    <3> DEFINE send == i \in sent
               doom == i \in doomed
               g == e.participants[c.participant].generation
    <3>1. /\ c.state = "declared" /\ (send => authoritative(e.participants[c.participant], e.epoch))
      BY <1>6, <2>3
    <3>2. c.attempts_used < spec.retry.max_attempts
      BY <1>1, <3>1 DEF WorkInv, BudgetKept
    <3>3. d = IF send THEN Dispatched(c, e)
              ELSE [(IF doom THEN failed_candidate(c) ELSE c) EXCEPT !.participant_generation = g]
      BY <2>3
    <3>4. send \in BOOLEAN /\ doom \in BOOLEAN
      OBVIOUS
    <3>5. ~send /\ ~doom => d.state = c.state
      <4>1. g \in Nat
        BY <2>1 DEF IsEnv, ParticipantRecord, CandidateRecord
      <4> SUFFICES ASSUME ~send, ~doom PROVE d.state = c.state
        OBVIOUS
      <4>2. d = [c EXCEPT !.participant_generation = g]
        BY <3>3
      <4> HIDE DEF g, c, d, send, doom
      <4> QED
        BY <2>1, <4>1, <4>2, RefreshedType
    <3> HIDE DEF send, doom, d, c
    <3>6. /\ d \in CandidateRecord /\ SlotKept(c, d) /\ PlannedSlot(c, d)
          /\ d.state = "dispatched" <=> send
          /\ ~send /\ doom => ~in_flight(d)
          /\ send => HeldBy(d, e.participants[d.participant])
      BY <2>1, <3>1, <3>2, <3>3, <3>4, DispatchSlot DEF g
    <3> QED
      BY <3>5, <3>6 DEF send, doom, d, c
  <2> QED
    BY <2>2, <2>3
<1>9. cs \in Seq(CandidateRecord) /\ DOMAIN cs = DOMAIN w.candidates
  <2>1. cs = [i \in DOMAIN w.candidates |-> cs[i]]
    OBVIOUS
  <2> HIDE DEF cs
  <2> QED
    BY <1>1, <1>8, <2>1, MappedSeq
<1> HIDE DEF cs
<1>10. /\ w1 \in WorkRecord /\ w1.candidates = cs /\ w1.stage_index = w.stage_index
       /\ w1.fallback_depth = w.fallback_depth /\ w1.pending = w.pending
       /\ w1.evaluations = w.evaluations
  BY <1>1, <1>9, CandidatesReplaced
<1> HIDE DEF w1
<1>11. /\ v \in WorkRecord /\ v.candidates = cs /\ v.stage_index = w.stage_index
       /\ v.fallback_depth = w.fallback_depth /\ v.pending \subseteq w.pending
       /\ DOMAIN v.evaluations = DOMAIN w.evaluations
       /\ \A n \in DOMAIN w.evaluations :
             /\ SameVote(w.evaluations[n], v.evaluations[n])
             /\ v.evaluations[n].candidate_generation = w.evaluations[n].candidate_generation
  BY <1>10, SupersededType
<1> HIDE DEF v
<1>12. SlotsKept(w, v)
  BY <1>8, <1>9, <1>11 DEF SlotsKept
<1>13. SequenceKept(v)
  <2>1. SequenceKept(w) /\ DOMAIN v.candidates = DOMAIN w.candidates
    BY <1>1, <1>9, <1>11 DEF WorkInv
  <2>2. \A i \in DOMAIN w.candidates :
           /\ SlotKept(w.candidates[i], v.candidates[i])
           /\ i \notin sent \cup doomed => v.candidates[i].state = w.candidates[i].state
           /\ i \in doomed \ sent => ~in_flight(v.candidates[i])
    BY <1>8, <1>11
  <2>3. /\ sent \subseteq InStage(w, k) /\ doomed \subseteq InStage(w, k)
        /\ \A i \in sent \cup doomed : w.candidates[i].state = "declared"
    BY <1>6
  <2> HIDE DEF w, k
  <2> QED
    BY <1>1, <1>7, <2>1, <2>2, <2>3, DispatchInSequence
<1>14. WorkInv(v)
  BY <1>1, <1>11, <1>12, <1>13, StagesMoved, VotesMoved, BudgetMoved DEF WorkInv
<1>15. DispatchesHeld(v, e.participants)
  <2> SUFFICES ASSUME NEW i \in DOMAIN w.candidates, cs[i].state = "dispatched"
               PROVE  HeldBy(cs[i], e.participants[cs[i].participant])
    BY <1>9, <1>11 DEF DispatchesHeld
  <2>1. CASE i \in sent
    BY <1>8, <2>1
  <2>2. CASE i \notin sent
    BY <1>1, <1>8, <2>2 DEF DispatchesHeld
  <2> QED
    BY <2>1, <2>2
<1>16. Planned(w, v)
  BY <1>8, <1>9, <1>11 DEF Planned
<1>17. y \in Planning /\ y.w = v
  BY <1>1, <1>5, <1>11 DEF Planning
<1> HIDE DEF y
<1> QED
  BY <1>11, <1>14, <1>15, <1>16, <1>17 DEF Sound, y

-----------------------------------------------------------------------------
(* The stage loop. *)

\* A slot of well-formed evidence.
LEMMA SlotType ==
    ASSUME NEW w \in WorkRecord, NEW i \in DOMAIN w.candidates
    PROVE  /\ i \in Nat /\ w.candidates[i] \in CandidateRecord
           /\ w.candidates[i].stage \in Nat /\ w.candidates[i].attempts_used \in Nat
           /\ w.candidates[i].generation \in Nat
<1>1. w.candidates \in Seq(CandidateRecord)
  BY DEF WorkRecord
<1>2. i \in Nat /\ w.candidates[i] \in CandidateRecord
  BY <1>1
<1> QED
  BY <1>2 DEF CandidateRecord

\* Every slot of a complete stage has resolved, so the planner may move past it.
LEMMA CompleteStageKeeps ==
    ASSUME NEW x, NEW e, IsEnv(e), Sound(x, e), ~AllStagesDone(x.w)
    PROVE  LET y == CompleteStage(x, x.w.stage_index + 1)
           IN Sound(y, e) /\ Planned(x.w, y.w)
<1> DEFINE w == x.w
           k == w.stage_index + 1
           y == CompleteStage(x, k)
           v == [w EXCEPT !.stage_index = k, !.declared_current_stage = FALSE]
<1>1. /\ x \in Planning /\ w \in WorkRecord /\ WorkInv(w) /\ DispatchesHeld(w, e.participants)
      /\ w.stage_index \in Nat /\ w.fallback_depth \in Nat
  BY DEF Sound, Planning, WorkRecord
<1>2. /\ k \in 1..Len(StagesOf(w)) /\ k \in Nat /\ Len(effective_stages) \in Nat
      /\ Len(StagesOf(w)) = Len(effective_stages) + w.fallback_depth
      /\ StagesOf(w)[k] = StageAt(k)
  BY <1>1, StagesOfStages DEF AllStagesDone
<1>3. CASE stage_complete(w, k)
  <2>1. y = [x EXCEPT !.w = v, !.progress = TRUE]
    BY <1>3 DEF CompleteStage
  <2>2. PICK m \in Nat : m = k
    BY <1>2
  <2>3. v = [w EXCEPT !.stage_index = m, !.declared_current_stage = FALSE]
    BY <2>2
  <2>4. /\ v \in WorkRecord /\ v.candidates = w.candidates /\ v.stage_index = m
        /\ v.fallback_depth = w.fallback_depth /\ v.pending = w.pending
        /\ v.evaluations = w.evaluations
    BY <1>1, <2>3 DEF WorkRecord
  <2> HIDE DEF v
  <2>5. y \in Planning /\ y.w = v
    BY <1>1, <2>1, <2>4 DEF Planning
  <2>6. StagesKept(w)
    BY <1>1 DEF WorkInv
  <2>7. ASSUME NEW i \in DOMAIN w.candidates, w.candidates[i].stage <= k
        PROVE  ~in_flight(w.candidates[i])
    <3> DEFINE c == w.candidates[i]
    <3>1. CASE c.stage <= w.stage_index
      BY <2>6, <3>1 DEF StagesKept
    <3>2. CASE ~(c.stage <= w.stage_index)
      <4>1. c.stage \in Nat
        BY <1>1, SlotType
      <4>2. c.stage = k
        BY <1>1, <2>7, <3>2, <4>1
      <4>3. \E n \in DOMAIN StageAt(k).participants : StageAt(k).participants[n] = c.participant
        BY <2>6, <4>2 DEF StagesKept
      <4>4. i \in InStage(w, k)
        BY <4>2 DEF InStage
      <4> HIDE DEF c, w, k
      <4> QED
        BY <1>2, <1>3, <4>3, <4>4 DEF stage_complete, c
    <3> QED
      BY <3>1, <3>2
  <2>8. StagesKept(v)
    <3>1. \A i \in DOMAIN w.candidates :
             /\ w.candidates[i].stage \in Nat
             /\ w.candidates[i].stage <= w.stage_index + 1
             /\ w.candidates[i].stage <= k + 1
      BY <1>1, <2>6, SlotType DEF StagesKept
    <3>2. k <= Len(effective_stages) + w.fallback_depth
      BY <1>2
    <3> HIDE DEF w, k
    <3> QED
      BY <2>2, <2>4, <2>6, <2>7, <3>1, <3>2 DEF StagesKept
  <2>9. FallbackKept(v)
    BY <1>1, <1>2, <2>2, <2>4 DEF WorkInv, FallbackKept
  <2>10. SequenceKept(v) /\ BudgetKept(v)
    BY <1>1, <2>4 DEF WorkInv, SequenceKept, BudgetKept
  <2>11. VotesKept(v)
    BY <1>1, <2>4 DEF WorkInv, VotesKept, CandidatesIn
  <2>12. DispatchesHeld(v, e.participants)
    BY <1>1, <2>4 DEF DispatchesHeld
  <2>13. Planned(w, v)
    BY <2>4, PlannedSame
  <2> HIDE DEF y
  <2> QED
    BY <2>4, <2>5, <2>8, <2>9, <2>10, <2>11, <2>12, <2>13 DEF Sound, WorkInv, y
<1>4. CASE ~stage_complete(w, k)
  <2>1. y = [x EXCEPT !.halt = TRUE]
    BY <1>4 DEF CompleteStage
  <2>2. y \in Planning /\ y.w = w
    BY <1>1, <2>1 DEF Planning
  <2> HIDE DEF y
  <2> QED
    BY <1>1, <2>2, PlannedReflexive DEF Sound, y
<1> QED
  BY <1>3, <1>4

\* What can be said of the evidence in a state the planner can go on from.
LEMMA SoundWork ==
    ASSUME NEW x, NEW e, Sound(x, e)
    PROVE  /\ x \in Planning /\ x.w \in WorkRecord /\ x.w.fallback_depth \in Nat
           /\ x.w.stage_index \in Nat
BY DEF Sound, Planning, WorkRecord

\* Giving up leaves the evidence as it is.
LEMMA HaltKeeps ==
    ASSUME NEW x, NEW e, Sound(x, e)
    PROVE  Sound([x EXCEPT !.halt = TRUE], e) /\ Planned(x.w, [x EXCEPT !.halt = TRUE].w)
<1> DEFINE y == [x EXCEPT !.halt = TRUE]
<1>1. y \in Planning /\ y.w = x.w
  BY DEF Sound, Planning
<1> HIDE DEF y
<1>2. Sound(y, e) /\ Planned(x.w, y.w)
  BY <1>1, PlannedReflexive DEF Sound
<1> QED
  BY <1>2 DEF y

\* One iteration of the stage loop.
LEMMA StageStepKeeps ==
    ASSUME NEW x, NEW e, IsEnv(e), Sound(x, e)
    PROVE  Sound(StageStep(x, e), e) /\ Planned(x.w, StageStep(x, e).w)
<1> DEFINE k == x.w.stage_index + 1
           y == DeclareStage(x, k, e)
           z == DispatchStage(y, k, e)
           u == CompleteStage(z, k)
<1>1. CASE x.halt \/ AllStagesDone(x.w)
  BY <1>1, PlannedReflexive DEF StageStep
<1>2. CASE ~(x.halt \/ AllStagesDone(x.w))
  <2>1. StageStep(x, e) = IF y.error THEN [y EXCEPT !.halt = TRUE] ELSE u
    BY <1>2 DEF StageStep, ServeStage
  <2>2. /\ Sound(y, e) /\ Planned(x.w, y.w)
        /\ y.w.stage_index = x.w.stage_index /\ y.w.fallback_depth = x.w.fallback_depth
    BY <1>2, DeclareStageKeeps
  <2> HIDE DEF y
  <2>3. ~AllStagesDone(y.w)
    BY <1>2, <2>2 DEF AllStagesDone, StagesOf
  <2>4. k = y.w.stage_index + 1
    BY <2>2
  <2>5. CASE y.error
    <3>1. Sound([y EXCEPT !.halt = TRUE], e) /\ Planned(y.w, [y EXCEPT !.halt = TRUE].w)
      BY <2>2, HaltKeeps
    <3>2. [y EXCEPT !.halt = TRUE].w = y.w
      BY <2>2, SoundWork DEF Planning
    <3> QED
      BY <2>1, <2>2, <2>5, <3>1, <3>2
  <2>6. CASE ~y.error
    <3>1. /\ Sound(z, e) /\ Planned(y.w, z.w)
          /\ z.w.stage_index = y.w.stage_index /\ z.w.fallback_depth = y.w.fallback_depth
      BY <2>2, <2>3, <2>4, DispatchStageKeeps
    <3> HIDE DEF z
    <3>2. ~AllStagesDone(z.w) /\ k = z.w.stage_index + 1
      BY <2>3, <2>4, <3>1 DEF AllStagesDone, StagesOf
    <3>3. Sound(u, e) /\ Planned(z.w, u.w)
      BY <3>1, <3>2, CompleteStageKeeps
    <3> HIDE DEF u
    <3>4. Planned(x.w, u.w)
      <4>1. x.w \in WorkRecord /\ y.w \in WorkRecord /\ z.w \in WorkRecord
        BY <2>2, <3>1, SoundWork
      <4>2. Planned(x.w, z.w)
        BY <2>2, <3>1, <4>1, PlannedTransitive
      <4> QED
        BY <3>3, <4>1, <4>2, PlannedTransitive
    <3> QED
      BY <2>1, <2>6, <3>3, <3>4
  <2> QED
    BY <2>5, <2>6
<1> QED
  BY <1>1, <1>2

\* f is what the stage loop has made of x after each of b iterations.
StageRuns(f, b, x, e) == f = [n \in 0..b |-> IF n = 0 THEN x ELSE StageStep(f[n - 1], e)]

\* The stage loop is well defined.
LEMMA StageRunsExist ==
    ASSUME NEW x, NEW e, NEW b \in Nat
    PROVE  \E f : StageRuns(f, b, x, e)
<1> DEFINE Rule(m, f) == f = [n \in 0..m |-> IF n = 0 THEN x ELSE StageStep(f[n - 1], e)]
           D == {m \in Nat : \E f : Rule(m, f)}
<1>1. 0 \in D
  <2>1. Rule(0, [n \in 0..0 |-> x])
    OBVIOUS
  <2> QED
    BY <2>1
<1>2. ASSUME NEW m \in Nat, m \in D PROVE m + 1 \in D
  <2>1. PICK f : Rule(m, f)
    BY <1>2
  <2> DEFINE g == [n \in 0..(m + 1) |-> IF n = 0 THEN x ELSE StageStep(f[n - 1], e)]
  <2>2. \A n \in 0..m : g[n] = f[n]
    BY <2>1
  <2>3. \A n \in 0..(m + 1) : n # 0 => n - 1 \in 0..m
    OBVIOUS
  <2>4. Rule(m + 1, g)
    BY <2>2, <2>3
  <2> HIDE DEF g, Rule
  <2> QED
    BY <2>4
<1> HIDE DEF D
<1>3. b \in D
  BY <1>1, <1>2, SetInduction
<1> QED
  BY <1>3 DEF D, StageRuns

\* The stage loop, by induction over its iterations.
LEMMA StageLoopKeeps ==
    ASSUME NEW x, NEW e, IsEnv(e), Sound(x, e)
    PROVE  Sound(StageLoop(x, e), e) /\ Planned(x.w, StageLoop(x, e).w)
<1> DEFINE bound == Len(StagesOf(x.w))
           iterate[n \in 0..bound] == IF n = 0 THEN x ELSE StageStep(iterate[n - 1], e)
<1>1. PICK top \in Nat : top = bound
  BY SoundWork, StagesOfStages
<1>2. iterate = [n \in 0..top |-> IF n = 0 THEN x ELSE StageStep(iterate[n - 1], e)]
  <2>1. \E f : StageRuns(f, top, x, e)
    BY StageRunsExist
  <2> QED
    BY <1>1, <2>1 DEF StageRuns
<1>3. StageLoop(x, e) = iterate[top]
  BY <1>1 DEF StageLoop
<1> HIDE DEF iterate
<1> DEFINE Kept(y) == Sound(y, e) /\ Planned(x.w, y.w)
           S == {n \in Nat : n \in 0..top => Kept(iterate[n])}
<1>4. 0 \in S
  BY <1>2, PlannedReflexive
<1>5. ASSUME NEW n \in Nat, n \in S PROVE n + 1 \in S
  <2> SUFFICES ASSUME n + 1 \in 0..top PROVE Kept(iterate[n + 1])
    OBVIOUS
  <2>1. n \in 0..top /\ (n + 1) - 1 = n /\ n + 1 # 0
    OBVIOUS
  <2>2. Sound(iterate[n], e) /\ Planned(x.w, iterate[n].w)
    BY <1>5, <2>1
  <2>3. iterate[n + 1] = StageStep(iterate[n], e)
    BY <1>2, <2>1
  <2>4. Sound(iterate[n + 1], e) /\ Planned(iterate[n].w, iterate[n + 1].w)
    BY <2>2, <2>3, StageStepKeeps
  <2>5. x.w \in WorkRecord /\ iterate[n].w \in WorkRecord
    BY <2>2, SoundWork
  <2> QED
    BY <2>2, <2>4, <2>5, PlannedTransitive
<1>6. top \in S
  <2> HIDE DEF S
  <2> QED
    BY <1>4, <1>5, SetInduction
<1> QED
  BY <1>3, <1>6

-----------------------------------------------------------------------------
(* Evaluation and fallback. *)

\* A planning round plans evaluations of candidates with content, by declared participants.
LEMMA PlannedType ==
    ASSUME NEW w \in WorkRecord, NEW e, IsEnv(e), NEW q \in PlannedEvaluations(w, e)
    PROVE  q \in PlannedRecord /\ q.candidate \in CandidatesIn(w, ContentStates)
<1>1. ASSUME NEW i \in CandidatesIn(w, ContentStates), NEW p \in Participants,
             NEW criterion \in Criteria, NEW kind \in Kinds
      PROVE  LET plan == [round |-> w.plans + 1, evaluator |-> p,
                          evaluator_generation |-> e.participants[p].generation,
                          candidate |-> i, candidate_generation |-> w.candidates[i].generation,
                          criterion |-> criterion, kind |-> kind,
                          emitted |-> FALSE, answered |-> FALSE, abandoned |-> FALSE]
             IN plan \in PlannedRecord /\ plan.candidate = i
  <2>1. w.plans + 1 \in Nat
    BY DEF WorkRecord
  <2>2. e.participants[p].generation \in Nat
    BY DEF IsEnv, ParticipantRecord
  <2>3. i \in Nat /\ w.candidates[i].generation \in Nat
    BY SlotType DEF CandidatesIn
  <2> QED
    BY <2>1, <2>2, <2>3 DEF PlannedRecord
<1>2. /\ judging_criteria \subseteq Criteria /\ spec.evidence.mandatory_criteria \subseteq Criteria
      /\ "hard_predicate" \in Kinds /\ "ranking_signal" \in Kinds
  BY DEF Criteria, Kinds
<1>3. PICK i \in CandidatesIn(w, ContentStates), p \in Participants, criterion \in Criteria,
           kind \in Kinds :
         q = [round |-> w.plans + 1, evaluator |-> p,
              evaluator_generation |-> e.participants[p].generation,
              candidate |-> i, candidate_generation |-> w.candidates[i].generation,
              criterion |-> criterion, kind |-> kind,
              emitted |-> FALSE, answered |-> FALSE, abandoned |-> FALSE]
  BY <1>2 DEF PlannedEvaluations
<1> QED
  BY <1>1, <1>3

\* Candidates with content are not in flight.
LEMMA ContentResolved ==
    ASSUME NEW w, NEW i \in CandidatesIn(w, ContentStates)
    PROVE  i \in DOMAIN w.candidates /\ ~in_flight(w.candidates[i])
BY DEF CandidatesIn, ContentStates, in_flight

\* Evaluations that are planned or emitted are about the candidates they were about.
LEMMA PendingReplaced ==
    ASSUME NEW w, WorkInv(w), NEW v \in WorkRecord, v.candidates = w.candidates,
           v.stage_index = w.stage_index, v.fallback_depth = w.fallback_depth,
           v.evaluations = w.evaluations, NEW records,
           \A q \in v.pending : \/ q.candidate \in CandidatesIn(w, ContentStates)
                                \/ \E p \in w.pending : p.candidate = q.candidate
    PROVE  /\ WorkInv(v) /\ Planned(w, v)
           /\ DispatchesHeld(w, records) => DispatchesHeld(v, records)
<1>1. StagesKept(v) /\ FallbackKept(v)
  BY DEF WorkInv, StagesKept, FallbackKept
<1>2. SequenceKept(v) /\ BudgetKept(v)
  BY DEF WorkInv, SequenceKept, BudgetKept
<1>3. VotesKept(v)
  <2>1. \A q \in v.pending :
           q.candidate \in DOMAIN v.candidates /\ ~in_flight(v.candidates[q.candidate])
    BY ContentResolved DEF WorkInv, VotesKept
  <2> QED
    BY <2>1 DEF WorkInv, VotesKept, CandidatesIn
<1>4. DispatchesHeld(w, records) => DispatchesHeld(v, records)
  BY DEF DispatchesHeld
<1> QED
  BY <1>1, <1>2, <1>3, <1>4, PlannedSame DEF WorkInv

\* PlanEvaluations adds plans for what has content.
LEMMA PlanEvaluationsKeeps ==
    ASSUME NEW x, NEW e, IsEnv(e), Sound(x, e)
    PROVE  LET y == PlanEvaluations(x, e)
           IN /\ Sound(y, e) /\ Planned(x.w, y.w)
              /\ y.w.stage_index = x.w.stage_index /\ y.w.fallback_depth = x.w.fallback_depth
<1> DEFINE w == x.w
           y == PlanEvaluations(x, e)
           pending == w.pending \cup PlannedEvaluations(w, e)
<1>1. /\ x \in Planning /\ w \in WorkRecord /\ WorkInv(w) /\ DispatchesHeld(w, e.participants)
      /\ w.pending \in SUBSET PlannedRecord
  BY DEF Sound, Planning, WorkRecord
<1>2. PICK n \in Nat : n = w.plans + 1
  BY <1>1 DEF WorkRecord
<1> DEFINE v == [w EXCEPT !.planning_complete = TRUE, !.pending = pending, !.plans = n]
<1>3. y = x \/ y = [x EXCEPT !.w = v, !.progress = TRUE]
  BY <1>2 DEF PlanEvaluations
<1>4. CASE y = x
  BY <1>4, PlannedReflexive
<1>5. CASE y = [x EXCEPT !.w = v, !.progress = TRUE]
  <2>1. pending \in SUBSET PlannedRecord
    BY <1>1, PlannedType
  <2>2. \A q \in pending : \/ q.candidate \in CandidatesIn(w, ContentStates)
                           \/ \E p \in w.pending : p.candidate = q.candidate
    BY <1>1, PlannedType
  <2> HIDE DEF pending
  <2>3. /\ v \in WorkRecord /\ v.candidates = w.candidates /\ v.stage_index = w.stage_index
        /\ v.fallback_depth = w.fallback_depth /\ v.pending = pending
        /\ v.evaluations = w.evaluations
    BY <1>1, <2>1 DEF WorkRecord
  <2> HIDE DEF v
  <2>4. WorkInv(v) /\ Planned(w, v) /\ DispatchesHeld(v, e.participants)
    BY <1>1, <2>2, <2>3, PendingReplaced
  <2>5. y \in Planning /\ y.w = v
    BY <1>1, <1>5, <2>3 DEF Planning
  <2> HIDE DEF y
  <2> QED
    BY <2>3, <2>4, <2>5 DEF Sound, y
<1> QED
  BY <1>3, <1>4, <1>5

\* Emission only changes what has become of a planned evaluation.
LEMMA EmissionType ==
    ASSUME NEW q \in PlannedRecord, NEW w, NEW e
    PROVE  Emission(q, w, e) \in PlannedRecord /\ Emission(q, w, e).candidate = q.candidate
<1>1. ASSUME NEW b \in BOOLEAN
      PROVE  /\ [q EXCEPT !.abandoned = b] \in PlannedRecord
             /\ [q EXCEPT !.emitted = b] \in PlannedRecord
             /\ [q EXCEPT !.abandoned = b].candidate = q.candidate
             /\ [q EXCEPT !.emitted = b].candidate = q.candidate
  BY DEF PlannedRecord
<1>2. PICK b \in BOOLEAN : b = ~capable(e.participants[q.evaluator])
  OBVIOUS
<1>3. \/ Emission(q, w, e) = q
      \/ Emission(q, w, e) = [q EXCEPT !.abandoned = TRUE]
      \/ Emission(q, w, e) = [q EXCEPT !.abandoned = b]
      \/ Emission(q, w, e) = [q EXCEPT !.emitted = TRUE]
  BY <1>2 DEF Emission
<1> QED
  BY <1>1, <1>3

\* EmitEvaluations maps every plan to what becomes of it.
LEMMA EmitEvaluationsKeeps ==
    ASSUME NEW x, NEW e, IsEnv(e), Sound(x, e)
    PROVE  LET y == EmitEvaluations(x, e)
           IN /\ Sound(y, e) /\ Planned(x.w, y.w)
              /\ y.w.stage_index = x.w.stage_index /\ y.w.fallback_depth = x.w.fallback_depth
<1> DEFINE w == x.w
           y == EmitEvaluations(x, e)
           pending == {Emission(q, w, e) : q \in w.pending}
           v == [w EXCEPT !.pending = pending]
<1>1. /\ x \in Planning /\ w \in WorkRecord /\ WorkInv(w) /\ DispatchesHeld(w, e.participants)
      /\ w.pending \in SUBSET PlannedRecord
  BY DEF Sound, Planning, WorkRecord
<1>2. PICK a \in BOOLEAN : a = (x.progress \/ EmissionProgress(w, e))
  OBVIOUS
<1>3. y = [x EXCEPT !.w = v, !.progress = a]
  BY <1>2 DEF EmitEvaluations
<1>4. pending \in SUBSET PlannedRecord
  BY <1>1, EmissionType
<1>5. \A q \in pending : \E p \in w.pending : p.candidate = q.candidate
  BY <1>1, EmissionType
<1> HIDE DEF pending
<1>6. /\ v \in WorkRecord /\ v.candidates = w.candidates /\ v.stage_index = w.stage_index
      /\ v.fallback_depth = w.fallback_depth /\ v.pending = pending
      /\ v.evaluations = w.evaluations
  BY <1>1, <1>4 DEF WorkRecord
<1> HIDE DEF v
<1>7. WorkInv(v) /\ Planned(w, v) /\ DispatchesHeld(v, e.participants)
  BY <1>1, <1>5, <1>6, PendingReplaced
<1>8. y \in Planning /\ y.w = v
  BY <1>1, <1>3, <1>6 DEF Planning
<1> HIDE DEF y
<1> QED
  BY <1>6, <1>7, <1>8 DEF Sound, y

\* The reports have a state of the quorum and one of the consensus.
LEMMA ReportStates ==
    ASSUME NEW w, NEW e
    PROVE  QuorumReport(w, e).state \in QuorumStates /\ ConsensusState(w, e) \in ConsensusStates
<1>1. QuorumReport(w, e).state \in QuorumStates
  BY DEF QuorumReport, compute_quorum, QuorumStates
<1>2. ASSUME NEW inputs PROVE VoteState(inputs) \in ConsensusStates
  BY DEF VoteState, ConsensusStates
<1>3. ASSUME NEW inputs PROVE compute_consensus(inputs) \in ConsensusStates
  BY <1>2 DEF compute_consensus, ConsensusStates
<1> QED
  BY <1>1, <1>3 DEF ConsensusState

\* compute_reports stores two report states and changes nothing else.
LEMMA ReportsKeep ==
    ASSUME NEW w, WorkInv(w), NEW e, NEW records
    PROVE  LET v == compute_reports(w, e)
           IN /\ WorkInv(v) /\ Planned(w, v)
              /\ DispatchesHeld(w, records) => DispatchesHeld(v, records)
              /\ v.stage_index = w.stage_index /\ v.fallback_depth = w.fallback_depth
              /\ v.candidates = w.candidates
<1> DEFINE v == compute_reports(w, e)
<1>1. PICK q \in QuorumStates, c \in ConsensusStates :
         q = QuorumReport(w, e).state /\ c = ConsensusState(w, e)
  BY ReportStates
<1>2. v = [w EXCEPT !.quorum = q, !.consensus = c]
  BY <1>1 DEF compute_reports
<1>3. /\ v \in WorkRecord /\ v.candidates = w.candidates /\ v.stage_index = w.stage_index
      /\ v.fallback_depth = w.fallback_depth /\ v.pending = w.pending
      /\ v.evaluations = w.evaluations
  BY <1>2 DEF WorkInv, WorkRecord
<1> HIDE DEF v
<1>4. WorkInv(v) /\ Planned(w, v) /\ (DispatchesHeld(w, records) => DispatchesHeld(v, records))
  BY <1>3, WorkSame
<1> QED
  BY <1>3, <1>4 DEF v

\* Report, as a part of a pass.
LEMMA ReportKeeps ==
    ASSUME NEW x, NEW e, Sound(x, e)
    PROVE  LET y == Report(x, e)
           IN /\ Sound(y, e) /\ Planned(x.w, y.w)
              /\ y.w.stage_index = x.w.stage_index /\ y.w.fallback_depth = x.w.fallback_depth
<1> DEFINE v == compute_reports(x.w, e)
           y == Report(x, e)
<1>1. x \in Planning /\ WorkInv(x.w) /\ DispatchesHeld(x.w, e.participants)
  BY DEF Sound
<1>2. /\ WorkInv(v) /\ Planned(x.w, v) /\ DispatchesHeld(v, e.participants)
      /\ v.stage_index = x.w.stage_index /\ v.fallback_depth = x.w.fallback_depth
  BY <1>1, ReportsKeep
<1>3. y = [x EXCEPT !.w = v] /\ v \in WorkRecord
  BY <1>2 DEF Report, WorkInv
<1> HIDE DEF v, y
<1>4. y \in Planning /\ y.w = v
  BY <1>1, <1>3 DEF Planning
<1> QED
  BY <1>2, <1>4 DEF Sound, y

\* A fallback is activated once every stage is done and nobody is in flight; when the only
\* trigger is that no primary is valid, none is.
LEMMA ActivateFallbackKeeps ==
    ASSUME NEW x, NEW e, Sound(x, e), AllStagesDone(x.w)
    PROVE  Sound(ActivateFallback(x, e), e) /\ Planned(x.w, ActivateFallback(x, e).w)
<1> DEFINE w == x.w
           y == ActivateFallback(x, e)
           activate == /\ ~\E i \in DOMAIN w.candidates : in_flight(w.candidates[i])
                       /\ \E trigger \in spec.fallback.triggers :
                             fallback_trigger_fires(trigger, w, e)
<1>1. /\ x \in Planning /\ w \in WorkRecord /\ WorkInv(w) /\ DispatchesHeld(w, e.participants)
      /\ w.fallback_depth \in Nat /\ w.stage_index \in Nat
  BY DEF Sound, Planning, WorkRecord
<1>2. PICK n \in Nat : n = w.fallback_depth + 1
  BY <1>1
<1> DEFINE v == [w EXCEPT !.fallback_activated = TRUE, !.fallback_depth = n,
                          !.planning_complete = FALSE]
<1>3. y = x \/ (activate /\ y = [x EXCEPT !.w = v, !.progress = TRUE])
  BY <1>2 DEF ActivateFallback
<1>4. CASE y = x
  BY <1>4, PlannedReflexive
<1>5. CASE activate /\ y = [x EXCEPT !.w = v, !.progress = TRUE]
  <2>1. /\ v \in WorkRecord /\ v.candidates = w.candidates /\ v.stage_index = w.stage_index
        /\ v.fallback_depth = n /\ v.pending = w.pending /\ v.evaluations = w.evaluations
    BY <1>1 DEF WorkRecord
  <2> HIDE DEF v
  <2>2. y \in Planning /\ y.w = v
    BY <1>1, <1>5, <2>1 DEF Planning
  <2>3. /\ Len(effective_stages) \in Nat
        /\ w.stage_index >= Len(effective_stages) + w.fallback_depth
    BY <1>1, StagesOfStages DEF AllStagesDone
  <2>4. StagesKept(v)
    <3>1. StagesKept(w)
      BY <1>1 DEF WorkInv
    <3>2. \A i \in DOMAIN w.candidates : w.candidates[i].stage \in Nat
      BY <1>1, SlotType
    <3> HIDE DEF w
    <3> QED
      BY <1>1, <1>2, <2>1, <2>3, <3>1, <3>2 DEF StagesKept
  <2>5. FallbackKept(v)
    <3>1. ASSUME spec.fallback.triggers = {"all_primary_invalid"},
                 NEW i \in DOMAIN w.candidates, ~w.candidates[i].fallback
          PROVE  ~in_flight(w.candidates[i]) /\ ~is_content_state(w.candidates[i].state)
      <4>1. fallback_trigger_fires("all_primary_invalid", w, e)
        BY <1>5, <3>1
      <4>2. {j \in DOMAIN w.candidates : ~w.candidates[j].fallback}
              \cap CandidatesIn(w, ContentStates) = {}
        BY <4>1 DEF fallback_trigger_fires
      <4> QED
        BY <1>5, <3>1, <4>2 DEF CandidatesIn, is_content_state
    <3>2. w.stage_index >= Len(effective_stages)
      BY <1>1, <2>3
    <3> QED
      BY <2>1, <3>1, <3>2 DEF FallbackKept
  <2>6. SequenceKept(v) /\ BudgetKept(v)
    BY <1>1, <2>1 DEF WorkInv, SequenceKept, BudgetKept
  <2>7. VotesKept(v)
    BY <1>1, <2>1 DEF WorkInv, VotesKept, CandidatesIn
  <2>8. DispatchesHeld(v, e.participants)
    BY <1>1, <2>1 DEF DispatchesHeld
  <2>9. Planned(w, v)
    BY <2>1, PlannedSame
  <2> HIDE DEF y
  <2> QED
    BY <2>1, <2>2, <2>4, <2>5, <2>6, <2>7, <2>8, <2>9 DEF Sound, WorkInv, y
<1> QED
  BY <1>3, <1>4, <1>5

\* What follows the stage loop.
LEMMA EvaluateAndFallBackKeeps ==
    ASSUME NEW x, NEW e, IsEnv(e), Sound(x, e)
    PROVE  Sound(EvaluateAndFallBack(x, e), e) /\ Planned(x.w, EvaluateAndFallBack(x, e).w)
<1> DEFINE y == PlanEvaluations(x, e)
           z == EmitEvaluations(y, e)
           u == Report(z, e)
           v == ActivateFallback(u, e)
<1>1. CASE x.error \/ ~AllStagesDone(x.w)
  BY <1>1, PlannedReflexive DEF EvaluateAndFallBack
<1>2. CASE ~(x.error \/ ~AllStagesDone(x.w))
  <2>1. EvaluateAndFallBack(x, e) = v
    BY <1>2 DEF EvaluateAndFallBack
  <2>2. /\ Sound(y, e) /\ Planned(x.w, y.w)
        /\ y.w.stage_index = x.w.stage_index /\ y.w.fallback_depth = x.w.fallback_depth
    BY PlanEvaluationsKeeps
  <2> HIDE DEF y
  <2>3. /\ Sound(z, e) /\ Planned(y.w, z.w)
        /\ z.w.stage_index = y.w.stage_index /\ z.w.fallback_depth = y.w.fallback_depth
    BY <2>2, EmitEvaluationsKeeps
  <2> HIDE DEF z
  <2>4. /\ Sound(u, e) /\ Planned(z.w, u.w)
        /\ u.w.stage_index = z.w.stage_index /\ u.w.fallback_depth = z.w.fallback_depth
    BY <2>3, ReportKeeps
  <2> HIDE DEF u
  <2>5. AllStagesDone(u.w)
    BY <1>2, <2>2, <2>3, <2>4 DEF AllStagesDone, StagesOf
  <2>6. Sound(v, e) /\ Planned(u.w, v.w)
    BY <2>4, <2>5, ActivateFallbackKeeps
  <2> HIDE DEF v
  <2>7. x.w \in WorkRecord /\ y.w \in WorkRecord /\ z.w \in WorkRecord /\ u.w \in WorkRecord
    BY <2>2, <2>3, <2>4, SoundWork
  <2>8. Planned(x.w, z.w)
    BY <2>2, <2>3, <2>7, PlannedTransitive
  <2>9. Planned(x.w, u.w)
    BY <2>4, <2>7, <2>8, PlannedTransitive
  <2>10. Planned(x.w, v.w)
    BY <2>6, <2>7, <2>9, PlannedTransitive
  <2> QED
    BY <2>1, <2>6, <2>10
<1> QED
  BY <1>1, <1>2

-----------------------------------------------------------------------------
(* The call. *)

\* One pass of the outer loop.
LEMMA PassKeeps ==
    ASSUME NEW x, NEW e, IsEnv(e), Sound(x, e)
    PROVE  Sound(PassAgain(x, e), e) /\ Planned(x.w, PassAgain(x, e).w)
<1> DEFINE y == [x EXCEPT !.progress = FALSE, !.halt = FALSE]
           z == StageLoop(y, e)
           u == EvaluateAndFallBack(z, e)
<1>1. CASE ~(x.progress /\ ~x.error)
  BY <1>1, PlannedReflexive DEF PassAgain
<1>2. CASE x.progress /\ ~x.error
  <2>1. PassAgain(x, e) = u
    BY <1>2 DEF PassAgain, Pass
  <2>2. y \in Planning /\ y.w = x.w
    BY DEF Sound, Planning
  <2> HIDE DEF y
  <2>3. Sound(y, e)
    BY <2>2 DEF Sound
  <2>4. Sound(z, e) /\ Planned(x.w, z.w)
    BY <2>2, <2>3, StageLoopKeeps
  <2> HIDE DEF z
  <2>5. Sound(u, e) /\ Planned(z.w, u.w)
    BY <2>4, EvaluateAndFallBackKeeps
  <2> HIDE DEF u
  <2>6. x.w \in WorkRecord /\ z.w \in WorkRecord
    BY <2>4, SoundWork
  <2> QED
    BY <2>1, <2>4, <2>5, <2>6, PlannedTransitive
<1> QED
  BY <1>1, <1>2

\* f is what the outer loop has made of x after each of b passes.
PassRuns(f, b, x, e) == f = [n \in 0..b |-> IF n = 0 THEN x ELSE PassAgain(f[n - 1], e)]

\* The outer loop is well defined.
LEMMA PassRunsExist ==
    ASSUME NEW x, NEW e, NEW b \in Nat
    PROVE  \E f : PassRuns(f, b, x, e)
<1> DEFINE Rule(m, f) == f = [n \in 0..m |-> IF n = 0 THEN x ELSE PassAgain(f[n - 1], e)]
           D == {m \in Nat : \E f : Rule(m, f)}
<1>1. 0 \in D
  <2>1. Rule(0, [n \in 0..0 |-> x])
    OBVIOUS
  <2> QED
    BY <2>1
<1>2. ASSUME NEW m \in Nat, m \in D PROVE m + 1 \in D
  <2>1. PICK f : Rule(m, f)
    BY <1>2
  <2> DEFINE g == [n \in 0..(m + 1) |-> IF n = 0 THEN x ELSE PassAgain(f[n - 1], e)]
  <2>2. \A n \in 0..m : g[n] = f[n]
    BY <2>1
  <2>3. \A n \in 0..(m + 1) : n # 0 => n - 1 \in 0..m
    OBVIOUS
  <2>4. Rule(m + 1, g)
    BY <2>2, <2>3
  <2> HIDE DEF g, Rule
  <2> QED
    BY <2>4
<1> HIDE DEF D
<1>3. b \in D
  BY <1>1, <1>2, SetInduction
<1> QED
  BY <1>3 DEF D, PassRuns

\* The outer loop, by induction over its passes.
LEMMA PassesKeep ==
    ASSUME NEW x, NEW e, IsEnv(e), Sound(x, e)
    PROVE  Sound(Passes64(x, e), e) /\ Planned(x.w, Passes64(x, e).w)
<1> DEFINE after[n \in 0..64] == IF n = 0 THEN x ELSE PassAgain(after[n - 1], e)
<1>1. PICK top \in Nat : top = 64
  OBVIOUS
<1>2. after = [n \in 0..top |-> IF n = 0 THEN x ELSE PassAgain(after[n - 1], e)]
  <2>1. \E f : PassRuns(f, top, x, e)
    BY PassRunsExist
  <2> QED
    BY <1>1, <2>1 DEF PassRuns
<1>3. Passes64(x, e) = after[top]
  BY <1>1 DEF Passes64
<1> HIDE DEF after
<1> DEFINE Kept(y) == Sound(y, e) /\ Planned(x.w, y.w)
           S == {n \in Nat : n \in 0..top => Kept(after[n])}
<1>4. 0 \in S
  BY <1>2, PlannedReflexive
<1>5. ASSUME NEW n \in Nat, n \in S PROVE n + 1 \in S
  <2> SUFFICES ASSUME n + 1 \in 0..top PROVE Kept(after[n + 1])
    OBVIOUS
  <2>1. n \in 0..top /\ (n + 1) - 1 = n /\ n + 1 # 0
    OBVIOUS
  <2>2. Sound(after[n], e) /\ Planned(x.w, after[n].w)
    BY <1>5, <2>1
  <2>3. after[n + 1] = PassAgain(after[n], e)
    BY <1>2, <2>1
  <2>4. Sound(after[n + 1], e) /\ Planned(after[n].w, after[n + 1].w)
    BY <2>2, <2>3, PassKeeps
  <2>5. x.w \in WorkRecord /\ after[n].w \in WorkRecord
    BY <2>2, SoundWork
  <2> QED
    BY <2>2, <2>4, <2>5, PlannedTransitive
<1>6. top \in S
  <2> HIDE DEF S
  <2> QED
    BY <1>4, <1>5, SetInduction
<1> QED
  BY <1>3, <1>6

\* A call of advance keeps every invariant of the evidence and every dispatch held, and only
\* declares slots, sends or fails waiting ones; whatever was not waiting it leaves alone.
THEOREM AdvanceKeeps ==
    ASSUME NEW w, NEW e, IsEnv(e), WorkInv(w), DispatchesHeld(w, e.participants)
    PROVE  /\ WorkInv(advance(w, e)) /\ DispatchesHeld(advance(w, e), e.participants)
           /\ Planned(w, advance(w, e))
<1> DEFINE x == [w |-> w, progress |-> TRUE, halt |-> FALSE, error |-> FALSE]
           y == Passes64(x, e)
<1>1. x \in Planning /\ x.w = w
  BY DEF WorkInv, Planning
<1>2. advance(w, e) = IF y.error THEN y.w ELSE compute_reports(y.w, e)
  BY DEF advance, Conclude
<1> HIDE DEF x
<1>3. Sound(x, e)
  BY <1>1 DEF Sound
<1>4. Sound(y, e) /\ Planned(w, y.w)
  BY <1>1, <1>3, PassesKeep
<1> HIDE DEF y
<1>5. WorkInv(y.w) /\ DispatchesHeld(y.w, e.participants)
  BY <1>4 DEF Sound
<1> DEFINE v == compute_reports(y.w, e)
<1>6. WorkInv(v) /\ DispatchesHeld(v, e.participants) /\ Planned(y.w, v)
  BY <1>5, ReportsKeep
<1> HIDE DEF v
<1>7. Planned(w, v)
  BY <1>4, <1>5, <1>6, PlannedTransitive DEF WorkInv
<1> QED
  BY <1>2, <1>4, <1>5, <1>6, <1>7 DEF v

=============================================================================
