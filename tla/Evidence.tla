------------------------------ MODULE Evidence ------------------------------
(***************************************************************************)
(* What the engine keeps true of the evidence of an execution: the types   *)
(* of its records and the inductive invariants behind the properties of    *)
(* Fabric about candidates, evaluations and dispatches.  Every part is a   *)
(* predicate of the evidence w, so that it can be followed through the     *)
(* passes of advance, where w is not yet the state of the execution.       *)
(***************************************************************************)
EXTENDS Fabric

CandidateStates ==
    {"declared", "dispatched", "valid", "invalid", "eligible", "selected", "rejected",
     "abstained", "failed", "superseded", "cancelled"}

CandidateRecord ==
    [participant : Participants, participant_generation : Nat, stage : Nat \ {0},
     fallback : BOOLEAN, state : CandidateStates, generation : Nat \ {0}, attempts_used : Nat,
     worker_boot : Nat, epoch : Nat, payload : Payloads \cup {0}, current : BOOLEAN]

Criteria == judging_criteria \cup spec.evidence.mandatory_criteria
Kinds == {"hard_predicate", "ranking_signal"}

PlannedRecord ==
    [round : Nat, evaluator : Participants, evaluator_generation : Nat, candidate : Nat,
     candidate_generation : Nat, criterion : Criteria, kind : Kinds,
     emitted : BOOLEAN, answered : BOOLEAN, abandoned : BOOLEAN]

EvaluationRecord ==
    [evaluator : Participants, evaluator_generation : Nat, candidate : Nat,
     candidate_generation : Nat, criterion : Criteria, kind : Kinds,
     judgment : {v.judgment : v \in Verdicts}, verification : {v.verification : v \in Verdicts},
     score_defined : {v.score_defined : v \in Verdicts}, score : {v.score : v \in Verdicts},
     weight : {v.weight : v \in Verdicts}, current : BOOLEAN]

QuorumStates == {"not_evaluated", "impossible", "reached", "not_reached"}
ConsensusStates ==
    {"not_evaluated", "superseded", "revalidation_required", "cancelled",
     "required_participant_failed", "quorum_impossible", "all_candidates_invalid",
     "no_eligible_candidate", "fallback_required", "quorum_not_reached", "insufficient_evidence",
     "consensus", "plurality_without_threshold", "tie", "disagreement",
     "consensus_with_abstentions"}

WorkRecord ==
    [candidates : Seq(CandidateRecord), evaluations : Seq(EvaluationRecord),
     pending : SUBSET PlannedRecord, plans : Nat, stage_index : Nat,
     declared_current_stage : BOOLEAN, planning_complete : BOOLEAN,
     fallback_activated : BOOLEAN, fallback_depth : Nat, cancellation_emitted : BOOLEAN,
     quorum : QuorumStates, consensus : ConsensusStates]

-----------------------------------------------------------------------------

\* The stage number k, whether or not the fallback that appends it has been activated.
StageAt(k) == IF IsFallbackStage(k) THEN FallbackStage ELSE effective_stages[k]

\* The planner is past every stage before the current one: a candidate belongs to a member of a
\* stage that has been reached, and those of earlier stages have resolved.
StagesKept(w) ==
    /\ w.stage_index <= Len(effective_stages) + w.fallback_depth
    /\ \A i \in DOMAIN w.candidates :
          LET c == w.candidates[i]
          IN /\ c.stage <= w.stage_index + 1
             /\ c.stage <= Len(effective_stages) + w.fallback_depth
             /\ \E n \in DOMAIN StageAt(c.stage).participants :
                   StageAt(c.stage).participants[n] = c.participant
             /\ c.stage <= w.stage_index => ~in_flight(c)
             /\ c.fallback = IsFallbackStage(c.stage)

\* A fallback activation comes after every primary stage and, when the only trigger is that no
\* primary is valid, leaves no primary that is or may become one.
FallbackKept(w) ==
    w.fallback_depth > 0 =>
        /\ w.stage_index >= Len(effective_stages)
        /\ spec.fallback.triggers = {"all_primary_invalid"} =>
              \A i \in DOMAIN w.candidates :
                  ~w.candidates[i].fallback => /\ ~in_flight(w.candidates[i])
                                               /\ ~is_content_state(w.candidates[i].state)

\* In a sequential stage, whoever is out has only resolved candidates before it and is alone.
SequenceKept(w) ==
    \A i, j \in DOMAIN w.candidates :
        LET c == w.candidates[i]
            d == w.candidates[j]
            together == i # j /\ c.stage = d.stage /\ StageAt(c.stage).mode = "sequential"
        IN c.state = "dispatched" /\ together =>
              d.state # "dispatched" /\ (j < i => ~in_flight(d))

\* Two votes of one evaluator generation on one candidate under one criterion.
SameVote(u, v) ==
    /\ u.evaluator = v.evaluator /\ u.evaluator_generation = v.evaluator_generation
    /\ u.candidate = v.candidate /\ u.criterion = v.criterion

\* Evaluations, planned or given, are about candidates that are not in flight and so keep their
\* generation; no evaluator generation votes twice on a candidate under one criterion.
VotesKept(w) ==
    /\ \A q \in w.pending :
          q.candidate \in DOMAIN w.candidates /\ ~in_flight(w.candidates[q.candidate])
    /\ \A k \in DOMAIN w.evaluations :
          LET v == w.evaluations[k]
          IN /\ v.candidate \in CandidatesIn(w, ContentStates \cup {"rejected"})
             /\ v.candidate_generation = w.candidates[v.candidate].generation
    /\ \A k, l \in DOMAIN w.evaluations :
          SameVote(w.evaluations[k], w.evaluations[l]) => k = l

\* A slot that may still be dispatched has an attempt left.
BudgetKept(w) ==
    \A i \in DOMAIN w.candidates :
        /\ w.candidates[i].attempts_used <= spec.retry.max_attempts
        /\ w.candidates[i].state = "declared" =>
              w.candidates[i].attempts_used < spec.retry.max_attempts

\* Whatever is out is held by the incarnation it was sent to, which is still registered.
HeldBy(c, r) ==
    authoritative(r, c.epoch) /\ c.participant_generation = r.generation
    /\ c.worker_boot = r.worker_boot
DispatchesHeld(w, records) ==
    \A i \in DOMAIN w.candidates :
        w.candidates[i].state = "dispatched" =>
            HeldBy(w.candidates[i], records[w.candidates[i].participant])

\* What every operation that changes the evidence maintains.
WorkInv(w) ==
    /\ w \in WorkRecord
    /\ StagesKept(w) /\ FallbackKept(w) /\ SequenceKept(w) /\ VotesKept(w) /\ BudgetKept(w)

\* The evidence of the current execution is well formed, follows its stages, attributes every
\* vote, and, while the execution is open, every dispatch is held: the inductive invariant
\* behind the properties of Fabric about candidates and evaluations.
EvidenceInv ==
    /\ WorkInv(work)
    /\ status = "open" => has_execution /\ DispatchesHeld(work, participants)

\* S is what was sent for the slot c: one message per attempt, each in a generation of its own
\* that c has reached, and, while c waits, passed.
Sent(S, c) ==
    /\ IsFiniteSet(S) /\ Cardinality(S) = c.attempts_used
    /\ \A m \in S : /\ m.candidate_generation \in Nat /\ m.candidate_generation <= c.generation
                    /\ c.state = "declared" => m.candidate_generation < c.generation
    /\ \A m, n \in S : m.candidate_generation = n.candidate_generation => m = n

\* Every dispatch ever sent belongs to an execution that is over or to a slot of the current
\* one; a slot that is out has been sent, a slot that waits has not been sent yet in its
\* generation, and attempts_used counts what was sent.
DispatchInv ==
    /\ \A m \in dispatches :
          /\ KeyOf(m) \in Nat \X Nat
          /\ \/ Log!Precedes(KeyOf(m), Key)
             \/ KeyOf(m) = Key /\ m.candidate \in DOMAIN work.candidates
    /\ \A i \in DOMAIN work.candidates :
          /\ Sent(Attempts(i), work.candidates[i])
          /\ work.candidates[i].state = "dispatched" =>
                DispatchOf(i, work.candidates[i]) \in dispatches

\* The result r names a candidate as it is in the evidence w.
NamesCandidate(w, r) ==
    /\ r.candidate \in DOMAIN w.candidates
    /\ LET c == w.candidates[r.candidate]
       IN /\ c.generation = r.candidate_generation /\ c.participant = r.participant
          /\ c.payload = r.payload

\* Content, once it is there, stays as it was arbitrated: whatever a caller has prepared for the
\* undecided current execution still names its candidate, which still has its content, and
\* nothing is selected before the commit.
SelectionInv ==
    /\ \A i \in CandidatesIn(work, ContentStates) : work.candidates[i].payload # 0
    /\ ~has_result =>
          /\ CandidatesIn(work, {"selected"}) = {}
          /\ \A c \in Callers :
                LET r == calls[c].result
                IN KeyOf(r) = Key /\ r.decision = "committed" =>
                      NamesCandidate(work, r) /\ r.candidate \in CandidatesIn(work, ContentStates)
    /\ has_result /\ result.decision = "committed" =>
          NamesCandidate(work, result) /\ CandidatesIn(work, {"selected"}) = {result.candidate}
=============================================================================
