--------------------------- MODULE EvidenceProofs ---------------------------
(***************************************************************************)
(* Proofs about the evidence of an execution: EvidenceInv, DispatchInv and *)
(* SelectionInv are inductive, and the properties of Fabric about          *)
(* candidates, dispatches, evaluations and the selection follow, for every *)
(* ensemble and whatever the callers, the workers and restarts do.         *)
(***************************************************************************)
EXTENDS AdvanceProofs, FabricProofs, FiniteSetTheorems

-----------------------------------------------------------------------------
(* What every operation but advance, a commit and a new execution does to  *)
(* the slots: it answers, fails, rewinds or fences what is in flight.      *)

AnsweredSlot(c, d) ==
    /\ SlotKept(c, d)
    /\ d.attempts_used = c.attempts_used
    /\ c.generation <= d.generation
    /\ d.state = "declared" => \/ c.state = "declared" /\ d.generation = c.generation
                               \/ c.generation < d.generation
    /\ d.state = "dispatched" => d = c
    /\ is_content_state(c.state) => d = c
    /\ is_content_state(d.state) => d = c \/ d.payload # 0
    /\ d.state = "selected" => c.state = "selected"

Answered(w, v) ==
    /\ DOMAIN v.candidates = DOMAIN w.candidates
    /\ \A i \in DOMAIN w.candidates : AnsweredSlot(w.candidates[i], v.candidates[i])

\* A slot that is left alone.
LEMMA AnsweredAlone ==
    ASSUME NEW w, WorkInv(w), NEW i \in DOMAIN w.candidates
    PROVE  AnsweredSlot(w.candidates[i], w.candidates[i])
<1> DEFINE c == w.candidates[i]
<1>1. c.generation \in Nat /\ SlotKept(c, c)
  BY SlotType DEF WorkInv, BudgetKept, SlotKept, SameSlot
<1> QED
  BY <1>1 DEF AnsweredSlot

\* A step that leaves the candidates alone.
LEMMA AnsweredSame ==
    ASSUME NEW w, WorkInv(w), NEW v, v.candidates = w.candidates
    PROVE  Answered(w, v)
BY AnsweredAlone DEF Answered

\* The fields an answer leaves alone.
SameVotes(w, v) ==
    /\ DOMAIN v.evaluations = DOMAIN w.evaluations
    /\ \A k \in DOMAIN w.evaluations :
          /\ SameVote(w.evaluations[k], v.evaluations[k])
          /\ v.evaluations[k].candidate_generation = w.evaluations[k].candidate_generation

\* Answers keep the invariant of the evidence and what is still out is held as before.
LEMMA AnsweredKeeps ==
    ASSUME NEW w, WorkInv(w), NEW v \in WorkRecord, Answered(w, v), SameVotes(w, v),
           v.stage_index = w.stage_index, v.fallback_depth = w.fallback_depth,
           \A q \in v.pending : \E p \in w.pending : p.candidate = q.candidate
    PROVE  /\ WorkInv(v)
           /\ \A records : DispatchesHeld(w, records) => DispatchesHeld(v, records)
<1>1. SlotsKept(w, v)
  BY DEF SlotsKept, Answered, AnsweredSlot, SameVotes
<1>2. \A i \in DOMAIN w.candidates :
         v.candidates[i].state = "dispatched" => v.candidates[i] = w.candidates[i]
  BY DEF Answered, AnsweredSlot
<1>3. WorkInv(v)
  BY <1>1, <1>2, WorkMoved
<1>4. \A records : DispatchesHeld(w, records) => DispatchesHeld(v, records)
  BY <1>2 DEF DispatchesHeld, Answered
<1> QED
  BY <1>3, <1>4

-----------------------------------------------------------------------------
(* Fencing. *)

\* Whatever is in flight is fenced.
LEMMA FencedSlots ==
    ASSUME NEW w, WorkInv(w), NEW state \in {"superseded", "cancelled"}, NEW current \in BOOLEAN
    PROVE  LET cs == FenceInFlight(w.candidates, state, current)
           IN /\ cs \in Seq(CandidateRecord) /\ DOMAIN cs = DOMAIN w.candidates
              /\ \A i \in DOMAIN w.candidates :
                    AnsweredSlot(w.candidates[i], cs[i]) /\ ~in_flight(cs[i])
<1> DEFINE cs == FenceInFlight(w.candidates, state, current)
<1>1. w \in WorkRecord /\ w.candidates \in Seq(CandidateRecord)
  BY DEF WorkInv, WorkRecord
<1>2. ASSUME NEW i \in DOMAIN w.candidates
      PROVE  /\ cs[i] \in CandidateRecord /\ AnsweredSlot(w.candidates[i], cs[i])
             /\ ~in_flight(cs[i])
  <2> DEFINE c == w.candidates[i]
             d == [c EXCEPT !.state = state, !.current = current]
  <2>1. c \in CandidateRecord /\ c.generation \in Nat
    BY <1>1, SlotType
  <2>2. CASE ~in_flight(c)
    <3>1. cs[i] = c
      BY <2>2 DEF FenceInFlight
    <3> QED
      BY <2>1, <2>2, <3>1, AnsweredAlone
  <2>3. CASE in_flight(c)
    <3>1. cs[i] = d
      BY <2>3 DEF FenceInFlight
    <3>2. /\ d \in CandidateRecord /\ d.state = state /\ d.generation = c.generation
          /\ d.attempts_used = c.attempts_used /\ SameSlot(c, d)
      BY <2>1 DEF CandidateRecord, CandidateStates, SameSlot
    <3>3. c.attempts_used <= spec.retry.max_attempts
      BY DEF WorkInv, BudgetKept
    <3>4. ~is_content_state(c.state) /\ ~is_content_state(d.state) /\ ~in_flight(d)
      BY <2>3, <3>2 DEF in_flight, is_content_state, ContentStates
    <3> HIDE DEF d, c
    <3>5. SlotKept(c, d)
      BY <2>3, <3>2, <3>3, <3>4 DEF SlotKept
    <3>6. AnsweredSlot(c, d)
      BY <2>1, <3>2, <3>4, <3>5 DEF AnsweredSlot
    <3> QED
      BY <3>1, <3>2, <3>4, <3>6 DEF c
  <2> QED
    BY <2>2, <2>3
<1>3. cs \in Seq(CandidateRecord) /\ DOMAIN cs = DOMAIN w.candidates
  <2>1. cs = [i \in DOMAIN w.candidates |-> cs[i]]
    BY DEF FenceInFlight
  <2> HIDE DEF cs
  <2> QED
    BY <1>1, <1>2, <2>1, MappedSeq
<1> QED
  BY <1>2, <1>3

\* Abandoned plans.
LEMMA AbandonedType ==
    ASSUME NEW P \in SUBSET PlannedRecord
    PROVE  LET A == {[q EXCEPT !.abandoned = TRUE] : q \in P}
           IN /\ A \in SUBSET PlannedRecord
              /\ \A q \in A : \E p \in P : p.candidate = q.candidate
<1>1. ASSUME NEW q \in P
      PROVE  /\ [q EXCEPT !.abandoned = TRUE] \in PlannedRecord
             /\ [q EXCEPT !.abandoned = TRUE].candidate = q.candidate
  BY DEF PlannedRecord
<1> QED
  BY <1>1

\* The fenced evidence of a superseded execution.
LEMMA SupersedeKeeps ==
    ASSUME NEW w, WorkInv(w), NEW v,
           v = [w EXCEPT !.candidates = FenceInFlight(w.candidates, "superseded", TRUE)]
    PROVE  WorkInv(v) /\ Answered(w, v)
<1> DEFINE cs == FenceInFlight(w.candidates, "superseded", TRUE)
<1>1. w \in WorkRecord
  BY DEF WorkInv
<1>2. /\ cs \in Seq(CandidateRecord) /\ DOMAIN cs = DOMAIN w.candidates
      /\ \A i \in DOMAIN w.candidates : AnsweredSlot(w.candidates[i], cs[i])
  BY FencedSlots
<1> HIDE DEF cs
<1>3. /\ v \in WorkRecord /\ v.candidates = cs
      /\ v.stage_index = w.stage_index /\ v.fallback_depth = w.fallback_depth
      /\ v.pending = w.pending /\ v.evaluations = w.evaluations
  BY <1>1, <1>2, CandidatesReplaced DEF cs
<1>4. Answered(w, v)
  BY <1>2, <1>3 DEF Answered
<1>5. SameVotes(w, v) /\ \A q \in v.pending : \E p \in w.pending : p.candidate = q.candidate
  BY <1>3 DEF SameVotes, SameVote
<1> QED
  BY <1>3, <1>4, <1>5, AnsweredKeeps

\* The fenced evidence of a cancelled execution.
LEMMA CancelKeeps ==
    ASSUME NEW w, WorkInv(w), NEW v,
           v = [w EXCEPT !.cancellation_emitted = TRUE,
                         !.candidates = FenceInFlight(w.candidates, "cancelled", FALSE),
                         !.pending = {[q EXCEPT !.abandoned = TRUE] : q \in w.pending}]
    PROVE  WorkInv(v) /\ Answered(w, v)
<1> DEFINE cs == FenceInFlight(w.candidates, "cancelled", FALSE)
           plans == {[q EXCEPT !.abandoned = TRUE] : q \in w.pending}
<1>1. w \in WorkRecord /\ w.pending \in SUBSET PlannedRecord
  BY DEF WorkInv, WorkRecord
<1>2. /\ cs \in Seq(CandidateRecord) /\ DOMAIN cs = DOMAIN w.candidates
      /\ \A i \in DOMAIN w.candidates : AnsweredSlot(w.candidates[i], cs[i])
  BY FencedSlots
<1>3. /\ plans \in SUBSET PlannedRecord
      /\ \A q \in plans : \E p \in w.pending : p.candidate = q.candidate
  BY <1>1, AbandonedType
<1> HIDE DEF cs, plans
<1>4. v = [w EXCEPT !.cancellation_emitted = TRUE, !.candidates = cs, !.pending = plans]
  BY DEF cs, plans
<1>5. /\ v \in WorkRecord /\ v.candidates = cs
      /\ v.stage_index = w.stage_index /\ v.fallback_depth = w.fallback_depth
      /\ v.pending = plans /\ v.evaluations = w.evaluations
  BY <1>1, <1>2, <1>3, <1>4 DEF WorkRecord
<1>6. Answered(w, v)
  BY <1>2, <1>5 DEF Answered
<1>7. SameVotes(w, v)
  BY <1>5 DEF SameVotes, SameVote
<1> QED
  BY <1>3, <1>5, <1>6, <1>7, AnsweredKeeps

\* The evidence after a restart.
LEMMA InvalidatedKeeps ==
    ASSUME NEW w, WorkInv(w)
    PROVE  WorkInv(InvalidatedWork(w)) /\ Answered(w, InvalidatedWork(w))
<1> DEFINE cs == FenceInFlight(w.candidates, "superseded", FALSE)
           votes == [i \in DOMAIN w.evaluations |-> [w.evaluations[i] EXCEPT !.current = FALSE]]
           plans == {[q EXCEPT !.abandoned = TRUE] : q \in w.pending}
           v == InvalidatedWork(w)
<1>1. /\ w \in WorkRecord /\ w.pending \in SUBSET PlannedRecord
      /\ w.evaluations \in Seq(EvaluationRecord)
  BY DEF WorkInv, WorkRecord
<1>2. /\ cs \in Seq(CandidateRecord) /\ DOMAIN cs = DOMAIN w.candidates
      /\ \A i \in DOMAIN w.candidates : AnsweredSlot(w.candidates[i], cs[i])
  BY FencedSlots
<1>3. /\ plans \in SUBSET PlannedRecord
      /\ \A q \in plans : \E p \in w.pending : p.candidate = q.candidate
  BY <1>1, AbandonedType
<1>4. ASSUME NEW k \in DOMAIN w.evaluations
      PROVE  /\ votes[k] \in EvaluationRecord /\ SameVote(w.evaluations[k], votes[k])
             /\ votes[k].candidate_generation = w.evaluations[k].candidate_generation
  <2>1. w.evaluations[k] \in EvaluationRecord
    BY <1>1
  <2> QED
    BY <2>1 DEF EvaluationRecord, SameVote
<1>5. votes \in Seq(EvaluationRecord) /\ DOMAIN votes = DOMAIN w.evaluations
  <2>1. votes = [i \in DOMAIN w.evaluations |-> votes[i]]
    OBVIOUS
  <2> HIDE DEF votes
  <2> QED
    BY <1>1, <1>4, <2>1, MappedSeq
<1>6. v = [w EXCEPT !.candidates = cs, !.evaluations = votes, !.pending = plans]
  BY DEF InvalidatedWork
<1> HIDE DEF cs, votes, plans
<1>7. /\ v \in WorkRecord /\ v.candidates = cs
      /\ v.stage_index = w.stage_index /\ v.fallback_depth = w.fallback_depth
      /\ v.pending = plans /\ v.evaluations = votes
  BY <1>1, <1>2, <1>3, <1>5, <1>6 DEF WorkRecord
<1> HIDE DEF v
<1>8. Answered(w, v)
  BY <1>2, <1>7 DEF Answered
<1>9. SameVotes(w, v)
  BY <1>4, <1>5, <1>7 DEF SameVotes
<1>10. WorkInv(v)
  BY <1>3, <1>7, <1>8, <1>9, AnsweredKeeps
<1> QED
  BY <1>8, <1>10 DEF v

-----------------------------------------------------------------------------
(* Failure and retry. *)

\* A slot in flight that fails is rewound to another attempt, if it has one left, or failed;
\* b is what its worker_boot has been set to.
LEMMA FailedSlot ==
    ASSUME NEW c \in CandidateRecord, in_flight(c), c.attempts_used <= spec.retry.max_attempts,
           NEW b \in CandidateRecord, b.state = c.state, b.generation = c.generation,
           b.attempts_used = c.attempts_used, SameSlot(c, b), NEW failure
    PROVE  LET d == IF retry_authorized(b, failure) THEN rewound_candidate(b)
                                                    ELSE failed_candidate(b)
           IN d \in CandidateRecord /\ AnsweredSlot(c, d) /\ d.state # "dispatched"
<1>1. /\ c.generation \in Nat /\ c.attempts_used \in Nat /\ ~is_content_state(c.state)
      /\ spec.retry.max_attempts \in Nat
  BY RetryAssumption DEF CandidateRecord, in_flight, is_content_state, ContentStates
<1>2. CASE retry_authorized(b, failure)
  <2> DEFINE d == rewound_candidate(b)
  <2>1. /\ d \in CandidateRecord /\ d.state = "declared" /\ d.attempts_used = b.attempts_used
        /\ d.generation = b.generation + 1 /\ SameSlot(b, d)
    BY RewoundType
  <2>2. b.attempts_used < spec.retry.max_attempts
    BY <1>2 DEF retry_authorized
  <2> HIDE DEF d
  <2>3. SlotKept(c, d)
    BY <1>1, <2>1, <2>2 DEF SlotKept, SameSlot, is_content_state, ContentStates
  <2>4. AnsweredSlot(c, d)
    BY <1>1, <2>1, <2>3 DEF AnsweredSlot, is_content_state, ContentStates
  <2> QED
    BY <1>2, <2>1, <2>4 DEF d
<1>3. CASE ~retry_authorized(b, failure)
  <2> DEFINE d == failed_candidate(b)
  <2>1. /\ d \in CandidateRecord /\ d.state = "failed" /\ d.attempts_used = b.attempts_used
        /\ d.generation = b.generation /\ SameSlot(b, d)
    BY FailedType
  <2> HIDE DEF d
  <2>2. SlotKept(c, d)
    BY <1>1, <2>1 DEF SlotKept, SameSlot, is_content_state, ContentStates, in_flight
  <2>3. AnsweredSlot(c, d)
    BY <1>1, <2>1, <2>2 DEF AnsweredSlot, is_content_state, ContentStates
  <2> QED
    BY <1>3, <2>1, <2>3 DEF d
<1> QED
  BY <1>2, <1>3

\* The slots ds and fail_or_retry applied to them, where ds differ from those of w in the
\* worker_boot of slots in flight only.
LEMMA FailOrRetryKeeps ==
    ASSUME NEW w, WorkInv(w), NEW ids, NEW failure, NEW ds \in Seq(CandidateRecord),
           DOMAIN ds = DOMAIN w.candidates,
           \A i \in DOMAIN w.candidates :
              /\ i \in ids => /\ in_flight(w.candidates[i]) /\ ds[i].state = w.candidates[i].state
                              /\ ds[i].generation = w.candidates[i].generation
                              /\ ds[i].attempts_used = w.candidates[i].attempts_used
                              /\ SameSlot(w.candidates[i], ds[i])
              /\ i \notin ids => ds[i] = w.candidates[i]
    PROVE  LET v == fail_or_retry([w EXCEPT !.candidates = ds], ids, failure)
           IN /\ WorkInv(v) /\ Answered(w, v)
              /\ \A i \in DOMAIN w.candidates :
                    i \in ids => v.candidates[i].state # "dispatched"
              /\ \A records : DispatchesHeld(w, records) => DispatchesHeld(v, records)
<1> DEFINE w1 == [w EXCEPT !.candidates = ds]
           cs == [i \in DOMAIN ds |->
                    IF i \notin ids THEN ds[i]
                    ELSE IF retry_authorized(ds[i], failure) THEN rewound_candidate(ds[i])
                                                             ELSE failed_candidate(ds[i])]
           w2 == [w1 EXCEPT !.candidates = cs]
           v == supersede_candidate_evidence(w2, ids)
<1>1. w \in WorkRecord
  BY DEF WorkInv
<1>2. /\ w1 \in WorkRecord /\ w1.candidates = ds
      /\ w1.stage_index = w.stage_index /\ w1.fallback_depth = w.fallback_depth
      /\ w1.pending = w.pending /\ w1.evaluations = w.evaluations
  BY <1>1, CandidatesReplaced
<1> HIDE DEF w1
<1>3. fail_or_retry(w1, ids, failure) = v
  BY <1>2 DEF fail_or_retry
<1>4. ASSUME NEW i \in DOMAIN w.candidates
      PROVE  /\ cs[i] \in CandidateRecord /\ AnsweredSlot(w.candidates[i], cs[i])
             /\ i \in ids => cs[i].state # "dispatched"
  <2>1. /\ w.candidates[i] \in CandidateRecord /\ ds[i] \in CandidateRecord
        /\ w.candidates[i].attempts_used <= spec.retry.max_attempts
    BY <1>1, SlotType DEF WorkInv, BudgetKept
  <2>2. CASE i \notin ids
    <3>1. cs[i] = w.candidates[i]
      BY <2>2
    <3> HIDE DEF cs
    <3> QED
      BY <2>1, <2>2, <3>1, AnsweredAlone
  <2>3. CASE i \in ids
    <3> DEFINE c == w.candidates[i]
               b == ds[i]
    <3>1. cs[i] = IF retry_authorized(b, failure) THEN rewound_candidate(b)
                                                  ELSE failed_candidate(b)
      BY <2>3
    <3>2. /\ in_flight(c) /\ b.state = c.state /\ b.generation = c.generation
          /\ b.attempts_used = c.attempts_used /\ SameSlot(c, b)
      BY <2>3
    <3> HIDE DEF b, c, cs
    <3> QED
      BY <2>1, <3>1, <3>2, FailedSlot DEF b, c
  <2> QED
    BY <2>2, <2>3
<1>5. cs \in Seq(CandidateRecord) /\ DOMAIN cs = DOMAIN w.candidates
  <2>1. cs = [i \in DOMAIN ds |-> cs[i]]
    OBVIOUS
  <2> HIDE DEF cs
  <2> QED
    BY <1>4, <2>1, MappedSeq
<1> HIDE DEF cs
<1>6. /\ w2 \in WorkRecord /\ w2.candidates = cs
      /\ w2.stage_index = w1.stage_index /\ w2.fallback_depth = w1.fallback_depth
      /\ w2.pending = w1.pending /\ w2.evaluations = w1.evaluations
  BY <1>2, <1>5, CandidatesReplaced
<1> HIDE DEF w2
<1>7. /\ v \in WorkRecord /\ v.candidates = cs /\ v.stage_index = w.stage_index
      /\ v.fallback_depth = w.fallback_depth /\ v.pending \subseteq w.pending
      /\ SameVotes(w, v)
  BY <1>2, <1>6, SupersededType DEF SameVotes
<1> HIDE DEF v
<1>8. Answered(w, v)
  BY <1>4, <1>5, <1>7 DEF Answered
<1>9. WorkInv(v) /\ \A records : DispatchesHeld(w, records) => DispatchesHeld(v, records)
  BY <1>7, <1>8, AnsweredKeeps
<1> QED
  BY <1>3, <1>4, <1>7, <1>8, <1>9 DEF w1

\* The failure of participant p reaches everything p has out, as long as it is held by the
\* incarnation r that fails.
LEMMA ParticipantFailureKeeps ==
    ASSUME NEW w, WorkInv(w), NEW p \in Participants, NEW r \in ParticipantRecord, NEW kind
    PROVE  LET v == handle_participant_failure_locked(w, p, r, kind)
           IN /\ WorkInv(v) /\ Answered(w, v)
              /\ \A i \in DOMAIN w.candidates :
                    i \in AffectedCandidates(w, p, r.generation) =>
                        v.candidates[i].state # "dispatched"
              /\ \A records : DispatchesHeld(w, records) => DispatchesHeld(v, records)
<1> DEFINE ids == AffectedCandidates(w, p, r.generation)
           failure == failure_error(kind)
           retried == {i \in ids : retry_authorized(w.candidates[i], failure)}
           ds == [i \in DOMAIN w.candidates |->
                    IF i \in retried THEN [w.candidates[i] EXCEPT !.worker_boot = r.worker_boot]
                                     ELSE w.candidates[i]]
<1>1. w \in WorkRecord /\ w.candidates \in Seq(CandidateRecord)
  BY DEF WorkInv, WorkRecord
<1>2. \A i \in DOMAIN w.candidates : i \in ids => in_flight(w.candidates[i])
  BY DEF AffectedCandidates
<1>3. handle_participant_failure_locked(w, p, r, kind)
        = fail_or_retry([w EXCEPT !.candidates = ds], ids, failure)
  BY DEF handle_participant_failure_locked
<1>4. PICK boot \in Nat : boot = r.worker_boot
  BY DEF ParticipantRecord
<1> HIDE DEF ids, failure
<1>5. ASSUME NEW i \in DOMAIN w.candidates
      PROVE  /\ ds[i] \in CandidateRecord
             /\ i \in ids => /\ ds[i].state = w.candidates[i].state
                             /\ ds[i].generation = w.candidates[i].generation
                             /\ ds[i].attempts_used = w.candidates[i].attempts_used
                             /\ SameSlot(w.candidates[i], ds[i])
             /\ i \notin ids => ds[i] = w.candidates[i]
  <2> DEFINE c == w.candidates[i]
  <2>1. c \in CandidateRecord
    BY <1>1, SlotType
  <2>2. CASE i \notin retried
    <3>1. ds[i] = c
      BY <2>2
    <3> QED
      BY <2>1, <3>1 DEF SameSlot
  <2>3. CASE i \in retried
    <3>1. ds[i] = [c EXCEPT !.worker_boot = boot] /\ i \in ids
      BY <1>4, <2>3
    <3> HIDE DEF ds, c, retried
    <3> DEFINE d == [c EXCEPT !.worker_boot = boot]
    <3>2. /\ d \in CandidateRecord /\ d.state = c.state /\ d.generation = c.generation
          /\ d.attempts_used = c.attempts_used /\ SameSlot(c, d)
      BY <2>1 DEF CandidateRecord, SameSlot
    <3> HIDE DEF d
    <3>3. ds[i] = d
      BY <3>1 DEF d
    <3> QED
      BY <3>1, <3>2, <3>3 DEF c
  <2> QED
    BY <2>2, <2>3
<1>6. ds \in Seq(CandidateRecord) /\ DOMAIN ds = DOMAIN w.candidates
  <2>1. ds = [i \in DOMAIN w.candidates |-> ds[i]]
    OBVIOUS
  <2> HIDE DEF ds
  <2> QED
    BY <1>1, <1>5, <2>1, MappedSeq
<1> HIDE DEF ds
<1> DEFINE v == fail_or_retry([w EXCEPT !.candidates = ds], ids, failure)
<1>7. /\ WorkInv(v) /\ Answered(w, v)
      /\ \A i \in DOMAIN w.candidates : i \in ids => v.candidates[i].state # "dispatched"
      /\ \A records : DispatchesHeld(w, records) => DispatchesHeld(v, records)
  BY <1>2, <1>5, <1>6, FailOrRetryKeeps
<1> HIDE DEF v
<1> QED
  BY <1>3, <1>7 DEF v, ids

-----------------------------------------------------------------------------
(* Answers. *)

\* The worker that holds slot i answers it.
LEMMA AnswerKeeps ==
    ASSUME NEW w, WorkInv(w), NEW i \in DOMAIN w.candidates,
           w.candidates[i].state = "dispatched",
           NEW state \in {"valid", "invalid", "abstained"}, NEW payload \in Payloads \cup {0},
           state = "valid" => payload # 0
    PROVE  LET v == [w EXCEPT !.candidates[i].state = state, !.candidates[i].payload = payload]
           IN /\ WorkInv(v) /\ Answered(w, v)
              /\ \A records : DispatchesHeld(w, records) => DispatchesHeld(v, records)
<1> DEFINE c == w.candidates[i]
           d == [c EXCEPT !.state = state, !.payload = payload]
           cs == [w.candidates EXCEPT ![i] = d]
           v == [w EXCEPT !.candidates[i].state = state, !.candidates[i].payload = payload]
<1>1. /\ w \in WorkRecord /\ w.candidates \in Seq(CandidateRecord)
      /\ c \in CandidateRecord /\ c.generation \in Nat
  BY SlotType DEF WorkInv, WorkRecord
<1>2. v = [w EXCEPT !.candidates = cs]
  <2>1. cs = [[w.candidates EXCEPT ![i].state = state] EXCEPT ![i].payload = payload]
    BY <1>1 DEF CandidateRecord
  <2> QED
    BY <1>1, <2>1 DEF WorkRecord
<1>3. /\ d \in CandidateRecord /\ d.state = state /\ d.payload = payload
      /\ d.generation = c.generation /\ d.attempts_used = c.attempts_used /\ SameSlot(c, d)
  BY <1>1 DEF CandidateRecord, CandidateStates, SameSlot
<1> HIDE DEF d
<1>4. /\ cs \in Seq(CandidateRecord) /\ DOMAIN cs = DOMAIN w.candidates
      /\ cs[i] = d /\ \A j \in DOMAIN w.candidates : j # i => cs[j] = w.candidates[j]
  BY <1>1, <1>3
<1>5. AnsweredSlot(c, d)
  <2>1. c.attempts_used <= spec.retry.max_attempts
    BY DEF WorkInv, BudgetKept
  <2>2. in_flight(c) /\ ~is_content_state(c.state) /\ ~in_flight(d)
    BY <1>3 DEF in_flight, is_content_state, ContentStates
  <2>3. is_content_state(d.state) => d.payload # 0
    BY <1>3 DEF is_content_state, ContentStates
  <2> HIDE DEF c
  <2>4. SlotKept(c, d)
    BY <1>1, <1>3, <2>1, <2>2 DEF SlotKept
  <2> QED
    BY <1>1, <1>3, <2>2, <2>3, <2>4 DEF AnsweredSlot
<1> HIDE DEF cs, v
<1>6. /\ v \in WorkRecord /\ v.candidates = cs
      /\ v.stage_index = w.stage_index /\ v.fallback_depth = w.fallback_depth
      /\ v.pending = w.pending /\ v.evaluations = w.evaluations
  BY <1>1, <1>2, <1>4, CandidatesReplaced
<1>7. Answered(w, v)
  BY <1>4, <1>5, <1>6, AnsweredAlone DEF Answered
<1>8. SameVotes(w, v) /\ \A q \in v.pending : \E p \in w.pending : p.candidate = q.candidate
  BY <1>6 DEF SameVotes, SameVote
<1>9. WorkInv(v) /\ \A records : DispatchesHeld(w, records) => DispatchesHeld(v, records)
  BY <1>6, <1>7, <1>8, AnsweredKeeps
<1> QED
  BY <1>7, <1>9 DEF v

\* An admissible evaluation is recorded; it is the first of its evaluator generation on the
\* candidate under the criterion, and the candidate has content.
LEMMA EvaluationKeeps ==
    ASSUME NEW w, WorkInv(w), NEW u \in EvaluationRecord, NEW plans \in SUBSET PlannedRecord,
           \A q \in plans : \E p \in w.pending : p.candidate = q.candidate,
           u.candidate \in CandidatesIn(w, ContentStates),
           u.candidate_generation = w.candidates[u.candidate].generation,
           \A k \in DOMAIN w.evaluations : ~SameVote(w.evaluations[k], u)
    PROVE  LET v == [w EXCEPT !.evaluations = Append(w.evaluations, u), !.pending = plans]
           IN /\ WorkInv(v) /\ Answered(w, v)
              /\ \A records : DispatchesHeld(w, records) => DispatchesHeld(v, records)
<1> DEFINE votes == Append(w.evaluations, u)
           last == Len(w.evaluations) + 1
           v == [w EXCEPT !.evaluations = votes, !.pending = plans]
<1>1. w \in WorkRecord /\ w.evaluations \in Seq(EvaluationRecord)
  BY DEF WorkInv, WorkRecord
<1>2. /\ votes \in Seq(EvaluationRecord) /\ DOMAIN votes = DOMAIN w.evaluations \cup {last}
      /\ last \notin DOMAIN w.evaluations /\ votes[last] = u
      /\ \A k \in DOMAIN w.evaluations : votes[k] = w.evaluations[k]
  BY <1>1
<1> HIDE DEF votes, last
<1>3. /\ v \in WorkRecord /\ v.candidates = w.candidates
      /\ v.stage_index = w.stage_index /\ v.fallback_depth = w.fallback_depth
      /\ v.pending = plans /\ v.evaluations = votes
  BY <1>1, <1>2 DEF WorkRecord
<1> HIDE DEF v
<1>4. VotesKept(w)
  BY DEF WorkInv
<1>5. StagesKept(v) /\ FallbackKept(v) /\ SequenceKept(v) /\ BudgetKept(v)
  BY <1>3 DEF WorkInv, StagesKept, FallbackKept, SequenceKept, BudgetKept
<1>6. VotesKept(v)
  <2>1. \A q \in v.pending :
           q.candidate \in DOMAIN v.candidates /\ ~in_flight(v.candidates[q.candidate])
    BY <1>3, <1>4 DEF VotesKept
  <2>2. ASSUME NEW k \in DOMAIN votes
        PROVE  /\ votes[k].candidate \in CandidatesIn(w, ContentStates \cup {"rejected"})
               /\ votes[k].candidate_generation = w.candidates[votes[k].candidate].generation
    <3>1. CASE k = last
      BY <1>2, <3>1 DEF CandidatesIn
    <3>2. CASE k \in DOMAIN w.evaluations
      BY <1>2, <1>4, <3>2 DEF VotesKept
    <3> QED
      BY <1>2, <3>1, <3>2
  <2>3. ASSUME NEW k \in DOMAIN votes, NEW l \in DOMAIN votes, SameVote(votes[k], votes[l])
        PROVE  k = l
    <3>1. SameVote(votes[l], votes[k])
      BY <2>3 DEF SameVote
    <3>2. CASE k \in DOMAIN w.evaluations /\ l \in DOMAIN w.evaluations
      BY <1>2, <1>4, <2>3, <3>2 DEF VotesKept
    <3>3. CASE k = last /\ l # last
      BY <1>2, <3>1, <3>3
    <3>4. CASE k # last /\ l = last
      BY <1>2, <2>3, <3>4
    <3> QED
      BY <1>2, <3>2, <3>3, <3>4
  <2>4. CandidatesIn(v, ContentStates \cup {"rejected"})
          = CandidatesIn(w, ContentStates \cup {"rejected"})
    BY <1>3 DEF CandidatesIn
  <2> QED
    BY <1>3, <2>1, <2>2, <2>3, <2>4 DEF VotesKept
<1>7. \A records : DispatchesHeld(w, records) => DispatchesHeld(v, records)
  BY <1>3 DEF DispatchesHeld
<1>8. Answered(w, v)
  BY <1>3, AnsweredSame
<1> QED
  BY <1>3, <1>5, <1>6, <1>7, <1>8 DEF WorkInv, v, votes

\* Recording two report states.
LEMMA ReportsAnswer ==
    ASSUME NEW w, WorkInv(w), NEW e
    PROVE  LET v == compute_reports(w, e)
           IN /\ WorkInv(v) /\ Answered(w, v)
              /\ \A records : DispatchesHeld(w, records) => DispatchesHeld(v, records)
<1> DEFINE v == compute_reports(w, e)
<1>1. /\ WorkInv(v) /\ v.candidates = w.candidates
      /\ \A records : DispatchesHeld(w, records) => DispatchesHeld(v, records)
  BY ReportsKeep
<1> HIDE DEF v
<1> QED
  BY <1>1, AnsweredSame DEF v

\* The commit of candidate id, which has content: every other content is rejected.
LEMMA SelectedKeeps ==
    ASSUME NEW w, WorkInv(w), NEW id \in CandidatesIn(w, ContentStates)
    PROVE  LET v == [w EXCEPT !.candidates = Selected(w.candidates, id)]
           IN /\ WorkInv(v) /\ DOMAIN v.candidates = DOMAIN w.candidates
              /\ \A i \in DOMAIN w.candidates :
                    LET c == w.candidates[i]
                        d == v.candidates[i]
                    IN /\ d.generation = c.generation /\ d.participant = c.participant
                       /\ d.payload = c.payload /\ d.attempts_used = c.attempts_used
                       /\ in_flight(c) \/ in_flight(d) => d = c
                       /\ d.state = "selected" <=> i = id
                       /\ is_content_state(d.state) => i = id
<1> DEFINE cs == Selected(w.candidates, id)
           v == [w EXCEPT !.candidates = cs]
<1>1. w \in WorkRecord /\ w.candidates \in Seq(CandidateRecord)
  BY DEF WorkInv, WorkRecord
<1>2. id \in DOMAIN w.candidates /\ is_content_state(w.candidates[id].state)
  BY DEF CandidatesIn, is_content_state
<1>3. ASSUME NEW i \in DOMAIN w.candidates
      PROVE  LET c == w.candidates[i]
                 d == cs[i]
             IN /\ d \in CandidateRecord /\ SlotKept(c, d)
                /\ d.generation = c.generation /\ d.participant = c.participant
                /\ d.payload = c.payload /\ d.attempts_used = c.attempts_used
                /\ in_flight(c) \/ in_flight(d) => d = c
                /\ d.state = "selected" <=> i = id
                /\ is_content_state(d.state) => i = id
  <2> DEFINE c == w.candidates[i]
             d == cs[i]
  <2>1. c \in CandidateRecord /\ c.generation \in Nat /\ c.attempts_used \in Nat
    BY <1>1, SlotType
  <2>2. /\ c.attempts_used <= spec.retry.max_attempts
        /\ c.state = "declared" => c.attempts_used < spec.retry.max_attempts
    BY DEF WorkInv, BudgetKept
  <2>3. CASE i = id \/ is_content_state(c.state)
    <3>1. PICK state \in {"selected", "rejected"} :
             d = [c EXCEPT !.state = state] /\ (state = "selected" <=> i = id)
      <4>1. CASE i = id
        BY <4>1 DEF Selected
      <4>2. CASE i # id
        BY <2>3, <4>2 DEF Selected
      <4> QED
        BY <4>1, <4>2
    <3>2. /\ d \in CandidateRecord /\ d.state = state /\ d.generation = c.generation
          /\ d.attempts_used = c.attempts_used /\ d.payload = c.payload /\ SameSlot(c, d)
      BY <2>1, <3>1 DEF CandidateRecord, CandidateStates, SameSlot
    <3>3. is_content_state(c.state) /\ ~in_flight(c) /\ ~in_flight(d)
      BY <1>2, <2>3, <3>2 DEF in_flight, is_content_state, ContentStates
    <3> HIDE DEF c, d, cs
    <3>4. SlotKept(c, d)
      BY <2>1, <2>2, <3>2, <3>3 DEF SlotKept, in_flight
    <3>5. is_content_state(d.state) => i = id
      BY <3>1, <3>2 DEF is_content_state, ContentStates
    <3> QED
      BY <3>1, <3>2, <3>3, <3>4, <3>5 DEF SameSlot, c, d
  <2>4. CASE ~(i = id \/ is_content_state(c.state))
    <3>1. d = c
      BY <2>4 DEF Selected
    <3>2. SlotKept(c, c)
      BY <2>1, <2>2 DEF SlotKept, SameSlot
    <3>3. c.state # "selected"
      BY <2>4 DEF is_content_state, ContentStates
    <3> HIDE DEF c, d, cs
    <3> QED
      BY <2>1, <2>4, <3>1, <3>2, <3>3 DEF c, d
  <2> QED
    BY <2>3, <2>4
<1>4. cs \in Seq(CandidateRecord) /\ DOMAIN cs = DOMAIN w.candidates
  <2>1. cs = [i \in DOMAIN w.candidates |-> cs[i]]
    BY DEF Selected
  <2> HIDE DEF cs
  <2> QED
    BY <1>1, <1>3, <2>1, MappedSeq
<1> HIDE DEF cs
<1>5. /\ v \in WorkRecord /\ v.candidates = cs
      /\ v.stage_index = w.stage_index /\ v.fallback_depth = w.fallback_depth
      /\ v.pending = w.pending /\ v.evaluations = w.evaluations
  BY <1>1, <1>4, CandidatesReplaced
<1> HIDE DEF v
<1>6. SlotsKept(w, v)
  BY <1>3, <1>4, <1>5 DEF SlotsKept, SameVote
<1>7. \A i \in DOMAIN w.candidates :
         v.candidates[i].state = "dispatched" => w.candidates[i].state = "dispatched"
  BY <1>3, <1>5 DEF in_flight
<1>8. WorkInv(v)
  BY <1>5, <1>6, <1>7, WorkMoved
<1> QED
  BY <1>3, <1>4, <1>5, <1>8 DEF v, cs

-----------------------------------------------------------------------------
(* What arbitration selects. *)

\* A committed result names a candidate that has content, as it is in the evidence w.
LEMMA CommittedResult ==
    ASSUME NEW w, WorkInv(w), NEW consensus, ResultOf(w, consensus).decision = "committed"
    PROVE  LET r == ResultOf(w, consensus)
               c == w.candidates[r.candidate]
           IN /\ r.candidate \in CandidatesIn(w, ContentStates)
              /\ c.generation = r.candidate_generation /\ c.participant = r.participant
              /\ c.payload = r.payload
<1> DEFINE inputs == ArbitrationInputs(w, Env)
           arbitration == arbitrate(inputs)
           selection == has_selection(consensus, arbitration, spec.arbitration.tie_break)
           decision == decision_for(consensus, selection)
           r == ResultOf(w, consensus)
           id == arbitration.selected
<1>1. r.decision = decision
  BY DEF ResultOf, ResultFrom
<1>2. selection
  <2> HIDE DEF selection
  <2> QED
    BY <1>1 DEF decision_for
<1>3. /\ r.candidate = id /\ r.candidate_generation = w.candidates[id].generation
      /\ r.participant = w.candidates[id].participant /\ r.payload = w.candidates[id].payload
  <2>1. decision = "committed" /\ selection
    BY <1>1, <1>2
  <2> HIDE DEF selection
  <2> QED
    BY <2>1 DEF ResultOf, ResultFrom, selection
<1>4. id # 0
  BY <1>2 DEF has_selection
<1>5. /\ DOMAIN inputs.candidates = DOMAIN w.candidates
      /\ \A i \in DOMAIN w.candidates : inputs.candidates[i].state = w.candidates[i].state
  BY DEF ArbitrationInputs
<1>6. IsFiniteSet(DOMAIN w.candidates)
  <2>1. w.candidates \in Seq(CandidateRecord)
    BY DEF WorkInv, WorkRecord
  <2>2. Len(w.candidates) \in Nat /\ DOMAIN w.candidates = 1..Len(w.candidates)
    BY <2>1
  <2> QED
    BY <2>2, FS_Interval
<1> HIDE DEF inputs
<1>7. id \in EligibleCandidates(inputs)
  BY <1>4, <1>5, <1>6, ArbitrationSelects
<1>8. id \in DOMAIN w.candidates /\ is_content_state(w.candidates[id].state)
  BY <1>5, <1>7, EligibleHasContent DEF EligibleCandidates
<1> HIDE DEF id, r
<1> QED
  BY <1>3, <1>8 DEF CandidatesIn, is_content_state, r

-----------------------------------------------------------------------------
(* The actions. *)

\* A step that answers slots of the current execution, or leaves them alone.
Answering == Answered(work, work') /\ UNCHANGED <<Key, result, dispatches>>

\* A step that publishes the result of the caller c.
Publishing(c) ==
    LET r == calls[c].result
    IN /\ KeyOf(r) = Key /\ IsResult(r) /\ ~has_result /\ result' = r /\ r # NoResult
       /\ status' = status_for(r.decision)
       /\ work' = IF r.decision = "committed"
                    THEN [work EXCEPT !.candidates = Selected(work.candidates, r.candidate)]
                    ELSE work
       /\ UNCHANGED <<Key, participants, dispatches>>

\* A new execution has no evidence.
LEMMA NewExecutionKept ==
    WorkInv(NewExecution) /\ \A records : DispatchesHeld(NewExecution, records)
<1> DEFINE w == NewExecution
<1>1. /\ w.candidates = <<>> /\ w.evaluations = <<>> /\ w.pending = {}
      /\ w.stage_index = 0 /\ w.fallback_depth = 0
  BY DEF NewExecution
<1>2. w \in WorkRecord
  BY DEF NewExecution, WorkRecord, QuorumStates, ConsensusStates
<1>3. Len(effective_stages) \in Nat
  BY <1>1, StagesOfStages
<1> HIDE DEF w
<1>4. DOMAIN w.candidates = {} /\ DOMAIN w.evaluations = {}
  BY <1>1
<1>5. StagesKept(w) /\ FallbackKept(w)
  BY <1>1, <1>3, <1>4 DEF StagesKept, FallbackKept
<1>6. SequenceKept(w) /\ VotesKept(w) /\ BudgetKept(w)
  BY <1>1, <1>4 DEF SequenceKept, VotesKept, BudgetKept
<1>7. \A records : DispatchesHeld(w, records)
  BY <1>4 DEF DispatchesHeld
<1> QED
  BY <1>2, <1>5, <1>6, <1>7 DEF WorkInv, w

\* At first there is no execution.
LEMMA EvidenceInit == Init => EvidenceInv
BY NewExecutionKept DEF Init, EvidenceInv

\* A step that leaves the evidence, the status and the participants alone.
LEMMA EvidenceQuiet ==
    ASSUME EvidenceInv, UNCHANGED <<work, status, participants, execution>>
    PROVE  EvidenceInv'
BY DEF EvidenceInv, has_execution

\* Supersession fences an open execution.
LEMMA EvidenceSupersede ==
    ASSUME EvidenceInv, supersede_ensemble
    PROVE  EvidenceInv' /\ Answering
<1>1. UNCHANGED <<Key, result, dispatches, participants, execution>>
  BY DEF supersede_ensemble, Key, network
<1>2. CASE has_execution /\ status = "open"
  <2>1. /\ status' = "superseded"
        /\ work' = [work EXCEPT !.candidates = FenceInFlight(work.candidates, "superseded", TRUE)]
    BY <1>2 DEF supersede_ensemble
  <2>2. WorkInv(work') /\ Answered(work, work')
    BY <2>1, SupersedeKeeps DEF EvidenceInv
  <2> QED
    BY <1>1, <2>1, <2>2 DEF EvidenceInv, Answering
<1>3. CASE ~(has_execution /\ status = "open")
  <2>1. UNCHANGED <<status, work>>
    BY <1>3 DEF supersede_ensemble
  <2> QED
    BY <1>1, <2>1, EvidenceQuiet, AnsweredSame DEF EvidenceInv, Answering
<1> QED
  BY <1>2, <1>3

\* A registration replaces only a participant that holds nothing.
LEMMA EvidenceRegister ==
    ASSUME TypeOK, EvidenceInv, NEW p \in Participants, NEW b \in Boots,
           register_participant(p, b)
    PROVE  EvidenceInv' /\ Answering
<1>1. UNCHANGED <<Key, result, dispatches, work, status, execution>>
  BY DEF register_participant, Key, network, gate
<1>2. /\ \A q \in Participants : q # p => participants'[q] = participants[q]
      /\ ~(participants[p].registered /\ participants[p].status = "current")
  BY DEF register_participant, TypeOK
<1>3. ASSUME DispatchesHeld(work, participants) PROVE DispatchesHeld(work, participants')
  <2> SUFFICES ASSUME NEW i \in DOMAIN work.candidates, work.candidates[i].state = "dispatched"
               PROVE  HeldBy(work.candidates[i], participants'[work.candidates[i].participant])
    BY DEF DispatchesHeld
  <2>1. HeldBy(work.candidates[i], participants[work.candidates[i].participant])
    BY <1>3 DEF DispatchesHeld
  <2>2. work.candidates[i].participant \in Participants
    BY SlotType DEF EvidenceInv, WorkInv, CandidateRecord
  <2>3. work.candidates[i].participant # p
    BY <1>2, <2>1 DEF HeldBy, authoritative
  <2> QED
    BY <1>2, <2>1, <2>2, <2>3
<1>4. EvidenceInv'
  BY <1>1, <1>3 DEF EvidenceInv, has_execution
<1> QED
  BY <1>1, <1>4, AnsweredSame DEF EvidenceInv, Answering

\* A failure report reaches everything the participant holds.
LEMMA EvidenceFailure ==
    ASSUME TypeOK, EvidenceInv, NEW p \in Participants, NEW kind,
           report_participant_failure(p, kind)
    PROVE  EvidenceInv' /\ Answering
<1> DEFINE r == participants[p]
<1>1. UNCHANGED <<Key, result, dispatches, execution>>
  BY DEF report_participant_failure, Key, network
<1>2. CASE has_execution /\ status = "open"
  <2>1. work' = handle_participant_failure_locked(work, p, r, kind)
    BY <1>2 DEF report_participant_failure
  <2>2. r \in ParticipantRecord
    BY DEF TypeOK
  <2>3. WorkInv(work) /\ DispatchesHeld(work, participants)
    BY <1>2 DEF EvidenceInv
  <2> HIDE DEF r
  <2>4. /\ WorkInv(work') /\ Answered(work, work')
        /\ \A i \in DOMAIN work.candidates :
              i \in AffectedCandidates(work, p, r.generation) =>
                  work'.candidates[i].state # "dispatched"
        /\ DispatchesHeld(work', participants)
    BY <2>1, <2>2, <2>3, ParticipantFailureKeeps
  <2>5. \A q \in Participants : q # p => participants'[q] = participants[q]
    BY DEF report_participant_failure, TypeOK
  <2>6. DispatchesHeld(work', participants')
    <3> SUFFICES ASSUME NEW i \in DOMAIN work'.candidates,
                        work'.candidates[i].state = "dispatched"
                 PROVE  HeldBy(work'.candidates[i],
                               participants'[work'.candidates[i].participant])
      BY DEF DispatchesHeld
    <3>1. i \in DOMAIN work.candidates /\ work'.candidates[i] = work.candidates[i]
      BY <2>4 DEF Answered, AnsweredSlot
    <3>2. HeldBy(work.candidates[i], participants[work.candidates[i].participant])
      BY <2>3, <3>1 DEF DispatchesHeld
    <3>3. work.candidates[i].participant # p
      <4> SUFFICES ASSUME work.candidates[i].participant = p PROVE FALSE
        OBVIOUS
      <4>1. work.candidates[i].participant_generation = r.generation
        BY <3>2 DEF HeldBy, r
      <4>2. in_flight(work.candidates[i])
        BY <3>1 DEF in_flight
      <4>3. i \in AffectedCandidates(work, p, r.generation)
        BY <3>1, <4>1, <4>2 DEF AffectedCandidates
      <4> QED
        BY <2>4, <3>1, <4>3
    <3>4. work.candidates[i].participant \in Participants
      BY <2>3, <3>1, SlotType DEF WorkInv, CandidateRecord
    <3> QED
      BY <2>5, <3>1, <3>2, <3>3, <3>4
  <2>7. has_execution'
    BY <1>1, <1>2 DEF has_execution
  <2> QED
    BY <1>1, <2>4, <2>6, <2>7 DEF EvidenceInv, Answering
<1>3. CASE ~(has_execution /\ status = "open")
  <2>1. UNCHANGED <<work, status>> /\ status # "open"
    BY <1>3 DEF report_participant_failure, EvidenceInv
  <2> QED
    BY <1>1, <2>1, AnsweredSame DEF EvidenceInv, Answering
<1> QED
  BY <1>2, <1>3

\* A restart fences an open execution.
LEMMA EvidenceRestart ==
    ASSUME EvidenceInv, restart_invalidate \/ restart_advance_epoch
    PROVE  EvidenceInv' /\ Answering
<1>1. CASE restart_invalidate
  <2>1. UNCHANGED <<Key, result, dispatches, execution>>
    BY <1>1 DEF restart_invalidate, Key, network
  <2>2. CASE has_execution /\ status = "open"
    <3>1. status' = "revalidation_required" /\ work' = InvalidatedWork(work)
      BY <1>1, <2>2 DEF restart_invalidate
    <3>2. WorkInv(work') /\ Answered(work, work')
      BY <3>1, InvalidatedKeeps DEF EvidenceInv
    <3> QED
      BY <2>1, <3>1, <3>2 DEF EvidenceInv, Answering
  <2>3. CASE ~(has_execution /\ status = "open")
    <3>1. UNCHANGED <<work, status>> /\ status # "open"
      BY <1>1, <2>3 DEF restart_invalidate, EvidenceInv
    <3> QED
      BY <2>1, <3>1, AnsweredSame DEF EvidenceInv, Answering
  <2> QED
    BY <2>2, <2>3
<1>2. CASE restart_advance_epoch
  <2>1. UNCHANGED <<Key, result, dispatches, execution, work, status, participants>>
    BY <1>2 DEF restart_advance_epoch, Key, network, gate
  <2> QED
    BY <2>1, EvidenceQuiet, AnsweredSame DEF EvidenceInv, Answering
<1> QED
  BY <1>1, <1>2

\* Cancellation, and the advance that acts on it.
LEMMA EvidenceCancel ==
    ASSUME EvidenceInv, cancel_ensemble \/ advance_cancelled
    PROVE  EvidenceInv' /\ Answering
<1>1. CASE cancel_ensemble
  <2>1. UNCHANGED <<Key, result, dispatches, work>> /\ status' = "cancelled"
    BY <1>1 DEF cancel_ensemble, Key, network, engine
  <2> QED
    BY <2>1, AnsweredSame DEF EvidenceInv, Answering
<1>2. CASE advance_cancelled
  <2>1. UNCHANGED <<Key, result, dispatches>> /\ status' = "cancelled"
    BY <1>2 DEF advance_cancelled, Key, network, engine, gate
  <2>2. work' = [work EXCEPT !.cancellation_emitted = TRUE,
                             !.candidates = FenceInFlight(work.candidates, "cancelled", FALSE),
                             !.pending = {[q EXCEPT !.abandoned = TRUE] : q \in work.pending}]
    BY <1>2 DEF advance_cancelled
  <2>3. WorkInv(work') /\ Answered(work, work')
    BY <2>2, CancelKeeps DEF EvidenceInv
  <2> QED
    BY <2>1, <2>3 DEF EvidenceInv, Answering
<1> QED
  BY <1>1, <1>2

\* Output and abstentions are taken from whoever holds the slot; a reported failure fails it or
\* rewinds it.
LEMMA EvidenceOutput ==
    ASSUME EvidenceInv, NEW m,
           \/ \E payload \in Payloads : submit_candidate(m, payload)
           \/ \E kind \in FailureKinds : submit_candidate_failure(m, kind)
           \/ submit_candidate_abstention(m)
    PROVE  EvidenceInv' /\ Answering
<1> DEFINE i == m.candidate
<1>1. UNCHANGED <<Key, result, dispatches, execution, status, participants>>
  BY DEF submit_candidate, submit_candidate_failure, submit_candidate_abstention, Key, network,
         engine, gate
<1>2. i \in DOMAIN work.candidates /\ work.candidates[i].state = "dispatched"
  BY DEF submit_candidate, submit_candidate_failure, submit_candidate_abstention,
         locate_candidate
<1>3. WorkInv(work)
  BY DEF EvidenceInv
<1>4. /\ WorkInv(work') /\ Answered(work, work')
      /\ \A records : DispatchesHeld(work, records) => DispatchesHeld(work', records)
  <2>1. ASSUME NEW payload \in Payloads, submit_candidate(m, payload)
        PROVE  <1>4!1 /\ <1>4!2
    <3>1. PICK state \in {"valid", "invalid", "abstained"} :
             state = IF payload = 0 THEN "invalid" ELSE "valid"
      OBVIOUS
    <3>2. work' = [work EXCEPT !.candidates[i].state = state, !.candidates[i].payload = payload]
      BY <2>1, <3>1 DEF submit_candidate
    <3>3. payload \in Payloads \cup {0} /\ (state = "valid" => payload # 0)
      BY <3>1
    <3> HIDE DEF i
    <3> QED
      BY <1>2, <1>3, <3>2, <3>3, AnswerKeeps
  <2>2. ASSUME submit_candidate_abstention(m)
        PROVE  <1>4!1 /\ <1>4!2
    <3>1. PICK state \in {"valid", "invalid", "abstained"} : state = "abstained"
      OBVIOUS
    <3>2. PICK payload \in Payloads \cup {0} : payload = 0
      OBVIOUS
    <3>3. work' = [work EXCEPT !.candidates[i].state = state, !.candidates[i].payload = payload]
      BY <2>2, <3>1, <3>2 DEF submit_candidate_abstention
    <3> HIDE DEF i
    <3> QED
      BY <1>2, <1>3, <3>1, <3>3, AnswerKeeps
  <2>3. ASSUME NEW kind \in FailureKinds, submit_candidate_failure(m, kind)
        PROVE  <1>4!1 /\ <1>4!2
    <3> DEFINE ds == work.candidates
               failure == failure_error(kind)
    <3>1. work' = fail_or_retry(work, {i}, failure)
      BY <2>3 DEF submit_candidate_failure
    <3>2. [work EXCEPT !.candidates = ds] = work /\ ds \in Seq(CandidateRecord)
      BY <1>3 DEF WorkInv, WorkRecord
    <3>3. \A j \in DOMAIN work.candidates :
             /\ j \in {i} => in_flight(work.candidates[j])
             /\ SameSlot(work.candidates[j], ds[j])
      BY <1>2 DEF in_flight, SameSlot
    <3>4. LET v == fail_or_retry([work EXCEPT !.candidates = ds], {i}, failure)
          IN /\ WorkInv(v) /\ Answered(work, v)
             /\ \A records : DispatchesHeld(work, records) => DispatchesHeld(v, records)
      <4> HIDE DEF failure
      <4> QED
        BY <1>3, <3>2, <3>3, FailOrRetryKeeps
    <3> QED
      BY <3>1, <3>2, <3>4
  <2> QED
    BY <2>1, <2>2, <2>3
<1> QED
  BY <1>1, <1>4 DEF EvidenceInv, Answering, has_execution

\* An admissible evaluation is recorded.
LEMMA EvidenceEvaluation ==
    ASSUME TypeOK, EvidenceInv, NEW m, NEW verdict \in Verdicts, submit_evaluation(m, verdict)
    PROVE  EvidenceInv' /\ Answering
<1>1. UNCHANGED <<Key, result, dispatches, execution, status, participants>>
  BY DEF submit_evaluation, Key, network, engine, gate
<1> DEFINE vote == [evaluator |-> m.evaluator, evaluator_generation |-> m.evaluator_generation,
                    candidate |-> m.candidate, candidate_generation |-> m.candidate_generation,
                    criterion |-> m.criterion, kind |-> m.kind,
                    judgment |-> verdict.judgment, verification |-> verdict.verification,
                    score_defined |-> verdict.score_defined, score |-> verdict.score,
                    weight |-> verdict.weight, current |-> TRUE]
<1>2. PICK q \in PlanOf(m) :
         /\ EvaluationAdmissible(m)
         /\ work' = [work EXCEPT !.evaluations = Append(work.evaluations, vote),
                                 !.pending = (work.pending \ {q}) \cup {[q EXCEPT !.answered = TRUE]}]
  BY DEF submit_evaluation
<1> DEFINE plans == (work.pending \ {q}) \cup {[q EXCEPT !.answered = TRUE]}
<1>3. work \in WorkRecord /\ WorkInv(work) /\ work.pending \in SUBSET PlannedRecord
  BY DEF EvidenceInv, WorkInv, WorkRecord
<1>4. /\ q \in work.pending /\ q \in PlannedRecord
      /\ q.evaluator = m.evaluator /\ q.candidate = m.candidate
      /\ q.candidate_generation = m.candidate_generation
      /\ q.criterion = m.criterion /\ q.kind = m.kind
  BY <1>2, <1>3 DEF PlanOf
<1>5. /\ m.evaluator \in Participants /\ m.criterion \in Criteria /\ m.kind \in Kinds
      /\ m.candidate \in Nat /\ m.candidate_generation \in Nat
  BY <1>4 DEF PlannedRecord
<1>6. m.evaluator_generation \in Nat
  <2>1. m.evaluator_generation = participants[m.evaluator].generation
    BY <1>2 DEF EvaluationAdmissible, EvaluatorAuthorized
  <2>2. participants[m.evaluator] \in ParticipantRecord
    BY <1>5 DEF TypeOK
  <2> QED
    BY <2>1, <2>2 DEF ParticipantRecord
<1>7. vote \in EvaluationRecord
  BY <1>5, <1>6 DEF EvaluationRecord
<1>8. /\ m.candidate \in CandidatesIn(work, ContentStates)
      /\ m.candidate_generation = work.candidates[m.candidate].generation
  BY <1>2 DEF EvaluationAdmissible, CandidatesIn, is_content_state
<1>9. \A k \in DOMAIN work.evaluations : ~SameVote(work.evaluations[k], vote)
  BY <1>2 DEF EvaluationAdmissible, AlreadyEvaluated, SameVote
<1>10. /\ plans \in SUBSET PlannedRecord
       /\ \A a \in plans : \E p \in work.pending : p.candidate = a.candidate
  <2>1. [q EXCEPT !.answered = TRUE] \in PlannedRecord
        /\ [q EXCEPT !.answered = TRUE].candidate = q.candidate
    BY <1>4 DEF PlannedRecord
  <2> QED
    BY <1>3, <1>4, <2>1
<1>11. vote.candidate = m.candidate /\ vote.candidate_generation = m.candidate_generation
  OBVIOUS
<1>12. work' = [work EXCEPT !.evaluations = Append(work.evaluations, vote), !.pending = plans]
  BY <1>2
<1> HIDE DEF vote, plans
<1>13. /\ WorkInv(work') /\ Answered(work, work')
       /\ \A records : DispatchesHeld(work, records) => DispatchesHeld(work', records)
  BY <1>3, <1>7, <1>8, <1>9, <1>10, <1>11, <1>12, EvaluationKeeps
<1> QED
  BY <1>1, <1>13 DEF EvidenceInv, Answering, has_execution

\* prepare_result stores report states; the other critical sections leave the evidence alone.
LEMMA EvidencePrepare ==
    ASSUME EvidenceInv, NEW c, NEW pc, prepare_result(c, pc)
    PROVE  EvidenceInv' /\ Answering
<1>1. UNCHANGED <<Key, result, dispatches, execution, status, participants>>
  BY DEF prepare_result, Key, network, engine, gate
<1>2. work' = work \/ work' = compute_reports(work, Env)
  BY DEF prepare_result
<1>3. /\ WorkInv(work') /\ Answered(work, work')
      /\ \A records : DispatchesHeld(work, records) => DispatchesHeld(work', records)
  BY <1>2, ReportsAnswer, AnsweredSame DEF EvidenceInv
<1> QED
  BY <1>1, <1>3 DEF EvidenceInv, Answering, has_execution

\* The planner (AdvanceKeeps), in the environment it reads.
LEMMA EvidenceAdvance ==
    ASSUME TypeOK, EvidenceInv, advance_open
    PROVE  EvidenceInv' /\ Planned(work, work')
<1>1. UNCHANGED <<execution, status, participants>> /\ has_execution /\ status = "open"
  BY DEF advance_open, engine, gate
<1>2. work' = advance(work, Env)
  BY DEF advance_open
<1>3. IsEnv(Env) /\ Env.participants = participants
  BY DEF TypeOK, IsEnv, Env
<1>4. WorkInv(work) /\ DispatchesHeld(work, Env.participants)
  BY <1>1, <1>3 DEF EvidenceInv
<1>5. /\ WorkInv(work') /\ DispatchesHeld(work', Env.participants) /\ Planned(work, work')
  BY <1>2, <1>3, <1>4, AdvanceKeeps
<1> QED
  BY <1>1, <1>3, <1>5 DEF EvidenceInv, has_execution

\* A commit publishes, or acknowledges what is published.
LEMMA CommitSteps ==
    ASSUME TypeOK, NEW c \in Callers, CommitAccepted(calls[c].result)
    PROVE  \/ Publishing(c)
           \/ UNCHANGED <<work, status, participants, execution, Key, result, dispatches>>
<1> DEFINE r == calls[c].result
<1>1. /\ KeyOf(r) = Key /\ r # NoResult /\ IsResult(r)
      /\ UNCHANGED <<Key, participants, dispatches, execution>>
  BY AcceptedIsCurrent DEF CommitAccepted, engine, network, TypeOK, IsCall
<1>2. CASE /\ MayPublish /\ result' = r /\ status' = status_for(r.decision)
           /\ work' = IF r.decision = "committed"
                        THEN [work EXCEPT !.candidates = Selected(work.candidates, r.candidate)]
                        ELSE work
  BY <1>1, <1>2 DEF Publishing, MayPublish
<1>3. CASE UNCHANGED <<result, status, work>>
  BY <1>1, <1>3
<1> QED
  BY <1>2, <1>3 DEF CommitAccepted

\* A published commit selects a candidate with content.
LEMMA EvidencePublish ==
    ASSUME EvidenceInv, SelectionInv, NEW c \in Callers, Publishing(c)
    PROVE  EvidenceInv'
<1> DEFINE r == calls[c].result
<1>1. r.decision \in Decisions
  BY DEF Publishing, IsResult
<1>2. status' # "open"
  BY <1>1 DEF Publishing, status_for, Decisions
<1>3. WorkInv(work')
  <2>1. CASE r.decision = "committed"
    <3>1. r.candidate \in CandidatesIn(work, ContentStates)
      BY <2>1 DEF SelectionInv, Publishing
    <3>2. work' = [work EXCEPT !.candidates = Selected(work.candidates, r.candidate)]
      BY <2>1 DEF Publishing
    <3> HIDE DEF r
    <3> QED
      BY <3>1, <3>2, SelectedKeeps DEF EvidenceInv
  <2>2. CASE r.decision # "committed"
    BY <2>2 DEF Publishing, EvidenceInv
  <2> QED
    BY <2>1, <2>2
<1> QED
  BY <1>2, <1>3 DEF EvidenceInv

\* Every step starts an execution, plans, publishes or answers, and keeps the invariant.
LEMMA EvidenceStep ==
    ASSUME TypeOK, EvidenceInv, SelectionInv, [EngineNext]_vars
    PROVE  /\ EvidenceInv'
           /\ \/ define_ensemble \/ open_execution
              \/ advance_open /\ Planned(work, work')
              \/ \E c \in Callers : Publishing(c)
              \/ Answering
<1>1. CASE define_ensemble \/ open_execution
  <2>1. work' = NewExecution /\ (status' = "open" => has_execution')
    BY <1>1 DEF define_ensemble, open_execution, has_execution, TypeOK
  <2> QED
    BY <1>1, <2>1, NewExecutionKept DEF EvidenceInv
<1>2. CASE supersede_ensemble
  BY <1>2, EvidenceSupersede
<1>3. ASSUME NEW p \in Participants, NEW b \in Boots, register_participant(p, b)
      PROVE  EvidenceInv' /\ Answering
  BY <1>3, EvidenceRegister
<1>4. ASSUME NEW p \in Participants, NEW kind, report_participant_failure(p, kind)
      PROVE  EvidenceInv' /\ Answering
  BY <1>4, EvidenceFailure
<1>5. CASE restart_invalidate \/ restart_advance_epoch
  BY <1>5, EvidenceRestart
<1>6. CASE advance_open
  BY <1>6, EvidenceAdvance
<1>7. CASE cancel_ensemble \/ advance_cancelled
  BY <1>7, EvidenceCancel
<1>8. CASE AnySubmit
  BY <1>8, EvidenceOutput, EvidenceEvaluation DEF AnySubmit
<1>9. ASSUME NEW c \in Callers, PrepareResult(c) \/ FinalizePrepare(c)
      PROVE  EvidenceInv' /\ Answering
  BY <1>9, EvidencePrepare DEF PrepareResult, FinalizePrepare
<1>10. ASSUME NEW c \in Callers, CommitResult(c) \/ FinalizeCommit(c)
       PROVE  EvidenceInv' /\ (Answering \/ Publishing(c))
  <2>1. CommitAccepted(calls[c].result)
    BY <1>10 DEF CommitResult, FinalizeCommit
  <2>2. CASE Publishing(c)
    BY <2>2, EvidencePublish
  <2>3. CASE UNCHANGED <<work, status, participants, execution, Key, result, dispatches>>
    BY <2>3, EvidenceQuiet, AnsweredSame DEF EvidenceInv, Answering
  <2> QED
    BY <2>1, <2>2, <2>3, CommitSteps
<1>11. CASE (\E c \in Callers : FinalizeCheck(c) \/ FinalizeReturn(c)) \/ UNCHANGED vars
  <2>1. UNCHANGED <<work, status, participants, execution, Key, result, dispatches>>
    BY <1>11 DEF FinalizeCheck, FinalizeReturn, vars, engine, gate, network, Key
  <2> QED
    BY <2>1, EvidenceQuiet, AnsweredSame DEF EvidenceInv, Answering
<1> QED
  BY <1>1, <1>2, <1>3, <1>4, <1>5, <1>6, <1>7, <1>8, <1>9, <1>10, <1>11 DEF EngineNext


-----------------------------------------------------------------------------
(* The selection. *)

\* A caller keeps what it has, drops it, or takes what is stored or what the evidence supports.
LEMMA CallSteps ==
    ASSUME TypeOK, [EngineNext]_vars, NEW d \in Callers
    PROVE  \/ calls'[d].result \in {calls[d].result, NoResult, result}
           \/ calls'[d].result = ResultOf(work', ConsensusState(work, Env))
<1>1. CASE calls' = calls
  BY <1>1
<1>2. ASSUME NEW c \in Callers, PrepareResult(c) \/ FinalizePrepare(c)
      PROVE  \/ calls'[d].result \in {calls[d].result, NoResult, result}
             \/ calls'[d].result = ResultOf(work', ConsensusState(work, Env))
  <2>1. PICK pc : prepare_result(c, pc)
    BY <1>2 DEF PrepareResult, FinalizePrepare
  <2> DEFINE r == ResultOf(work', ConsensusState(work, Env))
             call == IF pc = "idle" THEN Idle
                     ELSE [pc |-> pc, generation |-> generation, execution |-> execution,
                           result |-> IF has_result THEN result ELSE r]
  <2>2. calls' = [calls EXCEPT ![c] = call]
    BY <2>1 DEF prepare_result
  <2> HIDE DEF r
  <2>3. call.result \in {NoResult, result} \/ call.result = r
    BY DEF Idle
  <2> HIDE DEF call
  <2> QED
    BY <2>2, <2>3 DEF TypeOK, r
<1>3. ASSUME NEW c \in Callers, CommitResult(c) \/ FinalizeCommit(c) \/ FinalizeCheck(c) \/ FinalizeReturn(c)
      PROVE  calls'[d].result \in {calls[d].result, NoResult, result}
  <2>1. \/ calls' = calls
        \/ \E call : call.result = NoResult /\ calls' = [calls EXCEPT ![c] = call]
    BY <1>3 DEF CommitResult, FinalizeCommit, FinalizeCheck, FinalizeReturn, Idle
  <2> QED
    BY <2>1 DEF TypeOK
<1>4. CASE \/ define_ensemble \/ supersede_ensemble \/ restart_invalidate \/ restart_advance_epoch
           \/ open_execution \/ advance_open \/ advance_cancelled \/ cancel_ensemble \/ AnySubmit
           \/ \E p \in Participants, b \in Boots : register_participant(p, b)
           \/ \E p \in Participants : \E kind : report_participant_failure(p, kind)
           \/ UNCHANGED vars
  <2>1. calls' = calls
    BY <1>4 DEF define_ensemble, supersede_ensemble, restart_invalidate, restart_advance_epoch,
                open_execution, advance_open, advance_cancelled, cancel_ensemble, AnySubmit,
                submit_candidate, submit_candidate_failure, submit_candidate_abstention,
                submit_evaluation, register_participant, report_participant_failure, vars, clients
  <2> QED
    BY <2>1
<1> QED
  BY <1>2, <1>3, <1>4 DEF EngineNext

\* No step but a new execution and a commit touches content, and none selects anything: what
\* the evidence offers to a selection.
ContentKept(w, v) ==
    /\ DOMAIN w.candidates \subseteq DOMAIN v.candidates
    /\ \A i \in DOMAIN w.candidates :
          is_content_state(w.candidates[i].state) => v.candidates[i] = w.candidates[i]
    /\ \A i \in DOMAIN v.candidates :
          is_content_state(v.candidates[i].state) =>
              \/ i \in DOMAIN w.candidates /\ v.candidates[i] = w.candidates[i]
              \/ v.candidates[i].payload # 0 /\ v.candidates[i].state # "selected"

\* The planner leaves content alone.
LEMMA PlannedContent ==
    ASSUME NEW w, NEW v, Planned(w, v)
    PROVE  ContentKept(w, v)
<1>1. ASSUME NEW i \in DOMAIN w.candidates,
             is_content_state(w.candidates[i].state) \/ is_content_state(v.candidates[i].state)
      PROVE  v.candidates[i] = w.candidates[i]
  <2>1. PlannedSlot(w.candidates[i], v.candidates[i])
    BY DEF Planned
  <2> QED
    BY <1>1, <2>1 DEF PlannedSlot, is_content_state, ContentStates
<1>2. ASSUME NEW i \in DOMAIN v.candidates \ DOMAIN w.candidates
      PROVE  ~is_content_state(v.candidates[i].state)
  <2>1. FreshSlot(v.candidates[i])
    BY DEF Planned
  <2> QED
    BY <2>1 DEF FreshSlot, is_content_state, ContentStates
<1> QED
  BY <1>1, <1>2 DEF Planned, ContentKept

\* So do answers.
LEMMA AnsweredContent ==
    ASSUME NEW w, NEW v, Answered(w, v)
    PROVE  ContentKept(w, v)
<1>1. ASSUME NEW i \in DOMAIN w.candidates
      PROVE  /\ is_content_state(w.candidates[i].state) => v.candidates[i] = w.candidates[i]
             /\ is_content_state(v.candidates[i].state) =>
                   \/ v.candidates[i] = w.candidates[i]
                   \/ v.candidates[i].payload # 0 /\ v.candidates[i].state # "selected"
  <2>1. AnsweredSlot(w.candidates[i], v.candidates[i])
    BY DEF Answered
  <2> QED
    BY <2>1 DEF AnsweredSlot, is_content_state, ContentStates
<1> QED
  BY <1>1 DEF Answered, ContentKept

\* At first there is nothing to select.
LEMMA SelectionInit == Init => SelectionInv
<1> SUFFICES ASSUME Init PROVE SelectionInv
  OBVIOUS
<1>1. DOMAIN work.candidates = {} /\ ~has_result
  BY DEF Init, NewExecution, has_result
<1>2. \A c \in Callers : calls[c].result.decision = "pending"
  BY DEF Init, Idle, NoResult
<1> QED
  BY <1>1, <1>2 DEF SelectionInv, CandidatesIn

\* A new execution has nothing to select, and what callers hold is about earlier ones.
LEMMA SelectionNew ==
    ASSUME TypeOK, PreparedInv, define_ensemble \/ open_execution
    PROVE  SelectionInv'
<1>1. DOMAIN work'.candidates = {} /\ ~has_result' /\ calls' = calls
  BY DEF define_ensemble, open_execution, NewExecution, has_result, clients
<1>2. ASSUME NEW c \in Callers PROVE KeyOf(calls[c].result) # Key'
  <2>1. KeyOf(calls[c].result) \in Nat \X Nat
    BY DEF TypeOK, IsCall, IsResult, KeyOf
  <2>2. Log!Precedes(KeyOf(calls[c].result), Key')
    BY <2>1, KeyAdvances DEF PreparedInv
  <2> QED
    BY <2>1, <2>2 DEF Log!Precedes
<1> QED
  BY <1>1, <1>2 DEF SelectionInv, CandidatesIn

\* A step that leaves content alone: what was prepared before still names its candidate, what is
\* prepared now names what arbitration has just chosen.
LEMMA SelectionQuiet ==
    ASSUME TypeOK, EvidenceInv', SelectionInv, [EngineNext]_vars, ContentKept(work, work'),
           UNCHANGED <<Key, result>>
    PROVE  SelectionInv'
<1> DEFINE cs == work.candidates
           ds == work'.candidates
<1>1. ASSUME NEW i \in CandidatesIn(work', ContentStates) PROVE ds[i].payload # 0
  <2>1. i \in DOMAIN ds /\ is_content_state(ds[i].state)
    BY DEF CandidatesIn, is_content_state
  <2>2. CASE i \in DOMAIN cs /\ ds[i] = cs[i]
    BY <2>1, <2>2 DEF SelectionInv, CandidatesIn, is_content_state
  <2> QED
    BY <2>1, <2>2 DEF ContentKept
<1>2. CandidatesIn(work', {"selected"}) = CandidatesIn(work, {"selected"})
  <2>1. ASSUME NEW i \in DOMAIN ds, ds[i].state = "selected"
        PROVE  i \in DOMAIN cs /\ cs[i].state = "selected"
    BY <2>1 DEF ContentKept, is_content_state, ContentStates
  <2>2. ASSUME NEW i \in DOMAIN cs, cs[i].state = "selected"
        PROVE  i \in DOMAIN ds /\ ds[i].state = "selected"
    BY <2>2 DEF ContentKept, is_content_state, ContentStates
  <2> QED
    BY <2>1, <2>2 DEF CandidatesIn
<1>3. ASSUME NEW i \in CandidatesIn(work, ContentStates)
      PROVE  i \in CandidatesIn(work', ContentStates) /\ ds[i] = cs[i]
  BY DEF CandidatesIn, ContentKept, is_content_state
<1>4. ASSUME NEW r, NamesCandidate(work, r), r.candidate \in CandidatesIn(work, ContentStates)
      PROVE  NamesCandidate(work', r) /\ r.candidate \in CandidatesIn(work', ContentStates)
  BY <1>3, <1>4 DEF NamesCandidate, CandidatesIn
<1>5. ASSUME ~has_result', NEW c \in Callers
      PROVE  LET r == calls'[c].result
             IN KeyOf(r) = Key' /\ r.decision = "committed" =>
                   /\ NamesCandidate(work', r)
                   /\ r.candidate \in CandidatesIn(work', ContentStates)
  <2> DEFINE r == calls'[c].result
  <2> SUFFICES ASSUME KeyOf(r) = Key', r.decision = "committed"
               PROVE  NamesCandidate(work', r) /\ r.candidate \in CandidatesIn(work', ContentStates)
    OBVIOUS
  <2>1. ~has_result /\ result = NoResult /\ Key' = Key
    BY <1>5 DEF has_result
  <2>2. CASE r = calls[c].result
    <3>1. NamesCandidate(work, r) /\ r.candidate \in CandidatesIn(work, ContentStates)
      BY <2>1, <2>2 DEF SelectionInv
    <3> HIDE DEF r
    <3> QED
      BY <1>4, <3>1
  <2>3. CASE r = NoResult
    BY <2>3 DEF NoResult
  <2>4. CASE r = ResultOf(work', ConsensusState(work, Env))
    <3>1. WorkInv(work')
      BY DEF EvidenceInv
    <3> DEFINE consensus == ConsensusState(work, Env)
    <3>2. r = ResultOf(work', consensus)
      BY <2>4
    <3> HIDE DEF consensus, r
    <3>3. /\ r.candidate \in CandidatesIn(work', ContentStates)
          /\ ds[r.candidate].generation = r.candidate_generation
          /\ ds[r.candidate].participant = r.participant
          /\ ds[r.candidate].payload = r.payload
      BY <3>1, <3>2, CommittedResult
    <3> QED
      BY <3>3 DEF NamesCandidate, CandidatesIn
  <2> QED
    BY <2>1, <2>2, <2>3, <2>4, CallSteps
<1>6. ASSUME has_result', result'.decision = "committed"
      PROVE  NamesCandidate(work', result') /\ CandidatesIn(work', {"selected"}) = {result'.candidate}
  <2>1. NamesCandidate(work, result) /\ CandidatesIn(work, {"selected"}) = {result.candidate}
    BY <1>6 DEF SelectionInv, has_result
  <2>2. result.candidate \in CandidatesIn(work, ContentStates)
    BY <2>1 DEF CandidatesIn, ContentStates
  <2> QED
    BY <1>2, <1>3, <2>1, <2>2 DEF NamesCandidate, CandidatesIn
<1>7. ~has_result' => CandidatesIn(work', {"selected"}) = {}
  BY <1>2 DEF SelectionInv, has_result
<1> QED
  BY <1>1, <1>5, <1>6, <1>7 DEF SelectionInv

\* A commit selects the candidate it names and rejects every other content.
LEMMA SelectionPublish ==
    ASSUME EvidenceInv, SelectionInv, NEW c \in Callers, Publishing(c)
    PROVE  SelectionInv'
<1> DEFINE r == calls[c].result
           id == r.candidate
<1>1. has_result' /\ result' = r
  BY DEF Publishing, has_result
<1>2. CASE r.decision = "committed"
  <2>1. NamesCandidate(work, r) /\ id \in CandidatesIn(work, ContentStates)
    BY <1>2 DEF SelectionInv, Publishing
  <2>2. work' = [work EXCEPT !.candidates = Selected(work.candidates, id)]
    BY <1>2 DEF Publishing
  <2>3. WorkInv(work)
    BY DEF EvidenceInv
  <2> HIDE DEF r, id
  <2>4. /\ DOMAIN work'.candidates = DOMAIN work.candidates
        /\ \A i \in DOMAIN work.candidates :
              LET a == work.candidates[i]
                  d == work'.candidates[i]
              IN /\ d.generation = a.generation /\ d.participant = a.participant
                 /\ d.payload = a.payload /\ d.attempts_used = a.attempts_used
                 /\ in_flight(a) \/ in_flight(d) => d = a
                 /\ d.state = "selected" <=> i = id
                 /\ is_content_state(d.state) => i = id
    BY <2>1, <2>2, <2>3, SelectedKeeps
  <2>5. id \in DOMAIN work.candidates /\ work.candidates[id].payload # 0
    BY <2>1 DEF CandidatesIn, SelectionInv
  <2>6. \A i \in CandidatesIn(work', ContentStates) : work'.candidates[i].payload # 0
    BY <2>4, <2>5 DEF CandidatesIn, is_content_state
  <2>7. CandidatesIn(work', {"selected"}) = {id}
    BY <2>4, <2>5 DEF CandidatesIn
  <2>8. NamesCandidate(work', result')
    BY <1>1, <2>1, <2>4, <2>5 DEF NamesCandidate, id
  <2> QED
    BY <1>1, <2>6, <2>7, <2>8 DEF SelectionInv, id
<1>3. CASE r.decision # "committed"
  <2>1. work' = work
    BY <1>3 DEF Publishing
  <2> QED
    BY <1>1, <1>3, <2>1 DEF SelectionInv
<1> QED
  BY <1>2, <1>3

\* Every step keeps the invariant of the selection.
LEMMA SelectionStep ==
    ASSUME TypeOK, PreparedInv, EvidenceInv, SelectionInv, [EngineNext]_vars
    PROVE  SelectionInv'
<1>1. CASE define_ensemble \/ open_execution
  BY <1>1, SelectionNew
<1>2. CASE advance_open /\ Planned(work, work')
  <2>1. UNCHANGED <<Key, result>>
    BY <1>2 DEF advance_open, engine, gate, Key
  <2>2. ContentKept(work, work')
    BY <1>2, PlannedContent
  <2> QED
    BY <2>1, <2>2, EvidenceStep, SelectionQuiet
<1>3. ASSUME NEW c \in Callers, Publishing(c) PROVE SelectionInv'
  BY <1>3, SelectionPublish
<1>4. CASE Answering
  <2>1. UNCHANGED <<Key, result>> /\ ContentKept(work, work')
    BY <1>4, AnsweredContent DEF Answering
  <2> QED
    BY <2>1, EvidenceStep, SelectionQuiet
<1> QED
  BY <1>1, <1>2, <1>3, <1>4, EvidenceStep

-----------------------------------------------------------------------------
(* The dispatches. *)

\* At first nothing was sent.
LEMMA DispatchInit == Init => DispatchInv
BY DEF Init, DispatchInv, NewExecution

\* A new execution has sent nothing; what was sent before belongs to executions that are over.
LEMMA DispatchNew ==
    ASSUME TypeOK, DispatchInv, define_ensemble \/ open_execution
    PROVE  DispatchInv'
<1>1. dispatches' = dispatches /\ DOMAIN work'.candidates = {}
  BY DEF define_ensemble, open_execution, network, NewExecution
<1>2. \A m \in dispatches : KeyOf(m) \in Nat \X Nat /\ Log!Precedes(KeyOf(m), Key')
  BY KeyAdvances DEF DispatchInv
<1> QED
  BY <1>1, <1>2 DEF DispatchInv

\* A step that sends nothing: it uses no attempt, whoever waits again does so in a later
\* generation, and whatever is out stays as it was sent.
LEMMA DispatchQuiet ==
    ASSUME WorkInv(work), WorkInv(work'), DispatchInv, UNCHANGED <<Key, dispatches>>,
           DOMAIN work'.candidates = DOMAIN work.candidates,
           \A i \in DOMAIN work.candidates :
              LET c == work.candidates[i]
                  d == work'.candidates[i]
              IN /\ d.attempts_used = c.attempts_used /\ c.generation <= d.generation
                 /\ d.state = "declared" => c.state = "declared" \/ c.generation < d.generation
                 /\ d.state = "dispatched" => d = c
    PROVE  DispatchInv'
<1>1. ASSUME NEW i \in DOMAIN work'.candidates
      PROVE  /\ Sent(Attempts(i), work.candidates[i])'
             /\ (work.candidates[i].state = "dispatched" =>
                    DispatchOf(i, work.candidates[i]) \in dispatches)'
  <2> DEFINE c == work.candidates[i]
             d == work'.candidates[i]
             S == Attempts(i)
  <2>1. Attempts(i)' = S
    BY DEF Attempts
  <2>2. i \in DOMAIN work.candidates /\ c.generation \in Nat /\ d.generation \in Nat
    BY SlotType DEF WorkInv
  <2>3. Sent(S, c) /\ (c.state = "dispatched" => DispatchOf(i, c) \in dispatches)
    BY <2>2 DEF DispatchInv
  <2>4. /\ d.attempts_used = c.attempts_used /\ c.generation <= d.generation
        /\ d.state = "declared" => c.state = "declared" \/ c.generation < d.generation
        /\ d.state = "dispatched" => d = c
    BY <2>2
  <2>5. Sent(S, d)
    <3> HIDE DEF c, d, S
    <3> QED
      BY <2>2, <2>3, <2>4 DEF Sent
  <2>6. generation' = generation /\ execution' = execution
    BY DEF Key
  <2>7. d.state = "dispatched" => DispatchOf(i, work.candidates[i])' \in dispatches'
    BY <2>3, <2>4, <2>6 DEF DispatchOf
  <2> QED
    BY <2>1, <2>5, <2>7
<1>2. \A m \in dispatches' :
         /\ KeyOf(m) \in Nat \X Nat
         /\ \/ Log!Precedes(KeyOf(m), Key')
            \/ KeyOf(m) = Key' /\ m.candidate \in DOMAIN work'.candidates
  BY DEF DispatchInv
<1> QED
  BY <1>1, <1>2 DEF DispatchInv

\* One more attempt, in a generation that nothing was sent in.
LEMMA OneMoreSent ==
    ASSUME NEW S, IsFiniteSet(S), NEW m, NEW d,
           d.generation \in Nat, m.candidate_generation = d.generation,
           d.state \in {"declared", "failed", "dispatched"}, Attempted(d, Cardinality(S)),
           \A n \in S : n.candidate_generation \in Nat /\ n.candidate_generation < d.generation,
           \A n, o \in S : n.candidate_generation = o.candidate_generation => n = o
    PROVE  Sent(IF d.state = "dispatched" THEN S \cup {m} ELSE S, d)
<1>1. CASE d.state = "dispatched"
  <2> DEFINE T == S \cup {m}
  <2>1. m \notin S
    OBVIOUS
  <2>2. IsFiniteSet(T) /\ Cardinality(T) = Cardinality(S) + 1
    BY <2>1, FS_AddElement
  <2>3. d.attempts_used = Cardinality(S) + 1
    BY <1>1 DEF Attempted
  <2>4. /\ \A n \in T : /\ n.candidate_generation \in Nat /\ n.candidate_generation <= d.generation
                        /\ d.state = "declared" => n.candidate_generation < d.generation
        /\ \A n, o \in T : n.candidate_generation = o.candidate_generation => n = o
    BY <1>1
  <2>5. Sent(T, d)
    BY <2>2, <2>3, <2>4 DEF Sent
  <2> QED
    BY <1>1, <2>5
<1>2. CASE d.state # "dispatched"
  BY <1>2 DEF Sent, Attempted
<1> QED
  BY <1>1, <1>2

\* advance sends what it dispatches, once.
LEMMA DispatchAdvance ==
    ASSUME TypeOK, WorkInv(work), WorkInv(work'), DispatchInv, advance_open, Planned(work, work')
    PROVE  DispatchInv'
<1>1. /\ UNCHANGED <<generation, execution, Key>>
      /\ dispatches' = dispatches \cup NewDispatches(work')
  BY DEF advance_open, engine, gate, Key
<1>2. Key \in Nat \X Nat /\ ~Log!Precedes(Key, Key)
  BY DEF TypeOK, Key, Log!Precedes
<1>3. \A m \in NewDispatches(work') :
         KeyOf(m) = Key /\ m.candidate \in DOMAIN work'.candidates
  BY DEF NewDispatches, DispatchOf, KeyOf, Key, CandidatesIn
<1>4. DOMAIN work.candidates \subseteq DOMAIN work'.candidates
  BY DEF Planned
<1>5. \A m \in dispatches' :
         /\ KeyOf(m) \in Nat \X Nat
         /\ \/ Log!Precedes(KeyOf(m), Key')
            \/ KeyOf(m) = Key' /\ m.candidate \in DOMAIN work'.candidates
  BY <1>1, <1>2, <1>3, <1>4 DEF DispatchInv
<1>6. ASSUME NEW i \in DOMAIN work'.candidates
      PROVE  /\ Sent(Attempts(i), work.candidates[i])'
             /\ (work.candidates[i].state = "dispatched" =>
                    DispatchOf(i, work.candidates[i]) \in dispatches)'
  <2> DEFINE c == work.candidates[i]
             d == work'.candidates[i]
             m == DispatchOf(i, d)
             S == Attempts(i)
             T == Attempts(i)'
  <2>1. d.state = "dispatched" => m \in NewDispatches(work')
    BY DEF NewDispatches, CandidatesIn
  <2>2. T = IF d.state = "dispatched" THEN S \cup {m} ELSE S
    <3>1. \A n \in NewDispatches(work') :
             n.candidate = i => n = m /\ d.state = "dispatched"
      BY DEF NewDispatches, CandidatesIn, DispatchOf
    <3>2. m.candidate = i /\ KeyOf(m) = Key
      BY DEF DispatchOf, KeyOf, Key
    <3>3. T = {n \in dispatches' : KeyOf(n) = Key /\ n.candidate = i}
      BY <1>1 DEF Attempts
    <3>4. S = {n \in dispatches : KeyOf(n) = Key /\ n.candidate = i}
      BY DEF Attempts
    <3> HIDE DEF m, S, T, d
    <3> QED
      BY <1>1, <1>3, <2>1, <3>1, <3>2, <3>3, <3>4
  <2>3. d.generation \in Nat /\ m.candidate_generation = d.generation
    BY SlotType DEF WorkInv, DispatchOf
  <2>4. Sent(T, d)
    <3>1. CASE i \in DOMAIN work.candidates /\ d = c
      <4>1. Sent(S, c) /\ (c.state = "dispatched" => m \in dispatches)
        BY <3>1 DEF DispatchInv
      <4>2. m.candidate = i /\ KeyOf(m) = Key
        BY DEF DispatchOf, KeyOf, Key
      <4>3. c.state = "dispatched" => m \in S
        BY <4>1, <4>2 DEF Attempts
      <4>4. T = S
        <5> HIDE DEF m, S, T
        <5> QED
          BY <2>2, <3>1, <4>3
      <4> QED
        BY <3>1, <4>1, <4>4
    <3>2. CASE i \in DOMAIN work.candidates /\ d # c
      <4>1. /\ d.generation = c.generation /\ c.state = "declared"
            /\ d.state \in {"declared", "failed", "dispatched"} /\ Attempted(d, c.attempts_used)
        BY <3>2 DEF Planned, PlannedSlot
      <4>2. Sent(S, c)
        BY <3>2 DEF DispatchInv
      <4>3. /\ IsFiniteSet(S) /\ Attempted(d, Cardinality(S))
            /\ \A n \in S : n.candidate_generation \in Nat /\ n.candidate_generation < d.generation
            /\ \A n, o \in S : n.candidate_generation = o.candidate_generation => n = o
        <5> HIDE DEF S, c, d
        <5> QED
          BY <4>1, <4>2 DEF Sent
      <4> HIDE DEF S, T, d, m
      <4> QED
        BY <2>2, <2>3, <4>1, <4>3, OneMoreSent
    <3>3. CASE i \notin DOMAIN work.candidates
      <4>1. /\ d.generation = 1 /\ d.state \in {"declared", "failed", "dispatched"}
            /\ Attempted(d, 0)
        BY <3>3 DEF Planned, FreshSlot
      <4>2. S = {}
        BY <1>2, <3>3 DEF DispatchInv, Attempts
      <4>3. IsFiniteSet(S) /\ Cardinality(S) = 0
        BY <4>2, FS_EmptySet
      <4> HIDE DEF S, T, d, m
      <4> QED
        BY <2>2, <2>3, <4>1, <4>2, <4>3, OneMoreSent
    <3> QED
      BY <3>1, <3>2, <3>3
  <2>5. d.state = "dispatched" => DispatchOf(i, work.candidates[i])' \in dispatches'
    BY <1>1, <2>1 DEF DispatchOf
  <2> QED
    BY <2>4, <2>5
<1> QED
  BY <1>5, <1>6 DEF DispatchInv

\* Every step keeps the invariant of the dispatches.
LEMMA DispatchStep ==
    ASSUME TypeOK, EvidenceInv, SelectionInv, DispatchInv, [EngineNext]_vars
    PROVE  DispatchInv'
<1>1. WorkInv(work) /\ WorkInv(work')
  BY EvidenceStep DEF EvidenceInv
<1>2. CASE define_ensemble \/ open_execution
  BY <1>2, DispatchNew
<1>3. CASE advance_open /\ Planned(work, work')
  BY <1>1, <1>3, DispatchAdvance
<1>4. ASSUME NEW c \in Callers, Publishing(c) PROVE DispatchInv'
  <2> DEFINE r == calls[c].result
  <2>1. UNCHANGED <<Key, dispatches>>
    BY <1>4 DEF Publishing
  <2>2. CASE r.decision = "committed"
    <3> DEFINE id == r.candidate
    <3>1. id \in CandidatesIn(work, ContentStates)
      BY <1>4, <2>2 DEF SelectionInv, Publishing
    <3>2. work' = [work EXCEPT !.candidates = Selected(work.candidates, id)]
      BY <1>4, <2>2 DEF Publishing
    <3> HIDE DEF r, id
    <3>3. /\ DOMAIN work'.candidates = DOMAIN work.candidates
          /\ \A i \in DOMAIN work.candidates :
                LET a == work.candidates[i]
                    d == work'.candidates[i]
                IN /\ d.generation = a.generation /\ d.attempts_used = a.attempts_used
                   /\ in_flight(a) \/ in_flight(d) => d = a
      BY <1>1, <3>1, <3>2, SelectedKeeps
    <3>4. \A i \in DOMAIN work.candidates : work.candidates[i].generation \in Nat
      BY <1>1, SlotType DEF WorkInv
    <3>5. \A i \in DOMAIN work.candidates :
             LET a == work.candidates[i]
                 d == work'.candidates[i]
             IN /\ d.attempts_used = a.attempts_used /\ a.generation <= d.generation
                /\ d.state = "declared" => a.state = "declared" \/ a.generation < d.generation
                /\ d.state = "dispatched" => d = a
      BY <3>3, <3>4 DEF in_flight
    <3> QED
      BY <1>1, <2>1, <3>3, <3>5, DispatchQuiet
  <2>3. CASE r.decision # "committed"
    <3>1. work' = work /\ UNCHANGED <<generation, execution>>
      BY <1>4, <2>3 DEF Publishing, Key
    <3> QED
      BY <2>1, <3>1 DEF DispatchInv, Attempts, DispatchOf
  <2> QED
    BY <2>2, <2>3
<1>5. CASE Answering
  <2>1. UNCHANGED <<Key, dispatches>> /\ Answered(work, work')
    BY <1>5 DEF Answering
  <2>2. \A i \in DOMAIN work.candidates :
           LET c == work.candidates[i]
               d == work'.candidates[i]
           IN /\ d.attempts_used = c.attempts_used /\ c.generation <= d.generation
              /\ d.state = "declared" => c.state = "declared" \/ c.generation < d.generation
              /\ d.state = "dispatched" => d = c
    BY <2>1 DEF Answered, AnsweredSlot
  <2> QED
    BY <1>1, <2>1, <2>2, DispatchQuiet DEF Answered
<1> QED
  BY <1>2, <1>3, <1>4, <1>5, EvidenceStep

-----------------------------------------------------------------------------
(* The theorems. *)

\* The inductive invariant of the whole engine: the gate, what callers hold, and the evidence.
EngineInv ==
    /\ TypeOK /\ GateInv /\ PreparedInv /\ PublishedIsDecision
    /\ EvidenceInv /\ SelectionInv /\ DispatchInv

\* The engine starts in the invariant and no operation leaves it, whatever authority a submission
\* conveys: the state keeps its types, the evidence follows its stages, votes are attributed,
\* dispatches are counted and held, and what callers have prepared still names what they
\* prepared it from.
THEOREM AnyAuthority == Init /\ [][EngineNext]_vars => []EngineInv
<1>1. Init => EngineInv
  BY TypeInit, GateInit, DecisionInit, EvidenceInit, SelectionInit, DispatchInit DEF EngineInv
<1>2. EngineInv /\ [EngineNext]_vars => EngineInv'
  <2> SUFFICES ASSUME EngineInv, [EngineNext]_vars PROVE EngineInv'
    OBVIOUS
  <2>1. TypeOK' /\ GateInv' /\ PreparedInv' /\ PublishedIsDecision'
    BY TypeStep, GateStep, DecisionStep DEF EngineInv
  <2>2. EvidenceInv' /\ SelectionInv' /\ DispatchInv'
    BY EvidenceStep, SelectionStep, DispatchStep DEF EngineInv
  <2> QED
    BY <2>1, <2>2 DEF EngineInv
<1> QED
  BY <1>1, <1>2, PTL

\* In particular when workers only answer what they were sent.
LEMMA EngineInvariant == Spec => []EngineInv
BY AnyAuthority, NextIsEngineNext, PTL DEF Spec

\* The evidence part of the invariant, for itself (EvidenceInv).
THEOREM EvidenceSound == Spec => []EvidenceInv
<1>1. EngineInv => EvidenceInv
  BY DEF EngineInv
<1> QED
  BY <1>1, EngineInvariant, PTL

\* Every message ever sent for a slot of the current execution is accounted for, one per attempt
\* and each in a generation of its own (DispatchInv).
THEOREM DispatchesAreCounted == Spec => []DispatchInv
<1>1. EngineInv => DispatchInv
  BY DEF EngineInv
<1> QED
  BY <1>1, EngineInvariant, PTL

\* What callers hold between prepare_result and commit_result still names the candidate, and the
\* content, it was arbitrated with (SelectionInv).
THEOREM PreparedContentStands == Spec => []SelectionInv
<1>1. EngineInv => SelectionInv
  BY DEF EngineInv
<1> QED
  BY <1>1, EngineInvariant, PTL

\* Held dispatches are not orphaned.
LEMMA HeldDispatches == EvidenceInv => NoOrphanedDispatch
BY DEF EvidenceInv, DispatchesHeld, HeldBy, NoOrphanedDispatch, CandidatesIn

\* A dispatched candidate of an open execution is held by the incarnation it was sent to, which
\* is still registered, whatever failure reports, restarts and registrations happen
\* (NoOrphanedDispatch).
THEOREM DispatchesAreHeld == Spec => []NoOrphanedDispatch
BY HeldDispatches, EvidenceSound, PTL

\* Evidence is about candidates that are not in flight.
LEMMA NoInheritedVotes == EvidenceInv => InFlightHasNoEvidence
<1> SUFFICES ASSUME EvidenceInv, NEW i \in DOMAIN work.candidates,
                    in_flight(work.candidates[i])
             PROVE  /\ \A k \in DOMAIN work.evaluations : work.evaluations[k].candidate # i
                    /\ \A q \in work.pending : q.candidate # i
  BY DEF InFlightHasNoEvidence
<1>1. VotesKept(work)
  BY DEF EvidenceInv, WorkInv
<1>2. i \notin CandidatesIn(work, ContentStates \cup {"rejected"})
  BY DEF CandidatesIn, in_flight, ContentStates
<1> QED
  BY <1>1, <1>2 DEF VotesKept

\* What is in flight has neither evaluations nor planned ones, so a retry never inherits a vote
\* (InFlightHasNoEvidence).
THEOREM RetriesInheritNothing == Spec => []InFlightHasNoEvidence
BY NoInheritedVotes, EvidenceSound, PTL

\* Votes that are kept are sound.
LEMMA SoundVotes == EvidenceInv => EvidenceIntegrity
BY DEF EvidenceInv, WorkInv, VotesKept, SameVote, EvidenceIntegrity

\* A vote is about the content its candidate has, and no evaluator generation votes twice on a
\* candidate under one criterion (EvidenceIntegrity).
THEOREM VotesAreSound == Spec => []EvidenceIntegrity
BY SoundVotes, EvidenceSound, PTL

\* A planner that is past a stage has nothing in flight there.
LEMMA OrderedStages == EvidenceInv => StageBarrier
<1> SUFFICES ASSUME EvidenceInv, NEW i \in DOMAIN work.candidates,
                    NEW j \in DOMAIN work.candidates,
                    work.candidates[i].stage < work.candidates[j].stage
             PROVE  ~in_flight(work.candidates[i])
  BY DEF StageBarrier
<1>1. WorkInv(work) /\ work.stage_index \in Nat
  BY DEF EvidenceInv, WorkInv, WorkRecord
<1>2. work.candidates[i].stage \in Nat /\ work.candidates[j].stage \in Nat
  BY <1>1, SlotType DEF WorkInv, CandidateRecord
<1>3. work.candidates[j].stage <= work.stage_index + 1
  BY <1>1 DEF WorkInv, StagesKept
<1>4. work.candidates[i].stage <= work.stage_index
  BY <1>1, <1>2, <1>3
<1> QED
  BY <1>1, <1>4 DEF WorkInv, StagesKept

\* A stage starts when every earlier one has resolved and nothing reopens one (StageBarrier).
THEOREM StagesAreOrdered == Spec => []StageBarrier
BY OrderedStages, EvidenceSound, PTL

\* The sequence of a stage, read off the current stages.
LEMMA SequentialStages == EvidenceInv => SequentialDiscipline
<1> SUFFICES ASSUME EvidenceInv, NEW i \in CandidatesIn(work, {"dispatched"}),
                    StagesOf(work)[work.candidates[i].stage].mode = "sequential",
                    NEW j \in InStage(work, work.candidates[i].stage) \ {i}
             PROVE  /\ work.candidates[j].state # "dispatched"
                    /\ j < i => ~in_flight(work.candidates[j])
  BY DEF SequentialDiscipline
<1> DEFINE k == work.candidates[i].stage
<1>1. /\ i \in DOMAIN work.candidates /\ work.candidates[i].state = "dispatched"
      /\ j \in DOMAIN work.candidates /\ work.candidates[j].stage = k /\ i # j
  BY DEF CandidatesIn, InStage
<1>2. WorkInv(work) /\ work.fallback_depth \in Nat
  BY DEF EvidenceInv, WorkInv, WorkRecord
<1>3. k \in Nat \ {0} /\ k <= Len(effective_stages) + work.fallback_depth
  BY <1>1, <1>2, SlotType DEF WorkInv, CandidateRecord, StagesKept
<1>4. StagesOf(work)[k] = StageAt(k)
  BY <1>2, <1>3, StagesOfStages
<1>5. StageAt(k).mode = "sequential"
  BY <1>4
<1> QED
  BY <1>1, <1>2, <1>5 DEF WorkInv, SequenceKept

\* In a sequential stage whoever is out is alone, and everyone before it has resolved
\* (SequentialDiscipline).
THEOREM SequencesAreSequential == Spec => []SequentialDiscipline
BY SequentialStages, EvidenceSound, PTL

\* A fallback candidate shows that a fallback was activated.
LEMMA ExclusiveFallback == EvidenceInv => FallbackReplacesPrimaries
<1> SUFFICES ASSUME EvidenceInv, spec.fallback.triggers = {"all_primary_invalid"},
                    NEW i \in DOMAIN work.candidates, work.candidates[i].fallback,
                    NEW j \in DOMAIN work.candidates, ~work.candidates[j].fallback
             PROVE  /\ ~in_flight(work.candidates[j])
                    /\ ~is_content_state(work.candidates[j].state)
  BY DEF FallbackReplacesPrimaries
<1>1. WorkInv(work) /\ work.fallback_depth \in Nat
  BY DEF EvidenceInv, WorkInv, WorkRecord
<1>2. work.candidates[i].stage > Len(effective_stages)
  BY <1>1 DEF WorkInv, StagesKept, IsFallbackStage
<1>3. work.candidates[i].stage \in Nat /\ Len(effective_stages) \in Nat
      /\ work.candidates[i].stage <= Len(effective_stages) + work.fallback_depth
  BY <1>1, SlotType, StagesOfStages DEF WorkInv, CandidateRecord, StagesKept
<1>4. work.fallback_depth > 0
  BY <1>1, <1>2, <1>3
<1> QED
  BY <1>1, <1>4 DEF WorkInv, FallbackKept

\* When fallback is only authorized because no primary is valid, a fallback candidate and primary
\* content exclude each other for ever (FallbackReplacesPrimaries).
THEOREM FallbackIsExclusive == Spec => []FallbackReplacesPrimaries
BY ExclusiveFallback, EvidenceSound, PTL

\* No slot is dispatched more often than the retry policy allows, attempts_used counts the
\* dispatches, and every attempt is dispatched once (AttemptBudget).
THEOREM AttemptsAreBounded == Spec => []AttemptBudget
<1>1. EngineInv => AttemptBudget
  <2> SUFFICES ASSUME EngineInv, NEW i \in DOMAIN work.candidates
               PROVE  /\ Cardinality(Attempts(i)) <= spec.retry.max_attempts
                      /\ Cardinality(Attempts(i)) = work.candidates[i].attempts_used
                      /\ \A m, n \in Attempts(i) :
                            m.candidate_generation = n.candidate_generation => m = n
    BY DEF AttemptBudget
  <2>1. Sent(Attempts(i), work.candidates[i])
    BY DEF EngineInv, DispatchInv
  <2>2. work.candidates[i].attempts_used <= spec.retry.max_attempts
    BY DEF EngineInv, EvidenceInv, WorkInv, BudgetKept
  <2> QED
    BY <2>1, <2>2 DEF Sent
<1> QED
  BY <1>1, EngineInvariant, PTL

\* The selected candidate has the content that the result names.
LEMMA SelectedResult == SelectionInv => SelectionMatchesResult
<1> SUFFICES ASSUME SelectionInv, has_result, result.decision = "committed"
             PROVE  LET c == work.candidates[result.candidate]
                    IN /\ CandidatesIn(work, {"selected"}) = {result.candidate}
                       /\ result.payload # 0 /\ c.payload = result.payload
                       /\ c.generation = result.candidate_generation
                       /\ c.participant = result.participant
  BY DEF SelectionMatchesResult
<1>1. NamesCandidate(work, result) /\ CandidatesIn(work, {"selected"}) = {result.candidate}
  BY DEF SelectionInv
<1>2. result.candidate \in CandidatesIn(work, ContentStates)
  BY <1>1 DEF CandidatesIn, ContentStates
<1>3. work.candidates[result.candidate].payload # 0
  BY <1>2 DEF SelectionInv
<1> QED
  BY <1>1, <1>3 DEF NamesCandidate

\* A committed result names the one candidate held as selected, with the payload, generation and
\* participant that were arbitrated (SelectionMatchesResult).
THEOREM SelectionIsResult == Spec => []SelectionMatchesResult
<1>1. EngineInv => SelectionInv
  BY DEF EngineInv
<1> QED
  BY <1>1, SelectedResult, EngineInvariant, PTL
=============================================================================
