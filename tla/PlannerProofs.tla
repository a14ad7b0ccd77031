---------------------------- MODULE PlannerProofs ----------------------------
(***************************************************************************)
(* Proofs about the passes of advance: after at most three passes that     *)
(* make progress the planner has nothing left to declare, dispatch, plan,  *)
(* emit or activate, so that calling it again changes nothing.             *)
(***************************************************************************)
EXTENDS EvidenceProofs

-----------------------------------------------------------------------------
(* One scan of a stage, as DispatchStage computes it. *)

Waiting(w, k) == {i \in InStage(w, k) : w.candidates[i].state = "declared"}
Ready(w, k, e) ==
    {i \in Waiting(w, k) : authoritative(e.participants[w.candidates[i].participant], e.epoch)}
IsSequential(w, k) == StagesOf(w)[k].mode = "sequential"
Scanned(w, k, e) ==
    IF IsSequential(w, k) /\ Ready(w, k, e) # {}
      THEN {i \in Waiting(w, k) : i <= Min(Ready(w, k, e))} ELSE Waiting(w, k)
Doomed(w, k, e) ==
    {i \in Scanned(w, k, e) \ Ready(w, k, e) : Unservable(w.candidates[i], e)}
Dispatchable(w, k, e) ==
    {i \in Scanned(w, k, e) \cap Ready(w, k, e) :
        IsSequential(w, k) => ~earlier_pending(w, k, i, Doomed(w, k, e))}
\* What becomes of slot i.
Outcome(w, k, e, i) ==
    LET c == w.candidates[i]
    IN IF i \in Dispatchable(w, k, e) THEN Dispatched(c, e)
       ELSE IF i \in Scanned(w, k, e)
         THEN [(IF i \in Doomed(w, k, e) THEN failed_candidate(c) ELSE c) EXCEPT
                 !.participant_generation = e.participants[c.participant].generation]
         ELSE c
Served(w, k, e) ==
    supersede_candidate_evidence(
        [w EXCEPT !.candidates = [i \in DOMAIN @ |-> Outcome(w, k, e, i)]], Doomed(w, k, e))

\* A scan that sends and fails nobody and finds every generation up to date.
Spent(w, k, e) ==
    /\ Doomed(w, k, e) = {} /\ Dispatchable(w, k, e) = {}
    /\ \A i \in Scanned(w, k, e) :
          w.candidates[i].participant_generation =
              e.participants[w.candidates[i].participant].generation

\* DispatchStage is one scan.
LEMMA DispatchServes ==
    ASSUME NEW x, NEW k, NEW e
    PROVE  DispatchStage(x, k, e) =
               [x EXCEPT !.w = Served(x.w, k, e),
                         !.progress = @ \/ Doomed(x.w, k, e) # {} \/ Dispatchable(x.w, k, e) # {}]
BY Zenon DEF DispatchStage, Served, Outcome, Dispatchable, Doomed, Scanned, IsSequential, Ready,
             Waiting

\* Slots a scan sends or fails were waiting.
LEMMA ScanSets ==
    ASSUME NEW w, NEW k, NEW e
    PROVE  /\ Scanned(w, k, e) \subseteq Waiting(w, k) /\ Ready(w, k, e) \subseteq Waiting(w, k)
           /\ Dispatchable(w, k, e) \subseteq Scanned(w, k, e) \cap Ready(w, k, e)
           /\ Doomed(w, k, e) \subseteq Scanned(w, k, e) \ Ready(w, k, e)
           /\ Waiting(w, k) \subseteq InStage(w, k) /\ InStage(w, k) \subseteq DOMAIN w.candidates
<1>1. Scanned(w, k, e) \subseteq Waiting(w, k)
  BY DEF Scanned
<1>2. Ready(w, k, e) \subseteq Waiting(w, k)
  BY DEF Ready
<1>3. Dispatchable(w, k, e) \subseteq Scanned(w, k, e) \cap Ready(w, k, e)
  BY DEF Dispatchable
<1>4. Doomed(w, k, e) \subseteq Scanned(w, k, e) \ Ready(w, k, e)
  BY DEF Doomed
<1>5. Waiting(w, k) \subseteq InStage(w, k) /\ InStage(w, k) \subseteq DOMAIN w.candidates
  BY DEF Waiting, InStage
<1> QED
  BY <1>1, <1>2, <1>3, <1>4, <1>5

\* A scan changes slots and the evidence about those it fails, nothing else.
LEMMA ServedFields ==
    ASSUME NEW w \in WorkRecord, NEW k, NEW e
    PROVE  LET v == Served(w, k, e)
           IN /\ v.candidates = [i \in DOMAIN w.candidates |-> Outcome(w, k, e, i)]
              /\ v.stage_index = w.stage_index /\ v.fallback_depth = w.fallback_depth
              /\ v.declared_current_stage = w.declared_current_stage
              /\ v.fallback_activated = w.fallback_activated
<1> DEFINE cs == [i \in DOMAIN w.candidates |-> Outcome(w, k, e, i)]
           u == [w EXCEPT !.candidates = cs]
           ids == Doomed(w, k, e)
           votes == [i \in DOMAIN u.evaluations |->
                       IF u.evaluations[i].candidate \in ids
                         THEN [u.evaluations[i] EXCEPT !.current = FALSE] ELSE u.evaluations[i]]
           plans == {q \in u.pending : q.candidate \in ids => q.answered}
           v == [u EXCEPT !.evaluations = votes, !.pending = plans]
<1>1. Served(w, k, e) = v
  BY Zenon DEF Served, supersede_candidate_evidence
<1> HIDE DEF cs, votes, plans
<1>2. /\ v.candidates = cs /\ v.stage_index = w.stage_index
      /\ v.fallback_depth = w.fallback_depth
      /\ v.declared_current_stage = w.declared_current_stage
      /\ v.fallback_activated = w.fallback_activated
  BY DEF WorkRecord
<1> HIDE DEF v
<1> QED
  BY <1>1, <1>2 DEF cs

\* A scan does not move the planner.
LEMMA ServedPosition ==
    ASSUME NEW w \in WorkRecord, NEW k, NEW e
    PROVE  /\ Served(w, k, e).stage_index = w.stage_index
           /\ Served(w, k, e).fallback_depth = w.fallback_depth
           /\ Served(w, k, e).declared_current_stage = w.declared_current_stage
           /\ Served(w, k, e).fallback_activated = w.fallback_activated
<1> DEFINE v == Served(w, k, e)
<1>1. /\ v.candidates = [i \in DOMAIN w.candidates |-> Outcome(w, k, e, i)]
      /\ v.stage_index = w.stage_index /\ v.fallback_depth = w.fallback_depth
      /\ v.declared_current_stage = w.declared_current_stage
      /\ v.fallback_activated = w.fallback_activated
  BY ServedFields
<1> HIDE DEF v
<1> QED
  BY <1>1 DEF v

\* What a scan makes of a slot.
LEMMA OutcomeIs ==
    ASSUME NEW w \in WorkRecord, NEW k, NEW e, IsEnv(e), NEW i \in DOMAIN w.candidates
    PROVE  LET c == w.candidates[i]
               d == Outcome(w, k, e, i)
           IN /\ d.participant = c.participant /\ d.stage = c.stage
              /\ i \in Dispatchable(w, k, e) => d.state = "dispatched"
              /\ i \in Doomed(w, k, e) => d.state = "failed"
              /\ i \notin Dispatchable(w, k, e) \cup Doomed(w, k, e) =>
                    d.state = c.state /\ d.attempts_used = c.attempts_used
              /\ i \in Scanned(w, k, e) \ Dispatchable(w, k, e) =>
                    d.participant_generation = e.participants[c.participant].generation
              /\ i \notin Scanned(w, k, e) => d = c
<1> DEFINE c == w.candidates[i]
<1>1. c \in CandidateRecord
  BY SlotType
<1>2. PICK g \in Nat : g = e.participants[c.participant].generation
  BY <1>1 DEF IsEnv, ParticipantRecord, CandidateRecord
<1>3. Dispatchable(w, k, e) \cap Doomed(w, k, e) = {} /\ Doomed(w, k, e) \subseteq Scanned(w, k, e)
      /\ Dispatchable(w, k, e) \subseteq Scanned(w, k, e)
  BY ScanSets
<1>4. CASE i \in Dispatchable(w, k, e)
  <2>1. Outcome(w, k, e, i) = Dispatched(c, e)
    BY <1>4 DEF Outcome
  <2>2. Dispatched(c, e).state = "dispatched" /\ SameSlot(c, Dispatched(c, e))
    BY <1>1, DispatchedType
  <2> QED
    BY <1>3, <1>4, <2>1, <2>2 DEF SameSlot
<1>5. CASE i \in Doomed(w, k, e)
  <2>1. Outcome(w, k, e, i) = [failed_candidate(c) EXCEPT !.participant_generation = g]
    BY <1>2, <1>3, <1>5 DEF Outcome
  <2>2. failed_candidate(c) \in CandidateRecord /\ failed_candidate(c).state = "failed"
        /\ SameSlot(c, failed_candidate(c))
    BY <1>1, FailedType
  <2> DEFINE f == failed_candidate(c)
             d == [f EXCEPT !.participant_generation = g]
  <2> HIDE DEF f, c
  <2>3. d.state = f.state /\ SameSlot(f, d) /\ d.participant_generation = g
    BY <2>2 DEF f, CandidateRecord, SameSlot
  <2> HIDE DEF d
  <2> QED
    BY <1>2, <1>3, <1>5, <2>1, <2>2, <2>3 DEF SameSlot, f, d, c
<1>6. CASE i \notin Dispatchable(w, k, e) \cup Doomed(w, k, e)
  <2>1. CASE i \in Scanned(w, k, e)
    <3>1. Outcome(w, k, e, i) = [c EXCEPT !.participant_generation = g]
      BY <1>2, <1>6, <2>1 DEF Outcome
    <3> DEFINE d == [c EXCEPT !.participant_generation = g]
    <3> HIDE DEF c
    <3>2. d.state = c.state /\ SameSlot(c, d) /\ d.attempts_used = c.attempts_used
          /\ d.participant_generation = g
      BY <1>1 DEF CandidateRecord, SameSlot
    <3> HIDE DEF d
    <3> QED
      BY <1>2, <1>6, <2>1, <3>1, <3>2 DEF SameSlot, d, c
  <2>2. CASE i \notin Scanned(w, k, e)
    <3>1. Outcome(w, k, e, i) = c
      BY <1>6, <2>2 DEF Outcome
    <3> QED
      BY <1>6, <2>2, <3>1
  <2> QED
    BY <2>1, <2>2
<1> QED
  BY <1>4, <1>5, <1>6

\* What is left after a scan.
LEMMA ServedSlots ==
    ASSUME NEW w \in WorkRecord, NEW k, NEW e, IsEnv(e)
    PROVE  LET v == Served(w, k, e)
           IN /\ DOMAIN v.candidates = DOMAIN w.candidates
              /\ InStage(v, k) = InStage(w, k)
              /\ IsSequential(v, k) = IsSequential(w, k)
              /\ Waiting(v, k) = Waiting(w, k) \ (Dispatchable(w, k, e) \cup Doomed(w, k, e))
              /\ Ready(v, k, e) = Ready(w, k, e) \ Dispatchable(w, k, e)
              /\ \A i \in Waiting(v, k) :
                    Unservable(v.candidates[i], e) <=> Unservable(w.candidates[i], e)
              /\ \A i \in DOMAIN w.candidates : v.candidates[i] = Outcome(w, k, e, i)
<1> DEFINE v == Served(w, k, e)
           gone == Dispatchable(w, k, e) \cup Doomed(w, k, e)
<1>1. /\ v.candidates = [i \in DOMAIN w.candidates |-> Outcome(w, k, e, i)]
      /\ v.fallback_depth = w.fallback_depth
  BY ServedFields
<1> HIDE DEF v
<1>2. /\ DOMAIN v.candidates = DOMAIN w.candidates
      /\ \A i \in DOMAIN w.candidates : v.candidates[i] = Outcome(w, k, e, i)
  BY <1>1
<1>3. ASSUME NEW i \in DOMAIN w.candidates
      PROVE  /\ v.candidates[i].participant = w.candidates[i].participant
             /\ v.candidates[i].stage = w.candidates[i].stage
             /\ i \in Dispatchable(w, k, e) => v.candidates[i].state = "dispatched"
             /\ i \in Doomed(w, k, e) => v.candidates[i].state = "failed"
             /\ i \notin gone => /\ v.candidates[i].state = w.candidates[i].state
                                 /\ v.candidates[i].attempts_used = w.candidates[i].attempts_used
  BY <1>2, OutcomeIs
<1>4. InStage(v, k) = InStage(w, k)
  BY <1>2, <1>3 DEF InStage
<1>5. IsSequential(v, k) = IsSequential(w, k)
  BY <1>1 DEF IsSequential, StagesOf
<1>6. Waiting(v, k) = Waiting(w, k) \ gone
  <2>1. \A i \in InStage(w, k) : i \in DOMAIN w.candidates
    BY DEF InStage
  <2>2. ASSUME NEW i \in InStage(w, k)
        PROVE  v.candidates[i].state = "declared" <=>
                   w.candidates[i].state = "declared" /\ i \notin gone
    BY <1>3, <2>1, <2>2
  <2> HIDE DEF gone
  <2> QED
    BY <1>4, <2>2 DEF Waiting
<1>7. Ready(v, k, e) = Ready(w, k, e) \ Dispatchable(w, k, e)
  <2>1. Ready(w, k, e) \cap Doomed(w, k, e) = {} /\ Waiting(w, k) \subseteq DOMAIN w.candidates
    BY ScanSets
  <2>2. \A i \in Waiting(w, k) : v.candidates[i].participant = w.candidates[i].participant
    BY <1>3, <2>1
  <2> QED
    BY <1>6, <2>1, <2>2 DEF Ready
<1>8. \A i \in Waiting(v, k) : Unservable(v.candidates[i], e) <=> Unservable(w.candidates[i], e)
  <2>1. Waiting(v, k) \subseteq DOMAIN w.candidates \ gone
    BY <1>6, ScanSets
  <2> HIDE DEF gone
  <2> QED
    BY <1>3, <2>1 DEF Unservable, gone
<1> QED
  BY <1>2, <1>4, <1>5, <1>6, <1>7, <1>8 DEF v

\* A scan leaves nobody unattended whom it looked at.
LEMMA RescanIdle ==
    ASSUME NEW w \in WorkRecord, NEW k, NEW e, IsEnv(e),
           Scanned(Served(w, k, e), k, e) \subseteq Scanned(w, k, e),
           Dispatchable(Served(w, k, e), k, e) = {}
    PROVE  Spent(Served(w, k, e), k, e)
<1> DEFINE v == Served(w, k, e)
<1>1. /\ Waiting(v, k) = Waiting(w, k) \ (Dispatchable(w, k, e) \cup Doomed(w, k, e))
      /\ Ready(v, k, e) = Ready(w, k, e) \ Dispatchable(w, k, e)
      /\ \A i \in Waiting(v, k) : Unservable(v.candidates[i], e) <=> Unservable(w.candidates[i], e)
      /\ \A i \in DOMAIN w.candidates : v.candidates[i] = Outcome(w, k, e, i)
  BY ServedSlots
<1> HIDE DEF v
<1>2. Scanned(v, k, e) \subseteq Waiting(v, k)
  BY ScanSets
<1>3. Doomed(v, k, e) = {}
  <2> SUFFICES ASSUME NEW i \in Doomed(v, k, e) PROVE FALSE
    OBVIOUS
  <2>1. i \in Scanned(v, k, e) \ Ready(v, k, e) /\ Unservable(v.candidates[i], e)
    BY DEF Doomed
  <2>2. i \in Scanned(w, k, e) \ Ready(w, k, e) /\ Unservable(w.candidates[i], e)
    BY <1>1, <1>2, <2>1 DEF v
  <2>3. i \in Doomed(w, k, e)
    BY <2>2 DEF Doomed
  <2> QED
    BY <1>1, <1>2, <2>1, <2>3
<1>4. ASSUME NEW i \in Scanned(v, k, e)
      PROVE  v.candidates[i].participant_generation =
                 e.participants[v.candidates[i].participant].generation
  <2>1. i \in Scanned(w, k, e) \ Dispatchable(w, k, e) /\ i \in DOMAIN w.candidates
    BY <1>1, <1>2, ScanSets DEF v
  <2>2. v.candidates[i] = Outcome(w, k, e, i)
    BY <1>1, <2>1
  <2> QED
    BY <2>1, <2>2, OutcomeIs
<1> QED
  BY <1>3, <1>4 DEF Spent, v

\* Who is in flight before i and not about to fail is still there after a scan that sends nobody.
LEMMA PendingStays ==
    ASSUME NEW w \in WorkRecord, NEW k, NEW e, IsEnv(e), Dispatchable(w, k, e) = {},
           NEW i, earlier_pending(w, k, i, Doomed(w, k, e))
    PROVE  earlier_pending(Served(w, k, e), k, i, {})
<1> DEFINE v == Served(w, k, e)
<1>1. PICK j \in InStage(w, k) \ Doomed(w, k, e) : j < i /\ in_flight(w.candidates[j])
  BY DEF earlier_pending
<1>2. j \in DOMAIN w.candidates /\ j \in Nat
  BY <1>1, SlotType DEF InStage
<1>3. v.candidates[j] = Outcome(w, k, e, j) /\ j \in InStage(v, k)
  BY <1>1, <1>2, ServedSlots
<1>4. v.candidates[j].state = w.candidates[j].state
  BY <1>1, <1>2, <1>3, OutcomeIs
<1> QED
  BY <1>1, <1>3, <1>4 DEF earlier_pending, in_flight

\* Unless it sends the next slot of a sequential stage, one scan is enough.
LEMMA OneScan ==
    ASSUME NEW w \in WorkRecord, NEW k, NEW e, IsEnv(e),
           ~IsSequential(w, k) \/ Dispatchable(w, k, e) = {}
    PROVE  Spent(Served(w, k, e), k, e)
<1> DEFINE v == Served(w, k, e)
<1>1. /\ DOMAIN v.candidates = DOMAIN w.candidates /\ InStage(v, k) = InStage(w, k)
      /\ IsSequential(v, k) = IsSequential(w, k)
      /\ Waiting(v, k) = Waiting(w, k) \ (Dispatchable(w, k, e) \cup Doomed(w, k, e))
      /\ Ready(v, k, e) = Ready(w, k, e) \ Dispatchable(w, k, e)
  BY ServedSlots
<1> HIDE DEF v
<1>2. CASE ~IsSequential(w, k)
  <2>1. Scanned(v, k, e) = Waiting(v, k) /\ Scanned(w, k, e) = Waiting(w, k)
    BY <1>1, <1>2 DEF Scanned
  <2>2. Dispatchable(w, k, e) = Scanned(w, k, e) \cap Ready(w, k, e)
    BY <1>2 DEF Dispatchable
  <2>3. Dispatchable(v, k, e) = {}
    BY <1>1, <2>1, <2>2, ScanSets
  <2> QED
    BY <1>1, <2>1, <2>3, RescanIdle DEF v
<1>3. CASE IsSequential(w, k) /\ Dispatchable(w, k, e) = {}
  <2>1. Ready(v, k, e) = Ready(w, k, e)
    BY <1>1, <1>3
  <2>2. Scanned(v, k, e) \subseteq Scanned(w, k, e)
    <3>1. CASE Ready(w, k, e) = {}
      BY <1>1, <2>1, <3>1 DEF Scanned
    <3>2. CASE Ready(w, k, e) # {}
      BY <1>1, <1>3, <2>1, <3>2 DEF Scanned
    <3> QED
      BY <3>1, <3>2
  <2>3. Doomed(v, k, e) = {}
    <3> SUFFICES ASSUME NEW i \in Doomed(v, k, e) PROVE FALSE
      OBVIOUS
    <3>1. i \in Scanned(v, k, e) \ Ready(v, k, e) /\ Unservable(v.candidates[i], e)
      BY DEF Doomed
    <3>2. i \in Waiting(v, k)
      BY <3>1, ScanSets
    <3>3. Unservable(w.candidates[i], e)
      BY <3>1, <3>2, ServedSlots DEF v
    <3>4. i \in Doomed(w, k, e)
      BY <2>1, <2>2, <3>1, <3>3 DEF Doomed
    <3> QED
      BY <1>1, <3>2, <3>4
  <2>4. Dispatchable(v, k, e) = {}
    <3> SUFFICES ASSUME NEW i \in Dispatchable(v, k, e) PROVE FALSE
      OBVIOUS
    <3>1. i \in Scanned(w, k, e) \cap Ready(w, k, e) /\ ~earlier_pending(v, k, i, {})
      BY <1>1, <1>3, <2>1, <2>2, <2>3 DEF Dispatchable
    <3>2. earlier_pending(w, k, i, Doomed(w, k, e))
      BY <1>3, <3>1 DEF Dispatchable
    <3>3. earlier_pending(v, k, i, {})
      BY <1>3, <3>2, PendingStays DEF v
    <3> QED
      BY <3>1, <3>3
  <2> QED
    BY <2>2, <2>4, RescanIdle DEF v
<1> QED
  BY <1>2, <1>3

\* A slot that a scan of a sequential stage sends is out before whoever may be next.
LEMMA SentFirst ==
    ASSUME NEW w \in WorkRecord, NEW k, NEW e, IsEnv(e), IsSequential(w, k),
           NEW s \in Dispatchable(w, k, e)
    PROVE  LET v == Served(w, k, e)
           IN /\ s \in InStage(v, k) /\ s \in DOMAIN v.candidates
              /\ v.candidates[s].state = "dispatched"
              /\ Dispatchable(v, k, e) = {}
<1> DEFINE v == Served(w, k, e)
<1>1. /\ DOMAIN v.candidates = DOMAIN w.candidates /\ InStage(v, k) = InStage(w, k)
      /\ IsSequential(v, k) = IsSequential(w, k)
      /\ Waiting(v, k) = Waiting(w, k) \ (Dispatchable(w, k, e) \cup Doomed(w, k, e))
      /\ Ready(v, k, e) = Ready(w, k, e) \ Dispatchable(w, k, e)
  BY ServedSlots
<1>8. \A i \in DOMAIN w.candidates : v.candidates[i] = Outcome(w, k, e, i)
  BY ServedSlots
<1> HIDE DEF v
<1>2. /\ s \in Scanned(w, k, e) /\ s \in Ready(w, k, e) /\ s \in InStage(w, k)
      /\ s \in DOMAIN w.candidates
  BY ScanSets
<1>3. v.candidates[s].state = "dispatched"
  BY <1>2, <1>8, OutcomeIs
<1>4. Ready(w, k, e) \in SUBSET Nat /\ Ready(w, k, e) # {}
  <2>1. DOMAIN w.candidates \subseteq Nat
    BY SlotType
  <2>2. Ready(w, k, e) \subseteq DOMAIN w.candidates
    BY ScanSets
  <2> QED
    BY <1>2, <2>1, <2>2
<1>5. s <= Min(Ready(w, k, e))
  BY <1>2, <1>4 DEF Scanned
<1>6. Min(Ready(w, k, e)) \in Nat /\ \A i \in Ready(w, k, e) : Min(Ready(w, k, e)) <= i
  BY <1>4, MinIsLeast
<1>7. Dispatchable(v, k, e) = {}
  <2> SUFFICES ASSUME NEW i \in Dispatchable(v, k, e) PROVE FALSE
    OBVIOUS
  <2>1. i \in Ready(v, k, e) /\ ~earlier_pending(v, k, i, Doomed(v, k, e))
    BY <1>1 DEF Dispatchable
  <2>2. i \in Ready(w, k, e) /\ i # s
    BY <1>1, <2>1
  <2>3. s \in Nat /\ i \in Nat /\ s < i
    BY <1>2, <1>4, <1>5, <1>6, <2>2
  <2>4. s \notin Doomed(v, k, e)
    BY <1>1, ScanSets
  <2> QED
    BY <1>1, <1>2, <1>3, <2>1, <2>3, <2>4 DEF earlier_pending, in_flight
<1> QED
  BY <1>1, <1>2, <1>3, <1>7 DEF v

\* An idle scan changes nothing.
LEMMA IdleServes ==
    ASSUME NEW w \in WorkRecord, NEW k, NEW e, IsEnv(e), Spent(w, k, e)
    PROVE  Served(w, k, e) = w
<1> DEFINE cs == [i \in DOMAIN w.candidates |-> Outcome(w, k, e, i)]
           u == [w EXCEPT !.candidates = cs]
           votes == [i \in DOMAIN u.evaluations |->
                       IF u.evaluations[i].candidate \in {}
                         THEN [u.evaluations[i] EXCEPT !.current = FALSE] ELSE u.evaluations[i]]
           plans == {q \in u.pending : q.candidate \in {} => q.answered}
<1>1. Served(w, k, e) = [u EXCEPT !.evaluations = votes, !.pending = plans]
  <2>1. Doomed(w, k, e) = {}
    BY DEF Spent
  <2>2. Served(w, k, e) = supersede_candidate_evidence(u, {})
    BY <2>1 DEF Served
  <2> QED
    BY <2>2, Zenon DEF supersede_candidate_evidence
<1>2. ASSUME NEW i \in DOMAIN w.candidates PROVE Outcome(w, k, e, i) = w.candidates[i]
  <2> DEFINE c == w.candidates[i]
             g == e.participants[c.participant].generation
  <2>1. c \in CandidateRecord
    BY SlotType
  <2>2. i \notin Doomed(w, k, e) /\ i \notin Dispatchable(w, k, e)
    BY DEF Spent
  <2>3. CASE i \in Scanned(w, k, e)
    <3>1. Outcome(w, k, e, i) = [c EXCEPT !.participant_generation = g]
      BY <2>2, <2>3 DEF Outcome
    <3>2. c.participant_generation = g
      BY <2>3 DEF Spent
    <3> HIDE DEF c, g
    <3>3. [c EXCEPT !.participant_generation = g] = c
      BY <2>1, <3>2 DEF CandidateRecord
    <3> QED
      BY <3>1, <3>3 DEF c
  <2>4. CASE i \notin Scanned(w, k, e)
    BY <2>2, <2>4 DEF Outcome
  <2> QED
    BY <2>3, <2>4
<1>3. cs = w.candidates
  <2>1. w.candidates = [i \in DOMAIN w.candidates |-> w.candidates[i]]
    BY DEF WorkRecord
  <2> QED
    BY <1>2, <2>1
<1>4. u = w
  <2> HIDE DEF cs
  <2> QED
    BY <1>3 DEF WorkRecord
<1>5. votes = w.evaluations
  <2>1. w.evaluations = [i \in DOMAIN w.evaluations |-> w.evaluations[i]]
    BY DEF WorkRecord
  <2> HIDE DEF u
  <2> QED
    BY <1>4, <2>1
<1>6. plans = w.pending
  <2> HIDE DEF u
  <2> QED
    BY <1>4
<1> HIDE DEF u, votes, plans
<1> QED
  BY <1>1, <1>4, <1>5, <1>6 DEF WorkRecord

-----------------------------------------------------------------------------
(* Declaring the members of a stage. *)

\* DeclareMembers is a loop over the members.
LEMMA DeclareMembersIs ==
    ASSUME NEW cs, NEW members, NEW k, NEW e, Len(members) \in Nat
    PROVE  \E f : /\ MemberLoop(f, Len(members), cs, members, k, e)
                  /\ DeclareMembers(cs, members, k, e) = f[Len(members)]
<1> DEFINE declared[n \in 0..Len(members)] ==
             IF n = 0 THEN cs ELSE DeclareMember(declared[n - 1], members[n], k, e)
<1>1. PICK top \in Nat : top = Len(members)
  OBVIOUS
<1>2. declared = [n \in 0..top |->
                    IF n = 0 THEN cs ELSE DeclareMember(declared[n - 1], members[n], k, e)]
  <2>1. \E f : MemberLoop(f, top, cs, members, k, e)
    BY DeclareMembersExist
  <2> QED
    BY <1>1, <2>1 DEF MemberLoop
<1>3. DeclareMembers(cs, members, k, e) = declared[top]
  BY <1>1 DEF DeclareMembers
<1> HIDE DEF declared
<1> QED
  BY <1>1, <1>2, <1>3 DEF MemberLoop

\* At the bound nobody gets a slot any more.
LEMMA FullDeclares ==
    ASSUME NEW cs, NEW members, NEW k, NEW e, Len(members) \in Nat, Len(cs) >= MaxCandidates
    PROVE  DeclareMembers(cs, members, k, e) = cs
<1>1. PICK f : /\ MemberLoop(f, Len(members), cs, members, k, e)
               /\ DeclareMembers(cs, members, k, e) = f[Len(members)]
  BY DeclareMembersIs
<1>2. PICK top \in Nat : top = Len(members)
  OBVIOUS
<1>3. f = [n \in 0..top |-> IF n = 0 THEN cs ELSE DeclareMember(f[n - 1], members[n], k, e)]
  BY <1>1, <1>2 DEF MemberLoop
<1> DEFINE S == {n \in Nat : n \in 0..top => f[n] = cs}
<1>4. 0 \in S
  BY <1>3
<1>5. ASSUME NEW n \in Nat, n \in S PROVE n + 1 \in S
  <2> SUFFICES ASSUME n + 1 \in 0..top PROVE f[n + 1] = cs
    OBVIOUS
  <2>1. f[n + 1] = DeclareMember(f[n], members[n + 1], k, e) /\ n \in 0..top
    BY <1>3
  <2>2. f[n] = cs
    BY <1>5, <2>1
  <2> QED
    BY <2>1, <2>2 DEF DeclareMember
<1>6. top \in S
  <2> HIDE DEF S
  <2> QED
    BY <1>4, <1>5, SetInduction
<1> QED
  BY <1>1, <1>2, <1>6

\* Whoever is left without a slot is left so by the bound.
LEMMA LeftOut ==
    ASSUME NEW cs \in Seq(CandidateRecord), NEW members \in Seq(Participants),
           NEW k \in Nat \ {0}, NEW e, IsEnv(e),
           NEW m \in DOMAIN members, ~Exists(DeclareMembers(cs, members, k, e), members[m], k)
    PROVE  Len(DeclareMembers(cs, members, k, e)) >= MaxCandidates
<1>1. Len(members) \in Nat /\ DOMAIN members = 1..Len(members)
  OBVIOUS
<1>2. PICK f : /\ MemberLoop(f, Len(members), cs, members, k, e)
               /\ DeclareMembers(cs, members, k, e) = f[Len(members)]
  BY <1>1, DeclareMembersIs
<1>3. PICK top \in Nat : top = Len(members)
  BY <1>1
<1>4. f = [n \in 0..top |-> IF n = 0 THEN cs ELSE DeclareMember(f[n - 1], members[n], k, e)]
  BY <1>2, <1>3 DEF MemberLoop
<1> DEFINE Slotted(n) == \A i \in 1..n : Exists(f[n], members[i], k)
           S == {n \in Nat : n \in 0..top => /\ f[n] \in Seq(CandidateRecord)
                                             /\ Slotted(n) \/ Len(f[n]) >= MaxCandidates}
<1>5. 0 \in S
  BY <1>4
<1>6. ASSUME NEW n \in Nat, n \in S PROVE n + 1 \in S
  <2> SUFFICES ASSUME n + 1 \in 0..top
               PROVE  /\ f[n + 1] \in Seq(CandidateRecord)
                      /\ Slotted(n + 1) \/ Len(f[n + 1]) >= MaxCandidates
    OBVIOUS
  <2> DEFINE p == members[n + 1]
             c == NewCandidate(p, e.participants[p].generation, k, IsFallbackStage(k))
  <2>1. f[n + 1] = DeclareMember(f[n], p, k, e) /\ n \in 0..top /\ p \in Participants
    BY <1>1, <1>3, <1>4
  <2>2. f[n] \in Seq(CandidateRecord) /\ (Slotted(n) \/ Len(f[n]) >= MaxCandidates)
    BY <1>6, <2>1
  <2>3. CASE Len(f[n]) >= MaxCandidates
    <3>1. f[n + 1] = f[n]
      BY <2>1, <2>3 DEF DeclareMember
    <3> QED
      BY <2>2, <2>3, <3>1
  <2>4. CASE Slotted(n) /\ Exists(f[n], p, k)
    <3>1. f[n + 1] = f[n]
      BY <2>1, <2>4 DEF DeclareMember
    <3>2. \A i \in 1..(n + 1) : i \in 1..n \/ i = n + 1
      OBVIOUS
    <3>3. Slotted(n + 1)
      BY <2>4, <3>1, <3>2
    <3> QED
      BY <2>2, <3>1, <3>3
  <2>5. CASE Slotted(n) /\ ~Exists(f[n], p, k) /\ ~(Len(f[n]) >= MaxCandidates)
    <3>1. f[n + 1] = Append(f[n], c)
      BY <2>1, <2>5 DEF DeclareMember
    <3>2. c \in CandidateRecord /\ c.participant = p /\ c.stage = k
      <4>1. e.participants[p].generation \in Nat /\ IsFallbackStage(k) \in BOOLEAN
        BY <2>1 DEF IsEnv, ParticipantRecord, IsFallbackStage
      <4>2. c \in CandidateRecord
        BY <2>1, <4>1, NewCandidateType
      <4> QED
        BY <4>2 DEF NewCandidate
    <3> HIDE DEF c, p
    <3>3. /\ f[n + 1] \in Seq(CandidateRecord)
          /\ Exists(f[n + 1], p, k)
          /\ \A q : Exists(f[n], q, k) => Exists(f[n + 1], q, k)
      <4>1. PICK s \in Seq(CandidateRecord) : s = f[n]
        BY <2>2
      <4>2. /\ Append(s, c) \in Seq(CandidateRecord) /\ Len(s) \in Nat
            /\ DOMAIN s = 1..Len(s) /\ DOMAIN Append(s, c) = 1..(Len(s) + 1)
            /\ Append(s, c)[Len(s) + 1] = c
            /\ \A i \in 1..Len(s) : Append(s, c)[i] = s[i]
        BY <3>2
      <4>3. Exists(Append(s, c), p, k)
        BY <3>2, <4>2 DEF Exists
      <4>4. \A q : Exists(s, q, k) => Exists(Append(s, c), q, k)
        BY <4>2 DEF Exists
      <4> QED
        BY <3>1, <4>1, <4>2, <4>3, <4>4
    <3>4. \A i \in 1..(n + 1) : i \in 1..n \/ i = n + 1
      OBVIOUS
    <3>5. Slotted(n + 1)
      BY <2>5, <3>3, <3>4 DEF p
    <3> QED
      BY <3>3, <3>5
  <2> QED
    BY <2>2, <2>3, <2>4, <2>5
<1>7. top \in S
  <2> HIDE DEF S
  <2> QED
    BY <1>5, <1>6, SetInduction
<1> QED
  BY <1>1, <1>2, <1>3, <1>7

-----------------------------------------------------------------------------
(* Where the stage loop comes to rest. *)

Current(w) == w.stage_index + 1

\* Slots are missing and the bound lets nobody have one: the call fails.
Stuck(w, e) ==
    LET members == StagesOf(w)[Current(w)].participants
    IN /\ ~AllStagesDone(w) /\ ~w.declared_current_stage
       /\ DeclareMembers(w.candidates, members, Current(w), e) = w.candidates
       /\ \E n \in DOMAIN members : ~Exists(w.candidates, members[n], Current(w))

\* The current stage has its slots and is not complete.
AtStage(w) ==
    ~AllStagesDone(w) /\ w.declared_current_stage /\ ~stage_complete(w, Current(w))

\* Nothing is to be done but wait for answers.
Waits(w, e) == AtStage(w) /\ Spent(w, Current(w), e)

\* After one more scan nothing is.
Near(w, e) ==
    LET v == Served(w, Current(w), e)
    IN AtStage(w) /\ Spent(v, Current(w), e) /\ ~stage_complete(v, Current(w))

\* Declaring a stage ends with every slot there or, for good, without some of them.
LEMMA DeclareStageEnds ==
    ASSUME NEW x, NEW e, IsEnv(e), Sound(x, e), ~AllStagesDone(x.w), ~x.error
    PROVE  LET y == DeclareStage(x, Current(x.w), e)
           IN /\ y.w.fallback_activated = x.w.fallback_activated /\ y.halt = x.halt
              /\ x.w.declared_current_stage => y = x
              /\ y.error => Stuck(y.w, e)
              /\ ~y.error => y.w.declared_current_stage
<1> DEFINE w == x.w
           k == Current(w)
           members == StagesOf(w)[k].participants
           cs == DeclareMembers(w.candidates, members, k, e)
           full == \E n \in DOMAIN members : ~Exists(cs, members[n], k)
           y == DeclareStage(x, k, e)
<1>1. /\ x \in Planning /\ w \in WorkRecord /\ WorkInv(w) /\ DispatchesHeld(w, e.participants)
      /\ w.stage_index \in Nat /\ w.fallback_depth \in Nat /\ k \in Nat \ {0}
      /\ w.candidates \in Seq(CandidateRecord)
  BY DEF Sound, Planning, WorkRecord, Current
<1>2. w.stage_index < Len(StagesOf(w)) /\ k \in 1..Len(StagesOf(w))
  BY <1>1, StagesOfStages DEF AllStagesDone, Current
<1>3. members = StageAt(k).participants /\ members \in Seq(Participants)
  BY <1>1, <1>2, StagesOfStages DEF Stage
<1>4. CASE w.declared_current_stage
  BY <1>4 DEF DeclareStage
<1>5. CASE ~w.declared_current_stage
  <2>1. PICK b \in BOOLEAN : b = ~full
    OBVIOUS
  <2>2. PICK a \in BOOLEAN : a = (x.progress \/ b)
    OBVIOUS
  <2>3. PICK d \in BOOLEAN : d = ~b
    OBVIOUS
  <2> DEFINE u == [w EXCEPT !.candidates = cs, !.declared_current_stage = b]
             z == [x EXCEPT !.w = u, !.progress = a, !.error = d]
  <2>4. y = z
    BY <1>5, <2>1, <2>2, <2>3 DEF DeclareStage
  <2>5. cs \in Seq(CandidateRecord)
    BY <1>1, <1>2, <1>3, DeclareMembersKeep DEF Declarable, Current
  <2>6. full => Len(cs) >= MaxCandidates
    BY <1>1, <1>3, LeftOut
  <2>7. full => DeclareMembers(cs, members, k, e) = cs
    <3>1. Len(members) \in Nat
      BY <1>3
    <3> HIDE DEF members
    <3> QED
      BY <2>6, <3>1, FullDeclares
  <2> HIDE DEF cs
  <2>8. /\ u.candidates = cs /\ u.declared_current_stage = b /\ u.stage_index = w.stage_index
        /\ u.fallback_depth = w.fallback_depth /\ u.fallback_activated = w.fallback_activated
    BY <1>1, <2>5 DEF WorkRecord
  <2> HIDE DEF u
  <2>9. z.w = u /\ z.error = d /\ z.halt = x.halt
    BY <1>1 DEF Planning
  <2>10. StagesOf(u) = StagesOf(w) /\ Current(u) = k
    BY <2>8 DEF StagesOf, Current
  <2>11. ~AllStagesDone(u)
    BY <2>8, <2>10 DEF AllStagesDone
  <2>12. d => Stuck(u, e)
    <3> HIDE DEF k
    <3> QED
      BY <2>1, <2>3, <2>7, <2>8, <2>10, <2>11 DEF Stuck
  <2> HIDE DEF y, z
  <2> QED
    BY <1>5, <2>3, <2>1, <2>4, <2>8, <2>9, <2>12 DEF y
<1> QED
  BY <1>4, <1>5

\* A slot in flight keeps its stage from being complete.
LEMMA FlightKeepsOpen ==
    ASSUME NEW w, WorkInv(w), ~AllStagesDone(w), NEW s \in InStage(w, Current(w)),
           in_flight(w.candidates[s])
    PROVE  ~stage_complete(w, Current(w))
<1> DEFINE k == Current(w)
           stage == StagesOf(w)[k]
<1>1. w \in WorkRecord /\ w.stage_index \in Nat /\ w.fallback_depth \in Nat
  BY DEF WorkInv, WorkRecord
<1>2. k \in 1..Len(StagesOf(w))
  BY <1>1, StagesOfStages DEF AllStagesDone, Current
<1>3. stage = StageAt(k)
  BY <1>1, <1>2, StagesOfStages
<1>4. s \in DOMAIN w.candidates /\ w.candidates[s].stage = k
  BY DEF InStage
<1>5. PICK n \in DOMAIN stage.participants : stage.participants[n] = w.candidates[s].participant
  BY <1>3, <1>4 DEF WorkInv, StagesKept
<1> HIDE DEF stage
<1>6. stage_complete(w, k) =>
         \A i \in {i \in InStage(w, k) : w.candidates[i].participant = stage.participants[n]} :
            ~in_flight(w.candidates[i])
  BY DEF stage_complete, stage
<1> QED
  BY <1>5, <1>6

\* One scan and what follows it: the stage is complete, or the planner halts with nothing left
\* to do in it, at the latest after one more scan.
LEMMA ScanEnds ==
    ASSUME NEW x, NEW e, IsEnv(e), Sound(x, e), ~AllStagesDone(x.w), ~x.halt, ~x.error,
           x.w.declared_current_stage
    PROVE  LET y == CompleteStage(DispatchStage(x, Current(x.w), e), Current(x.w))
           IN /\ y.w.fallback_activated = x.w.fallback_activated /\ ~y.error
              /\ \/ y.halt /\ Waits(y.w, e)
                 \/ y.halt /\ y.progress /\ Near(y.w, e)
                 \/ ~y.halt /\ y.w.stage_index = Current(x.w)
<1> DEFINE w == x.w
           k == Current(w)
           v == Served(w, k, e)
           z == DispatchStage(x, k, e)
           y == CompleteStage(z, k)
<1>1. /\ x \in Planning /\ w \in WorkRecord /\ WorkInv(w)
      /\ w.stage_index \in Nat /\ w.fallback_depth \in Nat
  BY DEF Sound, Planning, WorkRecord
<1>2. PICK a \in BOOLEAN :
         a = (x.progress \/ Doomed(w, k, e) # {} \/ Dispatchable(w, k, e) # {})
  OBVIOUS
<1>3. z = [x EXCEPT !.w = v, !.progress = a]
  BY <1>2, DispatchServes
<1>4. /\ z.w = v /\ z.progress = a /\ ~z.halt /\ ~z.error
  BY <1>1, <1>3 DEF Planning
<1>5. Sound(z, e)
  BY DispatchStageKeeps DEF Current
<1>6. /\ v.stage_index = w.stage_index /\ v.fallback_depth = w.fallback_depth
      /\ v.declared_current_stage = w.declared_current_stage
      /\ v.fallback_activated = w.fallback_activated
  <2> HIDE DEF w, k
  <2> QED
    BY <1>1, ServedPosition, Zenon
<1>7. v \in WorkRecord /\ WorkInv(v) /\ z \in Planning
  BY <1>4, <1>5, SoundWork DEF Sound
<1>8. ~AllStagesDone(v) /\ Current(v) = k
  BY <1>6 DEF AllStagesDone, StagesOf, Current
<1> HIDE DEF v, z
<1>9. CASE stage_complete(v, k)
  <2>1. PICK m \in Nat : m = v.stage_index + 1
    BY <1>1, <1>6
  <2> DEFINE u == [v EXCEPT !.stage_index = m, !.declared_current_stage = FALSE]
  <2>2. y = [z EXCEPT !.w = u, !.progress = TRUE]
    BY <1>4, <1>9, <2>1 DEF CompleteStage
  <2>3. u.stage_index = m /\ u.fallback_activated = v.fallback_activated
    BY <1>7 DEF WorkRecord
  <2> HIDE DEF u
  <2>4. y.w = u /\ ~y.halt /\ ~y.error
    BY <1>4, <1>7, <2>2 DEF Planning
  <2>5. m = k
    BY <1>8, <2>1 DEF Current
  <2> HIDE DEF y, k
  <2> QED
    BY <1>6, <2>3, <2>4, <2>5 DEF y, k, z
<1>10. CASE ~stage_complete(v, k)
  <2>1. y = [z EXCEPT !.halt = TRUE]
    BY <1>4, <1>10 DEF CompleteStage
  <2>2. y.w = v /\ y.halt /\ ~y.error /\ y.progress = a
    BY <1>4, <1>7, <2>1 DEF Planning
  <2>3. AtStage(v)
    <3>1. v.declared_current_stage
      BY <1>6
    <3> QED
      BY <1>8, <1>10, <3>1 DEF AtStage
  <2>4. CASE ~IsSequential(w, k) \/ Dispatchable(w, k, e) = {}
    <3>1. Spent(v, k, e)
      BY <1>1, <2>4, OneScan DEF v
    <3>2. Waits(v, e)
      BY <1>8, <2>3, <3>1 DEF Waits
    <3> HIDE DEF y, k
    <3> QED
      BY <1>6, <2>2, <3>2 DEF y, k, z
  <2>5. CASE IsSequential(w, k) /\ Dispatchable(w, k, e) # {}
    <3> DEFINE u == Served(v, k, e)
    <3>1. PICK s \in Dispatchable(w, k, e) : TRUE
      BY <2>5
    <3>2. /\ s \in InStage(v, k) /\ s \in DOMAIN v.candidates
          /\ v.candidates[s].state = "dispatched"
          /\ Dispatchable(v, k, e) = {}
      BY <1>1, <2>5, <3>1, SentFirst DEF v
    <3>3. Spent(u, k, e)
      BY <1>7, <3>2, OneScan
    <3>4. ~stage_complete(v, k) /\ s \notin Doomed(v, k, e)
      BY <1>10, <3>2, ScanSets DEF Waiting
    <3>5. /\ InStage(u, k) = InStage(v, k) /\ u.candidates[s] = Outcome(v, k, e, s)
      BY <1>7, <3>2, ServedSlots
    <3>6. u.candidates[s].state = "dispatched"
      BY <1>7, <3>2, <3>4, <3>5, OutcomeIs
    <3>7. WorkInv(u) /\ ~AllStagesDone(u) /\ Current(u) = k
      <4>1. Sound(DispatchStage(z, Current(z.w), e), e)
        BY <1>4, <1>5, <1>8, DispatchStageKeeps DEF Current
      <4>2. PICK b \in BOOLEAN :
               b = (z.progress \/ Doomed(v, k, e) # {} \/ Dispatchable(v, k, e) # {})
        OBVIOUS
      <4>3. DispatchStage(z, Current(z.w), e) = [z EXCEPT !.w = u, !.progress = b]
        BY <1>4, <1>8, <4>2, DispatchServes
      <4>4. [z EXCEPT !.w = u, !.progress = b].w = u
        BY <1>7 DEF Planning
      <4>5. WorkInv(u)
        BY <4>1, <4>3, <4>4 DEF Sound
      <4>6. u.stage_index = v.stage_index /\ u.fallback_depth = v.fallback_depth
        BY <1>7, ServedPosition
      <4> HIDE DEF u
      <4>7. ~AllStagesDone(u) /\ Current(u) = Current(v)
        BY <1>8, <4>6 DEF AllStagesDone, StagesOf, Current
      <4> QED
        BY <1>8, <4>5, <4>7
    <3> HIDE DEF u
    <3>8. ~stage_complete(u, k)
      BY <3>2, <3>5, <3>6, <3>7, FlightKeepsOpen DEF in_flight
    <3>9. Near(v, e)
      BY <1>8, <2>3, <3>3, <3>8 DEF Near, u
    <3>10. a
      BY <1>2, <2>5
    <3> HIDE DEF y, k
    <3> QED
      BY <1>6, <2>2, <3>9, <3>10 DEF y, k, z
  <2> QED
    BY <2>4, <2>5
<1> QED
  BY <1>9, <1>10

\* The planner halts in a stage for good, or almost.
Rests(x, e) ==
    \/ x.error /\ Stuck(x.w, e)
    \/ ~x.error /\ Waits(x.w, e)
    \/ ~x.error /\ x.progress /\ Near(x.w, e)

\* An iteration of the stage loop moves on to the next stage or comes to rest.
LEMMA StageStepEnds ==
    ASSUME NEW x, NEW e, IsEnv(e), Sound(x, e), ~AllStagesDone(x.w), ~x.halt, ~x.error
    PROVE  LET y == StageStep(x, e)
           IN /\ y.w.fallback_activated = x.w.fallback_activated
              /\ \/ y.halt /\ Rests(y, e)
                 \/ ~y.halt /\ ~y.error /\ y.w.stage_index = Current(x.w)
<1> DEFINE k == Current(x.w)
           y == DeclareStage(x, k, e)
           u == CompleteStage(DispatchStage(y, k, e), k)
<1>1. StageStep(x, e) = IF y.error THEN [y EXCEPT !.halt = TRUE] ELSE u
  BY DEF StageStep, ServeStage, Current
<1>2. /\ y.w.fallback_activated = x.w.fallback_activated /\ y.halt = x.halt
      /\ y.error => Stuck(y.w, e)
      /\ ~y.error => y.w.declared_current_stage
  BY DeclareStageEnds
<1>3. /\ Sound(y, e)
      /\ y.w.stage_index = x.w.stage_index /\ y.w.fallback_depth = x.w.fallback_depth
  BY DeclareStageKeeps DEF Current
<1> HIDE DEF y
<1>4. ~AllStagesDone(y.w) /\ Current(y.w) = k
  BY <1>3 DEF AllStagesDone, StagesOf, Current
<1>5. CASE y.error
  <2> DEFINE z == [y EXCEPT !.halt = TRUE]
  <2>1. z.w = y.w /\ z.halt /\ z.error = y.error
    BY <1>3, SoundWork DEF Planning
  <2>2. StageStep(x, e) = z
    BY <1>1, <1>5
  <2> HIDE DEF z
  <2> QED
    BY <1>2, <1>5, <2>1, <2>2 DEF Rests
<1>6. CASE ~y.error
  <2>1. StageStep(x, e) = u
    BY <1>1, <1>6
  <2>2. ~y.halt /\ y.w.declared_current_stage
    BY <1>2, <1>6
  <2> DEFINE z == CompleteStage(DispatchStage(y, Current(y.w), e), Current(y.w))
  <2>3. /\ z.w.fallback_activated = y.w.fallback_activated /\ ~z.error
        /\ \/ z.halt /\ Waits(z.w, e)
           \/ z.halt /\ z.progress /\ Near(z.w, e)
           \/ ~z.halt /\ z.w.stage_index = Current(y.w)
    BY <1>3, <1>4, <1>6, <2>2, ScanEnds
  <2>4. z = u
    BY <1>4
  <2> HIDE DEF z, u
  <2> QED
    BY <1>2, <1>4, <2>1, <2>3, <2>4 DEF Rests
<1> QED
  BY <1>5, <1>6

\* Where the planner is stuck or waits, an iteration changes nothing.
LEMMA StageStepRests ==
    ASSUME NEW x, NEW e, IsEnv(e), Sound(x, e), ~x.halt, ~x.error,
           Stuck(x.w, e) \/ Waits(x.w, e)
    PROVE  LET y == StageStep(x, e)
           IN y.halt /\ y.w = x.w /\ y.progress = x.progress
<1> DEFINE w == x.w
           k == Current(w)
           y == DeclareStage(x, k, e)
<1>1. x \in Planning /\ w \in WorkRecord
  BY DEF Sound, Planning
<1>2. ~AllStagesDone(w)
  BY DEF Stuck, Waits, AtStage
<1>3. StageStep(x, e) =
        IF y.error THEN [y EXCEPT !.halt = TRUE] ELSE CompleteStage(DispatchStage(y, k, e), k)
  BY <1>2 DEF StageStep, ServeStage, Current
<1>4. CASE Stuck(w, e)
  <2> DEFINE members == StagesOf(w)[k].participants
             full == \E n \in DOMAIN members : ~Exists(w.candidates, members[n], k)
             u == [w EXCEPT !.candidates = w.candidates, !.declared_current_stage = FALSE]
  <2>1. /\ ~w.declared_current_stage /\ full
        /\ DeclareMembers(w.candidates, members, k, e) = w.candidates
    BY <1>4, Zenon DEF Stuck
  <2>2. PICK a \in BOOLEAN : a = (x.progress \/ ~full)
    OBVIOUS
  <2>3. y = [x EXCEPT !.w = [w EXCEPT !.candidates = w.candidates,
                                      !.declared_current_stage = ~full],
                      !.progress = a, !.error = full]
    BY <2>1, <2>2 DEF DeclareStage
  <2>4. a = x.progress
    <3>1. a = (x.progress \/ FALSE)
      BY <2>1, <2>2, Zenon
    <3> QED
      BY <1>1, <3>1 DEF Planning
  <2>5. y = [x EXCEPT !.w = u, !.progress = a, !.error = TRUE]
    <3>1. full = TRUE /\ (~full) = FALSE
      BY <2>1, Zenon
    <3> HIDE DEF full, y
    <3> QED
      BY <2>3, <3>1, Zenon
  <2>6. u = w
    BY <1>1, <2>1 DEF WorkRecord
  <2> HIDE DEF u, y
  <2>7. y.error /\ y.w = w /\ y.progress = x.progress /\ y \in Planning
    BY <1>1, <2>4, <2>5, <2>6 DEF Planning
  <2> DEFINE z == [y EXCEPT !.halt = TRUE]
  <2>8. z.halt /\ z.w = w /\ z.progress = x.progress
    BY <2>7 DEF Planning
  <2> HIDE DEF z
  <2>9. StageStep(x, e) = z
    BY <1>3, <2>7 DEF y, z
  <2> QED
    BY <2>8, <2>9
<1>5. CASE Waits(w, e)
  <2>1. w.declared_current_stage /\ ~stage_complete(w, k) /\ Spent(w, k, e)
    BY <1>5 DEF Waits, AtStage
  <2>2. y = x
    BY <2>1 DEF DeclareStage
  <2> DEFINE z == DispatchStage(x, k, e)
             v == Served(w, k, e)
  <2>3. PICK a \in BOOLEAN :
           a = (x.progress \/ Doomed(w, k, e) # {} \/ Dispatchable(w, k, e) # {})
    OBVIOUS
  <2>4. z = [x EXCEPT !.w = v, !.progress = a]
    BY <2>3, DispatchServes
  <2>5. v = w
    BY <1>1, <2>1, IdleServes
  <2>6. a = x.progress
    BY <1>1, <2>1, <2>3 DEF Spent, Planning
  <2> HIDE DEF z, v
  <2>7. z.w = w /\ z.progress = x.progress /\ z \in Planning
    BY <1>1, <2>4, <2>5, <2>6 DEF Planning
  <2> DEFINE u == [z EXCEPT !.halt = TRUE]
  <2>8. CompleteStage(z, k) = u
    BY <2>1, <2>7 DEF CompleteStage
  <2>9. u.halt /\ u.w = w /\ u.progress = x.progress
    BY <2>7 DEF Planning
  <2> HIDE DEF u, y
  <2>10. StageStep(x, e) = u
    BY <1>3, <2>2, <2>8 DEF z
  <2> QED
    BY <2>9, <2>10
<1> QED
  BY <1>4, <1>5

\* An iteration of the stage loop activates no fallback.
LEMMA StageStepDepth ==
    ASSUME NEW x, NEW e, IsEnv(e), Sound(x, e)
    PROVE  StageStep(x, e).w.fallback_depth = x.w.fallback_depth
<1> DEFINE k == x.w.stage_index + 1
           y == DeclareStage(x, k, e)
           z == DispatchStage(y, k, e)
<1>1. CASE x.halt \/ AllStagesDone(x.w)
  BY <1>1 DEF StageStep
<1>2. CASE ~(x.halt \/ AllStagesDone(x.w))
  <2>1. StageStep(x, e) = IF y.error THEN [y EXCEPT !.halt = TRUE] ELSE CompleteStage(z, k)
    BY <1>2 DEF StageStep, ServeStage
  <2>2. /\ Sound(y, e) /\ y.w.stage_index = x.w.stage_index
        /\ y.w.fallback_depth = x.w.fallback_depth
    BY <1>2, DeclareStageKeeps
  <2> HIDE DEF y
  <2>3. ~AllStagesDone(y.w) /\ k = y.w.stage_index + 1
    BY <1>2, <2>2 DEF AllStagesDone, StagesOf
  <2>4. [y EXCEPT !.halt = TRUE].w = y.w
    BY <2>2, SoundWork DEF Planning
  <2>5. ~y.error => Sound(z, e) /\ z.w.fallback_depth = y.w.fallback_depth
    BY <2>2, <2>3, DispatchStageKeeps
  <2> HIDE DEF z, k
  <2>6. ASSUME Sound(z, e) PROVE CompleteStage(z, k).w.fallback_depth = z.w.fallback_depth
    <3>1. z \in Planning /\ z.w \in WorkRecord /\ z.w.stage_index \in Nat
      BY <2>6, SoundWork
    <3>2. PICK n \in Nat : n = z.w.stage_index + 1
      BY <3>1
    <3> DEFINE u == [z.w EXCEPT !.stage_index = n, !.declared_current_stage = FALSE]
    <3>3. \/ CompleteStage(z, k) = [z EXCEPT !.w = u, !.progress = TRUE]
          \/ CompleteStage(z, k) = [z EXCEPT !.halt = TRUE]
      BY <3>2 DEF CompleteStage
    <3>4. u.fallback_depth = z.w.fallback_depth
      BY <3>1 DEF WorkRecord
    <3> HIDE DEF u
    <3>5. [z EXCEPT !.w = u, !.progress = TRUE].w = u /\ [z EXCEPT !.halt = TRUE].w = z.w
      BY <3>1 DEF Planning
    <3> QED
      BY <3>3, <3>4, <3>5
  <2> QED
    BY <2>1, <2>2, <2>4, <2>5, <2>6
<1> QED
  BY <1>1, <1>2

\* The stage loop, unfolded: f is what it has made of x after each of b iterations.
LEMMA StageLoopRuns ==
    ASSUME NEW x, NEW e, IsEnv(e), Sound(x, e)
    PROVE  \E b \in Nat : \E f : /\ b = Len(StagesOf(x.w))
                                  /\ StageRuns(f, b, x, e) /\ StageLoop(x, e) = f[b]
<1> DEFINE bound == Len(StagesOf(x.w))
           iterate[n \in 0..bound] == IF n = 0 THEN x ELSE StageStep(iterate[n - 1], e)
<1>1. PICK b \in Nat : b = bound
  BY SoundWork, StagesOfStages
<1>2. iterate = [n \in 0..b |-> IF n = 0 THEN x ELSE StageStep(iterate[n - 1], e)]
  <2>1. \E f : StageRuns(f, b, x, e)
    BY StageRunsExist
  <2> QED
    BY <1>1, <2>1 DEF StageRuns
<1>3. StageLoop(x, e) = iterate[b]
  BY <1>1 DEF StageLoop
<1> HIDE DEF iterate
<1>4. StageRuns(iterate, b, x, e)
  BY <1>2 DEF StageRuns
<1> QED
  BY <1>1, <1>3, <1>4

\* Steps of a run.
LEMMA StageRunSteps ==
    ASSUME NEW f, NEW b \in Nat, NEW x, NEW e, StageRuns(f, b, x, e)
    PROVE  /\ f[0] = x
           /\ \A n \in Nat : n + 1 <= b => f[n + 1] = StageStep(f[n], e)
<1>1. f = [n \in 0..b |-> IF n = 0 THEN x ELSE StageStep(f[n - 1], e)]
  BY DEF StageRuns
<1>2. f[0] = x
  BY <1>1
<1>3. ASSUME NEW n \in Nat, n + 1 <= b PROVE f[n + 1] = StageStep(f[n], e)
  <2>1. n + 1 \in 0..b /\ n + 1 # 0 /\ (n + 1) - 1 = n
    BY <1>3
  <2> QED
    BY <1>1, <2>1
<1> QED
  BY <1>2, <1>3

\* The loop stops with the first iteration when that one halts.
LEMMA LoopHalts ==
    ASSUME NEW x, NEW e, IsEnv(e), Sound(x, e), ~AllStagesDone(x.w), StageStep(x, e).halt
    PROVE  StageLoop(x, e) = StageStep(x, e)
<1>0. PICK b \in Nat : \E f : /\ b = Len(StagesOf(x.w))
                               /\ StageRuns(f, b, x, e) /\ StageLoop(x, e) = f[b]
  BY StageLoopRuns
<1>1. PICK f : /\ b = Len(StagesOf(x.w))
               /\ StageRuns(f, b, x, e) /\ StageLoop(x, e) = f[b]
  BY <1>0
<1>2. b > 0
  BY <1>1, SoundWork DEF AllStagesDone
<1>3. f[0] = x /\ \A n \in Nat : n + 1 <= b => f[n + 1] = StageStep(f[n], e)
  BY <1>1, StageRunSteps
<1> DEFINE y == StageStep(x, e)
           S == {n \in Nat : n + 1 <= b => f[n + 1] = y}
<1>4. 0 \in S
  BY <1>3
<1>5. StageStep(y, e) = y
  <2> HIDE DEF y
  <2>1. y.halt
    BY DEF y
  <2> QED
    BY <2>1 DEF StageStep
<1> HIDE DEF y
<1>6. ASSUME NEW n \in Nat, n \in S PROVE n + 1 \in S
  BY <1>3, <1>5, <1>6
<1> HIDE DEF S
<1>7. b - 1 \in Nat /\ (b - 1) + 1 = b
  BY <1>2
<1>8. b - 1 \in S
  BY <1>4, <1>6, <1>7, SetInduction
<1> QED
  BY <1>1, <1>7, <1>8 DEF S, y

\* After every stage the loop does nothing.
LEMMA LoopDone ==
    ASSUME NEW x, NEW e, IsEnv(e), Sound(x, e), AllStagesDone(x.w)
    PROVE  StageLoop(x, e) = x
<1>0. PICK b \in Nat : \E f : /\ b = Len(StagesOf(x.w))
                               /\ StageRuns(f, b, x, e) /\ StageLoop(x, e) = f[b]
  BY StageLoopRuns
<1>1. PICK f : /\ b = Len(StagesOf(x.w))
               /\ StageRuns(f, b, x, e) /\ StageLoop(x, e) = f[b]
  BY <1>0
<1>2. f[0] = x /\ \A n \in Nat : n + 1 <= b => f[n + 1] = StageStep(f[n], e)
  BY <1>1, StageRunSteps
<1> DEFINE S == {n \in Nat : n <= b => f[n] = x}
<1>3. 0 \in S
  BY <1>2
<1>4. StageStep(x, e) = x
  BY DEF StageStep
<1>5. ASSUME NEW n \in Nat, n \in S PROVE n + 1 \in S
  BY <1>2, <1>4, <1>5
<1> HIDE DEF S
<1>6. b \in S
  BY <1>3, <1>5, SetInduction
<1> QED
  BY <1>1, <1>6 DEF S

\* The stage loop ends with every stage done or at rest in one.
LEMMA StageLoopEnds ==
    ASSUME NEW x, NEW e, IsEnv(e), Sound(x, e), ~x.halt, ~x.error
    PROVE  LET y == StageLoop(x, e)
           IN /\ y.w.fallback_activated = x.w.fallback_activated
              /\ \/ Rests(y, e) /\ ~AllStagesDone(y.w)
                 \/ ~y.error /\ AllStagesDone(y.w)
<1> DEFINE Reached(y, n) ==
               /\ Sound(y, e) /\ y.w.fallback_activated = x.w.fallback_activated
               /\ y.w.fallback_depth = x.w.fallback_depth
               /\ \/ y.halt /\ Rests(y, e)
                  \/ ~y.halt /\ ~y.error /\ (AllStagesDone(y.w) \/ y.w.stage_index >= n)
<1>0. PICK b \in Nat : \E f : /\ b = Len(StagesOf(x.w))
                               /\ StageRuns(f, b, x, e) /\ StageLoop(x, e) = f[b]
  BY StageLoopRuns
<1>1. PICK f : /\ b = Len(StagesOf(x.w))
               /\ StageRuns(f, b, x, e) /\ StageLoop(x, e) = f[b]
  BY <1>0
<1>2. f[0] = x /\ \A n \in Nat : n + 1 <= b => f[n + 1] = StageStep(f[n], e)
  BY <1>1, StageRunSteps
<1>3. Reached(f[0], 0)
  BY <1>2, SoundWork
<1>4. ASSUME NEW n \in Nat, NEW y, Reached(y, n) PROVE Reached(StageStep(y, e), n + 1)
  <2> DEFINE z == StageStep(y, e)
  <2>1. /\ Sound(z, e) /\ z.w.fallback_depth = y.w.fallback_depth
        /\ y.w.stage_index \in Nat /\ z.w.stage_index \in Nat
    BY <1>4, StageStepKeeps, StageStepDepth, SoundWork
  <2>2. CASE y.halt \/ AllStagesDone(y.w)
    BY <1>4, <2>2 DEF StageStep
  <2>3. CASE ~(y.halt \/ AllStagesDone(y.w))
    <3>1. ~y.halt /\ ~y.error /\ ~AllStagesDone(y.w) /\ y.w.stage_index >= n
      BY <1>4, <2>3
    <3>2. Sound(y, e)
      BY <1>4
    <3> HIDE DEF Reached
    <3>3. /\ z.w.fallback_activated = y.w.fallback_activated
          /\ \/ z.halt /\ Rests(z, e)
             \/ ~z.halt /\ ~z.error /\ z.w.stage_index = Current(y.w)
      BY <3>1, <3>2, StageStepEnds
    <3> HIDE DEF z
    <3>4. z.w.stage_index = Current(y.w) => z.w.stage_index >= n + 1
      BY <2>1, <3>1 DEF Current
    <3>5. Reached(z, n + 1)
      BY <1>4, <2>1, <3>3, <3>4 DEF Reached
    <3> QED
      BY <3>5 DEF z
  <2> QED
    BY <2>2, <2>3
<1> HIDE DEF Reached
<1> DEFINE S == {n \in Nat : n <= b => Reached(f[n], n)}
<1>5. 0 \in S
  BY <1>3
<1>6. ASSUME NEW n \in Nat, n \in S PROVE n + 1 \in S
  BY <1>2, <1>4, <1>6
<1> HIDE DEF S
<1>7. b \in S
  BY <1>5, <1>6, SetInduction
<1> DEFINE y == f[b]
<1>8. Reached(y, b)
  BY <1>7 DEF S
<1>9. Len(StagesOf(y.w)) = b
  BY <1>1, <1>8 DEF Reached, StagesOf
<1>10. y.w.stage_index >= b => AllStagesDone(y.w)
  BY <1>9 DEF AllStagesDone
<1>11. Rests(y, e) => ~AllStagesDone(y.w)
  BY DEF Rests, Stuck, Waits, Near, AtStage
<1> QED
  BY <1>1, <1>8, <1>10, <1>11 DEF Reached

\* Where the planner is stuck or waits, the loop changes nothing.
LEMMA StageLoopRests ==
    ASSUME NEW x, NEW e, IsEnv(e), Sound(x, e), ~x.halt, ~x.error,
           Stuck(x.w, e) \/ Waits(x.w, e)
    PROVE  StageLoop(x, e).w = x.w /\ StageLoop(x, e).progress = x.progress
<1>1. ~AllStagesDone(x.w)
  BY DEF Stuck, Waits, AtStage
<1> DEFINE y == StageStep(x, e)
<1>2. y.halt /\ y.w = x.w /\ y.progress = x.progress
  BY StageStepRests
<1> QED
  BY <1>1, <1>2, LoopHalts

\* One scan from where it waits, the loop scans once and waits.
LEMMA StageLoopNears ==
    ASSUME NEW x, NEW e, IsEnv(e), Sound(x, e), ~x.halt, ~x.error, Near(x.w, e)
    PROVE  Waits(StageLoop(x, e).w, e) /\ ~StageLoop(x, e).error
<1> DEFINE w == x.w
           k == Current(w)
           v == Served(w, k, e)
           z == DispatchStage(x, k, e)
           u == [z EXCEPT !.halt = TRUE]
<1>1. x \in Planning /\ w \in WorkRecord
  BY SoundWork
<1>2. /\ ~AllStagesDone(w) /\ w.declared_current_stage
      /\ Spent(v, k, e) /\ ~stage_complete(v, k)
  BY DEF Near, AtStage
<1>3. DeclareStage(x, k, e) = x
  BY <1>2 DEF DeclareStage
<1>4. PICK a \in BOOLEAN : a = (x.progress \/ Doomed(w, k, e) # {} \/ Dispatchable(w, k, e) # {})
  OBVIOUS
<1>5. z = [x EXCEPT !.w = v, !.progress = a]
  BY <1>4, DispatchServes
<1>6. /\ v \in WorkRecord /\ v.stage_index = w.stage_index
      /\ v.fallback_depth = w.fallback_depth
      /\ v.declared_current_stage = w.declared_current_stage
  <2>1. Sound(z, e)
    BY <1>2, DispatchStageKeeps DEF Current
  <2>2. z.w = v
    BY <1>1, <1>5 DEF Planning
  <2>3. v \in WorkRecord
    BY <2>1, <2>2, SoundWork
  <2> QED
    BY <1>1, <2>3, ServedPosition
<1> HIDE DEF v
<1>7. z.w = v /\ z.error = x.error /\ z \in Planning
  BY <1>1, <1>5, <1>6 DEF Planning
<1> HIDE DEF z
<1>8. u.halt /\ u.w = v /\ u.error = x.error
  BY <1>7 DEF Planning
<1>9. CompleteStage(z, k) = u
  BY <1>2, <1>7 DEF CompleteStage
<1>10. StageStep(x, e) = u
  BY <1>2, <1>3, <1>9 DEF StageStep, ServeStage, Current, z
<1> HIDE DEF u
<1>11. StageLoop(x, e) = u
  BY <1>2, <1>8, <1>10, LoopHalts
<1>12. ~AllStagesDone(v) /\ Current(v) = k
  BY <1>2, <1>6 DEF AllStagesDone, StagesOf, Current
<1> HIDE DEF k
<1>13. Waits(v, e)
  BY <1>2, <1>6, <1>12 DEF Waits, AtStage
<1> QED
  BY <1>8, <1>11, <1>13

-----------------------------------------------------------------------------
(* What the reports depend on. *)

\* Whether ActivateFallback activates.
Activates(w, e) ==
    /\ spec.fallback.enabled
    /\ ~w.fallback_activated
    /\ w.fallback_depth < spec.fallback.max_depth
    /\ ~(\/ \E q \in w.pending : q.emitted /\ open_pending(q)
         \/ \E i \in DOMAIN w.candidates : in_flight(w.candidates[i]))
    /\ \E trigger \in spec.fallback.triggers : fallback_trigger_fires(trigger, w, e)

\* The tallies as a function of slots and votes.
TalliesOf(candidates, evaluations) ==
    [i \in DOMAIN candidates |->
        LET agree == {k \in {k \in DOMAIN evaluations :
                                /\ evaluations[k].candidate = i
                                /\ evaluations[k].current
                                /\ evaluations[k].candidate_generation
                                     = candidates[i].generation} :
                        evaluations[k].judgment = "accept"}
        IN [eligible |-> is_content_state(candidates[i].state),
            agreeing |-> Cardinality(agree),
            weighted_agree |-> MapThenSumSet(LAMBDA k : evaluations[k].weight, agree)]]

LEMMA TalliesAre ==
    ASSUME NEW w
    PROVE  CandidateTallies(w) = TalliesOf(w.candidates, w.evaluations)
BY DEF CandidateTallies, EvidenceOf, TalliesOf

\* The votes as a function of the evaluations.
VotesOf(evaluations) ==
    LET vote(v) == [participant |-> v.evaluator, generation |-> v.evaluator_generation,
                    candidate |-> v.candidate,
                    abstained |-> v.judgment = "abstain" \/ v.verification = "abstain"]
        live == SelectSeq(evaluations, LAMBDA v : v.current)
    IN [i \in DOMAIN live |-> vote(live[i])]

LEMMA VotesAre == ASSUME NEW w PROVE EligibleVotes(w) = VotesOf(w.evaluations)
BY DEF EligibleVotes, VotesOf

\* A trigger fires for what has become of the slots, and for the reports.
LEMMA TriggersAgree ==
    ASSUME NEW v, NEW w, v.candidates = w.candidates, v.quorum = w.quorum,
           v.consensus = w.consensus, NEW trigger, NEW e
    PROVE  fallback_trigger_fires(trigger, v, e) = fallback_trigger_fires(trigger, w, e)
BY Zenon DEF fallback_trigger_fires, CandidatesIn

\* The quorum report does not read the reports stored before.
LEMMA QuorumAgrees ==
    ASSUME NEW v, NEW w, v.candidates = w.candidates, v.evaluations = w.evaluations, NEW e
    PROVE  QuorumReport(v, e) = QuorumReport(w, e)
<1>1. EligibleVotes(v) = EligibleVotes(w)
  BY VotesAre
<1>2. \A states : CandidatesIn(v, states) = CandidatesIn(w, states)
  BY DEF CandidatesIn
<1> QED
  BY <1>1, <1>2, Zenon DEF QuorumReport

\* While a fallback may still be activated, neither does the consensus.
LEMMA ConsensusAgrees ==
    ASSUME NEW v \in WorkRecord, NEW w \in WorkRecord,
           v.candidates = w.candidates, v.evaluations = w.evaluations,
           v.fallback_depth = w.fallback_depth, NEW e,
           ~(w.fallback_depth >= spec.fallback.max_depth)
    PROVE  ConsensusState(v, e) = ConsensusState(w, e)
<1> DEFINE q == QuorumReport(w, e).state
           x == [v EXCEPT !.quorum = q]
           y == [w EXCEPT !.quorum = q]
<1>1. QuorumReport(v, e) = QuorumReport(w, e)
  BY QuorumAgrees
<1>2. x.fallback_depth = v.fallback_depth /\ y.fallback_depth = w.fallback_depth
  BY DEF WorkRecord
<1>3. fallback_required(x, e) = FALSE /\ fallback_required(y, e) = FALSE
  <2> HIDE DEF x, y
  <2> QED
    BY <1>2 DEF fallback_required
<1>4. CandidateTallies(v) = CandidateTallies(w)
  BY TalliesAre
<1>5. \A states : CandidatesIn(v, states) = CandidatesIn(w, states)
  BY DEF CandidatesIn
<1>6. Len(v.candidates) = Len(w.candidates)
  OBVIOUS
<1>7. ConsensusInputs(v, e) = ConsensusInputs(w, e)
  BY <1>1, <1>3, <1>4, <1>5, <1>6, Zenon DEF ConsensusInputs
<1> QED
  BY <1>7 DEF ConsensusState

\* What the planner decides on: the reports aside.
SameCore(v, w) ==
    /\ v.candidates = w.candidates /\ v.evaluations = w.evaluations /\ v.pending = w.pending
    /\ v.stage_index = w.stage_index /\ v.declared_current_stage = w.declared_current_stage
    /\ v.planning_complete = w.planning_complete
    /\ v.fallback_activated = w.fallback_activated /\ v.fallback_depth = w.fallback_depth

\* New reports leave it alone.
LEMMA ReportsSameCore ==
    ASSUME NEW w \in WorkRecord, NEW e
    PROVE  /\ compute_reports(w, e) \in WorkRecord /\ SameCore(compute_reports(w, e), w)
           /\ compute_reports(w, e).quorum = QuorumReport(w, e).state
           /\ compute_reports(w, e).consensus = ConsensusState(w, e)
<1>1. PICK q \in QuorumStates, c \in ConsensusStates :
         q = QuorumReport(w, e).state /\ c = ConsensusState(w, e)
  BY ReportStates
<1> DEFINE v == [w EXCEPT !.quorum = q, !.consensus = c]
<1>2. compute_reports(w, e) = v
  BY <1>1 DEF compute_reports
<1>3. v \in WorkRecord /\ SameCore(v, w) /\ v.quorum = q /\ v.consensus = c
  BY DEF WorkRecord, SameCore
<1> HIDE DEF v
<1> QED
  BY <1>1, <1>2, <1>3

\* Whether the reports activate a fallback does not depend on those stored before.
LEMMA ActivationAgrees ==
    ASSUME NEW v \in WorkRecord, NEW w \in WorkRecord, SameCore(v, w), NEW e
    PROVE  Activates(compute_reports(v, e), e) = Activates(compute_reports(w, e), e)
<1> DEFINE x == compute_reports(v, e)
           y == compute_reports(w, e)
<1>1. /\ SameCore(x, v) /\ SameCore(y, w)
      /\ x.quorum = QuorumReport(v, e).state /\ y.quorum = QuorumReport(w, e).state
      /\ x.consensus = ConsensusState(v, e) /\ y.consensus = ConsensusState(w, e)
  BY ReportsSameCore
<1>2. x.quorum = y.quorum
  <2>1. QuorumReport(v, e) = QuorumReport(w, e)
    BY QuorumAgrees DEF SameCore
  <2> QED
    BY <1>1, <2>1
<1> HIDE DEF x, y
<1>3. SameCore(x, y)
  BY <1>1 DEF SameCore
<1>4. CASE w.fallback_depth >= spec.fallback.max_depth
  <2>1. ~(spec.fallback.enabled /\ w.fallback_depth < spec.fallback.max_depth)
    <3>1. w.fallback_depth \in Nat
      BY DEF WorkRecord
    <3>2. spec.fallback.enabled => spec.fallback.max_depth \in Nat
      BY SpecAssumption
    <3>3. spec.fallback.max_depth \in Nat => ~(w.fallback_depth < spec.fallback.max_depth)
      BY <1>4, <3>1
    <3> QED
      BY <3>2, <3>3
  <2>2. x.fallback_depth = w.fallback_depth /\ y.fallback_depth = w.fallback_depth
    BY <1>1 DEF SameCore
  <2>3. Activates(x, e) = FALSE /\ Activates(y, e) = FALSE
    BY <2>1, <2>2, Zenon DEF Activates
  <2> QED
    BY <2>3 DEF x, y
<1>5. CASE ~(w.fallback_depth >= spec.fallback.max_depth)
  <2>1. x.consensus = y.consensus
    BY <1>1, <1>5, ConsensusAgrees DEF SameCore
  <2>2. \A trigger : fallback_trigger_fires(trigger, x, e) = fallback_trigger_fires(trigger, y, e)
    BY <1>2, <1>3, <2>1, TriggersAgree DEF SameCore
  <2>3. Activates(x, e) = Activates(y, e)
    BY <1>3, <2>2, Zenon DEF Activates, SameCore
  <2> QED
    BY <2>3 DEF x, y
<1> QED
  BY <1>4, <1>5

-----------------------------------------------------------------------------
(* Where evaluation comes to rest. *)

\* Planning again would plan nothing.
Covered(w, e) ==
    Unevaluated(w) = {} \/ evaluating_participants = {} \/ PlannedEvaluations(w, e) = {}

\* Nothing is left to be planned, emitted or activated.
Ended(w, e) ==
    /\ AllStagesDone(w) /\ w.planning_complete /\ Covered(w, e)
    /\ \A q \in w.pending : Emission(q, w, e) = q
    /\ ~Activates(compute_reports(w, e), e)

Quiet(w, e) == Stuck(w, e) \/ Waits(w, e) \/ Ended(w, e)

\* ActivateFallback activates or does nothing.
LEMMA ActivateFallbackIs ==
    ASSUME NEW x, NEW e
    PROVE  ActivateFallback(x, e) =
               IF ~Activates(x.w, e) THEN x
               ELSE [x EXCEPT !.w = [x.w EXCEPT !.fallback_activated = TRUE,
                                                !.fallback_depth = @ + 1,
                                                !.planning_complete = FALSE],
                              !.progress = TRUE]
BY Zenon DEF ActivateFallback, Activates

\* A planning round plans nothing, or something for every candidate with content.
LEMMA PlanCovers ==
    ASSUME NEW w, NEW e, PlannedEvaluations(w, e) # {},
           NEW i \in CandidatesIn(w, ContentStates)
    PROVE  \E q \in PlannedEvaluations(w, e) : q.candidate = i
<1> DEFINE plan(j, p, criterion, kind) ==
               [round |-> w.plans + 1, evaluator |-> p,
                evaluator_generation |-> e.participants[p].generation,
                candidate |-> j, candidate_generation |-> w.candidates[j].generation,
                criterion |-> criterion, kind |-> kind,
                emitted |-> FALSE, answered |-> FALSE, abandoned |-> FALSE]
           content == CandidatesIn(w, ContentStates)
           hard == {plan(j, p, c, "hard_predicate") :
                      j \in content, c \in spec.evidence.mandatory_criteria,
                      p \in {p \in Participants : HasRole(p, "verifier")}}
           soft == {plan(j, p, c, "ranking_signal") :
                      j \in content, c \in judging_criteria,
                      p \in {p \in Participants : HasRole(p, "judge")}}
<1>1. PlannedEvaluations(w, e) = hard \cup soft
  BY DEF PlannedEvaluations
<1>2. \A j, p, c, kind : plan(j, p, c, kind).candidate = j
  OBVIOUS
<1> HIDE DEF plan
<1>3. CASE hard # {}
  <2>1. PICK c \in spec.evidence.mandatory_criteria,
             p \in {p \in Participants : HasRole(p, "verifier")} : TRUE
    BY <1>3
  <2>2. plan(i, p, c, "hard_predicate") \in hard
    BY <2>1
  <2> QED
    BY <1>1, <1>2, <2>2
<1>4. CASE soft # {}
  <2>1. PICK c \in judging_criteria, p \in {p \in Participants : HasRole(p, "judge")} : TRUE
    BY <1>4
  <2>2. plan(i, p, c, "ranking_signal") \in soft
    BY <2>1
  <2> QED
    BY <1>1, <1>2, <2>2
<1> HIDE DEF hard, soft
<1> QED
  BY <1>1, <1>3, <1>4

\* Whether it plans nothing is a matter of the candidates.
LEMMA PlanIsEmpty ==
    ASSUME NEW v, NEW w, v.candidates = w.candidates, NEW e, PlannedEvaluations(w, e) = {}
    PROVE  PlannedEvaluations(v, e) = {}
<1> DEFINE content(u) == CandidatesIn(u, ContentStates)
           verifiers == {p \in Participants : HasRole(p, "verifier")}
           judges == {p \in Participants : HasRole(p, "judge")}
           Nothing(u) == /\ \/ content(u) = {} \/ spec.evidence.mandatory_criteria = {}
                            \/ verifiers = {}
                         /\ content(u) = {} \/ judging_criteria = {} \/ judges = {}
<1>1. ASSUME NEW u, PlannedEvaluations(u, e) = {} PROVE Nothing(u)
  <2> DEFINE plan(i, p, criterion, kind) ==
                 [round |-> u.plans + 1, evaluator |-> p,
                  evaluator_generation |-> e.participants[p].generation,
                  candidate |-> i, candidate_generation |-> u.candidates[i].generation,
                  criterion |-> criterion, kind |-> kind,
                  emitted |-> FALSE, answered |-> FALSE, abandoned |-> FALSE]
  <2>1. /\ \A i \in content(u), c \in spec.evidence.mandatory_criteria, p \in verifiers :
              plan(i, p, c, "hard_predicate") \in PlannedEvaluations(u, e)
        /\ \A i \in content(u), c \in judging_criteria, p \in judges :
              plan(i, p, c, "ranking_signal") \in PlannedEvaluations(u, e)
    <3> DEFINE hard == {plan(i, p, c, "hard_predicate") :
                          i \in content(u), c \in spec.evidence.mandatory_criteria,
                          p \in verifiers}
               soft == {plan(i, p, c, "ranking_signal") :
                          i \in content(u), c \in judging_criteria, p \in judges}
    <3>1. PlannedEvaluations(u, e) = hard \cup soft
      BY DEF PlannedEvaluations
    <3> HIDE DEF plan, content, verifiers, judges
    <3>2. \A i \in content(u), c \in spec.evidence.mandatory_criteria, p \in verifiers :
             plan(i, p, c, "hard_predicate") \in hard
      OBVIOUS
    <3>3. \A i \in content(u), c \in judging_criteria, p \in judges :
             plan(i, p, c, "ranking_signal") \in soft
      OBVIOUS
    <3> HIDE DEF hard, soft
    <3> QED
      BY <3>1, <3>2, <3>3
  <2> HIDE DEF plan
  <2> QED
    BY <1>1, <2>1
<1>2. \A u : Nothing(u) => PlannedEvaluations(u, e) = {}
  BY DEF PlannedEvaluations
<1>3. content(v) = content(w)
  BY DEF CandidatesIn
<1> QED
  BY <1>1, <1>2, <1>3

\* What has been asked for stays asked for.
LEMMA AskedCovers ==
    ASSUME NEW v, NEW w, v.candidates = w.candidates, v.evaluations = w.evaluations,
           \A q \in w.pending : \E p \in v.pending : p.candidate = q.candidate, NEW e,
           Covered(w, e)
    PROVE  Covered(v, e)
<1>1. Unevaluated(v) \subseteq Unevaluated(w)
  BY DEF Unevaluated, CandidatesIn
<1>2. PlannedEvaluations(w, e) = {} => PlannedEvaluations(v, e) = {}
  BY PlanIsEmpty
<1> QED
  BY <1>1, <1>2 DEF Covered

\* Emission decides once.
LEMMA EmissionOnce ==
    ASSUME NEW q \in PlannedRecord, NEW v, NEW w, v.candidates = w.candidates, NEW e
    PROVE  /\ Emission(q, v, e) = Emission(q, w, e)
           /\ Emission(Emission(q, w, e), v, e) = Emission(q, w, e)
<1> DEFINE r == e.participants[q.evaluator]
           p == Emission(q, w, e)
<1>1. \A d \in PlannedRecord : Emission(d, v, e) = Emission(d, w, e)
  BY DEF Emission
<1>2. ASSUME NEW b \in BOOLEAN
      PROVE  /\ [q EXCEPT !.abandoned = b].abandoned = b /\ [q EXCEPT !.emitted = b].emitted = b
             /\ [q EXCEPT !.abandoned = b] \in PlannedRecord
             /\ q.abandoned = b => [q EXCEPT !.abandoned = b] = q
  BY DEF PlannedRecord
<1>3. ASSUME NEW d, d.abandoned \/ d.emitted PROVE Emission(d, w, e) = d
  BY <1>3 DEF Emission, open_pending
<1>4. CASE p = q
  BY <1>1, <1>4
<1>5. CASE p = [q EXCEPT !.abandoned = TRUE]
  BY <1>1, <1>2, <1>3, <1>5, EmissionType
<1>6. CASE p = [q EXCEPT !.emitted = TRUE]
  BY <1>1, <1>2, <1>3, <1>6, EmissionType
<1>7. CASE p = [q EXCEPT !.abandoned = ~capable(r)] /\ open_pending(q)
  <2>1. PICK b \in BOOLEAN : b = ~capable(r)
    OBVIOUS
  <2>2. CASE b = TRUE
    BY <1>5, <1>7, <2>1, <2>2
  <2>3. CASE b = FALSE
    <3>1. q.abandoned = FALSE
      BY <1>7 DEF open_pending, PlannedRecord
    <3>2. p = q
      BY <1>2, <1>7, <2>1, <2>3, <3>1
    <3> QED
      BY <1>4, <3>2
  <2> QED
    BY <2>2, <2>3
<1>8. \/ p = q \/ p = [q EXCEPT !.abandoned = TRUE] \/ p = [q EXCEPT !.emitted = TRUE]
      \/ p = [q EXCEPT !.abandoned = ~capable(r)] /\ open_pending(q)
  BY DEF Emission
<1> QED
  BY <1>4, <1>5, <1>6, <1>7, <1>8

\* The slots, the votes and the position in the plan.
SamePosition(v, w) ==
    /\ v.candidates = w.candidates /\ v.evaluations = w.evaluations
    /\ v.stage_index = w.stage_index /\ v.declared_current_stage = w.declared_current_stage
    /\ v.fallback_activated = w.fallback_activated /\ v.fallback_depth = w.fallback_depth

\* Once a plan is made, everything with content is covered.
LEMMA PlansMade ==
    ASSUME NEW x, NEW e, IsEnv(e), Sound(x, e)
    PROVE  LET y == PlanEvaluations(x, e)
           IN /\ Sound(y, e) /\ SamePosition(y.w, x.w) /\ y.error = x.error
              /\ y.w.planning_complete /\ Covered(y.w, e)
              /\ x.w.planning_complete /\ Covered(x.w, e) => y.w.pending = x.w.pending
<1> DEFINE w == x.w
           y == PlanEvaluations(x, e)
           added == PlannedEvaluations(w, e)
           pending == w.pending \cup added
           replan == w.planning_complete /\ Unevaluated(w) # {} /\ evaluating_participants # {}
<1>1. /\ x \in Planning /\ w \in WorkRecord /\ w.pending \in SUBSET PlannedRecord
  BY SoundWork DEF WorkRecord
<1>2. PICK n \in Nat : n = w.plans + 1
  BY <1>1 DEF WorkRecord
<1> DEFINE v == [w EXCEPT !.planning_complete = TRUE, !.pending = pending, !.plans = n]
<1>3. y = IF w.planning_complete /\ ~replan THEN x ELSE [x EXCEPT !.w = v, !.progress = TRUE]
  BY <1>2 DEF PlanEvaluations
<1>4. Sound(y, e)
  BY PlanEvaluationsKeeps
<1>5. CASE w.planning_complete /\ ~replan
  <2>1. y = x
    BY <1>3, <1>5
  <2>2. Covered(w, e)
    BY <1>5 DEF Covered
  <2> HIDE DEF y
  <2> QED
    BY <1>4, <1>5, <2>1, <2>2 DEF SamePosition, y
<1>6. CASE ~(w.planning_complete /\ ~replan)
  <2>1. pending \in SUBSET PlannedRecord
    BY <1>1, PlannedType DEF Sound
  <2>2. ASSUME w.planning_complete /\ Covered(w, e) PROVE pending = w.pending
    <3>1. added = {}
      BY <1>6, <2>2 DEF Covered
    <3> QED
      BY <3>1
  <2> HIDE DEF pending
  <2>3. /\ v \in WorkRecord /\ SamePosition(v, w) /\ v.pending = pending /\ v.planning_complete
    BY <1>1, <2>1 DEF WorkRecord, SamePosition
  <2> HIDE DEF v
  <2>4. y.w = v /\ y.error = x.error
    <3>1. y = [x EXCEPT !.w = v, !.progress = TRUE]
      BY <1>3, <1>6
    <3> HIDE DEF y
    <3> QED
      BY <1>1, <3>1 DEF Planning
  <2>5. Covered(v, e)
    <3>1. CASE added = {}
      <4>1. PlannedEvaluations(v, e) = {}
        BY <2>3, <3>1, PlanIsEmpty DEF SamePosition
      <4> QED
        BY <4>1 DEF Covered
    <3>2. CASE added # {}
      <4>1. \A i \in CandidatesIn(w, ContentStates) : \E q \in added : q.candidate = i
        BY <3>2, PlanCovers
      <4>2. CandidatesIn(v, ContentStates) = CandidatesIn(w, ContentStates)
        BY <2>3 DEF CandidatesIn, SamePosition
      <4>3. added \subseteq v.pending
        BY <2>3 DEF pending
      <4> HIDE DEF added
      <4>4. Unevaluated(v) = {}
        BY <4>1, <4>2, <4>3 DEF Unevaluated
      <4> QED
        BY <4>4 DEF Covered
    <3> QED
      BY <3>1, <3>2
  <2> HIDE DEF y, w
  <2> QED
    BY <1>4, <2>2, <2>3, <2>4, <2>5 DEF y, w
<1> QED
  BY <1>5, <1>6

\* Once emitted, everything planned has been decided on.
LEMMA PlansEmitted ==
    ASSUME NEW x, NEW e, IsEnv(e), Sound(x, e)
    PROVE  LET y == EmitEvaluations(x, e)
           IN /\ Sound(y, e) /\ SamePosition(y.w, x.w) /\ y.error = x.error
              /\ y.w.planning_complete = x.w.planning_complete
              /\ \A q \in y.w.pending : Emission(q, y.w, e) = q
              /\ Covered(x.w, e) => Covered(y.w, e)
              /\ (\A q \in x.w.pending : Emission(q, x.w, e) = q) => y.w.pending = x.w.pending
<1> DEFINE w == x.w
           y == EmitEvaluations(x, e)
           pending == {Emission(q, w, e) : q \in w.pending}
           v == [w EXCEPT !.pending = pending]
<1>1. x \in Planning /\ w \in WorkRecord /\ w.pending \in SUBSET PlannedRecord
  BY SoundWork DEF WorkRecord
<1>2. PICK a \in BOOLEAN : a = (x.progress \/ EmissionProgress(w, e))
  OBVIOUS
<1>3. y = [x EXCEPT !.w = v, !.progress = a]
  BY <1>2 DEF EmitEvaluations
<1>4. pending \in SUBSET PlannedRecord
  BY <1>1, EmissionType
<1>5. \A q \in w.pending : \E p \in pending : p.candidate = q.candidate
  BY <1>1, EmissionType
<1>6. \A q \in w.pending : \A u : u.candidates = w.candidates =>
         Emission(Emission(q, w, e), u, e) = Emission(q, w, e)
  BY <1>1, EmissionOnce
<1>7. \A u : u.candidates = w.candidates => \A q \in pending : Emission(q, u, e) = q
  BY <1>6
<1>8. (\A q \in w.pending : Emission(q, w, e) = q) => pending = w.pending
  OBVIOUS
<1> HIDE DEF pending
<1>9. /\ v \in WorkRecord /\ v.pending = pending /\ SamePosition(v, w)
      /\ v.planning_complete = w.planning_complete
  BY <1>1, <1>4 DEF WorkRecord, SamePosition
<1> HIDE DEF v
<1>10. Sound(y, e)
  BY EmitEvaluationsKeeps
<1> HIDE DEF y
<1>11. y.w = v /\ y.error = x.error
  BY <1>1, <1>3 DEF Planning
<1>12. Covered(w, e) => Covered(v, e)
  BY <1>5, <1>9, AskedCovers DEF SamePosition
<1>13. \A q \in v.pending : Emission(q, v, e) = q
  BY <1>7, <1>9 DEF SamePosition
<1> HIDE DEF w
<1> QED
  BY <1>8, <1>9, <1>10, <1>11, <1>12, <1>13 DEF y, w

\* Evaluation ends, unless it activates the fallback that had not been activated; where it has
\* ended before, it changes nothing but the reports.
LEMMA EvaluationEnds ==
    ASSUME NEW x, NEW e, IsEnv(e), Sound(x, e), ~x.error, AllStagesDone(x.w)
    PROVE  LET y == EvaluateAndFallBack(x, e)
           IN /\ \/ Ended(y.w, e)
                 \/ ~y.error /\ y.progress /\ y.w.fallback_activated /\ ~x.w.fallback_activated
              /\ Ended(x.w, e) => SameCore(y.w, x.w)
<1> DEFINE w == x.w
           y == PlanEvaluations(x, e)
           z == EmitEvaluations(y, e)
           u == Report(z, e)
           v == ActivateFallback(u, e)
<1>1. EvaluateAndFallBack(x, e) = v
  BY DEF EvaluateAndFallBack
<1>2. /\ Sound(y, e) /\ SamePosition(y.w, w) /\ y.error = x.error
      /\ y.w.planning_complete /\ Covered(y.w, e)
      /\ w.planning_complete /\ Covered(w, e) => y.w.pending = w.pending
  BY PlansMade
<1> HIDE DEF y
<1>3. /\ Sound(z, e) /\ SamePosition(z.w, y.w) /\ z.error = y.error
      /\ z.w.planning_complete = y.w.planning_complete
      /\ \A q \in z.w.pending : Emission(q, z.w, e) = q
      /\ Covered(y.w, e) => Covered(z.w, e)
      /\ (\A q \in y.w.pending : Emission(q, y.w, e) = q) => z.w.pending = y.w.pending
  BY <1>2, PlansEmitted
<1> HIDE DEF z
<1> DEFINE r == compute_reports(z.w, e)
<1>4. r \in WorkRecord /\ SameCore(r, z.w) /\ z.w \in WorkRecord
  BY <1>3, SoundWork, ReportsSameCore
<1>5. Sound(u, e)
  BY <1>3, ReportKeeps
<1>6. u = [z EXCEPT !.w = r]
  BY DEF Report
<1>7. u.w = r /\ u.error = z.error /\ u \in Planning
  <2> HIDE DEF r
  <2> QED
    BY <1>3, <1>4, <1>6, SoundWork DEF Planning
<1> HIDE DEF u
<1>8. AllStagesDone(r)
  <2> HIDE DEF r
  <2>1. r.stage_index = w.stage_index /\ r.fallback_depth = w.fallback_depth
    BY <1>2, <1>3, <1>4 DEF SamePosition, SameCore
  <2> QED
    BY <2>1 DEF AllStagesDone, StagesOf
<1>9. Activates(compute_reports(r, e), e) = Activates(r, e)
  <2> DEFINE s == z.w
  <2>1. s \in WorkRecord /\ r = compute_reports(s, e)
    BY <1>4
  <2> HIDE DEF r, s
  <2> QED
    BY <1>4, <2>1, ActivationAgrees DEF s
<1>10. Covered(r, e) /\ \A q \in r.pending : Emission(q, r, e) = q
  <2>1. r.candidates = z.w.candidates /\ r.evaluations = z.w.evaluations
        /\ r.pending = z.w.pending
    BY <1>4 DEF SameCore
  <2> HIDE DEF r
  <2>2. Covered(r, e)
    BY <1>2, <1>3, <2>1, AskedCovers
  <2>3. r.pending \subseteq PlannedRecord
    BY <1>4 DEF WorkRecord
  <2>4. \A q \in r.pending : Emission(q, r, e) = Emission(q, z.w, e)
    BY <2>1, <2>3, EmissionOnce
  <2> QED
    BY <1>3, <2>1, <2>2, <2>4
<1>11. ASSUME Ended(w, e) PROVE SameCore(z.w, w)
  <2>1. /\ w.planning_complete /\ Covered(w, e) /\ \A q \in w.pending : Emission(q, w, e) = q
        /\ w.pending \subseteq PlannedRecord
    BY <1>11, SoundWork DEF Ended, WorkRecord
  <2>2. y.w.pending = w.pending
    BY <1>2, <2>1
  <2>3. \A q \in w.pending : Emission(q, y.w, e) = Emission(q, w, e)
    BY <1>2, <2>1, EmissionOnce DEF SamePosition
  <2>4. z.w.pending = w.pending
    BY <1>3, <2>1, <2>2, <2>3
  <2>5. w.planning_complete = TRUE /\ z.w.planning_complete = TRUE
    <3>1. w.planning_complete \in BOOLEAN /\ z.w.planning_complete \in BOOLEAN
      BY <1>4, SoundWork DEF WorkRecord
    <3> QED
      BY <1>2, <1>3, <2>1, <3>1
  <2> QED
    BY <1>2, <1>3, <2>4, <2>5 DEF SamePosition, SameCore
<1>12. CASE ~Activates(r, e)
  <2>1. v = u
    BY <1>7, <1>12, ActivateFallbackIs
  <2>2. Ended(r, e)
    <3>1. r.planning_complete
      BY <1>2, <1>3, <1>4 DEF SameCore
    <3> HIDE DEF r
    <3> QED
      BY <1>8, <1>9, <1>10, <1>12, <3>1 DEF Ended
  <2>3. Ended(w, e) => SameCore(r, w)
    BY <1>4, <1>11 DEF SameCore
  <2> HIDE DEF r, v
  <2> QED
    BY <1>1, <1>7, <2>1, <2>2, <2>3
<1>13. CASE Activates(r, e)
  <2>1. PICK n \in Nat : n = r.fallback_depth + 1
    BY <1>4 DEF WorkRecord
  <2> HIDE DEF r
  <2> DEFINE t == [r EXCEPT !.fallback_activated = TRUE, !.fallback_depth = n,
                            !.planning_complete = FALSE]
  <2>2. v = [u EXCEPT !.w = t, !.progress = TRUE]
    BY <1>7, <1>13, <2>1, ActivateFallbackIs
  <2>3. t \in WorkRecord /\ t.fallback_activated
    BY <1>4 DEF WorkRecord
  <2> HIDE DEF t
  <2>4. v.w = t /\ v.progress /\ v.error = x.error
    BY <1>2, <1>3, <1>7, <2>2, <2>3 DEF Planning
  <2>5. ~r.fallback_activated
    BY <1>13 DEF Activates
  <2>6. ~w.fallback_activated
    BY <1>2, <1>3, <1>4, <2>5 DEF SamePosition, SameCore
  <2>7. ~Ended(w, e)
    <3> SUFFICES ASSUME Ended(w, e) PROVE FALSE
      OBVIOUS
    <3>1. w \in WorkRecord
      BY SoundWork
    <3>2. Activates(r, e) = Activates(compute_reports(w, e), e)
      BY <1>4, <1>11, <3>1, ActivationAgrees DEF r
    <3> QED
      BY <1>13, <3>2 DEF Ended
  <2> HIDE DEF v
  <2> QED
    BY <1>1, <2>3, <2>4, <2>6, <2>7
<1> QED
  BY <1>12, <1>13

\* The reports do not matter for what is left to do.
LEMMA QuietCore ==
    ASSUME NEW v \in WorkRecord, NEW w \in WorkRecord, SameCore(v, w), NEW e, Quiet(w, e)
    PROVE  Quiet(v, e)
<1>1. /\ StagesOf(v) = StagesOf(w) /\ Current(v) = Current(w)
      /\ AllStagesDone(v) = AllStagesDone(w)
  BY DEF SameCore, StagesOf, Current, AllStagesDone
<1>2. \A k : InStage(v, k) = InStage(w, k)
  BY DEF SameCore, InStage
<1>3. ASSUME NEW k PROVE stage_complete(v, k) = stage_complete(w, k)
  <2> DEFINE Open(u, p) == {i \in InStage(u, k) : u.candidates[i].participant = p}
             Done(u) == \A n \in DOMAIN StagesOf(u)[k].participants :
                           LET slots == Open(u, StagesOf(u)[k].participants[n])
                           IN slots # {} /\ \A i \in slots : ~in_flight(u.candidates[i])
  <2>1. stage_complete(v, k) = Done(v) /\ stage_complete(w, k) = Done(w)
    BY DEF stage_complete
  <2>2. \A p : Open(v, p) = Open(w, p)
    BY <1>2 DEF SameCore
  <2> HIDE DEF Open
  <2>3. Done(v) = Done(w)
    BY <1>1, <2>2, Zenon DEF SameCore
  <2> QED
    BY <2>1, <2>3
<1>4. ASSUME NEW k PROVE Spent(v, k, e) = Spent(w, k, e)
  <2>1. Waiting(v, k) = Waiting(w, k)
    BY <1>2 DEF SameCore, Waiting
  <2>2. Ready(v, k, e) = Ready(w, k, e)
    BY <2>1, Zenon DEF SameCore, Ready
  <2>3. IsSequential(v, k) = IsSequential(w, k)
    BY <1>1, Zenon DEF IsSequential
  <2>4. Scanned(v, k, e) = Scanned(w, k, e)
    BY <2>1, <2>2, <2>3, Zenon DEF Scanned
  <2>5. Doomed(v, k, e) = Doomed(w, k, e)
    BY <2>2, <2>4, Zenon DEF SameCore, Doomed
  <2>6. \A i, ids : earlier_pending(v, k, i, ids) = earlier_pending(w, k, i, ids)
    BY <1>2 DEF SameCore, earlier_pending
  <2>7. Dispatchable(v, k, e) = Dispatchable(w, k, e)
    BY <2>2, <2>3, <2>4, <2>5, <2>6, Zenon DEF Dispatchable
  <2> QED
    BY <2>4, <2>5, <2>7, Zenon DEF SameCore, Spent
<1>5. CASE Stuck(w, e)
  <2>1. Stuck(v, e)
    BY <1>1, <1>5, Zenon DEF SameCore, Stuck
  <2> QED
    BY <2>1 DEF Quiet
<1>6. CASE Waits(w, e)
  <2>1. Waits(v, e)
    BY <1>1, <1>3, <1>4, <1>6, Zenon DEF SameCore, Waits, AtStage
  <2> QED
    BY <2>1 DEF Quiet
<1>7. CASE Ended(w, e)
  <2>1. Covered(v, e)
    BY <1>7, AskedCovers DEF SameCore, Ended
  <2>2. v.pending \subseteq PlannedRecord
    BY DEF WorkRecord
  <2>3. \A q \in v.pending : Emission(q, v, e) = Emission(q, w, e)
    BY <2>2, EmissionOnce DEF SameCore
  <2>4. Activates(compute_reports(v, e), e) = Activates(compute_reports(w, e), e)
    BY ActivationAgrees
  <2>5. Ended(v, e)
    BY <1>1, <1>7, <2>1, <2>3, <2>4 DEF SameCore, Ended
  <2> QED
    BY <2>5 DEF Quiet
<1> QED
  BY <1>5, <1>6, <1>7 DEF Quiet

\* Another pass is due.
Due(x) == x.progress /\ ~x.error

\* One pass leaves nothing to do, one scan to do, or a fallback activated that was not; one that
\* had one scan to do leaves nothing, and one that had nothing to do does nothing.
LEMMA PassEnds ==
    ASSUME NEW x, NEW e, IsEnv(e), Sound(x, e), Due(x)
    PROVE  LET y == Pass(x, e)
           IN /\ Sound(y, e)
              /\ \/ Quiet(y.w, e)
                 \/ Due(y) /\ Near(y.w, e)
                 \/ Due(y) /\ y.w.fallback_activated /\ ~x.w.fallback_activated
              /\ Near(x.w, e) => Quiet(y.w, e)
              /\ Quiet(x.w, e) => Quiet(y.w, e) /\ SameCore(y.w, x.w)
<1> DEFINE w == x.w
           s == [x EXCEPT !.progress = FALSE, !.halt = FALSE]
           z == StageLoop(s, e)
           y == EvaluateAndFallBack(z, e)
<1>1. Pass(x, e) = y
  BY DEF Pass
<1>2. s \in Planning /\ s.w = w /\ ~s.halt /\ ~s.error /\ s.progress = FALSE
  BY DEF Sound, Planning, Due
<1> HIDE DEF s
<1>3. Sound(s, e)
  BY <1>2 DEF Sound
<1>4. /\ z.w.fallback_activated = w.fallback_activated
      /\ \/ Rests(z, e) /\ ~AllStagesDone(z.w)
         \/ ~z.error /\ AllStagesDone(z.w)
  BY <1>2, <1>3, StageLoopEnds
<1>5. Stuck(w, e) \/ Waits(w, e) => z.w = w
  BY <1>2, <1>3, StageLoopRests
<1>6. Near(w, e) => Waits(z.w, e)
  BY <1>2, <1>3, StageLoopNears
<1>7. AllStagesDone(w) => z = s
  BY <1>2, <1>3, LoopDone
<1>8. Sound(z, e)
  BY <1>3, StageLoopKeeps
<1> HIDE DEF z
<1>9. /\ Stuck(w, e) \/ Waits(w, e) \/ Near(w, e) => ~AllStagesDone(w)
      /\ Waits(z.w, e) => ~AllStagesDone(z.w)
      /\ Ended(w, e) => AllStagesDone(w)
  BY DEF Stuck, Waits, Near, AtStage, Ended
<1>10. Sound(y, e)
  BY <1>8, EvaluateAndFallBackKeeps
<1>11. CASE ~AllStagesDone(z.w)
  <2>1. y = z
    BY <1>11 DEF EvaluateAndFallBack
  <2>2. Rests(z, e)
    BY <1>4, <1>11
  <2>3. Quiet(z.w, e) \/ (Due(z) /\ Near(z.w, e))
    BY <2>2 DEF Rests, Quiet, Due
  <2>4. Near(w, e) => Quiet(z.w, e)
    BY <1>6 DEF Quiet
  <2>5. Quiet(w, e) => Stuck(w, e) \/ Waits(w, e)
    BY <1>2, <1>7, <1>9, <1>11 DEF Quiet
  <2>6. Quiet(w, e) => z.w = w
    BY <1>5, <2>5
  <2>7. Quiet(w, e) => Quiet(z.w, e) /\ SameCore(z.w, w)
    BY <2>6 DEF SameCore
  <2> HIDE DEF y, w
  <2> QED
    BY <1>1, <1>10, <2>1, <2>3, <2>4, <2>7 DEF w
<1>12. CASE AllStagesDone(z.w)
  <2>1. ~z.error
    BY <1>4, <1>12 DEF Rests, Stuck, Waits, Near, AtStage
  <2>2. /\ \/ Ended(y.w, e)
           \/ ~y.error /\ y.progress /\ y.w.fallback_activated /\ ~z.w.fallback_activated
        /\ Ended(z.w, e) => SameCore(y.w, z.w)
    BY <1>8, <1>12, <2>1, EvaluationEnds
  <2> HIDE DEF y
  <2>3. Quiet(y.w, e) \/ (Due(y) /\ y.w.fallback_activated /\ ~w.fallback_activated)
    BY <1>4, <2>2 DEF Quiet, Due
  <2>4. ~Near(w, e)
    BY <1>6, <1>9, <1>12
  <2>5. Quiet(w, e) => Ended(w, e) /\ z.w = w
    BY <1>2, <1>5, <1>7, <1>9, <1>12 DEF Quiet
  <2>6. Quiet(w, e) => SameCore(y.w, w)
    BY <2>2, <2>5
  <2>7. Quiet(w, e) => Quiet(y.w, e)
    BY <1>8, <1>10, <2>5, <2>6, SoundWork, QuietCore
  <2> HIDE DEF w
  <2> QED
    BY <1>1, <1>10, <2>3, <2>4, <2>6, <2>7 DEF w
<1> QED
  BY <1>11, <1>12

\* The same of a pass that is made only if it is due.
LEMMA PassAgainEnds ==
    ASSUME NEW x, NEW e, IsEnv(e), Sound(x, e)
    PROVE  LET y == PassAgain(x, e)
           IN /\ Sound(y, e)
              /\ Due(x) => \/ Quiet(y.w, e)
                           \/ Due(y) /\ Near(y.w, e)
                           \/ Due(y) /\ y.w.fallback_activated /\ ~x.w.fallback_activated
              /\ Due(x) /\ Near(x.w, e) => Quiet(y.w, e)
              /\ Quiet(x.w, e) => Quiet(y.w, e) /\ SameCore(y.w, x.w)
<1>1. CASE Due(x)
  <2> DEFINE y == Pass(x, e)
  <2>1. PassAgain(x, e) = y
    BY <1>1 DEF PassAgain, Due
  <2>2. /\ Sound(y, e)
        /\ \/ Quiet(y.w, e)
           \/ Due(y) /\ Near(y.w, e)
           \/ Due(y) /\ y.w.fallback_activated /\ ~x.w.fallback_activated
        /\ Near(x.w, e) => Quiet(y.w, e)
        /\ Quiet(x.w, e) => Quiet(y.w, e) /\ SameCore(y.w, x.w)
    BY <1>1, PassEnds
  <2> HIDE DEF y
  <2> QED
    BY <2>1, <2>2
<1>2. CASE ~Due(x)
  <2>1. PassAgain(x, e) = x
    BY <1>2 DEF PassAgain, Due
  <2> QED
    BY <1>2, <2>1 DEF SameCore
<1> QED
  BY <1>1, <1>2

\* The passes, unfolded.
LEMMA PassesRun ==
    ASSUME NEW x, NEW e
    PROVE  \E top \in Nat : \E f : /\ top = 64 /\ Passes64(x, e) = f[top] /\ f[0] = x
                                    /\ \A n \in Nat : n + 1 <= top => f[n + 1] = PassAgain(f[n], e)
<1> DEFINE after[n \in 0..64] == IF n = 0 THEN x ELSE PassAgain(after[n - 1], e)
<1>1. PICK top \in Nat : top = 64
  OBVIOUS
<1>2. after = [n \in 0..top |-> IF n = 0 THEN x ELSE PassAgain(after[n - 1], e)]
  <2>1. \E f : PassRuns(f, top, x, e)
    BY PassRunsExist
  <2> QED
    BY <1>1, <2>1 DEF PassRuns
<1>3. Passes64(x, e) = after[top]
  BY <1>1 DEF Passes64
<1> HIDE DEF after
<1>4. after[0] = x
  BY <1>2
<1>5. ASSUME NEW n \in Nat, n + 1 <= top PROVE after[n + 1] = PassAgain(after[n], e)
  <2>1. n + 1 \in 0..top /\ n + 1 # 0 /\ (n + 1) - 1 = n
    BY <1>5
  <2> QED
    BY <1>2, <2>1
<1> QED
  BY <1>1, <1>3, <1>4, <1>5

\* After three passes nothing is left to do: the bound of 64 is never what ends a call that
\* still had something to do.
LEMMA PassesEnd ==
    ASSUME NEW x, NEW e, IsEnv(e), Sound(x, e), Due(x)
    PROVE  LET y == Passes64(x, e)
           IN /\ Sound(y, e) /\ Quiet(y.w, e)
              /\ Quiet(x.w, e) => SameCore(y.w, x.w)
<1>0. PICK top \in Nat : \E f : /\ top = 64 /\ Passes64(x, e) = f[top] /\ f[0] = x
                                 /\ \A n \in Nat : n + 1 <= top =>
                                       f[n + 1] = PassAgain(f[n], e)
  BY PassesRun
<1>1. PICK f : /\ top = 64 /\ Passes64(x, e) = f[top] /\ f[0] = x
               /\ \A n \in Nat : n + 1 <= top => f[n + 1] = PassAgain(f[n], e)
  BY <1>0
<1> DEFINE Same(y) == Sound(y, e) /\ (Quiet(x.w, e) => Quiet(y.w, e) /\ SameCore(y.w, x.w))
           One(y) == Quiet(y.w, e) \/ (Due(y) /\ (Near(y.w, e) \/ y.w.fallback_activated))
           Two(y) == Quiet(y.w, e) \/ (Due(y) /\ Near(y.w, e))
<1>2. ASSUME NEW y, Sound(y, e)
      PROVE  LET z == PassAgain(y, e)
             IN /\ Sound(z, e)
                /\ Due(y) => One(z)
                /\ One(y) => Two(z)
                /\ Two(y) => Quiet(z.w, e)
                /\ Quiet(y.w, e) => Quiet(z.w, e) /\ SameCore(z.w, y.w)
  <2> DEFINE z == PassAgain(y, e)
  <2>1. /\ Sound(z, e)
        /\ Due(y) => \/ Quiet(z.w, e)
                     \/ Due(z) /\ Near(z.w, e)
                     \/ Due(z) /\ z.w.fallback_activated /\ ~y.w.fallback_activated
        /\ Due(y) /\ Near(y.w, e) => Quiet(z.w, e)
        /\ Quiet(y.w, e) => Quiet(z.w, e) /\ SameCore(z.w, y.w)
    BY <1>2, PassAgainEnds
  <2> HIDE DEF z
  <2>2. /\ Sound(z, e) /\ (Due(y) => One(z)) /\ (One(y) => Two(z)) /\ (Two(y) => Quiet(z.w, e))
        /\ Quiet(y.w, e) => Quiet(z.w, e) /\ SameCore(z.w, y.w)
    BY <2>1
  <2> QED
    BY <2>2 DEF z
<1>3. ASSUME NEW y, Same(y) PROVE Same(PassAgain(y, e))
  <2> DEFINE z == PassAgain(y, e)
  <2>1. Sound(z, e) /\ (Quiet(y.w, e) => Quiet(z.w, e) /\ SameCore(z.w, y.w))
    BY <1>2, <1>3
  <2> HIDE DEF z
  <2>2. Same(z)
    BY <1>3, <2>1 DEF SameCore
  <2> QED
    BY <2>2 DEF z
<1>4. Same(f[0])
  BY <1>1 DEF SameCore
<1> HIDE DEF Same, One, Two
<1>5. \A n \in Nat : n <= top => Same(f[n])
  <2> DEFINE R == {n \in Nat : n <= top => Same(f[n])}
  <2>1. 0 \in R
    BY <1>4
  <2>2. ASSUME NEW n \in Nat, n \in R PROVE n + 1 \in R
    BY <1>1, <1>3, <2>2
  <2> HIDE DEF R
  <2>3. \A n \in Nat : n \in R
    BY <2>1, <2>2, SetInduction
  <2> QED
    BY <2>3 DEF R
<1>6. \A n \in Nat : n <= top => Sound(f[n], e)
  BY <1>5 DEF Same
<1>7. Quiet(f[3].w, e)
  <2>1. f[1] = PassAgain(f[0], e) /\ f[2] = PassAgain(f[1], e) /\ f[3] = PassAgain(f[2], e)
    <3>1. f[0 + 1] = PassAgain(f[0], e) /\ f[1 + 1] = PassAgain(f[1], e)
          /\ f[2 + 1] = PassAgain(f[2], e)
      BY <1>1
    <3> QED
      BY <3>1
  <2>2. Sound(f[0], e) /\ Sound(f[1], e) /\ Sound(f[2], e)
    BY <1>1, <1>6
  <2>3. One(f[1])
    BY <1>1, <1>2, <2>1, <2>2
  <2>4. Two(f[2])
    BY <1>2, <2>1, <2>2, <2>3
  <2> QED
    BY <1>2, <2>1, <2>2, <2>4
<1>8. Quiet(f[top].w, e)
  <2> DEFINE R == {m \in Nat : m + 3 <= top => Quiet(f[m + 3].w, e)}
  <2>1. 0 \in R
    BY <1>7
  <2>2. ASSUME NEW n \in Nat, n \in R PROVE n + 1 \in R
    <3> SUFFICES ASSUME (n + 1) + 3 <= top PROVE Quiet(f[(n + 1) + 3].w, e)
      OBVIOUS
    <3>1. PICK m \in Nat : m = n + 3
      OBVIOUS
    <3>2. m <= top /\ m + 1 <= top /\ (n + 1) + 3 = m + 1
      BY <3>1
    <3>3. Quiet(f[m].w, e) /\ Sound(f[m], e)
      BY <1>6, <2>2, <3>1, <3>2
    <3>4. f[m + 1] = PassAgain(f[m], e)
      BY <1>1, <3>2
    <3> QED
      BY <1>2, <3>2, <3>3, <3>4
  <2> HIDE DEF R
  <2>3. top - 3 \in Nat /\ (top - 3) + 3 = top
    BY <1>1
  <2>4. top - 3 \in R
    BY <2>1, <2>2, <2>3, SetInduction
  <2> QED
    BY <2>3, <2>4 DEF R
<1> QED
  BY <1>1, <1>5, <1>8 DEF Same

-----------------------------------------------------------------------------
(* The call. *)

\* A call leaves nothing to do, and where nothing is to be done it changes the reports only.
LEMMA AdvanceEnds ==
    ASSUME NEW w, NEW e, IsEnv(e), WorkInv(w), DispatchesHeld(w, e.participants)
    PROVE  /\ Quiet(advance(w, e), e)
           /\ Quiet(w, e) => SameCore(advance(w, e), w)
<1> DEFINE x == [w |-> w, progress |-> TRUE, halt |-> FALSE, error |-> FALSE]
           y == Passes64(x, e)
           v == compute_reports(y.w, e)
<1>1. x \in Planning /\ x.w = w /\ Due(x)
  BY DEF WorkInv, Planning, Due
<1>2. advance(w, e) = IF y.error THEN y.w ELSE v
  BY DEF advance, Conclude
<1> HIDE DEF x
<1>3. Sound(x, e)
  BY <1>1 DEF Sound
<1>4. Sound(y, e) /\ Quiet(y.w, e) /\ (Quiet(w, e) => SameCore(y.w, w))
  BY <1>1, <1>3, PassesEnd
<1> HIDE DEF y
<1>5. y.w \in WorkRecord
  BY <1>4, SoundWork
<1>6. v \in WorkRecord /\ SameCore(v, y.w)
  BY <1>5, ReportsSameCore
<1> HIDE DEF v
<1>7. Quiet(v, e)
  BY <1>4, <1>5, <1>6, QuietCore
<1>8. SameCore(y.w, w) => SameCore(v, w)
  BY <1>6 DEF SameCore
<1> QED
  BY <1>2, <1>4, <1>7, <1>8

\* The second of two calls of advance changes nothing but, possibly, the reports and the count
\* of planning rounds, whatever the specification, the participants and the evidence are.
THEOREM AdvanceTwice ==
    ASSUME NEW w, NEW e, IsEnv(e), WorkInv(w), DispatchesHeld(w, e.participants)
    PROVE  SameCore(advance(advance(w, e), e), advance(w, e))
<1> DEFINE v == advance(w, e)
<1>1. WorkInv(v) /\ DispatchesHeld(v, e.participants)
  BY AdvanceKeeps
<1>2. Quiet(v, e)
  BY AdvanceEnds
<1> HIDE DEF v
<1>3. SameCore(advance(v, e), v)
  BY <1>1, <1>2, AdvanceEnds
<1> QED
  BY <1>3 DEF v

\* fabric.hpp on advance: "calling it twice without changing state returns an empty action
\* list".  In every state of every ensemble the second of two calls dispatches, plans, emits and
\* declares nothing the first one has not.
THEOREM AdvanceRepeatable == Spec => []AdvanceIdempotent
<1>1. TypeOK /\ EvidenceInv => AdvanceIdempotent
  <2> SUFFICES ASSUME TypeOK, EvidenceInv, status = "open" PROVE AdvanceIdempotent
    BY DEF AdvanceIdempotent
  <2>1. IsEnv(Env) /\ Env.participants = participants
    BY DEF TypeOK, IsEnv, Env
  <2>2. WorkInv(work) /\ DispatchesHeld(work, Env.participants)
    BY <2>1 DEF EvidenceInv
  <2>3. SameCore(advance(advance(work, Env), Env), advance(work, Env))
    BY <2>1, <2>2, AdvanceTwice
  <2> QED
    BY <2>3 DEF AdvanceIdempotent, SameCore
<1>2. EngineInv => AdvanceIdempotent
  BY <1>1 DEF EngineInv
<1> QED
  BY <1>2, EngineInvariant, PTL

=============================================================================
