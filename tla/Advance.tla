------------------------------ MODULE Advance ------------------------------
(***************************************************************************)
(* EnsembleFabric::advance (src/fabric_execution.cpp): the planner that    *)
(* declares and dispatches the candidates of the current stage, plans and  *)
(* emits evaluations, and activates the fallback stage.                    *)
(*                                                                         *)
(* One call runs passes until a pass makes no progress (at most 64).  The  *)
(* number of passes matters, because every pass that reaches the           *)
(* evaluation part recomputes the reports, so it is modelled exactly: x is *)
(*   [w: the execution, progress, halt: the inner loop broke out,          *)
(*    error: the call returned resource_limit_exceeded].                   *)
(***************************************************************************)
EXTENDS Execution

StagesOf(w) == effective_stages \o [d \in 1..w.fallback_depth |-> FallbackStage]
IsFallbackStage(k) == k > Len(effective_stages)
AllStagesDone(w) == w.stage_index >= Len(StagesOf(w))

InStage(w, k) == {i \in DOMAIN w.candidates : w.candidates[i].stage = k}

\* Participant p already has a candidate in stage k.
Exists(candidates, p, k) ==
    \E i \in DOMAIN candidates : candidates[i].participant = p /\ candidates[i].stage = k

\* Gives p its candidate in stage k, unless it has one or the candidate bound is reached.
DeclareMember(candidates, p, k, e) ==
    IF Exists(candidates, p, k) \/ Len(candidates) >= MaxCandidates THEN candidates
    ELSE Append(candidates,
                NewCandidate(p, e.participants[p].generation, k, IsFallbackStage(k)))

DeclareMembers(candidates, members, k, e) ==
    LET declared[n \in 0..Len(members)] ==
          IF n = 0 THEN candidates ELSE DeclareMember(declared[n - 1], members[n], k, e)
    IN declared[Len(members)]

\* Declares the missing candidates of stage k; the call fails when the bound leaves one out.
DeclareStage(x, k, e) ==
    LET w == x.w
        members == StagesOf(w)[k].participants
        candidates == DeclareMembers(w.candidates, members, k, e)
        full == \E n \in DOMAIN members : ~Exists(candidates, members[n], k)
    IN IF w.declared_current_stage THEN x
       ELSE [x EXCEPT !.w = [w EXCEPT !.candidates = candidates,
                                      !.declared_current_stage = ~full],
                      !.progress = @ \/ ~full,
                      !.error = full]

\* Mutant: a candidate waits for its participant for ever.
NeverUnservable(c, e) == FALSE

\* A declared candidate nobody can serve and no replacement is awaited for.
Unservable(c, e) ==
    /\ ~capable(e.participants[c.participant])
    /\ ~(spec.retry.replace_participant /\ c.attempts_used < spec.retry.max_attempts)

Dispatched(c, e) ==
    [c EXCEPT !.state = "dispatched", !.attempts_used = @ + 1, !.epoch = e.epoch,
              !.participant_generation = e.participants[c.participant].generation,
              !.worker_boot = e.participants[c.participant].worker_boot]

\* Mutant: the order of a sequential stage is not enforced.
NothingPending(w, k, i, doomed) == FALSE

\* Whether a candidate of the stage before i is still in flight once the unservable failed.
earlier_pending(w, k, i, doomed) ==
    \E j \in InStage(w, k) \ doomed : j < i /\ in_flight(w.candidates[j])

\* One scan of the candidates of stage k.  A sequential stage stops at the first candidate
\* whose participant is authoritative, dispatched or not.
DispatchStage(x, k, e) ==
    LET w == x.w
        declared == {i \in InStage(w, k) : w.candidates[i].state = "declared"}
        ready == {i \in declared :
                    authoritative(e.participants[w.candidates[i].participant], e.epoch)}
        sequential == StagesOf(w)[k].mode = "sequential"
        scanned == IF sequential /\ ready # {} THEN {i \in declared : i <= Min(ready)} ELSE declared
        doomed == {i \in scanned \ ready : Unservable(w.candidates[i], e)}
        sent == {i \in scanned \cap ready : sequential => ~earlier_pending(w, k, i, doomed)}
        outcome(i) ==
          LET c == w.candidates[i]
          IN IF i \in sent THEN Dispatched(c, e)
             ELSE IF i \in scanned
               THEN [(IF i \in doomed THEN failed_candidate(c) ELSE c) EXCEPT
                       !.participant_generation = e.participants[c.participant].generation]
               ELSE c
        w1 == [w EXCEPT !.candidates = [i \in DOMAIN @ |-> outcome(i)]]
    IN [x EXCEPT !.w = supersede_candidate_evidence(w1, doomed),
                 !.progress = @ \/ doomed # {} \/ sent # {}]

\* Mutant: a stage is complete once one of its candidates has resolved.
StagePartlyComplete(w, k) == \E i \in InStage(w, k) : ~in_flight(w.candidates[i])

stage_complete(w, k) ==
    LET stage == StagesOf(w)[k]
    IN \A n \in DOMAIN stage.participants :
         LET slots == {i \in InStage(w, k) : w.candidates[i].participant = stage.participants[n]}
         IN slots # {} /\ \A i \in slots : ~in_flight(w.candidates[i])

\* The end of an iteration of the stage loop: on to the next stage when this one is complete.
CompleteStage(x, k) ==
    IF stage_complete(x.w, k)
      THEN [x EXCEPT !.w = [x.w EXCEPT !.stage_index = @ + 1, !.declared_current_stage = FALSE],
                     !.progress = TRUE]
      ELSE [x EXCEPT !.halt = TRUE]

\* One iteration of the stage loop, before and after the declarations.
ServeStage(x, k, e) ==
    IF x.error THEN [x EXCEPT !.halt = TRUE] ELSE CompleteStage(DispatchStage(x, k, e), k)

StageStep(x, e) ==
    LET k == x.w.stage_index + 1
    IN IF x.halt \/ AllStagesDone(x.w) THEN x ELSE ServeStage(DeclareStage(x, k, e), k, e)

StageLoop(x, e) ==
    LET bound == Len(StagesOf(x.w))
        iterate[n \in 0..bound] == IF n = 0 THEN x ELSE StageStep(iterate[n - 1], e)
    IN iterate[bound]

-----------------------------------------------------------------------------
(* Evaluation planning, emission and fallback activation. *)

\* A content candidate that became eligible after the plan was built.
Unevaluated(w) ==
    {i \in CandidatesIn(w, ContentStates) :
        /\ ~\E k \in DOMAIN w.evaluations : w.evaluations[k].candidate = i
        /\ ~\E q \in w.pending : q.candidate = i}

\* The evaluations one planning round adds; round and position make up the EvaluationId.
PlannedEvaluations(w, e) ==
    LET plan(i, p, criterion, kind) ==
          [round |-> w.plans + 1, evaluator |-> p,
           evaluator_generation |-> e.participants[p].generation,
           candidate |-> i, candidate_generation |-> w.candidates[i].generation,
           criterion |-> criterion, kind |-> kind,
           emitted |-> FALSE, answered |-> FALSE, abandoned |-> FALSE]
        content == CandidatesIn(w, ContentStates)
    IN {plan(i, p, c, "hard_predicate") : i \in content, c \in spec.evidence.mandatory_criteria,
                                           p \in {p \in Participants : HasRole(p, "verifier")}}
       \cup
       {plan(i, p, c, "ranking_signal") : i \in content, c \in judging_criteria,
                                           p \in {p \in Participants : HasRole(p, "judge")}}

PlanEvaluations(x, e) ==
    LET w == x.w
        replan == w.planning_complete /\ Unevaluated(w) # {} /\ evaluating_participants # {}
    IN IF w.planning_complete /\ ~replan THEN x
       ELSE [x EXCEPT !.w = [w EXCEPT !.planning_complete = TRUE,
                                      !.pending = @ \cup PlannedEvaluations(w, e),
                                      !.plans = @ + 1],
                      !.progress = TRUE]

\* Mutant: an answer does not close it.
never_answered(q) == ~q.abandoned

open_pending(q) == ~q.answered /\ ~q.abandoned

\* What emission makes of a planned evaluation: emitted, abandoned, or left for later.
Emission(q, w, e) ==
    LET r == e.participants[q.evaluator]
        c == w.candidates[q.candidate]
    IN IF ~open_pending(q) \/ q.emitted THEN q
       ELSE IF q.evaluator_generation # r.generation THEN [q EXCEPT !.abandoned = TRUE]
       ELSE IF ~authoritative(r, e.epoch) THEN [q EXCEPT !.abandoned = ~capable(r)]
       ELSE IF c.generation # q.candidate_generation \/ ~is_content_state(c.state)
         THEN [q EXCEPT !.abandoned = TRUE]
       ELSE [q EXCEPT !.emitted = TRUE]

\* Abandoning the plan of a replaced evaluator is the one change that is not progress.
EmissionProgress(w, e) ==
    \E q \in w.pending : /\ q.evaluator_generation = e.participants[q.evaluator].generation
                         /\ Emission(q, w, e) # q

EmitEvaluations(x, e) ==
    [x EXCEPT !.w = [x.w EXCEPT !.pending = {Emission(q, x.w, e) : q \in @}],
              !.progress = @ \/ EmissionProgress(x.w, e)]

ActivateFallback(x, e) ==
    LET w == x.w
        waiting == \/ \E q \in w.pending : q.emitted /\ open_pending(q)
                   \/ \E i \in DOMAIN w.candidates : in_flight(w.candidates[i])
        activate == /\ spec.fallback.enabled
                    /\ ~w.fallback_activated
                    /\ w.fallback_depth < spec.fallback.max_depth
                    /\ ~waiting
                    /\ \E trigger \in spec.fallback.triggers : fallback_trigger_fires(trigger, w, e)
    IN IF ~activate THEN x
       ELSE [x EXCEPT !.w = [w EXCEPT !.fallback_activated = TRUE,
                                      !.fallback_depth = @ + 1,
                                      !.planning_complete = FALSE],
                      !.progress = TRUE]

-----------------------------------------------------------------------------
(* One pass of the outer loop, and the call. *)

Report(x, e) == [x EXCEPT !.w = compute_reports(@, e)]

\* Mutant: the reports are brought up to date after the fallback has been decided.
FallBackBeforeReport(x, e) ==
    IF x.error \/ ~AllStagesDone(x.w) THEN x
    ELSE Report(ActivateFallback(EmitEvaluations(PlanEvaluations(x, e), e), e), e)

\* What follows the stage loop once every stage is done.
EvaluateAndFallBack(x, e) ==
    IF x.error \/ ~AllStagesDone(x.w) THEN x
    ELSE ActivateFallback(Report(EmitEvaluations(PlanEvaluations(x, e), e), e), e)

Pass(x, e) ==
    EvaluateAndFallBack(StageLoop([x EXCEPT !.progress = FALSE, !.halt = FALSE], e), e)

\* The condition of the loop: the last pass made progress and did not fail.
PassAgain(x, e) == IF x.progress /\ ~x.error THEN Pass(x, e) ELSE x

\* Mutant: a call makes one pass.
SinglePass(x, e) == Pass(x, e)

\* At most 64 passes, until one makes no progress or fails.
Passes64(x, e) ==
    LET after[n \in 0..64] == IF n = 0 THEN x ELSE PassAgain(after[n - 1], e)
    IN after[64]

\* The reports are computed once more unless the call failed.
Conclude(x, e) == IF x.error THEN x.w ELSE compute_reports(x.w, e)

advance(w, e) ==
    Conclude(Passes64([w |-> w, progress |-> TRUE, halt |-> FALSE, error |-> FALSE], e), e)
=============================================================================
