------------------------------- MODULE Fabric -------------------------------
(***************************************************************************)
(* The ensemble runtime EnsembleFabric (src/fabric*.cpp) for one ensemble: *)
(* definition, registration, execution, ingest, arbitration and the commit *)
(* gate, driven by concurrent callers, workers that answer late, twice or  *)
(* never, participant failures and coordinator restarts.                   *)
(*                                                                         *)
(* Every public method holds the engine mutex, so a method is one action;  *)
(* finalize and restart release it in between and are several.  A call the *)
(* engine rejects leaves the state alone (counters are not modelled), so a *)
(* rejected call is a disabled action.                                     *)
(***************************************************************************)
EXTENDS Advance

CONSTANTS Callers,        \* threads that finalize, prepare or commit
          Boots,          \* worker incarnations, positive numbers
          Payloads,       \* candidate outputs; 0 is an empty or too small one
          Verdicts,       \* what an evaluator may answer
          FailureKinds,   \* the ParticipantFailureKinds that occur
          MaxGeneration, MaxExecution, MaxEpoch,                   \* model bounds
          MaxParticipantGeneration, MaxCandidateGeneration,        \* model bounds
          MaxRetainedResults   \* limits.max_retained_results

ASSUME BootsAssumption == Boots \subseteq Nat \ {0}
ASSUME BoundsAssumption ==
    /\ MaxGeneration \in Nat \ {0}
    /\ MaxExecution \in Nat \ {0}
    /\ MaxEpoch \in Nat \ {0}
    /\ MaxParticipantGeneration \in Nat \ {0}
    /\ MaxCandidateGeneration \in Nat \ {0}
    /\ MaxRetainedResults \in Nat \ {0}
\* validate_spec, for the fields the engine indexes by; latency is not modelled.
ASSUME SpecAssumption ==
    /\ spec.fallback.enabled => /\ spec.fallback.max_depth \in Nat \ {0}
                                /\ spec.fallback.fallback_participants # <<>>
    /\ ~spec.fallback.enabled => spec.fallback.fallback_participants = <<>>
    /\ \A n \in DOMAIN spec.arbitration.factors : spec.arbitration.factors[n] # "latency"

VARIABLES
    epoch,          \* impl_->epoch
    restarting,     \* restart() is between its two critical sections
    generation,     \* EnsembleRecord: spec.generation, 0 before the first definition
    superseded, participants, history,
    execution,      \* ExecutionRecord: its id, 0 when has_execution is false
    status, execution_epoch, cancellation_requested,
    result,         \* the committed result, NoResult when has_result is false
    work,           \* its evidence and planner state
    dispatches,     \* DispatchActions ever sent, with the authority they convey
    requests,       \* EvaluationActions ever sent, with the authority they convey
    calls,          \* the finalize, prepare and commit calls under way
    acknowledged,   \* history variable: every result commit_result has returned
    cancelled       \* history variable: every execution cancel_ensemble has cancelled

engine == <<epoch, restarting, generation, superseded, participants, history>>
gate == <<execution, status, execution_epoch, cancellation_requested, result>>
network == <<dispatches, requests>>
clients == <<calls, acknowledged, cancelled>>
vars == <<engine, gate, work, network, clients>>

-----------------------------------------------------------------------------

NoResult == [generation |-> 0, execution |-> 0, epoch |-> 0, decision |-> "pending",
             candidate |-> 0, candidate_generation |-> 0, participant |-> 0, payload |-> 0,
             fallback_used |-> FALSE, fallback_depth |-> 0, consensus |-> "not_evaluated"]
has_result == result # NoResult
has_execution == execution # 0
Key == <<generation, execution>>

Idle == [pc |-> "idle", generation |-> 0, execution |-> 0, result |-> NoResult]

\* What advance and compute_reports read besides the evidence.
Env == [participants |-> participants, epoch |-> epoch, execution_epoch |-> execution_epoch,
        status |-> status, superseded |-> superseded]

Init ==
    /\ epoch = 1 /\ restarting = FALSE
    /\ generation = 0 /\ superseded = FALSE /\ history = <<>>
    /\ participants = [p \in Participants |-> NewParticipant]
    /\ execution = 0 /\ status = "none" /\ execution_epoch = 0
    /\ cancellation_requested = FALSE /\ result = NoResult
    /\ work = NewExecution
    /\ dispatches = {} /\ requests = {}
    /\ calls = [c \in Callers |-> Idle]
    /\ acknowledged = {} /\ cancelled = {}

-----------------------------------------------------------------------------
(* Definition. *)

\* The history after a redefinition: oldest entries are dropped beyond the bound.
RetainedHistory ==
    LET all == Append(history, result)
    IN SubSeq(all, Len(all) - Min({Len(all), MaxRetainedResults}) + 1, Len(all))

define_ensemble ==
    /\ generation < MaxGeneration
    /\ generation' = generation + 1
    /\ superseded' = FALSE
    /\ participants' = [p \in Participants |-> NewParticipant]
    /\ history' = IF has_result THEN RetainedHistory ELSE history
    /\ execution' = 0 /\ status' = "none" /\ execution_epoch' = 0
    /\ cancellation_requested' = FALSE /\ result' = NoResult
    /\ work' = NewExecution
    /\ UNCHANGED <<epoch, restarting, network, clients>>

\* The candidates once every in-flight one has the given state.
FenceInFlight(candidates, state, current) ==
    [i \in DOMAIN candidates |->
        IF in_flight(candidates[i])
          THEN [candidates[i] EXCEPT !.state = state, !.current = current]
          ELSE candidates[i]]

supersede_ensemble ==
    /\ generation > 0
    /\ superseded' = TRUE
    /\ IF has_execution /\ status = "open"
         THEN /\ status' = "superseded"
              /\ work' = [work EXCEPT !.candidates = FenceInFlight(@, "superseded", TRUE)]
         ELSE UNCHANGED <<status, work>>
    /\ UNCHANGED <<epoch, restarting, generation, participants, history, execution,
                   execution_epoch, cancellation_requested, result, network, clients>>

-----------------------------------------------------------------------------
(* Participants. *)

\* A worker incarnation b registers as p; a compatible profile and granted roles are presumed.
register_participant(p, b) ==
    LET r == participants[p]
        next_generation == IF r.worker_boot # 0 THEN r.generation + 1 ELSE r.generation
    IN /\ generation > 0
       /\ ~(r.registered /\ r.status = "current")
       /\ next_generation <= MaxParticipantGeneration
       /\ participants' = [participants EXCEPT ![p] =
              [generation |-> next_generation, status |-> "current", registered |-> TRUE,
               worker_boot |-> b, epoch |-> epoch]]
       /\ UNCHANGED <<epoch, restarting, generation, superseded, history, gate, work,
                      network, clients>>

\* A failure report naming the current incarnation of p, registered or not.
report_participant_failure(p, kind) ==
    LET r == participants[p]
    IN /\ generation > 0
       /\ r.worker_boot # 0
       /\ participants' = [participants EXCEPT ![p] =
              [r EXCEPT !.status = IF kind = "unavailable" THEN "unavailable" ELSE "failed",
                        !.registered = FALSE]]
       /\ IF has_execution /\ status = "open"
            THEN /\ work' = handle_participant_failure_locked(work, p, r, kind)
                 /\ status' = IF /\ spec.cancellation.cancel_on_required_failure
                                 /\ Declaration(p).required
                                THEN "failed" ELSE status
            ELSE UNCHANGED <<work, status>>
       /\ \A i \in DOMAIN work'.candidates :
             work'.candidates[i].generation <= MaxCandidateGeneration
       /\ UNCHANGED <<epoch, restarting, generation, superseded, history, execution,
                      execution_epoch, cancellation_requested, result, network, clients>>

\* invalidate_dynamic_authority: nothing recovered or restarted holds live authority.
InvalidatedParticipants(records) ==
    [p \in Participants |->
        [records[p] EXCEPT !.status = "revalidation_required", !.registered = FALSE]]
InvalidatedWork(w) ==
    [w EXCEPT !.candidates = FenceInFlight(@, "superseded", FALSE),
              !.evaluations = [i \in DOMAIN @ |-> [@[i] EXCEPT !.current = FALSE]],
              !.pending = {[q EXCEPT !.abandoned = TRUE] : q \in @}]

\* restart, first critical section: invalidate_dynamic_authority.
restart_invalidate ==
    /\ ~restarting /\ epoch < MaxEpoch
    /\ restarting' = TRUE
    /\ participants' = InvalidatedParticipants(participants)
    /\ IF has_execution /\ status = "open"
         THEN status' = "revalidation_required" /\ work' = InvalidatedWork(work)
         ELSE UNCHANGED <<status, work>>
    /\ UNCHANGED <<epoch, generation, superseded, history, execution, execution_epoch,
                   cancellation_requested, result, network, clients>>

\* restart, second critical section: the epoch advances.
restart_advance_epoch ==
    /\ restarting
    /\ restarting' = FALSE
    /\ epoch' = epoch + 1
    /\ UNCHANGED <<generation, superseded, participants, history, gate, work, network, clients>>

-----------------------------------------------------------------------------
(* Execution. *)

open_execution ==
    /\ generation > 0 /\ ~superseded
    /\ ~(has_execution /\ status = "open")
    /\ execution < MaxExecution
    /\ execution' = execution + 1
    /\ status' = "open" /\ execution_epoch' = epoch
    /\ cancellation_requested' = FALSE /\ result' = NoResult
    /\ work' = NewExecution
    /\ UNCHANGED <<engine, network, clients>>

execution_settled ==
    /\ has_execution
    /\ \/ status # "open"
       \/ /\ AllStagesDone(work)
          /\ \A i \in DOMAIN work.candidates :
                in_flight(work.candidates[i]) =>
                    ~capable(participants[work.candidates[i].participant])
          /\ \A q \in work.pending : open_pending(q) => ~capable(participants[q.evaluator])

\* The authority a DispatchAction conveys to the worker that will answer it.
DispatchOf(i, c) ==
    [generation |-> generation, execution |-> execution, candidate |-> i,
     candidate_generation |-> c.generation, participant |-> c.participant,
     participant_generation |-> c.participant_generation, worker_boot |-> c.worker_boot,
     epoch |-> c.epoch]

RequestOf(q) ==
    [generation |-> generation, execution |-> execution, round |-> q.round,
     evaluator |-> q.evaluator, evaluator_generation |-> participants[q.evaluator].generation,
     worker_boot |-> participants[q.evaluator].worker_boot,
     epoch |-> participants[q.evaluator].epoch, candidate |-> q.candidate,
     candidate_generation |-> q.candidate_generation, criterion |-> q.criterion, kind |-> q.kind]

\* The DispatchActions and EvaluationActions of a call that turns work into w.
NewDispatches(w) ==
    {DispatchOf(i, w.candidates[i]) : i \in CandidatesIn(w, {"dispatched"})}
NewRequests(w) == {RequestOf(q) : q \in {q \in w.pending \ work.pending : q.emitted}}

advance_open ==
    /\ has_execution /\ status = "open" /\ ~superseded
    /\ work' = advance(work, Env)
    /\ dispatches' = dispatches \cup NewDispatches(work')
    /\ requests' = requests \cup NewRequests(work')
    /\ UNCHANGED <<engine, gate, clients>>

\* advance on a cancelled execution emits the CancelActions once and fences what is in flight.
advance_cancelled ==
    /\ has_execution /\ status = "cancelled" /\ ~work.cancellation_emitted
    /\ work' = [work EXCEPT !.cancellation_emitted = TRUE,
                            !.candidates = FenceInFlight(@, "cancelled", FALSE),
                            !.pending = {[q EXCEPT !.abandoned = TRUE] : q \in @}]
    /\ UNCHANGED <<engine, gate, network, clients>>

\* Mutants: the request is not recorded; a committed execution is cancelled too.
cancel_unrecorded ==
    /\ has_execution /\ ~has_result /\ status # "cancelled"
    /\ status' = "cancelled"
    /\ cancelled' = cancelled \cup {Key}
    /\ UNCHANGED <<engine, execution, execution_epoch, cancellation_requested, result, work,
                   network, calls, acknowledged>>
cancel_committed ==
    /\ has_execution /\ status # "cancelled"
    /\ cancellation_requested' = TRUE /\ status' = "cancelled"
    /\ cancelled' = cancelled \cup {Key}
    /\ UNCHANGED <<engine, execution, execution_epoch, result, work, network,
                   calls, acknowledged>>

cancel_ensemble ==
    /\ has_execution /\ ~has_result
    /\ status # "cancelled"
    /\ cancellation_requested' = TRUE /\ status' = "cancelled"
    /\ cancelled' = cancelled \cup {Key}
    /\ UNCHANGED <<engine, execution, execution_epoch, result, work, network,
                   calls, acknowledged>>

-----------------------------------------------------------------------------
(* Ingest.  A worker may answer any dispatch or request it was ever sent,  *)
(* any number of times and at any later time.                              *)

\* Mutant: output is taken again from a candidate that already has some.
locate_candidate_again(m) ==
    /\ m.epoch = epoch /\ m.generation = generation
    /\ has_execution /\ m.execution = execution
    /\ m.candidate \in DOMAIN work.candidates
    /\ m.candidate_generation = work.candidates[m.candidate].generation

\* Every component of the authority m matches current state and output is still permitted.
locate_candidate(m) ==
    LET r == participants[m.participant]
    IN /\ m.epoch = epoch
       /\ m.generation = generation
       /\ has_execution /\ m.execution = execution
       /\ m.participant_generation = r.generation
       /\ m.worker_boot = r.worker_boot
       /\ authoritative(r, epoch)
       /\ m.candidate \in DOMAIN work.candidates
       /\ m.candidate_generation = work.candidates[m.candidate].generation
       /\ m.participant = work.candidates[m.candidate].participant
       /\ work.candidates[m.candidate].state = "dispatched"

submit_candidate(m, payload) ==
    /\ locate_candidate(m)
    /\ work' = [work EXCEPT !.candidates[m.candidate].state =
                                IF payload = 0 THEN "invalid" ELSE "valid",
                            !.candidates[m.candidate].payload = payload]
    /\ UNCHANGED <<engine, gate, network, clients>>

submit_candidate_failure(m, kind) ==
    /\ locate_candidate(m)
    /\ work' = fail_or_retry(work, {m.candidate}, failure_error(kind))
    /\ UNCHANGED <<engine, gate, network, clients>>

submit_candidate_abstention(m) ==
    /\ locate_candidate(m)
    /\ work' = [work EXCEPT !.candidates[m.candidate].state = "abstained",
                            !.candidates[m.candidate].payload = 0]
    /\ UNCHANGED <<engine, gate, network, clients>>

\* The evaluation the request m answers, whatever has become of it.
PlanOf(m) ==
    {q \in work.pending : /\ q.round = m.round /\ q.evaluator = m.evaluator
                          /\ q.candidate = m.candidate
                          /\ q.candidate_generation = m.candidate_generation
                          /\ q.criterion = m.criterion /\ q.kind = m.kind}

EvaluatorAuthorized(m) ==
    LET r == participants[m.evaluator]
    IN /\ m.epoch = epoch
       /\ m.generation = generation
       /\ has_execution /\ m.execution = execution
       /\ m.evaluator_generation = r.generation
       /\ m.worker_boot = r.worker_boot
       /\ authoritative(r, epoch)

\* Mutant: nobody has.
NeverEvaluated(m) == FALSE

\* This evaluator generation has already judged this candidate by this criterion.
AlreadyEvaluated(m) ==
    \E k \in DOMAIN work.evaluations :
        /\ work.evaluations[k].evaluator = m.evaluator
        /\ work.evaluations[k].evaluator_generation = m.evaluator_generation
        /\ work.evaluations[k].criterion = m.criterion
        /\ work.evaluations[k].candidate = m.candidate

EvaluationAdmissible(m) ==
    /\ EvaluatorAuthorized(m)
    /\ m.candidate \in DOMAIN work.candidates
    /\ m.candidate_generation = work.candidates[m.candidate].generation
    /\ is_content_state(work.candidates[m.candidate].state)
    /\ m.kind = IF HasRole(m.evaluator, "verifier") THEN "hard_predicate" ELSE "ranking_signal"
    /\ ~AlreadyEvaluated(m)

submit_evaluation(m, verdict) ==
    \E q \in PlanOf(m) :
        /\ EvaluationAdmissible(m)
        /\ open_pending(q)
        /\ work' = [work EXCEPT
              !.evaluations = Append(@,
                  [evaluator |-> m.evaluator, evaluator_generation |-> m.evaluator_generation,
                   candidate |-> m.candidate, candidate_generation |-> m.candidate_generation,
                   criterion |-> m.criterion, kind |-> m.kind,
                   judgment |-> verdict.judgment, verification |-> verdict.verification,
                   score_defined |-> verdict.score_defined, score |-> verdict.score,
                   weight |-> verdict.weight, current |-> TRUE]),
              !.pending = (@ \ {q}) \cup {[q EXCEPT !.answered = TRUE]}]
        /\ UNCHANGED <<engine, gate, network, clients>>

-----------------------------------------------------------------------------
(* Preparation and the commit gate. *)

\* The result that the evidence w, the consensus and the arbitration on it support.
ResultFrom(w, consensus, arbitration) ==
    LET selection == has_selection(consensus, arbitration, spec.arbitration.tie_break)
        decision == decision_for(consensus, selection)
        chosen == IF decision = "committed" /\ selection
                    THEN [id |-> arbitration.selected, record |-> w.candidates[arbitration.selected]]
                    ELSE [id |-> 0, record |-> [NewCandidate(0, 0, 0, FALSE) EXCEPT !.generation = 0]]
    IN [generation |-> generation, execution |-> execution, epoch |-> execution_epoch,
        decision |-> decision, candidate |-> chosen.id,
        candidate_generation |-> chosen.record.generation,
        participant |-> chosen.record.participant, payload |-> chosen.record.payload,
        fallback_used |-> w.fallback_activated, fallback_depth |-> w.fallback_depth,
        consensus |-> consensus]

ResultOf(w, consensus) ==
    ResultFrom(w, consensus, arbitrate(ArbitrationInputs(w, Env)))

\* prepare_result on behalf of caller c, which then holds the result in state pc.
prepare_result(c, pc) ==
    /\ has_execution
    /\ work' = IF has_result THEN work ELSE compute_reports(work, Env)
    /\ calls' = [calls EXCEPT ![c] =
          IF pc = "idle" THEN Idle
          ELSE [pc |-> pc, generation |-> generation, execution |-> execution,
                result |-> IF has_result THEN result
                          ELSE ResultOf(work', ConsensusState(work, Env))]]
    /\ UNCHANGED <<engine, gate, network, acknowledged, cancelled>>

\* Mutant: the ensemble generation is not compared.
validate_any_generation(r) == has_execution /\ r.execution = execution /\ r.epoch = epoch

\* validate_result and the execution check that follows it.
validate_result(r) ==
    /\ r.generation = generation
    /\ r.epoch = epoch
    /\ r.decision = "committed" => r.candidate # 0
    /\ has_execution /\ r.execution = execution

\* Mutants: a result is overwritten; a cancelled execution publishes; a recovered one does.
MayOverwrite == ~cancellation_requested /\ ~superseded
MayPublishCancelled == ~has_result /\ ~superseded
MayPublishRecovered == ~has_result /\ ~cancellation_requested /\ ~superseded

\* No result yet, and the execution may still publish one.
MayPublish ==
    /\ ~has_result
    /\ ~cancellation_requested /\ status # "cancelled"
    /\ status # "superseded" /\ ~superseded
    /\ status # "revalidation_required"

\* The candidates after a commit: the selected one, and every other content rejected.
Selected(candidates, id) ==
    [i \in DOMAIN candidates |->
        IF i = id THEN [candidates[i] EXCEPT !.state = "selected"]
        ELSE IF is_content_state(candidates[i].state)
          THEN [candidates[i] EXCEPT !.state = "rejected"]
          ELSE candidates[i]]

\* commit_result stores r, or acknowledges the identical result stored before.
CommitAccepted(r) ==
    /\ validate_result(r)
    /\ \/ /\ MayPublish
          /\ result' = r
          /\ status' = status_for(r.decision)
          /\ work' = IF r.decision = "committed"
                       THEN [work EXCEPT !.candidates = Selected(@, r.candidate)] ELSE work
       \/ /\ has_result /\ result = r
          /\ UNCHANGED <<result, status, work>>
    /\ acknowledged' = acknowledged \cup {r}
    /\ UNCHANGED <<engine, execution, execution_epoch, cancellation_requested, network, cancelled>>

CommitRejected(r) == ~(validate_result(r) /\ (MayPublish \/ (has_result /\ result = r)))

\* A caller of the two-phase API keeps its prepared result and may commit it again.
PrepareResult(c) == calls[c].pc \in {"idle", "prepared"} /\ prepare_result(c, "prepared")
CommitResult(c) == calls[c].pc = "prepared" /\ CommitAccepted(calls[c].result) /\ UNCHANGED calls

\* finalize, first critical section: settled and not in a terminal failure state.
FinalizeCheck(c) ==
    /\ calls[c].pc \in {"idle", "prepared"}
    /\ execution_settled
    /\ status \notin {"revalidation_required", "cancelled", "superseded"} /\ ~superseded
    /\ calls' = [calls EXCEPT ![c] = [pc |-> "checked", generation |-> generation,
                                      execution |-> execution, result |-> NoResult]]
    /\ UNCHANGED <<engine, gate, work, network, acknowledged, cancelled>>

\* finalize, second critical section; it gives up when the execution is not the one checked.
FinalizePrepare(c) ==
    /\ calls[c].pc = "checked"
    /\ calls[c].generation = generation
    /\ prepare_result(c, IF calls[c].execution = execution THEN "committing" ELSE "idle")

FinalizeCommit(c) ==
    /\ calls[c].pc = "committing"
    /\ CommitAccepted(calls[c].result)
    /\ calls' = [calls EXCEPT ![c] = Idle]

\* finalize returns an error after its first critical section.
FinalizeReturn(c) ==
    /\ \/ calls[c].pc = "checked" /\ (calls[c].generation # generation \/ ~has_execution)
       \/ calls[c].pc = "committing" /\ CommitRejected(calls[c].result)
    /\ calls' = [calls EXCEPT ![c] = Idle]
    /\ UNCHANGED <<engine, gate, work, network, acknowledged, cancelled>>

-----------------------------------------------------------------------------

Submit ==
    \/ \E m \in dispatches : \/ \E payload \in Payloads : submit_candidate(m, payload)
                             \/ \E kind \in FailureKinds : submit_candidate_failure(m, kind)
                             \/ submit_candidate_abstention(m)
    \/ \E m \in requests, verdict \in Verdicts : submit_evaluation(m, verdict)

Next ==
    \/ define_ensemble \/ supersede_ensemble
    \/ \E p \in Participants, b \in Boots : register_participant(p, b)
    \/ \E p \in Participants, kind \in FailureKinds : report_participant_failure(p, kind)
    \/ restart_invalidate \/ restart_advance_epoch
    \/ open_execution \/ advance_open \/ advance_cancelled \/ cancel_ensemble
    \/ Submit
    \/ \E c \in Callers : \/ PrepareResult(c) \/ CommitResult(c)
                          \/ FinalizeCheck(c) \/ FinalizePrepare(c)
                          \/ FinalizeCommit(c) \/ FinalizeReturn(c)

Spec == Init /\ [][Next]_vars

\* The scheduling the deployment provides: the coordinator pumps advance after every
\* message, every declared participant is started once, and a live worker answers every
\* dispatch and every evaluation request it can still answer.
AnswersDispatch(p) ==
    \E m \in dispatches : /\ m.participant = p
                          /\ \/ \E payload \in Payloads : submit_candidate(m, payload)
                             \/ \E kind \in FailureKinds : submit_candidate_failure(m, kind)
                             \/ submit_candidate_abstention(m)
AnswersRequest(p) ==
    \E m \in requests, verdict \in Verdicts : m.evaluator = p /\ submit_evaluation(m, verdict)

\* WF_vars(advance_open), its enabling condition written out.
PumpDue == has_execution /\ status = "open" /\ ~superseded /\ advance(work, Env) # work
PumpFairness == []<>~PumpDue \/ []<><<advance_open>>_vars

Fairness ==
    /\ PumpFairness
    /\ \A p \in Participants : /\ WF_vars(\E b \in Boots : register_participant(p, b))
                                /\ WF_vars(AnswersDispatch(p))
    /\ \A p \in evaluating_participants : WF_vars(AnswersRequest(p))

FairSpec == Spec /\ Fairness

-----------------------------------------------------------------------------
(* Properties. *)

Decisions == {"committed", "cancelled", "superseded", "revalidation_required",
              "no_eligible_candidate", "failed", "fallback_required"}
Statuses == {"none", "open", "committed", "cancelled", "superseded", "revalidation_required",
             "no_eligible_candidate", "failed"}
ParticipantStatuses == {"revalidation_required", "current", "unavailable", "failed"}

ParticipantRecord ==
    [generation : Nat \ {0}, status : ParticipantStatuses, registered : BOOLEAN,
     worker_boot : Nat, epoch : Nat]

IsResult(r) ==
    /\ r.generation \in Nat /\ r.execution \in Nat /\ r.epoch \in Nat
    /\ r = NoResult \/ r.decision \in Decisions

IsCall(call) ==
    call.pc \in {"idle", "prepared", "checked", "committing"} /\ IsResult(call.result)

\* The types of the engine's own state; EvidenceIntegrity constrains the evidence.
TypeOK ==
    /\ epoch \in Nat \ {0} /\ restarting \in BOOLEAN
    /\ generation \in Nat /\ superseded \in BOOLEAN
    /\ participants \in [Participants -> ParticipantRecord]
    /\ execution \in Nat /\ status \in Statuses /\ execution_epoch \in Nat
    /\ cancellation_requested \in BOOLEAN
    /\ IsResult(result)
    /\ \A r \in acknowledged : IsResult(r)
    /\ cancelled \subseteq Nat \X Nat
    /\ DOMAIN calls = Callers /\ \A c \in Callers : IsCall(calls[c])

KeyOf(r) == <<r.generation, r.execution>>

\* One execution generation has at most one authoritative result: two results that
\* commit_result returned, to whichever callers and whenever, for the same execution of the
\* same ensemble generation are identical (commit_result, its idempotent and conflicting
\* branches).
ExactlyOnce == \A r, s \in acknowledged : KeyOf(r) = KeyOf(s) => r = s

\* Cancellation and publication exclude each other for ever: no execution that cancel_ensemble
\* cancelled has, before or later, a result that commit_result returned.
CancelExcludesCommit == \A r \in acknowledged : KeyOf(r) \notin cancelled

\* A published result always is a decision about the execution, never an echo of its
\* cancellation, supersession or revalidation that was prepared before or after it
\* (prepare_result runs in those states, commit_result refuses them), and the stored status
\* goes on reflecting it (status_for).
PublishedIsDecision ==
    has_result => /\ result.decision \in {"committed", "no_eligible_candidate", "failed",
                                          "fallback_required"}
                  /\ status = status_for(result.decision)
                  /\ KeyOf(result) = Key

\* The runtime implements the result log.
Log == INSTANCE ResultLog WITH current <- Key, published <- acknowledged, dead <- cancelled
\* Every step of the engine is a step of the result log or leaves it unchanged: executions
\* only move forward, and the current one is decided at most once.
ImplementsResultLog == Log!Spec

\* What the gate maintains step by step: a returned result or a cancellation belongs to an
\* execution that is over, or to the current one, whose has_result or cancellation_requested
\* then still says so; what is stored was returned.
GateInv ==
    /\ \A r \in acknowledged : Log!Precedes(KeyOf(r), Key) \/ (KeyOf(r) = Key /\ has_result /\ result = r)
    /\ \A k \in cancelled : Log!Precedes(k, Key) \/ (k = Key /\ cancellation_requested /\ ~has_result)
    /\ has_result => result \in acknowledged /\ KeyOf(result) = Key

\* Whatever a caller has prepared, however long ago: a result that echoes the cancellation,
\* supersession or revalidation of the current execution is only held while the flag or status
\* that makes commit_result refuse it still stands.
PreparedInv ==
    /\ status = "superseded" => superseded
    /\ status = "cancelled" => cancellation_requested
    /\ \A c \in Callers :
          LET r == calls[c].result
          IN \/ Log!Precedes(KeyOf(r), Key)
             \/ /\ KeyOf(r) = Key
                /\ r.decision = "cancelled" => cancellation_requested
                /\ r.decision = "superseded" => superseded
                /\ r.decision = "revalidation_required" =>
                      status = "revalidation_required" \/ cancellation_requested

SameExecution == Key' = Key

\* Nothing in flight is orphaned: a dispatched candidate of an open execution is always held by
\* the very incarnation it was sent to, which is still registered.  Output is therefore only
\* taken from that incarnation, although locate_candidate never compares a submission with the
\* incarnation recorded in the candidate, and nobody waits for a dead worker
\* (report_participant_failure, restart, register_participant).
NoOrphanedDispatch ==
    status = "open" =>
        \A i \in CandidatesIn(work, {"dispatched"}) :
            LET c == work.candidates[i]
                r == participants[c.participant]
            IN /\ authoritative(r, c.epoch)
               /\ c.participant_generation = r.generation /\ c.worker_boot = r.worker_boot

\* The attempts of one logical candidate slot.
Attempts(i) == {m \in dispatches : KeyOf(m) = Key /\ m.candidate = i}

\* Every attempt is dispatched once and no slot is dispatched more often than the retry policy
\* allows, however worker failures, failure reports, restarts and advance calls interleave
\* (retry_authorized, rewind_candidate_for_retry, the dispatch loop of advance).
AttemptBudget ==
    \A i \in DOMAIN work.candidates :
        /\ Cardinality(Attempts(i)) <= spec.retry.max_attempts
        /\ Cardinality(Attempts(i)) = work.candidates[i].attempts_used
        /\ \A m, n \in Attempts(i) : m.candidate_generation = n.candidate_generation => m = n

\* A candidate without content is never the subject of evaluation: what is in flight has
\* neither evaluations nor planned ones, so supersede_candidate_evidence finds nothing to
\* supersede when a retry rewinds a candidate, and no vote survives into another attempt.
InFlightHasNoEvidence ==
    \A i \in DOMAIN work.candidates :
        in_flight(work.candidates[i]) =>
            /\ \A k \in DOMAIN work.evaluations : work.evaluations[k].candidate # i
            /\ \A q \in work.pending : q.candidate # i

\* In a sequential stage a candidate is only ever out while everyone declared before it has
\* resolved, so at most one candidate of the stage is out at any time (earlier_pending).
SequentialDiscipline ==
    \A i \in CandidatesIn(work, {"dispatched"}) :
        LET k == work.candidates[i].stage
        IN StagesOf(work)[k].mode = "sequential" =>
             \A j \in InStage(work, k) \ {i} :
                 work.candidates[j].state # "dispatched" /\ (j < i => ~in_flight(work.candidates[j]))

\* No candidate of a stage exists before every candidate of the earlier stages has resolved, and
\* a retry never reopens an earlier stage (stage_complete, the stage loop of advance).
StageBarrier ==
    \A i, j \in DOMAIN work.candidates :
        work.candidates[i].stage < work.candidates[j].stage => ~in_flight(work.candidates[i])

\* fabric.hpp on advance: "calling it twice without changing state returns an empty action
\* list".  Whatever the state, the second of two calls dispatches, plans, emits and declares
\* nothing the first one has not.
AdvanceIdempotent ==
    has_execution /\ status = "open" =>
        LET SamePlan(v, w) == /\ v.candidates = w.candidates /\ v.pending = w.pending
                              /\ v.stage_index = w.stage_index
            Repeatable(once) == SamePlan(once, advance(once, Env))
        IN Repeatable(advance(work, Env))

\* When the only authorized trigger is that no primary candidate is valid, a fallback candidate
\* and primary content exclude each other in every later state: late primary output is fenced
\* (spec.hpp: "Fallback is never activated because a primary candidate merely ranked lower").
FallbackReplacesPrimaries ==
    spec.fallback.triggers = {"all_primary_invalid"} =>
        ~\E i, j \in DOMAIN work.candidates :
            /\ work.candidates[i].fallback /\ ~work.candidates[j].fallback
            /\ in_flight(work.candidates[j]) \/ is_content_state(work.candidates[j].state)

\* The reports that follow from the evidence w alone, whatever was stored before.
FreshReports(w, e) == compute_reports([w EXCEPT !.consensus = NewExecution.consensus], e)

\* The step that activates the fallback leaves evidence that calls for it: every primary has
\* resolved, and one of the declared conditions holds of the reports computed from the votes as
\* they stand.  No earlier report decides, though every call stores one and the conditions read
\* what is stored (spec.hpp: "Typed conditions that authorize fallback activation"; advance
\* calls compute_reports before it asks fallback_trigger_fires).
FallbackIsAuthorized ==
    [][SameExecution /\ work'.fallback_activated /\ ~work.fallback_activated =>
         /\ \A i \in DOMAIN work'.candidates :
               work'.candidates[i].fallback \/ ~in_flight(work'.candidates[i])
         /\ \E trigger \in spec.fallback.triggers :
               fallback_trigger_fires(trigger, FreshReports(work', Env), Env)]_vars

\* The evidence is sound: a vote is about the content its candidate has now and still has at
\* the end, and no evaluator generation has two votes on a candidate under one criterion,
\* although plans are made again after a fallback and answers may arrive late and repeatedly
\* (submit_evaluation).
EvidenceIntegrity ==
    \A k \in DOMAIN work.evaluations :
        LET v == work.evaluations[k]
        IN /\ v.candidate \in CandidatesIn(work, ContentStates \cup {"rejected"})
           /\ v.candidate_generation = work.candidates[v.candidate].generation
           /\ \A l \in DOMAIN work.evaluations \ {k} :
                 LET u == work.evaluations[l]
                 IN <<u.evaluator, u.evaluator_generation, u.candidate, u.criterion>>
                      # <<v.evaluator, v.evaluator_generation, v.candidate, v.criterion>>

\* The committed result names the candidate the runtime holds as selected, with the payload that
\* was arbitrated, although output, evaluations, failures and other commits may have come in
\* between prepare_result and commit_result; there is only one selected candidate.
SelectionMatchesResult ==
    has_result /\ result.decision = "committed" =>
        LET c == work.candidates[result.candidate]
        IN /\ CandidatesIn(work, {"selected"}) = {result.candidate}
           /\ result.payload # 0 /\ c.payload = result.payload
           /\ c.generation = result.candidate_generation
           /\ c.participant = result.participant

\* Every open execution settles: it is not left for ever with work that nobody will do.
Settles == (has_execution /\ status = "open") ~> execution_settled

\* An evaluation that was answered is planned again.
AskedAgain ==
    \E q \in work.pending, k \in DOMAIN work.evaluations :
        LET v == work.evaluations[k]
        IN /\ ~q.answered /\ ~q.abandoned
           /\ <<v.evaluator, v.criterion, v.candidate>> = <<q.evaluator, q.criterion, q.candidate>>

\* With judges that answer, an open execution fails to settle for one reason only: activating a
\* fallback plans an evaluation again that the evaluator has answered already, and
\* submit_evaluation refuses the second answer as a duplicate.
SettlesUnlessAskedAgain ==
    (has_execution /\ status = "open") ~> (execution_settled \/ AskedAgain)
=============================================================================
