---------------------------- MODULE FabricProofs ----------------------------
(***************************************************************************)
(* Proofs about the commit gate of Fabric, for every ensemble, every       *)
(* number of callers and without the model bounds mattering.               *)
(***************************************************************************)
EXTENDS Fabric, TLAPS

\* What the engine is exposed to, whoever calls it: Next with submissions that convey any
\* authority whatever, sent by the engine or not, and failure reports of any kind.
AnySubmit ==
    \E m : \/ \E payload \in Payloads : submit_candidate(m, payload)
           \/ \E kind \in FailureKinds : submit_candidate_failure(m, kind)
           \/ submit_candidate_abstention(m)
           \/ \E verdict \in Verdicts : submit_evaluation(m, verdict)
EngineNext ==
    \/ define_ensemble \/ supersede_ensemble
    \/ \E p \in Participants, b \in Boots : register_participant(p, b)
    \/ \E p \in Participants : \E kind : report_participant_failure(p, kind)
    \/ restart_invalidate \/ restart_advance_epoch
    \/ open_execution \/ advance_open \/ advance_cancelled \/ cancel_ensemble
    \/ AnySubmit
    \/ \E c \in Callers : \/ PrepareResult(c) \/ CommitResult(c)
                          \/ FinalizeCheck(c) \/ FinalizePrepare(c)
                          \/ FinalizeCommit(c) \/ FinalizeReturn(c)

\* In particular to what Next describes.
LEMMA NextIsEngineNext == [Next]_vars => [EngineNext]_vars
BY DEF Next, EngineNext, Submit, AnySubmit

\* The decision prepare_result stores is one of the decisions of EnsembleDecision.
LEMMA DecisionIsDecision ==
    ASSUME NEW consensus, NEW selection
    PROVE  decision_for(consensus, selection) \in Decisions
BY DEF decision_for, Decisions

\* What prepare_result builds is a result of the current execution.
LEMMA ResultOfIsResult ==
    ASSUME TypeOK, NEW w, NEW consensus
    PROVE  IsResult(ResultOf(w, consensus))
<1> DEFINE r == ResultOf(w, consensus)
           arbitration == arbitrate(ArbitrationInputs(w, Env))
           selection == has_selection(consensus, arbitration, spec.arbitration.tie_break)
<1>1. r.generation = generation /\ r.execution = execution /\ r.epoch = execution_epoch
  BY DEF ResultOf, ResultFrom
<1>2. r.decision = decision_for(consensus, selection)
  BY DEF ResultOf, ResultFrom
<1> HIDE DEF selection
<1>3. r.decision \in Decisions
  BY <1>2, DecisionIsDecision
<1> HIDE DEF r
<1> QED
  BY <1>1, <1>3 DEF TypeOK, IsResult, r

-----------------------------------------------------------------------------
(* Type correctness. *)

\* A caller that has returned.
LEMMA IdleType == IsCall(Idle)
BY DEF IsCall, Idle, IsResult, NoResult

\* What becomes of the calls when one of them moves on.
LEMMA CallsType ==
    ASSUME TypeOK, NEW c \in Callers, NEW call, IsCall(call), calls' = [calls EXCEPT ![c] = call]
    PROVE  DOMAIN calls' = Callers /\ \A d \in Callers : IsCall(calls'[d])
BY DEF TypeOK

\* A participant nobody has registered for in this generation.
LEMMA NewParticipantType == NewParticipant \in ParticipantRecord
BY DEF NewParticipant, ParticipantRecord, ParticipantStatuses

\* The result of an undecided execution.
LEMMA NoResultType == IsResult(NoResult)
BY DEF IsResult, NoResult

\* The initial state has its types.
LEMMA TypeInit == Init => TypeOK
<1> SUFFICES ASSUME Init PROVE TypeOK
  OBVIOUS
<1>3. DOMAIN calls = Callers /\ \A c \in Callers : calls[c] = Idle
  BY DEF Init
<1>4. participants \in [Participants -> ParticipantRecord]
  BY NewParticipantType DEF Init
<1>5. /\ epoch \in Nat \ {0} /\ generation \in Nat /\ execution \in Nat
      /\ status \in Statuses /\ execution_epoch \in Nat
  BY DEF Init, Statuses
<1>6. /\ restarting \in BOOLEAN /\ superseded \in BOOLEAN /\ cancellation_requested \in BOOLEAN
      /\ cancelled \subseteq Nat \X Nat /\ acknowledged = {} /\ result = NoResult
  BY DEF Init
<1> QED
  BY NoResultType, <1>3, <1>4, <1>5, <1>6, IdleType DEF TypeOK

\* A step that leaves the engine, the gate and the callers alone keeps their types.
LEMMA TypeQuiet ==
    ASSUME TypeOK, UNCHANGED <<engine, gate, clients>>
    PROVE  TypeOK'
BY DEF TypeOK, IsResult, IsCall, engine, gate, clients

\* Committing a result, or acknowledging it again.
LEMMA TypeCommit ==
    ASSUME TypeOK, NEW r, IsResult(r), CommitAccepted(r), calls' = calls \/
           \E c \in Callers : calls' = [calls EXCEPT ![c] = Idle]
    PROVE  TypeOK'
<1>1. r # NoResult /\ r.decision \in Decisions
  BY DEF CommitAccepted, validate_result, has_execution, IsResult, NoResult
<1>2. status_for(r.decision) \in Statuses
  BY <1>1 DEF status_for, Decisions, Statuses
<1>3. IsResult(result') /\ status' \in Statuses
  BY <1>2 DEF CommitAccepted, TypeOK
<1>4. \A s \in acknowledged' : IsResult(s)
  BY DEF CommitAccepted, TypeOK
<1>5. DOMAIN calls' = Callers /\ \A c \in Callers : IsCall(calls'[c])
  BY CallsType, IdleType DEF TypeOK
<1>6. UNCHANGED <<engine, execution, execution_epoch, cancellation_requested, cancelled>>
  BY DEF CommitAccepted
<1> QED
  BY <1>3, <1>4, <1>5, <1>6 DEF TypeOK, engine, IsResult

\* What prepare_result leaves its caller with.
LEMMA PreparedType ==
    ASSUME TypeOK, NEW c \in Callers, NEW pc \in {"idle", "prepared", "committing"},
           prepare_result(c, pc)
    PROVE  \E call : IsCall(call) /\ calls' = [calls EXCEPT ![c] = call]
<1>1. IsResult(IF has_result THEN result ELSE ResultOf(work', ConsensusState(work, Env)))
  BY ResultOfIsResult DEF TypeOK
<1> DEFINE call == IF pc = "idle" THEN Idle
                   ELSE [pc |-> pc, generation |-> generation, execution |-> execution,
                         result |-> IF has_result THEN result ELSE ResultOf(work', ConsensusState(work, Env))]
<1>2. calls' = [calls EXCEPT ![c] = call]
  BY DEF prepare_result
<1>3. IsCall(call)
  BY <1>1, IdleType DEF IsCall
<1> QED
  BY <1>2, <1>3

\* Every step keeps the types.
LEMMA TypeStep == TypeOK /\ [EngineNext]_vars => TypeOK'
<1> SUFFICES ASSUME TypeOK, [EngineNext]_vars PROVE TypeOK'
  OBVIOUS
<1> USE BoundsAssumption, BootsAssumption
<1>1. CASE define_ensemble
  <2>1. /\ generation' \in Nat /\ execution' \in Nat /\ execution_epoch' \in Nat
        /\ status' \in Statuses
    BY <1>1 DEF define_ensemble, TypeOK, Statuses
  <2>2. superseded' \in BOOLEAN /\ cancellation_requested' \in BOOLEAN
    BY <1>1 DEF define_ensemble
  <2>3. participants' \in [Participants -> ParticipantRecord]
    BY <1>1, NewParticipantType DEF define_ensemble
  <2>4. IsResult(result')
    BY <1>1, NoResultType DEF define_ensemble
  <2>5. UNCHANGED <<epoch, restarting, clients>>
    BY <1>1 DEF define_ensemble
  <2> QED
    BY <2>1, <2>2, <2>3, <2>4, <2>5 DEF TypeOK, clients, IsResult, IsCall
<1>2. CASE supersede_ensemble
  BY <1>2 DEF supersede_ensemble, TypeOK, clients, Statuses, IsResult, IsCall
<1>3. ASSUME NEW p \in Participants, NEW b \in Boots, register_participant(p, b)
      PROVE  TypeOK'
  <2>1. participants' \in [Participants -> ParticipantRecord]
    BY <1>3 DEF register_participant, TypeOK, ParticipantRecord, ParticipantStatuses
  <2>2. UNCHANGED <<epoch, restarting, generation, superseded, gate, clients>>
    BY <1>3 DEF register_participant
  <2> QED
    BY <2>1, <2>2 DEF TypeOK, gate, clients, IsResult, IsCall
<1>4. ASSUME NEW p \in Participants, NEW kind, report_participant_failure(p, kind)
      PROVE  TypeOK'
  <2>1. participants' \in [Participants -> ParticipantRecord]
    BY <1>4 DEF report_participant_failure, TypeOK, ParticipantRecord, ParticipantStatuses
  <2>2. status' \in Statuses
    BY <1>4 DEF report_participant_failure, TypeOK, Statuses
  <2>3. UNCHANGED <<epoch, restarting, generation, superseded, execution, execution_epoch,
                    cancellation_requested, result, clients>>
    BY <1>4 DEF report_participant_failure
  <2> QED
    BY <2>1, <2>2, <2>3 DEF TypeOK, clients, IsResult, IsCall
<1>5. CASE restart_invalidate
  <2>1. participants' \in [Participants -> ParticipantRecord]
    BY <1>5 DEF restart_invalidate, InvalidatedParticipants, TypeOK, ParticipantRecord,
                ParticipantStatuses
  <2>2. status' \in Statuses
    BY <1>5 DEF restart_invalidate, TypeOK, Statuses
  <2>3. restarting' \in BOOLEAN
    BY <1>5 DEF restart_invalidate
  <2>4. UNCHANGED <<epoch, generation, superseded, execution, execution_epoch,
                    cancellation_requested, result, clients>>
    BY <1>5 DEF restart_invalidate
  <2> QED
    BY <2>1, <2>2, <2>3, <2>4 DEF TypeOK, clients, IsResult, IsCall
<1>6. CASE restart_advance_epoch
  <2>1. epoch' \in Nat \ {0}
    BY <1>6 DEF restart_advance_epoch, TypeOK
  <2>2. restarting' \in BOOLEAN
    BY <1>6 DEF restart_advance_epoch
  <2>3. UNCHANGED <<generation, superseded, participants, gate, clients>>
    BY <1>6 DEF restart_advance_epoch
  <2> QED
    BY <2>1, <2>2, <2>3 DEF TypeOK, gate, clients, IsResult, IsCall
<1>7. CASE open_execution
  <2>1. execution' \in Nat /\ status' \in Statuses /\ execution_epoch' \in Nat
    BY <1>7 DEF open_execution, TypeOK, Statuses
  <2>2. cancellation_requested' \in BOOLEAN
    BY <1>7 DEF open_execution
  <2>3. IsResult(result') /\ UNCHANGED <<engine, clients>>
    BY <1>7, NoResultType DEF open_execution
  <2> QED
    BY <2>1, <2>2, <2>3 DEF TypeOK, engine, clients, IsResult, IsCall
<1>8. CASE advance_open \/ advance_cancelled
  BY <1>8, TypeQuiet DEF advance_open, advance_cancelled
<1>9. CASE cancel_ensemble
  BY <1>9 DEF cancel_ensemble, TypeOK, engine, Statuses, Key, IsResult, IsCall
<1>10. CASE AnySubmit
  BY <1>10, TypeQuiet DEF AnySubmit, submit_candidate, submit_candidate_failure,
                          submit_candidate_abstention, submit_evaluation
<1>11. ASSUME NEW c \in Callers,
              PrepareResult(c) \/ FinalizeCheck(c) \/ FinalizePrepare(c) \/ FinalizeReturn(c)
       PROVE  TypeOK'
  <2>1. \E call : IsCall(call) /\ calls' = [calls EXCEPT ![c] = call]
    BY <1>11, PreparedType, IdleType, NoResultType
       DEF PrepareResult, FinalizeCheck, FinalizePrepare, FinalizeReturn, IsCall
  <2>2. DOMAIN calls' = Callers /\ \A d \in Callers : IsCall(calls'[d])
    BY <2>1, CallsType
  <2>3. UNCHANGED <<engine, gate, acknowledged, cancelled>>
    BY <1>11 DEF PrepareResult, FinalizeCheck, FinalizePrepare, FinalizeReturn, prepare_result
  <2> QED
    BY <2>2, <2>3 DEF TypeOK, engine, gate, IsResult
<1>12. ASSUME NEW c \in Callers, CommitResult(c) \/ FinalizeCommit(c)
       PROVE  TypeOK'
  BY <1>12, TypeCommit DEF CommitResult, FinalizeCommit, TypeOK, IsCall
<1>13. CASE UNCHANGED vars
  BY <1>13, TypeQuiet DEF vars
<1> QED
  BY <1>1, <1>2, <1>3, <1>4, <1>5, <1>6, <1>7, <1>8, <1>9, <1>10, <1>11, <1>12, <1>13 DEF EngineNext

\* The state of the engine keeps its types whatever is called in whatever order (TypeOK).
THEOREM TypeCorrect == Spec => []TypeOK
BY TypeInit, TypeStep, NextIsEngineNext, PTL DEF Spec

-----------------------------------------------------------------------------
(* The commit gate. *)

\* The steps that leave alone everything the gate argument is about.
GateQuiet ==
    UNCHANGED <<generation, execution, cancellation_requested, result, acknowledged, cancelled>>

\* Only four operations touch the gate.
LEMMA GateSteps ==
    ASSUME TypeOK, [EngineNext]_vars
    PROVE  \/ GateQuiet \/ define_ensemble \/ open_execution \/ cancel_ensemble
           \/ \E c \in Callers : IsResult(calls[c].result) /\ CommitAccepted(calls[c].result)
<1>1. CASE supersede_ensemble \/ restart_invalidate \/ restart_advance_epoch
  BY <1>1 DEF supersede_ensemble, restart_invalidate, restart_advance_epoch, GateQuiet,
              gate, clients
<1>2. ASSUME NEW p \in Participants,
             \/ \E b \in Boots : register_participant(p, b)
             \/ \E kind : report_participant_failure(p, kind)
      PROVE  GateQuiet
  BY <1>2 DEF register_participant, report_participant_failure, GateQuiet, gate, clients
<1>3. CASE advance_open \/ advance_cancelled
  BY <1>3 DEF advance_open, advance_cancelled, GateQuiet, engine, gate, clients
<1>4. ASSUME AnySubmit PROVE GateQuiet
  <2>1. PICK m : \/ \E payload \in Payloads : submit_candidate(m, payload)
                 \/ \E kind \in FailureKinds : submit_candidate_failure(m, kind)
                 \/ submit_candidate_abstention(m)
                 \/ \E verdict \in Verdicts : submit_evaluation(m, verdict)
    BY <1>4 DEF AnySubmit
  <2>2. ASSUME NEW payload, submit_candidate(m, payload) PROVE UNCHANGED <<engine, gate, clients>>
    BY <2>2 DEF submit_candidate
  <2>3. ASSUME NEW kind, submit_candidate_failure(m, kind) PROVE UNCHANGED <<engine, gate, clients>>
    BY <2>3 DEF submit_candidate_failure
  <2>4. ASSUME submit_candidate_abstention(m) PROVE UNCHANGED <<engine, gate, clients>>
    BY <2>4 DEF submit_candidate_abstention
  <2>5. ASSUME NEW verdict, submit_evaluation(m, verdict) PROVE UNCHANGED <<engine, gate, clients>>
    BY <2>5 DEF submit_evaluation
  <2>6. UNCHANGED <<engine, gate, clients>>
    BY <2>1, <2>2, <2>3, <2>4, <2>5
  <2> QED
    BY <2>6 DEF GateQuiet, engine, gate, clients
<1>5. ASSUME NEW c \in Callers,
             PrepareResult(c) \/ FinalizeCheck(c) \/ FinalizePrepare(c) \/ FinalizeReturn(c)
      PROVE  GateQuiet
  BY <1>5 DEF PrepareResult, FinalizeCheck, FinalizePrepare, FinalizeReturn, prepare_result,
              GateQuiet, engine, gate
<1>6. ASSUME NEW c \in Callers, CommitResult(c) \/ FinalizeCommit(c)
      PROVE  IsResult(calls[c].result) /\ CommitAccepted(calls[c].result)
  BY <1>6 DEF CommitResult, FinalizeCommit, TypeOK, IsCall
<1>7. CASE UNCHANGED vars
  BY <1>7 DEF vars, engine, gate, clients, GateQuiet
<1> QED
  BY <1>1, <1>2, <1>3, <1>4, <1>5, <1>6, <1>7 DEF EngineNext

\* Executions are numbered upwards.
LEMMA KeyAdvances ==
    ASSUME TypeOK, define_ensemble \/ open_execution
    PROVE  /\ Log!Precedes(Key, Key')
           /\ \A k \in Nat \X Nat : Log!Precedes(k, Key) \/ k = Key => Log!Precedes(k, Key')
BY DEF TypeOK, define_ensemble, open_execution, engine, Key, Log!Precedes

\* An accepted commit carries the key of the current execution and is a real result.
LEMMA AcceptedIsCurrent ==
    ASSUME NEW r, CommitAccepted(r)
    PROVE  KeyOf(r) = Key /\ r # NoResult /\ UNCHANGED <<Key, cancellation_requested, cancelled>>
BY DEF CommitAccepted, validate_result, has_execution, NoResult, KeyOf, Key, engine

\* At first nothing was returned or cancelled.
LEMMA GateInit == Init => GateInv
BY DEF Init, GateInv, has_result

\* Every step keeps the invariant of the gate.
LEMMA GateStep == TypeOK /\ GateInv /\ [EngineNext]_vars => GateInv'
<1> SUFFICES ASSUME TypeOK, GateInv, [EngineNext]_vars PROVE GateInv'
  OBVIOUS
<1>1. CASE GateQuiet
  BY <1>1 DEF GateQuiet, GateInv, Key, has_result
<1>2. CASE define_ensemble \/ open_execution
  <2>1. UNCHANGED <<acknowledged, cancelled>> /\ ~has_result'
    BY <1>2 DEF define_ensemble, open_execution, clients, has_result
  <2>2. \A r \in acknowledged : KeyOf(r) \in Nat \X Nat
    BY DEF TypeOK, IsResult, KeyOf
  <2>3. \A r \in acknowledged : Log!Precedes(KeyOf(r), Key')
    BY <1>2, <2>2, KeyAdvances DEF GateInv
  <2>4. \A k \in cancelled : Log!Precedes(k, Key')
    BY <1>2, KeyAdvances DEF GateInv, TypeOK
  <2> QED
    BY <2>1, <2>3, <2>4 DEF GateInv
<1>3. CASE cancel_ensemble
  <2>1. /\ UNCHANGED <<Key, result, acknowledged>> /\ ~has_result /\ cancellation_requested'
        /\ cancelled' = cancelled \cup {Key}
    BY <1>3 DEF cancel_ensemble, engine, Key
  <2> QED
    BY <2>1 DEF GateInv, has_result
<1>4. ASSUME NEW r, CommitAccepted(r)
      PROVE  GateInv'
  <2>1. /\ KeyOf(r) = Key /\ r # NoResult
        /\ UNCHANGED <<Key, cancellation_requested, cancelled>>
        /\ acknowledged' = acknowledged \cup {r}
    BY <1>4, AcceptedIsCurrent DEF CommitAccepted
  <2>2. CASE MayPublish /\ result' = r
    BY <2>1, <2>2 DEF GateInv, MayPublish, has_result
  <2>3. CASE has_result /\ result = r /\ result' = result
    BY <2>1, <2>3 DEF GateInv, has_result
  <2> QED
    BY <1>4, <2>2, <2>3 DEF CommitAccepted
<1> QED
  BY <1>1, <1>2, <1>3, <1>4, GateSteps

\* What GateInv says about the current execution.
LEMMA GateCurrent ==
    ASSUME TypeOK, GateInv
    PROVE  /\ \A r \in acknowledged : KeyOf(r) = Key => has_result /\ result = r
           /\ Key \in cancelled => cancellation_requested /\ ~has_result
<1>1. ~Log!Precedes(Key, Key)
  BY DEF TypeOK, Key, Log!Precedes
<1> QED
  BY <1>1 DEF GateInv

\* With it, neither a second result nor a result of a cancelled execution is returned.
LEMMA OnceStep ==
    TypeOK /\ GateInv /\ ExactlyOnce /\ CancelExcludesCommit /\ [EngineNext]_vars
        => ExactlyOnce' /\ CancelExcludesCommit'
<1> SUFFICES ASSUME TypeOK, GateInv, ExactlyOnce, CancelExcludesCommit, [EngineNext]_vars
             PROVE  ExactlyOnce' /\ CancelExcludesCommit'
  OBVIOUS
<1>1. CASE GateQuiet \/ define_ensemble \/ open_execution
  BY <1>1 DEF GateQuiet, define_ensemble, open_execution, clients, ExactlyOnce,
              CancelExcludesCommit
<1>2. CASE cancel_ensemble
  BY <1>2, GateCurrent DEF cancel_ensemble, ExactlyOnce, CancelExcludesCommit
<1>3. ASSUME NEW r, CommitAccepted(r)
      PROVE  ExactlyOnce' /\ CancelExcludesCommit'
  <2>1. /\ KeyOf(r) = Key /\ acknowledged' = acknowledged \cup {r} /\ cancelled' = cancelled
        /\ MayPublish \/ (has_result /\ result = r)
    BY <1>3, AcceptedIsCurrent DEF CommitAccepted
  <2>2. \A s \in acknowledged : KeyOf(s) = Key => s = r
    BY <2>1, GateCurrent DEF MayPublish
  <2>3. Key \notin cancelled
    BY <2>1, GateCurrent DEF MayPublish
  <2> QED
    BY <2>1, <2>2, <2>3 DEF ExactlyOnce, CancelExcludesCommit
<1> QED
  BY <1>1, <1>2, <1>3, GateSteps

\* The gate keeps its invariant: a returned result or a cancellation of the current execution
\* is still recorded there, so the checks of commit_result and cancel_ensemble see it.
THEOREM GateCorrect == Spec => [](TypeOK /\ GateInv)
<1>1. Init => TypeOK /\ GateInv
  BY TypeInit, GateInit
<1>2. (TypeOK /\ GateInv) /\ [EngineNext]_vars => (TypeOK /\ GateInv)'
  BY TypeStep, GateStep
<1> QED
  BY <1>1, <1>2, NextIsEngineNext, PTL DEF Spec

\* The four parts together.
LEMMA OnceInvariant ==
    Spec => [](TypeOK /\ GateInv /\ ExactlyOnce /\ CancelExcludesCommit)
<1> DEFINE Inv == TypeOK /\ GateInv /\ ExactlyOnce /\ CancelExcludesCommit
<1>1. Init => Inv
  BY TypeInit, GateInit DEF Init, ExactlyOnce, CancelExcludesCommit
<1>2. Inv /\ [EngineNext]_vars => Inv'
  BY TypeStep, GateStep, OnceStep
<1> QED
  BY <1>1, <1>2, NextIsEngineNext, PTL DEF Spec

\* No two results of one execution generation are ever returned, for every ensemble and every
\* number of concurrent callers (commit_result).
THEOREM CommitGate == Spec => []ExactlyOnce
BY OnceInvariant, PTL

\* No cancelled execution ever has a returned result, whether the cancellation or the commit
\* comes first (cancel_ensemble, commit_result).
THEOREM CancellationIsFinal == Spec => []CancelExcludesCommit
BY OnceInvariant, PTL

-----------------------------------------------------------------------------
(* The runtime implements the result log. *)

\* The runtime starts as the result log does.
LEMMA LogInit == Init => Log!Init
BY DEF Init, Log!Init, Key

\* Every step is a step of the result log or leaves it alone.
LEMMA LogStep ==
    TypeOK /\ GateInv /\ [EngineNext]_vars => [Log!Next]_<<Key, acknowledged, cancelled>>
<1> SUFFICES ASSUME TypeOK, GateInv, [EngineNext]_vars
             PROVE  Log!Next \/ UNCHANGED <<Key, acknowledged, cancelled>>
  OBVIOUS
<1>1. CASE GateQuiet
  BY <1>1 DEF GateQuiet, Key
<1>2. CASE define_ensemble \/ open_execution
  <2>1. Log!Open
    BY <1>2, KeyAdvances DEF define_ensemble, open_execution, clients, Log!Open
  <2> QED
    BY <2>1 DEF Log!Next
<1>3. CASE cancel_ensemble
  <2>1. /\ UNCHANGED <<Key, acknowledged>> /\ ~has_result
        /\ cancelled' = cancelled \cup {Key}
    BY <1>3 DEF cancel_ensemble, engine, Key
  <2>2. Log!Cancel
    BY <2>1, GateCurrent DEF Log!Cancel, Log!KeyOf, KeyOf
  <2> QED
    BY <2>2 DEF Log!Next
<1>4. ASSUME NEW r, CommitAccepted(r)
      PROVE  Log!Next \/ UNCHANGED <<Key, acknowledged, cancelled>>
  <2>1. /\ KeyOf(r) = Key /\ acknowledged' = acknowledged \cup {r}
        /\ UNCHANGED <<Key, cancelled>>
        /\ MayPublish \/ (has_result /\ result = r)
    BY <1>4, AcceptedIsCurrent DEF CommitAccepted
  <2>2. CASE MayPublish
    <3>1. Log!Undecided(Key)
      BY <2>2, GateCurrent DEF MayPublish, Log!Undecided, Log!KeyOf, KeyOf
    <3>2. Log!Publish
      BY <2>1, <3>1 DEF Log!Publish, Log!KeyOf, KeyOf
    <3> QED
      BY <3>2 DEF Log!Next
  <2>3. CASE has_result /\ result = r
    BY <2>1, <2>3 DEF GateInv
  <2> QED
    BY <2>1, <2>2, <2>3
<1> QED
  BY <1>1, <1>2, <1>3, <1>4, GateSteps

\* Every behaviour of the runtime, seen through the current key, the returned results and the
\* cancelled executions, is a behaviour of the result log.
THEOREM RefinesResultLog == Spec => ImplementsResultLog
<1>1. Spec => [][Log!Next]_<<Key, acknowledged, cancelled>>
  BY GateCorrect, LogStep, NextIsEngineNext, PTL DEF Spec
<1> QED
  BY LogInit, <1>1, PTL DEF Spec, ImplementsResultLog, Log!Spec

-----------------------------------------------------------------------------
(* What is published is a decision. *)

PublishedDecisions == {"committed", "no_eligible_candidate", "failed", "fallback_required"}

\* The consensus names a terminal condition of the execution only when it holds.
LEMMA TerminalConsensus ==
    ASSUME NEW inputs
    PROVE  /\ compute_consensus(inputs) = "cancelled" => inputs.cancelled
           /\ compute_consensus(inputs) = "superseded" => inputs.superseded
           /\ compute_consensus(inputs) = "revalidation_required" => inputs.revalidation_required
<1>1. VoteState(inputs) \in {"insufficient_evidence", "consensus", "plurality_without_threshold",
                             "tie", "disagreement", "consensus_with_abstentions"}
  BY Zenon DEF VoteState
<1> QED
  BY <1>1 DEF compute_consensus

\* So does the decision.
LEMMA TerminalDecision ==
    ASSUME NEW consensus, NEW selection
    PROVE  /\ decision_for(consensus, selection) = "cancelled" => consensus = "cancelled"
           /\ decision_for(consensus, selection) = "superseded" => consensus = "superseded"
           /\ decision_for(consensus, selection) = "revalidation_required"
                => consensus = "revalidation_required"
BY DEF decision_for

\* A result that prepare_result computes echoes nothing that is not so.
LEMMA PreparedEcho ==
    ASSUME NEW w
    PROVE  LET r == ResultOf(w, ConsensusState(work, Env))
           IN /\ KeyOf(r) = Key
              /\ r.decision = "cancelled" => status = "cancelled"
              /\ r.decision = "superseded" => status = "superseded" \/ superseded
              /\ r.decision = "revalidation_required" => status = "revalidation_required"
<1> DEFINE consensus == ConsensusState(work, Env)
           r == ResultOf(w, consensus)
           selection == has_selection(consensus, arbitrate(ArbitrationInputs(w, Env)),
                                      spec.arbitration.tie_break)
<1>1. KeyOf(r) = Key /\ r.decision = decision_for(consensus, selection)
  BY DEF ResultOf, ResultFrom, KeyOf, Key
<1>2. /\ consensus = "cancelled" => ConsensusInputs(work, Env).cancelled
      /\ consensus = "superseded" => ConsensusInputs(work, Env).superseded
      /\ consensus = "revalidation_required" => ConsensusInputs(work, Env).revalidation_required
  BY TerminalConsensus DEF ConsensusState
<1>3. /\ ConsensusInputs(work, Env).cancelled = (Env.status = "cancelled")
      /\ ConsensusInputs(work, Env).superseded = (Env.status = "superseded" \/ Env.superseded)
      /\ ConsensusInputs(work, Env).revalidation_required
           = (Env.status = "revalidation_required")
  BY DEF ConsensusInputs
<1>4. Env.status = status /\ Env.superseded = superseded
  BY DEF Env
<1>5. /\ consensus = "cancelled" => status = "cancelled"
      /\ consensus = "superseded" => status = "superseded" \/ superseded
      /\ consensus = "revalidation_required" => status = "revalidation_required"
  <2> HIDE DEF consensus
  <2> QED
    BY <1>2, <1>3, <1>4, Zenon
<1>6. /\ r.decision = "cancelled" => consensus = "cancelled"
      /\ r.decision = "superseded" => consensus = "superseded"
      /\ r.decision = "revalidation_required" => consensus = "revalidation_required"
  <2> HIDE DEF consensus, selection, r
  <2> QED
    BY <1>1, TerminalDecision, Zenon
<1> QED
  BY <1>1, <1>5, <1>6, Zenon

\* At first callers hold nothing.
LEMMA DecisionInit == Init => PreparedInv /\ PublishedIsDecision
<1> SUFFICES ASSUME Init PROVE PreparedInv /\ PublishedIsDecision
  OBVIOUS
<1>1. \A c \in Callers : KeyOf(calls[c].result) = Key /\ calls[c].result.decision = "pending"
  BY DEF Init, Idle, NoResult, KeyOf, Key
<1> QED
  BY <1>1 DEF Init, PreparedInv, PublishedIsDecision, has_result

\* A step that leaves the gate alone and at most drops or echoes a call.
LEMMA DecisionCall ==
    ASSUME TypeOK, PreparedInv, PublishedIsDecision, UNCHANGED <<engine, gate>>,
           NEW c \in Callers, NEW call, calls' = [calls EXCEPT ![c] = call],
           \/ Log!Precedes(KeyOf(call.result), Key)
           \/ /\ KeyOf(call.result) = Key
              /\ call.result.decision = "cancelled" => cancellation_requested
              /\ call.result.decision = "superseded" => superseded
              /\ call.result.decision = "revalidation_required" =>
                    status = "revalidation_required" \/ cancellation_requested
    PROVE  PreparedInv' /\ PublishedIsDecision'
<1>1. UNCHANGED <<status, superseded, cancellation_requested, result, Key>>
  BY DEF engine, gate, Key
<1>2. \A d \in Callers : calls'[d] = IF d = c THEN call ELSE calls[d]
  BY DEF TypeOK
<1> QED
  BY <1>1, <1>2 DEF PreparedInv, PublishedIsDecision, has_result

\* The key of a call that has returned, or has only checked, is not after the current one.
LEMMA NoResultKey ==
    ASSUME TypeOK
    PROVE  /\ Log!Precedes(KeyOf(NoResult), Key) \/ KeyOf(NoResult) = Key
           /\ NoResult.decision = "pending"
BY DEF TypeOK, NoResult, KeyOf, Key, Log!Precedes

\* A decided execution is not open.
LEMMA DecidedIsNotOpen ==
    ASSUME PublishedIsDecision, has_result
    PROVE  status # "open"
BY DEF PublishedIsDecision, status_for

\* Every step keeps what callers hold in line with the state that made it.
LEMMA DecisionStep ==
    TypeOK /\ PreparedInv /\ PublishedIsDecision /\ [EngineNext]_vars
        => PreparedInv' /\ PublishedIsDecision'
<1> SUFFICES ASSUME TypeOK, PreparedInv, PublishedIsDecision, [EngineNext]_vars
             PROVE  PreparedInv' /\ PublishedIsDecision'
  OBVIOUS
<1>1. CASE define_ensemble \/ open_execution
  <2>1. UNCHANGED calls /\ ~has_result' /\ status' \in {"none", "open"}
    BY <1>1 DEF define_ensemble, open_execution, clients, has_result
  <2>2. \A c \in Callers : KeyOf(calls[c].result) \in Nat \X Nat
    BY DEF TypeOK, IsCall, IsResult, KeyOf
  <2>3. \A c \in Callers : Log!Precedes(KeyOf(calls[c].result), Key')
    BY <1>1, <2>2, KeyAdvances DEF PreparedInv
  <2> QED
    BY <2>1, <2>3 DEF PreparedInv, PublishedIsDecision
<1>2. CASE supersede_ensemble
  <2>1. UNCHANGED <<calls, Key, result, cancellation_requested>> /\ superseded'
        /\ (status' = status \/ (status = "open" /\ status' = "superseded"))
    BY <1>2 DEF supersede_ensemble, clients, Key
  <2> QED
    BY <2>1, DecidedIsNotOpen DEF PreparedInv, PublishedIsDecision, has_result
<1>3. CASE (\E p \in Participants : \E kind : report_participant_failure(p, kind))
           \/ restart_invalidate
  <2>1. /\ UNCHANGED <<calls, Key, result, cancellation_requested, superseded>>
        /\ \/ status' = status
           \/ status = "open" /\ status' \in {"failed", "revalidation_required"}
    BY <1>3 DEF report_participant_failure, restart_invalidate, clients, Key
  <2> QED
    BY <2>1, DecidedIsNotOpen DEF PreparedInv, PublishedIsDecision, has_result
<1>4. CASE \/ \E p \in Participants, b \in Boots : register_participant(p, b)
           \/ restart_advance_epoch \/ advance_open \/ advance_cancelled \/ AnySubmit
           \/ UNCHANGED vars
  <2>1. UNCHANGED <<calls, Key, result, cancellation_requested, superseded, status>>
    BY <1>4 DEF register_participant, restart_advance_epoch, advance_open, advance_cancelled,
                AnySubmit, submit_candidate, submit_candidate_failure,
                submit_candidate_abstention, submit_evaluation, vars, engine, gate, clients, Key
  <2> QED
    BY <2>1 DEF PreparedInv, PublishedIsDecision, has_result
<1>5. CASE cancel_ensemble
  <2>1. /\ UNCHANGED <<calls, Key, result, superseded>> /\ ~has_result
        /\ cancellation_requested' /\ status' = "cancelled"
    BY <1>5 DEF cancel_ensemble, engine, Key
  <2> QED
    BY <2>1 DEF PreparedInv, PublishedIsDecision, has_result
<1>6. ASSUME NEW c \in Callers, NEW pc, prepare_result(c, pc)
      PROVE  PreparedInv' /\ PublishedIsDecision'
  <2>1. UNCHANGED <<engine, gate>>
    BY <1>6 DEF prepare_result
  <2>2. CASE pc = "idle"
    <3>1. calls' = [calls EXCEPT ![c] = Idle] /\ Idle.result = NoResult
      BY <1>6, <2>2 DEF prepare_result, Idle
    <3> QED
      BY <2>1, <3>1, NoResultKey, DecisionCall
  <2>3. CASE pc # "idle"
    <3> DEFINE r == IF has_result THEN result ELSE ResultOf(work', ConsensusState(work, Env))
               call == [pc |-> pc, generation |-> generation, execution |-> execution,
                        result |-> r]
    <3>1. calls' = [calls EXCEPT ![c] = call] /\ call.result = r
      BY <1>6, <2>3 DEF prepare_result
    <3>2. /\ KeyOf(r) = Key
          /\ r.decision = "cancelled" => cancellation_requested
          /\ r.decision = "superseded" => superseded
          /\ r.decision = "revalidation_required" =>
                status = "revalidation_required" \/ cancellation_requested
      <4>1. CASE has_result
        BY <4>1 DEF PublishedIsDecision
      <4>2. CASE ~has_result
        BY <4>2, PreparedEcho DEF PreparedInv
      <4> QED
        BY <4>1, <4>2
    <3> HIDE DEF r, call
    <3> QED
      BY <2>1, <3>1, <3>2, DecisionCall
  <2> QED
    BY <2>2, <2>3
<1>7. ASSUME NEW c \in Callers, FinalizeCheck(c) \/ FinalizeReturn(c)
      PROVE  PreparedInv' /\ PublishedIsDecision'
  <2>1. UNCHANGED <<engine, gate>>
        /\ \E call : call.result = NoResult /\ calls' = [calls EXCEPT ![c] = call]
    BY <1>7 DEF FinalizeCheck, FinalizeReturn, Idle
  <2> QED
    BY <2>1, NoResultKey, DecisionCall
<1>8. ASSUME NEW c \in Callers, CommitResult(c) \/ FinalizeCommit(c)
      PROVE  PreparedInv' /\ PublishedIsDecision'
  <2> DEFINE r == calls[c].result
  <2>1. CommitAccepted(r) /\ IsResult(r) /\ (calls' = calls \/ calls' = [calls EXCEPT ![c] = Idle])
    BY <1>8 DEF CommitResult, FinalizeCommit, TypeOK, IsCall
  <2> HIDE DEF r
  <2>2. KeyOf(r) = Key /\ r # NoResult /\ UNCHANGED <<Key, cancellation_requested, superseded>>
    BY <2>1, AcceptedIsCurrent DEF CommitAccepted, engine
  <2>3. ~Log!Precedes(Key, Key)
    BY DEF TypeOK, Key, Log!Precedes
  <2>4. CASE MayPublish /\ result' = r /\ status' = status_for(r.decision)
    <3>1. r.decision \in PublishedDecisions
      BY <2>1, <2>2, <2>3, <2>4 DEF r, PreparedInv, MayPublish, IsResult, Decisions,
                                    PublishedDecisions
    <3>2. status' \in {"committed", "no_eligible_candidate", "failed"}
      BY <2>4, <3>1 DEF status_for, PublishedDecisions
    <3>3. PublishedIsDecision'
      BY <2>2, <2>4, <3>1 DEF PublishedIsDecision, PublishedDecisions
    <3>4. \A d \in Callers : calls'[d].result \in {calls[d].result, NoResult}
      BY <2>1 DEF TypeOK, Idle
    <3> QED
      BY <2>2, <2>4, <3>2, <3>3, <3>4, NoResultKey DEF PreparedInv, MayPublish
  <2>5. CASE has_result /\ UNCHANGED <<result, status>>
    <3>1. \A d \in Callers : calls'[d].result \in {calls[d].result, NoResult}
      BY <2>1 DEF TypeOK, Idle
    <3> QED
      BY <2>2, <2>5, <3>1, NoResultKey DEF PreparedInv, PublishedIsDecision, has_result
  <2> QED
    BY <2>1, <2>4, <2>5 DEF CommitAccepted
<1> QED
  BY <1>1, <1>2, <1>3, <1>4, <1>5, <1>6, <1>7, <1>8 DEF EngineNext, PrepareResult, FinalizePrepare

\* The gate and what callers hold, together.
LEMMA DecisionInvariant ==
    Spec => [](TypeOK /\ GateInv /\ PreparedInv /\ PublishedIsDecision)
<1> DEFINE Inv == TypeOK /\ GateInv /\ PreparedInv /\ PublishedIsDecision
<1>1. Init => Inv
  BY TypeInit, GateInit, DecisionInit
<1>2. Inv /\ [EngineNext]_vars => Inv'
  BY TypeStep, GateStep, DecisionStep
<1> QED
  BY <1>1, <1>2, NextIsEngineNext, PTL DEF Spec

\* Whatever a caller has prepared, an echo of the cancellation, supersession or revalidation of
\* the current execution is only held while commit_result refuses it (PreparedInv).
THEOREM EchoesAreRefused == Spec => []PreparedInv
BY DecisionInvariant, PTL

\* What is stored as the result of an execution always is a decision about it, never an echo of
\* its cancellation, supersession or revalidation, and the status says so (prepare_result,
\* commit_result, status_for).
THEOREM PublishedIsDecisionHolds == Spec => []PublishedIsDecision
BY DecisionInvariant, PTL
=============================================================================
