-------------------------- MODULE CoordinatorProofs --------------------------
(***************************************************************************)
(* Proofs about the deployment: DeploymentInv is inductive, through every  *)
(* crash and recovery, so what has reached the state file is final,        *)
(* nothing but evidence is lost, registrations match connections, and the  *)
(* evidence of the engine stays sound, for every ensemble, every number of *)
(* workers and clients and every number of crashes.                        *)
(***************************************************************************)
EXTENDS Recovery, EvidenceProofs

-----------------------------------------------------------------------------
(* Sequences of events. *)

\* A sequence of whatever elements.
IsSeq(s) == \E S : s \in Seq(S)

\* The empty sequence.
LEMMA NoEvents ==
    ASSUME NEW s, s = <<>>
    PROVE  IsSeq(s) /\ DOMAIN s = {} /\ Len(s) = 0
<1>1. s \in Seq(Nat) /\ Len(s) = 0 /\ DOMAIN s = 1..0
  OBVIOUS
<1>2. DOMAIN s = {}
  BY <1>1
<1>3. IsSeq(s)
  BY <1>1 DEF IsSeq
<1> QED
  BY <1>1, <1>2, <1>3

\* The first element and the others.
LEMMA HeadAndTail ==
    ASSUME NEW s, IsSeq(s), s # <<>>
    PROVE  /\ Head(s) = s[1] /\ 1 \in DOMAIN s /\ DOMAIN s \subseteq Nat \ {0}
           /\ IsSeq(Tail(s))
           /\ \A n \in DOMAIN Tail(s) : n \in Nat \ {0} /\ n + 1 \in DOMAIN s /\ Tail(s)[n] = s[n + 1]
<1>1. PICK S : s \in Seq(S)
  BY DEF IsSeq
<1>2. Tail(s) \in Seq(S) /\ Head(s) = s[1] /\ 1 \in DOMAIN s /\ DOMAIN s \subseteq Nat \ {0}
  BY <1>1
<1>3. \A n \in DOMAIN Tail(s) : n \in Nat \ {0} /\ n + 1 \in DOMAIN s /\ Tail(s)[n] = s[n + 1]
  BY <1>1
<1> QED
  BY <1>2, <1>3 DEF IsSeq

\* One element more.
LEMMA OneMore ==
    ASSUME NEW s, IsSeq(s), NEW e
    PROVE  /\ Len(s) \in Nat /\ DOMAIN s = 1..Len(s) /\ IsSeq(Append(s, e))
           /\ DOMAIN Append(s, e) = 1..(Len(s) + 1)
           /\ \A n \in DOMAIN s : Append(s, e)[n] = s[n]
           /\ Append(s, e)[Len(s) + 1] = e
<1>1. PICK S : s \in Seq(S)
  BY DEF IsSeq
<1>2. s \in Seq(S \cup {e}) /\ e \in S \cup {e}
  BY <1>1
<1>3. Append(s, e) \in Seq(S \cup {e})
  BY <1>2
<1> QED
  BY <1>2, <1>3 DEF IsSeq

\* The order of the events survives the handling of the first one.
LEMMA OrderTail ==
    ASSUME NEW s, IsSeq(s), s # <<>>, NEW workers, NEW open, InOrder(s, workers, open)
    PROVE  InOrder(Tail(s), workers, open)
<1>1. /\ \A n \in DOMAIN Tail(s) : n \in Nat \ {0} /\ n + 1 \in DOMAIN s /\ Tail(s)[n] = s[n + 1]
  BY HeadAndTail
<1>2. ASSUME NEW m \in DOMAIN Tail(s), NEW n \in DOMAIN Tail(s), m < n,
             Tail(s)[m].type = "connection_closed"
      PROVE  ~FromWorker(Tail(s)[n], Tail(s)[m].from)
  <2>1. m + 1 < n + 1
    BY <1>1, <1>2
  <2> QED
    BY <1>1, <1>2, <2>1 DEF InOrder
<1>3. ASSUME NEW n \in DOMAIN Tail(s)
      PROVE  /\ WellFormed(Tail(s)[n])
             /\ \A b \in Boots :
                   FromWorker(Tail(s)[n], b) => IF Tail(s)[n].type = "connection_closed"
                                                  THEN workers[b].phase = "dead" ELSE b \in open
  BY <1>1 DEF InOrder
<1> QED
  BY <1>2, <1>3 DEF InOrder

\* After a connection_closed at the head nothing follows from its connection.
LEMMA OrderHead ==
    ASSUME NEW s, IsSeq(s), s # <<>>, NEW workers, NEW open, InOrder(s, workers, open),
           Head(s).type = "connection_closed"
    PROVE  /\ \A n \in DOMAIN Tail(s) : ~FromWorker(Tail(s)[n], Head(s).from)
           /\ \A n \in DOMAIN s : FromWorker(s[n], Head(s).from) => s[n].type = "connection_closed"
<1>1. /\ Head(s) = s[1] /\ 1 \in DOMAIN s /\ DOMAIN s \subseteq Nat \ {0}
      /\ \A n \in DOMAIN Tail(s) : n \in Nat \ {0} /\ n + 1 \in DOMAIN s /\ Tail(s)[n] = s[n + 1]
  BY HeadAndTail
<1>2. ASSUME NEW n \in DOMAIN s, n # 1 PROVE ~FromWorker(s[n], s[1].from)
  <2>1. 1 < n
    BY <1>1, <1>2
  <2> QED
    BY <1>1, <2>1 DEF InOrder
<1>3. ASSUME NEW n \in DOMAIN Tail(s) PROVE ~FromWorker(Tail(s)[n], Head(s).from)
  <2>1. n + 1 # 1 /\ n + 1 \in DOMAIN s
    BY <1>1, <1>3
  <2> QED
    BY <1>1, <1>2, <2>1
<1> QED
  BY <1>1, <1>2, <1>3

\* An event arrives from an open connection, or is the last one of a dead worker.
LEMMA OrderAppend ==
    ASSUME NEW s, IsSeq(s), NEW workers, NEW open, InOrder(s, workers, open), NEW e, WellFormed(e),
           \A b \in Boots : FromWorker(e, b) => IF e.type = "connection_closed"
                                                  THEN workers[b].phase = "dead" ELSE b \in open,
           \A n \in DOMAIN s : s[n].type = "connection_closed" => ~FromWorker(e, s[n].from)
    PROVE  InOrder(Append(s, e), workers, open)
<1> DEFINE t == Append(s, e)
<1>1. /\ Len(s) \in Nat /\ DOMAIN s = 1..Len(s) /\ DOMAIN t = 1..(Len(s) + 1)
      /\ \A n \in DOMAIN s : t[n] = s[n]
      /\ t[Len(s) + 1] = e
  BY OneMore
<1> HIDE DEF t
<1>2. ASSUME NEW m \in DOMAIN t, NEW n \in DOMAIN t, m < n, t[m].type = "connection_closed"
      PROVE  ~FromWorker(t[n], t[m].from)
  <2>1. m \in DOMAIN s /\ (n \in DOMAIN s \/ n = Len(s) + 1)
    BY <1>1, <1>2
  <2> QED
    BY <1>1, <1>2, <2>1 DEF InOrder
<1>3. ASSUME NEW n \in DOMAIN t
      PROVE  /\ WellFormed(t[n])
             /\ \A b \in Boots :
                   FromWorker(t[n], b) => IF t[n].type = "connection_closed"
                                            THEN workers[b].phase = "dead" ELSE b \in open
  <2>1. n \in DOMAIN s \/ n = Len(s) + 1
    BY <1>1
  <2> QED
    BY <1>1, <2>1 DEF InOrder
<1>4. InOrder(t, workers, open)
  BY <1>2, <1>3 DEF InOrder
<1> QED
  BY <1>4 DEF t

\* Connections are opened, workers die.
LEMMA OrderMoved ==
    ASSUME NEW s, NEW workers, NEW open, InOrder(s, workers, open), NEW workers2, NEW open2,
           \A b \in Boots : workers[b].phase = "dead" => workers2[b].phase = "dead",
           \A n \in DOMAIN s : \A b \in Boots :
              FromWorker(s[n], b) /\ s[n].type # "connection_closed" /\ b \in open => b \in open2
    PROVE  InOrder(s, workers2, open2)
BY DEF InOrder

-----------------------------------------------------------------------------
(* The steps of the deployment. *)

\* The event that is being handled.
LEMMA FirstEvent ==
    ASSUME QueueInv, IsSeq(batch), at.step \in {"handle", "lose"}
    PROVE  /\ batch # <<>> /\ WellFormed(Head(batch))
           /\ \A b \in Boots :
                 FromWorker(Head(batch), b) => IF Head(batch).type = "connection_closed"
                                                 THEN worker[b].phase = "dead" ELSE b \in connections
<1>1. batch # <<>> /\ InOrder(batch, worker, connections)
  BY DEF QueueInv
<1>2. Head(batch) = batch[1] /\ 1 \in DOMAIN batch
  BY <1>1, HeadAndTail
<1> QED
  BY <1>1, <1>2 DEF InOrder

\* The coordinator drives the engine by what the engine is exposed to anyway; only when it is
\* started and when it crashes is the engine another one.
LEMMA EngineSteps ==
    ASSUME QueueInv, IsSeq(batch), [CoordinatorNext]_coordinatorVars
    PROVE  start \/ Crash \/ [EngineNext]_vars
<1> DEFINE e == Head(batch)
<1>1. CASE UNCHANGED coordinatorVars \/ TakeEvents
  BY <1>1 DEF coordinatorVars, TakeEvents
<1>2. ASSUME NEW b \in Boots, WorkerStep(b) \/ WorkerDies(b) PROVE UNCHANGED vars
  BY <1>2 DEF WorkerStep, WorkerDies, Connect, RegisterNext, Registered, GivesUp, Answers, Ends
<1>3. ASSUME NEW c \in Clients, NEW type, request(c, type) PROVE UNCHANGED vars
  BY <1>3 DEF request
<1>4. CASE HandleRegister
  <2>1. e.from \in Boots /\ e.participant \in Participants
    BY <1>4, FirstEvent DEF HandleRegister, Handles, Steps, WellFormed
  <2>2. register_participant(e.participant, e.from)
    BY <1>4 DEF HandleRegister
  <2> QED
    BY <2>1, <2>2 DEF EngineNext
<1>5. CASE HandleSubmission
  <2>1. WellFormed(e) /\ e.type \in Submission
    BY <1>5, FirstEvent DEF HandleSubmission, Steps
  <2>2. CASE Submitted(e)
    <3>1. AnySubmit
      BY <2>1, <2>2 DEF Submitted, WellFormed, AnySubmit
    <3> QED
      BY <3>1 DEF EngineNext
  <2> QED
    BY <1>5, <2>2 DEF HandleSubmission
<1>6. CASE HandleDefine \/ HandleOpen \/ HandleCancel
  BY <1>6 DEF HandleDefine, HandleOpen, HandleCancel, EngineNext
<1>7. CASE HandleRegisterRefused \/ HandleDefineRefused \/ HandleOpenRefused
           \/ HandleCancelRefused \/ HandleFinalize \/ HandleConnectionClosed
  BY <1>7 DEF HandleRegisterRefused, HandleDefineRefused, HandleOpenRefused,
              HandleCancelRefused, HandleFinalize, HandleConnectionClosed
<1>8. CASE handle_connection_loss
  BY <1>8 DEF handle_connection_loss, EngineNext
<1>9. CASE PumpRound \/ PumpCancel \/ PumpNothing
  BY <1>9 DEF PumpRound, PumpCancel, PumpNothing, EngineNext
<1>10. CASE FlushStale \/ FlushUnsettled \/ FlushRefused \/ maybe_persist
  BY <1>10 DEF FlushStale, FlushUnsettled, FlushRefused, maybe_persist
<1>11. CASE FlushCheck \/ FlushPrepare \/ FlushCommit
  <2>1. EventThread \in Callers
    BY DeploymentAssumption
  <2>2. \/ FinalizeCheck(EventThread) \/ FinalizePrepare(EventThread)
        \/ FinalizeCommit(EventThread) \/ FinalizeReturn(EventThread)
    BY <1>11 DEF FlushCheck, FlushPrepare, FlushCommit
  <2> QED
    BY <2>1, <2>2 DEF EngineNext
<1> QED
  BY <1>1, <1>2, <1>3, <1>4, <1>5, <1>6, <1>7, <1>8, <1>9, <1>10, <1>11
  DEF CoordinatorNext, event_loop, Handle

-----------------------------------------------------------------------------
(* What is saved and what is final. *)

\* A step that changes nothing that must survive and does not end a batch.
Kept ==
    /\ UNCHANGED <<up, dirty, disk, generation, history, execution, cancellation_requested, result>>
    /\ at' = Waiting => at = Waiting
    /\ ~up => at' = at

\* A step that marks the state dirty within a batch.
Marked == up' /\ UNCHANGED <<up, disk>> /\ dirty' = TRUE /\ at' # Waiting

\* Where the thread goes on within a batch is not where it waits.
LEMMA WithinBatch ==
    /\ Pump # Waiting /\ \A n : At("flush", n) # Waiting /\ At("lose", n) # Waiting
    /\ \A n : At("pump", n) # Waiting /\ At("prepare", n) # Waiting /\ At("commit", n) # Waiting
    /\ \A rest : Resume(rest) # Waiting
BY DEF Pump, At, Waiting, Resume

\* Every handler that changes what must survive marks the state dirty.
LEMMA SaveSteps ==
    ASSUME [CoordinatorNext]_coordinatorVars
    PROVE  start \/ Crash \/ maybe_persist \/ Kept \/ Marked
<1> USE WithinBatch
<1>1. CASE UNCHANGED coordinatorVars
  BY <1>1 DEF coordinatorVars, vars, engine, gate, loop, durable, Kept
<1>2. CASE TakeEvents
  <2>1. at' # Waiting
    BY <1>2 DEF TakeEvents, At, Waiting
  <2> QED
    BY <1>2, <2>1 DEF TakeEvents, vars, engine, gate, durable, Kept
<1>3. ASSUME NEW b \in Boots, WorkerStep(b) \/ WorkerDies(b) PROVE Kept
  BY <1>3 DEF WorkerStep, WorkerDies, Connect, RegisterNext, Registered, GivesUp, Answers, Ends,
              vars, engine, gate, loop, durable, Kept
<1>4. ASSUME NEW c \in Clients, NEW type, request(c, type) PROVE Kept
  BY <1>4 DEF request, vars, engine, gate, loop, durable, Kept
<1>5. CASE HandleRegister \/ HandleDefine \/ HandleOpen \/ HandleCancel \/ HandleCancelRefused
  BY <1>5 DEF HandleRegister, HandleDefine, HandleOpen, HandleCancel, HandleCancelRefused,
              Handles, Steps, Handled, Following, Marked
<1>6. CASE HandleSubmission
  <2>1. UNCHANGED <<engine, gate>>
    BY <1>6 DEF HandleSubmission, Submitted, submit_candidate, submit_candidate_failure,
                submit_candidate_abstention, submit_evaluation, vars
  <2> QED
    BY <1>6, <2>1 DEF HandleSubmission, Steps, Handled, durable, engine, gate, Kept
<1>7. CASE HandleRegisterRefused \/ HandleDefineRefused \/ HandleOpenRefused \/ HandleFinalize
           \/ HandleConnectionClosed
  BY <1>7 DEF HandleRegisterRefused, HandleDefineRefused, HandleOpenRefused, HandleFinalize,
              HandleConnectionClosed, Handles, Steps, Handled, Following, vars, engine, gate, durable, Kept
<1>8. CASE handle_connection_loss
  <2>1. UNCHANGED <<generation, history, execution, cancellation_requested, result>>
    BY <1>8 DEF handle_connection_loss, report_participant_failure, vars, engine, gate
  <2> QED
    BY <1>8, <2>1 DEF handle_connection_loss, Steps, Handled, loop, durable, Kept
<1>9. CASE PumpRound \/ PumpCancel \/ PumpNothing
  BY <1>9 DEF PumpRound, PumpCancel, PumpNothing, advance_open, advance_cancelled, vars, engine,
              gate, durable, Steps, Kept
<1>10. CASE FlushStale \/ FlushUnsettled
  BY <1>10 DEF FlushStale, FlushUnsettled, AtWaiter, Steps, vars, engine, gate, loop,
               durable, Kept
<1>11. CASE FlushRefused \/ FlushCommit
  BY <1>11 DEF FlushRefused, FlushCommit, AtWaiter, Steps, FlushAnswered, Marked
<1>12. CASE FlushCheck \/ FlushPrepare
  BY <1>12 DEF FlushCheck, FlushPrepare, FinalizeCheck, FinalizePrepare, prepare_result, AtWaiter,
               Steps, engine, gate, durable, Kept
<1> QED
  BY <1>1, <1>2, <1>3, <1>4, <1>5, <1>6, <1>7, <1>8, <1>9, <1>10, <1>11, <1>12
  DEF CoordinatorNext, event_loop, Handle

\* So whatever is not dirty is saved, after every step.
LEMMA DurableStep ==
    ASSUME DurableInv, [CoordinatorNext]_coordinatorVars
    PROVE  DurableInv'
<1>1. CASE start
  BY <1>1 DEF start, recover_state, Load, loop, durable, DurableInv, Saved
<1>2. CASE Crash
  BY <1>2 DEF Crash, DurableInv
<1>3. CASE maybe_persist
  <2>1. UNCHANGED <<generation, history, execution, cancellation_requested, result>>
    BY <1>3 DEF maybe_persist, vars, engine, gate
  <2>2. up /\ up' /\ ~dirty' /\ at' = Waiting /\ disk' = IF dirty THEN serialize_state ELSE disk
    BY <1>3 DEF maybe_persist, Steps
  <2>3. generation > 0 => Saved'
    BY <2>1, <2>2 DEF DurableInv, Saved, serialize_state
  <2> QED
    BY <2>1, <2>2, <2>3 DEF DurableInv
<1>4. CASE Kept
  BY <1>4 DEF Kept, DurableInv, Saved
<1>5. CASE Marked
  BY <1>5 DEF Marked, DurableInv
<1> QED
  BY <1>1, <1>2, <1>3, <1>4, <1>5, SaveSteps

\* The engine does not fall behind the file in any step.
LEMMA FinalStep ==
    ASSUME TypeOK, Stored(disk), FinalInv, QueueInv, IsSeq(batch),
           [CoordinatorNext]_coordinatorVars
    PROVE  FinalInv'
<1>1. CASE start
  BY <1>1 DEF start, recover_state, Load, durable, FinalInv, KeyOf, Key
<1>2. CASE Crash
  BY <1>2 DEF Crash, FinalInv
<1>3. CASE maybe_persist
  <2>1. UNCHANGED <<generation, execution, cancellation_requested, result>>
    BY <1>3 DEF maybe_persist, vars, engine, gate
  <2>2. up /\ up' /\ disk' = IF dirty THEN serialize_state ELSE disk
    BY <1>3 DEF maybe_persist, Steps
  <2> QED
    BY <2>1, <2>2 DEF FinalInv, serialize_state, KeyOf, Key
<1>4. CASE (Kept \/ Marked) /\ [EngineNext]_vars
  <2>1. UNCHANGED <<up, disk>>
    BY <1>4 DEF Kept, Marked
  <2>2. KeyOf(disk) \in Nat \X Nat
    BY DEF Stored, KeyOf
  <2>3. CASE GateQuiet
    BY <2>1, <2>3 DEF GateQuiet, FinalInv, Key
  <2>4. CASE define_ensemble \/ open_execution
    BY <2>1, <2>2, <2>4, KeyAdvances DEF FinalInv
  <2>5. CASE cancel_ensemble
    <3>1. UNCHANGED <<Key, result>> /\ ~has_result /\ cancellation_requested' = TRUE
      BY <2>5 DEF cancel_ensemble, engine, Key
    <3> QED
      BY <2>1, <3>1 DEF FinalInv, has_result, Stored, TypeOK
  <2>6. ASSUME NEW r, CommitAccepted(r) PROVE FinalInv'
    <3>1. UNCHANGED <<Key, cancellation_requested>>
      BY <2>6, AcceptedIsCurrent
    <3>2. result' = result \/ (~has_result /\ ~cancellation_requested)
      BY <2>6 DEF CommitAccepted, MayPublish
    <3> QED
      BY <2>1, <3>1, <3>2 DEF FinalInv, has_result
  <2> QED
    BY <1>4, <2>3, <2>4, <2>5, <2>6, GateSteps
<1> QED
  BY <1>1, <1>2, <1>3, <1>4, SaveSteps, EngineSteps

-----------------------------------------------------------------------------
(* What is saved is sound, and so is what is recovered from it. *)

\* What a deployment knows of its engine.
StateSound == TypeOK /\ PreparedInv /\ PublishedIsDecision /\ EvidenceInv /\ SelectionInv

\* Planned evaluations are not saved, which no part of the invariant misses.
LEMMA SavedWork ==
    ASSUME NEW w, WorkInv(w)
    PROVE  LET v == [w EXCEPT !.pending = {}]
           IN WorkInv(v) /\ v.candidates = w.candidates
<1> DEFINE v == [w EXCEPT !.pending = {}]
<1>1. w \in WorkRecord
  BY DEF WorkInv
<1>2. /\ v \in WorkRecord /\ v.candidates = w.candidates /\ v.evaluations = w.evaluations
      /\ v.stage_index = w.stage_index /\ v.fallback_depth = w.fallback_depth /\ v.pending = {}
  BY <1>1 DEF WorkRecord
<1> HIDE DEF v
<1>3. WorkInv(v)
  BY <1>2, PendingReplaced
<1> QED
  BY <1>2, <1>3 DEF v

\* What serialize_state writes.
LEMMA SerializedIsStored ==
    ASSUME StateSound
    PROVE  Stored(serialize_state)
<1> DEFINE d == serialize_state
<1>1. /\ d.epoch = epoch /\ d.generation = generation /\ d.superseded = superseded
      /\ d.participants = participants /\ d.execution = execution /\ d.status = status
      /\ d.execution_epoch = execution_epoch
      /\ d.cancellation_requested = cancellation_requested /\ d.result = result
      /\ d.work = [work EXCEPT !.pending = {}]
  BY DEF serialize_state
<1> HIDE DEF d
<1>2. WorkInv(d.work) /\ d.work.candidates = work.candidates
  BY <1>1, SavedWork DEF StateSound, EvidenceInv
<1>3. \A states : CandidatesIn(d.work, states) = CandidatesIn(work, states)
  BY <1>2 DEF CandidatesIn
<1>4. /\ d.epoch \in Nat /\ d.generation \in Nat /\ d.superseded \in BOOLEAN
      /\ d.participants \in [Participants -> ParticipantRecord]
      /\ d.execution \in Nat /\ d.status \in Statuses /\ d.execution_epoch \in Nat
      /\ d.cancellation_requested \in BOOLEAN /\ IsResult(d.result)
  BY <1>1 DEF StateSound, TypeOK
<1>5. /\ d.status = "superseded" => d.superseded
      /\ d.status = "cancelled" => d.cancellation_requested
  BY <1>1 DEF StateSound, PreparedInv
<1>6. d.result # NoResult =>
          /\ d.result.decision \in {"committed", "no_eligible_candidate", "failed",
                                    "fallback_required"}
          /\ d.status = status_for(d.result.decision) /\ KeyOf(d.result) = KeyOf(d)
  BY <1>1 DEF StateSound, PublishedIsDecision, has_result, KeyOf, Key
<1>7. /\ \A i \in CandidatesIn(d.work, ContentStates) : d.work.candidates[i].payload # 0
      /\ d.result = NoResult => CandidatesIn(d.work, {"selected"}) = {}
  BY <1>1, <1>2, <1>3 DEF StateSound, SelectionInv, has_result
<1>8. d.result # NoResult /\ d.result.decision = "committed" =>
          /\ NamesCandidate(d.work, d.result)
          /\ CandidatesIn(d.work, {"selected"}) = {d.result.candidate}
  BY <1>1, <1>2, <1>3 DEF StateSound, SelectionInv, has_result, NamesCandidate
<1>9. Stored(d)
  BY <1>2, <1>4, <1>5, <1>6, <1>7, <1>8 DEF Stored
<1> QED
  BY <1>9 DEF d

\* A runtime that has just been constructed.
LEMMA BlankIsStored == Stored(Blank)
<1> DEFINE d == Blank
<1>1. /\ d.epoch = 0 /\ d.generation = 0 /\ d.superseded = FALSE
      /\ d.participants = [p \in Participants |-> NewParticipant] /\ d.execution = 0
      /\ d.status = "none" /\ d.execution_epoch = 0
      /\ d.cancellation_requested = FALSE /\ d.result = NoResult /\ d.work = NewExecution
  BY DEF Blank
<1> HIDE DEF d
<1>2. WorkInv(d.work) /\ DOMAIN d.work.candidates = {}
  BY <1>1, NewExecutionKept DEF NewExecution
<1>3. \A states : CandidatesIn(d.work, states) = {}
  BY <1>2 DEF CandidatesIn
<1>4. d.participants \in [Participants -> ParticipantRecord]
  BY <1>1, NewParticipantType
<1>5. /\ d.epoch \in Nat /\ d.generation \in Nat
      /\ d.execution \in Nat /\ d.status \in Statuses /\ d.execution_epoch \in Nat
  BY <1>1 DEF Statuses
<1>6. /\ d.superseded \in BOOLEAN /\ d.cancellation_requested \in BOOLEAN
      /\ d.status # "superseded" /\ d.status # "cancelled" /\ IsResult(d.result)
  BY <1>1, NoResultType
<1>7. Stored(d)
  BY <1>1, <1>2, <1>3, <1>4, <1>5, <1>6 DEF Stored
<1> QED
  BY <1>7 DEF d

\* Recovery answers, as a restart does, whatever was in flight.
LEMMA RecoveredKeeps ==
    ASSUME NEW d, WorkInv(d.work)
    PROVE  WorkInv(RecoveredWork(d)) /\ Answered(d.work, RecoveredWork(d))
<1> DEFINE e == [participants |-> d.participants, epoch |-> d.epoch + 1,
                 execution_epoch |-> d.execution_epoch, status |-> d.status,
                 superseded |-> d.superseded]
           w == compute_reports(d.work, e)
<1> HIDE DEF e
<1>1. WorkInv(w) /\ w.candidates = d.work.candidates
  BY ReportsKeep
<1>2. RecoveredWork(d) \in {d.work, w, InvalidatedWork(w)}
  BY DEF RecoveredWork, e
<1> HIDE DEF w
<1>3. WorkInv(InvalidatedWork(w)) /\ Answered(w, InvalidatedWork(w))
  BY <1>1, InvalidatedKeeps
<1>4. Answered(d.work, d.work) /\ Answered(d.work, w)
  BY <1>1, AnsweredSame
<1>5. Answered(d.work, InvalidatedWork(w))
  BY <1>1, <1>3 DEF Answered
<1> QED
  BY <1>1, <1>2, <1>3, <1>4, <1>5

\* The engine that continues from a sound state is sound, and holds no live authority.
LEMMA LoadKeeps ==
    ASSUME TypeOK, NEW d, Stored(d), Load(d), calls' = [c \in Callers |-> Idle],
           UNCHANGED <<acknowledged, cancelled>>
    PROVE  StateSound' /\ \A p \in Participants : ~participants'[p].registered
<1>1. /\ epoch' = d.epoch + 1 /\ restarting' = FALSE
      /\ generation' = d.generation /\ superseded' = d.superseded
      /\ participants' = InvalidatedParticipants(d.participants)
      /\ execution' = d.execution /\ execution_epoch' = d.execution_epoch
      /\ status' = IF d.status = "open" THEN "revalidation_required" ELSE d.status
      /\ cancellation_requested' = d.cancellation_requested /\ result' = d.result
      /\ work' = RecoveredWork(d)
  BY DEF Load
<1>2. WorkInv(work') /\ Answered(d.work, work')
  BY <1>1, RecoveredKeeps DEF Stored
<1>3. \A c \in Callers : calls'[c] = Idle /\ calls'[c].result = NoResult
  BY DEF Idle
<1>4. \A p \in Participants :
         participants'[p] \in ParticipantRecord /\ ~participants'[p].registered
  <2> SUFFICES ASSUME NEW p \in Participants
               PROVE  participants'[p] \in ParticipantRecord /\ ~participants'[p].registered
    OBVIOUS
  <2>1. PICK r \in ParticipantRecord : r = d.participants[p]
    BY DEF Stored
  <2>2. participants'[p] = [r EXCEPT !.status = "revalidation_required", !.registered = FALSE]
    BY <1>1, <2>1 DEF InvalidatedParticipants
  <2> QED
    BY <2>2 DEF ParticipantRecord, ParticipantStatuses
<1>5. TypeOK'
  <2>1. participants' \in [Participants -> ParticipantRecord]
    BY <1>1, <1>4 DEF InvalidatedParticipants
  <2>2. /\ epoch' \in Nat \ {0} /\ generation' \in Nat /\ execution' \in Nat
        /\ execution_epoch' \in Nat /\ status' \in Statuses
    BY <1>1 DEF Stored, Statuses
  <2>3. /\ restarting' \in BOOLEAN /\ superseded' \in BOOLEAN
        /\ cancellation_requested' \in BOOLEAN /\ IsResult(result')
    BY <1>1 DEF Stored
  <2>4. /\ \A r \in acknowledged' : IsResult(r)
        /\ cancelled' \subseteq Nat \X Nat
    BY DEF TypeOK
  <2>5. DOMAIN calls' = Callers /\ \A c \in Callers : IsCall(calls'[c])
    BY <1>3, IdleType
  <2> QED
    BY <2>1, <2>2, <2>3, <2>4, <2>5 DEF TypeOK
<1>6. PreparedInv'
  <2>1. /\ status' = "superseded" => superseded'
        /\ status' = "cancelled" => cancellation_requested'
    BY <1>1 DEF Stored
  <2>2. /\ Log!Precedes(KeyOf(NoResult), Key') \/ KeyOf(NoResult) = Key'
        /\ NoResult.decision = "pending"
    BY <1>5 DEF TypeOK, NoResult, KeyOf, Key, Log!Precedes
  <2> QED
    BY <1>3, <2>1, <2>2 DEF PreparedInv
<1>7. PublishedIsDecision'
  <2>1. d.result # NoResult => d.status # "open"
    BY DEF Stored, status_for
  <2> QED
    BY <1>1, <2>1 DEF Stored, PublishedIsDecision, has_result, KeyOf, Key
<1>8. EvidenceInv'
  BY <1>1, <1>2 DEF EvidenceInv
<1>9. SelectionInv'
  <2>1. ASSUME NEW i \in DOMAIN d.work.candidates
        PROVE  LET c == d.work.candidates[i]
                   v == work'.candidates[i]
               IN /\ is_content_state(c.state) => v = c
                  /\ is_content_state(v.state) => v = c \/ v.payload # 0
                  /\ v.state = "selected" => c.state = "selected"
    BY <1>2 DEF Answered, AnsweredSlot
  <2>2. DOMAIN work'.candidates = DOMAIN d.work.candidates
    BY <1>2 DEF Answered
  <2>3. CandidatesIn(work', {"selected"}) = CandidatesIn(d.work, {"selected"})
    BY <2>1, <2>2 DEF CandidatesIn, is_content_state, ContentStates
  <2>4. \A i \in CandidatesIn(work', ContentStates) : work'.candidates[i].payload # 0
    BY <2>1, <2>2 DEF Stored, CandidatesIn, is_content_state
  <2>5. \A c \in Callers : calls'[c].result.decision # "committed"
    BY <1>3 DEF NoResult
  <2>6. d.result # NoResult /\ d.result.decision = "committed" =>
           NamesCandidate(work', d.result) /\ CandidatesIn(work', {"selected"}) = {d.result.candidate}
    <3> SUFFICES ASSUME d.result # NoResult, d.result.decision = "committed"
                 PROVE  /\ NamesCandidate(work', d.result)
                        /\ CandidatesIn(work', {"selected"}) = {d.result.candidate}
      OBVIOUS
    <3>1. /\ NamesCandidate(d.work, d.result)
          /\ CandidatesIn(d.work, {"selected"}) = {d.result.candidate}
      BY DEF Stored
    <3>2. /\ d.result.candidate \in DOMAIN d.work.candidates
          /\ is_content_state(d.work.candidates[d.result.candidate].state)
      BY <3>1 DEF CandidatesIn, is_content_state, ContentStates
    <3>3. work'.candidates[d.result.candidate] = d.work.candidates[d.result.candidate]
      BY <2>1, <3>2
    <3> QED
      BY <2>2, <2>3, <3>1, <3>3 DEF NamesCandidate
  <2> QED
    BY <1>1, <2>3, <2>4, <2>5, <2>6 DEF Stored, SelectionInv, has_result
<1> QED
  BY <1>4, <1>5, <1>6, <1>7, <1>8, <1>9 DEF StateSound

\* Every step leaves the engine and the file sound.
LEMMA SoundStep ==
    ASSUME StateSound, Stored(disk), QueueInv, IsSeq(batch), [CoordinatorNext]_coordinatorVars
    PROVE  StateSound' /\ Stored(disk')
<1>1. CASE start
  <2>1. disk' = disk
    BY <1>1 DEF start, durable
  <2> QED
    BY <1>1, <2>1, LoadKeeps DEF start, recover_state, StateSound
<1>2. CASE Crash
  <2>1. disk' = disk /\ Load(Blank) /\ calls' = [c \in Callers |-> Idle]
        /\ UNCHANGED <<acknowledged, cancelled>>
    BY <1>2 DEF Crash
  <2> QED
    BY <2>1, LoadKeeps, BlankIsStored DEF StateSound
<1>3. ASSUME [EngineNext]_vars PROVE StateSound'
  BY <1>3, TypeStep, DecisionStep, EvidenceStep, SelectionStep DEF StateSound
<1>4. disk' = disk \/ disk' = serialize_state
  BY SaveSteps DEF start, Crash, maybe_persist, Kept, Marked, durable
<1> QED
  BY <1>1, <1>2, <1>3, <1>4, EngineSteps, SerializedIsStored

-----------------------------------------------------------------------------
(* The queue and the connections. *)

\* The invariant of the queue, with the fact that it is one.
Queued == QueueInv /\ IsSeq(batch) /\ IsSeq(queue)

\* Who closed a connection is dead.
LEMMA ClosedIsDead ==
    ASSUME NEW s, NEW workers, NEW open, InOrder(s, workers, open), NEW n \in DOMAIN s,
           s[n].type = "connection_closed"
    PROVE  s[n].from \in Boots /\ workers[s[n].from].phase = "dead"
<1>1. s[n].from \in Boots
  BY DEF InOrder, WellFormed
<1>2. FromWorker(s[n], s[n].from)
  BY DEF FromWorker
<1> QED
  BY <1>1, <1>2 DEF InOrder

\* A step of the event thread that handles no event.
LEMMA QueueSame ==
    ASSUME Queued, UNCHANGED <<worker, connections, queue, batch>>,
           at'.step \in {"handle", "lose"} => batch # <<>>,
           at'.step = "lose" => at.step = "lose"
    PROVE  Queued'
BY DEF Queued, QueueInv, Alive

\* A step that handles an event, and may close a connection none of whose events is left.
LEMMA QueueHandled ==
    ASSUME Queued, UNCHANGED <<worker, queue>>, batch # <<>>, batch' = Tail(batch),
           InOrder(batch, worker, connections'), InOrder(queue, worker, connections'),
           \A b \in Boots : Alive(b) => b \in connections',
           at'.step = "handle" => Tail(batch) # <<>>, at'.step # "lose"
    PROVE  Queued'
<1>1. IsSeq(batch)
  BY DEF Queued
<1>2. /\ IsSeq(Tail(batch)) /\ InOrder(Tail(batch), worker, connections')
      /\ \A n \in DOMAIN Tail(batch) : n + 1 \in DOMAIN batch /\ Tail(batch)[n] = batch[n + 1]
  BY <1>1, HeadAndTail, OrderTail
<1>3. ASSUME NEW m \in DOMAIN Tail(batch), NEW n \in DOMAIN queue,
             Tail(batch)[m].type = "connection_closed"
      PROVE  ~FromWorker(queue[n], Tail(batch)[m].from)
  BY <1>2, <1>3 DEF Queued, QueueInv
<1>4. QueueInv'
  BY <1>2, <1>3 DEF Queued, QueueInv, Alive
<1> QED
  BY <1>2, <1>4 DEF Queued

\* A connection closes: the events of its worker have all been handled.
LEMMA QueueClosed ==
    ASSUME Queued, HandleConnectionClosed
    PROVE  Queued'
<1> DEFINE b == Head(batch).from
<1>1. /\ at.step = "handle" /\ Head(batch).type = "connection_closed"
      /\ connections' = connections \ {b} /\ UNCHANGED <<worker, queue>>
  BY DEF HandleConnectionClosed, Handles, Steps, processes
<1>2. /\ batch # <<>> /\ b \in Boots /\ worker[b].phase = "dead"
  BY <1>1, FirstEvent DEF Queued, WellFormed, FromWorker
<1>3. InOrder(batch, worker, connections) /\ InOrder(queue, worker, connections)
  BY DEF Queued, QueueInv
<1>4. \A n \in DOMAIN batch : FromWorker(batch[n], b) => batch[n].type = "connection_closed"
  BY <1>1, <1>2, <1>3, OrderHead DEF Queued
<1>5. \A n \in DOMAIN queue : ~FromWorker(queue[n], b)
  <2>1. Head(batch) = batch[1] /\ 1 \in DOMAIN batch
    BY <1>2, HeadAndTail DEF Queued
  <2> QED
    BY <1>1, <2>1 DEF Queued, QueueInv
<1>6. InOrder(batch, worker, connections')
  BY <1>1, <1>3, <1>4, OrderMoved
<1>7. InOrder(queue, worker, connections')
  BY <1>1, <1>3, <1>5, OrderMoved
<1>8. \A c \in Boots : Alive(c) => c \in connections'
  BY <1>1, <1>2 DEF Queued, QueueInv, Alive
<1>9. CASE registrations[b] = Unregistered
  <2>1. batch' = Tail(batch) /\ at' = Resume(Tail(batch))
    BY <1>9 DEF HandleConnectionClosed, Following
  <2>2. at'.step \in {"handle", "flush"} /\ (at'.step = "handle" => Tail(batch) # <<>>)
    BY <2>1 DEF Resume, At
  <2> QED
    BY <1>1, <1>2, <1>6, <1>7, <1>8, <2>1, <2>2, QueueHandled
<1>10. CASE registrations[b] # Unregistered
  <2>1. batch' = batch /\ at' = At("lose", 0)
    BY <1>10 DEF HandleConnectionClosed
  <2> QED
    BY <1>1, <1>2, <1>6, <1>7, <1>8, <2>1 DEF Queued, QueueInv, Alive, At
<1> QED
  BY <1>9, <1>10

\* A worker that was not dead moves on while the event thread waits.
Moved(b, w) ==
    /\ worker[b].phase # "dead" /\ w \in WorkerRecord /\ worker' = [worker EXCEPT ![b] = w]
    /\ w.phase = "registering" => w.registered < Len(Bindings[b])
    /\ w.phase \notin {"new", "dead"} => b \in connections'
    /\ connections \subseteq connections'
    /\ at = Waiting /\ UNCHANGED <<batch, at>>

\* It leaves the order of the events alone.
LEMMA QueueMoved ==
    ASSUME Queued, NEW b \in Boots, NEW w, Moved(b, w)
    PROVE  /\ \A c \in Boots : worker'[c] = IF c = b THEN w ELSE worker[c]
           /\ InOrder(batch, worker', connections') /\ InOrder(queue, worker', connections')
           /\ queue' = queue => Queued'
<1>1. \A c \in Boots : worker'[c] = IF c = b THEN w ELSE worker[c]
  BY DEF Queued, QueueInv, Moved
<1>2. \A c \in Boots : worker[c].phase = "dead" => worker'[c].phase = "dead"
  BY <1>1 DEF Moved
<1>3. InOrder(batch, worker', connections') /\ InOrder(queue, worker', connections')
  BY <1>2, OrderMoved DEF Queued, QueueInv, Moved
<1>4. /\ worker' \in [Boots -> WorkerRecord]
      /\ \A c \in Boots :
            /\ worker'[c].phase \notin {"new", "dead"} => c \in connections'
            /\ worker'[c].phase = "registering" => worker'[c].registered < Len(Bindings[c])
  BY <1>1 DEF Queued, QueueInv, Moved, Alive
<1>5. at'.step = "wait"
  BY DEF Moved, Waiting, At
<1>6. ASSUME queue' = queue PROVE Queued'
  BY <1>3, <1>4, <1>5, <1>6 DEF Queued, QueueInv, Alive, Moved
<1> QED
  BY <1>1, <1>3, <1>6

\* It sends an event of its own.
LEMMA QueueSent ==
    ASSUME Queued, NEW b \in Boots, NEW w, Moved(b, w), NEW e, Enqueue(e), WellFormed(e),
           e.from = b,
           IF e.type = "connection_closed" THEN w.phase = "dead" ELSE b \in connections'
    PROVE  Queued'
<1>1. /\ \A c \in Boots : worker'[c] = IF c = b THEN w ELSE worker[c]
      /\ InOrder(batch, worker', connections') /\ InOrder(queue, worker', connections')
  BY QueueMoved
<1>2. \A n \in DOMAIN queue : queue[n].type = "connection_closed" => queue[n].from # b
  BY ClosedIsDead DEF Queued, QueueInv, Moved
<1>3. \A n \in DOMAIN batch : batch[n].type = "connection_closed" => batch[n].from # b
  BY ClosedIsDead DEF Queued, QueueInv, Moved
<1>4. \A c \in Boots : FromWorker(e, c) => IF e.type = "connection_closed"
                                             THEN worker'[c].phase = "dead" ELSE c \in connections'
  BY <1>1 DEF FromWorker
<1>5. InOrder(queue', worker', connections')
  <2>1. InOrder(Append(queue, e), worker', connections')
    BY <1>1, <1>2, <1>4, OrderAppend DEF Queued, FromWorker
  <2> QED
    BY <2>1 DEF Enqueue
<1>6. /\ Len(queue) \in Nat /\ DOMAIN queue = 1..Len(queue) /\ IsSeq(queue')
      /\ DOMAIN queue' = 1..(Len(queue) + 1)
      /\ \A n \in DOMAIN queue : queue'[n] = queue[n]
      /\ queue'[Len(queue) + 1] = e
  BY OneMore DEF Queued, Enqueue
<1>7. ASSUME NEW m \in DOMAIN batch, NEW n \in DOMAIN queue', batch[m].type = "connection_closed"
      PROVE  ~FromWorker(queue'[n], batch[m].from)
  <2>1. CASE n \in DOMAIN queue
    BY <1>6, <1>7, <2>1 DEF Queued, QueueInv
  <2>2. CASE n = Len(queue) + 1
    BY <1>3, <1>6, <1>7, <2>2 DEF FromWorker
  <2> QED
    BY <1>6, <2>1, <2>2
<1>8. /\ worker' \in [Boots -> WorkerRecord]
      /\ \A c \in Boots :
            /\ worker'[c].phase \notin {"new", "dead"} => c \in connections'
            /\ worker'[c].phase = "registering" => worker'[c].registered < Len(Bindings[c])
  BY <1>1 DEF Queued, QueueInv, Moved, Alive
<1>9. at'.step = "wait"
  BY DEF Moved, Waiting, At
<1>10. batch' = batch
  BY DEF Moved
<1>11. QueueInv'
  BY <1>1, <1>5, <1>7, <1>8, <1>9, <1>10 DEF QueueInv, Alive
<1> QED
  BY <1>6, <1>10, <1>11 DEF Queued

\* A client's request belongs to no worker.
LEMMA QueueRequest ==
    ASSUME Queued, NEW c \in Clients, NEW type \in Requests[c], request(c, type)
    PROVE  Queued'
<1> DEFINE e == [type |-> type, from |-> c,
                 generation |-> IF generation = 0 THEN 1 ELSE generation]
<1>1. type \in {"define", "open", "cancel", "finalize"}
  BY DeploymentAssumption
<1>2. /\ queue' = Append(queue, e) /\ at = Waiting
      /\ UNCHANGED <<worker, connections, batch, at>>
  BY DEF request, Free, Enqueue, connectivity, loop
<1>3. WellFormed(e) /\ \A b : ~FromWorker(e, b)
  BY <1>1 DEF WellFormed, FromWorker, Submission
<1> HIDE DEF e
<1>4. InOrder(Append(queue, e), worker, connections)
  BY <1>3, OrderAppend DEF Queued, QueueInv
<1>5. /\ Len(queue) \in Nat /\ DOMAIN queue = 1..Len(queue) /\ IsSeq(queue')
      /\ DOMAIN queue' = 1..(Len(queue) + 1)
      /\ \A n \in DOMAIN queue : queue'[n] = queue[n]
      /\ queue'[Len(queue) + 1] = e
  BY <1>2, OneMore DEF Queued
<1>6. ASSUME NEW m \in DOMAIN batch, NEW n \in DOMAIN queue', batch[m].type = "connection_closed"
      PROVE  ~FromWorker(queue'[n], batch[m].from)
  <2>1. CASE n \in DOMAIN queue
    BY <1>5, <1>6, <2>1 DEF Queued, QueueInv
  <2>2. CASE n = Len(queue) + 1
    BY <1>3, <1>5, <2>2
  <2> QED
    BY <1>5, <2>1, <2>2
<1>7. at'.step = "wait"
  BY <1>2 DEF Waiting, At
<1>8. QueueInv'
  BY <1>2, <1>4, <1>6, <1>7 DEF Queued, QueueInv, Alive
<1> QED
  BY <1>2, <1>5, <1>8 DEF Queued

\* A registration names a binding of its worker.
LEMMA RegistrationFormed ==
    ASSUME NEW b \in Boots, NEW w \in WorkerRecord, w.registered < Len(Bindings[b])
    PROVE  /\ WellFormed(Registration(b, w)) /\ Registration(b, w).from = b
           /\ Registration(b, w).type = "register_participant"
<1>1. Bindings[b] \in Seq(Participants) /\ w.registered \in Nat
  BY DeploymentAssumption DEF WorkerRecord
<1>2. w.registered + 1 \in DOMAIN Bindings[b]
  BY <1>1
<1>3. Bindings[b][w.registered + 1] \in Participants
  BY <1>1, <1>2
<1> QED
  BY <1>3 DEF Registration, WellFormed, Submission

\* What a worker does keeps the queue in order.
LEMMA QueueWorker ==
    ASSUME TypeOK, Queued, NEW b \in Boots, WorkerStep(b) \/ WorkerDies(b)
    PROVE  Queued'
<1>1. Bindings[b] \in Seq(Participants) /\ Len(Bindings[b]) \in Nat \ {0}
  BY DeploymentAssumption
<1>2. PICK u \in WorkerRecord : u = worker[b]
  BY DEF Queued, QueueInv
<1>3. Alive(b) => b \in connections
  BY DEF Queued, QueueInv
<1>4. CASE Connect(b)
  <2> DEFINE w == [phase |-> "registering", epoch |-> epoch, generation |-> generation,
                   registered |-> 0]
  <2>1. w \in WorkerRecord /\ w.registered < Len(Bindings[b])
    BY <1>1 DEF WorkerRecord, TypeOK
  <2>2. /\ worker[b].phase = "new" /\ worker' = [worker EXCEPT ![b] = w]
        /\ connections' = connections \cup {b} /\ Enqueue(Registration(b, w))
        /\ at = Waiting /\ UNCHANGED <<batch, at>>
    BY <1>4 DEF Connect, Free, loop
  <2> HIDE DEF w
  <2>3. Moved(b, w)
    BY <2>1, <2>2 DEF Moved
  <2> QED
    BY <2>1, <2>2, <2>3, RegistrationFormed, QueueSent
<1>5. CASE RegisterNext(b)
  <2> DEFINE w == [worker[b] EXCEPT !.registered = @ + 1]
  <2>1. /\ worker[b].phase = "registering" /\ worker' = [worker EXCEPT ![b] = w]
        /\ connections' = connections /\ Enqueue(Registration(b, w))
        /\ worker[b].registered + 1 # Len(Bindings[b])
        /\ at = Waiting /\ UNCHANGED <<batch, at>>
    BY <1>5 DEF RegisterNext, Acknowledged, Receives, Complete, Free, loop, connectivity
  <2>2. worker[b].registered < Len(Bindings[b])
    BY <2>1 DEF Queued, QueueInv
  <2>3. /\ w \in WorkerRecord /\ w.registered = u.registered + 1 /\ w.phase = u.phase
    BY <1>2 DEF WorkerRecord
  <2> HIDE DEF w
  <2>4. w.registered < Len(Bindings[b])
    BY <1>1, <1>2, <2>1, <2>2, <2>3 DEF WorkerRecord
  <2>5. b \in connections
    BY <1>3, <2>1 DEF Alive
  <2>6. Moved(b, w)
    BY <2>1, <2>3, <2>4, <2>5 DEF Moved
  <2> QED
    BY <2>1, <2>3, <2>4, <2>5, <2>6, RegistrationFormed, QueueSent
<1>6. CASE Registered(b)
  <2>0. PICK n \in Nat : n = u.registered + 1
    BY DEF WorkerRecord
  <2> DEFINE w == [u EXCEPT !.phase = "serving", !.registered = n]
  <2>1. /\ worker[b].phase = "registering"
        /\ worker' = [worker EXCEPT ![b].phase = "serving", ![b].registered = @ + 1]
        /\ connections' = connections /\ queue' = queue
        /\ at = Waiting /\ UNCHANGED <<batch, at>>
    BY <1>6 DEF Registered, Acknowledged, Receives, Free, loop, connectivity
  <2>2. w \in WorkerRecord /\ w.phase = "serving"
    BY <1>2 DEF WorkerRecord
  <2>3. worker' = [worker EXCEPT ![b] = w]
    BY <1>2, <2>0, <2>1 DEF WorkerRecord, Queued, QueueInv
  <2> HIDE DEF w
  <2>4. b \in connections
    BY <1>3, <2>1 DEF Alive
  <2>5. Moved(b, w)
    BY <2>1, <2>2, <2>3, <2>4 DEF Moved
  <2> QED
    BY <2>1, <2>5, QueueMoved
<1>7. CASE GivesUp(b) \/ WorkerDies(b)
  <2> DEFINE e == [type |-> "connection_closed", from |-> b]
  <2>1. /\ worker[b].phase # "dead" /\ worker' = [worker EXCEPT ![b] = Dead]
        /\ connections' = connections /\ Enqueue(e)
        /\ at = Waiting /\ UNCHANGED <<batch, at>>
    BY <1>7 DEF GivesUp, WorkerDies, Ends, Receives, Free, Alive, loop, connectivity
  <2>2. Dead \in WorkerRecord /\ Dead.phase = "dead"
    BY DEF Dead, NewWorker, WorkerRecord
  <2>3. WellFormed(e) /\ e.from = b /\ e.type = "connection_closed"
    BY DEF WellFormed, Submission
  <2> HIDE DEF e
  <2>4. Moved(b, Dead)
    BY <2>1, <2>2 DEF Moved
  <2> QED
    BY <2>1, <2>2, <2>3, <2>4, QueueSent
<1>8. CASE Answers(b)
  <2> DEFINE a == [Frame(b).authority EXCEPT !.worker_boot = b, !.epoch = worker[b].epoch]
  <2>1. /\ worker[b].phase = "serving" /\ worker' = worker
        /\ connections' = connections /\ at = Waiting /\ UNCHANGED <<batch, at>>
    BY <1>8 DEF Answers, Receives, Free, loop, connectivity, processes
  <2>2. \/ \E payload \in Payloads :
              Enqueue([type |-> "candidate_result", from |-> b, authority |-> a, answer |-> payload])
        \/ \E kind \in FailureKinds :
              Enqueue([type |-> "candidate_failure", from |-> b, authority |-> a, answer |-> kind])
        \/ Enqueue([type |-> "candidate_abstention", from |-> b, authority |-> a, answer |-> 0])
        \/ \E verdict \in Verdicts :
              Enqueue([type |-> "evaluation_result", from |-> b, authority |-> a,
                       answer |-> verdict])
        \/ UNCHANGED queue
    BY <1>8 DEF Answers
  <2> HIDE DEF a
  <2>3. \/ UNCHANGED queue
        \/ \E e : Enqueue(e) /\ WellFormed(e) /\ e.from = b /\ e.type # "connection_closed"
    <3>1. ASSUME NEW type \in Submission, NEW answer,
                 type = "candidate_result" => answer \in Payloads,
                 type = "candidate_failure" => answer \in FailureKinds,
                 type = "evaluation_result" => answer \in Verdicts
          PROVE  LET e == [type |-> type, from |-> b, authority |-> a, answer |-> answer]
                 IN WellFormed(e) /\ e.from = b /\ e.type # "connection_closed"
      BY <3>1 DEF WellFormed, Submission
    <3> QED
      BY <2>2, <3>1 DEF Submission
  <2>4. b \in connections
    BY <1>3, <2>1 DEF Alive
  <2>5. Moved(b, worker[b])
    BY <1>2, <2>1, <2>4 DEF Moved, Queued, QueueInv
  <2> QED
    BY <2>1, <2>3, <2>4, <2>5, QueueMoved, QueueSent
<1> QED
  BY <1>4, <1>5, <1>6, <1>7, <1>8 DEF WorkerStep

\* Every step keeps the queue in order.
LEMMA QueueStep ==
    ASSUME TypeOK, Queued, [CoordinatorNext]_coordinatorVars
    PROVE  Queued'
<1>1. CASE UNCHANGED coordinatorVars \/ start
  BY <1>1 DEF coordinatorVars, start, connectivity, loop, processes, Queued, QueueInv, Alive
<1>2. CASE Crash
  <2>1. /\ queue' = <<>> /\ batch' = <<>> /\ at'.step = "wait"
        /\ worker' = [b \in Boots |-> IF worker[b].phase = "new" THEN worker[b] ELSE Dead]
    BY <1>2 DEF Crash, Waiting, At
  <2>2. Dead \in WorkerRecord /\ Dead.phase = "dead"
    BY DEF Dead, NewWorker, WorkerRecord
  <2>3. worker' \in [Boots -> WorkerRecord] /\ \A b \in Boots : worker'[b].phase \in {"new", "dead"}
    BY <2>1, <2>2 DEF Queued, QueueInv
  <2>4. IsSeq(queue') /\ IsSeq(batch') /\ DOMAIN queue' = {} /\ DOMAIN batch' = {}
    BY <2>1, NoEvents
  <2>5. InOrder(queue', worker', connections') /\ InOrder(batch', worker', connections')
    BY <2>4 DEF InOrder
  <2>6. QueueInv'
    BY <2>1, <2>3, <2>4, <2>5 DEF QueueInv, Alive
  <2> QED
    BY <2>4, <2>6 DEF Queued
<1>3. CASE TakeEvents
  <2>1. /\ queue # <<>> /\ batch' = queue /\ queue' = <<>> /\ at'.step = "handle"
        /\ UNCHANGED <<worker, connections>>
    BY <1>3 DEF TakeEvents, connectivity, processes, At
  <2>2. IsSeq(queue') /\ DOMAIN queue' = {}
    BY <2>1, NoEvents
  <2>3. InOrder(queue', worker', connections')
    BY <2>2 DEF InOrder
  <2>4. QueueInv'
    BY <2>1, <2>2, <2>3 DEF Queued, QueueInv, Alive
  <2> QED
    BY <2>1, <2>2, <2>4 DEF Queued
<1>4. ASSUME UNCHANGED <<worker, connections, queue>>, at.step \in {"handle", "lose"},
             Handled(Pump) \/ Handled(Following)
      PROVE  Queued'
  <2>1. batch # <<>> /\ batch' = Tail(batch)
    BY <1>4 DEF Queued, QueueInv, Handled
  <2>2. at'.step \in {"pump", "flush", "handle"} /\ (at'.step = "handle" => Tail(batch) # <<>>)
    BY <1>4 DEF Handled, Pump, Following, Resume, At
  <2>3. /\ InOrder(batch, worker, connections') /\ InOrder(queue, worker, connections')
        /\ \A b \in Boots : Alive(b) => b \in connections'
    BY <1>4 DEF Queued, QueueInv
  <2> QED
    BY <1>4, <2>1, <2>2, <2>3, QueueHandled
<1>5. CASE HandleRegister \/ HandleRegisterRefused \/ HandleSubmission \/ HandleDefine
           \/ HandleDefineRefused \/ HandleOpen \/ HandleOpenRefused \/ HandleCancel
           \/ HandleCancelRefused \/ HandleFinalize
  <2>1. /\ UNCHANGED <<worker, connections, queue>> /\ at.step = "handle"
        /\ Handled(Pump) \/ Handled(Following)
    BY <1>5 DEF HandleRegister, HandleRegisterRefused, HandleSubmission, HandleDefine,
                HandleDefineRefused, HandleOpen, HandleOpenRefused, HandleCancel,
                HandleCancelRefused, HandleFinalize, Handles, Steps, connectivity, processes
  <2> QED
    BY <1>4, <2>1
<1>6. CASE HandleConnectionClosed
  BY <1>6, QueueClosed
<1>7. CASE handle_connection_loss
  <2>1. /\ UNCHANGED <<worker, connections, queue>> /\ at.step = "lose"
        /\ Handled(Pump) \/ UNCHANGED <<batch, at>>
    BY <1>7 DEF handle_connection_loss, Steps, processes, loop
  <2>2. batch # <<>>
    BY <2>1 DEF Queued, QueueInv
  <2> QED
    BY <1>4, <2>1, <2>2, QueueSame
<1>8. ASSUME UNCHANGED <<worker, connections, queue, batch>>,
             at' = Resume(batch) \/ at'.step \in {"wait", "pump", "flush", "prepare", "commit"}
      PROVE  Queued'
  <2>1. at'.step \in {"handle", "lose"} => batch # <<>> /\ at'.step # "lose"
    BY <1>8 DEF Resume, At
  <2> QED
    BY <1>8, <2>1, QueueSame
<1>9. CASE PumpRound \/ PumpCancel \/ PumpNothing
  BY <1>8, <1>9 DEF PumpRound, PumpCancel, PumpNothing, connectivity, processes, At
<1>10. CASE FlushStale \/ FlushUnsettled \/ FlushRefused \/ FlushCheck \/ FlushPrepare
            \/ FlushCommit \/ maybe_persist
  <2>1. /\ UNCHANGED <<worker, connections, queue, batch>>
        /\ at'.step \in {"wait", "flush", "prepare", "commit"}
    BY <1>10 DEF FlushStale, FlushUnsettled, FlushRefused, FlushCheck, FlushPrepare, FlushCommit,
                 maybe_persist, FlushAnswered, AtWaiter, Steps, connectivity, processes, loop, At,
                 Waiting
  <2> QED
    BY <1>8, <2>1
<1>11. ASSUME NEW b \in Boots, WorkerStep(b) \/ WorkerDies(b) PROVE Queued'
  BY <1>11, QueueWorker
<1>12. ASSUME NEW c \in Clients, NEW type \in Requests[c], request(c, type) PROVE Queued'
  BY <1>12, QueueRequest
<1> QED
  BY <1>1, <1>2, <1>3, <1>5, <1>6, <1>7, <1>9, <1>10, <1>11, <1>12
  DEF CoordinatorNext, event_loop, Handle

\* A step outside the report of a loss that leaves the participants and registrations alone.
LEMMA ConnectionSame ==
    ASSUME ConnectionInv, UNCHANGED <<up, participants, registrations>>,
           connections \subseteq connections', at.step # "lose"
    PROVE  ConnectionInv'
BY DEF ConnectionInv

\* A participant registers: its connection is open and records the very generation.
LEMMA ConnectionRegister ==
    ASSUME TypeOK, Queued, ConnectionInv, HandleRegister
    PROVE  ConnectionInv'
<1> DEFINE p == Head(batch).participant
           b == Head(batch).from
<1>1. /\ up /\ up' /\ at.step = "handle" /\ Head(batch).type = "register_participant"
      /\ register_participant(p, b) /\ connections' = connections
      /\ registrations' = [registrations EXCEPT ![b][p] = participants'[p].generation]
  BY DEF HandleRegister, Handles, Steps
<1>2. p \in Participants /\ b \in Boots /\ b \in connections
  BY <1>1, FirstEvent DEF Queued, WellFormed, FromWorker
<1> HIDE DEF p, b
<1>3. PICK g : /\ participants' = [participants EXCEPT ![p] =
                      [generation |-> g, status |-> "current", registered |-> TRUE,
                       worker_boot |-> b, epoch |-> epoch]]
               /\ g = IF participants[p].worker_boot # 0 THEN participants[p].generation + 1
                                                         ELSE participants[p].generation
  BY <1>1 DEF register_participant
<1>4. g \in Nat
  BY <1>2, <1>3 DEF TypeOK, ParticipantRecord
<1>5. /\ participants'[p].generation = g /\ participants'[p].worker_boot = b
      /\ \A q \in Participants : q # p => participants'[q] = participants[q]
  BY <1>2, <1>3 DEF TypeOK
<1>6. registrations \in [Boots -> [Participants -> Nat]]
  BY DEF ConnectionInv
<1>7. /\ registrations' \in [Boots -> [Participants -> Nat]]
      /\ registrations'[b][p] = g
      /\ \A c \in Boots, q \in Participants : q # p => registrations'[c][q] = registrations[c][q]
  BY <1>1, <1>2, <1>4, <1>5, <1>6
<1>8. ASSUME NEW q \in Participants, participants'[q].registered
      PROVE  LET c == participants'[q].worker_boot
             IN /\ c \in Boots /\ registrations'[c][q] = participants'[q].generation
                /\ c \in connections'
  <2>1. CASE q = p
    BY <1>1, <1>2, <1>5, <1>7, <2>1
  <2>2. CASE q # p
    BY <1>1, <1>5, <1>7, <1>8, <2>2 DEF ConnectionInv
  <2> QED
    BY <2>1, <2>2
<1> QED
  BY <1>7, <1>8 DEF ConnectionInv

\* A connection closes: who was registered through it is about to be reported.
LEMMA ConnectionClosed ==
    ASSUME TypeOK, Queued, ConnectionInv, HandleConnectionClosed
    PROVE  ConnectionInv'
<1> DEFINE b == Head(batch).from
<1>1. /\ at.step = "handle" /\ Head(batch).type = "connection_closed"
      /\ connections' = connections \ {b} /\ UNCHANGED <<up, participants, registrations>>
  BY DEF HandleConnectionClosed, Handles, Steps, vars, engine
<1>2. b \in Boots
  BY <1>1, FirstEvent DEF Queued, WellFormed
<1>3. CASE registrations[b] = Unregistered
  <2>1. \A p \in Participants : participants[p].generation # 0 /\ registrations[b][p] = 0
    BY <1>3 DEF Unregistered, TypeOK, ParticipantRecord
  <2>2. up => \A p \in Participants : participants[p].registered => participants[p].worker_boot # b
    BY <2>1 DEF ConnectionInv
  <2> QED
    BY <1>1, <2>2 DEF ConnectionInv
<1>4. CASE registrations[b] # Unregistered
  <2>1. batch' = batch /\ at'.step = "lose"
    BY <1>4 DEF HandleConnectionClosed, At
  <2> QED
    BY <1>1, <2>1 DEF ConnectionInv
<1> QED
  BY <1>3, <1>4

\* The participants of a closed connection are reported one by one; whoever has registered again
\* meanwhile is so through another connection.
LEMMA ConnectionLoss ==
    ASSUME TypeOK, Queued, ConnectionInv, handle_connection_loss
    PROVE  ConnectionInv'
<1> DEFINE b == Head(batch).from
<1>0. PICK p \in Participants :
         /\ Steps("lose")
         /\ IF participants[p].worker_boot = b /\ participants[p].generation = registrations[b][p]
              THEN report_participant_failure(p, "unavailable")
              ELSE UNCHANGED vars
         /\ registrations' = [registrations EXCEPT ![b][p] = 0]
         /\ IF registrations'[b] = Unregistered THEN Handled(Pump) ELSE UNCHANGED loop
         /\ UNCHANGED <<up, connections>>
  BY DEF handle_connection_loss
<1>1. /\ up /\ up' /\ at.step = "lose" /\ connections' = connections
      /\ IF participants[p].worker_boot = b /\ participants[p].generation = registrations[b][p]
           THEN report_participant_failure(p, "unavailable")
           ELSE UNCHANGED vars
      /\ registrations' = [registrations EXCEPT ![b][p] = 0]
      /\ IF registrations'[b] = Unregistered THEN Handled(Pump) ELSE UNCHANGED loop
  BY <1>0 DEF Steps
<1>2. b \in Boots
  BY <1>1, FirstEvent DEF Queued, QueueInv, WellFormed
<1> HIDE DEF b
<1>3. registrations \in [Boots -> [Participants -> Nat]]
  BY DEF ConnectionInv
<1>4. /\ registrations' \in [Boots -> [Participants -> Nat]]
      /\ \A c \in Boots, q \in Participants :
            c # b \/ q # p => registrations'[c][q] = registrations[c][q]
  BY <1>1, <1>2, <1>3
<1>5. /\ \A q \in Participants : q # p => participants'[q] = participants[q]
      /\ \/ participants'[p] = participants[p]
            /\ ~(participants[p].worker_boot = b
                   /\ participants[p].generation = registrations[b][p])
         \/ ~participants'[p].registered
  <2>1. CASE participants[p].worker_boot = b /\ participants[p].generation = registrations[b][p]
    <3>1. PICK r \in ParticipantRecord : r = participants[p]
      BY DEF TypeOK
    <3>2. participants' = [participants EXCEPT ![p] =
              [r EXCEPT !.status = "unavailable", !.registered = FALSE]]
      BY <1>1, <2>1, <3>1 DEF report_participant_failure
    <3> QED
      BY <3>2 DEF TypeOK, ParticipantRecord
  <2>2. CASE ~(participants[p].worker_boot = b /\ participants[p].generation = registrations[b][p])
    <3>1. participants' = participants
      BY <1>1, <2>2 DEF vars, engine
    <3> QED
      BY <2>2, <3>1
  <2> QED
    BY <2>1, <2>2
<1>6. ASSUME NEW q \in Participants, participants'[q].registered
      PROVE  LET c == participants'[q].worker_boot
             IN /\ c \in Boots /\ registrations'[c][q] = participants'[q].generation
                /\ c \in connections' \/ (at'.step = "lose" /\ Head(batch').from = c)
  <2> DEFINE c == participants[q].worker_boot
  <2>1. participants'[q] = participants[q]
    BY <1>5, <1>6
  <2>2. /\ c \in Boots /\ registrations[c][q] = participants[q].generation
        /\ c \in connections \/ c = b
    BY <1>1, <1>6, <2>1 DEF ConnectionInv, b
  <2>3. c # b \/ q # p
    BY <1>5, <1>6, <2>2
  <2>4. registrations'[c][q] = participants[q].generation
    BY <1>4, <2>2, <2>3
  <2>5. CASE registrations'[b] = Unregistered
    <3>1. registrations'[b][q] = 0 /\ participants[q].generation # 0
      BY <2>5 DEF Unregistered, TypeOK, ParticipantRecord
    <3> QED
      BY <1>1, <2>1, <2>2, <2>4, <3>1
  <2>6. CASE registrations'[b] # Unregistered
    <3>1. UNCHANGED <<batch, at>>
      BY <1>1, <2>6 DEF loop
    <3> QED
      BY <1>1, <2>1, <2>2, <2>4, <3>1 DEF b
  <2> QED
    BY <2>5, <2>6
<1> QED
  BY <1>1, <1>4, <1>6 DEF ConnectionInv

\* Every step keeps registrations and connections in line.
LEMMA ConnectionStep ==
    ASSUME StateSound, Stored(disk), Queued, ConnectionInv, [CoordinatorNext]_coordinatorVars
    PROVE  ConnectionInv'
<1>1. CASE UNCHANGED coordinatorVars
  BY <1>1 DEF coordinatorVars, vars, engine, connectivity, loop, ConnectionInv
<1>2. CASE start
  <2>1. \A p \in Participants : ~participants'[p].registered
    BY <1>2, LoadKeeps DEF start, recover_state, StateSound
  <2> QED
    BY <1>2, <2>1 DEF start, connectivity, ConnectionInv
<1>3. CASE Crash
  <2>1. ~up' /\ registrations' = [b \in Boots |-> Unregistered]
    BY <1>3 DEF Crash
  <2>2. Unregistered \in [Participants -> Nat]
    BY DEF Unregistered
  <2> QED
    BY <2>1, <2>2 DEF ConnectionInv
<1>4. CASE HandleRegister
  BY <1>4, ConnectionRegister DEF StateSound
<1>5. CASE HandleDefine
  <2>1. \A p \in Participants : ~participants'[p].registered
    BY <1>5 DEF HandleDefine, define_ensemble, NewParticipant
  <2> QED
    BY <1>5, <2>1 DEF HandleDefine, connectivity, ConnectionInv
<1>6. CASE HandleConnectionClosed
  BY <1>6, ConnectionClosed DEF StateSound
<1>7. CASE handle_connection_loss
  BY <1>7, ConnectionLoss DEF StateSound
<1>8. CASE HandleRegisterRefused \/ HandleDefineRefused \/ HandleOpen \/ HandleOpenRefused
           \/ HandleCancel \/ HandleCancelRefused \/ HandleFinalize
  <2>1. UNCHANGED <<up, participants, registrations, connections>> /\ at.step = "handle"
    BY <1>8 DEF HandleRegisterRefused, HandleDefineRefused, HandleOpen, HandleOpenRefused,
                HandleCancel, HandleCancelRefused, HandleFinalize, Handles, Steps, open_execution,
                cancel_ensemble, vars, engine, connectivity
  <2> QED
    BY <2>1, ConnectionSame
<1>9. CASE HandleSubmission
  <2>1. participants' = participants
    BY <1>9 DEF HandleSubmission, Submitted, submit_candidate, submit_candidate_failure,
                submit_candidate_abstention, submit_evaluation, vars, engine
  <2>2. UNCHANGED <<up, registrations, connections>> /\ at.step = "handle"
    BY <1>9 DEF HandleSubmission, Steps, connectivity
  <2> QED
    BY <2>1, <2>2, ConnectionSame
<1>10. CASE PumpRound \/ PumpCancel \/ PumpNothing
  <2>1. UNCHANGED <<up, participants, registrations, connections>> /\ at.step = "pump"
    BY <1>10 DEF PumpRound, PumpCancel, PumpNothing, Steps, advance_open, advance_cancelled, vars,
                 engine, connectivity
  <2> QED
    BY <2>1, ConnectionSame
<1>11. CASE FlushStale \/ FlushUnsettled \/ FlushRefused \/ maybe_persist \/ FlushCheck
            \/ FlushPrepare
  <2>1. /\ UNCHANGED <<up, participants, registrations, connections>>
        /\ at.step \in {"flush", "prepare"}
    BY <1>11 DEF FlushStale, FlushUnsettled, FlushRefused, maybe_persist, FlushCheck, FlushPrepare,
                 FlushAnswered, AtWaiter, Steps, FinalizeCheck, FinalizePrepare, prepare_result,
                 vars, engine, connectivity
  <2> QED
    BY <2>1, ConnectionSame
<1>12. CASE FlushCommit
  <2>1. participants' = participants
    BY <1>12 DEF FlushCommit, FinalizeCommit, FinalizeReturn, CommitAccepted, engine
  <2>2. UNCHANGED <<up, registrations, connections>> /\ at.step = "commit"
    BY <1>12 DEF FlushCommit, FlushAnswered, Steps, connectivity
  <2> QED
    BY <2>1, <2>2, ConnectionSame
<1>13. CASE TakeEvents
  <2>1. UNCHANGED <<up, participants, registrations, connections>> /\ at.step = "wait"
    BY <1>13 DEF TakeEvents, vars, engine, connectivity, Waiting, At
  <2> QED
    BY <2>1, ConnectionSame
<1>14. ASSUME NEW b \in Boots, WorkerStep(b) \/ WorkerDies(b) PROVE ConnectionInv'
  <2>1. /\ UNCHANGED <<up, participants, registrations>> /\ connections \subseteq connections'
        /\ at.step = "wait"
    BY <1>14 DEF WorkerStep, WorkerDies, Connect, RegisterNext, Registered, GivesUp, Answers, Ends,
                 Acknowledged, Receives, Free, vars, engine, connectivity, Waiting, At
  <2> QED
    BY <2>1, ConnectionSame
<1>15. ASSUME NEW c \in Clients, NEW type, request(c, type) PROVE ConnectionInv'
  <2>1. UNCHANGED <<up, participants, registrations, connections>> /\ at.step = "wait"
    BY <1>15 DEF request, Free, vars, engine, connectivity, Waiting, At
  <2> QED
    BY <2>1, ConnectionSame
<1> QED
  BY <1>1, <1>2, <1>3, <1>4, <1>5, <1>6, <1>7, <1>8, <1>9, <1>10, <1>11, <1>12, <1>13, <1>14, <1>15
  DEF CoordinatorNext, event_loop, Handle

-----------------------------------------------------------------------------
(* The invariant of the deployment and what follows from it. *)

\* DeploymentInv, with the fact that the queue and the batch are sequences.
DeploymentQueued == DeploymentInv /\ Queued

\* The deployment starts with it.
LEMMA DeploymentInit == CoordinatorInit => DeploymentQueued
<1> SUFFICES ASSUME CoordinatorInit PROVE DeploymentQueued
  OBVIOUS
<1>1. /\ Init /\ up = FALSE /\ disk = Blank /\ at = Waiting /\ dirty = FALSE
      /\ queue = <<>> /\ batch = <<>> /\ worker = [b \in Boots |-> NewWorker]
      /\ registrations = [b \in Boots |-> Unregistered]
  BY DEF CoordinatorInit
<1>2. TypeOK /\ PreparedInv /\ PublishedIsDecision /\ EvidenceInv /\ SelectionInv
  BY <1>1, TypeInit, DecisionInit, EvidenceInit, SelectionInit
<1>3. Stored(disk)
  BY <1>1, BlankIsStored
<1>4. DurableInv /\ FinalInv
  BY <1>1 DEF DurableInv, FinalInv
<1>5. Queued
  <2>1. IsSeq(queue) /\ IsSeq(batch) /\ DOMAIN queue = {} /\ DOMAIN batch = {}
    BY <1>1, NoEvents
  <2>2. worker \in [Boots -> WorkerRecord] /\ \A b \in Boots : worker[b].phase = "new"
    BY <1>1 DEF NewWorker, WorkerRecord
  <2>3. at.step = "wait"
    BY <1>1 DEF Waiting, At
  <2>4. InOrder(queue, worker, connections) /\ InOrder(batch, worker, connections)
    BY <2>1 DEF InOrder
  <2>5. QueueInv
    BY <2>1, <2>2, <2>3, <2>4 DEF QueueInv, Alive
  <2> QED
    BY <2>1, <2>5 DEF Queued
<1>6. ConnectionInv
  BY <1>1 DEF ConnectionInv, Unregistered
<1> QED
  BY <1>2, <1>3, <1>4, <1>5, <1>6 DEF DeploymentQueued, DeploymentInv, Queued

\* Every step of the deployment keeps it.
LEMMA DeploymentStep ==
    DeploymentQueued /\ [CoordinatorNext]_coordinatorVars => DeploymentQueued'
<1> SUFFICES ASSUME DeploymentQueued, [CoordinatorNext]_coordinatorVars PROVE DeploymentQueued'
  OBVIOUS
<1>1. /\ StateSound /\ TypeOK /\ Stored(disk) /\ DurableInv /\ FinalInv /\ QueueInv /\ ConnectionInv
      /\ Queued /\ IsSeq(batch)
  BY DEF DeploymentQueued, DeploymentInv, StateSound, Queued
<1>2. StateSound' /\ Stored(disk)'
  BY <1>1, SoundStep
<1>3. DurableInv' /\ FinalInv' /\ Queued' /\ ConnectionInv'
  BY <1>1, DurableStep, FinalStep, QueueStep, ConnectionStep
<1> QED
  BY <1>2, <1>3 DEF DeploymentQueued, DeploymentInv, StateSound, Queued

\* It is an invariant.
LEMMA DeploymentInvariant == CoordinatorSpec => []DeploymentQueued
BY DeploymentInit, DeploymentStep, PTL DEF CoordinatorSpec

\* The engine and the file are sound and the queue and the connections tell the truth about the
\* workers, through any number of crashes, recoveries, dying workers and refused registrations,
\* for every ensemble, every number of workers and every number of clients (DeploymentInv).
THEOREM DeploymentIsSound == CoordinatorSpec => []DeploymentInv
<1>1. DeploymentQueued => DeploymentInv
  BY DEF DeploymentQueued
<1> QED
  BY <1>1, DeploymentInvariant, PTL

\* Nothing but evidence is lost by a crash while the event thread waits: the definition, the
\* execution, its cancellation and its result are in the file (maybe_persist, WaitingIsDurable).
THEOREM NothingButEvidenceIsLost == CoordinatorSpec => []WaitingIsDurable
<1>1. DeploymentInv => WaitingIsDurable
  BY DEF DeploymentInv, DurableInv, Saved, WaitingIsDurable
<1> QED
  BY <1>1, DeploymentIsSound, PTL

\* Whoever the runtime counts as registered has an open connection that holds its generation and
\* will report its loss (handle_connection_loss, RegisteredIsConnected).
THEOREM RegistrationsAreConnected == CoordinatorSpec => []RegisteredIsConnected
<1>1. DeploymentInv => RegisteredIsConnected
  BY DEF DeploymentInv, ConnectionInv, RegisteredIsConnected
<1> QED
  BY <1>1, DeploymentIsSound, PTL

\* The file only changes by a save, and the engine that saves has not fallen behind it.
LEMMA FinalFile ==
    DeploymentQueued /\ [CoordinatorNext]_coordinatorVars =>
        [disk.result # NoResult \/ disk.cancellation_requested
           => \/ /\ disk'.result = disk.result
                 /\ disk'.cancellation_requested = disk.cancellation_requested
              \/ Log!Precedes(KeyOf(disk), KeyOf(disk'))]_disk
<1> SUFFICES ASSUME DeploymentQueued, [CoordinatorNext]_coordinatorVars, disk' # disk,
                    disk.result # NoResult \/ disk.cancellation_requested
             PROVE  \/ /\ disk'.result = disk.result
                       /\ disk'.cancellation_requested = disk.cancellation_requested
                    \/ Log!Precedes(KeyOf(disk), KeyOf(disk'))
  OBVIOUS
<1>1. maybe_persist
  BY SaveSteps DEF start, Crash, Kept, Marked, durable
<1>2. up /\ disk' = serialize_state
  BY <1>1 DEF maybe_persist, Steps
<1>3. /\ disk'.result = result /\ disk'.cancellation_requested = cancellation_requested
      /\ KeyOf(disk') = Key
  BY <1>2 DEF serialize_state, KeyOf, Key
<1> QED
  BY <1>2, <1>3 DEF DeploymentQueued, DeploymentInv, FinalInv

\* A result or a cancellation that has reached the state file stays in it until a later execution
\* takes its place, whatever crashes and recoveries follow (recover_state, DurableIsFinal).
THEOREM WhatIsSavedIsFinal == CoordinatorSpec => DurableIsFinal
BY DeploymentInvariant, FinalFile, PTL DEF CoordinatorSpec, DurableIsFinal

\* The properties of the engine about its evidence survive crashes and recoveries, which bring
\* back evidence without what was planned or in flight (recover_state, invalidate_dynamic_authority).
THEOREM EvidenceSurvives ==
    CoordinatorSpec => [](/\ NoOrphanedDispatch /\ InFlightHasNoEvidence /\ EvidenceIntegrity
                          /\ StageBarrier /\ SequentialDiscipline /\ FallbackReplacesPrimaries)
<1>1. DeploymentInv => EvidenceInv
  BY DEF DeploymentInv
<1> QED
  BY <1>1, DeploymentIsSound, HeldDispatches, NoInheritedVotes, SoundVotes, OrderedStages,
     SequentialStages, ExclusiveFallback, PTL

\* So does the match of the committed result with the candidate held as selected: a recovered
\* result still is a decision and names the candidate that was recovered with it
\* (recover_state, SelectionMatchesResult, PublishedIsDecision).
THEOREM RecoveredResultsMatch == CoordinatorSpec => [](SelectionMatchesResult /\ PublishedIsDecision)
<1>1. DeploymentInv => SelectionInv /\ PublishedIsDecision
  BY DEF DeploymentInv
<1> QED
  BY <1>1, DeploymentIsSound, SelectedResult, PTL
=============================================================================
