# A TLA+ model of the Ensemble Fabric runtime

Ensemble Fabric (`README.md`, `ARCHITECTURE.md` of the repository) runs one task on several
participants, collects their candidates, lets judges and verifiers evaluate them, and commits
exactly one authoritative result per execution.  The heart of the program is
`EnsembleFabric` (`src/fabric*.cpp`), a state machine behind one mutex that workers, callers
and a coordinator call concurrently, late, repeatedly, and across restarts.  Around it stand a
coordinator process with a state file, worker and client processes, and the codec and transport
that connect them.  This directory models all of these, checks them with TLC on small instances,
and proves with TLAPS, for every ensemble and every deployment, the promises of the commit gate,
the discipline of planner and evidence through every pass of `advance`, that a second `advance`
adds nothing to a first, what arbitration selects, what the coordinator keeps across crashes, and
what a connection delivers.

Paths below are relative to the repository.

## 1. Inventory

| Component | State it keeps | Operations | What makes it correct |
|---|---|---|---|
| Quorum report, `src/quorum.cpp` | none (pure) | `compute_quorum` | a repeated vote changes nothing; a vote never takes a reached quorum away |
| Consensus report, `src/consensus.cpp` | none (pure) | `compute_consensus` | terminal conditions before votes; the threshold decides |
| Arbitration, `src/arbitration.cpp` | none (pure) | `check_eligibility`, `arbitrate` | selects what the factors, taken one after the other, leave |
| Definition, `src/fabric.cpp` | ensemble generation, superseded flag, history | `define_ensemble`, `supersede_ensemble` | an older generation never publishes again |
| Participants, `src/fabric_participant.cpp` | generation, status, incarnation and epoch of every participant | `register_participant`, `report_participant_failure`, `invalidate_dynamic_authority` | authority belongs to one incarnation; retries stay within their budget |
| Planner, `src/fabric_execution.cpp` | candidates, pending evaluations, stage and fallback bookkeeping | `open_execution`, `advance`, `is_settled` | stages in order, idempotent, an execution settles |
| Ingest, `src/fabric_ingest.cpp` | payloads, evaluations | `submit_candidate`, `submit_candidate_failure`, `submit_candidate_abstention`, `submit_evaluation` | nothing stale is admitted and nothing counts twice |
| Commit gate, `src/fabric_commit.cpp` | status, result, cancellation flag | `prepare_result`, `commit_result`, `finalize`, `cancel_ensemble` | one result per execution, never together with a cancellation |
| Restart and durable state, `src/fabric_persist.cpp`, `src/persistence.cpp` | epoch, state file | `restart`, `save_state`, `recover_state` | recovered authority is never current; what is saved is read back and is final |
| Coordinator, `src/distributed/coordinator.cpp` | connections, event queue, parked finalize requests, dirty flag | frame handlers, `pump`, `flush_pending_finalize`, `maybe_persist` | authority follows connections; every change is saved; every parked request is answered |
| Worker and client, `src/distributed/` | one channel, epoch of the handshake | `connect_and_register`, `handle_frame`, `request` | answers under the authority it was asked with |
| Protocol codec, `src/protocol.cpp` | none | 26 `encode`/`decode_*` pairs, `encode_frame`, `decode_frame` | reader and writer agree; nothing partial is accepted |
| Transport, `src/transport.cpp` | socket, write mutex, inbound buffer | `send`, `receive`, `close` | frames arrive whole, in order, and none that was sent is refused |
| Driver, backend, inspection, tools | none of their own | callers and readers of the above | |

How they interact.  Callers and the coordinator call the engine; `advance` returns actions that
the coordinator sends to workers, whose answers come back as submissions.  There are no
callbacks.  A public method holds the mutex from start to end, with two exceptions:
`finalize` takes it three times (check, prepare, commit) and `restart` twice (invalidate,
advance the epoch).  The two-phase API (`prepare_result`, later `commit_result`) lets a caller
keep a prepared result for as long as it likes.  In the deployment one event thread makes all
calls: it takes the queued events as a batch, handles them, answers the parked finalize requests
and then saves the state, in this order.

What is hard here: every gap between two critical sections; results prepared in one state and
committed in another; answers of replaced or dead workers, repeated answers and answers to
plans that were made again; retries that race failure reports; a crash between an answer and the
save that follows it; a connection that closes while its worker's messages are queued; writers
and readers kept in step by hand; and the question whether an execution ever settles.
`PROJECT.json` lists these hazards with the line where each bites and the properties that watch
it.

## 2. Modules

```
EnsembleQuorum   Consensus   Arbitration        pure reports
        \            |           /
               Decision                         what consensus and arbitration authorize
                   |
               Execution                        records, authority, retries, compute_reports
                   |
                Advance                         the planner, pass by pass
                   |
                Fabric  ---- ResultLog          the runtime, and what its gate promises
              /    |     \
   Coordinator  Evidence  FabricProofs          the deployment / inductive invariants / the gate
          |     /     |
       Recovery    Claims                       ... of the deployment / refuted sentences
             \     /    \
   DeploymentClaims   MCFabric                  ... of the deployment / ensembles for TLC
              \       /
             MCCoordinator                      deployments for TLC

DecisionProofs       extends Decision                       the pure reports
AdvanceProofs        extends Evidence, DecisionProofs       one call of advance
EvidenceProofs       extends AdvanceProofs, FabricProofs    every step of the engine
PlannerProofs        extends EvidenceProofs                 two calls of advance
CoordinatorProofs    extends Recovery, EvidenceProofs       every step of the deployment

Codec -- Messages -- StateRecords -- DurableState      layouts of messages and records
StateFile                                              header and checksums of the state file
MCCodec                                                extends DurableState and StateFile
Channel                                                frames over a byte stream
ChannelProofs        extends Channel                   every step of a connection, and StateFile
MCReports            extends EnsembleQuorum, Arbitration; ReportProofs extends DecisionProofs too
```

* **EnsembleQuorum, Consensus, Arbitration, Decision** are operators named after the functions
  they translate.  Notes, rendering and member lists are left out.  A score is an exact ratio
  instead of a double; weights and scores are therefore small integers.
* **Execution** holds the records.  A candidate, an evaluation and a pending evaluation are
  records with the fields of `CandidateRecord`, `EvaluationRecord`, `PendingEvaluation` that
  some decision reads.  Participants, stages and candidates are numbered by position, which is
  the order of their identities in the code.  A worker and its boot are one number, 0 for none;
  a payload is a number, 0 for an empty or too small one.
* **Advance** is `advance`.  Its loop of passes is modelled pass by pass, because every pass
  stores reports that the next pass reads (`judge_disagreement` looks at the stored consensus).
  The bound of 64 passes is a recursive function.
* **Fabric** has one action per public method that changes state, and one per critical section
  of `finalize` and `restart`.  A call that the code rejects changes nothing but counters, so it
  is a disabled action.  `dispatches` and `requests` remember every action ever sent: a worker
  may answer any of them, any number of times, at any later time, which covers lost, duplicated,
  delayed and reordered messages.  `calls` holds what every caller has prepared.  Two history
  variables, `acknowledged` and `cancelled`, record what `commit_result` has returned and what
  `cancel_ensemble` has cancelled.
* **ResultLog** is the abstract specification: executions in order, each decided at most once,
  by a result or by a cancellation.  `Fabric` implements it with `current <- <<generation,
  execution>>`.
* **Evidence** gives the records of an execution their types and states the inductive invariants
  of the engine: `EvidenceInv` (with `WorkInv`, a predicate of the evidence alone, so that it can
  be followed through the passes of `advance`), `DispatchInv` and `SelectionInv`.
* **Coordinator** composes the runtime with the process around it.  It extends `Fabric` and uses
  its actions as they are: a handler is the engine's operation together with what the handler
  does to connections, parked requests, the dirty flag and the answer.  `at` is the position of
  the event thread (wait, handle, lose, pump, flush, prepare, commit) and `batch` the events it
  has taken.  A crash clears everything but `disk`; `start` recovers from it.  Workers register
  their bindings one after the other, answer what they are sent or die; a backend that fails to
  evaluate is silent, as in `worker.cpp:269`.
* **Recovery** states the inductive invariant of the deployment, `DeploymentInv`: which states may
  be in the file (`Stored`), how the file and the engine are related (`DurableInv`, `FinalInv`),
  and what queue and connections say about the workers (`QueueInv`, `ConnectionInv`).
* **Codec, Messages, StateRecords, DurableState** describe every record twice: the layout its
  `encode`/`put` function writes, with the longest values the program can produce, and the layout
  its `decode`/`get` function reads, with the bounds and ranges it enforces.  Each was taken from
  its own function; nothing makes them agree but the code.  `Codec` gives layouts their meaning
  as writers and as readers over bytes that carry the name of their field, so that a reader out
  of step with its writer is caught by any field it misreads.
* **StateFile** is the header, checksum, digest and record count around the state.  A checksum is
  a function of exactly the words it covers, without collisions.  `Sealed` says what the file
  promises of a payload; the run `codec` asks it of the encoded state.
* **Channel** is `FrameChannel`: several sending threads, writes and reads in pieces, sends that
  fail halfway, and `close`, over a stream of header and payload words.
* **Claims, DeploymentClaims** state sentences of the documentation and comments that the code
  does not keep.

What the model fixes.  There is one ensemble (ensembles share nothing but the epoch and identity
counters) and its specification is the same in every generation.  Registrations are compatible
and ask for the declared roles.  The branch of `advance` for a superseded ensemble with an open
execution (`fabric_execution.cpp:343`) is not modelled: `supersede_ensemble` closes the
execution in the same critical section and `open_execution` refuses a superseded ensemble, so
it is unreachable; `advance_open` has the negation as a guard.  `current_result`, `inspect` and
the counters only read or only count.

Reductions in `Coordinator`.  Workers and clients act while the event thread waits: what they do
appends to the queue, which the thread reads only when it takes the next batch, so such a step
commutes with the steps of a batch.  A crash falls while the thread waits or while it answers
parked requests: before the answers nothing of a batch has left the process but frames whose
receivers lose their connection anyway.  The handshake is one step, since nothing else reads or
changes what it sets.  A worker dies, and the coordinator crashes, only while another process can
still be started for the same bindings; with nobody left to start, no answer can be promised.
`max_connections` is never reached, and a save never fails.

Assumptions about configurations.  The wire decoders bound lengths by literals and the writers by
configurable limits; `WireAssumption` says the literals allow for the limits, as they do for the
defaults, and `SnapshotsAssumption` relates two pairs of limits that bound a writer and its
reader.  `Limits::validate` checks neither.  `Unchecked` is the longest value of a field that
nothing bounds before it is written; with `Unchecked = 1` it stays below every reader's bound,
and with 3 it does not, which is what `claim_recoverable` is about.

## 3. Runs

All configurations say `CHECK_DEADLOCK FALSE`: a runtime whose executions are decided, and whose
callers ask for nothing more, may stop, and so may a record that has been written and a channel
whose threads have sent what they had.

| Run | What varies | What it shows |
|---|---|---|
| `reports` | 10 policies, up to 3 votes of 3 members; up to 3 candidates of 17 kinds, 3 factor lists, 4 tie-breaks | `DuplicateVotesAreInert`, `VotingKeepsQuorum`; `ArbitrationMatchesReference`: the sort and the tie-break agree with filtering factor by factor while at most two tie |
| `commit_gate` | 2 callers, 2 payloads, 2 ensemble generations | `TypeOK`, `GateInv`, `ExactlyOnce`, `CancelExcludesCommit`, `ImplementsResultLog` |
| `restart` | 1 caller, 2 executions, 2 epochs, 2 participant generations | `PublishedIsDecision`, `PreparedInv` |
| `authority` | a producer and a judge, 2 incarnations, 2 epochs, 2 attempts with replacement | `AttemptBudget`, `NoOrphanedDispatch`, `InFlightHasNoEvidence`, and the inductive `EvidenceInv` and `DispatchInv` |
| `staged` | sequential stage, parallel stage, fallback; failures, abstentions, invalid output | `SequentialDiscipline`, `StageBarrier`, `AdvanceIdempotent`, `FallbackReplacesPrimaries`, and `Settles` under fairness |
| `judged` | a producer, a judge and a fallback, 1 caller, 2 payloads | `SelectionMatchesResult`, `EvidenceIntegrity`, the inductive `SelectionInv`, `FallbackIsAuthorized`, and `SettlesUnlessAskedAgain` under fairness |
| `codec` | 26 messages and 22 records, variable parts of 0 to 3 elements, lowest and highest enumerators, optional parts present and absent | `RoundTrip`, `NoPartialObject`, `StateFileSealed` |
| `channel` | 2 sending threads, an empty frame, the largest one and one too large, pieces of any size | `DeliveredIntact`, `NoFalseRefusal`, and `Delivery` under fairness |
| `coordinator` | a producer and a verifier served by 2 worker incarnations, 2 clients, dying workers, 1 crash | `RegisteredIsConnected`, `WaitingIsDurable`, `DurableIsFinal`, the inductive `DeploymentInv`, and `AnsweredUnlessStranded` under fairness |

Bounds.  Two of everything that can become stale (ensemble generations, executions, epochs,
participant generations, incarnations, callers, payloads) are enough for one of them to be stale
while the other is current, which is all the guards tell apart.  `MaxCandidateGeneration` is
needed because a repeated failure report on a candidate that is declared and not yet dispatched
advances its generation without using an attempt (`fabric_participant.cpp:98`); 3 lets a
candidate be rewound once more than the attempts of the specification account for.
`MaxRetainedResults` is 1 so that the history drops an entry.  In `coordinator`, one crash gives
two lives of the process on one file, and the second incarnation of the worker registers before,
while or after the loss of the first is reported; one execution is enough, because `disk` then
either has it or does not.  In `codec`, limits are 1 to 3 and differ where the code's do, and
lengths reach the largest of them, cut to the bound of the field where that is smaller.  In `channel`,
`max_frame_bytes` admits 9 header words and 2 of payload, so that a payload of 3 is one too many,
and one read may fetch more than a frame.

Stored reports.  Every call stores the reports it computes, and the conditions of the fallback and
`judge_disagreement` inside `compute_reports` read what is stored.  `FallbackIsAuthorized` asks, at
the step that activates the fallback, whether one of its conditions holds of reports computed from
the votes alone.  In `judged` the stored consensus has become `fallback_required` by the end of that
very call, so the two really differ, and votes arrive between the call that stored a report and the
next one.

Fairness.  `FairSpec` of `Fabric` assumes what a deployment provides: the coordinator calls
`advance` after every message (`coordinator.cpp`, `pump`), every declared participant is started,
and a worker that is alive answers what it is asked (`worker.cpp`, `handle_frame`).  A worker that
fails is reported by the coordinator when its connection closes; that report is not assumed to be
fair, because `WF` of the answer is void once the worker has lost its authority, and the retry and
failure rules have to take over.  Nothing is assumed of callers, cancellation, definition or
restarts.  `PumpFairness` is `WF_vars(advance_open)` with the enabling condition written out.
`CoordinatorFairness` assumes less of the engine, because the pump is now modelled: the event
thread runs while it has something to do, the operator starts a coordinator that is down and every
worker once, and a worker reads what it is sent; a verifier may read a request and say nothing.
`Fairness` of `Channel` lets a thread that is inside `send` run on and the reader thread keep
calling `receive`.

Two liveness properties carry an exception, and the exceptions are facts about the code.
`SettlesUnlessAskedAgain`: activating a fallback clears `planning_complete`
(`fabric_execution.cpp:675`), so evaluations that were answered are requested again, their answers
are refused as duplicates (`fabric_ingest.cpp:405`), and the plan stays open; without that, every
execution settles.  `AnsweredUnlessStranded`: an emitted plan is never abandoned while its
evaluator is capable (`fabric_execution.cpp:600`), so a request to an incarnation that was replaced
since, or to a backend that failed to evaluate, keeps the execution unsettled and the finalize
request parked; nothing else does.

### Sentences the code does not keep

Three runs end in a counterexample; the findings of `PROJECT.json` quote the sentence.

| Run | Sentence | What happens |
|---|---|---|
| `claim_crash` | at most one result per execution | the answer is sent before the save; after a crash in between the recovered coordinator decides an execution of the same identity again |
| `claim_routing` | a worker acts on work dispatched under its own boot and generation | after a redefinition a dispatch may go to the connection of the incarnation that held the participant before |
| `claim_recoverable` | committed results survive recovery | the readers bound what `validate_spec` does not; the saved file is refused as a whole |

Six more sentences fail in the same way and have no run of their own.  To see the counterexample,
add the definition to the configuration named here.

| Definition | Add to | Sentence | What happens |
|---|---|---|---|
| `LateOutputFenced` | `MCCommitGate.cfg`, PROPERTY | late output of a cancelled participant cannot mutate state (`README.md:165`) | accepted until the next `advance` |
| `SettledIsFinal` | `MCJudged.cfg`, INVARIANT | settled means no further action (`fabric.hpp:212`) | the next `advance` may activate the fallback |
| `RestartRevalidates` | `MCRestart.cfg`, INVARIANT | every in-flight execution needs revalidation after a restart (`README.md:181`) | one opened between the two critical sections does not |
| `Settles` | `MCJudged.cfg`, PROPERTY | an execution with nothing left to do is settled (`fabric.hpp:212`) | see `SettlesUnlessAskedAgain` |
| `TieBreakSeesEveryTie` | `MCReports.cfg`, INVARIANT | equal aggregate scores were compared (`arbitration.cpp:436`) | only the first two of the tied candidates are |
| `FinalizeAnswered` | `MCCoordinator.cfg`, PROPERTY | a parked request needs no timeout (`coordinator.cpp`, `finalize_request`) | see `AnsweredUnlessStranded` |

Four more sentences read differently from the code, and the documents leave open which reading is
meant: `prepare_result` and `commit_result` do not ask
whether the execution has settled (`fabric.hpp:213`); equal leaders below a configured threshold
are a TIE, which the default tie-break commits (`README.md:149`); a judge counts once per criterion
in the tallies that consensus compares with the threshold (`ARCHITECTURE.md:96`); and an impossible
quorum becomes possible when a registration enlarges the denominator (`quorum.cpp:221`).

Two observations that no property states: the epoch a recovery advances is durable only at the
next save, so two starts in a row from one file use the same epoch (the connections and boots of
the first are gone, and nothing compares epochs across starts); and submissions do not mark the
state dirty, so evidence that arrived after the last save is lost in a crash (recovery asks for
new evidence in any case, and `WaitingIsDurable` leaves it out).

## 4. Proofs

TLAPS proves, for every specification that `validate_spec` accepts, every set of callers,
workers, clients and payloads, and every bound, that every invariant and step property named
below, up to *Only model-checked*, holds in every behaviour.  The bounds only appear as guards
that could be dropped: no proof counts up to one.

### The commit gate (`FabricProofs`)

* `TypeCorrect`: the state of the engine and the calls under way keep their types.
* `GateCorrect`, `CommitGate`, `CancellationIsFinal`: `GateInv`, `ExactlyOnce`,
  `CancelExcludesCommit`.  The last two are not inductive: a step that stores a result must know
  that nothing was returned for this execution before.  `GateInv` supplies it: a returned result
  belongs to an execution that precedes the current one in the order of
  `<<generation, execution>>`, or is the stored one; a cancelled execution precedes the current
  one, or is the current one, still marked and without a result.
* `RefinesResultLog`: `Spec => ImplementsResultLog`, step by step from `GateInv`.  Only
  `define_ensemble`, `open_execution`, `cancel_ensemble` and a commit are visible in the log.
* `EchoesAreRefused`, `PublishedIsDecisionHolds`: `PreparedInv` and `PublishedIsDecision`.  A
  prepared result may be an echo of a cancellation, a supersession or a revalidation
  (`TerminalConsensus`, `TerminalDecision`).  As long as such an echo names the current execution,
  the flag or status that makes `commit_result` refuse it stands: `revalidation_required` gives
  way only to a cancellation, and an execution that has left `open` never opens again.

The step lemmas are about `EngineNext`, which is weaker than `Next`: its submissions come from any
incarnation with any content, not only from workers that were sent something.

### Planner and evidence (`AdvanceProofs`, `EvidenceProofs`)

`AdvanceKeeps` is the lemma everything else rests on: from evidence that satisfies `WorkInv`, one
call of `advance` ends, after any number of passes and in any of its exits, in evidence that
satisfies `WorkInv` again, whose dispatches are held by registered incarnations, and in which
every candidate is one it started with (unchanged, resolved, refreshed, or dispatched with one more
attempt) or a fresh one (`Planned`).  `Planned` is transitive, so it is shown for declaring a
member, for a stage, for a step of the stage loop, for planning and emitting evaluations, for the
fallback and for a pass, and composed.  The loops are functions over an interval; what holds of
every iteration follows by taking the least iteration where it fails (`LeastNatural`,
`SetInduction`), which stands in for the induction theorems the provers cannot instantiate.

`WorkInv` has five parts besides the types.  `StagesKept`: nobody is in flight in a stage the
planner has left, and a candidate belongs to a member of its stage; `FallbackKept`: the fallback
starts behind the last stage and, under `all_primary_invalid`, beside no primary with content;
`SequenceKept`; `VotesKept`: what is planned or given is about candidates that are not in flight,
which is why a rewound slot, whose generation advances, takes no votes with it; `BudgetKept`: a
slot that is still waiting has an attempt left, which makes the bound on attempts inductive.
`EvidenceInv` adds `DispatchesHeld` for open executions: a registration, a failure report or a
restart that takes authority away fences, in the same critical section, what was held under it.

* `EvidenceSound`: `EvidenceInv`; from it `DispatchesAreHeld` (`NoOrphanedDispatch`),
  `RetriesInheritNothing` (`InFlightHasNoEvidence`), `VotesAreSound` (`EvidenceIntegrity`),
  `StagesAreOrdered` (`StageBarrier`), `SequencesAreSequential` (`SequentialDiscipline`) and
  `FallbackIsExclusive` (`FallbackReplacesPrimaries`).
* `AttemptsAreBounded`: `AttemptBudget`, from `DispatchInv`.  `attempts_used` is a counter in the
  evidence, the budget is about messages; `DispatchInv` counts them: the messages sent for a slot
  have different generations, all at most the current one, and below it while the slot waits.
* `SelectionIsResult`: `SelectionMatchesResult`, from `SelectionInv`: whatever a caller prepared
  for the undecided execution still names a candidate with the generation, participant and
  payload it was arbitrated with, since content never changes and is never taken back before the
  commit.
* `DispatchesAreCounted`, `PreparedContentStands`: `DispatchInv` and `SelectionInv` themselves.
* `AnyAuthority`: all of these hold under `EngineNext`.  The engine relies on its own checks, not
  on workers that answer only what they were asked.

### Calling the planner twice (`PlannerProofs`)

`AdvanceRepeatable`: `AdvanceIdempotent`, the sentence of `fabric.hpp` that a second call of
`advance` without a change of state in between returns no action.  `AdvanceTwice` is the stronger
statement about `advance` itself: from any evidence the invariants allow, the second call leaves
everything alone but the stored reports and the count of planning rounds (`SameCore`).

`AdvanceKeeps` cannot give this: it says what a call may do, not that it has done everything it
could.  `Quiet` says when nothing is left: the current stage waits or every stage is done
(`Stuck`, `Waits`), a scan of it sends, fails and refreshes nobody (`Spent`), every planned evaluation is
where emission leaves it, and no fallback would be activated (`Activates`).  `PassEnds` shows that
a pass from any evidence leads to `Quiet`, to evidence one scan short of it (`Near`), or to a fallback
that has just been activated:
a pass ends behind stages that are stuck (`StageLoopEnds`), one that plans also emits
(`EvaluationEnds`), and one that activates the fallback is followed by one that declares its members.
A fallback fires at most once per call, since it clears `planning_complete` and sets
`fallback_activated`, so three passes always suffice and the bound of 64 passes in `advance` never cuts
a call short.  `QuietCore` is the other half: a pass from `Quiet` evidence changes nothing of the
core.  The trigger of the fallback may look at the consensus report that the pass has just stored;
`ActivationAgrees` shows that reports stored a pass earlier give the same answer.

One thing the proof brought to light and `SameCore` leaves out: with evaluators but no criterion
they could apply (verifiers without mandatory criteria), planning produces nothing for a candidate, finds it
unevaluated in the next pass and plans again (`fabric_execution.cpp:510` to 533), so such a call
makes all its passes and counts a planning round in each.  No action and no decision depends on it.

### The deployment (`CoordinatorProofs`)

`DeploymentIsSound`: `CoordinatorSpec => []DeploymentInv`.  A step of the coordinator is a step of
the engine (`EngineSteps`), a step of the file, or a step of queue and connections, so the engine's
step lemmas are used as they are.  A recovery is the only step that replaces the state of the
engine; it needs `Stored(disk)`, and a save establishes it (`SerializedIsStored`) because what is
saved is what `StateSound` says of the engine.

* `NothingButEvidenceIsLost` (`WaitingIsDurable`), from `DurableInv`: whatever is not marked dirty
  is in the file.
* `WhatIsSavedIsFinal` (`DurableIsFinal`), from `FinalInv`: the engine is at the execution of the
  file with the decision the file holds, or later.
* `RegistrationsAreConnected` (`RegisteredIsConnected`), from `ConnectionInv` and `QueueInv`: no
  event of a connection follows its `connection_closed`, so a registration cannot be handled
  after the loss that would revoke it.
* `EvidenceSurvives`, `RecoveredResultsMatch`: the properties of the engine hold across crashes.
  `ExactlyOnce` is not among them; `claim_crash` shows why.

### The connection (`ChannelProofs`)

* `StreamIsFaithful`: `ChannelInv`.  Frame `k` of those that went out occupies the words behind
  `start[k]`; the stream, buffer and socket together, begins at the first frame that is not
  delivered.  Up to a position `e` every word is the one its frame has there (`OnPlan`).  While
  nothing is cut, `e` is the end of the last frame and what the holder of the mutex has left
  (`Rest`) completes it, or the channel is closed.  After a cut, `e` lies inside the frame that was
  cut, and what comes behind it is the first word of a frame (`Fits`).
* Two lemmas about the codec carry it.  `DecodesFrame`: the encoding of an admissible frame is
  awaited until it is there and then accepted.  `CompleteIsFrame`: what is accepted is the whole
  encoding of some frame that was sent, because its checksum was computed over exactly these words
  (a checksum is a function without collisions in the model).  `AtTheCut` follows: behind
  a torn frame nothing is accepted, since the frame found there would have the length of the torn
  one and would have to contain the first word of the next.
* `FramesArriveIntact` (`DeliveredIntact`) and `RefusalsAreJustified` (`NoFalseRefusal`) are
  consequences, for any number of threads, frames and sizes and for any pieces.

### The state file (`ChannelProofs`)

`StateFileIsSealed`: `Sealed` for every payload within the limits and for any damaging words.  A word of the
header that changes contradicts the checksum of the header, the checksum of the header contradicts
the header, a word of the payload contradicts the checksum of the payload, and a file that was
cut or extended contradicts the length in its header, which the cut or extension did not reach.
It is the other container of words with a checksum, hence its place beside the frames.

### Reports (`DecisionProofs`, `ReportProofs`)

* `DuplicateVoteIsInert`: for every policy, membership and sequence of votes, a vote whose key
  occurred before leaves the whole quorum report unchanged.
* `VoteNeverUndoesQuorum`: for every policy, finite membership and sequence of votes, a vote that
  is not an abstention leaves a reached quorum reached: it adds nobody but its voter to the
  denominator, and nobody to the abstentions.
* `DuplicatesStayInert`, `QuorumSurvivesVotes`: the properties of the run `reports`, for any number
  of votes.
* `SelectedIsUnpreceded`: whatever the field, the factors and the tie-break policy, what `arbitrate`
  selects is eligible and no eligible candidate precedes it.  Every factor orders the candidates
  weakly (`FactorOrders`, from the order of fractions), so the comparator handed to `std::sort`,
  factor by factor and then by identity, is a strict total order (`RanksAsymmetric`, `RanksTotal`,
  `RanksTransitive`), as `std::sort` requires, and the front of the sorted field is ahead of everybody
  else (`FrontLeads`).
* `ArbitrationIsReference`: `arbitrate` against the reference of `MCReports`, for every field.
  Filtering by one factor after the other leaves those that tie with the front on all of them
  (`FilterKeepsTies`, `SurvivorsAre`, by induction over the list of factors); a second survivor is
  then the front of the rest, so that comparing the first two of the sorted field finds every tie at
  the top, and the tie-break between two is the one the policy names.  With three or more it need
  not be, which `TieBreakSeesEveryTie` shows.  `ArbitrationStaysReference` is
  `ArbitrationMatchesReference` for any number of candidates.

### Assumptions

`BoundsAssumption` (bounds are positive numbers), `BootsAssumption` (incarnations are positive),
`SpecAssumption`, `StagesAssumption` and `RetryAssumption` (rules of `validate_spec`: stages and
fallback name declared participants, an enabled fallback has members and a positive number as its
depth, at least one attempt) and `DeploymentAssumption` (every worker is started for some
declared participants); for the channel `ChannelAssumption` (limits are numbers, a piece is at least
a word) and `SendersAssumption` (no thread is called none).  TLC evaluates them on every run of
`MCFabric`, `MCCoordinator` and `Channel`.

### Only model-checked

* `Settles`, `SettlesUnlessAskedAgain`, `Delivery`, `AnsweredUnlessStranded`: the prover has no
  fairness.
* `FallbackIsAuthorized`: the condition that activates the fallback is asked inside a call, and the
  property asks it of what the whole call leaves; a proof would have to follow it through the passes
  after the activation.
* `RoundTrip` and `NoPartialObject`: layouts are nested and interpreted by recursive operators,
  which this prover does not reason about.  `StateFileSealed` stands in a module that reaches these
  operators; what it says of the file is proved as `StateFileIsSealed`.

## 5. Not modelled

* Opening, binding and accepting sockets, argument parsing, the CUDA proof: input and output.
* Inspection, rendering, counters, error texts: they change no state a decision reads.
* `local_driver.cpp` and `reference_backend.cpp`: a sequential caller of the public API and
  scripted answers for it; `Fabric` allows every order of calls and every answer.
* The candidate lifecycle table of `candidate.cpp` (`is_legal_transition`), which the engine does
  not call; the actions assign states as the handlers do.
* The fingerprint of a specification and the rules of `validate_spec` that no index relies on.
* The bits of CRC-32C and SHA-256: a checksum is an injective function of what it covers.
* A save that fails, a full connection table, the exhaustion of 64-bit identities.
* The refusal to write a record or a state beyond `max_persistence_bytes` (`Encoder::require_capacity`,
  `write_state_file`); `StateFileIsSealed` is about payloads within the bound.
* `duplicate_votes_suppressed` of the quorum report, which no decision reads.

## 6. What is left

1. Runs on the hazards that have no property: a fallback beside an unregistered judge, the
   candidate bound, `cancel_on_required_failure`, and a save that fails.
2. A proof of `FallbackIsAuthorized`.
3. The round trip of the codec for every instance of the limits, which needs layouts of a fixed
   depth instead of recursive operators.
