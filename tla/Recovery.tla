------------------------------ MODULE Recovery ------------------------------
(***************************************************************************)
(* What the coordinator keeps true of its state file, its connections and  *)
(* its event queue: the inductive invariants behind the properties of      *)
(* Coordinator.                                                            *)
(***************************************************************************)
EXTENDS Coordinator, Evidence

\* The state d, in memory or in the file, is one the engine can continue from: it has its types,
\* its evidence is sound, and a result, if it has one, is a decision about its execution that
\* names the candidate it selected.
Stored(d) ==
    /\ d.epoch \in Nat /\ d.generation \in Nat /\ d.superseded \in BOOLEAN
    /\ d.participants \in [Participants -> ParticipantRecord]
    /\ d.execution \in Nat /\ d.status \in Statuses /\ d.execution_epoch \in Nat
    /\ d.cancellation_requested \in BOOLEAN /\ IsResult(d.result)
    /\ d.status = "superseded" => d.superseded
    /\ d.status = "cancelled" => d.cancellation_requested
    /\ d.result # NoResult =>
          /\ d.result.decision \in {"committed", "no_eligible_candidate", "failed",
                                    "fallback_required"}
          /\ d.status = status_for(d.result.decision) /\ KeyOf(d.result) = KeyOf(d)
    /\ WorkInv(d.work)
    /\ \A i \in CandidatesIn(d.work, ContentStates) : d.work.candidates[i].payload # 0
    /\ d.result = NoResult => CandidatesIn(d.work, {"selected"}) = {}
    /\ d.result # NoResult /\ d.result.decision = "committed" =>
          /\ NamesCandidate(d.work, d.result)
          /\ CandidatesIn(d.work, {"selected"}) = {d.result.candidate}

\* The file holds what must survive.
Saved ==
    /\ disk.generation = generation /\ disk.history = history
    /\ disk.execution = execution
    /\ disk.cancellation_requested = cancellation_requested
    /\ disk.result = result

\* Whatever is not marked dirty is saved, and nothing is left dirty when the thread waits.
DurableInv ==
    /\ ~up => at = Waiting
    /\ at = Waiting => ~dirty
    /\ up /\ ~dirty /\ generation > 0 => Saved

\* The engine never falls behind the file: it is at a later execution, or at the same one with
\* the decision or the cancellation the file holds.
FinalInv ==
    up => \/ Log!Precedes(KeyOf(disk), Key)
          \/ /\ KeyOf(disk) = Key
             /\ disk.result # NoResult \/ disk.cancellation_requested =>
                   /\ result = disk.result
                   /\ cancellation_requested = disk.cancellation_requested

-----------------------------------------------------------------------------

\* The events of worker b.
FromWorker(e, b) ==
    e.type \in Submission \cup {"register_participant", "connection_closed"} /\ e.from = b

\* What the reader threads put into the queue.
WellFormed(e) ==
    /\ e.type \in Submission \cup {"register_participant", "connection_closed"} => e.from \in Boots
    /\ e.type = "register_participant" => e.participant \in Participants
    /\ e.type = "candidate_result" => e.answer \in Payloads
    /\ e.type = "candidate_failure" => e.answer \in FailureKinds
    /\ e.type = "evaluation_result" => e.answer \in Verdicts

\* The events in s are of connections that are among the open ones, or the last ones of workers
\* that are dead.
InOrder(s, workers, open) ==
    /\ \A n \in DOMAIN s :
          /\ WellFormed(s[n])
          /\ \A b \in Boots :
                FromWorker(s[n], b) => IF s[n].type = "connection_closed"
                                         THEN workers[b].phase = "dead" ELSE b \in open
    /\ \A m, n \in DOMAIN s :
          m < n /\ s[m].type = "connection_closed" => ~FromWorker(s[n], s[m].from)

\* What a worker process knows.
WorkerRecord ==
    [phase : {"new", "registering", "serving", "dead"}, epoch : Nat, generation : Nat,
     registered : Nat]

\* A worker that lives has its connection, and after a connection_closed nothing follows from
\* that connection.
QueueInv ==
    /\ worker \in [Boots -> WorkerRecord]
    /\ \A b \in Boots :
          /\ Alive(b) => b \in connections
          /\ worker[b].phase = "registering" => worker[b].registered < Len(Bindings[b])
    /\ InOrder(batch, worker, connections) /\ InOrder(queue, worker, connections)
    /\ \A m \in DOMAIN batch, n \in DOMAIN queue :
          batch[m].type = "connection_closed" => ~FromWorker(queue[n], batch[m].from)
    /\ at.step \in {"handle", "lose"} => batch # <<>>
    /\ at.step = "lose" => Head(batch).type = "connection_closed"

\* Who is registered is so through a connection that is open or whose loss is being reported.
ConnectionInv ==
    /\ registrations \in [Boots -> [Participants -> Nat]]
    /\ up => \A p \in Participants :
                 participants[p].registered =>
                     LET b == participants[p].worker_boot
                     IN /\ b \in Boots /\ registrations[b][p] = participants[p].generation
                        /\ b \in connections \/ (at.step = "lose" /\ Head(batch).from = b)

\* The invariant of the deployment: the engine and the file are sound, nothing that must survive
\* is lost or taken back, and the queue and the connections tell the truth about the workers.
DeploymentInv ==
    /\ TypeOK /\ PreparedInv /\ PublishedIsDecision /\ EvidenceInv /\ SelectionInv
    /\ Stored(disk) /\ DurableInv /\ FinalInv /\ QueueInv /\ ConnectionInv
=============================================================================
