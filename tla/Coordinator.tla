----------------------------- MODULE Coordinator -----------------------------
(***************************************************************************)
(* The distributed deployment (src/distributed/): one EnsembleCoordinator  *)
(* that owns the runtime of Fabric and one state file, worker processes    *)
(* and clients connected to it.                                            *)
(*                                                                         *)
(* Reader threads only append events to one queue.  The event thread takes *)
(* the whole queue, handles every event, then answers the parked finalize  *)
(* requests, then saves the state; it is the only caller of the runtime.   *)
(* Its steps follow each other in that order and a crash may fall between  *)
(* any two of them.  A frame sent is a frame received: Channel shows that  *)
(* of the transport; what a dying process had sent and nobody read yet is  *)
(* modelled as not sent.  Queries, inspection and heartbeats change no     *)
(* state, CancelActions are recorded by the worker and never read again,   *)
(* and nothing in the repository sends a goodbye: they are left out.       *)
(***************************************************************************)
EXTENDS Fabric, SequencesExt

CONSTANTS EventThread,    \* the one caller of the runtime
          Clients,        \* client connections
          Requests,       \* the requests every client makes
          Bindings,       \* the participants every worker incarnation is started for, in order
          MaxCrashes      \* model bound

ASSUME DeploymentAssumption ==
    /\ EventThread \in Callers
    /\ DOMAIN Bindings = Boots
    /\ \A b \in Boots : Bindings[b] \in Seq(Participants) /\ Bindings[b] # <<>>
    /\ Requests \in [Clients -> SUBSET {"define", "open", "cancel", "finalize"}]
    /\ MaxCrashes \in Nat

VARIABLES
    up,             \* the coordinator process runs
    crashes,        \* how often it has crashed
    disk,           \* what the state file holds; Blank while there is none
    connections,    \* connections_, named by the boot of the worker at the other end
    registrations,  \* Connection::registrations, 0 for a participant that is not there
    queue,          \* queue_: events not taken yet
    batch,          \* the taken events that are not handled yet
    at,             \* where the event thread is: a step and a count
    parked,         \* pending_finalizes
    dirty,          \* state_dirty
    worker,         \* the worker processes
    outbox,         \* frames on their way to a worker
    client          \* the request a client waits for, "none" when there is none

connectivity == <<connections, registrations>>
loop == <<batch, at>>
durable == <<parked, dirty, disk>>
processes == <<worker, client>>
coordinatorVars ==
    <<vars, up, crashes, connectivity, queue, loop, durable, worker, outbox, client>>

-----------------------------------------------------------------------------
(* The state file: serialize_state, save_state, recover_state. *)

\* Planned evaluations are not saved.
serialize_state ==
    [epoch |-> epoch, generation |-> generation, superseded |-> superseded,
     participants |-> participants, history |-> history, execution |-> execution,
     status |-> status, execution_epoch |-> execution_epoch,
     cancellation_requested |-> cancellation_requested, result |-> result,
     work |-> [work EXCEPT !.pending = {}]]

\* What the constructor of the runtime leaves, one epoch before the first.
Blank ==
    [epoch |-> 0, generation |-> 0, superseded |-> FALSE,
     participants |-> [p \in Participants |-> NewParticipant], history |-> <<>>,
     execution |-> 0, status |-> "none", execution_epoch |-> 0,
     cancellation_requested |-> FALSE, result |-> NoResult, work |-> NewExecution]

\* Reports are recomputed from the evidence of d, then live authority is invalidated.
RecoveredWork(d) ==
    IF d.execution = 0 THEN d.work
    ELSE LET w == compute_reports(d.work,
                      [participants |-> d.participants, epoch |-> d.epoch + 1,
                       execution_epoch |-> d.execution_epoch, status |-> d.status,
                       superseded |-> d.superseded])
         IN IF d.status = "open" THEN InvalidatedWork(w) ELSE w

\* The runtime continues from d in the next epoch.
Load(d) ==
    /\ epoch' = d.epoch + 1 /\ restarting' = FALSE
    /\ generation' = d.generation /\ superseded' = d.superseded /\ history' = d.history
    /\ participants' = InvalidatedParticipants(d.participants)
    /\ execution' = d.execution /\ execution_epoch' = d.execution_epoch
    /\ status' = IF d.status = "open" THEN "revalidation_required" ELSE d.status
    /\ cancellation_requested' = d.cancellation_requested /\ result' = d.result
    /\ work' = RecoveredWork(d)

\* Mutant: execution identities start again.
recover_without_execution(d) == Load([d EXCEPT !.execution = 0, !.result = NoResult])

recover_state(d) == Load(d)

\* start: recovers the state file if there is one; no connection survives.
start ==
    /\ ~up /\ up' = TRUE
    /\ recover_state(disk)
    /\ calls' = [c \in Callers |-> Idle]
    /\ UNCHANGED <<network, acknowledged, cancelled, crashes, connectivity, queue, loop,
                   durable, processes, outbox>>
-----------------------------------------------------------------------------

At(step, n) == [step |-> step, n |-> n]
Waiting == At("wait", 0)
Unregistered == [p \in Participants |-> 0]

\* A worker process: the epoch it was told, the generation it is started for, and how many of
\* its bindings are registered.
NewWorker == [phase |-> "new", epoch |-> 0, generation |-> 0, registered |-> 0]
Dead == [NewWorker EXCEPT !.phase = "dead"]

\* Another process can still be started for the bindings of b: faults stop short of the last one.
Spare(b) == \E s \in Boots \ {b} : worker[s].phase = "new" /\ Bindings[s] = Bindings[b]

\* The process dies, or stop() ends it once the queue is drained.  Its memory is gone, workers
\* and clients see their connection close: a worker process ends, a request fails, and nobody is
\* left to answer a dispatch.  Of a batch only the answers and the file survive, so a crash
\* before the answers is a crash before the batch.
Crash ==
    /\ up /\ at.step \in {"wait", "flush"} /\ crashes < MaxCrashes
    /\ \A b \in Boots : worker[b].phase # "new" => Spare(b)
    /\ up' = FALSE /\ crashes' = crashes + 1
    /\ Load(Blank)
    /\ calls' = [c \in Callers |-> Idle]
    /\ connections' = {} /\ registrations' = [b \in Boots |-> Unregistered]
    /\ queue' = <<>> /\ batch' = <<>> /\ at' = Waiting /\ parked' = <<>> /\ dirty' = FALSE
    /\ worker' = [b \in Boots |-> IF worker[b].phase = "new" THEN worker[b] ELSE Dead]
    /\ outbox' = [b \in Boots |-> <<>>] /\ client' = [c \in Clients |-> "none"]
    /\ dispatches' = {} /\ requests' = {}
    /\ UNCHANGED <<acknowledged, cancelled, disk>>

-----------------------------------------------------------------------------
(* The event thread. *)

\* event_loop: takes every queued event.
TakeEvents ==
    /\ up /\ at = Waiting /\ queue # <<>>
    /\ batch' = queue /\ queue' = <<>> /\ at' = At("handle", 0)
    /\ UNCHANGED <<vars, up, crashes, connectivity, durable, processes, outbox>>

\* The thread is at the given step.
Steps(step) == up /\ at.step = step
Handles(type) == Steps("handle") /\ Head(batch).type = type
\* After the last event come the parked requests.
Resume(rest) == IF rest = <<>> THEN At("flush", 1) ELSE At("handle", 0)
Pump == At("pump", 0)
\* The event is done; what follows is the pump or the next event.
Handled(next) == batch' = Tail(batch) /\ at' = next
Following == Resume(Tail(batch))

Send(b, frame) == outbox' = [outbox EXCEPT ![b] = Append(@, frame)]
Answer(c) == client' = [client EXCEPT ![c] = "none"]

\* The runtime checks the declared generation and epoch, and that nobody holds the participant.
MayRegister(e) ==
    /\ e.generation = generation /\ e.epoch = epoch
    /\ ~(participants[e.participant].registered /\ participants[e.participant].status = "current")

HandleRegister ==
    LET e == Head(batch)
    IN /\ Handles("register_participant") /\ MayRegister(e)
       /\ register_participant(e.participant, e.from)
       /\ registrations' = [registrations EXCEPT ![e.from][e.participant] =
                                participants'[e.participant].generation]
       /\ dirty' = TRUE
       /\ Send(e.from, [type |-> "register_ack", accepted |-> TRUE])
       /\ Handled(Pump)
       /\ UNCHANGED <<up, crashes, connections, queue, parked, disk, processes>>

HandleRegisterRefused ==
    LET e == Head(batch)
    IN /\ Handles("register_participant") /\ ~MayRegister(e)
       /\ Send(e.from, [type |-> "register_ack", accepted |-> FALSE])
       /\ Handled(Following)
       /\ UNCHANGED <<vars, up, crashes, connectivity, queue, durable, processes>>

\* candidate_result, candidate_failure, candidate_abstention, evaluation_result: a refused
\* submission is answered with an error the worker ignores; none of them marks the state dirty.
Submitted(e) ==
    \/ e.type = "candidate_result" /\ submit_candidate(e.authority, e.answer)
    \/ e.type = "candidate_failure" /\ submit_candidate_failure(e.authority, e.answer)
    \/ e.type = "candidate_abstention" /\ submit_candidate_abstention(e.authority)
    \/ e.type = "evaluation_result" /\ submit_evaluation(e.authority, e.answer)
Admissible(e) ==
    IF e.type = "evaluation_result"
      THEN EvaluationAdmissible(e.authority) /\ \E q \in PlanOf(e.authority) : open_pending(q)
      ELSE locate_candidate(e.authority)
Submission == {"candidate_result", "candidate_failure", "candidate_abstention",
               "evaluation_result"}

\* Mutant: nothing follows the submission.
SubmissionUnpumped ==
    /\ Steps("handle") /\ Head(batch).type \in Submission
    /\ IF Admissible(Head(batch)) THEN Submitted(Head(batch)) ELSE UNCHANGED vars
    /\ Handled(Following)
    /\ UNCHANGED <<up, crashes, connectivity, queue, durable, processes, outbox>>

HandleSubmission ==
    /\ Steps("handle") /\ Head(batch).type \in Submission
    /\ IF Admissible(Head(batch)) THEN Submitted(Head(batch)) ELSE UNCHANGED vars
    /\ Handled(Pump)
    /\ UNCHANGED <<up, crashes, connectivity, queue, durable, processes, outbox>>

HandleDefine ==
    /\ Handles("define")
    /\ define_ensemble
    /\ dirty' = TRUE
    /\ Answer(Head(batch).from)
    /\ Handled(Following)
    /\ UNCHANGED <<up, crashes, connectivity, queue, parked, disk, worker, outbox>>

\* A specification that does not decode or validate changes nothing.
HandleDefineRefused ==
    /\ Handles("define")
    /\ Answer(Head(batch).from)
    /\ Handled(Following)
    /\ UNCHANGED <<vars, up, crashes, connectivity, queue, durable, worker, outbox>>

\* open_execution and cancel_ensemble name a generation, which must be the current one.
Current(e) == e.generation = generation

HandleOpen ==
    /\ Handles("open") /\ Current(Head(batch))
    /\ open_execution
    /\ dirty' = TRUE
    /\ Answer(Head(batch).from)
    /\ Handled(Pump)
    /\ UNCHANGED <<up, crashes, connectivity, queue, parked, disk, worker, outbox>>

\* A stale generation or an execution still open; what the model bound cuts off is refused too.
HandleOpenRefused ==
    /\ Handles("open")
    /\ ~Current(Head(batch)) \/ status = "open" \/ execution = MaxExecution
    /\ Answer(Head(batch).from)
    /\ Handled(Following)
    /\ UNCHANGED <<vars, up, crashes, connectivity, queue, durable, worker, outbox>>

\* Cancelling a cancelled execution again succeeds and changes nothing.
HandleCancel ==
    /\ Handles("cancel") /\ Current(Head(batch))
    /\ IF status = "cancelled" THEN UNCHANGED vars ELSE cancel_ensemble
    /\ dirty' = TRUE
    /\ Answer(Head(batch).from)
    /\ Handled(Pump)
    /\ UNCHANGED <<up, crashes, connectivity, queue, parked, disk, worker, outbox>>

HandleCancelRefused ==
    /\ Handles("cancel")
    /\ ~Current(Head(batch)) \/ ~has_execution \/ has_result
    /\ dirty' = TRUE
    /\ Answer(Head(batch).from)
    /\ Handled(Following)
    /\ UNCHANGED <<vars, up, crashes, connectivity, queue, parked, disk, worker, outbox>>

\* finalize_request: the request waits until the execution has settled.
HandleFinalize ==
    /\ Handles("finalize")
    /\ parked' = Append(parked, Head(batch))
    /\ Handled(Following)
    /\ UNCHANGED <<vars, up, crashes, connectivity, queue, dirty, disk, processes, outbox>>
\* Mutant: the participants of the connection are not reported.
CloseUnreported ==
    /\ Handles("connection_closed")
    /\ connections' = connections \ {Head(batch).from}
    /\ Handled(Following)
    /\ UNCHANGED <<vars, up, crashes, registrations, queue, durable, processes, outbox>>

\* A connection closed: it is erased, then each of its participants is reported in turn.
HandleConnectionClosed ==
    LET b == Head(batch).from
    IN /\ Handles("connection_closed")
       /\ connections' = connections \ {b}
       /\ at' = IF registrations[b] = Unregistered THEN Following ELSE At("lose", 0)
       /\ batch' = IF registrations[b] = Unregistered THEN Tail(batch) ELSE batch
       /\ UNCHANGED <<vars, up, crashes, registrations, queue, durable, processes, outbox>>

\* handle_connection_loss: the report names the incarnation of the connection, so it is refused
\* when another one has taken over.
handle_connection_loss ==
    LET b == Head(batch).from
    IN \E p \in Participants :
         /\ Steps("lose")
         /\ registrations[b][p] # 0
         /\ \A q \in Participants : registrations[b][q] # 0 => p <= q
         /\ IF participants[p].worker_boot = b /\ participants[p].generation = registrations[b][p]
              THEN report_participant_failure(p, "unavailable")
              ELSE UNCHANGED vars
         /\ registrations' = [registrations EXCEPT ![b][p] = 0]
         /\ IF registrations'[b] = Unregistered THEN Handled(Pump) ELSE UNCHANGED loop
         /\ UNCHANGED <<up, crashes, connections, queue, durable, processes, outbox>>

\* Any connection that ever registered p may be found.
find_connection_for(p) == {b \in connections : registrations[b][p] # 0}

\* The frames of new dispatches and requests; what has no connection is dropped, because the
\* failure report it causes names no boot and is refused.
Frames == {[type |-> "dispatch_candidate", to |-> m.participant, authority |-> m] :
               m \in dispatches' \ dispatches}
          \cup {[type |-> "evaluation_request", to |-> m.evaluator, authority |-> m] :
               m \in requests' \ requests}
Route(frames) ==
    \E route \in [frames -> Boots] :
        /\ \A f \in frames : find_connection_for(f.to) # {} => route[f] \in find_connection_for(f.to)
        /\ outbox' = [b \in Boots |-> outbox[b] \o
                SetToSeq({f \in frames : route[f] = b /\ b \in find_connection_for(f.to)})]

Advances == has_execution /\ status = "open" /\ ~superseded
Cancels == has_execution /\ status = "cancelled" /\ ~work.cancellation_emitted

\* pump: at most 8 calls of advance, until one returns no action.
PumpRound ==
    /\ Steps("pump") /\ Advances
    /\ advance_open
    /\ Route(Frames)
    /\ at' = IF (Frames = {} /\ work'.fallback_depth = work.fallback_depth) \/ at.n = 7
               THEN Resume(batch) ELSE At("pump", at.n + 1)
    /\ UNCHANGED <<up, crashes, connectivity, queue, batch, durable, processes>>

PumpCancel ==
    /\ Steps("pump") /\ Cancels
    /\ advance_cancelled
    /\ at' = Resume(batch)
    /\ UNCHANGED <<up, crashes, connectivity, queue, batch, durable, processes, outbox>>

PumpNothing ==
    /\ Steps("pump") /\ ~Advances /\ ~Cancels
    /\ at' = Resume(batch)
    /\ UNCHANGED <<vars, up, crashes, connectivity, queue, batch, durable, processes, outbox>>
-----------------------------------------------------------------------------
(* flush_pending_finalize and maybe_persist. *)

Waiter == parked[at.n]
AtWaiter == Steps("flush") /\ at.n <= Len(parked)
\* The waiter is answered and no longer parked; the next one takes its place.
Unpark == parked' = RemoveAt(parked, at.n) /\ Answer(Waiter.from)

\* is_settled fails for a generation that is not current.
FlushStale ==
    /\ AtWaiter /\ ~Current(Waiter)
    /\ Unpark
    /\ UNCHANGED <<vars, up, crashes, connectivity, queue, loop, dirty, disk, worker, outbox>>

FlushUnsettled ==
    /\ AtWaiter /\ Current(Waiter) /\ ~execution_settled
    /\ at' = At("flush", at.n + 1)
    /\ UNCHANGED <<vars, up, crashes, connectivity, queue, batch, durable, processes, outbox>>

\* Mutant: the state is not marked dirty.
FlushUnmarked ==
    /\ Unpark /\ at' = At("flush", at.n)
    /\ UNCHANGED <<dirty, disk, worker, outbox, queue, batch, up, crashes, connectivity>>

\* finalize returned: its outcome is sent, then the state is marked dirty.
FlushAnswered ==
    /\ Unpark /\ at' = At("flush", at.n)
    /\ dirty' = TRUE
    /\ UNCHANGED <<disk, worker, outbox, queue, batch, up, crashes, connectivity>>

FlushRefused ==
    /\ AtWaiter /\ Current(Waiter) /\ execution_settled
    /\ status \in {"revalidation_required", "cancelled", "superseded"}
    /\ FlushAnswered
    /\ UNCHANGED vars

\* finalize, in its three critical sections.
FlushCheck ==
    /\ AtWaiter /\ Current(Waiter)
    /\ FinalizeCheck(EventThread)
    /\ at' = At("prepare", at.n)
    /\ UNCHANGED <<up, crashes, connectivity, queue, batch, durable, processes, outbox>>

FlushPrepare ==
    /\ Steps("prepare")
    /\ FinalizePrepare(EventThread)
    /\ at' = At("commit", at.n)
    /\ UNCHANGED <<up, crashes, connectivity, queue, batch, durable, processes, outbox>>

FlushCommit ==
    /\ Steps("commit")
    /\ FinalizeCommit(EventThread) \/ FinalizeReturn(EventThread)
    /\ FlushAnswered

\* maybe_persist: the flag is cleared before the file is replaced.
maybe_persist ==
    /\ Steps("flush") /\ at.n > Len(parked)
    /\ dirty' = FALSE
    /\ disk' = IF dirty THEN serialize_state ELSE disk
    /\ at' = Waiting
    /\ UNCHANGED <<vars, up, crashes, connectivity, queue, batch, parked, processes, outbox>>

-----------------------------------------------------------------------------
(* Workers.  What workers and clients do only appends to the queue, which  *)
(* the event thread reads when it takes the next batch, and reads answers  *)
(* that stay: such a step commutes with the steps of a batch.  Letting it  *)
(* happen while the thread waits loses no behaviour and most interleavings.*)

Free == up /\ at = Waiting
Alive(b) == worker[b].phase \notin {"new", "dead"}
Enqueue(e) == queue' = Append(queue, e)
Frame(b) == Head(outbox[b])
Receives(b, phase) == Free /\ worker[b].phase = phase /\ outbox[b] # <<>>
Consume(b) == outbox' = [outbox EXCEPT ![b] = Tail(@)]

\* The registration of the binding after the first n.
Registration(b, w) ==
    [type |-> "register_participant", from |-> b, participant |-> Bindings[b][w.registered + 1],
     generation |-> w.generation, epoch |-> w.epoch]

\* connect_and_register: the connection is accepted, the handshake names the incarnation to the
\* connection and the epoch to the worker (nothing else reads or changes either), and the first
\* registration is sent.
Connect(b) ==
    LET w == [phase |-> "registering", epoch |-> epoch, generation |-> generation,
              registered |-> 0]
    IN /\ Free /\ worker[b].phase = "new" /\ generation > 0
       /\ worker' = [worker EXCEPT ![b] = w]
       /\ connections' = connections \cup {b}
       /\ Enqueue(Registration(b, w))
       /\ UNCHANGED <<vars, up, crashes, registrations, loop, durable, outbox, client>>

Acknowledged(b) ==
    Receives(b, "registering") /\ Frame(b).type = "register_ack" /\ Frame(b).accepted
Complete(b) == worker[b].registered + 1 = Len(Bindings[b])

RegisterNext(b) ==
    LET w == [worker[b] EXCEPT !.registered = @ + 1]
    IN /\ Acknowledged(b) /\ ~Complete(b)
       /\ worker' = [worker EXCEPT ![b] = w]
       /\ Consume(b)
       /\ Enqueue(Registration(b, w))
       /\ UNCHANGED <<vars, up, crashes, connectivity, loop, durable, client>>

Registered(b) ==
    /\ Acknowledged(b) /\ Complete(b)
    /\ worker' = [worker EXCEPT ![b].phase = "serving", ![b].registered = @ + 1]
    /\ Consume(b)
    /\ UNCHANGED <<vars, up, crashes, connectivity, queue, loop, durable, client>>

\* The process ends and its connection closes.
Ends(b) ==
    /\ worker' = [worker EXCEPT ![b] = Dead]
    /\ outbox' = [outbox EXCEPT ![b] = <<>>]
    /\ Enqueue([type |-> "connection_closed", from |-> b])
    /\ UNCHANGED <<vars, up, crashes, connectivity, loop, durable, client>>

\* A registration that is refused, or any other frame where its answer is expected, is an error
\* that ends the worker.
GivesUp(b) ==
    /\ Receives(b, "registering")
    /\ Frame(b).type = "register_ack" => ~Frame(b).accepted
    /\ Ends(b)

WorkerDies(b) == Free /\ Alive(b) /\ Spare(b) /\ Ends(b)

\* The worker answers with its own boot and the epoch it was told at the handshake.  A backend
\* that fails to produce is answered for; one that fails to evaluate is not.
Answers(b) ==
    LET authority == [Frame(b).authority EXCEPT !.worker_boot = b, !.epoch = worker[b].epoch]
        Reply(type, answer) ==
            Enqueue([type |-> type, from |-> b, authority |-> authority, answer |-> answer])
    IN /\ Receives(b, "serving")
       /\ \/ /\ Frame(b).type = "dispatch_candidate"
             /\ \/ \E payload \in Payloads : Reply("candidate_result", payload)
                \/ \E kind \in FailureKinds : Reply("candidate_failure", kind)
                \/ Reply("candidate_abstention", 0)
          \/ /\ Frame(b).type = "evaluation_request"
             /\ \/ \E verdict \in Verdicts : Reply("evaluation_result", verdict)
                \/ UNCHANGED queue
       /\ Consume(b)
       /\ UNCHANGED <<vars, up, crashes, connectivity, loop, durable, processes>>

-----------------------------------------------------------------------------
(* Clients: one request at a time, until its answer or the loss of the connection. *)

\* A request names the current generation, or the first one before there is any.
request(c, type) ==
    /\ Free /\ client[c] = "none"
    /\ type = "define" => generation < MaxGeneration
    /\ client' = [client EXCEPT ![c] = type]
    /\ Enqueue([type |-> type, from |-> c, generation |-> IF generation = 0 THEN 1 ELSE generation])
    /\ UNCHANGED <<vars, up, crashes, connectivity, loop, durable, worker, outbox>>

-----------------------------------------------------------------------------

CoordinatorInit ==
    /\ Init
    /\ up = FALSE /\ crashes = 0 /\ disk = Blank
    /\ connections = {} /\ registrations = [b \in Boots |-> Unregistered]
    /\ queue = <<>> /\ batch = <<>> /\ at = Waiting /\ parked = <<>> /\ dirty = FALSE
    /\ worker = [b \in Boots |-> NewWorker] /\ outbox = [b \in Boots |-> <<>>]
    /\ client = [c \in Clients |-> "none"]

Handle ==
    \/ HandleRegister \/ HandleRegisterRefused \/ HandleSubmission
    \/ HandleDefine \/ HandleDefineRefused \/ HandleOpen \/ HandleOpenRefused
    \/ HandleCancel \/ HandleCancelRefused \/ HandleFinalize
    \/ HandleConnectionClosed \/ handle_connection_loss

event_loop ==
    \/ TakeEvents \/ Handle
    \/ PumpRound \/ PumpCancel \/ PumpNothing
    \/ FlushStale \/ FlushUnsettled \/ FlushRefused
    \/ FlushCheck \/ FlushPrepare \/ FlushCommit
    \/ maybe_persist

WorkerStep(b) ==
    \/ Connect(b) \/ RegisterNext(b) \/ Registered(b)
    \/ GivesUp(b) \/ Answers(b)

CoordinatorNext ==
    \/ start \/ Crash
    \/ event_loop
    \/ \E b \in Boots : WorkerStep(b) \/ WorkerDies(b)
    \/ \E c \in Clients : \E type \in Requests[c] : request(c, type)

CoordinatorSpec == CoordinatorInit /\ [][CoordinatorNext]_coordinatorVars

\* The event thread runs while it has something to do: only it, and a crash, move its position,
\* its batch and the parked requests.  The operator starts a crashed coordinator and every
\* worker, and a worker reads what it is sent, however busy the event thread is.
LoopDue == up /\ (at # Waiting \/ queue # <<>>)
WorkerDue(b) ==
    up /\ IF Alive(b) THEN outbox[b] # <<>> ELSE worker[b].phase = "new" /\ generation > 0
CoordinatorFairness ==
    /\ []<>up
    /\ []<>~LoopDue \/ []<><<TRUE>>_<<loop, parked>>
    /\ \A b \in Boots : []<>~WorkerDue(b) \/ []<><<WorkerStep(b)>>_coordinatorVars

CoordinatorFairSpec == CoordinatorSpec /\ CoordinatorFairness

-----------------------------------------------------------------------------
(* Properties. *)

\* The runtime never counts on a participant nobody serves: who is registered is so through a
\* connection that is open, holds that very generation and will report its loss.  A dispatch
\* therefore always finds a connection, and the branch of pump that reports a failure nobody
\* accepts is never taken (handle_connection_loss, register_participant, recovery).
RegisteredIsConnected ==
    up /\ at.step # "lose" =>
        \A p \in Participants :
            participants[p].registered =>
                LET b == participants[p].worker_boot
                IN b \in connections /\ registrations[b][p] = participants[p].generation

\* A coordinator that waits for events has nothing to lose but evidence: the definition, the
\* execution, its cancellation and its result are what the state file holds (every handler that
\* changes them marks the state dirty, maybe_persist follows every batch).
WaitingIsDurable ==
    up /\ at = Waiting /\ generation > 0 =>
        /\ disk.generation = generation /\ disk.history = history
        /\ disk.execution = execution
        /\ disk.cancellation_requested = cancellation_requested
        /\ disk.result = result

\* What has reached the state file is final: whatever crashes and recoveries follow, the result
\* or the cancellation it holds stays in it until a later execution takes its place, and that
\* one has an identity of its own (recover_state, commit_result, cancel_ensemble).
DurableIsFinal ==
    [][disk.result # NoResult \/ disk.cancellation_requested
         => \/ /\ disk'.result = disk.result
               /\ disk'.cancellation_requested = disk.cancellation_requested
            \/ Log!Precedes(KeyOf(disk), KeyOf(disk'))]_disk

\* The request of plan q or the answer to it has not been read yet.
InTransit(q) ==
    \/ \E b \in Boots : \E n \in DOMAIN outbox[b] :
           outbox[b][n].type = "evaluation_request" /\ q \in PlanOf(outbox[b][n].authority)
    \/ \E n \in DOMAIN (batch \o queue) :
           LET e == (batch \o queue)[n]
           IN e.type = "evaluation_result" /\ q \in PlanOf(e.authority)

\* An evaluation request that was sent to an incarnation which has been replaced since, or that
\* a living evaluator has read and left without an answer.
Stranded ==
    \E q \in work.pending :
        LET evaluator == participants[q.evaluator]
        IN /\ q.emitted /\ open_pending(q)
           /\ \/ q.evaluator_generation # evaluator.generation
              \/ evaluator.registered /\ Alive(evaluator.worker_boot) /\ ~InTransit(q)

\* A finalize request is left parked for one reason only: once there is an execution it is
\* answered, or fails with the connection, whatever workers die and whenever the coordinator
\* restarts, unless an evaluator is replaced while it owes an evaluation or cannot make it.
AnsweredUnlessStranded ==
    \A c \in Clients :
        (client[c] = "finalize" /\ has_execution) ~> (client[c] # "finalize" \/ Stranded)
=============================================================================
