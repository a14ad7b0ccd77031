-------------------------- MODULE DeploymentClaims --------------------------
(***************************************************************************)
(* What the comments and the documentation say of the deployment and the   *)
(* code does not do, as in Claims.  ExactlyOnce of Fabric is one more:     *)
(* ARCHITECTURE.md promises it without exception, and a crash breaks it.   *)
(***************************************************************************)
EXTENDS Recovery, Claims

\* coordinator.cpp, finalize_request: the parked request "is answered only once the execution
\* has genuinely settled, which keeps the controller free of polling and free of timeouts".  An
\* evaluator that is replaced while it owes an evaluation leaves it parked for ever.
FinalizeAnswered ==
    \A c \in Clients : (client[c] = "finalize" /\ has_execution) ~> client[c] # "finalize"

\* worker.hpp: a worker "may only act on work the coordinator dispatches under its current boot
\* identity and generation".  find_connection_for takes any connection that ever registered the
\* participant, also one whose registration a redefinition has voided.
DispatchedToHolder ==
    \A b \in Boots : \A n \in DOMAIN outbox[b] :
        outbox[b][n].type = "dispatch_candidate" => outbox[b][n].authority.worker_boot = b
=============================================================================
