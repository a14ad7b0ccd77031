---------------------------- MODULE MCCoordinator ----------------------------
(* Small deployments for model checking the coordinator. *)
EXTENDS DeploymentClaims, MCFabric

\* Every worker process serves the one participant.
SoloBindings == [b \in Boots |-> <<1>>]

\* A producer and a verifier that checks its output, both served by every worker process.
PairSpec ==
    LET members == <<Candidate, Verifier>>
    IN [DefaultSpec(members) EXCEPT
           !.aggregation.require_verification_pass = TRUE,
           !.evidence.mandatory_criteria = {"schema"}]
PairBindings == [b \in Boots |-> <<1, 2>>]

\* One client defines and finalizes, the other one opens executions and cancels them.
ControllerAndOperator ==
    [c \in Clients |-> IF c = "controller" THEN {"define", "finalize"} ELSE {"open", "cancel"}]
=============================================================================
