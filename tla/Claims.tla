------------------------------- MODULE Claims -------------------------------
(***************************************************************************)
(* What the documentation and the comments of the repository say of the    *)
(* runtime and the code does not do.  Every definition states one such     *)
(* sentence; added to the configuration the README names for it, TLC finds *)
(* a behaviour of the code that contradicts it.                            *)
(***************************************************************************)
EXTENDS Evidence

\* README, "Stale-state fencing": late output from a cancelled participant "cannot mutate
\* current state".  Between cancel_ensemble and the next advance the candidates of a cancelled
\* execution are still dispatched, and locate_candidate does not look at the status.
LateOutputFenced ==
    [][\A i \in DOMAIN work.candidates :
         SameExecution /\ status = "cancelled" =>
             work'.candidates[i].payload = work.candidates[i].payload]_vars

\* fabric.hpp, is_settled: true when "no further action can be produced for the current
\* execution generation".  execution_settled does not know that the next advance will activate
\* the fallback stage on the votes just received.
SettledIsFinal ==
    status = "open" /\ execution_settled =>
        NewDispatches(advance(work, Env)) \subseteq dispatches

\* README, "Persistence and recovery": a recovered coordinator "advances its epoch" and marks
\* "every recovered participant and in-flight execution as requiring revalidation".  restart
\* does the two in separate critical sections, and an execution may be opened in between.
RestartRevalidates == ~restarting /\ status = "open" => execution_epoch = epoch
=============================================================================
