----------------------- MODULE JobLifecycleRefinement -----------------------
(***************************************************************************)
(* The handlers of JobLifecycle, run one at a time, implement JobHandshake. *)
(***************************************************************************)
EXTENDS JobLifecycle

Handshake == INSTANCE JobHandshake WITH
    stage   <- job.status,
    inPlay  <- {w \in Workers : apps[w].status \in {"pending", "accepted"}},
    chosen  <- IF Accepted = {} THEN None ELSE CHOOSE w \in Workers : w \in Accepted,
    marked  <- {side \in {"customer", "worker"} :
                   IsSet(IF side = "customer" THEN job.customer_marked_complete_at
                                              ELSE job.worker_marked_complete_at)},
    charged <- billing

(* Each handler and each half of the timeout check is a step of the        *)
(* handshake or leaves it alone (job_lifecycle_service.py and              *)
(* job_timeout_service.py as a whole).                                     *)
ImplementsHandshake == Handshake!Spec
=============================================================================
