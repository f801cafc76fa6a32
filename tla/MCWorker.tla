------------------------------ MODULE MCWorker ------------------------------
(* Worker on small instances; the cfgs give the bounds.                     *)
EXTENDS Worker

(* A bound: a behaviour has one game, one sleep or one timer that elapses,  *)
(* and none of them while rescans are counted.                              *)
Events == games + sleeps + clock
OneEvent == Events' = 0 \/ (Events' = 1 /\ rescans' = 0)

OneEventSpec ==
    /\ WorkerInit /\ [][WorkerNext /\ OneEvent]_workerVars
    /\ WorkerFair
=============================================================================
