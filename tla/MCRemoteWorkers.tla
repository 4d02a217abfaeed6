-------------------------- MODULE MCRemoteWorkers ---------------------------
(***************************************************************************)
(* A small instance of RemoteWorkers.                                      *)
(***************************************************************************)
EXTENDS RemoteWorkers

CONSTANT j1

(* The job is one of the first worker.                                     *)
FirstWorker == [j \in Jobs |-> 0]

=============================================================================
