-------------------------- MODULE MCWorkerProcess ---------------------------
(***************************************************************************)
(* One worker with two slots for two jobs, among other workers of the queue. *)
(***************************************************************************)
EXTENDS WorkerProcess

MCEntries == <<Dlq, Adapter, Reporter>>
===========================================================================
