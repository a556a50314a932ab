---------------------------- MODULE MCWorkerPool ----------------------------
(* WorkerPool for TLC: two workers, the scanner and the watcher.           *)
EXTENDS WorkerPool
=============================================================================
