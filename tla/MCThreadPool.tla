---------------------------- MODULE MCThreadPool ----------------------------
(* Two workers, two work items and three jobs: the queue can be full while *)
(* a worker is between dequeuing an item and running it.                   *)
EXTENDS ThreadPool
=============================================================================
