---------------------------- MODULE MC_Runner ----------------------------
(***************************************************************************)
(* Three replicates over two workers: one worker must run two tasks, so  *)
(* a worker's generator is reused, and tasks can finish out of order.     *)
(***************************************************************************)
EXTENDS BootstrapRunner

CONSTANTS w1, w2, NoValue

MCWorkers == {w1, w2}
=============================================================================
