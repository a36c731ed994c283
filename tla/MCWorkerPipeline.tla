-------------------------- MODULE MCWorkerPipeline --------------------------
(* WorkerPipeline for TLC: symmetric producers.                            *)
EXTENDS WorkerPipeline, TLC

ProducerSymmetry == Permutations(Producers)
=============================================================================
