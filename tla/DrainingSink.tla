---------------------------- MODULE DrainingSink ----------------------------
(***************************************************************************)
(* What a WorkerPipeline promises to its callers (the contract stated in   *)
(* include/driveflow/runtime/worker_pipeline.hpp), without threads, locks  *)
(* or condition variables: a bounded sink takes packets while it is open,  *)
(* completes every packet it took exactly once, and finishes only after it *)
(* has been closed and everything it took is complete.                     *)
(***************************************************************************)
EXTENDS Naturals, FiniteSets

CONSTANTS
  Packets,          \* every packet that may be submitted
  Bound             \* packets the sink can hold at one time

VARIABLES
  pending,          \* packets accepted and not yet complete
  completed,        \* packets whose processing ended (normally or not)
  open,             \* packets are still accepted
  finished          \* some stop() has returned (or construction has thrown)

vars == <<pending, completed, open, finished>>

Init ==
  /\ pending = {}
  /\ completed = {}
  /\ open = TRUE
  /\ finished = FALSE

Accept(k) ==
  /\ open
  /\ k \notin pending \cup completed
  /\ Cardinality(pending) < Bound
  /\ pending' = pending \cup {k}
  /\ UNCHANGED <<completed, open, finished>>

Complete(k) ==
  /\ k \in pending
  /\ pending' = pending \ {k}
  /\ completed' = completed \cup {k}
  /\ UNCHANGED <<open, finished>>

Close ==
  /\ open' = FALSE
  /\ UNCHANGED <<pending, completed, finished>>

Finish ==
  /\ ~open
  /\ pending = {}
  /\ finished' = TRUE
  /\ UNCHANGED <<pending, completed, open>>

Next ==
  \/ \E k \in Packets : Accept(k)
  \/ \E k \in Packets : Complete(k)
  \/ Close
  \/ Finish

\* The safety part of the contract.
SafeSpec == Init /\ [][Next]_vars

\* The liveness part: accepted work is completed, and a close finishes.
Spec ==
  /\ SafeSpec
  /\ \A k \in Packets : WF_vars(Complete(k))
  /\ WF_vars(Finish)
=============================================================================
