--------------------------- MODULE WorkerPipeline ---------------------------
(***************************************************************************)
(* driveflow::runtime::WorkerPipeline (src/runtime/worker_pipeline.cpp): a *)
(* bounded queue in front of a fixed set of worker threads, with one       *)
(* mutex and condition variable for the queue (state_mutex_,               *)
(* work_available_) and one mutex that serialises stop (lifecycle_mutex_). *)
(*                                                                         *)
(* A section run under state_mutex_ is one action: nothing in it blocks    *)
(* except the condition-variable wait, which releases the mutex.  The      *)
(* notify_one and notify_all that follow a section after the mutex is      *)
(* released are actions of their own, so every other thread may run in     *)
(* between.  A notified thread only becomes ready: it evaluates the wait   *)
(* predicate again once it holds the mutex.                                *)
(***************************************************************************)
EXTENDS Integers, Sequences, FiniteSets, Functions

CONSTANTS
  WorkerCount,      \* WorkerPipelineConfig::worker_count
  QueueCapacity,    \* WorkerPipelineConfig::queue_capacity
  Producers,        \* threads that call try_submit
  Stoppers,         \* threads that call stop, each once
  Owner,            \* the thread that constructs and destroys the pipeline
  MaxSubmits        \* bound: calls of try_submit in one behaviour

\* validate_config rejects a zero worker count and a zero capacity.
ASSUME ConfigAssumption ==
  /\ WorkerCount \in Nat \ {0}
  /\ QueueCapacity \in Nat \ {0}

ASSUME ThreadAssumption ==
  /\ IsFiniteSet(Producers)
  /\ Owner \notin Stoppers
  /\ MaxSubmits \in Nat

Workers == 1..WorkerCount           \* indices of workers_
Callers == Stoppers \cup {Owner}    \* threads that run request_stop
Packets == 1..MaxSubmits            \* accepted packets, numbered in order

VARIABLES
  queue,            \* queue_
  accepting,        \* accepting_
  stop_requested,   \* stop_requested_
  metrics,          \* metrics_
  lifecycle,        \* the caller that holds lifecycle_mutex_, as a set
  spawned,          \* workers_.size()
  joinable,         \* the workers whose std::thread is joinable
  wstate,           \* where each worker thread is in worker_loop
  holding,          \* the packet a worker is processing, 0 for none
  pstate,           \* where each producer is in try_submit
  cstate,           \* where each caller is in the constructor, stop or ~
  joined,           \* per caller: position in the loop of join_workers
  snapshot,         \* per caller: the metrics its stop() returned
  completed         \* history: packets whose processor call has ended

guarded == <<queue, accepting, stop_requested, metrics>>
threads == <<spawned, joinable>>
threadVars == <<wstate, holding, pstate, cstate, joined>>
history == <<snapshot, completed>>
vars == <<guarded, lifecycle, threads, threadVars, history>>

Metrics ==
  [submitted : Nat, processed : Nat, dropped_queue_full : Nat,
   rejected_stopped : Nat, handler_failures : Nat,
   queue_high_watermark : Nat]

ZeroMetrics ==
  [submitted |-> 0, processed |-> 0, dropped_queue_full |-> 0,
   rejected_stopped |-> 0, handler_failures |-> 0,
   queue_high_watermark |-> 0]

MaxOf(a, b) == IF a >= b THEN a ELSE b

Waiting == {w \in Workers : wstate[w] = "waiting"}
Ready == {w \in Workers : wstate[w] = "ready"}
Running == {w \in Workers : wstate[w] = "running"}
Notifying == {p \in Producers : pstate[p] = "notify"}
Attempts == metrics.submitted + metrics.dropped_queue_full
              + metrics.rejected_stopped

Init ==
  /\ queue = <<>>
  /\ accepting = TRUE
  /\ stop_requested = FALSE
  /\ metrics = ZeroMetrics
  /\ lifecycle = {}
  /\ spawned = 0
  /\ joinable = {}
  /\ wstate = [w \in Workers |-> "unborn"]
  /\ holding = [w \in Workers |-> 0]
  /\ pstate = [p \in Producers |-> "idle"]
  /\ cstate = [c \in Callers |-> IF c = Owner THEN "spawn" ELSE "idle"]
  /\ joined = [c \in Callers |-> 0]
  /\ snapshot = [c \in Callers |-> ZeroMetrics]
  /\ completed = {}

-----------------------------------------------------------------------------
(* Control state.  What a step leaves alone is named by the tuples above.  *)

CallerMoves(c, from, to) ==
  cstate[c] = from /\ cstate' = [cstate EXCEPT ![c] = to]

WorkerMoves(w, from, to) ==
  wstate[w] = from /\ wstate' = [wstate EXCEPT ![w] = to]

OnlyCallerMoves(c, from, to) ==
  /\ CallerMoves(c, from, to)
  /\ UNCHANGED <<guarded, lifecycle, threads, wstate, holding, pstate,
                 joined, history>>

OnlyWorkerMoves(w, from, to) ==
  /\ WorkerMoves(w, from, to)
  /\ UNCHANGED <<guarded, lifecycle, threads, holding, pstate, cstate,
                 joined, history>>

-----------------------------------------------------------------------------
(* The constructor.  A worker may run as soon as its thread is created.    *)

SpawnWorker ==
  /\ cstate[Owner] = "spawn"
  /\ spawned < WorkerCount
  /\ spawned' = spawned + 1
  /\ joinable' = joinable \cup {spawned + 1}
  /\ wstate' = [wstate EXCEPT ![spawned + 1] = "ready"]
  /\ UNCHANGED <<guarded, lifecycle, holding, pstate, cstate, joined,
                 history>>

ConstructorReturns ==
  spawned = WorkerCount /\ OnlyCallerMoves(Owner, "spawn", "open")

\* Faulty variant: the catch block joins without requesting stop.
SpawnFailsSilently ==
  spawned < WorkerCount /\ OnlyCallerMoves(Owner, "spawn", "join")

\* Creating a thread throws: the catch block requests stop, without
\* lifecycle_mutex_, and joins the threads created so far.
SpawnFails ==
  spawned < WorkerCount /\ OnlyCallerMoves(Owner, "spawn", "request")

\* Faulty variant: the constructor rethrows before it has joined every thread.
RethrowsWithoutJoin ==
  spawned < WorkerCount /\ OnlyCallerMoves(Owner, "join", "thrown")

ConstructorRethrows ==
  /\ spawned < WorkerCount
  /\ joined[Owner] = spawned
  /\ OnlyCallerMoves(Owner, "join", "thrown")

-----------------------------------------------------------------------------
(* try_submit.  Calls are made between construction and destruction.       *)

CanSubmit(p) ==
  /\ cstate[Owner] = "open"
  /\ pstate[p] = "idle"
  /\ Attempts < MaxSubmits

\* The packet is turned away: only a counter changes.
OnlyMetrics ==
  UNCHANGED <<queue, accepting, stop_requested, lifecycle, threads,
              threadVars, history>>

SubmitStopped(p) ==
  /\ CanSubmit(p)
  /\ ~accepting
  /\ metrics' = [metrics EXCEPT !.rejected_stopped = @ + 1]
  /\ OnlyMetrics

SubmitQueueFull(p) ==
  /\ CanSubmit(p)
  /\ accepting
  /\ Len(queue) >= QueueCapacity
  /\ metrics' = [metrics EXCEPT !.dropped_queue_full = @ + 1]
  /\ OnlyMetrics

\* The producer leaves the section with the packet queued.
Enqueue(p, then) ==
  /\ CanSubmit(p)
  /\ accepting
  /\ Len(queue) < QueueCapacity
  /\ queue' = Append(queue, metrics.submitted + 1)
  /\ metrics' = [metrics EXCEPT
                   !.submitted = @ + 1,
                   !.queue_high_watermark = MaxOf(@, Len(queue) + 1)]
  /\ pstate' = [pstate EXCEPT ![p] = then]
  /\ UNCHANGED <<accepting, stop_requested, lifecycle, threads, wstate,
                 holding, cstate, joined, history>>

\* Faulty variant: notify only when the queue was empty.
SubmitNotifiesIfEmpty(p) ==
  Enqueue(p, IF queue = <<>> THEN "notify" ELSE "idle")

SubmitAccepted(p) == Enqueue(p, "notify")

\* notify_one wakes one of the waiting workers, if there is one.
NotifyOne(p) ==
  /\ pstate[p] = "notify"
  /\ pstate' = [pstate EXCEPT ![p] = "idle"]
  /\ \/ \E w \in Waiting : wstate' = [wstate EXCEPT ![w] = "ready"]
     \/ Waiting = {} /\ UNCHANGED wstate
  /\ UNCHANGED <<guarded, lifecycle, threads, holding, cstate, joined,
                 history>>

-----------------------------------------------------------------------------
(* stop, request_stop, join_workers and the destructor.                    *)

CallStop(c) ==
  /\ c \in Stoppers
  /\ cstate[Owner] = "open"
  /\ OnlyCallerMoves(c, "idle", "called")

\* Faulty variant: stop does not take lifecycle_mutex_.
StopWithoutLock(c) ==
  /\ CallerMoves(c, "called", "request")
  /\ lifecycle' = {c}
  /\ UNCHANGED <<guarded, threads, wstate, holding, pstate, joined, history>>

LockLifecycle(c) ==
  /\ CallerMoves(c, "called", "request")
  /\ lifecycle = {}
  /\ lifecycle' = {c}
  /\ UNCHANGED <<guarded, threads, wstate, holding, pstate, joined, history>>

\* The owner destroys the pipeline after every call on it has returned.
EnterDestructor ==
  /\ Notifying = {}
  /\ \A c \in Stoppers : cstate[c] \in {"idle", "returned"}
  /\ OnlyCallerMoves(Owner, "open", "called")

\* Faulty variant: accepting_ is not cleared.
RequestStopStillOpen(c) ==
  /\ CallerMoves(c, "request", "notify")
  /\ stop_requested' = TRUE
  /\ UNCHANGED <<queue, accepting, metrics, lifecycle, threads, wstate,
                 holding, pstate, joined, history>>

RequestStop(c) ==
  /\ CallerMoves(c, "request", "notify")
  /\ accepting' = FALSE
  /\ stop_requested' = TRUE
  /\ UNCHANGED <<queue, metrics, lifecycle, threads, wstate, holding, pstate,
                 joined, history>>

NotifyAll(c) ==
  /\ CallerMoves(c, "notify", "join")
  /\ wstate' = [w \in Workers |->
                  IF w \in Waiting THEN "ready" ELSE wstate[w]]
  /\ UNCHANGED <<guarded, lifecycle, threads, holding, pstate, joined,
                 history>>

\* join() returns when the thread has exited, and is not called on a thread
\* that an earlier stop joined.
JoinNext(c) ==
  /\ cstate[c] = "join"
  /\ LET w == joined[c] + 1 IN
       /\ w \in joinable => wstate[w] = "exited"
       /\ joinable' = joinable \ {w}
       /\ joined' = [joined EXCEPT ![c] = w]
  /\ UNCHANGED <<guarded, lifecycle, spawned, wstate, holding, pstate,
                 cstate, history>>

\* Faulty variant: the loop runs past the last thread.
JoinPastEnd(c) == joined[c] <= spawned /\ JoinNext(c)

\* One iteration of join_workers.
JoinWorker(c) == joined[c] < spawned /\ JoinNext(c)

\* The metrics are copied under both mutexes; the destructor drops them.
CopyMetrics(c) ==
  /\ spawned = WorkerCount
  /\ CallerMoves(c, "join", IF c = Owner THEN "destroyed" ELSE "returned")
  /\ snapshot' = [snapshot EXCEPT ![c] = metrics]
  /\ lifecycle' = {}
  /\ UNCHANGED <<guarded, threads, wstate, holding, pstate, joined,
                 completed>>

\* Faulty variant: stop returns without joining.
StopReturnsEarly(c) == CopyMetrics(c)

StopReturns(c) == joined[c] = spawned /\ CopyMetrics(c)

-----------------------------------------------------------------------------
(* worker_loop.                                                            *)

WorkerTakes(w) ==
  /\ WorkerMoves(w, "ready", "running")
  /\ queue # <<>>
  /\ holding' = [holding EXCEPT ![w] = Head(queue)]
  /\ queue' = Tail(queue)
  /\ UNCHANGED <<accepting, stop_requested, metrics, lifecycle, threads,
                 pstate, cstate, joined, history>>

\* Faulty variant: a stop does not wait for the queue to drain.
ExitsUndrained(w) == stop_requested /\ OnlyWorkerMoves(w, "ready", "exited")

\* Faulty variant: an empty queue ends the worker.
ExitsWhenIdle(w) == queue = <<>> /\ OnlyWorkerMoves(w, "ready", "exited")

WorkerExits(w) ==
  queue = <<>> /\ stop_requested /\ OnlyWorkerMoves(w, "ready", "exited")

WorkerWaits(w) ==
  queue = <<>> /\ ~stop_requested /\ OnlyWorkerMoves(w, "ready", "waiting")

\* A condition variable may wake a thread that nobody notified.
SpuriousWakeup(w) == OnlyWorkerMoves(w, "waiting", "ready")

\* The processor call has ended and its outcome is counted.
EndPacket(w, then) ==
  /\ WorkerMoves(w, "running", then)
  /\ completed' = completed \cup {holding[w]}
  /\ holding' = [holding EXCEPT ![w] = 0]
  /\ UNCHANGED <<queue, accepting, stop_requested, lifecycle, threads,
                 pstate, cstate, joined, snapshot>>

FinishPacket(w) == EndPacket(w, "ready")

PacketProcessed(w) ==
  FinishPacket(w) /\ metrics' = [metrics EXCEPT !.processed = @ + 1]

\* Faulty variant: a failure is not counted.
FailureUncounted(w) == FinishPacket(w) /\ UNCHANGED metrics

\* Faulty variant: an exception of the processor ends the worker.
FailureEndsWorker(w) ==
  EndPacket(w, "exited") /\ metrics' = [metrics EXCEPT !.handler_failures = @ + 1]

HandlerFails(w) ==
  FinishPacket(w) /\ metrics' = [metrics EXCEPT !.handler_failures = @ + 1]

-----------------------------------------------------------------------------
Terminated ==
  /\ cstate[Owner] \in {"thrown", "destroyed"}
  /\ UNCHANGED vars

Construct ==
  SpawnWorker \/ ConstructorReturns \/ SpawnFails \/ ConstructorRethrows

Submit(p) == SubmitStopped(p) \/ SubmitQueueFull(p) \/ SubmitAccepted(p)

Stop(c) ==
  \/ LockLifecycle(c) \/ RequestStop(c) \/ NotifyAll(c)
  \/ JoinWorker(c) \/ StopReturns(c)

Finish(w) == PacketProcessed(w) \/ HandlerFails(w)

Work(w) == WorkerTakes(w) \/ WorkerExits(w) \/ WorkerWaits(w) \/ Finish(w)

Next ==
  \/ Construct
  \/ \E p \in Producers : Submit(p) \/ NotifyOne(p)
  \/ EnterDestructor
  \/ \E c \in Callers : CallStop(c) \/ Stop(c)
  \/ \E w \in Workers : Work(w) \/ SpuriousWakeup(w)
  \/ Terminated

\* Threads inside a call keep running, and so do the workers: a processor
\* call is assumed to end.  Nobody has to call try_submit, stop or the
\* destructor, and threads need not wake spuriously.
Fairness ==
  /\ WF_vars(Construct)
  /\ \A p \in Producers : WF_vars(NotifyOne(p))
  /\ \A c \in Callers : WF_vars(Stop(c))
  /\ \A w \in Workers : WF_vars(Work(w))

SafeSpec == Init /\ [][Next]_vars
Spec == SafeSpec /\ Fairness
-----------------------------------------------------------------------------
(* Properties.                                                             *)

TypeOK ==
  /\ queue \in Seq(Nat)
  /\ accepting \in BOOLEAN
  /\ stop_requested \in BOOLEAN
  /\ metrics \in Metrics
  /\ lifecycle \subseteq Callers
  /\ spawned \in 0..WorkerCount
  /\ joinable \subseteq Workers
  /\ wstate \in [Workers ->
       {"unborn", "ready", "waiting", "running", "exited"}]
  /\ holding \in [Workers -> Nat]
  /\ pstate \in [Producers -> {"idle", "notify"}]
  /\ cstate \in [Callers ->
       {"idle", "called", "request", "notify", "join", "returned",
        "spawn", "open", "thrown", "destroyed"}]
  /\ joined \in [Callers -> 0..WorkerCount]
  /\ snapshot \in [Callers -> Metrics]
  /\ completed \subseteq Nat

\* try_submit notifies after it has released the mutex, and a notification
\* that finds no waiter is lost.  Even so, while some worker sleeps, every
\* queued packet has a worker about to look at the queue or a notification
\* still to come: no worker sleeps through work meant for it.
NoLostWakeup ==
  Waiting # {} =>
    Len(queue) <= Cardinality(Ready) + Cardinality(Notifying)

\* request_stop sets the flag under the mutex and notifies after it: once
\* stop is requested, a worker asleep in the wait is about to be woken by
\* the notify_all of some caller, so join_workers cannot hang on it.
StopReachesSleepers ==
  stop_requested /\ Waiting # {} => \E c \in Callers : cstate[c] = "notify"

\* The two halves of the wakeup argument of the condition variable: nobody
\* sleeps through work, and nobody sleeps through a stop.
WakeupsReachWorkers == NoLostWakeup /\ StopReachesSleepers

\* Every accepted packet is in exactly one place (waiting in the queue, held
\* by one worker, or complete), completion is counted once per packet, and
\* the queue holds the latest packets in the order of acceptance.
Conservation ==
  /\ completed \cup {holding[w] : w \in Running} \cup Range(queue)
       = 1..metrics.submitted
  /\ \A w \in Running : holding[w] \notin completed
  /\ \A v, w \in Running : holding[v] = holding[w] => v = w
  /\ metrics.processed + metrics.handler_failures = Cardinality(completed)
  /\ \A i \in 1..Len(queue) :
       queue[i] = metrics.submitted - Len(queue) + i

\* queue_high_watermark is the largest queue length so far, within capacity:
\* it bounds the present length and never passes what was accepted.
WatermarkBounds ==
  /\ Len(queue) <= metrics.queue_high_watermark
  /\ metrics.queue_high_watermark <= QueueCapacity
  /\ metrics.queue_high_watermark <= metrics.submitted

\* The header's "kAccepted: the packet will be processed before stop()
\* finishes": when a stop() has returned, whatever else is still running,
\* every packet ever accepted is complete and every worker has exited.
DrainedWhenStopped ==
  (\E c \in Callers : cstate[c] \in {"returned", "destroyed"}) =>
    /\ completed = 1..metrics.submitted
    /\ \A w \in Workers : wstate[w] = "exited"

\* stop() "returns a stable metrics snapshot" and is idempotent: a snapshot
\* accounts for every accepted packet, and differs from the live counters,
\* hence from what any other stop() returns, only in the late rejections.
StableSnapshot ==
  \A c \in Callers : cstate[c] \in {"returned", "destroyed"} =>
    /\ snapshot[c].submitted
         = snapshot[c].processed + snapshot[c].handler_failures
    /\ snapshot[c].rejected_stopped <= metrics.rejected_stopped
    /\ [snapshot[c] EXCEPT !.rejected_stopped = metrics.rejected_stopped]
         = metrics

\* The members of the pipeline (condition variable, queue, std::threads) are
\* destroyed only when no thread can touch them: also when a constructor
\* that failed to create all its threads throws.
QuiescentAtDestruction ==
  cstate[Owner] \in {"thrown", "destroyed"} =>
    /\ joinable = {}
    /\ \A w \in Workers : wstate[w] \in {"unborn", "exited"}
    /\ queue = <<>>
    /\ Notifying = {}

\* std::thread::join may be called once per thread: no two callers walk the
\* loop of join_workers at the same time.
JoinIsExclusive ==
  \A c, d \in Callers :
    cstate[c] = "join" /\ cstate[d] = "join" => c = d

\* A worker leaves its loop only for good: nothing enters the queue and no
\* worker goes to sleep after a worker has exited.
ExitIsFinal ==
  [][(\E w \in Workers : wstate[w] = "exited") =>
       /\ queue' = <<>>
       /\ Waiting' \subseteq Waiting]_vars

\* Every stop() and destructor returns, although callers block on
\* lifecycle_mutex_ and on workers that sleep, process or throw; and a
\* constructor that cannot create all its threads throws instead of waiting
\* for ever for the workers it did create.
CallsReturn ==
  /\ \A c \in Callers :
       cstate[c] = "called" ~> cstate[c] \in {"returned", "destroyed"}
  /\ cstate[Owner] = "spawn" ~> cstate[Owner] \in {"open", "thrown"}

-----------------------------------------------------------------------------
(* The pipeline implements the sink its header promises.                   *)

Held == {holding[w] : w \in Running}
SomeoneFinished ==
  \E c \in Callers : cstate[c] \in {"returned", "thrown", "destroyed"}

Sink == INSTANCE DrainingSink WITH
  Packets <- Packets,
  Bound <- QueueCapacity + WorkerCount,
  pending <- Range(queue) \cup Held,
  completed <- completed,
  open <- accepting,
  finished <- SomeoneFinished

\* The safety half of the contract, with all threads interleaved.
ImplementsSink == Sink!SafeSpec

\* The whole contract, including that work completes and stop finishes.
ImplementsLiveSink == Sink!Spec
=============================================================================
