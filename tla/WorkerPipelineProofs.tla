------------------------ MODULE WorkerPipelineProofs ------------------------
(***************************************************************************)
(* Proofs about WorkerPipeline, for every worker count, queue capacity,    *)
(* set of producers and set of stoppers.  The inductive invariant is built *)
(* in layers, each proved with the help of the ones below it: types,       *)
(* control state, wakeups, packets, snapshots.                             *)
(***************************************************************************)
EXTENDS WorkerPipeline, FiniteSetTheorems, TLAPS

Stopping == {"request", "notify", "join"}
Finished == {"returned", "thrown", "destroyed"}

\* Which thread may be where: the owner and the stoppers use different
\* states, the constructor runs alone, the destructor runs after every call
\* has returned, and lifecycle_mutex_ separates concurrent stops.
ControlInv ==
  /\ accepting <=> ~stop_requested
  /\ cstate[Owner] \notin {"idle", "returned"}
  /\ \A c \in Stoppers :
       cstate[c] \notin {"spawn", "open", "thrown", "destroyed"}
  /\ cstate[Owner] # "open" =>
       /\ \A p \in Producers : pstate[p] = "idle"
       /\ \A c \in Stoppers : cstate[c] \in {"idle", "returned"}
  /\ cstate[Owner] = "spawn" \/ spawned < WorkerCount =>
       \A c \in Stoppers : cstate[c] = "idle"
  /\ cstate[Owner] \in {"open", "called", "destroyed"} =>
       spawned = WorkerCount
  /\ cstate[Owner] = "thrown" => spawned < WorkerCount
  /\ cstate[Owner] = "spawn" => metrics.submitted = 0
  /\ spawned < WorkerCount => metrics.submitted = 0
  /\ \A c \in Callers :
       cstate[c] \in Stopping /\ spawned = WorkerCount => lifecycle = {c}
  /\ \A c \in Callers :
       cstate[c] \in {"notify", "join"} \cup Finished => stop_requested

\* Threads: which exist, which are joined, and that a joined one has exited.
JoinInv ==
  /\ \A w \in Workers : wstate[w] = "unborn" <=> w > spawned
  /\ \A w \in Workers : w <= spawned /\ w \notin joinable =>
       wstate[w] = "exited"
  /\ \A w \in joinable : w <= spawned
  /\ \A c \in Callers :
       /\ joined[c] <= spawned
       /\ \A w \in Workers : w <= joined[c] => w \notin joinable
       /\ cstate[c] \in Finished => joined[c] = spawned

\* A worker exits only once stop is requested and the queue is empty, and
\* from then on nothing enters the queue.
ExitInv ==
  \A w \in Workers : wstate[w] = "exited" => stop_requested /\ queue = <<>>

\* The packets already handed to a worker are 1..Taken.
Taken == metrics.submitted - Len(queue)

QueueInv ==
  /\ Len(queue) <= metrics.submitted
  /\ Attempts <= MaxSubmits
  /\ \A i \in 1..Len(queue) : queue[i] = Taken + i
  /\ WatermarkBounds

HolderInv ==
  /\ completed \subseteq 1..Taken
  /\ \A w \in Running : holding[w] \in (1..Taken) \ completed
  /\ \A v, w \in Running : holding[v] = holding[w] => v = w
  /\ \A k \in 1..Taken : k \in completed \/ \E w \in Running : holding[w] = k

CountInv ==
  /\ IsFiniteSet(completed)
  /\ Cardinality(completed) = metrics.processed + metrics.handler_failures

USE DEF Workers, Callers, guarded, threads, history, CallerMoves, WorkerMoves,
        OnlyCallerMoves, OnlyWorkerMoves, OnlyMetrics, Enqueue, JoinNext,
        CopyMetrics, EndPacket

-----------------------------------------------------------------------------
\* What the configuration guarantees about the numbers of threads.
LEMMA Config ==
  /\ WorkerCount \in Nat /\ WorkerCount >= 1
  /\ QueueCapacity \in Nat /\ QueueCapacity >= 1
  /\ MaxSubmits \in Nat
  /\ Owner \in Callers
  /\ Owner \notin Stoppers
  /\ IsFiniteSet(Workers) /\ Cardinality(Workers) = WorkerCount
BY ConfigAssumption, ThreadAssumption, FS_Interval

\* The fields of the metrics record are natural numbers.
LEMMA MetricsFields ==
  ASSUME NEW m \in Metrics
  PROVE  /\ m.submitted \in Nat
         /\ m.processed \in Nat
         /\ m.dropped_queue_full \in Nat
         /\ m.rejected_stopped \in Nat
         /\ m.handler_failures \in Nat
         /\ m.queue_high_watermark \in Nat
BY DEF Metrics

\* Counting a rejection keeps the metrics record well typed (try_submit
\* after stop).
LEMMA MetricsRejected ==
  ASSUME NEW m \in Metrics
  PROVE  [m EXCEPT !.rejected_stopped = @ + 1] \in Metrics
BY DEF Metrics

\* Counting a drop keeps the metrics record well typed (try_submit on a full
\* queue).
LEMMA MetricsDropped ==
  ASSUME NEW m \in Metrics
  PROVE  [m EXCEPT !.dropped_queue_full = @ + 1] \in Metrics
BY DEF Metrics

\* Counting a processed packet keeps the metrics record well typed.
LEMMA MetricsProcessed ==
  ASSUME NEW m \in Metrics
  PROVE  [m EXCEPT !.processed = @ + 1] \in Metrics
BY DEF Metrics

\* Counting a handler failure keeps the metrics record well typed.
LEMMA MetricsFailed ==
  ASSUME NEW m \in Metrics
  PROVE  [m EXCEPT !.handler_failures = @ + 1] \in Metrics
BY DEF Metrics

\* Counting an accepted packet and raising the high watermark keeps the
\* metrics record well typed.
LEMMA MetricsAccepted ==
  ASSUME NEW m \in Metrics, NEW k \in Nat, NEW n \in Nat
  PROVE  [m EXCEPT !.submitted = k, !.queue_high_watermark = n] \in Metrics
BY DEF Metrics

\* The variables keep their types in every step of the pipeline.
THEOREM Typing == SafeSpec => []TypeOK
<1>1. Init => TypeOK
  <2>1. ZeroMetrics \in Metrics
    BY DEF ZeroMetrics, Metrics
  <2>2. <<>> \in Seq(Nat)
    OBVIOUS
  <2>3. 0 \in 0..WorkerCount
    BY Config
  <2> SUFFICES ASSUME Init PROVE TypeOK
    OBVIOUS
  <2>4. cstate \in [Callers -> {"spawn", "idle"}]
    BY DEF Init
  <2>5. /\ queue \in Seq(Nat)
        /\ accepting \in BOOLEAN
        /\ stop_requested \in BOOLEAN
    BY <2>2 DEF Init
  <2>6. /\ metrics \in Metrics
        /\ snapshot \in [Callers -> Metrics]
    BY <2>1 DEF Init
  <2> QED BY <2>3, <2>4, <2>5, <2>6 DEF Init, TypeOK
<1>2. TypeOK /\ [Next]_vars => TypeOK'
  <2> SUFFICES ASSUME TypeOK, [Next]_vars PROVE TypeOK'
    OBVIOUS
  <2> USE DEF TypeOK
  <2>1. CASE SpawnWorker
    <3>1. spawned + 1 \in 1..WorkerCount
      BY <2>1, Config DEF SpawnWorker
    <3> QED BY <2>1, <3>1 DEF SpawnWorker
  <2>2. CASE ConstructorReturns \/ SpawnFails \/ ConstructorRethrows
    BY <2>2 DEF ConstructorReturns, SpawnFails, ConstructorRethrows
  <2>3. ASSUME NEW p \in Producers, SubmitStopped(p) PROVE TypeOK'
    BY <2>3, MetricsRejected DEF SubmitStopped, threadVars
  <2>4. ASSUME NEW p \in Producers, SubmitQueueFull(p) PROVE TypeOK'
    BY <2>4, MetricsDropped DEF SubmitQueueFull, threadVars
  <2>5. ASSUME NEW p \in Producers, SubmitAccepted(p) PROVE TypeOK'
    <3>1. metrics.submitted \in Nat /\ metrics.queue_high_watermark \in Nat
      BY MetricsFields
    <3>2. queue' \in Seq(Nat)
      BY <2>5, <3>1 DEF SubmitAccepted
    <3>3. MaxOf(metrics.queue_high_watermark, Len(queue) + 1) \in Nat
      BY <3>1 DEF MaxOf
    <3>4. metrics' \in Metrics
      <4> DEFINE k == metrics.submitted + 1
                 n == MaxOf(metrics.queue_high_watermark, Len(queue) + 1)
      <4>1. metrics' = [metrics EXCEPT !.submitted = k,
                                       !.queue_high_watermark = n]
        BY <2>5 DEF SubmitAccepted
      <4>2. k \in Nat /\ n \in Nat
        BY <3>1, <3>3
      <4> HIDE DEF k, n
      <4> QED BY <4>1, <4>2, MetricsAccepted
    <3> QED BY <2>5, <3>2, <3>4 DEF SubmitAccepted
  <2>6. ASSUME NEW p \in Producers, NotifyOne(p) PROVE TypeOK'
    BY <2>6 DEF NotifyOne, Waiting
  <2>7. CASE EnterDestructor
    BY <2>7 DEF EnterDestructor
  <2>8. ASSUME NEW c \in Callers, CallStop(c) PROVE TypeOK'
    BY <2>8 DEF CallStop
  <2>9. ASSUME NEW c \in Callers, LockLifecycle(c) PROVE TypeOK'
    BY <2>9 DEF LockLifecycle
  <2>10. ASSUME NEW c \in Callers, RequestStop(c) PROVE TypeOK'
    BY <2>10 DEF RequestStop
  <2>11. ASSUME NEW c \in Callers, NotifyAll(c) PROVE TypeOK'
    BY <2>11 DEF NotifyAll, Waiting
  <2>12. ASSUME NEW c \in Callers, JoinWorker(c) PROVE TypeOK'
    <3>1. joined[c] + 1 \in 0..WorkerCount
      BY <2>12, Config DEF JoinWorker
    <3> QED BY <2>12, <3>1 DEF JoinWorker
  <2>13. ASSUME NEW c \in Callers, StopReturns(c) PROVE TypeOK'
    BY <2>13 DEF StopReturns
  <2>14. ASSUME NEW w \in Workers, WorkerTakes(w) PROVE TypeOK'
    <3>1. Tail(queue) \in Seq(Nat) /\ Head(queue) \in Nat
      BY <2>14 DEF WorkerTakes
    <3> QED BY <2>14, <3>1 DEF WorkerTakes
  <2>15. ASSUME NEW w \in Workers,
                WorkerExits(w) \/ WorkerWaits(w) \/ SpuriousWakeup(w)
         PROVE  TypeOK'
    BY <2>15 DEF WorkerExits, WorkerWaits, SpuriousWakeup
  <2>16. ASSUME NEW w \in Workers, Finish(w) PROVE TypeOK'
    <3>1. metrics' \in Metrics
      BY <2>16, MetricsProcessed, MetricsFailed
      DEF Finish, PacketProcessed, HandlerFails
    <3>2. FinishPacket(w)
      BY <2>16 DEF Finish, PacketProcessed, HandlerFails
    <3> QED BY <3>1, <3>2 DEF FinishPacket
  <2>17. CASE UNCHANGED vars
    BY <2>17 DEF vars, threadVars
  <2> QED
    BY <2>1, <2>2, <2>3, <2>4, <2>5, <2>6, <2>7, <2>8, <2>9, <2>10, <2>11,
       <2>12, <2>13, <2>14, <2>15, <2>16, <2>17
    DEF Next, Construct, Submit, Stop, Work, Terminated
<1> QED BY <1>1, <1>2, PTL DEF SafeSpec

\* One constructor, one destructor, and stops that exclude one another.
THEOREM Control == SafeSpec => []ControlInv
<1>1. Init => ControlInv
  BY Config DEF Init, ControlInv, ZeroMetrics, Stopping, Finished
<1>2. TypeOK /\ ControlInv /\ [Next]_vars => ControlInv'
  <2> SUFFICES ASSUME TypeOK, ControlInv, [Next]_vars PROVE ControlInv'
    OBVIOUS
  <2>0. /\ DOMAIN cstate = Callers
        /\ DOMAIN pstate = Producers
        /\ spawned \in 0..WorkerCount
        /\ metrics \in Metrics
        /\ WorkerCount \in Nat /\ WorkerCount >= 1
        /\ Owner \in Callers
        /\ Owner \notin Stoppers
    BY Config DEF TypeOK
  <2> USE <2>0 DEF ControlInv, Stopping, Finished
  <2>1. CASE SpawnWorker
    BY <2>1 DEF SpawnWorker
  <2>2. CASE ConstructorReturns
    BY <2>2 DEF ConstructorReturns
  <2>3. CASE SpawnFails
    BY <2>3 DEF SpawnFails
  <2>4. CASE ConstructorRethrows
    BY <2>4 DEF ConstructorRethrows
  <2>5. ASSUME NEW p \in Producers, SubmitStopped(p) \/ SubmitQueueFull(p)
        PROVE  ControlInv'
    <3>1. metrics.submitted' = metrics.submitted
      BY <2>5 DEF SubmitStopped, SubmitQueueFull, Metrics
    <3> QED BY <2>5, <3>1 DEF SubmitStopped, SubmitQueueFull, threadVars
  <2>6. ASSUME NEW p \in Producers, SubmitAccepted(p) PROVE ControlInv'
    BY <2>6 DEF SubmitAccepted, CanSubmit
  <2>7. ASSUME NEW p \in Producers, NotifyOne(p) PROVE ControlInv'
    BY <2>7 DEF NotifyOne
  <2>8. CASE EnterDestructor
    BY <2>8 DEF EnterDestructor, Notifying, TypeOK
  <2>9. ASSUME NEW c \in Callers, CallStop(c) PROVE ControlInv'
    BY <2>9 DEF CallStop
  <2>10. ASSUME NEW c \in Callers, LockLifecycle(c) PROVE ControlInv'
    BY <2>10 DEF LockLifecycle
  <2>11. ASSUME NEW c \in Callers, RequestStop(c) PROVE ControlInv'
    BY <2>11 DEF RequestStop
  <2>12. ASSUME NEW c \in Callers, NotifyAll(c) PROVE ControlInv'
    BY <2>12 DEF NotifyAll
  <2>13. ASSUME NEW c \in Callers, JoinWorker(c) PROVE ControlInv'
    BY <2>13 DEF JoinWorker
  <2>14. ASSUME NEW c \in Callers, StopReturns(c) PROVE ControlInv'
    BY <2>14 DEF StopReturns
  <2>15. ASSUME NEW w \in Workers,
                \/ WorkerTakes(w) \/ WorkerExits(w) \/ WorkerWaits(w)
                \/ SpuriousWakeup(w)
         PROVE  ControlInv'
    BY <2>15 DEF WorkerTakes, WorkerExits, WorkerWaits, SpuriousWakeup
  <2>16. ASSUME NEW w \in Workers, Finish(w) PROVE ControlInv'
    <3>1. metrics.submitted' = metrics.submitted
      BY <2>16 DEF Finish, PacketProcessed, HandlerFails, Metrics
    <3> QED BY <2>16, <3>1
            DEF Finish, PacketProcessed, HandlerFails, FinishPacket
  <2>17. CASE UNCHANGED vars
    BY <2>17 DEF vars, threadVars
  <2> QED
    BY <2>1, <2>2, <2>3, <2>4, <2>5, <2>6, <2>7, <2>8, <2>9, <2>10, <2>11,
       <2>12, <2>13, <2>14, <2>15, <2>16, <2>17
    DEF Next, Construct, Submit, Stop, Work, Terminated
<1> QED BY <1>1, <1>2, Typing, PTL DEF SafeSpec

\* A std::thread that is no longer joinable belongs to an exited worker, and
\* a finished stop() has walked over all of workers_.
THEOREM Joins == SafeSpec => []JoinInv
<1>1. Init => JoinInv
  BY Config DEF Init, JoinInv, Finished
<1>2. TypeOK /\ ControlInv /\ JoinInv /\ [Next]_vars => JoinInv'
  <2> SUFFICES ASSUME TypeOK, ControlInv, JoinInv, [Next]_vars PROVE JoinInv'
    OBVIOUS
  <2>0. /\ DOMAIN cstate = Callers
        /\ DOMAIN wstate = Workers
        /\ joined \in [Callers -> 0..WorkerCount]
        /\ joinable \subseteq Workers
        /\ spawned \in 0..WorkerCount
        /\ WorkerCount \in Nat
        /\ Owner \in Callers
    BY Config DEF TypeOK
  <2> USE <2>0 DEF JoinInv, Finished
  <2>1. CASE SpawnWorker
    <3>1. \A c \in Callers : cstate[c] \notin Finished
      BY <2>1 DEF SpawnWorker, ControlInv
    <3> DEFINE n == spawned + 1
    <3>2. /\ n \in Workers /\ n > spawned
          /\ spawned' = n
          /\ joinable' = joinable \cup {n}
          /\ wstate' = [wstate EXCEPT ![n] = "ready"]
          /\ UNCHANGED <<joined, cstate>>
      BY <2>1 DEF SpawnWorker
    <3>3. \A w \in Workers : wstate'[w] = "unborn" <=> w > n
      BY <3>2
    <3>4. \A w \in Workers : w <= n /\ w \notin joinable' =>
            wstate'[w] = "exited"
      BY <3>2
    <3>5. \A w \in joinable' : w <= n
      BY <3>2
    <3>6. \A c \in Callers :
            joined[c] <= n /\ \A w \in Workers :
                                 w <= joined[c] => w \notin joinable'
      BY <3>2
    <3> HIDE DEF n
    <3> QED BY <3>1, <3>2, <3>3, <3>4, <3>5, <3>6
  <2>2. CASE ConstructorReturns \/ SpawnFails \/ ConstructorRethrows
    <3>1. CASE ConstructorReturns BY <3>1 DEF ConstructorReturns
    <3>2. CASE SpawnFails BY <3>2 DEF SpawnFails
    <3>3. CASE ConstructorRethrows BY <3>3 DEF ConstructorRethrows
    <3> QED BY <2>2, <3>1, <3>2, <3>3
  <2>3. ASSUME NEW p \in Producers, Submit(p) PROVE JoinInv'
    BY <2>3 DEF Submit, SubmitStopped, SubmitQueueFull, SubmitAccepted,
                threadVars
  <2>4. ASSUME NEW p \in Producers, NotifyOne(p) PROVE JoinInv'
    <3>1. \A w \in Workers :
            \/ wstate'[w] = wstate[w]
            \/ wstate[w] = "waiting" /\ wstate'[w] = "ready"
      <4> HIDE DEF JoinInv
      <4>1. CASE UNCHANGED wstate BY <4>1
      <4>2. ASSUME NEW v \in Waiting, wstate' = [wstate EXCEPT ![v] = "ready"]
            PROVE  \A w \in Workers :
                     \/ wstate'[w] = wstate[w]
                     \/ wstate[w] = "waiting" /\ wstate'[w] = "ready"
        BY <4>2 DEF Waiting
      <4> QED BY <2>4, <4>1, <4>2 DEF NotifyOne
    <3> QED BY <2>4, <3>1 DEF NotifyOne
  <2>5. CASE EnterDestructor
    BY <2>5 DEF EnterDestructor
  <2>6. ASSUME NEW c \in Callers,
               CallStop(c) \/ LockLifecycle(c) \/ RequestStop(c)
        PROVE  JoinInv'
    <3>1. CASE CallStop(c) BY <3>1 DEF CallStop
    <3>2. CASE LockLifecycle(c) BY <3>2 DEF LockLifecycle
    <3>3. CASE RequestStop(c) BY <3>3 DEF RequestStop
    <3> QED BY <2>6, <3>1, <3>2, <3>3
  <2>7. ASSUME NEW c \in Callers, NotifyAll(c) PROVE JoinInv'
    BY <2>7 DEF NotifyAll, Waiting
  <2>8. ASSUME NEW c \in Callers, JoinWorker(c) PROVE JoinInv'
    <3> DEFINE w == joined[c] + 1
    <3>1. /\ w \in Workers
          /\ w <= spawned
          /\ w \in joinable => wstate[w] = "exited"
          /\ joinable' = joinable \ {w}
          /\ joined' = [joined EXCEPT ![c] = w]
          /\ cstate[c] = "join"
          /\ UNCHANGED <<spawned, wstate, cstate>>
      BY <2>8 DEF JoinWorker
    <3>2. joined'[c] = w /\ \A d \in Callers \ {c} : joined'[d] = joined[d]
      BY <3>1
    <3>3. wstate[w] = "exited"
      BY <3>1
    <3>4. \A v \in Workers : v <= w => v \notin joinable'
      BY <3>1
    <3> HIDE DEF w
    <3> QED BY <3>1, <3>2, <3>3, <3>4
  <2>9. ASSUME NEW c \in Callers, StopReturns(c) PROVE JoinInv'
    BY <2>9 DEF StopReturns
  <2>10. ASSUME NEW w \in Workers,
                \/ WorkerTakes(w) \/ WorkerExits(w) \/ WorkerWaits(w)
                \/ SpuriousWakeup(w)
         PROVE  JoinInv'
    <3>1. CASE WorkerTakes(w) BY <3>1 DEF WorkerTakes
    <3>2. CASE WorkerExits(w) BY <3>2 DEF WorkerExits
    <3>3. CASE WorkerWaits(w) BY <3>3 DEF WorkerWaits
    <3>4. CASE SpuriousWakeup(w) BY <3>4 DEF SpuriousWakeup
    <3> QED BY <2>10, <3>1, <3>2, <3>3, <3>4
  <2>11. ASSUME NEW w \in Workers, Finish(w) PROVE JoinInv'
    <3>1. FinishPacket(w)
      BY <2>11 DEF Finish, PacketProcessed, HandlerFails
    <3> QED BY <3>1 DEF FinishPacket
  <2>12. CASE UNCHANGED vars
    BY <2>12 DEF vars, threadVars
  <2> QED
    BY <2>1, <2>2, <2>3, <2>4, <2>5, <2>6, <2>7, <2>8, <2>9, <2>10, <2>11,
       <2>12
    DEF Next, Construct, Stop, Work, Terminated
<1> QED BY <1>1, <1>2, Typing, Control, PTL DEF SafeSpec

\* join_workers is never run by two callers at a time: the ones inside it
\* hold lifecycle_mutex_, or the only one is the constructor's catch block.
THEOREM ExclusiveJoin == SafeSpec => []JoinIsExclusive
<1>1. TypeOK /\ ControlInv => JoinIsExclusive
  <2> SUFFICES ASSUME TypeOK, ControlInv,
                      NEW c \in Callers, NEW d \in Callers,
                      cstate[c] = "join", cstate[d] = "join"
               PROVE  c = d
    BY DEF JoinIsExclusive
  <2>1. CASE spawned = WorkerCount
    <3>1. lifecycle = {c} /\ lifecycle = {d}
      BY <2>1 DEF ControlInv, Stopping
    <3> QED
      BY <3>1
  <2>2. CASE spawned < WorkerCount
    <3>1. c \notin Stoppers /\ d \notin Stoppers
      BY <2>2 DEF ControlInv
    <3> QED
      BY <3>1 DEF Callers
  <2> QED
    BY <2>1, <2>2, Config DEF TypeOK
<1> QED BY <1>1, Typing, Control, PTL


\* Exited workers leave no work behind, and sleepers are told to stop.
THEOREM StopWakesSleepers == SafeSpec => [](ExitInv /\ StopReachesSleepers)
<1>1. Init => ExitInv /\ StopReachesSleepers
  BY DEF Init, ExitInv, StopReachesSleepers
<1>2. TypeOK /\ ControlInv /\ ExitInv /\ StopReachesSleepers /\ [Next]_vars
        => ExitInv' /\ StopReachesSleepers'
  <2> SUFFICES ASSUME TypeOK, ControlInv, ExitInv, StopReachesSleepers,
                      [Next]_vars
               PROVE  ExitInv' /\ StopReachesSleepers'
    OBVIOUS
  <2>0. /\ DOMAIN cstate = Callers
        /\ DOMAIN wstate = Workers
        /\ accepting <=> ~stop_requested
        /\ Owner \in Callers
    BY Config DEF TypeOK, ControlInv
  <2> USE <2>0 DEF ExitInv, StopReachesSleepers, Waiting
  <2>1. CASE SpawnWorker
    <3>1. spawned + 1 \in Workers
      BY <2>1, Config DEF SpawnWorker, TypeOK
    <3> QED BY <2>1, <3>1 DEF SpawnWorker
  <2>2. CASE ConstructorReturns \/ SpawnFails \/ ConstructorRethrows
    <3>1. CASE ConstructorReturns BY <3>1 DEF ConstructorReturns
    <3>2. CASE SpawnFails BY <3>2 DEF SpawnFails
    <3>3. CASE ConstructorRethrows BY <3>3 DEF ConstructorRethrows
    <3> QED BY <2>2, <3>1, <3>2, <3>3
  <2>3. ASSUME NEW p \in Producers, SubmitStopped(p) \/ SubmitQueueFull(p)
        PROVE  ExitInv' /\ StopReachesSleepers'
    <3>1. UNCHANGED <<queue, stop_requested, wstate, cstate>>
      BY <2>3 DEF SubmitStopped, SubmitQueueFull, threadVars
    <3> QED BY <3>1
  <2>4. ASSUME NEW p \in Producers, SubmitAccepted(p)
        PROVE  ExitInv' /\ StopReachesSleepers'
    <3>1. ~stop_requested /\ stop_requested' = stop_requested
      BY <2>4 DEF SubmitAccepted
    <3>2. \A w \in Workers : wstate'[w] = wstate[w] /\ wstate[w] # "exited"
      BY <2>4, <3>1 DEF SubmitAccepted
    <3> QED BY <3>1, <3>2
  <2>5. ASSUME NEW p \in Producers, NotifyOne(p)
        PROVE  ExitInv' /\ StopReachesSleepers'
    <3>1. \A w \in Workers : wstate'[w] = wstate[w] \/ wstate'[w] = "ready"
      BY <2>5 DEF NotifyOne
    <3> QED BY <2>5, <3>1 DEF NotifyOne
  <2>6. CASE EnterDestructor
    BY <2>6 DEF EnterDestructor
  <2>7. ASSUME NEW c \in Callers, CallStop(c)
        PROVE  ExitInv' /\ StopReachesSleepers'
    BY <2>7 DEF CallStop
  <2>8. ASSUME NEW c \in Callers, LockLifecycle(c)
        PROVE  ExitInv' /\ StopReachesSleepers'
    BY <2>8 DEF LockLifecycle
  <2>9. ASSUME NEW c \in Callers, RequestStop(c)
        PROVE  ExitInv' /\ StopReachesSleepers'
    BY <2>9 DEF RequestStop
  <2>10. ASSUME NEW c \in Callers, NotifyAll(c)
         PROVE  ExitInv' /\ StopReachesSleepers'
    BY <2>10 DEF NotifyAll
  <2>11. ASSUME NEW c \in Callers, JoinWorker(c)
         PROVE  ExitInv' /\ StopReachesSleepers'
    BY <2>11 DEF JoinWorker
  <2>12. ASSUME NEW c \in Callers, StopReturns(c)
         PROVE  ExitInv' /\ StopReachesSleepers'
    BY <2>12 DEF StopReturns
  <2>13. ASSUME NEW w \in Workers, WorkerTakes(w)
         PROVE  ExitInv' /\ StopReachesSleepers'
    BY <2>13 DEF WorkerTakes
  <2>14. ASSUME NEW w \in Workers,
                WorkerExits(w) \/ WorkerWaits(w) \/ SpuriousWakeup(w)
         PROVE  ExitInv' /\ StopReachesSleepers'
    <3>1. CASE WorkerExits(w) BY <3>1 DEF WorkerExits
    <3>2. CASE WorkerWaits(w) BY <3>2 DEF WorkerWaits
    <3>3. CASE SpuriousWakeup(w) BY <3>3 DEF SpuriousWakeup
    <3> QED BY <2>14, <3>1, <3>2, <3>3
  <2>15. ASSUME NEW w \in Workers, Finish(w)
         PROVE  ExitInv' /\ StopReachesSleepers'
    <3>1. FinishPacket(w)
      BY <2>15 DEF Finish, PacketProcessed, HandlerFails
    <3> QED BY <3>1 DEF FinishPacket
  <2>16. CASE UNCHANGED vars
    BY <2>16 DEF vars, threadVars
  <2> QED
    BY <2>1, <2>2, <2>3, <2>4, <2>5, <2>6, <2>7, <2>8, <2>9, <2>10, <2>11,
       <2>12, <2>13, <2>14, <2>15, <2>16
    DEF Next, Construct, Submit, Stop, Work, Terminated
<1> QED BY <1>1, <1>2, Typing, Control, PTL DEF SafeSpec


\* The sets that NoLostWakeup counts are finite.
LEMMA CountsAreFinite ==
  /\ IsFiniteSet(Ready) /\ Cardinality(Ready) \in Nat
  /\ IsFiniteSet(Notifying) /\ Cardinality(Notifying) \in Nat
  /\ IsFiniteSet(Running) /\ Cardinality(Running) \in Nat
<1>1. Ready \in SUBSET Workers /\ Running \in SUBSET Workers
  BY DEF Ready, Running
<1>2. Notifying \in SUBSET Producers
  BY DEF Notifying
<1>3. IsFiniteSet(Ready) /\ IsFiniteSet(Running)
  BY <1>1, Config, FS_Subset
<1>4. IsFiniteSet(Notifying)
  BY <1>2, ThreadAssumption, FS_Subset
<1> QED BY <1>3, <1>4, FS_CardinalityType

\* A worker that joins or leaves the ready workers changes their number by
\* one; a set of workers that only grows does not become smaller.
LEMMA Counting ==
  ASSUME NEW S, IsFiniteSet(S), NEW x, NEW T, IsFiniteSet(T)
  PROVE  /\ Cardinality(S) \in Nat /\ Cardinality(T) \in Nat
         /\ x \notin S /\ T = S \cup {x} =>
              Cardinality(T) = Cardinality(S) + 1
         /\ x \in S /\ T = S \ {x} => Cardinality(T) = Cardinality(S) - 1
         /\ S \subseteq T => Cardinality(S) <= Cardinality(T)
<1>1. x \notin S /\ T = S \cup {x} => Cardinality(T) = Cardinality(S) + 1
  BY FS_AddElement
<1>2. x \in S /\ T = S \ {x} => Cardinality(T) = Cardinality(S) - 1
  BY FS_RemoveElement
<1>3. S \subseteq T => Cardinality(S) <= Cardinality(T)
  BY FS_Subset
<1> QED BY <1>1, <1>2, <1>3, FS_CardinalityType

\* No worker sleeps while a queued packet has neither a ready worker nor a
\* pending notification.
THEOREM Wakeups == SafeSpec => []NoLostWakeup
<1>1. Init => NoLostWakeup
  BY DEF Init, NoLostWakeup, Waiting
<1>2. TypeOK /\ NoLostWakeup /\ [Next]_vars => NoLostWakeup'
  <2> SUFFICES ASSUME TypeOK, NoLostWakeup, [Next]_vars PROVE NoLostWakeup'
    OBVIOUS
  <2>0. /\ DOMAIN wstate = Workers
        /\ DOMAIN pstate = Producers
        /\ queue \in Seq(Nat)
        /\ Len(queue) \in Nat
    BY DEF TypeOK
  <2>f. /\ IsFiniteSet(Ready) /\ Cardinality(Ready) \in Nat
        /\ IsFiniteSet(Notifying) /\ Cardinality(Notifying) \in Nat
        /\ IsFiniteSet(Ready') /\ Cardinality(Ready') \in Nat
        /\ IsFiniteSet(Notifying') /\ Cardinality(Notifying') \in Nat
    <3>1. /\ IsFiniteSet(Ready') /\ Cardinality(Ready') \in Nat
          /\ IsFiniteSet(Notifying') /\ Cardinality(Notifying') \in Nat
      <4>1. Ready' \in SUBSET Workers /\ Notifying' \in SUBSET Producers
        BY DEF Ready, Notifying
      <4>2. IsFiniteSet(Ready')
        BY <4>1, Config, FS_Subset
      <4>3. IsFiniteSet(Notifying')
        BY <4>1, ThreadAssumption, FS_Subset
      <4> QED BY <4>2, <4>3, FS_CardinalityType
    <3> QED BY <3>1, CountsAreFinite
  <2>u. ASSUME UNCHANGED <<queue, wstate, pstate>> PROVE NoLostWakeup'
    BY <2>u DEF NoLostWakeup, Waiting, Ready, Notifying
  <2>r. ASSUME NEW w \in Workers, wstate[w] # "ready",
               wstate' = [wstate EXCEPT ![w] = "ready"]
        PROVE  /\ Waiting' \subseteq Waiting
               /\ Cardinality(Ready') = Cardinality(Ready) + 1
    <3>1. w \notin Ready /\ Ready' = Ready \cup {w}
      BY <2>0, <2>r DEF Ready
    <3>2. Waiting' \subseteq Waiting
      BY <2>0, <2>r DEF Waiting
    <3> QED BY <3>1, <3>2, <2>f, Counting
  <2>1. CASE SpawnWorker
    <3>1. spawned + 1 \in Workers
      BY <2>1, Config DEF SpawnWorker, TypeOK
    <3>2. Waiting' \subseteq Waiting /\ Ready \subseteq Ready'
      BY <2>0, <2>1, <3>1 DEF SpawnWorker, Waiting, Ready
    <3>3. Cardinality(Ready) <= Cardinality(Ready')
      BY <3>2, <2>f, Counting
    <3>4. UNCHANGED <<queue, Notifying>>
      BY <2>1 DEF SpawnWorker, Notifying
    <3> QED BY <2>0, <2>f, <3>2, <3>3, <3>4 DEF NoLostWakeup
  <2>2. CASE ConstructorReturns \/ SpawnFails \/ ConstructorRethrows
    BY <2>2, <2>u DEF ConstructorReturns, SpawnFails, ConstructorRethrows
  <2>3. ASSUME NEW p \in Producers, SubmitStopped(p) \/ SubmitQueueFull(p)
        PROVE  NoLostWakeup'
    BY <2>3, <2>u DEF SubmitStopped, SubmitQueueFull, threadVars
  <2>4. ASSUME NEW p \in Producers, SubmitAccepted(p) PROVE NoLostWakeup'
    <3>1. Len(queue') = Len(queue) + 1
      BY <2>0, <2>4, MetricsFields DEF SubmitAccepted, TypeOK
    <3>2. p \notin Notifying /\ Notifying' = Notifying \cup {p}
      BY <2>0, <2>4 DEF SubmitAccepted, CanSubmit, Notifying
    <3>3. Cardinality(Notifying') = Cardinality(Notifying) + 1
      BY <3>2, <2>f, Counting
    <3>4. UNCHANGED <<Ready, Waiting>>
      BY <2>4 DEF SubmitAccepted, Ready, Waiting
    <3> QED BY <2>0, <2>f, <3>1, <3>3, <3>4 DEF NoLostWakeup
  <2>5. ASSUME NEW p \in Producers, NotifyOne(p) PROVE NoLostWakeup'
    <3>1. p \in Notifying /\ Notifying' = Notifying \ {p}
      BY <2>0, <2>5 DEF NotifyOne, Notifying
    <3>2. Cardinality(Notifying') = Cardinality(Notifying) - 1
      BY <3>1, <2>f, Counting
    <3>3. CASE Waiting = {} /\ UNCHANGED wstate
      BY <3>3 DEF NoLostWakeup, Waiting
    <3>4. ASSUME NEW w \in Waiting, wstate' = [wstate EXCEPT ![w] = "ready"]
          PROVE  NoLostWakeup'
      <4>1. w \in Workers /\ wstate[w] # "ready"
        BY <3>4 DEF Waiting
      <4>2. UNCHANGED queue
        BY <2>5 DEF NotifyOne
      <4>3. Waiting' \subseteq Waiting
        BY <2>r, <3>4, <4>1
      <4>4. Cardinality(Ready') = Cardinality(Ready) + 1
        BY <2>r, <3>4, <4>1
      <4> QED BY SMTT(60), <2>0, <2>f, <3>2, <4>2, <4>3, <4>4
        DEF NoLostWakeup
    <3> QED BY <2>5, <3>3, <3>4 DEF NotifyOne
  <2>6. CASE EnterDestructor
    BY <2>6, <2>u DEF EnterDestructor
  <2>7. ASSUME NEW c \in Callers,
               \/ CallStop(c) \/ LockLifecycle(c) \/ RequestStop(c)
               \/ JoinWorker(c) \/ StopReturns(c)
        PROVE  NoLostWakeup'
    BY <2>7, <2>u
    DEF CallStop, LockLifecycle, RequestStop, JoinWorker, StopReturns
  <2>8. ASSUME NEW c \in Callers, NotifyAll(c) PROVE NoLostWakeup'
    <3>1. Waiting' = {}
      BY <2>8 DEF NotifyAll, Waiting
    <3> QED BY <3>1 DEF NoLostWakeup
  <2>9. ASSUME NEW w \in Workers, WorkerTakes(w) PROVE NoLostWakeup'
    <3>1. Len(queue') = Len(queue) - 1
      BY <2>0, <2>9 DEF WorkerTakes
    <3>2. w \in Ready /\ Ready' = Ready \ {w}
      BY <2>0, <2>9 DEF WorkerTakes, Ready
    <3>3. Cardinality(Ready') = Cardinality(Ready) - 1
      BY <3>2, <2>f, Counting
    <3>4. Waiting' = Waiting
      BY <2>0, <2>9 DEF WorkerTakes, Waiting
    <3>5. UNCHANGED Notifying
      BY <2>9 DEF WorkerTakes, Notifying
    <3> QED BY SMTT(60), <2>0, <2>f, <3>1, <3>3, <3>4, <3>5 DEF NoLostWakeup
  <2>10. ASSUME NEW w \in Workers, WorkerExits(w) \/ WorkerWaits(w)
         PROVE  NoLostWakeup'
    <3>1. Len(queue') = 0
      BY <2>10 DEF WorkerExits, WorkerWaits
    <3> QED BY <3>1, <2>f DEF NoLostWakeup
  <2>11. ASSUME NEW w \in Workers, SpuriousWakeup(w) \/ Finish(w)
         PROVE  NoLostWakeup'
    <3>1. /\ wstate[w] # "ready"
          /\ wstate' = [wstate EXCEPT ![w] = "ready"]
          /\ UNCHANGED <<queue, pstate>>
      BY <2>11 DEF SpuriousWakeup, Finish, PacketProcessed, HandlerFails,
                   FinishPacket
    <3>2. Waiting' \subseteq Waiting
      BY <2>r, <3>1
    <3>3. Cardinality(Ready') = Cardinality(Ready) + 1
      BY <2>r, <3>1
    <3>4. Notifying' = Notifying
      BY <3>1 DEF Notifying
    <3> QED BY <2>0, <2>f, <3>1, <3>2, <3>3, <3>4 DEF NoLostWakeup
  <2>12. CASE UNCHANGED vars
    BY <2>12, <2>u DEF vars, threadVars
  <2> QED
    BY <2>1, <2>2, <2>3, <2>4, <2>5, <2>6, <2>7, <2>8, <2>9, <2>10, <2>11,
       <2>12
    DEF Next, Construct, Submit, Stop, Work, Terminated
<1> QED BY <1>1, <1>2, Typing, PTL DEF SafeSpec


\* What a step that neither accepts, takes nor finishes a packet leaves alone.
PacketsUnchanged ==
  /\ UNCHANGED <<queue, holding, completed, Running>>
  /\ metrics'.submitted = metrics.submitted
  /\ metrics'.processed = metrics.processed
  /\ metrics'.handler_failures = metrics.handler_failures
  /\ metrics'.queue_high_watermark = metrics.queue_high_watermark

\* No worker sleeps through work or through a stop: the two arguments about
\* the condition variable together.
THEOREM WakeupsArrive == SafeSpec => []WakeupsReachWorkers
<1>1. NoLostWakeup /\ StopReachesSleepers => WakeupsReachWorkers
  BY DEF WakeupsReachWorkers
<1> QED BY <1>1, Wakeups, StopWakesSleepers, PTL

\* Every step accepts, takes or finishes one packet, or touches none.
LEMMA StepKinds ==
  ASSUME TypeOK, JoinInv, [Next]_vars
  PROVE  \/ /\ PacketsUnchanged
            /\ \/ Attempts' = Attempts
               \/ Attempts < MaxSubmits /\ Attempts' = Attempts + 1
         \/ \E p \in Producers : SubmitAccepted(p)
         \/ \E w \in Workers : WorkerTakes(w) \/ Finish(w)
<1> DEFINE Quiet == /\ PacketsUnchanged
                    /\ \/ Attempts' = Attempts
                       \/ Attempts < MaxSubmits /\ Attempts' = Attempts + 1
<1>0. /\ DOMAIN wstate = Workers
      /\ metrics \in Metrics
  BY DEF TypeOK
<1>u. ASSUME UNCHANGED <<queue, holding, completed, metrics, wstate>>
      PROVE  Quiet
  BY <1>u DEF PacketsUnchanged, Attempts, Running
<1>v. ASSUME UNCHANGED <<queue, holding, completed, metrics, Running>>
      PROVE  Quiet
  BY <1>v DEF PacketsUnchanged, Attempts
<1>1. CASE SpawnWorker
  <2>1. spawned + 1 \in Workers /\ wstate[spawned + 1] = "unborn"
    BY <1>1, Config DEF SpawnWorker, TypeOK, JoinInv
  <2>2. Running' = Running
    BY <1>0, <1>1, <2>1 DEF SpawnWorker, Running
  <2>3. Quiet
    BY <2>2, <1>1, <1>v DEF SpawnWorker
  <2> QED BY <2>3
<1>2. CASE ConstructorReturns \/ SpawnFails \/ ConstructorRethrows
  BY <1>2, <1>u DEF ConstructorReturns, SpawnFails, ConstructorRethrows
<1>3. ASSUME NEW p \in Producers, SubmitStopped(p) \/ SubmitQueueFull(p)
      PROVE  Quiet
  <2>1. /\ UNCHANGED <<queue, holding, completed, Running>>
        /\ CanSubmit(p)
    BY <1>3 DEF SubmitStopped, SubmitQueueFull, threadVars, Running
  <2>2. /\ metrics'.submitted = metrics.submitted
        /\ metrics'.processed = metrics.processed
        /\ metrics'.handler_failures = metrics.handler_failures
        /\ metrics'.queue_high_watermark = metrics.queue_high_watermark
        /\ metrics'.dropped_queue_full + metrics'.rejected_stopped
             = metrics.dropped_queue_full + metrics.rejected_stopped + 1
    <3>1. CASE SubmitStopped(p)
      BY <1>0, <3>1 DEF SubmitStopped, Metrics
    <3>2. CASE SubmitQueueFull(p)
      BY <1>0, <3>2 DEF SubmitQueueFull, Metrics
    <3> QED BY <1>3, <3>1, <3>2
  <2>3. metrics' \in Metrics
    BY <1>0, <1>3, MetricsRejected, MetricsDropped
    DEF SubmitStopped, SubmitQueueFull
  <2>4. Attempts' = Attempts + 1
    <3>1. /\ metrics.submitted \in Nat
          /\ metrics.dropped_queue_full \in Nat
          /\ metrics.rejected_stopped \in Nat
          /\ metrics'.dropped_queue_full \in Nat
          /\ metrics'.rejected_stopped \in Nat
      BY <1>0, <2>3, MetricsFields
    <3> QED BY <2>2, <3>1 DEF Attempts
  <2> QED BY <2>1, <2>2, <2>4 DEF PacketsUnchanged, CanSubmit
<1>4. ASSUME NEW p \in Producers, NotifyOne(p) PROVE Quiet
  <2>1. Running' = Running
    <3>1. CASE UNCHANGED wstate
      BY <3>1 DEF Running
    <3>2. ASSUME NEW w \in Waiting, wstate' = [wstate EXCEPT ![w] = "ready"]
          PROVE  Running' = Running
      BY <1>0, <3>2 DEF Running, Waiting
    <3> QED BY <1>4, <3>1, <3>2 DEF NotifyOne
  <2> QED BY <1>4, <1>v, <2>1 DEF NotifyOne
<1>5. CASE EnterDestructor
  BY <1>5, <1>u DEF EnterDestructor
<1>6. ASSUME NEW c \in Callers,
             \/ CallStop(c) \/ LockLifecycle(c) \/ RequestStop(c)
             \/ JoinWorker(c) \/ StopReturns(c)
      PROVE  Quiet
  BY <1>6, <1>u
  DEF CallStop, LockLifecycle, RequestStop, JoinWorker, StopReturns
<1>7. ASSUME NEW c \in Callers, NotifyAll(c) PROVE Quiet
  <2>1. Running' = Running
    BY <1>0, <1>7 DEF NotifyAll, Running, Waiting
  <2> QED BY <1>7, <1>v, <2>1 DEF NotifyAll
<1>8. ASSUME NEW w \in Workers,
             WorkerExits(w) \/ WorkerWaits(w) \/ SpuriousWakeup(w)
      PROVE  Quiet
  <2>1. Running' = Running
    BY <1>0, <1>8 DEF WorkerExits, WorkerWaits, SpuriousWakeup, Running
  <2> QED BY <1>8, <1>v, <2>1 DEF WorkerExits, WorkerWaits, SpuriousWakeup
<1>9. CASE UNCHANGED vars
  BY <1>9, <1>u DEF vars, threadVars
<1> QED
  BY <1>1, <1>2, <1>3, <1>4, <1>5, <1>6, <1>7, <1>8, <1>9
  DEF Next, Construct, Submit, Stop, Work, Terminated

\* How the three steps that move a packet change the counters.
LEMMA AcceptCounts ==
  ASSUME TypeOK, NEW p \in Producers, SubmitAccepted(p)
  PROVE  /\ metrics'.submitted = metrics.submitted + 1
         /\ metrics'.processed = metrics.processed
         /\ metrics'.handler_failures = metrics.handler_failures
         /\ metrics'.queue_high_watermark
              = MaxOf(metrics.queue_high_watermark, Len(queue) + 1)
         /\ Attempts < MaxSubmits
         /\ Attempts' = Attempts + 1
<1>0. metrics \in Metrics
  BY DEF TypeOK
<1>1. /\ metrics'.submitted = metrics.submitted + 1
      /\ metrics'.processed = metrics.processed
      /\ metrics'.handler_failures = metrics.handler_failures
      /\ metrics'.dropped_queue_full = metrics.dropped_queue_full
      /\ metrics'.rejected_stopped = metrics.rejected_stopped
      /\ metrics'.queue_high_watermark
           = MaxOf(metrics.queue_high_watermark, Len(queue) + 1)
  BY <1>0 DEF SubmitAccepted, Metrics
<1>2. Attempts' = Attempts + 1
  BY <1>0, <1>1, MetricsFields DEF Attempts
<1> QED BY <1>1, <1>2 DEF SubmitAccepted, CanSubmit

\* worker_loop counts a finished packet once, as processed or as failed.
LEMMA FinishCounts ==
  ASSUME TypeOK, NEW w \in Workers, Finish(w)
  PROVE  /\ metrics'.submitted = metrics.submitted
         /\ metrics'.processed + metrics'.handler_failures
              = metrics.processed + metrics.handler_failures + 1
         /\ metrics'.queue_high_watermark = metrics.queue_high_watermark
         /\ Attempts' = Attempts
<1>0. metrics \in Metrics
  BY DEF TypeOK
<1>1. CASE PacketProcessed(w)
  BY <1>0, <1>1 DEF PacketProcessed, Metrics, Attempts
<1>2. CASE HandlerFails(w)
  BY <1>0, <1>2 DEF HandlerFails, Metrics, Attempts
<1> QED BY <1>1, <1>2 DEF Finish


\* The queue holds the latest packets in order of acceptance, within bounds.
THEOREM Queueing == SafeSpec => []QueueInv
<1>1. Init => QueueInv
  BY Config DEF Init, QueueInv, Attempts, WatermarkBounds, ZeroMetrics
<1>2. TypeOK /\ JoinInv /\ QueueInv /\ [Next]_vars => QueueInv'
  <2> SUFFICES ASSUME TypeOK, JoinInv, QueueInv, [Next]_vars PROVE QueueInv'
    OBVIOUS
  <2>0. /\ queue \in Seq(Nat)
        /\ Len(queue) \in Nat
        /\ metrics.submitted \in Nat
        /\ metrics.queue_high_watermark \in Nat
        /\ Attempts \in Nat
        /\ QueueCapacity \in Nat
        /\ MaxSubmits \in Nat
    BY Config, MetricsFields DEF TypeOK, Attempts
  <2> USE <2>0 DEF QueueInv, WatermarkBounds, Taken
  <2>1. CASE /\ PacketsUnchanged
             /\ \/ Attempts' = Attempts
                \/ Attempts < MaxSubmits /\ Attempts' = Attempts + 1
    BY <2>1 DEF PacketsUnchanged
  <2>2. ASSUME NEW p \in Producers, SubmitAccepted(p) PROVE QueueInv'
    <3>1. /\ Len(queue') = Len(queue) + 1
          /\ \A i \in 1..Len(queue) : queue'[i] = queue[i]
          /\ queue'[Len(queue) + 1] = metrics.submitted + 1
          /\ Len(queue) < QueueCapacity
      BY <2>2 DEF SubmitAccepted
    <3>2. /\ metrics'.submitted = metrics.submitted + 1
          /\ metrics'.queue_high_watermark
               = MaxOf(metrics.queue_high_watermark, Len(queue) + 1)
          /\ Attempts < MaxSubmits
          /\ Attempts' = Attempts + 1
      BY <2>2, AcceptCounts
    <3>3. ASSUME NEW i \in 1..Len(queue') PROVE queue'[i] = Taken' + i
      <4>1. Taken' = Taken
        <5> HIDE DEF QueueInv, WatermarkBounds
        <5> QED BY <3>1, <3>2
      <4>2. CASE i \in 1..Len(queue)
        BY <3>1, <4>1, <4>2
      <4>3. CASE i = Len(queue) + 1
        BY <3>1, <4>1, <4>3
      <4> QED BY <3>1, <4>2, <4>3
    <3>4. WatermarkBounds'
      BY <3>1, <3>2 DEF MaxOf
    <3> QED BY <3>1, <3>2, <3>3, <3>4
  <2>3. ASSUME NEW w \in Workers, WorkerTakes(w) PROVE QueueInv'
    <3>1. /\ Len(queue') = Len(queue) - 1
          /\ \A i \in 1..Len(queue') : queue'[i] = queue[i + 1]
          /\ UNCHANGED metrics
      BY <2>3 DEF WorkerTakes
    <3>2. Attempts' = Attempts
      BY <3>1 DEF Attempts
    <3>3. Taken' = Taken + 1
      BY <3>1
    <3>4. ASSUME NEW i \in 1..Len(queue') PROVE queue'[i] = Taken' + i
      <4>1. i + 1 \in 1..Len(queue) /\ queue'[i] = queue[i + 1]
        BY <3>1
      <4>2. queue[i + 1] = Taken + (i + 1)
        BY <4>1
      <4> HIDE DEF QueueInv, WatermarkBounds
      <4>3. Taken \in Int /\ i \in Int
        OBVIOUS
      <4> HIDE DEF Taken
      <4> QED BY <3>3, <4>1, <4>2, <4>3
    <3> QED BY <3>1, <3>2, <3>4
  <2>4. ASSUME NEW w \in Workers, Finish(w) PROVE QueueInv'
    <3>1. UNCHANGED queue
      BY <2>4 DEF Finish, PacketProcessed, HandlerFails, FinishPacket
    <3>2. /\ metrics'.submitted = metrics.submitted
          /\ metrics'.queue_high_watermark = metrics.queue_high_watermark
          /\ Attempts' = Attempts
      BY <2>4, FinishCounts
    <3> QED BY <3>1, <3>2
  <2> QED BY <2>1, <2>2, <2>3, <2>4, StepKinds
<1> QED BY <1>1, <1>2, Typing, Joins, PTL DEF SafeSpec

\* The high watermark bounds the queue and stays within its capacity.
THEOREM Watermark == SafeSpec => []WatermarkBounds
<1>1. QueueInv => WatermarkBounds
  BY DEF QueueInv
<1> QED BY <1>1, Queueing, PTL

\* Every packet taken from the queue is complete or held by one worker.
THEOREM Holders == SafeSpec => []HolderInv
<1>1. Init => HolderInv
  BY DEF Init, HolderInv, Taken, Running, ZeroMetrics
<1>2. TypeOK /\ JoinInv /\ QueueInv /\ HolderInv /\ [Next]_vars => HolderInv'
  <2> SUFFICES ASSUME TypeOK, JoinInv, QueueInv, HolderInv, [Next]_vars
               PROVE  HolderInv'
    OBVIOUS
  <2>0. /\ queue \in Seq(Nat)
        /\ Len(queue) \in Nat
        /\ metrics.submitted \in Nat
        /\ Taken \in Nat
        /\ DOMAIN wstate = Workers
        /\ DOMAIN holding = Workers
    BY MetricsFields DEF TypeOK, Taken, QueueInv
  <2>1. CASE PacketsUnchanged
    BY <2>1 DEF PacketsUnchanged, HolderInv, Taken
  <2>2. ASSUME NEW p \in Producers, SubmitAccepted(p) PROVE HolderInv'
    <3>1. Len(queue') = Len(queue) + 1
      BY <2>0, <2>2 DEF SubmitAccepted
    <3>2. Taken' = Taken
      BY <2>0, <2>2, <3>1, AcceptCounts DEF Taken
    <3>3. UNCHANGED <<Running, holding, completed>>
      BY <2>2 DEF SubmitAccepted, Running
    <3> QED BY <3>2, <3>3 DEF HolderInv
  <2>3. ASSUME NEW w \in Workers, WorkerTakes(w) PROVE HolderInv'
    <3>1. /\ Len(queue') = Len(queue) - 1
          /\ Head(queue) = queue[1]
          /\ 1 \in 1..Len(queue)
          /\ UNCHANGED <<metrics, completed>>
      BY <2>0, <2>3 DEF WorkerTakes
    <3>2. Taken' = Taken + 1 /\ queue[1] = Taken + 1
      BY <2>0, <3>1 DEF Taken, QueueInv
    <3>3. /\ Running' = Running \cup {w}
          /\ w \notin Running
          /\ holding'[w] = Taken + 1
          /\ \A v \in Running : holding'[v] = holding[v]
      BY <2>0, <2>3, <3>1, <3>2 DEF WorkerTakes, Running
    <3>4. 1..Taken' = 1..Taken \cup {Taken + 1}
      BY <2>0, <3>2
    <3>5. \A k \in 1..Taken : k # Taken + 1
      BY <2>0
    <3>6. \A v \in Running : holding'[v] \in (1..Taken) \ completed
      BY <3>3 DEF HolderInv
    <3>7. completed' \subseteq 1..Taken'
      BY <3>1, <3>4 DEF HolderInv
    <3>8. \A v \in Running' : holding'[v] \in (1..Taken') \ completed'
      BY <3>1, <3>3, <3>4, <3>5, <3>6 DEF HolderInv
    <3>9. \A u, v \in Running' : holding'[u] = holding'[v] => u = v
      BY <3>3, <3>5, <3>6 DEF HolderInv
    <3>10. \A k \in 1..Taken' :
             k \in completed' \/ \E v \in Running' : holding'[v] = k
      BY <3>1, <3>3, <3>4 DEF HolderInv
    <3> QED BY <3>7, <3>8, <3>9, <3>10 DEF HolderInv
  <2>4. ASSUME NEW w \in Workers, Finish(w) PROVE HolderInv'
    <3>1. FinishPacket(w)
      BY <2>4 DEF Finish, PacketProcessed, HandlerFails
    <3>2. Taken' = Taken
      BY <2>4, <3>1, FinishCounts DEF FinishPacket, Taken
    <3>3. /\ w \in Running
          /\ Running' = Running \ {w}
          /\ completed' = completed \cup {holding[w]}
          /\ \A v \in Running' : holding'[v] = holding[v]
      BY <2>0, <3>1 DEF FinishPacket, Running
    <3>4. completed' \subseteq 1..Taken'
      BY <3>2, <3>3 DEF HolderInv
    <3>5. \A v \in Running' : holding'[v] \in (1..Taken') \ completed'
      BY <3>2, <3>3 DEF HolderInv
    <3>6. \A u, v \in Running' : holding'[u] = holding'[v] => u = v
      BY <3>3 DEF HolderInv
    <3>7. \A k \in 1..Taken' :
            k \in completed' \/ \E v \in Running' : holding'[v] = k
      BY <3>2, <3>3 DEF HolderInv
    <3> QED BY <3>4, <3>5, <3>6, <3>7 DEF HolderInv
  <2> QED BY <2>1, <2>2, <2>3, <2>4, StepKinds
<1> QED BY <1>1, <1>2, Typing, Joins, Queueing, PTL DEF SafeSpec

\* Completed packets are counted once each.
THEOREM Counts == SafeSpec => []CountInv
<1>1. Init => CountInv
  BY FS_EmptySet DEF Init, CountInv, ZeroMetrics
<1>2. TypeOK /\ JoinInv /\ HolderInv /\ CountInv /\ [Next]_vars => CountInv'
  <2> SUFFICES ASSUME TypeOK, JoinInv, HolderInv, CountInv, [Next]_vars
               PROVE  CountInv'
    OBVIOUS
  <2>1. CASE PacketsUnchanged
    BY <2>1 DEF PacketsUnchanged, CountInv
  <2>2. ASSUME NEW p \in Producers, SubmitAccepted(p) PROVE CountInv'
    <3>1. UNCHANGED completed
      BY <2>2 DEF SubmitAccepted
    <3> QED BY <2>2, <3>1, AcceptCounts DEF CountInv
  <2>3. ASSUME NEW w \in Workers, WorkerTakes(w) PROVE CountInv'
    BY <2>3 DEF WorkerTakes, CountInv
  <2>4. ASSUME NEW w \in Workers, Finish(w) PROVE CountInv'
    <3>1. FinishPacket(w)
      BY <2>4 DEF Finish, PacketProcessed, HandlerFails
    <3>2. /\ holding[w] \notin completed
          /\ completed' = completed \cup {holding[w]}
      BY <3>1 DEF FinishPacket, HolderInv, Running
    <3>3. /\ IsFiniteSet(completed')
          /\ Cardinality(completed') = Cardinality(completed) + 1
      BY <3>2, FS_AddElement DEF CountInv
    <3> QED BY <2>4, <3>3, FinishCounts DEF CountInv
  <2> QED BY <2>1, <2>2, <2>3, <2>4, StepKinds
<1> QED BY <1>1, <1>2, Typing, Joins, Holders, PTL DEF SafeSpec


\* The packets still in the queue are the ones accepted after the taken ones.
LEMMA QueuedPackets ==
  ASSUME TypeOK, QueueInv
  PROVE  /\ Taken \in Nat
         /\ metrics.submitted \in Nat
         /\ Taken <= metrics.submitted
         /\ Range(queue) = (Taken + 1)..metrics.submitted
<1>1. /\ queue \in Seq(Nat)
      /\ Len(queue) \in Nat
      /\ metrics.submitted \in Nat
      /\ Taken \in Nat
      /\ Taken + Len(queue) = metrics.submitted
  BY MetricsFields DEF TypeOK, QueueInv, Taken
<1>2. DOMAIN queue = 1..Len(queue)
  BY <1>1
<1>3. \A i \in 1..Len(queue) : queue[i] = Taken + i
  BY DEF QueueInv
<1>4. ASSUME NEW k \in Range(queue) PROVE k \in (Taken + 1)..metrics.submitted
  <2>1. PICK i \in 1..Len(queue) : k = queue[i]
    BY <1>2, <1>4 DEF Range
  <2> QED BY <1>1, <1>3, <2>1
<1>5. ASSUME NEW k \in (Taken + 1)..metrics.submitted PROVE k \in Range(queue)
  <2>1. k - Taken \in 1..Len(queue)
    BY <1>1, <1>5
  <2>2. queue[k - Taken] = k
    BY <1>1, <1>3, <2>1
  <2> QED BY <1>2, <2>1, <2>2 DEF Range
<1>6. Range(queue) = (Taken + 1)..metrics.submitted
  BY <1>4, <1>5
<1>7. Taken <= metrics.submitted
  BY <1>1
<1> QED BY <1>1, <1>6, <1>7

\* No accepted packet is lost, duplicated or counted twice.
THEOREM PacketsConserved == SafeSpec => []Conservation
<1>1. TypeOK /\ QueueInv /\ HolderInv /\ CountInv => Conservation
  <2> SUFFICES ASSUME TypeOK, QueueInv, HolderInv, CountInv
               PROVE  Conservation
    OBVIOUS
  <2>1. completed \cup {holding[w] : w \in Running} = 1..Taken
    <3>1. ASSUME NEW k \in completed \cup {holding[w] : w \in Running}
          PROVE  k \in 1..Taken
      BY <3>1 DEF HolderInv
    <3>2. ASSUME NEW k \in 1..Taken
          PROVE  k \in completed \cup {holding[w] : w \in Running}
      BY <3>2 DEF HolderInv
    <3> QED BY <3>1, <3>2
  <2>2. 1..Taken \cup (Taken + 1)..metrics.submitted = 1..metrics.submitted
    BY QueuedPackets
  <2>3. completed \cup {holding[w] : w \in Running} \cup Range(queue)
          = 1..metrics.submitted
    BY <2>1, <2>2, QueuedPackets
  <2>4. \A w \in Running : holding[w] \notin completed
    BY DEF HolderInv
  <2>5. \A v, w \in Running : holding[v] = holding[w] => v = w
    BY DEF HolderInv
  <2>6. metrics.processed + metrics.handler_failures = Cardinality(completed)
    BY DEF CountInv
  <2>7. \A i \in 1..Len(queue) :
          queue[i] = metrics.submitted - Len(queue) + i
    BY DEF QueueInv, Taken
  <2> QED BY <2>3, <2>4, <2>5, <2>6, <2>7 DEF Conservation
<1> QED BY <1>1, Typing, Queueing, Holders, Counts, PTL

\* Once one worker has exited and none is left that runs, nothing is pending.
LEMMA AllExited ==
  ASSUME TypeOK, ExitInv, QueueInv, HolderInv,
         \A w \in Workers : wstate[w] = "exited"
  PROVE  completed = 1..metrics.submitted /\ queue = <<>>
<1>1. 1 \in Workers
  BY Config
<1>2. queue = <<>> /\ Len(queue) = 0
  BY <1>1 DEF ExitInv
<1>3. Taken = metrics.submitted
  BY <1>2, QueuedPackets DEF Taken
<1>4. Running = {}
  BY DEF Running
<1> QED BY <1>2, <1>3, <1>4 DEF HolderInv

\* When stop() has returned, accepted work is complete and workers are gone.
THEOREM StoppedMeansDrained == SafeSpec => []DrainedWhenStopped
<1>1. TypeOK /\ ControlInv /\ JoinInv /\ ExitInv /\ QueueInv /\ HolderInv
        => DrainedWhenStopped
  <2> SUFFICES ASSUME TypeOK, ControlInv, JoinInv, ExitInv, QueueInv,
                      HolderInv,
                      NEW c \in Callers, cstate[c] \in {"returned", "destroyed"}
               PROVE  /\ completed = 1..metrics.submitted
                      /\ \A w \in Workers : wstate[w] = "exited"
    BY DEF DrainedWhenStopped
  <2>1. spawned = WorkerCount
    BY Config DEF ControlInv, TypeOK
  <2>2. joined[c] = WorkerCount
    BY <2>1 DEF JoinInv, Finished
  <2>3. \A w \in Workers : w <= WorkerCount
    BY Config
  <2>4. \A w \in Workers : wstate[w] = "exited"
    BY <2>1, <2>2, <2>3 DEF JoinInv
  <2> QED BY <2>4, AllExited
<1> QED BY <1>1, Typing, Control, Joins, StopWakesSleepers, Queueing, Holders,
           PTL


\* A destroyed or half-built pipeline has no thread left that could use it.
THEOREM DestroyedQuiescent == SafeSpec => []QuiescentAtDestruction
<1>1. TypeOK /\ ControlInv /\ JoinInv /\ ExitInv /\ QueueInv
        => QuiescentAtDestruction
  <2> SUFFICES ASSUME TypeOK, ControlInv, JoinInv, ExitInv, QueueInv,
                      cstate[Owner] \in {"thrown", "destroyed"}
               PROVE  /\ joinable = {}
                      /\ \A w \in Workers : wstate[w] \in {"unborn", "exited"}
                      /\ queue = <<>>
                      /\ Notifying = {}
    BY DEF QuiescentAtDestruction
  <2>0. /\ spawned \in 0..WorkerCount
        /\ WorkerCount \in Nat /\ WorkerCount >= 1
        /\ Owner \in Callers
        /\ joinable \subseteq Workers
        /\ queue \in Seq(Nat)
    BY Config DEF TypeOK
  <2>1. joined[Owner] = spawned
    BY <2>0 DEF JoinInv, Finished
  <2>2. \A w \in Workers : w <= spawned => w \notin joinable
    BY <2>0, <2>1 DEF JoinInv
  <2>3. joinable = {}
    BY <2>0, <2>2 DEF JoinInv
  <2>4. \A w \in Workers : wstate[w] \in {"unborn", "exited"}
    BY <2>0, <2>3 DEF JoinInv
  <2>5. Notifying = {}
    BY DEF ControlInv, Notifying
  <2>6. queue = <<>>
    <3>1. CASE spawned < WorkerCount
      <4>1. metrics.submitted = 0
        BY <3>1 DEF ControlInv
      <4>2. Len(queue) = 0
        BY <2>0, <4>1 DEF QueueInv
      <4> QED BY <2>0, <4>2
    <3>2. CASE spawned = WorkerCount
      <4>1. 1 \in Workers /\ wstate[1] = "exited"
        BY <2>0, <2>4, <3>2 DEF JoinInv
      <4> QED BY <4>1 DEF ExitInv
    <3> QED BY <2>0, <3>1, <3>2
  <2> QED BY <2>3, <2>4, <2>5, <2>6
<1> QED BY <1>1, Typing, Control, Joins, StopWakesSleepers, Queueing, PTL

\* After all accepted packets are complete and all workers have exited, the
\* counters can only change by a rejection.
LEMMA FrozenMetrics ==
  ASSUME TypeOK, ControlInv, [Next]_vars, stop_requested,
         \A w \in Workers : wstate[w] = "exited"
  PROVE  \/ metrics' = metrics
         \/ metrics' = [metrics EXCEPT !.rejected_stopped = @ + 1]
<1>1. ~accepting
  BY DEF ControlInv
<1>2. ASSUME NEW p \in Producers, Submit(p) \/ NotifyOne(p)
      PROVE  \/ metrics' = metrics
             \/ metrics' = [metrics EXCEPT !.rejected_stopped = @ + 1]
  BY <1>1, <1>2 DEF Submit, SubmitStopped, SubmitQueueFull, SubmitAccepted,
                    NotifyOne
<1>3. ASSUME NEW w \in Workers, Work(w) \/ SpuriousWakeup(w) PROVE FALSE
  BY <1>3 DEF Work, WorkerTakes, WorkerExits, WorkerWaits, Finish,
              PacketProcessed, HandlerFails, FinishPacket, SpuriousWakeup
<1>4. ASSUME NEW c \in Callers, CallStop(c) \/ Stop(c)
      PROVE  metrics' = metrics
  BY <1>4 DEF CallStop, Stop, LockLifecycle, RequestStop, NotifyAll,
              JoinWorker, StopReturns
<1>5. CASE Construct
  BY <1>5 DEF Construct, SpawnWorker, ConstructorReturns, SpawnFails,
              ConstructorRethrows
<1>6. CASE EnterDestructor
  BY <1>6 DEF EnterDestructor
<1>7. CASE UNCHANGED vars
  BY <1>7 DEF vars
<1> QED BY <1>2, <1>3, <1>4, <1>5, <1>6, <1>7 DEF Next, Terminated

\* Facts about one snapshot s and the live counters m.
SnapshotOf(s, m) ==
  /\ s.submitted = s.processed + s.handler_failures
  /\ s.rejected_stopped <= m.rejected_stopped
  /\ [s EXCEPT !.rejected_stopped = m.rejected_stopped] = m

\* The snapshot taken by stop() is the record of the live counters.
LEMMA SnapshotTaken ==
  ASSUME NEW m \in Metrics, m.submitted = m.processed + m.handler_failures
  PROVE  SnapshotOf(m, m)
BY DEF SnapshotOf, Metrics

\* Other callers' snapshots are left alone when one stop() returns.
LEMMA SnapshotKept ==
  ASSUME NEW s \in Metrics, NEW m \in Metrics, SnapshotOf(s, m)
  PROVE  SnapshotOf(s, [m EXCEPT !.rejected_stopped = @ + 1])
<1> DEFINE n == [m EXCEPT !.rejected_stopped = @ + 1]
<1>1. n.rejected_stopped = m.rejected_stopped + 1
  BY DEF Metrics
<1>2. s.rejected_stopped <= n.rejected_stopped
  BY <1>1 DEF SnapshotOf, Metrics
<1>3. [s EXCEPT !.rejected_stopped = n.rejected_stopped] = n
  BY <1>1 DEF SnapshotOf, Metrics
<1> QED BY <1>2, <1>3 DEF SnapshotOf

\* Snapshots of all stops agree with the final counters, but for rejections.
THEOREM SnapshotsStable == SafeSpec => []StableSnapshot
<1> DEFINE Below == /\ TypeOK /\ ControlInv /\ JoinInv /\ ExitInv /\ QueueInv
                    /\ HolderInv /\ CountInv /\ DrainedWhenStopped
<1>1. Init => StableSnapshot
  BY Config DEF Init, StableSnapshot
<1>2. Below /\ TypeOK' /\ DrainedWhenStopped' /\ CountInv'
        /\ StableSnapshot /\ [Next]_vars => StableSnapshot'
  <2> SUFFICES ASSUME Below, TypeOK', DrainedWhenStopped', CountInv',
                      StableSnapshot, [Next]_vars,
                      NEW c \in Callers,
                      cstate'[c] \in {"returned", "destroyed"}
               PROVE  SnapshotOf(snapshot'[c], metrics')
    BY DEF StableSnapshot, SnapshotOf
  <2>0. /\ metrics \in Metrics
        /\ metrics' \in Metrics
        /\ snapshot \in [Callers -> Metrics]
        /\ DOMAIN cstate = Callers
    BY DEF TypeOK
  <2>1. CASE StopReturns(c)
    <3>1. /\ snapshot'[c] = metrics
          /\ metrics' = metrics
      BY <2>0, <2>1 DEF StopReturns
    <3>2. completed' = 1..metrics.submitted
      BY <3>1 DEF DrainedWhenStopped
    <3>3. Cardinality(completed') = metrics.submitted
      BY <2>0, <3>2, FS_Interval, MetricsFields
    <3>4. metrics.submitted = metrics.processed + metrics.handler_failures
      BY <3>1, <3>3 DEF CountInv
    <3> QED BY <2>0, <3>1, <3>4, SnapshotTaken
  <2>2. CASE ~StopReturns(c)
    <3>1. cstate[c] \in {"returned", "destroyed"} /\ snapshot'[c] = snapshot[c]
      <4>1. ASSUME NEW d \in Callers, CallStop(d) \/ Stop(d)
            PROVE  /\ cstate[c] \in {"returned", "destroyed"}
                   /\ snapshot'[c] = snapshot[c]
        <5>1. CASE CallStop(d) BY <2>0, <5>1 DEF CallStop
        <5>2. CASE LockLifecycle(d) BY <2>0, <5>2 DEF LockLifecycle
        <5>3. CASE RequestStop(d) BY <2>0, <5>3 DEF RequestStop
        <5>4. CASE NotifyAll(d) BY <2>0, <5>4 DEF NotifyAll
        <5>5. CASE JoinWorker(d) BY <2>0, <5>5 DEF JoinWorker
        <5>6. CASE StopReturns(d) BY <2>0, <2>2, <5>6 DEF StopReturns
        <5> QED BY <4>1, <5>1, <5>2, <5>3, <5>4, <5>5, <5>6 DEF Stop
      <4>2. CASE Construct
        BY <2>0, <4>2, Config DEF Construct, SpawnWorker, ConstructorReturns,
                              SpawnFails, ConstructorRethrows
      <4>3. CASE EnterDestructor
        BY <2>0, <4>3, Config DEF EnterDestructor
      <4>4. ASSUME NEW p \in Producers, Submit(p) \/ NotifyOne(p)
            PROVE  UNCHANGED <<cstate, snapshot>>
        BY <4>4 DEF Submit, SubmitStopped, SubmitQueueFull, SubmitAccepted,
                    NotifyOne, threadVars
      <4>5. ASSUME NEW w \in Workers, Work(w) \/ SpuriousWakeup(w)
            PROVE  UNCHANGED <<cstate, snapshot>>
        BY <4>5 DEF Work, WorkerTakes, WorkerExits, WorkerWaits, Finish,
                    PacketProcessed, HandlerFails, FinishPacket,
                    SpuriousWakeup
      <4>6. CASE UNCHANGED vars
        BY <4>6 DEF vars, threadVars
      <4> QED BY <4>1, <4>2, <4>3, <4>4, <4>5, <4>6 DEF Next, Terminated
    <3>2. SnapshotOf(snapshot[c], metrics)
      BY <3>1 DEF StableSnapshot, SnapshotOf
    <3>3. \A w \in Workers : wstate[w] = "exited"
      BY <3>1 DEF DrainedWhenStopped
    <3>4. stop_requested
      BY <3>1 DEF ControlInv, Finished
    <3>5. \/ metrics' = metrics
          \/ metrics' = [metrics EXCEPT !.rejected_stopped = @ + 1]
      BY <3>3, <3>4, FrozenMetrics
    <3> QED BY <2>0, <3>1, <3>2, <3>5, SnapshotKept
  <2> QED BY <2>1, <2>2
<1> QED BY <1>1, <1>2, Typing, Control, Joins, StopWakesSleepers, Queueing,
           Holders, Counts, StoppedMeansDrained, PTL DEF SafeSpec


\* After a worker has exited the queue stays empty and nobody goes to sleep.
THEOREM ExitsAreFinal == SafeSpec => ExitIsFinal
<1>1. TypeOK /\ ControlInv /\ ExitInv /\ [Next]_vars =>
        [(\E w \in Workers : wstate[w] = "exited") =>
            queue' = <<>> /\ Waiting' \subseteq Waiting]_vars
  <2> SUFFICES ASSUME TypeOK, ControlInv, ExitInv, [Next]_vars,
                      NEW v \in Workers, wstate[v] = "exited"
               PROVE  queue' = <<>> /\ Waiting' \subseteq Waiting
    OBVIOUS
  <2>0. /\ DOMAIN wstate = Workers
        /\ queue = <<>>
        /\ stop_requested
        /\ ~accepting
    BY DEF TypeOK, ExitInv, ControlInv
  <2>u. ASSUME UNCHANGED <<queue, wstate>>
        PROVE  queue' = <<>> /\ Waiting' \subseteq Waiting
    BY <2>0, <2>u DEF Waiting
  <2>1. CASE SpawnWorker
    <3>1. spawned + 1 \in Workers
      BY <2>1, Config DEF SpawnWorker, TypeOK
    <3> QED BY <2>0, <2>1, <3>1 DEF SpawnWorker, Waiting
  <2>2. CASE ConstructorReturns \/ SpawnFails \/ ConstructorRethrows
    BY <2>2, <2>u DEF ConstructorReturns, SpawnFails, ConstructorRethrows
  <2>3. ASSUME NEW p \in Producers, Submit(p)
        PROVE  UNCHANGED <<queue, wstate>>
    BY <2>0, <2>3 DEF Submit, SubmitStopped, SubmitQueueFull, SubmitAccepted,
                      threadVars
  <2>4. ASSUME NEW p \in Producers, NotifyOne(p)
        PROVE  queue' = <<>> /\ Waiting' \subseteq Waiting
    BY <2>0, <2>4 DEF NotifyOne, Waiting
  <2>5. CASE EnterDestructor
    BY <2>5, <2>u DEF EnterDestructor
  <2>6. ASSUME NEW c \in Callers,
               \/ CallStop(c) \/ LockLifecycle(c) \/ RequestStop(c)
               \/ JoinWorker(c) \/ StopReturns(c)
        PROVE  UNCHANGED <<queue, wstate>>
    BY <2>6
    DEF CallStop, LockLifecycle, RequestStop, JoinWorker, StopReturns
  <2>7. ASSUME NEW c \in Callers, NotifyAll(c)
        PROVE  queue' = <<>> /\ Waiting' \subseteq Waiting
    BY <2>0, <2>7 DEF NotifyAll, Waiting
  <2>8. ASSUME NEW w \in Workers, Work(w) \/ SpuriousWakeup(w)
        PROVE  queue' = <<>> /\ Waiting' \subseteq Waiting
    <3>1. CASE WorkerTakes(w) BY <2>0, <3>1 DEF WorkerTakes
    <3>2. CASE WorkerExits(w) BY <2>0, <3>2 DEF WorkerExits, Waiting
    <3>3. CASE WorkerWaits(w) BY <2>0, <3>3 DEF WorkerWaits
    <3>4. CASE SpuriousWakeup(w) BY <2>0, <3>4 DEF SpuriousWakeup, Waiting
    <3>5. CASE Finish(w)
      <4>1. FinishPacket(w)
        BY <3>5 DEF Finish, PacketProcessed, HandlerFails
      <4> QED BY <2>0, <4>1 DEF FinishPacket, Waiting
    <3> QED BY <2>8, <3>1, <3>2, <3>3, <3>4, <3>5 DEF Work
  <2>9. CASE UNCHANGED vars
    BY <2>9, <2>u DEF vars, threadVars
  <2> QED
    BY <2>u, <2>1, <2>2, <2>3, <2>4, <2>5, <2>6, <2>7, <2>8, <2>9
    DEF Next, Construct, Stop, Terminated
<1> QED BY <1>1, Typing, Control, StopWakesSleepers, PTL
        DEF SafeSpec, ExitIsFinal


-----------------------------------------------------------------------------
(* The refinement.                                                         *)

\* What the sink holds is what was accepted and is not complete.
LEMMA PendingPackets ==
  ASSUME TypeOK, QueueInv, HolderInv
  PROVE  Range(queue) \cup Held = (1..metrics.submitted) \ completed
<1>1. ASSUME NEW k \in Range(queue) \cup Held
      PROVE  k \in (1..metrics.submitted) \ completed
  <2>1. CASE k \in Range(queue)
    BY <2>1, QueuedPackets DEF HolderInv
  <2>2. CASE k \in Held
    BY <2>2, QueuedPackets DEF HolderInv, Held
  <2> QED BY <1>1, <2>1, <2>2
<1>2. ASSUME NEW k \in (1..metrics.submitted) \ completed
      PROVE  k \in Range(queue) \cup Held
  <2>1. CASE k \in 1..Taken
    BY <1>2, <2>1 DEF HolderInv, Held
  <2>2. CASE k \notin 1..Taken
    BY <1>2, <2>2, QueuedPackets
  <2> QED BY <2>1, <2>2
<1> QED BY <1>1, <1>2

\* A full queue and busy workers are all the room there is.
LEMMA PendingBound ==
  ASSUME TypeOK, QueueInv, HolderInv, Len(queue) < QueueCapacity
  PROVE  Cardinality(Range(queue) \cup Held) < QueueCapacity + WorkerCount
<1>1. /\ IsFiniteSet(Range(queue))
      /\ Cardinality(Range(queue)) = Len(queue)
  <2>1. /\ Taken \in Nat
        /\ metrics.submitted \in Nat
        /\ Taken <= metrics.submitted
        /\ Range(queue) = (Taken + 1)..metrics.submitted
    BY QueuedPackets
  <2>2. Len(queue) = metrics.submitted - Taken
    <3>1. Len(queue) \in Nat
      BY DEF TypeOK
    <3> QED BY <2>1, <3>1 DEF Taken
  <2>3. /\ IsFiniteSet((Taken + 1)..metrics.submitted)
        /\ Cardinality((Taken + 1)..metrics.submitted)
             = IF Taken + 1 > metrics.submitted THEN 0
               ELSE metrics.submitted - (Taken + 1) + 1
    <3>1. Taken + 1 \in Int /\ metrics.submitted \in Int
      BY <2>1
    <3> QED BY <3>1, FS_Interval
  <2>4. Cardinality((Taken + 1)..metrics.submitted) = metrics.submitted - Taken
    BY <2>1, <2>3
  <2> QED BY <2>1, <2>2, <2>3, <2>4
<1>2. /\ IsFiniteSet(Held)
      /\ Cardinality(Held) <= Cardinality(Running)
  <2> DEFINE f == [w \in Running |-> holding[w]]
  <2>1. f \in Surjection(Running, Held)
    BY DEF Surjection, Held
  <2> QED BY <2>1, CountsAreFinite, FS_Surjection
<1>3. Cardinality(Running) <= WorkerCount
  <2>1. Running \in SUBSET Workers
    BY DEF Running
  <2> QED BY <2>1, Config, FS_Subset
<1>4. Cardinality(Range(queue) \cup Held)
        = Cardinality(Range(queue)) + Cardinality(Held)
            - Cardinality(Range(queue) \cap Held)
  BY <1>1, <1>2, FS_Union
<1>5. Range(queue) \cap Held \in SUBSET Held
  OBVIOUS
<1>6. IsFiniteSet(Range(queue) \cap Held)
  BY <1>2, <1>5, FS_Subset
<1>7. /\ Cardinality(Range(queue) \cap Held) \in Nat
      /\ Cardinality(Held) \in Nat
      /\ Cardinality(Running) \in Nat
      /\ Len(queue) \in Nat
  BY <1>2, <1>6, CountsAreFinite, FS_CardinalityType DEF TypeOK
<1> QED BY <1>1, <1>2, <1>3, <1>4, <1>7, Config

\* No step takes back that some stop has returned.
LEMMA FinishedSteps ==
  ASSUME TypeOK, [Next]_vars
  PROVE  \/ SomeoneFinished' = SomeoneFinished
         \/ \E c \in Callers : StopReturns(c)
         \/ ConstructorRethrows
<1>0. DOMAIN cstate = Callers /\ Owner \in Callers
  BY Config DEF TypeOK
<1> USE <1>0 DEF SomeoneFinished
<1>1. CASE SpawnWorker
  BY <1>1 DEF SpawnWorker
<1>2. CASE ConstructorReturns
  BY <1>2 DEF ConstructorReturns
<1>3. CASE SpawnFails
  BY <1>3 DEF SpawnFails
<1>4. ASSUME NEW p \in Producers, Submit(p) \/ NotifyOne(p)
      PROVE  UNCHANGED cstate
  BY <1>4 DEF Submit, SubmitStopped, SubmitQueueFull, SubmitAccepted,
              NotifyOne, threadVars
<1>5. CASE EnterDestructor
  BY <1>5 DEF EnterDestructor
<1>6. ASSUME NEW c \in Callers, CallStop(c)
      PROVE  SomeoneFinished' = SomeoneFinished
  BY <1>6 DEF CallStop
<1>7. ASSUME NEW c \in Callers, LockLifecycle(c)
      PROVE  SomeoneFinished' = SomeoneFinished
  BY <1>7 DEF LockLifecycle
<1>8. ASSUME NEW c \in Callers, RequestStop(c)
      PROVE  SomeoneFinished' = SomeoneFinished
  BY <1>8 DEF RequestStop
<1>9. ASSUME NEW c \in Callers, NotifyAll(c)
      PROVE  SomeoneFinished' = SomeoneFinished
  BY <1>9 DEF NotifyAll
<1>10. ASSUME NEW c \in Callers, JoinWorker(c) PROVE UNCHANGED cstate
  BY <1>10 DEF JoinWorker
<1>11. ASSUME NEW w \in Workers, Work(w) \/ SpuriousWakeup(w)
       PROVE  UNCHANGED cstate
  BY <1>11 DEF Work, WorkerTakes, WorkerExits, WorkerWaits, Finish,
               PacketProcessed, HandlerFails, FinishPacket, SpuriousWakeup
<1>12. CASE UNCHANGED vars
  BY <1>12 DEF vars, threadVars
<1> QED
  BY <1>1, <1>2, <1>3, <1>4, <1>5, <1>6, <1>7, <1>8, <1>9, <1>10, <1>11,
     <1>12
  DEF Next, Construct, Stop, Terminated


\* Only request_stop closes the sink.
LEMMA AcceptingSteps ==
  ASSUME [Next]_vars
  PROVE  accepting' = accepting \/ \E c \in Callers : RequestStop(c)
<1>1. CASE Construct
  BY <1>1 DEF Construct, SpawnWorker, ConstructorReturns, SpawnFails,
              ConstructorRethrows
<1>2. ASSUME NEW p \in Producers, Submit(p) \/ NotifyOne(p)
      PROVE  UNCHANGED accepting
  BY <1>2 DEF Submit, SubmitStopped, SubmitQueueFull, SubmitAccepted,
              NotifyOne
<1>3. CASE EnterDestructor
  BY <1>3 DEF EnterDestructor
<1>4. ASSUME NEW c \in Callers,
             \/ CallStop(c) \/ LockLifecycle(c) \/ NotifyAll(c)
             \/ JoinWorker(c) \/ StopReturns(c)
      PROVE  UNCHANGED accepting
  BY <1>4 DEF CallStop, LockLifecycle, NotifyAll, JoinWorker, StopReturns
<1>5. ASSUME NEW w \in Workers, Work(w) \/ SpuriousWakeup(w)
      PROVE  UNCHANGED accepting
  BY <1>5 DEF Work, WorkerTakes, WorkerExits, WorkerWaits, Finish,
              PacketProcessed, HandlerFails, FinishPacket, SpuriousWakeup
<1>6. CASE UNCHANGED vars
  BY <1>6 DEF vars
<1> QED BY <1>1, <1>2, <1>3, <1>4, <1>5, <1>6 DEF Next, Stop, Terminated

\* The refinement mapping in terms of the counters.
PendingEq == Range(queue) \cup Held = (1..metrics.submitted) \ completed

\* Between two calls the packets pending in the sink are those accepted and
\* not completed.
THEOREM PendingInvariant == SafeSpec => []PendingEq
<1>1. TypeOK /\ QueueInv /\ HolderInv => PendingEq
  BY PendingPackets DEF PendingEq
<1> QED BY <1>1, Typing, Queueing, Holders, PTL

\* All threads interleaved, the pipeline keeps the promise of its header:
\* packets are completed once, and no stop returns before the last of them.
THEOREM PipelineImplementsSink == SafeSpec => ImplementsSink
<1> DEFINE Below == /\ TypeOK /\ ControlInv /\ JoinInv /\ QueueInv
                    /\ HolderInv /\ DrainedWhenStopped /\ PendingEq
<1>1. Init => Sink!Init
  <2> SUFFICES ASSUME Init PROVE Sink!Init
    OBVIOUS
  <2>1. Range(queue) \cup Held = {}
    BY DEF Init, Range, Held, Running
  <2>2. SomeoneFinished = FALSE
    BY Config DEF Init, SomeoneFinished
  <2> QED BY <2>1, <2>2 DEF Init, Sink!Init
<1>2. Below /\ Below' /\ [Next]_vars => [Sink!Next]_(Sink!vars)
  <2> SUFFICES ASSUME Below, Below', [Next]_vars
               PROVE  Sink!Next \/ UNCHANGED Sink!vars
    OBVIOUS
  <2>0. /\ Range(queue) \cup Held = (1..metrics.submitted) \ completed
        /\ Range(queue') \cup Held' = (1..metrics'.submitted) \ completed'
        /\ metrics.submitted \in Nat
        /\ completed \subseteq 1..metrics.submitted
    BY QueuedPackets DEF PendingEq, HolderInv
  <2>1. ASSUME NEW p \in Producers, SubmitAccepted(p) PROVE Sink!Next
    <3> DEFINE k == metrics.submitted + 1
    <3>1. /\ metrics'.submitted = k
          /\ Attempts < MaxSubmits
      BY <2>1, AcceptCounts
    <3>2. k \in Packets
      <4>1. Attempts >= metrics.submitted
        BY MetricsFields DEF Attempts, TypeOK
      <4>2. Attempts \in Nat
        BY MetricsFields DEF Attempts, TypeOK
      <4> QED BY <2>0, <3>1, <4>1, <4>2, Config DEF Packets
    <3>3. /\ accepting
          /\ Len(queue) < QueueCapacity
          /\ UNCHANGED <<completed, accepting, cstate>>
      BY <2>1 DEF SubmitAccepted
    <3>4. k \notin 1..metrics.submitted /\ k \notin completed
      BY <2>0
    <3>5. (1..k) \ completed
            = ((1..metrics.submitted) \ completed) \cup {k}
      BY <2>0, <3>4
    <3>6. Range(queue') \cup Held' = (Range(queue) \cup Held) \cup {k}
      BY <2>0, <3>1, <3>3, <3>5
    <3>7. k \notin (Range(queue) \cup Held) \cup completed
      BY <2>0, <3>4
    <3>8. Cardinality(Range(queue) \cup Held) < QueueCapacity + WorkerCount
      BY <3>3, PendingBound
    <3>9. UNCHANGED SomeoneFinished
      BY <3>3 DEF SomeoneFinished
    <3> HIDE DEF k
    <3>10. Sink!Accept(k)
      <4>1. /\ accepting
            /\ k \notin (Range(queue) \cup Held) \cup completed
            /\ Cardinality(Range(queue) \cup Held)
                 < QueueCapacity + WorkerCount
            /\ (Range(queue) \cup Held)' = (Range(queue) \cup Held) \cup {k}
            /\ UNCHANGED <<completed, accepting, SomeoneFinished>>
        BY <3>3, <3>6, <3>7, <3>8, <3>9
      <4>2. Sink!Cardinality(Range(queue) \cup Held)
              = Cardinality(Range(queue) \cup Held)
        <5> HIDE DEF Below
        <5> QED BY DEF Cardinality, Sink!Cardinality
      <4> QED BY <4>1, <4>2, Zenon DEF Sink!Accept
    <3> QED BY <3>2, <3>10 DEF Sink!Next
  <2>2. ASSUME NEW w \in Workers, WorkerTakes(w) PROVE UNCHANGED Sink!vars
    <3>1. UNCHANGED <<metrics, completed, accepting, cstate>>
      BY <2>2 DEF WorkerTakes
    <3>2. Range(queue') \cup Held' = Range(queue) \cup Held
      BY <2>0, <3>1
    <3>3. UNCHANGED SomeoneFinished
      BY <3>1 DEF SomeoneFinished
    <3> QED BY <3>1, <3>2, <3>3 DEF Sink!vars
  <2>3. ASSUME NEW w \in Workers, Finish(w) PROVE Sink!Next
    <3> DEFINE k == holding[w]
    <3>1. FinishPacket(w)
      BY <2>3 DEF Finish, PacketProcessed, HandlerFails
    <3>2. /\ completed' = completed \cup {k}
          /\ k \in Held
          /\ UNCHANGED <<accepting, cstate>>
      BY <3>1 DEF FinishPacket, Held, Running
    <3>3. metrics'.submitted = metrics.submitted
      BY <2>3, FinishCounts
    <3>4. Range(queue') \cup Held' = (Range(queue) \cup Held) \ {k}
      BY <2>0, <3>2, <3>3
    <3>5. UNCHANGED SomeoneFinished
      BY <3>2 DEF SomeoneFinished
    <3>6. k \in Packets
      <4>1. k \in 1..metrics.submitted
        BY <2>0, <3>2
      <4>2. metrics.submitted <= MaxSubmits
        <5>1. Attempts >= metrics.submitted /\ Attempts \in Nat
          BY MetricsFields DEF Attempts, TypeOK
        <5>2. Attempts <= MaxSubmits
          BY DEF QueueInv
        <5> QED BY <2>0, <5>1, <5>2, Config
      <4> QED BY <2>0, <4>1, <4>2, Config DEF Packets
    <3> HIDE DEF k
    <3>7. Sink!Complete(k)
      BY <3>2, <3>4, <3>5 DEF Sink!Complete
    <3> QED BY <3>6, <3>7 DEF Sink!Next
  <2>4. CASE PacketsUnchanged
    <3>1. /\ Range(queue') \cup Held' = Range(queue) \cup Held
          /\ completed' = completed
      BY <2>0, <2>4 DEF PacketsUnchanged
    <3>2. ASSUME NEW c \in Callers, StopReturns(c) PROVE Sink!Next
      <4>1. /\ cstate'[c] \in {"returned", "destroyed"}
            /\ cstate[c] = "join"
            /\ accepting' = accepting
        BY <3>2 DEF StopReturns, TypeOK
      <4>2. completed' = 1..metrics'.submitted
        BY <4>1 DEF DrainedWhenStopped
      <4>3. Range(queue') \cup Held' = {}
        BY <2>0, <4>2
      <4>4. ~accepting
        BY <4>1 DEF ControlInv
      <4>5. SomeoneFinished' = TRUE
        BY <4>1 DEF SomeoneFinished
      <4> QED BY <3>1, <4>1, <4>3, <4>4, <4>5 DEF Sink!Finish, Sink!Next
    <3>3. CASE ConstructorRethrows
      <4>1. /\ cstate[Owner] = "join"
            /\ cstate'[Owner] = "thrown"
            /\ spawned < WorkerCount
            /\ accepting' = accepting
        BY <3>3, Config DEF ConstructorRethrows, TypeOK
      <4>2. metrics.submitted = 0
        BY <4>1 DEF ControlInv
      <4>3. Range(queue) \cup Held = {}
        BY <2>0, <4>2
      <4>4. ~accepting
        BY <4>1, Config DEF ControlInv
      <4>5. SomeoneFinished' = TRUE
        BY <4>1, Config DEF SomeoneFinished
      <4> QED BY <3>1, <4>1, <4>3, <4>4, <4>5 DEF Sink!Finish, Sink!Next
    <3>4. ASSUME NEW c \in Callers, RequestStop(c) PROVE Sink!Next
      <4>1. accepting' = FALSE
        BY <3>4 DEF RequestStop
      <4>2. UNCHANGED SomeoneFinished
        BY <3>4 DEF RequestStop, SomeoneFinished, TypeOK
      <4> QED BY <3>1, <4>1, <4>2 DEF Sink!Close, Sink!Next
    <3>5. CASE accepting' = accepting /\ SomeoneFinished' = SomeoneFinished
      BY <3>1, <3>5 DEF Sink!vars
    <3> QED BY <3>2, <3>3, <3>4, <3>5, FinishedSteps, AcceptingSteps
  <2> QED BY <2>1, <2>2, <2>3, <2>4, StepKinds
<1> QED
  BY <1>1, <1>2, Typing, Control, Joins, Queueing, Holders,
     StoppedMeansDrained, PendingInvariant, PTL
  DEF SafeSpec, ImplementsSink, Sink!SafeSpec

=============================================================================
