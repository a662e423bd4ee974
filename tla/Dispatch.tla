------------------------------ MODULE Dispatch ------------------------------
(***************************************************************************)
(* One Camunda7Server: the producer that polls the engine for pending      *)
(* tasks, the UniqueQueue between producer and workers, the workers that   *)
(* are started one at a time under a semaphore, and the two ways the       *)
(* server ends, a signal (exit_handler) and a SystemExit raised by a       *)
(* request to the engine.                                                  *)
(*                                                                         *)
(* What a worker does with a task is the subject of TaskExchange; here an  *)
(* exchange asks for the lock, holds it, and ends.                         *)
(***************************************************************************)
EXTENDS Integers, Sequences, FiniteSets, SequencesExt

CONSTANTS
  Task,         \* tasks the engine may hand out
  NoTask,       \* no task
  Worker,       \* asyncio tasks that run Camunda7Server.worker
  Parallelism   \* permits of the semaphore, and the size of the queue

ASSUME ParallelismAssumption == Parallelism \in Nat \ {0}
ASSUME WorkerAssumption == IsFiniteSet(Worker)
ASSUME TaskAssumption == IsFiniteSet(Task) /\ NoTask \notin Task

VARIABLES
  pending,   \* tasks a fetch would list: not locked, retries left (external)
  server,    \* Camunda7Server.__call__
  producer,  \* SimpleExternalTaskProducer.__call__
  answer,    \* the pending tasks the last fetch returned
  queue,     \* UniqueQueue: ids of the queued tasks, oldest first
  closed,    \* the queue was shut down
  shutdown,  \* the shutdown event
  loop,      \* Camunda7Server.workers
  acquired,  \* the semaphore_acquire task of wait_() got a permit
  permits,   \* of the semaphore
  worker,    \* state of each worker
  holds,     \* the task a worker took from the queue
  \* history
  promised,  \* workers at a task when the signal came, until they are done
  cut,       \* workers stopped in the middle of a task by another's SystemExit
  waiting,   \* workers that waited for a task when the signal came, with the
             \* one that wait_() had its permit for
  late       \* tasks that were begun after the signal

producing == <<producer, answer>>
queueing == <<queue, closed>>
looping == <<loop, acquired, permits>>
working == <<worker, holds>>
history == <<promised, cut, waiting, late>>
vars == <<pending, server, producing, queueing, shutdown, looping, working,
          history>>

Min2(a, b) == IF a < b THEN a ELSE b
Having(states) == {w \in Worker : worker[w] \in states}
Busy == Having({"asking", "locked"})

TypeOK ==
  /\ pending \subseteq Task
  /\ server \in {"starting", "serving", "closing", "stopped", "exited"}
  /\ producer \in {"testing", "fetching", "putting", "stopped", "failed"}
  /\ answer \in Seq(Task) /\ Len(answer) <= Parallelism
  /\ queue \in Seq(Task) /\ Len(queue) <= Parallelism
  /\ IsInjective(queue)
  /\ closed \in BOOLEAN /\ shutdown \in BOOLEAN
  /\ loop \in {"testing", "waiting", "draining", "ended"}
  /\ acquired \in BOOLEAN
  /\ permits \in 0 .. Parallelism
  /\ worker \in [Worker -> {"free", "getting", "asking", "locked", "finished"}]
  /\ holds \in [Worker -> Task \cup {NoTask}]
  /\ promised \subseteq Worker /\ cut \subseteq Worker
  /\ waiting \in Nat /\ late \in Nat

Init ==
  /\ pending \in SUBSET Task
  /\ server = "starting"
  /\ producer = "testing"
  /\ answer = <<>>
  /\ queue = <<>>
  /\ closed = FALSE
  /\ shutdown = FALSE
  /\ loop = "testing"
  /\ acquired = FALSE
  /\ permits = Parallelism
  /\ worker = [w \in Worker |-> "free"]
  /\ holds = [w \in Worker |-> NoTask]
  /\ promised = {}
  /\ cut = {}
  /\ waiting = 0
  /\ late = 0

-----------------------------------------------------------------------------
(* The process engine and its other clients: tasks are created, locked by   *)
(* others, completed by others, and their locks expire.                     *)

TaskAppears(t) ==
  /\ t \notin pending
  /\ pending' = pending \cup {t}
  /\ UNCHANGED <<server, producing, queueing, shutdown, looping, working,
                 history>>

TaskVanishes(t) ==
  /\ t \in pending
  /\ pending' = pending \ {t}
  /\ UNCHANGED <<server, producing, queueing, shutdown, looping, working,
                 history>>

-----------------------------------------------------------------------------
(* The server *)

\* The lifespan startup is over, whether or not it failed, and the capabilities
\* are known: producer_task and worker_task are created.
Serve ==
  /\ server = "starting"
  /\ server' = "serving"
  /\ UNCHANGED <<pending, producing, queueing, shutdown, looping, working,
                 history>>

\* Both tasks are done; the lifespan is shut down ...
Close ==
  /\ server = "serving"
  /\ producer \in {"stopped", "failed"} /\ loop = "ended"
  /\ server' = "closing"
  /\ UNCHANGED <<pending, producing, queueing, shutdown, looping, working,
                 history>>

\* ... and asyncio.run returns.
Stop ==
  /\ server = "closing"
  /\ server' = "stopped"
  /\ UNCHANGED <<pending, producing, queueing, shutdown, looping, working,
                 history>>

Promise ==
  /\ promised' = Busy
  /\ waiting' = Cardinality(Having({"getting"})) + (IF acquired THEN 1 ELSE 0)

\* Deviation: the signal sets the event and leaves the queue open.
SignalWithoutClosing ==
  /\ server \in {"starting", "serving"}
  /\ ~shutdown
  /\ shutdown' = TRUE
  /\ Promise
  /\ UNCHANGED <<pending, server, producing, queueing, looping, working, cut,
                 late>>

\* exit_handler: further signals only count and warn.
Signal ==
  /\ server \in {"starting", "serving"}
  /\ ~shutdown
  /\ shutdown' = TRUE
  /\ closed' = TRUE
  /\ Promise
  /\ UNCHANGED <<pending, server, producing, queue, looping, working, cut,
                 late>>

\* get() and post() turn every HTTP error into SystemExit, which asyncio lets
\* through: asyncio.run cancels all tasks of the process.  The fetch uses
\* post(); a worker asks get() for the properties of the process instance
\* before it asks for the lock, and for the hierarchy of process instances when
\* it has it.
SystemExit ==
  /\ server = "serving"
  /\ \/ producer = "fetching" /\ cut' = Busy
     \/ \E w \in Busy : cut' = Busy \ {w}
  /\ server' = "exited"
  /\ UNCHANGED <<pending, producing, queueing, shutdown, looping, working,
                 promised, waiting, late>>

-----------------------------------------------------------------------------
(* The producer *)

\* The head of the loop, and the rate limit behind it.
ProducerTests ==
  /\ producer = "testing"
  /\ producer' = IF shutdown THEN "stopped" ELSE "fetching"
  /\ UNCHANGED <<pending, server, answer, queueing, shutdown, looping,
                 working, history>>

\* The engine lists the pending tasks, of which a random choice of at most the
\* queue's size is kept.  The answer takes its time to arrive.
Fetchable(tasks) ==
  {s \in [1 .. Min2(Parallelism, Cardinality(tasks)) -> tasks] : IsInjective(s)}

Fetched ==
  /\ producer = "fetching"
  /\ answer' \in Fetchable(pending)
  /\ producer' = "putting"
  /\ UNCHANGED <<pending, server, queueing, shutdown, looping, working,
                 history>>

\* The answer is not what get_pending_tasks_response expects: the producer
\* dies, the server stays.
ProducerFails ==
  /\ producer = "fetching"
  /\ producer' = "failed"
  /\ UNCHANGED <<pending, server, answer, queueing, shutdown, looping,
                 working, history>>

\* Deviation: a task that is queued already is queued again.
PutTwice(q, t) ==
  IF Len(q) >= Parallelism THEN q ELSE Append(q, t)

\* put_nowait and UniqueQueue._put: QueueFull comes before anything else, and
\* a task that is queued already keeps its place.
Put(q, t) ==
  IF Len(q) >= Parallelism \/ t \in ToSet(q) THEN q ELSE Append(q, t)

\* _put_tasks_into_queue, without an await in between.  Neither QueueFull nor
\* QueueShutDown ends the producer.
PutAll ==
  /\ producer = "putting"
  /\ queue' = IF closed THEN queue ELSE FoldLeft(Put, queue, answer)
  /\ answer' = <<>>
  /\ producer' = "testing"
  /\ UNCHANGED <<pending, server, closed, shutdown, looping, working, history>>

-----------------------------------------------------------------------------
(* The loop that starts the workers *)

\* while not self.shutdown.is_set()
LoopTests ==
  /\ loop = "testing"
  /\ loop' = IF shutdown THEN "draining" ELSE "waiting"
  /\ UNCHANGED <<pending, server, producing, queueing, shutdown, acquired,
                 permits, working, history>>

\* Deviation: the semaphore does not count.
AcquireUncounted ==
  /\ loop = "waiting" /\ ~shutdown /\ ~acquired /\ permits > 0
  /\ acquired' = TRUE
  /\ UNCHANGED <<pending, server, producing, queueing, shutdown, loop,
                 permits, working, history>>

\* The semaphore_acquire task of wait_() is done.  One that gets its permit
\* after the signal is never alone in done: the event loop wakes shutdown_wait
\* before wait_() learns of the permit.
Acquire ==
  /\ loop = "waiting" /\ ~shutdown /\ ~acquired /\ permits > 0
  /\ acquired' = TRUE
  /\ permits' = permits - 1
  /\ UNCHANGED <<pending, server, producing, queueing, shutdown, loop,
                 working, history>>

\* wait_() found shutdown_wait done: it cancels the acquisition, and a permit
\* that was acquired before it or at the same time is not given back.
WakesForShutdown ==
  /\ loop = "waiting" /\ shutdown
  /\ loop' = "draining"
  /\ acquired' = FALSE
  /\ \/ UNCHANGED permits
     \/ ~acquired /\ permits > 0 /\ permits' = permits - 1
  /\ UNCHANGED <<pending, server, producing, queueing, shutdown, working,
                 history>>

\* Deviation: a permit counts before the event does.
WakesForWorkerFirst(w) ==
  /\ loop = "waiting" /\ (acquired \/ permits > 0)
  /\ worker[w] = "free"
  /\ worker' = [worker EXCEPT ![w] = "getting"]
  /\ acquired' = FALSE
  /\ permits' = IF acquired THEN permits ELSE permits - 1
  /\ loop' = "testing"
  /\ UNCHANGED <<pending, server, producing, queueing, shutdown, holds,
                 history>>

\* wait_() found semaphore_acquire done and shutdown_wait not yet, although the
\* signal may come before the next worker is created.
WakesForWorker(w) ==
  /\ loop = "waiting" /\ acquired
  /\ worker[w] = "free"
  /\ worker' = [worker EXCEPT ![w] = "getting"]
  /\ acquired' = FALSE
  /\ loop' = "testing"
  /\ UNCHANGED <<pending, server, producing, queueing, shutdown, permits,
                 holds, history>>

\* Deviation: workers() returns without waiting for its workers.
EndsAtOnce ==
  /\ loop = "draining"
  /\ loop' = "ended"
  /\ UNCHANGED <<pending, server, producing, queueing, shutdown, acquired,
                 permits, working, history>>

\* The finally block waits for all workers.
Drained ==
  /\ loop = "draining"
  /\ Having({"getting", "asking", "locked"}) = {}
  /\ loop' = "ended"
  /\ UNCHANGED <<pending, server, producing, queueing, shutdown, acquired,
                 permits, working, history>>

-----------------------------------------------------------------------------
(* A worker *)

\* await queue.get(): the oldest task leaves the queue, and its exchange begins.
Take(w) ==
  /\ worker[w] = "getting" /\ queue # <<>>
  /\ worker' = [worker EXCEPT ![w] = "asking"]
  /\ holds' = [holds EXCEPT ![w] = Head(queue)]
  /\ queue' = Tail(queue)
  /\ late' = IF shutdown THEN late + 1 ELSE late
  /\ UNCHANGED <<pending, server, producing, closed, shutdown, looping,
                 promised, cut, waiting>>

\* A closed and empty queue raises QueueShutDown: the worker ends.
FindsClosed(w) ==
  /\ worker[w] = "getting" /\ queue = <<>> /\ closed
  /\ worker' = [worker EXCEPT ![w] = "finished"]
  /\ UNCHANGED <<pending, server, producing, queueing, shutdown, looping,
                 holds, history>>

\* The engine grants the lock if the task is still pending.
Lock(w) ==
  /\ worker[w] = "asking" /\ holds[w] \in pending
  /\ worker' = [worker EXCEPT ![w] = "locked"]
  /\ pending' = pending \ {holds[w]}
  /\ UNCHANGED <<server, producing, queueing, shutdown, looping, holds,
                 history>>

\* The lock is refused, or asking for it failed.
Refused(w) ==
  /\ worker[w] = "asking"
  /\ worker' = [worker EXCEPT ![w] = "finished"]
  /\ UNCHANGED <<pending, server, producing, queueing, shutdown, looping,
                 holds, history>>

\* The exchange ends: the task is done, or pending again after a failure with
\* retries left.
Finish(w) ==
  /\ worker[w] = "locked"
  /\ worker' = [worker EXCEPT ![w] = "finished"]
  /\ pending' \in {pending, pending \cup {holds[w]}}
  /\ UNCHANGED <<server, producing, queueing, shutdown, looping, holds,
                 history>>

\* Deviation: no done callback gives the permit back.
ReleaseNothing(w) ==
  /\ worker[w] = "finished"
  /\ worker' = [worker EXCEPT ![w] = "free"]
  /\ holds' = [holds EXCEPT ![w] = NoTask]
  /\ promised' = promised \ {w}
  /\ UNCHANGED <<pending, server, producing, queueing, shutdown, looping,
                 cut, waiting, late>>

\* The done callbacks of the worker's task: one permit is given back, once.
Release(w) ==
  /\ worker[w] = "finished"
  /\ worker' = [worker EXCEPT ![w] = "free"]
  /\ holds' = [holds EXCEPT ![w] = NoTask]
  /\ permits' = permits + 1
  /\ promised' = promised \ {w}
  /\ UNCHANGED <<pending, server, producing, queueing, shutdown, loop,
                 acquired, cut, waiting, late>>

-----------------------------------------------------------------------------

Serving == Serve \/ Close \/ Stop
Producing == server = "serving" /\ (ProducerTests \/ Fetched \/ PutAll)
Looping ==
  /\ server = "serving"
  /\ \/ LoopTests \/ Acquire \/ WakesForShutdown \/ Drained
     \/ \E w \in Worker : WakesForWorker(w)
Working(w) ==
  /\ server = "serving"
  /\ \/ Take(w) \/ FindsClosed(w) \/ Lock(w) \/ Refused(w) \/ Finish(w)
     \/ Release(w)

Next ==
  \/ \E t \in Task : TaskAppears(t) \/ TaskVanishes(t)
  \/ Serving \/ Signal \/ SystemExit
  \/ Producing \/ (server = "serving" /\ ProducerFails)
  \/ Looping
  \/ \E w \in Worker : Working(w)

Spec == Init /\ [][Next]_vars

\* Each coroutine and callback that can run is run; a fetch and an exchange
\* end, by their timeouts at the latest.
Fairness ==
  /\ WF_vars(Serving)
  /\ WF_vars(Producing)
  /\ WF_vars(Looping)
  /\ \A w \in Worker : WF_vars(Working(w))

FairSpec == Spec /\ Fairness

-----------------------------------------------------------------------------
(* Properties *)

\* Not more workers than the semaphore has permits wait for or work on tasks,
\* and no permit gets lost while the server takes tasks.
PermitsConserved ==
  /\ Cardinality(Having({"getting", "asking", "locked"})) <= Parallelism
  /\ loop \in {"testing", "waiting"} =>
       permits + Cardinality(Worker \ Having({"free"}))
         + (IF acquired THEN 1 ELSE 0) = Parallelism

\* Without a SystemExit the server returns only after every task that a worker
\* took from the queue was seen to its end.
OrderlyStop ==
  server \in {"closing", "stopped"} => Busy = {} /\ cut = {}

\* After the signal a worker begins a task only if it was waiting for one
\* already, or is the single worker that wait_() had acquired a permit for.
LateStarts == late <= waiting

\* "Already started tasks get finished!", as exit_handler tells the operator
\* when the signal comes: no task that a worker was at by then is cut off.
StartedTasksFinish == cut \cap promised = {}

\* A signal ends the server.
ShutdownDrains == shutdown ~> server \in {"stopped", "exited"}

\* A server with nothing to do does not stay idle while a task is pending,
\* unless its producer died.
NotIdleForever ==
  (server = "serving" /\ pending # {}) ~>
    \/ Busy # {} \/ pending = {}
    \/ shutdown \/ server = "exited" \/ producer = "failed"

=============================================================================
