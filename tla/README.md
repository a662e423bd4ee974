# fastbpmn in TLA+

A specification of fastbpmn, a worker for the external tasks of a BPMN process
engine (Camunda 7, CIB seven, Operaton): what the program does between polling a
task and reporting its outcome. TLC checks it on small instances; every safety
property, every action property and the refinement are also proved by TLAPS, for
instances of any size. The liveness properties stay with TLC.

Paths below are relative to `src/fastbpmn/`.

## 1. The system

### Components, state, operations

| Component | Code | State | Operations |
|---|---|---|---|
| Server | `aetpi/servers/camunda7/server.py` | shutdown event, semaphore, set of worker tasks, interrupts | `run`, `__call__`, `workers`, `worker`, `exit_handler` |
| Producer | `.../producer.py` | capabilities, rate limiter | `__call__`, `_get_pending_tasks`, `_put_tasks_into_queue`, `TaskFetcher` |
| UniqueQueue | `.../queue.py` (on culsans) | tasks by id, oldest first; closed or not | `_put`, `_get`, `shutdown` |
| Server side of an exchange | `.../worker.py` | `send_queue`, `prev_event`, `stopped` | `handle_event` and one handler per event |
| Application side of an exchange | `processor/__init__.py`, `processor/task.py` | `prev_event`, worker task, heartbeat task | `__call__`, `_handle_lock_request`, `_handle_execute_request`, `_handle_execute_start_event`, `execute` |
| Exception middlewares | `middleware/exceptions/` | `task_started`, one in each of the two | receivers, lookup, five handlers |
| Results | `result.py` | retries given | `ExternalTaskResult.__call__` |
| Engine client | `camunda/processengine.py`, `camunda/asynchttp.py` | semaphores of some calls | lock, extend, complete, failure, error, fetches, signal, message |
| Routing | `processor/routing.py`, `fastbpmn.py`, `process.py` | registered task properties | `add_task`, `build_task_matcher`, capabilities |
| Context | `middleware/context/`, `context/` | lock, receive queue, temporary paths | signals, messages, file download, cleanup |
| Lifespan | `lifespan/`, `fastbpmn.py` | two events, three flags, a queue | `startup`, `shutdown`, `main`, `send` |
| Dependencies | `dependencies/`, `utils/concurrency.py` | cache, exit stack | `build_dependant`, `resolve_dependencies`, `contextmanager_in_threadpool` |
| Guard | `middleware/guard/` | none | rejects the lock in place of the processor |
| Observability | `middleware/observability/` | open spans, counters, operations | one method per event |
| Variables | `aetpi/middleware/variables.py`, encoders, decoders, `models/` | none | conversions |

`PROJECT.json` lists the rest (settings, logging, command line) with the reason
why each is left out.

### How they interact

The producer asks the engine for tasks that have retries left and are not
locked, keeps those the application registered a handler for, and puts them
into the queue. `workers()` starts one asyncio task per permit of its
semaphore; each takes one task from the queue and runs one *exchange* for it.

An exchange is a conversation of events in two directions. The server side
puts events into `send_queue`; the application receives them through the
receivers of the middlewares; what the application sends is a call of
`receiver()` on the server side, which calls the engine and puts the answer into
`send_queue` before the send returns.

    server side            application              engine
    start, lock.request ->
                        <- lock.accept         ->   lock
    execute.request     ->
                        <- execute.accept      ->   read variables
    execute.start       ->  resolve dependencies, handler, heartbeat
                        <- execute.extendlock  ->   extendLock   (repeated)
                        <- execute.complete    ->   complete
    end                 ->

In place of `execute.complete` the handler's outcome may be a failure, a
business error or an abort; an exception reaches one of the two exception
middlewares, which make a report of it if their `task_started` flag is set.

### What is hard

- *Two owners.* A list of pending tasks is old when it is used: several
  replicas, or one replica twice, start exchanges for one task. Only the
  engine's lock keeps them apart, and locks expire.
- *Lost answers.* A call that times out may have been taken by the engine, may
  be taken later, or never. The client treats a timed-out lock as refused and
  lets a timed-out report raise, into code that makes another report.
- *Two layers of exception handling*, each with a flag of its own, in front of
  cleanup code that may raise as well.
- *Exceptions against order.* Generators among the dependencies see the
  handler's exception and may change it, some in threads, while the stack is
  unwound; temporary paths go after them.
- *The end.* A signal arrives between any two bytecodes, while the loop waits
  for a permit, workers wait for tasks, handlers run and a fetch is in flight.
  A `SystemExit` that the HTTP client raises ends everything at once.
- *Stale values*: retries, capabilities, the scope as it was fetched.

### What makes each component correct

- *Exchange*: a task is executed under the lock; two handlers run for one task
  only if a lock expired; reports are made by holders of the lock, once unless
  an answer was lost; only an output completes a task; a fatal failure is final;
  nothing follows the end; every exchange ends.
- *Server*: never more workers than permits, no permit lost; a signal ends the
  server; what was started is finished; nothing new is started, but for the
  workers that waited already.
- *Producer and queue*: a task is queued once, the queue keeps its bound, and a
  pending task does not wait for an idle server.
- *Routing*: a task is handled by the handler for its topic, the most specific
  one; whatever is fetched can be handled.
- *Context*: an answer reaches the one that waits for it, no event is lost or
  passed on twice, heartbeats are not held up for longer than a lock lasts.
- *Dependencies*: what parameters share is made once; a generator is left once,
  after what was made from it, and before anything is reported.
- *Temporary paths*: each is removed or kept as its flag says.
- *Lifespan*: the server serves only an application that started.
- *Observability*: what is counted up is counted down, once, with the outcome that
  was first reported; no span stays open behind an exchange.

## 2. The modules

| Module | What it is |
|---|---|
| `TaskExchange` | the exchanges about one task, their engine, their lost and late calls |
| `MCTaskExchange` | its instances for TLC, with three configurations |
| `TaskExchange_proofs` | theorems about `TaskExchange`, in three parts: types and lease, that it implements `Lease`, the protocol of its two sides |
| `Lease` | abstract: a task under a lease, without events, calls and answers |
| `Lease_proofs` | theorems about `Lease`, proved by TLAPS |
| `Execution` | inside the execution of a task: dependencies, cache, exit stack, temporary paths |
| `MCExecution` | its instance for TLC |
| `Execution_proofs` | theorems about `Execution`, proved by TLAPS |
| `Dispatch` | the server: producer, queue, loop, permits, signal, SystemExit |
| `MCDispatch` | its instances for TLC, with two configurations |
| `Dispatch_proofs` | theorems about `Dispatch`, proved by TLAPS |
| `Routing` | how a task finds its handler: registration, table, capabilities, choice |
| `MCRouting` | its instances for TLC, with two configurations |
| `Routing_proofs` | theorems about `Routing`, proved by TLAPS |
| `Context` | what shares the connection while a handler runs: its coroutines, heartbeat, report; with a clock |
| `MCContext` | its instance for TLC |
| `Context_proofs` | theorems about `Context`, proved by TLAPS |
| `Lifespan` | setup and teardown of the application, `LifespanOn` against `FastBPMN._lifespan` |
| `Lifespan_proofs` | theorems about `Lifespan`, proved by TLAPS |
| `Observability` | tracing and metrics around an exchange: spans, gauge, counted outcomes |
| `MCObservability` | its instance for TLC |
| `Observability_proofs` | theorems about `Observability`, proved by TLAPS |

`TaskExchange` instantiates `Lease` with a refinement mapping. The others meet at
their edges and are not instantiated in each other: `Routing` decides whether a
lock is accepted, `TaskExchange` begins with an accepted one, `Context` is the
part of an exchange from the handler's start to its end as the connection sees
it, `Execution` the same part as the handler sees it, `Dispatch` has the exchange as
a worker's three steps and `Lifespan` what comes before and after its loop.

### TaskExchange

One member of `Exchange` is one run of `Camunda7ServerWorker.__call__`, named by
its worker id. All of them are about the same task; different tasks do not share
any state of this module. The engine is the part that is not in the repository:
`task`, `retries`, `owner`, `lockLive`. It grants a lock unless another worker
id holds a live one, takes reports from the last owner only, and a lock may
expire at any time.

| Model | Code |
|---|---|
| `pc`, `layer` | where the main coroutine stands, and which layer called `send`: the processor (`app`), `ExceptionMiddleware` (`exc`), `ServerErrorMiddleware` (`err`) |
| `inbox` | `send_queue` |
| `srvPrev`, `appPrev` | the two variables `prev_event` |
| `started` | the two variables `task_started` |
| `call` | the HTTP call behind a send: attempt, and the engine's reply when it has one |
| `stray` | requests on their way whose sender gave up |
| `hb` | the heartbeat task: off, asleep, in its engine call |
| `seen` | `scope["task"]["retries"]` |
| `outcome`, `exc` | what the handler returned or raised; the exception on its way |

Sending is one or more steps. `Request` begins the engine call; `EngineHandles` is
the engine's decision; `CallAnswered` brings it back, `RetryCall` repeats it
after a concurrent transaction, `CallUnanswered` gives up and leaves the request
behind in `stray`, from where it may reach the engine at any later time
(`StrayArrives`). `SendReturns` is the rest of `handle_event`: the answer is put
into the inbox, then `prev_event` is set. An event that needs no call is answered
in one step (`SendWithoutCall`).

The heartbeat moves on its own. What its calls do to the lock is a matter of
time, which this module does not have: a lock may expire although heartbeats are
sent, as it may when they come late. That makes the safety properties hold for
every timing, and is why `ExecutionUnderLease` speaks of an expired lock rather
than excluding it.

`GuardRejects` and `GuardRaises` are `GuardMiddleware`, which stands between the
two exception middlewares and answers the lock request itself if its handler says
no. `DecodingRaises` and `ReportingRaises` are where variables cannot be converted:
those of `execute.start` outside of both middlewares, those of a business error
inside the exception handler that reports it. `Raised` is what user code may make
of an exception: a generator among the dependencies may replace it by one that has
a handler of its own, or swallow it, which leaves `output` unbound.

History variables record what the properties ask for: `granted` (the
application was told that the lock is held), `lapsed` (the lock expired while
this exchange owned it), `reports` (reports the engine took), `lost` (a report
ended without an answer).

### Lease

What an exchange promises to the outside, in six actions: an exchange that is
not at work may be granted the lease (`Grant`), the lease lapses (`Lapse`), who
holds it or held it starts to work (`Start`), stops (`Stop`) or never begins (`Quit`);
the last owner ends the task after its work (`End`) or gives it up (`GiveUp`).

| `Lease` | `TaskExchange` |
|---|---|
| `task`, `owner`, `lapsed` | the same |
| `held` | `lockLive` |
| `status` | `StatusOf`: at work from `execute.start` to the outcome's report or an exception; over from then on |

`ImplementsLease` is the abstract specification under this mapping. `Grant` is the
engine's decision, not its answer, so the mapping says that a lock request whose
answer was lost is granted only to an exchange that does not work, however late;
`End` says that no stray report of an exchange that did not work completes a task.

### Execution

One run of `_handle_execute_start_event`, and of `Context.__aexit__` behind it.
A program is given by the callables that each function's parameters depend on
(`params`, the tree that `build_dependant` makes) and by what each callable is
(`kind`); both are chosen in the initial state.

| Model | Code |
|---|---|
| `frames` | the calls of `resolve_dependencies` on the Python stack, with the arguments they have so far and the cache they use |
| `caches` | the dictionaries that were made; `Replaced` is `dependency_cache or {}` |
| `values` | what callables returned or yielded, with what it was made from, for which of the handler's parameters, and whether its generator is open |
| `stack` | `AsyncExitStack` |
| `handler`, `output` | `worker_task` and what it leaves behind; whether `output` is bound |
| `exc` | the exception on its way: an `Exception`, or a cancellation |
| `paths` | `Context.temp_paths`, each with its flag |
| `pc`, `reported` | from the parameters to the removal of the paths; between the report and the end the processor is `receiving` |

A callable's own parameters are resolved before the cache is asked for it
(`Descend`, then `TakeCached` or `Call`). `Unwind` leaves one generator, which may
pass the exception on, replace it, or swallow it. `Cancel` is `asyncio.run` at the
end of the process: it reaches a task where it awaits. A generator that runs in a
thread is not told (`Skipped`), one that is being entered in a thread is forgotten,
a handler that is cancelled ends on its own time, and the task that removes the
paths may be cancelled before it has begun.

The report is not the last thing inside the context: the processor goes back to
`receive()` and waits there for the end event (`ReceiveEnd`). If the process stops
meanwhile (`CancelReceiving`), a cancellation leaves the context of an execution
that was reported, and `Context.__aexit__` takes it for a failed one.

### Dispatch

One Camunda7Server. `Worker` are the asyncio tasks of `workers()`; a worker that
ended may be used again for the next one, as a new task of the program would.
The exchange of a task is three steps: it asks for the lock (`asking`), holds it
(`locked`), ends. `pending` is the engine's list, which other clients change
freely (`TaskAppears`, `TaskVanishes`).

| Model | Code |
|---|---|
| `producer`, `answer` | `SimpleExternalTaskProducer.__call__`: test of the event, fetch, put |
| `queue`, `closed` | `UniqueQueue` and its shutdown |
| `loop`, `acquired` | `workers()`: `while`, `wait_()` with its two tasks, `finally` |
| `permits` | the semaphore |
| `worker`, `holds` | `worker()`: `queue.get()`, handler, done callbacks |
| `server` | `__call__` and `run`: `exited` is a process that a `SystemExit` ended |

`Signal` is `exit_handler`, possible between any two steps. The task that
acquires the permit may be done before `wait_()` wakes up, and the signal may
come in between; whether the loop then finds one task done or two is
`WakesForWorker` against `WakesForShutdown`. A permit acquired after the signal
never creates a worker: the wait for the event was woken before it (`Acquire`).

What the signal finds is kept as history (`Promise`): `promised`, the workers that
are at a task, and `waiting`, those that wait for one, with the worker for whose
permit `wait_()` is about to wake up.

`SystemExit` is what `get()` and `post()` raise: from the producer's fetch, from a
worker that reads the properties of the process instance before it asks for the
lock, or its hierarchy when it has it. The task of the worker that raises ends by
that; those of the others are `cut`.

Putting the answer into the queue is one step, since `_put_tasks_into_queue`
does not await. A signal handler may run in its middle; what it leaves queued is
what a shorter answer would have left.

### Routing

A handler is what its registration keeps for routing: tenants (a list, or `None`),
process (or `None`) and topic. Handlers are added to the application, to
`Process` objects, and by task groups, until the table is built at the first
request for capabilities; a program may go on adding, without effect.

| Model | Code |
|---|---|
| `taskProps`, `processProps`, `processes` | `FastBPMN._task_props`, `Process.task_props`, `FastBPMN.processes` |
| `app`, `handlers` | whether `build_middleware_stack` succeeded; `matchers` of `build_task_matcher` |
| `capabilities` | what the answer to `capabilities.request` gave to the `TaskFetcher` |
| `Weight`, `Combine`, `Value` | `KeyPredicate.__call__`, the step of `AggregatePredicate`'s reduce, the predicate of `matcher` |
| `Wanted`, `Matched` | the producer's test and the processor's `matching_func` |
| `task`, `lock`, `chosen` | the task at hand, the answer to its lock request, its handler |
| `repr` | how Python shows a set of tenants |

Two details of the code are kept because properties depend on them. A predicate
is hashed by its `repr()`, and Python may show two equal sets differently if they
were made from lists in different order; `repr` is any choice of such a form, and
two predicates are duplicates only if they look alike. And `add_taskgroup`
compares topics with an iterator that its first comparison uses up, so that
`AddTaskGroup` is guarded by the first task alone.

### Context

`ContextMiddleware` gives the handler's coroutines, the heartbeat and the
processor one `asyncio.Lock`. A signal, message or download holds it from the
request to its answer; the processor holds it for a send and again for a receive.

| Model | Code |
|---|---|
| `queue` | the lock of `lock_decorator`: its holder, then those who wait, in order |
| `caller`, `calls` | coroutines of the handler in `signal_emitter`, `message_correlator`, `variable_fetcher`; a call's number is its transaction |
| `heart`, `alarm` | `HeartbeatHandler` and the rest of its sleep |
| `call`, `age` | the engine call of the lock's holder |
| `main` | the processor: in `execute()`, sending the outcome, asking for events; `raised` when the handler's exception has left the middleware, `reported` when `ExceptionMiddleware` has made a report of it |
| `inbox`, `held` | `send_queue` of the server side, `receive_queue` of the middleware |
| `lease` | the rest of the engine's lock |
| `renewed` | history: the last extension was granted; before the first one, the handler began soon enough (`Setup`) |

Callers need not be awaited by the handler: they may call when it is over. A call
ends with an answer, with an exception of the send, or with the cancellation of
its caller; which kind of request it was, and whether the answer says yes, makes
no difference to the connection.

The handler starts with any part of its lock gone: between the grant and the first
heartbeat lie the calls for the variables and the dependencies of the handler.
An extension may come to nothing (`EngineHandles`): `extend_lock` returns `False` on
a timeout, on a refusal and after the last of its retries, the worker logs that,
and `HeartbeatHandler` sleeps for the next half of the duration.

A handler's exception is reported around `ContextMiddleware`, without its lock, and
the worker puts the end event of that report into the same `send_queue` as the
callers' answers (`ExceptionReported`). `ExceptionMiddleware` does not ask for it; a
caller the handler left behind may come upon it and put it aside.

`Tick` lets time pass while the handler runs. What the event loop can do now
takes no time (`Prompt`), an engine call takes at most `Latency`. A call that
times out is one that took longer than that.

### Lifespan

Two tasks: the server's, in `Camunda7Server._lifespan`, and the application's, in
`LifespanOn.main`. Setup and teardown are a number of handlers, any of which may
raise.

| Model | Code |
|---|---|
| `receive_queue`, `startup_event`, `shutdown_event`, `startup_failed`, `shutdown_failed`, `error_occurred`, `should_exit` | the attributes of `LifespanOn` |
| `server` | `startup()`, the body of `__call__`, `shutdown()` |
| `app`, `ran` | where `_lifespan` stands, and how many handlers of the phase ran |
| `cancelled` | tasks that `asyncio.run` cancelled and that did not run since |
| `cause` | what ended the application, for the properties |

A server stops because its producer and workers ended (`ServerEnds`), because the
capabilities could not be had (`StartupReturns`), or because a request raised
`SystemExit`. Then both tasks are cancelled and go on in either order, and
`shutdown()`, which is shielded, runs in between.

### Observability

The two middlewares see the events of an exchange go by, each way before the
event is passed on, and are told in the end how it was left. Their states are
records, their methods operators on them; what is below them is reduced to the
order of its events.

| Model | Code |
|---|---|
| `trace` | `_TracingState`: the flags, the outcome, which spans are open, how often each was ended |
| `metrics` | `_MetricsState`, the gauge `active_executions`, the outcomes counted in `executions`, operations open and counted |
| `main`, `exception` | the processor or `ExceptionMiddleware`; what left the application |
| `reported` | the first report of the exchange |
| `end` | the end event: in `send_queue`, or taken by somebody |
| `request` | signals, messages and downloads of the handler's coroutines |

`Receives` and `Sends` are `wrapped_receive` and `wrapped_send`. A tracer may fail
to start a span at any time (`works`); what a middleware records about a span that
was not started is dropped. Two things make the order of events hard: a report
that gets no answer is followed by another one, and coroutines that the handler
left behind go on after the end, which one of them may have received
(`Answered`).

## 3. What is checked

| Run | Instance | Result |
|---|---|---|
| `exchange_pair` | 2 exchanges, 2 attempts, task without retries set, outcomes: output and retry | `TypeOK`, `ExecutionUnderLease`, `NoDoubleExecution`, `ReportsFollowGrant`, `OneAnsweredReport`, `ImplementsLease` hold |
| `exchange_single` | 1 exchange, 3 attempts, all nine outcomes, task fresh or in its last attempt | `CompletedByHandler`, `SilentAfterEnd`, `ProtocolAgreement`, `HeartbeatEndsFirst` hold, `ExchangeEnds` holds under fairness |
| `exchange_fatal` | as `exchange_single`, handlers that fail fatally | `FatalStops` is violated |
| `dispatch` | 2 tasks, 2 permits, 3 workers | `TypeOK`, `PermitsConserved`, `OrderlyStop`, `LateStarts` hold, `ShutdownDrains`, `NotIdleForever` hold under fairness |
| `dispatch_started` | as `dispatch` | `StartedTasksFinish` is violated |
| `routing` | 3 registrations, 2 `Process` objects, 2 processes (1 with handlers), 2 topics, 2 tenants | `TypeOK`, `LockNeverRejected`, `MostSpecificChosen`, `NamedTaskServedByItsOwn`, `NoDeadHandler` hold |
| `routing_topic` | as `routing`, generic handlers on the application | `TopicContract` is violated |
| `lifespan` | 0 to 2 handlers of each kind | `TypeOK`, `TransitionsValid`, `TeardownAwaited` hold, `LifespanSettles` holds under fairness |
| `lifespan_startup` | as `lifespan` | `ServesOnlyStarted` is violated |
| `observability` | 2 requests of the handler | `TypeOK`, `OneOutcome`, `OperationsTold`, `NothingLeftOpen` hold |
| `context` | 2 callers with 2 calls each, lock of 18 ticks, of which any part is gone at first, calls of up to 2 | `TypeOK`, `LeaseKept`, `OnlyEndStranded` hold, `CallsReturn`, `EndArrives` hold under fairness |
| `execution` | handler and 3 callables, 10 programs in all 27 kinds, 2 paths with any flags | `TypeOK`, `SharedAfterFirst`, `OpenWhileUsed`, `LeftBeforeReport`, `PathsFollowFlags` hold |

Deadlock is not looked for: exchanges end, a server stops. Where a system may not
stop, a liveness property says so.

### Bounds

- *Two exchanges.* The properties of `exchange_pair` speak of one exchange, or of
  two of them; a third adds only another competitor for the lock. The proofs
  below do not have this bound. The exchanges are interchangeable, so the run
  uses symmetry; runs with liveness do not.
- *Attempts.* The code has three. A second attempt is where a repeated call can
  differ from a first one; `exchange_single` has all three.
- *Retries.* `MaxRetries` is 2, which `DefaultRetries - 1` reaches; given
  retries are 0 (falsy) and 1, in `exchange_pair` only 0, which falls back on the
  count the exchange fetched.
- *Three handlers.* A choice compares two; the third is for a handler that two
  others cover between them. The handlers offered differ in each of the three
  fields; one process stays without handlers, so that tasks come from elsewhere.
- *Three workers for two permits*, so that the semaphore and not the number of
  workers is what limits them; two tasks fill the queue.

- *Two callers, two calls.* One call of each is enough to keep the heartbeat
  waiting as long as it can, since the lock is passed on in order; the second
  call is for a caller that asks again behind it. The duration satisfies the module's
  assumption with nothing to spare: the setup or the heartbeat's call before, half of
  it asleep, a call of each caller and the heartbeat's own, `2 + 9 + 3 * 2 < 18`.

- *Three callables, two paths* (`execution`). What is forgotten with an empty cache
  shows at the third level; three parameters of the handler are one whose cache is
  lost and two that have to share. Of two paths one may keep the other from being
  removed. All programs are acyclic: for a cycle `build_dependant` does not end.
- *Two handlers*, so that one may raise after another one ran, and before.
- *Two requests*: the connection carries one at a time, so that one may be over,
  or have raised, when the other is made.

### What the properties of `execution` leave open

They hold, and their exceptions are what a reader should know. `SharedAfterFirst`:
with `h(x=Depends(f), y=Depends(g))` and `f(z=Depends(g))`, `g` is called twice, with
the parameters of `h` exchanged once; with `h(x=Depends(f), y=Depends(f))`, `g` is
called a second time for nothing. `PathsFollowFlags`: a path marked `Delete.ALWAYS`
stays when it was asked for after the end by something the handler left behind,
when the removal of an earlier path raised, or when the process stops; the
documentation (`docs/docs/features/builtins.md`, "deleted whenever the external
task ends") names none of them. And a path marked `Delete.ON_FAILURE` is removed
behind a success that was reported, if the process stops while the processor waits
for the end event. An exception there would do the same; the middlewares that
`FastBPMN` builds by itself raise none at that point, those that users add are not
modelled. `LeftBeforeReport`: generators in threads are not left when the process
stops.

### What the properties of `context` leave open

`LeaseKept` is about the queue for the connection: nothing that coroutines do on it
lets a lock expire which was extended when the heartbeat asked for it the last
time. Three things do let it expire under a running handler, and nothing in the
code notices:

- an extension that is not granted, for a timeout or a failing engine: the next one
  comes half a duration later, when the lock is nearly or quite at its end;
- a heartbeat whose call raises: its task ends, and nobody looks at it before the
  handler is done;
- a slow start: the first heartbeat comes half a duration after the handler's
  start, not after the grant. What lies between them, calls for variables and the
  user's dependencies, has no bound in the code. `Setup` is not one; it
  only says from when on `LeaseKept` stops to claim anything.

What keeps the work safe when a lock has expired is `TaskExchange`: the engine refuses
the report of one whose lock another one has got (the refinement of `Lease`). That
the work is then done twice is not excluded.

`OnlyEndStranded`: the end event behind an exception's report stays in the queue, or
with a caller's events put aside, for nobody. The exchange is over by then.

### Fairness

- `TaskExchange`: a coroutine that can go on does (asyncio schedules it), a call
  in flight ends (httpx has a timeout, 30 s unless configured:
  `camunda/asynchttp.py:51`), a handler ends, a cancelled heartbeat stops. There
  is no fairness for the engine: a call may end by its timeout each time. A
  handler that never returns is outside of the claim `ExchangeEnds`, as it is
  outside of the program's control.
- `Dispatch`: the producer, the loop, each worker and the server's own
  coroutine go on while the process lives; exchanges end by the above.
  Signals, `SystemExit`, failing producers and the engine's other clients owe
  nothing.
- `Context`: whoever can go on does, and the engine answers what it was asked.
  No handler has to return, no time has to pass.
- `Lifespan`: handlers end, a task that was woken or cancelled runs. Nothing makes
  a server stop that serves.

### What the violated properties show

- `FatalStops`: when the report of a `FatalExternalTaskError` gets no answer, the
  timeout leaves `ExceptionMiddleware` as a new exception, and
  `ServerErrorMiddleware` reports that one with `(task.retries or 3) - 1` retries.
  In the trace the engine takes only the second one, with retries
  left, and the task is retried after all.
- `StartedTasksFinish`: `exit_handler` announces that started tasks get finished.
  In the trace a worker is at a task and a fetch in flight when the signal comes;
  the fetch fails, `post()` raises `SystemExit`, and `asyncio.run` cancels the
  worker. Only workers at a task when the signal came (`promised`) count.
- `TopicContract`: a handler for topic x in any process, one for topic y in
  process A. The task A/x is fetched because of the first and run by the second:
  1·16 + 2·4 + 0 is more than 1·16 + 1·4 + 2, and 0 excludes nothing.
  Likewise a handler of process A for a tenant runs a task of process B of that
  tenant, in front of a generic handler for the topic, against README.md:274.
  `NamedTaskServedByItsOwn` is what is left of both promises, and holds.
- `ServesOnlyStarted`: a startup that fails sets `should_exit`, which nothing reads.
  The log says "Application startup failed. Exiting.", and the server serves.

## 4. What is proved

Each property of a passing run that is not a liveness property is the conclusion
of a theorem. None is inductive as it stands; what follows says which invariant it
is proved from, and why each part of that is needed.

### TaskExchange

`TaskExchange_proofs` holds for any set of exchanges, any outcomes of handlers
and any bounds on retries and attempts that satisfy the module's assumptions:
`Nobody` is not a worker id, `NotSet` is not a number, created tasks have
retries left or none set, the default is at least 2 and at most
`MaxRetries + 1`, and user code may pass 0.

| Theorem | States |
|---|---|
| `TypeCorrect` | `[]TypeOK` |
| `InductiveInvariant` | `[]IInv` |
| `ExecutesUnderLease` | `[]ExecutionUnderLease` |
| `NeverTwiceAtOnce` | `[]NoDoubleExecution` |
| `GrantPrecedesReports` | `[]ReportsFollowGrant` |
| `AnsweredReportIsLast` | `[]OneAnsweredReport` |

The invariant is `IInv == TypeInv /\ Safe /\ Counted`.

`TypeInv` adds two facts to `TypeOK`: a call is recorded exactly while the
coroutine waits for one, and no exchange was fetched with 0 retries. The second
one is needed for the type of what is reported: one less than 0 would not be a
count.

`Safe` is what ties the places of an exchange to the engine:

- `OneEventWaits`: at most one event waits for the application, and which one
  says what has happened before. Without it an exchange might find an
  `execute.request` left over from nowhere.
- `GrantComesFirst`: everything behind the answer to the lock request (running,
  calling anything but lock, a set flag, a report) happens with `granted`.
- `NoReportYet`: before its first report an exchange has no report counted and
  none under way in `stray`. This is what keeps a late request from closing a
  task that is being executed.
- `LeaseHolds`: from the engine's acceptance of the lock, not only from its
  answer, until a report or an expiry, the engine has the task open, owned by
  the exchange and locked. The engine refuses other lock requests while it is
  locked, and other reports because they come from other owners.

`Counted` follows the first report to its end (`Settled`): if no answer was lost,
there is one at most, and after it neither a flag nor a request is left that
would make a second.

The second part of the module relates the exchange to `Lease`.

| Theorem | States |
|---|---|
| `LeaseProtects` (`Lease_proofs`) | the abstract lease: `[]WorksUnderLease` |
| `LeaseExcludes` (`Lease_proofs`) | the abstract lease: `[]Exclusive` |
| `StagesKnown` | `[](IInv /\ Staged)` |
| `ExchangeImplementsLease` | `ImplementsLease` |

`IInv` is not enough for the refinement. It speaks of exchanges that hold the
lease, and the mapping needs to know of those that do not: that a late lock
request finds its exchange on the way out, and that a request which ends the task
comes from one that has executed it. `Staged` adds both. `StageKnown` relates what
an exchange has sent or set in motion to `appPrev`, which says how far the
processor came; `LeavesAfterLateLock` says that an exchange with a lock request
in `stray` has at most the end event before it. Then each action is matched: the
engine's decisions are `Grant`, `End`, `GiveUp` or a stutter according to the
request (`AcceptedIsLeasing`), `execute.start` is `Start` (`StartIsLeasing`), leaving the
processor is `Stop`, an end or a crash before any work is `Quit`, and everything else
is invisible (`StepIsLeasing`).

The third part is about the protocol.

| Theorem | States |
|---|---|
| `OrderedExchanges` | `[](IInv /\ Ordered)` |
| `SilentAfterTheEnd` | `[]SilentAfterEnd` |
| `HeartbeatsEndFirst` | `[]HeartbeatEndsFirst` |
| `OnlyOutputsComplete` | `[]CompletedByHandler` |
| `TablesAgree` | `[]ProtocolAgreement` |

`Ordered` says for every event that waits and every call in flight which event
each side took last (`LastEvents`); with `OneEventWaits` this is what both tables
ask for. The reports need less: the server takes them after any event, and one
was sent, because the lock was granted. `EndsInOrder` is about what follows the
end, `OutcomeKept` and `CompletionsOfOutputs` follow a completion from the handler
that returned an output through the call, and through `stray` if its sender gave up,
to the engine. An outcome is never taken back (`OutcomesStay`), so a late
completion still has its handler.

The proof that a step preserves the invariant has one lemma per group of
actions; most steps of a coroutine are `QuietStep`s, which the engine does not
notice and which only have to answer for their own exchange.

### Dispatch

`Dispatch_proofs` holds for any finite sets of tasks and workers and any number of
permits but 0.

| Theorem | States |
|---|---|
| `DispatchInvariant` | `[]IInv` |
| `PermitsKept` | `[]PermitsConserved` |
| `StopsInOrder` | `[]OrderlyStop` |
| `FewLateStarts` | `[]LateStarts` |
| `DispatchTypes` | `[]TypeOK` |

`IInv == Typed /\ Permits /\ Order /\ Lateness`.

- `Permits` counts the semaphore's permits, the workers that have not given theirs
  back and the one that `wait_()` may hold. While the loop goes on the sum is
  `Parallelism`; afterwards it is at most that, because a permit that arrives
  together with the shutdown is dropped. That an acquired permit exists only
  while the loop waits is what makes the sum move by nothing in every step.
- `Order` has the loop's end behind its workers, the server's behind the loop, and
  tasks cut off by `SystemExit` alone.
- `Lateness` is `LateStarts` with the workers that still may begin one: those that
  wait for a task, and the one `wait_()` has a permit for. All of them were counted
  in `waiting` when the signal came, since no permit is acquired for a worker later.

Types take a proof of their own, for the answer of a fetch is put into the queue
by a fold over its tasks: each `Put` keeps the queue within its bound and without
duplicates (`PutKeeps`), and so does the fold (`FoldKeeps`).

### Context

`Context_proofs` holds for any finite set of callers, any bound on their calls and
any latency, for locks that last long enough (`DurationAssumption`): half of the
duration asleep, a call of every caller and the heartbeat's own fit in, behind the
setup or the heartbeat's call before.

| Theorem | States |
|---|---|
| `ContextInvariant` | `[]IInv` |
| `LockLasts` | `[]LeaseKept` |
| `AnswersAwaited` | `[]OnlyEndStranded` |
| `ContextTypes` | `[]TypeOK` |

`IInv == Typed /\ Lined /\ Mail /\ InTime`.

- `Lined`: in the lock's queue is exactly who asks for the lock or has it, once
  each. So the heartbeat is behind each caller at most once.
- `Mail`: the inbox has the answer for the lock's holder and for nobody else, and
  the end event in front of it, or put aside, while the main coroutine waits. Behind
  the report of an exception, which was not sent under the lock, the end event may
  also come after that answer.
- `InTime`: as long as the last extension was granted (`renewed`), a heartbeat that is
  asleep leaves time for all callers and for itself; one at
  place `i` of the queue, for `i` calls without the time that the first of them
  has used. When its own call went through, the lock is as old as that call.
  `DurationLasts` is the arithmetic that closes the circle, from an extended lock to
  a heartbeat that sleeps for half of it.

### Execution

`Execution_proofs` holds for any callables, any programs over them, cyclic ones
included, and any number of paths.

| Theorem | States |
|---|---|
| `ExecutionInvariant` | `[]IInv` |
| `ExecutionTypes` | `[]TypeOK` |
| `AllLeft` | `[]LeftBeforeReport` |
| `PathsRemoved` | `[]PathsFollowFlags` |
| `SharedOnce` | `[]SharedAfterFirst` |
| `OpenForUse` | `[]OpenWhileUsed` |

`IInv == Typed /\ Outcomes /\ Removals /\ Generators /\ Framed /\ Handed /\ Shared`.

- `Outcomes`: when something is reported no exception is on its way, and the stack
  is empty from then on; only a process that stops cancels, and only that brings an
  exception between the report and the end.
- `Removals`: paths go in the end, and as their flags say, where a process that stops
  may stand for a failure.
- `Generators`: the exit stack is the open generators in the order of their values,
  and what was left is younger than what is open. A value is made from older ones,
  so nothing open was made from something that was left: `OpenForUse`.
- `Framed`: what the calls on the Python stack have so far is in their caches.
- `Handed`, `Shared`: once the handler's first parameter is there, its cache is not
  empty, `Replaced` keeps it for every call below, and a value made from then on is
  found in it. That is the reason for the 1 in `SharedAfterFirst`. The exception is a
  value whose call the end of the process cut off before it came to the cache.

`Sources`, what a value was made from at any distance, is a recursive function,
and a function that is defined by recursion has to be shown to exist before
anything can be said of it. `SourcesExists` takes the smallest relation that is
closed under the equation; `SourcesEquation` and `SourcesOlder` follow.

### Observability

`Observability_proofs` holds for any set of operations that are not named like the
three phases.

| Theorem | States |
|---|---|
| `ObservabilityInvariant` | `[]IInv` |
| `ObservabilityTypes` | `[]TypeOK` |
| `CountedOnce` | `[]OneOutcome` |
| `OperationsCounted` | `[]OperationsTold` |
| `EverythingClosed` | `NothingLeftOpen` |

`IInv` is the invariants of the run with three more parts.

- `Activity`: tracing and metrics agree on whether something is executed, which is
  neither before the handler nor once it has reported. Without it a second report
  might be counted.
- `Spans`: a span that is open was never ended, and one whose event did not come
  yet was never opened; so each is ended once at most, which is what the type of
  `ends` says.
- `Pending`: an operation is pending in the metrics while its coroutine waits,
  unless the exchange is over, which counts it as a failure.

`EverythingClosed` is an action property. The step into the end ends every open
span (`FinishKeeps`); behind it `Spans` leaves none but those of late requests.

### Routing

`Routing_proofs` holds for any sets of processes, topics, tenants and handlers. It
assumes that `None` is none of the values it stands for the absence of, and that
lists of tenants are not empty and name none twice.

| Theorem | States |
|---|---|
| `RoutingInvariant` | `[]IInv` |
| `FetchedIsHandled` | `[]LockNeverRejected` |
| `RunsMostSpecific` | `[]MostSpecificChosen` |
| `NamedTasksFit` | `[]NamedTaskServedByItsOwn` |
| `RoutingSettled` | `[]TInv` |
| `RoutingTypes` | `[]TypeOK` |
| `NoneDead` | `[]NoDeadHandler` |

The first four rest on `IInv` (the capabilities come from the table, a task at hand
passed the test, a chosen handler is the matcher's answer) and on three lemmas
about the values: they order handlers as their weights do, lexicographically; a
winner is worth at least as much as any handler, matching or not; a wanted task
has a match, since its topic alone gives weight.

`TInv` adds the types and `TableSettled`: the table is empty before the start and
has no duplicates after it. The table is the concatenation of the processes'
lists (`FlattenExists`, `FlattenTyped`). `NoneDead` needs all of it: for a handler of
a process without tenants, or with a tenant that nobody has before it, the task
that it names is one no other handler is worth as much for (`Unrivalled`).

### Lifespan

`Lifespan_proofs` holds for any number of handlers.

| Theorem | States |
|---|---|
| `LifespanInvariant` | `[]IInv` |
| `LifespanTypes` | `[]TypeOK` |
| `SendsAreValid` | `[]TransitionsValid` |
| `TeardownIsAwaited` | `[]TeardownAwaited` |

The invariant has the two properties nearly as they are (`Phases`, `Ends`), and
`Quiet`: while the server works no message waits, so that an application is
running or over when `SystemExit` comes, and a cancellation finds both sides
where it can be handled.

### Data

Three proofs need induction over sequences: the fold of `Dispatch`, the
concatenation of `Routing`, `Sources`. The library's theorems about induction and
recursion take an operator as a parameter, which the provers do not instantiate.
The proofs use the smallest counterexample instead: a set of numbers that is not
empty has a least element (`WFMin`, `NatLessThanWellFounded`), and what is true
below it is true of it. A recursive function has to exist first: fold and
concatenation are put together from those for shorter prefixes, `Sources` is the
relation described above.

Only model-checked are the liveness properties, which are out of reach of this
proof system: `ExchangeEnds`, `ShutdownDrains`, `NotIdleForever`, `CallsReturn`,
`EndArrives`, `LifespanSettles`.

## 5. What is left out

- Time, outside of `Context`: locks expire at any moment, and the rate limit is
  not there.
- Applications that are not FastBPMN, and what a lifespan yields. A lifespan
  function without `finally` is not torn down by a cancellation.
- How parameters are classified and validated, and cyclic dependencies. What is
  in a temporary path.
- Middlewares and exception handlers that users add, other than the guard. They
  may raise or swallow; `TaskExchange` has the stack that `FastBPMN` builds by
  itself, `Observability` lets a handler swallow or raise.
- `execute.reject`: the server side handles it, nothing in `src/` sends it.
- Shared worker ids. The ids depend on the server's name and a counter
  (`server.py:35`), so replicas started under one name share them. The model
  takes them as distinct, as the code means them: with shared ids the engine's
  lock keeps nobody out, and none of the lease properties would be claimed.
- The values of variables, their encoding and decoding, but for the places where
  it raises. The variables of signals are not encoded: the middleware waits for
  `externaltask.signal.send` (`aetpi/middleware/variables.py:123`), the context
  sends `externaltask.signal.emit`.
- Attributes and events of spans, durations, context tokens; the metrics of the
  lifespan.
- The filter by business key and the tenants a server is restricted to: both only
  take tasks away before the producer's test.
- `unfinished_tasks` of the queue: `task_done` is called, `join` is not.

## 6. Plan

1. Abstract specifications for `Dispatch` (a bag of permits and tasks that are
   begun and ended) and for the queue of `Context` (a first-come lock with a bound
   on the waiting time), and the refinements.
2. Safety facts behind the liveness properties: that a step which fairness asks
   for is possible wherever the system has not settled.
3. Shared worker ids: the owner of a lock as an id that several exchanges have.
4. The order of the execution-id hierarchy and what a fetch of variables sees.
