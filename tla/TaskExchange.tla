---------------------------- MODULE TaskExchange ----------------------------
(***************************************************************************)
(* The exchange that carries one external task of the process engine       *)
(* through fastbpmn: the event protocol between the server side            *)
(* (Camunda7ServerWorker.handle_event) and the application side            *)
(* (ServerErrorMiddleware > ExceptionMiddleware > ContextMiddleware >      *)
(* ExternalTaskProcessor), the heartbeat that runs beside the handler, and *)
(* the HTTP calls to the engine with their lost, late and retried answers. *)
(*                                                                         *)
(* All exchanges of the model are about the same external task: several    *)
(* replicas fetch it, or one replica fetches it again, while an earlier    *)
(* exchange is still at work.  An exchange is named by its worker id,      *)
(* which Camunda7Server.workers takes fresh for every task it handles.     *)
(***************************************************************************)
EXTENDS Integers, Sequences

CONSTANTS
  Exchange,        \* worker ids: one exchange each
  Nobody,          \* no worker id
  NotSet,          \* retries: null in the engine's answer
  InitialRetries,  \* retries the task may carry when it is created
  DefaultRetries,  \* the 3 of "(task.retries or 3) - 1"
  Outcomes,        \* what handlers return or raise, of Results and Exceptions
  RetryArgs,       \* retries= arguments that user code passes
  MaxRetries,      \* the largest number of retries that occurs
  MaxAttempts      \* tenacity: stop_after_attempt(3)

ASSUME NobodyAssumption == Nobody \notin Exchange
ASSUME RetriesAssumption ==
  /\ MaxRetries \in Nat /\ DefaultRetries \in 2 .. MaxRetries + 1
  /\ NotSet \notin Int
  /\ InitialRetries \subseteq (1 .. MaxRetries) \cup {NotSet}
  /\ RetryArgs \subseteq 0 .. MaxRetries
  /\ 0 \in RetryArgs
ASSUME AttemptsAssumption == MaxAttempts \in Nat \ {0}

VARIABLES
  \* the process engine (external)
  task,      \* "open", "completed" or "escalated" by a BPMN error
  retries,   \* retries left; 0 is an incident: the task is not fetched again
  owner,     \* worker id of the last lock granted
  lockLive,  \* the lock of owner has not expired
  \* the network
  stray,     \* requests whose sender gave up before the engine handled them
  \* one exchange each
  pc,        \* where the main coroutine is
  layer,     \* the part of the application in control: "app", "exc", "err"
  seen,      \* scope["task"]["retries"]: the engine's value when fetched
  inbox,     \* send_queue: events on their way to the application
  srvPrev,   \* prev_event of Camunda7ServerWorker.__call__
  appPrev,   \* prev_event of ExternalTaskProcessor.__call__
  started,   \* middlewares whose task_started flag is set
  call,      \* the engine call in flight
  hb,        \* the heartbeat task
  outcome,   \* how the handler ended
  exc,       \* the exception on its way up through the application
  \* history
  granted,   \* the application was told that the lock is held
  lapsed,    \* the lock expired while this exchange owned it
  reports,   \* reports of this exchange that the engine accepted
  lost       \* a report of this exchange ended without an answer

engine == <<task, retries, owner, lockLive>>
protocol == <<inbox, srvPrev, appPrev, started>>
history == <<granted, lapsed, reports, lost>>
vars == <<engine, stray, pc, layer, seen, protocol, call, hb, outcome, exc,
          history>>

-----------------------------------------------------------------------------
(* Events, requests and the values they carry *)

RecvEvents ==
  {"start", "lock.request", "execute.request", "execute.start", "end"}
Reports == {"execute.complete", "execute.failure", "execute.error"}
CallEvents == {"lock.accept", "execute.accept"} \cup Reports
SendEvents ==
  CallEvents \cup {"lock.reject", "execute.abort", "execute.extendlock"}

RetryCounts == 0 .. MaxRetries

\* What a handler may return: the four kinds of result that are sent ...
Results == {"execute.complete", "execute.failure", "execute.error",
            "execute.abort"}
\* ... and what it may raise.  "Other" is every Exception without a handler of
\* its own in the ExceptionMiddleware.
Exceptions == {"Abort", "Fatal", "Retry", "Business", "Other"}

ASSUME OutcomesAssumption == Outcomes \subseteq Results \cup Exceptions

Requests == [from : Exchange, event : CallEvents, retries : RetryCounts]
NoCall == [event |-> "none", retries |-> 0, attempt |-> 0, reply |-> "none"]
Calls == [event : CallEvents, retries : RetryCounts, attempt : 1 .. MaxAttempts,
          reply : {"none", "ok", "refused", "busy"}] \cup {NoCall}

\* Deviation: the exception handlers hand on the count they found.
NotDecremented(n) == IF n \in {NotSet, 0} THEN DefaultRetries ELSE n

\* (task.retries or 3) - 1
Decremented(n) == (IF n \in {NotSet, 0} THEN DefaultRetries ELSE n) - 1

\* The retries a RetryExternalTask(retries=given) ends up with, after the
\* exception handler and RetryOnFailureResult: a falsy count (None or 0) falls
\* back on the count the task was fetched with.
RetriesAfterRetry(n, given) ==
  LET asked == IF given = 0 THEN Decremented(n) ELSE given
  IN  IF asked = 0 THEN n - 1 ELSE asked

\* task_scope["retries"] - 1, a TypeError when the engine's value was null
OneLess(n) == IF n = NotSet THEN {} ELSE {n - 1}

\* The prev_event a send needs on the server side: lock.accept and lock.reject
\* come first, execute.accept follows lock.accept, everything else follows
\* some event.
ServerExpects(event, prev) ==
  CASE event \in {"lock.accept", "lock.reject"} -> prev = "none"
    [] event = "execute.accept" -> prev = "lock.accept"
    [] OTHER -> prev # "none"

\* The prev_event an event needs in the processor's loop.
AppExpects(event, prev) ==
  CASE event = "start" -> prev = "none"
    [] event = "lock.request" -> prev = "start"
    [] event = "execute.request" -> prev = "lock.request"
    [] event = "execute.start" -> prev = "execute.request"
    [] OTHER -> TRUE

TypeOK ==
  /\ task \in {"open", "completed", "escalated"}
  /\ retries \in RetryCounts \cup {NotSet}
  /\ owner \in Exchange \cup {Nobody}
  /\ lockLive \in BOOLEAN
  /\ stray \subseteq Requests
  /\ pc \in [Exchange -> {"idle", "queued", "receiving", "calling", "resolving",
                          "handler", "joining", "raising", "leaving", "done",
                          "crashed"}]
  /\ layer \in [Exchange -> {"app", "exc", "err"}]
  /\ seen \in [Exchange -> RetryCounts \cup {NotSet}]
  /\ inbox \in [Exchange -> Seq(RecvEvents)]
  /\ srvPrev \in [Exchange -> SendEvents \cup {"none"}]
  /\ appPrev \in [Exchange -> RecvEvents \cup {"none"}]
  /\ started \in [Exchange -> SUBSET {"exc", "err"}]
  /\ call \in [Exchange -> Calls]
  /\ hb \in [Exchange -> {"off", "asleep", "calling"}]
  /\ outcome \in [Exchange -> Results \cup Exceptions \cup {"none"}]
  /\ exc \in [Exchange -> Exceptions \cup {"none"}]
  /\ granted \in [Exchange -> BOOLEAN]
  /\ lapsed \in [Exchange -> BOOLEAN]
  /\ reports \in [Exchange -> Nat]
  /\ lost \in [Exchange -> BOOLEAN]

Init ==
  /\ task = "open"
  /\ retries \in InitialRetries
  /\ owner = Nobody
  /\ lockLive = FALSE
  /\ stray = {}
  /\ pc = [x \in Exchange |-> "idle"]
  /\ layer = [x \in Exchange |-> "app"]
  /\ seen = [x \in Exchange |-> NotSet]
  /\ inbox = [x \in Exchange |-> <<>>]
  /\ srvPrev = [x \in Exchange |-> "none"]
  /\ appPrev = [x \in Exchange |-> "none"]
  /\ started = [x \in Exchange |-> {}]
  /\ call = [x \in Exchange |-> NoCall]
  /\ hb = [x \in Exchange |-> "off"]
  /\ outcome = [x \in Exchange |-> "none"]
  /\ exc = [x \in Exchange |-> "none"]
  /\ granted = [x \in Exchange |-> FALSE]
  /\ lapsed = [x \in Exchange |-> FALSE]
  /\ reports = [x \in Exchange |-> 0]
  /\ lost = [x \in Exchange |-> FALSE]

Goto(x, label) == pc' = [pc EXCEPT ![x] = label]

-----------------------------------------------------------------------------
(* The process engine *)

\* The engine locks an open task for a worker unless another worker holds a
\* lock that has not expired; it takes a report only from the worker that
\* locked the task last.  Reading the variables changes nothing.
Accepts(req) ==
  CASE req.event = "execute.accept" -> TRUE
    [] req.event = "lock.accept" ->
         task = "open" /\ (lockLive => owner = req.from)
    [] OTHER -> task = "open" /\ owner = req.from

\* Effect of a request the engine accepts.  A failure sets the retries that
\* are left and keeps the task locked for the retry timeout, which may be 0.
Apply(req) ==
  /\ \/ /\ req.event = "execute.accept"
        /\ UNCHANGED engine
     \/ /\ req.event = "lock.accept"
        /\ owner' = req.from
        /\ lockLive' = TRUE
        /\ UNCHANGED <<task, retries>>
     \/ /\ req.event = "execute.complete"
        /\ task' = "completed"
        /\ lockLive' = FALSE
        /\ UNCHANGED <<retries, owner>>
     \/ /\ req.event = "execute.error"
        /\ task' = "escalated"
        /\ lockLive' = FALSE
        /\ UNCHANGED <<retries, owner>>
     \/ /\ req.event = "execute.failure"
        /\ retries' = req.retries
        /\ lockLive' \in BOOLEAN
        /\ UNCHANGED <<task, owner>>
  /\ reports' = IF req.event \in Reports
                THEN [reports EXCEPT ![req.from] = @ + 1] ELSE reports

LockExpires ==
  /\ lockLive
  /\ lockLive' = FALSE
  /\ lapsed' = [x \in Exchange |-> lapsed[x] \/ owner = x]
  /\ UNCHANGED <<task, retries, owner, stray, pc, layer, seen, protocol, call,
                 hb, outcome, exc, granted, reports, lost>>

\* A request whose sender gave up still reaches the engine.
StrayArrives ==
  \E req \in stray :
    /\ stray' = stray \ {req}
    /\ Accepts(req)
    /\ Apply(req)
    /\ UNCHANGED <<pc, layer, seen, protocol, call, hb, outcome, exc, granted,
                   lapsed, lost>>

-----------------------------------------------------------------------------
(* The exchange starts: producer, queue, Camunda7Server.worker *)

\* A fetch of pending tasks (withRetriesLeft, notLocked) lists the task, and
\* the answer waits in the queue until a worker takes it.
Fetch(x) ==
  /\ pc[x] = "idle"
  /\ task = "open" /\ retries # 0 /\ ~lockLive
  /\ Goto(x, "queued")
  /\ seen' = [seen EXCEPT ![x] = retries]
  /\ UNCHANGED <<engine, stray, layer, protocol, call, hb, outcome, exc,
                 history>>

\* Camunda7ServerWorker.__call__ up to the call of the application.
Begin(x) ==
  /\ pc[x] = "queued"
  /\ Goto(x, "receiving")
  /\ inbox' = [inbox EXCEPT ![x] = <<"start", "lock.request">>]
  /\ UNCHANGED <<engine, stray, layer, seen, srvPrev, appPrev, started, call,
                 hb, outcome, exc, history>>

-----------------------------------------------------------------------------
(* Sending: receiver() and handle_event on the server side *)

\* An event that the server answers after a call of the engine.
Request(x, who, event, n) ==
  /\ Goto(x, "calling")
  /\ layer' = [layer EXCEPT ![x] = who]
  /\ call' = [call EXCEPT ![x] =
       [event |-> event, retries |-> n, attempt |-> 1, reply |-> "none"]]

\* Deviation: a middleware raises the exception again after it reported it.
ReraiseAfterSend(who) == IF who = "app" THEN "receiving" ELSE "raising"

\* Where a layer goes on when its send returned: the processor receives the
\* next event, the middlewares return from the application.
AfterSend(who) == IF who = "app" THEN "receiving" ELSE "done"

\* An event that the server answers by itself, with the end of the exchange.
SendWithoutCall(x, who, event, rest) ==
  /\ Goto(x, AfterSend(who))
  /\ layer' = [layer EXCEPT ![x] = who]
  /\ inbox' = [inbox EXCEPT ![x] = Append(rest, "end")]
  /\ srvPrev' = [srvPrev EXCEPT ![x] = event]
  /\ UNCHANGED call

RequestOf(x) ==
  [from |-> x, event |-> call[x].event, retries |-> call[x].retries]

\* The request in flight, if it can still change the engine when nobody waits
\* for its answer any more.
Abandoned(x) ==
  IF /\ pc[x] = "calling" /\ call[x].reply = "none"
     /\ call[x].event # "execute.accept"
  THEN {RequestOf(x)} ELSE {}

\* The engine handles the request in flight: it accepts it, refuses it (400,
\* 404), or gives way to a concurrent transaction (500, OptimisticLocking).
EngineHandles(x) ==
  /\ pc[x] = "calling" /\ call[x].reply = "none"
  /\ \/ /\ Accepts(RequestOf(x))
        /\ Apply(RequestOf(x))
        /\ call' = [call EXCEPT ![x].reply = "ok"]
     \/ /\ ~Accepts(RequestOf(x))
        /\ call' = [call EXCEPT ![x].reply = "refused"]
        /\ UNCHANGED <<engine, reports>>
     \/ /\ call' = [call EXCEPT ![x].reply = "busy"]
        /\ UNCHANGED <<engine, reports>>
  /\ UNCHANGED <<stray, pc, layer, seen, protocol, hb, outcome, exc, granted,
                 lapsed, lost>>

\* Deviation: the answer to a lock request does not look at the verdict.
AnswerUnseen(event, verdict) ==
  CASE event = "lock.accept" -> "execute.request"
    [] event = "execute.accept" -> "execute.start"
    [] OTHER -> "end"

\* The event put into the inbox when the engine call returned True or False.
Answer(event, verdict) ==
  CASE event = "lock.accept" -> IF verdict THEN "execute.request" ELSE "end"
    [] event = "execute.accept" -> "execute.start"
    [] OTHER -> "end"

\* Deviation: only a call the engine accepted is answered.
SendReturnsIfAccepted(x, verdict) ==
  LET event == call[x].event
  IN  /\ inbox' = [inbox EXCEPT ![x] =
           IF verdict THEN Append(@, Answer(event, verdict)) ELSE @]
      /\ srvPrev' = [srvPrev EXCEPT ![x] = event]
      /\ granted' = [granted EXCEPT ![x] =
                       @ \/ (event = "lock.accept" /\ verdict)]
      /\ call' = [call EXCEPT ![x] = NoCall]
      /\ Goto(x, AfterSend(layer[x]))
      /\ UNCHANGED exc

\* handle_event puts the answer, receiver() sets prev_event, send returns.
SendReturns(x, verdict) ==
  LET event == call[x].event
  IN  /\ inbox' = [inbox EXCEPT ![x] = Append(@, Answer(event, verdict))]
      /\ srvPrev' = [srvPrev EXCEPT ![x] = event]
      /\ granted' = [granted EXCEPT ![x] =
                       @ \/ (event = "lock.accept" /\ verdict)]
      /\ call' = [call EXCEPT ![x] = NoCall]
      /\ Goto(x, AfterSend(layer[x]))
      /\ UNCHANGED exc

\* The send raises: the answer is not sent and prev_event stays.
SendRaises(x) ==
  /\ Goto(x, "raising")
  /\ exc' = [exc EXCEPT ![x] = "Other"]
  /\ call' = [call EXCEPT ![x] = NoCall]
  /\ UNCHANGED <<inbox, srvPrev, granted>>

\* A 500 of a concurrent transaction is retried up to MaxAttempts times and
\* then counts as a refusal (retry_error_callback) ...
RetryCall(x) ==
  /\ pc[x] = "calling" /\ call[x].reply = "busy"
  /\ call[x].attempt < MaxAttempts
  /\ call' = [call EXCEPT ![x].reply = "none", ![x].attempt = @ + 1]
  /\ UNCHANGED <<engine, stray, pc, layer, seen, protocol, hb, outcome, exc,
                 history>>

\* ... except when variables are fetched, where the retries end in an error.
CallAnswered(x) ==
  /\ pc[x] = "calling" /\ call[x].reply # "none"
  /\ call[x].reply = "busy" => call[x].attempt = MaxAttempts
  /\ IF call[x].event = "execute.accept" /\ call[x].reply # "ok"
     THEN SendRaises(x)
     ELSE SendReturns(x, call[x].reply = "ok")
  /\ UNCHANGED <<engine, stray, layer, seen, appPrev, started, hb, outcome,
                 lapsed, reports, lost>>

\* Deviation: a lock request that timed out counts as granted.
CallUnansweredOptimist(x) ==
  /\ pc[x] = "calling"
  /\ \/ call[x].event = "lock.accept" /\ SendReturns(x, TRUE)
     \/ SendRaises(x)
  /\ stray' = stray \cup Abandoned(x)
  /\ lost' = [lost EXCEPT ![x] = @ \/ call[x].event \in Reports]
  /\ UNCHANGED <<engine, layer, seen, appPrev, started, hb, outcome, lapsed,
                 reports>>

\* A timeout, a broken connection or an error status of its own (401, 503):
\* the engine may have handled the request, may handle it later, or never.  Only
\* a lock request takes a timeout for a refusal; everything else raises.
CallUnanswered(x) ==
  /\ pc[x] = "calling"
  /\ \/ call[x].event = "lock.accept" /\ SendReturns(x, FALSE)
     \/ SendRaises(x)
  /\ stray' = stray \cup Abandoned(x)
  /\ lost' = [lost EXCEPT ![x] = @ \/ call[x].event \in Reports]
  /\ UNCHANGED <<engine, layer, seen, appPrev, started, hb, outcome, lapsed,
                 reports>>

-----------------------------------------------------------------------------
(* Receiving: the middlewares' receivers and ExternalTaskProcessor.__call__ *)

\* Deviation: ServerErrorMiddleware counts from the lock request on.
TaskStartedEarly(flags, event) ==
  CASE event = "lock.request" -> flags \cup {"err"}
    [] event = "execute.start" -> flags \cup {"exc"}
    [] event = "end" -> {}
    [] OTHER -> flags

\* Deviation: the flags stay set when the task ends.
TaskStartedForever(flags, event) ==
  CASE event = "execute.request" -> flags \cup {"err"}
    [] event = "execute.start" -> flags \cup {"exc"}
    [] OTHER -> flags

\* On its way an event passes the receivers of ServerErrorMiddleware and of
\* ExceptionMiddleware, which set their task_started on one event each and
\* clear it on the end.
TaskStarted(flags, event) ==
  CASE event = "execute.request" -> flags \cup {"err"}
    [] event = "execute.start" -> flags \cup {"exc"}
    [] event = "end" -> {}
    [] OTHER -> flags

\* The processor takes an event it expects.
Receives(x, event) ==
  /\ pc[x] = "receiving"
  /\ inbox[x] # <<>> /\ Head(inbox[x]) = event
  /\ AppExpects(event, appPrev[x])
  /\ appPrev' = [appPrev EXCEPT ![x] = event]
  /\ started' = [started EXCEPT ![x] = TaskStarted(@, event)]
  /\ UNCHANGED <<engine, stray, seen, hb, outcome, exc, history>>

Pops(x) == inbox' = [inbox EXCEPT ![x] = Tail(@)]

ReceiveStart(x) ==
  /\ Receives(x, "start")
  /\ Pops(x)
  /\ UNCHANGED <<pc, layer, srvPrev, call>>

\* GuardMiddleware stands between the two exception middlewares.  When its
\* handler forbids the task, it rejects the lock itself, and the processor
\* never sees the lock request.
GuardRejects(x) ==
  /\ pc[x] = "receiving"
  /\ inbox[x] # <<>> /\ Head(inbox[x]) = "lock.request"
  /\ SendWithoutCall(x, "app", "lock.reject", Tail(inbox[x]))
  /\ UNCHANGED <<engine, stray, seen, appPrev, started, hb, outcome, exc,
                 history>>

\* An event is lost on its way: what raises in a receiver comes out of the
\* processor's receive().
ReceiveRaises(x, event) ==
  /\ pc[x] = "receiving"
  /\ inbox[x] # <<>> /\ Head(inbox[x]) = event
  /\ Goto(x, "raising")
  /\ exc' = [exc EXCEPT ![x] = "Other"]
  /\ Pops(x)
  /\ UNCHANGED <<engine, stray, layer, seen, srvPrev, appPrev, started, call,
                 hb, outcome, history>>

\* The guard's handler raises, before either middleware has set its flag ...
GuardRaises(x) == ReceiveRaises(x, "lock.request")

\* ... or Camunda7VariablePreprocessor, outside of both, cannot decode the
\* variables of execute.start: only ServerErrorMiddleware has set its flag.
DecodingRaises(x) == ReceiveRaises(x, "execute.start")

\* Without a handler for the task the lock is rejected.
ReceiveLockRequest(x) ==
  /\ Receives(x, "lock.request")
  /\ \/ /\ Request(x, "app", "lock.accept", 0)
        /\ Pops(x)
        /\ UNCHANGED srvPrev
     \/ SendWithoutCall(x, "app", "lock.reject", Tail(inbox[x]))

ReceiveExecuteRequest(x) ==
  /\ Receives(x, "execute.request")
  /\ Request(x, "app", "execute.accept", 0)
  /\ Pops(x)
  /\ UNCHANGED srvPrev

ReceiveExecuteStart(x) ==
  /\ Receives(x, "execute.start")
  /\ Goto(x, "resolving")
  /\ Pops(x)
  /\ UNCHANGED <<layer, srvPrev, call>>

ReceiveEnd(x) ==
  /\ Receives(x, "end")
  /\ Goto(x, "leaving")
  /\ Pops(x)
  /\ UNCHANGED <<layer, srvPrev, call>>

-----------------------------------------------------------------------------
(* Executing: _handle_execute_start_event and execute() *)

\* The dependencies of the handler are resolved; then worker_task and
\* heartbeat_task start together.
StartHandler(x) ==
  /\ pc[x] = "resolving"
  /\ Goto(x, "handler")
  /\ hb' = [hb EXCEPT ![x] = "asleep"]
  /\ UNCHANGED <<engine, stray, layer, seen, protocol, call, outcome, exc,
                 history>>

\* What user code raises by itself, or "Other" for all that goes wrong.
Raised == (Exceptions \cap Outcomes) \cup {"Other"}

\* A dependency, or the decoding of the input, raises.
ResolvingRaises(x) ==
  /\ pc[x] = "resolving"
  /\ Goto(x, "raising")
  /\ exc' \in {[exc EXCEPT ![x] = kind] : kind \in Raised}
  /\ UNCHANGED <<engine, stray, layer, seen, protocol, call, hb, outcome,
                 history>>

\* HeartbeatHandler.__call__: after half the lock duration the heartbeat sends
\* extendlock.  The engine call leaves no trace in this model, which has no
\* clock; that it returns False is only logged.
HeartbeatWakes(x) ==
  /\ hb[x] = "asleep" /\ pc[x] \in {"handler", "joining"}
  /\ hb' = [hb EXCEPT ![x] = "calling"]
  /\ UNCHANGED <<engine, stray, pc, layer, seen, protocol, call, outcome, exc,
                 history>>

HeartbeatReturns(x) ==
  /\ hb[x] = "calling"
  /\ hb' = [hb EXCEPT ![x] = "asleep"]
  /\ srvPrev' = [srvPrev EXCEPT ![x] = "execute.extendlock"]
  /\ UNCHANGED <<engine, stray, pc, layer, seen, inbox, appPrev, started, call,
                 outcome, exc, history>>

\* The extendlock call raises, or the handler is done and its callback cancels
\* the heartbeat.
HeartbeatStops(x) ==
  /\ \/ hb[x] = "calling"
     \/ hb[x] = "asleep" /\ pc[x] = "joining"
  /\ hb' = [hb EXCEPT ![x] = "off"]
  /\ UNCHANGED <<engine, stray, pc, layer, seen, protocol, call, outcome, exc,
                 history>>

HandlerEnds(x) ==
  /\ pc[x] = "handler"
  /\ Goto(x, "joining")
  /\ outcome' \in {[outcome EXCEPT ![x] = o] : o \in Outcomes}
  /\ UNCHANGED <<engine, stray, layer, seen, protocol, call, hb, exc, history>>

\* Deviation: execute() returns as soon as the handler's task is done.
JoinedFirst(x) == pc[x] = "joining"

\* execute() returns when both tasks, the handler's and the heartbeat, are done.
Joined(x) == pc[x] = "joining" /\ hb[x] = "off"

\* An output is encoded and sent;
\* a result object sends itself, a failure with the retries it was given or
\* (RetryOnFailureResult) one less than the task was fetched with.
SendOutcome(x) ==
  /\ Joined(x)
  /\ \/ /\ outcome[x] \in {"execute.complete", "execute.error"}
        /\ Request(x, "app", outcome[x], 0)
        /\ UNCHANGED <<inbox, srvPrev>>
     \/ /\ outcome[x] = "execute.failure"
        /\ \E n \in RetryArgs \cup OneLess(seen[x]) :
             Request(x, "app", "execute.failure", n)
        /\ UNCHANGED <<inbox, srvPrev>>
     \/ /\ outcome[x] = "execute.abort"
        /\ SendWithoutCall(x, "app", "execute.abort", inbox[x])
  /\ UNCHANGED <<engine, stray, seen, appPrev, started, hb, outcome, exc,
                 history>>

\* The handler raised; or it returned, and closing its dependencies, encoding
\* its output or computing its retries raises.  A generator among the
\* dependencies may replace the exception that is thrown into it, or swallow
\* it, which leaves "output" unbound.
OutcomeRaises(x) ==
  /\ Joined(x)
  /\ Goto(x, "raising")
  /\ exc' \in {[exc EXCEPT ![x] = kind] : kind \in Raised}
  /\ UNCHANGED <<engine, stray, layer, seen, protocol, call, hb, outcome,
                 history>>

-----------------------------------------------------------------------------
(* Leaving the application: ContextMiddleware and the exception middlewares *)

\* Deviation: a business error is turned into an output.
ReportsOfCompleting(kind, n) ==
  CASE kind = "Business" -> {<<"execute.complete", 0>>}
    [] kind = "Retry" ->
         {<<"execute.failure", RetriesAfterRetry(n, given)>> : given \in RetryArgs}
    [] OTHER -> {<<"execute.failure", 0>>}

\* The reports the exception handlers make of an exception, with the retries.
ReportsOf(kind, n) ==
  CASE kind = "Business" -> {<<"execute.error", 0>>}
    [] kind = "Retry" ->
         {<<"execute.failure", RetriesAfterRetry(n, given)>> : given \in RetryArgs}
    [] OTHER -> {<<"execute.failure", 0>>}

\* ExceptionMiddleware (wrapped_app).  Context.__aexit__ deletes temporary
\* files on the way and may replace the exception by an error of its own.
CatchInExceptionMiddleware(x) ==
  /\ pc[x] = "raising" /\ layer[x] = "app" /\ "exc" \in started[x]
  /\ \E kind \in {exc[x], "Other"} :
       /\ exc' = [exc EXCEPT ![x] = kind]
       /\ IF kind = "Abort"
          THEN SendWithoutCall(x, "exc", "execute.abort", inbox[x])
          ELSE /\ \E report \in ReportsOf(kind, seen[x]) :
                    Request(x, "exc", report[1], report[2])
               /\ UNCHANGED <<inbox, srvPrev>>
  /\ UNCHANGED <<engine, stray, seen, appPrev, started, hb, outcome, history>>

\* The variables of a business error cannot be encoded: the report raises in
\* the exception handler before it is sent.
ReportingRaises(x) ==
  /\ pc[x] = "raising" /\ layer[x] = "app" /\ "exc" \in started[x]
  /\ exc[x] = "Business"
  /\ layer' = [layer EXCEPT ![x] = "exc"]
  /\ exc' = [exc EXCEPT ![x] = "Other"]
  /\ UNCHANGED <<engine, stray, pc, seen, protocol, call, hb, outcome, history>>

\* ServerErrorMiddleware reports what the ExceptionMiddleware let through or
\* raised itself.
PassesExceptionMiddleware(x) ==
  layer[x] = "exc" \/ (layer[x] = "app" /\ "exc" \notin started[x])

CatchInServerErrorMiddleware(x) ==
  /\ pc[x] = "raising" /\ PassesExceptionMiddleware(x)
  /\ "err" \in started[x]
  /\ Request(x, "err", "execute.failure", Decremented(seen[x]))
  /\ UNCHANGED <<engine, stray, seen, protocol, hb, outcome, exc, history>>

\* Nobody reports the exception: it ends the worker's task, whose exception is
\* read and dropped.
Escapes(x) ==
  /\ pc[x] = "raising"
  /\ layer[x] = "err" \/ (PassesExceptionMiddleware(x) /\ "err" \notin started[x])
  /\ Goto(x, "crashed")
  /\ UNCHANGED <<engine, stray, layer, seen, protocol, call, hb, outcome, exc,
                 history>>

\* The processor left its loop on the end event; the context deletes the
\* temporary files, which may raise.
Leave(x) ==
  /\ pc[x] = "leaving"
  /\ \/ Goto(x, "done") /\ UNCHANGED exc
     \/ Goto(x, "raising") /\ exc' = [exc EXCEPT ![x] = "Other"]
  /\ UNCHANGED <<engine, stray, layer, seen, protocol, call, hb, outcome,
                 history>>

\* The process dies: it is killed, or a request made with get() or post()
\* raised SystemExit anywhere in it.
Crash(x) ==
  /\ pc[x] \notin {"idle", "done", "crashed"}
  /\ Goto(x, "crashed")
  /\ stray' = stray \cup Abandoned(x)
  /\ call' = [call EXCEPT ![x] = NoCall]
  /\ hb' = [hb EXCEPT ![x] = "off"]
  /\ UNCHANGED <<engine, layer, seen, protocol, outcome, exc, history>>

-----------------------------------------------------------------------------

Executing(x) ==
  \/ StartHandler(x) \/ ResolvingRaises(x) \/ HandlerEnds(x)
  \/ SendOutcome(x) \/ OutcomeRaises(x)

Receiving(x) ==
  \/ ReceiveStart(x) \/ ReceiveLockRequest(x) \/ ReceiveExecuteRequest(x)
  \/ ReceiveExecuteStart(x) \/ ReceiveEnd(x)
  \/ GuardRejects(x) \/ GuardRaises(x) \/ DecodingRaises(x)

Catching(x) ==
  \/ CatchInExceptionMiddleware(x) \/ CatchInServerErrorMiddleware(x)
  \/ ReportingRaises(x) \/ Escapes(x) \/ Leave(x)

Calling(x) == RetryCall(x) \/ CallAnswered(x) \/ CallUnanswered(x)

Heartbeating(x) ==
  HeartbeatWakes(x) \/ HeartbeatReturns(x) \/ HeartbeatStops(x)

\* What the coroutine of the exchange does by itself once it has begun.
Proceeds(x) ==
  Begin(x) \/ Receiving(x) \/ Executing(x) \/ Catching(x) \/ Calling(x)

Next ==
  \/ LockExpires
  \/ StrayArrives
  \/ \E x \in Exchange :
       \/ Fetch(x) \/ Proceeds(x) \/ EngineHandles(x) \/ Heartbeating(x)
       \/ Crash(x)

Spec == Init /\ [][Next]_vars

\* The coroutine of an exchange is scheduled, a call that is in flight ends by
\* an answer or by its timeout, a handler returns, a cancelled heartbeat stops.
Fairness == \A x \in Exchange :
  WF_vars(Proceeds(x)) /\ WF_vars(HeartbeatStops(x) /\ pc[x] = "joining")

FairSpec == Spec /\ Fairness

-----------------------------------------------------------------------------
(* The lease of the task, abstracted from the exchange *)

Working(x) == pc[x] \in {"resolving", "handler", "joining"}

\* An exchange works on its task from the time execute.start was received
\* until the outcome is sent or an exception leaves the processor.
StatusOf(x) ==
  IF Working(x) THEN "working"
  ELSE IF appPrev[x] \in {"execute.start", "end"} THEN "over" ELSE "waiting"

Statuses == [x \in Exchange |-> StatusOf(x)]

Leasing == INSTANCE Lease WITH held <- lockLive, status <- Statuses

\* With all its events, calls, lost answers and retries the exchange is a
\* task under a lease: a late lock request never reaches an exchange at work,
\* and the engine takes a completion or an escalation only from an exchange
\* that has worked on the task and works no longer.
ImplementsLease == Leasing!Spec

-----------------------------------------------------------------------------
(* Properties *)

\* While an exchange resolves dependencies, runs the handler or waits for its
\* heartbeat, the engine holds the open task for it, unless its lock expired
\* in between.  Nothing the other exchanges, late requests or retries do can
\* take the task away from it.
ExecutionUnderLease ==
  \A x \in Exchange :
    Working(x) => lapsed[x] \/ (task = "open" /\ owner = x /\ lockLive)

\* Two handlers run for the same task only after a lock expired.
NoDoubleExecution ==
  \A x, y \in Exchange :
    pc[x] = "handler" /\ pc[y] = "handler" /\ x # y => lapsed[x] \/ lapsed[y]

\* A report reaches the engine, or is on its way there, only from an exchange
\* whose application was told that it holds the lock: the task_started flag of
\* ServerErrorMiddleware keeps errors before the lock from being reported.
ReportsFollowGrant ==
  /\ \A x \in Exchange :
       (reports[x] > 0 \/ call[x].event \in Reports) => granted[x]
  /\ \A req \in stray : req.event \in Reports => granted[req.from]

\* A task is completed only for a handler that returned an output; no path
\* through the exception handlers completes it.
CompletedByHandler ==
  task = "completed" => \E x \in Exchange : outcome[x] = "execute.complete"

\* The engine takes two reports from one exchange only when the answer to one
\* of its reports got lost: a report that was answered ends the exchange.
OneAnsweredReport ==
  \A x \in Exchange : reports[x] > 1 => lost[x]

\* After the application received the end event it sends nothing more, not
\* even when deleting its temporary files raises: both middlewares have
\* cleared their task_started flag.
SilentAfterEnd ==
  \A x \in Exchange : appPrev[x] = "end" =>
    pc[x] \in {"leaving", "raising", "done", "crashed"} /\ started[x] = {}

\* The two tables of the protocol fit together: the processor never reaches
\* its "Unexpected event" branch, and the server never raises its ValueError
\* ("unexpected event") for an event that the application sends, by a call or
\* without one, or that the heartbeat sends in between.
ProtocolAgreement ==
  \A x \in Exchange :
    /\ pc[x] = "receiving" =>
         inbox[x] # <<>> /\ AppExpects(Head(inbox[x]), appPrev[x])
    /\ pc[x] = "calling" => ServerExpects(call[x].event, srvPrev[x])
    /\ pc[x] = "receiving" /\ Head(inbox[x]) = "lock.request" =>
         ServerExpects("lock.reject", srvPrev[x])
    /\ pc[x] = "joining" => ServerExpects("execute.abort", srvPrev[x])
    /\ hb[x] # "off" => ServerExpects("execute.extendlock", srvPrev[x])

\* The heartbeat is over before the outcome is sent: an extendlock never
\* overtakes or follows the report of its own exchange.
HeartbeatEndsFirst ==
  \A x \in Exchange : hb[x] # "off" => pc[x] \in {"handler", "joining"}

\* A task that a handler stopped as a fatal failure is not retried: whatever
\* its exchange reports leaves no retries.
FatalStops ==
  \A x \in Exchange : outcome[x] = "Fatal" /\ reports[x] > 0 => retries = 0

\* Every exchange that took a task from the queue ends.
ExchangeEnds ==
  \A x \in Exchange : pc[x] = "queued" ~> pc[x] \in {"done", "crashed"}

=============================================================================
