---------------------------- MODULE Observability ----------------------------
(***************************************************************************)
(* TracingMiddleware and MetricsMiddleware around one exchange: they see   *)
(* its events go by, open and close spans, and count.  Below them are      *)
(* ExceptionMiddleware, the context and the processor, reduced to the      *)
(* order in which their events pass: a report that gets no answer may be   *)
(* followed by another one, everything may be cancelled, and coroutines of *)
(* the handler send requests (operations), even when all is over.          *)
(*                                                                         *)
(* The two states are records, and each method of a middleware is an       *)
(* operator from a state to the next one.                                  *)
(***************************************************************************)
EXTENDS Integers, Sequences

CONSTANT Transaction  \* requests of the handler's coroutines

Phases == {"scope", "lock", "negotiation", "execution"}
Span == Phases \cup Transaction
ASSUME SpanAssumption == Phases \cap Transaction = {}

(* TERMINAL_EVENTS, by the outcome they stand for. *)
Outcomes == {"completed", "failure", "business_error", "aborted"}

VARIABLES
  main,       \* where the coroutine below the middlewares stands
  exception,  \* what left it: "none", "error", "cancelled"
  reported,   \* its first report, or "none"
  end,        \* the end event: "none", "sent" to the application, "taken"
  request,    \* per transaction: "none", "sent", "granted", "denied",
              \* "raised"
  trace,      \* _TracingState; "ends" counts how often a span was ended
  metrics     \* _MetricsState and the instruments: "active_executions" is
              \* the gauge, "executions" the outcomes that were counted

below == <<main, exception, reported, end, request>>
vars == <<below, trace, metrics>>

-----------------------------------------------------------------------------
(* TracingMiddleware.                                                      *)

(* start_span; a tracer that fails starts none. *)
Opened(t, span, works) ==
  IF works THEN [t EXCEPT !.spans = @ \cup {span}] ELSE t

(* finish_span, finish_phase and the end of finish_operation. *)
Closed(t, span) ==
  IF span \in t.spans
    THEN [t EXCEPT !.spans = @ \ {span}, !.ends[span] = @ + 1]
    ELSE t

(* Mutant of FinishExecution: the last report counts, not the first. *)
FinishAgain(t, outcome) ==
  Closed([t EXCEPT !.execution_active = FALSE, !.outcome = outcome],
         "execution")

FinishExecution(t, outcome) ==
  IF t.execution_active
    THEN Closed([t EXCEPT !.execution_active = FALSE, !.outcome = outcome],
                "execution")
    ELSE t

FinishScope(t) == Closed([t EXCEPT !.scope_active = FALSE], "scope")

(* What the end event and finish_state have in common. *)
FinishPhases(t, outcome) ==
  FinishScope(Closed(Closed(FinishExecution(t, outcome), "lock"),
                     "negotiation"))

(* receive_event *)
TraceReceived(t, event, works) ==
  CASE event = "start" ->
         IF t.scope_active THEN t
         ELSE Opened([t EXCEPT !.scope_active = TRUE], "scope", works)
    [] event = "lock.request" -> Opened(t, "lock", works)
    [] event = "execute.request" -> Opened(t, "negotiation", works)
    [] event = "execute.start" ->
         IF t.execution_active THEN t
         ELSE Opened([t EXCEPT !.execution_active = TRUE], "execution", works)
    [] event = "end" -> FinishPhases(t, "cancelled")

(* send_event *)
TraceSent(t, event) ==
  CASE event \in {"lock.accept", "lock.reject"} -> Closed(t, "lock")
    [] event = "execute.accept" -> Closed(t, "negotiation")
    [] event \in Outcomes -> FinishExecution(t, event)

UnreportedOutcome(exc) ==
  IF exc = "cancelled" THEN "cancelled" ELSE "exception"

(* Mutant of TraceFinished: operations are left to their answers. *)
TracePhasesFinished(t, exc) == FinishPhases(t, UnreportedOutcome(exc))

(* finish_state: whatever is open is ended. *)
TraceFinished(t, exc) ==
  LET finished == FinishPhases(t, UnreportedOutcome(exc))
  IN [finished EXCEPT
        !.spans = {},
        !.ends = [s \in Span |-> IF s \in finished.spans THEN @[s] + 1
                                 ELSE @[s]]]

-----------------------------------------------------------------------------
(* MetricsMiddleware.                                                      *)

Counted(m, outcome) ==
  [m EXCEPT !.active = FALSE, !.finished = TRUE,
            !.executions = Append(@, outcome), !.active_executions = @ - 1]

(* Mutant of CountExecution: it does not look whether it counted before. *)
CountAgain(m, outcome) == Counted(m, outcome)

(* finish_execution *)
CountExecution(m, outcome) ==
  IF m.active /\ ~m.finished THEN Counted(m, outcome) ELSE m

(* Mutant of CountOperation: any answer is a success. *)
CountAnswer(m, t, success) ==
  IF t \in m.operations
    THEN [m EXCEPT !.operations = @ \ {t}, !.counted[t] = "success"]
    ELSE m

(* finish_operation *)
CountOperation(m, t, success) ==
  IF t \in m.operations
    THEN [m EXCEPT !.operations = @ \ {t},
                   !.counted[t] = IF success THEN "success" ELSE "failure"]
    ELSE m

(* receive_event *)
MetricsReceived(m, event) ==
  CASE event = "execute.start" /\ ~m.active ->
         [m EXCEPT !.active = TRUE, !.active_executions = @ + 1]
    [] event = "end" -> CountExecution(m, "cancelled")
    [] OTHER -> m

(* send_event *)
MetricsSent(m, event) ==
  IF event \in Outcomes THEN CountExecution(m, event) ELSE m

(* finish_state *)
MetricsFinished(m) ==
  LET finished == CountExecution(m, "cancelled")
  IN [finished EXCEPT
        !.operations = {},
        !.counted = [t \in Transaction |-> IF t \in finished.operations
                                           THEN "failure" ELSE @[t]]]

-----------------------------------------------------------------------------
(* The exchange.                                                           *)

Init ==
  /\ main = "idle"
  /\ exception = "none"
  /\ reported = "none"
  /\ end = "none"
  /\ request = [t \in Transaction |-> "none"]
  /\ trace = [scope_active |-> FALSE, execution_active |-> FALSE,
              outcome |-> "none", spans |-> {}, ends |-> [s \in Span |-> 0]]
  /\ metrics = [active |-> FALSE, finished |-> FALSE, active_executions |-> 0,
                executions |-> <<>>, operations |-> {},
                counted |-> [t \in Transaction |-> "none"]]

(* An event goes by on its way to the application, or away from it: before *)
(* it is sent, and whatever becomes of it.                                 *)
Receives(event) ==
  /\ \E works \in BOOLEAN : trace' = TraceReceived(trace, event, works)
  /\ metrics' = MetricsReceived(metrics, event)
Sends(event) ==
  /\ trace' = TraceSent(trace, event)
  /\ metrics' = MetricsSent(metrics, event)

Start ==
  /\ main = "idle"
  /\ main' = "started"
  /\ Receives("start")
  /\ UNCHANGED <<exception, reported, end, request>>

LockRequested ==
  /\ main = "started"
  /\ main' = "asked"
  /\ Receives("lock.request")
  /\ UNCHANGED <<exception, reported, end, request>>

(* The processor has a handler for the task, or none; a rejection is *)
(* answered by the end event.                                         *)
AnswerLock ==
  /\ main = "asked"
  /\ \/ Sends("lock.accept") /\ main' = "locking" /\ UNCHANGED end
     \/ Sends("lock.reject") /\ main' = "closing" /\ end' = "sent"
  /\ UNCHANGED <<exception, reported, request>>

(* The lock is not granted, or the variables cannot be had. *)
Refused ==
  /\ main \in {"locking", "accepting"}
  /\ main' = "closing"
  /\ end' = "sent"
  /\ UNCHANGED <<exception, reported, request, trace, metrics>>

ExecuteRequested ==
  /\ main = "locking"
  /\ main' = "requested"
  /\ Receives("execute.request")
  /\ UNCHANGED <<exception, reported, end, request>>

AcceptExecute ==
  /\ main = "requested"
  /\ main' = "accepting"
  /\ Sends("execute.accept")
  /\ UNCHANGED <<exception, reported, end, request>>

ExecuteStarts ==
  /\ main = "accepting"
  /\ main' = "executing"
  /\ Receives("execute.start")
  /\ UNCHANGED <<exception, reported, end, request>>

(* The lock of ContextMiddleware is free. *)
LineFree == \A t \in Transaction : request[t] # "sent"

(* The processor sends an output or a result. *)
Report(outcome) ==
  /\ main = "executing"
  /\ LineFree
  /\ main' = "reporting"
  /\ reported' = outcome
  /\ Sends(outcome)
  /\ UNCHANGED <<exception, end, request>>

(* ExceptionMiddleware reports what was raised: by the handler, or by the  *)
(* report that got no answer.                                              *)
ReportException(outcome) ==
  /\ main \in {"executing", "reporting"}
  /\ main' = "fallback"
  /\ reported' = IF reported = "none" THEN outcome ELSE reported
  /\ Sends(outcome)
  /\ UNCHANGED <<exception, end, request>>

(* A handler of the application for exceptions need not report anything. *)
Swallow ==
  /\ main \in {"executing", "reporting"}
  /\ main' = "returned"
  /\ UNCHANGED <<exception, reported, end, request, trace, metrics>>

(* The report is answered by the end; only the processor waits for it. *)
ReportAnswered ==
  /\ \/ main = "reporting" /\ main' = "closing"
     \/ main = "fallback" /\ main' = "returned"
  /\ end' = "sent"
  /\ UNCHANGED <<exception, reported, request, trace, metrics>>

(* The processor gets the end; if a coroutine of the handler took it from  *)
(* the server side, the middlewares have seen it already.                  *)
Ends ==
  /\ main = "closing"
  /\ LineFree
  /\ main' = "returned"
  /\ \/ end = "sent" /\ Receives("end") /\ end' = "taken"
     \/ end = "taken" /\ UNCHANGED <<end, trace, metrics>>
  /\ UNCHANGED <<exception, reported, request>>

(* An exception gets through to the middlewares. *)
Raises ==
  /\ \/ /\ main \in {"locking", "accepting", "executing", "reporting",
                     "fallback", "closing", "returned"}
        /\ exception' = "cancelled"
     \/ /\ main \in {"locking", "accepting", "executing", "reporting",
                     "fallback", "returned"}
        /\ exception' = "error"
  /\ main' = "raised"
  /\ UNCHANGED <<reported, end, request, trace, metrics>>

Finish ==
  /\ main \in {"returned", "raised"}
  /\ main' = "over"
  /\ trace' = TraceFinished(trace, exception)
  /\ metrics' = MetricsFinished(metrics)
  /\ UNCHANGED <<exception, reported, end, request>>

-----------------------------------------------------------------------------
(* Operations: signals, messages and downloads.                            *)

Request(t) ==
  /\ request[t] = "none"
  /\ LineFree
  /\ main \in {"executing", "fallback", "closing", "returned", "raised",
               "over"}  \* "reporting", the processor holds the lock
  /\ request' = [request EXCEPT ![t] = "sent"]
  /\ \E works \in BOOLEAN : trace' = Opened(trace, t, works)
  /\ metrics' = [metrics EXCEPT !.operations = @ \cup {t}]
  /\ UNCHANGED <<main, exception, reported, end>>

(* If the end event was there before the answer, it goes by first, and is  *)
(* put aside for the processor.                                            *)
Answered(t, success) ==
  LET seen == IF end = "sent" THEN TraceReceived(trace, "end", TRUE)
              ELSE trace
      count == IF end = "sent" THEN MetricsReceived(metrics, "end")
               ELSE metrics
  IN /\ request[t] = "sent"
     /\ request' = [request EXCEPT
                      ![t] = IF success THEN "granted" ELSE "denied"]
     /\ trace' = Closed(seen, t)
     /\ metrics' = CountOperation(count, t, success)
     /\ end' = IF end = "sent" THEN "taken" ELSE end
     /\ UNCHANGED <<main, exception, reported>>

(* Nobody tells the middlewares that a send raised or was cancelled. *)
RequestRaises(t) ==
  /\ request[t] = "sent"
  /\ request' = [request EXCEPT ![t] = "raised"]
  /\ UNCHANGED <<main, exception, reported, end, trace, metrics>>

Operation(t) ==
  \/ Request(t) \/ RequestRaises(t)
  \/ \E success \in BOOLEAN : Answered(t, success)

Next ==
  \/ Start \/ LockRequested \/ AnswerLock \/ Refused
  \/ ExecuteRequested \/ AcceptExecute \/ ExecuteStarts
  \/ \E outcome \in Outcomes : Report(outcome)
  \/ \E outcome \in Outcomes \ {"completed"} : ReportException(outcome)
  \/ Swallow \/ ReportAnswered \/ Ends \/ Raises \/ Finish
  \/ \E t \in Transaction : Operation(t)

Spec == Init /\ [][Next]_vars

-----------------------------------------------------------------------------
(* Properties.                                                             *)

(* The states are typed, and what is counted up is counted down.           *)
TypeOK ==
  /\ main \in {"idle", "started", "asked", "locking", "requested",
               "accepting", "executing", "reporting", "fallback", "closing",
               "returned", "raised", "over"}
  /\ exception \in {"none", "error", "cancelled"}
  /\ reported \in Outcomes \cup {"none"}
  /\ end \in {"none", "sent", "taken"}
  /\ request \in [Transaction ->
                    {"none", "sent", "granted", "denied", "raised"}]
  /\ trace \in [scope_active : BOOLEAN, execution_active : BOOLEAN,
                outcome : Outcomes \cup {"none", "exception", "cancelled"},
                spans : SUBSET Span, ends : [Span -> 0..1]]
  /\ metrics \in [active : BOOLEAN, finished : BOOLEAN,
                  active_executions : 0..1,
                  executions : Seq(Outcomes \cup {"cancelled"}),
                  operations : SUBSET Transaction,
                  counted : [Transaction -> {"none", "success", "failure"}]]

(* However an exchange ends, no span is left open and the gauge is back;   *)
(* what is open later is a request that was made later.                    *)
NothingLeftOpen ==
  [][main' = "over" =>
       /\ trace'.spans \subseteq
            {t \in Transaction : main = "over" /\ request'[t] \in {"sent", "raised"}}
       /\ metrics'.active_executions = 0]_vars

(* An execution is counted once, and traces and metrics agree on what it   *)
(* was: the first report, though a second one may follow it that the       *)
(* engine took.  Without any report the trace tells an exception from a    *)
(* cancellation, the metrics do not.                                       *)
OneOutcome ==
  /\ reported # "none" =>
       metrics.executions = <<reported>> /\ trace.outcome = reported
  /\ reported = "none" /\ metrics.executions # <<>> =>
       /\ metrics.executions = <<"cancelled">>
       /\ main = "over"
       /\ trace.outcome = IF exception = "cancelled" THEN "cancelled"
                          ELSE "exception"

(* An operation is counted as a success only if the coroutine that asked   *)
(* was told so, and one that was told so is, unless the exchange was over  *)
(* before its answer.                                                      *)
OperationsTold ==
  \A t \in Transaction :
    /\ metrics.counted[t] = "success" => request[t] = "granted"
    /\ request[t] = "granted" /\ main # "over" => metrics.counted[t] = "success"
    /\ request[t] = "denied" => metrics.counted[t] = "failure"
=============================================================================
