------------------------- MODULE Observability_proofs -------------------------
(* Theorems about Observability: for any number of operations.              *)
EXTENDS Observability, TLAPS

(* What a trace may say of the execution. *)
Told == Outcomes \cup {"none", "exception", "cancelled"}

TraceState ==
  [scope_active : BOOLEAN, execution_active : BOOLEAN, outcome : Told,
   spans : SUBSET Span, ends : [Span -> 0..1]]

Counts == Seq(Outcomes \cup {"cancelled"})

MetricsState ==
  [active : BOOLEAN, finished : BOOLEAN, active_executions : 0..1,
   executions : Counts,
   operations : SUBSET Transaction,
   counted : [Transaction -> {"none", "success", "failure"}]]

(* A span that is open was never ended. *)
Sound(t) == t \in TraceState /\ \A s \in t.spans : t.ends[s] = 0

(* From t to r spans were ended, and nothing else happened to them. *)
Closes(t, r) ==
  /\ Sound(r)
  /\ r.spans \subseteq t.spans
  /\ \A s \in Span \ t.spans : r.ends[s] = t.ends[s]

(* What comes before the execution. *)
Before == {"idle", "started", "asked", "locking", "requested", "accepting"}

(* Spans that were not opened yet. *)
Ahead ==
  CASE main = "idle" -> Phases
    [] main = "started" -> {"lock", "negotiation", "execution"}
    [] main \in {"asked", "locking"} -> {"negotiation", "execution"}
    [] main \in {"requested", "accepting"} -> {"execution"}
    [] OTHER -> {}

Unopened(s) == s \notin trace.spans /\ trace.ends[s] = 0

(* The middlewares agree on whether something is executed, and that is    *)
(* neither before nor after the handler, nor when it has reported.        *)
Activity ==
  /\ trace.execution_active <=> metrics.active
  /\ metrics.active_executions = IF metrics.active THEN 1 ELSE 0
  /\ metrics.finished <=> metrics.executions # <<>>
  /\ metrics.active => ~metrics.finished /\ end = "none"
  /\ main \in Before =>
       ~metrics.active /\ reported = "none" /\ end = "none"
  /\ main = "executing" => metrics.active
  /\ main \in {"reporting", "fallback"} => reported # "none"
  /\ main = "over" => ~metrics.active

(* Each span is opened once. *)
Spans ==
  /\ Sound(trace)
  /\ \A s \in Ahead : Unopened(s)
  /\ \A t \in Transaction : request[t] = "none" => Unopened(t)
  /\ main = "over" =>
       trace.spans \subseteq
         {t \in Transaction : request[t] \in {"sent", "raised"}}

(* An operation is pending in the metrics until it is answered, or the *)
(* exchange is over.                                                   *)
Pending ==
  \A t \in Transaction :
    /\ request[t] = "none" => metrics.counted[t] = "none"
    /\ t \in metrics.operations =>
         request[t] \in {"sent", "raised"} /\ metrics.counted[t] = "none"
    /\ request[t] = "sent" /\ t \notin metrics.operations =>
         main = "over" /\ metrics.counted[t] = "failure"

IInv ==
  TypeOK /\ Activity /\ Spans /\ OneOutcome /\ Pending /\ OperationsTold
-----------------------------------------------------------------------------
(* What the methods of the middlewares do to spans.                         *)

(* Ending spans in several steps is ending them. *)
LEMMA ClosesTransitive ==
  ASSUME NEW t, NEW r, NEW q, Closes(t, r), Closes(r, q)
  PROVE  Closes(t, q)
BY DEF Closes

(* Ending one span ends that one alone. *)
LEMMA ClosedCloses ==
  ASSUME NEW t, Sound(t), NEW s \in Span
  PROVE  /\ Closes(t, Closed(t, s))
         /\ Closed(t, s).spans = t.spans \ {s}
         /\ Closed(t, s).scope_active = t.scope_active
         /\ Closed(t, s).execution_active = t.execution_active
         /\ Closed(t, s).outcome = t.outcome
<1> DEFINE r == [t EXCEPT !.spans = @ \ {s}, !.ends[s] = @ + 1]
<1>1. CASE s \in t.spans
  <2>1. Closed(t, s) = r
    BY <1>1 DEF Closed
  <2>2. /\ r.spans = t.spans \ {s}
        /\ r.scope_active = t.scope_active
        /\ r.execution_active = t.execution_active
        /\ r.outcome = t.outcome
        /\ r.ends = [t.ends EXCEPT ![s] = t.ends[s] + 1]
    BY DEF Sound, TraceState
  <2>3. t.ends[s] = 0
    BY <1>1 DEF Sound
  <2>4. r.ends \in [Span -> 0..1]
    BY <2>2, <2>3 DEF Sound, TraceState
  <2>5. r \in TraceState
    BY <2>2, <2>4 DEF Sound, TraceState
  <2>6. \A u \in Span \ {s} : r.ends[u] = t.ends[u]
    BY <2>2 DEF Sound, TraceState
  <2>7. Sound(r)
    BY <2>2, <2>5, <2>6 DEF Sound, TraceState
  <2> QED
    BY <1>1, <2>1, <2>2, <2>6, <2>7 DEF Closes
<1>2. CASE s \notin t.spans
  BY <1>2 DEF Closed, Closes, Sound
<1> QED
  BY <1>1, <1>2

(* A flag or an outcome that is set leaves the spans alone. *)
LEMMA FlagsClose ==
  ASSUME NEW t, Sound(t),
         NEW outcome \in Told
  PROVE  /\ Closes(t, t)
         /\ Closes(t, [t EXCEPT !.scope_active = FALSE])
         /\ Closes(t, [t EXCEPT !.execution_active = FALSE, !.outcome = outcome])
<1> DEFINE r == [t EXCEPT !.scope_active = FALSE]
           q == [t EXCEPT !.execution_active = FALSE, !.outcome = outcome]
<1>1. r \in TraceState /\ r.spans = t.spans /\ r.ends = t.ends
  BY DEF Sound, TraceState
<1>2. q \in TraceState /\ q.spans = t.spans /\ q.ends = t.ends
  BY DEF Sound, TraceState
<1> QED
  BY <1>1, <1>2 DEF Closes, Sound

(* finish_execution ends spans, and sets the outcome of what was active. *)
LEMMA ExecutionCloses ==
  ASSUME NEW t, Sound(t), NEW outcome \in Told
  PROVE  LET r == FinishExecution(t, outcome)
         IN /\ Closes(t, r)
            /\ ~r.execution_active
            /\ r.outcome = IF t.execution_active THEN outcome ELSE t.outcome
<1> DEFINE q == [t EXCEPT !.execution_active = FALSE, !.outcome = outcome]
<1>1. CASE t.execution_active
  <2>1. Closes(t, q) /\ Sound(q)
    BY FlagsClose DEF Closes, Told
  <2>2. ~q.execution_active /\ q.outcome = outcome
    BY DEF Sound, TraceState
  <2>3. FinishExecution(t, outcome) = Closed(q, "execution")
    BY <1>1 DEF FinishExecution
  <2>4. Closes(q, Closed(q, "execution"))
    BY <2>1, ClosedCloses DEF Span, Phases
  <2>5. Closes(t, Closed(q, "execution"))
    BY <2>1, <2>4, ClosesTransitive
  <2>6. /\ ~Closed(q, "execution").execution_active
        /\ Closed(q, "execution").outcome = outcome
    BY <2>1, <2>2, ClosedCloses DEF Span, Phases
  <2> QED
    BY <1>1, <2>3, <2>5, <2>6 DEF Closes
<1>2. CASE ~t.execution_active
  <2>1. FinishExecution(t, outcome) = t
    BY <1>2 DEF FinishExecution
  <2> QED
    BY <1>2, <2>1, FlagsClose DEF Closes
<1> QED
  BY <1>1, <1>2

(* finish_phases ends spans, those of the three phases among them. *)
LEMMA PhasesClose ==
  ASSUME NEW t, Sound(t), NEW outcome \in Told
  PROVE  LET r == FinishPhases(t, outcome)
         IN /\ Closes(t, r)
            /\ ~r.execution_active
            /\ r.outcome = IF t.execution_active THEN outcome ELSE t.outcome
<1> DEFINE e == FinishExecution(t, outcome)
           l == Closed(e, "lock")
           n == Closed(l, "negotiation")
           f == [n EXCEPT !.scope_active = FALSE]
           r == Closed(f, "scope")
<1>1. Closes(t, e) /\ Sound(e) /\ ~e.execution_active
      /\ e.outcome = IF t.execution_active THEN outcome ELSE t.outcome
  BY ExecutionCloses DEF Closes
<1>2. {"lock", "negotiation", "scope"} \subseteq Span
  BY DEF Span, Phases
<1>3. Closes(e, l) /\ Sound(l) /\ l.execution_active = e.execution_active
      /\ l.outcome = e.outcome
  <2> HIDE DEF e
  <2> QED BY <1>1, <1>2, ClosedCloses DEF Closes
<1>4. Closes(l, n) /\ Sound(n) /\ n.execution_active = l.execution_active
      /\ n.outcome = l.outcome
  <2> HIDE DEF l
  <2> QED BY <1>2, <1>3, ClosedCloses DEF Closes
<1>5. Closes(n, f) /\ Sound(f) /\ f.execution_active = n.execution_active
      /\ f.outcome = n.outcome
  <2> HIDE DEF n
  <2> QED BY <1>4, FlagsClose DEF Closes, Sound, TraceState
<1>6. Closes(f, r) /\ r.execution_active = f.execution_active
      /\ r.outcome = f.outcome
  <2> HIDE DEF f
  <2> QED BY <1>2, <1>5, ClosedCloses DEF Closes
<1>7. FinishPhases(t, outcome) = r
  BY DEF FinishPhases, FinishScope
<1> HIDE DEF e, l, n, f, r
<1>8. Closes(t, r)
  BY <1>1, <1>3, <1>4, <1>5, <1>6, ClosesTransitive
<1> QED
  BY <1>1, <1>3, <1>4, <1>5, <1>6, <1>7, <1>8 DEF Closes
(* A span that was not opened yet may be opened. *)
LEMMA OpenedOnce ==
  ASSUME NEW t, Sound(t), NEW s \in Span, t.ends[s] = 0, NEW works \in BOOLEAN
  PROVE  LET r == Opened(t, s, works)
         IN /\ Sound(r)
            /\ r.spans \subseteq t.spans \cup {s}
            /\ r.ends = t.ends
            /\ r.scope_active = t.scope_active
            /\ r.execution_active = t.execution_active
            /\ r.outcome = t.outcome
<1> DEFINE r == [t EXCEPT !.spans = @ \cup {s}]
<1>1. /\ r \in TraceState /\ r.spans = t.spans \cup {s} /\ r.ends = t.ends
      /\ r.scope_active = t.scope_active
      /\ r.execution_active = t.execution_active /\ r.outcome = t.outcome
  BY DEF Sound, TraceState
<1> QED
  BY <1>1 DEF Opened, Sound

(* finish_state ends every span. *)
LEMMA TraceFinishes ==
  ASSUME NEW t, Sound(t), NEW exc
  PROVE  LET r == TraceFinished(t, exc)
         IN /\ Sound(r)
            /\ r.spans = {}
            /\ ~r.execution_active
            /\ r.outcome = IF t.execution_active THEN UnreportedOutcome(exc)
                           ELSE t.outcome
            /\ \A s \in Span \ t.spans : r.ends[s] = t.ends[s]
<1> DEFINE o == UnreportedOutcome(exc)
           f == FinishPhases(t, o)
           e == [s \in Span |-> IF s \in f.spans THEN f.ends[s] + 1
                                ELSE f.ends[s]]
           r == [f EXCEPT !.spans = {}, !.ends = e]
<1>1. o \in Told
  BY DEF UnreportedOutcome, Told
<1>2. Closes(t, f) /\ Sound(f) /\ ~f.execution_active
      /\ f.outcome = IF t.execution_active THEN o ELSE t.outcome
  <2> HIDE DEF o
  <2> QED BY <1>1, PhasesClose DEF Closes
<1>3. TraceFinished(t, exc) = r
  BY DEF TraceFinished
<1> HIDE DEF o, f
<1>4. e \in [Span -> 0..1]
  BY <1>2 DEF Sound, TraceState
<1>5. r \in TraceState /\ r.spans = {} /\ r.ends = e
      /\ r.execution_active = f.execution_active /\ r.outcome = f.outcome
  BY <1>2, <1>4 DEF Sound, TraceState
<1>6. \A s \in Span \ t.spans : e[s] = t.ends[s]
  BY <1>2 DEF Closes
<1>7. Sound(r)
  BY <1>5 DEF Sound
<1> QED
  BY <1>2, <1>3, <1>5, <1>6, <1>7 DEF o

-----------------------------------------------------------------------------
(* What the methods do to the counts.                                       *)

(* An execution is counted if it is active, and is not active any more. *)
LEMMA ExecutionCounts ==
  ASSUME NEW m \in MetricsState, NEW outcome \in Outcomes \cup {"cancelled"},
         m.active => ~m.finished /\ m.active_executions = 1
  PROVE  LET r == CountExecution(m, outcome)
         IN /\ r \in MetricsState
            /\ ~r.active
            /\ r.finished <=> m.finished \/ m.active
            /\ r.active_executions = IF m.active THEN 0
                                     ELSE m.active_executions
            /\ r.executions = IF m.active THEN Append(m.executions, outcome)
                              ELSE m.executions
            /\ r.operations = m.operations
            /\ r.counted = m.counted
<1> DEFINE e == Append(m.executions, outcome)
           c == [m EXCEPT !.active = FALSE, !.finished = TRUE,
                   !.executions = e, !.active_executions = 0]
<1>1. CASE m.active
  <2>1. CountExecution(m, outcome)
          = [m EXCEPT !.active = FALSE, !.finished = TRUE, !.executions = e,
                      !.active_executions = m.active_executions - 1]
    BY <1>1 DEF CountExecution, Counted
  <2>2. m.active_executions - 1 = 0
    BY <1>1
  <2>3. CountExecution(m, outcome) = c
    BY <2>1, <2>2
  <2>4. e \in Counts
    BY DEF MetricsState, Counts
  <2> HIDE DEF e
  <2>5. c \in MetricsState
    <3> DEFINE a == [m EXCEPT !.active = FALSE, !.finished = TRUE]
               b == [a EXCEPT !.executions = e]
               d == [b EXCEPT !.active_executions = 0]
    <3>1. a \in MetricsState
      BY DEF MetricsState
    <3>2. b \in MetricsState
      <4> HIDE DEF a
      <4> QED BY <2>4, <3>1 DEF MetricsState
    <3>3. d \in MetricsState
      <4> HIDE DEF b
      <4> QED BY <3>2 DEF MetricsState
    <3> QED BY <3>3
  <2>6. /\ c.active = FALSE /\ c.finished = TRUE
        /\ c.active_executions = 0 /\ c.executions = e
        /\ c.operations = m.operations /\ c.counted = m.counted
    BY DEF MetricsState
  <2> HIDE DEF c
  <2> QED
    BY <1>1, <2>3, <2>5, <2>6, Zenon DEF e
<1>2. CASE ~m.active
  <2>1. CountExecution(m, outcome) = m
    BY <1>2 DEF CountExecution
  <2> QED
    BY <1>2, <2>1, Zenon
<1> QED
  BY <1>1, <1>2

(* An operation is counted if it is pending, and the rest stays. *)
LEMMA OperationCounts ==
  ASSUME NEW m \in MetricsState, NEW t \in Transaction, NEW success \in BOOLEAN
  PROVE  LET r == CountOperation(m, t, success)
         IN /\ r \in MetricsState
            /\ r.active = m.active
            /\ r.finished = m.finished
            /\ r.active_executions = m.active_executions
            /\ r.executions = m.executions
            /\ r.operations = m.operations \ {t}
            /\ r.counted =
                 IF t \in m.operations
                   THEN [m.counted EXCEPT ![t] = IF success THEN "success"
                                                 ELSE "failure"]
                   ELSE m.counted
<1> DEFINE n == [m.counted EXCEPT ![t] = IF success THEN "success"
                                         ELSE "failure"]
           r == [m EXCEPT !.operations = m.operations \ {t}, !.counted = n]
<1>1. n \in [Transaction -> {"none", "success", "failure"}]
  BY DEF MetricsState
<1>2. CASE t \in m.operations
  <2>1. CountOperation(m, t, success) = r
    BY <1>2 DEF CountOperation, MetricsState
  <2>2. /\ r \in MetricsState /\ r.operations = m.operations \ {t}
        /\ r.counted = n /\ r.active = m.active /\ r.finished = m.finished
        /\ r.active_executions = m.active_executions
        /\ r.executions = m.executions
    BY <1>1 DEF MetricsState
  <2> QED
    BY <1>2, <2>1, <2>2
<1>3. CASE t \notin m.operations
  BY <1>3 DEF CountOperation
<1> QED
  BY <1>2, <1>3

(* Executions still active count as cancelled, pending operations as failed. *)
LEMMA MetricsFinish ==
  ASSUME NEW m \in MetricsState,
         m.active => ~m.finished /\ m.active_executions = 1
  PROVE  LET r == MetricsFinished(m)
         IN /\ r \in MetricsState
            /\ ~r.active
            /\ r.finished <=> m.finished \/ m.active
            /\ r.active_executions = IF m.active THEN 0
                                     ELSE m.active_executions
            /\ r.executions = IF m.active THEN Append(m.executions, "cancelled")
                              ELSE m.executions
            /\ r.operations = {}
            /\ r.counted = [t \in Transaction |-> IF t \in m.operations
                                                  THEN "failure"
                                                  ELSE m.counted[t]]
<1> DEFINE c == CountExecution(m, "cancelled")
           n == [t \in Transaction |-> IF t \in c.operations THEN "failure"
                                       ELSE c.counted[t]]
           r == [c EXCEPT !.operations = {}, !.counted = n]
<1>1. /\ c \in MetricsState
      /\ ~c.active
      /\ c.finished <=> m.finished \/ m.active
      /\ c.active_executions = IF m.active THEN 0 ELSE m.active_executions
      /\ c.executions = IF m.active THEN Append(m.executions, "cancelled")
                        ELSE m.executions
      /\ c.operations = m.operations
      /\ c.counted = m.counted
  BY ExecutionCounts
<1>2. MetricsFinished(m) = r
  BY DEF MetricsFinished
<1> HIDE DEF c
<1>3. n \in [Transaction -> {"none", "success", "failure"}]
  BY <1>1 DEF MetricsState
<1>4. /\ r \in MetricsState
      /\ r.active = c.active /\ r.finished = c.finished
      /\ r.active_executions = c.active_executions
      /\ r.executions = c.executions /\ r.operations = {} /\ r.counted = n
  BY <1>1, <1>3 DEF MetricsState
<1> QED
  BY <1>1, <1>2, <1>4
-----------------------------------------------------------------------------
(* The invariant.                                                           *)

(* It holds in the beginning. *)
LEMMA Begins == Init => IInv
<1> SUFFICES ASSUME Init PROVE IInv
  OBVIOUS
<1>1. trace \in TraceState /\ trace.spans = {} /\ \A s \in Span : trace.ends[s] = 0
  BY DEF Init, TraceState, Told
<1>2. metrics \in MetricsState
  BY DEF Init, MetricsState, Counts
<1>3. TypeOK
  BY <1>1, <1>2 DEF Init, TypeOK, TraceState, MetricsState, Told, Counts
<1>4. Activity /\ OneOutcome /\ Pending /\ OperationsTold
  BY DEF Init, Activity, OneOutcome, Pending, OperationsTold, Before
<1>5. Spans
  BY <1>1 DEF Spans, Sound, Ahead, Unopened, Span, Phases, Init
<1> QED
  BY <1>3, <1>4, <1>5 DEF IInv

(* The spans when some of them are ended. *)
LEMMA SpansEnd ==
  ASSUME Spans, Closes(trace, trace'), Ahead' \subseteq Ahead,
         \A t \in Transaction : request'[t] = "none" => request[t] = "none",
         main' = "over" =>
           trace'.spans \subseteq
             {t \in Transaction : request'[t] \in {"sent", "raised"}}
  PROVE  Spans'
<1>1. ASSUME NEW s \in Span, Unopened(s) PROVE Unopened(s)'
  BY <1>1 DEF Closes, Unopened
<1>2. Ahead \subseteq Span
  BY DEF Ahead, Span, Phases
<1> QED
  BY <1>1, <1>2 DEF Spans, Closes, Span

(* The spans when one of them is opened, if the tracer works. *)
LEMMA SpansOpen ==
  ASSUME Spans, NEW s \in Span, Sound(trace'),
         trace'.spans \subseteq trace.spans \cup {s}, trace'.ends = trace.ends,
         Ahead' \subseteq Ahead \ {s},
         \A t \in Transaction :
           request'[t] = "none" => request[t] = "none" /\ t # s,
         main' = "over" =>
           trace'.spans \subseteq
             {t \in Transaction : request'[t] \in {"sent", "raised"}}
  PROVE  Spans'
<1>1. ASSUME NEW u \in Span, u # s, Unopened(u) PROVE Unopened(u)'
  BY <1>1 DEF Unopened
<1>2. Ahead \subseteq Span
  BY DEF Ahead, Span, Phases
<1> QED
  BY <1>1, <1>2 DEF Spans, Span

(* What the invariant says of the counts, as the lemmas above need it. *)
LEMMA CountsKnown ==
  ASSUME IInv
  PROVE  /\ Sound(trace) /\ trace \in TraceState
         /\ metrics \in MetricsState
         /\ metrics.active => ~metrics.finished /\ metrics.active_executions = 1
BY DEF IInv, Spans, Sound, Activity, TypeOK, MetricsState, Counts

(* The type invariant, but for the states of the middlewares. *)
LEMMA TypesKeep ==
  ASSUME TypeOK, trace' \in TraceState, metrics' \in MetricsState,
         main' \in {"idle", "started", "asked", "locking", "requested",
                   "accepting", "executing", "reporting", "fallback",
                   "closing", "returned", "raised", "over"},
         exception' \in {"none", "error", "cancelled"},
         reported' \in Outcomes \cup {"none"},
         end' \in {"none", "sent", "taken"},
         request' \in [Transaction ->
                        {"none", "sent", "granted", "denied", "raised"}]
  PROVE  TypeOK'
BY Zenon DEF TypeOK, TraceState, MetricsState, Told, Counts

(* What passes before the execution leaves the counts alone. *)
LEMMA BeforeKeeps ==
  ASSUME IInv, main \in Before,
         main' \in Before \cup {"closing"},
         trace'.execution_active = trace.execution_active,
         trace'.outcome = trace.outcome,
         metrics' = metrics, UNCHANGED <<exception, reported, request>>,
         end' = IF main' = "closing" THEN "sent" ELSE end,
         Spans'
  PROVE  IInv'
<1>1. trace' \in TraceState
  BY DEF Spans, Sound
<1>2. TypeOK'
  BY <1>1 DEF IInv, TypeOK, Before, TraceState, Told
<1>3. Activity' /\ OneOutcome'
  BY DEF IInv, Activity, OneOutcome, Before
<1>4. Pending' /\ OperationsTold'
  BY DEF IInv, Pending, OperationsTold, Before
<1> QED
  BY <1>2, <1>3, <1>4 DEF IInv

(* Up to the execution, the events of the negotiation keep the invariant. *)
LEMMA BeforeSteps ==
  ASSUME IInv,
         \/ Start \/ LockRequested \/ AnswerLock \/ Refused
         \/ ExecuteRequested \/ AcceptExecute
  PROVE  IInv'
<1>1. {"scope", "lock", "negotiation"} \subseteq Span
  BY DEF Span, Phases
<1>2. \A s \in Phases \cap Span : s \notin Transaction
  BY SpanAssumption
<1>3. Sound(trace) /\ Spans /\ trace \in TraceState
  BY CountsKnown DEF IInv
<1>4. CASE Start
  <2> PICK works \in BOOLEAN : trace' = TraceReceived(trace, "start", works)
    BY <1>4 DEF Start, Receives
  <2> DEFINE t == [trace EXCEPT !.scope_active = TRUE]
  <2>1. trace.ends["scope"] = 0 /\ t.ends = trace.ends /\ t.spans = trace.spans
        /\ t.execution_active = trace.execution_active /\ t.outcome = trace.outcome
        /\ Sound(t)
    BY <1>3, <1>4 DEF Start, Spans, Ahead, Unopened, Phases, Sound, TraceState
  <2>2. trace' = trace \/ trace' = Opened(t, "scope", works)
    BY DEF TraceReceived
  <2> HIDE DEF t
  <2>3. /\ Sound(trace') /\ trace'.spans \subseteq trace.spans \cup {"scope"}
        /\ trace'.ends = trace.ends
        /\ trace'.execution_active = trace.execution_active
        /\ trace'.outcome = trace.outcome
    BY <1>1, <1>3, <2>1, <2>2, OpenedOnce
  <2>4. metrics' = metrics
    BY <1>4 DEF Start, Receives, MetricsReceived
  <2>5. Spans'
    BY <1>1, <1>2, <1>3, <1>4, <2>3, SpansOpen DEF Start, Ahead, Phases, Span
  <2> QED
    BY <1>4, <2>3, <2>4, <2>5, BeforeKeeps DEF Start, Before
<1>5. CASE LockRequested \/ ExecuteRequested
  <2> DEFINE s == IF LockRequested THEN "lock" ELSE "negotiation"
  <2> PICK works \in BOOLEAN : trace' = Opened(trace, s, works)
    BY <1>5 DEF LockRequested, ExecuteRequested, Receives, TraceReceived
  <2>1. trace.ends[s] = 0 /\ s \in Span /\ s \in Phases
    BY <1>1, <1>3, <1>5 DEF LockRequested, ExecuteRequested, Spans, Ahead,
       Unopened, Phases
  <2>2. Ahead' \subseteq Ahead \ {s}
    BY <1>5 DEF LockRequested, ExecuteRequested, Ahead
  <2>3. /\ main \in Before /\ main' \in Before
        /\ UNCHANGED <<exception, reported, end, request>>
        /\ metrics' = metrics
    BY <1>5 DEF LockRequested, ExecuteRequested, Before, Receives,
       MetricsReceived
  <2> HIDE DEF s
  <2>4. /\ Sound(trace') /\ trace'.spans \subseteq trace.spans \cup {s}
        /\ trace'.ends = trace.ends
        /\ trace'.execution_active = trace.execution_active
        /\ trace'.outcome = trace.outcome
    BY <1>3, <2>1, OpenedOnce
  <2>5. Spans'
    BY <1>2, <1>3, <2>1, <2>2, <2>3, <2>4, SpansOpen DEF Before
  <2> QED
    BY <2>3, <2>4, <2>5, BeforeKeeps DEF Before
<1>6. CASE AnswerLock \/ AcceptExecute
  <2> DEFINE s == IF AnswerLock THEN "lock" ELSE "negotiation"
  <2>1. trace' = Closed(trace, s) /\ s \in Span
    BY <1>1, <1>6 DEF AnswerLock, AcceptExecute, Sends, TraceSent, Outcomes
  <2>2. /\ main \in Before /\ main' \in Before \cup {"closing"}
        /\ UNCHANGED <<exception, reported, request>>
        /\ end' = IF main' = "closing" THEN "sent" ELSE end
        /\ metrics' = metrics
        /\ Ahead' \subseteq Ahead
    BY <1>6 DEF AnswerLock, AcceptExecute, Before, Sends, MetricsSent,
       Outcomes, Ahead
  <2> HIDE DEF s
  <2>3. /\ Closes(trace, trace')
        /\ trace'.execution_active = trace.execution_active
        /\ trace'.outcome = trace.outcome
    BY <1>3, <2>1, ClosedCloses
  <2>4. Spans'
    BY <1>3, <2>2, <2>3, SpansEnd DEF Before
  <2> QED
    BY <2>2, <2>3, <2>4, BeforeKeeps DEF Before
<1>7. CASE Refused
  <2>1. Closes(trace, trace')
    BY <1>3, <1>7 DEF Refused, Closes
  <2>2. Spans'
    BY <1>3, <1>7, <2>1, SpansEnd DEF Refused, Ahead
  <2> QED
    BY <1>7, <2>2, BeforeKeeps DEF Refused, Before
<1> QED
  BY <1>4, <1>5, <1>6, <1>7

(* The begin of the execution opens a span that was not opened before. *)
LEMMA ExecuteStartsKeeps ==
  ASSUME IInv, ExecuteStarts
  PROVE  IInv'
<1> PICK works \in BOOLEAN : trace' = TraceReceived(trace, "execute.start", works)
  BY DEF ExecuteStarts, Receives
<1> DEFINE t == [trace EXCEPT !.execution_active = TRUE]
           m == [metrics EXCEPT !.active = TRUE, !.active_executions = 1]
<1>1. Sound(trace) /\ trace \in TraceState /\ metrics \in MetricsState /\ Spans
  BY CountsKnown DEF IInv
<1>2. ~trace.execution_active /\ ~metrics.active /\ metrics.active_executions = 0
      /\ ~metrics.finished /\ metrics.executions = <<>>
  BY DEF IInv, Activity, OneOutcome, ExecuteStarts, Before
<1>3. "execution" \in Span /\ "execution" \notin Transaction
      /\ trace.ends["execution"] = 0
  BY SpanAssumption DEF Span, Phases, IInv, Spans, Ahead, Unopened,
     ExecuteStarts
<1>4. Sound(t) /\ t.spans = trace.spans /\ t.ends = trace.ends
      /\ t.execution_active = TRUE /\ t.outcome = trace.outcome
  BY <1>1 DEF Sound, TraceState
<1>5. trace' = Opened(t, "execution", works)
  BY <1>2 DEF TraceReceived
<1>6. metrics' = m
  <2>1. metrics' = [metrics EXCEPT !.active = TRUE,
                      !.active_executions = metrics.active_executions + 1]
    BY <1>2, Zenon DEF ExecuteStarts, Receives, MetricsReceived
  <2>2. metrics.active_executions + 1 = 1
    BY <1>2
  <2> QED
    BY <2>1, <2>2
<1>7. /\ m \in MetricsState /\ m.active = TRUE /\ m.finished = metrics.finished
      /\ m.active_executions = 1 /\ m.executions = metrics.executions
      /\ m.operations = metrics.operations /\ m.counted = metrics.counted
  <2> DEFINE a == [metrics EXCEPT !.active = TRUE]
             b == [a EXCEPT !.active_executions = 1]
  <2>1. /\ a \in MetricsState /\ a.active = TRUE
        /\ a.finished = metrics.finished /\ a.executions = metrics.executions
        /\ a.operations = metrics.operations /\ a.counted = metrics.counted
    BY <1>1 DEF MetricsState
  <2>2. m = b
    OBVIOUS
  <2> HIDE DEF a
  <2>3. /\ b \in MetricsState /\ b.active = a.active /\ b.finished = a.finished
        /\ b.active_executions = 1 /\ b.executions = a.executions
        /\ b.operations = a.operations /\ b.counted = a.counted
    BY <2>1 DEF MetricsState
  <2> HIDE DEF b, m
  <2> QED
    BY <2>1, <2>2, <2>3
<1> HIDE DEF t, m
<1>8. /\ Sound(trace') /\ trace'.spans \subseteq trace.spans \cup {"execution"}
      /\ trace'.ends = trace.ends /\ trace'.execution_active = TRUE
      /\ trace'.outcome = trace.outcome
  BY <1>3, <1>4, <1>5, OpenedOnce
<1>9. Spans'
  BY <1>1, <1>3, <1>8, SpansOpen DEF ExecuteStarts, Ahead
<1>10. TypeOK'
  <2>1. trace' \in TraceState /\ metrics' \in MetricsState
    BY <1>6, <1>7, <1>8 DEF Sound
  <2> QED
    BY <2>1, TypesKeep DEF IInv, TypeOK, ExecuteStarts
<1>11. Activity' /\ OneOutcome' /\ Pending' /\ OperationsTold'
  BY <1>2, <1>6, <1>7, <1>8
     DEF IInv, Activity, OneOutcome, Pending, OperationsTold, ExecuteStarts,
         Before
<1> QED
  BY <1>9, <1>10, <1>11 DEF IInv
(* While something is executed there is no outcome. *)
LEMMA ActiveKnown ==
  ASSUME IInv
  PROVE  /\ metrics.active <=> trace.execution_active
         /\ metrics.active => /\ metrics.executions = <<>>
                              /\ reported = "none"
                              /\ metrics.active_executions = 1
         /\ ~metrics.active => metrics.active_executions = 0
<1>1. metrics.active => metrics.executions = <<>>
  BY Zenon DEF IInv, Activity
<1>2. \A o : <<o>> # <<>>
  OBVIOUS
<1>3. metrics.active => reported = "none"
  BY <1>1, <1>2, Zenon DEF IInv, OneOutcome
<1> QED
  BY <1>1, <1>3, Zenon DEF IInv, Activity

(* A report counts the execution, unless one before it did. *)
LEMMA ReportsKeep ==
  ASSUME IInv, NEW outcome \in Outcomes,
         Report(outcome) \/ ReportException(outcome)
  PROVE  IInv'
<1>1. Sound(trace) /\ metrics \in MetricsState /\ Spans
      /\ (metrics.active => ~metrics.finished /\ metrics.active_executions = 1)
  BY CountsKnown DEF IInv
<1>2. /\ trace' = FinishExecution(trace, outcome)
      /\ metrics' = CountExecution(metrics, outcome)
  BY DEF Report, ReportException, Sends, TraceSent, MetricsSent, Outcomes
<1>3. /\ Closes(trace, trace')
      /\ ~trace'.execution_active
      /\ trace'.outcome = IF trace.execution_active THEN outcome
                          ELSE trace.outcome
  BY <1>1, <1>2, ExecutionCloses DEF Told
<1>4. /\ metrics' \in MetricsState /\ ~metrics'.active
      /\ metrics'.finished <=> metrics.finished \/ metrics.active
      /\ metrics'.active_executions =
           IF metrics.active THEN 0 ELSE metrics.active_executions
      /\ metrics'.executions =
           IF metrics.active THEN Append(metrics.executions, outcome)
           ELSE metrics.executions
      /\ metrics'.operations = metrics.operations
      /\ metrics'.counted = metrics.counted
  BY <1>1, <1>2, ExecutionCounts
<1>5. /\ main \in {"executing", "reporting"}
      /\ main' \in {"reporting", "fallback"}
      /\ UNCHANGED <<exception, end, request>>
      /\ reported' = IF reported = "none" THEN outcome ELSE reported
  BY DEF Report, ReportException, IInv, Activity, OneOutcome
<1>6. Spans'
  BY <1>1, <1>3, <1>5, SpansEnd DEF Ahead
<1>7. TypeOK'
  <2>1. reported' \in Outcomes \cup {"none"} /\ main' # "over"
    BY <1>5 DEF IInv, TypeOK
  <2> QED
    BY <1>3, <1>4, <1>5, <2>1, TypesKeep DEF IInv, TypeOK, Closes, Sound
<1>8. /\ metrics.active <=> trace.execution_active
      /\ metrics.active => metrics.executions = <<>> /\ reported = "none"
      /\ metrics'.active_executions = 0
  BY <1>4, ActiveKnown, Zenon
<1>9. Activity' /\ OneOutcome'
  <2>1. CASE metrics.active
    <3>1. /\ metrics'.executions = Append(<<>>, outcome)
          /\ reported' = outcome /\ trace'.outcome = outcome
          /\ metrics'.finished
      BY <1>3, <1>4, <1>5, <1>8, <2>1, Zenon
    <3>2. metrics'.executions = <<outcome>> /\ outcome # "none"
      BY <3>1 DEF Outcomes
    <3>3. OneOutcome'
      BY <3>1, <3>2, Zenon DEF OneOutcome
    <3>4. <<outcome>> # <<>>
      OBVIOUS
    <3>5. Activity'
      BY <1>3, <1>4, <1>5, <1>8, <3>1, <3>2, <3>4 DEF Activity, Before
    <3> QED
      BY <3>3, <3>5
  <2>2. CASE ~metrics.active
    <3>1. reported # "none" /\ reported' = reported
      BY <1>5, <2>2 DEF IInv, Activity
    <3>2. /\ metrics'.executions = metrics.executions
          /\ trace'.outcome = trace.outcome
          /\ metrics'.finished <=> metrics.finished
      BY <1>3, <1>4, <1>8, <2>2, Zenon
    <3>3. OneOutcome'
      BY <3>1, <3>2, Zenon DEF IInv, OneOutcome
    <3>4. metrics'.finished <=> metrics'.executions # <<>>
      BY <3>2, Zenon DEF IInv, Activity
    <3>5. Activity'
      BY <1>3, <1>4, <1>5, <1>8, <3>1, <3>4 DEF Activity, Before
    <3> QED
      BY <3>3, <3>5
  <2> QED
    BY <2>1, <2>2
<1>10. Pending' /\ OperationsTold'
  BY <1>4, <1>5 DEF IInv, Pending, OperationsTold
<1> QED
  BY <1>6, <1>7, <1>9, <1>10 DEF IInv

(* What the middlewares do not see. *)
LEMMA UnseenKeeps ==
  ASSUME IInv, Swallow \/ ReportAnswered \/ Raises
  PROVE  IInv'
<1>1. Sound(trace) /\ trace \in TraceState /\ metrics \in MetricsState /\ Spans
  BY CountsKnown DEF IInv
<1>2. UNCHANGED <<trace, metrics, reported, request>>
  BY DEF Swallow, ReportAnswered, Raises
<1>3. /\ main # "over" /\ main' \in {"closing", "returned", "raised"}
      /\ exception' \in {"none", "error", "cancelled"}
      /\ end' \in {"none", "sent", "taken"}
      /\ metrics.active => end' = end
  <2>1. CASE Swallow
    BY <2>1 DEF Swallow, IInv, TypeOK
  <2>2. CASE Raises
    BY <2>2 DEF Raises, IInv, TypeOK
  <2>3. CASE ReportAnswered
    <3>1. reported # "none"
      BY <2>3 DEF ReportAnswered, IInv, Activity
    <3>2. ~metrics.active
      BY <3>1, ActiveKnown
    <3> QED
      BY <2>3, <3>2 DEF ReportAnswered, IInv, TypeOK
  <2> QED
    BY <2>1, <2>2, <2>3
<1>4. Spans'
  BY <1>1, <1>2, <1>3, SpansEnd DEF Closes, Ahead
<1>5. TypeOK'
  BY <1>1, <1>2, <1>3, TypesKeep DEF IInv, TypeOK
<1>6. Activity' /\ OneOutcome'
  BY <1>2, <1>3 DEF IInv, Activity, OneOutcome, Before
<1>7. Pending' /\ OperationsTold'
  BY <1>2, <1>3 DEF IInv, Pending, OperationsTold
<1> QED
  BY <1>4, <1>5, <1>6, <1>7 DEF IInv

(* The end event goes by: there is no execution that it could cancel. *)
LEMMA EndPasses ==
  ASSUME IInv, end = "sent", NEW works
  PROVE  LET r == TraceReceived(trace, "end", works)
         IN /\ Closes(trace, r)
            /\ r.execution_active <=> trace.execution_active
            /\ r.outcome = trace.outcome
            /\ MetricsReceived(metrics, "end") = metrics
<1>1. Sound(trace) /\ ~metrics.active /\ ~trace.execution_active
  BY CountsKnown DEF IInv, Activity
<1>2. TraceReceived(trace, "end", works) = FinishPhases(trace, "cancelled")
  BY DEF TraceReceived
<1>3. MetricsReceived(metrics, "end") = metrics
  BY <1>1, Zenon DEF MetricsReceived, CountExecution
<1> QED
  BY <1>1, <1>2, <1>3, PhasesClose DEF Told

(* The end event changes no count: nothing is active when it comes. *)
LEMMA EndsKeeps ==
  ASSUME IInv, Ends
  PROVE  IInv'
<1>1. Sound(trace) /\ trace \in TraceState /\ metrics \in MetricsState /\ Spans
  BY CountsKnown DEF IInv
<1>2. /\ UNCHANGED <<exception, reported, request>> /\ end' = "taken"
      /\ main = "closing" /\ main' = "returned"
  BY DEF Ends
<1>3. /\ Closes(trace, trace') /\ metrics' = metrics
      /\ trace'.execution_active <=> trace.execution_active
      /\ trace'.outcome = trace.outcome
  <2>1. CASE end = "sent"
    BY <2>1, EndPasses DEF Ends, Receives
  <2>2. CASE end # "sent"
    BY <1>1, <2>2 DEF Ends, Closes
  <2> QED
    BY <2>1, <2>2
<1>4. ~metrics.active
  BY DEF IInv, Activity, Ends
<1>5. Spans'
  BY <1>1, <1>2, <1>3, SpansEnd DEF Ahead
<1>6. TypeOK'
  BY <1>1, <1>2, <1>3, TypesKeep DEF IInv, TypeOK, Closes, Sound
<1>7. Activity' /\ OneOutcome'
  BY <1>2, <1>3, <1>4 DEF IInv, Activity, OneOutcome, Before
<1>8. Pending' /\ OperationsTold'
  BY <1>2, <1>3 DEF IInv, Pending, OperationsTold
<1> QED
  BY <1>5, <1>6, <1>7, <1>8 DEF IInv

(* However the exchange is left, every span is ended and the gauge is back. *)
LEMMA FinishKeeps ==
  ASSUME IInv, Finish
  PROVE  IInv' /\ trace'.spans = {} /\ metrics'.active_executions = 0
<1>1. Sound(trace) /\ metrics \in MetricsState /\ Spans
      /\ (metrics.active => ~metrics.finished /\ metrics.active_executions = 1)
  BY CountsKnown DEF IInv
<1>2. /\ UNCHANGED <<exception, reported, end, request>>
      /\ main \in {"returned", "raised"} /\ main' = "over"
  BY DEF Finish
<1>3. /\ Sound(trace') /\ trace'.spans = {}
      /\ ~trace'.execution_active
      /\ trace'.outcome = IF trace.execution_active
                            THEN UnreportedOutcome(exception)
                            ELSE trace.outcome
      /\ \A s \in Span \ trace.spans : trace'.ends[s] = trace.ends[s]
  BY <1>1, TraceFinishes DEF Finish
<1>4. /\ metrics' \in MetricsState /\ ~metrics'.active
      /\ metrics'.finished <=> metrics.finished \/ metrics.active
      /\ metrics'.active_executions =
           IF metrics.active THEN 0 ELSE metrics.active_executions
      /\ metrics'.executions =
           IF metrics.active THEN Append(metrics.executions, "cancelled")
           ELSE metrics.executions
      /\ metrics'.operations = {}
      /\ metrics'.counted =
           [t \in Transaction |-> IF t \in metrics.operations THEN "failure"
                                 ELSE metrics.counted[t]]
  BY <1>1, MetricsFinish DEF Finish
<1>5. Closes(trace, trace')
  BY <1>3 DEF Closes
<1>6. Spans'
  BY <1>1, <1>2, <1>3, <1>5, SpansEnd DEF Ahead
<1>7. TypeOK'
  BY <1>2, <1>3, <1>4, TypesKeep DEF IInv, TypeOK, Sound
<1>8. /\ metrics.active <=> trace.execution_active
      /\ metrics.active => metrics.executions = <<>> /\ reported = "none"
      /\ metrics'.active_executions = 0
  BY <1>4, ActiveKnown, Zenon
<1>9. Activity' /\ OneOutcome'
  <2>1. CASE metrics.active
    <3>1. /\ metrics'.executions = Append(<<>>, "cancelled")
          /\ reported' = "none"
          /\ trace'.outcome = UnreportedOutcome(exception)
          /\ metrics'.finished
      BY <1>2, <1>3, <1>4, <1>8, <2>1, Zenon
    <3>2. metrics'.executions = <<"cancelled">>
      BY <3>1
    <3>3. OneOutcome'
      BY <1>2, <3>1, <3>2 DEF OneOutcome, UnreportedOutcome
    <3>4. <<"cancelled">> # <<>>
      OBVIOUS
    <3>5. Activity'
      BY <1>2, <1>3, <1>4, <1>8, <3>1, <3>2, <3>4 DEF Activity, Before
    <3> QED
      BY <3>3, <3>5
  <2>2. CASE ~metrics.active
    <3>1. /\ metrics'.executions = metrics.executions
          /\ trace'.outcome = trace.outcome
          /\ metrics'.finished <=> metrics.finished
      BY <1>3, <1>4, <1>8, <2>2, Zenon
    <3>2. OneOutcome'
      BY <1>2, <3>1, Zenon DEF IInv, OneOutcome
    <3>3. metrics'.finished <=> metrics'.executions # <<>>
      BY <3>1, Zenon DEF IInv, Activity
    <3>4. Activity'
      BY <1>2, <1>3, <1>4, <1>8, <3>3 DEF Activity, Before
    <3> QED
      BY <3>2, <3>4
  <2> QED
    BY <2>1, <2>2
<1>10. Pending' /\ OperationsTold'
  BY <1>1, <1>2, <1>4 DEF IInv, Pending, OperationsTold
<1> QED
  BY <1>3, <1>6, <1>7, <1>8, <1>9, <1>10 DEF IInv

(* A request opens the span of an operation that had none. *)
LEMMA RequestKeeps ==
  ASSUME IInv, NEW t \in Transaction, Request(t)
  PROVE  IInv'
<1> DEFINE m == [metrics EXCEPT !.operations = @ \cup {t}]
<1> PICK works \in BOOLEAN : trace' = Opened(trace, t, works)
  BY DEF Request
<1>1. Sound(trace) /\ metrics \in MetricsState /\ Spans
  BY CountsKnown DEF IInv
<1>2. /\ UNCHANGED <<main, exception, reported, end>>
      /\ request' = [request EXCEPT ![t] = "sent"]
      /\ request[t] = "none" /\ main \notin Before
      /\ request \in [Transaction ->
                      {"none", "sent", "granted", "denied", "raised"}]
  BY DEF Request, Before, IInv, TypeOK
<1>3. trace.ends[t] = 0 /\ t \in Span
  BY <1>1, <1>2 DEF Spans, Unopened, Span
<1>4. /\ Sound(trace') /\ trace'.spans \subseteq trace.spans \cup {t}
      /\ trace'.ends = trace.ends
      /\ trace'.execution_active = trace.execution_active
      /\ trace'.outcome = trace.outcome
  BY <1>1, <1>3, OpenedOnce
<1>5. /\ metrics' = m /\ m \in MetricsState
      /\ m.active = metrics.active /\ m.finished = metrics.finished
      /\ m.active_executions = metrics.active_executions
      /\ m.executions = metrics.executions /\ m.counted = metrics.counted
      /\ m.operations = metrics.operations \cup {t}
  BY <1>1 DEF Request, MetricsState
<1> HIDE DEF m
<1>6. Spans'
  BY <1>1, <1>2, <1>3, <1>4, SpansOpen DEF Ahead, Before, Spans
<1>7. TypeOK'
  BY <1>2, <1>4, <1>5, TypesKeep DEF IInv, TypeOK, Sound
<1>8. Activity' /\ OneOutcome'
  BY <1>2, <1>4, <1>5 DEF IInv, Activity, OneOutcome, Before
<1>9. Pending' /\ OperationsTold'
  BY <1>2, <1>5 DEF IInv, Pending, OperationsTold
<1> QED
  BY <1>5, <1>6, <1>7, <1>8, <1>9 DEF IInv

(* A request that raises leaves its operation pending. *)
LEMMA RequestRaisesKeeps ==
  ASSUME IInv, NEW t \in Transaction, RequestRaises(t)
  PROVE  IInv'
<1>1. Sound(trace) /\ trace \in TraceState /\ metrics \in MetricsState /\ Spans
  BY CountsKnown DEF IInv
<1>2. /\ UNCHANGED <<main, exception, reported, end, trace, metrics>>
      /\ request[t] = "sent" /\ request' = [request EXCEPT ![t] = "raised"]
      /\ request \in [Transaction ->
                      {"none", "sent", "granted", "denied", "raised"}]
  BY DEF RequestRaises, IInv, TypeOK
<1>3. Spans'
  BY <1>1, <1>2, SpansEnd DEF Closes, Ahead, Spans
<1>4. TypeOK'
  BY <1>1, <1>2, TypesKeep DEF IInv, TypeOK
<1>5. Activity' /\ OneOutcome'
  BY <1>2 DEF IInv, Activity, OneOutcome
<1>6. Pending' /\ OperationsTold'
  BY <1>2 DEF IInv, Pending, OperationsTold
<1> QED
  BY <1>3, <1>4, <1>5, <1>6 DEF IInv

(* An answer counts the operation it is for, and no other. *)
LEMMA AnsweredKeeps ==
  ASSUME IInv, NEW t \in Transaction, NEW success \in BOOLEAN,
         Answered(t, success)
  PROVE  IInv'
<1> DEFINE seen == IF end = "sent" THEN TraceReceived(trace, "end", TRUE)
                   ELSE trace
           count == IF end = "sent" THEN MetricsReceived(metrics, "end")
                    ELSE metrics
           verdict == IF success THEN "granted" ELSE "denied"
<1>1. Sound(trace) /\ metrics \in MetricsState /\ Spans
  BY CountsKnown DEF IInv
<1>2. /\ UNCHANGED <<main, exception, reported>>
      /\ end' = IF end = "sent" THEN "taken" ELSE end
      /\ request[t] = "sent" /\ request' = [request EXCEPT ![t] = verdict]
      /\ request \in [Transaction ->
                      {"none", "sent", "granted", "denied", "raised"}]
      /\ trace' = Closed(seen, t) /\ metrics' = CountOperation(count, t, success)
  BY DEF Answered, IInv, TypeOK
<1>3. /\ Closes(trace, seen) /\ count = metrics
      /\ seen.execution_active <=> trace.execution_active
      /\ seen.outcome = trace.outcome
  <2>1. CASE end = "sent"
    BY <2>1, EndPasses
  <2>2. CASE end # "sent"
    BY <1>1, <2>2 DEF Closes
  <2> QED
    BY <2>1, <2>2
<1> HIDE DEF seen, count
<1>4. /\ Closes(trace, trace') /\ trace'.spans \subseteq trace.spans \ {t}
      /\ trace'.execution_active <=> trace.execution_active
      /\ trace'.outcome = trace.outcome
  <2>1. Sound(seen) /\ t \in Span /\ seen.spans \subseteq trace.spans
    BY <1>3 DEF Closes, Span
  <2>2. /\ Closes(seen, Closed(seen, t))
        /\ Closed(seen, t).spans = seen.spans \ {t}
        /\ Closed(seen, t).execution_active = seen.execution_active
        /\ Closed(seen, t).outcome = seen.outcome
    BY <2>1, ClosedCloses
  <2>3. Closes(trace, Closed(seen, t))
    BY <1>3, <2>2, ClosesTransitive
  <2> QED
    BY <1>2, <1>3, <2>1, <2>2, <2>3
<1>5. /\ metrics' \in MetricsState
      /\ metrics'.active = metrics.active
      /\ metrics'.finished = metrics.finished
      /\ metrics'.active_executions = metrics.active_executions
      /\ metrics'.executions = metrics.executions
      /\ metrics'.operations = metrics.operations \ {t}
      /\ metrics'.counted =
           IF t \in metrics.operations
             THEN [metrics.counted EXCEPT ![t] = IF success THEN "success"
                                                 ELSE "failure"]
             ELSE metrics.counted
  BY <1>1, <1>2, <1>3, OperationCounts
<1>6. Spans'
  BY <1>1, <1>2, <1>4, SpansEnd DEF Ahead, Spans
<1>7. TypeOK'
  BY <1>2, <1>4, <1>5, TypesKeep DEF IInv, TypeOK, Closes, Sound
<1>8. Activity' /\ OneOutcome'
  BY <1>2, <1>4, <1>5 DEF IInv, Activity, OneOutcome, Before
<1>9. metrics.counted \in [Transaction -> {"none", "success", "failure"}]
  BY <1>1 DEF MetricsState
<1>10. Pending' /\ OperationsTold'
  BY <1>2, <1>5, <1>9 DEF IInv, Pending, OperationsTold
<1> QED
  BY <1>5, <1>6, <1>7, <1>8, <1>10 DEF IInv

(* Every step keeps the invariant. *)
LEMMA StepKeeps ==
  ASSUME IInv, [Next]_vars
  PROVE  IInv'
<1>1. CASE UNCHANGED vars
  <2> USE <1>1 DEF vars, below
  <2>1. TypeOK'
    BY CountsKnown, TypesKeep DEF IInv, TypeOK
  <2>2. Activity' /\ OneOutcome'
    BY Zenon DEF IInv, Activity, OneOutcome
  <2>3. Spans'
    BY Zenon DEF IInv, Spans, Sound, Unopened, Ahead
  <2>4. Pending' /\ OperationsTold'
    BY Zenon DEF IInv, Pending, OperationsTold
  <2> QED
    BY <2>1, <2>2, <2>3, <2>4 DEF IInv
<1>2. ASSUME NEW t \in Transaction, Operation(t) PROVE IInv'
  BY <1>2, RequestKeeps, RequestRaisesKeeps, AnsweredKeeps DEF Operation
<1> QED
  BY <1>1, <1>2, BeforeSteps, ExecuteStartsKeeps, ReportsKeep, UnseenKeeps,
     EndsKeeps, FinishKeeps DEF Next

(* What the states of the middlewares say, and that they say the same. *)
THEOREM ObservabilityInvariant == Spec => []IInv
<1>1. IInv /\ [Next]_vars => IInv'
  BY StepKeeps
<1> QED
  BY Begins, <1>1, PTL DEF Spec

(* The states are typed, each span is ended once at most, and the gauge is *)
(* never more than one.                                                    *)
THEOREM ObservabilityTypes == Spec => []TypeOK
<1>1. IInv => TypeOK
  BY DEF IInv
<1> QED
  BY <1>1, ObservabilityInvariant, PTL

(* Traces and metrics count an execution once, as what it was. *)
THEOREM CountedOnce == Spec => []OneOutcome
<1>1. IInv => OneOutcome
  BY DEF IInv
<1> QED
  BY <1>1, ObservabilityInvariant, PTL

(* An operation is counted as what the coroutine that asked was told. *)
THEOREM OperationsCounted == Spec => []OperationsTold
<1>1. IInv => OperationsTold
  BY DEF IInv
<1> QED
  BY <1>1, ObservabilityInvariant, PTL

(* Nothing is open and the gauge is back when an exchange is over, however *)
(* it ended.                                                               *)
THEOREM EverythingClosed == Spec => NothingLeftOpen
<1> DEFINE Closing ==
      main' = "over" =>
        /\ trace'.spans \subseteq
             {t \in Transaction :
                main = "over" /\ request'[t] \in {"sent", "raised"}}
        /\ metrics'.active_executions = 0
<1>1. IInv /\ [Next]_vars => [Closing]_vars
  <2> SUFFICES ASSUME IInv, Next, main' = "over" PROVE Closing
    OBVIOUS
  <2>1. IInv'
    BY StepKeeps
  <2>2. metrics'.active_executions = 0
    <3>1. (metrics.active)' <=> FALSE
      BY <2>1 DEF IInv, Activity
    <3>2. (metrics.active_executions = IF metrics.active THEN 1 ELSE 0)'
      BY <2>1 DEF IInv, Activity
    <3> QED
      BY <3>1, <3>2, Zenon
  <2>3. CASE main = "over"
    BY <2>1, <2>2, <2>3 DEF IInv, Spans
  <2>4. CASE main # "over"
    <3>1. Finish
      BY <2>4 DEF Next, Start, LockRequested, AnswerLock, Refused,
         ExecuteRequested, AcceptExecute, ExecuteStarts, Report,
         ReportException, Swallow, ReportAnswered, Ends, Raises, Operation,
         Request, Answered, RequestRaises
    <3> QED
      BY <2>2, <3>1, FinishKeeps
  <2> QED
    BY <2>3, <2>4
<1> QED
  BY <1>1, ObservabilityInvariant, PTL DEF Spec, NothingLeftOpen
=============================================================================
