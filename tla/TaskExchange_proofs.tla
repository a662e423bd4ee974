------------------------ MODULE TaskExchange_proofs ------------------------
(***************************************************************************)
(* Proofs about TaskExchange, for any number of exchanges, any outcomes    *)
(* of the handlers and any bounds on retries and attempts.                 *)
(*                                                                         *)
(* Three parts, each with the invariant it needs on top of the one before: *)
(* the types and the lease; the refinement of Lease (StagesKnown); the     *)
(* protocol of the two sides (OrderedExchanges).                           *)
(***************************************************************************)
EXTENDS TaskExchange, TLAPS

-----------------------------------------------------------------------------
(* Type correctness *)

\* An exchange is about a call exactly while it waits for one.
CallWhileCalling ==
  \A x \in Exchange : call[x] # NoCall <=> pc[x] = "calling"

\* A task is fetched only with retries left, so that one less is a count.
FetchedWithRetries == \A x \in Exchange : seen[x] # 0

TypeInv == TypeOK /\ CallWhileCalling /\ FetchedWithRetries

\* The answer of an engine call is still a call.
LEMMA CallsReply ==
  ASSUME NEW c \in Calls, c # NoCall, NEW r \in {"none", "ok", "refused", "busy"}
  PROVE  /\ [c EXCEPT !.reply = r] \in Calls
         /\ [c EXCEPT !.reply = r] # NoCall
         /\ [c EXCEPT !.reply = r].event = c.event
         /\ [c EXCEPT !.reply = r].retries = c.retries
         /\ [c EXCEPT !.reply = r].reply = r
         /\ c.event \in CallEvents
         /\ c.event # "none"
         /\ c.retries \in RetryCounts
         /\ c.attempt \in 1 .. MaxAttempts
BY DEF Calls, NoCall, CallEvents, Reports

\* A first attempt is a call.
LEMMA CallsRequest ==
  ASSUME NEW event \in CallEvents, NEW n \in RetryCounts
  PROVE  LET c == [event |-> event, retries |-> n, attempt |-> 1,
                   reply |-> "none"]
         IN  c \in Calls /\ c # NoCall
BY AttemptsAssumption DEF Calls, NoCall, CallEvents, Reports

\* The counts that are reported stay between 0 and MaxRetries.
LEMMA ReportedRetries ==
  ASSUME NEW n \in RetryCounts \cup {NotSet}, n # 0
  PROVE  /\ Decremented(n) \in RetryCounts
         /\ OneLess(n) \subseteq RetryCounts
         /\ \A given \in RetryArgs : RetriesAfterRetry(n, given) \in RetryCounts
BY RetriesAssumption
   DEF RetryCounts, Decremented, OneLess, RetriesAfterRetry

\* Whatever the exception handlers report is a report, with retries the engine
\* can hold.
LEMMA ReportsOfType ==
  ASSUME NEW n \in RetryCounts \cup {NotSet}, n # 0, NEW kind,
         NEW report \in ReportsOf(kind, n)
  PROVE  report[1] \in Reports /\ report[2] \in RetryCounts
<1>1. 0 \in RetryCounts
  BY RetriesAssumption DEF RetryCounts
<1>2. CASE kind = "Retry"
  BY <1>2, ReportedRetries DEF ReportsOf, Reports
<1>3. CASE kind # "Retry"
  BY <1>1, <1>3 DEF ReportsOf, Reports
<1> QED BY <1>2, <1>3

\* Every initial state is typed.
LEMMA InitTypeInv == Init => TypeInv
<1> SUFFICES ASSUME Init PROVE TypeInv
  OBVIOUS
<1> USE DEF Init
<1>1. NotSet # 0 /\ retries \in RetryCounts \cup {NotSet}
  BY RetriesAssumption DEF RetryCounts
<1>2. call \in [Exchange -> Calls]
  BY DEF Calls
<1>3. TypeOK
  <2>1. /\ task \in {"open", "completed", "escalated"}
        /\ owner \in Exchange \cup {Nobody}
        /\ lockLive \in BOOLEAN
        /\ stray \subseteq Requests
    OBVIOUS
  <2>2. /\ pc \in [Exchange -> {"idle", "queued", "receiving", "calling",
                    "resolving", "handler", "joining", "raising", "leaving",
                    "done", "crashed"}]
        /\ layer \in [Exchange -> {"app", "exc", "err"}]
        /\ seen \in [Exchange -> RetryCounts \cup {NotSet}]
    OBVIOUS
  <2>3. /\ inbox \in [Exchange -> Seq(RecvEvents)]
        /\ srvPrev \in [Exchange -> SendEvents \cup {"none"}]
        /\ appPrev \in [Exchange -> RecvEvents \cup {"none"}]
        /\ started \in [Exchange -> SUBSET {"exc", "err"}]
    OBVIOUS
  <2>4. /\ hb \in [Exchange -> {"off", "asleep", "calling"}]
        /\ outcome \in [Exchange -> Results \cup Exceptions \cup {"none"}]
        /\ exc \in [Exchange -> Exceptions \cup {"none"}]
        /\ granted \in [Exchange -> BOOLEAN]
        /\ lapsed \in [Exchange -> BOOLEAN]
        /\ reports \in [Exchange -> Nat]
        /\ lost \in [Exchange -> BOOLEAN]
    OBVIOUS
  <2> HIDE DEF Init
  <2> QED BY <1>1, <1>2, <2>1, <2>2, <2>3, <2>4 DEF TypeOK
<1>4. CallWhileCalling
  BY DEF CallWhileCalling
<1>5. FetchedWithRetries
  BY <1>1 DEF FetchedWithRetries
<1> QED BY <1>3, <1>4, <1>5 DEF TypeInv

\* The engine keeps its types when it applies a request, and counts a report
\* for the exchange that sent it.
LEMMA ApplyType ==
  ASSUME TypeOK, NEW req \in Requests, Apply(req)
  PROVE  /\ task' \in {"open", "completed", "escalated"}
         /\ retries' \in RetryCounts \cup {NotSet}
         /\ owner' \in Exchange \cup {Nobody}
         /\ lockLive' \in BOOLEAN
         /\ reports' \in [Exchange -> Nat]
<1>1. req.from \in Exchange /\ req.retries \in RetryCounts
  BY DEF Requests
<1>2. reports' \in [Exchange -> Nat]
  BY <1>1 DEF TypeOK, Apply
<1>3. CASE req.event = "execute.failure" /\ retries' = req.retries
           /\ lockLive' \in BOOLEAN /\ UNCHANGED <<task, owner>>
  BY <1>1, <1>2, <1>3 DEF TypeOK
<1>4. CASE req.event = "lock.accept" /\ owner' = req.from /\ lockLive' = TRUE
           /\ UNCHANGED <<task, retries>>
  BY <1>1, <1>2, <1>4 DEF TypeOK
<1>5. CASE task' \in {"completed", "escalated"} /\ lockLive' = FALSE
           /\ UNCHANGED <<retries, owner>>
  BY <1>1, <1>2, <1>5 DEF TypeOK
<1>6. CASE UNCHANGED engine
  BY <1>2, <1>6 DEF TypeOK, engine
<1> QED BY <1>3, <1>4, <1>5, <1>6 DEF Apply

\* The call in flight is a request of its exchange.
LEMMA RequestOfType ==
  ASSUME TypeInv, NEW x \in Exchange, pc[x] = "calling"
  PROVE  /\ RequestOf(x) \in Requests
         /\ RequestOf(x).from = x
         /\ RequestOf(x).event = call[x].event
<1>1. call[x] \in Calls /\ call[x] # NoCall
  BY DEF TypeInv, TypeOK, CallWhileCalling
<1>2. call[x].event \in CallEvents /\ call[x].retries \in RetryCounts
  BY <1>1, CallsReply
<1> QED BY <1>2 DEF RequestOf, Requests

\* What a sender leaves behind is a request.
LEMMA AbandonedType ==
  ASSUME TypeInv, NEW x \in Exchange
  PROVE  Abandoned(x) \subseteq Requests
BY RequestOfType DEF Abandoned

\* Sending keeps the types of the variables it changes.
LEMMA RequestKeepsTypes ==
  ASSUME TypeInv, NEW x \in Exchange, NEW who \in {"app", "exc", "err"},
         NEW event \in CallEvents, NEW n \in RetryCounts,
         Request(x, who, event, n),
         UNCHANGED <<engine, stray, seen, appPrev, hb, outcome, history>>,
         inbox' \in [Exchange -> Seq(RecvEvents)], UNCHANGED srvPrev,
         started' \in [Exchange -> SUBSET {"exc", "err"}],
         exc' \in [Exchange -> Exceptions \cup {"none"}]
  PROVE  TypeInv'
<1> DEFINE c == [event |-> event, retries |-> n, attempt |-> 1, reply |-> "none"]
<1>1. c \in Calls /\ c # NoCall
  BY CallsRequest
<1>2. pc' = [pc EXCEPT ![x] = "calling"] /\ call' = [call EXCEPT ![x] = c]
      /\ layer' = [layer EXCEPT ![x] = who]
  BY DEF Request, Goto
<1> HIDE DEF c
<1>3. TypeOK'
  BY <1>1, <1>2 DEF TypeInv, TypeOK, engine, history
<1>4. CallWhileCalling' /\ FetchedWithRetries'
  BY <1>1, <1>2 DEF TypeInv, TypeOK, CallWhileCalling, FetchedWithRetries
<1> QED BY <1>3, <1>4 DEF TypeInv

\* SendWithoutCall, SendReturns and SendRaises: the other ways out of a send.
LEMMA SendWithoutCallKeepsTypes ==
  ASSUME TypeInv, NEW x \in Exchange, NEW who \in {"app", "exc", "err"},
         NEW event \in SendEvents, NEW rest \in Seq(RecvEvents),
         pc[x] # "calling",
         SendWithoutCall(x, who, event, rest),
         UNCHANGED <<engine, stray, seen, hb, outcome, history>>,
         appPrev' \in [Exchange -> RecvEvents \cup {"none"}],
         started' \in [Exchange -> SUBSET {"exc", "err"}],
         exc' \in [Exchange -> Exceptions \cup {"none"}]
  PROVE  TypeInv'
<1> DEFINE label == AfterSend(who)
<1>1. label \in {"receiving", "done"}
  BY DEF AfterSend
<1>2. Append(rest, "end") \in Seq(RecvEvents)
  BY DEF RecvEvents
<1>3. /\ pc' = [pc EXCEPT ![x] = label]
      /\ layer' = [layer EXCEPT ![x] = who]
      /\ inbox' = [inbox EXCEPT ![x] = Append(rest, "end")]
      /\ srvPrev' = [srvPrev EXCEPT ![x] = event]
      /\ UNCHANGED call
  BY DEF SendWithoutCall, Goto
<1> HIDE DEF label
<1>4. TypeOK'
  BY <1>1, <1>2, <1>3 DEF TypeInv, TypeOK, engine, history
<1>5. CallWhileCalling' /\ FetchedWithRetries'
  BY <1>1, <1>3 DEF TypeInv, TypeOK, CallWhileCalling, FetchedWithRetries
<1> QED BY <1>4, <1>5 DEF TypeInv

\* A send that returns puts a known event into the inbox.
LEMMA SendReturnsKeepsTypes ==
  ASSUME TypeInv, NEW x \in Exchange, NEW verdict \in BOOLEAN,
         pc[x] = "calling",
         SendReturns(x, verdict),
         UNCHANGED <<engine, layer, seen, appPrev, started, hb, outcome, lapsed,
                     reports>>,
         stray' \subseteq Requests,
         lost' \in [Exchange -> BOOLEAN]
  PROVE  TypeInv'
<1> DEFINE label == AfterSend(layer[x])
           event == call[x].event
           answer == Answer(event, verdict)
           told == granted[x] \/ (event = "lock.accept" /\ verdict)
<1>1. label \in {"receiving", "done"}
  BY DEF AfterSend
<1>2. event \in SendEvents
  BY CallsReply DEF TypeInv, TypeOK, CallWhileCalling, SendEvents
<1>3. answer \in RecvEvents
  BY DEF Answer, RecvEvents
<1>4. /\ pc' = [pc EXCEPT ![x] = label]
      /\ inbox' = [inbox EXCEPT ![x] = Append(@, answer)]
      /\ srvPrev' = [srvPrev EXCEPT ![x] = event]
      /\ granted' = [granted EXCEPT ![x] = told]
      /\ call' = [call EXCEPT ![x] = NoCall]
      /\ UNCHANGED exc
  BY DEF SendReturns, Goto
<1>5. told \in BOOLEAN
  BY DEF TypeInv, TypeOK
<1>6. NoCall \in Calls
  BY DEF Calls
<1> HIDE DEF label, event, answer, told
<1>7. inbox' \in [Exchange -> Seq(RecvEvents)]
  BY <1>3, <1>4 DEF TypeInv, TypeOK
<1>8. granted' \in [Exchange -> BOOLEAN]
  BY <1>4, <1>5 DEF TypeInv, TypeOK
<1>9. TypeOK'
  BY <1>1, <1>2, <1>4, <1>6, <1>7, <1>8 DEF TypeInv, TypeOK, engine
<1>10. CallWhileCalling' /\ FetchedWithRetries'
  BY <1>1, <1>4 DEF TypeInv, TypeOK, CallWhileCalling, FetchedWithRetries
<1> QED BY <1>9, <1>10 DEF TypeInv

\* A send that raises leaves an exception of a known kind.
LEMMA SendRaisesKeepsTypes ==
  ASSUME TypeInv, NEW x \in Exchange,
         SendRaises(x),
         UNCHANGED <<engine, layer, seen, appPrev, started, hb, outcome, lapsed,
                     reports>>,
         stray' \subseteq Requests,
         lost' \in [Exchange -> BOOLEAN]
  PROVE  TypeInv'
<1>1. NoCall \in Calls /\ "Other" \in Exceptions
  BY DEF Calls, Exceptions
<1>2. TypeOK'
  BY <1>1 DEF TypeInv, TypeOK, SendRaises, Goto, engine
<1>3. CallWhileCalling' /\ FetchedWithRetries'
  BY DEF TypeInv, TypeOK, CallWhileCalling, FetchedWithRetries, SendRaises, Goto
<1> QED BY <1>2, <1>3 DEF TypeInv

\* The steps of the engine and of the calls in flight.
LEMMA EngineKeepsTypes ==
  ASSUME TypeInv,
         \/ LockExpires \/ StrayArrives
         \/ \E x \in Exchange : EngineHandles(x) \/ Calling(x)
  PROVE  TypeInv'
<1> USE DEF TypeInv
<1>1. CASE LockExpires
  BY <1>1 DEF LockExpires, TypeOK, CallWhileCalling, FetchedWithRetries, protocol
<1>2. CASE StrayArrives
  <2>1. PICK req \in stray : StrayArrives!(req)
    BY <1>2 DEF StrayArrives
  <2>2. req \in Requests /\ Apply(req) /\ stray' \subseteq Requests
    BY <2>1 DEF TypeOK
  <2>3. /\ task' \in {"open", "completed", "escalated"}
        /\ retries' \in RetryCounts \cup {NotSet}
        /\ owner' \in Exchange \cup {Nobody}
        /\ lockLive' \in BOOLEAN
        /\ reports' \in [Exchange -> Nat]
    BY <2>2, ApplyType
  <2>4. UNCHANGED <<pc, layer, seen, protocol, call, hb, outcome, exc, granted,
                    lapsed, lost>>
    BY <2>1
  <2> QED
    BY <2>2, <2>3, <2>4
       DEF TypeOK, CallWhileCalling, FetchedWithRetries, protocol
<1>3. ASSUME NEW x \in Exchange, EngineHandles(x) PROVE TypeInv'
  <2>1. call[x] \in Calls /\ call[x] # NoCall /\ pc[x] = "calling"
    BY <1>3 DEF EngineHandles, TypeOK, CallWhileCalling
  <2>2. PICK r \in {"ok", "refused", "busy"} :
          call' = [call EXCEPT ![x] = [call[x] EXCEPT !.reply = r]]
    BY <1>3 DEF EngineHandles
  <2>3. [call[x] EXCEPT !.reply = r] \in Calls
        /\ [call[x] EXCEPT !.reply = r] # NoCall
    BY <2>1, <2>2, CallsReply
  <2>4. /\ task' \in {"open", "completed", "escalated"}
        /\ retries' \in RetryCounts \cup {NotSet}
        /\ owner' \in Exchange \cup {Nobody}
        /\ lockLive' \in BOOLEAN
        /\ reports' \in [Exchange -> Nat]
    <3>1. CASE Apply(RequestOf(x))
      BY <2>1, <3>1, RequestOfType, ApplyType
    <3>2. CASE UNCHANGED <<engine, reports>>
      BY <3>2 DEF TypeOK, engine
    <3> QED BY <1>3, <3>1, <3>2 DEF EngineHandles
  <2>5. UNCHANGED <<stray, pc, layer, seen, protocol, hb, outcome, exc, granted,
                    lapsed, lost>>
    BY <1>3 DEF EngineHandles
  <2>6. call' \in [Exchange -> Calls] /\ CallWhileCalling'
    BY <2>1, <2>2, <2>3, <2>5 DEF TypeOK, CallWhileCalling
  <2> QED BY <2>4, <2>5, <2>6 DEF TypeOK, FetchedWithRetries, protocol
<1>4. ASSUME NEW x \in Exchange, RetryCall(x) PROVE TypeInv'
  <2>1. call[x] \in Calls /\ call[x] # NoCall /\ pc[x] = "calling"
    BY <1>4 DEF RetryCall, TypeOK, CallWhileCalling
  <2> DEFINE c == [call[x] EXCEPT !.reply = "none", !.attempt = @ + 1]
  <2>2. c \in Calls /\ c # NoCall
    <3>1. call[x] \in [event : CallEvents, retries : RetryCounts,
                       attempt : 1 .. MaxAttempts,
                       reply : {"none", "ok", "refused", "busy"}]
      BY <2>1 DEF Calls
    <3>2. call[x].attempt + 1 \in 1 .. MaxAttempts
      BY <1>4, <3>1, AttemptsAssumption DEF RetryCall
    <3> DEFINE R == [event : CallEvents, retries : RetryCounts,
                     attempt : 1 .. MaxAttempts,
                     reply : {"none", "ok", "refused", "busy"}]
               d == [call[x] EXCEPT !.reply = "none"]
    <3>3. d \in R /\ d.attempt = call[x].attempt /\ d.event = call[x].event
      BY <3>1
    <3>4. c = [d EXCEPT !.attempt = d.attempt + 1]
      BY <3>3
    <3> HIDE DEF d
    <3>5. c \in R /\ c.event = call[x].event
      BY <3>2, <3>3, <3>4
    <3>6. c.event # NoCall.event
      BY <3>1, <3>5 DEF NoCall, CallEvents, Reports
    <3> QED BY <3>5, <3>6 DEF Calls
  <2>3. call' = [call EXCEPT ![x] = c]
    BY <1>4 DEF RetryCall
  <2>4. UNCHANGED <<engine, stray, pc, layer, seen, protocol, hb, outcome, exc,
                    history>>
    BY <1>4 DEF RetryCall
  <2> HIDE DEF c
  <2>5. call' \in [Exchange -> Calls] /\ CallWhileCalling'
    BY <2>1, <2>2, <2>3, <2>4 DEF TypeOK, CallWhileCalling
  <2> QED
    BY <2>4, <2>5 DEF TypeOK, FetchedWithRetries, protocol, engine, history
<1>5. ASSUME NEW x \in Exchange, CallAnswered(x) PROVE TypeInv'
  <2>1. pc[x] = "calling" /\ stray' \subseteq Requests
        /\ lost' \in [Exchange -> BOOLEAN]
        /\ UNCHANGED <<engine, layer, seen, appPrev, started, hb, outcome,
                       lapsed, reports>>
    BY <1>5 DEF CallAnswered, TypeOK
  <2>2. CASE SendRaises(x)
    BY <2>1, <2>2, SendRaisesKeepsTypes
  <2>3. CASE SendReturns(x, call[x].reply = "ok")
    BY <2>1, <2>3, SendReturnsKeepsTypes
  <2> QED BY <1>5, <2>2, <2>3 DEF CallAnswered
<1>6. ASSUME NEW x \in Exchange, CallUnanswered(x) PROVE TypeInv'
  <2>1. pc[x] = "calling"
        /\ UNCHANGED <<engine, layer, seen, appPrev, started, hb, outcome,
                       lapsed, reports>>
    BY <1>6 DEF CallUnanswered
  <2>2. stray' \subseteq Requests
    BY <1>6, AbandonedType DEF CallUnanswered, TypeOK
  <2>3. lost' \in [Exchange -> BOOLEAN]
    BY <1>6 DEF CallUnanswered, TypeOK
  <2>4. CASE SendRaises(x)
    BY <2>1, <2>2, <2>3, <2>4, SendRaisesKeepsTypes
  <2>5. CASE SendReturns(x, FALSE)
    BY <2>1, <2>2, <2>3, <2>5, SendReturnsKeepsTypes
  <2> QED BY <1>6, <2>4, <2>5 DEF CallUnanswered
<1> QED BY <1>1, <1>2, <1>3, <1>4, <1>5, <1>6 DEF Calling

\* The steps of the coroutine of an exchange.
LEMMA ReceivingKeepsTypes ==
  ASSUME TypeInv, NEW x \in Exchange, Receiving(x)
  PROVE  TypeInv'
<1>1. ASSUME NEW event \in RecvEvents, Receives(x, event)
      PROVE  /\ UNCHANGED <<engine, stray, seen, hb, outcome, exc, history>>
             /\ appPrev' \in [Exchange -> RecvEvents \cup {"none"}]
             /\ started' \in [Exchange -> SUBSET {"exc", "err"}]
             /\ Tail(inbox[x]) \in Seq(RecvEvents)
             /\ pc[x] = "receiving"
  <2>1. TaskStarted(started[x], event) \in SUBSET {"exc", "err"}
    BY DEF TypeInv, TypeOK, TaskStarted
  <2>2. started' \in [Exchange -> SUBSET {"exc", "err"}]
    BY <1>1, <2>1 DEF TypeInv, TypeOK, Receives
  <2> QED BY <1>1, <2>2 DEF TypeInv, TypeOK, Receives
<1>2. ASSUME NEW event \in RecvEvents, Receives(x, event), Pops(x),
             UNCHANGED <<layer, srvPrev, call>>,
             \/ UNCHANGED pc
             \/ \E label \in {"resolving", "leaving"} : Goto(x, label)
      PROVE  TypeInv'
  <2>1. /\ UNCHANGED <<engine, stray, seen, hb, outcome, exc, history>>
        /\ appPrev' \in [Exchange -> RecvEvents \cup {"none"}]
        /\ started' \in [Exchange -> SUBSET {"exc", "err"}]
        /\ Tail(inbox[x]) \in Seq(RecvEvents)
        /\ pc[x] = "receiving"
    BY <1>1, <1>2
  <2>2. inbox' \in [Exchange -> Seq(RecvEvents)]
    BY <1>2, <2>1 DEF Pops, TypeInv, TypeOK
  <2>3. TypeOK'
    BY <1>2, <2>1, <2>2 DEF TypeInv, TypeOK, Goto, engine, history
  <2>4. CallWhileCalling' /\ FetchedWithRetries'
    BY <1>2, <2>1
       DEF TypeInv, TypeOK, Goto, CallWhileCalling, FetchedWithRetries
  <2> QED BY <2>3, <2>4 DEF TypeInv
<1>3. ASSUME NEW event \in RecvEvents, Receives(x, event), Pops(x),
             NEW request \in CallEvents, Request(x, "app", request, 0),
             UNCHANGED srvPrev
      PROVE  TypeInv'
  <2>1. 0 \in RetryCounts
    BY RetriesAssumption DEF RetryCounts
  <2>2. inbox' \in [Exchange -> Seq(RecvEvents)]
    BY <1>1, <1>3 DEF Pops, TypeInv, TypeOK
  <2>3. /\ UNCHANGED <<engine, stray, seen, hb, outcome, exc, history>>
        /\ started' \in [Exchange -> SUBSET {"exc", "err"}]
        /\ appPrev' \in [Exchange -> RecvEvents \cup {"none"}]
    BY <1>1, <1>3
  <2>4. TypeOK'
    <3> DEFINE c == [event |-> request, retries |-> 0, attempt |-> 1,
                     reply |-> "none"]
    <3>1. c \in Calls
      BY <2>1, CallsRequest
    <3>2. pc' = [pc EXCEPT ![x] = "calling"] /\ call' = [call EXCEPT ![x] = c]
          /\ layer' = [layer EXCEPT ![x] = "app"]
      BY <1>3 DEF Request, Goto
    <3> HIDE DEF c
    <3> QED
      BY <1>3, <2>2, <2>3, <3>1, <3>2 DEF TypeInv, TypeOK, engine, history
  <2>5. CallWhileCalling' /\ FetchedWithRetries'
    <3> DEFINE c == [event |-> request, retries |-> 0, attempt |-> 1,
                     reply |-> "none"]
    <3>1. c # NoCall
      BY <2>1, CallsRequest
    <3>2. pc' = [pc EXCEPT ![x] = "calling"] /\ call' = [call EXCEPT ![x] = c]
      BY <1>3 DEF Request, Goto
    <3> HIDE DEF c
    <3> QED
      BY <2>3, <3>1, <3>2
         DEF TypeInv, TypeOK, CallWhileCalling, FetchedWithRetries
  <2> QED BY <2>4, <2>5 DEF TypeInv
<1>4. ASSUME Receives(x, "lock.request"),
             SendWithoutCall(x, "app", "lock.reject", Tail(inbox[x]))
      PROVE  TypeInv'
  <2>1. "lock.reject" \in SendEvents /\ "lock.request" \in RecvEvents
    BY DEF SendEvents, RecvEvents
  <2>2. exc' \in [Exchange -> Exceptions \cup {"none"}]
    BY <1>4 DEF Receives, TypeInv, TypeOK
  <2> QED
    BY <1>1, <1>4, <2>1, <2>2, SendWithoutCallKeepsTypes
<1>5. {"start", "lock.request", "execute.request", "execute.start", "end"}
        = RecvEvents /\ {"lock.accept", "execute.accept"} \subseteq CallEvents
  BY DEF RecvEvents, CallEvents
<1>6. CASE ReceiveStart(x)
  BY <1>2, <1>5, <1>6 DEF ReceiveStart
<1>7. CASE ReceiveLockRequest(x)
  BY <1>3, <1>4, <1>5, <1>7 DEF ReceiveLockRequest
<1>8. CASE ReceiveExecuteRequest(x)
  BY <1>3, <1>5, <1>8 DEF ReceiveExecuteRequest
<1>9. CASE ReceiveExecuteStart(x)
  BY <1>2, <1>5, <1>9 DEF ReceiveExecuteStart
<1>10. CASE ReceiveEnd(x)
  BY <1>2, <1>5, <1>10 DEF ReceiveEnd
<1>11. CASE GuardRejects(x)
  <2>1. /\ "lock.reject" \in SendEvents
        /\ Tail(inbox[x]) \in Seq(RecvEvents)
        /\ appPrev' \in [Exchange -> RecvEvents \cup {"none"}]
        /\ started' \in [Exchange -> SUBSET {"exc", "err"}]
        /\ exc' \in [Exchange -> Exceptions \cup {"none"}]
    BY <1>11 DEF GuardRejects, SendEvents, TypeInv, TypeOK
  <2>2. /\ pc[x] # "calling"
        /\ SendWithoutCall(x, "app", "lock.reject", Tail(inbox[x]))
        /\ UNCHANGED <<engine, stray, seen, hb, outcome, history>>
    BY <1>11 DEF GuardRejects
  <2> QED BY <2>1, <2>2, SendWithoutCallKeepsTypes
<1>12. CASE GuardRaises(x) \/ DecodingRaises(x)
  <2>1. /\ pc[x] = "receiving" /\ inbox[x] # <<>>
        /\ Goto(x, "raising") /\ Pops(x)
        /\ exc' = [exc EXCEPT ![x] = "Other"]
        /\ UNCHANGED <<engine, stray, layer, seen, srvPrev, appPrev, started,
                       call, hb, outcome, history>>
    BY <1>12 DEF GuardRaises, DecodingRaises, ReceiveRaises
  <2>2. /\ inbox' \in [Exchange -> Seq(RecvEvents)]
        /\ exc' \in [Exchange -> Exceptions \cup {"none"}]
    BY <2>1 DEF Pops, Exceptions, TypeInv, TypeOK
  <2>3. TypeOK'
    BY <2>1, <2>2 DEF Goto, TypeInv, TypeOK, engine, history
  <2>4. CallWhileCalling' /\ FetchedWithRetries'
    BY <2>1 DEF Goto, TypeInv, TypeOK, CallWhileCalling, FetchedWithRetries
  <2> QED BY <2>3, <2>4 DEF TypeInv
<1> QED BY <1>6, <1>7, <1>8, <1>9, <1>10, <1>11, <1>12 DEF Receiving

\* User code raises exceptions of the known kinds.
LEMMA RaisedType == Raised \subseteq Exceptions
BY DEF Raised, Exceptions

\* Resolving, running the handler, sending its outcome.
LEMMA ExecutingKeepsTypes ==
  ASSUME TypeInv, NEW x \in Exchange, Executing(x) \/ Heartbeating(x)
  PROVE  TypeInv'
<1>1. CASE StartHandler(x)
  BY <1>1 DEF StartHandler, Goto, TypeInv, TypeOK, CallWhileCalling,
     FetchedWithRetries, engine, protocol, history
<1>2. CASE ResolvingRaises(x)
  <2>1. exc' \in [Exchange -> Exceptions \cup {"none"}]
    BY <1>2, RaisedType DEF ResolvingRaises, TypeInv, TypeOK
  <2> QED
    BY <1>2, <2>1 DEF ResolvingRaises, Goto, TypeInv, TypeOK, CallWhileCalling,
       FetchedWithRetries, engine, protocol, history
<1>3. CASE HandlerEnds(x)
  BY <1>3, OutcomesAssumption DEF HandlerEnds, Goto, TypeInv, TypeOK,
     CallWhileCalling, FetchedWithRetries, engine, protocol, history
<1>4. CASE OutcomeRaises(x)
  <2>1. exc' \in [Exchange -> Exceptions \cup {"none"}]
    BY <1>4, RaisedType DEF OutcomeRaises, TypeInv, TypeOK
  <2> QED
    BY <1>4, <2>1 DEF OutcomeRaises, Joined, Goto, TypeInv, TypeOK,
       CallWhileCalling, FetchedWithRetries, engine, protocol, history
<1>5. CASE SendOutcome(x)
  <2>1. UNCHANGED <<engine, stray, seen, appPrev, started, hb, outcome, exc,
                    history>>
        /\ pc[x] = "joining"
    BY <1>5 DEF SendOutcome, Joined
  <2>2. /\ started' \in [Exchange -> SUBSET {"exc", "err"}]
        /\ exc' \in [Exchange -> Exceptions \cup {"none"}]
        /\ appPrev' \in [Exchange -> RecvEvents \cup {"none"}]
        /\ inbox \in [Exchange -> Seq(RecvEvents)]
    BY <2>1 DEF TypeInv, TypeOK
  <2>3. ASSUME NEW event \in Reports, NEW n \in RetryCounts,
               Request(x, "app", event, n), UNCHANGED <<inbox, srvPrev>>
        PROVE  TypeInv'
    <3>1. event \in CallEvents
      BY DEF CallEvents
    <3>2. inbox' \in [Exchange -> Seq(RecvEvents)] /\ UNCHANGED srvPrev
      BY <2>2, <2>3
    <3> QED BY <2>1, <2>2, <2>3, <3>1, <3>2, RequestKeepsTypes
  <2>4. RetryArgs \cup OneLess(seen[x]) \subseteq RetryCounts
        /\ 0 \in RetryCounts
    BY ReportedRetries, RetriesAssumption
       DEF RetryCounts, TypeInv, TypeOK, FetchedWithRetries
  <2>5. CASE SendWithoutCall(x, "app", "execute.abort", inbox[x])
    <3>1. "execute.abort" \in SendEvents /\ inbox[x] \in Seq(RecvEvents)
      BY <2>2 DEF SendEvents
    <3> QED BY <2>1, <2>2, <2>5, <3>1, SendWithoutCallKeepsTypes
  <2> QED BY <1>5, <2>3, <2>4, <2>5 DEF SendOutcome, Reports
<1>6. CASE Heartbeating(x)
  <2>1. /\ UNCHANGED <<engine, stray, pc, layer, seen, inbox, appPrev, started,
                       call, outcome, exc, history>>
        /\ \E beat \in {"off", "asleep", "calling"} :
             hb' = [hb EXCEPT ![x] = beat]
    BY <1>6 DEF Heartbeating, HeartbeatWakes, HeartbeatReturns, HeartbeatStops,
       protocol
  <2>2. srvPrev' \in [Exchange -> SendEvents \cup {"none"}]
    BY <1>6 DEF Heartbeating, HeartbeatWakes, HeartbeatReturns, HeartbeatStops,
       protocol, TypeInv, TypeOK, SendEvents
  <2> QED
    BY <2>1, <2>2 DEF TypeInv, TypeOK, CallWhileCalling, FetchedWithRetries,
       engine, history
<1> QED BY <1>1, <1>2, <1>3, <1>4, <1>5, <1>6 DEF Executing

\* The exception middlewares and the way out of the application.
LEMMA CatchingKeepsTypes ==
  ASSUME TypeInv, NEW x \in Exchange, Catching(x)
  PROVE  TypeInv'
<1>1. /\ Reports \subseteq CallEvents
      /\ "Other" \in Exceptions
      /\ inbox \in [Exchange -> Seq(RecvEvents)]
      /\ appPrev \in [Exchange -> RecvEvents \cup {"none"}]
      /\ started \in [Exchange -> SUBSET {"exc", "err"}]
      /\ exc \in [Exchange -> Exceptions \cup {"none"}]
      /\ seen[x] \in RetryCounts \cup {NotSet} /\ seen[x] # 0
  BY DEF CallEvents, Exceptions, TypeInv, TypeOK, FetchedWithRetries
<1>2. CASE CatchInExceptionMiddleware(x)
  <2>1. PICK kind \in {exc[x], "Other"} :
          /\ exc' = [exc EXCEPT ![x] = kind]
          /\ IF kind = "Abort"
             THEN SendWithoutCall(x, "exc", "execute.abort", inbox[x])
             ELSE /\ \E report \in ReportsOf(kind, seen[x]) :
                       Request(x, "exc", report[1], report[2])
                  /\ UNCHANGED <<inbox, srvPrev>>
    BY <1>2 DEF CatchInExceptionMiddleware
  <2>2. UNCHANGED <<engine, stray, seen, appPrev, started, hb, outcome, history>>
        /\ pc[x] = "raising"
    BY <1>2 DEF CatchInExceptionMiddleware
  <2>3. /\ started' \in [Exchange -> SUBSET {"exc", "err"}]
        /\ appPrev' \in [Exchange -> RecvEvents \cup {"none"}]
        /\ exc' \in [Exchange -> Exceptions \cup {"none"}]
    BY <1>1, <2>1, <2>2
  <2>4. CASE kind = "Abort"
    <3>1. "execute.abort" \in SendEvents /\ inbox[x] \in Seq(RecvEvents)
      BY <1>1 DEF SendEvents
    <3> QED BY <2>1, <2>2, <2>3, <2>4, <3>1, SendWithoutCallKeepsTypes
  <2>5. CASE kind # "Abort"
    <3>1. PICK report \in ReportsOf(kind, seen[x]) :
            Request(x, "exc", report[1], report[2])
      BY <2>1, <2>5
    <3>2. report[1] \in CallEvents /\ report[2] \in RetryCounts
      <4>1. report[1] \in Reports /\ report[2] \in RetryCounts
        BY <1>1, ReportsOfType
      <4> QED BY <4>1 DEF CallEvents
    <3>3. inbox' \in [Exchange -> Seq(RecvEvents)] /\ UNCHANGED srvPrev
      BY <1>1, <2>1, <2>5
    <3> QED BY <2>2, <2>3, <3>1, <3>2, <3>3, RequestKeepsTypes
  <2> QED BY <2>4, <2>5
<1>3. CASE CatchInServerErrorMiddleware(x)
  <2>1. Decremented(seen[x]) \in RetryCounts /\ "execute.failure" \in CallEvents
    BY <1>1, ReportedRetries DEF Reports
  <2>2. /\ Request(x, "err", "execute.failure", Decremented(seen[x]))
        /\ UNCHANGED <<engine, stray, seen, appPrev, hb, outcome, history>>
        /\ UNCHANGED srvPrev
        /\ inbox' \in [Exchange -> Seq(RecvEvents)]
        /\ started' \in [Exchange -> SUBSET {"exc", "err"}]
        /\ exc' \in [Exchange -> Exceptions \cup {"none"}]
    BY <1>1, <1>3 DEF CatchInServerErrorMiddleware, protocol
  <2> QED BY <2>1, <2>2, RequestKeepsTypes
<1>4. CASE Escapes(x)
  BY <1>4 DEF Escapes, Goto, TypeInv, TypeOK, CallWhileCalling,
     FetchedWithRetries, engine, protocol, history
<1>5. CASE Leave(x)
  <2>1. exc' \in [Exchange -> Exceptions \cup {"none"}]
    BY <1>1, <1>5 DEF Leave
  <2>2. PICK label \in {"done", "raising"} : Goto(x, label)
    BY <1>5 DEF Leave
  <2> QED
    BY <1>5, <2>1, <2>2 DEF Leave, Goto, TypeInv, TypeOK, CallWhileCalling,
       FetchedWithRetries, engine, protocol, history
<1>6. CASE ReportingRaises(x)
  <2>1. /\ layer' \in [Exchange -> {"app", "exc", "err"}]
        /\ exc' \in [Exchange -> Exceptions \cup {"none"}]
    BY <1>1, <1>6 DEF ReportingRaises, TypeInv, TypeOK
  <2> QED
    BY <1>6, <2>1 DEF ReportingRaises, TypeInv, TypeOK, CallWhileCalling,
       FetchedWithRetries, engine, protocol, history
<1> QED BY <1>2, <1>3, <1>4, <1>5, <1>6 DEF Catching

\* Fetching and beginning a task, the heartbeat, and a crash.
LEMMA StartAndCrashKeepTypes ==
  ASSUME TypeInv, NEW x \in Exchange, Fetch(x) \/ Begin(x) \/ Crash(x)
  PROVE  TypeInv'
<1>1. CASE Fetch(x)
  BY <1>1 DEF Fetch, Goto, TypeInv, TypeOK, CallWhileCalling,
     FetchedWithRetries, engine, protocol, history
<1>2. CASE Begin(x)
  <2>1. <<"start", "lock.request">> \in Seq(RecvEvents)
    BY DEF RecvEvents
  <2> QED
    BY <1>2, <2>1 DEF Begin, Goto, TypeInv, TypeOK, CallWhileCalling,
       FetchedWithRetries, engine, history
<1>3. CASE Crash(x)
  <2>1. stray' \subseteq Requests /\ NoCall \in Calls
    BY <1>3, AbandonedType DEF Crash, TypeInv, TypeOK, Calls
  <2> QED
    BY <1>3, <2>1 DEF Crash, Goto, TypeInv, TypeOK, CallWhileCalling,
       FetchedWithRetries, engine, protocol, history
<1> QED BY <1>1, <1>2, <1>3

\* Every step keeps the types.
LEMMA NextTypeInv == TypeInv /\ [Next]_vars => TypeInv'
<1> SUFFICES ASSUME TypeInv, [Next]_vars PROVE TypeInv'
  OBVIOUS
<1>1. CASE LockExpires \/ StrayArrives
            \/ \E x \in Exchange : EngineHandles(x) \/ Calling(x)
  BY <1>1, EngineKeepsTypes
<1>2. ASSUME NEW x \in Exchange, Receiving(x) PROVE TypeInv'
  BY <1>2, ReceivingKeepsTypes
<1>3. ASSUME NEW x \in Exchange, Executing(x) \/ Heartbeating(x) PROVE TypeInv'
  BY <1>3, ExecutingKeepsTypes
<1>4. ASSUME NEW x \in Exchange, Catching(x) PROVE TypeInv'
  BY <1>4, CatchingKeepsTypes
<1>5. ASSUME NEW x \in Exchange, Fetch(x) \/ Begin(x) \/ Crash(x)
      PROVE  TypeInv'
  BY <1>5, StartAndCrashKeepTypes
<1>6. CASE UNCHANGED vars
  BY <1>6 DEF vars, engine, protocol, history, TypeInv, TypeOK,
     CallWhileCalling, FetchedWithRetries
<1> QED BY <1>1, <1>2, <1>3, <1>4, <1>5, <1>6 DEF Next, Proceeds

\* TaskExchange is type correct: in particular every count of retries that
\* is reported to the engine is one it can hold, whatever the handlers raise.
THEOREM TypeCorrect == Spec => []TypeOK
<1>1. Spec => []TypeInv
  BY InitTypeInv, NextTypeInv, PTL DEF Spec
<1>2. TypeInv => TypeOK
  BY DEF TypeInv
<1> QED BY <1>1, <1>2, PTL

-----------------------------------------------------------------------------
(* The inductive invariant of the safety properties *)

\* The line of events of an exchange: at most one event waits for the
\* application, except before the first one is taken.
OneEventWaits(x) ==
  /\ pc[x] = "receiving" =>
       inbox[x] \in {<<"start", "lock.request">>, <<"lock.request">>,
                     <<"execute.request">>, <<"execute.start">>, <<"end">>}
  /\ pc[x] \notin {"receiving", "done", "crashed"} => inbox[x] = <<>>

\* What lies behind the answer to the lock request happens with the grant.
Granting(x) ==
  \/ Working(x)
  \/ pc[x] = "receiving" /\ inbox[x] \in {<<"execute.request">>,
                                          <<"execute.start">>}
  \/ pc[x] = "calling" /\ call[x].event # "lock.accept"
  \/ started[x] # {}
  \/ reports[x] > 0

GrantComesFirst(x) ==
  /\ Granting(x) => granted[x]
  /\ \A req \in stray : req.event \in Reports /\ req.from = x => granted[x]

\* The part of an exchange before its first report.
Unreported(x) ==
  \/ pc[x] \in {"idle", "queued"} \/ Working(x)
  \/ pc[x] = "receiving" /\ inbox[x] # <<"end">>
  \/ pc[x] = "calling" /\ call[x].event \notin Reports

NoReportYet(x) ==
  Unreported(x) =>
    /\ reports[x] = 0
    /\ \A req \in stray : req.event \in Reports => req.from # x

\* The engine granted the lock, whether or not its answer has arrived.
Leased(x) ==
  \/ granted[x]
  \/ call[x].event = "lock.accept" /\ call[x].reply = "ok"

LeaseHolds(x) ==
  Leased(x) /\ ~lapsed[x] /\ reports[x] = 0 =>
    task = "open" /\ owner = x /\ lockLive

Safe ==
  \A x \in Exchange :
    OneEventWaits(x) /\ GrantComesFirst(x) /\ NoReportYet(x) /\ LeaseHolds(x)

\* An answered report is the last act: no handler of an exception is left that
\* would make another one, and no request is on its way.
Settled(x) ==
  \/ pc[x] \in {"leaving", "done", "crashed"}
  \/ pc[x] = "receiving" /\ inbox[x] = <<"end">>
  \/ pc[x] = "raising" /\ started[x] = {}
  \/ pc[x] = "calling" /\ call[x].event \in Reports /\ call[x].reply = "ok"

ReportsCounted(x) ==
  /\ pc[x] = "leaving" => started[x] = {}
  /\ ~lost[x] =>
       /\ reports[x] \in {0, 1}
       /\ reports[x] = 1 => Settled(x)
       /\ \A req \in stray : req.event \in Reports /\ req.from = x =>
            /\ pc[x] = "crashed" /\ reports[x] = 0
            /\ \A other \in stray :
                 other.event \in Reports /\ other.from = x => other = req

Counted == \A x \in Exchange : ReportsCounted(x)

\* Nothing is leased, granted or reported in an initial state.
LEMMA InitSafe == Init => Safe /\ Counted
<1> SUFFICES ASSUME Init, NEW x \in Exchange
             PROVE  /\ OneEventWaits(x) /\ GrantComesFirst(x)
                    /\ NoReportYet(x) /\ LeaseHolds(x) /\ ReportsCounted(x)
  BY DEF Safe, Counted
<1>1. /\ pc[x] = "idle" /\ inbox[x] = <<>> /\ started[x] = {}
      /\ call[x] = NoCall /\ granted[x] = FALSE /\ reports[x] = 0
      /\ stray = {} /\ lost[x] = FALSE
  BY DEF Init
<1>2. call[x].event = "none"
  BY <1>1 DEF NoCall
<1> QED
  BY <1>1, <1>2 DEF OneEventWaits, GrantComesFirst, Granting, NoReportYet,
     Unreported, LeaseHolds, Leased, ReportsCounted, Settled, Working

\* The other exchanges do not notice a step of the coroutine of x.
Elsewhere(x) ==
  \A y \in Exchange \ {x} :
    /\ pc'[y] = pc[y] /\ inbox'[y] = inbox[y]
    /\ started'[y] = started[y] /\ call'[y] = call[y]

\* A step of the coroutine that neither the engine nor the history notices
\* has to answer for the exchange itself only: it adds no right to report, and
\* no call that is already answered.
LEMMA QuietStep ==
  ASSUME Safe, Counted, NEW x \in Exchange, Elsewhere(x),
         UNCHANGED <<engine, stray, history>>,
         OneEventWaits(x)',
         Granting(x)' => granted[x],
         Unreported(x)' => Unreported(x),
         call'[x] = call[x] \/ call'[x].reply # "ok",
         pc'[x] = "leaving" => started'[x] = {},
         Settled(x) => Settled(x)',
         pc[x] = "crashed" => pc'[x] = "crashed"
  PROVE  Safe' /\ Counted'
<1>1. ASSUME NEW y \in Exchange \ {x}
      PROVE  /\ OneEventWaits(y)' /\ GrantComesFirst(y)' /\ NoReportYet(y)'
             /\ LeaseHolds(y)' /\ ReportsCounted(y)'
  <2>1. /\ pc'[y] = pc[y] /\ inbox'[y] = inbox[y]
        /\ started'[y] = started[y] /\ call'[y] = call[y]
    BY DEF Elsewhere
  <2>2. /\ OneEventWaits(y) /\ GrantComesFirst(y) /\ NoReportYet(y)
        /\ LeaseHolds(y) /\ ReportsCounted(y)
    BY DEF Safe, Counted
  <2>3. OneEventWaits(y)'
    BY <2>1, <2>2 DEF OneEventWaits
  <2>4. GrantComesFirst(y)'
    BY <2>1, <2>2 DEF GrantComesFirst, Granting, Working, history
  <2>5. NoReportYet(y)'
    BY <2>1, <2>2 DEF NoReportYet, Unreported, Working, history
  <2>6. LeaseHolds(y)'
    BY <2>1, <2>2 DEF LeaseHolds, Leased, history, engine
  <2>7. ReportsCounted(y)'
    BY <2>1, <2>2 DEF ReportsCounted, Settled, history
  <2> QED BY <2>3, <2>4, <2>5, <2>6, <2>7
<1>2. /\ OneEventWaits(x) /\ GrantComesFirst(x) /\ NoReportYet(x)
      /\ LeaseHolds(x) /\ ReportsCounted(x)
  BY DEF Safe, Counted
<1>3. GrantComesFirst(x)'
  BY <1>2 DEF GrantComesFirst, history
<1>4. NoReportYet(x)'
  BY <1>2 DEF NoReportYet, history
<1>5. LeaseHolds(x)'
  BY <1>2 DEF LeaseHolds, Leased, history, engine
<1>6. ReportsCounted(x)'
  BY <1>2 DEF ReportsCounted, history
<1> QED BY <1>1, <1>3, <1>4, <1>5, <1>6 DEF Safe, Counted

\* A receiving exchange moves on along the line of events.
LEMMA ReceivingKeepsSafe ==
  ASSUME TypeInv, Safe, Counted, NEW x \in Exchange, Receiving(x)
  PROVE  Safe' /\ Counted'
<1>1. /\ pc[x] = "receiving" /\ call[x] = NoCall
      /\ OneEventWaits(x) /\ GrantComesFirst(x) /\ ReportsCounted(x)
      /\ UNCHANGED <<engine, stray, history>>
  BY DEF TypeInv, CallWhileCalling, Safe, Counted, Receiving, ReceiveStart,
     ReceiveLockRequest, ReceiveExecuteRequest, ReceiveExecuteStart, ReceiveEnd,
     Receives, GuardRejects, GuardRaises, DecodingRaises, ReceiveRaises
<1>2. NoCall.event = "none" /\ NoCall.reply = "none"
  BY DEF NoCall
<1>3. CASE ReceiveStart(x)
  <2>1. /\ inbox[x] = <<"start", "lock.request">>
        /\ pc'[x] = "receiving" /\ inbox'[x] = <<"lock.request">>
        /\ started'[x] = started[x] /\ call'[x] = call[x]
        /\ Elsewhere(x)
    <3>1. Head(inbox[x]) = "start"
      BY <1>3 DEF ReceiveStart, Receives
    <3>2. inbox[x] = <<"start", "lock.request">>
      BY <1>1, <3>1 DEF OneEventWaits
    <3>3. Tail(inbox[x]) = <<"lock.request">>
      BY <3>2
    <3>4. inbox'[x] = <<"lock.request">> /\ pc'[x] = "receiving"
          /\ call'[x] = call[x]
      BY <1>1, <1>3, <3>3 DEF ReceiveStart, Pops, TypeInv, TypeOK
    <3>5. started'[x] = started[x]
      BY <1>3 DEF ReceiveStart, Receives, TaskStarted, TypeInv, TypeOK
    <3>6. Elsewhere(x)
      BY <1>3 DEF ReceiveStart, Receives, Pops, Elsewhere, TypeInv, TypeOK
    <3> QED BY <3>2, <3>4, <3>5, <3>6
  <2>2. OneEventWaits(x)'
    BY <2>1 DEF OneEventWaits
  <2>3. Granting(x)' => granted[x]
    BY <1>1, <2>1 DEF GrantComesFirst, Granting, Working, history
  <2>4. Unreported(x) /\ ~Settled(x)
    BY <1>1, <2>1 DEF Unreported, Settled
  <2> QED BY <1>1, <2>1, <2>2, <2>3, <2>4, QuietStep
<1>4. CASE ReceiveLockRequest(x)
  <2>1. /\ inbox[x] = <<"lock.request">>
        /\ started'[x] = started[x]
        /\ Elsewhere(x)
        /\ \/ /\ pc'[x] = "calling" /\ inbox'[x] = <<>>
              /\ call'[x].event = "lock.accept" /\ call'[x].reply = "none"
           \/ /\ pc'[x] = "receiving" /\ inbox'[x] = <<"end">>
              /\ call'[x] = call[x]
    BY <1>1, <1>4 DEF ReceiveLockRequest, Receives, Pops, Request,
       SendWithoutCall, AfterSend, Goto, TaskStarted, OneEventWaits, Elsewhere,
       TypeInv, TypeOK
  <2>2. OneEventWaits(x)'
    BY <2>1 DEF OneEventWaits
  <2>3. Granting(x)' => granted[x]
    BY <1>1, <2>1 DEF GrantComesFirst, Granting, Working, history
  <2>4. Unreported(x) /\ ~Settled(x)
    BY <1>1, <2>1 DEF Unreported, Settled
  <2> QED BY <1>1, <1>2, <2>1, <2>2, <2>3, <2>4, QuietStep
<1>5. CASE ReceiveExecuteRequest(x)
  <2>1. /\ inbox[x] = <<"execute.request">>
        /\ Elsewhere(x)
        /\ pc'[x] = "calling" /\ inbox'[x] = <<>>
        /\ call'[x].event = "execute.accept" /\ call'[x].reply = "none"
    <3>1. Head(inbox[x]) = "execute.request"
      BY <1>5 DEF ReceiveExecuteRequest, Receives
    <3>2. inbox[x] = <<"execute.request">>
      BY <1>1, <3>1 DEF OneEventWaits
    <3>3. Elsewhere(x)
      BY <1>5 DEF ReceiveExecuteRequest, Receives, Pops, Request, Goto,
         Elsewhere, TypeInv, TypeOK
    <3>4. inbox'[x] = <<>>
      BY <1>5, <3>2 DEF ReceiveExecuteRequest, Pops, TypeInv, TypeOK
    <3>5. pc'[x] = "calling" /\ call'[x].event = "execute.accept"
          /\ call'[x].reply = "none"
      BY <1>5 DEF ReceiveExecuteRequest, Request, Goto, TypeInv, TypeOK
    <3> QED BY <3>2, <3>3, <3>4, <3>5
  <2>2. OneEventWaits(x)'
    BY <2>1 DEF OneEventWaits
  <2>3. granted[x] /\ Unreported(x) /\ ~Settled(x)
    BY <1>1, <2>1 DEF GrantComesFirst, Granting, Unreported, Settled
  <2> QED BY <1>1, <1>2, <2>1, <2>2, <2>3, QuietStep
<1>6. CASE ReceiveExecuteStart(x)
  <2>1. /\ inbox[x] = <<"execute.start">>
        /\ Elsewhere(x)
        /\ pc'[x] = "resolving" /\ inbox'[x] = <<>> /\ call'[x] = call[x]
    BY <1>1, <1>6 DEF ReceiveExecuteStart, Receives, Pops, Goto, OneEventWaits,
       Elsewhere, TypeInv, TypeOK
  <2>2. OneEventWaits(x)'
    BY <2>1 DEF OneEventWaits
  <2>3. granted[x] /\ Unreported(x) /\ ~Settled(x)
    BY <1>1, <2>1 DEF GrantComesFirst, Granting, Unreported, Settled
  <2> QED BY <1>1, <2>1, <2>2, <2>3, QuietStep
<1>7. CASE ReceiveEnd(x)
  <2>1. /\ inbox[x] = <<"end">>
        /\ Elsewhere(x)
        /\ pc'[x] = "leaving" /\ inbox'[x] = <<>> /\ call'[x] = call[x]
        /\ started'[x] = {}
    BY <1>1, <1>7 DEF ReceiveEnd, Receives, Pops, Goto, TaskStarted,
       OneEventWaits, Elsewhere, TypeInv, TypeOK
  <2>2. OneEventWaits(x)'
    BY <2>1 DEF OneEventWaits
  <2>3. ~Unreported(x)' /\ Settled(x)'
    BY <2>1 DEF Unreported, Working, Settled
  <2>4. Granting(x)' => granted[x]
    BY <1>1, <2>1 DEF GrantComesFirst, Granting, Working, history
  <2> QED BY <1>1, <2>1, <2>2, <2>3, <2>4, QuietStep
<1>8. CASE GuardRejects(x)
  <2>1. /\ inbox[x] = <<"lock.request">>
        /\ started'[x] = started[x] /\ call'[x] = call[x]
        /\ Elsewhere(x)
        /\ pc'[x] = "receiving" /\ inbox'[x] = <<"end">>
    <3>1. inbox[x] = <<"lock.request">>
      BY <1>1, <1>8 DEF GuardRejects, OneEventWaits
    <3>2. Append(Tail(inbox[x]), "end") = <<"end">>
      BY <3>1
    <3>3. inbox'[x] = <<"end">> /\ pc'[x] = "receiving"
      BY <1>8, <3>2 DEF GuardRejects, SendWithoutCall, AfterSend, Goto, TypeInv,
         TypeOK
    <3>4. started'[x] = started[x] /\ call'[x] = call[x] /\ Elsewhere(x)
      BY <1>8 DEF GuardRejects, SendWithoutCall, Goto, Elsewhere, TypeInv, TypeOK
    <3> QED BY <3>1, <3>3, <3>4
  <2>2. OneEventWaits(x)'
    BY <2>1 DEF OneEventWaits
  <2>3. Granting(x)' => granted[x]
    BY <1>1, <2>1 DEF GrantComesFirst, Granting, Working, history
  <2>4. Unreported(x) /\ ~Settled(x)
    BY <1>1, <2>1 DEF Unreported, Settled
  <2> QED BY <1>1, <2>1, <2>2, <2>3, <2>4, QuietStep
<1>9. CASE GuardRaises(x) \/ DecodingRaises(x)
  <2>1. /\ inbox[x] \in {<<"lock.request">>, <<"execute.start">>}
        /\ started'[x] = started[x] /\ call'[x] = call[x]
        /\ Elsewhere(x)
        /\ pc'[x] = "raising" /\ inbox'[x] = <<>>
    <3>1. PICK event \in {"lock.request", "execute.start"} :
            ReceiveRaises(x, event)
      BY <1>9 DEF GuardRaises, DecodingRaises
    <3>2. inbox[x] \in {<<"lock.request">>, <<"execute.start">>}
      BY <1>1, <3>1 DEF ReceiveRaises, OneEventWaits
    <3>3. Tail(inbox[x]) = <<>>
      <4>1. CASE inbox[x] = <<"lock.request">>
        BY <4>1
      <4>2. CASE inbox[x] = <<"execute.start">>
        BY <4>2
      <4> QED BY <3>2, <4>1, <4>2
    <3> QED
      BY <3>1, <3>2, <3>3 DEF ReceiveRaises, Pops, Goto, Elsewhere, TypeInv,
         TypeOK
  <2>2. OneEventWaits(x)'
    BY <2>1 DEF OneEventWaits
  <2>3. Granting(x)' => granted[x]
    BY <1>1, <2>1 DEF GrantComesFirst, Granting, Working, history
  <2>4. Unreported(x) /\ ~Settled(x)
    BY <1>1, <2>1 DEF Unreported, Settled
  <2> QED BY <1>1, <2>1, <2>2, <2>3, <2>4, QuietStep
<1> QED BY <1>3, <1>4, <1>5, <1>6, <1>7, <1>8, <1>9 DEF Receiving

\* An exchange at work reports at most its outcome.
LEMMA ExecutingKeepsSafe ==
  ASSUME TypeInv, Safe, Counted, NEW x \in Exchange, Executing(x)
  PROVE  Safe' /\ Counted'
<1>1. Working(x)
  BY DEF Executing, StartHandler, ResolvingRaises, HandlerEnds, SendOutcome,
     OutcomeRaises, Joined, Working
<1>2. /\ granted[x] /\ call[x] = NoCall /\ inbox[x] = <<>>
      /\ Unreported(x) /\ ~Settled(x) /\ pc[x] # "crashed"
  BY <1>1 DEF Safe, GrantComesFirst, Granting, OneEventWaits, Unreported,
     Settled, Working, TypeInv, CallWhileCalling
<1>3. NoCall.event = "none" /\ NoCall.reply = "none"
  BY DEF NoCall
<1>4. CASE StartHandler(x) \/ ResolvingRaises(x) \/ HandlerEnds(x)
           \/ OutcomeRaises(x)
  <2>1. /\ UNCHANGED <<engine, stray, history, inbox, started, call>>
        /\ Elsewhere(x)
        /\ pc'[x] \in {"handler", "joining", "raising"}
    BY <1>4 DEF StartHandler, ResolvingRaises, HandlerEnds, OutcomeRaises, Goto,
       Elsewhere, protocol, TypeInv, TypeOK
  <2>2. OneEventWaits(x)'
    BY <1>2, <2>1 DEF OneEventWaits
  <2> QED BY <1>2, <2>1, <2>2, QuietStep
<1>5. CASE SendOutcome(x)
  <2>1. /\ UNCHANGED <<engine, stray, history, started>>
        /\ Elsewhere(x)
        /\ \/ /\ pc'[x] = "calling" /\ inbox'[x] = inbox[x]
              /\ call'[x].event \in Reports /\ call'[x].reply = "none"
           \/ /\ pc'[x] = "receiving" /\ inbox'[x] = <<"end">>
              /\ call'[x] = call[x]
    BY <1>2, <1>5 DEF SendOutcome, Request, SendWithoutCall, AfterSend, Goto,
       Elsewhere, Reports, TypeInv, TypeOK
  <2>2. OneEventWaits(x)'
    BY <1>2, <2>1 DEF OneEventWaits
  <2> QED BY <1>2, <2>1, <2>2, QuietStep
<1> QED BY <1>4, <1>5 DEF Executing

\* The middlewares report while their flag is set, which the end clears.
LEMMA CatchingKeepsSafe ==
  ASSUME TypeInv, Safe, Counted, NEW x \in Exchange, Catching(x)
  PROVE  Safe' /\ Counted'
<1>1. /\ pc[x] \in {"raising", "leaving"} /\ call[x] = NoCall /\ inbox[x] = <<>>
      /\ UNCHANGED <<engine, stray, history, started>>
      /\ GrantComesFirst(x) /\ ReportsCounted(x)
  BY DEF Catching, CatchInExceptionMiddleware, CatchInServerErrorMiddleware,
     ReportingRaises, Escapes, Leave, Safe, Counted, OneEventWaits, TypeInv, CallWhileCalling,
     protocol
<1>2. NoCall.event = "none" /\ NoCall.reply = "none"
  BY DEF NoCall
<1>3. CASE CatchInExceptionMiddleware(x) \/ CatchInServerErrorMiddleware(x)
  <2>1. pc[x] = "raising" /\ started[x] # {}
    BY <1>3 DEF CatchInExceptionMiddleware, CatchInServerErrorMiddleware
  <2>2. granted[x] /\ ~Settled(x)
    BY <1>1, <2>1 DEF GrantComesFirst, Granting, Settled
  <2>3. /\ Elsewhere(x)
        /\ \/ /\ pc'[x] = "calling" /\ inbox'[x] = <<>>
              /\ call'[x].event \in Reports /\ call'[x].reply = "none"
           \/ pc'[x] = "done" /\ call'[x] = call[x]
    <3>1. CASE CatchInServerErrorMiddleware(x)
      BY <1>1, <3>1 DEF CatchInServerErrorMiddleware, Request, Goto, Elsewhere,
         Reports, protocol, TypeInv, TypeOK
    <3>2. ASSUME NEW kind, NEW report \in ReportsOf(kind, seen[x]),
                 Request(x, "exc", report[1], report[2]),
                 UNCHANGED <<inbox, srvPrev>>
          PROVE  <2>3!2
      <4>1. report[1] \in Reports
        BY ReportsOfType DEF TypeInv, TypeOK, FetchedWithRetries
      <4> QED
        BY <1>1, <3>2, <4>1 DEF Request, Goto, TypeInv, TypeOK
    <3>3. CASE CatchInExceptionMiddleware(x)
      <4>1. Elsewhere(x)
        BY <1>1, <3>3 DEF CatchInExceptionMiddleware, Request, SendWithoutCall,
           Goto, Elsewhere, TypeInv, TypeOK
      <4>2. CASE SendWithoutCall(x, "exc", "execute.abort", inbox[x])
        BY <4>1, <4>2 DEF SendWithoutCall, AfterSend, Goto, TypeInv, TypeOK
      <4>3. CASE \E kind \in {exc[x], "Other"} :
                   /\ \E report \in ReportsOf(kind, seen[x]) :
                        Request(x, "exc", report[1], report[2])
                   /\ UNCHANGED <<inbox, srvPrev>>
        BY <3>2, <4>1, <4>3
      <4> QED BY <3>3, <4>2, <4>3 DEF CatchInExceptionMiddleware
    <3> QED BY <1>3, <3>1, <3>3
  <2>4. OneEventWaits(x)'
    BY <2>3 DEF OneEventWaits
  <2>5. ~Unreported(x)'
    BY <2>3 DEF Unreported, Working
  <2> QED BY <1>1, <1>2, <2>1, <2>2, <2>3, <2>4, <2>5, QuietStep
<1>4. CASE Escapes(x) \/ Leave(x)
  <2>1. /\ Elsewhere(x) /\ inbox'[x] = <<>> /\ call'[x] = call[x]
        /\ \/ pc'[x] \in {"done", "crashed"}
           \/ pc[x] = "leaving" /\ pc'[x] = "raising"
    <3>1. UNCHANGED <<inbox, call>> /\ inbox'[x] = <<>>
      BY <1>1, <1>4 DEF Escapes, Leave, protocol
    <3>2. PICK label \in {"done", "crashed", "raising"} :
            Goto(x, label) /\ (label = "raising" => pc[x] = "leaving")
      BY <1>4 DEF Escapes, Leave
    <3>3. pc'[x] = label /\ \A y \in Exchange \ {x} : pc'[y] = pc[y]
      BY <3>2 DEF Goto, TypeInv, TypeOK
    <3>4. Elsewhere(x)
      BY <1>1, <3>1, <3>3 DEF Elsewhere
    <3>5. call'[x] = call[x]
      BY <3>1
    <3> QED BY <3>1, <3>2, <3>3, <3>4, <3>5
  <2>2. OneEventWaits(x)' /\ ~Unreported(x)'
    BY <2>1 DEF OneEventWaits, Unreported, Working
  <2>3. Granting(x)' => granted[x]
    BY <1>1, <1>2, <2>1 DEF GrantComesFirst, Granting, Working, history
  <2>4. Settled(x)'
    BY <1>1, <2>1 DEF Settled, ReportsCounted
  <2> QED BY <1>1, <2>1, <2>2, <2>3, <2>4, QuietStep
<1>5. CASE ReportingRaises(x)
  <2>1. /\ UNCHANGED <<pc, inbox, call>> /\ pc[x] = "raising"
        /\ started[x] # {}
    BY <1>5 DEF ReportingRaises, protocol
  <2>2. Elsewhere(x) /\ OneEventWaits(x)'
    BY <1>1, <2>1 DEF Elsewhere, OneEventWaits
  <2>3. granted[x] /\ ~Settled(x)
    BY <1>1, <2>1 DEF GrantComesFirst, Granting, Settled
  <2>4. ~Unreported(x)'
    BY <1>1, <1>2, <2>1 DEF Unreported, Working
  <2> QED BY <1>1, <2>1, <2>2, <2>3, <2>4, QuietStep
<1> QED BY <1>3, <1>4, <1>5 DEF Catching

\* Taking a task from the queue and the heartbeat leave the line of events
\* alone, but for the two events every exchange begins with.
LEMMA BeginningKeepsSafe ==
  ASSUME TypeInv, Safe, Counted, NEW x \in Exchange,
         Fetch(x) \/ Begin(x) \/ Heartbeating(x)
  PROVE  Safe' /\ Counted'
<1>1. OneEventWaits(x) /\ GrantComesFirst(x) /\ ReportsCounted(x)
      /\ (call[x] = NoCall \/ pc[x] = "calling")
  BY DEF Safe, Counted, TypeInv, CallWhileCalling
<1>2. NoCall.event = "none" /\ NoCall.reply = "none"
  BY DEF NoCall
<1>3. CASE Fetch(x) \/ Begin(x)
  <2>1. /\ UNCHANGED <<engine, stray, history, started, call>>
        /\ pc[x] \in {"idle", "queued"} /\ call[x] = NoCall
    BY <1>1, <1>3 DEF Fetch, Begin, protocol
  <2>2. /\ Elsewhere(x)
        /\ \/ pc'[x] = "queued" /\ inbox'[x] = <<>>
           \/ pc'[x] = "receiving" /\ inbox'[x] = <<"start", "lock.request">>
    <3>1. CASE Fetch(x)
      BY <1>1, <2>1, <3>1 DEF Fetch, Goto, Elsewhere, OneEventWaits, protocol,
         TypeInv, TypeOK
    <3>2. CASE Begin(x)
      BY <2>1, <3>2 DEF Begin, Goto, Elsewhere, TypeInv, TypeOK
    <3> QED BY <1>3, <3>1, <3>2
  <2>3. OneEventWaits(x)'
    BY <2>2 DEF OneEventWaits
  <2>4. Unreported(x) /\ ~Settled(x)
    BY <2>1 DEF Unreported, Settled
  <2>5. Granting(x)' => granted[x]
    BY <1>1, <2>1, <2>2 DEF GrantComesFirst, Granting, Working, history
  <2> QED BY <2>1, <2>2, <2>3, <2>4, <2>5, QuietStep
<1>4. CASE Heartbeating(x)
  <2>1. UNCHANGED <<engine, stray, history, pc, inbox, started, call>>
    BY <1>4 DEF Heartbeating, HeartbeatWakes, HeartbeatReturns, HeartbeatStops,
       protocol
  <2>2. Elsewhere(x)
    BY <2>1 DEF Elsewhere
  <2>3. OneEventWaits(x)'
    BY <1>1, <2>1 DEF OneEventWaits
  <2>4. Granting(x)' => granted[x]
    BY <1>1, <2>1 DEF GrantComesFirst, Granting, Working, history
  <2>5. Unreported(x)' => Unreported(x)
    BY <2>1 DEF Unreported, Working
  <2>6. Settled(x) => Settled(x)'
    BY <2>1 DEF Settled
  <2>7. pc'[x] = pc[x] /\ call'[x] = call[x] /\ started'[x] = started[x]
    BY <2>1
  <2>8. pc'[x] = "leaving" => started'[x] = {}
    BY <1>1, <2>7 DEF ReportsCounted
  <2> QED BY <2>1, <2>2, <2>3, <2>4, <2>5, <2>6, <2>7, <2>8, QuietStep
<1> QED BY <1>3, <1>4

\* What is left behind by a sender that does not wait any longer.
LEMMA AbandonedRequest ==
  ASSUME TypeInv, NEW x \in Exchange, NEW req \in Abandoned(x)
  PROVE  /\ req.from = x /\ req.event = call[x].event
         /\ pc[x] = "calling" /\ call[x].reply = "none"
         /\ \A other \in Abandoned(x) : other = req
BY DEF Abandoned, RequestOf

\* A step of exchange x that may leave a request behind concerns nobody else.
LEMMA OthersUndisturbed ==
  ASSUME TypeInv, Safe, Counted, NEW x \in Exchange, Elsewhere(x),
         stray' \subseteq stray \cup Abandoned(x),
         UNCHANGED <<engine, lapsed, reports>>,
         \A y \in Exchange \ {x} : granted'[y] = granted[y] /\ lost'[y] = lost[y],
         NEW y \in Exchange \ {x}
  PROVE  /\ OneEventWaits(y)' /\ GrantComesFirst(y)' /\ NoReportYet(y)'
         /\ LeaseHolds(y)' /\ ReportsCounted(y)'
<1>1. /\ pc'[y] = pc[y] /\ inbox'[y] = inbox[y]
      /\ started'[y] = started[y] /\ call'[y] = call[y]
      /\ granted'[y] = granted[y] /\ lost'[y] = lost[y]
  BY DEF Elsewhere
<1>2. /\ OneEventWaits(y) /\ GrantComesFirst(y) /\ NoReportYet(y)
      /\ LeaseHolds(y) /\ ReportsCounted(y)
  BY DEF Safe, Counted
<1>3. \A req \in stray' : req.from = y => req \in stray
  BY AbandonedRequest
<1>4. OneEventWaits(y)'
  BY <1>1, <1>2 DEF OneEventWaits
<1>5. GrantComesFirst(y)'
  BY <1>1, <1>2, <1>3 DEF GrantComesFirst, Granting, Working
<1>6. NoReportYet(y)'
  BY <1>1, <1>2, <1>3 DEF NoReportYet, Unreported, Working
<1>7. LeaseHolds(y)'
  BY <1>1, <1>2 DEF LeaseHolds, Leased, engine
<1>8. ReportsCounted(y)'
  BY <1>1, <1>2, <1>3 DEF ReportsCounted, Settled
<1> QED BY <1>4, <1>5, <1>6, <1>7, <1>8

\* A crash may leave one request behind, and nobody who would send another.
LEMMA CrashKeepsSafe ==
  ASSUME TypeInv, Safe, Counted, NEW x \in Exchange, Crash(x)
  PROVE  Safe' /\ Counted'
<1>1. /\ Elsewhere(x)
      /\ stray' = stray \cup Abandoned(x)
      /\ UNCHANGED <<engine, history>>
      /\ pc'[x] = "crashed" /\ pc[x] # "crashed"
      /\ call'[x] = NoCall /\ started'[x] = started[x]
  BY DEF Crash, Goto, Elsewhere, protocol, TypeInv, TypeOK
<1>2. /\ GrantComesFirst(x) /\ NoReportYet(x) /\ LeaseHolds(x)
      /\ ReportsCounted(x)
  BY DEF Safe, Counted
<1>3. NoCall.event = "none"
  BY DEF NoCall
<1>4. OneEventWaits(x)' /\ NoReportYet(x)'
  BY <1>1 DEF OneEventWaits, NoReportYet, Unreported, Working
<1>5. GrantComesFirst(x)'
  <2>1. \A req \in Abandoned(x) : req.event \in Reports => granted[x]
    BY <1>2, AbandonedRequest DEF GrantComesFirst, Granting, Reports
  <2>2. Granting(x)' => granted[x]
    BY <1>1, <1>2 DEF GrantComesFirst, Granting, Working, history
  <2> QED BY <1>1, <1>2, <2>1, <2>2 DEF GrantComesFirst, history
<1>6. LeaseHolds(x)'
  BY <1>1, <1>2, <1>3 DEF LeaseHolds, Leased, engine, history
<1>7. ReportsCounted(x)'
  <2>1. \A req \in Abandoned(x) : req.event \in Reports => ~Settled(x)
    BY AbandonedRequest DEF Settled
  <2>2. ASSUME ~lost[x], NEW req \in stray', req.event \in Reports, req.from = x
        PROVE  /\ reports[x] = 0
               /\ \A other \in stray' :
                    other.event \in Reports /\ other.from = x => other = req
    <3>1. \A other \in stray : ~(other.event \in Reports /\ other.from = x)
      BY <1>1, <1>2, <2>2 DEF ReportsCounted
    <3>2. req \in Abandoned(x)
      BY <1>1, <2>2, <3>1
    <3> QED
      BY <1>1, <1>2, <2>1, <2>2, <3>1, <3>2, AbandonedRequest
         DEF ReportsCounted
  <2> QED BY <1>1, <1>2, <2>2 DEF ReportsCounted, Settled, history
<1>8. \A y \in Exchange \ {x} :
        /\ OneEventWaits(y)' /\ GrantComesFirst(y)' /\ NoReportYet(y)'
        /\ LeaseHolds(y)' /\ ReportsCounted(y)'
  <2>1. /\ stray' \subseteq stray \cup Abandoned(x)
        /\ UNCHANGED <<engine, lapsed, reports>>
        /\ \A y \in Exchange \ {x} :
             granted'[y] = granted[y] /\ lost'[y] = lost[y]
    BY <1>1 DEF history
  <2> QED BY <1>1, <2>1, OthersUndisturbed
<1> QED BY <1>4, <1>5, <1>6, <1>7, <1>8 DEF Safe, Counted

\* A call without an answer: only a refused lock request goes on, a report may
\* be made again because the history knows that its answer was lost.
LEMMA CallUnansweredKeepsSafe ==
  ASSUME TypeInv, Safe, Counted, NEW x \in Exchange, CallUnanswered(x)
  PROVE  Safe' /\ Counted'
<1>1. /\ pc[x] = "calling" /\ inbox[x] = <<>>
      /\ GrantComesFirst(x) /\ NoReportYet(x) /\ LeaseHolds(x)
      /\ ReportsCounted(x)
  BY DEF CallUnanswered, Safe, Counted, OneEventWaits
<1>2. /\ Elsewhere(x)
      /\ \/ pc'[x] \in {"receiving", "done"} /\ inbox'[x] = <<"end">>
         \/ pc'[x] = "raising" /\ inbox'[x] = <<>>
      /\ UNCHANGED granted
      /\ call'[x] = NoCall
  <2>1. CASE SendRaises(x)
    BY <1>1, <2>1 DEF CallUnanswered, SendRaises, Goto, Elsewhere, TypeInv, TypeOK
  <2>2. CASE call[x].event = "lock.accept" /\ SendReturns(x, FALSE)
    <3>1. Answer(call[x].event, FALSE) = "end"
      BY <2>2 DEF Answer
    <3>2. inbox'[x] = <<"end">>
      <4>1. inbox'[x] = Append(inbox[x], "end")
        BY <2>2, <3>1 DEF SendReturns, TypeInv, TypeOK
      <4> QED BY <1>1, <4>1
    <3>3. AfterSend(layer[x]) \in {"receiving", "done"}
      BY DEF AfterSend
    <3>4. pc'[x] \in {"receiving", "done"} /\ call'[x] = NoCall
      BY <2>2, <3>3 DEF SendReturns, Goto, TypeInv, TypeOK
    <3>5. granted' = granted
      BY <2>2 DEF SendReturns, TypeInv, TypeOK
    <3>6. Elsewhere(x)
      BY <2>2 DEF CallUnanswered, SendReturns, Goto, Elsewhere, TypeInv, TypeOK
    <3> QED BY <3>2, <3>4, <3>5, <3>6
  <2> QED BY <2>1, <2>2 DEF CallUnanswered
<1>3. /\ stray' = stray \cup Abandoned(x)
      /\ UNCHANGED <<engine, lapsed, reports>>
      /\ started'[x] = started[x]
      /\ lost'[x] = (lost[x] \/ call[x].event \in Reports)
      /\ \A y \in Exchange \ {x} : lost'[y] = lost[y]
  BY DEF CallUnanswered, TypeInv, TypeOK
<1>4. NoCall.event = "none"
  BY DEF NoCall
<1>5. OneEventWaits(x)' /\ ~Unreported(x)'
  BY <1>2 DEF OneEventWaits, Unreported, Working
<1>6. GrantComesFirst(x)'
  <2>1. \A req \in Abandoned(x) : req.event \in Reports => granted[x]
    BY <1>1, AbandonedRequest DEF GrantComesFirst, Granting, Reports
  <2>2. Granting(x)' => granted[x]
    BY <1>1, <1>2, <1>3 DEF GrantComesFirst, Granting, Working
  <2> QED BY <1>1, <1>2, <1>3, <2>1, <2>2 DEF GrantComesFirst
<1>7. LeaseHolds(x)'
  BY <1>1, <1>2, <1>3, <1>4 DEF LeaseHolds, Leased, engine
<1>8. ReportsCounted(x)'
  <2>1. ASSUME ~lost'[x] PROVE ~lost[x] /\ call[x].event \notin Reports
    BY <1>3, <2>1 DEF TypeInv, TypeOK
  <2>2. ASSUME ~lost'[x]
        PROVE  /\ reports'[x] = 0
               /\ \A req \in stray' : ~(req.event \in Reports /\ req.from = x)
    <3>1. reports[x] = 0
      BY <1>1, <2>1, <2>2 DEF ReportsCounted, Settled
    <3>2. \A req \in Abandoned(x) : req.event \notin Reports
      BY <2>1, <2>2, AbandonedRequest
    <3> QED
      BY <1>1, <1>3, <2>1, <2>2, <3>1, <3>2 DEF ReportsCounted
  <2> QED BY <1>2, <2>2 DEF ReportsCounted
<1>9. \A y \in Exchange \ {x} :
        /\ OneEventWaits(y)' /\ GrantComesFirst(y)' /\ NoReportYet(y)'
        /\ LeaseHolds(y)' /\ ReportsCounted(y)'
  <2>1. /\ stray' \subseteq stray \cup Abandoned(x)
        /\ \A y \in Exchange \ {x} :
             granted'[y] = granted[y] /\ lost'[y] = lost[y]
    BY <1>2, <1>3
  <2> QED BY <1>2, <1>3, <2>1, OthersUndisturbed
<1> QED
  BY <1>5, <1>6, <1>7, <1>8, <1>9 DEF Safe, Counted, NoReportYet

\* An answered lock request grants only what the engine accepted, an answered
\* report is followed by the end.
LEMMA CallAnsweredKeepsSafe ==
  ASSUME TypeInv, Safe, Counted, NEW x \in Exchange, CallAnswered(x)
  PROVE  Safe' /\ Counted'
<1>1. /\ pc[x] = "calling" /\ inbox[x] = <<>> /\ call[x].event \in CallEvents
      /\ GrantComesFirst(x) /\ NoReportYet(x) /\ LeaseHolds(x)
      /\ ReportsCounted(x)
  BY CallsReply DEF CallAnswered, Safe, Counted, OneEventWaits, TypeInv, TypeOK,
     CallWhileCalling
<1>2. /\ UNCHANGED <<engine, stray, lapsed, reports, lost>>
      /\ started'[x] = started[x]
  BY DEF CallAnswered
<1>3. NoCall.event = "none"
  BY DEF NoCall
<1>4. \A y \in Exchange \ {x} :
        /\ OneEventWaits(y)' /\ GrantComesFirst(y)' /\ NoReportYet(y)'
        /\ LeaseHolds(y)' /\ ReportsCounted(y)'
  <2>1. Elsewhere(x)
    BY DEF CallAnswered, SendRaises, SendReturns, Goto, Elsewhere, TypeInv, TypeOK
  <2>2. \A y \in Exchange \ {x} : granted'[y] = granted[y] /\ lost'[y] = lost[y]
    BY <1>2 DEF CallAnswered, SendRaises, SendReturns, TypeInv, TypeOK
  <2> QED BY <1>2, <2>1, <2>2, OthersUndisturbed
<1>5. CASE call[x].event = "execute.accept" /\ call[x].reply # "ok"
  <2>1. pc'[x] = "raising" /\ inbox'[x] = <<>> /\ call'[x] = NoCall
        /\ granted' = granted
    BY <1>1, <1>5 DEF CallAnswered, SendRaises, Goto, TypeInv, TypeOK
  <2>2. OneEventWaits(x)' /\ ~Unreported(x)'
    BY <2>1 DEF OneEventWaits, Unreported, Working
  <2>3. granted[x] /\ ~Settled(x)
    BY <1>1, <1>5 DEF GrantComesFirst, Granting, Settled, Reports
  <2>4. GrantComesFirst(x)' /\ LeaseHolds(x)'
    BY <1>1, <1>2, <1>3, <2>1, <2>3
       DEF GrantComesFirst, LeaseHolds, Leased, engine
  <2>5. ReportsCounted(x)'
    BY <1>1, <1>2, <2>1, <2>3 DEF ReportsCounted
  <2> QED BY <1>4, <2>2, <2>4, <2>5 DEF Safe, Counted, NoReportYet
<1>6. CASE ~(call[x].event = "execute.accept" /\ call[x].reply # "ok")
  <2> DEFINE verdict == call[x].reply = "ok"
             answer == Answer(call[x].event, verdict)
  <2>1. SendReturns(x, verdict)
    BY <1>6 DEF CallAnswered
  <2>2. AfterSend(layer[x]) \in {"receiving", "done"}
    BY DEF AfterSend
  <2>3. /\ pc'[x] \in {"receiving", "done"}
        /\ inbox'[x] = <<answer>>
        /\ call'[x] = NoCall
        /\ granted'[x] = (granted[x] \/ (call[x].event = "lock.accept" /\ verdict))
    BY <1>1, <2>1, <2>2 DEF SendReturns, Goto, TypeInv, TypeOK
  <2>4. CASE call[x].event = "lock.accept"
    <3>1. answer \in {"execute.request", "end"}
          /\ (answer = "execute.request" => granted'[x])
      BY <2>3, <2>4 DEF Answer
    <3>2. OneEventWaits(x)' /\ Unreported(x) /\ ~Settled(x)
      BY <1>1, <2>3, <2>4, <3>1 DEF OneEventWaits, Unreported, Settled, Reports
    <3>3. Granting(x)' => granted'[x]
      <4>1. inbox'[x] \in {<<"execute.request">>, <<"execute.start">>}
              => answer = "execute.request"
        <5>1. inbox'[x][1] = answer
          BY <2>3
        <5> HIDE DEF answer
        <5> QED BY <3>1, <5>1
      <4>2. started[x] # {} \/ reports[x] > 0 => granted[x]
        BY <1>1 DEF GrantComesFirst, Granting
      <4> QED
        BY <1>2, <2>3, <3>1, <4>1, <4>2 DEF Granting, Working
    <3>4. GrantComesFirst(x)'
      BY <1>1, <1>2, <2>3, <3>3 DEF GrantComesFirst
    <3>5. NoReportYet(x)' /\ ReportsCounted(x)'
      BY <1>1, <1>2, <2>3, <3>2 DEF NoReportYet, ReportsCounted
    <3>6. LeaseHolds(x)'
      BY <1>1, <1>2, <1>3, <2>3, <2>4 DEF LeaseHolds, Leased, engine
    <3> QED BY <1>4, <3>2, <3>4, <3>5, <3>6 DEF Safe, Counted
  <2>5. CASE call[x].event = "execute.accept"
    <3>1. answer = "execute.start"
      BY <2>5 DEF Answer
    <3>2. OneEventWaits(x)' /\ Unreported(x) /\ ~Settled(x) /\ granted[x]
      BY <1>1, <2>3, <2>5, <3>1 DEF OneEventWaits, Unreported, Settled, Reports,
         GrantComesFirst, Granting
    <3>3. GrantComesFirst(x)' /\ LeaseHolds(x)'
      BY <1>1, <1>2, <1>3, <2>3, <3>2
         DEF GrantComesFirst, LeaseHolds, Leased, engine
    <3>4. NoReportYet(x)' /\ ReportsCounted(x)'
      BY <1>1, <1>2, <2>3, <3>2 DEF NoReportYet, ReportsCounted
    <3> QED BY <1>4, <3>2, <3>3, <3>4 DEF Safe, Counted
  <2>6. CASE call[x].event \in Reports
    <3>1. answer = "end"
      BY <2>6 DEF Answer, Reports
    <3>2. OneEventWaits(x)' /\ ~Unreported(x)' /\ Settled(x)' /\ granted[x]
      BY <1>1, <2>3, <2>6, <3>1 DEF OneEventWaits, Unreported, Working, Settled,
         GrantComesFirst, Granting, Reports
    <3>3. GrantComesFirst(x)' /\ LeaseHolds(x)'
      BY <1>1, <1>2, <1>3, <2>3, <3>2
         DEF GrantComesFirst, LeaseHolds, Leased, engine
    <3>4. NoReportYet(x)' /\ ReportsCounted(x)'
      BY <1>1, <1>2, <2>3, <3>2 DEF NoReportYet, ReportsCounted
    <3> QED BY <1>4, <3>2, <3>3, <3>4 DEF Safe, Counted
  <2> QED BY <1>1, <2>4, <2>5, <2>6 DEF CallEvents
<1> QED BY <1>5, <1>6

\* The engine takes a report from the owner of the task only, and gives the
\* task to nobody else while the lock is live.
LEMMA AcceptedKeepsLease ==
  ASSUME TypeInv, NEW req \in Requests, Accepts(req), Apply(req),
         NEW y \in Exchange, LeaseHolds(y),
         UNCHANGED <<granted, lapsed>>,
         Leased(y)' => Leased(y) \/ (req.event = "lock.accept" /\ req.from = y)
  PROVE  LeaseHolds(y)'
<1>1. SUFFICES ASSUME Leased(y)', ~lapsed[y], reports'[y] = 0
               PROVE  task' = "open" /\ owner' = y /\ lockLive'
  BY DEF LeaseHolds
<1>2. req.from \in Exchange /\ req.event \in CallEvents
      /\ reports \in [Exchange -> Nat]
  BY DEF Requests, TypeInv, TypeOK
<1>3. CASE req.event = "execute.accept"
  <2>1. UNCHANGED <<engine, reports>>
    BY <1>3 DEF Apply, Reports
  <2> QED BY <1>1, <1>3, <2>1 DEF LeaseHolds, engine
<1>4. CASE req.event = "lock.accept"
  <2>1. /\ task = "open" /\ (lockLive => owner = req.from)
        /\ owner' = req.from /\ lockLive' = TRUE /\ task' = task
        /\ reports' = reports
    BY <1>4 DEF Accepts, Apply, Reports
  <2>2. CASE req.from = y
    BY <2>1, <2>2
  <2>3. CASE req.from # y
    BY <1>1, <2>1, <2>3 DEF LeaseHolds
  <2> QED BY <2>2, <2>3
<1>5. CASE req.event \in Reports
  <2>1. owner = req.from
    BY <1>5 DEF Accepts, Reports
  <2>2. reports' = [reports EXCEPT ![req.from] = @ + 1]
    BY <1>5 DEF Apply
  <2>3. CASE req.from = y
    BY <1>1, <1>2, <2>2, <2>3
  <2>4. CASE req.from # y
    <3>1. Leased(y) /\ reports[y] = 0
      BY <1>1, <1>2, <1>5, <2>2, <2>4 DEF Reports
    <3> QED BY <1>1, <2>1, <2>4, <3>1 DEF LeaseHolds
  <2> QED BY <2>3, <2>4
<1> QED BY <1>2, <1>3, <1>4, <1>5 DEF CallEvents

\* An accepted request counts at most for the exchange it comes from.
LEMMA AcceptedReports ==
  ASSUME TypeInv, NEW req \in Requests, Apply(req), NEW y \in Exchange
  PROVE  /\ reports[y] \in Nat
         /\ reports'[y] = IF req.event \in Reports /\ req.from = y
                          THEN reports[y] + 1 ELSE reports[y]
BY DEF Apply, Requests, TypeInv, TypeOK

\* A late request changes the engine only in favour of its own exchange.
LEMMA StrayArrivesKeepsSafe ==
  ASSUME TypeInv, Safe, Counted, StrayArrives
  PROVE  Safe' /\ Counted'
<1>1. PICK req \in stray :
        /\ stray' = stray \ {req} /\ Accepts(req) /\ Apply(req)
        /\ UNCHANGED <<pc, layer, seen, protocol, call, hb, outcome, exc,
                       granted, lapsed, lost>>
  BY DEF StrayArrives
<1>2. req \in Requests
  BY DEF TypeInv, TypeOK
<1>3. SUFFICES ASSUME NEW y \in Exchange
               PROVE  /\ OneEventWaits(y)' /\ GrantComesFirst(y)'
                      /\ NoReportYet(y)' /\ LeaseHolds(y)' /\ ReportsCounted(y)'
  BY DEF Safe, Counted
<1>4. /\ OneEventWaits(y) /\ GrantComesFirst(y) /\ NoReportYet(y)
      /\ LeaseHolds(y) /\ ReportsCounted(y)
  BY DEF Safe, Counted
<1>5. /\ pc' = pc /\ inbox' = inbox /\ started' = started /\ call' = call
      /\ granted' = granted /\ lapsed' = lapsed /\ lost' = lost
  BY <1>1 DEF protocol
<1>6. /\ reports[y] \in Nat
      /\ reports'[y] = IF req.event \in Reports /\ req.from = y
                       THEN reports[y] + 1 ELSE reports[y]
  BY <1>1, <1>2, AcceptedReports
<1>7. OneEventWaits(y)'
  BY <1>4, <1>5 DEF OneEventWaits
<1>8. GrantComesFirst(y)'
  <2>1. reports'[y] > 0 => granted[y]
    BY <1>4, <1>6 DEF GrantComesFirst, Granting
  <2> QED BY <1>1, <1>4, <1>5, <2>1 DEF GrantComesFirst, Granting, Working
<1>9. NoReportYet(y)'
  BY <1>1, <1>4, <1>5, <1>6 DEF NoReportYet, Unreported, Working
<1>10. LeaseHolds(y)'
  <2>1. CASE req.event # "lock.accept"
    BY <1>1, <1>2, <1>4, <1>5, <2>1, AcceptedKeepsLease DEF Leased
  <2>2. CASE req.event = "lock.accept"
    BY <1>1, <1>2, <1>4, <1>5, <2>2, AcceptedKeepsLease DEF Leased
  <2> QED BY <2>1, <2>2
<1>11. ReportsCounted(y)'
  <2>1. CASE req.event \in Reports /\ req.from = y
    <3>1. ~lost[y] =>
            /\ pc[y] = "crashed" /\ reports[y] = 0
            /\ \A other \in stray' : ~(other.event \in Reports /\ other.from = y)
      BY <1>1, <1>4, <2>1 DEF ReportsCounted
    <3> QED
      BY <1>4, <1>5, <1>6, <2>1, <3>1 DEF ReportsCounted, Settled
  <2>2. CASE ~(req.event \in Reports /\ req.from = y)
    <3>1. reports'[y] = reports[y]
      BY <1>6, <2>2
    <3>2. Settled(y)' = Settled(y)
      BY <1>5 DEF Settled
    <3> QED
      BY <1>1, <1>4, <1>5, <3>1, <3>2 DEF ReportsCounted
  <2> QED BY <2>1, <2>2
<1> QED BY <1>7, <1>8, <1>9, <1>10, <1>11

\* The engine handles a request in flight.
LEMMA EngineHandlesKeepsSafe ==
  ASSUME TypeInv, Safe, Counted, NEW x \in Exchange, EngineHandles(x)
  PROVE  Safe' /\ Counted'
<1>1. /\ pc[x] = "calling" /\ call[x].reply = "none"
      /\ UNCHANGED <<stray, pc, layer, seen, protocol, hb, outcome, exc,
                     granted, lapsed, lost>>
  BY DEF EngineHandles
<1>2. /\ call[x] \in Calls /\ call[x] # NoCall
      /\ RequestOf(x) \in Requests /\ RequestOf(x).from = x
      /\ RequestOf(x).event = call[x].event
  BY <1>1, RequestOfType DEF TypeInv, TypeOK, CallWhileCalling
<1>3. PICK r \in {"ok", "refused", "busy"} :
        /\ call' = [call EXCEPT ![x].reply = r]
        /\ \/ r = "ok" /\ Accepts(RequestOf(x)) /\ Apply(RequestOf(x))
           \/ r # "ok" /\ UNCHANGED <<engine, reports>>
  BY DEF EngineHandles
<1>4. call'[x].event = call[x].event /\ call'[x].reply = r
      /\ \A y \in Exchange \ {x} : call'[y] = call[y]
  <2>1. call' = [call EXCEPT ![x] = [call[x] EXCEPT !.reply = r]]
    BY <1>3
  <2> QED BY <1>2, <2>1, CallsReply DEF TypeInv, TypeOK
<1>5. SUFFICES ASSUME NEW y \in Exchange
               PROVE  /\ OneEventWaits(y)' /\ GrantComesFirst(y)'
                      /\ NoReportYet(y)' /\ LeaseHolds(y)' /\ ReportsCounted(y)'
  BY DEF Safe, Counted
<1>6. /\ OneEventWaits(y) /\ GrantComesFirst(y) /\ NoReportYet(y)
      /\ LeaseHolds(y) /\ ReportsCounted(y)
  BY DEF Safe, Counted
<1>7. /\ pc' = pc /\ inbox' = inbox /\ started' = started /\ stray' = stray
      /\ granted' = granted /\ lapsed' = lapsed /\ lost' = lost
      /\ call'[y].event = call[y].event
  BY <1>1, <1>4 DEF protocol
<1>8. \/ reports'[y] = reports[y]
      \/ /\ y = x /\ r = "ok" /\ call[x].event \in Reports
         /\ reports[y] \in Nat /\ reports'[y] = reports[y] + 1
  BY <1>2, <1>3, AcceptedReports
<1>9. OneEventWaits(y)'
  BY <1>6, <1>7 DEF OneEventWaits
<1>10. GrantComesFirst(y)'
  <2>1. reports'[y] > 0 => granted[y]
    BY <1>1, <1>6, <1>8 DEF GrantComesFirst, Granting, Reports
  <2> QED BY <1>6, <1>7, <2>1 DEF GrantComesFirst, Granting, Working
<1>11. NoReportYet(y)'
  BY <1>1, <1>6, <1>7, <1>8 DEF NoReportYet, Unreported, Working
<1>12. LeaseHolds(y)'
  <2>1. CASE r = "ok"
    <3>1. Leased(y)' => Leased(y) \/ (call[x].event = "lock.accept" /\ x = y)
      BY <1>4, <1>7 DEF Leased
    <3> QED BY <1>2, <1>3, <1>6, <1>7, <2>1, <3>1, AcceptedKeepsLease
  <2>2. CASE r # "ok"
    <3>1. UNCHANGED <<engine, reports>>
      BY <1>3, <2>2
    <3>2. Leased(y)' => Leased(y)
      BY <1>4, <1>7, <2>2 DEF Leased
    <3> QED BY <1>6, <1>7, <3>1, <3>2 DEF LeaseHolds, engine
  <2> QED BY <2>1, <2>2
<1>13. ReportsCounted(y)'
  <2>1. CASE y = x
    <3>1. ~Settled(y) /\ pc[y] # "crashed" /\ pc[y] # "leaving"
      BY <1>1, <2>1 DEF Settled
    <3>2. r = "ok" /\ call[x].event \in Reports => Settled(y)'
      BY <1>1, <1>4, <1>7, <2>1 DEF Settled
    <3> QED BY <1>6, <1>7, <1>8, <3>1, <3>2 DEF ReportsCounted
  <2>2. CASE y # x
    <3>1. reports'[y] = reports[y] /\ Settled(y)' = Settled(y)
      BY <1>4, <1>7, <1>8, <2>2 DEF Settled
    <3> QED BY <1>6, <1>7, <3>1 DEF ReportsCounted
  <2> QED BY <2>1, <2>2
<1> QED BY <1>9, <1>10, <1>11, <1>12, <1>13

\* An expired lock is remembered for its owner.
LEMMA LockExpiresKeepsSafe ==
  ASSUME TypeInv, Safe, Counted, LockExpires
  PROVE  Safe' /\ Counted'
<1>1. /\ UNCHANGED <<stray, pc, inbox, started, call, granted, reports, lost,
                     task, owner>>
      /\ lapsed' = [y \in Exchange |-> lapsed[y] \/ owner = y]
  BY DEF LockExpires, protocol
<1>2. SUFFICES ASSUME NEW y \in Exchange
               PROVE  /\ OneEventWaits(y)' /\ GrantComesFirst(y)'
                      /\ NoReportYet(y)' /\ LeaseHolds(y)' /\ ReportsCounted(y)'
  BY DEF Safe, Counted
<1>3. /\ OneEventWaits(y) /\ GrantComesFirst(y) /\ NoReportYet(y)
      /\ LeaseHolds(y) /\ ReportsCounted(y)
  BY DEF Safe, Counted
<1>4. OneEventWaits(y)' /\ ReportsCounted(y)'
  BY <1>1, <1>3 DEF OneEventWaits, ReportsCounted, Settled
<1>5. GrantComesFirst(y)' /\ NoReportYet(y)'
  BY <1>1, <1>3 DEF GrantComesFirst, Granting, NoReportYet, Unreported, Working
<1>6. LeaseHolds(y)'
  BY <1>1, <1>3 DEF LeaseHolds, Leased
<1> QED BY <1>4, <1>5, <1>6

\* A repeated call is the same request.
LEMMA RetryCallKeepsSafe ==
  ASSUME TypeInv, Safe, Counted, NEW x \in Exchange, RetryCall(x)
  PROVE  Safe' /\ Counted'
<1>1. /\ pc[x] = "calling" /\ call[x].reply = "busy"
      /\ call' = [call EXCEPT ![x].reply = "none", ![x].attempt = @ + 1]
      /\ UNCHANGED <<engine, stray, history, pc, inbox, started>>
      /\ OneEventWaits(x) /\ GrantComesFirst(x)
      /\ call[x] \in Calls
  BY DEF RetryCall, protocol, Safe, TypeInv, TypeOK
<1>2. call'[x].event = call[x].event /\ call'[x].reply = "none"
      /\ \A y \in Exchange \ {x} : call'[y] = call[y]
  <2>1. call' = [call EXCEPT ![x] =
                   [[call[x] EXCEPT !.reply = "none"] EXCEPT
                      !.attempt = call[x].attempt + 1]]
    BY <1>1 DEF TypeInv, TypeOK, Calls, NoCall
  <2> QED BY <1>1, <2>1 DEF TypeInv, TypeOK, Calls, NoCall
<1>3. Elsewhere(x)
  BY <1>1, <1>2 DEF Elsewhere
<1>4. OneEventWaits(x)'
  BY <1>1 DEF OneEventWaits
<1>5. Granting(x)' => granted[x]
  BY <1>1, <1>2 DEF GrantComesFirst, Granting, Working, history
<1>6. Unreported(x)' => Unreported(x)
  BY <1>1, <1>2 DEF Unreported, Working
<1>7. ~Settled(x)
  BY <1>1 DEF Settled
<1> QED BY <1>1, <1>2, <1>3, <1>4, <1>5, <1>6, <1>7, QuietStep

IInv == TypeInv /\ Safe /\ Counted

\* Every initial state satisfies the inductive invariant ...
LEMMA InitIInv == Init => IInv
BY InitTypeInv, InitSafe DEF IInv

\* ... and every step keeps it.
LEMMA NextIInv == IInv /\ [Next]_vars => IInv'
<1> SUFFICES ASSUME IInv, [Next]_vars PROVE IInv'
  OBVIOUS
<1>1. TypeInv /\ Safe /\ Counted /\ TypeInv'
  BY NextTypeInv DEF IInv
<1>2. CASE LockExpires
  BY <1>1, <1>2, LockExpiresKeepsSafe DEF IInv
<1>3. CASE StrayArrives
  BY <1>1, <1>3, StrayArrivesKeepsSafe DEF IInv
<1>4. ASSUME NEW x \in Exchange, EngineHandles(x) PROVE IInv'
  BY <1>1, <1>4, EngineHandlesKeepsSafe DEF IInv
<1>5. ASSUME NEW x \in Exchange, Calling(x) PROVE IInv'
  BY <1>1, <1>5, RetryCallKeepsSafe, CallAnsweredKeepsSafe,
     CallUnansweredKeepsSafe DEF IInv, Calling
<1>6. ASSUME NEW x \in Exchange, Receiving(x) PROVE IInv'
  BY <1>1, <1>6, ReceivingKeepsSafe DEF IInv
<1>7. ASSUME NEW x \in Exchange, Executing(x) PROVE IInv'
  BY <1>1, <1>7, ExecutingKeepsSafe DEF IInv
<1>8. ASSUME NEW x \in Exchange, Catching(x) PROVE IInv'
  BY <1>1, <1>8, CatchingKeepsSafe DEF IInv
<1>9. ASSUME NEW x \in Exchange, Fetch(x) \/ Begin(x) \/ Heartbeating(x)
      PROVE  IInv'
  BY <1>1, <1>9, BeginningKeepsSafe DEF IInv
<1>10. ASSUME NEW x \in Exchange, Crash(x) PROVE IInv'
  BY <1>1, <1>10, CrashKeepsSafe DEF IInv
<1>11. CASE UNCHANGED vars
  <2>1. Safe' /\ Counted'
    BY <1>1, <1>11 DEF vars, engine, protocol, history, Safe, Counted,
       OneEventWaits, GrantComesFirst, Granting, NoReportYet, Unreported,
       LeaseHolds, Leased, ReportsCounted, Settled, Working
  <2> QED BY <1>1, <2>1 DEF IInv
<1> QED
  BY <1>2, <1>3, <1>4, <1>5, <1>6, <1>7, <1>8, <1>9, <1>10, <1>11
     DEF Next, Proceeds

\* The inductive invariant: in every reachable state an exchange stands at one
\* place of the line of events, was granted its task before anything that
\* follows the answer to the lock request, holds the engine's lock until it
\* reports or the lock expires, and reports once unless an answer was lost.
THEOREM InductiveInvariant == Spec => []IInv
BY InitIInv, NextIInv, PTL DEF Spec

\* An exchange executes its task under the engine's lock, unless that lock
\* has expired in the meantime: whatever other exchanges, late requests,
\* retried calls and crashes do, for any number of exchanges.
THEOREM ExecutesUnderLease == Spec => []ExecutionUnderLease
<1>1. IInv => ExecutionUnderLease
  <2> SUFFICES ASSUME IInv, NEW x \in Exchange, Working(x), ~lapsed[x]
               PROVE  task = "open" /\ owner = x /\ lockLive
    BY DEF ExecutionUnderLease, Working
  <2>1. GrantComesFirst(x) /\ NoReportYet(x) /\ LeaseHolds(x)
    BY DEF IInv, Safe
  <2> QED
    BY <2>1 DEF GrantComesFirst, Granting, NoReportYet, Unreported, LeaseHolds,
       Leased
<1> QED BY <1>1, InductiveInvariant, PTL

\* Two handlers are at work on one task only after a lock expired.
THEOREM NeverTwiceAtOnce == Spec => []NoDoubleExecution
<1>1. ExecutionUnderLease => NoDoubleExecution
  BY DEF ExecutionUnderLease, NoDoubleExecution, Working
<1> QED BY <1>1, ExecutesUnderLease, PTL

\* Nothing is reported to the engine, not even by a request that arrives
\* late, for an exchange that was not told that it holds the lock.
THEOREM GrantPrecedesReports == Spec => []ReportsFollowGrant
<1>1. IInv => ReportsFollowGrant
  <2> SUFFICES ASSUME IInv PROVE ReportsFollowGrant
    OBVIOUS
  <2>1. \A x \in Exchange : GrantComesFirst(x)
    BY DEF IInv, Safe
  <2>2. ASSUME NEW x \in Exchange, call[x].event \in Reports PROVE granted[x]
    <3>1. call[x] # NoCall
      BY <2>2 DEF NoCall, Reports
    <3>2. pc[x] = "calling" /\ call[x].event # "lock.accept"
      BY <2>2, <3>1 DEF IInv, TypeInv, CallWhileCalling, Reports
    <3> QED BY <2>1, <3>2 DEF GrantComesFirst, Granting
  <2>3. ASSUME NEW x \in Exchange, reports[x] > 0 PROVE granted[x]
    BY <2>1, <2>3 DEF GrantComesFirst, Granting
  <2>4. ASSUME NEW req \in stray, req.event \in Reports PROVE granted[req.from]
    <3>1. req.from \in Exchange
      BY DEF IInv, TypeInv, TypeOK, Requests
    <3> QED BY <2>1, <2>4, <3>1 DEF GrantComesFirst
  <2> QED BY <2>2, <2>3, <2>4 DEF ReportsFollowGrant
<1> QED BY <1>1, InductiveInvariant, PTL

\* The engine accepts a second report of an exchange only when the answer to
\* one of its reports was lost.
THEOREM AnsweredReportIsLast == Spec => []OneAnsweredReport
<1>1. IInv => OneAnsweredReport
  BY DEF IInv, Counted, ReportsCounted, OneAnsweredReport
<1> QED BY <1>1, InductiveInvariant, PTL

-----------------------------------------------------------------------------
(***************************************************************************)
(* TaskExchange implements Lease: whatever happens to events, calls and    *)
(* answers, the engine's task is under a lease.                            *)
(***************************************************************************)

\* The requests that end the task.
EndingEvents == {"execute.complete", "execute.error"}

\* What only an exchange can be about that was told to execute its task.
AtOrAfterWork(x) ==
  \/ Working(x)
  \/ "exc" \in started[x]
  \/ call[x].event \in EndingEvents

\* How far the processor is in the protocol when something is on its way.
StageKnown(x) ==
  /\ AtOrAfterWork(x) => appPrev[x] = "execute.start"
  /\ \A req \in stray : req.from = x /\ req.event \in EndingEvents =>
       appPrev[x] \in {"execute.start", "end"}
  /\ call[x].event = "lock.accept" => appPrev[x] = "lock.request" /\ ~granted[x]
  /\ granted[x] => appPrev[x] \notin {"none", "start"}

\* An exchange that gave up its lock request is on its way out: a lock that
\* the engine grants it late finds it neither at work nor about to be.
LeavesAfterLateLock(x) ==
  (\E req \in stray : req.from = x /\ req.event = "lock.accept") =>
    /\ ~granted[x]
    /\ \/ pc[x] \in {"raising", "leaving", "done", "crashed"}
       \/ pc[x] = "receiving" /\ inbox[x] = <<"end">>

Staged == \A x \in Exchange : StageKnown(x) /\ LeavesAfterLateLock(x)

\* Nothing is known, and nothing on its way, in an initial state.
LEMMA InitStaged == Init => Staged
<1> SUFFICES ASSUME Init, NEW x \in Exchange
             PROVE  StageKnown(x) /\ LeavesAfterLateLock(x)
  BY DEF Staged
<1>1. /\ pc[x] = "idle" /\ started[x] = {} /\ call[x].event = "none"
      /\ stray = {} /\ granted[x] = FALSE
  BY DEF Init, NoCall
<1> QED
  BY <1>1 DEF StageKnown, AtOrAfterWork, LeavesAfterLateLock, EndingEvents,
     Working

\* The steps of exchange x.
StepOf(x) ==
  \/ Fetch(x) \/ Begin(x) \/ Receiving(x) \/ Executing(x) \/ Catching(x)
  \/ Calling(x) \/ EngineHandles(x) \/ Heartbeating(x) \/ Crash(x)

\* Whatever exchange x does, nothing of another exchange changes but its stock
\* of accepted reports and the engine it talks to.
Alone(x) ==
  /\ \A y \in Exchange \ {x} :
       /\ pc'[y] = pc[y] /\ inbox'[y] = inbox[y] /\ started'[y] = started[y]
       /\ call'[y] = call[y] /\ appPrev'[y] = appPrev[y]
       /\ granted'[y] = granted[y]
  /\ stray' \subseteq stray \cup Abandoned(x)

(* A step of an exchange concerns that exchange alone. *)
LEMMA StepsAlone ==
  ASSUME TypeInv, NEW x \in Exchange, StepOf(x)
  PROVE  Alone(x)
<1> USE DEF TypeInv, TypeOK, Alone
<1>1. CASE Fetch(x) \/ Begin(x) \/ Crash(x)
  BY <1>1 DEF Fetch, Begin, Crash, Goto, protocol, history
<1>2. CASE Receiving(x)
  BY <1>2 DEF Receiving, ReceiveStart, ReceiveLockRequest,
     ReceiveExecuteRequest, ReceiveExecuteStart, ReceiveEnd, GuardRejects,
     GuardRaises, DecodingRaises, ReceiveRaises, Receives, Pops, Request,
     SendWithoutCall, Goto, history
<1>3. CASE Executing(x)
  BY <1>3 DEF Executing, StartHandler, ResolvingRaises, HandlerEnds,
     SendOutcome, OutcomeRaises, Request, SendWithoutCall, Goto, protocol,
     history
<1>4. CASE Catching(x)
  BY <1>4 DEF Catching, CatchInExceptionMiddleware,
     CatchInServerErrorMiddleware, ReportingRaises, Escapes, Leave, Request,
     SendWithoutCall, Goto, protocol, history
<1>5. CASE Calling(x)
  <2>1. CASE RetryCall(x)
    BY <2>1 DEF RetryCall, protocol, history
  <2>2. CASE CallAnswered(x) \/ CallUnanswered(x)
    <3>1. UNCHANGED <<appPrev, started>> /\ stray' \subseteq stray \cup Abandoned(x)
      BY <2>2 DEF CallAnswered, CallUnanswered
    <3>2. SendRaises(x) \/ \E verdict \in BOOLEAN : SendReturns(x, verdict)
      BY <2>2 DEF CallAnswered, CallUnanswered
    <3>3. CASE SendRaises(x)
      BY <3>1, <3>3 DEF SendRaises, Goto
    <3>4. ASSUME NEW verdict \in BOOLEAN, SendReturns(x, verdict) PROVE Alone(x)
      BY <3>1, <3>4 DEF SendReturns, Goto
    <3> QED BY <3>2, <3>3, <3>4
  <2> QED BY <1>5, <2>1, <2>2 DEF Calling
<1>6. CASE EngineHandles(x) \/ Heartbeating(x)
  BY <1>6 DEF EngineHandles, Heartbeating, HeartbeatWakes, HeartbeatReturns,
     HeartbeatStops, protocol, history
<1> QED BY <1>1, <1>2, <1>3, <1>4, <1>5, <1>6 DEF StepOf

\* So what is known of the other exchanges stays known.
LEMMA OthersStaged ==
  ASSUME TypeInv, Staged, NEW x \in Exchange, Alone(x), NEW y \in Exchange \ {x}
  PROVE  StageKnown(y)' /\ LeavesAfterLateLock(y)'
<1>1. \A req \in stray' : req.from = y => req \in stray
  BY AbandonedRequest DEF Alone
<1>2. /\ pc'[y] = pc[y] /\ inbox'[y] = inbox[y] /\ started'[y] = started[y]
      /\ call'[y] = call[y] /\ appPrev'[y] = appPrev[y]
      /\ granted'[y] = granted[y]
  BY DEF Alone
<1>3. StageKnown(y) /\ LeavesAfterLateLock(y)
  BY DEF Staged
<1> QED
  BY <1>1, <1>2, <1>3 DEF StageKnown, AtOrAfterWork, LeavesAfterLateLock,
     Working

\* A step that leaves the exchange at its stage of the protocol.
LEMMA SameStage ==
  ASSUME NEW x \in Exchange, StageKnown(x), LeavesAfterLateLock(x),
         stray' \subseteq stray,
         appPrev'[x] = appPrev[x], granted'[x] = granted[x],
         AtOrAfterWork(x)' => AtOrAfterWork(x),
         call'[x].event = "lock.accept" => call[x].event = "lock.accept",
         \/ pc'[x] = pc[x] /\ inbox'[x] = inbox[x]
         \/ pc'[x] \in {"raising", "done", "crashed"}
         \/ pc[x] \notin {"raising", "leaving", "done", "crashed", "receiving"}
         \/ pc[x] = "receiving" /\ inbox[x] # <<"end">>
         \/ granted[x]
  PROVE  StageKnown(x)' /\ LeavesAfterLateLock(x)'
BY DEF StageKnown, LeavesAfterLateLock

\* The processor moves along the protocol when it receives an event.
LEMMA ReceivingKeepsStage ==
  ASSUME IInv, Staged, NEW x \in Exchange, Receiving(x)
  PROVE  StageKnown(x)' /\ LeavesAfterLateLock(x)'
<1>1. /\ pc[x] = "receiving" /\ call[x] = NoCall /\ NoCall.event = "none"
      /\ OneEventWaits(x) /\ GrantComesFirst(x)
      /\ StageKnown(x) /\ LeavesAfterLateLock(x)
      /\ UNCHANGED <<stray, history>>
      /\ "none" \notin EndingEvents
      /\ appPrev[x] \in RecvEvents \cup {"none"}
  BY DEF IInv, TypeInv, TypeOK, CallWhileCalling, Safe, Staged, Receiving,
     ReceiveStart, ReceiveLockRequest, ReceiveExecuteRequest,
     ReceiveExecuteStart, ReceiveEnd, Receives, GuardRejects, GuardRaises,
     DecodingRaises, ReceiveRaises, NoCall, EndingEvents
<1>2. UNCHANGED granted
  BY <1>1 DEF history
<1>3. CASE ReceiveStart(x) \/ ReceiveLockRequest(x) \/ ReceiveExecuteRequest(x)
  <2>1. PICK event \in {"start", "lock.request", "execute.request"} :
          /\ Receives(x, event)
          /\ \/ event = "start" /\ ReceiveStart(x)
             \/ event = "lock.request" /\ ReceiveLockRequest(x)
             \/ event = "execute.request" /\ ReceiveExecuteRequest(x)
    BY <1>3 DEF ReceiveStart, ReceiveLockRequest, ReceiveExecuteRequest
  <2>2. /\ appPrev[x] \in {"none", "start", "lock.request"}
        /\ appPrev[x] \in {"none", "start"} <=>
             event \in {"start", "lock.request"}
        /\ appPrev'[x] = event
        /\ "exc" \in started'[x] => "exc" \in started[x]
        /\ Head(inbox[x]) = event
    BY <2>1 DEF Receives, AppExpects, TaskStarted, IInv, TypeInv, TypeOK
  <2>3. ~AtOrAfterWork(x)
        /\ \A req \in stray : ~(req.from = x /\ req.event \in EndingEvents)
    BY <1>1, <2>2 DEF StageKnown
  <2>4. inbox[x] # <<"end">>
    BY <2>1, <2>2
  <2>5. /\ pc'[x] \in {"receiving", "calling"}
        /\ call'[x].event \notin EndingEvents
        /\ call'[x].event = "lock.accept" => event = "lock.request"
    BY <1>1, <2>1 DEF ReceiveStart, ReceiveLockRequest, ReceiveExecuteRequest,
       Request, SendWithoutCall, AfterSend, Goto, EndingEvents, IInv, TypeInv,
       TypeOK
  <2>6. ~AtOrAfterWork(x)'
    BY <2>2, <2>3, <2>5 DEF AtOrAfterWork, Working
  <2>7. \A req \in stray : ~(req.from = x /\ req.event = "lock.accept")
    BY <1>1, <2>4 DEF LeavesAfterLateLock
  <2>8. granted[x] => event = "execute.request"
    BY <1>1, <2>2 DEF StageKnown
  <2> QED
    BY <1>1, <1>2, <2>2, <2>3, <2>5, <2>6, <2>7, <2>8
       DEF StageKnown, LeavesAfterLateLock
<1>4. CASE ReceiveExecuteStart(x)
  <2>1. /\ appPrev'[x] = "execute.start" /\ call'[x] = call[x]
        /\ inbox[x] = <<"execute.start">>
    BY <1>1, <1>4 DEF ReceiveExecuteStart, Receives, OneEventWaits, IInv,
       TypeInv, TypeOK
  <2>2. granted[x]
    BY <1>1, <2>1 DEF GrantComesFirst, Granting
  <2> QED
    BY <1>1, <1>2, <2>1, <2>2 DEF StageKnown, LeavesAfterLateLock
<1>5. CASE ReceiveEnd(x)
  <2>1. /\ appPrev'[x] = "end" /\ call'[x] = call[x] /\ started'[x] = {}
        /\ pc'[x] = "leaving"
    BY <1>1, <1>5 DEF ReceiveEnd, Receives, TaskStarted, Goto, IInv, TypeInv,
       TypeOK
  <2>2. ~AtOrAfterWork(x)'
    BY <1>1, <2>1 DEF AtOrAfterWork, Working
  <2> QED
    BY <1>1, <1>2, <2>1, <2>2 DEF StageKnown, LeavesAfterLateLock
<1>6. CASE GuardRejects(x) \/ GuardRaises(x) \/ DecodingRaises(x)
  <2>1. /\ UNCHANGED <<appPrev, started, call>>
        /\ pc'[x] \in {"receiving", "raising"}
    BY <1>6 DEF GuardRejects, GuardRaises, DecodingRaises, ReceiveRaises,
       SendWithoutCall, AfterSend, Goto, IInv, TypeInv, TypeOK
  <2>2. inbox[x] # <<"end">>
    BY <1>6 DEF GuardRejects, GuardRaises, DecodingRaises, ReceiveRaises
  <2>3. AtOrAfterWork(x)' => AtOrAfterWork(x)
    BY <2>1 DEF AtOrAfterWork, Working
  <2> QED BY <1>1, <1>2, <2>1, <2>2, <2>3, SameStage
<1> QED BY <1>3, <1>4, <1>5, <1>6 DEF Receiving

\* An exchange at work, and the middlewares that catch its exceptions.
LEMMA ExecutingKeepsStage ==
  ASSUME IInv, Staged, NEW x \in Exchange, Executing(x) \/ Catching(x)
  PROVE  StageKnown(x)' /\ LeavesAfterLateLock(x)'
<1>1. /\ call[x] = NoCall /\ NoCall.event = "none"
      /\ OneEventWaits(x) /\ GrantComesFirst(x)
      /\ StageKnown(x) /\ LeavesAfterLateLock(x)
      /\ pc[x] \in {"resolving", "handler", "joining", "raising", "leaving"}
      /\ UNCHANGED <<stray, history, appPrev, started>>
      /\ "none" \notin EndingEvents
  BY DEF IInv, TypeInv, CallWhileCalling, Safe, Staged, NoCall, EndingEvents,
     Executing, StartHandler, ResolvingRaises, HandlerEnds, SendOutcome,
     OutcomeRaises, Joined, Catching, CatchInExceptionMiddleware,
     CatchInServerErrorMiddleware, ReportingRaises, Escapes, Leave, protocol
<1>2. UNCHANGED granted
  BY <1>1 DEF history
<1>3. CASE Executing(x)
  <2>1. AtOrAfterWork(x) /\ granted[x]
    BY <1>1, <1>3 DEF AtOrAfterWork, GrantComesFirst, Granting, Working,
       Executing, StartHandler, ResolvingRaises, HandlerEnds, SendOutcome,
       OutcomeRaises, Joined
  <2>2. call'[x].event # "lock.accept"
    <3>1. CASE UNCHANGED call
      BY <1>1, <3>1
    <3>2. CASE \E event \in Reports, n \in Int \cup RetryArgs \cup OneLess(seen[x]) :
                 Request(x, "app", event, n)
      BY <3>2 DEF Request, Reports, IInv, TypeInv, TypeOK
    <3> QED
      BY <1>3, <3>1, <3>2 DEF Executing, StartHandler, ResolvingRaises,
         HandlerEnds, SendOutcome, SendWithoutCall, OutcomeRaises, Reports
  <2> QED BY <1>1, <1>2, <2>1, <2>2, SameStage
<1>4. CASE CatchInExceptionMiddleware(x) \/ CatchInServerErrorMiddleware(x)
  <2>1. granted[x]
    BY <1>1, <1>4 DEF CatchInExceptionMiddleware, CatchInServerErrorMiddleware,
       GrantComesFirst, Granting
  <2>2. call'[x].event # "lock.accept"
        /\ (AtOrAfterWork(x)' => AtOrAfterWork(x))
    <3>1. CASE CatchInServerErrorMiddleware(x)
      BY <1>1, <3>1 DEF CatchInServerErrorMiddleware, Request, Goto, Working,
         AtOrAfterWork, EndingEvents, IInv, TypeInv, TypeOK
    <3>2. CASE CatchInExceptionMiddleware(x)
      <4>1. AtOrAfterWork(x)
        BY <3>2 DEF CatchInExceptionMiddleware, AtOrAfterWork
      <4>2. CASE UNCHANGED call
        BY <1>1, <4>1, <4>2
      <4>3. ASSUME NEW kind \in {exc[x], "Other"},
                   NEW report \in ReportsOf(kind, seen[x]),
                   Request(x, "exc", report[1], report[2])
            PROVE  call'[x].event # "lock.accept"
        <5>1. report[1] \in Reports
          BY ReportsOfType DEF IInv, TypeInv, TypeOK, FetchedWithRetries
        <5> QED BY <4>3, <5>1 DEF Request, Reports, IInv, TypeInv, TypeOK
      <4> QED
        BY <3>2, <4>1, <4>2, <4>3 DEF CatchInExceptionMiddleware,
           SendWithoutCall
    <3> QED BY <1>4, <3>1, <3>2
  <2> QED BY <1>1, <1>2, <2>1, <2>2, SameStage
<1>5. CASE ReportingRaises(x) \/ Escapes(x) \/ Leave(x)
  <2>1. /\ UNCHANGED <<inbox, call>>
        /\ pc'[x] \in {"raising", "done", "crashed"}
    BY <1>5 DEF ReportingRaises, Escapes, Leave, Goto, protocol, IInv, TypeInv,
       TypeOK
  <2>2. AtOrAfterWork(x)' => AtOrAfterWork(x)
    BY <1>1, <2>1 DEF AtOrAfterWork, Working
  <2> QED BY <1>1, <1>2, <2>1, <2>2, SameStage
<1> QED BY <1>3, <1>4, <1>5 DEF Catching

\* Calls that are answered or not, and the crash that leaves one behind.
LEMMA CallingKeepsStage ==
  ASSUME IInv, Staged, NEW x \in Exchange,
         CallAnswered(x) \/ CallUnanswered(x) \/ Crash(x)
  PROVE  StageKnown(x)' /\ LeavesAfterLateLock(x)'
<1>1. /\ OneEventWaits(x) /\ StageKnown(x) /\ LeavesAfterLateLock(x)
      /\ NoCall.event = "none" /\ "none" \notin EndingEvents
      /\ TypeInv
  BY DEF IInv, Safe, Staged, NoCall, EndingEvents
<1>2. CASE Crash(x)
  <2>1. /\ pc'[x] = "crashed" /\ call'[x] = NoCall
        /\ UNCHANGED <<appPrev, started, granted>>
        /\ stray' = stray \cup Abandoned(x)
    BY <1>1, <1>2 DEF Crash, Goto, TypeInv, TypeOK, protocol, history
  <2>2. AtOrAfterWork(x)' => AtOrAfterWork(x)
    BY <1>1, <2>1 DEF AtOrAfterWork, Working
  <2>3. \A req \in Abandoned(x) : req.event = call[x].event
    BY <1>1, AbandonedRequest
  <2>4. call[x].event \in EndingEvents => AtOrAfterWork(x)
    BY DEF AtOrAfterWork
  <2> QED
    BY <1>1, <2>1, <2>2, <2>3, <2>4 DEF StageKnown, LeavesAfterLateLock
<1>3. CASE CallUnanswered(x)
  <2>1. /\ pc[x] = "calling" /\ inbox[x] = <<>>
        /\ UNCHANGED <<appPrev, started>>
        /\ stray' = stray \cup Abandoned(x)
    BY <1>1, <1>3 DEF CallUnanswered, OneEventWaits
  <2>2. /\ call'[x] = NoCall /\ granted'[x] = granted[x]
        /\ \/ pc'[x] \in {"raising", "done"}
           \/ pc'[x] = "receiving" /\ inbox'[x] = <<"end">>
    <3>1. CASE SendRaises(x)
      BY <1>1, <3>1 DEF SendRaises, Goto, TypeInv, TypeOK
    <3>2. CASE call[x].event = "lock.accept" /\ SendReturns(x, FALSE)
      <4>1. Answer(call[x].event, FALSE) = "end"
        BY <3>2 DEF Answer
      <4>2. inbox'[x] = <<"end">>
        <5>1. inbox'[x] = Append(inbox[x], "end")
          BY <1>1, <3>2, <4>1 DEF SendReturns, TypeInv, TypeOK
        <5> QED BY <2>1, <5>1
      <4>3. AfterSend(layer[x]) \in {"receiving", "done"}
        BY DEF AfterSend
      <4>4. pc'[x] \in {"receiving", "done"} /\ call'[x] = NoCall
            /\ granted'[x] = granted[x]
        BY <1>1, <3>2, <4>3 DEF SendReturns, Goto, TypeInv, TypeOK
      <4> QED BY <4>2, <4>4
    <3> QED BY <1>3, <3>1, <3>2 DEF CallUnanswered
  <2>3. AtOrAfterWork(x)' => AtOrAfterWork(x)
    BY <1>1, <2>1, <2>2 DEF AtOrAfterWork, Working
  <2>4. \A req \in Abandoned(x) : req.event = call[x].event
    BY <1>1, AbandonedRequest
  <2>5. call[x].event \in EndingEvents => AtOrAfterWork(x)
    BY DEF AtOrAfterWork
  <2>6. StageKnown(x)'
    BY <1>1, <2>1, <2>2, <2>3, <2>4, <2>5 DEF StageKnown
  <2>7. LeavesAfterLateLock(x)'
    <3>1. ASSUME NEW req \in stray', req.from = x, req.event = "lock.accept"
          PROVE  ~granted[x]
      BY <1>1, <2>1, <2>4, <3>1 DEF StageKnown, LeavesAfterLateLock
    <3> QED BY <2>2, <3>1 DEF LeavesAfterLateLock
  <2> QED BY <2>6, <2>7
<1>4. CASE CallAnswered(x)
  <2>1. /\ pc[x] = "calling"
        /\ UNCHANGED <<appPrev, started, stray>>
    BY <1>4 DEF CallAnswered
  <2>2. /\ call'[x] = NoCall
        /\ pc'[x] \in {"raising", "receiving", "done"}
        /\ granted'[x] = granted[x] \/ call[x].event = "lock.accept"
    <3>1. CASE SendRaises(x)
      BY <1>1, <3>1 DEF SendRaises, Goto, TypeInv, TypeOK
    <3>2. CASE SendReturns(x, call[x].reply = "ok")
      BY <1>1, <3>2 DEF SendReturns, AfterSend, Goto, TypeInv, TypeOK
    <3> QED BY <1>4, <3>1, <3>2 DEF CallAnswered
  <2>3. ~AtOrAfterWork(x)' \/ AtOrAfterWork(x)
    BY <1>1, <2>1, <2>2 DEF AtOrAfterWork, Working
  <2>4. StageKnown(x)'
    BY <1>1, <2>1, <2>2, <2>3 DEF StageKnown
  <2>5. LeavesAfterLateLock(x)'
    BY <1>1, <2>1 DEF LeavesAfterLateLock
  <2> QED BY <2>4, <2>5
<1> QED BY <1>2, <1>3, <1>4

\* The steps that leave the protocol alone.
LEMMA OtherStepsKeepStage ==
  ASSUME IInv, Staged, NEW x \in Exchange,
         \/ Fetch(x) \/ Begin(x) \/ RetryCall(x) \/ EngineHandles(x)
         \/ Heartbeating(x)
  PROVE  StageKnown(x)' /\ LeavesAfterLateLock(x)'
<1>1. /\ StageKnown(x) /\ LeavesAfterLateLock(x) /\ TypeInv
      /\ call[x] \in Calls
  BY DEF IInv, Staged, TypeInv, TypeOK
<1>2. /\ UNCHANGED <<stray, appPrev, started, granted>>
      /\ call'[x].event = call[x].event
      /\ \/ pc'[x] = pc[x] /\ inbox'[x] = inbox[x]
         \/ pc[x] \in {"idle", "queued"} /\ pc'[x] \in {"queued", "receiving"}
  <2>1. CASE Fetch(x) \/ Begin(x)
    BY <1>1, <2>1 DEF Fetch, Begin, Goto, TypeInv, TypeOK, protocol, history
  <2>2. CASE Heartbeating(x)
    BY <2>2 DEF Heartbeating, HeartbeatWakes, HeartbeatReturns, HeartbeatStops,
       protocol, history
  <2>3. CASE RetryCall(x) \/ EngineHandles(x)
    <3>1. UNCHANGED <<stray, appPrev, started, granted, pc, inbox>>
      BY <2>3 DEF RetryCall, EngineHandles, protocol, history
    <3>2. call'[x].event = call[x].event
      BY <1>1, <2>3 DEF RetryCall, EngineHandles, TypeInv, TypeOK, Calls, NoCall
    <3> QED BY <3>1, <3>2
  <2> QED BY <2>1, <2>2, <2>3
<1>3. AtOrAfterWork(x)' => AtOrAfterWork(x)
  BY <1>2 DEF AtOrAfterWork, Working
<1> QED BY <1>1, <1>2, <1>3, SameStage

\* Every step keeps what is known of the stages.
LEMMA NextStaged == IInv /\ Staged /\ [Next]_vars => Staged'
<1> SUFFICES ASSUME IInv, Staged, [Next]_vars PROVE Staged'
  OBVIOUS
<1>1. ASSUME NEW x \in Exchange, StepOf(x) PROVE Staged'
  <2>1. \A y \in Exchange \ {x} : StageKnown(y)' /\ LeavesAfterLateLock(y)'
    BY <1>1, StepsAlone, OthersStaged DEF IInv
  <2>2. StageKnown(x)' /\ LeavesAfterLateLock(x)'
    BY <1>1, ReceivingKeepsStage, ExecutingKeepsStage, CallingKeepsStage,
       OtherStepsKeepStage DEF StepOf, Calling
  <2> QED BY <2>1, <2>2 DEF Staged
<1>2. CASE LockExpires \/ StrayArrives
  <2>1. /\ UNCHANGED <<pc, inbox, appPrev, started, call, granted>>
        /\ stray' \subseteq stray
    BY <1>2 DEF LockExpires, StrayArrives, protocol
  <2> QED
    BY <2>1 DEF Staged, StageKnown, AtOrAfterWork, LeavesAfterLateLock, Working
<1>3. CASE UNCHANGED vars
  BY <1>3 DEF vars, protocol, history, Staged, StageKnown, AtOrAfterWork,
     LeavesAfterLateLock, Working
<1> QED BY <1>1, <1>2, <1>3 DEF Next, Proceeds, StepOf

\* How far every exchange is, in every reachable state.
THEOREM StagesKnown == Spec => [](IInv /\ Staged)
BY InitIInv, NextIInv, InitStaged, NextStaged, PTL DEF Spec

-----------------------------------------------------------------------------
(* The refinement: every step is a step of Lease, or invisible there *)

\* Steps that the lease does not show.
LEMMA Invisible ==
  ASSUME UNCHANGED <<task, owner, lockLive, lapsed>>,
         \A y \in Exchange : StatusOf(y)' = StatusOf(y)
  PROVE  UNCHANGED Leasing!vars
<1>1. Statuses' = Statuses
  BY DEF Statuses
<1> QED BY <1>1 DEF Leasing!vars

\* Only the exchange that makes a step moves.
LEMMA OthersStand ==
  ASSUME NEW x \in Exchange, Alone(x), NEW y \in Exchange \ {x}
  PROVE  StatusOf(y)' = StatusOf(y)
BY DEF Alone, StatusOf, Working

\* An exchange that moves on changes its own status and nothing else.
LEMMA MovesOn ==
  ASSUME NEW x \in Exchange, Alone(x), NEW from, NEW to,
         UNCHANGED <<task, owner, lockLive, lapsed>>,
         StatusOf(x) = from, StatusOf(x)' = to
  PROVE  Leasing!Moves(x, from, to)
<1>1. \A y \in Exchange \ {x} : StatusOf(y)' = StatusOf(y)
  BY OthersStand
<1>2. Statuses' = [Statuses EXCEPT ![x] = to]
  BY <1>1 DEF Statuses
<1>3. Statuses[x] = from
  BY DEF Statuses
<1> QED BY <1>2, <1>3 DEF Leasing!Moves

\* A request that the engine accepts is a lease, an end or a giving up.
LEMMA AcceptedIsLeasing ==
  ASSUME IInv, NEW req \in Requests, Accepts(req), Apply(req),
         UNCHANGED <<lapsed, pc, appPrev>>,
         req.event = "execute.accept" \/ StatusOf(req.from) # "working",
         req.event \in EndingEvents => StatusOf(req.from) = "over"
  PROVE  [Leasing!Next]_Leasing!vars
<1>1. req.from \in Exchange /\ req.event \in CallEvents
  BY DEF Requests
<1>2. \A y \in Exchange : StatusOf(y)' = StatusOf(y)
  BY DEF StatusOf, Working
<1>3. Statuses' = Statuses /\ Statuses[req.from] = StatusOf(req.from)
  BY <1>1, <1>2 DEF Statuses
<1>4. CASE req.event = "execute.accept"
  <2>1. UNCHANGED <<task, owner, lockLive, lapsed>>
    BY <1>4 DEF Apply, engine
  <2> QED BY <1>2, <2>1, Invisible
<1>5. CASE req.event = "lock.accept"
  <2>1. Leasing!Grant(req.from)
    BY <1>3, <1>5 DEF Leasing!Grant, Accepts, Apply
  <2> QED BY <1>1, <2>1 DEF Leasing!Next
<1>6. CASE req.event \in EndingEvents
  <2>1. Leasing!End(req.from)
    BY <1>3, <1>6 DEF Leasing!End, Accepts, Apply, EndingEvents
  <2> QED BY <1>1, <2>1 DEF Leasing!Next
<1>7. CASE req.event = "execute.failure"
  <2>1. Leasing!GiveUp(req.from)
    BY <1>3, <1>7 DEF Leasing!GiveUp, Accepts, Apply
  <2> QED BY <1>1, <2>1 DEF Leasing!Next
<1> QED BY <1>1, <1>4, <1>5, <1>6, <1>7 DEF CallEvents, Reports, EndingEvents

\* The engine takes nothing from an exchange at work, in time or late.
LEMMA EngineIsLeasing ==
  ASSUME IInv, Staged,
         StrayArrives \/ \E x \in Exchange : EngineHandles(x)
  PROVE  [Leasing!Next]_Leasing!vars
<1>1. CASE StrayArrives
  <2>1. PICK req \in stray :
          /\ Accepts(req) /\ Apply(req)
          /\ UNCHANGED <<pc, protocol, lapsed>>
    BY <1>1 DEF StrayArrives
  <2> DEFINE x == req.from
  <2>2. req \in Requests /\ x \in Exchange /\ req.event \in CallEvents
    BY DEF IInv, TypeInv, TypeOK, Requests
  <2>3. StageKnown(x) /\ LeavesAfterLateLock(x) /\ NoReportYet(x)
    BY <2>2 DEF Staged, IInv, Safe
  <2>4. req.event = "execute.accept" \/ ~Working(x)
    BY <2>2, <2>3 DEF LeavesAfterLateLock, NoReportYet, Unreported, Working,
       CallEvents
  <2>5. req.event \in EndingEvents => appPrev[x] \in {"execute.start", "end"}
    BY <2>3 DEF StageKnown
  <2>6. req.event = "execute.accept" \/ StatusOf(x) # "working"
    BY <2>4 DEF StatusOf
  <2>7. req.event \in EndingEvents => StatusOf(x) = "over"
    BY <2>4, <2>5 DEF StatusOf, EndingEvents
  <2>8. UNCHANGED <<lapsed, pc, appPrev>>
    BY <2>1 DEF protocol
  <2> QED BY <2>1, <2>2, <2>6, <2>7, <2>8, AcceptedIsLeasing
<1>2. ASSUME NEW x \in Exchange, EngineHandles(x)
      PROVE  [Leasing!Next]_Leasing!vars
  <2>1. /\ pc[x] = "calling" /\ UNCHANGED <<pc, appPrev, lapsed>>
        /\ ~Working(x)
    BY <1>2 DEF EngineHandles, protocol, Working
  <2>2. CASE Accepts(RequestOf(x)) /\ Apply(RequestOf(x))
    <3>1. /\ RequestOf(x) \in Requests /\ RequestOf(x).from = x
          /\ RequestOf(x).event = call[x].event
      BY <2>1, RequestOfType DEF IInv
    <3>2. call[x].event \in EndingEvents => appPrev[x] = "execute.start"
      BY DEF Staged, StageKnown, AtOrAfterWork
    <3>3. StatusOf(x) # "working"
      BY <2>1 DEF StatusOf
    <3>4. call[x].event \in EndingEvents => StatusOf(x) = "over"
      BY <2>1, <3>2 DEF StatusOf
    <3> QED BY <2>1, <2>2, <3>1, <3>3, <3>4, AcceptedIsLeasing
  <2>3. CASE UNCHANGED <<engine, reports>>
    <3>1. \A y \in Exchange : StatusOf(y)' = StatusOf(y)
      BY <2>1 DEF StatusOf, Working
    <3> QED BY <2>1, <2>3, <3>1, Invisible DEF engine
  <2> QED BY <1>2, <2>2, <2>3 DEF EngineHandles
<1> QED BY <1>1, <1>2

\* The exchange starts to work with the lease that it was granted.
LEMMA StartIsLeasing ==
  ASSUME IInv, Staged, NEW x \in Exchange, ReceiveExecuteStart(x)
  PROVE  Leasing!Start(x)
<1>1. /\ pc[x] = "receiving" /\ Head(inbox[x]) = "execute.start"
      /\ appPrev[x] = "execute.request" /\ appPrev'[x] = "execute.start"
      /\ pc'[x] = "resolving"
      /\ UNCHANGED <<task, owner, lockLive, lapsed>>
  BY DEF ReceiveExecuteStart, Receives, AppExpects, Goto, engine, history, IInv,
     TypeInv, TypeOK
<1>2. StatusOf(x) = "waiting" /\ StatusOf(x)' = "working"
  BY <1>1 DEF StatusOf, Working
<1>3. Alone(x)
  BY StepsAlone DEF IInv, StepOf, Receiving
<1>4. Leasing!Moves(x, "waiting", "working")
  BY <1>1, <1>2, <1>3, MovesOn
<1>5. inbox[x] = <<"execute.start">>
  BY <1>1 DEF IInv, Safe, OneEventWaits
<1>6. granted[x] /\ reports[x] = 0 /\ LeaseHolds(x)
  <2>1. GrantComesFirst(x) /\ NoReportYet(x) /\ LeaseHolds(x)
    BY DEF IInv, Safe
  <2>2. granted[x]
    BY <1>1, <1>5, <2>1 DEF GrantComesFirst, Granting
  <2>3. reports[x] = 0
    BY <1>1, <1>5, <2>1 DEF NoReportYet, Unreported
  <2> QED BY <2>1, <2>2, <2>3
<1>7. lapsed[x] \/ (task = "open" /\ owner = x /\ lockLive)
  BY <1>6 DEF LeaseHolds, Leased
<1> QED BY <1>4, <1>7 DEF Leasing!Start, Leasing!Holds

\* The status of an exchange never goes back.
LEMMA StepIsLeasing ==
  ASSUME IInv, Staged, NEW x \in Exchange, StepOf(x), ~EngineHandles(x)
  PROVE  [Leasing!Next]_Leasing!vars
<1>1. Alone(x)
  BY StepsAlone DEF IInv
<1>2. \A y \in Exchange \ {x} : StatusOf(y)' = StatusOf(y)
  BY <1>1, OthersStand
<1>3. CASE ReceiveExecuteStart(x)
  BY <1>3, StartIsLeasing DEF Leasing!Next
<1>4. CASE ~ReceiveExecuteStart(x)
  <2>1. UNCHANGED <<task, owner, lockLive, lapsed>>
    BY <1>4 DEF StepOf, Fetch, Begin, Receiving, ReceiveStart,
       ReceiveLockRequest, ReceiveExecuteRequest, ReceiveEnd, GuardRejects,
       GuardRaises, DecodingRaises, ReceiveRaises, Receives, Executing,
       StartHandler, ResolvingRaises, HandlerEnds, SendOutcome, OutcomeRaises,
       Catching, CatchInExceptionMiddleware, CatchInServerErrorMiddleware,
       ReportingRaises, Escapes, Leave, Calling, RetryCall, CallAnswered,
       CallUnanswered, Heartbeating, HeartbeatWakes, HeartbeatReturns,
       HeartbeatStops, Crash, engine, history
  <2>2. \/ StatusOf(x)' = StatusOf(x)
        \/ StatusOf(x)' = "over" /\ StatusOf(x) \in {"waiting", "working"}
    <3>1. CASE ReceiveEnd(x)
      BY <3>1 DEF ReceiveEnd, Receives, Goto, StatusOf, Working, IInv, TypeInv,
         TypeOK
    <3>2. CASE ReceiveStart(x) \/ ReceiveLockRequest(x)
               \/ ReceiveExecuteRequest(x)
      <4>1. PICK event \in {"start", "lock.request", "execute.request"} :
              Receives(x, event)
        BY <3>2 DEF ReceiveStart, ReceiveLockRequest, ReceiveExecuteRequest
      <4>2. /\ appPrev[x] \in {"none", "start", "lock.request"}
            /\ appPrev'[x] = event /\ ~Working(x)
        BY <4>1 DEF Receives, AppExpects, Working, IInv, TypeInv, TypeOK
      <4>3. pc'[x] \in {"receiving", "calling"}
        BY <3>2 DEF ReceiveStart, ReceiveLockRequest, ReceiveExecuteRequest,
           Receives, Request, SendWithoutCall, AfterSend, Goto, IInv, TypeInv,
           TypeOK
      <4> QED BY <4>1, <4>2, <4>3 DEF StatusOf, Working
    <3>3. CASE Executing(x)
      <4>1. /\ Working(x) /\ appPrev[x] = "execute.start"
            /\ UNCHANGED appPrev
        BY <3>3 DEF Executing, StartHandler, ResolvingRaises, HandlerEnds,
           SendOutcome, OutcomeRaises, Joined, Working, protocol, Staged,
           StageKnown, AtOrAfterWork
      <4> QED BY <4>1 DEF StatusOf, Working
    <3>4. CASE Heartbeating(x)
      BY <3>4 DEF Heartbeating, HeartbeatWakes, HeartbeatReturns,
         HeartbeatStops, StatusOf, Working, protocol
    <3>5. CASE Crash(x)
      <4>1. pc'[x] = "crashed" /\ UNCHANGED appPrev
        BY <3>5 DEF Crash, Goto, protocol, IInv, TypeInv, TypeOK
      <4>2. Working(x) => appPrev[x] = "execute.start"
        BY DEF Staged, StageKnown, AtOrAfterWork
      <4> QED BY <4>1, <4>2 DEF StatusOf, Working
    <3>6. CASE GuardRejects(x) \/ GuardRaises(x) \/ DecodingRaises(x)
               \/ Fetch(x) \/ Begin(x) \/ Catching(x) \/ Calling(x)
      <4>1. ~Working(x) /\ UNCHANGED appPrev
        BY <3>6 DEF GuardRejects, GuardRaises, DecodingRaises, ReceiveRaises,
           Fetch, Begin, Catching, CatchInExceptionMiddleware,
           CatchInServerErrorMiddleware, ReportingRaises, Escapes, Leave,
           Calling, RetryCall, CallAnswered, CallUnanswered, Working, protocol
      <4>2. ~Working(x)'
        <5>1. CASE GuardRejects(x) \/ GuardRaises(x) \/ DecodingRaises(x)
                   \/ Fetch(x) \/ Begin(x)
          BY <5>1 DEF GuardRejects, GuardRaises, DecodingRaises,
             ReceiveRaises, SendWithoutCall, AfterSend, Fetch, Begin, Goto,
             Working, IInv, TypeInv, TypeOK
        <5>2. CASE Catching(x)
          BY <5>2 DEF Catching, CatchInExceptionMiddleware,
             CatchInServerErrorMiddleware, ReportingRaises, Escapes, Leave,
             Request, SendWithoutCall, AfterSend, Goto, Working, IInv, TypeInv,
             TypeOK
        <5>3. CASE Calling(x)
          BY <5>3 DEF Calling, RetryCall, CallAnswered, CallUnanswered,
             SendReturns, SendRaises, AfterSend, Goto, Working, IInv, TypeInv,
             TypeOK
        <5> QED BY <3>6, <5>1, <5>2, <5>3
      <4> QED BY <4>1, <4>2 DEF StatusOf
    <3> QED
      BY <1>4, <3>1, <3>2, <3>3, <3>4, <3>5, <3>6 DEF StepOf, Receiving
  <2>3. CASE StatusOf(x)' = StatusOf(x)
    BY <1>2, <2>1, <2>3, Invisible
  <2>4. CASE StatusOf(x)' = "over" /\ StatusOf(x) \in {"waiting", "working"}
    <3>1. Leasing!Stop(x) \/ Leasing!Quit(x)
      BY <1>1, <2>1, <2>4, MovesOn DEF Leasing!Stop, Leasing!Quit
    <3> QED BY <3>1 DEF Leasing!Next
  <2> QED BY <2>2, <2>3, <2>4
<1> QED BY <1>3, <1>4

\* The exchange implements the lease: whatever its events, calls, late
\* requests, lost answers, retries and crashes do, the engine's task passes
\* from one exchange to the next only as Lease allows.
THEOREM ExchangeImplementsLease == Spec => ImplementsLease
<1>1. Init => Leasing!Init
  <2> SUFFICES ASSUME Init PROVE Leasing!Init
    OBVIOUS
  <2>1. \A x \in Exchange : StatusOf(x) = "waiting"
    BY DEF Init, StatusOf, Working
  <2>2. Statuses = [x \in Exchange |-> "waiting"]
    BY <2>1 DEF Statuses
  <2> QED BY <2>2 DEF Init, Leasing!Init
<1>2. IInv /\ Staged /\ [Next]_vars => [Leasing!Next]_Leasing!vars
  <2> SUFFICES ASSUME IInv, Staged, [Next]_vars
               PROVE  [Leasing!Next]_Leasing!vars
    OBVIOUS
  <2>1. CASE LockExpires
    <3>1. \A y \in Exchange : StatusOf(y)' = StatusOf(y)
      BY <2>1 DEF LockExpires, StatusOf, Working, protocol
    <3>2. Statuses' = Statuses
      BY <3>1 DEF Statuses
    <3>3. Leasing!Lapse
      BY <2>1, <3>2 DEF LockExpires, Leasing!Lapse
    <3> QED BY <3>3 DEF Leasing!Next
  <2>2. CASE StrayArrives \/ \E x \in Exchange : EngineHandles(x)
    BY <2>2, EngineIsLeasing
  <2>3. ASSUME NEW x \in Exchange, StepOf(x), ~EngineHandles(x)
        PROVE  [Leasing!Next]_Leasing!vars
    BY <2>3, StepIsLeasing
  <2>4. CASE UNCHANGED vars
    <3>1. \A y \in Exchange : StatusOf(y)' = StatusOf(y)
      BY <2>4 DEF vars, protocol, StatusOf, Working
    <3> QED BY <2>4, <3>1, Invisible DEF vars, engine, history
  <2> QED
    BY <2>1, <2>2, <2>3, <2>4 DEF Next, Proceeds, StepOf
<1> QED
  BY <1>1, <1>2, StagesKnown, PTL DEF Spec, ImplementsLease, Leasing!Spec

-----------------------------------------------------------------------------
(***************************************************************************)
(* The two sides of an exchange agree on the protocol, nothing follows its *)
(* end, and only an output completes a task.                               *)
(***************************************************************************)

\* Nothing follows the end event, and no heartbeat the handler.
EndsInOrder(x) ==
  /\ appPrev[x] = "end" =>
       pc[x] \in {"leaving", "raising", "done", "crashed"} /\ started[x] = {}
  /\ hb[x] # "off" => pc[x] \in {"handler", "joining"}

\* Where an event or a call is, and the event that each side took last.
LastEvents(x) ==
  /\ pc[x] \in {"idle", "queued"} => appPrev[x] = "none" /\ srvPrev[x] = "none"
  /\ pc[x] = "receiving" =>
       /\ inbox[x] = <<"start", "lock.request">> =>
            appPrev[x] = "none" /\ srvPrev[x] = "none"
       /\ inbox[x] = <<"lock.request">> =>
            appPrev[x] = "start" /\ srvPrev[x] = "none"
       /\ inbox[x] = <<"execute.request">> =>
            appPrev[x] = "lock.request" /\ srvPrev[x] = "lock.accept"
       /\ inbox[x] = <<"execute.start">> => appPrev[x] = "execute.request"
  /\ call[x].event = "lock.accept" =>
       appPrev[x] = "lock.request" /\ srvPrev[x] = "none"
  /\ call[x].event = "execute.accept" =>
       appPrev[x] = "execute.request" /\ srvPrev[x] = "lock.accept"
  /\ granted[x] => srvPrev[x] # "none"

\* A handler ends once, and only its output is on its way as a completion.
OutcomeKept(x) ==
  /\ outcome[x] # "none" =>
       /\ appPrev[x] \in {"execute.start", "end"}
       /\ pc[x] \notin {"resolving", "handler"}
  /\ call[x].event = "execute.complete" => outcome[x] = "execute.complete"

InOrder(x) == EndsInOrder(x) /\ LastEvents(x) /\ OutcomeKept(x)

CompletionsOfOutputs ==
  /\ \A req \in stray :
       req.event = "execute.complete" => outcome[req.from] = "execute.complete"
  /\ CompletedByHandler

Ordered == (\A x \in Exchange : InOrder(x)) /\ CompletionsOfOutputs

\* Nothing has happened in an initial state.
LEMMA InitOrdered == Init => Ordered
<1> SUFFICES ASSUME Init PROVE Ordered
  OBVIOUS
<1>1. ASSUME NEW x \in Exchange PROVE InOrder(x)
  <2>1. /\ pc[x] = "idle" /\ appPrev[x] = "none" /\ srvPrev[x] = "none"
        /\ hb[x] = "off" /\ outcome[x] = "none" /\ granted[x] = FALSE
        /\ call[x].event = "none"
    BY DEF Init, NoCall
  <2> QED
    BY <2>1 DEF InOrder, EndsInOrder, LastEvents, OutcomeKept
<1> QED
  BY <1>1 DEF Ordered, CompletionsOfOutputs, CompletedByHandler, Init

\* What a step of exchange x leaves alone of the others.
Apart(x) ==
  \A y \in Exchange \ {x} :
    srvPrev'[y] = srvPrev[y] /\ hb'[y] = hb[y] /\ outcome'[y] = outcome[y]

(* A step of an exchange leaves the others their heartbeat and outcome. *)
LEMMA StepsApart ==
  ASSUME TypeInv, NEW x \in Exchange, StepOf(x)
  PROVE  Apart(x)
<1> USE DEF TypeInv, TypeOK, Apart
<1>1. CASE Fetch(x) \/ Begin(x) \/ Crash(x)
  BY <1>1 DEF Fetch, Begin, Crash, Goto, protocol
<1>2. CASE Receiving(x)
  BY <1>2 DEF Receiving, ReceiveStart, ReceiveLockRequest,
     ReceiveExecuteRequest, ReceiveExecuteStart, ReceiveEnd, GuardRejects,
     GuardRaises, DecodingRaises, ReceiveRaises, Receives, SendWithoutCall
<1>3. CASE Executing(x)
  BY <1>3 DEF Executing, StartHandler, ResolvingRaises, HandlerEnds,
     SendOutcome, OutcomeRaises, SendWithoutCall, protocol
<1>4. CASE Catching(x)
  BY <1>4 DEF Catching, CatchInExceptionMiddleware,
     CatchInServerErrorMiddleware, ReportingRaises, Escapes, Leave,
     SendWithoutCall, protocol
<1>5. CASE Calling(x)
  BY <1>5 DEF Calling, RetryCall, CallAnswered, CallUnanswered, SendRaises,
     SendReturns, protocol
<1>6. CASE EngineHandles(x) \/ Heartbeating(x)
  BY <1>6 DEF EngineHandles, Heartbeating, HeartbeatWakes, HeartbeatReturns,
     HeartbeatStops, protocol
<1> QED BY <1>1, <1>2, <1>3, <1>4, <1>5, <1>6 DEF StepOf

\* So the others stay in order.
LEMMA OthersInOrder ==
  ASSUME Ordered, NEW x \in Exchange, Alone(x), Apart(x),
         NEW y \in Exchange \ {x}
  PROVE  InOrder(y)'
BY DEF Ordered, Alone, Apart, InOrder, EndsInOrder, LastEvents, OutcomeKept

\* Receiving: each event finds both sides where the tables want them.
LEMMA ReceivingInOrder ==
  ASSUME IInv, Ordered, NEW x \in Exchange, Receiving(x)
  PROVE  InOrder(x)'
<1>1. /\ pc[x] = "receiving" /\ call[x] = NoCall /\ NoCall.event = "none"
      /\ OneEventWaits(x) /\ InOrder(x) /\ GrantComesFirst(x)
      /\ UNCHANGED <<hb, outcome, history>>
      /\ TypeInv
  BY DEF IInv, TypeInv, CallWhileCalling, Safe, Ordered, Receiving,
     ReceiveStart, ReceiveLockRequest, ReceiveExecuteRequest,
     ReceiveExecuteStart, ReceiveEnd, Receives, GuardRejects, GuardRaises,
     DecodingRaises, ReceiveRaises, NoCall
<1>2. granted'[x] = granted[x] /\ hb[x] = "off" /\ appPrev[x] # "end"
  BY <1>1 DEF history, InOrder, EndsInOrder
<1>3. outcome[x] # "none" => appPrev[x] = "execute.start"
  BY <1>1, <1>2 DEF InOrder, OutcomeKept
<1>4. CASE ReceiveStart(x)
  <2>1. /\ inbox[x] = <<"start", "lock.request">> /\ appPrev[x] = "none"
        /\ srvPrev[x] = "none"
    BY <1>1, <1>4 DEF ReceiveStart, Receives, OneEventWaits, InOrder, LastEvents
  <2>2. /\ inbox'[x] = <<"lock.request">> /\ appPrev'[x] = "start"
        /\ srvPrev'[x] = "none" /\ pc'[x] = "receiving" /\ call'[x] = NoCall
    BY <1>1, <1>4, <2>1 DEF ReceiveStart, Receives, Pops, TypeInv, TypeOK
  <2>3. ~granted[x]
    BY <1>1, <2>1 DEF InOrder, LastEvents
  <2> QED
    BY <1>1, <1>2, <1>3, <2>1, <2>2, <2>3
       DEF InOrder, EndsInOrder, LastEvents, OutcomeKept
<1>5. CASE ReceiveLockRequest(x)
  <2>1. /\ inbox[x] = <<"lock.request">> /\ appPrev[x] = "start"
        /\ srvPrev[x] = "none" /\ appPrev'[x] = "lock.request"
    BY <1>1, <1>5 DEF ReceiveLockRequest, Receives, AppExpects, OneEventWaits,
       InOrder, LastEvents, TypeInv, TypeOK
  <2>2. ~granted[x]
    BY <1>1, <2>1 DEF InOrder, LastEvents
  <2>3. CASE Request(x, "app", "lock.accept", 0) /\ UNCHANGED srvPrev
    <3>1. /\ pc'[x] = "calling" /\ call'[x].event = "lock.accept"
          /\ srvPrev'[x] = "none"
      BY <2>1, <2>3, <1>1 DEF Request, Goto, TypeInv, TypeOK
    <3> QED
      BY <1>1, <1>2, <1>3, <2>1, <2>2, <3>1
         DEF InOrder, EndsInOrder, LastEvents, OutcomeKept
  <2>4. CASE SendWithoutCall(x, "app", "lock.reject", Tail(inbox[x]))
    <3>1. inbox'[x] = <<"end">>
      <4>1. inbox'[x] = Append(Tail(inbox[x]), "end")
        BY <1>1, <2>4 DEF SendWithoutCall, TypeInv, TypeOK
      <4> QED BY <2>1, <4>1
    <3>2. pc'[x] = "receiving" /\ call'[x] = NoCall
      BY <1>1, <2>4 DEF SendWithoutCall, AfterSend, Goto, TypeInv, TypeOK
    <3> QED
      BY <1>1, <1>2, <1>3, <2>1, <2>2, <3>1, <3>2
         DEF InOrder, EndsInOrder, LastEvents, OutcomeKept
  <2> QED BY <1>5, <2>3, <2>4 DEF ReceiveLockRequest
<1>6. CASE ReceiveExecuteRequest(x)
  <2>1. /\ inbox[x] = <<"execute.request">> /\ appPrev[x] = "lock.request"
        /\ srvPrev[x] = "lock.accept" /\ appPrev'[x] = "execute.request"
    BY <1>1, <1>6 DEF ReceiveExecuteRequest, Receives, AppExpects,
       OneEventWaits, InOrder, LastEvents, TypeInv, TypeOK
  <2>2. /\ pc'[x] = "calling" /\ call'[x].event = "execute.accept"
        /\ srvPrev'[x] = "lock.accept"
    BY <1>1, <1>6, <2>1 DEF ReceiveExecuteRequest, Request, Goto, TypeInv,
       TypeOK
  <2> QED
    BY <1>1, <1>2, <1>3, <2>1, <2>2
       DEF InOrder, EndsInOrder, LastEvents, OutcomeKept
<1>7. CASE ReceiveExecuteStart(x)
  <2>1. /\ inbox[x] = <<"execute.start">> /\ appPrev[x] = "execute.request"
        /\ appPrev'[x] = "execute.start"
    BY <1>1, <1>7 DEF ReceiveExecuteStart, Receives, AppExpects,
       OneEventWaits, InOrder, LastEvents, TypeInv, TypeOK
  <2>2. /\ pc'[x] = "resolving" /\ call'[x] = NoCall
        /\ srvPrev'[x] = srvPrev[x]
    BY <1>1, <1>7 DEF ReceiveExecuteStart, Goto, TypeInv, TypeOK
  <2> QED
    BY <1>1, <1>2, <1>3, <2>1, <2>2
       DEF InOrder, EndsInOrder, LastEvents, OutcomeKept
<1>8. CASE ReceiveEnd(x)
  <2>1. /\ appPrev'[x] = "end" /\ started'[x] = {} /\ pc'[x] = "leaving"
        /\ call'[x] = NoCall /\ srvPrev'[x] = srvPrev[x]
    BY <1>1, <1>8 DEF ReceiveEnd, Receives, TaskStarted, Goto, TypeInv, TypeOK
  <2> QED
    BY <1>1, <1>2, <1>3, <2>1
       DEF InOrder, EndsInOrder, LastEvents, OutcomeKept
<1>9. CASE GuardRejects(x)
  <2>1. inbox[x] = <<"lock.request">>
    BY <1>1, <1>9 DEF GuardRejects, InOrder, LastEvents, OneEventWaits
  <2>2. inbox'[x] = <<"end">>
    <3>1. inbox'[x] = Append(Tail(inbox[x]), "end")
      BY <1>1, <1>9 DEF GuardRejects, SendWithoutCall, TypeInv, TypeOK
    <3> QED BY <2>1, <3>1
  <2>3. /\ pc'[x] = "receiving" /\ call'[x] = NoCall
        /\ appPrev'[x] = appPrev[x] /\ srvPrev'[x] = "lock.reject"
    BY <1>1, <1>9 DEF GuardRejects, SendWithoutCall, AfterSend, Goto, TypeInv,
       TypeOK
  <2> QED
    BY <1>1, <1>2, <1>3, <2>1, <2>2, <2>3
       DEF InOrder, EndsInOrder, LastEvents, OutcomeKept
<1>10. CASE GuardRaises(x) \/ DecodingRaises(x)
  <2>1. /\ pc'[x] = "raising" /\ call'[x] = NoCall
        /\ appPrev'[x] = appPrev[x] /\ srvPrev'[x] = srvPrev[x]
    BY <1>1, <1>10 DEF GuardRaises, DecodingRaises, ReceiveRaises, Goto,
       TypeInv, TypeOK
  <2> QED
    BY <1>1, <1>2, <1>3, <2>1
       DEF InOrder, EndsInOrder, LastEvents, OutcomeKept
<1> QED
  BY <1>4, <1>5, <1>6, <1>7, <1>8, <1>9, <1>10 DEF Receiving

\* Executing: an outcome is set once, and nothing but an output completes.
LEMMA ExecutingInOrder ==
  ASSUME IInv, Staged, Ordered, NEW x \in Exchange, Executing(x)
  PROVE  InOrder(x)'
<1>1. /\ Working(x) /\ pc[x] \in {"resolving", "handler", "joining"}
      /\ UNCHANGED <<appPrev, history>>
  BY DEF Executing, StartHandler, ResolvingRaises, HandlerEnds, SendOutcome,
     OutcomeRaises, Joined, Working, protocol
<1>2. /\ call[x] = NoCall /\ NoCall.event = "none" /\ inbox[x] = <<>>
      /\ appPrev[x] = "execute.start" /\ granted[x] /\ granted'[x] = granted[x]
      /\ InOrder(x) /\ TypeInv
  BY <1>1 DEF IInv, TypeInv, CallWhileCalling, Safe, OneEventWaits,
     GrantComesFirst, Granting, Staged, StageKnown, AtOrAfterWork, Ordered,
     NoCall, history
<1>3. srvPrev[x] # "none"
  BY <1>2 DEF InOrder, LastEvents
<1>4. CASE StartHandler(x) \/ ResolvingRaises(x) \/ HandlerEnds(x)
           \/ OutcomeRaises(x)
  <2>1. /\ UNCHANGED <<srvPrev, call>>
        /\ pc'[x] \in {"handler", "joining", "raising"}
        /\ hb'[x] # "off" => pc'[x] \in {"handler", "joining"}
        /\ outcome'[x] # "none" => pc'[x] # "handler"
    BY <1>2, <1>4 DEF StartHandler, ResolvingRaises, HandlerEnds,
       OutcomeRaises, Joined, Goto, InOrder, EndsInOrder, OutcomeKept,
       protocol, TypeInv, TypeOK
  <2> QED
    BY <1>1, <1>2, <1>3, <2>1 DEF InOrder, EndsInOrder, LastEvents, OutcomeKept
<1>5. CASE SendOutcome(x)
  <2>1. hb'[x] = "off" /\ outcome'[x] = outcome[x]
    BY <1>5 DEF SendOutcome, Joined
  <2>2. CASE SendWithoutCall(x, "app", "execute.abort", inbox[x])
    <3>1. inbox'[x] = <<"end">>
      <4>1. inbox'[x] = Append(inbox[x], "end")
        BY <1>2, <2>2 DEF SendWithoutCall, TypeInv, TypeOK
      <4> QED BY <1>2, <4>1
    <3>2. /\ pc'[x] = "receiving" /\ call'[x] = NoCall
          /\ srvPrev'[x] = "execute.abort"
      BY <1>2, <2>2 DEF SendWithoutCall, AfterSend, Goto, TypeInv, TypeOK
    <3> QED
      BY <1>1, <1>2, <2>1, <3>1, <3>2
         DEF InOrder, EndsInOrder, LastEvents, OutcomeKept
  <2>3. ASSUME NEW n, Request(x, "app", outcome[x], n), UNCHANGED srvPrev,
               outcome[x] \in Reports
        PROVE  InOrder(x)'
    <3>1. pc'[x] = "calling" /\ call'[x].event = outcome[x]
      BY <1>2, <2>3 DEF Request, Goto, TypeInv, TypeOK
    <3> QED
      BY <1>1, <1>2, <1>3, <2>1, <2>3, <3>1
         DEF InOrder, EndsInOrder, LastEvents, OutcomeKept, Reports
  <2> QED BY <1>5, <2>2, <2>3 DEF SendOutcome, Reports
<1> QED BY <1>4, <1>5 DEF Executing

\* Catching: after the end no flag is left that would send anything.
LEMMA CatchingInOrder ==
  ASSUME IInv, Ordered, NEW x \in Exchange, Catching(x)
  PROVE  InOrder(x)'
<1>1. /\ pc[x] \in {"raising", "leaving"}
      /\ UNCHANGED <<appPrev, started, hb, outcome, history>>
  BY DEF Catching, CatchInExceptionMiddleware, CatchInServerErrorMiddleware,
     ReportingRaises, Escapes, Leave, protocol
<1>2. /\ call[x] = NoCall /\ NoCall.event = "none" /\ hb[x] = "off"
      /\ granted'[x] = granted[x] /\ InOrder(x) /\ TypeInv
  BY <1>1 DEF IInv, TypeInv, CallWhileCalling, Ordered, InOrder, EndsInOrder,
     NoCall, history
<1>3. CASE CatchInExceptionMiddleware(x) \/ CatchInServerErrorMiddleware(x)
  <2>1. appPrev[x] # "end"
    BY <1>2, <1>3 DEF InOrder, EndsInOrder, CatchInExceptionMiddleware,
       CatchInServerErrorMiddleware
  <2>2. CASE SendWithoutCall(x, "exc", "execute.abort", inbox[x])
    <3>1. /\ pc'[x] = "done" /\ call'[x] = NoCall
          /\ srvPrev'[x] = "execute.abort"
      BY <1>2, <2>2 DEF SendWithoutCall, AfterSend, Goto, TypeInv, TypeOK
    <3> QED
      BY <1>1, <1>2, <2>1, <3>1
         DEF InOrder, EndsInOrder, LastEvents, OutcomeKept
  <2>3. ASSUME NEW who, NEW n,
               NEW event \in {"execute.failure", "execute.error"},
               Request(x, who, event, n), UNCHANGED srvPrev
        PROVE  InOrder(x)'
    <3>1. pc'[x] = "calling" /\ call'[x].event = event
      BY <1>2, <2>3 DEF Request, Goto, TypeInv, TypeOK
    <3> QED
      BY <1>1, <1>2, <2>1, <2>3, <3>1
         DEF InOrder, EndsInOrder, LastEvents, OutcomeKept
  <2>4. \A kind, n : \A report \in ReportsOf(kind, n) :
          report[1] \in {"execute.failure", "execute.error"}
    BY DEF ReportsOf
  <2>5. CASE CatchInExceptionMiddleware(x)
    BY <2>2, <2>3, <2>4, <2>5 DEF CatchInExceptionMiddleware
  <2>6. CASE CatchInServerErrorMiddleware(x)
    BY <2>3, <2>6 DEF CatchInServerErrorMiddleware, protocol
  <2> QED BY <1>3, <2>5, <2>6
<1>4. CASE ReportingRaises(x) \/ Escapes(x) \/ Leave(x)
  <2>1. /\ UNCHANGED <<srvPrev, call>>
        /\ pc'[x] \in {"raising", "done", "crashed"}
    BY <1>4 DEF ReportingRaises, Escapes, Leave, Goto, protocol, IInv, TypeInv,
       TypeOK
  <2> QED
    BY <1>1, <1>2, <2>1 DEF InOrder, EndsInOrder, LastEvents, OutcomeKept
<1> QED BY <1>3, <1>4 DEF Catching

\* Calling: the answer fits the event that was sent.
LEMMA CallingInOrder ==
  ASSUME IInv, Ordered, NEW x \in Exchange, CallAnswered(x) \/ CallUnanswered(x)
  PROVE  InOrder(x)'
<1>1. /\ pc[x] = "calling" /\ UNCHANGED <<appPrev, started, hb, outcome>>
  BY DEF CallAnswered, CallUnanswered
<1>2. /\ call[x] \in Calls /\ call[x] # NoCall /\ NoCall.event = "none"
      /\ inbox[x] = <<>> /\ appPrev[x] # "end" /\ hb[x] = "off"
      /\ InOrder(x) /\ TypeInv
  BY <1>1 DEF IInv, TypeInv, TypeOK, CallWhileCalling, Safe, OneEventWaits,
     Ordered, InOrder, EndsInOrder, NoCall
<1>3. CASE SendRaises(x)
  <2>1. /\ pc'[x] = "raising" /\ call'[x] = NoCall
        /\ UNCHANGED <<srvPrev, granted>>
    BY <1>2, <1>3 DEF SendRaises, Goto, TypeInv, TypeOK
  <2> QED
    BY <1>1, <1>2, <2>1 DEF InOrder, EndsInOrder, LastEvents, OutcomeKept
<1>4. ASSUME NEW verdict \in BOOLEAN, SendReturns(x, verdict)
      PROVE  InOrder(x)'
  <2> DEFINE event == call[x].event
             answer == Answer(event, verdict)
  <2>1. event \in CallEvents /\ event # "none"
    BY <1>2, CallsReply
  <2>2. inbox'[x] = <<answer>>
    <3>1. inbox'[x] = Append(inbox[x], answer)
      BY <1>2, <1>4 DEF SendReturns, TypeInv, TypeOK
    <3> HIDE DEF answer
    <3> QED BY <1>2, <3>1
  <2>3. /\ pc'[x] \in {"receiving", "done"} /\ call'[x] = NoCall
        /\ srvPrev'[x] = event
    BY <1>2, <1>4, <2>1 DEF SendReturns, AfterSend, Goto, TypeInv, TypeOK
  <2>4. /\ answer \in {"execute.request", "execute.start", "end"}
        /\ answer = "execute.request" => event = "lock.accept"
        /\ answer = "execute.start" => event = "execute.accept"
    BY DEF Answer
  <2>5. EndsInOrder(x)' /\ OutcomeKept(x)'
    BY <1>1, <1>2, <2>3 DEF InOrder, EndsInOrder, OutcomeKept
  <2>6. /\ event = "lock.accept" => appPrev[x] = "lock.request"
        /\ event = "execute.accept" => appPrev[x] = "execute.request"
    BY <1>2 DEF InOrder, LastEvents
  <2> HIDE DEF event, answer
  <2>7. LastEvents(x)'
    BY <1>1, <1>2, <2>1, <2>2, <2>3, <2>4, <2>6 DEF LastEvents
  <2> QED BY <2>5, <2>7 DEF InOrder
<1> QED BY <1>3, <1>4 DEF CallAnswered, CallUnanswered

\* The other steps of an exchange.
LEMMA OtherStepsInOrder ==
  ASSUME IInv, Ordered, NEW x \in Exchange,
         \/ Fetch(x) \/ Begin(x) \/ RetryCall(x) \/ EngineHandles(x)
         \/ Heartbeating(x) \/ Crash(x)
  PROVE  InOrder(x)'
<1>1. /\ InOrder(x) /\ OneEventWaits(x) /\ GrantComesFirst(x) /\ TypeInv
      /\ call[x] \in Calls /\ NoCall.event = "none"
      /\ (pc[x] # "calling" => call[x] = NoCall)
  BY DEF IInv, TypeInv, TypeOK, CallWhileCalling, Safe, Ordered, NoCall
<1>2. CASE Fetch(x) \/ Begin(x)
  <2>1. /\ UNCHANGED <<appPrev, srvPrev, started, call, hb, outcome, granted>>
        /\ pc[x] \in {"idle", "queued"}
        /\ \/ pc'[x] = "queued"
           \/ pc'[x] = "receiving" /\ inbox'[x] = <<"start", "lock.request">>
    BY <1>1, <1>2 DEF Fetch, Begin, Goto, protocol, history, TypeInv, TypeOK
  <2> QED
    BY <1>1, <2>1 DEF InOrder, EndsInOrder, LastEvents, OutcomeKept
<1>3. CASE RetryCall(x) \/ EngineHandles(x)
  <2>1. UNCHANGED <<appPrev, srvPrev, started, inbox, pc, hb, outcome, granted>>
    BY <1>3 DEF RetryCall, EngineHandles, protocol, history
  <2>2. call'[x].event = call[x].event
    BY <1>1, <1>3 DEF RetryCall, EngineHandles, TypeInv, TypeOK, Calls, NoCall
  <2> QED
    BY <1>1, <2>1, <2>2 DEF InOrder, EndsInOrder, LastEvents, OutcomeKept
<1>4. CASE Heartbeating(x)
  <2>1. /\ UNCHANGED <<appPrev, started, call, pc, outcome, granted>>
        /\ hb[x] # "off"
        /\ srvPrev'[x] \in {srvPrev[x], "execute.extendlock"}
    BY <1>1, <1>4 DEF Heartbeating, HeartbeatWakes, HeartbeatReturns,
       HeartbeatStops, protocol, history, TypeInv, TypeOK
  <2>2. pc[x] \in {"handler", "joining"}
    BY <1>1, <2>1 DEF InOrder, EndsInOrder
  <2> QED
    BY <1>1, <2>1, <2>2 DEF InOrder, EndsInOrder, LastEvents, OutcomeKept
<1>5. CASE Crash(x)
  <2>1. /\ UNCHANGED <<appPrev, srvPrev, started, outcome, granted>>
        /\ pc'[x] = "crashed" /\ call'[x] = NoCall /\ hb'[x] = "off"
        /\ pc[x] # "idle"
    BY <1>1, <1>5 DEF Crash, Goto, protocol, history, TypeInv, TypeOK
  <2> QED
    BY <1>1, <2>1 DEF InOrder, EndsInOrder, LastEvents, OutcomeKept
<1> QED BY <1>2, <1>3, <1>4, <1>5

\* A handler that ended has ended for good.
LEMMA OutcomesStay ==
  ASSUME IInv, Ordered, NEW x \in Exchange, StepOf(x), NEW y \in Exchange,
         outcome[y] # "none"
  PROVE  outcome'[y] = outcome[y]
<1>1. CASE y # x
  BY <1>1, StepsApart DEF Apart, IInv
<1>2. CASE y = x /\ ~HandlerEnds(x)
  BY <1>2 DEF StepOf, Fetch, Begin, Receiving, ReceiveStart,
     ReceiveLockRequest, ReceiveExecuteRequest, ReceiveExecuteStart, ReceiveEnd,
     GuardRejects, GuardRaises, DecodingRaises, ReceiveRaises, Receives,
     Executing, StartHandler, ResolvingRaises, SendOutcome, OutcomeRaises,
     Catching, CatchInExceptionMiddleware, CatchInServerErrorMiddleware,
     ReportingRaises, Escapes, Leave, Calling, RetryCall, CallAnswered,
     CallUnanswered, EngineHandles, Heartbeating, HeartbeatWakes,
     HeartbeatReturns, HeartbeatStops, Crash
<1>3. CASE y = x /\ HandlerEnds(x)
  BY <1>3 DEF HandlerEnds, Ordered, InOrder, OutcomeKept
<1> QED BY <1>1, <1>2, <1>3

\* The engine completes the task only when it accepts a completion.
LEMMA CompletedByRequest ==
  ASSUME NEW req, Apply(req), task' = "completed"
  PROVE  task = "completed" \/ req.event = "execute.complete"
BY DEF Apply, engine

\* Completions on their way, and the completed task, come from an output.
LEMMA StepCompletes ==
  ASSUME IInv, Ordered, NEW x \in Exchange, StepOf(x)
  PROVE  CompletionsOfOutputs'
<1>1. \A y \in Exchange : outcome[y] # "none" => outcome'[y] = outcome[y]
  BY OutcomesStay
<1>2. call[x].event = "execute.complete" => outcome[x] = "execute.complete"
  BY DEF Ordered, InOrder, OutcomeKept
<1>3. ASSUME NEW req \in stray', req.event = "execute.complete"
      PROVE  outcome'[req.from] = "execute.complete"
  <2>1. req \in stray \/ req \in Abandoned(x)
    BY StepsAlone DEF Alone, IInv
  <2>2. req.from \in Exchange /\ outcome[req.from] = "execute.complete"
    <3>1. CASE req \in stray
      BY <1>3, <3>1 DEF Ordered, CompletionsOfOutputs, IInv, TypeInv, TypeOK,
         Requests
    <3>2. CASE req \in Abandoned(x)
      BY <1>2, <1>3, <3>2, AbandonedRequest DEF IInv
    <3> QED BY <2>1, <3>1, <3>2
  <2> QED BY <1>1, <2>2
<1>4. ASSUME task' = "completed"
      PROVE  \E y \in Exchange : outcome'[y] = "execute.complete"
  <2>1. CASE task = "completed"
    <3>1. PICK y \in Exchange : outcome[y] = "execute.complete"
      BY <2>1 DEF Ordered, CompletionsOfOutputs, CompletedByHandler
    <3> QED BY <1>1, <3>1
  <2>2. CASE EngineHandles(x) /\ task # "completed"
    <3>1. pc[x] = "calling" /\ Apply(RequestOf(x))
      BY <1>4, <2>2 DEF EngineHandles, engine
    <3>2. call[x].event = "execute.complete"
      BY <1>4, <2>2, <3>1, CompletedByRequest, RequestOfType DEF IInv
    <3> QED BY <1>1, <1>2, <3>2
  <2>3. CASE ~EngineHandles(x)
    <3>1. UNCHANGED task
      BY <2>3 DEF StepOf, Fetch, Begin, Receiving, ReceiveStart,
         ReceiveLockRequest, ReceiveExecuteRequest, ReceiveExecuteStart,
         ReceiveEnd, GuardRejects, GuardRaises, DecodingRaises, ReceiveRaises,
         Receives, Executing, StartHandler, ResolvingRaises, HandlerEnds,
         SendOutcome, OutcomeRaises, Catching, CatchInExceptionMiddleware,
         CatchInServerErrorMiddleware, ReportingRaises, Escapes, Leave,
         Calling, RetryCall, CallAnswered, CallUnanswered, Heartbeating,
         HeartbeatWakes, HeartbeatReturns, HeartbeatStops, Crash, engine
    <3> QED BY <1>4, <2>1, <3>1
  <2> QED BY <2>1, <2>2, <2>3
<1> QED BY <1>3, <1>4 DEF CompletionsOfOutputs, CompletedByHandler

\* A late request completes the task for the handler it was sent for.
LEMMA StrayCompletes ==
  ASSUME IInv, Ordered, StrayArrives
  PROVE  Ordered'
<1>1. PICK req \in stray :
        /\ Apply(req) /\ stray' = stray \ {req}
        /\ UNCHANGED <<pc, protocol, call, hb, outcome, granted>>
  BY DEF StrayArrives
<1>2. \A x \in Exchange : InOrder(x)'
  BY <1>1 DEF Ordered, InOrder, EndsInOrder, LastEvents, OutcomeKept, protocol
<1>3. req.from \in Exchange
  BY DEF IInv, TypeInv, TypeOK, Requests
<1>4. CompletionsOfOutputs'
  BY <1>1, <1>3, CompletedByRequest
     DEF Ordered, CompletionsOfOutputs, CompletedByHandler
<1> QED BY <1>2, <1>4 DEF Ordered

\* Every step keeps the order of events and outcomes.
LEMMA NextOrdered == IInv /\ Staged /\ Ordered /\ [Next]_vars => Ordered'
<1> SUFFICES ASSUME IInv, Staged, Ordered, [Next]_vars PROVE Ordered'
  OBVIOUS
<1>1. ASSUME NEW x \in Exchange, StepOf(x) PROVE Ordered'
  <2>1. \A y \in Exchange \ {x} : InOrder(y)'
    BY <1>1, StepsAlone, StepsApart, OthersInOrder DEF IInv
  <2>2. InOrder(x)'
    BY <1>1, ReceivingInOrder, ExecutingInOrder, CatchingInOrder,
       CallingInOrder, OtherStepsInOrder DEF StepOf, Calling
  <2> QED BY <1>1, <2>1, <2>2, StepCompletes DEF Ordered
<1>2. CASE LockExpires
  BY <1>2 DEF LockExpires, Ordered, InOrder, EndsInOrder, LastEvents,
     OutcomeKept, CompletionsOfOutputs, CompletedByHandler, protocol
<1>3. CASE StrayArrives
  BY <1>3, StrayCompletes
<1>4. CASE UNCHANGED vars
  BY <1>4 DEF vars, engine, protocol, history, Ordered, InOrder, EndsInOrder,
     LastEvents, OutcomeKept, CompletionsOfOutputs, CompletedByHandler
<1> QED BY <1>1, <1>2, <1>3, <1>4 DEF Next, Proceeds, StepOf

\* Events and outcomes are in order in every reachable state.
THEOREM OrderedExchanges == Spec => [](IInv /\ Ordered)
BY StagesKnown, InitOrdered, NextOrdered, PTL DEF Spec

-----------------------------------------------------------------------------
(* The properties *)

\* After the end event the application sends nothing more.
THEOREM SilentAfterTheEnd == Spec => []SilentAfterEnd
<1>1. Ordered => SilentAfterEnd
  BY DEF Ordered, InOrder, EndsInOrder, SilentAfterEnd
<1> QED BY <1>1, OrderedExchanges, PTL

\* No extendlock overtakes or follows the report of its exchange.
THEOREM HeartbeatsEndFirst == Spec => []HeartbeatEndsFirst
<1>1. Ordered => HeartbeatEndsFirst
  BY DEF Ordered, InOrder, EndsInOrder, HeartbeatEndsFirst
<1> QED BY <1>1, OrderedExchanges, PTL

\* However many exchanges compete, fail, lose answers and report twice, the
\* task is completed only for the output of a handler.
THEOREM OnlyOutputsComplete == Spec => []CompletedByHandler
<1>1. Ordered => CompletedByHandler
  BY DEF Ordered, CompletionsOfOutputs
<1> QED BY <1>1, OrderedExchanges, PTL

\* The processor never meets an unexpected event and the server never refuses
\* one that the application sends.
THEOREM TablesAgree == Spec => []ProtocolAgreement
<1>1. ASSUME IInv, Ordered, NEW x \in Exchange, pc[x] = "receiving"
      PROVE  inbox[x] # <<>> /\ AppExpects(Head(inbox[x]), appPrev[x])
  <2>1. OneEventWaits(x) /\ LastEvents(x)
    BY <1>1 DEF IInv, Safe, Ordered, InOrder
  <2> QED BY <1>1, <2>1 DEF OneEventWaits, LastEvents, AppExpects
<1>2. ASSUME IInv, Ordered, NEW x \in Exchange, pc[x] = "calling"
      PROVE  ServerExpects(call[x].event, srvPrev[x])
  <2>1. LastEvents(x) /\ GrantComesFirst(x)
    BY <1>2 DEF IInv, Safe, Ordered, InOrder
  <2>2. call[x].event \in CallEvents
    BY <1>2, CallsReply DEF IInv, TypeInv, TypeOK, CallWhileCalling
  <2>3. CASE call[x].event \in {"lock.accept", "execute.accept"}
    BY <2>1, <2>3 DEF LastEvents, ServerExpects
  <2>4. CASE call[x].event \in Reports
    <3>1. srvPrev[x] # "none"
      BY <1>2, <2>1, <2>4 DEF GrantComesFirst, Granting, LastEvents, Reports
    <3> QED BY <2>4, <3>1 DEF ServerExpects, Reports
  <2> QED BY <2>2, <2>3, <2>4 DEF CallEvents
<1>3. ASSUME IInv, Ordered, NEW x \in Exchange, pc[x] = "receiving",
             Head(inbox[x]) = "lock.request"
      PROVE  ServerExpects("lock.reject", srvPrev[x])
  <2>1. OneEventWaits(x) /\ LastEvents(x)
    BY <1>3 DEF IInv, Safe, Ordered, InOrder
  <2>2. inbox[x] = <<"lock.request">>
    BY <1>3, <2>1 DEF OneEventWaits
  <2>3. srvPrev[x] = "none"
    BY <1>3, <2>1, <2>2 DEF LastEvents
  <2> QED BY <2>3 DEF ServerExpects
<1>4. ASSUME IInv, Ordered, NEW x \in Exchange, pc[x] = "joining" \/ hb[x] # "off"
      PROVE  /\ ServerExpects("execute.abort", srvPrev[x])
             /\ ServerExpects("execute.extendlock", srvPrev[x])
  <2>1. GrantComesFirst(x) /\ LastEvents(x) /\ EndsInOrder(x)
    BY <1>4 DEF IInv, Safe, Ordered, InOrder
  <2>2. Working(x)
    BY <1>4, <2>1 DEF EndsInOrder, Working
  <2>3. srvPrev[x] # "none"
    BY <2>1, <2>2 DEF GrantComesFirst, Granting, LastEvents
  <2> QED BY <2>3 DEF ServerExpects
<1>5. IInv /\ Ordered => ProtocolAgreement
  BY <1>1, <1>2, <1>3, <1>4 DEF ProtocolAgreement
<1> QED BY <1>5, OrderedExchanges, PTL

=============================================================================
