------------------------------- MODULE Context ------------------------------
(***************************************************************************)
(* What goes on inside one exchange while a handler runs.  Coroutines of   *)
(* the handler use the context to emit signals, correlate messages and     *)
(* download files; the heartbeat extends the lock; in the end the main     *)
(* coroutine reports the outcome and waits for the end event.  All of them *)
(* share one connection to the server side, and ContextMiddleware gives    *)
(* them one asyncio.Lock for it, which is held from a request to its       *)
(* answer.  The price is time: a heartbeat waits behind the others.  So    *)
(* this module has a clock: steps of the event loop take no time, engine   *)
(* calls take up to Latency ticks, a handler takes as long as it likes.    *)
(*                                                                         *)
(* The call behind the main coroutine's report is answered here;           *)
(* TaskExchange has what happens when it is not.                           *)
(***************************************************************************)
EXTENDS Integers, Sequences, FiniteSets, SequencesExt

CONSTANTS
  Caller,    \* coroutines of the handler that use the context
  Heart,     \* the heartbeat task
  Main,      \* the coroutine of ExternalTaskProcessor
  Duration,  \* lock_duration, in ticks
  Latency,   \* longest time of an engine call
  Setup,     \* a time from the grant of the lock to the handler that counts
             \* as soon enough
  MaxCalls   \* bound of the calls of one caller, for model checking

ASSUME ActorAssumption ==
  IsFiniteSet(Caller) /\ Heart \notin Caller /\ Main \notin Caller \cup {Heart}
ASSUME TimeAssumption ==
  Duration \in Nat /\ Latency \in Nat /\ Setup \in Nat
ASSUME BoundAssumption == MaxCalls \in Nat
(* The lock has to last for half its time asleep, one call of each caller, *)
(* and the heartbeat's own call, after the setup or the call before.       *)
ASSUME DurationAssumption ==
  \A before \in {Setup, Latency} :
    (Duration \div 2) + before + (Cardinality(Caller) + 1) * Latency < Duration

VARIABLES
  caller,  \* "idle", "sending" a request, "receiving" its answer
  calls,   \* requests each caller made; the last one is its transaction
  heart,   \* "asleep", "sending", "off"
  alarm,   \* time until the heartbeat wakes up
  main,    \* "executing" the handler, "reporting", "receiving", "ended",
           \* or "raised": an exception of the handler left the middleware,
           \* and "reported": the worker had a report of it
  queue,   \* asyncio.Lock of lock_decorator: its holder, then its waiters
  call,    \* engine call of the holder: "none", "started", "handled"
  age,     \* time since that call began
  inbox,   \* the server side's send_queue
  held,    \* receive_queue of the middleware
  lease,   \* time until the engine's lock expires, 0 when it has (external)
  renewed  \* history: the last extension was granted, or there was none yet
           \* and the handler began soon enough

lock == <<lease, renewed>>
clock == <<alarm, age, lock>>
vars == <<caller, calls, heart, main, queue, call, inbox, held, clock>>

EndEvent == [type |-> "end"]
AnswerFor(c) == [type |-> "answer", to |-> c, transaction |-> calls[c]]

Holds(a) == queue # <<>> /\ Head(queue) = a

(* The lock passes to the one that waited longest. *)
Release == queue' = Tail(queue)

-----------------------------------------------------------------------------
(* The handler has just been started: between the grant and now there were *)
(* the call for the variables and the dependencies, with nobody to extend  *)
(* the lock, so any part of its time may be gone.                          *)
Init ==
  /\ caller = [c \in Caller |-> "idle"]
  /\ calls = [c \in Caller |-> 0]
  /\ heart = "asleep"
  /\ alarm = Duration \div 2
  /\ main = "executing"
  /\ queue = <<>>
  /\ call = "none"
  /\ age = 0
  /\ inbox = <<>>
  /\ held = <<>>
  /\ lease \in 0..Duration
  /\ renewed = (lease >= Duration - Setup)

(* signal_emitter, message_correlator or variable_fetcher is called.  The  *)
(* handler need not wait for its coroutines: they may call when it is over. *)
StartCall(c) ==
  /\ caller[c] = "idle"
  /\ calls[c] < MaxCalls
  /\ caller' = [caller EXCEPT ![c] = "sending"]
  /\ calls' = [calls EXCEPT ![c] = @ + 1]
  /\ queue' = Append(queue, c)
  /\ UNCHANGED <<heart, main, call, inbox, held, clock>>

(* HeartbeatHandler wakes up and sends extendlock. *)
WakeHeart ==
  /\ heart = "asleep"
  /\ alarm = 0
  /\ heart' = "sending"
  /\ queue' = Append(queue, Heart)
  /\ UNCHANGED <<caller, calls, main, call, inbox, held, clock>>

(* Somebody who holds the lock still has to send. *)
Sending ==
  /\ queue # <<>>
  /\ \/ Head(queue) = Heart
     \/ Head(queue) = Main /\ main = "reporting"
     \/ \E c \in Caller : Head(queue) = c /\ caller[c] = "sending"

(* receiver() of the server side begins its engine call. *)
BeginCall ==
  /\ Sending
  /\ call = "none"
  /\ call' = "started"
  /\ age' = 0
  /\ UNCHANGED <<caller, calls, heart, alarm, main, queue, inbox, held, lock>>

(* The engine takes the request.  An extension may come to nothing, which  *)
(* is logged and no more: extend_lock makes FALSE of a timeout, of a       *)
(* refusal and of the last of its retries.  A lock that expired is always  *)
(* refused.                                                                *)
EngineHandles ==
  /\ call = "started"
  /\ call' = "handled"
  /\ \/ Holds(Heart) /\ lease > 0 /\ lease' = Duration /\ renewed' = TRUE
     \/ Holds(Heart) /\ renewed' = FALSE /\ UNCHANGED lease
     \/ ~Holds(Heart) /\ UNCHANGED lock
  /\ UNCHANGED <<caller, calls, heart, alarm, main, queue, age, inbox, held>>

-----------------------------------------------------------------------------
(* A request of a caller.                                                  *)

(* The answer is in the inbox before send returns; the lock is kept. *)
CallAnswered(c) ==
  /\ Holds(c)
  /\ call = "handled"
  /\ call' = "none"
  /\ inbox' = Append(inbox, AnswerFor(c))
  /\ caller' = [caller EXCEPT ![c] = "receiving"]
  /\ UNCHANGED <<calls, heart, main, queue, held, clock>>

(* Mutant of CallRaises: the lock is released after the call only. *)
RaisesLocked(c) ==
  /\ Holds(c)
  /\ call # "none"
  /\ call' = "none"
  /\ caller' = [caller EXCEPT ![c] = "idle"]
  /\ UNCHANGED <<calls, heart, main, queue, inbox, held, clock>>

(* Send raises: no answer is put into the inbox, the caller gets the       *)
(* exception.                                                              *)
CallRaises(c) ==
  /\ Holds(c)
  /\ call # "none"
  /\ call' = "none"
  /\ caller' = [caller EXCEPT ![c] = "idle"]
  /\ Release
  /\ UNCHANGED <<calls, heart, main, inbox, held, clock>>

(* Mutant of CancelCall: the engine call is shielded, its answer comes. *)
CancelShielded(c) ==
  /\ caller[c] = "sending"
  /\ caller' = [caller EXCEPT ![c] = "idle"]
  /\ queue' = RemoveFirst(queue, c)
  /\ call' = IF Holds(c) THEN "none" ELSE call
  /\ inbox' = IF Holds(c) /\ call # "none"
                THEN Append(inbox, AnswerFor(c)) ELSE inbox
  /\ UNCHANGED <<calls, heart, main, held, clock>>

(* The caller is cancelled, by a timeout of the handler for instance, while *)
(* it waits for the lock or for the engine.                                *)
CancelCall(c) ==
  /\ caller[c] = "sending"
  /\ caller' = [caller EXCEPT ![c] = "idle"]
  /\ queue' = RemoveFirst(queue, c)
  /\ call' = IF Holds(c) THEN "none" ELSE call
  /\ UNCHANGED <<calls, heart, main, inbox, held, clock>>

(* Mutant of Collect: an event of somebody else is dropped. *)
CollectOrDrop(c) ==
  /\ Holds(c)
  /\ caller[c] = "receiving"
  /\ inbox # <<>>
  /\ inbox' = Tail(inbox)
  /\ IF Head(inbox) = AnswerFor(c)
       THEN caller' = [caller EXCEPT ![c] = "idle"] /\ Release
       ELSE UNCHANGED <<caller, queue>>
  /\ UNCHANGED <<calls, heart, main, call, held, clock>>

(* receive_or_queue: an event of somebody else is put aside. *)
Collect(c) ==
  /\ Holds(c)
  /\ caller[c] = "receiving"
  /\ inbox # <<>>
  /\ inbox' = Tail(inbox)
  /\ IF Head(inbox) = AnswerFor(c)
       THEN /\ caller' = [caller EXCEPT ![c] = "idle"]
            /\ Release
            /\ UNCHANGED held
       ELSE /\ held' = Append(held, Head(inbox))
            /\ UNCHANGED <<caller, queue>>
  /\ UNCHANGED <<calls, heart, main, call, clock>>

-----------------------------------------------------------------------------
(* Heartbeat and main coroutine.                                           *)

(* Mutant of HeartAnswered: it sleeps for all of the lock's duration. *)
HeartSleepsIn ==
  /\ Holds(Heart)
  /\ call = "handled"
  /\ call' = "none"
  /\ heart' = "asleep"
  /\ alarm' = Duration
  /\ Release
  /\ UNCHANGED <<caller, calls, main, age, inbox, held, lock>>

(* The lock is extended, or it is not; the heartbeat sleeps for half of it. *)
HeartAnswered ==
  /\ Holds(Heart)
  /\ call = "handled"
  /\ call' = "none"
  /\ heart' = "asleep"
  /\ alarm' = Duration \div 2
  /\ Release
  /\ UNCHANGED <<caller, calls, main, age, inbox, held, lock>>

(* The call raises: the heartbeat task ends, and nobody looks at it before *)
(* the handler is done.                                                    *)
HeartRaises ==
  /\ Holds(Heart)
  /\ call # "none"
  /\ call' = "none"
  /\ heart' = "off"
  /\ Release
  /\ UNCHANGED <<caller, calls, main, inbox, held, clock>>

(* execute(): the handler is done, its callback cancels the heartbeat,     *)
(* wherever that is.                                                       *)
StopHeart ==
  /\ heart' = "off"
  /\ alarm' = 0
  /\ call' = IF Holds(Heart) THEN "none" ELSE call

(* The handler returned; the outcome is to be sent. *)
HandlerReturns ==
  /\ main = "executing"
  /\ StopHeart
  /\ main' = "reporting"
  /\ queue' = Append(RemoveFirst(queue, Heart), Main)
  /\ UNCHANGED <<caller, calls, inbox, held, age, lock>>

(* The handler raised: the exception leaves ContextMiddleware.             *)
HandlerRaises ==
  /\ main = "executing"
  /\ StopHeart
  /\ main' = "raised"
  /\ queue' = RemoveFirst(queue, Heart)
  /\ UNCHANGED <<caller, calls, inbox, held, age, lock>>

(* ExceptionMiddleware reports the exception, around ContextMiddleware and *)
(* its lock, and the worker puts the end event for it where the callers'   *)
(* answers come from: nobody waits for this one any more.  There is none   *)
(* if nothing is reported, or if the report raises as well.                *)
ExceptionReported ==
  /\ main = "raised"
  /\ main' = "reported"
  /\ inbox' = Append(inbox, EndEvent)
  /\ UNCHANGED <<caller, calls, heart, queue, call, held, clock>>

(* Mutant of ReportAnswered: the lock is kept for the end event. *)
ReportLocked ==
  /\ Holds(Main)
  /\ main = "reporting"
  /\ call = "handled"
  /\ call' = "none"
  /\ inbox' = Append(inbox, EndEvent)
  /\ main' = "receiving"
  /\ queue' = Append(queue, Main)
  /\ UNCHANGED <<caller, calls, heart, held, clock>>

(* The report is answered by the end event.  wrapped_send lets go of the   *)
(* lock, wrapped_receive asks for it again, behind those who wait.         *)
ReportAnswered ==
  /\ Holds(Main)
  /\ main = "reporting"
  /\ call = "handled"
  /\ call' = "none"
  /\ inbox' = Append(inbox, EndEvent)
  /\ main' = "receiving"
  /\ queue' = Append(Tail(queue), Main)
  /\ UNCHANGED <<caller, calls, heart, held, clock>>

(* What the processor does with an event: only the end makes it stop. *)
MainTakes(event) ==
  IF event = EndEvent
    THEN main' = "ended" /\ queue' = RemoveFirst(queue, Main)
    ELSE main' = main /\ queue' = Append(RemoveFirst(queue, Main), Main)

(* wrapped_receive: from the events put aside, else from the inbox. *)
MainReceives ==
  /\ Holds(Main)
  /\ main = "receiving"
  /\ \/ /\ held # <<>>
        /\ MainTakes(Head(held))
        /\ held' = Tail(held)
        /\ UNCHANGED inbox
     \/ /\ held = <<>>
        /\ inbox # <<>>
        /\ MainTakes(Head(inbox))
        /\ inbox' = Tail(inbox)
        /\ UNCHANGED held
  /\ UNCHANGED <<caller, calls, heart, call, clock>>

-----------------------------------------------------------------------------
(* Time.                                                                   *)

(* The event loop has something to do now. *)
Prompt ==
  \/ Sending /\ call = "none"
  \/ heart = "asleep" /\ alarm = 0
  \/ \E c \in Caller : Holds(c) /\ caller[c] = "receiving" /\ inbox # <<>>
  \/ Holds(Main) /\ main = "receiving" /\ held \o inbox # <<>>

Less(t) == IF t = 0 THEN 0 ELSE t - 1

Tick ==
  /\ main = "executing"
  /\ ~Prompt
  /\ call # "none" => age < Latency
  /\ age' = IF call = "none" THEN 0 ELSE age + 1
  /\ alarm' = Less(alarm)
  /\ lease' = Less(lease)
  /\ UNCHANGED <<caller, calls, heart, main, queue, call, inbox, held, renewed>>

CallerStep(c) ==
  CallAnswered(c) \/ CallRaises(c) \/ CancelCall(c) \/ Collect(c)

Next ==
  \/ \E c \in Caller : StartCall(c) \/ CallerStep(c)
  \/ WakeHeart \/ BeginCall \/ EngineHandles \/ HeartAnswered \/ HeartRaises
  \/ HandlerReturns \/ HandlerRaises \/ ExceptionReported
  \/ ReportAnswered \/ MainReceives
  \/ Tick

Spec == Init /\ [][Next]_vars

(* The event loop runs what is ready, and engine calls end. *)
Fairness ==
  /\ WF_vars(BeginCall) /\ WF_vars(EngineHandles)
  /\ WF_vars(HeartAnswered) /\ WF_vars(ReportAnswered)
  /\ WF_vars(MainReceives) /\ WF_vars(WakeHeart)
  /\ \A c \in Caller : WF_vars(CallAnswered(c)) /\ WF_vars(Collect(c))

FairSpec == Spec /\ Fairness

-----------------------------------------------------------------------------
(* Properties.                                                             *)

Answer == [type : {"answer"}, to : Caller, transaction : 1..MaxCalls]
Event == Answer \cup {EndEvent}

(* The variables are typed, and nobody asks for the lock who waits for it  *)
(* or has it: asyncio.Lock is not reentrant.                               *)
TypeOK ==
  /\ caller \in [Caller -> {"idle", "sending", "receiving"}]
  /\ calls \in [Caller -> 0..MaxCalls]
  /\ heart \in {"asleep", "sending", "off"}
  /\ main \in {"executing", "reporting", "receiving", "ended", "raised",
              "reported"}
  /\ queue \in Seq(Caller \cup {Heart, Main})
  /\ \A i, j \in 1..Len(queue) : queue[i] = queue[j] => i = j
  /\ call \in {"none", "started", "handled"}
  /\ age \in 0..Latency
  /\ alarm \in 0..(Duration \div 2)
  /\ lease \in 0..Duration
  /\ renewed \in BOOLEAN
  /\ inbox \in Seq(Event)
  /\ held \in Seq(Event)

(* A handler that began soon enough, or whose last extension was granted,  *)
(* has its lock as long as it runs and the heartbeat lives, whatever its   *)
(* coroutines do on the connection: the heartbeat queues behind one call   *)
(* of each of them at most.  Nothing is left to try again an extension     *)
(* that was not granted: the next one comes when the time is up.           *)
LeaseKept == main = "executing" /\ heart # "off" /\ renewed => lease > 0

(* No answer is stranded: it reaches the caller whose transaction it       *)
(* carries, though others receive from the same queue.  There is one end   *)
(* event at most; a caller may put it aside before the main coroutine had  *)
(* it, and only that of an exception's report is awaited by nobody.        *)
Awaited(event) ==
  \/ event = EndEvent /\ main = "receiving"
  \/ \E c \in Caller : event = AnswerFor(c) /\ caller[c] = "receiving"
Unasked(event) == event = EndEvent /\ main = "reported"
OnlyEndStranded ==
  /\ \A i \in 1..Len(inbox) : Awaited(inbox[i]) \/ Unasked(inbox[i])
  /\ \A i \in 1..Len(held) :
       held[i] = EndEvent /\ (Awaited(held[i]) \/ Unasked(held[i]))
  /\ LET mail == held \o inbox IN
     \A i, j \in 1..Len(mail) : mail[i] = EndEvent /\ mail[j] = EndEvent => i = j

(* Whoever asks over the context gets an answer or an exception, and goes  *)
(* on, even if the task is over meanwhile.                                 *)
CallsReturn == \A c \in Caller : caller[c] = "sending" ~> caller[c] = "idle"

(* A main coroutine that reports gets the end event, though a caller it    *)
(* left behind may take the event first.                                   *)
EndArrives == main = "reporting" ~> main = "ended"
=============================================================================
