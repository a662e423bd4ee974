------------------------------- MODULE Lifespan ------------------------------
(***************************************************************************)
(* The server's lifespan: LifespanOn on the one side, FastBPMN._lifespan   *)
(* in a task of its own on the other, two asyncio events and a queue       *)
(* between them.  The application is set up and torn down in steps, the    *)
(* handlers of on_startup and on_shutdown or the two halves of a lifespan  *)
(* function with try and finally.  While the server works a request may    *)
(* raise SystemExit, and asyncio.run cancels both sides, in any order.     *)
(*                                                                         *)
(* A step is what happens between two suspensions: what the application    *)
(* sends at its end, and main() after it, is one step with its last        *)
(* handler.                                                                *)
(***************************************************************************)
EXTENDS Naturals, Sequences

CONSTANT MaxHandlers  \* bound of the handlers of each kind

ASSUME HandlerAssumption == MaxHandlers \in Nat

VARIABLES
  setup,     \* number of startup handlers of this application
  teardown,  \* number of its shutdown handlers
  server,    \* "new", "starting", "serving", "stopping": to call shutdown,
             \* "waiting" for the application, "done"
  cancelled, \* who has a cancellation to come: "server", "app"
  app,       \* "none", "created", "entering", "running", "leaving", "over"
  ran,       \* handlers that ran in the phase the application is in
  cause,     \* what ended the application: "none", "startup", "shutdown":
             \* a handler raised, "cancelled"
  receive_queue, startup_event, shutdown_event,
  startup_failed, shutdown_failed, error_occurred, should_exit

handlers == <<setup, teardown>>
flags == <<startup_failed, shutdown_failed, error_occurred>>
events == <<startup_event, shutdown_event>>
vars == <<handlers, server, cancelled, app, ran, cause, receive_queue,
          events, flags, should_exit>>

Init ==
  /\ setup \in 0..MaxHandlers
  /\ teardown \in 0..MaxHandlers
  /\ server = "new"
  /\ cancelled = {}
  /\ app = "none"
  /\ ran = 0
  /\ cause = "none"
  /\ receive_queue = <<>>
  /\ startup_event = FALSE /\ shutdown_event = FALSE
  /\ startup_failed = FALSE /\ shutdown_failed = FALSE
  /\ error_occurred = FALSE
  /\ should_exit = FALSE

-----------------------------------------------------------------------------
(* The server.                                                             *)

(* startup() creates the task of main() and sends the startup event. *)
Startup ==
  /\ server = "new"
  /\ server' = "starting"
  /\ app' = "created"
  /\ receive_queue' = Append(receive_queue, "lifespan.startup")
  /\ UNCHANGED <<handlers, cancelled, ran, cause, events, flags, should_exit>>

(* startup() returns, and should_exit is not looked at.  Asking for the    *)
(* capabilities may raise, because handlers are registered twice.          *)
StartupReturns ==
  /\ server = "starting"
  /\ startup_event
  /\ should_exit' = (startup_failed \/ error_occurred)
  /\ server' \in {"serving", "stopping"}
  /\ UNCHANGED <<handlers, cancelled, app, ran, cause, receive_queue, events,
                 flags>>

(* Producer and workers ended. *)
ServerEnds ==
  /\ server = "serving"
  /\ "server" \notin cancelled
  /\ server' = "stopping"
  /\ UNCHANGED <<handlers, cancelled, app, ran, cause, receive_queue, events,
                 flags, should_exit>>

(* get() or post() gives up: the loop ends, all tasks get cancelled. *)
SystemExit ==
  /\ server = "serving"
  /\ cancelled = {}
  /\ cancelled' = {"server"} \cup (IF app = "over" THEN {} ELSE {"app"})
  /\ UNCHANGED <<handlers, server, app, ran, cause, receive_queue, events,
                 flags, should_exit>>

(* __call__ catches the CancelledError and leaves its contexts. *)
ServerCancelled ==
  /\ "server" \in cancelled
  /\ cancelled' = cancelled \ {"server"}
  /\ server' = "stopping"
  /\ UNCHANGED <<handlers, app, ran, cause, receive_queue, events, flags,
                 should_exit>>

(* Mutant of Shutdown: the event is not sent. *)
ShutdownUnsent ==
  /\ server = "stopping"
  /\ server' = IF error_occurred THEN "done" ELSE "waiting"
  /\ UNCHANGED <<handlers, cancelled, app, ran, cause, receive_queue, events,
                 flags, should_exit>>

(* Mutant of Shutdown: the application is told, not waited for. *)
ShutdownUnawaited ==
  /\ server = "stopping"
  /\ server' = "done"
  /\ receive_queue' = IF error_occurred THEN receive_queue
                      ELSE Append(receive_queue, "lifespan.shutdown")
  /\ UNCHANGED <<handlers, cancelled, app, ran, cause, events, flags,
                 should_exit>>

(* Mutant of Shutdown: the flag is set together with the message. *)
ShutdownEager ==
  /\ server = "stopping"
  /\ server' = IF error_occurred THEN "done" ELSE "waiting"
  /\ receive_queue' = IF error_occurred THEN receive_queue
                      ELSE Append(receive_queue, "lifespan.shutdown")
  /\ shutdown_event' = TRUE
  /\ UNCHANGED <<handlers, cancelled, app, ran, cause, startup_event, flags,
                 should_exit>>

(* shutdown(): an application that is over by an error is not asked. *)
Shutdown ==
  /\ server = "stopping"
  /\ \/ /\ error_occurred
        /\ server' = "done"
        /\ UNCHANGED receive_queue
     \/ /\ ~error_occurred
        /\ server' = "waiting"
        /\ receive_queue' = Append(receive_queue, "lifespan.shutdown")
  /\ UNCHANGED <<handlers, cancelled, app, ran, cause, events, flags,
                 should_exit>>

ShutdownReturns ==
  /\ server = "waiting"
  /\ shutdown_event
  /\ should_exit' = (should_exit \/ shutdown_failed \/ error_occurred)
  /\ server' = "done"
  /\ UNCHANGED <<handlers, cancelled, app, ran, cause, receive_queue, events,
                 flags>>

-----------------------------------------------------------------------------
(* The application.                                                        *)

(* main() after an exception of the application, and its finally. *)
MainRaises ==
  /\ app' = "over"
  /\ error_occurred' = TRUE
  /\ startup_event' = TRUE
  /\ shutdown_event' = TRUE

(* _lifespan takes the first event and enters the context. *)
Enter ==
  /\ app = "created"
  /\ receive_queue # <<>>
  /\ receive_queue' = Tail(receive_queue)
  /\ app' = "entering"
  /\ ran' = 0
  /\ UNCHANGED <<handlers, server, cancelled, cause, events, flags,
                 should_exit>>

(* Mutant of SetUp: one handler too many. *)
SetUpOnceMore ==
  /\ app = "entering"
  /\ ran <= setup
  /\ ran' = ran + 1
  /\ UNCHANGED <<handlers, server, cancelled, app, cause, receive_queue,
                 events, flags, should_exit>>

SetUp ==
  /\ app = "entering"
  /\ ran < setup
  /\ ran' = ran + 1
  /\ UNCHANGED <<handlers, server, cancelled, app, cause, receive_queue,
                 events, flags, should_exit>>

(* A handler raises: startup.failed, and no shutdown handler runs. *)
SetUpFails ==
  /\ app = "entering"
  /\ ran < setup
  /\ startup_failed' = TRUE
  /\ MainRaises
  /\ cause' = "startup"
  /\ UNCHANGED <<handlers, server, cancelled, ran, receive_queue,
                 shutdown_failed, should_exit>>

(* startup.complete; the application waits for the next event. *)
Started ==
  /\ app = "entering"
  /\ ran = setup
  /\ startup_event' = TRUE
  /\ app' = "running"
  /\ UNCHANGED <<handlers, server, cancelled, ran, cause, receive_queue,
                 shutdown_event, flags, should_exit>>

Leave ==
  /\ app = "running"
  /\ "app" \notin cancelled
  /\ receive_queue # <<>>
  /\ receive_queue' = Tail(receive_queue)
  /\ app' = "leaving"
  /\ ran' = 0
  /\ UNCHANGED <<handlers, server, cancelled, cause, events, flags,
                 should_exit>>

(* The context is left with a CancelledError. *)
AppCancelled ==
  /\ "app" \in cancelled
  /\ cancelled' = cancelled \ {"app"}
  /\ app' = "leaving"
  /\ ran' = 0
  /\ cause' = "cancelled"
  /\ UNCHANGED <<handlers, server, receive_queue, events, flags, should_exit>>

TearDown ==
  /\ app = "leaving"
  /\ ran < teardown
  /\ ran' = ran + 1
  /\ UNCHANGED <<handlers, server, cancelled, app, cause, receive_queue,
                 events, flags, should_exit>>

(* A handler raises, or all of them ran after a cancellation, which goes   *)
(* on: shutdown.failed.                                                    *)
TearDownFails ==
  /\ app = "leaving"
  /\ \/ ran < teardown /\ cause' = "shutdown"
     \/ ran = teardown /\ cause = "cancelled" /\ UNCHANGED cause
  /\ shutdown_failed' = TRUE
  /\ MainRaises
  /\ UNCHANGED <<handlers, server, cancelled, ran, receive_queue,
                 startup_failed, should_exit>>

(* shutdown.complete. *)
TornDown ==
  /\ app = "leaving"
  /\ ran = teardown
  /\ cause = "none"
  /\ app' = "over"
  /\ shutdown_event' = TRUE
  /\ UNCHANGED <<handlers, server, cancelled, ran, cause, receive_queue,
                 startup_event, flags, should_exit>>

-----------------------------------------------------------------------------
ServerSteps ==
  Startup \/ StartupReturns \/ ServerCancelled \/ Shutdown \/ ShutdownReturns
SetUpSteps == Enter \/ SetUp \/ SetUpFails \/ Started
TearDownSteps ==
  Leave \/ AppCancelled \/ TearDown \/ TearDownFails \/ TornDown

Next ==
  ServerSteps \/ ServerEnds \/ SystemExit \/ SetUpSteps \/ TearDownSteps

Spec == Init /\ [][Next]_vars

(* Handlers end, and whoever is woken runs; the server may work for ever. *)
FairSpec ==
  Spec /\ WF_vars(ServerSteps) /\ WF_vars(SetUpSteps) /\ WF_vars(TearDownSteps)

-----------------------------------------------------------------------------
(* Properties.                                                             *)

FlagsOK ==
  /\ startup_event \in BOOLEAN /\ shutdown_event \in BOOLEAN
  /\ startup_failed \in BOOLEAN /\ shutdown_failed \in BOOLEAN
  /\ error_occurred \in BOOLEAN /\ should_exit \in BOOLEAN

(* The variables are typed; handlers are not run more than once. *)
TypeOK ==
  /\ setup \in 0..MaxHandlers /\ teardown \in 0..MaxHandlers
  /\ server \in {"new", "starting", "serving", "stopping", "waiting", "done"}
  /\ cancelled \subseteq {"server", "app"}
  /\ app \in {"none", "created", "entering", "running", "leaving", "over"}
  /\ ran \in 0..MaxHandlers
  /\ app \in {"entering", "running"} => ran <= setup
  /\ app = "leaving" => ran <= teardown
  /\ cause \in {"none", "startup", "shutdown", "cancelled"}
  /\ receive_queue \in Seq({"lifespan.startup", "lifespan.shutdown"})
  /\ FlagsOK

(* The assertions of LifespanOn.send hold wherever the application may     *)
(* send: it is not told twice that the startup or the shutdown is over,    *)
(* whichever side a cancellation reaches first.                            *)
TransitionsValid ==
  /\ app \in {"created", "entering"} => ~startup_event /\ ~shutdown_event
  /\ app \in {"running", "leaving"} => startup_event /\ ~shutdown_event

(* The server is not done before the application is: what was set up is    *)
(* torn down completely, unless a shutdown handler raised, even if the     *)
(* process ends by SystemExit.                                             *)
TeardownAwaited ==
  server = "done" =>
    /\ app = "over"
    /\ cause \in {"none", "cancelled"} => ran = teardown

(* Neither side waits for the other for ever: the startup is decided, and  *)
(* a server that stops is done in the end.                                 *)
LifespanSettles ==
  /\ server = "starting" ~> server \in {"serving", "stopping"}
  /\ server = "stopping" ~> server = "done"

(* An application whose startup failed is not served: the log says         *)
(* "Application startup failed. Exiting."                                  *)
ServesOnlyStarted == server = "serving" => ~startup_failed
=============================================================================
