--------------------------- MODULE Lifespan_proofs ---------------------------
(* Theorems about Lifespan: for any number of handlers.                     *)
EXTENDS Lifespan, TLAPS

(* Where the application stands says which events were set, and the other *)
(* way around: that is all the server has to go by.                       *)
Phases ==
  /\ app = "none" <=> server = "new"
  /\ app \in {"created", "entering"} => server = "starting"
  /\ app \in {"none", "created", "entering"} => ~startup_event
  /\ app \in {"running", "leaving", "over"} => startup_event
  /\ shutdown_event <=> app = "over"
  /\ error_occurred => app = "over"

(* A cancellation reaches a server that serves and an application that    *)
(* runs, and the application's end says what it was.                      *)
Ends ==
  /\ "server" \in cancelled => server = "serving"
  /\ "app" \in cancelled => app = "running"
  /\ app \in {"none", "created", "entering", "running"} => cause = "none"
  /\ app = "leaving" => cause \in {"none", "cancelled"}
  /\ app = "over" /\ cause \in {"none", "cancelled"} => ran = teardown
  /\ server = "done" => app = "over"

(* While the server works there is no message: the application runs, or   *)
(* it is over, unless a cancellation reached it.                          *)
Quiet ==
  /\ app = "none" => receive_queue = <<>> /\ cancelled = {}
  /\ app = "created" => Len(receive_queue) = 1
  /\ app \in {"entering", "running"} /\ server \in {"starting", "serving"} =>
       receive_queue = <<>>
  /\ server = "starting" => cancelled = {} /\ app # "leaving"
  /\ server = "serving" /\ cancelled = {} => app \in {"running", "over"}
  /\ server = "serving" /\ cancelled # {} => "server" \in cancelled

IInv == TypeOK /\ Phases /\ Ends /\ Quiet

(* It holds in the beginning. *)

(* It holds in the beginning. *)
LEMMA Begins == Init => IInv
<1> SUFFICES ASSUME Init PROVE IInv
  OBVIOUS
<1>1. FlagsOK
  BY Zenon DEF Init, FlagsOK
<1>2. TypeOK /\ Phases /\ Ends /\ Quiet
  BY <1>1, HandlerAssumption DEF Init, TypeOK, Phases, Ends, Quiet
<1> QED
  BY <1>2 DEF IInv

(* Every step keeps the types of events and flags. *)

(* Every step keeps the types of events and flags. *)
LEMMA FlagsKeep ==
  ASSUME FlagsOK, [Next]_vars
  PROVE  FlagsOK'
<1> USE DEF FlagsOK, events, flags, MainRaises
<1>1. CASE ServerSteps \/ ServerEnds \/ SystemExit
  BY <1>1, Zenon DEF ServerSteps, Startup, StartupReturns, ServerCancelled,
     Shutdown, ShutdownReturns, ServerEnds, SystemExit
<1>2. CASE SetUpSteps
  BY <1>2, Zenon DEF SetUpSteps, Enter, SetUp, SetUpFails, Started
<1>3. CASE TearDownSteps
  BY <1>3, Zenon DEF TearDownSteps, Leave, AppCancelled, TearDown,
     TearDownFails, TornDown
<1>4. CASE UNCHANGED vars
  BY <1>4 DEF vars
<1> QED
  BY <1>1, <1>2, <1>3, <1>4 DEF Next

(* What the server does leaves the application alone, but for its start. *)
LEMMA ServerKeeps ==
  ASSUME IInv, FlagsOK', ServerSteps \/ ServerEnds \/ SystemExit
  PROVE  IInv'
<1> USE HandlerAssumption
    DEF IInv, TypeOK, Phases, Ends, Quiet, handlers, events, flags
<1>1. CASE Startup
  BY <1>1 DEF Startup
<1>2. CASE StartupReturns
  BY <1>2 DEF StartupReturns
<1>3. CASE ServerCancelled
  BY <1>3 DEF ServerCancelled
<1>4. CASE Shutdown
  BY <1>4 DEF Shutdown
<1>5. CASE ShutdownReturns
  BY <1>5 DEF ShutdownReturns
<1>6. CASE ServerEnds
  BY <1>6 DEF ServerEnds
<1>7. CASE SystemExit
  BY <1>7 DEF SystemExit
<1> QED
  BY <1>1, <1>2, <1>3, <1>4, <1>5, <1>6, <1>7 DEF ServerSteps

(* Steps of the setup keep the invariant. *)

(* Steps of the setup keep the invariant. *)
LEMMA SetUpKeeps ==
  ASSUME IInv, FlagsOK', SetUpSteps
  PROVE  IInv'
<1> USE HandlerAssumption
    DEF IInv, TypeOK, Phases, Ends, Quiet, handlers, events, flags
<1>1. CASE Enter
  BY <1>1 DEF Enter
<1>2. CASE SetUp
  BY <1>2 DEF SetUp
<1>3. CASE SetUpFails
  BY <1>3 DEF SetUpFails, MainRaises
<1>4. CASE Started
  BY <1>4 DEF Started
<1> QED
  BY <1>1, <1>2, <1>3, <1>4 DEF SetUpSteps

(* So do those of the teardown. *)

(* So do those of the teardown. *)
LEMMA TearDownKeeps ==
  ASSUME IInv, FlagsOK', TearDownSteps
  PROVE  IInv'
<1> USE HandlerAssumption
    DEF IInv, TypeOK, Phases, Ends, Quiet, handlers, events, flags
<1>1. CASE Leave
  BY <1>1 DEF Leave
<1>2. CASE AppCancelled
  BY <1>2 DEF AppCancelled
<1>3. CASE TearDown
  BY <1>3 DEF TearDown
<1>4. CASE TearDownFails
  BY <1>4 DEF TearDownFails, MainRaises
<1>5. CASE TornDown
  BY <1>5 DEF TornDown
<1> QED
  BY <1>1, <1>2, <1>3, <1>4, <1>5 DEF TearDownSteps

(* The invariant holds in every reachable state, for any number of        *)
(* handlers: events, phases and cancellations agree.                      *)
THEOREM LifespanInvariant == Spec => []IInv
<1>1. IInv /\ [Next]_vars => IInv'
  <2> SUFFICES ASSUME IInv, [Next]_vars PROVE IInv'
    OBVIOUS
  <2>1. FlagsOK'
    BY FlagsKeep DEF IInv, TypeOK
  <2>2. CASE Next
    BY <2>1, <2>2, ServerKeeps, SetUpKeeps, TearDownKeeps DEF Next
  <2>3. CASE UNCHANGED vars
    BY <2>1, <2>3
    DEF vars, handlers, events, flags, IInv, TypeOK, Phases, Ends, Quiet
  <2> QED
    BY <2>2, <2>3
<1> QED
  BY <1>1, Begins, PTL DEF Spec

(* The variables keep their types, for any number of handlers. *)
THEOREM LifespanTypes == Spec => []TypeOK
<1>1. IInv => TypeOK
  BY DEF IInv
<1> QED
  BY <1>1, LifespanInvariant, PTL

(* No assertion of LifespanOn.send fails. *)
THEOREM SendsAreValid == Spec => []TransitionsValid
<1>1. IInv => TransitionsValid
  BY DEF IInv, Phases, TransitionsValid
<1> QED
  BY <1>1, LifespanInvariant, PTL

(* A server that is done left nothing set up, but for what a shutdown     *)
(* handler that raised left behind.                                       *)
THEOREM TeardownIsAwaited == Spec => []TeardownAwaited
<1>1. IInv => TeardownAwaited
  BY DEF IInv, Ends, TeardownAwaited
<1> QED
  BY <1>1, LifespanInvariant, PTL
=============================================================================
