---------------------------- MODULE Dispatch_proofs ----------------------------
(***************************************************************************)
(* Theorems about Dispatch, for any number of tasks and workers and any    *)
(* size of the semaphore: permits are conserved, the server returns in     *)
(* good order, and a signal is not followed by many more tasks.            *)
(***************************************************************************)
EXTENDS Dispatch, FiniteSetTheorems, SequenceTheorems, WellFoundedInduction, TLAPS

State == {"free", "getting", "asking", "locked", "finished"}
Getting == Having({"getting"})
Started == Having({"getting", "asking", "locked"})
Occupied == Worker \ Having({"free"})

(* Types, but for the queue and what is put into it. *)
Typed ==
  /\ server \in {"starting", "serving", "closing", "stopped", "exited"}
  /\ loop \in {"testing", "waiting", "draining", "ended"}
  /\ shutdown \in BOOLEAN /\ acquired \in BOOLEAN
  /\ permits \in Nat
  /\ worker \in [Worker -> State]
  /\ waiting \in Nat /\ late \in Nat

(* Every permit is in the semaphore, with a worker that is not released,   *)
(* or with the acquisition wait_() waits for; only the one that wait_()    *)
(* drops for the shutdown is lost.                                         *)
Permits ==
  LET out == Cardinality(Occupied) + (IF acquired THEN 1 ELSE 0) IN
  /\ permits + out <= Parallelism
  /\ loop \in {"testing", "waiting"} => permits + out = Parallelism
  /\ acquired => loop = "waiting"

(* The loop ends after its workers, the server after the loop, and only a  *)
(* SystemExit cuts a task off.                                             *)
Order ==
  /\ loop = "ended" => Started = {}
  /\ server \in {"closing", "stopped"} => loop = "ended"
  /\ server # "exited" => cut = {}

(* After the signal: what was begun, and what still may be begun by those  *)
(* that wait for a task or by the worker that wait_() has a permit for.    *)
Lateness ==
  /\ ~shutdown => late = 0
  /\ shutdown =>
       late + Cardinality(Getting) + (IF acquired THEN 1 ELSE 0) <= waiting

IInv == Typed /\ Permits /\ Order /\ Lateness
-----------------------------------------------------------------------------
(* Sets of workers.                                                         *)

(* They are finite, and counting them gives a number. *)
LEMMA Counts ==
  ASSUME NEW S \in SUBSET Worker
  PROVE  /\ IsFiniteSet(S) /\ Cardinality(S) \in Nat
         /\ \A w \in S : Cardinality(S \ {w}) = Cardinality(S) - 1
         /\ \A w \in Worker \ S : Cardinality(S \cup {w}) = Cardinality(S) + 1
<1>1. IsFiniteSet(S)
  BY WorkerAssumption, FS_Subset
<1>2. Cardinality(S) \in Nat
  BY <1>1, FS_CardinalityType
<1>3. ASSUME NEW w \in S PROVE Cardinality(S \ {w}) = Cardinality(S) - 1
  BY <1>1, <1>3, FS_RemoveElement
<1>4. ASSUME NEW w \in Worker \ S PROVE Cardinality(S \cup {w}) = Cardinality(S) + 1
  BY <1>1, <1>4, FS_AddElement
<1> QED
  BY <1>1, <1>2, <1>3, <1>4

(* A worker changes its state: the sets it is in change by itself. *)
LEMMA Moves ==
  ASSUME worker \in [Worker -> State], NEW w \in Worker, NEW s \in State,
         worker' = [worker EXCEPT ![w] = s]
  PROVE  /\ worker' \in [Worker -> State]
         /\ \A states : Having(states)' =
              (Having(states) \ {w}) \cup (IF s \in states THEN {w} ELSE {})
<1>1. \A v \in Worker : worker'[v] = IF v = w THEN s ELSE worker[v]
  OBVIOUS
<1>2. worker' \in [Worker -> State]
  OBVIOUS
<1>3. ASSUME NEW states
      PROVE  Having(states)' =
               (Having(states) \ {w}) \cup (IF s \in states THEN {w} ELSE {})
  BY <1>1 DEF Having
<1> QED
  BY <1>2, <1>3

(* What a step of a worker does to the numbers. *)
LEMMA MovesCount ==
  ASSUME worker \in [Worker -> State], NEW w \in Worker, NEW s \in State,
         worker' = [worker EXCEPT ![w] = s]
  PROVE  /\ Cardinality(Occupied) \in Nat /\ Cardinality(Getting) \in Nat
         /\ Cardinality(Occupied)' = Cardinality(Occupied)
              + (IF s # "free" THEN 1 ELSE 0) - (IF worker[w] # "free" THEN 1 ELSE 0)
         /\ Cardinality(Getting)' = Cardinality(Getting)
              + (IF s = "getting" THEN 1 ELSE 0)
              - (IF worker[w] = "getting" THEN 1 ELSE 0)
         /\ Started = {} /\ s \in {"free", "finished"} => Started' = {}
         /\ worker' \in [Worker -> State]
<1>1. \A states : Having(states)' =
        (Having(states) \ {w}) \cup (IF s \in states THEN {w} ELSE {})
  BY Moves
<1>2. /\ Occupied \in SUBSET Worker /\ Getting \in SUBSET Worker
      /\ w \in Occupied <=> worker[w] # "free"
      /\ w \in Getting <=> worker[w] = "getting"
  BY DEF Occupied, Getting, Having
<1>3. Occupied' = (Occupied \ {w}) \cup (IF s # "free" THEN {w} ELSE {})
  BY <1>1 DEF Occupied
<1>4. Getting' = (Getting \ {w}) \cup (IF s = "getting" THEN {w} ELSE {})
  BY <1>1 DEF Getting
<1>5. Started = {} /\ s \in {"free", "finished"} => Started' = {}
  BY <1>1 DEF Started
<1>6. ASSUME NEW S \in SUBSET Worker, NEW b \in BOOLEAN, NEW T,
             T = (S \ {w}) \cup (IF b THEN {w} ELSE {})
      PROVE  /\ Cardinality(S) \in Nat
             /\ Cardinality(T) = Cardinality(S) + (IF b THEN 1 ELSE 0)
                  - (IF w \in S THEN 1 ELSE 0)
  <2>1. Cardinality(S) \in Nat
    BY Counts
  <2>2. CASE b
    <3>1. CASE w \in S
      <4>1. T = S
        BY <1>6, <2>2, <3>1
      <4> QED
        BY <2>1, <2>2, <3>1, <4>1
    <3>2. CASE w \notin S
      <4>1. T = S \cup {w}
        BY <1>6, <2>2, <3>2
      <4>2. Cardinality(T) = Cardinality(S) + 1
        BY <3>2, <4>1, Counts
      <4> QED
        BY <2>1, <2>2, <3>2, <4>2
    <3> QED
      BY <3>1, <3>2
  <2>3. CASE ~b
    <3>1. T = S \ {w}
      BY <1>6, <2>3
    <3>2. CASE w \in S
      <4>1. Cardinality(T) = Cardinality(S) - 1
        BY <3>1, <3>2, Counts
      <4> QED
        BY <2>1, <2>3, <3>2, <4>1
    <3>3. CASE w \notin S
      <4>1. T = S
        BY <3>1, <3>3
      <4> QED
        BY <2>1, <2>3, <3>3, <4>1
    <3> QED
      BY <3>2, <3>3
  <2> QED
    BY <2>1, <2>2, <2>3
<1>7. /\ Cardinality(Occupied) \in Nat
      /\ Cardinality(Occupied') = Cardinality(Occupied)
           + (IF s # "free" THEN 1 ELSE 0) - (IF worker[w] # "free" THEN 1 ELSE 0)
  <2>1. (s # "free") \in BOOLEAN
    OBVIOUS
  <2> QED
    BY <1>2, <1>3, <1>6, <2>1
<1>8. /\ Cardinality(Getting) \in Nat
      /\ Cardinality(Getting') = Cardinality(Getting)
           + (IF s = "getting" THEN 1 ELSE 0)
           - (IF worker[w] = "getting" THEN 1 ELSE 0)
  <2>1. (s = "getting") \in BOOLEAN
    OBVIOUS
  <2> QED
    BY <1>2, <1>4, <1>6, <2>1
<1> QED
  BY <1>5, <1>7, <1>8, Moves

(* The sets depend on the workers only. *)
LEMMA SetsStay ==
  ASSUME UNCHANGED worker
  PROVE  Occupied' = Occupied /\ Getting' = Getting /\ Started' = Started
BY DEF Occupied, Getting, Started, Having

(* Numbers, in every state that is typed. *)
LEMMA Numbers ==
  ASSUME Typed
  PROVE  /\ Cardinality(Occupied) \in Nat /\ Cardinality(Getting) \in Nat
         /\ Parallelism \in Nat /\ permits \in Nat /\ late \in Nat /\ waiting \in Nat
         /\ Cardinality(Started) <= Cardinality(Occupied)
         /\ Cardinality(Started) \in Nat
<1>1. Occupied \in SUBSET Worker /\ Getting \in SUBSET Worker
      /\ Started \in SUBSET Worker /\ Started \subseteq Occupied
  BY DEF Occupied, Getting, Started, Having
<1>2. /\ Cardinality(Occupied) \in Nat /\ Cardinality(Getting) \in Nat
      /\ Cardinality(Started) \in Nat
  BY <1>1, Counts
<1>3. Cardinality(Started) <= Cardinality(Occupied)
  <2>1. IsFiniteSet(Occupied)
    BY <1>1, Counts
  <2> QED
    BY <1>1, <2>1, FS_Subset
<1> QED
  BY <1>2, <1>3, ParallelismAssumption DEF Typed
-----------------------------------------------------------------------------
(* Steps.                                                                   *)

(* The initial states. *)
LEMMA Begins ==
  ASSUME Init
  PROVE  IInv
<1>1. /\ Occupied = {} /\ Started = {} /\ Getting = {}
  BY DEF Init, Occupied, Started, Getting, Having
<1>2. Cardinality(Occupied) = 0
  BY <1>1, FS_EmptySet
<1>3. Typed
  BY ParallelismAssumption DEF Init, Typed, State
<1> QED
  BY <1>1, <1>2, <1>3, ParallelismAssumption
     DEF Init, IInv, Permits, Order, Lateness

(* The engine, the producer and the server's own steps move no worker. *)
LEMMA OutsideKeeps ==
  ASSUME IInv,
         \/ \E t \in Task : TaskAppears(t) \/ TaskVanishes(t)
         \/ Serving \/ SystemExit \/ Producing \/ (server = "serving" /\ ProducerFails)
         \/ UNCHANGED vars
  PROVE  IInv'
<1> USE DEF queueing, producing, looping, working, history, vars
<1>1. UNCHANGED <<worker, looping, shutdown, waiting, late>>
  BY DEF TaskAppears, TaskVanishes, Serving, Serve, Close, Stop, SystemExit,
     Producing, ProducerTests, Fetched, PutAll, ProducerFails
<1>2. Occupied' = Occupied /\ Getting' = Getting /\ Started' = Started
  BY <1>1, SetsStay
<1>3. /\ server' \in {"starting", "serving", "closing", "stopped", "exited"}
      /\ server' \in {"closing", "stopped"} => loop = "ended"
      /\ server' # "exited" => cut' = {}
  BY DEF TaskAppears, TaskVanishes, Serving, Serve, Close, Stop, SystemExit,
     Producing, ProducerTests, Fetched, PutAll, ProducerFails, IInv, Typed,
     Order
<1>4. Typed' /\ Order'
  BY <1>1, <1>2, <1>3 DEF IInv, Typed, Order
<1>5. Permits' /\ Lateness'
  BY <1>1, <1>2 DEF IInv, Permits, Lateness
<1> QED
  BY <1>4, <1>5 DEF IInv

(* The signal counts those that wait. *)
LEMMA SignalKeeps ==
  ASSUME IInv, Signal
  PROVE  IInv'
<1> USE DEF queueing, producing, looping, working, history
<1>1. /\ UNCHANGED <<server, worker, looping, cut, late>>
      /\ ~shutdown /\ shutdown' = TRUE
      /\ waiting' = Cardinality(Getting) + (IF acquired THEN 1 ELSE 0)
  BY DEF Signal, Promise, Getting
<1>2. Occupied' = Occupied /\ Getting' = Getting /\ Started' = Started
  BY <1>1, SetsStay
<1>3. Cardinality(Getting) \in Nat /\ late = 0
  BY <1>1, Numbers DEF IInv, Lateness
<1>4. Typed' /\ Order'
  BY <1>1, <1>2, <1>3 DEF IInv, Typed, Order
<1>5. Permits'
  BY <1>1, <1>2 DEF IInv, Permits
<1>6. Lateness'
  BY <1>1, <1>2, <1>3 DEF Lateness
<1> QED
  BY <1>4, <1>5, <1>6 DEF IInv

(* The loop takes permits, and creates a worker with each. *)
LEMMA LoopKeeps ==
  ASSUME IInv, Looping
  PROVE  IInv'
<1> USE DEF queueing, producing, looping, working, history
<1>1. Typed /\ Permits /\ Order /\ Lateness
  BY DEF IInv
<1>2. /\ Cardinality(Occupied) \in Nat /\ Cardinality(Getting) \in Nat
      /\ Parallelism \in Nat /\ permits \in Nat /\ late \in Nat /\ waiting \in Nat
  BY <1>1, Numbers
<1>3. CASE LoopTests \/ Acquire \/ WakesForShutdown \/ Drained
  <2>1. /\ UNCHANGED <<server, worker, shutdown, cut, waiting, late>>
        /\ server = "serving"
    BY <1>3 DEF LoopTests, Acquire, WakesForShutdown, Drained, Looping
  <2>2. Occupied' = Occupied /\ Getting' = Getting /\ Started' = Started
    BY <2>1, SetsStay
  <2>3. Typed'
    <3>1. loop' \in {"testing", "waiting", "draining", "ended"}
      BY <1>3 DEF LoopTests, Acquire, WakesForShutdown, Drained
    <3>2. permits' \in Nat
      BY <1>2, <1>3 DEF LoopTests, Acquire, WakesForShutdown, Drained
    <3>3. acquired' \in BOOLEAN
      BY <1>1, <1>3, Zenon
         DEF Typed, LoopTests, Acquire, WakesForShutdown, Drained
    <3> QED
      BY <1>1, <2>1, <3>1, <3>2, <3>3 DEF Typed
  <2>4. Order'
    BY <1>1, <1>3, <2>1, <2>2
       DEF Order, LoopTests, Acquire, WakesForShutdown, Drained, Started
  <2>5. Permits'
    BY <1>1, <1>2, <1>3, <2>2
       DEF Typed, Permits, LoopTests, Acquire, WakesForShutdown, Drained
  <2>6. Lateness'
    BY <1>1, <1>2, <1>3, <2>1, <2>2
       DEF Lateness, Typed, LoopTests, Acquire, WakesForShutdown, Drained
  <2> QED
    BY <2>3, <2>4, <2>5, <2>6 DEF IInv
<1>4. ASSUME NEW w \in Worker, WakesForWorker(w) PROVE IInv'
  <2>1. /\ loop = "waiting" /\ acquired /\ worker[w] = "free"
        /\ worker' = [worker EXCEPT ![w] = "getting"]
        /\ acquired' = FALSE /\ loop' = "testing"
        /\ UNCHANGED <<server, shutdown, permits, cut, waiting, late>>
        /\ server = "serving"
    BY <1>4 DEF WakesForWorker, Looping
  <2>2. /\ Cardinality(Occupied)' = Cardinality(Occupied) + 1
        /\ Cardinality(Getting)' = Cardinality(Getting) + 1
        /\ worker' \in [Worker -> State]
    <3>1. worker \in [Worker -> State]
      BY <1>1 DEF Typed
    <3>2. "getting" \in State
      BY DEF State
    <3>3. /\ Cardinality(Occupied)' = Cardinality(Occupied)
                 + (IF "getting" # "free" THEN 1 ELSE 0)
                 - (IF worker[w] # "free" THEN 1 ELSE 0)
          /\ Cardinality(Getting)' = Cardinality(Getting)
                 + (IF "getting" = "getting" THEN 1 ELSE 0)
                 - (IF worker[w] = "getting" THEN 1 ELSE 0)
          /\ Started = {} /\ "getting" \in {"free", "finished"} => Started' = {}
          /\ worker' \in [Worker -> State]
      BY <2>1, <3>1, <3>2, MovesCount
    <3> QED
      BY <1>2, <2>1, <3>3
  <2>3. Typed' /\ Order'
    BY <1>1, <2>1, <2>2 DEF Typed, Order
  <2>4. Permits'
    BY <1>1, <1>2, <2>1, <2>2 DEF Permits
  <2>5. Lateness'
    BY <1>1, <1>2, <2>1, <2>2 DEF Lateness
  <2> QED
    BY <2>3, <2>4, <2>5 DEF IInv
<1> QED
  BY <1>3, <1>4 DEF Looping

(* A worker keeps its permit until it is released. *)
LEMMA WorkerKeeps ==
  ASSUME IInv, NEW w \in Worker, Working(w)
  PROVE  IInv'
<1> USE DEF queueing, producing, looping, working, history
<1>1. Typed /\ Permits /\ Order /\ Lateness
  BY DEF IInv
<1>2. /\ Cardinality(Occupied) \in Nat /\ Cardinality(Getting) \in Nat
      /\ Parallelism \in Nat /\ permits \in Nat /\ late \in Nat /\ waiting \in Nat
  BY <1>1, Numbers
<1>3. /\ server = "serving" /\ UNCHANGED <<server, shutdown, loop, acquired, cut, waiting>>
  BY DEF Working, Take, FindsClosed, Lock, Refused, Finish, Release
<1>4. Started = {} => worker[w] \in {"free", "finished"}
  BY <1>1 DEF Started, Having, Typed, State
<1>5. CASE Take(w)
  <2>1. /\ worker[w] = "getting" /\ worker' = [worker EXCEPT ![w] = "asking"]
        /\ late' = (IF shutdown THEN late + 1 ELSE late) /\ permits' = permits
    BY <1>5 DEF Take
  <2>2. /\ Cardinality(Occupied)' = Cardinality(Occupied)
        /\ Cardinality(Getting)' = Cardinality(Getting) - 1
        /\ worker' \in [Worker -> State]
    <3>1. worker \in [Worker -> State]
      BY <1>1 DEF Typed
    <3>2. "asking" \in State
      BY DEF State
    <3>3. /\ Cardinality(Occupied)' = Cardinality(Occupied)
                 + (IF "asking" # "free" THEN 1 ELSE 0)
                 - (IF worker[w] # "free" THEN 1 ELSE 0)
          /\ Cardinality(Getting)' = Cardinality(Getting)
                 + (IF "asking" = "getting" THEN 1 ELSE 0)
                 - (IF worker[w] = "getting" THEN 1 ELSE 0)
          /\ Started = {} /\ "asking" \in {"free", "finished"} => Started' = {}
          /\ worker' \in [Worker -> State]
      BY <2>1, <3>1, <3>2, MovesCount
    <3> QED
      BY <1>2, <2>1, <3>3
  <2>3. Typed' /\ Order'
    BY <1>1, <1>2, <1>3, <1>4, <2>1, <2>2 DEF Typed, Order
  <2>4. Permits' /\ Lateness'
    BY <1>1, <1>2, <1>3, <2>1, <2>2 DEF Permits, Lateness, Typed
  <2> QED
    BY <2>3, <2>4 DEF IInv
<1>6. CASE FindsClosed(w) \/ Lock(w) \/ Refused(w) \/ Finish(w)
  <2>1. PICK s \in {"finished", "locked"} :
          /\ worker' = [worker EXCEPT ![w] = s]
          /\ worker[w] \in {"getting", "asking", "locked"}
          /\ UNCHANGED <<permits, late>>
    BY <1>6 DEF FindsClosed, Lock, Refused, Finish
  <2>2. /\ Cardinality(Occupied)' = Cardinality(Occupied)
        /\ Cardinality(Getting)' \in {Cardinality(Getting), Cardinality(Getting) - 1}
        /\ worker' \in [Worker -> State]
    <3>1. worker \in [Worker -> State]
      BY <1>1 DEF Typed
    <3>2. s \in State
      BY <2>1 DEF State
    <3>3. /\ Cardinality(Occupied)' = Cardinality(Occupied)
                 + (IF s # "free" THEN 1 ELSE 0)
                 - (IF worker[w] # "free" THEN 1 ELSE 0)
          /\ Cardinality(Getting)' = Cardinality(Getting)
                 + (IF s = "getting" THEN 1 ELSE 0)
                 - (IF worker[w] = "getting" THEN 1 ELSE 0)
          /\ Started = {} /\ s \in {"free", "finished"} => Started' = {}
          /\ worker' \in [Worker -> State]
      BY <2>1, <3>1, <3>2, MovesCount
    <3> QED
      BY <1>2, <2>1, <3>3
  <2>3. Typed' /\ Order'
    BY <1>1, <1>3, <1>4, <2>1, <2>2 DEF Typed, Order
  <2>4. Permits' /\ Lateness'
    BY <1>1, <1>2, <1>3, <2>1, <2>2 DEF Permits, Lateness
  <2> QED
    BY <2>3, <2>4 DEF IInv
<1>7. CASE Release(w)
  <2>1. /\ worker[w] = "finished" /\ worker' = [worker EXCEPT ![w] = "free"]
        /\ permits' = permits + 1 /\ UNCHANGED late
    BY <1>7 DEF Release
  <2>2. /\ Cardinality(Occupied)' = Cardinality(Occupied) - 1
        /\ Cardinality(Getting)' = Cardinality(Getting)
        /\ worker' \in [Worker -> State]
        /\ Started = {} => Started' = {}
    <3>1. worker \in [Worker -> State]
      BY <1>1 DEF Typed
    <3>2. "free" \in State
      BY DEF State
    <3>3. /\ Cardinality(Occupied)' = Cardinality(Occupied)
                 + (IF "free" # "free" THEN 1 ELSE 0)
                 - (IF worker[w] # "free" THEN 1 ELSE 0)
          /\ Cardinality(Getting)' = Cardinality(Getting)
                 + (IF "free" = "getting" THEN 1 ELSE 0)
                 - (IF worker[w] = "getting" THEN 1 ELSE 0)
          /\ Started = {} /\ "free" \in {"free", "finished"} => Started' = {}
          /\ worker' \in [Worker -> State]
      BY <2>1, <3>1, <3>2, MovesCount
    <3> QED
      BY <1>2, <2>1, <3>3
  <2>3. Typed' /\ Order'
    BY <1>1, <1>2, <1>3, <2>1, <2>2 DEF Typed, Order
  <2>4. Permits' /\ Lateness'
    BY <1>1, <1>2, <1>3, <2>1, <2>2 DEF Permits, Lateness
  <2> QED
    BY <2>3, <2>4 DEF IInv
<1> QED
  BY <1>5, <1>6, <1>7 DEF Working
-----------------------------------------------------------------------------
(* The theorems.                                                            *)

(* Permits, the order of the end and the tasks after the signal are kept   *)
(* by every step.                                                          *)
THEOREM DispatchInvariant == Spec => []IInv
<1>1. IInv /\ [Next]_vars => IInv'
  BY OutsideKeeps, SignalKeeps, LoopKeeps, WorkerKeeps DEF Next
<1> QED
  BY <1>1, Begins, PTL DEF Spec

(* The semaphore's permits bound the workers, and none is lost while the   *)
(* server takes tasks: whatever ends a worker, its permit comes back once. *)
THEOREM PermitsKept == Spec => []PermitsConserved
<1>1. IInv => PermitsConserved
  <2> SUFFICES ASSUME IInv PROVE PermitsConserved
    OBVIOUS
  <2>1. /\ Cardinality(Occupied) \in Nat /\ Parallelism \in Nat /\ permits \in Nat
        /\ Cardinality(Started) <= Cardinality(Occupied)
        /\ Cardinality(Started) \in Nat
    BY Numbers DEF IInv
  <2>2. Cardinality(Started) <= Parallelism
    BY <2>1 DEF IInv, Permits
  <2>3. loop \in {"testing", "waiting"} =>
          permits + Cardinality(Occupied) + (IF acquired THEN 1 ELSE 0) = Parallelism
    BY <2>1 DEF IInv, Permits
  <2> QED
    BY <2>2, <2>3 DEF PermitsConserved, Started, Occupied
<1> QED
  BY <1>1, DispatchInvariant, PTL

(* A server that returns without a SystemExit has seen every task to its   *)
(* end that a worker had taken.                                            *)
THEOREM StopsInOrder == Spec => []OrderlyStop
<1>1. IInv => OrderlyStop
  BY DEF IInv, Order, OrderlyStop, Busy, Started, Having
<1> QED
  BY <1>1, DispatchInvariant, PTL

(* After the signal, the tasks that are begun are those of the workers     *)
(* that waited for one, and of the one there was a permit for.             *)
THEOREM FewLateStarts == Spec => []LateStarts
<1>1. IInv => LateStarts
  <2> SUFFICES ASSUME IInv PROVE LateStarts
    OBVIOUS
  <2>1. Cardinality(Getting) \in Nat /\ late \in Nat /\ waiting \in Nat
    BY Numbers DEF IInv
  <2> QED
    BY <2>1 DEF IInv, Lateness, LateStarts, Typed
<1> QED
  BY <1>1, DispatchInvariant, PTL

-----------------------------------------------------------------------------
(* The queue.                                                               *)

(* What UniqueQueue keeps: tasks, each once, and not too many. *)
Queues == {q \in Seq(Task) : Len(q) <= Parallelism /\ IsInjective(q)}

(* What one value of the fold has to be: the queue after the tasks of an    *)
(* answer s whose places are in t.                                          *)
Fold(f, D, q, s) ==
  f = [t \in D |-> IF t = {} THEN q ELSE Put(f[t \ {Max(t)}], s[Max(t)])]

(* A task that is put keeps the queue one. *)
LEMMA PutKeeps ==
  ASSUME NEW q \in Queues, NEW t \in Task
  PROVE  Put(q, t) \in Queues
<1>1. q \in Seq(Task) /\ Len(q) <= Parallelism /\ IsInjective(q) /\ Len(q) \in Nat
  BY DEF Queues
<1>2. CASE Len(q) >= Parallelism \/ t \in ToSet(q)
  BY <1>2 DEF Put
<1>3. CASE ~ (Len(q) >= Parallelism \/ t \in ToSet(q))
  <2> DEFINE p == Append(q, t)
  <2>1. /\ p \in Seq(Task) /\ Len(p) = Len(q) + 1 /\ p[Len(q) + 1] = t
        /\ \A i \in 1 .. Len(q) : p[i] = q[i]
    BY <1>1, AppendProperties
  <2>2. DOMAIN q = 1 .. Len(q) /\ DOMAIN p = 1 .. Len(q) + 1
    BY <1>1, <2>1
  <2> HIDE DEF p
  <2>3. \A i \in 1 .. Len(q) : q[i] # t
    BY <1>3, <2>2 DEF ToSet
  <2>4. IsInjective(p)
    <3> SUFFICES ASSUME NEW i \in 1 .. Len(q) + 1, NEW j \in 1 .. Len(q) + 1,
                        p[i] = p[j]
                 PROVE  i = j
      BY <2>2 DEF IsInjective
    <3>1. (i \in 1 .. Len(q) \/ i = Len(q) + 1) /\ (j \in 1 .. Len(q) \/ j = Len(q) + 1)
      BY <1>1
    <3>2. ASSUME i \in 1 .. Len(q), j \in 1 .. Len(q) PROVE i = j
      <4>1. q[i] = q[j]
        BY <2>1, <3>2
      <4> QED
        BY <1>1, <2>2, <3>2, <4>1 DEF IsInjective
    <3> QED
      BY <2>1, <2>3, <3>1, <3>2
  <2>5. Len(p) <= Parallelism
    BY <1>1, <1>3, <2>1, ParallelismAssumption
  <2>6. Put(q, t) = p
    BY <1>3 DEF Put, p
  <2> QED
    BY <2>1, <2>4, <2>5, <2>6 DEF Queues
<1> QED
  BY <1>2, <1>3

(* The greatest place of an answer that is not empty. *)
LEMMA Greatest ==
  ASSUME NEW m \in Nat, NEW t \in SUBSET (1 .. m + 1), m + 1 \in t
  PROVE  Max(t) = m + 1
<1>1. \A y \in t : y \in 1 .. m + 1 /\ m + 1 >= y
  OBVIOUS
<1>2. \E x \in t : \A y \in t : x >= y
  BY <1>1
<1>3. Max(t) \in t /\ \A y \in t : Max(t) >= y
  BY <1>2 DEF Max
<1>4. Max(t) \in 1 .. m + 1 /\ Max(t) >= m + 1
  BY <1>1, <1>3
<1> QED
  BY <1>4

(* The recursive function in FoldLeft exists: for each prefix one that is  *)
(* right so far, and that goes on.                                         *)
LEMMA FoldExists ==
  ASSUME NEW n \in Nat, NEW q, NEW s
  PROVE  \E f : Fold(f, SUBSET (1 .. n), q, s)
<1> DEFINE Good(m) == \E f : Fold(f, SUBSET (1 .. m), q, s)
           B == {m \in Nat : ~ Good(m)}
<1>1. Good(0)
  <2> DEFINE f == [t \in SUBSET (1 .. 0) |-> q]
  <2>1. \A t \in SUBSET (1 .. 0) : t = {}
    OBVIOUS
  <2>2. Fold(f, SUBSET (1 .. 0), q, s)
    BY <2>1 DEF Fold
  <2> HIDE DEF f
  <2> QED
    BY <2>2
<1>2. ASSUME NEW m \in Nat, Good(m) PROVE Good(m + 1)
  <2> DEFINE D == SUBSET (1 .. m)
             E == SUBSET (1 .. m + 1)
             k == m + 1
  <2>1. PICK g : Fold(g, D, q, s)
    BY <1>2
  <2> DEFINE f == [t \in E |-> IF k \in t THEN Put(g[t \ {k}], s[k]) ELSE g[t]]
             h == [t \in E |-> IF t = {} THEN q
                                         ELSE Put(f[t \ {Max(t)}], s[Max(t)])]
  <2>2. ASSUME NEW t \in E PROVE f[t] = h[t]
    <3>0. k \in Nat /\ 1 .. m \subseteq 1 .. k /\ k \notin 1 .. m
          /\ \A i \in 1 .. k : i # k => i \in 1 .. m
      OBVIOUS
    <3>1. CASE k \in t
      <4>1. Max(t) = k
        BY <3>1, Greatest
      <4>2. t \ {k} \in E /\ k \notin t \ {k}
        OBVIOUS
      <4>3. f[t \ {k}] = g[t \ {k}]
        BY <4>2
      <4> HIDE DEF k
      <4> QED
        BY <3>1, <4>1, <4>3
    <3>2. CASE k \notin t
      <4>1. t \in D /\ f[t] = g[t]
        BY <3>0, <3>2
      <4>2. t # {} => g[t] = Put(g[t \ {Max(t)}], s[Max(t)])
        BY <2>1, <4>1 DEF Fold
      <4>3. t = {} => g[t] = q
        BY <2>1, <4>1 DEF Fold
      <4>4. t \ {Max(t)} \in E /\ k \notin t \ {Max(t)}
        BY <3>2
      <4>5. f[t \ {Max(t)}] = g[t \ {Max(t)}]
        BY <4>4
      <4> QED
        BY <4>1, <4>2, <4>3, <4>5
    <3> QED
      BY <3>1, <3>2
  <2>3. f = [t \in E |-> f[t]] /\ h = [t \in E |-> h[t]]
    OBVIOUS
  <2> HIDE DEF f, h
  <2>4. f = h
    BY <2>2, <2>3
  <2>5. Fold(f, E, q, s)
    BY <2>4 DEF h, Fold
  <2> QED
    BY <2>5
<1> HIDE DEF Good
<1>3. B = {}
  <2> SUFFICES ASSUME B # {} PROVE FALSE
    OBVIOUS
  <2> DEFINE R == OpToRel(<, Nat)
  <2>1. IsWellFoundedOn(R, Nat) /\ B \subseteq Nat
    BY NatLessThanWellFounded
  <2>2. PICK m \in B : \A k \in B : ~ (<<k, m>> \in R)
    <3> HIDE DEF R, B
    <3> QED
      BY <2>1, WFMin
  <2>3. m \in Nat /\ m # 0 /\ m - 1 \in Nat /\ m - 1 < m /\ (m - 1) + 1 = m
    BY <1>1
  <2>4. <<m - 1, m>> \in R
    BY <2>3 DEF OpToRel
  <2>5. Good(m - 1)
    BY <2>2, <2>3, <2>4
  <2>6. Good(m)
    BY <1>2, <2>3, <2>5
  <2> QED
    BY <2>2, <2>6
<1>4. Good(n)
  BY <1>3
<1> QED
  BY <1>4 DEF Good

(* The tasks of an answer are put, one after the other: the queue stays    *)
(* within its size, and no task is in it twice.                            *)
LEMMA FoldKeeps ==
  ASSUME NEW q \in Queues, NEW s \in Seq(Task)
  PROVE  FoldLeft(Put, q, s) \in Queues
<1> DEFINE n == Len(s)
           D == SUBSET (1 .. n)
           F == CHOOSE f : Fold(f, D, q, s)
<1>1. n \in Nat /\ DOMAIN s = 1 .. n
  OBVIOUS
<1>2. FoldLeft(Put, q, s) = F[1 .. n]
  BY <1>1 DEF FoldLeft, MapThenFoldSet, Fold
<1>3. Fold(F, D, q, s)
  <2> HIDE DEF n
  <2> QED
    BY <1>1, FoldExists
<1>4. \A i \in 1 .. n : s[i] \in Task
  OBVIOUS
<1> HIDE DEF n, F
<1> DEFINE B == {m \in 0 .. n : F[1 .. m] \notin Queues}
<1>5. B = {}
  <2> SUFFICES ASSUME B # {} PROVE FALSE
    OBVIOUS
  <2> DEFINE R == OpToRel(<, Nat)
  <2>1. IsWellFoundedOn(R, Nat) /\ B \subseteq Nat
    <3>1. B \subseteq Nat
      BY <1>1
    <3>2. IsWellFoundedOn(R, Nat)
      BY NatLessThanWellFounded
    <3> QED
      BY <3>1, <3>2
  <2>2. PICK m \in B : \A k \in B : ~ (<<k, m>> \in R)
    <3> HIDE DEF R, B
    <3> QED
      BY <2>1, WFMin
  <2>3. m \in 0 .. n /\ 1 .. m \in D
    BY <1>1
  <2>4. CASE m = 0
    <3>1. 1 .. m = {}
      BY <2>4
    <3>2. F[1 .. m] = q
      BY <1>3, <2>3, <3>1 DEF Fold
    <3> QED
      BY <2>2, <3>2
  <2>5. CASE m # 0
    <3>1. m \in 1 .. n /\ m - 1 \in 0 .. n /\ (m - 1) + 1 = m /\ m \in 1 .. m
          /\ m - 1 \in Nat /\ m \in Nat
      BY <1>1, <2>3, <2>5
    <3>2. Max(1 .. m) = m
      <4> DEFINE k == m - 1
      <4>1. k \in Nat /\ k + 1 = m
        BY <3>1
      <4> HIDE DEF k
      <4> QED
        BY <3>1, <4>1, Greatest
    <3>3. (1 .. m) \ {m} = 1 .. (m - 1)
      BY <3>1
    <3>4. 1 .. m # {}
      BY <3>1
    <3>5. F[1 .. m] = Put(F[(1 .. m) \ {Max(1 .. m)}], s[Max(1 .. m)])
      BY <1>3, <2>3, <3>4 DEF Fold
    <3>6. F[1 .. m] = Put(F[1 .. (m - 1)], s[m])
      BY <3>2, <3>3, <3>5
    <3>7. <<m - 1, m>> \in R
      BY <3>1 DEF OpToRel
    <3>8. F[1 .. (m - 1)] \in Queues
      BY <2>2, <3>1, <3>7
    <3>9. Put(F[1 .. (m - 1)], s[m]) \in Queues
      BY <1>4, <3>1, <3>8, PutKeeps
    <3> QED
      BY <2>2, <3>6, <3>9
  <2> QED
    BY <2>4, <2>5
<1>6. n \in 0 .. n
  BY <1>1
<1> QED
  BY <1>2, <1>5, <1>6

(* The oldest task that is taken leaves a queue. *)
LEMMA TakeKeeps ==
  ASSUME NEW q \in Queues, q # <<>>
  PROVE  Head(q) \in Task /\ Tail(q) \in Queues
<1>1. /\ q \in Seq(Task) /\ Len(q) \in Nat /\ Len(q) > 0 /\ Len(q) <= Parallelism
      /\ IsInjective(q) /\ DOMAIN q = 1 .. Len(q)
  BY DEF Queues
<1>2. /\ Head(q) \in Task /\ Tail(q) \in Seq(Task) /\ Len(Tail(q)) = Len(q) - 1
      /\ \A i \in 1 .. Len(q) - 1 : Tail(q)[i] = q[i + 1]
  BY <1>1, HeadTailProperties
<1>3. IsInjective(Tail(q))
  <2> SUFFICES ASSUME NEW i \in 1 .. Len(q) - 1, NEW j \in 1 .. Len(q) - 1,
                      Tail(q)[i] = Tail(q)[j]
               PROVE  i = j
    BY <1>2 DEF IsInjective
  <2>1. q[i + 1] = q[j + 1] /\ i + 1 \in 1 .. Len(q) /\ j + 1 \in 1 .. Len(q)
    BY <1>1, <1>2
  <2>2. i + 1 = j + 1
    BY <1>1, <2>1 DEF IsInjective
  <2> QED
    BY <2>2
<1>4. Len(Tail(q)) <= Parallelism
  BY <1>1, <1>2, ParallelismAssumption
<1> QED
  BY <1>2, <1>3, <1>4 DEF Queues

-----------------------------------------------------------------------------
(* Types, all of them.                                                      *)

(* A worker on a task has one. *)
Held == \A w \in Worker : worker[w] \in {"asking", "locked"} => holds[w] \in Task

TInv == IInv /\ TypeOK /\ Held

(* The outcome of a fetch. *)
LEMMA FetchKeeps ==
  ASSUME TypeOK, Fetched
  PROVE  answer' \in Seq(Task) /\ Len(answer') <= Parallelism
<1>1. answer' \in [1 .. Min2(Parallelism, Cardinality(pending)) -> pending]
  BY DEF Fetched, Fetchable
<1>2. pending \subseteq Task /\ Cardinality(pending) \in Nat /\ Parallelism \in Nat
  <2>1. pending \subseteq Task /\ IsFiniteSet(pending)
    BY TaskAssumption, FS_Subset DEF TypeOK
  <2> QED
    BY <2>1, FS_CardinalityType, ParallelismAssumption
<1>3. /\ Min2(Parallelism, Cardinality(pending)) \in Nat
      /\ Min2(Parallelism, Cardinality(pending)) <= Parallelism
  BY <1>2 DEF Min2
<1> QED
  BY <1>1, <1>2, <1>3

(* The steps of the workers keep the types. *)
LEMMA WorkingTyped ==
  ASSUME TInv, NEW w \in Worker, Working(w)
  PROVE  TypeOK' /\ Held'
<1>1. /\ TypeOK /\ Held /\ worker \in [Worker -> State] /\ permits' \in 0 .. Parallelism
  <2>1. TypeOK /\ Held /\ Typed /\ Permits /\ Parallelism \in Nat
    BY ParallelismAssumption DEF TInv, IInv
  <2>2. permits' = permits \/ (Release(w) /\ permits' = permits + 1)
    BY DEF Working, Take, FindsClosed, Lock, Refused, Finish, Release, looping
  <2>3. CASE Release(w) /\ permits' = permits + 1
    <3>1. w \in Occupied
      BY <2>3 DEF Release, Occupied, Having
    <3>2. Cardinality(Occupied) \in Nat /\ Cardinality(Occupied) # 0
      <4>1. IsFiniteSet(Occupied) /\ Cardinality(Occupied) \in Nat
        BY Counts DEF Occupied
      <4> QED
        BY <3>1, <4>1, FS_EmptySet
    <3>3. permits + Cardinality(Occupied) <= Parallelism /\ permits \in Nat
      <4> DEFINE c == Cardinality(Occupied)
      <4>1. c \in Nat /\ permits \in Nat /\ Parallelism \in Nat
            /\ permits + (c + (IF acquired THEN 1 ELSE 0)) <= Parallelism
        BY <2>1, <3>2 DEF Permits, Typed
      <4> HIDE DEF c
      <4>2. permits + c <= Parallelism
        BY <4>1
      <4> QED
        BY <4>1, <4>2 DEF c
    <3> QED
      BY <2>1, <2>3, <3>2, <3>3 DEF Typed
  <2>4. CASE permits' = permits
    <3>1. permits \in 0 .. Parallelism
      BY <2>1 DEF TypeOK
    <3> QED
      BY <2>1, <2>4, <3>1 DEF Typed
  <2> QED
    BY <2>1, <2>2, <2>3, <2>4 DEF Typed
<1> USE DEF producing, queueing, looping, history
<1>2. CASE Take(w)
  <2>1. queue \in Queues
    BY <1>1 DEF TypeOK, Queues
  <2>2. Head(queue) \in Task /\ Tail(queue) \in Queues
    BY <1>2, <2>1, TakeKeeps DEF Take
  <2>3. /\ worker' = [worker EXCEPT ![w] = "asking"]
        /\ holds' = [holds EXCEPT ![w] = Head(queue)]
        /\ queue' = Tail(queue) /\ late' \in {late, late + 1}
        /\ UNCHANGED <<pending, server, producing, closed, shutdown, looping,
                       promised, cut, waiting>>
    BY <1>2 DEF Take
  <2>4. Tail(queue) \in Seq(Task) /\ Len(Tail(queue)) <= Parallelism
        /\ IsInjective(Tail(queue))
    BY <2>2 DEF Queues
  <2>5. /\ worker' \in [Worker -> State] /\ holds' \in [Worker -> Task \cup {NoTask}]
        /\ late' \in Nat
    BY <1>1, <2>2, <2>3 DEF State, TypeOK
  <2>6. Held'
    BY <1>1, <2>2, <2>3 DEF Held, TypeOK
  <2> QED
    BY <1>1, <2>3, <2>4, <2>5, <2>6 DEF TypeOK, State
<1>3. CASE FindsClosed(w) \/ Refused(w)
  <2>1. /\ worker' = [worker EXCEPT ![w] = "finished"] /\ holds' = holds
        /\ UNCHANGED <<pending, server, producing, queueing, shutdown, looping,
                       history>>
    BY <1>3 DEF FindsClosed, Refused
  <2>2. worker' \in [Worker -> State] /\ Held'
    BY <1>1, <2>1 DEF State, Held, TypeOK
  <2> QED
    BY <1>1, <2>1, <2>2 DEF TypeOK, State
<1>4. CASE Lock(w)
  <2>1. /\ worker' = [worker EXCEPT ![w] = "locked"] /\ holds' = holds
        /\ pending' = pending \ {holds[w]} /\ worker[w] = "asking"
        /\ UNCHANGED <<server, producing, queueing, shutdown, looping, history>>
    BY <1>4 DEF Lock
  <2>2. worker' \in [Worker -> State] /\ Held'
    BY <1>1, <2>1 DEF State, Held, TypeOK
  <2> QED
    BY <1>1, <2>1, <2>2 DEF TypeOK, State
<1>5. CASE Finish(w)
  <2>1. /\ worker' = [worker EXCEPT ![w] = "finished"] /\ holds' = holds
        /\ pending' \in {pending, pending \cup {holds[w]}} /\ worker[w] = "locked"
        /\ UNCHANGED <<server, producing, queueing, shutdown, looping, history>>
    BY <1>5 DEF Finish
  <2>2. worker' \in [Worker -> State] /\ Held' /\ holds[w] \in Task
    BY <1>1, <2>1 DEF State, Held, TypeOK
  <2>3. pending' \subseteq Task
    BY <1>1, <2>1, <2>2 DEF TypeOK
  <2> QED
    BY <1>1, <2>1, <2>2, <2>3 DEF TypeOK, State
<1>6. CASE Release(w)
  <2>1. /\ worker' = [worker EXCEPT ![w] = "free"]
        /\ holds' = [holds EXCEPT ![w] = NoTask]
        /\ promised' = promised \ {w}
        /\ UNCHANGED <<pending, server, producing, queueing, shutdown, loop,
                       acquired, cut, waiting, late>>
    BY <1>6 DEF Release
  <2>2. worker' \in [Worker -> State] /\ holds' \in [Worker -> Task \cup {NoTask}]
    BY <1>1, <2>1 DEF State, TypeOK
  <2>3. Held'
    BY <1>1, <2>1 DEF Held, TypeOK
  <2> QED
    BY <1>1, <2>1, <2>2, <2>3 DEF TypeOK, State
<1> QED
  BY <1>2, <1>3, <1>4, <1>5, <1>6 DEF Working

(* Each step keeps the types. *)
LEMMA TypesKept ==
  ASSUME TInv, [Next]_vars
  PROVE  TypeOK' /\ Held'
<1>1. /\ TypeOK /\ Held /\ worker \in [Worker -> State]
  BY DEF TInv, IInv, Typed
<1> USE DEF producing, queueing, looping, working, history
<1>2. ASSUME NEW t \in Task, TaskAppears(t) \/ TaskVanishes(t)
      PROVE  TypeOK' /\ Held'
  BY <1>1, <1>2 DEF TaskAppears, TaskVanishes, TypeOK, Held
<1>3. CASE Serving \/ (server = "serving" /\ ProducerFails)
           \/ ProducerTests \/ LoopTests \/ Drained \/ UNCHANGED vars
  <2>1. /\ UNCHANGED <<pending, answer, queueing, shutdown, permits, working,
                       history>>
        /\ server' \in {"starting", "serving", "closing", "stopped", "exited"}
        /\ producer' \in {"testing", "fetching", "putting", "stopped", "failed"}
        /\ loop' \in {"testing", "waiting", "draining", "ended"}
    BY <1>1, <1>3 DEF Serving, Serve, Close, Stop, ProducerFails, ProducerTests,
       LoopTests, Drained, vars, TypeOK
  <2>2. acquired' \in BOOLEAN
    BY <1>1, <1>3, Zenon DEF Serving, Serve, Close, Stop, ProducerFails,
       ProducerTests, LoopTests, Drained, vars, TypeOK
  <2> QED
    BY <1>1, <2>1, <2>2 DEF TypeOK, Held
<1>4. CASE Signal
  <2>1. Cardinality(Having({"getting"})) \in Nat
    BY Counts DEF Having
  <2>2. Busy \subseteq Worker
    BY DEF Busy, Having
  <2>3. waiting' \in Nat /\ promised' \subseteq Worker
    BY <1>4, <2>1, <2>2 DEF Signal, Promise
  <2> QED
    BY <1>1, <1>4, <2>3 DEF Signal, TypeOK, Held
<1>5. CASE SystemExit
  <2>1. Busy \subseteq Worker
    BY DEF Busy, Having
  <2>2. cut' \subseteq Worker
    BY <1>5, <2>1 DEF SystemExit
  <2> QED
    BY <1>1, <1>5, <2>2 DEF SystemExit, TypeOK, Held
<1>6. CASE Fetched
  <2>1. answer' \in Seq(Task) /\ Len(answer') <= Parallelism
    BY <1>1, <1>6, FetchKeeps
  <2>2. /\ producer' = "putting"
        /\ UNCHANGED <<pending, server, queueing, shutdown, looping, working,
                       history>>
    BY <1>6 DEF Fetched
  <2> QED
    BY <1>1, <2>1, <2>2 DEF TypeOK, Held
<1>7. CASE PutAll
  <2>1. queue \in Queues /\ answer \in Seq(Task)
    BY <1>1 DEF TypeOK, Queues
  <2>2. queue' = queue \/ queue' = FoldLeft(Put, queue, answer)
    BY <1>7 DEF PutAll
  <2>3. queue' \in Queues
    <3>1. FoldLeft(Put, queue, answer) \in Queues
      BY <2>1, FoldKeeps
    <3> QED
      BY <2>1, <2>2, <3>1, Zenon
  <2>4. queue' \in Seq(Task) /\ Len(queue') <= Parallelism /\ IsInjective(queue')
    BY <2>3 DEF Queues
  <2>5. /\ answer' = <<>> /\ producer' = "testing"
        /\ UNCHANGED <<pending, server, closed, shutdown, looping, working, history>>
    BY <1>7 DEF PutAll
  <2>6. answer' \in Seq(Task) /\ Len(answer') <= Parallelism
    BY <2>5, ParallelismAssumption
  <2> QED
    BY <1>1, <2>4, <2>5, <2>6 DEF TypeOK, Held
<1>8. CASE Acquire \/ WakesForShutdown
  <2>1. permits' \in 0 .. Parallelism
    BY <1>1, <1>8, ParallelismAssumption DEF Acquire, WakesForShutdown, TypeOK
  <2>2. /\ loop' \in {"testing", "waiting", "draining", "ended"}
        /\ UNCHANGED <<pending, server, producing, queueing, shutdown, working,
                       history>>
    BY <1>1, <1>8 DEF Acquire, WakesForShutdown, TypeOK
  <2>3. acquired' \in BOOLEAN
    BY <1>8, Zenon DEF Acquire, WakesForShutdown
  <2> QED
    BY <1>1, <2>1, <2>2, <2>3 DEF TypeOK, Held
<1>9. ASSUME NEW w \in Worker, WakesForWorker(w)
      PROVE  TypeOK' /\ Held'
  <2>1. worker' = [worker EXCEPT ![w] = "getting"]
    BY <1>9 DEF WakesForWorker
  <2>2. worker' \in [Worker -> State]
    BY <1>1, <2>1 DEF State
  <2> QED
    BY <1>1, <1>9, <2>1, <2>2 DEF WakesForWorker, TypeOK, Held, State
<1>10. ASSUME NEW w \in Worker, Working(w)
       PROVE  TypeOK' /\ Held'
  BY <1>10, WorkingTyped
<1> QED
  BY <1>2, <1>3, <1>4, <1>5, <1>6, <1>7, <1>8, <1>9, <1>10
     DEF Next, Producing, Looping

(* The variables have their types: above all, the queue and the answers    *)
(* stay within the queue's size, and no task is queued twice.              *)
THEOREM DispatchTypes == Spec => []TypeOK
<1>1. Init => TypeOK /\ Held
  <2> SUFFICES ASSUME Init PROVE TypeOK /\ Held
    OBVIOUS
  <2>1. queue = <<>> /\ answer = <<>> /\ Parallelism \in Nat
    BY ParallelismAssumption DEF Init
  <2>2. IsInjective(queue) /\ queue \in Seq(Task) /\ Len(queue) <= Parallelism
        /\ answer \in Seq(Task) /\ Len(answer) <= Parallelism
    BY <2>1 DEF IsInjective
  <2>3. worker \in [Worker -> State] /\ holds \in [Worker -> Task \cup {NoTask}]
        /\ permits \in 0 .. Parallelism /\ pending \subseteq Task
        /\ promised \subseteq Worker /\ cut \subseteq Worker /\ waiting \in Nat /\ late \in Nat
    BY <2>1 DEF Init, State
  <2>4. Held
    BY DEF Init, Held
  <2>5. /\ closed \in BOOLEAN /\ shutdown \in BOOLEAN /\ acquired \in BOOLEAN
    BY Zenon DEF Init
  <2> QED
    BY <2>2, <2>3, <2>4, <2>5 DEF Init, TypeOK, State
<1>2. IInv /\ (TypeOK /\ Held) /\ [Next]_vars => (TypeOK /\ Held)'
  BY TypesKept DEF TInv
<1> QED
  BY <1>1, <1>2, DispatchInvariant, PTL DEF Spec

=============================================================================
