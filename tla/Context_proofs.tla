---------------------------- MODULE Context_proofs ----------------------------
(***************************************************************************)
(* Theorems about Context, for any number of callers: while the handler    *)
(* runs the heartbeat comes in time, and every answer is for somebody who  *)
(* waits for it.                                                           *)
(***************************************************************************)
EXTENDS Context, FiniteSetTheorems, SequenceTheorems, TLAPS

Actor == Caller \cup {Heart, Main}

(* A sequence in which nothing occurs twice, and what occurs in it. *)
Distinct(q) == \A i, j \in 1..Len(q) : q[i] = q[j] => i = j
Members(q) == {q[i] : i \in 1..Len(q)}
Queued == Members(queue)

(* Types, and what the timing asks of the clocks. *)
Typed ==
  /\ caller \in [Caller -> {"idle", "sending", "receiving"}]
  /\ calls \in [Caller -> 0..MaxCalls]
  /\ heart \in {"asleep", "sending", "off"}
  /\ main \in {"executing", "reporting", "receiving", "ended", "raised",
              "reported"}
  /\ call \in {"none", "started", "handled"}
  /\ age \in 0..Latency
  /\ alarm \in 0..(Duration \div 2)
  /\ lease \in 0..Duration

(* In the queue are those who ask for the lock or have it, each once, and *)
(* somebody who receives has it.                                          *)
Lined ==
  /\ queue \in Seq(Actor)
  /\ Distinct(queue)
  /\ \A c \in Caller : caller[c] # "idle" <=> c \in Queued
  /\ \A c \in Caller : caller[c] # "idle" => calls[c] > 0
  /\ \A c \in Caller : caller[c] = "receiving" => Holds(c)
  /\ heart = "sending" <=> Heart \in Queued
  /\ main \in {"reporting", "receiving"} <=> Main \in Queued
  /\ heart # "off" => main = "executing"
  /\ call # "none" => Sending

(* Who holds the lock and has not taken the answer yet. *)
Receiving == \E c \in Caller : Holds(c) /\ caller[c] = "receiving"
Answers == IF Receiving THEN <<AnswerFor(Head(queue))>> ELSE <<>>

(* In the inbox is the answer of whoever has the lock.  Behind a report,   *)
(* the end event is before it, after it, or put aside: after it only if    *)
(* the report was not sent under the lock.                                 *)
Ending == main \in {"receiving", "reported"}
Mail ==
  \/ ~Ending /\ held = <<>> /\ inbox = Answers
  \/ Ending /\ held = <<EndEvent>> /\ inbox = Answers
  \/ Ending /\ held = <<>> /\ inbox = <<EndEvent>> \o Answers
  \/ main = "reported" /\ held = <<>> /\ inbox = Answers \o <<EndEvent>>

(* Time that is gone of the request that is served. *)
Used == IF call # "none" THEN age ELSE IF Receiving THEN Latency ELSE 0

(* Unless an extension was not granted: asleep, the heartbeat leaves time *)
(* for a call of each caller and its own; in the queue, for those before  *)
(* it.  Once its call went through, the lock is as old as that call at    *)
(* most.                                                                  *)
InTime ==
  main = "executing" /\ renewed =>
    /\ heart = "asleep" =>
         lease > alarm + (Cardinality(Caller) + 1) * Latency
    /\ \A i \in 1..Len(queue) : queue[i] = Heart =>
         IF i = 1 /\ call = "handled" THEN lease >= Duration - age
         ELSE lease > i * Latency - Used

IInv == Typed /\ Lined /\ Mail /\ InTime
-----------------------------------------------------------------------------
(* Sequences in which nothing occurs twice.                                 *)

(* r is q without what is at k. *)
Removed(q, k, r) ==
  /\ Len(r) = Len(q) - 1
  /\ \A i \in 1..Len(r) : r[i] = IF i < k THEN q[i] ELSE q[i + 1]

(* Whoever holds the lock leaves the queue at its head. *)
LEMMA TailRemoves ==
  ASSUME NEW S, NEW q \in Seq(S), q # <<>>
  PROVE  Tail(q) \in Seq(S) /\ Removed(q, 1, Tail(q)) /\ q[1] = Head(q)
BY DEF Removed

(* RemoveAt takes out one element. *)
LEMMA RemoveAtRemoves ==
  ASSUME NEW S, NEW q \in Seq(S), NEW k \in 1..Len(q)
  PROVE  RemoveAt(q, k) \in Seq(S) /\ Removed(q, k, RemoveAt(q, k))
<1> DEFINE a == SubSeq(q, 1, k - 1)
           b == SubSeq(q, k + 1, Len(q))
<1>1. a \in Seq(S) /\ Len(a) = k - 1 /\ \A i \in 1..(k - 1) : a[i] = q[i]
  OBVIOUS
<1>2. b \in Seq(S) /\ Len(b) = Len(q) - k
      /\ \A i \in 1..(Len(q) - k) : b[i] = q[k + i]
  OBVIOUS
<1>3. RemoveAt(q, k) = a \o b
  BY DEF RemoveAt
<1> HIDE DEF a, b
<1>4. /\ a \o b \in Seq(S) /\ Len(a \o b) = Len(q) - 1
      /\ \A i \in 1..(Len(q) - 1) :
           (a \o b)[i] = IF i <= k - 1 THEN a[i] ELSE b[i - (k - 1)]
  BY <1>1, <1>2, ConcatProperties
<1>5. \A i \in 1..(Len(q) - 1) : (a \o b)[i] = IF i < k THEN q[i] ELSE q[i + 1]
  <2> TAKE i \in 1..(Len(q) - 1)
  <2>1. CASE i < k
    BY <1>1, <1>4, <2>1
  <2>2. CASE i >= k
    <3>1. i - (k - 1) \in 1..(Len(q) - k) /\ k + (i - (k - 1)) = i + 1
      BY <2>2
    <3>2. b[i - (k - 1)] = q[i + 1]
      BY <1>2, <3>1
    <3>3. ~(i <= k - 1) /\ ~(i < k)
      BY <2>2
    <3>4. (a \o b)[i] = b[i - (k - 1)]
      BY <1>4, <3>3, Zenon
    <3> QED
      BY <3>2, <3>3, <3>4, Zenon
  <2>3. i < k \/ i >= k
    OBVIOUS
  <2> QED
    BY <2>1, <2>2, <2>3, Zenon
<1> QED
  BY <1>3, <1>4, <1>5 DEF Removed

(* A cancelled waiter leaves the queue wherever it is (a deque's remove). *)
LEMMA RemoveFirstRemoves ==
  ASSUME NEW S, NEW q \in Seq(S), Distinct(q), NEW k \in 1..Len(q)
  PROVE  RemoveFirst(q, q[k]) \in Seq(S) /\ Removed(q, k, RemoveFirst(q, q[k]))
<1>1. {i \in 1..Len(q) : q[i] = q[k]} = {k}
  BY DEF Distinct
<1>2. SelectInSeq(q, LAMBDA v : v = q[k]) = k
  BY <1>1 DEF SelectInSeq, Min
<1>3. RemoveFirst(q, q[k]) = RemoveAt(q, k)
  BY <1>2 DEF RemoveFirst
<1> QED
  BY <1>3, RemoveAtRemoves

(* Who is not in the queue cannot leave it. *)
LEMMA RemoveFirstAbsent ==
  ASSUME NEW S, NEW q \in Seq(S), NEW e, e \notin Members(q)
  PROVE  RemoveFirst(q, e) = q
BY DEF RemoveFirst, Members

(* Taking one element out leaves the others, each still once. *)
LEMMA RemovedKeeps ==
  ASSUME NEW S, NEW q \in Seq(S), Distinct(q), NEW k \in 1..Len(q),
         NEW r \in Seq(S), Removed(q, k, r)
  PROVE  Distinct(r) /\ Members(r) = Members(q) \ {q[k]}
<1>1. Len(r) = Len(q) - 1 /\ Len(r) \in Nat /\ Len(q) \in Nat
  BY DEF Removed
<1>2. ASSUME NEW i \in 1..Len(r)
      PROVE  /\ i < k => r[i] = q[i] /\ i \in 1..Len(q)
             /\ i >= k => r[i] = q[i + 1] /\ i + 1 \in 1..Len(q)
  BY <1>1 DEF Removed
<1>3. Distinct(r)
  BY <1>1, <1>2 DEF Distinct
<1>4. ASSUME NEW i \in 1..Len(r)
      PROVE  r[i] \in Members(q) /\ r[i] # q[k]
  BY <1>1, <1>2 DEF Distinct, Members
<1>5. ASSUME NEW j \in 1..Len(q), j # k
      PROVE  q[j] \in Members(r)
  <2>1. CASE j < k
    <3>1. j \in 1..Len(r) /\ r[j] = q[j]
      BY <1>1, <2>1 DEF Removed
    <3> QED
      BY <3>1 DEF Members
  <2>2. CASE j > k
    <3>1. j - 1 \in 1..Len(r) /\ ~(j - 1 < k) /\ (j - 1) + 1 = j
      BY <1>1, <2>2
    <3>2. r[j - 1] = q[j]
      BY <3>1 DEF Removed
    <3> QED
      BY <3>1, <3>2 DEF Members
  <2> QED
    BY <1>5, <2>1, <2>2
<1> QED
  BY <1>3, <1>4, <1>5 DEF Members

(* Whoever asks for the lock is last in the queue, and in it once. *)
LEMMA AppendKeeps ==
  ASSUME NEW S, NEW q \in Seq(S), Distinct(q), NEW e \in S, e \notin Members(q)
  PROVE  LET r == Append(q, e)
         IN /\ r \in Seq(S) /\ Len(r) = Len(q) + 1
            /\ \A i \in 1..Len(q) : r[i] = q[i]
            /\ r[Len(q) + 1] = e
            /\ Distinct(r)
            /\ Members(r) = Members(q) \cup {e}
<1> DEFINE r == Append(q, e)
<1>1. /\ r \in Seq(S) /\ Len(r) = Len(q) + 1 /\ Len(q) \in Nat
      /\ \A i \in 1..Len(q) : r[i] = q[i]
      /\ r[Len(q) + 1] = e
  BY AppendProperties
<1> HIDE DEF r
<1>2. Distinct(r)
  BY <1>1 DEF Distinct, Members
<1>3. \A i \in 1..Len(r) : i = Len(q) + 1 \/ i \in 1..Len(q)
  BY <1>1
<1>4. Members(r) \subseteq Members(q) \cup {e}
  BY <1>1, <1>3 DEF Members
<1>5. Members(q) \cup {e} \subseteq Members(r)
  BY <1>1 DEF Members
<1> QED
  BY <1>1, <1>2, <1>4, <1>5 DEF r
-----------------------------------------------------------------------------
(* Numbers.                                                                 *)

(* Products with Latency. *)
LEMMA Products ==
  ASSUME NEW a \in Nat, NEW b \in Nat
  PROVE  /\ a * Latency \in Nat
         /\ (a + 1) * Latency = a * Latency + Latency
         /\ a <= b => a * Latency <= b * Latency
<1>1. Latency \in Nat
  BY TimeAssumption
<1>2. a * Latency \in Nat /\ (a + 1) * Latency = a * Latency + Latency
  BY <1>1
<1>3. ASSUME a <= b PROVE a * Latency <= b * Latency
  <2>1. b - a \in Nat /\ (b - a) * Latency >= 0
    BY <1>1, <1>3
  <2>2. b * Latency = a * Latency + (b - a) * Latency
    BY <1>1
  <2>3. a * Latency \in Int /\ b * Latency \in Int /\ (b - a) * Latency \in Int
    BY <1>1
  <2> QED
    BY <2>1, <2>2, <2>3
<1> QED
  BY <1>2, <1>3

(* What the assumption on the duration comes to. *)
LEMMA DurationLasts ==
  LET N == Cardinality(Caller) IN
  /\ N \in Nat /\ Duration \div 2 \in Nat /\ Duration \in Nat /\ Duration > 0
  /\ (N + 1) * Latency \in Nat
  /\ (Duration \div 2) + (N + 1) * Latency + Latency < Duration
  /\ (Duration \div 2) + (N + 1) * Latency + Setup < Duration
  /\ Latency \in Nat /\ Setup \in Nat
  /\ Latency < Duration
<1> DEFINE N == Cardinality(Caller)
           p == (N + 1) * Latency
           h == Duration \div 2
<1>1. N \in Nat
  BY ActorAssumption, FS_CardinalityType
<1>2. Duration \in Nat /\ Latency \in Nat /\ Setup \in Nat
  BY TimeAssumption
<1>3. h \in Nat
  BY <1>2
<1>4. h + Latency + p < Duration /\ h + Setup + p < Duration
  BY DurationAssumption
<1> HIDE DEF N
<1>5. p \in Nat
  <2>1. N + 1 \in Nat
    BY <1>1
  <2> QED
    BY <2>1, Products
<1> HIDE DEF h, p
<1>6. h + p + Latency < Duration /\ h + p + Setup < Duration
  BY <1>2, <1>3, <1>4, <1>5
<1>7. Duration > 0 /\ Latency < Duration
  BY <1>2, <1>3, <1>5, <1>6
<1> QED
  BY <1>1, <1>2, <1>3, <1>5, <1>6, <1>7 DEF N, h, p

-----------------------------------------------------------------------------
(* Types.                                                                   *)

(* Every step keeps the types. *)
LEMMA TypedKeeps ==
  ASSUME IInv, Next
  PROVE  Typed'
<1> USE DEF Typed, clock, lock
<1>1. Typed
  BY DEF IInv
<1>2. /\ Duration \div 2 \in Nat /\ Duration \in Nat /\ Latency \in Nat
      /\ MaxCalls \in Nat
  BY DurationLasts, BoundAssumption
<1>3. ASSUME NEW c \in Caller, StartCall(c) PROVE Typed'
  BY <1>1, <1>2, <1>3 DEF StartCall
<1>4. ASSUME NEW c \in Caller, CallerStep(c) PROVE Typed'
  <2>1. /\ caller' \in [Caller -> {"idle", "sending", "receiving"}]
        /\ UNCHANGED <<calls, heart, main, alarm, age, lease>>
        /\ call' \in {"none", call}
    BY <1>1, <1>4 DEF CallerStep, CallAnswered, CallRaises, CancelCall, Collect
  <2> QED
    BY <1>1, <2>1
<1>5. CASE WakeHeart
  BY <1>1, <1>5 DEF WakeHeart
<1>6. CASE BeginCall
  BY <1>1, <1>2, <1>6 DEF BeginCall
<1>7. CASE EngineHandles
  <2>1. /\ call' = "handled" /\ lease' \in {lease, Duration}
        /\ UNCHANGED <<caller, calls, heart, alarm, main, age>>
    BY <1>7 DEF EngineHandles
  <2> QED
    BY <1>1, <1>2, <2>1
<1>8. CASE HeartAnswered
  BY <1>1, <1>2, <1>8 DEF HeartAnswered
<1>9. CASE HeartRaises
  BY <1>1, <1>9 DEF HeartRaises
<1>10. CASE HandlerReturns \/ HandlerRaises \/ ExceptionReported
  BY <1>1, <1>2, <1>10
     DEF HandlerReturns, HandlerRaises, StopHeart, ExceptionReported
<1>11. CASE ReportAnswered
  BY <1>1, <1>11 DEF ReportAnswered
<1>12. CASE MainReceives
  BY <1>1, <1>12 DEF MainReceives, MainTakes
<1>13. CASE Tick
  <2>1. /\ age' \in 0..Latency
        /\ UNCHANGED <<caller, calls, heart, main, call>>
    BY <1>1, <1>2, <1>13 DEF Tick
  <2>2. alarm' \in 0..(Duration \div 2) /\ lease' \in 0..Duration
    BY <1>1, <1>2, <1>13 DEF Tick, Less
  <2> QED
    BY <1>1, <2>1, <2>2
<1> QED
  BY <1>3, <1>4, <1>5, <1>6, <1>7, <1>8, <1>9, <1>10, <1>11, <1>12, <1>13
     DEF Next
-----------------------------------------------------------------------------
(* The queue.                                                               *)

(* What is known of the queue and of the lock in it. *)
LEMMA Line ==
  ASSUME IInv
  PROVE  /\ queue \in Seq(Actor) /\ Distinct(queue) /\ Len(queue) \in Nat
         /\ \A a : Holds(a) <=> Len(queue) > 0 /\ queue[1] = a
         /\ \A a : Holds(a) => a \in Queued /\ Head(queue) = a
         /\ Sending <=> /\ Len(queue) > 0
                       /\ \/ queue[1] = Heart
                          \/ queue[1] = Main /\ main = "reporting"
                          \/ \E c \in Caller :
                               queue[1] = c /\ caller[c] = "sending"
<1>1. queue \in Seq(Actor) /\ Distinct(queue)
  BY DEF IInv, Lined
<1>2. /\ Len(queue) \in Nat /\ queue # <<>> <=> Len(queue) > 0
      /\ queue # <<>> => Head(queue) = queue[1]
  BY <1>1
<1>3. Len(queue) > 0 => queue[1] \in Queued
  BY <1>2 DEF Queued, Members
<1>4. \A a : Holds(a) <=> Len(queue) > 0 /\ queue[1] = a
  BY <1>2 DEF Holds
<1>5. Sending <=> /\ Len(queue) > 0
                  /\ \/ queue[1] = Heart
                     \/ queue[1] = Main /\ main = "reporting"
                     \/ \E c \in Caller :
                          queue[1] = c /\ caller[c] = "sending"
  BY <1>2 DEF Sending
<1> QED
  BY <1>1, <1>2, <1>3, <1>4, <1>5

(* Nobody else leaves or enters the queue: who stays there stays what he is. *)
LEMMA Others ==
  ASSUME IInv, NEW k \in 1..Len(queue), queue' \in Seq(Actor),
         Removed(queue, k, queue')
  PROVE  /\ Distinct(queue)' /\ Queued' = Queued \ {queue[k]}
         /\ k > 1 => \A a : Holds(a)' <=> Holds(a)
         /\ k > 1 => Len(queue') > 0 /\ queue'[1] = queue[1]
<1>1. Distinct(queue') /\ Members(queue') = Members(queue) \ {queue[k]}
  BY Line, RemovedKeeps
<1>2. ASSUME k > 1
      PROVE  Len(queue') > 0 /\ queue'[1] = queue[1] /\ Len(queue) > 0
  <2>1. Len(queue') = Len(queue) - 1 /\ Len(queue) \in Nat
    BY Line DEF Removed
  <2>2. 1 \in 1..Len(queue') /\ 1 < k
    BY <1>2, <2>1
  <2>3. queue'[1] = queue[1]
    BY <2>2 DEF Removed
  <2> QED
    BY <2>1, <2>2, <2>3
<1>3. \A a : Holds(a)' <=> Len(queue') > 0 /\ queue'[1] = a
  BY DEF Holds
<1> QED
  BY <1>1, <1>2, <1>3, Line DEF Queued, Distinct, Members

(* Somebody asks for the lock: the others stay where they are. *)
LEMMA Joins ==
  ASSUME IInv, NEW e \in Actor, e \notin Queued, queue' = Append(queue, e),
         call' = call, main' = main,
         \A c \in Caller : c # e => caller'[c] = caller[c]
  PROVE  /\ queue' \in Seq(Actor) /\ Distinct(queue)'
         /\ Queued' = Queued \cup {e}
         /\ Len(queue') = Len(queue) + 1
         /\ \A i \in 1..Len(queue) : queue'[i] = queue[i]
         /\ queue'[Len(queue) + 1] = e
         /\ \A a : Holds(a) => Holds(a)'
         /\ Len(queue) > 0 => \A a : Holds(a)' => Holds(a)
         /\ call' # "none" => Sending'
<1>1. /\ queue' \in Seq(Actor) /\ Distinct(queue')
      /\ Members(queue') = Queued \cup {e}
      /\ Len(queue') = Len(queue) + 1
      /\ \A i \in 1..Len(queue) : queue'[i] = queue[i]
      /\ queue'[Len(queue) + 1] = e
  BY Line, AppendKeeps DEF Queued
<1>2. Len(queue) > 0 => Len(queue') > 0 /\ queue'[1] = queue[1]
  BY <1>1, Line
<1>3. /\ \A a : Holds(a) => Holds(a)'
      /\ Len(queue) > 0 => \A a : Holds(a)' => Holds(a)
  BY <1>1, <1>2, Line DEF Holds
<1>4. call' # "none" => Sending'
  <2>1. call # "none" => Sending
    BY DEF IInv, Lined
  <2> SUFFICES ASSUME Sending PROVE Sending'
    BY <2>1
  <2>2. queue' # <<>> /\ Head(queue') = queue[1] /\ queue[1] \in Queued
    BY <1>1, <1>2, Line DEF Queued, Members
  <2> QED
    BY <2>2, Line DEF Sending
<1> QED
  BY <1>1, <1>3, <1>4 DEF Queued, Distinct, Members

(* Asking for the lock keeps the line. *)
LEMMA JoinsLined ==
  ASSUME IInv, (\E c \in Caller : StartCall(c)) \/ WakeHeart
  PROVE  Lined'
<1>1. Lined /\ Typed
  BY DEF IInv
<1>2. ASSUME NEW c \in Caller, StartCall(c) PROVE Lined'
  <2>1. /\ c \notin Queued /\ c \in Actor /\ queue' = Append(queue, c)
        /\ UNCHANGED <<heart, main, call>>
        /\ caller' = [caller EXCEPT ![c] = "sending"]
        /\ calls' = [calls EXCEPT ![c] = @ + 1]
    BY <1>1, <1>2 DEF StartCall, Lined, Actor
  <2>2. \A d \in Caller : d # c => caller'[d] = caller[d]
    BY <1>1, <2>1 DEF Typed
  <2>3. /\ queue' \in Seq(Actor) /\ Distinct(queue)'
        /\ Queued' = Queued \cup {c}
        /\ \A a : Holds(a) => Holds(a)'
        /\ call' # "none" => Sending'
    BY <2>1, <2>2, Joins
  <2>4. \A d \in Caller : /\ caller'[d] # "idle" <=> d \in Queued'
                          /\ caller'[d] # "idle" => calls'[d] > 0
                          /\ caller'[d] = "receiving" => Holds(d)'
    BY <1>1, <2>1, <2>3 DEF Lined, Typed
  <2>5. /\ heart' = "sending" <=> Heart \in Queued'
        /\ main' \in {"reporting", "receiving"} <=> Main \in Queued'
    BY <1>1, <2>1, <2>3, ActorAssumption DEF Lined
  <2> QED
    BY <1>1, <2>1, <2>3, <2>4, <2>5 DEF Lined
<1>3. CASE WakeHeart
  <2>1. /\ Heart \notin Queued /\ Heart \in Actor /\ queue' = Append(queue, Heart)
        /\ UNCHANGED <<caller, calls, main, call>> /\ heart' = "sending"
        /\ heart = "asleep"
    BY <1>1, <1>3 DEF WakeHeart, Lined, Actor
  <2>2. /\ queue' \in Seq(Actor) /\ Distinct(queue)'
        /\ Queued' = Queued \cup {Heart}
        /\ \A a : Holds(a) => Holds(a)'
        /\ call' # "none" => Sending'
    BY <2>1, Joins
  <2>3. /\ \A d \in Caller : caller'[d] # "idle" <=> d \in Queued'
        /\ main' \in {"reporting", "receiving"} <=> Main \in Queued'
    BY <1>1, <2>1, <2>2, ActorAssumption DEF Lined
  <2> QED
    BY <1>1, <2>1, <2>2, <2>3 DEF Lined
<1> QED
  BY <1>2, <1>3

(* Somebody leaves the queue, with his call if he has the lock. *)
LEMMA Leaves ==
  ASSUME IInv, NEW k \in 1..Len(queue), queue' \in Seq(Actor),
         Removed(queue, k, queue'),
         call' = IF k = 1 THEN "none" ELSE call,
         main' = main \/ main = "executing",
         \A c \in Caller : c # queue[k] => caller'[c] = caller[c]
  PROVE  /\ Distinct(queue)' /\ Queued' = Queued \ {queue[k]}
         /\ \A c \in Caller : c # queue[k] /\ caller[c] = "receiving" =>
              k > 1 /\ Holds(c)'
         /\ call' # "none" => Sending'
<1>1. /\ Distinct(queue)' /\ Queued' = Queued \ {queue[k]}
      /\ k > 1 => \A a : Holds(a)' <=> Holds(a)
      /\ k > 1 => Len(queue') > 0 /\ queue'[1] = queue[1]
  BY Others
<1>2. ASSUME NEW c \in Caller, c # queue[k], caller[c] = "receiving"
      PROVE  k > 1 /\ Holds(c)'
  <2>1. Holds(c) /\ queue[1] = c
    BY <1>2, Line DEF IInv, Lined
  <2>2. k > 1
    BY <1>2, <2>1
  <2> QED
    BY <1>1, <2>1, <2>2
<1>3. ASSUME call' # "none" PROVE Sending'
  <2>1. k > 1 /\ Sending
    BY <1>3 DEF IInv, Lined
  <2>2. queue[1] # queue[k]
    BY <2>1, Line DEF Distinct
  <2>3. Head(queue') = queue[1] /\ queue' # <<>>
    BY <1>1, <2>1
  <2> QED
    BY <2>1, <2>2, <2>3, Line DEF Sending
<1> QED
  BY <1>1, <1>2, <1>3

(* A caller that lets go of the lock, or stops waiting for it. *)
LEMMA CallerLeaves ==
  ASSUME IInv, NEW k \in 1..Len(queue), queue' \in Seq(Actor),
         Removed(queue, k, queue'), queue[k] \in Caller,
         call' = IF k = 1 THEN "none" ELSE call,
         caller' = [caller EXCEPT ![queue[k]] = "idle"],
         UNCHANGED <<calls, heart, main>>
  PROVE  Lined'
<1>1. Lined /\ Typed
  BY DEF IInv
<1>2. \A d \in Caller : caller'[d] = IF d = queue[k] THEN "idle" ELSE caller[d]
  BY <1>1 DEF Typed
<1>3. /\ Distinct(queue)' /\ Queued' = Queued \ {queue[k]}
      /\ \A c \in Caller : c # queue[k] /\ caller[c] = "receiving" =>
           k > 1 /\ Holds(c)'
      /\ call' # "none" => Sending'
  BY <1>2, Leaves
<1>4. \A d \in Caller : /\ caller'[d] # "idle" <=> d \in Queued'
                        /\ caller'[d] # "idle" => calls'[d] > 0
                        /\ caller'[d] = "receiving" => Holds(d)'
  BY <1>1, <1>2, <1>3 DEF Lined
<1>5. /\ heart' = "sending" <=> Heart \in Queued'
      /\ main' \in {"reporting", "receiving"} <=> Main \in Queued'
      /\ heart' # "off" => main' = "executing"
  BY <1>1, <1>3, ActorAssumption DEF Lined
<1> QED
  BY <1>3, <1>4, <1>5 DEF Lined

(* The same of the heartbeat, which sleeps on or is off. *)
LEMMA HeartLeaves ==
  ASSUME IInv, NEW k \in 1..Len(queue), queue' \in Seq(Actor),
         Removed(queue, k, queue'), queue[k] = Heart,
         call' = IF k = 1 THEN "none" ELSE call,
         heart' = "off" \/ (heart' = "asleep" /\ main' = main),
         main' = main \/ (main' = "raised" /\ main = "executing"),
         UNCHANGED <<caller, calls>>
  PROVE  Lined'
<1>1. Lined /\ Typed
  BY DEF IInv
<1>2. /\ Distinct(queue)' /\ Queued' = Queued \ {Heart}
      /\ \A c \in Caller : c # Heart /\ caller[c] = "receiving" =>
           k > 1 /\ Holds(c)'
      /\ call' # "none" => Sending'
  BY Leaves
<1>3. Heart \in Queued
  BY DEF Queued, Members
<1>4. heart = "sending" /\ main = "executing"
  BY <1>1, <1>3 DEF Lined
<1>5. /\ ~(heart' = "sending") /\ Heart \notin Queued'
      /\ heart' # "off" => main' = "executing"
      /\ main' \notin {"reporting", "receiving"} /\ Main \notin Queued
  BY <1>1, <1>2, <1>4 DEF Lined
<1>6. \A d \in Caller : /\ d # Heart
                        /\ caller'[d] # "idle" <=> d \in Queued'
                        /\ caller'[d] # "idle" => calls'[d] > 0
                        /\ caller'[d] = "receiving" => Holds(d)'
  BY <1>1, <1>2, ActorAssumption DEF Lined
<1> QED
  BY <1>2, <1>5, <1>6 DEF Lined

(* Where somebody is who holds the lock, or waits for it. *)
LEMMA Place ==
  ASSUME IInv, NEW e \in Queued
  PROVE  /\ \E k \in 1..Len(queue) :
              /\ queue[k] = e /\ (k = 1 <=> Holds(e))
              /\ RemoveFirst(queue, e) \in Seq(Actor)
              /\ Removed(queue, k, RemoveFirst(queue, e))
         /\ Holds(e) => /\ 1 \in 1..Len(queue) /\ queue[1] = e
                        /\ Tail(queue) \in Seq(Actor)
                        /\ Removed(queue, 1, Tail(queue))
<1>1. PICK k \in 1..Len(queue) : queue[k] = e
  BY DEF Queued, Members
<1>2. Len(queue) \in Nat /\ 1 \in 1..Len(queue) /\ queue # <<>>
  BY <1>1, Line
<1>3. k = 1 <=> Holds(e)
  BY <1>1, <1>2, Line DEF Distinct
<1>4. /\ RemoveFirst(queue, e) \in Seq(Actor)
      /\ Removed(queue, k, RemoveFirst(queue, e))
  BY <1>1, Line, RemoveFirstRemoves
<1>5. Tail(queue) \in Seq(Actor) /\ Removed(queue, 1, Tail(queue))
  BY <1>2, Line, TailRemoves
<1> QED
  BY <1>1, <1>2, <1>3, <1>4, <1>5, Line

(* Who receives holds the lock, and no call is on its way. *)
LEMMA Quiet ==
  ASSUME IInv, NEW c \in Caller, caller[c] = "receiving"
  PROVE  Holds(c) /\ queue[1] = c /\ Len(queue) > 0 /\ call = "none" /\ Receiving
<1>1. Holds(c) /\ queue[1] = c /\ Len(queue) > 0
  BY Line DEF IInv, Lined
<1>2. ~Sending
  BY <1>1, Line, ActorAssumption
<1> QED
  BY <1>1, <1>2 DEF IInv, Lined, Receiving

(* The queue when the heartbeat is cancelled, wherever that is. *)
LEMMA HeartGone ==
  ASSUME IInv, main = "executing"
  PROVE  LET q == RemoveFirst(queue, Heart)
             left == IF Holds(Heart) THEN "none" ELSE call
         IN /\ q \in Seq(Actor) /\ Distinct(q) /\ Members(q) = Queued \ {Heart}
            /\ Main \notin Members(q)
            /\ \A c \in Caller : caller[c] = "receiving" =>
                 Len(q) > 0 /\ q[1] = c
            /\ left # "none" => Len(q) > 0 /\ q[1] = queue[1] /\ Sending
<1> DEFINE q == RemoveFirst(queue, Heart)
           left == IF Holds(Heart) THEN "none" ELSE call
<1>1. Main \notin Queued
  BY DEF IInv, Lined
<1>2. call # "none" => Sending
  BY DEF IInv, Lined
<1>3. CASE Heart \notin Queued
  <2>1. q = queue
    BY <1>3, Line, RemoveFirstAbsent DEF Queued
  <2> HIDE DEF q
  <2>2. left # "none" => call # "none"
    OBVIOUS
  <2>3. \A c \in Caller : caller[c] = "receiving" => Len(q) > 0 /\ q[1] = c
    BY <2>1, Quiet
  <2> QED
    BY <1>1, <1>2, <1>3, <2>1, <2>2, <2>3, Line DEF q, Queued
<1>4. CASE Heart \in Queued
  <2> PICK k \in 1..Len(queue) : /\ queue[k] = Heart /\ (k = 1 <=> Holds(Heart))
                                /\ q \in Seq(Actor) /\ Removed(queue, k, q)
    BY <1>4, Place
  <2> HIDE DEF q
  <2>1. Distinct(q) /\ Members(q) = Queued \ {Heart}
    BY Line, RemovedKeeps DEF Queued
  <2>2. ASSUME k > 1 PROVE Len(q) > 0 /\ q[1] = queue[1]
    <3>1. Len(q) = Len(queue) - 1 /\ Len(queue) \in Nat
      BY Line DEF Removed
    <3>2. 1 \in 1..Len(q) /\ 1 < k
      BY <2>2, <3>1
    <3> QED
      BY <3>1, <3>2 DEF Removed
  <2>3. ASSUME NEW c \in Caller, caller[c] = "receiving"
        PROVE  Len(q) > 0 /\ q[1] = c
    <3>1. queue[1] = c /\ c # Heart
      BY <2>3, Quiet, ActorAssumption
    <3>2. k > 1
      BY <3>1
    <3> QED
      BY <2>2, <3>1, <3>2
  <2>4. left # "none" => k > 1 /\ call # "none"
    OBVIOUS
  <2> HIDE DEF left
  <2>5. /\ \A c \in Caller : caller[c] = "receiving" => Len(q) > 0 /\ q[1] = c
        /\ left # "none" => Len(q) > 0 /\ q[1] = queue[1] /\ Sending
    BY <1>2, <2>2, <2>3, <2>4
  <2>6. q \in Seq(Actor) /\ Main \notin Members(q)
    BY <1>1, <2>1
  <2> QED
    BY <2>1, <2>5, <2>6 DEF q, left
<1> QED
  BY <1>3, <1>4

(* The end of the handler stops the heartbeat and may queue the report. *)
LEMMA HandlerEndsLined ==
  ASSUME IInv, HandlerReturns \/ HandlerRaises
  PROVE  Lined'
<1> DEFINE q == RemoveFirst(queue, Heart)
           left == IF Holds(Heart) THEN "none" ELSE call
<1>1. Lined /\ Typed
  BY DEF IInv
<1>2. /\ main = "executing" /\ heart' = "off" /\ call' = left
      /\ UNCHANGED <<caller, calls>>
      /\ \/ main' = "reporting" /\ queue' = Append(q, Main)
         \/ main' = "raised" /\ queue' = q
  BY DEF HandlerReturns, HandlerRaises, StopHeart
<1>3. /\ q \in Seq(Actor) /\ Distinct(q) /\ Members(q) = Queued \ {Heart}
      /\ Main \notin Members(q)
      /\ \A c \in Caller : caller[c] = "receiving" => Len(q) > 0 /\ q[1] = c
      /\ left # "none" => Len(q) > 0 /\ q[1] = queue[1] /\ Sending
  BY <1>2, HeartGone
<1> HIDE DEF q, left
<1>4. /\ queue' \in Seq(Actor) /\ Distinct(queue')
      /\ Members(queue') = (Queued \ {Heart}) \cup
                            IF main' = "reporting" THEN {Main} ELSE {}
      /\ Len(q) > 0 => queue' # <<>> /\ Head(queue') = q[1]
  <2>1. CASE queue' = q
    BY <1>2, <1>3, <2>1
  <2>2. CASE main' = "reporting" /\ queue' = Append(q, Main)
    <3>1. /\ queue' \in Seq(Actor) /\ Len(queue') = Len(q) + 1
          /\ \A i \in 1..Len(q) : queue'[i] = q[i]
          /\ Distinct(queue')
          /\ Members(queue') = Members(q) \cup {Main}
      BY <1>3, <2>2, AppendKeeps DEF Actor
    <3>2. Len(q) > 0 => queue'[1] = q[1]
      BY <1>3, <3>1
    <3> QED
      BY <1>3, <2>2, <3>1, <3>2
  <2> QED
    BY <1>2, <2>1, <2>2
<1>5. \A d \in Caller : /\ caller'[d] # "idle" <=> d \in Members(queue')
                        /\ caller'[d] # "idle" => calls'[d] > 0
                        /\ caller'[d] = "receiving" => Holds(d)'
  BY <1>1, <1>2, <1>3, <1>4, ActorAssumption DEF Lined, Holds
<1>6. call' # "none" => Sending'
  <2> SUFFICES ASSUME left # "none" PROVE Sending'
    BY <1>2
  <2>1. Head(queue') = queue[1] /\ queue' # <<>> /\ Sending
    BY <1>3, <1>4
  <2>2. ~(queue[1] = Main /\ main = "reporting")
    BY <1>2
  <2> QED
    BY <1>2, <2>1, <2>2, Line DEF Sending
<1>7. /\ Heart \notin Members(queue')
      /\ main' \in {"reporting", "receiving"} <=> Main \in Members(queue')
  BY <1>1, <1>2, <1>4, ActorAssumption DEF Lined
<1> QED
  BY <1>2, <1>4, <1>5, <1>6, <1>7 DEF Lined, Queued, Members, Distinct

(* The main coroutine lets go of the lock and asks for it again. *)
LEMMA ReportLined ==
  ASSUME IInv, ReportAnswered
  PROVE  Lined'
<1> DEFINE q == Tail(queue)
<1>1. Lined /\ Typed
  BY DEF IInv
<1>2. /\ Holds(Main) /\ main = "reporting" /\ main' = "receiving"
      /\ call' = "none" /\ queue' = Append(q, Main)
      /\ UNCHANGED <<caller, calls, heart>>
  BY DEF ReportAnswered
<1>3. /\ 1 \in 1..Len(queue) /\ queue[1] = Main
      /\ q \in Seq(Actor) /\ Removed(queue, 1, q) /\ Main \in Queued
  BY <1>2, Line, Place
<1> HIDE DEF q
<1>4. Distinct(q) /\ Members(q) = Queued \ {Main}
  BY <1>3, Line, RemovedKeeps DEF Queued
<1>5. /\ queue' \in Seq(Actor) /\ Distinct(queue')
      /\ Members(queue') = Queued
  <2>1. Main \in Actor /\ Main \notin Members(q)
    BY <1>4 DEF Actor
  <2>2. /\ queue' \in Seq(Actor) /\ Distinct(queue')
        /\ Members(queue') = Members(q) \cup {Main}
    BY <1>2, <1>3, <1>4, <2>1, AppendKeeps
  <2> QED
    BY <1>3, <1>4, <2>2
<1>6. \A d \in Caller : caller[d] # "receiving"
  BY <1>3, Quiet, ActorAssumption
<1>7. heart = "off"
  BY <1>1, <1>2 DEF Lined, Typed
<1> QED
  BY <1>1, <1>2, <1>3, <1>5, <1>6, <1>7
     DEF Lined, Queued, Members, Distinct

(* What the main coroutine receives is the end. *)
LEMMA MainGetsEnd ==
  ASSUME IInv, MainReceives
  PROVE  /\ main = "receiving" /\ main' = "ended"
         /\ queue' = RemoveFirst(queue, Main)
         /\ Holds(Main) /\ ~Receiving /\ call = "none"
         /\ held' = <<>> /\ inbox' = <<>>
         /\ UNCHANGED <<caller, calls, heart, call, clock>>
<1>1. /\ main = "receiving" /\ Holds(Main) /\ queue[1] = Main /\ Len(queue) > 0
      /\ UNCHANGED <<caller, calls, heart, call, clock>>
  BY Line DEF MainReceives
<1>2. ~Receiving
  BY <1>1, Line, ActorAssumption DEF Receiving
<1>3. call = "none"
  BY <1>1, Line, ActorAssumption DEF IInv, Lined
<1>4. \/ held = <<EndEvent>> /\ inbox = <<>>
      \/ held = <<>> /\ inbox = <<EndEvent>> \o <<>>
  BY <1>1, <1>2 DEF IInv, Mail, Ending, Answers
<1>5. <<EndEvent>> \o <<>> = <<EndEvent>> /\ <<EndEvent>> # <<>>
      /\ Head(<<EndEvent>>) = EndEvent /\ Tail(<<EndEvent>>) = <<>>
  OBVIOUS
<1>6. MainTakes(EndEvent) /\ held' = <<>> /\ inbox' = <<>>
  BY <1>4, <1>5, Zenon DEF MainReceives
<1> QED
  BY <1>1, <1>2, <1>3, <1>6 DEF MainTakes

(* The main coroutine leaves with the end event. *)
LEMMA MainLined ==
  ASSUME IInv, MainReceives
  PROVE  Lined'
<1>1. Lined /\ Typed
  BY DEF IInv
<1>2. /\ main = "receiving" /\ main' = "ended" /\ call' = "none"
      /\ queue' = RemoveFirst(queue, Main) /\ Holds(Main) /\ ~Receiving
      /\ UNCHANGED <<caller, calls, heart>>
  BY MainGetsEnd
<1>3. Main \in Queued
  BY <1>2, Line
<1> PICK k \in 1..Len(queue) : /\ queue[k] = Main
                              /\ RemoveFirst(queue, Main) \in Seq(Actor)
                              /\ Removed(queue, k, RemoveFirst(queue, Main))
  BY <1>3, Place
<1>4. queue' \in Seq(Actor) /\ Distinct(queue') /\ Members(queue') = Queued \ {Main}
  BY <1>2, Line, RemovedKeeps DEF Queued
<1>5. \A d \in Caller : caller[d] # "receiving"
  BY <1>2, Quiet
<1>6. heart = "off"
  BY <1>1, <1>2 DEF Lined, Typed
<1> QED
  BY <1>1, <1>2, <1>4, <1>5, <1>6, ActorAssumption
     DEF Lined, Queued, Members, Distinct

(* Every step keeps the line. *)
LEMMA LinedKeeps ==
  ASSUME IInv, Next
  PROVE  Lined'
<1>1. Lined /\ Typed
  BY DEF IInv
<1>2. ASSUME NEW c \in Caller, CallRaises(c) \/ CancelCall(c) PROVE Lined'
  <2>1. c \in Queued
    BY <1>1, <1>2, Line DEF CallRaises, CancelCall, Lined
  <2>2. /\ caller' = [caller EXCEPT ![c] = "idle"]
        /\ UNCHANGED <<calls, heart, main>>
    BY <1>2 DEF CallRaises, CancelCall
  <2>3. CASE CallRaises(c)
    <3>1. Holds(c) /\ call' = "none" /\ queue' = Tail(queue)
      BY <2>3 DEF CallRaises, Release
    <3>2. /\ 1 \in 1..Len(queue) /\ queue[1] = c
          /\ queue' \in Seq(Actor) /\ Removed(queue, 1, queue')
      BY <2>1, <3>1, Place
    <3> QED
      BY <2>2, <3>1, <3>2, CallerLeaves
  <2>4. CASE CancelCall(c)
    <3>1. PICK k \in 1..Len(queue) :
            /\ queue[k] = c /\ (k = 1 <=> Holds(c))
            /\ RemoveFirst(queue, c) \in Seq(Actor)
            /\ Removed(queue, k, RemoveFirst(queue, c))
      BY <2>1, Place
    <3>2. /\ queue' = RemoveFirst(queue, c)
          /\ call' = IF k = 1 THEN "none" ELSE call
      BY <2>4, <3>1 DEF CancelCall
    <3> QED
      BY <2>2, <3>1, <3>2, CallerLeaves
  <2> QED
    BY <1>2, <2>3, <2>4
<1>3. ASSUME NEW c \in Caller, CallAnswered(c) PROVE Lined'
  <2>1. /\ Holds(c) /\ call' = "none" /\ UNCHANGED <<calls, heart, main, queue>>
        /\ caller' = [caller EXCEPT ![c] = "receiving"]
        /\ Holds(c)' /\ c \in Queued
    BY <1>3, Line DEF CallAnswered, Holds
  <2>2. \A d \in Caller : caller[d] = "receiving" => d = c
    BY <2>1, Quiet, Line
  <2> QED
    BY <1>1, <2>1, <2>2 DEF Lined, Typed, Queued
<1>4. ASSUME NEW c \in Caller, Collect(c) PROVE Lined'
  <2>1. /\ Holds(c) /\ c \in Queued /\ call = "none"
        /\ UNCHANGED <<calls, heart, main, call>>
    BY <1>4, Line, Quiet DEF Collect
  <2>2. CASE Head(inbox) = AnswerFor(c)
    <3>1. queue' = Tail(queue) /\ caller' = [caller EXCEPT ![c] = "idle"]
      BY <1>4, <2>2 DEF Collect, Release
    <3>2. /\ 1 \in 1..Len(queue) /\ queue[1] = c
          /\ queue' \in Seq(Actor) /\ Removed(queue, 1, queue')
      BY <2>1, <3>1, Place
    <3> QED
      BY <2>1, <3>1, <3>2, CallerLeaves
  <2>3. CASE Head(inbox) # AnswerFor(c)
    <3>1. UNCHANGED <<caller, queue>>
      BY <1>4, <2>3 DEF Collect
    <3> QED
      BY <1>1, <2>1, <3>1 DEF Lined, Queued, Holds
  <2> QED
    BY <2>2, <2>3
<1>5. CASE BeginCall \/ EngineHandles \/ Tick
  <2>1. /\ UNCHANGED <<caller, calls, heart, main, queue>>
        /\ call' = "none" \/ Sending
    BY <1>1, <1>5 DEF BeginCall, EngineHandles, Tick, Lined
  <2>2. call' = "none" \/ Sending'
    BY <2>1 DEF Sending
  <2>3. \A d \in Caller : caller[d] = "receiving" => call = "none" /\ ~Sending
    BY Quiet, Line, ActorAssumption
  <2> QED
    BY <1>1, <2>1, <2>2 DEF Lined, Queued, Holds
<1>6. CASE HeartAnswered \/ HeartRaises
  <2>1. /\ Holds(Heart) /\ call' = "none" /\ queue' = Tail(queue)
        /\ heart' \in {"asleep", "off"} /\ UNCHANGED <<caller, calls, main>>
    BY <1>6 DEF HeartAnswered, HeartRaises, Release
  <2>2. /\ 1 \in 1..Len(queue) /\ queue[1] = Heart
        /\ queue' \in Seq(Actor) /\ Removed(queue, 1, queue')
    BY <2>1, Line, Place
  <2>3. /\ call' = IF 1 = 1 THEN "none" ELSE call
        /\ heart' = "off" \/ (heart' = "asleep" /\ main' = main)
        /\ main' = main \/ (main' = "raised" /\ main = "executing")
    BY <2>1
  <2> QED
    BY <2>1, <2>2, <2>3, HeartLeaves
<1>7. CASE ExceptionReported
  <2>1. /\ UNCHANGED <<caller, calls, heart, queue, call>>
        /\ main = "raised" /\ main' = "reported"
    BY <1>7 DEF ExceptionReported
  <2>2. heart = "off"
    BY <1>1, <2>1 DEF Lined
  <2>3. call' # "none" => Sending'
    BY <1>1, <2>1 DEF Lined, Sending
  <2> QED
    BY <1>1, <2>1, <2>2, <2>3 DEF Lined, Queued, Holds
<1> QED
  BY <1>2, <1>3, <1>4, <1>5, <1>6, <1>7, JoinsLined, HandlerEndsLined,
     ReportLined, MainLined DEF Next, CallerStep
-----------------------------------------------------------------------------
(* The events on their way.                                                 *)

(* Head and tail of two events. *)
LEMMA PairTail ==
  ASSUME NEW x, NEW y
  PROVE  Head(<<x>> \o <<y>>) = x /\ Tail(<<x>> \o <<y>>) = <<y>>
<1> DEFINE s == <<x>> \o <<y>>
           t == <<y>>
           r == Tail(s)
<1>1. s \in Seq({x, y}) /\ t \in Seq({x, y}) /\ s # <<>>
  OBVIOUS
<1>2. Len(s) = 2 /\ Len(t) = 1 /\ s[1] = x /\ s[2] = y /\ t[1] = y
  OBVIOUS
<1> HIDE DEF s, t
<1>3. r \in Seq({x, y}) /\ Len(r) = 1 /\ r[1] = s[2] /\ Head(s) = s[1]
  BY <1>1, <1>2
<1> HIDE DEF r
<1>4. Len(r) = Len(t) /\ \A i \in 1..Len(r) : r[i] = t[i]
  BY <1>2, <1>3
<1>5. r = t
  BY <1>1, <1>3, <1>4, SeqEqual
<1> QED
  BY <1>2, <1>3, <1>5 DEF s, t, r

(* Who receives: the one who has the lock. *)
LEMMA AnswersAre ==
  ASSUME IInv
  PROVE  /\ \A c \in Caller : caller[c] = "receiving" => Answers = <<AnswerFor(c)>>
         /\ (\A c \in Caller : caller[c] # "receiving") => Answers = <<>>
<1>1. ASSUME NEW c \in Caller, caller[c] = "receiving"
      PROVE  Answers = <<AnswerFor(c)>>
  BY <1>1, Quiet, Line DEF Answers
<1>2. (\A c \in Caller : caller[c] # "receiving") => ~Receiving
  BY DEF Receiving
<1> QED
  BY <1>1, <1>2 DEF Answers

(* An answer does not change while it is awaited. *)
LEMMA AnswersKept ==
  ASSUME IInv, Lined', Typed',
         \A c \in Caller : /\ caller'[c] = "receiving" <=> caller[c] = "receiving"
                           /\ caller[c] = "receiving" => calls'[c] = calls[c]
  PROVE  Answers' = Answers
<1>1. CASE \E c \in Caller : caller[c] = "receiving"
  <2> PICK c \in Caller : caller[c] = "receiving"
    BY <1>1
  <2>1. Answers = <<AnswerFor(c)>>
    BY AnswersAre
  <2>2. caller'[c] = "receiving" /\ Holds(c)'
    BY DEF Lined
  <2>3. Head(queue') = c /\ Receiving'
    BY <2>2 DEF Holds, Receiving
  <2>4. AnswerFor(c)' = AnswerFor(c)
    BY DEF AnswerFor
  <2> QED
    BY <2>1, <2>3, <2>4 DEF Answers, AnswerFor
<1>2. CASE \A c \in Caller : caller[c] # "receiving"
  <2>1. ~Receiving'
    BY <1>2 DEF Receiving
  <2> QED
    BY <1>2, <2>1, AnswersAre DEF Answers
<1> QED
  BY <1>1, <1>2

(* Every step keeps the mail. *)
LEMMA MailKeeps ==
  ASSUME IInv, Next, Lined', Typed'
  PROVE  Mail'
<1>1. Lined /\ Typed /\ Mail
  BY DEF IInv
<1>2. ASSUME UNCHANGED <<inbox, held>>,
             main' = main \/ (~Ending /\ ~Ending'),
             \A c \in Caller : /\ caller'[c] = "receiving" <=> caller[c] = "receiving"
                               /\ caller[c] = "receiving" => calls'[c] = calls[c]
      PROVE  Mail'
  <2>1. Answers' = Answers
    BY <1>2, AnswersKept
  <2> QED
    BY <1>1, <1>2, <2>1, Zenon DEF Mail, Ending, EndEvent
<1>3. ASSUME NEW c \in Caller, StartCall(c) PROVE Mail'
  <2>1. /\ UNCHANGED <<inbox, held, main>>
        /\ caller[c] = "idle" /\ caller' = [caller EXCEPT ![c] = "sending"]
        /\ calls' = [calls EXCEPT ![c] = @ + 1]
    BY <1>3 DEF StartCall
  <2>2. \A d \in Caller : /\ caller'[d] = "receiving" <=> caller[d] = "receiving"
                          /\ caller[d] = "receiving" => calls'[d] = calls[d]
    BY <1>1, <2>1 DEF Typed
  <2> QED
    BY <1>2, <2>1, <2>2
<1>4. ASSUME NEW c \in Caller, CallRaises(c) \/ CancelCall(c) PROVE Mail'
  <2>1. /\ UNCHANGED <<inbox, held, main, calls>>
        /\ caller' = [caller EXCEPT ![c] = "idle"]
    BY <1>4 DEF CallRaises, CancelCall
  <2>2. caller[c] # "receiving"
    BY <1>4, Quiet DEF CallRaises, CancelCall
  <2>3. \A d \in Caller : /\ caller'[d] = "receiving" <=> caller[d] = "receiving"
                          /\ caller[d] = "receiving" => calls'[d] = calls[d]
    BY <1>1, <2>1, <2>2 DEF Typed
  <2> QED
    BY <1>2, <2>1, <2>3
<1>5. ASSUME NEW c \in Caller, CallAnswered(c) PROVE Mail'
  <2>1. /\ Holds(c) /\ call # "none" /\ UNCHANGED <<held, main, calls, queue>>
        /\ inbox' = Append(inbox, AnswerFor(c))
        /\ caller' = [caller EXCEPT ![c] = "receiving"]
    BY <1>5 DEF CallAnswered
  <2>2. Answers = <<>>
    BY <2>1, Quiet, AnswersAre
  <2>3. Answers' = <<AnswerFor(c)>>
    <3>1. caller'[c] = "receiving" /\ Holds(c)' /\ Head(queue') = c
      BY <1>1, <2>1, Line DEF Typed, Holds
    <3>2. AnswerFor(c)' = AnswerFor(c)
      BY <2>1 DEF AnswerFor
    <3> QED
      BY <2>1, <3>1, <3>2 DEF Answers, Receiving, AnswerFor
  <2>4. /\ Append(<<>>, AnswerFor(c)) = <<AnswerFor(c)>>
        /\ Append(<<EndEvent>> \o <<>>, AnswerFor(c)) = <<EndEvent>> \o <<AnswerFor(c)>>
        /\ <<>> \o <<EndEvent>> = <<EndEvent>> \o <<>>
    OBVIOUS
  <2>5. main = "reported" => Ending
    BY DEF Ending
  <2>6. \/ ~Ending /\ held = <<>> /\ inbox = <<>>
        \/ Ending /\ held = <<EndEvent>> /\ inbox = <<>>
        \/ Ending /\ held = <<>> /\ inbox = <<EndEvent>> \o <<>>
    BY <1>1, <2>2, <2>4, <2>5, Zenon DEF Mail
  <2> QED
    BY <2>1, <2>3, <2>4, <2>6, Zenon DEF Mail, Ending, EndEvent
<1>6. ASSUME NEW c \in Caller, Collect(c) PROVE Mail'
  <2>1. /\ caller[c] = "receiving" /\ inbox # <<>> /\ inbox' = Tail(inbox)
        /\ UNCHANGED <<main, calls>> /\ Answers = <<AnswerFor(c)>>
    BY <1>6, AnswersAre DEF Collect
  <2>2. /\ <<EndEvent>> \o <<AnswerFor(c)>> # <<AnswerFor(c)>>
        /\ <<AnswerFor(c)>> \o <<EndEvent>> # <<AnswerFor(c)>>
    <3>1. /\ Len(<<EndEvent>> \o <<AnswerFor(c)>>) = 2
          /\ Len(<<AnswerFor(c)>> \o <<EndEvent>>) = 2
          /\ Len(<<AnswerFor(c)>>) = 1
      OBVIOUS
    <3> QED
      BY <3>1
  <2>3. CASE inbox = <<AnswerFor(c)>>
    <3>1. /\ Head(inbox) = AnswerFor(c) /\ inbox' = <<>>
      BY <2>1, <2>3
    <3>2. caller' = [caller EXCEPT ![c] = "idle"] /\ held' = held
      BY <1>6, <3>1 DEF Collect
    <3>3. \A d \in Caller : caller'[d] # "receiving"
      BY <1>1, <2>1, <3>2, Quiet DEF Typed
    <3>4. Answers' = <<>>
      BY <3>3 DEF Answers, Receiving
    <3>5. \/ ~Ending /\ held = <<>>
          \/ Ending /\ held = <<EndEvent>>
      BY <1>1, <2>1, <2>2, <2>3, Zenon DEF Mail
    <3> QED
      BY <2>1, <3>1, <3>2, <3>4, <3>5, Zenon DEF Mail, Ending, EndEvent
  <2>4. CASE Ending /\ held = <<>> /\ inbox = <<EndEvent>> \o <<AnswerFor(c)>>
    <3>1. Head(inbox) = EndEvent /\ Tail(inbox) = <<AnswerFor(c)>>
      BY <2>4, PairTail, Zenon
    <3>2. Head(inbox) # AnswerFor(c)
      BY <3>1 DEF EndEvent, AnswerFor
    <3>3. held' = <<EndEvent>> /\ UNCHANGED <<caller, queue>>
      BY <1>6, <2>4, <3>1, <3>2 DEF Collect
    <3>4. Answers' = Answers
      BY <2>1, <3>3, AnswersKept
    <3> QED
      BY <2>1, <2>4, <3>1, <3>3, <3>4, Zenon DEF Mail, Ending, EndEvent
  <2>5. CASE /\ main = "reported" /\ held = <<>>
             /\ inbox = <<AnswerFor(c)>> \o <<EndEvent>>
    <3>1. Head(inbox) = AnswerFor(c) /\ Tail(inbox) = <<EndEvent>>
      BY <2>5, PairTail, Zenon
    <3>2. caller' = [caller EXCEPT ![c] = "idle"] /\ held' = <<>>
      BY <1>6, <2>5, <3>1 DEF Collect
    <3>3. \A d \in Caller : caller'[d] # "receiving"
      BY <1>1, <2>1, <3>2, Quiet, Line DEF Typed
    <3>4. Answers' = <<>> /\ <<EndEvent>> = <<EndEvent>> \o <<>>
      BY <3>3 DEF Answers, Receiving
    <3> QED
      BY <2>1, <2>5, <3>1, <3>2, <3>4, Zenon DEF Mail, Ending, EndEvent
  <2>6. \/ inbox = <<AnswerFor(c)>>
        \/ Ending /\ held = <<>> /\ inbox = <<EndEvent>> \o <<AnswerFor(c)>>
        \/ /\ main = "reported" /\ held = <<>>
           /\ inbox = <<AnswerFor(c)>> \o <<EndEvent>>
    BY <1>1, <2>1, Zenon DEF Mail
  <2> QED
    BY <2>3, <2>4, <2>5, <2>6
<1>7. CASE WakeHeart \/ BeginCall \/ EngineHandles \/ Tick
           \/ HeartAnswered \/ HeartRaises
  <2>1. UNCHANGED <<inbox, held, main, caller, calls>>
    BY <1>7 DEF WakeHeart, BeginCall, EngineHandles, Tick, HeartAnswered,
       HeartRaises
  <2> QED
    BY <1>2, <2>1
<1>8. CASE HandlerReturns \/ HandlerRaises
  <2>1. /\ UNCHANGED <<inbox, held, caller, calls>>
        /\ ~Ending /\ ~Ending'
    BY <1>8 DEF HandlerReturns, HandlerRaises, Ending
  <2> QED
    BY <1>2, <2>1
<1>9. CASE ReportAnswered
  <2>1. /\ Holds(Main) /\ main = "reporting" /\ main' = "receiving"
        /\ UNCHANGED <<caller, calls, held>>
        /\ inbox' = Append(inbox, EndEvent) /\ queue[1] = Main
    BY <1>9, Line DEF ReportAnswered
  <2>2. \A c \in Caller : caller[c] # "receiving"
    BY <2>1, Quiet, ActorAssumption
  <2>3. Answers = <<>> /\ Answers' = <<>>
    BY <2>1, <2>2, AnswersAre DEF Answers, Receiving
  <2>4. held = <<>> /\ inbox = <<>>
    BY <1>1, <2>1, <2>3 DEF Mail, Ending
  <2>5. Append(<<>>, EndEvent) = <<EndEvent>> \o <<>>
    OBVIOUS
  <2> QED
    BY <2>1, <2>3, <2>4, <2>5, Zenon DEF Mail, Ending, EndEvent
<1>10. CASE MainReceives
  <2>1. /\ main' = "ended" /\ held' = <<>> /\ inbox' = <<>> /\ ~Receiving
        /\ caller' = caller
    BY <1>10, MainGetsEnd
  <2>2. Answers' = <<>>
    BY <2>1, Quiet DEF Answers, Receiving
  <2> QED
    BY <2>1, <2>2 DEF Mail, Ending
<1>11. CASE ExceptionReported
  <2>1. /\ UNCHANGED <<caller, calls, held>>
        /\ main = "raised" /\ main' = "reported"
        /\ inbox' = Append(inbox, EndEvent)
    BY <1>11 DEF ExceptionReported
  <2>2. held = <<>> /\ inbox = Answers
    BY <1>1, <2>1 DEF Mail, Ending
  <2>3. Answers' = Answers
    BY <2>1, AnswersKept
  <2>4. Append(Answers, EndEvent) = Answers \o <<EndEvent>>
    <3>1. \/ Answers = <<>>
          \/ \E c \in Caller : Answers = <<AnswerFor(c)>>
      BY AnswersAre
    <3>2. CASE Answers = <<>>
      BY <3>2
    <3>3. ASSUME NEW c \in Caller, Answers = <<AnswerFor(c)>>
          PROVE  Append(Answers, EndEvent) = Answers \o <<EndEvent>>
      BY <3>3
    <3> QED
      BY <3>1, <3>2, <3>3
  <2> QED
    BY <2>1, <2>2, <2>3, <2>4, Zenon DEF Mail, EndEvent
<1> QED
  BY <1>3, <1>4, <1>5, <1>6, <1>7, <1>8, <1>9, <1>10, <1>11 DEF Next, CallerStep
-----------------------------------------------------------------------------
(* Time.                                                                    *)

(* While the handler runs, there are not more before the heartbeat than *)

(* there are callers.                                                   *)
LEMMA QueueShort ==
  ASSUME IInv, main = "executing", heart = "asleep"
  PROVE  Len(queue) <= Cardinality(Caller)
<1>1. /\ Len(queue) \in Nat /\ Cardinality(Caller) \in Nat
      /\ IsFiniteSet(Caller) /\ Distinct(queue)
  BY Line, DurationLasts, ActorAssumption
<1>2. \A i \in 1..Len(queue) : queue[i] \in Caller
  <2>1. Queued \subseteq Actor /\ Heart \notin Queued /\ Main \notin Queued
    BY Line DEF IInv, Lined, Queued, Members
  <2> QED
    BY <2>1 DEF Queued, Members, Actor
<1> DEFINE f == [i \in 1..Len(queue) |-> queue[i]]
<1>3. f \in [1..Len(queue) -> Caller]
  BY <1>2
<1>4. IsFiniteSet(1..Len(queue)) /\ Cardinality(1..Len(queue)) = Len(queue)
  <2> DEFINE n == Len(queue)
  <2>1. n \in Int /\ 1 \in Int /\ n >= 0
    BY <1>1
  <2> HIDE DEF n
  <2>2. IsFiniteSet(1..n) /\ Cardinality(1..n) = IF 1 > n THEN 0 ELSE n - 1 + 1
    BY <2>1, FS_Interval
  <2>3. Cardinality(1..n) = n
    BY <2>1, <2>2
  <2> QED
    BY <2>2, <2>3 DEF n
<1>5. ASSUME Cardinality(Caller) < Len(queue) PROVE FALSE
  <2> HIDE DEF f
  <2>1. \E i, j \in 1..Len(queue) : i # j /\ f[i] = f[j]
    BY <1>1, <1>3, <1>4, <1>5, FS_PigeonHole
  <2> QED
    BY <1>1, <2>1 DEF f, Distinct
<1> QED
  BY <1>1, <1>5

(* Of the request that is served not more is gone than it may take. *)
LEMMA UsedBounds ==
  ASSUME Typed
  PROVE  Used \in 0..Latency
BY DurationLasts DEF Typed, Used

(* What moves nobody before the heartbeat, and takes nothing of the time *)

(* that is gone, keeps the heartbeat in time.                            *)
LEMMA TimeKept ==
  ASSUME IInv, Typed', UNCHANGED <<heart, main, alarm, lock>>,
         \A i \in 1..Len(queue') : queue'[i] = Heart =>
           i \in 1..Len(queue) /\ queue[i] = Heart,
         Used' >= Used,
         Len(queue) > 0 /\ queue[1] = Heart =>
           /\ call' = "handled" => call = "handled"
           /\ call = "handled" => call' = "handled" /\ age' = age
  PROVE  InTime'
<1> USE DEF lock
<1> SUFFICES ASSUME main = "executing", renewed PROVE InTime'
  BY DEF InTime
<1>1. InTime /\ Typed
  BY DEF IInv
<1>2. Used \in Nat /\ Used' \in Nat
  <2>1. Used' \in 0..Latency
    BY DurationLasts DEF Typed, Used
  <2> QED
    BY <1>1, <2>1, UsedBounds, DurationLasts
<1>3. ASSUME NEW i \in 1..Len(queue), queue[i] = Heart
      PROVE  IF i = 1 /\ call' = "handled" THEN lease >= Duration - age'
             ELSE lease > i * Latency - Used'
  <2>1. CASE i = 1 /\ call' = "handled"
    BY <1>1, <1>3, <2>1 DEF InTime
  <2>2. CASE ~(i = 1 /\ call' = "handled")
    <3>1. ~(i = 1 /\ call = "handled")
      BY <1>3, <2>2
    <3>2. lease > i * Latency - Used
      BY <1>1, <1>3, <3>1 DEF InTime
    <3>3. i * Latency \in Nat /\ lease \in Nat
      BY <1>1, Products, Line, DurationLasts DEF Typed
    <3>4. lease > i * Latency - Used'
      BY <1>2, <3>2, <3>3
    <3> QED
      BY <2>2, <3>4
  <2> QED
    BY <2>1, <2>2
<1>4. heart = "asleep" => lease > alarm + (Cardinality(Caller) + 1) * Latency
  BY <1>1 DEF InTime
<1> QED
  BY <1>3, <1>4 DEF InTime

(* Somebody before the heartbeat leaves the queue, or somebody behind it: *)

(* who leaves first has used his time at most.                            *)
LEMMA TimeRemoved ==
  ASSUME IInv, Typed', NEW k \in 1..Len(queue), queue' \in Seq(Actor),
         Removed(queue, k, queue'), UNCHANGED <<heart, main, alarm, lock, age>>,
         call' = IF k = 1 THEN "none" ELSE call,
         k > 1 => (Receiving' <=> Receiving)
  PROVE  InTime'
<1> USE DEF lock
<1> SUFFICES ASSUME main = "executing", renewed PROVE InTime'
  BY DEF InTime
<1>1. InTime /\ Typed
  BY DEF IInv
<1>2. /\ Used \in 0..Latency /\ Used' \in 0..Latency /\ Latency \in Nat
      /\ lease \in Nat
  BY <1>1, UsedBounds, DurationLasts DEF Typed, Used
<1>3. k > 1 => Used' = Used /\ call' = call
  BY DEF Used
<1>4. Len(queue') = Len(queue) - 1 /\ Len(queue) \in Nat
  BY Line DEF Removed
<1>5. ASSUME NEW i \in 1..Len(queue'), queue'[i] = Heart
      PROVE  IF i = 1 /\ call' = "handled" THEN lease >= Duration - age'
             ELSE lease > i * Latency - Used'
  <2>1. CASE i < k
    <3>1. queue[i] = Heart /\ i \in 1..Len(queue) /\ k > 1
      BY <1>4, <1>5, <2>1 DEF Removed
    <3>2. IF i = 1 /\ call = "handled" THEN lease >= Duration - age
          ELSE lease > i * Latency - Used
      BY <1>1, <3>1 DEF InTime
    <3> QED
      BY <1>3, <3>1, <3>2
  <2>2. CASE i >= k
    <3>1. queue[i + 1] = Heart /\ i + 1 \in 1..Len(queue) /\ i + 1 # 1 /\ i \in Nat
      BY <1>4, <1>5, <2>2 DEF Removed
    <3>2. lease > (i + 1) * Latency - Used
      BY <1>1, <3>1 DEF InTime
    <3>3. (i + 1) * Latency = i * Latency + Latency /\ i * Latency \in Nat
      BY <3>1, Products
    <3> DEFINE p == i * Latency
           u == Used
           v == Used'
    <3>4. /\ lease > (p + Latency) - u /\ p \in Nat
          /\ u \in 0..Latency /\ v \in 0..Latency
      BY <1>2, <3>2, <3>3
    <3> HIDE DEF p, u, v
    <3>5. lease > p - v
      BY <1>2, <3>4
    <3>6. ~(i = 1 /\ call' = "handled")
      BY <2>2, <1>3, <3>1
    <3> QED
      BY <3>5, <3>6 DEF p, v
  <2>3. i < k \/ i >= k
    BY <1>4
  <2> QED
    BY <2>1, <2>2, <2>3
<1>6. heart = "asleep" => lease > alarm + (Cardinality(Caller) + 1) * Latency
  BY <1>1 DEF InTime
<1> QED
  BY <1>5, <1>6 DEF InTime

(* The heartbeat asks for the lock, behind a call of each caller at most. *)
LEMMA WakesInTime ==
  ASSUME IInv, WakeHeart, Typed'
  PROVE  InTime'
<1> USE DEF lock
<1> SUFFICES ASSUME main = "executing", renewed PROVE InTime'
  BY DEF InTime, WakeHeart, clock
<1>1. InTime /\ Typed /\ Lined
  BY DEF IInv
<1>2. /\ heart = "asleep" /\ alarm = 0 /\ heart' = "sending"
      /\ queue' = Append(queue, Heart)
      /\ UNCHANGED <<caller, main, call, age, lease>>
  BY DEF WakeHeart, clock
<1>3. Heart \in Actor /\ Heart \notin Queued
  BY <1>1, <1>2 DEF Actor, Lined
<1>4. /\ Len(queue') = Len(queue) + 1
      /\ \A i \in 1..Len(queue) : queue'[i] = queue[i]
  BY <1>2, <1>3, Joins
<1>5. Len(queue) <= Cardinality(Caller) /\ Len(queue) \in Nat
  BY <1>2, QueueShort, Line
<1>6. lease > (Cardinality(Caller) + 1) * Latency
  <2>1. lease > alarm + (Cardinality(Caller) + 1) * Latency
    BY <1>1, <1>2 DEF InTime
  <2> QED
    BY <1>2, <2>1, DurationLasts
<1>7. ASSUME NEW i \in 1..Len(queue'), queue'[i] = Heart
      PROVE  IF i = 1 /\ call' = "handled" THEN lease' >= Duration - age'
             ELSE lease' > i * Latency - Used'
  <2>1. i = Len(queue) + 1
    BY <1>3, <1>4, <1>5, <1>7 DEF Queued, Members
  <2>2. ~(i = 1 /\ call' = "handled")
    <3>1. i = 1 => ~Sending
      BY <1>5, <2>1, Line
    <3> QED
      BY <1>1, <1>2, <3>1 DEF Lined
  <2>3. i * Latency <= (Cardinality(Caller) + 1) * Latency /\ i * Latency \in Nat
    <3>1. /\ i \in Nat /\ Cardinality(Caller) + 1 \in Nat
          /\ i <= Cardinality(Caller) + 1
      BY <1>5, <2>1, DurationLasts
    <3> QED
      BY <3>1, Products
  <2>4. Used' \in Nat
    BY DurationLasts DEF Typed, Used
  <2>5. lease \in Nat
    BY <1>1, DurationLasts DEF Typed
  <2> DEFINE p == i * Latency
             r == (Cardinality(Caller) + 1) * Latency
             v == Used'
  <2>6. lease > r /\ p <= r /\ p \in Nat /\ r \in Nat /\ v \in Nat
    BY <1>6, <2>3, <2>4, DurationLasts
  <2> HIDE DEF p, r, v
  <2>7. lease > p - v
    BY <2>5, <2>6
  <2> QED
    BY <1>2, <2>2, <2>7 DEF p, v
<1> QED
  BY <1>2, <1>7 DEF InTime

(* The heartbeat's call goes through, or the lock is not extended. *)
LEMMA ExtendsInTime ==
  ASSUME IInv, EngineHandles, Typed'
  PROVE  InTime'
<1> USE DEF lock
<1>1. InTime /\ Typed /\ Lined
  BY DEF IInv
<1>2. /\ call = "started" /\ call' = "handled"
      /\ UNCHANGED <<caller, heart, alarm, main, queue, age>>
      /\ \/ Holds(Heart) /\ lease' = Duration
         \/ ~renewed'
         \/ ~Holds(Heart) /\ UNCHANGED lock
  BY DEF EngineHandles
<1>3. CASE Holds(Heart) /\ lease' = Duration
  <2>1. Len(queue) > 0 /\ Len(queue) \in Nat /\ queue[1] = Heart /\ Heart \in Queued
    BY <1>3, Line
  <2>2. \A i \in 1..Len(queue) : queue[i] = Heart => i = 1
    BY <2>1, Line DEF Distinct
  <2>3. Duration >= Duration - age /\ heart' # "asleep"
    BY <1>1, <1>2, <2>1, DurationLasts DEF Lined, Typed
  <2> QED
    BY <1>2, <1>3, <2>2, <2>3 DEF InTime
<1>4. CASE ~renewed'
  BY <1>4 DEF InTime
<1>5. CASE ~Holds(Heart) /\ UNCHANGED lock
  <2>1. ~(Len(queue) > 0 /\ queue[1] = Heart)
    BY <1>5, Line
  <2>2. Used' >= Used
    BY <1>1, <1>2, DurationLasts DEF Used, Typed
  <2> QED
    BY <1>2, <1>5, <2>1, <2>2, TimeKept
<1> QED
  BY <1>2, <1>3, <1>4, <1>5

(* A tick is one of the sleep, or one of a call before the heartbeat. *)
LEMMA TickInTime ==
  ASSUME IInv, Tick, Typed'
  PROVE  InTime'
<1> SUFFICES ASSUME renewed' PROVE InTime'
  BY DEF InTime
<1>1. InTime /\ Typed /\ Lined /\ Mail
  BY DEF IInv
<1>2. /\ main = "executing" /\ ~Prompt
      /\ age' = IF call = "none" THEN 0 ELSE age + 1
      /\ alarm' = Less(alarm) /\ lease' = Less(lease)
      /\ UNCHANGED <<caller, calls, heart, main, queue, call, inbox, held, renewed>>
  BY DEF Tick
<1>3. /\ alarm \in Nat /\ lease \in Nat /\ age \in Nat /\ Duration \in Nat
      /\ (Cardinality(Caller) + 1) * Latency \in Nat
  BY <1>1, DurationLasts DEF Typed
<1>4. ASSUME heart = "asleep"
      PROVE  lease' > alarm' + (Cardinality(Caller) + 1) * Latency
  <2> DEFINE r == (Cardinality(Caller) + 1) * Latency
  <2>1. alarm # 0
    BY <1>2, <1>4 DEF Prompt
  <2>2. lease > alarm + r /\ r \in Nat
    BY <1>1, <1>2, <1>3, <1>4 DEF InTime
  <2> HIDE DEF r
  <2>3. lease' > alarm' + r
    BY <1>2, <1>3, <2>1, <2>2 DEF Less
  <2> QED
    BY <2>3 DEF r
<1>5. ASSUME NEW i \in 1..Len(queue), queue[i] = Heart
      PROVE  IF i = 1 /\ call' = "handled" THEN lease' >= Duration - age'
             ELSE lease' > i * Latency - Used'
  <2>1. call # "none"
    <3> SUFFICES ASSUME call = "none" PROVE FALSE
      OBVIOUS
    <3>1. ~Sending /\ Len(queue) > 0 /\ queue[1] \in Queued
      BY <1>2, <1>5, Line DEF Prompt, Queued, Members
    <3>2. Queued \subseteq Actor /\ Main \notin Queued
      BY <1>1, <1>2, Line DEF Lined, Queued, Members
    <3>3. PICK c \in Caller : c = queue[1]
      BY <3>1, <3>2, Line DEF Actor
    <3>4. caller[c] = "receiving"
      BY <1>1, <3>1, <3>3, Line DEF Lined, Typed
    <3>5. Holds(c) /\ Answers = <<AnswerFor(c)>> /\ inbox = Answers
      BY <1>1, <1>2, <3>4, Quiet, AnswersAre DEF Mail, Ending
    <3>6. inbox # <<>>
      BY <3>5
    <3> QED
      BY <1>2, <3>4, <3>5, <3>6 DEF Prompt
  <2>2. /\ age' = age + 1 /\ lease' >= lease - 1 /\ call' = call
        /\ lease' \in Nat /\ Used = age /\ Used' = age + 1
    BY <1>2, <1>3, <2>1 DEF Less, Used
  <2>3. CASE i = 1 /\ call = "handled"
    <3>1. lease >= Duration - age
      BY <1>1, <1>2, <1>5, <2>3 DEF InTime
    <3> QED
      BY <1>3, <2>2, <2>3, <3>1
  <2>4. CASE ~(i = 1 /\ call = "handled")
    <3> DEFINE p == i * Latency
    <3>1. p \in Nat
      <4>1. i \in Nat
        BY <1>5, Line
      <4> QED
        BY <4>1, Products
    <3>2. lease > p - age
      BY <1>1, <1>2, <1>5, <2>2, <2>4 DEF InTime
    <3> HIDE DEF p
    <3>3. lease' > p - (age + 1)
      BY <1>3, <2>2, <3>1, <3>2
    <3> QED
      BY <2>2, <2>4, <3>3 DEF p
  <2> QED
    BY <2>3, <2>4
<1> QED
  BY <1>2, <1>4, <1>5 DEF InTime

(* Every step keeps the heartbeat in time. *)
LEMMA TimeKeeps ==
  ASSUME IInv, Next, Lined', Typed'
  PROVE  InTime'
<1>1. Lined /\ Typed /\ InTime
  BY DEF IInv
<1>2. Used \in 0..Latency /\ Used' \in 0..Latency /\ Latency \in Nat
  BY <1>1, UsedBounds, DurationLasts DEF Typed, Used
<1>3. ASSUME NEW c \in Caller, StartCall(c) PROVE InTime'
  <2>1. /\ c \notin Queued /\ c \in Actor /\ c # Heart /\ caller[c] = "idle"
        /\ queue' = Append(queue, c)
        /\ caller' = [caller EXCEPT ![c] = "sending"]
        /\ UNCHANGED <<heart, main, call, alarm, lock, age>>
    BY <1>1, <1>3, ActorAssumption DEF StartCall, Lined, Actor, clock
  <2>2. \A d \in Caller : d # c => caller'[d] = caller[d]
    BY <1>1, <2>1 DEF Typed
  <2>3. /\ Len(queue') = Len(queue) + 1
        /\ \A i \in 1..Len(queue) : queue'[i] = queue[i]
        /\ queue'[Len(queue) + 1] = c
        /\ \A a : Holds(a) => Holds(a)'
    BY <2>1, <2>2, Joins
  <2>4. Receiving => Receiving'
    BY <2>1, <2>2, <2>3 DEF Receiving
  <2>5. Used' >= Used
    BY <1>2, <2>1, <2>4 DEF Used
  <2>6. \A i \in 1..Len(queue') : queue'[i] = Heart =>
          i \in 1..Len(queue) /\ queue[i] = Heart
    BY <2>1, <2>3, Line
  <2> QED
    BY <2>1, <2>5, <2>6, TimeKept
<1>4. ASSUME NEW c \in Caller, CallAnswered(c) PROVE InTime'
  <2>1. /\ Holds(c) /\ call = "handled" /\ call' = "none"
        /\ caller' = [caller EXCEPT ![c] = "receiving"]
        /\ UNCHANGED <<queue, heart, main, alarm, lock, age>>
    BY <1>4 DEF CallAnswered, clock
  <2>2. caller'[c] = "receiving" /\ Holds(c)'
    BY <1>1, <2>1 DEF Typed, Holds
  <2>3. Used' >= Used
    BY <1>2, <2>1, <2>2 DEF Used, Receiving
  <2>4. ~(Len(queue) > 0 /\ queue[1] = Heart)
    BY <2>1, Line, ActorAssumption
  <2> QED
    BY <2>1, <2>3, <2>4, TimeKept
<1>5. ASSUME NEW c \in Caller, CallRaises(c) \/ CancelCall(c) PROVE InTime'
  <2>1. c \in Queued
    BY <1>1, <1>5, Line DEF CallRaises, CancelCall, Lined
  <2>2. /\ caller' = [caller EXCEPT ![c] = "idle"]
        /\ UNCHANGED <<heart, main, alarm, lock, age>>
    BY <1>5 DEF CallRaises, CancelCall, clock
  <2>3. CASE CallRaises(c)
    <3>1. Holds(c) /\ call' = "none" /\ queue' = Tail(queue)
      BY <2>3 DEF CallRaises, Release
    <3>2. /\ 1 \in 1..Len(queue) /\ queue[1] = c
          /\ queue' \in Seq(Actor) /\ Removed(queue, 1, queue')
      BY <2>1, <3>1, Place
    <3> QED
      BY <2>2, <3>1, <3>2, TimeRemoved
  <2>4. CASE CancelCall(c)
    <3>1. PICK k \in 1..Len(queue) :
            /\ queue[k] = c /\ (k = 1 <=> Holds(c))
            /\ RemoveFirst(queue, c) \in Seq(Actor)
            /\ Removed(queue, k, RemoveFirst(queue, c))
      BY <2>1, Place
    <3>2. /\ queue' = RemoveFirst(queue, c) /\ caller[c] = "sending"
          /\ call' = IF k = 1 THEN "none" ELSE call
      BY <2>4, <3>1 DEF CancelCall
    <3>3. k > 1 => \A a : Holds(a)' <=> Holds(a)
      BY <3>1, <3>2, Others
    <3>4. \A d \in Caller : caller'[d] = "receiving" <=> caller[d] = "receiving"
      BY <1>1, <2>2, <3>2 DEF Typed
    <3>5. k > 1 => (Receiving' <=> Receiving)
      BY <3>3, <3>4 DEF Receiving
    <3> QED
      BY <2>2, <3>1, <3>2, <3>5, TimeRemoved
  <2> QED
    BY <1>5, <2>3, <2>4
<1>6. ASSUME NEW c \in Caller, Collect(c) PROVE InTime'
  <2>1. /\ Holds(c) /\ c \in Queued /\ call = "none"
        /\ UNCHANGED <<heart, main, call, alarm, lock, age>>
    BY <1>6, Line, Quiet DEF Collect, clock
  <2>2. CASE Head(inbox) = AnswerFor(c)
    <3>1. queue' = Tail(queue)
      BY <1>6, <2>2 DEF Collect, Release
    <3>2. /\ 1 \in 1..Len(queue) /\ queue[1] = c
          /\ queue' \in Seq(Actor) /\ Removed(queue, 1, queue')
      BY <2>1, <3>1, Place
    <3> QED
      BY <2>1, <3>2, TimeRemoved
  <2>3. CASE Head(inbox) # AnswerFor(c)
    <3>1. UNCHANGED <<caller, queue>>
      BY <1>6, <2>3 DEF Collect
    <3>2. Used' >= Used
      BY <1>2, <2>1, <3>1 DEF Used, Receiving, Holds
    <3> QED
      BY <2>1, <3>1, <3>2, TimeKept
  <2> QED
    BY <2>2, <2>3
<1>7. CASE BeginCall
  <2>1. /\ Sending /\ call = "none" /\ call' = "started" /\ age' = 0
        /\ UNCHANGED <<caller, queue, heart, main, alarm, lock>>
    BY <1>7 DEF BeginCall
  <2>2. ~Receiving
    BY <2>1, Line, ActorAssumption DEF Receiving
  <2>3. Used' >= Used
    BY <2>1, <2>2 DEF Used
  <2> QED
    BY <2>1, <2>3, TimeKept
<1>8. CASE HeartAnswered \/ HeartRaises
  <2>1. Holds(Heart) /\ Heart \in Queued /\ heart = "sending" /\ queue' = Tail(queue)
    BY <1>1, <1>8, Line DEF HeartAnswered, HeartRaises, Release, Lined
  <2>2. heart' \in {"asleep", "off"}
    BY <1>8 DEF HeartAnswered, HeartRaises
  <2>3. Heart \notin Queued'
    BY <2>2 DEF Lined
  <2>4. \A i \in 1..Len(queue') : queue'[i] # Heart
    BY <2>3 DEF Queued, Members
  <2>5. ASSUME heart' = "asleep", main' = "executing", renewed'
        PROVE  lease' > alarm' + (Cardinality(Caller) + 1) * Latency
    <3>1. /\ call = "handled" /\ alarm' = Duration \div 2 /\ main = "executing"
          /\ lease' = lease /\ renewed
      BY <1>8, <2>5 DEF HeartAnswered, HeartRaises, lock
    <3>2. lease >= Duration - age
      BY <1>1, <2>1, <3>1, Line DEF InTime
    <3> DEFINE r == (Cardinality(Caller) + 1) * Latency
               h == Duration \div 2
    <3>3. /\ h + r + Latency < Duration /\ h \in Nat /\ r \in Nat
          /\ age \in 0..Latency /\ Duration \in Nat /\ lease \in Nat
      BY <1>1, DurationLasts DEF Typed
    <3> HIDE DEF r, h
    <3>4. lease > h + r
      BY <1>2, <3>2, <3>3
    <3> QED
      BY <3>1, <3>4 DEF r, h
  <2> QED
    BY <2>4, <2>5 DEF InTime
<1>9. CASE \/ HandlerReturns \/ HandlerRaises \/ ExceptionReported
           \/ ReportAnswered \/ MainReceives
  <2>1. main' # "executing"
    BY <1>9, MainGetsEnd
       DEF HandlerReturns, HandlerRaises, ExceptionReported, ReportAnswered
  <2> QED
    BY <2>1 DEF InTime
<1> QED
  BY <1>3, <1>4, <1>5, <1>6, <1>7, <1>8, <1>9, WakesInTime, ExtendsInTime,
     TickInTime DEF Next, CallerStep
-----------------------------------------------------------------------------
(* The theorems.                                                            *)

(* The strengthening holds when the handler starts. *)
LEMMA InvInit ==
  ASSUME Init
  PROVE  IInv
<1>1. Typed
  BY DurationLasts, BoundAssumption DEF Init, Typed
<1>2. Lined
  BY ActorAssumption DEF Init, Lined, Distinct, Queued, Members, Sending
<1>3. Mail
  BY DEF Init, Mail, Ending, Answers, Receiving
<1>4. InTime
  <2> DEFINE r == (Cardinality(Caller) + 1) * Latency
             h == Duration \div 2
  <2> SUFFICES ASSUME renewed PROVE InTime
    BY DEF InTime
  <2>1. /\ h + r + Setup < Duration /\ h \in Nat /\ r \in Nat
        /\ Duration \in Nat /\ Setup \in Nat
    BY DurationLasts
  <2>2. /\ alarm = h /\ lease \in 0..Duration /\ Len(queue) = 0
        /\ lease >= Duration - Setup
    BY DEF Init
  <2> HIDE DEF r, h
  <2>3. lease > alarm + r
    BY <2>1, <2>2
  <2> QED
    BY <2>2, <2>3 DEF InTime, r
<1> QED
  BY <1>1, <1>2, <1>3, <1>4 DEF IInv

(* It does not depend on anything but the variables. *)
LEMMA InvStutter ==
  ASSUME IInv, UNCHANGED vars
  PROVE  IInv'
<1>1. /\ Typed' <=> Typed
      /\ Lined' <=> Lined
      /\ Mail' <=> Mail
      /\ InTime' <=> InTime
  BY DEF vars, clock, lock, Typed, Lined, Mail, Ending, InTime, Used, Answers, AnswerFor,
     Receiving, Queued, Members, Distinct, Holds, Sending
<1> QED
  BY <1>1 DEF IInv

(* The strengthening is inductive: who waits for the lock is in the queue   *)
(* once, the answers under way are the holder's, and the lease outlasts    *)
(* what is before the heartbeat.                                           *)
THEOREM ContextInvariant == Spec => []IInv
<1>1. Init => IInv
  BY InvInit
<1>2. IInv /\ [Next]_vars => IInv'
  <2> SUFFICES ASSUME IInv, [Next]_vars PROVE IInv'
    OBVIOUS
  <2>1. ASSUME Next PROVE IInv'
    <3>1. Typed' /\ Lined'
      BY <2>1, TypedKeeps, LinedKeeps
    <3> QED
      BY <2>1, <3>1, MailKeeps, TimeKeeps DEF IInv
  <2> QED
    BY <2>1, InvStutter
<1> QED
  BY <1>1, <1>2, PTL DEF Spec

(* The lock of the engine does not expire while the handler runs and the   *)
(* heartbeat lives and its extensions are granted, with any number of      *)
(* callers on the connection.                                              *)
THEOREM LockLasts == Spec => []LeaseKept
<1>1. IInv => LeaseKept
  <2> SUFFICES ASSUME IInv, main = "executing", heart # "off", renewed
               PROVE  lease > 0
    BY DEF LeaseKept
  <2>1. Typed /\ Lined /\ InTime
    BY DEF IInv
  <2>2. lease \in Nat /\ age \in 0..Latency /\ Used \in 0..Latency
        /\ alarm \in Nat /\ Latency \in Nat /\ Duration \in Nat
        /\ Latency < Duration /\ (Cardinality(Caller) + 1) * Latency \in Nat
    BY <2>1, DurationLasts, UsedBounds DEF Typed
  <2>3. CASE heart = "asleep"
    BY <2>1, <2>2, <2>3 DEF InTime
  <2>4. CASE heart = "sending"
    <3>1. PICK i \in 1..Len(queue) : queue[i] = Heart
      BY <2>1, <2>4 DEF Lined, Queued, Members
    <3>2. IF i = 1 /\ call = "handled" THEN lease >= Duration - age
          ELSE lease > i * Latency - Used
      BY <2>1, <3>1 DEF InTime
    <3>3. i * Latency \in Nat /\ i * Latency >= Latency
      <4>1. i - 1 \in Nat /\ (i - 1) + 1 = i
        BY <3>1, Line
      <4>2. /\ (i - 1) * Latency \in Nat
            /\ ((i - 1) + 1) * Latency = (i - 1) * Latency + Latency
        BY <4>1, Products
      <4> DEFINE p == (i - 1) * Latency
      <4>3. p \in Nat /\ i * Latency = p + Latency
        BY <4>1, <4>2
      <4> HIDE DEF p
      <4> QED
        BY <2>2, <4>3
    <3> DEFINE p == i * Latency
    <3>4. /\ p \in Nat /\ p >= Latency
          /\ lease >= Duration - age \/ lease > p - Used
      BY <3>2, <3>3
    <3> HIDE DEF p
    <3> QED
      BY <2>2, <3>4
  <2> QED
    BY <2>1, <2>3, <2>4 DEF Typed
<1> QED
  BY <1>1, ContextInvariant, PTL

(* What an end event and one answer make is all there is on the way. *)
LEMMA MailIs ==
  ASSUME IInv
  PROVE  /\ \/ Answers = <<>>
            \/ \E c \in Caller : Answers = <<AnswerFor(c)>> /\ Awaited(AnswerFor(c))
         /\ held \in {<<>>, <<EndEvent>>}
         /\ held = <<EndEvent>> => Ending
         /\ \/ inbox = Answers
            \/ Ending /\ held = <<>> /\ inbox = <<EndEvent>> \o Answers
            \/ Ending /\ held = <<>> /\ inbox = Answers \o <<EndEvent>>
<1>1. \A c \in Caller : caller[c] = "receiving" => Awaited(AnswerFor(c))
  BY DEF Awaited
<1>2. \/ Answers = <<>>
      \/ \E c \in Caller : Answers = <<AnswerFor(c)>> /\ Awaited(AnswerFor(c))
  BY <1>1, AnswersAre
<1>3. main = "reported" => Ending
  BY DEF Ending
<1>4. <<EndEvent>> # <<>>
  OBVIOUS
<1> QED
  BY <1>2, <1>3, <1>4, Zenon DEF IInv, Mail

(* No answer is stranded, whoever takes from the connection first; the end *)
(* of an exception's report is the only event nobody waits for.            *)
THEOREM AnswersAwaited == Spec => []OnlyEndStranded
<1>1. IInv => OnlyEndStranded
  <2> SUFFICES ASSUME IInv PROVE OnlyEndStranded
    OBVIOUS
  <2> DEFINE Fine(e) == Awaited(e) \/ Unasked(e)
  <2>1. Ending => Fine(EndEvent)
    BY DEF Ending, Awaited, Unasked
  <2>2. /\ held \in {<<>>, <<EndEvent>>}
        /\ held = <<EndEvent>> => Ending
    BY MailIs
  <2>3. \A i \in 1..Len(held) : held[i] = EndEvent /\ Fine(held[i])
    <3> HIDE DEF Fine
    <3>1. CASE held = <<>>
      BY <3>1
    <3>2. CASE held = <<EndEvent>>
      BY <2>1, <2>2, <3>2
    <3> QED
      BY <2>2, <3>1, <3>2, Zenon
  <2> SUFFICES /\ \A i \in 1..Len(inbox) : Fine(inbox[i])
               /\ LET mail == held \o inbox IN
                  \A i, j \in 1..Len(mail) :
                    mail[i] = EndEvent /\ mail[j] = EndEvent => i = j
    BY <2>3 DEF OnlyEndStranded
  <2> HIDE DEF Fine
  <2>4. CASE Answers = <<>>
    <3>1. inbox = <<>> \/ (Ending /\ held = <<>> /\ inbox = <<EndEvent>>)
      <4>1. <<EndEvent>> \o <<>> = <<EndEvent>> /\ <<>> \o <<EndEvent>> = <<EndEvent>>
        OBVIOUS
      <4> QED
        BY <2>4, <4>1, MailIs, Zenon
    <3>2. CASE inbox = <<>>
      <4>1. held \o inbox = <<>> \/ held \o inbox = <<EndEvent>>
        <5>1. <<>> \o <<>> = <<>> /\ <<EndEvent>> \o <<>> = <<EndEvent>>
          OBVIOUS
        <5> QED
          BY <2>2, <3>2, <5>1, Zenon
      <4>2. CASE held \o inbox = <<>>
        BY <3>2, <4>2
      <4>3. CASE held \o inbox = <<EndEvent>>
        <5> DEFINE m == held \o inbox
        <5>1. Len(m) = 1 /\ Len(inbox) = 0
          BY <3>2, <4>3
        <5> HIDE DEF m
        <5>2. \A i, j \in 1..Len(m) : m[i] = EndEvent /\ m[j] = EndEvent => i = j
          BY <5>1
        <5> QED
          BY <5>1, <5>2 DEF m
      <4> QED
        BY <4>1, <4>2, <4>3
    <3>3. CASE Ending /\ held = <<>> /\ inbox = <<EndEvent>>
      BY <2>1, <3>3
    <3> QED
      BY <3>1, <3>2, <3>3
  <2>5. ASSUME NEW c \in Caller, Answers = <<AnswerFor(c)>>, Awaited(AnswerFor(c))
        PROVE  /\ \A i \in 1..Len(inbox) : Fine(inbox[i])
               /\ LET mail == held \o inbox IN
                  \A i, j \in 1..Len(mail) :
                    mail[i] = EndEvent /\ mail[j] = EndEvent => i = j
    <3> DEFINE a == AnswerFor(c)
               end == EndEvent
    <3>1. a # end
      BY DEF AnswerFor, EndEvent
    <3>2. Fine(a)
      BY <2>5 DEF Fine
    <3>3. \/ inbox = <<a>>
          \/ Ending /\ held = <<>> /\ inbox = <<end>> \o <<a>>
          \/ Ending /\ held = <<>> /\ inbox = <<a>> \o <<end>>
      BY <2>5, MailIs, Zenon
    <3>4. /\ held = <<>> \/ held = <<end>>
          /\ Ending => Fine(end)
      BY <2>1, <2>2, Zenon
    <3> HIDE DEF a, end
    <3>5. CASE inbox = <<a>>
      BY <3>1, <3>2, <3>4, <3>5 DEF end
    <3>6. CASE Ending /\ held = <<>> /\ inbox = <<end>> \o <<a>>
      <4> DEFINE p == <<end>> \o <<a>>
                 m == <<>> \o p
      <4>1. p \in Seq({a, end}) /\ Len(p) = 2 /\ p[1] = end /\ p[2] = a
        OBVIOUS
      <4> HIDE DEF p
      <4>2. Len(m) = 2 /\ m[1] = end /\ m[2] = a
        BY <4>1
      <4> HIDE DEF m, Fine
      <4>3. \A i, j \in 1..Len(m) : m[i] = end /\ m[j] = end => i = j
        BY <3>1, <4>2
      <4>4. \A i \in 1..Len(p) : Fine(p[i])
        BY <3>2, <3>4, <3>6, <4>1
      <4>5. inbox = p /\ held \o inbox = m
        BY <3>6 DEF p, m
      <4> QED
        BY <4>3, <4>4, <4>5, Zenon DEF end
    <3>7. CASE Ending /\ held = <<>> /\ inbox = <<a>> \o <<end>>
      <4> DEFINE p == <<a>> \o <<end>>
                 m == <<>> \o p
      <4>1. p \in Seq({a, end}) /\ Len(p) = 2 /\ p[1] = a /\ p[2] = end
        OBVIOUS
      <4> HIDE DEF p
      <4>2. Len(m) = 2 /\ m[1] = a /\ m[2] = end
        BY <4>1
      <4> HIDE DEF m, Fine
      <4>3. \A i, j \in 1..Len(m) : m[i] = end /\ m[j] = end => i = j
        BY <3>1, <4>2
      <4>4. \A i \in 1..Len(p) : Fine(p[i])
        BY <3>2, <3>4, <3>7, <4>1
      <4>5. inbox = p /\ held \o inbox = m
        BY <3>7 DEF p, m
      <4> QED
        BY <4>3, <4>4, <4>5, Zenon DEF end
    <3> QED
      BY <3>3, <3>5, <3>6, <3>7
  <2> QED
    BY <2>4, <2>5, MailIs
<1> QED
  BY <1>1, ContextInvariant, PTL

(* Types, and nobody twice in the queue. *)
THEOREM ContextTypes == Spec => []TypeOK
<1>1. IInv /\ renewed \in BOOLEAN => TypeOK
  <2> SUFFICES ASSUME IInv, renewed \in BOOLEAN PROVE TypeOK
    OBVIOUS
  <2>1. Typed /\ Lined /\ Mail
    BY DEF IInv
  <2>2. ASSUME NEW c \in Caller, caller[c] = "receiving"
        PROVE  AnswerFor(c) \in Event
    <3>1. calls[c] \in 1..MaxCalls
      BY <2>1, <2>2, BoundAssumption DEF Typed, Lined
    <3> QED
      BY <3>1 DEF AnswerFor, Event, Answer
  <2>3. Answers \in Seq(Event)
    <3>1. Answers = <<>> \/ \E c \in Caller : caller[c] = "receiving"
                                           /\ Answers = <<AnswerFor(c)>>
      BY AnswersAre
    <3>2. \A e \in Event : <<e>> \in Seq(Event)
      OBVIOUS
    <3>3. ASSUME NEW c \in Caller, caller[c] = "receiving",
                 Answers = <<AnswerFor(c)>>
          PROVE  Answers \in Seq(Event)
      BY <2>2, <3>2, <3>3, Zenon
    <3>4. <<>> \in Seq(Event)
      OBVIOUS
    <3> QED
      BY <3>1, <3>3, <3>4, Zenon
  <2>4. EndEvent \in Event
    BY DEF Event
  <2>5. /\ <<EndEvent>> \in Seq(Event) /\ <<>> \in Seq(Event)
        /\ <<EndEvent>> \o Answers \in Seq(Event)
        /\ Answers \o <<EndEvent>> \in Seq(Event)
    BY <2>3, <2>4
  <2>6. inbox \in Seq(Event) /\ held \in Seq(Event)
    BY <2>1, <2>3, <2>5, Zenon DEF Mail
  <2> QED
    BY <2>1, <2>6 DEF TypeOK, Typed, Lined, Distinct, Actor
<1>2. Init => renewed \in BOOLEAN
  <2> SUFFICES ASSUME Init PROVE renewed \in BOOLEAN
    OBVIOUS
  <2>1. renewed = (lease >= Duration - Setup)
    BY DEF Init
  <2>2. CASE lease >= Duration - Setup
    BY <2>1, <2>2, Zenon
  <2>3. CASE ~(lease >= Duration - Setup)
    BY <2>1, <2>3
  <2> QED
    BY <2>2, <2>3
<1>3. renewed \in BOOLEAN /\ [Next]_vars => (renewed \in BOOLEAN)'
  <2>1. ASSUME [Next]_vars PROVE renewed' = renewed \/ renewed' = TRUE \/ renewed' = FALSE
    BY <2>1 DEF Next, vars, clock, lock, StartCall, CallerStep, CallAnswered,
       CallRaises, CancelCall, Collect, WakeHeart, BeginCall, EngineHandles,
       HeartAnswered, HeartRaises, HandlerReturns, HandlerRaises, StopHeart,
       ExceptionReported, ReportAnswered, MainReceives, MainTakes, Tick
  <2> QED
    BY <2>1, Zenon
<1> QED
  BY <1>1, <1>2, <1>3, ContextInvariant, PTL DEF Spec
=============================================================================
