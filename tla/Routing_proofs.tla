---------------------------- MODULE Routing_proofs --------------------------
(* Proofs about Routing: the two tests of a task agree, and the arithmetic *)
(* of the weights means what it is used for.                               *)
EXTENDS Routing, SequenceTheorems, WellFoundedInduction, TLAPS

(* The producer's list was made from the table. *)
CapabilitiesOfTable == app = "serving" => capabilities = Capabilities(handlers)

(* A task at hand passed the producer's test. *)
FetchedIsWanted == lock # "none" => app = "serving" /\ task \in Scope /\ Wanted(task)

(* A chosen handler was the matcher's answer for the task at hand. *)
ChosenWins == chosen # 0 => lock = "accepted" /\ Wins(chosen, task)

IInv ==
  /\ CapabilitiesOfTable
  /\ FetchedIsWanted
  /\ ChosenWins
  /\ LockNeverRejected

-----------------------------------------------------------------------------
(* Weights are 0, 1 or 2, whatever is registered and asked (routing.py:78). *)
LEMMA WeightRange ==
  ASSUME NEW h, NEW s
  PROVE  /\ TenantWeight(h, s) \in 0..2
         /\ ProcessWeight(h, s) \in 0..2
         /\ TopicWeight(h, s) \in 0..2
  BY DEF TenantWeight, ProcessWeight, TopicWeight, Weight

(* The reduce of AggregatePredicate, worked out for its three predicates. *)
LEMMA ValueIs ==
  ASSUME NEW h, NEW s
  PROVE  /\ Value(h, s) = 16 * TenantWeight(h, s) + 4 * ProcessWeight(h, s)
                            + TopicWeight(h, s)
         /\ Value(h, s) \in Nat
  BY WeightRange DEF Value, Combine

(* The values order handlers by tenant, then process, then topic: no sum   *)
(* of lesser weights outweighs a greater one (routing.py:29-32).           *)
LEMMA ValuesAreLexicographic ==
  ASSUME NEW g, NEW h, NEW s, Value(g, s) <= Value(h, s)
  PROVE  AtLeast(h, g, s)
  <1>1. Value(g, s) = 16 * TenantWeight(g, s) + 4 * ProcessWeight(g, s)
                        + TopicWeight(g, s)
    BY ValueIs
  <1>2. Value(h, s) = 16 * TenantWeight(h, s) + 4 * ProcessWeight(h, s)
                        + TopicWeight(h, s)
    BY ValueIs
  <1>3. /\ TenantWeight(g, s) \in 0..2 /\ TenantWeight(h, s) \in 0..2
        /\ ProcessWeight(g, s) \in 0..2 /\ ProcessWeight(h, s) \in 0..2
        /\ TopicWeight(g, s) \in 0..2 /\ TopicWeight(h, s) \in 0..2
    BY WeightRange
  <1> QED
    BY <1>1, <1>2, <1>3 DEF AtLeast

(* A winner is worth at least as much as any handler, matching or not. *)
LEMMA WinnerIsWorthMost ==
  ASSUME NEW i, NEW s, Wins(i, s), NEW j \in DOMAIN handlers
  PROVE  i \in DOMAIN handlers /\ Value(handlers[j], s) <= Value(handlers[i], s)
  <1>1. i \in DOMAIN handlers
    BY DEF Wins, Matches
  <1>2. CASE j \in Matches(s)
    BY <1>1, <1>2 DEF Wins
  <1>3. CASE j \notin Matches(s)
    <2>1. Value(handlers[j], s) = 0
      BY <1>3 DEF Matches
    <2> QED
      BY <1>1, <2>1, ValueIs
  <1> QED
    BY <1>2, <1>3

(* What the producer wants, some handler matches: the topic alone gives it *)
(* a weight (producer.py:61-64, routing.py:82).                            *)
LEMMA WantedMatches ==
  ASSUME NEW s, CapabilitiesOfTable, app = "serving", Wanted(s)
  PROVE  Matches(s) # {}
  <1>1. PICK i \in DOMAIN handlers : handlers[i].topic = s.topic
    <2>1. PICK c \in capabilities : c.topic = s.topic
      BY DEF Wanted
    <2> QED
      BY <2>1 DEF CapabilitiesOfTable, Capabilities
  <1>2. TopicWeight(handlers[i], s) > 0
    BY <1>1 DEF TopicWeight, Weight
  <1>3. Value(handlers[i], s) # 0
    BY <1>2, ValueIs, WeightRange
  <1> QED
    BY <1>3 DEF Matches

-----------------------------------------------------------------------------
(* IInv is an invariant: the table is fixed before the first task comes. *)
THEOREM RoutingInvariant == Spec => []IInv
<1>1. Init => IInv
  BY DEF Init, IInv, CapabilitiesOfTable, FetchedIsWanted, ChosenWins,
         LockNeverRejected
<1>2. IInv /\ [Next]_vars => IInv'
  <2> SUFFICES ASSUME IInv, [Next]_vars
               PROVE  IInv'
    OBVIOUS
  <2> USE DEF IInv
  <2>0. ASSUME UNCHANGED <<table, routing>>
        PROVE  IInv'
    BY <2>0 DEF table, routing, CapabilitiesOfTable, FetchedIsWanted, Wanted,
                ChosenWins, Wins, Matches, LockNeverRejected
  <2>1. ASSUME NEW h \in AppHandler, AddTask(h)
        PROVE  IInv'
    BY <2>0, <2>1 DEF AddTask
  <2>2. ASSUME NEW o \in ProcessObject, NEW topic \in Topic,
               AddProcessTask(o, topic)
        PROVE  IInv'
    BY <2>0, <2>2 DEF AddProcessTask
  <2>3. ASSUME NEW o \in ProcessObject, NEW group \in TaskGroup,
               AddTaskGroup(o, group)
        PROVE  IInv'
    BY <2>0, <2>3 DEF AddTaskGroup
  <2>4. ASSUME NEW o \in ProcessObject, AddProcess(o)
        PROVE  IInv'
    BY <2>0, <2>4 DEF AddProcess
  <2>5. CASE Start
    <3>1. lock = "none" /\ chosen = 0
      BY <2>5 DEF Start, FetchedIsWanted, ChosenWins
    <3> QED
      BY <2>5, <3>1 DEF Start, routing, CapabilitiesOfTable, FetchedIsWanted,
                        ChosenWins, LockNeverRejected
  <2>6. CASE RefuseStart
    <3>1. lock = "none" /\ chosen = 0
      BY <2>6 DEF RefuseStart, FetchedIsWanted, ChosenWins
    <3> QED
      BY <2>6, <3>1 DEF RefuseStart, routing, CapabilitiesOfTable,
                        FetchedIsWanted, ChosenWins, LockNeverRejected
  <2>7. ASSUME NEW s \in Scope, Fetch(s)
        PROVE  IInv'
    BY <2>7 DEF Fetch, table, CapabilitiesOfTable, FetchedIsWanted, Wanted,
                ChosenWins, LockNeverRejected
  <2>8. ASSUME NEW i \in {0} \cup DOMAIN handlers, AnswerLock(i)
        PROVE  IInv'
    <3>1. Matches(task) # {}
      BY <2>8, WantedMatches DEF AnswerLock, FetchedIsWanted
    <3>2. lock' = "accepted" /\ chosen' = i /\ Wins(i, task)
      BY <2>8, <3>1 DEF AnswerLock, Matched
    <3>3. CapabilitiesOfTable' /\ FetchedIsWanted'
      BY <2>8 DEF AnswerLock, table, CapabilitiesOfTable, FetchedIsWanted, Wanted
    <3>4. ChosenWins'
      BY <2>8, <3>2 DEF AnswerLock, table, ChosenWins, Wins, Matches
    <3> QED
      BY <3>2, <3>3, <3>4 DEF LockNeverRejected
  <2>9. CASE End
    BY <2>9 DEF End, table, CapabilitiesOfTable, FetchedIsWanted, ChosenWins,
                LockNeverRejected
  <2>10. CASE UNCHANGED vars
    BY <2>0, <2>10 DEF vars
  <2> QED
    BY <2>1, <2>2, <2>3, <2>4, <2>5, <2>6, <2>7, <2>8, <2>9, <2>10 DEF Next
<1> QED
  BY <1>1, <1>2, PTL DEF Spec

(* A task that was fetched is never refused for want of a handler. *)
THEOREM FetchedIsHandled == Spec => []LockNeverRejected
<1>1. IInv => LockNeverRejected
  BY DEF IInv
<1> QED
  BY <1>1, RoutingInvariant, PTL

(* The handler that runs is the most specific one, by the order of tenant, *)
(* process and topic.                                                      *)
THEOREM RunsMostSpecific == Spec => []MostSpecificChosen
<1>1. IInv => MostSpecificChosen
  <2> SUFFICES ASSUME IInv, chosen # 0, NEW j \in DOMAIN handlers
               PROVE  AtLeast(handlers[chosen], handlers[j], task)
    BY DEF MostSpecificChosen
  <2>1. Wins(chosen, task)
    BY DEF IInv, ChosenWins
  <2> QED
    BY <2>1, WinnerIsWorthMost, ValuesAreLexicographic
<1> QED
  BY <1>1, RoutingInvariant, PTL

(* If a handler was registered for just this task, or for its process and  *)
(* topic where no handler names tenants, then one that fits the task runs. *)
THEOREM NamedTasksFit == Spec => []NamedTaskServedByItsOwn
<1>1. IInv => NamedTaskServedByItsOwn
  <2> SUFFICES ASSUME IInv, chosen # 0,
                      NEW j \in DOMAIN handlers,
                      handlers[j].process = task.process,
                      handlers[j].topic = task.topic,
                      \/ TenantWeight(handlers[j], task) = 2
                      \/ \A k \in DOMAIN handlers : handlers[k].tenants = None
               PROVE  Fits(handlers[chosen], task)
    BY DEF NamedTaskServedByItsOwn
  <2> DEFINE h == handlers[chosen]
             g == handlers[j]
  <2>1. Wins(chosen, task) /\ task \in Scope
    BY DEF IInv, ChosenWins, FetchedIsWanted
  <2>2. chosen \in DOMAIN handlers /\ Value(g, task) <= Value(h, task)
    BY <2>1, WinnerIsWorthMost
  <2>3. ProcessWeight(g, task) = 2 /\ TopicWeight(g, task) = 2
    <3>1. /\ task.process \in Process /\ task.topic \in Topic
          /\ {task.process} # None /\ {task.topic} # None
      BY <2>1, NoneAssumption DEF Scope
    <3> QED
      BY <3>1, NoneAssumption DEF ProcessWeight, TopicWeight, Weight
  <2>4. \/ TenantWeight(g, task) = 2
        \/ TenantWeight(g, task) = 1 /\ TenantWeight(h, task) = 1
    <3>1. CASE TenantWeight(g, task) = 2
      BY <3>1
    <3>2. CASE \A k \in DOMAIN handlers : handlers[k].tenants = None
      <4>1. handlers[j].tenants = None /\ handlers[chosen].tenants = None
        BY <2>2, <3>2
      <4> QED
        BY <4>1 DEF TenantWeight, Weight
    <3> QED
      BY <3>1, <3>2
  <2>5. AtLeast(h, g, task)
    BY <2>2, ValuesAreLexicographic
  <2>6. /\ TenantWeight(h, task) \in 0..2
        /\ ProcessWeight(h, task) \in 0..2
        /\ TopicWeight(h, task) \in 0..2
    BY WeightRange
  <2> HIDE DEF h, g
  <2>7. Fits(h, task)
    BY <2>3, <2>4, <2>5, <2>6 DEF AtLeast, Fits
  <2> QED
    BY <2>7 DEF h
<1> QED
  BY <1>1, RoutingInvariant, PTL

-----------------------------------------------------------------------------
(* Types.  The table is made of several sequences, one after the other.    *)

(* The recursive function in FlattenSeq exists: for each prefix one that   *)
(* is right so far, and that goes on.                                      *)
LEMMA FlattenExists ==
  ASSUME NEW n \in Nat, NEW s
  PROVE  \E f : f = [i \in 1..n |-> IF i = 1 THEN s[i] ELSE f[i-1] \o s[i]]
<1> DEFINE Good(m) ==
             \E f : f = [i \in 1..m |-> IF i = 1 THEN s[i] ELSE f[i-1] \o s[i]]
           B == {m \in Nat : ~ Good(m)}
<1>1. Good(0)
  <2> DEFINE f == [i \in 1..0 |-> 0]
  <2>1. f = [i \in 1..0 |-> IF i = 1 THEN s[i] ELSE f[i-1] \o s[i]]
    OBVIOUS
  <2> HIDE DEF f
  <2> QED
    BY <2>1
<1>2. ASSUME NEW m \in Nat, Good(m) PROVE Good(m + 1)
  <2>1. PICK g : g = [i \in 1..m |-> IF i = 1 THEN s[i] ELSE g[i-1] \o s[i]]
    BY <1>2
  <2> DEFINE e == IF m = 0 THEN s[m + 1] ELSE g[m] \o s[m + 1]
             f == [i \in 1..(m + 1) |-> IF i = m + 1 THEN e ELSE g[i]]
  <2>2. ASSUME NEW i \in 1..(m + 1)
        PROVE  f[i] = IF i = 1 THEN s[i] ELSE f[i-1] \o s[i]
    <3>1. CASE i = m + 1
      <4>1. CASE m = 0
        BY <3>1, <4>1
      <4>2. CASE m # 0
        <5>1. i - 1 = m /\ i # 1 /\ m \in 1..(m + 1) /\ m # m + 1
          BY <3>1, <4>2
        <5>2. f[m] = g[m]
          BY <5>1
        <5> QED
          BY <3>1, <4>2, <5>1, <5>2
      <4> QED
        BY <4>1, <4>2
    <3>2. CASE i # m + 1
      <4>1. i \in 1..m /\ f[i] = g[i]
        BY <3>2
      <4>2. i # 1 => i - 1 \in 1..(m + 1) /\ i - 1 # m + 1
        BY <4>1
      <4>3. i # 1 => f[i - 1] = g[i - 1]
        BY <4>2
      <4>4. g[i] = IF i = 1 THEN s[i] ELSE g[i-1] \o s[i]
        BY <2>1, <4>1
      <4> QED
        BY <4>1, <4>3, <4>4
    <3> QED
      BY <3>1, <3>2
  <2>3. f = [i \in 1..(m + 1) |-> IF i = 1 THEN s[i] ELSE f[i-1] \o s[i]]
    <3> DEFINE h == [i \in 1..(m + 1) |-> IF i = 1 THEN s[i] ELSE f[i-1] \o s[i]]
    <3>1. \A i \in 1..(m + 1) : f[i] = h[i]
      BY <2>2
    <3>2. f = [i \in 1..(m + 1) |-> f[i]] /\ h = [i \in 1..(m + 1) |-> h[i]]
      OBVIOUS
    <3> HIDE DEF f, h
    <3>3. f = h
      BY <3>1, <3>2
    <3> QED
      BY <3>3 DEF h
  <2> HIDE DEF f
  <2> QED
    BY <2>3
<1> HIDE DEF Good
<1>3. B = {}
  <2> SUFFICES ASSUME B # {} PROVE FALSE
    OBVIOUS
  <2> DEFINE R == OpToRel(<, Nat)
  <2>1. IsWellFoundedOn(R, Nat) /\ B \subseteq Nat
    BY NatLessThanWellFounded
  <2>2. PICK m \in B : \A k \in B : ~ (<<k, m>> \in R)
    <3> HIDE DEF R, B
    <3> QED
      BY <2>1, WFMin
  <2>3. m \in Nat /\ m # 0 /\ m - 1 \in Nat /\ m - 1 < m /\ (m - 1) + 1 = m
    BY <1>1
  <2>4. <<m - 1, m>> \in R
    BY <2>3 DEF OpToRel
  <2>5. Good(m - 1)
    BY <2>2, <2>3, <2>4
  <2>6. Good(m)
    BY <1>2, <2>3, <2>5
  <2> QED
    BY <2>2, <2>6
<1>4. Good(n)
  BY <1>3
<1> QED
  BY <1>4 DEF Good

(* What FlattenSeq makes of sequences of S is a sequence of S. *)
LEMMA FlattenTyped ==
  ASSUME NEW S, NEW s \in Seq(Seq(S))
  PROVE  FlattenSeq(s) \in Seq(S)
<1> DEFINE n == Len(s)
           F == CHOOSE f : f = [i \in 1..n |-> IF i = 1 THEN s[i] ELSE f[i-1] \o s[i]]
<1>1. n \in Nat
  OBVIOUS
<1>2. FlattenSeq(s) = IF n = 0 THEN s ELSE F[n]
  BY DEF FlattenSeq
<1>3. F = [i \in 1..n |-> IF i = 1 THEN s[i] ELSE F[i-1] \o s[i]]
  <2> HIDE DEF n
  <2> QED
    BY <1>1, FlattenExists
<1>4. \A i \in 1..n : s[i] \in Seq(S)
  OBVIOUS
<1>5. CASE n = 0
  <2>1. FlattenSeq(s) = s
    BY <1>2, <1>5
  <2>2. s = <<>>
    BY <1>5
  <2> QED
    BY <2>1, <2>2
<1>6. CASE n # 0
  <2> HIDE DEF n, F
  <2> DEFINE B == {i \in 1..n : F[i] \notin Seq(S)}
  <2>1. B = {}
    <3> SUFFICES ASSUME B # {} PROVE FALSE
      OBVIOUS
    <3> DEFINE R == OpToRel(<, Nat)
    <3>1. IsWellFoundedOn(R, Nat) /\ B \subseteq Nat
      <4>1. B \subseteq Nat
        BY <1>1
      <4>2. IsWellFoundedOn(R, Nat)
        BY NatLessThanWellFounded
      <4> QED
        BY <4>1, <4>2
    <3>2. PICK m \in B : \A k \in B : ~ (<<k, m>> \in R)
      <4> HIDE DEF R, B
      <4> QED
        BY <3>1, WFMin
    <3>3. m \in 1..n /\ F[m] = IF m = 1 THEN s[m] ELSE F[m-1] \o s[m]
      BY <1>3
    <3>4. m # 1
      BY <1>4, <3>2, <3>3
    <3>5. m - 1 \in 1..n /\ <<m - 1, m>> \in R
      BY <1>1, <3>3, <3>4 DEF OpToRel
    <3>6. F[m - 1] \in Seq(S)
      BY <3>2, <3>5
    <3>7. F[m-1] \o s[m] \in Seq(S)
      BY <1>4, <3>3, <3>6
    <3> QED
      BY <3>2, <3>3, <3>4, <3>7
  <2>2. n \in 1..n
    BY <1>1, <1>6
  <2>3. F[n] \in Seq(S)
    BY <2>1, <2>2
  <2> QED
    BY <1>2, <1>6, <2>3
<1> QED
  BY <1>5, <1>6

(* All that is registered has its type. *)
LEMMA AllTaskPropsTyped ==
  ASSUME TypeOK
  PROVE  AllTaskProps \in Seq(Handler)
<1> DEFINE s == [k \in DOMAIN processes |-> processProps[processes[k]]]
<1>1. processes \in Seq(ProcessObject) /\ processProps \in [ProcessObject -> Seq(Handler)]
  BY DEF TypeOK
<1>2. DOMAIN processes = 1..Len(processes) /\ Len(processes) \in Nat
  BY <1>1
<1>3. \A k \in 1..Len(processes) : processProps[processes[k]] \in Seq(Handler)
  BY <1>1
<1>4. s \in Seq(Seq(Handler))
  BY <1>2, <1>3
<1> HIDE DEF s
<1>5. FlattenSeq(s) \in Seq(Handler)
  BY <1>4, FlattenTyped
<1>6. taskProps \in Seq(Handler)
  <2>1. taskProps \in Seq(AppHandler)
    BY DEF TypeOK
  <2> QED
    BY <2>1, AppHandlerAssumption
<1>7. AllTaskProps = taskProps \o FlattenSeq(s)
  BY DEF AllTaskProps, s
<1> QED
  BY <1>5, <1>6, <1>7

(* A registration on a process has the type of a handler. *)
LEMMA HandlerOfTyped ==
  ASSUME NEW o \in ProcessObject, NEW topic \in Topic
  PROVE  HandlerOf(o, topic) \in Handler
BY ProcessObjectAssumption DEF HandlerOf, Handler

(* The table has no duplicates, and nothing is in it before the start. *)
TableSettled ==
  /\ app # "serving" => handlers = <<>>
  /\ Duplicates(handlers) = {}

TInv == IInv /\ TypeOK /\ TableSettled

-----------------------------------------------------------------------------
(* Each step keeps the types.                                              *)
LEMMA TypesKept ==
  ASSUME IInv, TypeOK, [Next]_vars
  PROVE  TypeOK'
<1> USE DEF registration, table, routing
<1>1. ASSUME NEW h \in AppHandler, AddTask(h)
      PROVE  TypeOK'
  <2>1. taskProps' \in Seq(AppHandler)
    BY <1>1 DEF AddTask, TypeOK
  <2> QED
    BY <1>1, <2>1 DEF AddTask, TypeOK
<1>2. ASSUME NEW o \in ProcessObject, NEW topic \in Topic, AddProcessTask(o, topic)
      PROVE  TypeOK'
  <2>1. processProps' = [processProps EXCEPT
                           ![o] = Append(processProps[o], HandlerOf(o, topic))]
    BY <1>2 DEF AddProcessTask
  <2>2. Append(processProps[o], HandlerOf(o, topic)) \in Seq(Handler)
    <3>1. processProps[o] \in Seq(Handler)
      BY DEF TypeOK
    <3> QED
      BY <3>1, HandlerOfTyped
  <2>3. processProps' \in [ProcessObject -> Seq(Handler)]
    BY <2>1, <2>2 DEF TypeOK
  <2> QED
    BY <1>2, <2>3 DEF AddProcessTask, TypeOK
<1>3. ASSUME NEW o \in ProcessObject, NEW group \in TaskGroup,
             AddTaskGroup(o, group)
      PROVE  TypeOK'
  <2> DEFINE g == [k \in DOMAIN group |-> HandlerOf(o, group[k])]
  <2>1. processProps' = [processProps EXCEPT ![o] = processProps[o] \o g]
    BY <1>3 DEF AddTaskGroup
  <2>2. g \in Seq(Handler)
    <3>1. group \in Seq(Topic)
      BY TaskGroupAssumption
    <3>2. \A k \in 1..Len(group) : HandlerOf(o, group[k]) \in Handler
      BY <3>1, HandlerOfTyped
    <3> QED
      BY <3>1, <3>2
  <2> HIDE DEF g
  <2>3. processProps[o] \o g \in Seq(Handler)
    <3>1. processProps[o] \in Seq(Handler)
      BY DEF TypeOK
    <3> QED
      BY <2>2, <3>1
  <2>4. processProps' \in [ProcessObject -> Seq(Handler)]
    BY <2>1, <2>3 DEF TypeOK
  <2> QED
    BY <1>3, <2>4 DEF AddTaskGroup, TypeOK
<1>4. ASSUME NEW o \in ProcessObject, AddProcess(o)
      PROVE  TypeOK'
  <2>1. processes' \in Seq(ProcessObject)
    BY <1>4 DEF AddProcess, TypeOK
  <2> QED
    BY <1>4, <2>1 DEF AddProcess, TypeOK
<1>5. CASE Start
  <2>1. AllTaskProps \in Seq(Handler)
    BY AllTaskPropsTyped
  <2>2. /\ app' = "serving" /\ handlers' = AllTaskProps
        /\ capabilities' = Capabilities(AllTaskProps)
        /\ UNCHANGED <<registration, routing>>
    BY <1>5 DEF Start
  <2>3. Capabilities(AllTaskProps) \subseteq [process: Process \cup {None}, topic: Topic]
    <3> DEFINE p == AllTaskProps
    <3> SUFFICES ASSUME NEW i \in DOMAIN p
                 PROVE  [process |-> p[i].process, topic |-> p[i].topic]
                          \in [process: Process \cup {None}, topic: Topic]
      BY DEF Capabilities
    <3>1. p[i] \in Handler
      BY <2>1
    <3> HIDE DEF p
    <3> QED
      BY <3>1 DEF Handler
  <2>4. lock = "none" /\ chosen = 0
    BY <1>5 DEF Start, IInv, FetchedIsWanted, ChosenWins
  <2> QED
    BY <2>1, <2>2, <2>3, <2>4 DEF TypeOK
<1>6. CASE RefuseStart
  BY <1>6 DEF RefuseStart, TypeOK
<1>7. ASSUME NEW s \in Scope, Fetch(s)
      PROVE  TypeOK'
  BY <1>7 DEF Fetch, TypeOK
<1>8. ASSUME NEW i \in {0} \cup DOMAIN handlers, AnswerLock(i)
      PROVE  TypeOK'
  <2>1. /\ lock' = IF Matches(task) = {} THEN "rejected" ELSE "accepted"
        /\ chosen' = i /\ UNCHANGED <<registration, table, task>>
        /\ Matched(i, task)
    BY <1>8 DEF AnswerLock
  <2>2. i # 0 <=> Matches(task) # {}
    <3>1. handlers \in Seq(Handler)
      BY DEF TypeOK
    <3>2. 0 \notin DOMAIN handlers
      BY <3>1
    <3>3. Matches(task) # {} => i \in DOMAIN handlers
      BY <2>1 DEF Matched, Wins, Matches
    <3>4. Matches(task) = {} => i = 0
      BY <2>1 DEF Matched
    <3> QED
      BY <3>2, <3>3, <3>4
  <2> QED
    BY <2>1, <2>2 DEF TypeOK
<1>9. CASE End
  BY <1>9 DEF End, TypeOK
<1>10. CASE UNCHANGED vars
  BY <1>10 DEF vars, TypeOK
<1> QED
  BY <1>1, <1>2, <1>3, <1>4, <1>5, <1>6, <1>7, <1>8, <1>9, <1>10 DEF Next

(* TInv is an invariant: the start refuses duplicates, and what is         *)
(* registered later does not reach the table.                              *)
THEOREM RoutingSettled == Spec => []TInv
<1>1. Init => TypeOK /\ TableSettled
  <2> SUFFICES ASSUME Init PROVE TypeOK /\ TableSettled
    OBVIOUS
  <2>1. processProps \in [ProcessObject -> Seq(Handler)]
    <3>1. <<>> \in Seq(Handler)
      OBVIOUS
    <3> QED
      BY <3>1 DEF Init
  <2>2. handlers = <<>> /\ handlers \in Seq(Handler) /\ DOMAIN handlers = {}
    BY DEF Init
  <2>3. TypeOK
    BY <2>1, <2>2 DEF Init, TypeOK
  <2> QED
    BY <2>2, <2>3 DEF TableSettled, Duplicates
<1>2. IInv /\ TypeOK /\ TableSettled /\ [Next]_vars => TableSettled'
  <2> SUFFICES ASSUME IInv, TypeOK, TableSettled, [Next]_vars
               PROVE  TableSettled'
    OBVIOUS
  <2> USE DEF registration, table, routing
  <2>1. CASE Start
    <3>1. /\ app' = "serving" /\ handlers' = AllTaskProps /\ repr' = repr
          /\ Duplicates(AllTaskProps) = {}
      BY <2>1 DEF Start
    <3>2. Duplicates(handlers)' = {}
      BY <3>1 DEF Duplicates, SamePredicate, Shown
    <3> QED
      BY <3>1, <3>2 DEF TableSettled
  <2>2. CASE ~ Start
    <3>1. UNCHANGED <<repr, handlers>> /\ (app' # "serving" => app # "serving")
      BY <2>2 DEF Next, AddTask, AddProcessTask, AddTaskGroup, AddProcess,
         RefuseStart, Fetch, AnswerLock, End, vars
    <3>2. Duplicates(handlers)' = {}
      BY <3>1 DEF TableSettled, Duplicates, SamePredicate, Shown
    <3> QED
      BY <3>1, <3>2 DEF TableSettled
  <2> QED
    BY <2>1, <2>2
<1>3. TypeOK /\ IInv /\ [Next]_vars => TypeOK'
  BY TypesKept
<1> QED
  BY <1>1, <1>2, <1>3, RoutingInvariant, PTL DEF Spec, TInv

(* The variables have their types; a handler is chosen exactly for locks   *)
(* that are accepted.                                                      *)
THEOREM RoutingTypes == Spec => []TypeOK
<1>1. TInv => TypeOK
  BY DEF TInv
<1> QED
  BY <1>1, RoutingSettled, PTL

-----------------------------------------------------------------------------
(* Handlers that can be reached.                                           *)

(* A handler that no other one outweighs for a task, nor one before it     *)
(* equals, wins the task.                                                  *)
LEMMA Unrivalled ==
  ASSUME TypeOK, NEW s, NEW i \in DOMAIN handlers, Value(handlers[i], s) # 0,
         \A j \in DOMAIN handlers :
           /\ Value(handlers[j], s) <= Value(handlers[i], s)
           /\ Value(handlers[j], s) = Value(handlers[i], s) => ~ (j < i)
  PROVE  Wins(i, s)
<1>1. i \in Matches(s)
  BY DEF Matches
<1>2. ASSUME NEW j \in Matches(s), Value(handlers[j], s) = Value(handlers[i], s)
      PROVE  i <= j
  <2>1. j \in DOMAIN handlers /\ handlers \in Seq(Handler)
    BY <1>2 DEF Matches, TypeOK
  <2>2. i \in Nat /\ j \in Nat
    BY <2>1
  <2>3. ~ (j < i)
    BY <1>2, <2>1
  <2> QED
    BY <2>2, <2>3
<1> QED
  BY <1>1, <1>2 DEF Wins, Matches

(* No handler of a process is dead after a start that found no duplicates. *)
THEOREM NoneDead == Spec => []NoDeadHandler
<1>1. TInv => NoDeadHandler
  <2> SUFFICES ASSUME TInv, NEW i \in DOMAIN handlers, handlers[i].process # None,
                      \/ handlers[i].tenants = None
                      \/ \E t \in Range(handlers[i].tenants) : \A j \in 1..(i - 1) :
                           ~ /\ handlers[j].process = handlers[i].process
                             /\ handlers[j].topic = handlers[i].topic
                             /\ handlers[j].tenants # None
                             /\ t \in Range(handlers[j].tenants)
               PROVE  \E s \in Scope : Wanted(s) /\ Wins(i, s)
    BY DEF NoDeadHandler
  <2> DEFINE h == handlers[i]
  <2>1. TypeOK /\ IInv /\ TableSettled /\ handlers \in Seq(Handler)
    BY DEF TInv, TypeOK
  <2>2. /\ h \in Handler /\ h.process \in Process /\ h.topic \in Topic
        /\ i \in Nat /\ i \in 1..Len(handlers)
        /\ DOMAIN handlers = 1..Len(handlers) /\ Len(handlers) \in Nat
    <3>1. i \in Nat /\ i \in 1..Len(handlers)
          /\ DOMAIN handlers = 1..Len(handlers) /\ Len(handlers) \in Nat
      BY <2>1
    <3>2. h \in Handler
      BY <2>1
    <3>3. h.process \in Process /\ h.topic \in Topic
      BY <3>2 DEF Handler
    <3> QED
      BY <3>1, <3>2, <3>3
  <2>3. app = "serving"
    BY <2>1 DEF TableSettled
  <2>4. [process |-> h.process, topic |-> h.topic] \in capabilities
    BY <2>1, <2>3 DEF IInv, CapabilitiesOfTable, Capabilities
  <2>5. \A j \in DOMAIN handlers : handlers[j] \in Handler
    BY <2>1
  <2>6. ASSUME NEW s \in Scope, s.process = h.process, s.topic = h.topic
        PROVE  /\ Wanted(s)
               /\ ProcessWeight(h, s) = 2 /\ TopicWeight(h, s) = 2
               /\ \A j \in DOMAIN handlers :
                    /\ ProcessWeight(handlers[j], s) = 2
                         => handlers[j].process = h.process
                    /\ TopicWeight(handlers[j], s) = 2
                         => handlers[j].topic = h.topic
    <3>1. Wanted(s)
      BY <2>4, <2>6 DEF Wanted
    <3>2. \A v \in Process \cup Topic : {v} # None
      BY NoneAssumption
    <3>3. ProcessWeight(h, s) = 2 /\ TopicWeight(h, s) = 2
      BY <2>2, <2>6, <3>2, NoneAssumption DEF ProcessWeight, TopicWeight, Weight
    <3>4. ASSUME NEW j \in DOMAIN handlers
          PROVE  /\ ProcessWeight(handlers[j], s) = 2
                      => handlers[j].process = h.process
                 /\ TopicWeight(handlers[j], s) = 2
                      => handlers[j].topic = h.topic
      BY <2>2, <2>5, <2>6, <3>2 DEF ProcessWeight, TopicWeight, Weight, Handler
    <3> QED
      BY <3>1, <3>3, <3>4
  <2>7. CASE h.tenants = None
    <3> DEFINE s == [tenant |-> NoTenant, process |-> h.process, topic |-> h.topic]
    <3>1. s \in Scope /\ s.tenant = NoTenant /\ s.process = h.process /\ s.topic = h.topic
      BY <2>2 DEF Scope
    <3> HIDE DEF s, h
    <3>2. TenantWeight(h, s) = 1
      BY <2>7 DEF TenantWeight, Weight
    <3>3. /\ Wanted(s) /\ ProcessWeight(h, s) = 2 /\ TopicWeight(h, s) = 2
          /\ \A j \in DOMAIN handlers :
               /\ ProcessWeight(handlers[j], s) = 2 => handlers[j].process = h.process
               /\ TopicWeight(handlers[j], s) = 2 => handlers[j].topic = h.topic
      BY <2>6, <3>1
    <3>4. Value(h, s) = 26
      BY <3>2, <3>3, ValueIs
    <3>5. ASSUME NEW j \in DOMAIN handlers
          PROVE  /\ Value(handlers[j], s) <= 26
                 /\ Value(handlers[j], s) = 26 =>
                      /\ handlers[j].tenants = None
                      /\ ProcessWeight(handlers[j], s) = 2
                      /\ TopicWeight(handlers[j], s) = 2
      <4> DEFINE g == handlers[j]
      <4>1. g \in Handler
        BY <2>5
      <4> HIDE DEF g
      <4>2. g.tenants # None => TenantWeight(g, s) = 0
        <5> SUFFICES ASSUME g.tenants # None
                     PROVE  TenantWeight(g, s) = 0
          OBVIOUS
        <5>1. g.tenants \in TenantList
          BY <4>1 DEF Handler
        <5>2. NoTenant \notin Range(g.tenants) /\ Range(g.tenants) # None
          BY <5>1, TenantListAssumption, NoneAssumption
        <5> QED
          BY <3>1, <5>2 DEF TenantWeight, Weight
      <4>3. g.tenants = None => TenantWeight(g, s) = 1
        BY DEF TenantWeight, Weight
      <4>4. /\ Value(g, s) = 16 * TenantWeight(g, s) + 4 * ProcessWeight(g, s)
                               + TopicWeight(g, s)
            /\ ProcessWeight(g, s) \in 0..2 /\ TopicWeight(g, s) \in 0..2
        BY ValueIs, WeightRange
      <4>5. /\ Value(g, s) <= 26
            /\ Value(g, s) = 26 =>
                 /\ g.tenants = None /\ ProcessWeight(g, s) = 2
                 /\ TopicWeight(g, s) = 2
        BY <4>2, <4>3, <4>4
      <4> QED
        BY <4>5 DEF g
    <3>6. ASSUME NEW j \in DOMAIN handlers, Value(handlers[j], s) = 26, j < i
          PROVE  FALSE
      <4>1. /\ handlers[j].tenants = None /\ handlers[j].process = h.process
            /\ handlers[j].topic = h.topic
        BY <3>3, <3>5, <3>6
      <4>2. SamePredicate(handlers[j], handlers[i])
        BY <2>7, <4>1 DEF SamePredicate, Shown, h
      <4>3. j \in 1..(i - 1)
        BY <2>2, <3>6
      <4>4. i \in Duplicates(handlers)
        BY <4>2, <4>3 DEF Duplicates
      <4> QED
        BY <2>1, <4>4 DEF TableSettled
    <3>7. Wins(i, s)
      <4>1. /\ Value(handlers[i], s) = 26
            /\ \A j \in DOMAIN handlers :
                 /\ Value(handlers[j], s) <= Value(handlers[i], s)
                 /\ Value(handlers[j], s) = Value(handlers[i], s) => ~ (j < i)
        BY <3>4, <3>5, <3>6 DEF h
      <4>2. Value(handlers[i], s) # 0
        BY <4>1
      <4> QED
        BY <2>1, <4>1, <4>2, Unrivalled
    <3> QED
      BY <3>1, <3>3, <3>7
  <2>8. CASE h.tenants # None
    <3>1. PICK t \in Range(h.tenants) : \A j \in 1..(i - 1) :
            ~ /\ handlers[j].process = h.process
              /\ handlers[j].topic = h.topic
              /\ handlers[j].tenants # None
              /\ t \in Range(handlers[j].tenants)
      BY <2>8
    <3> DEFINE s == [tenant |-> t, process |-> h.process, topic |-> h.topic]
    <3>2. h.tenants \in TenantList
      BY <2>2, <2>8 DEF Handler
    <3>3. t \in Tenant /\ Range(h.tenants) # None
      BY <3>1, <3>2, TenantListAssumption, NoneAssumption
    <3>4. s \in Scope /\ s.tenant = t /\ s.process = h.process /\ s.topic = h.topic
      BY <2>2, <3>3 DEF Scope
    <3> HIDE DEF s, h
    <3>5. TenantWeight(h, s) = 2
      BY <2>8, <3>1, <3>3, <3>4 DEF TenantWeight, Weight
    <3>6. /\ Wanted(s) /\ ProcessWeight(h, s) = 2 /\ TopicWeight(h, s) = 2
          /\ \A j \in DOMAIN handlers :
               /\ ProcessWeight(handlers[j], s) = 2 => handlers[j].process = h.process
               /\ TopicWeight(handlers[j], s) = 2 => handlers[j].topic = h.topic
      BY <2>6, <3>4
    <3>7. Value(h, s) = 42
      BY <3>5, <3>6, ValueIs
    <3>8. ASSUME NEW j \in DOMAIN handlers
          PROVE  /\ Value(handlers[j], s) <= 42
                 /\ Value(handlers[j], s) = 42 =>
                      /\ TenantWeight(handlers[j], s) = 2
                      /\ ProcessWeight(handlers[j], s) = 2
                      /\ TopicWeight(handlers[j], s) = 2
      <4> DEFINE g == handlers[j]
      <4> HIDE DEF g
      <4>1. /\ Value(g, s) = 16 * TenantWeight(g, s) + 4 * ProcessWeight(g, s)
                               + TopicWeight(g, s)
            /\ TenantWeight(g, s) \in 0..2
            /\ ProcessWeight(g, s) \in 0..2 /\ TopicWeight(g, s) \in 0..2
        BY ValueIs, WeightRange
      <4>2. /\ Value(g, s) <= 42
            /\ Value(g, s) = 42 =>
                 /\ TenantWeight(g, s) = 2 /\ ProcessWeight(g, s) = 2
                 /\ TopicWeight(g, s) = 2
        BY <4>1
      <4> QED
        BY <4>2 DEF g
    <3>9. ASSUME NEW j \in DOMAIN handlers, Value(handlers[j], s) = 42, j < i
          PROVE  FALSE
      <4>1. /\ TenantWeight(handlers[j], s) = 2
            /\ handlers[j].process = h.process /\ handlers[j].topic = h.topic
        BY <3>6, <3>8, <3>9
      <4>2. handlers[j].tenants # None /\ t \in Range(handlers[j].tenants)
        BY <3>4, <4>1 DEF TenantWeight, Weight
      <4>3. j \in 1..(i - 1)
        BY <2>2, <3>9
      <4> QED
        BY <3>1, <4>1, <4>2, <4>3
    <3>10. Wins(i, s)
      <4>1. /\ Value(handlers[i], s) = 42
            /\ \A j \in DOMAIN handlers :
                 /\ Value(handlers[j], s) <= Value(handlers[i], s)
                 /\ Value(handlers[j], s) = Value(handlers[i], s) => ~ (j < i)
        BY <3>7, <3>8, <3>9 DEF h
      <4>2. Value(handlers[i], s) # 0
        BY <4>1
      <4> QED
        BY <2>1, <4>1, <4>2, Unrivalled
    <3> QED
      BY <3>4, <3>6, <3>10
  <2> QED
    BY <2>7, <2>8
<1> QED
  BY <1>1, RoutingSettled, PTL

=============================================================================
