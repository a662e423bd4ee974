------------------------------ MODULE Routing -------------------------------
(***************************************************************************)
(* How a task finds its handler.  Handlers are registered on the           *)
(* application and on its processes; when the application is first asked   *)
(* for its capabilities it builds a table of them, refusing duplicates.    *)
(* From then on two pieces of code decide about every task: the producer   *)
(* compares it with the capabilities before it is queued, and the          *)
(* processor weighs it against the table when the lock is requested.       *)
(*                                                                         *)
(* One task at a time goes through; exchanges share nothing but the table, *)
(* which does not change while the server runs.                            *)
(***************************************************************************)
EXTENDS Integers, Sequences, SequencesExt

CONSTANTS
  Process,        \* process definition keys
  Topic,
  Tenant,
  NoTenant,       \* tenant_id of a task that belongs to no tenant
  None,            \* where a handler is registered: no restriction
  TenantList,     \* lists of tenants that handlers are registered with
  ProcessObject,  \* Process objects: records [id, process, tenants]
  AppHandler,     \* what the program may register on the application itself
  TaskGroup,      \* sequences of topics: the tasks of a TaskGroup
  NoTask,         \* no task at hand
  MaxHandlers,    \* bound of the registrations, for model checking
  MaxProcesses    \* bound of the calls of add_process, for model checking

(* What a registration keeps of its TaskProperties. *)
Handler ==
  [tenants: TenantList \cup {None}, process: Process \cup {None}, topic: Topic]

(* What routing reads of a task. *)
Scope ==
  [tenant: Tenant \cup {NoTenant}, process: Process, topic: Topic]

ASSUME NoneAssumption ==
  /\ None \notin Process \cup Topic \cup TenantList
  /\ None \notin {{v} : v \in Process \cup Topic}
  /\ None \notin {Range(l) : l \in TenantList}
  /\ NoTenant \notin Tenant
ASSUME TenantListAssumption ==
  \A l \in TenantList :
    Len(l) > 0 /\ Range(l) \subseteq Tenant /\ IsInjective(l)
ASSUME ProcessObjectAssumption ==
  \A o \in ProcessObject :
    o.process \in Process \cup {None} /\ o.tenants \in TenantList \cup {None}
ASSUME AppHandlerAssumption == AppHandler \subseteq Handler
ASSUME TaskGroupAssumption == TaskGroup \subseteq Seq(Topic)
ASSUME NoTaskAssumption == NoTask \notin Scope

VARIABLES
  repr,          \* order in which repr() shows the set made of a list (external)
  taskProps,     \* FastBPMN._task_props
  processProps,  \* Process.task_props of each Process object
  processes,     \* FastBPMN.processes
  app,           \* "open" until the middleware stack is built, then "serving",
                 \* or "refused" when building it failed
  handlers,      \* the table of build_task_matcher, in registration order
  capabilities,  \* what the producer compares tasks with
  task,          \* the task at hand
  lock,          \* what has become of its lock request
  chosen         \* index of its handler, 0 if it has none

registration == <<repr, taskProps, processProps, processes>>
table == <<app, handlers, capabilities>>
routing == <<task, lock, chosen>>
vars == <<registration, table, routing>>

-----------------------------------------------------------------------------
(* Weighing.                                                               *)

(* KeyPredicate: explicitly expected 2, no restriction 1, something else 0. *)
Weight(expected, value) ==
  IF expected = None THEN 1 ELSE IF value \in expected THEN 2 ELSE 0

TenantWeight(h, s) ==
  Weight(IF h.tenants = None THEN None ELSE Range(h.tenants), s.tenant)
ProcessWeight(h, s) ==
  Weight(IF h.process = None THEN None ELSE {h.process}, s.process)
TopicWeight(h, s) == Weight({h.topic}, s.topic)

(* Mutant of Combine: a shift by one. *)
CombineTight(a, weight) == 2 * a + weight

(* One step of AggregatePredicate's reduce: (a << 2) | p. *)
Combine(a, weight) == 4 * a + weight

Value(h, s) ==
  Combine(Combine(Combine(0, TenantWeight(h, s)), ProcessWeight(h, s)),
          TopicWeight(h, s))

(* The handlers a task matches: any weight but 0 will do. *)
Matches(s) == {i \in DOMAIN handlers : Value(handlers[i], s) # 0}

(* Mutant of Wins: the matches are sorted without reverse. *)
WinsAscending(i, s) ==
  /\ i \in Matches(s)
  /\ \A j \in Matches(s) :
       /\ Value(handlers[j], s) >= Value(handlers[i], s)
       /\ Value(handlers[j], s) = Value(handlers[i], s) => i <= j

(* Handler i is the first after a stable sort by falling value. *)
Wins(i, s) ==
  /\ i \in Matches(s)
  /\ \A j \in Matches(s) :
       /\ Value(handlers[j], s) <= Value(handlers[i], s)
       /\ Value(handlers[j], s) = Value(handlers[i], s) => i <= j

(* matching_func: what it returns for a task, 0 where the code has None. *)
Matched(i, s) == IF Matches(s) = {} THEN i = 0 ELSE Wins(i, s)

(* Mutant of Wanted: without capabilities every task passes. *)
WantedByDefault(s) ==
  \/ capabilities = {}
  \/ [process |-> s.process, topic |-> s.topic] \in capabilities
  \/ [process |-> None, topic |-> s.topic] \in capabilities

(* The producer's test: the capability of the task's process and topic, or *)
(* that of its topic in any process.                                       *)
Wanted(s) ==
  \/ [process |-> s.process, topic |-> s.topic] \in capabilities
  \/ [process |-> None, topic |-> s.topic] \in capabilities

-----------------------------------------------------------------------------
(* Registration.                                                           *)

Shown(tenants) == IF tenants = None THEN None ELSE repr[tenants]

(* What a dictionary of predicates takes for one key: they are equal and,  *)
(* since a predicate is hashed by its repr(), they also look the same.     *)
SamePredicate(g, h) ==
  /\ g.process = h.process
  /\ g.topic = h.topic
  /\ Shown(g.tenants) = Shown(h.tenants)

(* Mutant of Duplicates: only neighbours are compared. *)
DuplicateNeighbours(props) ==
  {j \in DOMAIN props : j > 1 /\ SamePredicate(props[j - 1], props[j])}

Duplicates(props) ==
  {j \in DOMAIN props : \E i \in 1..(j - 1) : SamePredicate(props[i], props[j])}

(* FastBPMN.task_props: its own first, then those of its processes. *)
AllTaskProps ==
  taskProps \o FlattenSeq([k \in DOMAIN processes |-> processProps[processes[k]]])

HandlerOf(o, topic) ==
  [tenants |-> o.tenants, process |-> o.process, topic |-> topic]

Registered ==
  Len(taskProps) + MapThenSumSet(LAMBDA o : Len(processProps[o]), ProcessObject)

Topics(props) == {props[i].topic : i \in DOMAIN props}

Init ==
  /\ repr \in {r \in [TenantList -> TenantList] :
                 \A l \in TenantList : Range(r[l]) = Range(l)}
  /\ taskProps = <<>>
  /\ processProps = [o \in ProcessObject |-> <<>>]
  /\ processes = <<>>
  /\ app = "open"
  /\ handlers = <<>>
  /\ capabilities = {}
  /\ task = NoTask
  /\ lock = "none"
  /\ chosen = 0

(* FastBPMN.add_task.  Nothing keeps a program from registering after the  *)
(* table was built, but that handler is not in the table.                  *)
AddTask(h) ==
  /\ app # "refused"
  /\ Registered < MaxHandlers
  /\ taskProps' = Append(taskProps, h)
  /\ UNCHANGED <<repr, processProps, processes, table, routing>>

(* Process.add_task. *)
AddProcessTask(o, topic) ==
  /\ app # "refused"
  /\ Registered < MaxHandlers
  /\ processProps' = [processProps EXCEPT ![o] = Append(@, HandlerOf(o, topic))]
  /\ UNCHANGED <<repr, taskProps, processes, table, routing>>

(* Process.add_taskgroup that does not raise.  The topics it compares with *)
(* come from an iterator, which the comparison for the first task uses up, *)
(* so that no later task of the group is held back.                        *)
AddTaskGroup(o, group) ==
  /\ app # "refused"
  /\ Registered + Len(group) <= MaxHandlers
  /\ group # <<>>
  /\ Head(group) \notin Topics(processProps[o])
  /\ processProps' = [processProps EXCEPT ![o] =
       @ \o [k \in DOMAIN group |-> HandlerOf(o, group[k])]]
  /\ UNCHANGED <<repr, taskProps, processes, table, routing>>

(* FastBPMN.add_process. *)
AddProcess(o) ==
  /\ app # "refused"
  /\ Len(processes) < MaxProcesses
  /\ processes' = Append(processes, o)
  /\ UNCHANGED <<repr, taskProps, processProps, table, routing>>

-----------------------------------------------------------------------------
(* Start.                                                                  *)

(* The answer to capabilities.request: tenants are not part of it. *)
Capabilities(props) ==
  {[process |-> props[i].process, topic |-> props[i].topic] : i \in DOMAIN props}

(* FastBPMN.build_middleware_stack without duplicates; the answer to       *)
(* capabilities.request reaches the producer.                              *)
Start ==
  /\ app = "open"
  /\ Duplicates(AllTaskProps) = {}
  /\ app' = "serving"
  /\ handlers' = AllTaskProps
  /\ capabilities' = Capabilities(AllTaskProps)
  /\ UNCHANGED <<registration, routing>>

(* build_task_matcher raises: the exception ends Camunda7Server.__call__. *)
RefuseStart ==
  /\ app = "open"
  /\ Duplicates(AllTaskProps) # {}
  /\ app' = "refused"
  /\ UNCHANGED <<registration, handlers, capabilities, routing>>

-----------------------------------------------------------------------------
(* Routing.                                                                *)

(* The producer lets a task pass; its exchange begins with a lock request. *)
Fetch(s) ==
  /\ app = "serving"
  /\ task = NoTask
  /\ Wanted(s)
  /\ task' = s
  /\ lock' = "requested"
  /\ chosen' = 0
  /\ UNCHANGED <<registration, table>>

(* The processor's answer: lock.accept, or lock.reject (NOT_IMPLEMENTED)    *)
(* if it has no handler.                                                   *)
AnswerLock(i) ==
  /\ lock = "requested"
  /\ Matched(i, task)
  /\ lock' = IF Matches(task) = {} THEN "rejected" ELSE "accepted"
  /\ chosen' = i
  /\ UNCHANGED <<registration, table, task>>

(* Mutant of End: the handler of the last task stays. *)
EndKeepsHandler ==
  /\ lock \in {"accepted", "rejected"}
  /\ task' = NoTask
  /\ lock' = "none"
  /\ UNCHANGED <<registration, table, chosen>>

(* The exchange is over. *)
End ==
  /\ lock \in {"accepted", "rejected"}
  /\ task' = NoTask
  /\ lock' = "none"
  /\ chosen' = 0
  /\ UNCHANGED <<registration, table>>

Next ==
  \/ \E h \in AppHandler : AddTask(h)
  \/ \E o \in ProcessObject, topic \in Topic : AddProcessTask(o, topic)
  \/ \E o \in ProcessObject, group \in TaskGroup : AddTaskGroup(o, group)
  \/ \E o \in ProcessObject : AddProcess(o)
  \/ Start
  \/ RefuseStart
  \/ \E s \in Scope : Fetch(s)
  \/ \E i \in {0} \cup DOMAIN handlers : AnswerLock(i)
  \/ End

Spec == Init /\ [][Next]_vars

-----------------------------------------------------------------------------
(* Properties.                                                             *)

(* Types of the variables; a handler is chosen exactly for accepted locks. *)
TypeOK ==
  /\ repr \in [TenantList -> TenantList]
  /\ taskProps \in Seq(AppHandler)
  /\ processProps \in [ProcessObject -> Seq(Handler)]
  /\ processes \in Seq(ProcessObject)
  /\ app \in {"open", "serving", "refused"}
  /\ handlers \in Seq(Handler)
  /\ capabilities \subseteq [process: Process \cup {None}, topic: Topic]
  /\ task \in Scope \cup {NoTask}
  /\ lock \in {"none", "requested", "accepted", "rejected"}
  /\ chosen \in {0} \cup DOMAIN handlers
  /\ chosen # 0 <=> lock = "accepted"

(* Nothing is fetched in vain: the producer's test (producer.py:56-66) is  *)
(* never wider than the processor's (routing.py:156-169), so that a lock   *)
(* request is never rejected as NOT_IMPLEMENTED.                           *)
LockNeverRejected == lock # "rejected"

(* Reference for the bit arithmetic of AggregatePredicate: the tenant      *)
(* decides, then the process, then the topic.                              *)
AtLeast(h, g, s) ==
  \/ TenantWeight(h, s) > TenantWeight(g, s)
  \/ /\ TenantWeight(h, s) = TenantWeight(g, s)
     /\ \/ ProcessWeight(h, s) > ProcessWeight(g, s)
        \/ /\ ProcessWeight(h, s) = ProcessWeight(g, s)
           /\ TopicWeight(h, s) >= TopicWeight(g, s)

(* The chosen handler is at least as specific as each other one, in that   *)
(* order of tenant, process and topic (routing.py:29-32).                  *)
MostSpecificChosen ==
  chosen # 0 =>
    \A j \in DOMAIN handlers : AtLeast(handlers[chosen], handlers[j], task)

Fits(h, s) ==
  /\ TenantWeight(h, s) > 0
  /\ ProcessWeight(h, s) > 0
  /\ TopicWeight(h, s) > 0

(* If a handler names the task's process and topic, and its tenant, or no  *)
(* handler names tenants at all, then the handler that runs is one for the *)
(* task's tenant, process and topic.  This is as far as the documented     *)
(* rules hold: TopicContract is one of them in full, and README.md:274,    *)
(* "Tasks registered on a Process only fire for that specific process      *)
(* definition", fails for the same reason.                                 *)
NamedTaskServedByItsOwn ==
  chosen # 0 =>
    ( (\E j \in DOMAIN handlers :
         /\ handlers[j].process = task.process
         /\ handlers[j].topic = task.topic
         /\ \/ TenantWeight(handlers[j], task) = 2
            \/ \A k \in DOMAIN handlers : handlers[k].tenants = None)
      => Fits(handlers[chosen], task) )

(* No handler of a process is dead after a start that found no duplicates: *)
(* either some task would be fetched and routed to it, or all its tenants  *)
(* are taken by handlers for the same process and topic that were          *)
(* registered before it (routing.py:142-154).                              *)
NoDeadHandler ==
  \A i \in DOMAIN handlers :
    \/ handlers[i].process = None
    \/ \E s \in Scope : Wanted(s) /\ Wins(i, s)
    \/ /\ handlers[i].tenants # None
       /\ \A t \in Range(handlers[i].tenants) : \E j \in 1..(i - 1) :
            /\ handlers[j].process = handlers[i].process
            /\ handlers[j].topic = handlers[i].topic
            /\ handlers[j].tenants # None
            /\ t \in Range(handlers[j].tenants)

(* docs/docs/deep-dive/index.md:17-19: the topic is the contract between   *)
(* model and application, and the handler that subscribes to it can be     *)
(* selected independently of the process definition.                       *)
TopicContract == chosen # 0 => handlers[chosen].topic = task.topic
=============================================================================
