------------------------------ MODULE MCRouting -----------------------------
(* Instances of Routing for TLC.                                           *)
EXTENDS Routing

CONSTANTS A, B, x, y, t1, t2

TwoProcesses == {A, B}
TwoTopics == {x, y}
TwoTenants == {t1, t2}

(* One tenant, and two of them in both orders. *)
Lists == {<<t1>>, <<t1, t2>>, <<t2, t1>>}

(* A process for all tenants and the same one for a tenant of its own. *)
Objects == {[id |-> 1, process |-> A, tenants |-> None],
            [id |-> 2, process |-> A, tenants |-> <<t1>>]}

(* Groups: two topics, and one topic twice. *)
Groups == {<<x, y>>, <<x, x>>}

(* Of each kind: for every task of a topic, for a topic of the process that *)
(* has objects as well, for one tenant in any process, and for tenants in   *)
(* both orders.                                                             *)
MixedHandlers ==
  {[tenants |-> None, process |-> None, topic |-> x],
   [tenants |-> None, process |-> A, topic |-> y],
   [tenants |-> <<t1>>, process |-> None, topic |-> y],
   [tenants |-> <<t1, t2>>, process |-> A, topic |-> x],
   [tenants |-> <<t2, t1>>, process |-> A, topic |-> x]}
GenericHandlers ==
  [tenants: {None}, process: {None}, topic: TwoTopics]
=============================================================================
