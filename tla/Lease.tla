------------------------------- MODULE Lease -------------------------------
(***************************************************************************)
(* What the task exchange promises: a task of the process engine under a   *)
(* lease.  The task is given to one exchange at a time, an exchange works  *)
(* on the task only while it holds the lease or after it lapsed, and only  *)
(* an exchange that has worked on the task ends it.  How events, calls and *)
(* answers travel is left to TaskExchange, which implements this module.   *)
(***************************************************************************)
CONSTANTS
  Exchange,  \* the exchanges that compete for the task
  Nobody     \* the owner before the first lease

VARIABLES
  task,    \* "open", "completed" or "escalated"
  owner,   \* the exchange that got the last lease
  held,    \* the lease is neither given back nor expired
  lapsed,  \* exchanges whose lease expired
  status   \* each exchange: "waiting", "working" or "over"

vars == <<task, owner, held, lapsed, status>>

Init ==
  /\ task = "open"
  /\ owner = Nobody
  /\ held = FALSE
  /\ lapsed = [x \in Exchange |-> FALSE]
  /\ status = [x \in Exchange |-> "waiting"]

\* The exchange may touch the task: it holds the lease.
Holds(x) == task = "open" /\ owner = x /\ held

\* The lease goes to an exchange that is not at work, and takes no lease away.
Grant(x) ==
  /\ task = "open" /\ (held => owner = x)
  /\ status[x] # "working"
  /\ owner' = x
  /\ held' = TRUE
  /\ UNCHANGED <<task, lapsed, status>>

\* The lease expires, whatever its owner is doing.
Lapse ==
  /\ held
  /\ held' = FALSE
  /\ lapsed' = [x \in Exchange |-> lapsed[x] \/ owner = x]
  /\ UNCHANGED <<task, owner, status>>

Moves(x, from, to) ==
  /\ status[x] = from
  /\ status' = [status EXCEPT ![x] = to]
  /\ UNCHANGED <<task, owner, held, lapsed>>

Start(x) == (Holds(x) \/ lapsed[x]) /\ Moves(x, "waiting", "working")

\* Work ends by itself or by a crash; some exchanges never begin.
Stop(x) == Moves(x, "working", "over")
Quit(x) == Moves(x, "waiting", "over")

\* The last owner ends the task, after its work.
End(x) ==
  /\ task = "open" /\ owner = x /\ status[x] = "over"
  /\ task' \in {"completed", "escalated"}
  /\ held' = FALSE
  /\ UNCHANGED <<owner, lapsed, status>>

\* The last owner gives the task up, at once or after a retry timeout.
GiveUp(x) ==
  /\ task = "open" /\ owner = x /\ status[x] # "working"
  /\ held' \in BOOLEAN
  /\ UNCHANGED <<task, owner, lapsed, status>>

Next ==
  \/ Lapse
  \/ \E x \in Exchange :
       Grant(x) \/ Start(x) \/ Stop(x) \/ Quit(x) \/ End(x) \/ GiveUp(x)

Spec == Init /\ [][Next]_vars

-----------------------------------------------------------------------------

TypeOK ==
  /\ task \in {"open", "completed", "escalated"}
  /\ owner \in Exchange \cup {Nobody}
  /\ held \in BOOLEAN
  /\ lapsed \in [Exchange -> BOOLEAN]
  /\ status \in [Exchange -> {"waiting", "working", "over"}]

\* Who is at work holds the lease, unless it lapsed: nothing that the others
\* do takes the task away from the one at work, or ends it meanwhile.
WorksUnderLease ==
  \A x \in Exchange : status[x] = "working" => Holds(x) \/ lapsed[x]

\* Two exchanges are at work on the task only after a lease lapsed.
Exclusive ==
  \A x, y \in Exchange :
    status[x] = "working" /\ status[y] = "working" /\ x # y =>
      lapsed[x] \/ lapsed[y]

=============================================================================
