---------------------------- MODULE Lease_proofs ----------------------------
(* Proofs about the lease of a task, for any number of exchanges.           *)
EXTENDS Lease, TLAPS

\* Every step keeps the types.
LEMMA NextType == TypeOK /\ [Next]_vars => TypeOK'
<1> SUFFICES ASSUME TypeOK, [Next]_vars PROVE TypeOK'
  OBVIOUS
<1> USE DEF TypeOK
<1>1. CASE Lapse
  BY <1>1 DEF Lapse
<1>2. ASSUME NEW x \in Exchange, Start(x) \/ Stop(x) \/ Quit(x) PROVE TypeOK'
  BY <1>2 DEF Start, Stop, Quit, Moves
<1>3. ASSUME NEW x \in Exchange, Grant(x) \/ End(x) \/ GiveUp(x) PROVE TypeOK'
  <2>1. /\ task' \in {"open", "completed", "escalated"}
        /\ owner' \in Exchange \cup {Nobody}
        /\ held' \in BOOLEAN
        /\ UNCHANGED <<lapsed, status>>
    BY <1>3 DEF Grant, End, GiveUp
  <2> QED BY <2>1
<1>4. CASE UNCHANGED vars
  BY <1>4 DEF vars
<1> QED BY <1>1, <1>2, <1>3, <1>4 DEF Next

\* Only the owner ends or gives up the task, and not at work; a lease that is
\* granted was free, or belonged to an exchange that is not at work.
LEMMA NextWorksUnderLease ==
  TypeOK /\ WorksUnderLease /\ [Next]_vars => WorksUnderLease'
<1> SUFFICES ASSUME TypeOK, WorksUnderLease, [Next]_vars,
                    NEW y \in Exchange, status'[y] = "working"
             PROVE  Holds(y)' \/ lapsed'[y]
  BY DEF WorksUnderLease
<1>1. CASE Lapse
  BY <1>1 DEF Lapse, TypeOK, WorksUnderLease, Holds
<1>2. ASSUME NEW x \in Exchange, Start(x) \/ Stop(x) \/ Quit(x)
      PROVE  Holds(y)' \/ lapsed'[y]
  <2>1. UNCHANGED <<task, owner, held, lapsed>>
    BY <1>2 DEF Start, Stop, Quit, Moves
  <2>2. status[y] = "working" \/ (y = x /\ Start(x))
    BY <1>2 DEF Start, Stop, Quit, Moves, TypeOK
  <2> QED BY <2>1, <2>2 DEF Start, WorksUnderLease, Holds
<1>3. ASSUME NEW x \in Exchange, Grant(x) \/ End(x) \/ GiveUp(x)
      PROVE  Holds(y)' \/ lapsed'[y]
  <2>1. status[x] # "working" /\ UNCHANGED <<status, lapsed>>
    BY <1>3 DEF Grant, End, GiveUp
  <2>2. x # y /\ (Holds(y) \/ lapsed[y])
    BY <2>1 DEF WorksUnderLease
  <2>3. CASE Grant(x)
    BY <2>1, <2>2, <2>3 DEF Grant, Holds
  <2>4. CASE End(x) \/ GiveUp(x)
    BY <2>1, <2>2, <2>4 DEF End, GiveUp, Holds
  <2> QED BY <1>3, <2>3, <2>4
<1>4. CASE UNCHANGED vars
  BY <1>4 DEF vars, WorksUnderLease, Holds
<1> QED BY <1>1, <1>2, <1>3, <1>4 DEF Next

\* The lease protects who is at work: the task stays open and in its hands
\* until the lease lapses, whatever the other exchanges do.
THEOREM LeaseProtects == Spec => []WorksUnderLease
<1>1. Init => TypeOK /\ WorksUnderLease
  BY DEF Init, TypeOK, WorksUnderLease
<1> QED BY <1>1, NextType, NextWorksUnderLease, PTL DEF Spec

\* Hence two exchanges are at work at once only after a lease lapsed.
THEOREM LeaseExcludes == Spec => []Exclusive
<1>1. WorksUnderLease => Exclusive
  BY DEF WorksUnderLease, Exclusive, Holds
<1> QED BY <1>1, LeaseProtects, PTL
=============================================================================
