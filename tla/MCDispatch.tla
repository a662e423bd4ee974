------------------------------ MODULE MCDispatch ------------------------------
(* Instances of Dispatch for TLC.  A worker more than there are permits, so    *)
(* that the semaphore alone keeps it from being started.                       *)
EXTENDS Dispatch

CONSTANTS t1, t2, t3, a1, a2, a3

TwoTasks == {t1, t2}
ThreeTasks == {t1, t2, t3}
TwoWorkers == {a1, a2}
ThreeWorkers == {a1, a2, a3}
=============================================================================
