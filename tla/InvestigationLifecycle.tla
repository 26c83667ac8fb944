------------------------ MODULE InvestigationLifecycle ------------------------
(***************************************************************************)
(* What the database promises to whoever reads it, whichever connections,  *)
(* coroutines and commits produce it: each investigation goes from PENDING *)
(* over RUNNING to one terminal status, and is COMPLETE only with its      *)
(* report.  One commit may carry the steps of several investigations.      *)
(***************************************************************************)
EXTENDS Naturals

CONSTANT Inv

VARIABLES status, reported

lifecycleVars == <<status, reported>>

LifecycleInit ==
  /\ status = [i \in Inv |-> "ABSENT"]
  /\ reported = [i \in Inv |-> FALSE]

Moves(i, from, to) == status[i] \in from /\ status'[i] = to

Stay(i)    == status'[i] = status[i] /\ reported'[i] = reported[i]
Submit(i)  == Moves(i, {"ABSENT"}, "PENDING") /\ ~reported'[i]
Begin(i)   == Moves(i, {"PENDING"}, "RUNNING") /\ ~reported'[i]
Publish(i) == Moves(i, {"RUNNING"}, "RUNNING") /\ ~reported[i] /\ reported'[i]
Finish(i)  == Moves(i, {"RUNNING"}, "COMPLETE") /\ reported[i] /\ reported'[i]
Fail(i)    == Moves(i, {"PENDING", "RUNNING"}, "FAILED") /\ reported'[i] = reported[i]

LifecycleNext ==
  \A i \in Inv : Stay(i) \/ Submit(i) \/ Begin(i) \/ Publish(i) \/ Finish(i) \/ Fail(i)

LifecycleSpec == LifecycleInit /\ [][LifecycleNext]_lifecycleVars
===============================================================================
