-------------------------- MODULE MCTaskReconciler --------------------------
(* Instances of TaskReconciler for TLC.                                     *)
EXTENDS TaskReconciler, TLC

CONSTANTS t1, t2, w1, w2

OneTask == {t1}
TwoTasks == {t1, t2}
OneWorkload == {w1}
TwoWorkloads == {w1, w2}

(* A workload of one pod and one of two, so that a mixed-up size is seen.   *)
DesiredOne == w1 :> 1
DesiredTwo == w1 :> 1 @@ w2 :> 2
=============================================================================
