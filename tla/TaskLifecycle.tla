---------------------------- MODULE TaskLifecycle ----------------------------
(***************************************************************************)
(* What the Tasks controller promises about every Task object, whatever    *)
(* happens to the process that runs it: the persisted state moves along    *)
(* the documented progression                                              *)
(*   (unset) -> ScalingDown -> Starting -> Running -> ScalingUp            *)
(*           -> Completed,   Running -> Failed                             *)
(* and never back, a Task reports Running only once its Job has been       *)
(* launched and leaves Running for ScalingUp only if a Job of its own      *)
(* succeeded, and the object disappears only before the work has begun or  *)
(* after it has ended.  TaskReconciler implements this specification.      *)
(***************************************************************************)
CONSTANT Tasks            \* every Task object that may ever be created

VARIABLES phase,          \* phase[t]: the state an observer reads on Task t
          launched,       \* Tasks whose Job has been created at least once
          succeeded       \* Tasks a Job of which has succeeded

lifecycleVars == <<phase, launched, succeeded>>

Phases == {"Absent", "Unset", "ScalingDown", "Starting", "Running",
           "ScalingUp", "Completed", "Failed", "Gone"}

TypeOK == /\ phase \in [Tasks -> Phases]
          /\ launched \in SUBSET Tasks
          /\ succeeded \in SUBSET Tasks

Init == /\ phase = [t \in Tasks |-> "Absent"]
        /\ launched = {}
        /\ succeeded = {}

Move(t, from, to) == /\ phase[t] = from
                     /\ phase' = [phase EXCEPT ![t] = to]
                     /\ UNCHANGED <<launched, succeeded>>

Create(t) == Move(t, "Absent", "Unset")

BeginScaleDown(t) == Move(t, "Unset", "ScalingDown")

FinishScaleDown(t) == Move(t, "ScalingDown", "Starting")

Launch(t) == /\ phase[t] = "Starting"
             /\ launched' = launched \cup {t}
             /\ UNCHANGED <<phase, succeeded>>

JobSucceeds(t) == /\ t \in launched
                  /\ succeeded' = succeeded \cup {t}
                  /\ UNCHANGED <<phase, launched>>

ObserveRunning(t) == t \in launched /\ Move(t, "Starting", "Running")

ObserveSuccess(t) == t \in succeeded /\ Move(t, "Running", "ScalingUp")

ObserveFailure(t) == Move(t, "Running", "Failed")

FinishScaleUp(t) == Move(t, "ScalingUp", "Completed")

Remove(t) == /\ phase[t] \in {"Unset", "Completed", "Failed"}
             /\ phase' = [phase EXCEPT ![t] = "Gone"]
             /\ UNCHANGED <<launched, succeeded>>

Next == \E t \in Tasks :
          \/ Create(t)
          \/ BeginScaleDown(t)
          \/ FinishScaleDown(t)
          \/ Launch(t)
          \/ JobSucceeds(t)
          \/ ObserveRunning(t)
          \/ ObserveSuccess(t)
          \/ ObserveFailure(t)
          \/ FinishScaleUp(t)
          \/ Remove(t)

Spec == Init /\ [][Next]_lifecycleVars

-----------------------------------------------------------------------------
(* What a reader of a Task's state may conclude from it: a Task whose work  *)
(* has started reports Running only after a launch, and reports ScalingUp   *)
(* or Completed only if one of its own Jobs really succeeded (the states    *)
(* JobToTaskStatus and CheckTaskScaleUp assign).                            *)
StateIsTruthful ==
  \A t \in Tasks :
    /\ phase[t] = "Running" => t \in launched
    /\ phase[t] \in {"ScalingUp", "Completed"} => t \in succeeded
=============================================================================
