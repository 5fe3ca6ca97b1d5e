------------------------ MODULE TaskLifecycle_proofs ------------------------
(***************************************************************************)
(* Proofs about the Task contract.  StateIsTruthful is not inductive alone *)
(* for want of types only: the state of a Task and the histories it is     *)
(* compared with are changed by the same actions.                          *)
(***************************************************************************)
EXTENDS TaskLifecycle, TLAPS

TruthInv == TypeOK /\ StateIsTruthful

LEMMA MoveTruthful ==
  ASSUME TruthInv, NEW t \in Tasks, NEW from, NEW to \in Phases, Move(t, from, to),
         to = "Running" => t \in launched,
         to \in {"ScalingUp", "Completed"} => t \in succeeded
  PROVE  TruthInv'
<1>1. phase' \in [Tasks -> Phases] /\ UNCHANGED <<launched, succeeded>>
  BY DEF TruthInv, TypeOK, Move
<1>2. \A u \in Tasks \ {t} : phase'[u] = phase[u]
  BY DEF TruthInv, TypeOK, Move
<1>3. phase'[t] = to
  BY DEF TruthInv, TypeOK, Move
<1> QED BY <1>1, <1>2, <1>3 DEF TruthInv, TypeOK, StateIsTruthful

(* The state of a Task never claims more than has happened.                 *)
THEOREM TruthHolds == Spec => []StateIsTruthful
<1>1. Init => TruthInv
  BY DEF Init, TruthInv, TypeOK, StateIsTruthful, Phases
<1>2. TruthInv /\ [Next]_lifecycleVars => TruthInv'
  <2> SUFFICES ASSUME TruthInv, [Next]_lifecycleVars PROVE TruthInv'
    OBVIOUS
  <2>1. CASE UNCHANGED lifecycleVars
    BY <2>1 DEF lifecycleVars, TruthInv, TypeOK, StateIsTruthful
  <2>2. ASSUME NEW t \in Tasks, Create(t) \/ BeginScaleDown(t) \/ FinishScaleDown(t)
        PROVE  TruthInv'
    <3>1. \E from \in Phases, to \in Phases \ {"Running", "ScalingUp", "Completed"} : Move(t, from, to)
      BY <2>2 DEF Create, BeginScaleDown, FinishScaleDown, Phases
    <3> QED BY <3>1, MoveTruthful
  <2>3. ASSUME NEW t \in Tasks, ObserveRunning(t)
        PROVE  TruthInv'
    BY <2>3, MoveTruthful DEF ObserveRunning, Phases
  <2>4. ASSUME NEW t \in Tasks, ObserveSuccess(t)
        PROVE  TruthInv'
    BY <2>4, MoveTruthful DEF ObserveSuccess, Phases
  <2>5. ASSUME NEW t \in Tasks, ObserveFailure(t)
        PROVE  TruthInv'
    BY <2>5, MoveTruthful DEF ObserveFailure, Phases
  <2>6. ASSUME NEW t \in Tasks, FinishScaleUp(t)
        PROVE  TruthInv'
    <3>1. Move(t, "ScalingUp", "Completed") /\ t \in succeeded
      BY <2>6 DEF FinishScaleUp, Move, TruthInv, StateIsTruthful
    <3> QED BY <3>1, MoveTruthful DEF Phases
  <2>7. ASSUME NEW t \in Tasks, Launch(t) \/ JobSucceeds(t)
        PROVE  TruthInv'
    BY <2>7 DEF Launch, JobSucceeds, TruthInv, TypeOK, StateIsTruthful
  <2>8. ASSUME NEW t \in Tasks, Remove(t)
        PROVE  TruthInv'
    BY <2>8 DEF Remove, TruthInv, TypeOK, StateIsTruthful, Phases
  <2> QED BY <2>1, <2>2, <2>3, <2>4, <2>5, <2>6, <2>7, <2>8 DEF Next
<1>3. TruthInv => StateIsTruthful
  BY DEF TruthInv
<1> QED BY <1>1, <1>2, <1>3, PTL DEF Spec
=============================================================================
