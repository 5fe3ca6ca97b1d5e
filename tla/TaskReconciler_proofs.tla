----------------------- MODULE TaskReconciler_proofs -----------------------
(***************************************************************************)
(* Theorems about TaskReconciler, for every number of Tasks and workloads, *)
(* every choice of faults and every bound on them, in three parts: copies  *)
(* of Tasks and what the controller promises about states; the Jobs of     *)
(* Tasks; and scaling, for a Task that is alone with its PVC.              *)
(***************************************************************************)
EXTENDS TaskReconciler, TLAPS

LEMMA BlankType == Blank \in TaskRecord
BY DEF Blank, TaskRecord, NoSizes, NoSize, States

(* What the API server stores is a Task, one version on if it changed.      *)
LEMMA StoredType ==
  ASSUME NEW old \in TaskRecord, NEW o \in TaskRecord
  PROVE  /\ Stored(old, o) \in TaskRecord
         /\ Stored(old, o) # old => Stored(old, o).rv = old.rv + 1
<1>1. old.rv + 1 \in Nat /\ old.rv \in Nat
  BY DEF TaskRecord
<1>2. [Blank EXCEPT !.rv = old.rv + 1] \in TaskRecord
  BY <1>1, BlankType DEF TaskRecord
<1>3. [o EXCEPT !.rv = old.rv + 1] \in TaskRecord
  BY <1>1 DEF TaskRecord
<1>4. [Blank EXCEPT !.rv = old.rv + 1].rv = old.rv + 1
  BY DEF Blank
<1>5. [o EXCEPT !.rv = old.rv + 1].rv = old.rv + 1
  BY DEF TaskRecord
<1> QED BY <1>2, <1>3, <1>4, <1>5 DEF Stored

-----------------------------------------------------------------------------
(* Type correctness. *)

USE DEF apiVars, jobVars, clusterVars, workerVars

FaultsOK == faults \in Seq(FaultKinds) /\ Len(faults) <= MaxFaults

LEMMA ChargeType ==
  ASSUME NEW kind, NEW bad \in BOOLEAN, FaultsOK, Charge(kind, bad)
  PROVE  FaultsOK'
BY FaultAssumption DEF Charge, FaultsOK

LEMMA TypeInit == Init => TypeOK
<1> SUFFICES ASSUME Init PROVE TypeOK
  OBVIOUS
<1>1. tasks \in [Tasks -> TaskRecord] /\ cache \in [Tasks -> TaskRecord] /\ obj \in TaskRecord
  BY BlankType DEF Init
<1>2. jobs \in [Tasks -> JobStates] /\ jobCache \in [Tasks -> JobStates]
  BY DEF Init, JobStates
<1>3. launches \in [Tasks -> Nat] /\ succeeded \in SUBSET Tasks
  BY DEF Init
<1>4. replicas \in [Workloads -> Nat]
  BY DesiredAssumption DEF Init
<1>5. pods \in [Workloads -> PodPhases]
  BY ChoiceAssumption DEF Init
<1>6. pc = "idle" /\ cur = NoTask /\ todo \in SUBSET Workloads /\ scaled \in BOOLEAN
  BY DEF Init
<1>7. FaultsOK
  BY FaultAssumption DEF Init, FaultsOK
<1> QED BY <1>1, <1>2, <1>3, <1>4, <1>5, <1>6, <1>7 DEF FaultsOK, TypeOK

(* A step of the worker that ends the reconcile, whatever it wrote before.  *)
LEMMA IdleType ==
  ASSUME Idle
  PROVE  /\ pc' = "idle" /\ cur' = NoTask /\ obj' \in TaskRecord
         /\ todo' \in SUBSET Workloads /\ scaled' \in BOOLEAN
BY BlankType DEF Idle

LEMMA ToStatusType ==
  ASSUME TypeOK, pc # "idle", NEW o \in TaskRecord, ToStatus(o)
  PROVE  /\ pc' = "status" /\ cur' \in Tasks /\ obj' \in TaskRecord
         /\ todo' \in SUBSET Workloads /\ scaled' \in BOOLEAN
BY DEF ToStatus, TypeOK

LEMMA UpdateType ==
  ASSUME TypeOK, pc # "idle", NEW o \in TaskRecord, UpdateAndReturn(o)
  PROVE  TypeOK'
<1>1. cur \in Tasks /\ tasks[cur] \in TaskRecord
  BY DEF TypeOK
<1>2. tasks' \in [Tasks -> TaskRecord]
  BY <1>1, StoredType DEF UpdateAndReturn, TypeOK
<1> QED BY <1>2, IdleType DEF UpdateAndReturn, TypeOK

LEMMA TypeStep == TypeOK /\ [Next]_vars => TypeOK'
<1> SUFFICES ASSUME TypeOK, [Next]_vars PROVE TypeOK'
  OBVIOUS
<1>0. pc # "idle" => cur \in Tasks /\ tasks[cur] \in TaskRecord
  BY DEF TypeOK
<1>1. CASE RemoveFinalizerIfConditionMet
  <2>1. [obj EXCEPT !.finalizer = FALSE] \in TaskRecord
    BY DEF TypeOK, TaskRecord
  <2> QED BY <1>1, <2>1, UpdateType DEF RemoveFinalizerIfConditionMet
<1>2. CASE InitResourceIfConditionMet
  <2>1. [obj EXCEPT !.finalizer = TRUE] \in TaskRecord
    BY DEF TypeOK, TaskRecord
  <2> QED BY <1>2, <2>1, UpdateType DEF InitResourceIfConditionMet
<1>3. CASE InitTask
  <2>1. [obj EXCEPT !.state = "ScalingDown"] \in TaskRecord
    BY DEF TypeOK, TaskRecord, States
  <2> QED BY <1>3, <2>1, ToStatusType DEF InitTask, TypeOK
<1>4. CASE SkipScaleDown
  <2>1. [obj EXCEPT !.state = "Starting"] \in TaskRecord
    BY DEF TypeOK, TaskRecord, States
  <2> QED BY <1>4, <2>1, ToStatusType DEF SkipScaleDown, TypeOK
<1>5. CASE RecordSizes
  <2>1. PICK found \in SUBSET Mounting :
          /\ Charge("lookup", found # Mounting)
          /\ \/ /\ found = {}
                /\ ToStatus([obj EXCEPT !.state = "Starting"])
                /\ UNCHANGED tasks
             \/ /\ found # {} /\ Fresh
                /\ LET o == Stored(tasks[cur], [obj EXCEPT !.orig = Recorded(found)]) IN
                     /\ tasks' = [tasks EXCEPT ![cur] = o]
                     /\ obj' = o
                /\ pc' = "scaleDown" /\ todo' = found
                /\ UNCHANGED <<cur, scaled>>
             \/ /\ found # {} /\ ~Fresh
                /\ Idle
                /\ UNCHANGED tasks
    BY <1>5 DEF RecordSizes
  <2>2. FaultsOK'
    BY <2>1, ChargeType DEF FaultsOK, TypeOK
  <2>3. pc = "fetched" /\ UNCHANGED <<cache, jobVars, clusterVars>>
    BY <1>5 DEF RecordSizes
  <2>4. CASE found = {}
    <3>1. [obj EXCEPT !.state = "Starting"] \in TaskRecord
      BY DEF TypeOK, TaskRecord, States
    <3> QED BY <2>1, <2>2, <2>3, <2>4, <3>1, ToStatusType DEF FaultsOK, TypeOK
  <2>5. CASE found # {} /\ Fresh
    <3>1. Recorded(found) \in [Workloads -> Nat \cup {NoSize}]
      BY DEF Recorded, TypeOK
    <3>2. [obj EXCEPT !.orig = Recorded(found)] \in TaskRecord
      BY <3>1 DEF TypeOK, TaskRecord
    <3>3. Stored(tasks[cur], [obj EXCEPT !.orig = Recorded(found)]) \in TaskRecord
      BY <1>0, <2>3, <3>2, StoredType
    <3>4. found \in SUBSET Workloads
      BY DEF Mounting
    <3> QED BY <1>0, <2>1, <2>2, <2>3, <2>5, <3>3, <3>4 DEF FaultsOK, TypeOK
  <2>6. CASE found # {} /\ ~Fresh
    BY <2>1, <2>2, <2>3, <2>6, IdleType DEF FaultsOK, TypeOK
  <2> QED BY <2>4, <2>5, <2>6
<1>6. ASSUME NEW w \in Workloads, PatchDown(w)
      PROVE  TypeOK'
  BY <1>6, ChargeType DEF FaultsOK, PatchDown, TypeOK
<1>7. CASE MarkScaledDown
  <2>1. [obj EXCEPT !.downAt = TRUE] \in TaskRecord
    BY DEF TypeOK, TaskRecord
  <2> QED BY <1>7, <2>1, ToStatusType DEF MarkScaledDown, TypeOK
<1>8. CASE AwaitScaleDown
  <2>1. PICK found \in SUBSET Mounting :
          /\ Charge("lookup", found # Mounting)
          /\ ToStatus(IF DownComplete(found) THEN [obj EXCEPT !.state = "Starting"] ELSE obj)
    BY <1>8 DEF AwaitScaleDown
  <2>2. (IF DownComplete(found) THEN [obj EXCEPT !.state = "Starting"] ELSE obj) \in TaskRecord
    BY DEF TypeOK, TaskRecord, States
  <2>3. FaultsOK'
    BY <2>1, ChargeType DEF FaultsOK, TypeOK
  <2>4. pc = "fetched" /\ UNCHANGED <<apiVars, jobVars, clusterVars>>
    BY <1>8 DEF AwaitScaleDown
  <2> QED BY <2>1, <2>2, <2>3, <2>4, ToStatusType DEF FaultsOK, TypeOK
<1>9. CASE Start
  <2>1. [obj EXCEPT !.state = "Running"] \in TaskRecord
    BY DEF TypeOK, TaskRecord, States
  <2>2. jobs' \in [Tasks -> JobStates] /\ launches' \in [Tasks -> Nat]
    BY <1>0, <1>9 DEF Start, TypeOK, JobStates
  <2>3. /\ pc' \in {"idle", "status"}
        /\ cur' \in (IF pc' = "idle" THEN {NoTask} ELSE Tasks)
        /\ obj' \in TaskRecord /\ todo' \in SUBSET Workloads /\ scaled' \in BOOLEAN
    BY <1>9, <2>1, ToStatusType, IdleType DEF Start
  <2>4. UNCHANGED <<apiVars, jobCache, succeeded, clusterVars, faults>>
    BY <1>9 DEF Start
  <2> QED BY <2>2, <2>3, <2>4 DEF TypeOK
<1>10. CASE UpdateTaskStatus
  <2>1. Verdict(jobCache[cur]) \in States
    BY <1>0, <1>10 DEF UpdateTaskStatus, TypeOK, JobStates, Verdict, States
  <2>2. [obj EXCEPT !.state = Verdict(jobCache[cur])] \in TaskRecord
    BY <2>1 DEF TypeOK, TaskRecord
  <2> QED BY <1>10, <2>2, ToStatusType, ChargeType DEF FaultsOK, UpdateTaskStatus, TypeOK
<1>11. CASE SkipScaleUp
  <2>1. [obj EXCEPT !.state = "Completed"] \in TaskRecord
    BY DEF TypeOK, TaskRecord, States
  <2> QED BY <1>11, <2>1, ToStatusType DEF SkipScaleUp, TypeOK
<1>12. CASE BeginScaleUp
  BY <1>12 DEF BeginScaleUp, ToWake, TypeOK
<1>13. ASSUME NEW w \in Workloads, PatchUp(w)
       PROVE  TypeOK'
  <2>1. obj.orig[w] \in Nat
    BY <1>13 DEF PatchUp, ToWake, TypeOK, TaskRecord
  <2>2. PICK refused \in BOOLEAN :
          /\ Charge("patchUp", refused)
          /\ replicas' = IF refused THEN replicas ELSE [replicas EXCEPT ![w] = obj.orig[w]]
          /\ scaled' = (scaled \/ ~refused)
    BY <1>13 DEF PatchUp
  <2>3. FaultsOK'
    BY <2>2, ChargeType DEF FaultsOK, TypeOK
  <2>4. replicas' \in [Workloads -> Nat] /\ scaled' \in BOOLEAN
    BY <2>1, <2>2 DEF TypeOK
  <2> QED BY <1>13, <2>3, <2>4 DEF FaultsOK, PatchUp, TypeOK, ToWake
<1>14. CASE ForgetSizes
  <2>1. CASE Fresh
    <3> DEFINE o == Stored(tasks[cur], [obj EXCEPT !.orig = NoSizes])
    <3>1. [obj EXCEPT !.orig = NoSizes] \in TaskRecord
      BY DEF TypeOK, TaskRecord, NoSizes
    <3>2. o \in TaskRecord
      BY <1>0, <1>14, <3>1, StoredType DEF ForgetSizes
    <3>3. (IF scaled THEN [o EXCEPT !.upAt = TRUE] ELSE [o EXCEPT !.state = "Completed"])
            \in TaskRecord
      BY <3>2 DEF TaskRecord, States
    <3>4. /\ tasks' = [tasks EXCEPT ![cur] = o]
          /\ ToStatus(IF scaled THEN [o EXCEPT !.upAt = TRUE]
                                ELSE [o EXCEPT !.state = "Completed"])
          /\ pc # "idle" /\ UNCHANGED <<cache, jobVars, clusterVars, faults>>
      BY <1>14, <2>1 DEF ForgetSizes
    <3> HIDE DEF o
    <3> QED BY <3>2, <3>3, <3>4, ToStatusType DEF TypeOK
  <2>2. CASE ~Fresh
    BY <1>14, <2>2, IdleType DEF ForgetSizes, TypeOK
  <2> QED BY <2>1, <2>2
<1>15. CASE AwaitScaleUp
  <2>1. (IF UpComplete(Mounting, obj) THEN [obj EXCEPT !.state = "Completed"] ELSE obj)
          \in TaskRecord
    BY DEF TypeOK, TaskRecord, States
  <2> QED BY <1>15, <2>1, ToStatusType DEF AwaitScaleUp, TypeOK
<1>16. CASE WriteStatus
  <2>1. [tasks[cur] EXCEPT !.state = obj.state, !.downAt = obj.downAt, !.upAt = obj.upAt]
          \in TaskRecord
    BY <1>0, <1>16 DEF WriteStatus, TypeOK, TaskRecord
  <2> QED BY <1>16, <2>1, UpdateType DEF WriteStatus
<1>17. CASE NothingToDo
  BY <1>17, IdleType DEF NothingToDo, TypeOK
<1>18. CASE Abort
  BY <1>18, IdleType, ChargeType DEF FaultsOK, Abort, TypeOK
<1>19. ASSUME NEW t \in Tasks, Fetch(t)
       PROVE  TypeOK'
  BY <1>19, ChargeType DEF FaultsOK, Fetch, TypeOK
<1>20. ASSUME NEW t \in Tasks, Create(t)
       PROVE  TypeOK'
  <2>1. PICK stop \in BOOLEAN, valid \in BOOLEAN :
          tasks' = [tasks EXCEPT ![t] = [Blank EXCEPT !.exists = TRUE, !.rv = 1,
                                                      !.stopPods = stop, !.valid = valid]]
    BY <1>20, ChoiceAssumption DEF Create
  <2>2. [Blank EXCEPT !.exists = TRUE, !.rv = 1, !.stopPods = stop, !.valid = valid]
          \in TaskRecord
    BY BlankType DEF TaskRecord
  <2> QED BY <1>20, <2>1, <2>2 DEF Create, TypeOK, ToWake
<1>21. ASSUME NEW t \in Tasks, UserDelete(t)
       PROVE  TypeOK'
  <2>1. tasks[t] \in TaskRecord /\ [tasks[t] EXCEPT !.deleting = TRUE] \in TaskRecord
    BY DEF TypeOK, TaskRecord
  <2>2. Stored(tasks[t], [tasks[t] EXCEPT !.deleting = TRUE]) \in TaskRecord
    BY <2>1, StoredType
  <2> QED BY <1>21, <2>2 DEF UserDelete, TypeOK, ToWake
<1>22. ASSUME NEW t \in Tasks, SyncTask(t)
       PROVE  TypeOK'
  BY <1>22 DEF SyncTask, TypeOK, ToWake
<1>23. ASSUME NEW t \in Tasks, SyncJob(t)
       PROVE  TypeOK'
  BY <1>23 DEF SyncJob, TypeOK, ToWake
<1>24. ASSUME NEW t \in Tasks, FinishJob(t)
       PROVE  TypeOK'
  BY <1>24, ChoiceAssumption DEF FinishJob, TypeOK, JobStates, ToWake
<1>25. ASSUME NEW t \in Tasks, ExpireJob(t)
       PROVE  TypeOK'
  <2>1. FaultsOK'
    BY <1>25, FaultAssumption DEF ExpireJob, Charge, FaultsOK, TypeOK
  <2>2. jobs' \in [Tasks -> JobStates]
    BY <1>25 DEF ExpireJob, TypeOK, JobStates
  <2> QED BY <1>25, <2>1, <2>2 DEF FaultsOK, ExpireJob, TypeOK, ToWake
<1>26. ASSUME NEW w \in Workloads, PodStep(w)
       PROVE  TypeOK'
  BY <1>26 DEF PodStep, TypeOK, PodPhases, ToWake
<1>27. CASE UNCHANGED vars
  BY <1>27 DEF vars, TypeOK, ToWake
<1> QED
  BY <1>1, <1>2, <1>3, <1>4, <1>5, <1>6, <1>7, <1>8, <1>9, <1>10, <1>11, <1>12, <1>13, <1>14,
     <1>15, <1>16, <1>17, <1>18, <1>19, <1>20, <1>21, <1>22, <1>23, <1>24, <1>25, <1>26, <1>27
     DEF Next, WorkerStep

(* Every variable keeps its type, whatever faults happen.                   *)
THEOREM TypeCorrect == Spec => []TypeOK
<1> QED BY TypeInit, TypeStep, PTL DEF Spec

-----------------------------------------------------------------------------
(* The lifecycle invariant. *)

(* What is stored is guarded if what is written is, and keeps what the      *)
(* writer did not change.                                                   *)
LEMMA StoredGuarded ==
  ASSUME NEW old \in TaskRecord, NEW o \in TaskRecord, Guarded(o),
         old.exists => old.rv > 0
  PROVE  /\ Guarded(Stored(old, o))
         /\ Stored(old, o).exists => Stored(old, o).rv > 0
<1>1. CASE o = old
  BY <1>1 DEF Stored
<1>2. CASE o # old /\ o.deleting /\ ~o.finalizer
  <2>1. Stored(old, o).exists = FALSE
    BY <1>2 DEF Stored, Blank
  <2> QED BY <2>1 DEF Guarded
<1>3. CASE o # old /\ ~(o.deleting /\ ~o.finalizer)
  <2>1. Stored(old, o) = [o EXCEPT !.rv = old.rv + 1]
    BY <1>3 DEF Stored
  <2>2. [o EXCEPT !.rv = old.rv + 1].rv > 0
    BY DEF TaskRecord
  <2>3. Guarded([o EXCEPT !.rv = old.rv + 1])
    BY DEF TaskRecord, Guarded, IsFinished
  <2> QED BY <2>1, <2>2, <2>3
<1> QED BY <1>1, <1>2, <1>3

LEMMA StoredKept ==
  ASSUME NEW old \in TaskRecord, NEW o \in TaskRecord, o.finalizer
  PROVE  /\ Stored(old, o).exists = o.exists
         /\ Stored(old, o).state = o.state
         /\ Stored(old, o).finalizer
<1>1. Stored(old, o) = o \/ Stored(old, o) = [o EXCEPT !.rv = old.rv + 1]
  BY DEF Stored
<1> QED BY <1>1 DEF TaskRecord

(* A write of one Task keeps the cached copies versions of it.              *)
LEMMA WriteKeepsVersions ==
  ASSUME TypeOK, CopiesAreVersions, NEW t \in Tasks, NEW r \in TaskRecord,
         r # tasks[t] => r.rv = tasks[t].rv + 1,
         tasks' = [tasks EXCEPT ![t] = r], cache' = cache
  PROVE  \A u \in Tasks : /\ cache'[u].rv <= tasks'[u].rv
                          /\ cache'[u].rv = tasks'[u].rv => cache'[u] = tasks'[u]
<1> SUFFICES ASSUME NEW u \in Tasks
             PROVE  /\ cache[u].rv <= tasks'[u].rv
                    /\ cache[u].rv = tasks'[u].rv => cache[u] = tasks'[u]
  OBVIOUS
<1>1. cache[u].rv \in Nat /\ tasks[u].rv \in Nat
  BY DEF TypeOK, TaskRecord
<1>2. CASE u = t /\ r # tasks[t]
  <2>1. tasks'[u].rv = tasks[u].rv + 1
    BY <1>2 DEF TypeOK
  <2> QED BY <1>1, <2>1 DEF CopiesAreVersions
<1>3. CASE u # t \/ r = tasks[t]
  <2>1. tasks'[u] = tasks[u]
    BY <1>3 DEF TypeOK
  <2> QED BY <2>1 DEF CopiesAreVersions
<1> QED BY <1>2, <1>3

(* The worker ends its reconcile and nothing else happens to the Tasks.     *)
LEMMA ReturnStep ==
  ASSUME LifecycleInv, TypeOK', Idle, UNCHANGED <<tasks, cache>>, HistoryAgrees'
  PROVE  LifecycleInv'
<1>1. CopiesAreVersions'
  BY DEF LifecycleInv, CopiesAreVersions, Idle
<1>2. WorkIsGuarded' /\ CopiesAreGuarded'
  BY DEF LifecycleInv, WorkIsGuarded, CopiesAreGuarded, Guarded, IsFinished, Idle
<1>3. WorkerOnTrack'
  BY DEF WorkerOnTrack, Idle
<1> QED BY <1>1, <1>2, <1>3 DEF LifecycleInv

(* The worker updates its Task with a guarded object and ends.              *)
LEMMA UpdateStep ==
  ASSUME LifecycleInv, TypeOK', pc # "idle", NEW o \in TaskRecord,
         Fresh => Guarded(o), UpdateAndReturn(o)
  PROVE  LifecycleInv'
<1>1. Idle /\ UNCHANGED <<cache, jobVars>>
  BY DEF UpdateAndReturn
<1>2. HistoryAgrees'
  BY <1>1 DEF LifecycleInv, HistoryAgrees
<1>3. CASE ~Fresh
  <2>1. UNCHANGED tasks
    BY <1>3 DEF UpdateAndReturn
  <2> QED BY <1>1, <1>2, <2>1, ReturnStep
<1>4. CASE Fresh
  <2> DEFINE r == Stored(tasks[cur], o)
  <2>1. cur \in Tasks /\ tasks[cur] \in TaskRecord /\ (tasks[cur].exists => tasks[cur].rv > 0)
    BY DEF LifecycleInv, TypeOK, CopiesAreGuarded
  <2>2. r \in TaskRecord /\ (r # tasks[cur] => r.rv = tasks[cur].rv + 1)
    BY <2>1, StoredType
  <2>3. Guarded(r) /\ (r.exists => r.rv > 0)
    BY <1>4, <2>1, StoredGuarded
  <2>4. tasks' = [tasks EXCEPT ![cur] = r]
    BY <1>4 DEF UpdateAndReturn
  <2> HIDE DEF r
  <2>5. CopiesAreVersions'
    <3>1. \A u \in Tasks : /\ cache'[u].rv <= tasks'[u].rv
                           /\ cache'[u].rv = tasks'[u].rv => cache'[u] = tasks'[u]
      BY <1>1, <2>1, <2>2, <2>4, WriteKeepsVersions DEF LifecycleInv
    <3> QED BY <1>1, <3>1 DEF CopiesAreVersions, Idle
  <2>6. \A u \in Tasks : Guarded(tasks'[u]) /\ (tasks'[u].exists => tasks'[u].rv > 0)
    BY <2>1, <2>3, <2>4 DEF LifecycleInv, WorkIsGuarded, CopiesAreGuarded, TypeOK
  <2>7. WorkIsGuarded' /\ CopiesAreGuarded'
    BY <1>1, <2>6 DEF LifecycleInv, WorkIsGuarded, CopiesAreGuarded, Guarded, IsFinished, Idle
  <2>8. WorkerOnTrack'
    BY <1>1 DEF WorkerOnTrack, Idle
  <2> QED BY <1>2, <2>5, <2>7, <2>8 DEF LifecycleInv
<1> QED BY <1>3, <1>4

(* A stage sets fields of the status of the copy it was given.              *)
LEMMA StatusStep ==
  ASSUME LifecycleInv, TypeOK', pc # "idle", NEW o \in TaskRecord, ToStatus(o),
         UNCHANGED <<tasks, cache>>, HistoryAgrees', SameButStatus(o, obj), Guarded(o),
         Fresh => Successor(cur, tasks[cur].state, o.state)'
  PROVE  LifecycleInv'
<1>1. cur' = cur /\ cur \in Tasks /\ obj' = o /\ pc' = "status"
  BY DEF ToStatus, LifecycleInv, TypeOK
<1>2. o.rv = obj.rv /\ o.exists = obj.exists
  BY DEF SameButStatus, LifecycleInv, TypeOK, TaskRecord
<1>3. Fresh' <=> Fresh
  BY <1>1, <1>2 DEF Fresh
<1>4. CopiesAreVersions'
  <2>1. obj'.rv <= tasks'[cur'].rv
    BY <1>1, <1>2 DEF LifecycleInv, CopiesAreVersions
  <2>2. Fresh' => SameButStatus(obj', tasks'[cur'])
    <3> SUFFICES ASSUME Fresh PROVE SameButStatus(o, tasks[cur])
      BY <1>1, <1>3
    <3>1. SameButStatus(obj, tasks[cur]) /\ obj \in TaskRecord /\ tasks[cur] \in TaskRecord
      BY <1>1 DEF LifecycleInv, CopiesAreVersions, TypeOK
    <3> QED BY <3>1 DEF SameButStatus, TaskRecord
  <2> QED BY <1>1, <2>1, <2>2 DEF LifecycleInv, CopiesAreVersions
<1>5. WorkIsGuarded' /\ CopiesAreGuarded'
  BY <1>1, <1>2 DEF LifecycleInv, WorkIsGuarded, CopiesAreGuarded, Guarded, IsFinished
<1>6. WorkerOnTrack'
  BY <1>1, <1>3 DEF WorkerOnTrack, Successor
<1> QED BY <1>4, <1>5, <1>6 DEF LifecycleInv

(* The worker writes its Task and keeps working on the object it got back:  *)
(* first as it is, then with a status to be written.                        *)
LEMMA HeldWrite ==
  ASSUME LifecycleInv, TypeOK', pc # "idle", NEW r \in TaskRecord,
         r # tasks[cur] => r.rv = tasks[cur].rv + 1, Guarded(r), r.exists, r.rv > 0,
         tasks' = [tasks EXCEPT ![cur] = r], cache' = cache, HistoryAgrees',
         obj' = r, cur' = cur, pc' = "scaleDown", r.state = "ScalingDown"
  PROVE  LifecycleInv'
<1>1. cur \in Tasks /\ tasks'[cur] = r /\ r.rv \in Nat
  BY DEF LifecycleInv, TypeOK, TaskRecord
<1>2. CopiesAreVersions'
  <2>1. \A u \in Tasks : /\ cache'[u].rv <= tasks'[u].rv
                         /\ cache'[u].rv = tasks'[u].rv => cache'[u] = tasks'[u]
    BY <1>1, WriteKeepsVersions DEF LifecycleInv
  <2>2. SameButStatus(r, r)
    BY DEF SameButStatus, TaskRecord
  <2> QED BY <1>1, <2>1, <2>2 DEF CopiesAreVersions, Fresh
<1>3. \A u \in Tasks : Guarded(tasks'[u]) /\ (tasks'[u].exists => tasks'[u].rv > 0)
  BY <1>1 DEF LifecycleInv, WorkIsGuarded, CopiesAreGuarded, TypeOK
<1>4. WorkIsGuarded' /\ CopiesAreGuarded'
  BY <1>3 DEF LifecycleInv, WorkIsGuarded, CopiesAreGuarded, Guarded, IsFinished
<1>5. WorkerOnTrack'
  BY DEF WorkerOnTrack
<1> QED BY <1>2, <1>4, <1>5 DEF LifecycleInv

LEMMA HeldStatus ==
  ASSUME LifecycleInv, TypeOK', pc # "idle", NEW r \in TaskRecord,
         r # tasks[cur] => r.rv = tasks[cur].rv + 1, Guarded(r), r.exists, r.rv > 0,
         tasks' = [tasks EXCEPT ![cur] = r], cache' = cache, HistoryAgrees',
         NEW o \in TaskRecord, SameButStatus(o, r), o.rv = r.rv, o.exists, Guarded(o),
         ToStatus(o), Successor(cur, r.state, o.state)'
  PROVE  LifecycleInv'
<1>1. cur \in Tasks /\ tasks'[cur] = r /\ r.rv \in Nat
  BY DEF LifecycleInv, TypeOK, TaskRecord
<1>2. cur' = cur /\ obj' = o /\ pc' = "status"
  BY DEF ToStatus
<1>3. CopiesAreVersions'
  <2>1. \A u \in Tasks : /\ cache'[u].rv <= tasks'[u].rv
                         /\ cache'[u].rv = tasks'[u].rv => cache'[u] = tasks'[u]
    BY <1>1, WriteKeepsVersions DEF LifecycleInv
  <2> QED BY <1>1, <1>2, <2>1 DEF CopiesAreVersions, Fresh
<1>4. \A u \in Tasks : Guarded(tasks'[u]) /\ (tasks'[u].exists => tasks'[u].rv > 0)
  BY <1>1 DEF LifecycleInv, WorkIsGuarded, CopiesAreGuarded, TypeOK
<1>5. WorkIsGuarded' /\ CopiesAreGuarded'
  BY <1>2, <1>4 DEF LifecycleInv, WorkIsGuarded, CopiesAreGuarded, Guarded, IsFinished
<1>6. WorkerOnTrack'
  BY <1>1, <1>2 DEF WorkerOnTrack, Successor
<1> QED BY <1>3, <1>5, <1>6 DEF LifecycleInv

(* The worker goes on with the copy it holds, in the same phase of its      *)
(* work, without touching the Tasks.                                        *)
LEMMA SameTaskStep ==
  ASSUME LifecycleInv, TypeOK', pc # "idle", pc # "status",
         UNCHANGED <<tasks, cache, cur, obj>>, HistoryAgrees',
         \/ pc' = pc
         \/ pc' = "scaleUp" /\ obj.state = "ScalingUp"
  PROVE  LifecycleInv'
<1>1. CopiesAreVersions' /\ WorkIsGuarded' /\ CopiesAreGuarded'
  BY DEF LifecycleInv, CopiesAreVersions, Fresh, SameButStatus, WorkIsGuarded,
         CopiesAreGuarded, Guarded, IsFinished
<1>2. WorkerOnTrack'
  BY DEF LifecycleInv, WorkerOnTrack
<1> QED BY <1>1, <1>2 DEF LifecycleInv

LEMMA LifecycleInit == Init => LifecycleInv
<1> SUFFICES ASSUME Init PROVE LifecycleInv
  OBVIOUS
<1>1. TypeOK
  BY TypeInit
<1>2. CopiesAreVersions
  BY BlankType DEF Init, CopiesAreVersions, TaskRecord
<1>3. WorkIsGuarded /\ CopiesAreGuarded
  BY DEF Init, WorkIsGuarded, CopiesAreGuarded, Guarded, Blank
<1>4. HistoryAgrees
  BY DEF Init, HistoryAgrees
<1>5. WorkerOnTrack
  BY DEF Init, WorkerOnTrack
<1> QED BY <1>1, <1>2, <1>3, <1>4, <1>5 DEF LifecycleInv

(* Steps of the rest of the cluster that write one Task.                    *)
LEMMA OutsideWrite ==
  ASSUME LifecycleInv, TypeOK', NEW t \in Tasks, NEW r \in TaskRecord,
         r # tasks[t] => r.rv = tasks[t].rv + 1, Guarded(r), r.exists => r.rv > 0,
         tasks' = [tasks EXCEPT ![t] = r],
         UNCHANGED <<cache, jobVars, workerVars>>
  PROVE  LifecycleInv'
<1>1. \A u \in Tasks : /\ cache'[u].rv <= tasks'[u].rv
                       /\ cache'[u].rv = tasks'[u].rv => cache'[u] = tasks'[u]
  BY WriteKeepsVersions DEF LifecycleInv
<1>2. pc # "idle" => cur \in Tasks /\ obj.rv \in Nat /\ tasks[cur].rv \in Nat
  BY DEF LifecycleInv, TypeOK, TaskRecord
<1>3. pc # "idle" => \/ tasks'[cur] = tasks[cur]
                     \/ tasks'[cur].rv = tasks[cur].rv + 1
  BY <1>2 DEF LifecycleInv, TypeOK
<1>4. pc # "idle" => /\ obj.rv <= tasks'[cur].rv
                     /\ Fresh' => Fresh /\ tasks'[cur] = tasks[cur]
  BY <1>2, <1>3 DEF LifecycleInv, CopiesAreVersions, Fresh
<1>5. CopiesAreVersions'
  BY <1>1, <1>4 DEF LifecycleInv, CopiesAreVersions, SameButStatus
<1>6. \A u \in Tasks : Guarded(tasks'[u]) /\ (tasks'[u].exists => tasks'[u].rv > 0)
  BY DEF LifecycleInv, WorkIsGuarded, CopiesAreGuarded, TypeOK
<1>7. WorkIsGuarded' /\ CopiesAreGuarded'
  BY <1>6 DEF LifecycleInv, WorkIsGuarded, CopiesAreGuarded, Guarded, IsFinished
<1>8. HistoryAgrees' /\ WorkerOnTrack'
  BY <1>4 DEF LifecycleInv, HistoryAgrees, WorkerOnTrack, Successor
<1> QED BY <1>5, <1>7, <1>8 DEF LifecycleInv

(* Steps that leave the Tasks and the worker alone.                         *)
LEMMA OtherStep ==
  ASSUME LifecycleInv, TypeOK', UNCHANGED <<tasks, cache, workerVars>>, HistoryAgrees',
         \A t \in Tasks : launches'[t] = launches[t], succeeded \subseteq succeeded'
  PROVE  LifecycleInv'
<1>1. CopiesAreVersions' /\ WorkIsGuarded' /\ CopiesAreGuarded'
  BY DEF LifecycleInv, CopiesAreVersions, Fresh, SameButStatus, WorkIsGuarded,
         CopiesAreGuarded, Guarded, IsFinished
<1>2. pc = "status" => cur \in Tasks
  BY DEF LifecycleInv, TypeOK
<1>3. WorkerOnTrack'
  BY <1>2 DEF LifecycleInv, WorkerOnTrack, Fresh, Successor
<1> QED BY <1>1, <1>3 DEF LifecycleInv

LEMMA LifecycleStep == LifecycleInv /\ [Next]_vars => LifecycleInv'
<1> SUFFICES ASSUME LifecycleInv, [Next]_vars PROVE LifecycleInv'
  OBVIOUS
<1> TypeOK /\ TypeOK'
  BY TypeStep DEF LifecycleInv
<1>a. pc # "idle" => /\ cur \in Tasks /\ tasks[cur] \in TaskRecord /\ obj \in TaskRecord
                     /\ obj.exists /\ Guarded(obj)
  BY DEF TypeOK, LifecycleInv, CopiesAreGuarded
<1>b. (pc # "idle" /\ pc # "status" /\ Fresh) => obj = tasks[cur]
  BY DEF LifecycleInv, CopiesAreVersions
<1>c. UNCHANGED jobVars => HistoryAgrees'
  BY DEF LifecycleInv, HistoryAgrees
<1>1. CASE RemoveFinalizerIfConditionMet
  <2>1. [obj EXCEPT !.finalizer = FALSE] \in TaskRecord
    BY DEF TypeOK, TaskRecord
  <2>2. Guarded([obj EXCEPT !.finalizer = FALSE])
    BY <1>1, <1>a DEF RemoveFinalizerIfConditionMet, Guarded, IsFinished, TaskRecord
  <2> QED BY <1>1, <2>1, <2>2, UpdateStep DEF RemoveFinalizerIfConditionMet
<1>2. CASE InitResourceIfConditionMet
  <2>1. [obj EXCEPT !.finalizer = TRUE] \in TaskRecord
    BY DEF TypeOK, TaskRecord
  <2>2. Guarded([obj EXCEPT !.finalizer = TRUE])
    BY <1>2, <1>a DEF InitResourceIfConditionMet, Guarded, TaskRecord
  <2> QED BY <1>2, <2>1, <2>2, UpdateStep DEF InitResourceIfConditionMet
<1>3. CASE InitTask
  <2>0. PICK o : o = [obj EXCEPT !.state = "ScalingDown"]
    OBVIOUS
  <2>1. o \in TaskRecord /\ SameButStatus(o, obj) /\ o.state = "ScalingDown"
    BY <2>0 DEF TypeOK, TaskRecord, States, SameButStatus
  <2>2. Guarded(o)
    BY <2>0, <1>3 DEF InitTask, Guarded, TypeOK, TaskRecord
  <2>3. ToStatus(o) /\ pc = "fetched" /\ obj.state = "Unset"
        /\ UNCHANGED <<tasks, cache>> /\ UNCHANGED jobVars
    BY <2>0, <1>3 DEF InitTask
  <2>4. Fresh => Successor(cur, tasks[cur].state, o.state)'
    BY <1>b, <2>1, <2>3 DEF Successor, ToStatus
  <2> QED BY <1>c, <2>1, <2>2, <2>3, <2>4, StatusStep
<1>4. CASE SkipScaleDown
  <2>0. PICK o : o = [obj EXCEPT !.state = "Starting"]
    OBVIOUS
  <2>1. o \in TaskRecord /\ SameButStatus(o, obj) /\ o.state = "Starting"
    BY <2>0 DEF TypeOK, TaskRecord, States, SameButStatus
  <2>3. ToStatus(o) /\ pc = "fetched" /\ obj.state = "ScalingDown"
        /\ UNCHANGED <<tasks, cache>> /\ UNCHANGED jobVars
    BY <2>0, <1>4 DEF SkipScaleDown
  <2>2. Guarded(o)
    BY <2>0, <1>a, <2>3 DEF Guarded, IsFinished, Finished, TypeOK, TaskRecord
  <2>4. Fresh => Successor(cur, tasks[cur].state, o.state)'
    BY <1>b, <2>1, <2>3 DEF Successor, ToStatus
  <2> QED BY <1>c, <2>1, <2>2, <2>3, <2>4, StatusStep
<1>5. CASE RecordSizes
  <2>1. PICK found \in SUBSET Mounting :
          \/ /\ found = {}
             /\ ToStatus([obj EXCEPT !.state = "Starting"])
             /\ UNCHANGED tasks
          \/ /\ found # {} /\ Fresh
             /\ LET o == Stored(tasks[cur], [obj EXCEPT !.orig = Recorded(found)]) IN
                  /\ tasks' = [tasks EXCEPT ![cur] = o]
                  /\ obj' = o
             /\ pc' = "scaleDown" /\ todo' = found
             /\ UNCHANGED <<cur, scaled>>
          \/ /\ found # {} /\ ~Fresh
             /\ Idle
             /\ UNCHANGED tasks
    BY <1>5 DEF RecordSizes
  <2>2. pc = "fetched" /\ obj.state = "ScalingDown" /\ UNCHANGED cache /\ UNCHANGED jobVars
    BY <1>5 DEF RecordSizes
  <2>3. CASE found = {}
    <3>0. PICK o : o = [obj EXCEPT !.state = "Starting"]
      OBVIOUS
    <3>1. o \in TaskRecord /\ SameButStatus(o, obj) /\ o.state = "Starting"
      BY <3>0 DEF TypeOK, TaskRecord, States, SameButStatus
    <3>2. Guarded(o)
      BY <3>0, <1>a, <2>2 DEF Guarded, IsFinished, Finished, TypeOK, TaskRecord
    <3>3. ToStatus(o) /\ UNCHANGED tasks
      BY <3>0, <2>1, <2>3
    <3>4. Fresh => Successor(cur, tasks[cur].state, o.state)'
      BY <1>b, <2>2, <3>1, <3>3 DEF Successor, ToStatus
    <3> QED BY <1>c, <2>2, <3>1, <3>2, <3>3, <3>4, StatusStep
  <2>4. CASE found # {} /\ Fresh
    <3> DEFINE o == [obj EXCEPT !.orig = Recorded(found)]
               r == Stored(tasks[cur], o)
    <3>1. tasks' = [tasks EXCEPT ![cur] = r] /\ obj' = r /\ pc' = "scaleDown" /\ cur' = cur
      BY <2>1, <2>4
    <3>2. Recorded(found) \in [Workloads -> Nat \cup {NoSize}]
      BY DEF Recorded, TypeOK
    <3>3. o \in TaskRecord
      BY <3>2 DEF TypeOK, TaskRecord
    <3>4. o.finalizer /\ o.exists /\ o.state = "ScalingDown" /\ Guarded(o)
      BY <1>a, <2>2 DEF Guarded, IsFinished, Finished, TaskRecord
    <3> HIDE DEF o
    <3>5. r \in TaskRecord /\ (r # tasks[cur] => r.rv = tasks[cur].rv + 1)
      BY <1>a, <2>2, <3>3, StoredType
    <3>6. r.exists /\ r.state = "ScalingDown" /\ Guarded(r) /\ r.rv > 0
      BY <1>a, <2>2, <3>3, <3>4, StoredKept, StoredGuarded DEF LifecycleInv, CopiesAreGuarded
    <3> HIDE DEF r
    <3> QED BY <1>a, <1>c, <2>2, <3>1, <3>5, <3>6, HeldWrite
  <2>5. CASE found # {} /\ ~Fresh
    BY <1>c, <2>1, <2>2, <2>5, ReturnStep
  <2> QED BY <2>3, <2>4, <2>5
<1>6. ASSUME NEW w \in Workloads, PatchDown(w)
      PROVE  LifecycleInv'
  BY <1>6, <1>c, SameTaskStep DEF PatchDown
<1>7. CASE MarkScaledDown
  <2>0. PICK o : o = [obj EXCEPT !.downAt = TRUE]
    OBVIOUS
  <2>1. o \in TaskRecord /\ SameButStatus(o, obj) /\ o.state = obj.state
    BY <2>0 DEF TypeOK, TaskRecord, States, SameButStatus
  <2>3. ToStatus(o) /\ pc = "scaleDown" /\ UNCHANGED <<tasks, cache>> /\ UNCHANGED jobVars
    BY <2>0, <1>7 DEF MarkScaledDown
  <2>2. Guarded(o)
    BY <2>0, <1>a, <2>3 DEF Guarded, IsFinished, TypeOK, TaskRecord
  <2>4. Fresh => Successor(cur, tasks[cur].state, o.state)'
    BY <1>b, <2>1, <2>3 DEF Successor, ToStatus
  <2> QED BY <1>c, <2>1, <2>2, <2>3, <2>4, StatusStep
<1>8. CASE AwaitScaleDown
  <2>1. PICK o \in {[obj EXCEPT !.state = "Starting"], obj} : ToStatus(o)
    BY <1>8 DEF AwaitScaleDown
  <2>2. pc = "fetched" /\ obj.state = "ScalingDown"
        /\ UNCHANGED <<tasks, cache>> /\ UNCHANGED jobVars
    BY <1>8 DEF AwaitScaleDown
  <2>3. o \in TaskRecord /\ SameButStatus(o, obj) /\ o.state \in {"Starting", "ScalingDown"}
    <3>1. CASE o = obj
      BY <1>a, <2>2, <3>1 DEF TaskRecord, SameButStatus
    <3>2. CASE o # obj
      BY <1>a, <2>1, <2>2, <3>2 DEF TaskRecord, States, SameButStatus
    <3> QED BY <3>1, <3>2
  <2>4. Guarded(o)
    BY <1>a, <2>2 DEF Guarded, IsFinished, Finished, TypeOK, TaskRecord
  <2>5. Fresh => Successor(cur, tasks[cur].state, o.state)'
    BY <1>b, <2>1, <2>2, <2>3 DEF Successor, ToStatus
  <2> QED BY <1>c, <2>1, <2>2, <2>3, <2>4, <2>5, StatusStep
<1>9. CASE Start
  <2>1. pc = "fetched" /\ obj.state = "Starting" /\ UNCHANGED <<tasks, cache, jobCache, succeeded>>
    BY <1>9 DEF Start
  <2>2. HistoryAgrees'
    BY <1>9, <1>a DEF Start, LifecycleInv, HistoryAgrees, TypeOK, JobStates
  <2>3. CASE JobKnown \/ obj.valid
    <3>0. PICK o : o = [obj EXCEPT !.state = "Running"]
      OBVIOUS
    <3>1. o \in TaskRecord /\ SameButStatus(o, obj) /\ o.state = "Running"
      BY <3>0 DEF TypeOK, TaskRecord, States, SameButStatus
    <3>2. Guarded(o)
      BY <3>0, <1>a, <2>1 DEF Guarded, IsFinished, Finished, TypeOK, TaskRecord
    <3>3. ToStatus(o)
      BY <3>0, <1>9, <2>3 DEF Start
    <3>4. launches'[cur] > 0
      BY <1>9, <1>a, <2>1, <2>3 DEF Start, JobKnown, LifecycleInv, HistoryAgrees, TypeOK
    <3>5. Fresh => Successor(cur, tasks[cur].state, o.state)'
      BY <1>b, <2>1, <3>1, <3>3, <3>4 DEF Successor, ToStatus
    <3> QED BY <2>1, <2>2, <3>1, <3>2, <3>3, <3>5, StatusStep
  <2>4. CASE ~JobKnown /\ ~obj.valid
    <3>1. Idle
      BY <1>9, <2>4 DEF Start
    <3> QED BY <2>1, <2>2, <3>1, ReturnStep
  <2> QED BY <2>3, <2>4
<1>10. CASE UpdateTaskStatus
  <2>0. PICK o : o = [obj EXCEPT !.state = Verdict(jobCache[cur])]
    OBVIOUS
  <2>1. pc = "fetched" /\ obj.state = "Running" /\ ToStatus(o)
        /\ UNCHANGED <<tasks, cache>> /\ UNCHANGED jobVars
    BY <2>0, <1>10 DEF UpdateTaskStatus
  <2>2. /\ Verdict(jobCache[cur]) \in {"ScalingUp", "Failed", "Running"}
        /\ Verdict(jobCache[cur]) = "ScalingUp" => cur \in succeeded
    BY <1>a, <2>1 DEF TypeOK, JobStates, Verdict, LifecycleInv, HistoryAgrees
  <2>3. o \in TaskRecord /\ SameButStatus(o, obj) /\ o.state = Verdict(jobCache[cur])
    BY <2>0, <2>2 DEF TypeOK, TaskRecord, States, SameButStatus
  <2>4. Guarded(o)
    BY <2>0, <1>a, <2>1, <2>2 DEF Guarded, IsFinished, Finished, TypeOK, TaskRecord
  <2>5. Fresh => Successor(cur, tasks[cur].state, o.state)'
    BY <1>b, <2>1, <2>2, <2>3 DEF Successor, ToStatus
  <2> QED BY <1>c, <2>1, <2>3, <2>4, <2>5, StatusStep
<1>11. CASE SkipScaleUp
  <2>0. PICK o : o = [obj EXCEPT !.state = "Completed"]
    OBVIOUS
  <2>1. o \in TaskRecord /\ SameButStatus(o, obj) /\ o.state = "Completed"
    BY <2>0 DEF TypeOK, TaskRecord, States, SameButStatus
  <2>2. ToStatus(o) /\ pc = "fetched" /\ obj.state = "ScalingUp"
        /\ UNCHANGED <<tasks, cache>> /\ UNCHANGED jobVars
    BY <2>0, <1>11 DEF SkipScaleUp
  <2>3. Guarded(o)
    BY <2>0, <2>1 DEF Guarded, IsFinished, Finished
  <2>4. Fresh => Successor(cur, tasks[cur].state, o.state)'
    BY <1>b, <2>1, <2>2 DEF Successor, ToStatus
  <2> QED BY <1>c, <2>1, <2>2, <2>3, <2>4, StatusStep
<1>12. CASE BeginScaleUp
  BY <1>12, <1>c, SameTaskStep DEF BeginScaleUp
<1>13. ASSUME NEW w \in Workloads, PatchUp(w)
       PROVE  LifecycleInv'
  BY <1>13, <1>c, SameTaskStep DEF PatchUp
<1>14. CASE ForgetSizes
  <2>1. pc = "scaleUp" /\ obj.state = "ScalingUp" /\ UNCHANGED cache /\ UNCHANGED jobVars
    BY <1>14 DEF ForgetSizes, LifecycleInv, WorkerOnTrack
  <2>2. CASE Fresh
    <3>p. PICK p : p = [obj EXCEPT !.orig = NoSizes]
      OBVIOUS
    <3>r. PICK r : r = Stored(tasks[cur], p)
      OBVIOUS
    <3>1. PICK o \in {[r EXCEPT !.upAt = TRUE], [r EXCEPT !.state = "Completed"]} : ToStatus(o)
      BY <1>14, <2>2, <3>p, <3>r DEF ForgetSizes
    <3>2. tasks' = [tasks EXCEPT ![cur] = r]
      BY <1>14, <2>2, <3>p, <3>r DEF ForgetSizes
    <3>3. p \in TaskRecord
      BY <3>p DEF TypeOK, TaskRecord, NoSizes
    <3>4. p.finalizer /\ p.exists /\ p.state = "ScalingUp" /\ Guarded(p)
      BY <1>a, <2>1, <3>p DEF Guarded, IsFinished, Finished, TaskRecord
    <3>5. r \in TaskRecord /\ (r # tasks[cur] => r.rv = tasks[cur].rv + 1)
      BY <1>a, <2>1, <3>3, <3>r, StoredType
    <3>6. r.exists /\ r.state = "ScalingUp" /\ r.finalizer /\ Guarded(r) /\ r.rv > 0
      BY <1>a, <2>1, <3>3, <3>4, <3>r, StoredKept, StoredGuarded DEF LifecycleInv, CopiesAreGuarded
    <3>7. /\ o \in TaskRecord /\ SameButStatus(o, r) /\ o.rv = r.rv /\ o.exists /\ Guarded(o)
          /\ o.state \in {"ScalingUp", "Completed"}
      BY <3>1, <3>5, <3>6 DEF TaskRecord, States, SameButStatus, Guarded
    <3>8. Successor(cur, r.state, o.state)'
      BY <3>6, <3>7 DEF Successor
    <3> QED BY <1>a, <1>c, <2>1, <3>1, <3>2, <3>5, <3>6, <3>7, <3>8, HeldStatus
  <2>3. CASE ~Fresh
    BY <1>14, <1>c, <2>1, <2>3, ReturnStep DEF ForgetSizes
  <2> QED BY <2>2, <2>3
<1>15. CASE AwaitScaleUp
  <2>1. PICK o \in {[obj EXCEPT !.state = "Completed"], obj} : ToStatus(o)
    BY <1>15 DEF AwaitScaleUp
  <2>2. pc = "fetched" /\ obj.state = "ScalingUp"
        /\ UNCHANGED <<tasks, cache>> /\ UNCHANGED jobVars
    BY <1>15 DEF AwaitScaleUp
  <2>3. o \in TaskRecord /\ SameButStatus(o, obj) /\ o.state \in {"Completed", "ScalingUp"}
    <3>1. CASE o = obj
      BY <1>a, <2>2, <3>1 DEF TaskRecord, SameButStatus
    <3>2. CASE o # obj
      BY <1>a, <2>1, <2>2, <3>2 DEF TaskRecord, States, SameButStatus
    <3> QED BY <3>1, <3>2
  <2>4. Guarded(o)
    BY <1>a, <2>2 DEF Guarded, IsFinished, Finished, TypeOK, TaskRecord
  <2>5. Fresh => Successor(cur, tasks[cur].state, o.state)'
    BY <1>b, <2>1, <2>2, <2>3 DEF Successor, ToStatus
  <2> QED BY <1>c, <2>1, <2>2, <2>3, <2>4, <2>5, StatusStep
<1>16. CASE WriteStatus
  <2> DEFINE o == [tasks[cur] EXCEPT !.state = obj.state, !.downAt = obj.downAt,
                                     !.upAt = obj.upAt]
  <2>1. pc # "idle" /\ UpdateAndReturn(o)
    BY <1>16 DEF WriteStatus
  <2>2. o \in TaskRecord
    BY <1>a, <2>1 DEF TaskRecord
  <2>3. Fresh => Guarded(o)
    <3> SUFFICES ASSUME Fresh PROVE Guarded(o)
      OBVIOUS
    <3>1. SameButStatus(obj, tasks[cur])
      BY <2>1 DEF LifecycleInv, CopiesAreVersions
    <3>2. o = obj
      BY <1>a, <2>1, <3>1 DEF SameButStatus
    <3> QED BY <1>a, <2>1, <3>2
  <2> HIDE DEF o
  <2> QED BY <2>1, <2>2, <2>3, UpdateStep
<1>17. CASE NothingToDo
  BY <1>17, <1>c, ReturnStep DEF NothingToDo
<1>18. CASE Abort
  BY <1>18, <1>c, ReturnStep DEF Abort
<1>19. ASSUME NEW t \in Tasks, Fetch(t)
       PROVE  LifecycleInv'
  <2>1. pc' = "fetched" /\ cur' = t /\ obj' = cache[t] /\ cache[t].exists
        /\ UNCHANGED <<tasks, cache>> /\ UNCHANGED jobVars
    BY <1>19 DEF Fetch
  <2>2. cache[t] \in TaskRecord /\ tasks[t] \in TaskRecord
    BY DEF TypeOK
  <2>3. cache[t] = tasks[t] => SameButStatus(cache[t], tasks[t])
    BY <2>2 DEF SameButStatus, TaskRecord
  <2>4. CopiesAreVersions'
    BY <2>1, <2>3 DEF LifecycleInv, CopiesAreVersions, Fresh, SameButStatus
  <2>5. WorkIsGuarded' /\ CopiesAreGuarded'
    BY <2>1 DEF LifecycleInv, WorkIsGuarded, CopiesAreGuarded, Guarded, IsFinished
  <2>6. WorkerOnTrack'
    BY <2>1 DEF WorkerOnTrack
  <2> QED BY <1>c, <2>1, <2>4, <2>5, <2>6 DEF LifecycleInv
<1>20. ASSUME NEW t \in Tasks, Create(t)
       PROVE  LifecycleInv'
  <2>1. PICK stop \in BOOLEAN, valid \in BOOLEAN :
          tasks' = [tasks EXCEPT ![t] = [Blank EXCEPT !.exists = TRUE, !.rv = 1,
                                                      !.stopPods = stop, !.valid = valid]]
    BY <1>20, ChoiceAssumption DEF Create
  <2> DEFINE r == [Blank EXCEPT !.exists = TRUE, !.rv = 1, !.stopPods = stop, !.valid = valid]
  <2>2. r \in TaskRecord /\ r.rv = 1 /\ r.state = "Unset"
    BY BlankType DEF TaskRecord, Blank
  <2>3. tasks[t].rv = 0 /\ UNCHANGED <<cache, jobVars, workerVars>>
    BY <1>20 DEF Create
  <2>4. tasks' = [tasks EXCEPT ![t] = r]
    BY <2>1
  <2> HIDE DEF r
  <2>5. Guarded(r)
    BY <2>2 DEF Guarded
  <2>6. r.rv = tasks[t].rv + 1 /\ r.rv > 0
    BY <2>2, <2>3
  <2> QED BY <2>2, <2>3, <2>4, <2>5, <2>6, OutsideWrite
<1>21. ASSUME NEW t \in Tasks, UserDelete(t)
       PROVE  LifecycleInv'
  <2> DEFINE o == [tasks[t] EXCEPT !.deleting = TRUE]
             r == Stored(tasks[t], o)
  <2>1. tasks[t] \in TaskRecord /\ Guarded(tasks[t]) /\ (tasks[t].exists => tasks[t].rv > 0)
    BY DEF TypeOK, LifecycleInv, WorkIsGuarded, CopiesAreGuarded
  <2>2. o \in TaskRecord /\ Guarded(o)
    BY <2>1 DEF TaskRecord, Guarded, IsFinished
  <2>3. tasks' = [tasks EXCEPT ![t] = r] /\ UNCHANGED <<cache, jobVars, workerVars>>
    BY <1>21 DEF UserDelete
  <2> HIDE DEF o
  <2>4. /\ r \in TaskRecord /\ Guarded(r) /\ (r.exists => r.rv > 0)
        /\ r # tasks[t] => r.rv = tasks[t].rv + 1
    BY <2>1, <2>2, StoredType, StoredGuarded
  <2> HIDE DEF r
  <2> QED BY <2>3, <2>4, OutsideWrite
<1>22. ASSUME NEW t \in Tasks, SyncTask(t)
       PROVE  LifecycleInv'
  <2>1. cache' = [cache EXCEPT ![t] = tasks[t]] /\ UNCHANGED <<tasks, jobVars, workerVars>>
    BY <1>22 DEF SyncTask
  <2>2. \A u \in Tasks : cache'[u] = cache[u] \/ cache'[u] = tasks[u]
    BY <2>1 DEF TypeOK
  <2>3. \A u \in Tasks : tasks[u].rv \in Nat
    BY DEF TypeOK, TaskRecord
  <2>4. CopiesAreVersions'
    BY <2>1, <2>2, <2>3 DEF LifecycleInv, CopiesAreVersions, Fresh, SameButStatus
  <2>5. WorkIsGuarded' /\ CopiesAreGuarded'
    BY <2>1, <2>2 DEF LifecycleInv, WorkIsGuarded, CopiesAreGuarded, Guarded, IsFinished
  <2>6. WorkerOnTrack'
    BY <2>1 DEF LifecycleInv, WorkerOnTrack, Fresh, Successor
  <2> QED BY <1>c, <2>1, <2>4, <2>5, <2>6 DEF LifecycleInv
<1>23. ASSUME NEW t \in Tasks, SyncJob(t)
       PROVE  LifecycleInv'
  <2>1. HistoryAgrees'
    BY <1>23 DEF SyncJob, LifecycleInv, HistoryAgrees, TypeOK
  <2> QED BY <1>23, <2>1, OtherStep DEF SyncJob
<1>24. ASSUME NEW t \in Tasks, FinishJob(t)
       PROVE  LifecycleInv'
  <2>1. HistoryAgrees' /\ succeeded \subseteq succeeded'
    BY <1>24 DEF FinishJob, LifecycleInv, HistoryAgrees, TypeOK
  <2> QED BY <1>24, <2>1, OtherStep DEF FinishJob
<1>25. ASSUME NEW t \in Tasks, ExpireJob(t)
       PROVE  LifecycleInv'
  <2>1. HistoryAgrees'
    BY <1>25 DEF ExpireJob, LifecycleInv, HistoryAgrees, TypeOK
  <2> QED BY <1>25, <2>1, OtherStep DEF ExpireJob
<1>26. ASSUME NEW w \in Workloads, PodStep(w)
       PROVE  LifecycleInv'
  BY <1>26, <1>c, OtherStep DEF PodStep
<1>27. CASE UNCHANGED vars
  BY <1>27, <1>c, OtherStep DEF vars
<1> QED
  BY <1>1, <1>2, <1>3, <1>4, <1>5, <1>6, <1>7, <1>8, <1>9, <1>10, <1>11, <1>12, <1>13, <1>14,
     <1>15, <1>16, <1>17, <1>18, <1>19, <1>20, <1>21, <1>22, <1>23, <1>24, <1>25, <1>26, <1>27
     DEF Next, WorkerStep

THEOREM LifecycleHolds == Spec => []LifecycleInv
<1> QED BY LifecycleInit, LifecycleStep, PTL DEF Spec

(* The finalizer guards the work of every Task (WorkIsGuarded), and copies  *)
(* of Tasks are versions of them (CopiesAreVersions).                       *)
THEOREM WorkGuarded == Spec => []WorkIsGuarded
<1>1. LifecycleInv => WorkIsGuarded
  BY DEF LifecycleInv
<1> QED BY <1>1, LifecycleHolds, PTL

THEOREM CopiesVersioned == Spec => []CopiesAreVersions
<1>1. LifecycleInv => CopiesAreVersions
  BY DEF LifecycleInv
<1> QED BY <1>1, LifecycleHolds, PTL

-----------------------------------------------------------------------------
(* First launches and deletions. *)

StartInv == StartIsFirst /\ DeletionWaits

LEMMA StoredHeld ==
  ASSUME NEW old \in TaskRecord, NEW o \in TaskRecord, old.deleting => old.finalizer
  PROVE  Stored(old, o).deleting => Stored(old, o).finalizer
<1>1. CASE o = old
  BY <1>1 DEF Stored
<1>2. CASE o # old /\ o.deleting /\ ~o.finalizer
  <2>1. Stored(old, o).deleting = FALSE
    BY <1>2 DEF Stored, Blank
  <2> QED BY <2>1
<1>3. CASE o # old /\ ~(o.deleting /\ ~o.finalizer)
  <2>1. Stored(old, o) = [o EXCEPT !.rv = old.rv + 1]
    BY <1>3 DEF Stored
  <2> QED BY <1>3, <2>1 DEF TaskRecord
<1> QED BY <1>1, <1>2, <1>3

(* Steps that write no Task.                                                *)
LEMMA StartQuiet ==
  ASSUME StartInv, UNCHANGED <<tasks, cache>>,
         \A t \in Tasks : launches'[t] = 0 => launches[t] = 0,
         pc' = "fetched" => pc = "fetched" /\ UNCHANGED <<cur, obj>>
  PROVE  StartInv'
BY DEF StartInv, StartIsFirst, DeletionWaits

(* Steps that write one Task.                                               *)
LEMMA StartWrite ==
  ASSUME StartInv, TypeOK, NEW t \in Tasks, NEW r \in TaskRecord,
         tasks' = [tasks EXCEPT ![t] = r], UNCHANGED <<cache, launches>>,
         pc' = "fetched" => pc = "fetched" /\ UNCHANGED <<cur, obj>>,
         r.deleting => r.finalizer,
         launches[t] = 0 =>
           /\ tasks[t].exists /\ tasks[t].state = "Starting" => r.exists /\ r.state = "Starting"
           /\ r.exists /\ r.state \in Begun => r.state = "Starting"
  PROVE  StartInv'
<1>1. \A u \in Tasks : tasks'[u] = IF u = t THEN r ELSE tasks[u]
  BY DEF TypeOK
<1>2. DeletionWaits'
  BY <1>1 DEF StartInv, DeletionWaits
<1>3. StartIsFirst'
  <2> SUFFICES ASSUME NEW u \in Tasks, launches[u] = 0,
                      NEW o \in {tasks'[u], cache[u]} \cup
                                (IF pc' = "fetched" /\ cur' = u THEN {obj'} ELSE {}),
                      o.exists, o.state \in Begun
               PROVE  tasks'[u].exists /\ tasks'[u].state = "Starting"
    BY DEF StartIsFirst
  <2>1. CASE o = tasks'[u]
    <3>1. CASE u = t
      BY <1>1, <2>1, <3>1
    <3>2. CASE u # t
      BY <1>1, <2>1, <3>2 DEF StartInv, StartIsFirst
    <3> QED BY <3>1, <3>2
  <2>2. CASE o # tasks'[u]
    <3>1. o \in {tasks[u], cache[u]} \cup (IF pc = "fetched" /\ cur = u THEN {obj} ELSE {})
      BY <2>2
    <3>2. tasks[u].exists /\ tasks[u].state = "Starting"
      BY <3>1 DEF StartInv, StartIsFirst
    <3> QED BY <1>1, <3>2
  <2> QED BY <2>1, <2>2
<1> QED BY <1>2, <1>3 DEF StartInv

(* A write that the worker makes with an up-to-date copy.                   *)
LEMMA StartUpdate ==
  ASSUME StartInv, LifecycleInv, pc # "idle", NEW o \in TaskRecord, UpdateAndReturn(o),
         Fresh /\ launches[cur] = 0 =>
           \/ Stored(tasks[cur], o).state = tasks[cur].state
              /\ Stored(tasks[cur], o).exists = tasks[cur].exists
           \/ Stored(tasks[cur], o).exists /\ tasks[cur].state # "Starting"
              /\ Stored(tasks[cur], o).state \in {"ScalingDown", "Starting"}
  PROVE  StartInv'
<1>1. cur \in Tasks /\ tasks[cur] \in TaskRecord
  BY DEF LifecycleInv, TypeOK
<1>2. pc' = "idle" /\ UNCHANGED <<cache, launches>>
  BY DEF UpdateAndReturn, Idle
<1>3. CASE ~Fresh
  BY <1>2, <1>3, StartQuiet DEF UpdateAndReturn
<1>4. CASE Fresh
  <2>1. PICK r : r = Stored(tasks[cur], o)
    OBVIOUS
  <2>2. r \in TaskRecord /\ (r.deleting => r.finalizer)
    BY <1>1, <2>1, StoredType, StoredHeld DEF StartInv, DeletionWaits
  <2>3. launches[cur] = 0 => (tasks[cur].exists /\ tasks[cur].state \in Begun
                              => tasks[cur].state = "Starting")
    BY <1>1 DEF StartInv, StartIsFirst
  <2>4. tasks' = [tasks EXCEPT ![cur] = r]
    BY <1>4, <2>1 DEF UpdateAndReturn
  <2>5. launches[cur] = 0 =>
          /\ tasks[cur].exists /\ tasks[cur].state = "Starting"
               => r.exists /\ r.state = "Starting"
          /\ r.exists /\ r.state \in Begun => r.state = "Starting"
    BY <1>4, <2>1, <2>3 DEF Begun
  <2> QED BY <1>1, <1>2, <2>2, <2>4, <2>5, StartWrite DEF LifecycleInv
<1> QED BY <1>3, <1>4

LEMMA StartInit == Init => StartInv
BY DEF Init, StartInv, StartIsFirst, DeletionWaits, Blank

LEMMA StartStep == LifecycleInv /\ StartInv /\ [Next]_vars => StartInv'
<1> SUFFICES ASSUME LifecycleInv, StartInv, [Next]_vars PROVE StartInv'
  OBVIOUS
<1> TypeOK
  BY DEF LifecycleInv
<1>a. pc # "idle" => /\ cur \in Tasks /\ tasks[cur] \in TaskRecord /\ obj \in TaskRecord
                     /\ obj.exists /\ Guarded(obj)
  BY DEF TypeOK, LifecycleInv, CopiesAreGuarded
<1>b. (pc # "idle" /\ pc # "status" /\ Fresh) => obj = tasks[cur]
  BY DEF LifecycleInv, CopiesAreVersions
<1>c. pc # "idle" => (tasks[cur].deleting => tasks[cur].finalizer)
  BY <1>a DEF StartInv, DeletionWaits
<1>1. CASE RemoveFinalizerIfConditionMet
  <2>1. [obj EXCEPT !.finalizer = FALSE] \in TaskRecord
    BY DEF TypeOK, TaskRecord
  <2>2. Fresh => launches[cur] # 0
    BY <1>1, <1>a, <1>b DEF RemoveFinalizerIfConditionMet, IsFinished, Finished, Begun,
                            StartInv, StartIsFirst
  <2> QED BY <1>1, <2>1, <2>2, StartUpdate DEF RemoveFinalizerIfConditionMet
<1>2. CASE InitResourceIfConditionMet
  <2>1. PICK o : o = [obj EXCEPT !.finalizer = TRUE]
    OBVIOUS
  <2>2. o \in TaskRecord /\ o.finalizer /\ o.state = obj.state /\ o.exists = obj.exists
    BY <2>1 DEF TypeOK, TaskRecord
  <2>3. pc # "idle" /\ pc # "status" /\ UpdateAndReturn(o)
    BY <1>2, <2>1 DEF InitResourceIfConditionMet
  <2>4. Fresh => /\ Stored(tasks[cur], o).state = tasks[cur].state
                 /\ Stored(tasks[cur], o).exists = tasks[cur].exists
    BY <1>a, <1>b, <2>2, <2>3, StoredKept
  <2> QED BY <2>2, <2>3, <2>4, StartUpdate
<1>3. CASE RecordSizes
  <2>1. pc = "fetched" /\ obj.state = "ScalingDown" /\ UNCHANGED <<cache, launches>>
    BY <1>3 DEF RecordSizes
  <2>2. CASE UNCHANGED tasks /\ pc' # "fetched"
    BY <2>1, <2>2, StartQuiet
  <2>3. CASE ~(UNCHANGED tasks /\ pc' # "fetched")
    <3>1. PICK found \in SUBSET Mounting :
            /\ Fresh
            /\ tasks' = [tasks EXCEPT ![cur] = Stored(tasks[cur],
                                                      [obj EXCEPT !.orig = Recorded(found)])]
            /\ pc' = "scaleDown"
      BY <1>3, <2>3 DEF RecordSizes, ToStatus, Idle
    <3>2. PICK o : o = [obj EXCEPT !.orig = Recorded(found)]
      OBVIOUS
    <3>3. PICK r : r = Stored(tasks[cur], o)
      OBVIOUS
    <3>4. Recorded(found) \in [Workloads -> Nat \cup {NoSize}]
      BY DEF Recorded, TypeOK
    <3>5. o \in TaskRecord /\ o.finalizer /\ o.exists /\ o.state = "ScalingDown"
      BY <1>a, <2>1, <3>2, <3>4 DEF Guarded, IsFinished, Finished, TaskRecord
    <3>6. r \in TaskRecord /\ (r.deleting => r.finalizer)
      BY <1>a, <1>c, <2>1, <3>3, <3>5, StoredType, StoredHeld
    <3>7. r.state = "ScalingDown" /\ tasks[cur].state = "ScalingDown"
      BY <1>a, <1>b, <2>1, <3>1, <3>3, <3>5, StoredKept
    <3> QED BY <1>a, <2>1, <3>1, <3>2, <3>3, <3>6, <3>7, StartWrite DEF Begun
  <2> QED BY <2>2, <2>3
<1>4. CASE ForgetSizes
  <2>1. pc = "scaleUp" /\ obj.state = "ScalingUp" /\ UNCHANGED <<cache, launches>>
        /\ pc' # "fetched"
    BY <1>4 DEF ForgetSizes, LifecycleInv, WorkerOnTrack, ToStatus, Idle
  <2>2. CASE Fresh
    <3>1. PICK o : o = [obj EXCEPT !.orig = NoSizes]
      OBVIOUS
    <3>2. PICK r : r = Stored(tasks[cur], o)
      OBVIOUS
    <3>3. o \in TaskRecord
      BY <3>1 DEF TypeOK, TaskRecord, NoSizes
    <3>4. r \in TaskRecord /\ (r.deleting => r.finalizer)
      BY <1>a, <1>c, <2>1, <3>2, <3>3, StoredType, StoredHeld
    <3>5. launches[cur] # 0
      BY <1>a, <1>b, <2>1, <2>2 DEF StartInv, StartIsFirst, Begun
    <3>6. tasks' = [tasks EXCEPT ![cur] = r]
      BY <1>4, <2>2, <3>1, <3>2 DEF ForgetSizes
    <3> QED BY <1>a, <2>1, <3>4, <3>5, <3>6, StartWrite
  <2>3. CASE ~Fresh
    BY <1>4, <2>1, <2>3, StartQuiet DEF ForgetSizes
  <2> QED BY <2>2, <2>3
<1>5. CASE WriteStatus
  <2>1. PICK o : o = [tasks[cur] EXCEPT !.state = obj.state, !.downAt = obj.downAt,
                                        !.upAt = obj.upAt]
    OBVIOUS
  <2>2. pc = "status" /\ UpdateAndReturn(o)
    BY <1>5, <2>1 DEF WriteStatus
  <2>3. /\ o \in TaskRecord /\ o.state = obj.state /\ o.exists = tasks[cur].exists
        /\ o.deleting => o.finalizer
    BY <1>a, <1>c, <2>1, <2>2 DEF TaskRecord
  <2>4. ASSUME Fresh, launches[cur] = 0
        PROVE  \/ Stored(tasks[cur], o).state = tasks[cur].state
                  /\ Stored(tasks[cur], o).exists = tasks[cur].exists
               \/ Stored(tasks[cur], o).exists /\ tasks[cur].state # "Starting"
                  /\ Stored(tasks[cur], o).state \in {"ScalingDown", "Starting"}
    <3>1. Stored(tasks[cur], o).state = obj.state
          /\ Stored(tasks[cur], o).exists = tasks[cur].exists
      <4>1. Stored(tasks[cur], o) \in {o, [o EXCEPT !.rv = tasks[cur].rv + 1]}
        BY <2>3 DEF Stored
      <4> QED BY <2>3, <4>1 DEF TaskRecord
    <3>2. SameButStatus(obj, tasks[cur]) /\ Successor(cur, tasks[cur].state, obj.state)
      BY <2>2, <2>4 DEF LifecycleInv, CopiesAreVersions, WorkerOnTrack
    <3>3. tasks[cur].exists
      BY <1>a, <2>2, <3>2 DEF SameButStatus, TaskRecord
    <3>4. tasks[cur].state \in Begun => tasks[cur].state = "Starting"
      BY <1>a, <2>2, <2>4, <3>3 DEF StartInv, StartIsFirst
    <3>5. \/ obj.state = tasks[cur].state
          \/ tasks[cur].state = "Unset" /\ obj.state = "ScalingDown"
          \/ tasks[cur].state = "ScalingDown" /\ obj.state = "Starting"
      BY <2>4, <3>2, <3>4 DEF Successor, Begun
    <3> QED BY <3>1, <3>3, <3>5
  <2> QED BY <2>2, <2>3, <2>4, StartUpdate
<1>6. CASE Start
  <2>1. UNCHANGED <<tasks, cache>> /\ pc' # "fetched"
    BY <1>6 DEF Start, ToStatus, Idle
  <2>2. \A t \in Tasks : launches'[t] = 0 => launches[t] = 0
    BY <1>6, <1>a DEF Start, TypeOK
  <2> QED BY <2>1, <2>2, StartQuiet
<1>7. CASE \/ InitTask \/ SkipScaleDown \/ MarkScaledDown \/ AwaitScaleDown \/ UpdateTaskStatus
           \/ SkipScaleUp \/ BeginScaleUp \/ AwaitScaleUp
  <2>1. UNCHANGED <<tasks, cache, launches>> /\ pc' # "fetched"
    BY <1>7 DEF InitTask, SkipScaleDown, MarkScaledDown, AwaitScaleDown, UpdateTaskStatus,
                SkipScaleUp, BeginScaleUp, AwaitScaleUp, ToStatus
  <2> QED BY <2>1, StartQuiet
<1>8. CASE NothingToDo \/ Abort
  <2>1. UNCHANGED <<tasks, cache, launches>> /\ pc' # "fetched"
    BY <1>8 DEF NothingToDo, Abort, Idle
  <2> QED BY <2>1, StartQuiet
<1>9. ASSUME NEW w \in Workloads, PatchDown(w) \/ PatchUp(w) \/ PodStep(w)
      PROVE  StartInv'
  <2>1. UNCHANGED <<tasks, cache, launches, pc, cur, obj>>
    BY <1>9 DEF PatchDown, PatchUp, PodStep
  <2> QED BY <2>1, StartQuiet
<1>10. ASSUME NEW t \in Tasks, SyncJob(t) \/ FinishJob(t) \/ ExpireJob(t)
       PROVE  StartInv'
  <2>1. UNCHANGED <<tasks, cache, launches, pc, cur, obj>>
    BY <1>10 DEF SyncJob, FinishJob, ExpireJob
  <2> QED BY <2>1, StartQuiet
<1>11. ASSUME NEW t \in Tasks, Fetch(t)
       PROVE  StartInv'
  <2>1. pc' = "fetched" /\ cur' = t /\ obj' = cache[t] /\ UNCHANGED <<tasks, cache, launches>>
    BY <1>11 DEF Fetch
  <2> QED BY <2>1 DEF StartInv, StartIsFirst, DeletionWaits
<1>12. ASSUME NEW t \in Tasks, SyncTask(t)
       PROVE  StartInv'
  <2>1. cache' = [cache EXCEPT ![t] = tasks[t]] /\ UNCHANGED <<tasks, launches, pc, cur, obj>>
    BY <1>12 DEF SyncTask
  <2>2. \A u \in Tasks : cache'[u] \in {cache[u], tasks[u]}
    BY <2>1 DEF TypeOK
  <2>3. DeletionWaits'
    BY <2>1, <2>2 DEF StartInv, DeletionWaits
  <2>4. StartIsFirst'
    BY <2>1, <2>2 DEF StartInv, StartIsFirst
  <2> QED BY <2>3, <2>4 DEF StartInv
<1>13. ASSUME NEW t \in Tasks, Create(t)
       PROVE  StartInv'
  <2>1. PICK stop \in BOOLEAN, valid \in BOOLEAN :
          tasks' = [tasks EXCEPT ![t] = [Blank EXCEPT !.exists = TRUE, !.rv = 1,
                                                      !.stopPods = stop, !.valid = valid]]
    BY <1>13, ChoiceAssumption DEF Create
  <2>2. PICK r : r = [Blank EXCEPT !.exists = TRUE, !.rv = 1, !.stopPods = stop,
                                   !.valid = valid]
    OBVIOUS
  <2>3. r \in TaskRecord /\ r.state = "Unset" /\ r.deleting = FALSE
    BY <2>2, BlankType DEF TaskRecord, Blank
  <2>4. ~tasks[t].exists /\ UNCHANGED <<cache, launches, pc, cur, obj>>
    BY <1>13 DEF Create, LifecycleInv, CopiesAreGuarded
  <2> QED BY <2>1, <2>2, <2>3, <2>4, StartWrite DEF Begun
<1>14. ASSUME NEW t \in Tasks, UserDelete(t)
       PROVE  StartInv'
  <2>1. PICK o : o = [tasks[t] EXCEPT !.deleting = TRUE]
    OBVIOUS
  <2>2. PICK r : r = Stored(tasks[t], o)
    OBVIOUS
  <2>3. tasks[t] \in TaskRecord /\ Guarded(tasks[t]) /\ (tasks[t].deleting => tasks[t].finalizer)
    BY DEF TypeOK, LifecycleInv, WorkIsGuarded, StartInv, DeletionWaits
  <2>4. /\ o \in TaskRecord /\ o.state = tasks[t].state /\ o.finalizer = tasks[t].finalizer
        /\ o.exists = tasks[t].exists
    BY <2>1, <2>3 DEF TaskRecord
  <2>5. tasks' = [tasks EXCEPT ![t] = r] /\ UNCHANGED <<cache, launches, pc, cur, obj>>
    BY <1>14, <2>1, <2>2 DEF UserDelete
  <2>6. r \in TaskRecord /\ (r.deleting => r.finalizer)
    BY <2>2, <2>3, <2>4, StoredType, StoredHeld
  <2>7. r.exists => r.state = tasks[t].state /\ r.exists = tasks[t].exists
    <3>1. r \in {o, [o EXCEPT !.rv = tasks[t].rv + 1], [Blank EXCEPT !.rv = tasks[t].rv + 1]}
      BY <2>2 DEF Stored
    <3> QED BY <2>4, <3>1 DEF TaskRecord, Blank
  <2>8. tasks[t].exists /\ tasks[t].state = "Starting" => r.exists /\ r.state = "Starting"
    BY <2>2, <2>3, <2>4, StoredKept DEF Guarded, IsFinished, Finished
  <2>9. launches[t] = 0 => (tasks[t].exists /\ tasks[t].state \in Begun
                            => tasks[t].state = "Starting")
    BY DEF StartInv, StartIsFirst
  <2> QED BY <2>5, <2>6, <2>7, <2>8, <2>9, StartWrite
<1>15. CASE UNCHANGED vars
  BY <1>15, StartQuiet DEF vars
<1> QED
  BY <1>1, <1>2, <1>3, <1>4, <1>5, <1>6, <1>7, <1>8, <1>9, <1>10, <1>11, <1>12, <1>13, <1>14,
     <1>15 DEF Next, WorkerStep

THEOREM StartHolds == Spec => [](StartIsFirst /\ DeletionWaits)
<1>1. Spec => []StartInv
  BY LifecycleHolds, StartInit, StartStep, PTL DEF Spec
<1> QED BY <1>1, PTL DEF StartInv

-----------------------------------------------------------------------------
(* The Tasks controller implements TaskLifecycle. *)

LifecycleUnchanged == UNCHANGED <<Phase, Launched, succeeded>>

(* The effect of a write of one Task on what an observer sees.              *)
LEMMA PhaseWrite ==
  ASSUME TypeOK, NEW t \in Tasks, NEW r, tasks' = [tasks EXCEPT ![t] = r]
  PROVE  /\ Phase' = [Phase EXCEPT ![t] = PhaseOf(r)]
         /\ PhaseOf(r) = PhaseOf(tasks[t]) => Phase' = Phase
         /\ Phase[t] = PhaseOf(tasks[t])
BY DEF TypeOK, Phase, PhaseOf

LEMMA PhaseSame == UNCHANGED tasks => Phase' = Phase
BY DEF Phase

LEMMA LaunchedSame == UNCHANGED launches => Launched' = Launched
BY DEF Launched

LEMMA ContractInit == Init => Lifecycle!Init
BY DEF Init, Lifecycle!Init, Phase, PhaseOf, Launched, Blank

(* A write of a copy that keeps the state is not seen.                      *)
LEMMA WriteUnseen ==
  ASSUME TypeOK, NEW t \in Tasks, NEW o \in TaskRecord, tasks[t].exists,
         tasks' = [tasks EXCEPT ![t] = Stored(tasks[t], o)],
         o.deleting => o.finalizer, o.exists, o.state = tasks[t].state
  PROVE  Phase' = Phase
<1>1. tasks[t] \in TaskRecord
  BY DEF TypeOK
<1>2. PICK r : r = Stored(tasks[t], o)
  OBVIOUS
<1>3. r \in {o, [o EXCEPT !.rv = tasks[t].rv + 1]}
  BY <1>2 DEF Stored
<1>4. r.exists /\ r.state = tasks[t].state
  BY <1>3 DEF TaskRecord
<1> QED BY <1>2, <1>4, PhaseWrite DEF PhaseOf

(* A write of a copy that was deleted and loses its finalizer removes it.   *)
LEMMA WriteRemoves ==
  ASSUME TypeOK, NEW t \in Tasks, NEW o \in TaskRecord, tasks[t].exists, o # tasks[t],
         tasks' = [tasks EXCEPT ![t] = Stored(tasks[t], o)],
         o.deleting, ~o.finalizer, tasks[t].state \in {"Unset", "Completed", "Failed"},
         UNCHANGED <<launches, succeeded>>
  PROVE  Lifecycle!Remove(t)
<1>1. tasks[t].rv \in Nat
  BY DEF TypeOK, TaskRecord
<1>2. PICK r : r = Stored(tasks[t], o)
  OBVIOUS
<1>3. r = [Blank EXCEPT !.rv = tasks[t].rv + 1]
  BY <1>2 DEF Stored
<1>4. ~r.exists /\ r.rv # 0
  BY <1>1, <1>3 DEF Blank
<1>5. Phase' = [Phase EXCEPT ![t] = "Gone"] /\ Phase[t] = tasks[t].state
  BY <1>2, <1>4, PhaseWrite DEF PhaseOf
<1> QED BY <1>5, LaunchedSame DEF Lifecycle!Remove

LEMMA ContractStep ==
  LifecycleInv /\ StartInv /\ [Next]_vars => [Lifecycle!Next]_<<Phase, Launched, succeeded>>
<1> SUFFICES ASSUME LifecycleInv, StartInv, [Next]_vars
             PROVE  LifecycleUnchanged \/ \E t \in Tasks :
                      \/ Lifecycle!Create(t) \/ Lifecycle!BeginScaleDown(t)
                      \/ Lifecycle!FinishScaleDown(t) \/ Lifecycle!Launch(t)
                      \/ Lifecycle!JobSucceeds(t) \/ Lifecycle!ObserveRunning(t)
                      \/ Lifecycle!ObserveSuccess(t) \/ Lifecycle!ObserveFailure(t)
                      \/ Lifecycle!FinishScaleUp(t) \/ Lifecycle!Remove(t)
  BY DEF LifecycleUnchanged, Lifecycle!Next
<1> TypeOK
  BY DEF LifecycleInv
<1>a. pc # "idle" => /\ cur \in Tasks /\ tasks[cur] \in TaskRecord /\ obj \in TaskRecord
                     /\ obj.exists /\ Guarded(obj)
  BY DEF TypeOK, LifecycleInv, CopiesAreGuarded
<1>b. (pc # "idle" /\ pc # "status" /\ Fresh) => obj = tasks[cur]
  BY DEF LifecycleInv, CopiesAreVersions
<1>c. pc # "idle" => (tasks[cur].deleting => tasks[cur].finalizer)
  BY <1>a DEF StartInv, DeletionWaits
<1>d. UNCHANGED <<tasks, launches, succeeded>> => LifecycleUnchanged
  BY PhaseSame, LaunchedSame DEF LifecycleUnchanged
<1>1. CASE RemoveFinalizerIfConditionMet
  <2>1. PICK o : o = [obj EXCEPT !.finalizer = FALSE]
    OBVIOUS
  <2>2. /\ o \in TaskRecord /\ o.exists = obj.exists /\ o.state = obj.state
        /\ o.deleting = obj.deleting /\ o.finalizer = FALSE
    BY <2>1 DEF TypeOK, TaskRecord
  <2>3. /\ pc = "fetched" /\ obj.state \in Finished /\ obj.finalizer /\ UpdateAndReturn(o)
        /\ UNCHANGED <<launches, succeeded>>
    BY <1>1, <2>1 DEF RemoveFinalizerIfConditionMet, IsFinished, UpdateAndReturn
  <2>4. CASE ~Fresh
    BY <1>d, <2>3, <2>4 DEF UpdateAndReturn
  <2>5. CASE Fresh
    <3>1. obj = tasks[cur] /\ tasks' = [tasks EXCEPT ![cur] = Stored(tasks[cur], o)]
      BY <1>b, <2>3, <2>5 DEF UpdateAndReturn
    <3>2. CASE o.deleting
      BY <1>a, <2>2, <2>3, <3>1, <3>2, WriteRemoves DEF Finished
    <3>3. CASE ~o.deleting
      <4>1. Phase' = Phase
        BY <1>a, <2>2, <2>3, <3>1, <3>3, WriteUnseen
      <4> QED BY <2>3, <4>1, LaunchedSame DEF LifecycleUnchanged
    <3> QED BY <3>2, <3>3
  <2> QED BY <2>4, <2>5
<1>2. CASE InitResourceIfConditionMet
  <2>1. PICK o : o = [obj EXCEPT !.finalizer = TRUE]
    OBVIOUS
  <2>2. o \in TaskRecord /\ o.finalizer /\ o.state = obj.state /\ o.exists = obj.exists
    BY <2>1 DEF TypeOK, TaskRecord
  <2>3. /\ pc = "fetched" /\ UpdateAndReturn(o) /\ UNCHANGED <<launches, succeeded>>
    BY <1>2, <2>1 DEF InitResourceIfConditionMet, UpdateAndReturn
  <2>4. CASE ~Fresh
    BY <1>d, <2>3, <2>4 DEF UpdateAndReturn
  <2>5. CASE Fresh
    <3>1. obj = tasks[cur] /\ tasks' = [tasks EXCEPT ![cur] = Stored(tasks[cur], o)]
      BY <1>b, <2>3, <2>5 DEF UpdateAndReturn
    <3>2. Phase' = Phase
      BY <1>a, <2>2, <2>3, <3>1, WriteUnseen
    <3> QED BY <2>3, <3>2, LaunchedSame DEF LifecycleUnchanged
  <2> QED BY <2>4, <2>5
<1>3. CASE RecordSizes
  <2>1. pc = "fetched" /\ obj.state = "ScalingDown" /\ UNCHANGED <<launches, succeeded>>
    BY <1>3 DEF RecordSizes
  <2>2. CASE UNCHANGED tasks
    BY <1>d, <2>1, <2>2
  <2>3. CASE ~UNCHANGED tasks
    <3>1. PICK found \in SUBSET Mounting :
            /\ Fresh
            /\ tasks' = [tasks EXCEPT ![cur] = Stored(tasks[cur],
                                                      [obj EXCEPT !.orig = Recorded(found)])]
      BY <1>3, <2>3 DEF RecordSizes
    <3>2. PICK o : o = [obj EXCEPT !.orig = Recorded(found)]
      OBVIOUS
    <3>3. Recorded(found) \in [Workloads -> Nat \cup {NoSize}]
      BY DEF Recorded, TypeOK
    <3>4. o \in TaskRecord /\ o.finalizer /\ o.exists /\ o.state = obj.state
      BY <1>a, <2>1, <3>2, <3>3 DEF Guarded, IsFinished, Finished, TaskRecord
    <3>5. Phase' = Phase
      BY <1>a, <1>b, <2>1, <3>1, <3>2, <3>4, WriteUnseen
    <3> QED BY <2>1, <3>5, LaunchedSame DEF LifecycleUnchanged
  <2> QED BY <2>2, <2>3
<1>4. CASE ForgetSizes
  <2>1. pc = "scaleUp" /\ UNCHANGED <<launches, succeeded>>
    BY <1>4 DEF ForgetSizes
  <2>2. CASE Fresh
    <3>1. PICK o : o = [obj EXCEPT !.orig = NoSizes]
      OBVIOUS
    <3>2. o \in TaskRecord /\ o.exists /\ o.state = obj.state /\ (o.deleting => o.finalizer)
      BY <1>a, <1>b, <1>c, <2>1, <2>2, <3>1 DEF TaskRecord, NoSizes
    <3>3. tasks' = [tasks EXCEPT ![cur] = Stored(tasks[cur], o)]
      BY <1>4, <2>2, <3>1 DEF ForgetSizes
    <3>4. Phase' = Phase
      BY <1>a, <1>b, <2>1, <2>2, <3>2, <3>3, WriteUnseen
    <3> QED BY <2>1, <3>4, LaunchedSame DEF LifecycleUnchanged
  <2>3. CASE ~Fresh
    BY <1>4, <1>d, <2>1, <2>3 DEF ForgetSizes
  <2> QED BY <2>2, <2>3
<1>5. CASE WriteStatus
  <2>1. PICK o : o = [tasks[cur] EXCEPT !.state = obj.state, !.downAt = obj.downAt,
                                        !.upAt = obj.upAt]
    OBVIOUS
  <2>2. pc = "status" /\ UpdateAndReturn(o) /\ UNCHANGED <<launches, succeeded>>
    BY <1>5, <2>1 DEF WriteStatus, UpdateAndReturn
  <2>3. CASE ~Fresh
    BY <1>d, <2>2, <2>3 DEF UpdateAndReturn
  <2>4. CASE Fresh
    <3>1. /\ o \in TaskRecord /\ o.state = obj.state /\ o.exists = tasks[cur].exists
          /\ o.deleting => o.finalizer
      BY <1>a, <1>c, <2>1, <2>2 DEF TaskRecord
    <3>2. SameButStatus(obj, tasks[cur]) /\ Successor(cur, tasks[cur].state, obj.state)
      BY <2>2, <2>4 DEF LifecycleInv, CopiesAreVersions, WorkerOnTrack
    <3>3. tasks[cur].exists
      BY <1>a, <2>2, <3>2 DEF SameButStatus, TaskRecord
    <3>4. tasks' = [tasks EXCEPT ![cur] = Stored(tasks[cur], o)]
      BY <2>2, <2>4 DEF UpdateAndReturn
    <3>5. CASE obj.state = tasks[cur].state
      <4>1. Phase' = Phase
        BY <1>a, <2>2, <3>1, <3>3, <3>4, <3>5, WriteUnseen
      <4> QED BY <2>2, <4>1, LaunchedSame DEF LifecycleUnchanged
    <3>6. CASE obj.state # tasks[cur].state
      <4>1. PICK r : r = Stored(tasks[cur], o)
        OBVIOUS
      <4>2. r \in {o, [o EXCEPT !.rv = tasks[cur].rv + 1]}
        BY <3>1, <4>1 DEF Stored
      <4>3. r.exists /\ r.state = obj.state
        BY <3>1, <3>3, <4>2 DEF TaskRecord
      <4>4. Phase[cur] = tasks[cur].state /\ Phase' = [Phase EXCEPT ![cur] = obj.state]
        <5>1. tasks' = [tasks EXCEPT ![cur] = r]
          BY <3>4, <4>1
        <5>2. PhaseOf(r) = obj.state /\ PhaseOf(tasks[cur]) = tasks[cur].state
          BY <3>3, <4>3 DEF PhaseOf
        <5>3. TypeOK /\ cur \in Tasks
          BY <1>a, <2>2 DEF TypeOK
        <5>4. Phase[cur] = PhaseOf(tasks[cur]) /\ Phase' = [Phase EXCEPT ![cur] = PhaseOf(r)]
          BY <5>1, <5>3, PhaseWrite
        <5> QED BY <5>2, <5>4
      <4>5. Lifecycle!Move(cur, tasks[cur].state, obj.state)
        BY <2>2, <4>4, LaunchedSame DEF Lifecycle!Move
      <4>6. launches[cur] > 0 => cur \in Launched
        BY <1>a, <2>2 DEF Launched
      <4> QED BY <1>a, <2>2, <3>2, <3>6, <4>5, <4>6
              DEF Successor, Lifecycle!BeginScaleDown, Lifecycle!FinishScaleDown,
                  Lifecycle!ObserveRunning, Lifecycle!ObserveSuccess,
                  Lifecycle!ObserveFailure, Lifecycle!FinishScaleUp
    <3> QED BY <3>5, <3>6
  <2> QED BY <2>3, <2>4
<1>6. CASE Start
  <2>1. pc = "fetched" /\ obj.state = "Starting" /\ UNCHANGED <<tasks, succeeded>>
    BY <1>6 DEF Start
  <2>2. CASE UNCHANGED launches
    BY <1>d, <2>1, <2>2
  <2>3. CASE ~UNCHANGED launches
    <3>1. launches' = [launches EXCEPT ![cur] = @ + 1]
      BY <1>6, <2>3 DEF Start
    <3>2. Launched' = Launched \cup {cur} /\ Phase' = Phase
      BY <1>a, <2>1, <3>1, PhaseSame DEF Launched, TypeOK
    <3>3. CASE launches[cur] > 0
      <4>1. Launched' = Launched
        BY <1>a, <2>1, <3>2, <3>3 DEF Launched
      <4> QED BY <2>1, <3>2, <4>1 DEF LifecycleUnchanged
    <3>4. CASE launches[cur] = 0
      <4>1. tasks[cur].exists /\ tasks[cur].state = "Starting"
        BY <1>a, <2>1, <3>4 DEF StartInv, StartIsFirst, Begun
      <4>2. Phase[cur] = "Starting"
        BY <1>a, <2>1, <4>1 DEF Phase, PhaseOf
      <4> QED BY <1>a, <2>1, <3>2, <4>2 DEF Lifecycle!Launch
    <3>5. launches[cur] \in Nat
      BY <1>a, <2>1 DEF TypeOK
    <3> QED BY <3>3, <3>4, <3>5
  <2> QED BY <2>2, <2>3
<1>7. CASE \/ InitTask \/ SkipScaleDown \/ MarkScaledDown \/ AwaitScaleDown \/ UpdateTaskStatus
           \/ SkipScaleUp \/ BeginScaleUp \/ AwaitScaleUp \/ NothingToDo \/ Abort
  <2>1. UNCHANGED <<tasks, launches, succeeded>>
    BY <1>7 DEF InitTask, SkipScaleDown, MarkScaledDown, AwaitScaleDown, UpdateTaskStatus,
                SkipScaleUp, BeginScaleUp, AwaitScaleUp, NothingToDo, Abort
  <2> QED BY <1>d, <2>1
<1>8. ASSUME NEW w \in Workloads, PatchDown(w) \/ PatchUp(w) \/ PodStep(w)
      PROVE  LifecycleUnchanged
  BY <1>8, <1>d DEF PatchDown, PatchUp, PodStep
<1>9. ASSUME NEW t \in Tasks, Fetch(t) \/ SyncTask(t) \/ SyncJob(t) \/ ExpireJob(t)
      PROVE  LifecycleUnchanged
  BY <1>9, <1>d DEF Fetch, SyncTask, SyncJob, ExpireJob
<1>10. ASSUME NEW t \in Tasks, FinishJob(t)
       PROVE  LifecycleUnchanged \/ Lifecycle!JobSucceeds(t)
  <2>1. UNCHANGED <<tasks, launches>> /\ succeeded' \in {succeeded, succeeded \cup {t}}
    BY <1>10 DEF FinishJob
  <2>2. t \in Launched
    BY <1>10 DEF FinishJob, LifecycleInv, HistoryAgrees, Launched
  <2>3. UNCHANGED <<Phase, Launched>>
    BY <2>1, PhaseSame, LaunchedSame
  <2> QED BY <2>1, <2>2, <2>3 DEF LifecycleUnchanged, Lifecycle!JobSucceeds
<1>11. ASSUME NEW t \in Tasks, Create(t)
       PROVE  Lifecycle!Create(t)
  <2>1. PICK stop \in BOOLEAN, valid \in BOOLEAN :
          tasks' = [tasks EXCEPT ![t] = [Blank EXCEPT !.exists = TRUE, !.rv = 1,
                                                      !.stopPods = stop, !.valid = valid]]
    BY <1>11, ChoiceAssumption DEF Create
  <2>2. PICK r : r = [Blank EXCEPT !.exists = TRUE, !.rv = 1, !.stopPods = stop,
                                   !.valid = valid]
    OBVIOUS
  <2>3. r.exists /\ r.state = "Unset"
    BY <2>2 DEF Blank
  <2>4. ~tasks[t].exists /\ tasks[t].rv = 0 /\ UNCHANGED <<launches, succeeded>>
    BY <1>11 DEF Create, LifecycleInv, CopiesAreGuarded
  <2>5. Phase[t] = "Absent" /\ Phase' = [Phase EXCEPT ![t] = "Unset"]
    <3>1. tasks' = [tasks EXCEPT ![t] = r]
      BY <2>1, <2>2
    <3>2. PhaseOf(r) = "Unset" /\ PhaseOf(tasks[t]) = "Absent"
      BY <2>3, <2>4 DEF PhaseOf
    <3> QED BY <3>1, <3>2, PhaseWrite
  <2> QED BY <2>4, <2>5, LaunchedSame DEF Lifecycle!Create, Lifecycle!Move
<1>12. ASSUME NEW t \in Tasks, UserDelete(t)
       PROVE  LifecycleUnchanged \/ Lifecycle!Remove(t)
  <2>1. PICK o : o = [tasks[t] EXCEPT !.deleting = TRUE]
    OBVIOUS
  <2>2. tasks[t] \in TaskRecord /\ Guarded(tasks[t])
    BY DEF TypeOK, LifecycleInv, WorkIsGuarded
  <2>3. /\ o \in TaskRecord /\ o.state = tasks[t].state /\ o.finalizer = tasks[t].finalizer
        /\ o.exists = tasks[t].exists /\ o.deleting = TRUE
    BY <2>1, <2>2 DEF TaskRecord
  <2>4. /\ tasks' = [tasks EXCEPT ![t] = Stored(tasks[t], o)] /\ tasks[t].exists
        /\ ~tasks[t].deleting /\ UNCHANGED <<launches, succeeded>>
    BY <1>12, <2>1 DEF UserDelete
  <2>5. CASE o.finalizer
    <3>1. Phase' = Phase
      BY <2>2, <2>3, <2>4, <2>5, WriteUnseen
    <3> QED BY <2>4, <3>1, LaunchedSame DEF LifecycleUnchanged
  <2>6. CASE ~o.finalizer
    <3>1. tasks[t].state \in {"Unset", "Completed", "Failed"}
      BY <2>2, <2>3, <2>4, <2>6 DEF Guarded, IsFinished, Finished
    <3> QED BY <2>3, <2>4, <2>6, <3>1, WriteRemoves
  <2> QED BY <2>5, <2>6
<1>13. CASE UNCHANGED vars
  BY <1>13, <1>d DEF vars
<1> QED
  BY <1>1, <1>2, <1>3, <1>4, <1>5, <1>6, <1>7, <1>8, <1>9, <1>10, <1>11, <1>12, <1>13, <1>a
     DEF Next, WorkerStep

(* Every behaviour of the controller, whatever fails, is one of TaskLifecycle. *)
THEOREM ContractHolds == Spec => Contract
<1>1. Spec => [](LifecycleInv /\ StartInv)
  BY LifecycleHolds, StartHolds, PTL DEF StartInv
<1> QED BY <1>1, ContractInit, ContractStep, PTL
        DEF Spec, Contract, Lifecycle!Spec, Lifecycle!lifecycleVars

-----------------------------------------------------------------------------
(* What TaskLifecycle guarantees of every behaviour is true of this one. *)

LP == INSTANCE TaskLifecycle_proofs WITH phase <- Phase, launched <- Launched

(* The state of a Task claims no more than what its Jobs have done.         *)
THEOREM TruthHoldsHere == Spec => []StateIsTruthful
<1>1. Lifecycle!Init => LP!Init
  BY DEF Lifecycle!Init, LP!Init
<1>2. [Lifecycle!Next]_(Lifecycle!lifecycleVars) => [LP!Next]_(LP!lifecycleVars)
  BY DEF Lifecycle!Next, LP!Next, Lifecycle!lifecycleVars, LP!lifecycleVars,
         Lifecycle!Create, LP!Create, Lifecycle!Move, LP!Move,
         Lifecycle!BeginScaleDown, LP!BeginScaleDown,
         Lifecycle!FinishScaleDown, LP!FinishScaleDown, Lifecycle!Launch, LP!Launch,
         Lifecycle!JobSucceeds, LP!JobSucceeds, Lifecycle!ObserveRunning, LP!ObserveRunning,
         Lifecycle!ObserveSuccess, LP!ObserveSuccess, Lifecycle!ObserveFailure,
         LP!ObserveFailure, Lifecycle!FinishScaleUp, LP!FinishScaleUp,
         Lifecycle!Remove, LP!Remove
<1>3. LP!StateIsTruthful => StateIsTruthful
  BY DEF LP!StateIsTruthful, StateIsTruthful, Lifecycle!StateIsTruthful
<1> QED BY <1>1, <1>2, <1>3, ContractHolds, LP!TruthHolds, PTL
        DEF Contract, Lifecycle!Spec, LP!Spec

-----------------------------------------------------------------------------
(***************************************************************************)
(* The Jobs of Tasks: at most one Job per Task, watched until it ends, and *)
(* no success reported as a failure, each but for the adverse events it    *)
(* takes to break it.  They rest on JobInv.                                *)
(***************************************************************************)
JobParts == /\ LaunchesRecorded
            /\ MovedFromCache
            /\ StartNotRepeated
            /\ JobExpected
            /\ JobWatched
            /\ SuccessSeen

(* What has been spared so far was spared before, and an adverse event that *)
(* has just happened was not spared.                                        *)
StillSpared == \A kinds \in SUBSET FaultKinds : Spared(kinds)' => Spared(kinds)

LEMMA SparedUnchanged == UNCHANGED faults => StillSpared
BY DEF StillSpared, Spared

LEMMA SparedCharge ==
  ASSUME TypeOK, NEW kind \in FaultKinds, NEW bad \in BOOLEAN, Charge(kind, bad)
  PROVE  /\ StillSpared
         /\ \A kinds \in SUBSET FaultKinds : bad /\ Spared(kinds)' => kind \notin kinds
<1>1. CASE ~bad
  BY <1>1, SparedUnchanged DEF Charge
<1>2. CASE bad
  <2>1. faults' = Append(faults, kind) /\ faults \in Seq(FaultKinds)
    BY <1>2 DEF Charge, TypeOK
  <2>2. /\ DOMAIN faults' = 1 .. Len(faults) + 1 /\ DOMAIN faults = 1 .. Len(faults)
        /\ Len(faults) \in Nat /\ faults'[Len(faults) + 1] = kind
        /\ \A i \in 1 .. Len(faults) : faults'[i] = faults[i]
    BY <2>1
  <2>3. DOMAIN faults \subseteq DOMAIN faults' /\ Len(faults) + 1 \in DOMAIN faults'
    BY <2>2
  <2>4. StillSpared
    BY <2>2, <2>3 DEF StillSpared, Spared
  <2>5. \A kinds \in SUBSET FaultKinds : Spared(kinds)' => kind \notin kinds
    BY <2>2, <2>3 DEF Spared
  <2> QED BY <2>4, <2>5
<1> QED BY <1>1, <1>2

(* The sets of faults of the properties.                                    *)
LEMMA SparedSets ==
  /\ {"expire"} \in SUBSET FaultKinds /\ {"staleJob"} \in SUBSET FaultKinds
  /\ {"staleJob", "expire"} \in SUBSET FaultKinds
  /\ Spared({"staleJob", "expire"}) => Spared({"staleJob"}) /\ Spared({"expire"})
  /\ Spared({"staleJob", "expire"})' => Spared({"staleJob"})' /\ Spared({"expire"})'
BY DEF FaultKinds, Spared

LEMMA StillSparedSets ==
  StillSpared => /\ Spared({"expire"})' => Spared({"expire"})
                 /\ Spared({"staleJob"})' => Spared({"staleJob"})
                 /\ Spared({"staleJob", "expire"})' => Spared({"staleJob", "expire"})
BY SparedSets DEF StillSpared

-----------------------------------------------------------------------------
(* Steps, by what they change. *)

(* Neither a Task nor a Job.                                                *)
LEMMA JobQuiet ==
  ASSUME TypeOK, JobParts, StillSpared, UNCHANGED <<tasks, cache, jobs, launches, succeeded>>,
         pc' \in {"idle", "scaleDown", "scaleUp"} \/ UNCHANGED <<pc, cur, obj>>
  PROVE  JobParts'
<1> USE StillSparedSets DEF JobParts
<1>1. LaunchesRecorded'
  BY DEF LaunchesRecorded
<1>2. MovedFromCache' /\ StartNotRepeated'
  BY DEF MovedFromCache, StartNotRepeated, Fresh, AtJob
<1>3. JobExpected'
  BY DEF JobExpected, AtJob
<1>4. JobWatched'
  BY DEF JobWatched, AtJob, Fresh
<1>5. SuccessSeen'
  BY DEF SuccessSeen, AtJob, Fresh
<1> QED BY <1>1, <1>2, <1>3, <1>4, <1>5

(* A stage decides on a status.                                             *)
LEMMA JobStatus ==
  ASSUME TypeOK, JobParts, StillSpared, UNCHANGED <<tasks, cache, jobs, launches, succeeded>>,
         pc # "idle", NEW o \in TaskRecord, ToStatus(o), o.rv = obj.rv,
         pc = "fetched" \/ (Fresh => tasks[cur].state # "Running"),
         Spared({"staleJob"})' /\ Fresh /\ o.state \notin {"Starting", "Running"}
           => jobs[cur] # "active",
         Spared({"staleJob", "expire"})' /\ Fresh /\ o.state = "Failed"
           => jobs[cur] \in {"failed", "none"} /\ cur \notin succeeded
  PROVE  JobParts'
<1> USE StillSparedSets DEF JobParts
<1>0. cur' = cur /\ obj' = o /\ pc' = "status" /\ (Fresh' <=> Fresh)
  BY DEF ToStatus, Fresh
<1>1. LaunchesRecorded'
  BY DEF LaunchesRecorded
<1>2. MovedFromCache' /\ StartNotRepeated'
  BY <1>0 DEF MovedFromCache, StartNotRepeated, AtJob
<1>3. JobExpected'
  BY DEF JobExpected, AtJob
<1>4. JobWatched'
  BY <1>0 DEF JobWatched, AtJob
<1>5. SuccessSeen'
  BY <1>0 DEF SuccessSeen, AtJob
<1> QED BY <1>1, <1>2, <1>3, <1>4, <1>5

(* One Task.                                                                *)
LEMMA JobWrite ==
  ASSUME LifecycleInv, JobParts, NEW t \in Tasks, NEW r \in TaskRecord,
         tasks' = [tasks EXCEPT ![t] = r],
         UNCHANGED <<cache, jobs, launches, succeeded>>, StillSpared,
         r # tasks[t] => r.rv = tasks[t].rv + 1,
         \/ pc' \in {"idle", "scaleDown"}
         \/ UNCHANGED <<pc, cur, obj>>
         \/ pc' = "status" /\ cur' = t /\ r.state = "ScalingUp" /\ obj'.state # "Failed",
         ~r.exists => r.state = "Unset",
         launches[t] > 0 /\ r.exists => r.state \in Begun,
         launches[t] > 0 /\ ~AtJob(r) => /\ cache[t].state # "Starting"
                                         /\ pc' = "fetched" /\ cur = t => obj.state # "Starting",
         launches[t] > 0 /\ AtJob(r) => AtJob(tasks[t]),
         Spared({"staleJob"}) /\ jobs[t] = "active" => AtJob(r),
         Spared({"staleJob", "expire"}) /\ t \in succeeded => r.state # "Failed"
  PROVE  JobParts'
<1> USE DEF JobParts
<1> TypeOK
  BY DEF LifecycleInv
<1>s. /\ Spared({"expire"})' => Spared({"expire"})
      /\ Spared({"staleJob"})' => Spared({"staleJob"})
      /\ Spared({"staleJob", "expire"})' => Spared({"staleJob", "expire"})
  BY StillSparedSets
<1>u. \A u \in Tasks : tasks'[u] = IF u = t THEN r ELSE tasks[u]
  BY DEF TypeOK
<1>v. tasks[t].rv \in Nat /\ r.rv \in Nat /\ (pc # "idle" => cur \in Tasks /\ obj.rv \in Nat)
  BY DEF TypeOK, TaskRecord
<1>w. UNCHANGED <<pc, cur, obj>> /\ pc # "idle" =>
        /\ Fresh' => Fresh /\ tasks'[cur] = tasks[cur]
  BY <1>u, <1>v DEF LifecycleInv, CopiesAreVersions, Fresh
<1>1. LaunchesRecorded'
  BY <1>u, <1>v DEF LaunchesRecorded
<1>2. MovedFromCache'
  BY <1>u, <1>w DEF MovedFromCache
<1>3. StartNotRepeated'
  <2> SUFFICES ASSUME NEW u \in Tasks, launches[u] > 0, ~AtJob(tasks'[u])
               PROVE  /\ cache[u].state # "Starting"
                      /\ pc' = "fetched" /\ cur' = u => obj'.state # "Starting"
    BY DEF StartNotRepeated, AtJob
  <2>1. pc' = "fetched" => UNCHANGED <<pc, cur, obj>>
    OBVIOUS
  <2>2. CASE u = t
    BY <1>u, <2>1, <2>2
  <2>3. CASE u # t
    BY <1>u, <2>1, <2>3 DEF StartNotRepeated
  <2> QED BY <2>2, <2>3
<1>4. JobExpected'
  BY <1>s, <1>u DEF JobExpected, AtJob
<1>5. JobWatched'
  <2> SUFFICES ASSUME Spared({"staleJob"})
               PROVE  /\ \A u \in Tasks : jobs[u] = "active" => AtJob(tasks'[u])
                      /\ (pc = "status" /\ Fresh /\ obj.state \notin {"Starting", "Running"}
                            => jobs[cur] # "active")'
    BY <1>s DEF JobWatched, AtJob
  <2>1. \A u \in Tasks : jobs[u] = "active" => AtJob(tasks'[u])
    BY <1>u DEF JobWatched
  <2>2. CASE UNCHANGED <<pc, cur, obj>>
    BY <1>w, <2>1, <2>2 DEF JobWatched
  <2>3. CASE pc' = "status" /\ cur' = t /\ r.state = "ScalingUp"
    BY <1>u, <2>1, <2>3 DEF AtJob
  <2> QED BY <2>1, <2>2, <2>3
<1>6. SuccessSeen'
  <2> SUFFICES ASSUME Spared({"staleJob", "expire"})
               PROVE  /\ \A u \in succeeded :
                           /\ jobs[u] = "succeeded" \/ (jobs[u] = "none" /\ ~AtJob(tasks'[u]))
                           /\ tasks'[u].state # "Failed"
                      /\ (pc = "status" /\ Fresh /\ obj.state = "Failed"
                            => jobs[cur] \in {"failed", "none"} /\ cur \notin succeeded)'
    BY <1>s DEF SuccessSeen, AtJob
  <2>1. ASSUME NEW u \in succeeded
        PROVE  /\ jobs[u] = "succeeded" \/ (jobs[u] = "none" /\ ~AtJob(tasks'[u]))
               /\ tasks'[u].state # "Failed"
    BY <1>u DEF SuccessSeen, TypeOK, LaunchesRecorded
  <2>2. (pc = "status" /\ Fresh /\ obj.state = "Failed"
           => jobs[cur] \in {"failed", "none"} /\ cur \notin succeeded)'
    BY <1>w DEF SuccessSeen
  <2> QED BY <2>1, <2>2
<1> QED BY <1>1, <1>2, <1>3, <1>4, <1>5, <1>6

-----------------------------------------------------------------------------
(* Every step. *)

(* What the worker knows of the Task it holds, when its copy is fresh.      *)
LEMMA HeldFacts ==
  ASSUME LifecycleInv, pc # "idle"
  PROVE  /\ cur \in Tasks /\ tasks[cur] \in TaskRecord /\ obj \in TaskRecord
         /\ obj.exists /\ Guarded(obj)
         /\ pc # "status" /\ Fresh => obj = tasks[cur]
BY DEF LifecycleInv, TypeOK, CopiesAreGuarded, CopiesAreVersions

(* A Task past its preparation that is not at its Job has none to launch.   *)
LEMMA NoLaunchBehind ==
  ASSUME LifecycleInv, StartInv, JobParts, pc = "fetched", obj.state = "Starting"
  PROVE  AtJob(tasks[cur])
<1>1. cur \in Tasks /\ obj.exists /\ launches[cur] \in Nat
  BY HeldFacts DEF LifecycleInv, TypeOK
<1>2. CASE launches[cur] = 0
  BY <1>1, <1>2 DEF StartInv, StartIsFirst, Begun, AtJob
<1>3. CASE launches[cur] > 0
  BY <1>1, <1>3 DEF JobParts, StartNotRepeated
<1> QED BY <1>1, <1>2, <1>3

(* The object the API server keeps of one that holds its finalizer.         *)
LEMMA StoredState ==
  ASSUME NEW old \in TaskRecord, NEW o \in TaskRecord, o.deleting => o.finalizer
  PROVE  Stored(old, o).exists = o.exists /\ Stored(old, o).state = o.state
<1>1. Stored(old, o) \in {o, [o EXCEPT !.rv = old.rv + 1]}
  BY DEF Stored
<1> QED BY <1>1 DEF TaskRecord

(* A write that leaves the state of its Task as it is.                      *)
LEMMA JobSameState ==
  ASSUME LifecycleInv, JobParts, NEW t \in Tasks, NEW r \in TaskRecord,
         tasks' = [tasks EXCEPT ![t] = r],
         UNCHANGED <<cache, jobs, launches, succeeded>>, StillSpared,
         r # tasks[t] => r.rv = tasks[t].rv + 1,
         \/ pc' \in {"idle", "scaleDown"}
         \/ UNCHANGED <<pc, cur, obj>>
         \/ pc' = "status" /\ cur' = t /\ r.state = "ScalingUp" /\ obj'.state # "Failed",
         \/ r.exists = tasks[t].exists /\ r.state = tasks[t].state
         \/ ~r.exists /\ r.state = "Unset" /\ ~AtJob(tasks[t])
  PROVE  JobParts'
<1>1. AtJob(r) => AtJob(tasks[t])
  BY DEF AtJob
<1>2. ~AtJob(r) => ~AtJob(tasks[t])
  BY DEF AtJob
<1>0. ~r.exists => r.state = "Unset"
  BY DEF JobParts, LaunchesRecorded
<1>3. launches[t] > 0 /\ r.exists => r.state \in Begun
  BY DEF JobParts, LaunchesRecorded
<1>4. launches[t] > 0 /\ ~AtJob(r) => /\ cache[t].state # "Starting"
                                      /\ pc' = "fetched" /\ cur = t => obj.state # "Starting"
  BY <1>2 DEF JobParts, StartNotRepeated
<1>5. Spared({"staleJob"}) /\ jobs[t] = "active" => AtJob(r)
  BY <1>2 DEF JobParts, JobWatched
<1>6. Spared({"staleJob", "expire"}) /\ t \in succeeded => r.state # "Failed"
  BY DEF JobParts, SuccessSeen
<1> QED BY <1>0, <1>1, <1>3, <1>4, <1>5, <1>6, JobWrite

LEMMA JobInit == Init => JobParts
BY DEF Init, Blank, JobParts, LaunchesRecorded, MovedFromCache, StartNotRepeated, JobExpected,
       JobWatched, SuccessSeen

(* The worker writes with a copy and ends, the state as it was.             *)
LEMMA JobUpdate ==
  ASSUME LifecycleInv, StartInv, JobParts, pc = "fetched", NEW o \in TaskRecord,
         UpdateAndReturn(o), o.exists = obj.exists, o.state = obj.state,
         o.deleting = obj.deleting, o.finalizer \/ ~AtJob(obj)
  PROVE  JobParts'
<1>0. TypeOK /\ StillSpared /\ pc' = "idle"
      /\ UNCHANGED <<cache, jobs, launches, succeeded, faults>>
  BY SparedUnchanged DEF LifecycleInv, UpdateAndReturn, Idle
<1>1. CASE ~Fresh
  BY <1>0, <1>1, JobQuiet DEF UpdateAndReturn
<1>2. CASE Fresh
  <2>1. PICK r : r = Stored(tasks[cur], o)
    OBVIOUS
  <2>2. cur \in Tasks /\ tasks[cur] \in TaskRecord /\ obj = tasks[cur]
    BY <1>2, HeldFacts
  <2>3. r \in TaskRecord /\ (r # tasks[cur] => r.rv = tasks[cur].rv + 1)
    BY <2>1, <2>2, StoredType
  <2>4. tasks' = [tasks EXCEPT ![cur] = r]
    BY <1>2, <2>1 DEF UpdateAndReturn
  <2>5. CASE o.deleting /\ ~o.finalizer /\ o # tasks[cur]
    <3>1. ~r.exists /\ r.state = "Unset"
      BY <2>1, <2>5 DEF Stored, Blank
    <3> QED BY <1>0, <2>2, <2>3, <2>4, <2>5, <3>1, JobSameState
  <2>6. CASE ~(o.deleting /\ ~o.finalizer /\ o # tasks[cur])
    <3>1. r \in {o, [o EXCEPT !.rv = tasks[cur].rv + 1]}
      BY <2>1, <2>6 DEF Stored
    <3>2. r.exists = tasks[cur].exists /\ r.state = tasks[cur].state
      BY <2>2, <3>1 DEF TaskRecord
    <3> QED BY <1>0, <2>2, <2>3, <2>4, <3>2, JobSameState
  <2> QED BY <2>5, <2>6
<1> QED BY <1>1, <1>2

(* The status the worker writes last.                                       *)
LEMMA JobWriteStatus ==
  ASSUME LifecycleInv, StartInv, JobParts, WriteStatus
  PROVE  JobParts'
<1> TypeOK
  BY DEF LifecycleInv
<1>0. PICK o : o = [tasks[cur] EXCEPT !.state = obj.state, !.downAt = obj.downAt,
                                      !.upAt = obj.upAt]
  OBVIOUS
<1>1. /\ pc = "status" /\ pc' = "idle" /\ UpdateAndReturn(o)
      /\ UNCHANGED <<cache, jobs, launches, succeeded, faults>>
  BY <1>0 DEF WriteStatus, UpdateAndReturn, Idle
<1>2. cur \in Tasks /\ tasks[cur] \in TaskRecord /\ obj \in TaskRecord /\ obj.exists
  BY <1>1, HeldFacts
<1>3. CASE ~Fresh
  BY <1>1, <1>3, SparedUnchanged, JobQuiet DEF UpdateAndReturn
<1>4. CASE Fresh
  <2>1. PICK r : r = Stored(tasks[cur], o)
    OBVIOUS
  <2>2. /\ o \in TaskRecord /\ o.state = obj.state /\ o.exists = tasks[cur].exists
        /\ o.deleting => o.finalizer
    BY <1>0, <1>2 DEF TaskRecord, StartInv, DeletionWaits
  <2>3. r \in TaskRecord /\ (r # tasks[cur] => r.rv = tasks[cur].rv + 1)
    BY <1>2, <2>1, <2>2, StoredType
  <2>4. tasks' = [tasks EXCEPT ![cur] = r]
    BY <1>1, <1>4, <2>1 DEF UpdateAndReturn
  <2>5. SameButStatus(obj, tasks[cur]) /\ Successor(cur, tasks[cur].state, obj.state)
    BY <1>1, <1>4 DEF LifecycleInv, CopiesAreVersions, WorkerOnTrack
  <2>6. r.exists /\ tasks[cur].exists /\ r.state = obj.state
    BY <1>2, <2>1, <2>2, <2>5, StoredState DEF SameButStatus, TaskRecord
  <2>7. CASE obj.state = tasks[cur].state
    BY <1>1, <1>2, <2>3, <2>4, <2>6, <2>7, SparedUnchanged, JobSameState
  <2>8. CASE obj.state # tasks[cur].state
    <3>1. launches[cur] > 0 => tasks[cur].state \in Begun
      BY <1>2, <2>6 DEF JobParts, LaunchesRecorded
    <3>2. launches[cur] > 0 => r.state \in Begun
      BY <2>5, <2>6, <3>1 DEF Successor, Begun
    <3>3. launches[cur] > 0 /\ AtJob(r) => AtJob(tasks[cur])
      BY <2>5, <2>6, <3>1 DEF Successor, Begun, AtJob
    <3>4. launches[cur] > 0 /\ ~AtJob(r) => cache[cur].state # "Starting"
      <4>1. CASE AtJob(tasks[cur])
        <5>1. ~AtJob(r) => tasks[cur].state = "Running"
          BY <2>5, <2>6, <4>1 DEF Successor, AtJob
        <5> QED BY <1>1, <1>4, <5>1 DEF JobParts, MovedFromCache
      <4>2. CASE ~AtJob(tasks[cur])
        BY <1>2, <4>2 DEF JobParts, StartNotRepeated
      <4> QED BY <4>1, <4>2
    <3>5. Spared({"staleJob"}) /\ jobs[cur] = "active" => AtJob(r)
      BY <1>1, <1>4, <2>6 DEF JobParts, JobWatched, AtJob
    <3>6. Spared({"staleJob", "expire"}) /\ cur \in succeeded => r.state # "Failed"
      BY <1>1, <1>4, <2>6 DEF JobParts, SuccessSeen
    <3> QED BY <1>1, <1>2, <2>3, <2>4, <2>6, <3>2, <3>3, <3>4, <3>5, <3>6, SparedUnchanged,
              JobWrite
  <2> QED BY <2>7, <2>8
<1> QED BY <1>3, <1>4

(* The one step that launches a Job.                                        *)
LEMMA JobStart ==
  ASSUME LifecycleInv, StartInv, JobParts, Start
  PROVE  JobParts'
<1> TypeOK
  BY DEF LifecycleInv
<1>0. /\ pc = "fetched" /\ obj.state = "Starting"
      /\ UNCHANGED <<tasks, cache, succeeded, faults>>
  BY DEF Start
<1>1. StillSpared
  BY <1>0, SparedUnchanged
<1>2. /\ cur \in Tasks /\ tasks[cur] \in TaskRecord /\ obj \in TaskRecord /\ obj.exists
      /\ AtJob(tasks[cur]) /\ launches[cur] \in Nat
  BY <1>0, HeldFacts, NoLaunchBehind DEF TypeOK
<1>3. PICK o : o = [obj EXCEPT !.state = "Running"]
  OBVIOUS
<1>4. o \in TaskRecord /\ o.rv = obj.rv /\ o.state = "Running"
  BY <1>2, <1>3 DEF TaskRecord, States
<1>5. CASE JobKnown
  <2>1. ToStatus(o) /\ UNCHANGED <<jobs, launches>>
    BY <1>3, <1>5 DEF Start
  <2> QED BY <1>0, <1>1, <1>4, <2>1, JobStatus
<1>6. CASE ~JobKnown /\ ~obj.valid
  <2>1. pc' = "idle" /\ UNCHANGED <<jobs, launches>>
    BY <1>6 DEF Start, Idle
  <2> QED BY <1>0, <1>1, <2>1, JobQuiet
<1>7. CASE ~JobKnown /\ obj.valid
  <2>1. /\ jobs' = [jobs EXCEPT ![cur] = "active"] /\ launches' = [launches EXCEPT ![cur] = @ + 1]
        /\ pc' = "status" /\ cur' = cur /\ obj' = o /\ jobs[cur] = "none"
    BY <1>3, <1>7 DEF Start, ToStatus, JobKnown
  <2>2. \A u \in Tasks : /\ jobs'[u] = IF u = cur THEN "active" ELSE jobs[u]
                         /\ launches'[u] = IF u = cur THEN launches[cur] + 1 ELSE launches[u]
    BY <1>2, <2>1 DEF TypeOK
  <2>3. Fresh' <=> Fresh
    BY <1>0, <1>4, <2>1 DEF Fresh
  <2>4. LaunchesRecorded'
    <3>1. tasks[cur].rv > 0 /\ tasks[cur].state \in Begun
      BY <1>2 DEF LifecycleInv, CopiesAreGuarded, AtJob, Begun
    <3> QED BY <1>0, <1>2, <2>2, <3>1 DEF JobParts, LaunchesRecorded
  <2>5. MovedFromCache'
    BY <1>0, <2>1, <2>3 DEF JobParts, MovedFromCache
  <2>6. StartNotRepeated'
    BY <1>0, <1>2, <2>1, <2>2 DEF JobParts, StartNotRepeated, AtJob
  <2>7. JobExpected'
    <3>1. Spared({"expire"}) => launches[cur] = 0
      BY <1>2, <2>1 DEF JobParts, JobExpected
    <3> QED BY <1>0, <1>1, <1>2, <2>2, <3>1, StillSparedSets DEF JobParts, JobExpected, AtJob
  <2>8. JobWatched'
    BY <1>0, <1>1, <1>2, <1>4, <2>1, <2>2, StillSparedSets DEF JobParts, JobWatched, AtJob
  <2>9. SuccessSeen'
    <3>1. Spared({"staleJob", "expire"}) => cur \notin succeeded
      BY <1>2, <2>1 DEF JobParts, SuccessSeen
    <3> QED BY <1>0, <1>1, <1>4, <2>1, <2>2, <3>1, StillSparedSets
            DEF JobParts, SuccessSeen, AtJob, TypeOK
  <2> QED BY <2>4, <2>5, <2>6, <2>7, <2>8, <2>9 DEF JobParts
<1> QED BY <1>5, <1>6, <1>7

LEMMA JobStep == LifecycleInv /\ StartInv /\ JobParts /\ [Next]_vars => JobParts'
<1> SUFFICES ASSUME LifecycleInv, StartInv, JobParts, [Next]_vars PROVE JobParts'
  OBVIOUS
<1> TypeOK
  BY DEF LifecycleInv
<1>a. pc # "idle" => /\ cur \in Tasks /\ tasks[cur] \in TaskRecord /\ obj \in TaskRecord
                     /\ obj.exists /\ Guarded(obj)
  BY HeldFacts
<1>b. pc # "idle" /\ pc # "status" /\ Fresh => obj = tasks[cur]
  BY HeldFacts
<1>c. UNCHANGED faults => StillSpared
  BY SparedUnchanged
<1>d. "abort" \in FaultKinds /\ "staleTask" \in FaultKinds /\ "staleJob" \in FaultKinds
      /\ "lookup" \in FaultKinds /\ "patchDown" \in FaultKinds /\ "patchUp" \in FaultKinds
      /\ "expire" \in FaultKinds
  BY DEF FaultKinds
<1>e. (pc # "idle" /\ pc # "status" /\ Fresh /\ Spared({"staleJob"}) /\ ~AtJob(obj))
        => jobs[cur] # "active"
  BY <1>a, <1>b DEF JobParts, JobWatched
<1>f. StillSpared => /\ Spared({"staleJob"})' => Spared({"staleJob"})
                     /\ Spared({"staleJob", "expire"})' => Spared({"staleJob", "expire"})
  BY StillSparedSets
<1>1. CASE RemoveFinalizerIfConditionMet
  <2>1. PICK o : o = [obj EXCEPT !.finalizer = FALSE]
    OBVIOUS
  <2>2. /\ pc = "fetched" /\ UpdateAndReturn(o) /\ obj.state \in Finished
    BY <1>1, <2>1 DEF RemoveFinalizerIfConditionMet, IsFinished
  <2>3. /\ o \in TaskRecord /\ o.exists = obj.exists /\ o.state = obj.state
        /\ o.deleting = obj.deleting /\ ~AtJob(obj)
    BY <1>a, <2>1, <2>2 DEF TaskRecord, AtJob, Finished
  <2> QED BY <2>2, <2>3, JobUpdate
<1>2. CASE InitResourceIfConditionMet
  <2>1. PICK o : o = [obj EXCEPT !.finalizer = TRUE]
    OBVIOUS
  <2>2. /\ pc = "fetched" /\ UpdateAndReturn(o)
    BY <1>2, <2>1 DEF InitResourceIfConditionMet
  <2>3. /\ o \in TaskRecord /\ o.exists = obj.exists /\ o.state = obj.state
        /\ o.deleting = obj.deleting /\ o.finalizer
    BY <1>a, <2>1, <2>2 DEF TaskRecord
  <2> QED BY <2>2, <2>3, JobUpdate
<1>3. CASE InitTask
  <2>1. PICK o : o = [obj EXCEPT !.state = "ScalingDown"]
    OBVIOUS
  <2>2. /\ pc = "fetched" /\ obj.state = "Unset" /\ ToStatus(o)
        /\ UNCHANGED <<tasks, cache, jobs, launches, succeeded, faults>>
    BY <1>3, <2>1 DEF InitTask
  <2>3. o \in TaskRecord /\ o.rv = obj.rv /\ o.state = "ScalingDown" /\ ~AtJob(obj)
    BY <1>a, <2>1, <2>2 DEF TaskRecord, States, AtJob
  <2> QED BY <1>c, <1>e, <1>f, <2>2, <2>3, JobStatus
<1>4. CASE SkipScaleDown
  <2>1. PICK o : o = [obj EXCEPT !.state = "Starting"]
    OBVIOUS
  <2>2. /\ pc = "fetched" /\ ToStatus(o)
        /\ UNCHANGED <<tasks, cache, jobs, launches, succeeded, faults>>
    BY <1>4, <2>1 DEF SkipScaleDown
  <2>3. o \in TaskRecord /\ o.rv = obj.rv /\ o.state = "Starting"
    BY <1>a, <2>1, <2>2 DEF TaskRecord, States
  <2> QED BY <1>c, <2>2, <2>3, JobStatus
<1>5. CASE RecordSizes
  <2>1. PICK found \in SUBSET Mounting :
          /\ Charge("lookup", found # Mounting)
          /\ \/ /\ found = {}
                /\ ToStatus([obj EXCEPT !.state = "Starting"])
                /\ UNCHANGED tasks
             \/ /\ found # {} /\ Fresh
                /\ LET o == Stored(tasks[cur], [obj EXCEPT !.orig = Recorded(found)]) IN
                     /\ tasks' = [tasks EXCEPT ![cur] = o]
                     /\ obj' = o
                /\ pc' = "scaleDown" /\ todo' = found
                /\ UNCHANGED <<cur, scaled>>
             \/ /\ found # {} /\ ~Fresh
                /\ Idle
                /\ UNCHANGED tasks
    BY <1>5 DEF RecordSizes
  <2>2. /\ pc = "fetched" /\ obj.state = "ScalingDown"
        /\ UNCHANGED <<cache, jobs, launches, succeeded>>
    BY <1>5 DEF RecordSizes
  <2>3. StillSpared
    BY <1>d, <2>1, SparedCharge
  <2>4. CASE found = {}
    <3>1. PICK o : o = [obj EXCEPT !.state = "Starting"]
      OBVIOUS
    <3>2. o \in TaskRecord /\ o.rv = obj.rv /\ o.state = "Starting"
      BY <1>a, <2>2, <3>1 DEF TaskRecord, States
    <3>3. ToStatus(o) /\ UNCHANGED tasks
      BY <2>1, <2>4, <3>1
    <3> QED BY <2>2, <2>3, <3>2, <3>3, JobStatus
  <2>5. CASE found # {} /\ ~Fresh
    <3>1. pc' = "idle" /\ UNCHANGED tasks
      BY <2>1, <2>5 DEF Idle
    <3> QED BY <2>2, <2>3, <3>1, JobQuiet
  <2>6. CASE found # {} /\ Fresh
    <3>1. PICK o : o = [obj EXCEPT !.orig = Recorded(found)]
      OBVIOUS
    <3>2. PICK r : r = Stored(tasks[cur], o)
      OBVIOUS
    <3>3. Recorded(found) \in [Workloads -> Nat \cup {NoSize}]
      BY DEF Recorded, TypeOK
    <3>4. o \in TaskRecord /\ o.finalizer /\ o.exists /\ o.state = "ScalingDown"
      BY <1>a, <2>2, <3>1, <3>3 DEF Guarded, IsFinished, Finished, TaskRecord
    <3>5. /\ r \in TaskRecord /\ (r # tasks[cur] => r.rv = tasks[cur].rv + 1)
          /\ r.exists /\ r.state = "ScalingDown"
      BY <1>a, <2>2, <3>2, <3>4, StoredType, StoredState
    <3>6. tasks' = [tasks EXCEPT ![cur] = r] /\ pc' = "scaleDown"
      BY <2>1, <2>6, <3>1, <3>2
    <3>7. obj = tasks[cur]
      BY <1>b, <2>2, <2>6
    <3> QED BY <1>a, <2>2, <2>3, <3>5, <3>6, <3>7, JobSameState
  <2> QED BY <2>4, <2>5, <2>6
<1>6. ASSUME NEW w \in Workloads, PatchDown(w)
      PROVE  JobParts'
  <2>1. PICK refused \in BOOLEAN : Charge("patchDown", refused)
    BY <1>6 DEF PatchDown
  <2>2. UNCHANGED <<tasks, cache, jobs, launches, succeeded, pc, cur, obj>>
    BY <1>6 DEF PatchDown
  <2> QED BY <1>d, <2>1, <2>2, SparedCharge, JobQuiet
<1>7. CASE MarkScaledDown
  <2>1. PICK o : o = [obj EXCEPT !.downAt = TRUE]
    OBVIOUS
  <2>2. /\ pc = "scaleDown" /\ obj.state = "ScalingDown" /\ ToStatus(o)
        /\ UNCHANGED <<tasks, cache, jobs, launches, succeeded, faults>>
    BY <1>7, <2>1 DEF MarkScaledDown, LifecycleInv, WorkerOnTrack
  <2>3. o \in TaskRecord /\ o.rv = obj.rv /\ o.state = "ScalingDown" /\ ~AtJob(obj)
    BY <1>a, <2>1, <2>2 DEF TaskRecord, AtJob
  <2>4. Fresh => tasks[cur].state # "Running"
    BY <1>b, <2>2
  <2> QED BY <1>c, <1>e, <1>f, <2>2, <2>3, <2>4, JobStatus
<1>8. CASE AwaitScaleDown
  <2>1. PICK found \in SUBSET Mounting :
          /\ Charge("lookup", found # Mounting)
          /\ ToStatus(IF DownComplete(found) THEN [obj EXCEPT !.state = "Starting"] ELSE obj)
    BY <1>8 DEF AwaitScaleDown
  <2>2. PICK o : o = IF DownComplete(found) THEN [obj EXCEPT !.state = "Starting"] ELSE obj
    OBVIOUS
  <2>3. /\ pc = "fetched" /\ obj.state = "ScalingDown" /\ ToStatus(o)
        /\ UNCHANGED <<tasks, cache, jobs, launches, succeeded>>
    BY <1>8, <2>1, <2>2 DEF AwaitScaleDown
  <2>4. /\ o \in TaskRecord /\ o.rv = obj.rv /\ o.state \in {"Starting", "ScalingDown"}
        /\ ~AtJob(obj)
    BY <1>a, <2>2, <2>3 DEF TaskRecord, States, AtJob
  <2>5. StillSpared
    BY <1>d, <2>1, SparedCharge
  <2> QED BY <1>e, <1>f, <2>3, <2>4, <2>5, JobStatus
<1>9. CASE Start
  BY <1>9, JobStart
<1>10. CASE UpdateTaskStatus
  <2>1. PICK o : o = [obj EXCEPT !.state = Verdict(jobCache[cur])]
    OBVIOUS
  <2>2. /\ pc = "fetched" /\ obj.state = "Running" /\ ToStatus(o)
        /\ Charge("staleJob", jobCache[cur] # jobs[cur])
        /\ UNCHANGED <<tasks, cache, jobs, launches, succeeded>>
    BY <1>10, <2>1 DEF UpdateTaskStatus
  <2>3. jobCache[cur] \in JobStates
    BY <1>a, <2>2 DEF TypeOK
  <2>4. o \in TaskRecord /\ o.rv = obj.rv /\ o.state = Verdict(jobCache[cur])
    BY <1>a, <2>1, <2>2, <2>3 DEF TaskRecord, States, Verdict, JobStates
  <2>5. StillSpared /\ (Spared({"staleJob"})' => jobCache[cur] = jobs[cur])
    BY <1>d, <2>2, SparedCharge, SparedSets
  <2>6. Spared({"staleJob"})' /\ o.state \notin {"Starting", "Running"} => jobs[cur] # "active"
    BY <2>3, <2>4, <2>5 DEF Verdict, JobStates
  <2>7. Spared({"staleJob", "expire"})' /\ Fresh /\ o.state = "Failed"
          => jobs[cur] \in {"failed", "none"} /\ cur \notin succeeded
    <3>1. Fresh => AtJob(tasks[cur])
      BY <1>a, <1>b, <2>2 DEF AtJob
    <3>2. Spared({"staleJob", "expire"})' /\ o.state = "Failed" => jobs[cur] \in {"failed", "none"}
      BY <2>3, <2>4, <2>5, SparedSets DEF Verdict, JobStates
    <3> QED BY <1>f, <2>5, <3>1, <3>2 DEF JobParts, SuccessSeen
  <2> QED BY <2>2, <2>4, <2>5, <2>6, <2>7, JobStatus
<1>11. CASE SkipScaleUp
  <2>1. PICK o : o = [obj EXCEPT !.state = "Completed"]
    OBVIOUS
  <2>2. /\ pc = "fetched" /\ obj.state = "ScalingUp" /\ ToStatus(o)
        /\ UNCHANGED <<tasks, cache, jobs, launches, succeeded, faults>>
    BY <1>11, <2>1 DEF SkipScaleUp
  <2>3. o \in TaskRecord /\ o.rv = obj.rv /\ o.state = "Completed" /\ ~AtJob(obj)
    BY <1>a, <2>1, <2>2 DEF TaskRecord, States, AtJob
  <2> QED BY <1>c, <1>e, <1>f, <2>2, <2>3, JobStatus
<1>12. CASE BeginScaleUp
  <2>1. UNCHANGED <<tasks, cache, jobs, launches, succeeded, faults>> /\ pc' = "scaleUp"
    BY <1>12 DEF BeginScaleUp
  <2> QED BY <1>c, <2>1, JobQuiet
<1>13. ASSUME NEW w \in Workloads, PatchUp(w)
       PROVE  JobParts'
  <2>1. PICK refused \in BOOLEAN : Charge("patchUp", refused)
    BY <1>13 DEF PatchUp
  <2>2. UNCHANGED <<tasks, cache, jobs, launches, succeeded, pc, cur, obj>>
    BY <1>13 DEF PatchUp
  <2> QED BY <1>d, <2>1, <2>2, SparedCharge, JobQuiet
<1>14. CASE ForgetSizes
  <2>1. /\ pc = "scaleUp" /\ obj.state = "ScalingUp"
        /\ UNCHANGED <<cache, jobs, launches, succeeded, faults>>
    BY <1>14 DEF ForgetSizes, LifecycleInv, WorkerOnTrack
  <2>2. CASE Fresh
    <3>1. PICK p : p = [obj EXCEPT !.orig = NoSizes]
      OBVIOUS
    <3>2. PICK r : r = Stored(tasks[cur], p)
      OBVIOUS
    <3>3. PICK o \in {[r EXCEPT !.upAt = TRUE], [r EXCEPT !.state = "Completed"]} : ToStatus(o)
      BY <1>14, <2>2, <3>1, <3>2 DEF ForgetSizes
    <3>4. tasks' = [tasks EXCEPT ![cur] = r]
      BY <1>14, <2>2, <3>1, <3>2 DEF ForgetSizes
    <3>5. p \in TaskRecord /\ p.finalizer /\ p.exists /\ p.state = "ScalingUp"
      BY <1>a, <2>1, <3>1 DEF Guarded, IsFinished, Finished, TaskRecord, NoSizes
    <3>6. /\ r \in TaskRecord /\ (r # tasks[cur] => r.rv = tasks[cur].rv + 1)
          /\ r.exists /\ r.state = "ScalingUp"
      BY <1>a, <2>1, <3>2, <3>5, StoredType, StoredState
    <3>7. o.state # "Failed"
      BY <3>3, <3>6 DEF TaskRecord
    <3>8. pc' = "status" /\ cur' = cur /\ obj' = o
      BY <3>3 DEF ToStatus
    <3>9. obj = tasks[cur]
      BY <1>b, <2>1, <2>2
    <3> QED BY <1>a, <1>c, <2>1, <3>4, <3>6, <3>7, <3>8, <3>9, JobSameState
  <2>3. CASE ~Fresh
    <3>1. pc' = "idle" /\ UNCHANGED tasks
      BY <1>14, <2>3 DEF ForgetSizes, Idle
    <3> QED BY <1>c, <2>1, <3>1, JobQuiet
  <2> QED BY <2>2, <2>3
<1>15. CASE AwaitScaleUp
  <2>1. PICK o : o = IF UpComplete(Mounting, obj) THEN [obj EXCEPT !.state = "Completed"] ELSE obj
    OBVIOUS
  <2>2. /\ pc = "fetched" /\ obj.state = "ScalingUp" /\ ToStatus(o)
        /\ UNCHANGED <<tasks, cache, jobs, launches, succeeded, faults>>
    BY <1>15, <2>1 DEF AwaitScaleUp
  <2>3. /\ o \in TaskRecord /\ o.rv = obj.rv /\ o.state \in {"Completed", "ScalingUp"}
        /\ ~AtJob(obj)
    BY <1>a, <2>1, <2>2 DEF TaskRecord, States, AtJob
  <2> QED BY <1>c, <1>e, <1>f, <2>2, <2>3, JobStatus
<1>16. CASE WriteStatus
  BY <1>16, JobWriteStatus
<1>17. CASE NothingToDo
  <2>1. UNCHANGED <<tasks, cache, jobs, launches, succeeded, faults>> /\ pc' = "idle"
    BY <1>17 DEF NothingToDo, Idle
  <2> QED BY <1>c, <2>1, JobQuiet
<1>18. CASE Abort
  <2>1. UNCHANGED <<tasks, cache, jobs, launches, succeeded>> /\ pc' = "idle"
        /\ Charge("abort", TRUE)
    BY <1>18 DEF Abort, Idle
  <2> QED BY <1>d, <2>1, SparedCharge, JobQuiet
<1>19. ASSUME NEW t \in Tasks, Fetch(t)
       PROVE  JobParts'
  <2>1. /\ pc' = "fetched" /\ cur' = t /\ obj' = cache[t]
        /\ UNCHANGED <<tasks, cache, jobs, launches, succeeded>>
    BY <1>19 DEF Fetch
  <2>2. StillSpared
    BY <1>19, <1>d, SparedCharge DEF Fetch
  <2>3. LaunchesRecorded' /\ StartNotRepeated'
    BY <2>1 DEF JobParts, LaunchesRecorded, StartNotRepeated, AtJob
  <2>4. MovedFromCache'
    BY <2>1 DEF MovedFromCache, Fresh, LifecycleInv, CopiesAreVersions
  <2>5. JobExpected' /\ JobWatched' /\ SuccessSeen'
    BY <2>1, <2>2, StillSparedSets DEF JobParts, JobExpected, JobWatched, SuccessSeen, AtJob
  <2> QED BY <2>3, <2>4, <2>5 DEF JobParts
<1>20. ASSUME NEW t \in Tasks, Create(t)
       PROVE  JobParts'
  <2>1. PICK stop \in BOOLEAN, valid \in BOOLEAN :
          tasks' = [tasks EXCEPT ![t] = [Blank EXCEPT !.exists = TRUE, !.rv = 1,
                                                      !.stopPods = stop, !.valid = valid]]
    BY <1>20, ChoiceAssumption DEF Create
  <2>2. PICK r : r = [Blank EXCEPT !.exists = TRUE, !.rv = 1, !.stopPods = stop,
                                   !.valid = valid]
    OBVIOUS
  <2>3. r \in TaskRecord /\ r.state = "Unset" /\ r.rv = 1
    BY <2>2, BlankType DEF TaskRecord, Blank
  <2>4. /\ tasks[t].rv = 0 /\ ~tasks[t].exists
        /\ UNCHANGED <<cache, jobs, launches, succeeded, faults, pc, cur, obj>>
    BY <1>20 DEF Create, LifecycleInv, CopiesAreGuarded
  <2>5. ~(launches[t] > 0) /\ t \notin succeeded /\ ~AtJob(r)
    BY <2>3, <2>4 DEF JobParts, LaunchesRecorded, AtJob
  <2>6. Spared({"staleJob"}) => jobs[t] # "active"
    BY <2>4 DEF JobParts, JobWatched, AtJob
  <2>7. tasks' = [tasks EXCEPT ![t] = r] /\ (r # tasks[t] => r.rv = tasks[t].rv + 1)
    BY <2>1, <2>2, <2>3, <2>4
  <2> QED BY <1>c, <2>3, <2>4, <2>5, <2>6, <2>7, JobWrite
<1>21. ASSUME NEW t \in Tasks, UserDelete(t)
       PROVE  JobParts'
  <2>1. PICK o : o = [tasks[t] EXCEPT !.deleting = TRUE]
    OBVIOUS
  <2>2. PICK r : r = Stored(tasks[t], o)
    OBVIOUS
  <2>3. tasks[t] \in TaskRecord /\ Guarded(tasks[t])
    BY DEF TypeOK, LifecycleInv, WorkIsGuarded
  <2>4. /\ o \in TaskRecord /\ o.state = tasks[t].state /\ o.finalizer = tasks[t].finalizer
        /\ o.exists = tasks[t].exists /\ o.deleting
    BY <2>1, <2>3 DEF TaskRecord
  <2>5. /\ tasks' = [tasks EXCEPT ![t] = r] /\ tasks[t].exists
        /\ UNCHANGED <<cache, jobs, launches, succeeded, faults, pc, cur, obj>>
    BY <1>21, <2>1, <2>2 DEF UserDelete
  <2>6. r \in TaskRecord /\ (r # tasks[t] => r.rv = tasks[t].rv + 1)
    BY <2>2, <2>3, <2>4, StoredType
  <2>7. \/ r.exists = tasks[t].exists /\ r.state = tasks[t].state
        \/ ~r.exists /\ r.state = "Unset" /\ ~AtJob(tasks[t])
    <3>1. CASE o.finalizer
      BY <2>2, <2>3, <2>4, <3>1, StoredState
    <3>2. CASE ~o.finalizer
      <4>1. ~AtJob(tasks[t])
        BY <2>3, <2>4, <2>5, <3>2 DEF Guarded, AtJob, Finished
      <4>2. r \in {o, [Blank EXCEPT !.rv = tasks[t].rv + 1]}
        BY <2>2, <2>4, <3>2 DEF Stored
      <4> QED BY <2>4, <4>1, <4>2 DEF Blank
    <3> QED BY <3>1, <3>2
  <2> QED BY <1>c, <2>5, <2>6, <2>7, JobSameState
<1>22. ASSUME NEW t \in Tasks, SyncTask(t)
       PROVE  JobParts'
  <2>1. /\ cache' = [cache EXCEPT ![t] = tasks[t]]
        /\ UNCHANGED <<tasks, jobs, launches, succeeded, faults, pc, cur, obj>>
    BY <1>22 DEF SyncTask
  <2>2. \A u \in Tasks : cache'[u] \in {cache[u], tasks[u]}
    BY <2>1 DEF TypeOK
  <2>3. LaunchesRecorded' /\ JobExpected' /\ JobWatched' /\ SuccessSeen'
    BY <2>1 DEF JobParts, LaunchesRecorded, JobExpected, JobWatched, SuccessSeen, AtJob, Fresh,
                Spared
  <2>4. MovedFromCache'
    BY <1>a, <2>1, <2>2 DEF JobParts, MovedFromCache, Fresh
  <2>5. StartNotRepeated'
    <3> SUFFICES ASSUME NEW u \in Tasks, launches[u] > 0, ~AtJob(tasks[u])
                 PROVE  /\ cache'[u].state # "Starting"
                        /\ pc = "fetched" /\ cur = u => obj.state # "Starting"
      BY <2>1 DEF StartNotRepeated, AtJob
    <3>1. tasks[u].state # "Starting"
      BY DEF AtJob, JobParts, LaunchesRecorded
    <3> QED BY <2>2, <3>1 DEF JobParts, StartNotRepeated
  <2> QED BY <2>3, <2>4, <2>5 DEF JobParts
<1>23. ASSUME NEW t \in Tasks, SyncJob(t)
       PROVE  JobParts'
  <2>1. UNCHANGED <<tasks, cache, jobs, launches, succeeded, faults, pc, cur, obj>>
    BY <1>23 DEF SyncJob
  <2> QED BY <1>c, <2>1, JobQuiet
<1>24. ASSUME NEW t \in Tasks, FinishJob(t)
       PROVE  JobParts'
  <2>1. PICK outcome \in {"succeeded", "failed"} :
          /\ jobs' = [jobs EXCEPT ![t] = outcome]
          /\ succeeded' = IF outcome = "succeeded" THEN succeeded \cup {t} ELSE succeeded
    BY <1>24, ChoiceAssumption DEF FinishJob
  <2>2. jobs[t] = "active" /\ UNCHANGED <<tasks, cache, launches, faults, pc, cur, obj>>
    BY <1>24 DEF FinishJob
  <2>3. \A u \in Tasks : jobs'[u] = IF u = t THEN outcome ELSE jobs[u]
    BY <2>1 DEF TypeOK
  <2>4. launches[t] > 0
    BY <2>2 DEF LifecycleInv, HistoryAgrees
  <2>5. LaunchesRecorded' /\ MovedFromCache' /\ StartNotRepeated'
    BY <2>1, <2>2, <2>4 DEF JobParts, LaunchesRecorded, MovedFromCache, StartNotRepeated, Fresh,
                            AtJob
  <2>6. JobExpected' /\ JobWatched'
    BY <1>a, <2>2, <2>3 DEF JobParts, JobExpected, JobWatched, Fresh, AtJob, Spared
  <2>7. SuccessSeen'
    <3> SUFFICES ASSUME Spared({"staleJob", "expire"})
                 PROVE  /\ \A u \in succeeded' :
                             /\ jobs'[u] = "succeeded" \/ (jobs'[u] = "none" /\ ~AtJob(tasks[u]))
                             /\ tasks[u].state # "Failed"
                        /\ pc = "status" /\ Fresh /\ obj.state = "Failed"
                             => jobs'[cur] \in {"failed", "none"} /\ cur \notin succeeded'
      BY <2>2 DEF SuccessSeen, Spared, Fresh, AtJob
    <3>1. AtJob(tasks[t]) /\ t \notin succeeded
      BY <2>2, SparedSets DEF JobParts, JobWatched, SuccessSeen
    <3>2. pc = "status" /\ Fresh /\ obj.state = "Failed" => cur # t
      BY <2>2 DEF JobParts, SuccessSeen
    <3> QED BY <1>a, <2>1, <2>3, <3>1, <3>2 DEF JobParts, SuccessSeen, AtJob, TypeOK
  <2> QED BY <2>5, <2>6, <2>7 DEF JobParts
<1>25. ASSUME NEW t \in Tasks, ExpireJob(t)
       PROVE  JobParts'
  <2>1. /\ jobs' = [jobs EXCEPT ![t] = "none"] /\ jobs[t] \in {"succeeded", "failed"}
        /\ Charge("expire", tasks[t].state \in {"Starting", "Running"})
        /\ UNCHANGED <<tasks, cache, launches, succeeded, pc, cur, obj>>
    BY <1>25 DEF ExpireJob
  <2>2. /\ StillSpared
        /\ \A kinds \in SUBSET FaultKinds :
             tasks[t].state \in {"Starting", "Running"} /\ Spared(kinds)' => "expire" \notin kinds
    <3> DEFINE bad == tasks[t].state \in {"Starting", "Running"}
    <3>1. Charge("expire", bad) /\ bad \in BOOLEAN
      BY <2>1
    <3> HIDE DEF bad
    <3>2. StillSpared /\ \A kinds \in SUBSET FaultKinds : bad /\ Spared(kinds)' => "expire" \notin kinds
      BY <1>d, <3>1, SparedCharge
    <3> QED BY <3>2 DEF bad
  <2>3. Spared({"expire"})' \/ Spared({"staleJob", "expire"})' => ~AtJob(tasks[t])
    BY <2>2, SparedSets DEF AtJob
  <2>4. \A u \in Tasks : jobs'[u] = IF u = t THEN "none" ELSE jobs[u]
    BY <2>1 DEF TypeOK
  <2>5. LaunchesRecorded' /\ MovedFromCache' /\ StartNotRepeated'
    BY <2>1 DEF JobParts, LaunchesRecorded, MovedFromCache, StartNotRepeated, Fresh, AtJob
  <2>6. JobExpected'
    BY <2>1, <2>2, <2>3, <2>4, StillSparedSets DEF JobParts, JobExpected, AtJob
  <2>7. JobWatched'
    BY <1>a, <2>1, <2>2, <2>4, StillSparedSets DEF JobParts, JobWatched, AtJob, Fresh
  <2>8. SuccessSeen'
    BY <1>a, <2>1, <2>2, <2>3, <2>4, StillSparedSets DEF JobParts, SuccessSeen, AtJob, Fresh, TypeOK
  <2> QED BY <2>5, <2>6, <2>7, <2>8 DEF JobParts
<1>26. ASSUME NEW w \in Workloads, PodStep(w)
       PROVE  JobParts'
  <2>1. UNCHANGED <<tasks, cache, jobs, launches, succeeded, faults, pc, cur, obj>>
    BY <1>26 DEF PodStep
  <2> QED BY <1>c, <2>1, JobQuiet
<1>27. CASE UNCHANGED vars
  BY <1>27, <1>c, JobQuiet DEF vars
<1> QED
  BY <1>1, <1>2, <1>3, <1>4, <1>5, <1>6, <1>7, <1>8, <1>9, <1>10, <1>11, <1>12, <1>13, <1>14,
     <1>15, <1>16, <1>17, <1>18, <1>19, <1>20, <1>21, <1>22, <1>23, <1>24, <1>25, <1>26, <1>27
     DEF Next, WorkerStep

-----------------------------------------------------------------------------
(* The theorems. *)

(* The inductive invariant behind the properties of Jobs holds.             *)
THEOREM JobInvHolds == Spec => []JobInv
<1>1. Spec => [](LifecycleInv /\ StartInv)
  BY LifecycleHolds, StartHolds, PTL DEF StartInv
<1>2. Spec => []JobParts
  BY <1>1, JobInit, JobStep, PTL DEF Spec
<1>3. LifecycleInv /\ StartInv /\ JobParts => JobInv
  BY DEF StartInv, JobParts, JobInv
<1> QED BY <1>1, <1>2, <1>3, PTL

(* A Task being deleted is held by its finalizer until its work is over.    *)
THEOREM DeletionsWait == Spec => []DeletionWaits
<1>1. JobInv => DeletionWaits
  BY DEF JobInv
<1> QED BY <1>1, JobInvHolds, PTL

(* A Task launches no second Job unless the first expired unobserved.       *)
THEOREM NoRelaunch == Spec => []NotRelaunched
<1>1. JobInv => NotRelaunched
  BY DEF JobInv, JobExpected, NotRelaunched, LaunchedOnce
<1> QED BY <1>1, JobInvHolds, PTL

(* A Task is neither finished nor gone while its Job works on the volume,   *)
(* unless the worker judged the Job by a cache that lagged.                 *)
THEOREM JobsAreAttended == Spec => []JobAttended
<1>1. JobInv => JobAttended
  BY DEF JobInv, JobWatched, JobAttended, JobHasTask, AtJob, Finished
<1> QED BY <1>1, JobInvHolds, PTL

(* A Job that succeeded is never reported as a failed Task, but for a cache *)
(* that lagged or a Job that expired unobserved.                            *)
THEOREM SuccessesAreKept == Spec => []SuccessKept
<1>1. JobInv => SuccessKept
  BY DEF JobInv, SuccessSeen, SuccessKept, SuccessIsReported
<1> QED BY <1>1, JobInvHolds, PTL

-----------------------------------------------------------------------------
(***************************************************************************)
(* Scaling, for a Task that is alone with its PVC: sizes are remembered,   *)
(* pods are held while the Job works, and workloads are woken after it.    *)
(* With several Tasks on one PVC all three are false.  They rest on        *)
(* ScalingInv.                                                             *)
(***************************************************************************)

Lone == \A t, u \in Tasks : t = u

ScaleParts == /\ OverAfterJob
              /\ NothingStopped
              /\ PodsAreHeld
              /\ SizesAreOwn

Early == {"Unset", "ScalingDown"}

(* The sets of faults of the properties.                                    *)
LEMMA ScalingFaults ==
  /\ {"abort", "patchUp"} \in SUBSET FaultKinds /\ {"lookup", "patchDown"} \in SUBSET FaultKinds
  /\ StillSpared => /\ Spared({"abort", "patchUp"})' => Spared({"abort", "patchUp"})
                    /\ Spared({"lookup", "patchDown"})' => Spared({"lookup", "patchDown"})
BY DEF FaultKinds, StillSpared

(* No step makes a Task that is deleted whole again.                        *)
LEMMA IntactBefore ==
  ASSUME StillSpared, Intact',
         \A t \in Tasks : tasks[t].rv > 0 /\ (~tasks[t].exists \/ tasks[t].deleting)
           => tasks'[t].rv > 0 /\ (~tasks'[t].exists \/ tasks'[t].deleting)
  PROVE  Intact
BY ScalingFaults DEF Intact

-----------------------------------------------------------------------------
(* Steps, by what they change. *)

(* The worker ends its reconcile, or does not move; Tasks and workloads do  *)
(* not change.                                                              *)
LEMMA ScaleJobs ==
  ASSUME TypeOK, ScaleParts, StillSpared, OverAfterJob',
         UNCHANGED <<tasks, cache, replicas, pods>>,
         \/ UNCHANGED <<pc, cur, obj, todo>>
         \/ /\ pc' = "idle" /\ obj' = Blank
            /\ pc \in {"fetched", "scaleUp"} \/ ~Intact'
  PROVE  ScaleParts'
<1> USE DEF ScaleParts
<1>2. NothingStopped'
  BY DEF NothingStopped, Fresh
<1>3. PodsAreHeld'
  BY ScalingFaults DEF PodsAreHeld, Fresh, Quiet, Stopped
<1>4. SizesAreOwn'
  <2> SUFFICES ASSUME Intact' PROVE SizesAreOwn'
    BY DEF SizesAreOwn
  <2>1. Intact
    BY IntactBefore
  <2>2. OwnSizes(Blank)
    BY DEF OwnSizes, Blank, NoSizes
  <2>3. CASE UNCHANGED <<pc, cur, obj, todo>>
    BY <2>1, <2>3 DEF SizesAreOwn, SizesRemembered, OwnSizes, Fresh
  <2>4. CASE pc' = "idle" /\ obj' = Blank /\ pc \in {"fetched", "scaleUp"}
    BY <2>1, <2>2, <2>4 DEF SizesAreOwn, SizesRemembered, OwnSizes
  <2> QED BY <2>3, <2>4
<1> QED BY <1>2, <1>3, <1>4

(* Jobs do not change either.                                               *)
LEMMA ScaleQuiet ==
  ASSUME TypeOK, ScaleParts, StillSpared,
         UNCHANGED <<tasks, cache, jobs, jobCache, replicas, pods>>,
         \/ UNCHANGED <<pc, cur, obj, todo>>
         \/ /\ pc' = "idle" /\ obj' = Blank
            /\ pc \in {"fetched", "scaleUp"} \/ ~Intact'
  PROVE  ScaleParts'
<1>1. OverAfterJob'
  BY DEF ScaleParts, OverAfterJob, CopiesOf, Fresh
<1> QED BY <1>1, ScaleJobs

(* A stage decides on a status.                                             *)
LEMMA ScaleDecide ==
  ASSUME TypeOK, ScaleParts, StillSpared, OverAfterJob',
         UNCHANGED <<tasks, cache, replicas, pods>>,
         pc \in {"fetched", "scaleDown"},
         pc # "status" /\ Fresh => obj = tasks[cur],
         NEW o \in TaskRecord, ToStatus(o), o.rv = obj.rv, o.orig = obj.orig,
         o.state # "Unset", obj.downAt => o.downAt, pc = "scaleDown" => o.downAt,
         Spared({"lookup", "patchDown"})' /\ Fresh /\ o.stopPods =>
           /\ o.state = "ScalingDown" /\ o.downAt => Stopped(o)
           /\ o.state = "Starting" => Quiet(o)
  PROVE  ScaleParts'
<1> USE DEF ScaleParts
<1>0. cur' = cur /\ obj' = o /\ pc' = "status" /\ (Fresh' <=> Fresh)
  BY DEF ToStatus, Fresh
<1>2. NothingStopped'
  BY <1>0 DEF NothingStopped
<1>3. PodsAreHeld'
  BY <1>0, ScalingFaults DEF PodsAreHeld, Quiet, Stopped
<1>4. SizesAreOwn'
  <2> SUFFICES ASSUME Intact' PROVE SizesAreOwn'
    BY DEF SizesAreOwn
  <2>1. Intact
    BY IntactBefore
  <2> QED BY <1>0, <2>1 DEF SizesAreOwn, SizesRemembered, OwnSizes
<1> QED BY <1>2, <1>3, <1>4

LEMMA ScaleStatus ==
  ASSUME TypeOK, ScaleParts, StillSpared,
         UNCHANGED <<tasks, cache, jobs, jobCache, replicas, pods>>,
         pc \in {"fetched", "scaleDown"},
         pc # "status" /\ Fresh => obj = tasks[cur],
         NEW o \in TaskRecord, ToStatus(o), o.rv = obj.rv, o.orig = obj.orig,
         o.state # "Unset", obj.downAt => o.downAt, pc = "scaleDown" => o.downAt,
         Fresh /\ o.state \in Over => jobs[cur] # "active",
         Spared({"lookup", "patchDown"})' /\ Fresh /\ o.stopPods =>
           /\ o.state = "ScalingDown" /\ o.downAt => Stopped(o)
           /\ o.state = "Starting" => Quiet(o)
  PROVE  ScaleParts'
<1>1. OverAfterJob'
  BY DEF ScaleParts, OverAfterJob, CopiesOf, ToStatus, Fresh
<1> QED BY <1>1, ScaleDecide

(* A write that leaves a Task as far as it was, or removes it.              *)
Removed(old) == [Blank EXCEPT !.rv = old.rv + 1]

AsBefore(r, old) ==
  /\ r.exists = old.exists /\ r.stopPods = old.stopPods /\ r.state = old.state
  /\ r.downAt = old.downAt /\ r.orig = old.orig /\ (old.deleting => r.deleting)

LEMMA ScaleWrite ==
  ASSUME Lone, LifecycleInv, JobParts, ScaleParts, StillSpared,
         NEW t \in Tasks, NEW r \in TaskRecord,
         tasks' = [tasks EXCEPT ![t] = r], tasks[t].exists,
         UNCHANGED <<cache, jobs, jobCache, replicas, pods>>,
         r # tasks[t] => r.rv = tasks[t].rv + 1,
         AsBefore(r, tasks[t]) \/ r = Removed(tasks[t]),
         \/ UNCHANGED <<pc, cur, obj, todo>> /\ (r = tasks[t] \/ ~Intact')
         \/ pc = "fetched" /\ pc' = "idle" /\ obj' = Blank
  PROVE  ScaleParts'
<1> USE DEF ScaleParts
<1> TypeOK
  BY DEF LifecycleInv
<1>u. /\ \A u \in Tasks : u = t
      /\ tasks'[t] = r /\ tasks[t] \in TaskRecord /\ tasks[t].rv \in Nat /\ r.rv \in Nat
      /\ tasks[t].rv > 0
  BY DEF TypeOK, TaskRecord, Lone, LifecycleInv, CopiesAreGuarded
<1>g. r = Removed(tasks[t]) => /\ ~r.exists /\ ~r.stopPods /\ r.state = "Unset" /\ ~r.downAt
                               /\ r.orig = NoSizes /\ r.rv > 0
  BY <1>u DEF Removed, Blank
<1>v. UNCHANGED <<pc, cur, obj, todo>> /\ pc # "idle" => (Fresh' => Fresh /\ r = tasks[t])
  <2>1. pc # "idle" => cur = t /\ obj.rv \in Nat /\ obj.rv <= tasks[t].rv
    BY <1>u DEF TypeOK, LifecycleInv, CopiesAreVersions, TaskRecord
  <2> QED BY <1>u, <2>1 DEF Fresh
<1> HIDE DEF Removed
<1>1. OverAfterJob'
  <2>1. \A u \in Tasks : \A o \in CopiesOf(u)' : o.state \in Over =>
          jobs[u] # "active" /\ (~tasks'[u].exists \/ tasks'[u].state \in Over)
    <3> SUFFICES ASSUME NEW o \in CopiesOf(t)', o.state \in Over
                 PROVE  jobs[t] # "active" /\ (~r.exists \/ r.state \in Over)
      BY <1>u
    <3>1. CASE o = r
      BY <1>g, <3>1 DEF AsBefore, OverAfterJob, CopiesOf, Over
    <3>2. CASE o \in CopiesOf(t)
      BY <1>g, <3>2 DEF AsBefore, OverAfterJob
    <3>3. o = r \/ o \in CopiesOf(t)
      BY <1>u DEF CopiesOf
    <3> QED BY <3>1, <3>2, <3>3
  <2>2. (pc = "status" /\ Fresh /\ obj.state \in Over => jobs[cur] # "active")'
    BY <1>v DEF OverAfterJob
  <2> QED BY <2>1, <2>2 DEF OverAfterJob
<1>2. NothingStopped'
  <2>1. (~r.exists => ~r.stopPods) /\ (r.state = "Unset" => ~r.downAt /\ r.orig = NoSizes)
    BY <1>g, <1>u DEF AsBefore, NothingStopped
  <2>2. (pc = "status" => /\ obj.state # "Unset" /\ (Fresh /\ tasks[cur].downAt => obj.downAt))'
    BY <1>v, <1>u DEF NothingStopped, TypeOK
  <2> QED BY <1>u, <2>1, <2>2 DEF NothingStopped
<1>3. PodsAreHeld'
  <2> SUFFICES ASSUME Spared({"lookup", "patchDown"})' PROVE PodsAreHeld'
    BY DEF PodsAreHeld
  <2>0. Spared({"lookup", "patchDown"})
    BY ScalingFaults
  <2>1. r.stopPods =>
          /\ r.state = "ScalingDown" => \A w \in Workloads : r.orig[w] # NoSize =>
                replicas[w] = 0 \/ (~r.downAt /\ pods[w] # "gone")
          /\ r.state \in {"Starting", "Running", "Failed"} => Quiet(r)
    BY <1>g, <1>u, <2>0 DEF AsBefore, PodsAreHeld, Quiet
  <2>2. UNCHANGED <<replicas, pods>>
    OBVIOUS
  <2> QED BY <1>u, <1>v, <2>0, <2>1, <2>2 DEF PodsAreHeld, Quiet, Stopped
<1>4. SizesAreOwn'
  <2> SUFFICES ASSUME Intact' PROVE SizesAreOwn'
    BY DEF SizesAreOwn
  <2>1. r.exists /\ ~r.deleting /\ AsBefore(r, tasks[t])
    BY <1>g, <1>u DEF Intact
  <2>2. Intact
    BY <1>u, <2>1, IntactBefore DEF AsBefore
  <2>3. SizesRemembered' /\ OwnSizes(r)'
    BY <1>u, <2>1, <2>2 DEF AsBefore, SizesAreOwn, SizesRemembered, OwnSizes
  <2>4. CASE UNCHANGED <<pc, cur, obj, todo>> /\ r = tasks[t]
    <3>1. tasks' = tasks
      BY <1>u, <2>4 DEF TypeOK
    <3> QED BY <2>2, <2>4, <3>1 DEF SizesAreOwn, SizesRemembered, OwnSizes, Fresh
  <2>5. CASE pc = "fetched" /\ pc' = "idle" /\ obj' = Blank
    <3>1. OwnSizes(Blank)
      BY DEF OwnSizes, Blank, NoSizes
    <3> QED BY <1>u, <2>1, <2>2, <2>3, <2>5, <3>1 DEF AsBefore, SizesAreOwn, OwnSizes
  <2> QED BY <2>4, <2>5
<1> QED BY <1>1, <1>2, <1>3, <1>4

(* What the API server does with a write that changes neither the state nor *)
(* the sizes is such a write.                                               *)
LEMMA StoredAsBefore ==
  ASSUME NEW old \in TaskRecord, NEW o \in TaskRecord, AsBefore(o, old)
  PROVE  /\ Stored(old, o) \in TaskRecord
         /\ AsBefore(Stored(old, o), old) \/ Stored(old, o) = Removed(old)
         /\ Stored(old, o) # old => Stored(old, o).rv = old.rv + 1
<1>1. Stored(old, o) \in TaskRecord /\ (Stored(old, o) # old => Stored(old, o).rv = old.rv + 1)
  BY StoredType
<1>2. CASE o = old
  BY <1>1, <1>2 DEF Stored
<1>3. CASE o # old /\ o.deleting /\ ~o.finalizer
  BY <1>1, <1>3 DEF Stored, Removed
<1>4. CASE o # old /\ ~(o.deleting /\ ~o.finalizer)
  <2>1. Stored(old, o) = [o EXCEPT !.rv = old.rv + 1]
    BY <1>4 DEF Stored
  <2>2. AsBefore([o EXCEPT !.rv = old.rv + 1], old)
    BY DEF AsBefore, TaskRecord
  <2> QED BY <1>1, <2>1, <2>2
<1> QED BY <1>2, <1>3, <1>4

(* The worker writes with a copy and ends, the status as it was.            *)
LEMMA ScaleUpdate ==
  ASSUME Lone, LifecycleInv, JobParts, ScaleParts, pc = "fetched",
         NEW o \in TaskRecord, UpdateAndReturn(o), AsBefore(o, obj)
  PROVE  ScaleParts'
<1>0. /\ TypeOK /\ StillSpared /\ pc' = "idle" /\ obj' = Blank
      /\ UNCHANGED <<cache, jobs, jobCache, replicas, pods, faults>>
  BY SparedUnchanged DEF LifecycleInv, UpdateAndReturn, Idle
<1>1. CASE ~Fresh
  BY <1>0, <1>1, ScaleQuiet DEF UpdateAndReturn
<1>2. CASE Fresh
  <2>1. PICK r : r = Stored(tasks[cur], o)
    OBVIOUS
  <2>2. cur \in Tasks /\ tasks[cur] \in TaskRecord /\ obj = tasks[cur] /\ tasks[cur].exists
    BY <1>2, HeldFacts
  <2>3. /\ r \in TaskRecord /\ (r # tasks[cur] => r.rv = tasks[cur].rv + 1)
        /\ AsBefore(r, tasks[cur]) \/ r = Removed(tasks[cur])
    BY <2>1, <2>2, StoredAsBefore
  <2>4. tasks' = [tasks EXCEPT ![cur] = r]
    BY <1>2, <2>1 DEF UpdateAndReturn
  <2> QED BY <1>0, <2>2, <2>3, <2>4, ScaleWrite
<1> QED BY <1>1, <1>2

(* The status the worker writes last.                                       *)
LEMMA ScaleWriteStatus ==
  ASSUME Lone, LifecycleInv, LifecycleInv', StartInv, JobParts, ScaleParts, WriteStatus
  PROVE  ScaleParts'
<1> USE DEF ScaleParts
<1> TypeOK
  BY DEF LifecycleInv
<1>0. PICK o : o = [tasks[cur] EXCEPT !.state = obj.state, !.downAt = obj.downAt,
                                      !.upAt = obj.upAt]
  OBVIOUS
<1>1. /\ pc = "status" /\ pc' = "idle" /\ obj' = Blank /\ UpdateAndReturn(o) /\ StillSpared
      /\ UNCHANGED <<cache, jobs, jobCache, replicas, pods, faults>>
  BY <1>0, SparedUnchanged DEF WriteStatus, UpdateAndReturn, Idle
<1>2. cur \in Tasks /\ tasks[cur] \in TaskRecord /\ obj \in TaskRecord /\ obj.exists
  BY <1>1, HeldFacts
<1>b. OwnSizes(Blank)
  BY DEF OwnSizes, Blank, NoSizes
<1>3. CASE ~Fresh
  <2>1. UNCHANGED tasks
    BY <1>1, <1>3 DEF UpdateAndReturn
  <2>2. OverAfterJob' /\ NothingStopped' /\ PodsAreHeld'
    BY <1>1, <2>1, ScalingFaults DEF OverAfterJob, CopiesOf, NothingStopped, PodsAreHeld, Quiet
  <2>3. SizesAreOwn'
    <3> SUFFICES ASSUME Intact' PROVE SizesAreOwn'
      BY DEF SizesAreOwn
    <3>1. Intact
      BY <1>1, <2>1, IntactBefore
    <3> QED BY <1>1, <1>3, <1>b, <2>1, <3>1 DEF SizesAreOwn, SizesRemembered, OwnSizes
  <2> QED BY <2>2, <2>3
<1>4. CASE Fresh
  <2>1. PICK r : r = Stored(tasks[cur], o)
    OBVIOUS
  <2>2. /\ o \in TaskRecord /\ o.state = obj.state /\ o.downAt = obj.downAt
        /\ o.exists = tasks[cur].exists /\ o.orig = tasks[cur].orig
        /\ o.stopPods = tasks[cur].stopPods /\ o.deleting = tasks[cur].deleting
        /\ o.deleting => o.finalizer
    BY <1>0, <1>2 DEF TaskRecord, StartInv, DeletionWaits
  <2>3. tasks' = [tasks EXCEPT ![cur] = r]
    BY <1>1, <1>4, <2>1 DEF UpdateAndReturn
  <2>4. /\ SameButStatus(obj, tasks[cur]) /\ Successor(cur, tasks[cur].state, obj.state)
    BY <1>1, <1>4 DEF LifecycleInv, CopiesAreVersions, WorkerOnTrack
  <2>5. tasks[cur].exists /\ obj.orig = tasks[cur].orig /\ obj.stopPods = tasks[cur].stopPods
    BY <1>2, <2>4 DEF SameButStatus, TaskRecord
  <2>6. r \in {o, [o EXCEPT !.rv = tasks[cur].rv + 1]} /\ r \in TaskRecord
    BY <1>2, <2>1, <2>2, StoredType DEF Stored
  <2>7. /\ r.exists /\ r.state = obj.state /\ r.downAt = obj.downAt /\ r.orig = tasks[cur].orig
        /\ r.stopPods = tasks[cur].stopPods /\ r.deleting = tasks[cur].deleting
    BY <2>2, <2>5, <2>6 DEF TaskRecord
  <2>8. tasks'[cur] = r /\ \A u \in Tasks : u = cur
    BY <1>2, <2>3 DEF TypeOK, Lone
  <2>9. OverAfterJob'
    <3>1. obj.state \in Over => jobs[cur] # "active"
      BY <1>1, <1>4 DEF OverAfterJob
    <3>2. tasks[cur].state \in Over => obj.state \in Over
      BY <2>4 DEF Successor, Over
    <3>3. cache[cur].state \in Over => jobs[cur] # "active" /\ tasks[cur].state \in Over
      BY <2>5, <1>2 DEF OverAfterJob, CopiesOf
    <3> QED BY <1>1, <2>7, <2>8, <3>1, <3>2, <3>3 DEF OverAfterJob, CopiesOf
  <2>10. NothingStopped'
    BY <1>1, <2>7, <2>8 DEF NothingStopped
  <2>11. PodsAreHeld'
    <3> SUFFICES ASSUME Spared({"lookup", "patchDown"})' PROVE PodsAreHeld'
      BY DEF PodsAreHeld
    <3>0. Spared({"lookup", "patchDown"})
      BY <1>1, ScalingFaults
    <3>1. r.stopPods /\ r.state = "ScalingDown" =>
            \A w \in Workloads : r.orig[w] # NoSize =>
              replicas[w] = 0 \/ (~r.downAt /\ pods[w] # "gone")
      <4> SUFFICES ASSUME r.stopPods, obj.state = "ScalingDown", NEW w \in Workloads,
                          tasks[cur].orig[w] # NoSize
                   PROVE  replicas[w] = 0 \/ (~obj.downAt /\ pods[w] # "gone")
        BY <2>7
      <4>1. CASE obj.downAt
        BY <1>1, <1>4, <2>5, <2>7, <3>0, <4>1 DEF PodsAreHeld, Stopped
      <4>2. CASE ~obj.downAt /\ tasks[cur].state = "ScalingDown"
        BY <1>1, <1>2, <1>4, <2>7, <3>0, <4>2 DEF PodsAreHeld, NothingStopped
      <4>3. CASE tasks[cur].state = "Unset"
        BY <1>2, <4>3 DEF NothingStopped, NoSizes
      <4> QED BY <2>4, <4>1, <4>2, <4>3 DEF Successor
    <3>2. r.stopPods /\ r.state \in {"Starting", "Running", "Failed"} => Quiet(r)
      <4> SUFFICES ASSUME r.stopPods, obj.state \in {"Starting", "Running", "Failed"}
                   PROVE  Quiet(r)
        BY <2>7
      <4>1. CASE obj.state = "Starting"
        BY <1>1, <1>4, <2>5, <2>7, <3>0, <4>1 DEF PodsAreHeld, Quiet
      <4>2. CASE obj.state \in {"Running", "Failed"}
        <5>1. tasks[cur].state \in {"Starting", "Running", "Failed"}
          BY <2>4, <4>2 DEF Successor
        <5> QED BY <1>2, <2>7, <3>0, <5>1 DEF PodsAreHeld, Quiet
      <4> QED BY <4>1, <4>2
    <3> QED BY <1>1, <2>8, <3>1, <3>2 DEF PodsAreHeld, Quiet
  <2>12. SizesAreOwn'
    <3> SUFFICES ASSUME Intact' PROVE SizesAreOwn'
      BY DEF SizesAreOwn
    <3>1. Intact
      <4>1. tasks'[cur].rv > 0
        BY <1>2, <2>7, <2>8 DEF LifecycleInv, CopiesAreGuarded
      <4> QED BY <1>1, <2>5, <2>7, <2>8, <4>1, IntactBefore
    <3>2. SizesRemembered' /\ OwnSizes(r)'
      BY <1>1, <2>5, <2>7, <2>8, <3>1 DEF SizesAreOwn, SizesRemembered, OwnSizes
    <3>3. r.state \in Early /\ ~r.downAt => replicas = Desired
      <4>1. r.state \in Early => tasks[cur].state \in Early
        BY <2>4, <2>7 DEF Successor, Early
      <4>2. ~r.downAt => ~tasks[cur].downAt
        BY <1>1, <1>4, <2>7 DEF NothingStopped
      <4> QED BY <1>1, <1>2, <2>7, <3>1, <4>1, <4>2 DEF SizesAreOwn, Early
    <3> QED BY <1>1, <1>b, <2>8, <3>1, <3>2, <3>3 DEF SizesAreOwn, OwnSizes, Early
  <2> QED BY <2>9, <2>10, <2>11, <2>12
<1> QED BY <1>3, <1>4

-----------------------------------------------------------------------------
(* Steps that change sizes. *)

(* A Task that the worker holds has been created.                           *)
LEMMA HeldCreated ==
  ASSUME LifecycleInv, pc # "idle" PROVE tasks[cur].rv > 0
<1>1. /\ cur \in Tasks /\ tasks[cur] \in TaskRecord /\ obj \in TaskRecord /\ obj.exists
      /\ obj.rv <= tasks[cur].rv /\ (Fresh => SameButStatus(obj, tasks[cur]))
  BY DEF LifecycleInv, TypeOK, CopiesAreGuarded, CopiesAreVersions
<1>2. CASE tasks[cur].rv = 0
  <2>1. obj.rv = tasks[cur].rv
    BY <1>1, <1>2 DEF TaskRecord
  <2>2. tasks[cur].exists
    BY <1>1, <2>1 DEF SameButStatus, TaskRecord, Fresh
  <2> QED BY <1>1, <2>2 DEF LifecycleInv, CopiesAreGuarded
<1> QED BY <1>1, <1>2 DEF TaskRecord

LEMMA ScaleInit == Init => ScaleParts
<1> SUFFICES ASSUME Init PROVE ScaleParts
  OBVIOUS
<1>1. \A t \in Tasks : tasks[t] = Blank /\ cache[t] = Blank /\ jobs[t] = "none"
  BY DEF Init
<1>2. /\ ~Blank.exists /\ ~Blank.stopPods /\ Blank.state = "Unset" /\ ~Blank.downAt
      /\ Blank.orig = NoSizes
  BY DEF Blank
<1>3. pc = "idle" /\ replicas = Desired /\ obj = Blank
  BY DEF Init
<1>4. OverAfterJob /\ NothingStopped /\ PodsAreHeld
  BY <1>1, <1>2, <1>3 DEF OverAfterJob, CopiesOf, Over, NothingStopped, PodsAreHeld
<1>5. SizesAreOwn
  BY <1>1, <1>2, <1>3 DEF SizesAreOwn, SizesRemembered, OwnSizes, NoSizes
<1> QED BY <1>4, <1>5 DEF ScaleParts

LEMMA ScaleRecord ==
  ASSUME Lone, LifecycleInv, JobParts, ScaleParts, RecordSizes
  PROVE  ScaleParts'
<1> USE DEF ScaleParts
<1> TypeOK
  BY DEF LifecycleInv
<1>1. PICK found \in SUBSET Mounting :
        /\ Charge("lookup", found # Mounting)
        /\ \/ /\ found = {}
              /\ ToStatus([obj EXCEPT !.state = "Starting"])
              /\ UNCHANGED tasks
           \/ /\ found # {} /\ Fresh
              /\ LET o == Stored(tasks[cur], [obj EXCEPT !.orig = Recorded(found)]) IN
                   /\ tasks' = [tasks EXCEPT ![cur] = o]
                   /\ obj' = o
              /\ pc' = "scaleDown" /\ todo' = found
              /\ UNCHANGED <<cur, scaled>>
           \/ /\ found # {} /\ ~Fresh
              /\ Idle
              /\ UNCHANGED tasks
  BY DEF RecordSizes
<1>2. /\ pc = "fetched" /\ obj.state = "ScalingDown" /\ obj.stopPods /\ ~obj.downAt
      /\ UNCHANGED <<cache, jobs, jobCache, replicas, pods>>
  BY DEF RecordSizes
<1>3. /\ cur \in Tasks /\ tasks[cur] \in TaskRecord /\ obj \in TaskRecord /\ obj.exists
      /\ Guarded(obj) /\ (Fresh => obj = tasks[cur])
  BY <1>2, HeldFacts
<1>4. StillSpared /\ (Spared({"lookup", "patchDown"})' => found = Mounting)
  <2>1. "lookup" \in FaultKinds
    BY DEF FaultKinds
  <2> QED BY <1>1, <2>1, SparedCharge, ScalingFaults
<1>5. CASE found = {}
  <2>1. PICK o : o = [obj EXCEPT !.state = "Starting"]
    OBVIOUS
  <2>2. /\ o \in TaskRecord /\ o.rv = obj.rv /\ o.state = "Starting" /\ o.orig = obj.orig
        /\ o.downAt = obj.downAt /\ o.stopPods
    BY <1>2, <1>3, <2>1 DEF TaskRecord, States
  <2>3. ToStatus(o) /\ UNCHANGED tasks
    BY <1>1, <1>5, <2>1
  <2>4. Spared({"lookup", "patchDown"})' /\ Fresh => Quiet(o)
    BY <1>2, <1>3, <1>4, <1>5, <2>2, ScalingFaults DEF PodsAreHeld, Quiet, Mounting
  <2> QED BY <1>2, <1>3, <1>4, <2>2, <2>3, <2>4, ScaleStatus DEF Over
<1>6. CASE found # {} /\ ~Fresh
  <2>1. pc' = "idle" /\ obj' = Blank /\ UNCHANGED tasks
    BY <1>1, <1>6 DEF Idle
  <2> QED BY <1>2, <1>4, <2>1, ScaleQuiet
<1>7. CASE found # {} /\ Fresh
  <2>1. PICK o : o = [obj EXCEPT !.orig = Recorded(found)]
    OBVIOUS
  <2>2. PICK r : r = Stored(tasks[cur], o)
    OBVIOUS
  <2>3. Recorded(found) \in [Workloads -> Nat \cup {NoSize}]
    BY DEF Recorded, TypeOK
  <2>4. /\ o \in TaskRecord /\ o.finalizer /\ o.exists /\ o.state = "ScalingDown"
        /\ ~o.downAt /\ o.stopPods /\ o.orig = Recorded(found) /\ o.deleting = obj.deleting
    BY <1>2, <1>3, <2>1, <2>3 DEF Guarded, Finished, TaskRecord
  <2>5. r \in {o, [o EXCEPT !.rv = tasks[cur].rv + 1]} /\ r \in TaskRecord
    BY <1>3, <2>2, <2>4, StoredType DEF Stored
  <2>6. /\ r.exists /\ r.state = "ScalingDown" /\ ~r.downAt /\ r.stopPods
        /\ r.orig = Recorded(found) /\ r.deleting = obj.deleting
    BY <2>4, <2>5 DEF TaskRecord
  <2>7. /\ tasks' = [tasks EXCEPT ![cur] = r] /\ obj' = r /\ cur' = cur
        /\ pc' = "scaleDown" /\ todo' = found
    BY <1>1, <1>7, <2>1, <2>2
  <2>8. tasks'[cur] = r /\ (\A u \in Tasks : u = cur) /\ Fresh'
    BY <1>3, <2>7 DEF TypeOK, Lone, Fresh
  <2>9. /\ obj = tasks[cur]
        /\ \A w \in Workloads : r.orig[w] = IF w \in found THEN replicas[w] ELSE NoSize
    BY <1>3, <1>7, <2>6 DEF Recorded
  <2>10. OverAfterJob'
    <3>1. cache[cur].state \notin Over
      BY <1>2, <1>3, <2>9 DEF OverAfterJob, CopiesOf, Over
    <3> QED BY <1>2, <2>6, <2>7, <2>8, <3>1 DEF OverAfterJob, CopiesOf, Over
  <2>11. NothingStopped'
    BY <2>6, <2>7, <2>8 DEF NothingStopped
  <2>12. PodsAreHeld'
    <3>1. \A w \in Workloads : r.orig[w] # NoSize => w \in found /\ pods[w] # "gone"
      BY <2>9 DEF Mounting
    <3> QED BY <1>2, <2>6, <2>7, <2>8, <3>1 DEF PodsAreHeld
  <2>13. SizesAreOwn'
    <3> SUFFICES ASSUME Intact' PROVE SizesAreOwn'
      BY DEF SizesAreOwn
    <3>1. Intact
      <4>1. r.rv > 0
        <5>1. tasks[cur].rv > 0 /\ tasks[cur].rv \in Nat
          BY <1>2, <1>3, HeldCreated DEF TaskRecord
        <5>2. r # tasks[cur] => r.rv = tasks[cur].rv + 1
          BY <1>2, <1>3, <2>2, <2>4, StoredType
        <5> QED BY <5>1, <5>2
      <4> QED BY <1>3, <1>4, <2>6, <2>8, <2>9, <4>1, IntactBefore
    <3>2. replicas = Desired
      BY <1>2, <1>3, <2>9, <3>1 DEF SizesAreOwn
    <3>3. OwnSizes(r)
      BY <2>9, <3>2 DEF OwnSizes
    <3>4. \A w \in found : r.orig[w] # NoSize
      BY <2>9 DEF Mounting, TypeOK, NoSize
    <3> QED BY <1>2, <2>7, <2>8, <3>1, <3>2, <3>3, <3>4 DEF SizesAreOwn, SizesRemembered, OwnSizes
  <2> QED BY <2>10, <2>11, <2>12, <2>13
<1> QED BY <1>5, <1>6, <1>7

LEMMA ScalePatchDown ==
  ASSUME Lone, LifecycleInv, ScaleParts, NEW w \in Workloads, PatchDown(w)
  PROVE  ScaleParts'
<1> USE DEF ScaleParts
<1> TypeOK
  BY DEF LifecycleInv
<1>1. PICK refused \in BOOLEAN :
        /\ Charge("patchDown", refused)
        /\ replicas' = IF refused THEN replicas ELSE [replicas EXCEPT ![w] = 0]
  BY DEF PatchDown
<1>2. /\ pc = "scaleDown" /\ w \in todo /\ todo' = todo \ {w}
      /\ UNCHANGED <<tasks, cache, jobs, jobCache, pods, pc, cur, obj>>
  BY DEF PatchDown
<1>3. StillSpared /\ (Spared({"lookup", "patchDown"})' => ~refused)
  <2>1. "patchDown" \in FaultKinds
    BY DEF FaultKinds
  <2> QED BY <1>1, <2>1, SparedCharge, ScalingFaults
<1>4. \A v \in Workloads : /\ replicas'[v] = replicas[v] \/ (v = w /\ replicas'[v] = 0)
                           /\ ~refused => replicas'[w] = 0
  BY <1>1 DEF TypeOK
<1>5. OverAfterJob' /\ NothingStopped'
  BY <1>2 DEF OverAfterJob, CopiesOf, NothingStopped, Fresh
<1>6. PodsAreHeld'
  <2> SUFFICES ASSUME Spared({"lookup", "patchDown"})' PROVE PodsAreHeld'
    BY DEF PodsAreHeld
  <2>1. Spared({"lookup", "patchDown"}) /\ replicas'[w] = 0
    BY <1>3, <1>4, ScalingFaults
  <2>2. \A v \in Workloads : replicas[v] = 0 => replicas'[v] = 0
    BY <1>4, <2>1
  <2> QED BY <1>2, <2>1, <2>2 DEF PodsAreHeld, Quiet, Fresh
<1>7. SizesAreOwn'
  <2> SUFFICES ASSUME Intact' PROVE SizesAreOwn'
    BY DEF SizesAreOwn
  <2>1. Intact
    BY <1>2, <1>3, IntactBefore
  <2>2. /\ cur \in Tasks /\ tasks[cur].exists /\ obj = tasks[cur]
        /\ tasks[cur].orig[w] = Desired[w]
    BY <1>2, <2>1, HeldFacts DEF SizesAreOwn, OwnSizes
  <2>3. SizesRemembered'
    BY <1>2, <1>4, <2>1, <2>2 DEF SizesAreOwn, SizesRemembered
  <2> QED BY <1>2, <2>1, <2>3 DEF SizesAreOwn, OwnSizes, Fresh
<1> QED BY <1>5, <1>6, <1>7

LEMMA ScalePatchUp ==
  ASSUME Lone, LifecycleInv, ScaleParts, NEW w \in Workloads, PatchUp(w)
  PROVE  ScaleParts'
<1> USE DEF ScaleParts
<1> TypeOK
  BY DEF LifecycleInv
<1>1. PICK refused \in BOOLEAN :
        /\ Charge("patchUp", refused)
        /\ replicas' = IF refused THEN replicas ELSE [replicas EXCEPT ![w] = obj.orig[w]]
  BY DEF PatchUp
<1>2. /\ pc = "scaleUp" /\ w \in todo /\ todo' = todo \ {w} /\ obj.state = "ScalingUp"
      /\ UNCHANGED <<tasks, cache, jobs, jobCache, pods, pc, cur, obj>>
  BY DEF PatchUp, LifecycleInv, WorkerOnTrack
<1>3. StillSpared /\ (Spared({"abort", "patchUp"})' => ~refused)
  <2>1. "patchUp" \in FaultKinds
    BY DEF FaultKinds
  <2> QED BY <1>1, <2>1, SparedCharge, ScalingFaults
<1>4. \A v \in Workloads : /\ v # w => replicas'[v] = replicas[v]
                           /\ ~refused => replicas'[w] = obj.orig[w]
  BY <1>1 DEF TypeOK
<1>5. /\ cur \in Tasks /\ (\A u \in Tasks : u = cur) /\ obj.exists
      /\ ~tasks[cur].exists \/ tasks[cur].state \in Over
  BY <1>2, HeldFacts DEF Lone, OverAfterJob, CopiesOf, Over
<1>6. OverAfterJob' /\ NothingStopped'
  BY <1>2 DEF OverAfterJob, CopiesOf, NothingStopped, Fresh
<1>7. PodsAreHeld'
  BY <1>2, <1>5 DEF PodsAreHeld, NothingStopped, Over
<1>8. SizesAreOwn'
  <2> SUFFICES ASSUME Intact' PROVE SizesAreOwn'
    BY DEF SizesAreOwn
  <2>1. Intact /\ ~refused
    BY <1>2, <1>3, IntactBefore DEF Intact
  <2>2. tasks[cur].exists /\ tasks[cur].state \in Over
    BY <1>2, <1>5, <2>1, HeldCreated DEF Intact
  <2>3. replicas'[w] = Desired[w]
    <3>1. obj.orig[w] # NoSize
      BY <1>2 DEF TypeOK, ToWake
    <3> QED BY <1>4, <2>1, <3>1 DEF SizesAreOwn, OwnSizes
  <2>4. \A v \in Workloads : replicas[v] = Desired[v] => replicas'[v] = Desired[v]
    BY <1>4, <2>3
  <2>5. SizesRemembered'
    BY <1>2, <1>4, <2>1, <2>3 DEF SizesAreOwn, SizesRemembered
  <2> QED BY <1>2, <1>5, <2>1, <2>2, <2>3, <2>4, <2>5 DEF SizesAreOwn, OwnSizes, Fresh, Over
<1> QED BY <1>6, <1>7, <1>8

LEMMA ScaleForget ==
  ASSUME Lone, LifecycleInv, ScaleParts, ForgetSizes
  PROVE  ScaleParts'
<1> USE DEF ScaleParts
<1> TypeOK
  BY DEF LifecycleInv
<1>1. /\ pc = "scaleUp" /\ todo = {} /\ obj.state = "ScalingUp" /\ StillSpared
      /\ UNCHANGED <<cache, jobs, jobCache, replicas, pods, faults>>
  BY SparedUnchanged DEF ForgetSizes, LifecycleInv, WorkerOnTrack
<1>2. /\ cur \in Tasks /\ tasks[cur] \in TaskRecord /\ obj \in TaskRecord /\ obj.exists
      /\ Guarded(obj) /\ (Fresh => obj = tasks[cur])
  BY <1>1, HeldFacts
<1>3. CASE ~Fresh
  <2>1. pc' = "idle" /\ obj' = Blank /\ UNCHANGED tasks
    BY <1>3 DEF ForgetSizes, Idle
  <2> QED BY <1>1, <2>1, ScaleQuiet
<1>4. CASE Fresh
  <2>1. PICK p : p = [obj EXCEPT !.orig = NoSizes]
    OBVIOUS
  <2>2. PICK r : r = Stored(tasks[cur], p)
    OBVIOUS
  <2>3. PICK o \in {[r EXCEPT !.upAt = TRUE], [r EXCEPT !.state = "Completed"]} : ToStatus(o)
    BY <1>4, <2>1, <2>2 DEF ForgetSizes
  <2>4. tasks' = [tasks EXCEPT ![cur] = r]
    BY <1>4, <2>1, <2>2 DEF ForgetSizes
  <2>5. /\ p \in TaskRecord /\ p.finalizer /\ p.exists /\ p.state = "ScalingUp"
        /\ p.orig = NoSizes /\ p.deleting = obj.deleting
    BY <1>1, <1>2, <2>1 DEF Guarded, Finished, TaskRecord, NoSizes
  <2>6. r \in {p, [p EXCEPT !.rv = tasks[cur].rv + 1]} /\ r \in TaskRecord
    BY <1>2, <2>2, <2>5, StoredType DEF Stored
  <2>7. /\ r.exists /\ r.state = "ScalingUp" /\ r.orig = NoSizes /\ r.deleting = obj.deleting
    BY <2>5, <2>6 DEF TaskRecord
  <2>8. /\ o \in TaskRecord /\ o.state \in Over /\ o.orig = NoSizes /\ o.downAt = r.downAt
    BY <2>3, <2>6, <2>7 DEF TaskRecord, States, Over
  <2>9. /\ pc' = "status" /\ cur' = cur /\ obj' = o
        /\ tasks'[cur] = r /\ (\A u \in Tasks : u = cur)
    BY <1>2, <2>3, <2>4 DEF ToStatus, TypeOK, Lone
  <2>10. OverAfterJob'
    <3>1. jobs[cur] # "active"
      BY <1>1, <1>2 DEF OverAfterJob, CopiesOf, Over
    <3> QED BY <1>1, <2>7, <2>8, <2>9, <3>1 DEF OverAfterJob, CopiesOf, Over
  <2>11. NothingStopped'
    BY <2>7, <2>8, <2>9 DEF NothingStopped, Over
  <2>12. PodsAreHeld'
    BY <2>7, <2>8, <2>9 DEF PodsAreHeld, Over
  <2>13. SizesAreOwn'
    <3> SUFFICES ASSUME Intact' PROVE SizesAreOwn'
      BY DEF SizesAreOwn
    <3>1. Intact
      <4>1. r.rv > 0
        <5>1. tasks[cur].rv > 0 /\ tasks[cur].rv \in Nat
          BY <1>1, <1>2, HeldCreated DEF TaskRecord
        <5>2. r # tasks[cur] => r.rv = tasks[cur].rv + 1
          BY <1>2, <2>2, <2>5, StoredType
        <5> QED BY <5>1, <5>2
      <4> QED BY <1>1, <1>2, <1>4, <2>7, <2>9, <4>1, IntactBefore
    <3>2. \A w \in Workloads : replicas[w] = Desired[w]
      <4> SUFFICES ASSUME NEW w \in Workloads, tasks[cur].orig[w] = Desired[w]
                   PROVE  replicas[w] = Desired[w]
        BY <2>9, <3>1 DEF SizesAreOwn, SizesRemembered
      <4>1. obj.orig[w] # NoSize
        BY <1>2, <1>4, DesiredAssumption DEF NoSize
      <4> QED BY <1>1, <1>4, <3>1, <4>1 DEF SizesAreOwn
    <3>3. OwnSizes(r) /\ OwnSizes(o)
      BY <2>7, <2>8 DEF OwnSizes, NoSizes
    <3> QED BY <1>1, <2>7, <2>9, <3>1, <3>2, <3>3 DEF SizesAreOwn, SizesRemembered, OwnSizes
  <2> QED BY <2>10, <2>11, <2>12, <2>13
<1> QED BY <1>3, <1>4

-----------------------------------------------------------------------------
(* Every step. *)

LEMMA ScaleStart ==
  ASSUME Lone, LifecycleInv, StartInv, JobParts, ScaleParts, Start
  PROVE  ScaleParts'
<1> USE DEF ScaleParts
<1> TypeOK
  BY DEF LifecycleInv
<1>1. /\ pc = "fetched" /\ obj.state = "Starting" /\ StillSpared
      /\ UNCHANGED <<tasks, cache, jobCache, replicas, pods, faults>>
  BY SparedUnchanged DEF Start
<1>2. /\ cur \in Tasks /\ obj \in TaskRecord /\ AtJob(tasks[cur]) /\ (Fresh => obj = tasks[cur])
  BY <1>1, HeldFacts, NoLaunchBehind
<1>3. PICK o : o = [obj EXCEPT !.state = "Running"]
  OBVIOUS
<1>4. /\ o \in TaskRecord /\ o.rv = obj.rv /\ o.state = "Running" /\ o.orig = obj.orig
      /\ o.downAt = obj.downAt
  BY <1>2, <1>3 DEF TaskRecord, States
<1>5. CASE JobKnown
  <2>1. ToStatus(o) /\ UNCHANGED jobs
    BY <1>3, <1>5 DEF Start
  <2> QED BY <1>1, <1>2, <1>4, <2>1, ScaleStatus DEF Over
<1>6. CASE ~JobKnown /\ ~obj.valid
  <2>1. pc' = "idle" /\ obj' = Blank /\ UNCHANGED jobs
    BY <1>6 DEF Start, Idle
  <2> QED BY <1>1, <2>1, ScaleQuiet
<1>7. CASE ~JobKnown /\ obj.valid
  <2>1. jobs' = [jobs EXCEPT ![cur] = "active"] /\ ToStatus(o) /\ jobCache[cur] = "none"
    BY <1>3, <1>7 DEF Start, JobKnown
  <2>2. \A u \in Tasks : jobs'[u] = IF u = cur THEN "active" ELSE jobs[u]
    BY <2>1 DEF TypeOK
  <2>3. tasks[cur].exists /\ tasks[cur].state \notin Over
    BY <1>2 DEF AtJob, Over
  <2>4. cache[cur].state \notin Over
    BY <1>2, <2>3 DEF OverAfterJob, CopiesOf
  <2>5. pc' = "status" /\ cur' = cur /\ obj' = o
    BY <2>1 DEF ToStatus
  <2>6. OverAfterJob'
    BY <1>1, <1>2, <1>4, <2>1, <2>2, <2>3, <2>4, <2>5 DEF OverAfterJob, CopiesOf, Over
  <2> QED BY <1>1, <1>2, <1>4, <2>1, <2>6, ScaleDecide
<1> QED BY <1>5, <1>6, <1>7

LEMMA ScaleCreate ==
  ASSUME Lone, LifecycleInv, JobParts, ScaleParts, NEW t \in Tasks, Create(t)
  PROVE  ScaleParts'
<1> USE DEF ScaleParts
<1> TypeOK
  BY DEF LifecycleInv
<1>1. PICK stop \in BOOLEAN, valid \in BOOLEAN :
        tasks' = [tasks EXCEPT ![t] = [Blank EXCEPT !.exists = TRUE, !.rv = 1,
                                                    !.stopPods = stop, !.valid = valid]]
  BY ChoiceAssumption DEF Create
<1>2. PICK r : r = [Blank EXCEPT !.exists = TRUE, !.rv = 1, !.stopPods = stop, !.valid = valid]
  OBVIOUS
<1>3. r.exists /\ r.state = "Unset" /\ r.rv = 1 /\ ~r.downAt /\ r.orig = NoSizes
  BY <1>2 DEF Blank
<1>4. /\ tasks[t].rv = 0 /\ ~tasks[t].exists /\ StillSpared
      /\ UNCHANGED <<cache, jobs, jobCache, replicas, pods, pc, cur, obj, todo>>
  BY SparedUnchanged DEF Create, LifecycleInv, CopiesAreGuarded
<1>5. pc = "idle"
  BY <1>4, HeldCreated DEF TypeOK, Lone
<1>6. tasks'[t] = r /\ \A u \in Tasks : u = t
  BY <1>1, <1>2 DEF TypeOK, Lone
<1>7. /\ tasks[t].state = "Unset" /\ ~tasks[t].downAt /\ cache[t] = tasks[t]
  <2>1. cache[t].rv \in Nat /\ cache[t].rv <= tasks[t].rv
    BY DEF TypeOK, TaskRecord, LifecycleInv, CopiesAreVersions
  <2> QED BY <1>4, <2>1 DEF JobParts, LaunchesRecorded, NothingStopped, LifecycleInv, CopiesAreVersions
<1>8. OverAfterJob'
  BY <1>3, <1>4, <1>5, <1>6, <1>7 DEF OverAfterJob, CopiesOf, Over
<1>9. NothingStopped' /\ PodsAreHeld'
  BY <1>3, <1>4, <1>5, <1>6 DEF NothingStopped, PodsAreHeld
<1>10. SizesAreOwn'
  <2> SUFFICES ASSUME Intact' PROVE SizesAreOwn'
    BY DEF SizesAreOwn
  <2>1. Intact
    BY <1>4, <1>6, IntactBefore
  <2>2. replicas = Desired
    BY <1>5, <1>7, <2>1 DEF SizesAreOwn
  <2> QED BY <1>3, <1>4, <1>5, <1>6, <2>1, <2>2 DEF SizesAreOwn, SizesRemembered, OwnSizes, NoSizes
<1> QED BY <1>8, <1>9, <1>10

LEMMA ScaleStep ==
  ASSUME Lone
  PROVE  JobInv /\ JobInv' /\ ScaleParts /\ [Next]_vars => ScaleParts'
<1> SUFFICES ASSUME LifecycleInv, LifecycleInv', StartInv, JobParts, ScaleParts, [Next]_vars
             PROVE  ScaleParts'
  BY DEF JobInv, StartInv, JobParts
<1> TypeOK
  BY DEF LifecycleInv
<1>a. pc # "idle" => /\ cur \in Tasks /\ tasks[cur] \in TaskRecord /\ obj \in TaskRecord
                     /\ obj.exists
  BY HeldFacts
<1>b. pc # "idle" /\ pc # "status" /\ Fresh => obj = tasks[cur]
  BY HeldFacts
<1>c. UNCHANGED faults => StillSpared
  BY SparedUnchanged
<1>d. /\ "abort" \in FaultKinds /\ "staleTask" \in FaultKinds /\ "staleJob" \in FaultKinds
      /\ "lookup" \in FaultKinds /\ "expire" \in FaultKinds
  BY DEF FaultKinds
<1>1. CASE RemoveFinalizerIfConditionMet
  <2>1. PICK o : o = [obj EXCEPT !.finalizer = FALSE]
    OBVIOUS
  <2>2. pc = "fetched" /\ UpdateAndReturn(o)
    BY <1>1, <2>1 DEF RemoveFinalizerIfConditionMet
  <2>3. o \in TaskRecord /\ AsBefore(o, obj)
    BY <1>a, <2>1, <2>2 DEF TaskRecord, AsBefore
  <2> QED BY <2>2, <2>3, ScaleUpdate
<1>2. CASE InitResourceIfConditionMet
  <2>1. PICK o : o = [obj EXCEPT !.finalizer = TRUE]
    OBVIOUS
  <2>2. pc = "fetched" /\ UpdateAndReturn(o)
    BY <1>2, <2>1 DEF InitResourceIfConditionMet
  <2>3. o \in TaskRecord /\ AsBefore(o, obj)
    BY <1>a, <2>1, <2>2 DEF TaskRecord, AsBefore
  <2> QED BY <2>2, <2>3, ScaleUpdate
<1>3. CASE InitTask
  <2>1. PICK o : o = [obj EXCEPT !.state = "ScalingDown"]
    OBVIOUS
  <2>2. /\ pc = "fetched" /\ obj.state = "Unset" /\ ToStatus(o)
        /\ UNCHANGED <<tasks, cache, jobs, jobCache, replicas, pods, faults>>
    BY <1>3, <2>1 DEF InitTask
  <2>3. /\ o \in TaskRecord /\ o.rv = obj.rv /\ o.state = "ScalingDown" /\ o.orig = obj.orig
        /\ o.downAt = obj.downAt
    BY <1>a, <2>1, <2>2 DEF TaskRecord, States
  <2>4. Fresh => ~o.downAt
    BY <1>a, <1>b, <2>2, <2>3 DEF ScaleParts, NothingStopped
  <2> QED BY <1>b, <1>c, <2>2, <2>3, <2>4, ScaleStatus DEF Over
<1>4. CASE SkipScaleDown
  <2>1. PICK o : o = [obj EXCEPT !.state = "Starting"]
    OBVIOUS
  <2>2. /\ pc = "fetched" /\ ~obj.stopPods /\ ToStatus(o)
        /\ UNCHANGED <<tasks, cache, jobs, jobCache, replicas, pods, faults>>
    BY <1>4, <2>1 DEF SkipScaleDown
  <2>3. /\ o \in TaskRecord /\ o.rv = obj.rv /\ o.state = "Starting" /\ o.orig = obj.orig
        /\ o.downAt = obj.downAt /\ ~o.stopPods
    BY <1>a, <2>1, <2>2 DEF TaskRecord, States
  <2> QED BY <1>b, <1>c, <2>2, <2>3, ScaleStatus DEF Over
<1>5. CASE RecordSizes
  BY <1>5, ScaleRecord
<1>6. ASSUME NEW w \in Workloads, PatchDown(w)
      PROVE  ScaleParts'
  BY <1>6, ScalePatchDown
<1>7. CASE MarkScaledDown
  <2>1. PICK o : o = [obj EXCEPT !.downAt = TRUE]
    OBVIOUS
  <2>2. /\ pc = "scaleDown" /\ todo = {} /\ obj.state = "ScalingDown" /\ ToStatus(o)
        /\ UNCHANGED <<tasks, cache, jobs, jobCache, replicas, pods, faults>>
    BY <1>7, <2>1 DEF MarkScaledDown, LifecycleInv, WorkerOnTrack
  <2>3. /\ o \in TaskRecord /\ o.rv = obj.rv /\ o.state = "ScalingDown" /\ o.orig = obj.orig
        /\ o.downAt
    BY <1>a, <2>1, <2>2 DEF TaskRecord
  <2>4. Spared({"lookup", "patchDown"}) /\ Fresh => Stopped(o)
    BY <2>2, <2>3 DEF ScaleParts, PodsAreHeld, Stopped
  <2> QED BY <1>b, <1>c, <2>2, <2>3, <2>4, ScalingFaults, ScaleStatus DEF Over
<1>8. CASE AwaitScaleDown
  <2>1. PICK found \in SUBSET Mounting :
          /\ Charge("lookup", found # Mounting)
          /\ ToStatus(IF DownComplete(found) THEN [obj EXCEPT !.state = "Starting"] ELSE obj)
    BY <1>8 DEF AwaitScaleDown
  <2>2. PICK o : o = IF DownComplete(found) THEN [obj EXCEPT !.state = "Starting"] ELSE obj
    OBVIOUS
  <2>3. /\ pc = "fetched" /\ obj.state = "ScalingDown" /\ obj.downAt /\ ToStatus(o)
        /\ UNCHANGED <<tasks, cache, jobs, jobCache, replicas, pods>>
    BY <1>8, <2>1, <2>2 DEF AwaitScaleDown
  <2>4. /\ o \in TaskRecord /\ o.rv = obj.rv /\ o.orig = obj.orig /\ o.downAt
        /\ o.stopPods = obj.stopPods /\ o.state \in {"Starting", "ScalingDown"}
        /\ o.state = "Starting" => DownComplete(found)
    BY <1>a, <2>2, <2>3 DEF TaskRecord, States
  <2>5. StillSpared /\ (Spared({"lookup", "patchDown"})' => found = Mounting)
    BY <1>d, <2>1, SparedCharge, ScalingFaults
  <2>6. Spared({"lookup", "patchDown"})' /\ Fresh /\ o.stopPods => Stopped(o)
    BY <1>a, <1>b, <2>3, <2>4, <2>5, ScalingFaults DEF ScaleParts, PodsAreHeld, Stopped
  <2>7. Spared({"lookup", "patchDown"})' /\ o.state = "Starting"
          => \A w \in Workloads : pods[w] # "ready"
    BY <2>4, <2>5 DEF DownComplete, Mounting
  <2> QED BY <1>b, <2>3, <2>4, <2>5, <2>6, <2>7, ScaleStatus DEF Over, Stopped, Quiet
<1>9. CASE Start
  BY <1>9, ScaleStart
<1>10. CASE UpdateTaskStatus
  <2>1. PICK o : o = [obj EXCEPT !.state = Verdict(jobCache[cur])]
    OBVIOUS
  <2>2. /\ pc = "fetched" /\ ToStatus(o) /\ Charge("staleJob", jobCache[cur] # jobs[cur])
        /\ UNCHANGED <<tasks, cache, jobs, jobCache, replicas, pods>>
    BY <1>10, <2>1 DEF UpdateTaskStatus
  <2>3. jobCache[cur] \in JobStates
    BY <1>a, <2>2 DEF TypeOK
  <2>4. /\ o \in TaskRecord /\ o.rv = obj.rv /\ o.orig = obj.orig /\ o.downAt = obj.downAt
        /\ o.state = Verdict(jobCache[cur])
    BY <1>a, <2>1, <2>2, <2>3 DEF TaskRecord, States, Verdict, JobStates
  <2>5. o.state \in Over => jobs[cur] # "active"
    BY <1>a, <2>2, <2>3, <2>4 DEF Verdict, Over, JobStates, ScaleParts, OverAfterJob
  <2>6. o.state \notin {"Unset", "Starting", "ScalingDown"}
    BY <2>3, <2>4 DEF Verdict, JobStates
  <2>7. StillSpared
    BY <1>d, <2>2, SparedCharge
  <2> QED BY <1>b, <2>2, <2>4, <2>5, <2>6, <2>7, ScaleStatus
<1>11. CASE SkipScaleUp
  <2>1. PICK o : o = [obj EXCEPT !.state = "Completed"]
    OBVIOUS
  <2>2. /\ pc = "fetched" /\ obj.state = "ScalingUp" /\ ToStatus(o)
        /\ UNCHANGED <<tasks, cache, jobs, jobCache, replicas, pods, faults>>
    BY <1>11, <2>1 DEF SkipScaleUp
  <2>3. /\ o \in TaskRecord /\ o.rv = obj.rv /\ o.state = "Completed" /\ o.orig = obj.orig
        /\ o.downAt = obj.downAt
    BY <1>a, <2>1, <2>2 DEF TaskRecord, States
  <2>4. jobs[cur] # "active"
    BY <1>a, <2>2 DEF ScaleParts, OverAfterJob, CopiesOf, Over
  <2> QED BY <1>b, <1>c, <2>2, <2>3, <2>4, ScaleStatus
<1>12. CASE BeginScaleUp
  <2>1. /\ pc = "fetched" /\ obj.state = "ScalingUp" /\ pc' = "scaleUp" /\ todo' = ToWake(obj)
        /\ UNCHANGED <<tasks, cache, jobs, jobCache, replicas, pods, cur, obj, faults>>
    BY <1>12 DEF BeginScaleUp
  <2>2. OverAfterJob' /\ NothingStopped' /\ PodsAreHeld'
    BY <1>c, <2>1, ScalingFaults
       DEF ScaleParts, OverAfterJob, CopiesOf, NothingStopped, PodsAreHeld, Quiet, Fresh
  <2>3. SizesAreOwn'
    <3> SUFFICES ASSUME Intact' PROVE SizesAreOwn'
      BY DEF SizesAreOwn
    <3>1. Intact
      BY <1>c, <2>1, IntactBefore
    <3> QED BY <2>1, <3>1 DEF ScaleParts, SizesAreOwn, SizesRemembered, OwnSizes, Fresh, ToWake
  <2> QED BY <2>2, <2>3 DEF ScaleParts
<1>13. ASSUME NEW w \in Workloads, PatchUp(w)
       PROVE  ScaleParts'
  BY <1>13, ScalePatchUp
<1>14. CASE ForgetSizes
  BY <1>14, ScaleForget
<1>15. CASE AwaitScaleUp
  <2>1. PICK o : o = IF UpComplete(Mounting, obj) THEN [obj EXCEPT !.state = "Completed"] ELSE obj
    OBVIOUS
  <2>2. /\ pc = "fetched" /\ obj.state = "ScalingUp" /\ ToStatus(o)
        /\ UNCHANGED <<tasks, cache, jobs, jobCache, replicas, pods, faults>>
    BY <1>15, <2>1 DEF AwaitScaleUp
  <2>3. /\ o \in TaskRecord /\ o.rv = obj.rv /\ o.state \in {"Completed", "ScalingUp"}
        /\ o.orig = obj.orig /\ o.downAt = obj.downAt
    BY <1>a, <2>1, <2>2 DEF TaskRecord, States
  <2>4. jobs[cur] # "active"
    BY <1>a, <2>2 DEF ScaleParts, OverAfterJob, CopiesOf, Over
  <2> QED BY <1>b, <1>c, <2>2, <2>3, <2>4, ScaleStatus
<1>16. CASE WriteStatus
  BY <1>16, ScaleWriteStatus
<1>17. CASE NothingToDo
  <2>1. /\ UNCHANGED <<tasks, cache, jobs, jobCache, replicas, pods, faults>>
        /\ pc = "fetched" /\ pc' = "idle" /\ obj' = Blank
    BY <1>17 DEF NothingToDo, Idle
  <2> QED BY <1>c, <2>1, ScaleQuiet
<1>18. CASE Abort
  <2>1. /\ UNCHANGED <<tasks, cache, jobs, jobCache, replicas, pods>>
        /\ pc' = "idle" /\ obj' = Blank /\ Charge("abort", TRUE)
    BY <1>18 DEF Abort, Idle
  <2>2. StillSpared /\ ~Spared({"abort", "patchUp"})'
    BY <1>d, <2>1, SparedCharge, ScalingFaults
  <2> QED BY <2>1, <2>2, ScaleQuiet DEF Intact
<1>19. ASSUME NEW t \in Tasks, Fetch(t)
       PROVE  ScaleParts'
  <2>1. /\ pc = "idle" /\ pc' = "fetched" /\ cur' = t /\ obj' = cache[t]
        /\ UNCHANGED <<tasks, cache, jobs, jobCache, replicas, pods>>
    BY <1>19 DEF Fetch
  <2>2. StillSpared
    BY <1>19, <1>d, SparedCharge DEF Fetch
  <2>3. OverAfterJob' /\ NothingStopped' /\ PodsAreHeld'
    BY <2>1, <2>2, ScalingFaults
       DEF ScaleParts, OverAfterJob, CopiesOf, NothingStopped, PodsAreHeld, Quiet
  <2>4. SizesAreOwn'
    <3> SUFFICES ASSUME Intact' PROVE SizesAreOwn'
      BY DEF SizesAreOwn
    <3>1. Intact
      BY <2>1, <2>2, IntactBefore
    <3> QED BY <2>1, <3>1 DEF ScaleParts, SizesAreOwn, SizesRemembered, OwnSizes
  <2> QED BY <2>3, <2>4 DEF ScaleParts
<1>20. ASSUME NEW t \in Tasks, Create(t)
       PROVE  ScaleParts'
  BY <1>20, ScaleCreate
<1>21. ASSUME NEW t \in Tasks, UserDelete(t)
       PROVE  ScaleParts'
  <2>1. PICK o : o = [tasks[t] EXCEPT !.deleting = TRUE]
    OBVIOUS
  <2>2. PICK r : r = Stored(tasks[t], o)
    OBVIOUS
  <2>3. tasks[t] \in TaskRecord
    BY DEF TypeOK
  <2>4. /\ tasks' = [tasks EXCEPT ![t] = r] /\ tasks[t].exists /\ ~tasks[t].deleting
        /\ UNCHANGED <<cache, jobs, jobCache, replicas, pods, pc, cur, obj, todo, faults>>
    BY <1>21, <2>1, <2>2 DEF UserDelete
  <2>5. o \in TaskRecord /\ AsBefore(o, tasks[t]) /\ o.deleting
    BY <2>1, <2>3 DEF TaskRecord, AsBefore
  <2>6. /\ r \in TaskRecord /\ (r # tasks[t] => r.rv = tasks[t].rv + 1)
        /\ AsBefore(r, tasks[t]) \/ r = Removed(tasks[t])
    BY <2>2, <2>3, <2>5, StoredAsBefore
  <2>7. ~Intact'
    <3>1. tasks[t].rv \in Nat /\ tasks'[t] = r
      BY <2>3, <2>4 DEF TypeOK, TaskRecord
    <3>2. o # tasks[t]
      BY <2>4, <2>5
    <3>3. r.rv = tasks[t].rv + 1 /\ (~r.exists \/ r.deleting)
      <4>1. r \in {[Blank EXCEPT !.rv = tasks[t].rv + 1], [o EXCEPT !.rv = tasks[t].rv + 1]}
        BY <2>2, <3>2 DEF Stored
      <4> QED BY <2>3, <2>5, <4>1 DEF Blank, TaskRecord
    <3> QED BY <3>1, <3>3 DEF Intact
  <2> QED BY <1>c, <2>4, <2>6, <2>7, ScaleWrite
<1>22. ASSUME NEW t \in Tasks, SyncTask(t)
       PROVE  ScaleParts'
  <2>1. /\ cache' = [cache EXCEPT ![t] = tasks[t]]
        /\ UNCHANGED <<tasks, jobs, jobCache, replicas, pods, pc, cur, obj, todo, faults>>
    BY <1>22 DEF SyncTask
  <2>2. \A u \in Tasks : cache'[u] \in {cache[u], tasks[u]}
    BY <2>1 DEF TypeOK
  <2>3. OverAfterJob'
    BY <2>1, <2>2 DEF ScaleParts, OverAfterJob, CopiesOf, Fresh
  <2>4. NothingStopped' /\ PodsAreHeld'
    BY <1>c, <2>1, ScalingFaults DEF ScaleParts, NothingStopped, PodsAreHeld, Quiet, Stopped, Fresh
  <2>5. SizesAreOwn'
    <3> SUFFICES ASSUME Intact' PROVE SizesAreOwn'
      BY DEF SizesAreOwn
    <3>1. Intact
      BY <1>c, <2>1, IntactBefore
    <3> QED BY <2>1, <2>2, <3>1 DEF ScaleParts, SizesAreOwn, SizesRemembered, OwnSizes, Fresh
  <2> QED BY <2>3, <2>4, <2>5 DEF ScaleParts
<1>23. ASSUME NEW t \in Tasks, SyncJob(t)
       PROVE  ScaleParts'
  <2>1. /\ jobCache' = [jobCache EXCEPT ![t] = jobs[t]]
        /\ UNCHANGED <<tasks, cache, jobs, replicas, pods, pc, cur, obj, todo, faults>>
    BY <1>23 DEF SyncJob
  <2>2. \A u \in Tasks : jobCache'[u] \in {jobCache[u], jobs[u]}
    BY <2>1 DEF TypeOK
  <2>3. OverAfterJob'
    BY <2>1, <2>2 DEF ScaleParts, OverAfterJob, CopiesOf, Fresh
  <2> QED BY <1>c, <2>1, <2>3, ScaleJobs
<1>24. ASSUME NEW t \in Tasks, FinishJob(t)
       PROVE  ScaleParts'
  <2>1. PICK outcome \in {"succeeded", "failed"} : jobs' = [jobs EXCEPT ![t] = outcome]
    BY <1>24, ChoiceAssumption DEF FinishJob
  <2>2. UNCHANGED <<tasks, cache, jobCache, replicas, pods, pc, cur, obj, todo, faults>>
    BY <1>24 DEF FinishJob
  <2>3. \A u \in Tasks : jobs'[u] = "active" => jobs[u] = "active"
    BY <2>1 DEF TypeOK
  <2>4. OverAfterJob'
    BY <1>a, <2>2, <2>3 DEF ScaleParts, OverAfterJob, CopiesOf, Fresh
  <2> QED BY <1>c, <2>2, <2>4, ScaleJobs
<1>25. ASSUME NEW t \in Tasks, ExpireJob(t)
       PROVE  ScaleParts'
  <2>1. /\ jobs' = [jobs EXCEPT ![t] = "none"]
        /\ Charge("expire", tasks[t].state \in {"Starting", "Running"})
        /\ UNCHANGED <<tasks, cache, jobCache, replicas, pods, pc, cur, obj, todo>>
    BY <1>25 DEF ExpireJob
  <2>2. StillSpared
    <3> DEFINE bad == tasks[t].state \in {"Starting", "Running"}
    <3>1. Charge("expire", bad) /\ bad \in BOOLEAN
      BY <2>1
    <3> HIDE DEF bad
    <3> QED BY <1>d, <3>1, SparedCharge
  <2>3. \A u \in Tasks : jobs'[u] = "active" => jobs[u] = "active"
    BY <2>1 DEF TypeOK
  <2>4. OverAfterJob'
    BY <1>a, <2>1, <2>3 DEF ScaleParts, OverAfterJob, CopiesOf, Fresh
  <2> QED BY <2>1, <2>2, <2>4, ScaleJobs
<1>26. ASSUME NEW w \in Workloads, PodStep(w)
       PROVE  ScaleParts'
  <2>1. UNCHANGED <<tasks, cache, jobs, jobCache, replicas, pc, cur, obj, todo, faults>>
    BY <1>26 DEF PodStep
  <2>2. /\ \A v \in Workloads : v # w => pods'[v] = pods[v]
        /\ pods'[w] = "ready" => replicas[w] > 0
        /\ pods'[w] = "gone" => replicas[w] = 0
    BY <1>26 DEF PodStep, TypeOK
  <2>3. OverAfterJob' /\ NothingStopped'
    BY <2>1 DEF ScaleParts, OverAfterJob, CopiesOf, NothingStopped, Fresh
  <2>4. PodsAreHeld'
    <3> SUFFICES ASSUME Spared({"lookup", "patchDown"})' PROVE PodsAreHeld'
      BY DEF PodsAreHeld
    <3>1. Spared({"lookup", "patchDown"})
      BY <1>c, <2>1, ScalingFaults
    <3>2. \A o \in TaskRecord : (Quiet(o) => Quiet(o)') /\ (Stopped(o) => Stopped(o)')
      BY <2>1, <2>2 DEF Quiet, Stopped
    <3>3. \A t \in Tasks : tasks[t] \in TaskRecord
      BY DEF TypeOK
    <3> QED BY <1>a, <2>1, <2>2, <3>1, <3>2, <3>3 DEF ScaleParts, PodsAreHeld, Fresh
  <2>5. SizesAreOwn'
    <3> SUFFICES ASSUME Intact' PROVE SizesAreOwn'
      BY DEF SizesAreOwn
    <3>1. Intact
      BY <1>c, <2>1, IntactBefore
    <3> QED BY <2>1, <3>1 DEF ScaleParts, SizesAreOwn, SizesRemembered, OwnSizes, Fresh
  <2> QED BY <2>3, <2>4, <2>5 DEF ScaleParts
<1>27. CASE UNCHANGED vars
  BY <1>27, <1>c, ScaleQuiet DEF vars
<1> QED
  BY <1>1, <1>2, <1>3, <1>4, <1>5, <1>6, <1>7, <1>8, <1>9, <1>10, <1>11, <1>12, <1>13, <1>14,
     <1>15, <1>16, <1>17, <1>18, <1>19, <1>20, <1>21, <1>22, <1>23, <1>24, <1>25, <1>26, <1>27
     DEF Next, WorkerStep

-----------------------------------------------------------------------------
(* The theorems. *)

(* The inductive invariant behind the properties of scaling holds of a Task *)
(* that is alone with its PVC.                                              *)
THEOREM ScalingHolds == ASSUME Lone PROVE Spec => []ScalingInv
<1>1. JobInv /\ JobInv' /\ ScaleParts /\ [Next]_vars => ScaleParts'
  BY ScaleStep
<1>2. Spec => []ScaleParts
  BY <1>1, JobInvHolds, ScaleInit, PTL DEF Spec
<1>3. JobInv /\ ScaleParts => ScalingInv
  BY DEF ScaleParts, ScalingInv
<1> QED BY <1>2, <1>3, JobInvHolds, PTL

(* The size of a workload is never lost, but to a death of the worker, a    *)
(* refused scale-up patch or a user who deletes the Task.                   *)
THEOREM SizesAreKept == ASSUME Lone PROVE Spec => []SizesKept
<1>1. ScalingInv => SizesKept
  BY DEF ScalingInv, SizesAreOwn, SizesKept
<1> QED BY <1>1, ScalingHolds, PTL

(* While the Job of a Task that stops pods is active, no pod of a workload  *)
(* it has recorded is ready, unless pods were overlooked or a patch refused. *)
THEOREM PodsStayDown == ASSUME Lone PROVE Spec => []HeldDuringJob
<1>1. ScalingInv => HeldDuringJob
  <2> SUFFICES ASSUME ScalingInv, Spared({"lookup", "patchDown"}), NEW t \in Tasks,
                      NEW w \in Workloads, tasks[t].stopPods, jobs[t] = "active",
                      tasks[t].orig[w] # NoSize
               PROVE  pods[w] # "ready"
    BY DEF HeldDuringJob
  <2>1. launches[t] > 0 /\ tasks[t].exists
    BY DEF ScalingInv, JobInv, LifecycleInv, HistoryAgrees, NothingStopped
  <2>2. tasks[t].state \in Begun \ Over
    BY <2>1 DEF ScalingInv, JobInv, LaunchesRecorded, OverAfterJob, CopiesOf
  <2> QED BY <2>2 DEF Begun, Over, ScalingInv, PodsAreHeld, Quiet
<1> QED BY <1>1, ScalingHolds, PTL

(* Whatever fails, workloads are woken only after the Job.                  *)
THEOREM WakesAreLate == ASSUME Lone PROVE Spec => WakeAfterJob
<1>1. ScalingInv /\ [Next]_vars =>
        [\A w \in Workloads : replicas'[w] > replicas[w]
                                => \A t \in Tasks : jobs[t] # "active"]_vars
  <2> SUFFICES ASSUME ScalingInv, [Next]_vars, NEW w \in Workloads, replicas'[w] > replicas[w],
                      NEW t \in Tasks
               PROVE  jobs[t] # "active"
    OBVIOUS
  <2>0. TypeOK /\ replicas[w] \in Nat
    BY DEF ScalingInv, JobInv, LifecycleInv, TypeOK
  <2>1. replicas' # replicas
    BY <2>0
  <2>2. (\E v \in Workloads : PatchDown(v)) \/ (\E v \in Workloads : PatchUp(v))
    BY <2>1, Zenon DEF Next, WorkerStep, vars, RemoveFinalizerIfConditionMet,
       InitResourceIfConditionMet, InitTask, SkipScaleDown, RecordSizes, MarkScaledDown,
       AwaitScaleDown, Start, UpdateTaskStatus, SkipScaleUp, BeginScaleUp, ForgetSizes,
       AwaitScaleUp, WriteStatus, NothingToDo, Abort, Fetch, Create, UserDelete, SyncTask, SyncJob,
       FinishJob, ExpireJob, PodStep, UpdateAndReturn
  <2>3. ASSUME NEW v \in Workloads, PatchDown(v) PROVE FALSE
    <3>1. replicas' = replicas \/ replicas' = [replicas EXCEPT ![v] = 0]
      BY <2>3 DEF PatchDown
    <3>2. replicas'[w] = replicas[w] \/ replicas'[w] = 0
      BY <2>0, <3>1 DEF TypeOK
    <3> QED BY <2>0, <3>2
  <2>4. ASSUME NEW v \in Workloads, PatchUp(v) PROVE jobs[t] # "active"
    <3>1. pc = "scaleUp" /\ obj.state = "ScalingUp" /\ cur = t
      BY <2>0, <2>4 DEF PatchUp, ScalingInv, JobInv, LifecycleInv, WorkerOnTrack, TypeOK, Lone
    <3> QED BY <3>1 DEF ScalingInv, OverAfterJob, CopiesOf, Over
  <2> QED BY <2>2, <2>3, <2>4
<1> QED BY <1>1, ScalingHolds, PTL DEF Spec, WakeAfterJob
=============================================================================
