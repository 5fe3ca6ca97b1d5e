--------------------------- MODULE TaskReconciler ---------------------------
(***************************************************************************)
(* The Tasks controller: one worker goroutine (MaxConcurrentReconciles 1)  *)
(* that takes Task names from its queue, reads the Task from the informer  *)
(* cache and runs the first stage of the pipeline that applies: finalizer, *)
(* Init, scale down the workloads that mount the PVC, start the restic     *)
(* Job, observe the Job, scale the workloads up again, finish.             *)
(*                                                                         *)
(* Every call a stage makes to the API server is a step of its own, so the *)
(* worker may die, and users, the Job controller, the kubelet and the      *)
(* informers may move, between any two calls.  All Tasks of the model      *)
(* target one PVC, and every workload of the model mounts it.              *)
(***************************************************************************)
EXTENDS Integers, Sequences

CONSTANTS
  Tasks,            \* the Task objects that may ever be created
  Workloads,        \* the Deployments and StatefulSets that mount the PVC
  NoTask,           \* not a Task: the worker holds none
  Desired,          \* Desired[w]: the size the user gave workload w
  StopPodsChoices,  \* the values of spec.stopPods a Task may be created with
  TemplateChoices,  \* does the API server accept the Job of its template
  InitialPods,      \* the states the pods of a workload may be found in
  JobOutcomes,      \* how a restic Job may end
  UserDeletes,      \* may a user delete a Task
  Faults,           \* which adverse events may happen ...
  MaxFaults         \* ... and how many of them in one behaviour (a bound)

FaultKinds == {"abort",      \* the worker dies or an API call returns an error
               "staleTask",  \* a Task is read from a cache that lags
               "staleJob",   \* a Job is read from a cache that lags
               "lookup",     \* the owner of a pod cannot be read
               "patchDown",  \* a scale-down patch is refused
               "patchUp",    \* a scale-up patch is refused
               "expire"}     \* a finished Job is deleted before it is observed

PodPhases == {"gone", "unready", "ready"}

ASSUME NoTaskAssumption == NoTask \notin Tasks
ASSUME DesiredAssumption == Desired \in [Workloads -> Nat \ {0}]
ASSUME ChoiceAssumption == /\ StopPodsChoices \subseteq BOOLEAN
                           /\ TemplateChoices \subseteq BOOLEAN
                           /\ InitialPods \subseteq PodPhases
                           /\ JobOutcomes \subseteq {"succeeded", "failed"}
                           /\ UserDeletes \in BOOLEAN
ASSUME FaultAssumption == Faults \subseteq FaultKinds /\ MaxFaults \in Nat

VARIABLES
  tasks,      \* the API server's copy of every Task
  cache,      \* the informer's copy of every Task
  jobs,       \* the API server's Job of every Task
  jobCache,   \* the informer's copy of every Job
  launches,   \* launches[t]: Jobs created for t so far (history)
  succeeded,  \* Tasks a Job of which has succeeded (history)
  replicas,   \* spec.replicas of every workload
  pods,       \* pods of every workload, as its ReadyReplicas and a pod list show
  pc,         \* what the worker does next
  cur,        \* the Task the worker reconciles
  obj,        \* the worker's in-memory copy of that Task
  todo,       \* workloads the worker still has to patch
  scaled,     \* scalingPerformed of ScaleUpWorkloadsForPVC
  faults      \* the adverse events so far, in their order (history)

apiVars     == <<tasks, cache>>
jobVars     == <<jobs, jobCache, launches, succeeded>>
clusterVars == <<replicas, pods>>
workerVars  == <<pc, cur, obj, todo, scaled>>
vars == <<apiVars, jobVars, clusterVars, workerVars, faults>>

-----------------------------------------------------------------------------
(* Task objects.  "Unset" is the empty status.state of a new Task: BuildTask *)
(* asks for Pending, but Create drops the status of a kind with a status    *)
(* subresource.  InitializedAt is set exactly when the state leaves Unset.  *)

States == {"Unset", "ScalingDown", "Starting", "Running", "ScalingUp",
           "Completed", "Failed"}
Finished == {"Completed", "Failed"}

NoSize  == -1
NoSizes == [w \in Workloads |-> NoSize]     \* no original-replicas annotation

TaskRecord == [exists : BOOLEAN, rv : Nat, stopPods : BOOLEAN, valid : BOOLEAN,
               deleting : BOOLEAN, finalizer : BOOLEAN, state : States,
               downAt : BOOLEAN, upAt : BOOLEAN,
               orig : [Workloads -> Nat \cup {NoSize}]]

Blank == [exists |-> FALSE, rv |-> 0, stopPods |-> FALSE, valid |-> FALSE,
          deleting |-> FALSE, finalizer |-> FALSE, state |-> "Unset",
          downAt |-> FALSE, upAt |-> FALSE, orig |-> NoSizes]

JobStates == {"none", "active", "succeeded", "failed"}

-----------------------------------------------------------------------------
(* Mutants: plausible mistakes in the definition named, to show that the    *)
(* properties notice them.                                                  *)

(* Stored: a status write that does not change the version. *)
StoredUnversioned(old, o) ==
  IF o.deleting /\ ~o.finalizer THEN [Blank EXCEPT !.rv = old.rv] ELSE [o EXCEPT !.rv = old.rv]

(* Stored: an object without a finalizer waits to be deleted by the worker. *)
StoredLingering(old, o) == IF o = old THEN old ELSE [o EXCEPT !.rv = old.rv + 1]

(* IsFinished: the finalizer goes when the Job is over. *)
IsFinishedEarly(o) == o.state \in Finished \cup {"ScalingUp"}

(* Fresh: the last writer wins. *)
AlwaysFresh == TRUE

(* Recorded: status.readyReplicas instead of spec.replicas. *)
RecordedReady(found) ==
  [w \in Workloads |-> IF w \notin found THEN NoSize
                       ELSE IF pods[w] = "ready" THEN replicas[w] ELSE 0]

(* DownComplete: the patch is taken for the effect. *)
DownCompleteAtOnce(found) == TRUE

(* JobKnown: only the cache is asked, and names are generated. *)
JobKnownToCache == jobCache[cur] # "none"

(* ToWake: by pods, of which a workload scaled to 0 has none; or everything. *)
ToWakeByPods(o) == {w \in Workloads : o.orig[w] # NoSize /\ pods[w] # "gone"}
ToWakeAll(o) == Workloads

(* Verdict: what has not failed has succeeded; what is not active has       *)
(* failed; a missing Job changes nothing.                                   *)
VerdictOptimist(job) == IF job = "failed" THEN "Failed" ELSE "ScalingUp"
VerdictPessimist(job) == IF job = "active" THEN "Running" ELSE "Failed"
VerdictPatient(job) == CASE job = "succeeded" -> "ScalingUp"
                         [] job = "failed" -> "Failed"
                         [] job \in {"active", "none"} -> "Running"

-----------------------------------------------------------------------------
(* API objects. *)

(* What the API server stores when it accepts object o in place of old: a   *)
(* write that changes nothing keeps the version, and a Task being deleted   *)
(* is gone once its last finalizer is.                                      *)
Stored(old, o) ==
  IF o = old THEN old
  ELSE IF o.deleting /\ ~o.finalizer THEN [Blank EXCEPT !.rv = old.rv + 1]
  ELSE [o EXCEPT !.rv = old.rv + 1]

(* isFinished of Reconcile. *)
IsFinished(o) == o.state \in Finished

-----------------------------------------------------------------------------
(* The worker. *)

(* Optimistic concurrency: an Update or Status().Update of the in-memory    *)
(* copy is accepted only if nobody has written the object since.            *)
Fresh == obj.rv = tasks[cur].rv

Idle == pc' = "idle" /\ cur' = NoTask /\ obj' = Blank /\ todo' = {} /\ scaled' = FALSE

(* An adverse event happens: it must be allowed and is written down.        *)
Charge(kind, bad) ==
  /\ bad => kind \in Faults /\ Len(faults) < MaxFaults
  /\ faults' = IF bad THEN Append(faults, kind) ELSE faults

(* doStatus: the stage has set its fields, Step writes the status next.     *)
ToStatus(o) == pc' = "status" /\ obj' = o /\ UNCHANGED <<cur, todo, scaled>>

(* Workloads that FindWorkloadsForPVC can find: it starts from pods.        *)
Mounting == {w \in Workloads : pods[w] # "gone"}

(* The sizes GetOriginalReplicasInfo reads from the workloads found.        *)
Recorded(found) == [w \in Workloads |-> IF w \in found THEN replicas[w] ELSE NoSize]

(* IsScaleDownCompleteForPVC: no workload found reports ready replicas.     *)
DownComplete(found) == \A w \in found : pods[w] # "ready"

(* IsScaleUpCompleteForPVC: no annotation, or all annotated are ready.      *)
UpComplete(found, o) ==
  \A w \in found : o.orig[w] > 0 => pods[w] = "ready"

(* The Job of cur is found by CheckJobExistsForTask, in the cache, or by     *)
(* Create, which the API server answers with AlreadyExists.                 *)
JobKnown == jobCache[cur] # "none" \/ jobs[cur] # "none"

(* ScaleUpWorkloadsForPVC goes by what was recorded, not by pods.           *)
ToWake(o) == {w \in Workloads : o.orig[w] # NoSize}

(* JobToTaskStatus and the "job == nil" branch of UpdateTaskStatus.         *)
Verdict(job) == CASE job = "succeeded" -> "ScalingUp"
                  [] job \in {"failed", "none"} -> "Failed"
                  [] job = "active" -> "Running"

Init ==
  /\ tasks = [t \in Tasks |-> Blank]
  /\ cache = tasks
  /\ jobs = [t \in Tasks |-> "none"]
  /\ jobCache = jobs
  /\ launches = [t \in Tasks |-> 0]
  /\ succeeded = {}
  /\ replicas = Desired
  /\ pods \in [Workloads -> InitialPods]
  /\ pc = "idle" /\ cur = NoTask /\ obj = Blank /\ todo = {} /\ scaled = FALSE
  /\ faults = <<>>

(* Reconcile begins: CheckResource reads the Task from the cache.  A Task   *)
(* the cache does not hold changes nothing (an error is returned).          *)
Fetch(t) ==
  /\ pc = "idle"
  /\ cache[t].exists
  /\ Charge("staleTask", cache[t] # tasks[t])
  /\ pc' = "fetched" /\ cur' = t /\ obj' = cache[t]
  /\ UNCHANGED <<apiVars, jobVars, clusterVars, todo, scaled>>

(* An Update of the object by a stage that then returns, whatever it says.  *)
UpdateAndReturn(o) ==
  /\ tasks' = IF Fresh THEN [tasks EXCEPT ![cur] = Stored(tasks[cur], o)] ELSE tasks
  /\ Idle
  /\ UNCHANGED <<cache, jobVars, clusterVars, faults>>

RemoveFinalizerIfConditionMet ==
  /\ pc = "fetched"
  /\ IsFinished(obj) /\ obj.finalizer
  /\ UpdateAndReturn([obj EXCEPT !.finalizer = FALSE])

InitResourceIfConditionMet ==
  /\ pc = "fetched"
  /\ obj.state = "Unset" /\ ~obj.finalizer
  /\ UpdateAndReturn([obj EXCEPT !.finalizer = TRUE])

InitTask ==
  /\ pc = "fetched"
  /\ obj.state = "Unset" /\ obj.finalizer
  /\ ToStatus([obj EXCEPT !.state = "ScalingDown"])
  /\ UNCHANGED <<apiVars, jobVars, clusterVars, faults>>

(* CheckTaskScaleDown, spec.stopPods false.                                 *)
SkipScaleDown ==
  /\ pc = "fetched"
  /\ obj.state = "ScalingDown" /\ ~obj.stopPods
  /\ ToStatus([obj EXCEPT !.state = "Starting"])
  /\ UNCHANGED <<apiVars, jobVars, clusterVars, faults>>

(* ScaleDownWorkloadsForPVC up to the Update that stores the sizes found.   *)
(* No workload: proceed.  A conflict: the error ends the reconcile.         *)
RecordSizes ==
  /\ pc = "fetched"
  /\ obj.state = "ScalingDown" /\ obj.stopPods /\ ~obj.downAt
  /\ \E found \in SUBSET Mounting :
       /\ Charge("lookup", found # Mounting)
       /\ \/ /\ found = {}
             /\ ToStatus([obj EXCEPT !.state = "Starting"])
             /\ UNCHANGED tasks
          \/ /\ found # {} /\ Fresh
             /\ LET o == Stored(tasks[cur], [obj EXCEPT !.orig = Recorded(found)]) IN
                  /\ tasks' = [tasks EXCEPT ![cur] = o]
                  /\ obj' = o
             /\ pc' = "scaleDown" /\ todo' = found
             /\ UNCHANGED <<cur, scaled>>
          \/ /\ found # {} /\ ~Fresh
             /\ Idle
             /\ UNCHANGED tasks
  /\ UNCHANGED <<cache, jobVars, clusterVars>>

(* One iteration of ScaleWorkloadsTo(0): the error of a patch is dropped.   *)
PatchDown(w) ==
  /\ pc = "scaleDown" /\ w \in todo
  /\ \E refused \in BOOLEAN :
       /\ Charge("patchDown", refused)
       /\ replicas' = IF refused THEN replicas ELSE [replicas EXCEPT ![w] = 0]
  /\ todo' = todo \ {w}
  /\ UNCHANGED <<apiVars, jobVars, pods, pc, cur, obj, scaled>>

MarkScaledDown ==
  /\ pc = "scaleDown" /\ todo = {}
  /\ ToStatus([obj EXCEPT !.downAt = TRUE])
  /\ UNCHANGED <<apiVars, jobVars, clusterVars, faults>>

AwaitScaleDown ==
  /\ pc = "fetched"
  /\ obj.state = "ScalingDown" /\ obj.stopPods /\ obj.downAt
  /\ \E found \in SUBSET Mounting :
       /\ Charge("lookup", found # Mounting)
       /\ ToStatus(IF DownComplete(found) THEN [obj EXCEPT !.state = "Starting"] ELSE obj)
  /\ UNCHANGED <<apiVars, jobVars, clusterVars>>

(* Start: adopt the Job the cache or the API server already has, create it, *)
(* or return the error of a template that cannot be decoded or is refused   *)
(* (the Failed that is set then is never written, see Abort).               *)
Start ==
  /\ pc = "fetched"
  /\ obj.state = "Starting"
  /\ \/ /\ JobKnown
        /\ ToStatus([obj EXCEPT !.state = "Running"])
        /\ UNCHANGED <<jobs, launches>>
     \/ /\ ~JobKnown /\ obj.valid
        /\ jobs' = [jobs EXCEPT ![cur] = "active"]
        /\ launches' = [launches EXCEPT ![cur] = @ + 1]
        /\ ToStatus([obj EXCEPT !.state = "Running"])
     \/ /\ ~JobKnown /\ ~obj.valid
        /\ Idle
        /\ UNCHANGED <<jobs, launches>>
  /\ UNCHANGED <<apiVars, jobCache, succeeded, clusterVars, faults>>

UpdateTaskStatus ==
  /\ pc = "fetched"
  /\ obj.state = "Running"
  /\ Charge("staleJob", jobCache[cur] # jobs[cur])
  /\ ToStatus([obj EXCEPT !.state = Verdict(jobCache[cur])])
  /\ UNCHANGED <<apiVars, jobVars, clusterVars>>

(* CheckTaskScaleUp with nothing to restore: stopPods false, or no          *)
(* annotation to read.                                                      *)
SkipScaleUp ==
  /\ pc = "fetched"
  /\ obj.state = "ScalingUp"
  /\ ~obj.stopPods \/ (~obj.upAt /\ obj.orig = NoSizes)
  /\ ToStatus([obj EXCEPT !.state = "Completed"])
  /\ UNCHANGED <<apiVars, jobVars, clusterVars, faults>>

(* ScaleUpWorkloadsForPVC: the workloads are looked up by the recorded UID. *)
BeginScaleUp ==
  /\ pc = "fetched"
  /\ obj.state = "ScalingUp" /\ obj.stopPods /\ ~obj.upAt /\ obj.orig # NoSizes
  /\ pc' = "scaleUp" /\ todo' = ToWake(obj)
  /\ UNCHANGED <<apiVars, jobVars, clusterVars, cur, obj, scaled, faults>>

PatchUp(w) ==
  /\ pc = "scaleUp" /\ w \in todo
  /\ \E refused \in BOOLEAN :
       /\ Charge("patchUp", refused)
       /\ replicas' = IF refused THEN replicas ELSE [replicas EXCEPT ![w] = obj.orig[w]]
       /\ scaled' = (scaled \/ ~refused)
  /\ todo' = todo \ {w}
  /\ UNCHANGED <<apiVars, jobVars, pods, pc, cur, obj>>

(* RemoveOriginalReplicasAnnotation, whether or not anything was scaled.    *)
ForgetSizes ==
  /\ pc = "scaleUp" /\ todo = {}
  /\ \/ /\ Fresh
        /\ LET o == Stored(tasks[cur], [obj EXCEPT !.orig = NoSizes]) IN
             /\ tasks' = [tasks EXCEPT ![cur] = o]
             /\ ToStatus(IF scaled THEN [o EXCEPT !.upAt = TRUE]
                                   ELSE [o EXCEPT !.state = "Completed"])
     \/ /\ ~Fresh
        /\ Idle
        /\ UNCHANGED tasks
  /\ UNCHANGED <<cache, jobVars, clusterVars, faults>>

AwaitScaleUp ==
  /\ pc = "fetched"
  /\ obj.state = "ScalingUp" /\ obj.stopPods /\ obj.upAt
  /\ ToStatus(IF UpComplete(Mounting, obj) THEN [obj EXCEPT !.state = "Completed"] ELSE obj)
  /\ UNCHANGED <<apiVars, jobVars, clusterVars, faults>>

(* doStatus of Step: only the status travels, and only if Fresh.            *)
WriteStatus ==
  /\ pc = "status"
  /\ UpdateAndReturn([tasks[cur] EXCEPT !.state = obj.state, !.downAt = obj.downAt,
                                        !.upAt = obj.upAt])

(* No stage applies: the Task is finished and its finalizer removed.        *)
NothingToDo ==
  /\ pc = "fetched"
  /\ IsFinished(obj) /\ ~obj.finalizer
  /\ Idle
  /\ UNCHANGED <<apiVars, jobVars, clusterVars, faults>>

(* The process dies, or the next call fails: the reconcile ends here and    *)
(* what it kept in memory is lost, a State = Failed it may have set         *)
(* included (Step returns on an error before it calls onReconcile).         *)
Abort ==
  /\ pc # "idle"
  /\ Charge("abort", TRUE)
  /\ Idle
  /\ UNCHANGED <<apiVars, jobVars, clusterVars>>

WorkerStep ==
  \/ RemoveFinalizerIfConditionMet
  \/ InitResourceIfConditionMet
  \/ InitTask
  \/ SkipScaleDown
  \/ RecordSizes
  \/ \E w \in Workloads : PatchDown(w)
  \/ MarkScaledDown
  \/ AwaitScaleDown
  \/ Start
  \/ UpdateTaskStatus
  \/ SkipScaleUp
  \/ BeginScaleUp
  \/ \E w \in Workloads : PatchUp(w)
  \/ ForgetSizes
  \/ AwaitScaleUp
  \/ WriteStatus
  \/ NothingToDo

-----------------------------------------------------------------------------
(* The rest of the cluster. *)

(* The Config controller creates a Task built by BuildTask.                 *)
Create(t) ==
  /\ tasks[t].rv = 0
  /\ \E stop \in StopPodsChoices, valid \in TemplateChoices :
       tasks' = [tasks EXCEPT ![t] = [Blank EXCEPT !.exists = TRUE, !.rv = 1,
                                                   !.stopPods = stop, !.valid = valid]]
  /\ UNCHANGED <<cache, jobVars, clusterVars, workerVars, faults>>

(* kubectl delete: the object goes at once, or waits for its finalizer.     *)
UserDelete(t) ==
  /\ UserDeletes
  /\ tasks[t].exists /\ ~tasks[t].deleting
  /\ tasks' = [tasks EXCEPT ![t] = Stored(@, [@ EXCEPT !.deleting = TRUE])]
  /\ UNCHANGED <<cache, jobVars, clusterVars, workerVars, faults>>

SyncTask(t) ==
  /\ cache[t] # tasks[t]
  /\ cache' = [cache EXCEPT ![t] = tasks[t]]
  /\ UNCHANGED <<tasks, jobVars, clusterVars, workerVars, faults>>

SyncJob(t) ==
  /\ jobCache[t] # jobs[t]
  /\ jobCache' = [jobCache EXCEPT ![t] = jobs[t]]
  /\ UNCHANGED <<apiVars, jobs, launches, succeeded, clusterVars, workerVars, faults>>

(* The restic pod ends (backoffLimit 0: a failure is final).                *)
FinishJob(t) ==
  /\ jobs[t] = "active"
  /\ \E outcome \in JobOutcomes :
       /\ jobs' = [jobs EXCEPT ![t] = outcome]
       /\ succeeded' = IF outcome = "succeeded" THEN succeeded \cup {t} ELSE succeeded
  /\ UNCHANGED <<apiVars, jobCache, launches, clusterVars, workerVars, faults>>

(* A finished Job is deleted 15 seconds later (ttlSecondsAfterFinished); it *)
(* is an adverse event when the Task has not been updated by then.  A Job   *)
(* is never garbage before: the PVC owns it as well as the Task does.       *)
ExpireJob(t) ==
  /\ jobs[t] \in {"succeeded", "failed"}
  /\ Charge("expire", tasks[t].state \in {"Starting", "Running"})
  /\ jobs' = [jobs EXCEPT ![t] = "none"]
  /\ UNCHANGED <<apiVars, jobCache, launches, succeeded, clusterVars, workerVars>>

(* The workload controllers and the kubelet bring the pods to the size.     *)
PodStep(w) ==
  /\ \/ /\ replicas[w] > 0 /\ pods[w] = "gone"
        /\ pods' = [pods EXCEPT ![w] = "unready"]
     \/ /\ replicas[w] > 0 /\ pods[w] = "unready"
        /\ pods' = [pods EXCEPT ![w] = "ready"]
     \/ /\ replicas[w] = 0 /\ pods[w] = "ready"
        /\ pods' = [pods EXCEPT ![w] = "unready"]
     \/ /\ replicas[w] = 0 /\ pods[w] = "unready"
        /\ pods' = [pods EXCEPT ![w] = "gone"]
  /\ UNCHANGED <<apiVars, jobVars, replicas, workerVars, faults>>

Next ==
  \/ WorkerStep
  \/ Abort
  \/ \E t \in Tasks : \/ Fetch(t)
                      \/ Create(t)
                      \/ UserDelete(t)
                      \/ SyncTask(t)
                      \/ SyncJob(t)
                      \/ FinishJob(t)
                      \/ ExpireJob(t)
  \/ \E w \in Workloads : PodStep(w)

Spec == Init /\ [][Next]_vars

(* The queue hands out every Task that stays in it (after an error or a     *)
(* RequeueAfter a Task is added again), a reconcile that has begun goes on, *)
(* informers catch up, a restic Job ends and pods follow their workload.    *)
Fairness ==
  /\ WF_vars(WorkerStep)
  /\ \A t \in Tasks : /\ SF_vars(Fetch(t))
                      /\ WF_vars(SyncTask(t))
                      /\ WF_vars(SyncJob(t))
                      /\ WF_vars(FinishJob(t))
  /\ \A w \in Workloads : WF_vars(PodStep(w))

FairSpec == Spec /\ Fairness
-----------------------------------------------------------------------------
(* Properties. *)

(* The types of all variables.                                              *)
TypeOK ==
  /\ tasks \in [Tasks -> TaskRecord] /\ cache \in [Tasks -> TaskRecord]
  /\ jobs \in [Tasks -> JobStates] /\ jobCache \in [Tasks -> JobStates]
  /\ launches \in [Tasks -> Nat] /\ succeeded \in SUBSET Tasks
  /\ replicas \in [Workloads -> Nat] /\ pods \in [Workloads -> PodPhases]
  /\ pc \in {"idle", "fetched", "scaleDown", "scaleUp", "status"}
  /\ cur \in (IF pc = "idle" THEN {NoTask} ELSE Tasks)
  /\ obj \in TaskRecord /\ todo \in SUBSET Workloads /\ scaled \in BOOLEAN
  /\ pc = "scaleUp" => todo \subseteq ToWake(obj)
  /\ faults \in Seq(FaultKinds) /\ Len(faults) <= MaxFaults

(* The finalizer guards the work: from the moment a Task is initialised     *)
(* until it is finished the object carries it, so no deletion removes the   *)
(* Task, and with it the recorded sizes, in the middle.                     *)
Guarded(o) == o.exists /\ o.state \notin Finished \cup {"Unset"} => o.finalizer

WorkIsGuarded == \A t \in Tasks : Guarded(tasks[t])

(* Optimistic concurrency: a copy of a Task, in the informer cache or in    *)
(* the worker's hands, is never newer than the stored object, and is that   *)
(* object when the versions agree, but for the status the worker is about   *)
(* to write.                                                                *)
SameButStatus(o, p) ==
  o = [p EXCEPT !.state = o.state, !.downAt = o.downAt, !.upAt = o.upAt]

CopiesAreVersions ==
  /\ \A t \in Tasks : /\ cache[t].rv <= tasks[t].rv
                      /\ cache[t].rv = tasks[t].rv => cache[t] = tasks[t]
  /\ pc # "idle" => /\ obj.rv <= tasks[cur].rv
                    /\ Fresh => SameButStatus(obj, tasks[cur])
                    /\ Fresh /\ pc # "status" => obj = tasks[cur]

(* ScaleDownWorkloadsForPVC stores the sizes before it scales anything, so  *)
(* at every moment a workload has its own size or some Task remembers it.   *)
SizesRemembered ==
  \A w \in Workloads :
    \/ replicas[w] = Desired[w]
    \/ \E t \in Tasks : tasks[t].exists /\ tasks[t].orig[w] = Desired[w]

(* stopPods: while the restic Job of a Task works on the volume, no pod     *)
(* that mounts it is ready to read or write it.                             *)
QuietDuringJob ==
  \A t \in Tasks : tasks[t].stopPods /\ jobs[t] = "active"
                     => \A w \in Workloads : pods[w] # "ready"

(* "Run exactly once": no sequence of retries, adoptions and conflicts      *)
(* starts a second Job for a Task.                                          *)
LaunchedOnce == \A t \in Tasks : launches[t] <= 1

(* The Task outlives its Job: it is neither reported finished nor removed   *)
(* while the Job still works on the volume.                                 *)
JobHasTask ==
  \A t \in Tasks : jobs[t] = "active" => /\ tasks[t].exists
                                          /\ tasks[t].state \notin Finished

(* Less than that: a Task is not removed while its Job is active.           *)
JobNotOrphaned == \A t \in Tasks : jobs[t] = "active" => tasks[t].exists

(* A Task one of whose Jobs succeeded is not reported as Failed.            *)
SuccessIsReported == \A t \in succeeded : tasks[t].state # "Failed"

(* A Task that stopped the pods is Completed only when every workload it    *)
(* scaled down is ready again (IsScaleUpCompleteForPVC).                    *)
CompletedMeansReady ==
  \A t \in Tasks : tasks[t].stopPods /\ tasks[t].state = "Completed"
                     => \A w \in Workloads : pods[w] = "ready"

(* Workloads are only woken once the Job is over: no step raises a size     *)
(* while a Job is active.                                                   *)
WakeAfterJob ==
  [][\A w \in Workloads : replicas'[w] > replicas[w]
                            => \A t \in Tasks : jobs[t] # "active"]_vars

(* The same where the adverse events it takes to break them are spared.     *)
Spared(kinds) == \A i \in DOMAIN faults : faults[i] \notin kinds

(* Lagging caches, owners that are not found, refused scale-down patches,   *)
(* refused templates and expired Jobs do not lose a size: it takes a worker *)
(* that dies, a refused scale-up patch, or a user who deletes the Task      *)
(* (between the patches and the status write it makes that write conflict). *)
Intact == /\ Spared({"abort", "patchUp"})
          /\ \A t \in Tasks : tasks[t].rv > 0 => tasks[t].exists /\ ~tasks[t].deleting

SizesKept == Intact => SizesRemembered

(* A workload whose size a Task has recorded is down while its Job is       *)
(* active, unless its pods are overlooked when the worker waits for them,   *)
(* or were not ready yet when the patch that was to stop them was refused.  *)
HeldDuringJob ==
  Spared({"lookup", "patchDown"}) =>
    \A t \in Tasks, w \in Workloads :
      tasks[t].stopPods /\ jobs[t] = "active" /\ tasks[t].orig[w] # NoSize
        => pods[w] # "ready"

(* A second Job takes a first one that has expired.                         *)
NotRelaunched == Spared({"expire"}) => LaunchedOnce

(* A Task loses its Job only to a cache of Jobs that lags.                  *)
JobAttended == Spared({"staleJob"}) => JobHasTask

(* A success is only lost to a cache of Jobs that lags or to the TTL.       *)
SuccessKept == Spared({"staleJob", "expire"}) => SuccessIsReported

(* The Task contract of TaskLifecycle: states only move forward, Running and *)
(* ScalingUp are only reported of Jobs that were launched and succeeded, and *)
(* no Task disappears in the middle of its work.                            *)
PhaseOf(o) == IF o.exists THEN o.state ELSE IF o.rv = 0 THEN "Absent" ELSE "Gone"
Phase == [t \in Tasks |-> PhaseOf(tasks[t])]
Launched == {t \in Tasks : launches[t] > 0}

Lifecycle == INSTANCE TaskLifecycle WITH phase <- Phase, launched <- Launched

Contract == Lifecycle!Spec

(* What a reader may conclude from the state of a Task is true of its Jobs. *)
StateIsTruthful == Lifecycle!StateIsTruthful

(* The inductive invariant behind Contract and WorkIsGuarded: copies are    *)
(* guarded as well, the histories agree with the Jobs seen, and the status  *)
(* the worker is about to write is the stored one or its lawful successor.  *)
CopiesAreGuarded ==
  /\ \A t \in Tasks : /\ Guarded(cache[t])
                      /\ tasks[t].exists => tasks[t].rv > 0
  /\ pc # "idle" => obj.exists /\ Guarded(obj)

HistoryAgrees ==
  \A t \in Tasks :
    /\ jobs[t] # "none" \/ jobCache[t] # "none" => launches[t] > 0
    /\ jobs[t] = "succeeded" \/ jobCache[t] = "succeeded" => t \in succeeded

Successor(t, from, to) ==
  \/ to = from
  \/ from = "Unset" /\ to = "ScalingDown"
  \/ from = "ScalingDown" /\ to = "Starting"
  \/ from = "Starting" /\ to = "Running" /\ launches[t] > 0
  \/ from = "Running" /\ to = "ScalingUp" /\ t \in succeeded
  \/ from = "Running" /\ to = "Failed"
  \/ from = "ScalingUp" /\ to = "Completed"

WorkerOnTrack ==
  /\ pc = "scaleDown" => obj.state = "ScalingDown"
  /\ pc = "scaleUp" => obj.state = "ScalingUp"
  /\ pc = "status" /\ Fresh => Successor(cur, tasks[cur].state, obj.state)

LifecycleInv == /\ TypeOK
                /\ CopiesAreVersions
                /\ WorkIsGuarded
                /\ CopiesAreGuarded
                /\ HistoryAgrees
                /\ WorkerOnTrack

(* A first Job is only launched for a Task that is stored as Starting: no   *)
(* copy is ahead of the stored Task, and a Task past Starting has had a Job. *)
(* A Task being deleted is still there because of its finalizer, so that    *)
(* CheckDeleteResource never finds anything to delete.                      *)
Begun == {"Starting", "Running", "ScalingUp", "Completed", "Failed"}

StartIsFirst ==
  \A t \in Tasks : launches[t] = 0 =>
    \A o \in {tasks[t], cache[t]} \cup (IF pc = "fetched" /\ cur = t THEN {obj} ELSE {}) :
      o.exists /\ o.state \in Begun => tasks[t].exists /\ tasks[t].state = "Starting"

DeletionWaits ==
  \A t \in Tasks : \A o \in {tasks[t], cache[t]} : o.deleting => o.finalizer

(* The inductive invariant behind the properties of Jobs.  A Task that has  *)
(* had a Job is past its preparation, a success had a launch, and a Task    *)
(* that is gone has no state.                                               *)
AtJob(o) == o.exists /\ o.state \in {"Starting", "Running"}

LaunchesRecorded ==
  \A t \in Tasks :
    /\ ~tasks[t].exists => tasks[t].state = "Unset"
    /\ t \in succeeded => launches[t] > 0
    /\ launches[t] > 0 => /\ tasks[t].rv > 0
                          /\ tasks[t].exists => tasks[t].state \in Begun

(* Only the worker moves a Task on, and only from what it read: when it     *)
(* moves one on from Running, the informer has seen that Task Running.      *)
MovedFromCache ==
  pc = "fetched" \/ (pc = "status" /\ tasks[cur].state = "Running")
    => (Fresh => cache[cur] = tasks[cur])

(* Hence a Task whose Job was launched and is behind it is Starting in no   *)
(* copy the worker may act on.                                              *)
StartNotRepeated ==
  \A t \in Tasks : launches[t] > 0 /\ ~AtJob(tasks[t]) =>
    /\ cache[t].state # "Starting"
    /\ pc = "fetched" /\ cur = t => obj.state # "Starting"

(* A Job that expires unobserved is the one way to a second launch.         *)
JobExpected ==
  Spared({"expire"}) =>
    \A t \in Tasks : /\ launches[t] <= 1
                     /\ launches[t] > 0 /\ jobs[t] = "none" => ~AtJob(tasks[t])

(* A status that ends the watch over a Job is decided when the Job is over, *)
(* and no Job is launched before it is written.                             *)
JobWatched ==
  Spared({"staleJob"}) =>
    /\ \A t \in Tasks : jobs[t] = "active" => AtJob(tasks[t])
    /\ pc = "status" /\ Fresh /\ obj.state \notin {"Starting", "Running"}
         => jobs[cur] # "active"

SuccessSeen ==
  Spared({"staleJob", "expire"}) =>
    /\ \A t \in succeeded :
         /\ jobs[t] = "succeeded" \/ (jobs[t] = "none" /\ ~AtJob(tasks[t]))
         /\ tasks[t].state # "Failed"
    /\ pc = "status" /\ Fresh /\ obj.state = "Failed"
         => jobs[cur] \in {"failed", "none"} /\ cur \notin succeeded

JobInv == /\ LifecycleInv
          /\ StartIsFirst
          /\ DeletionWaits
          /\ LaunchesRecorded
          /\ MovedFromCache
          /\ StartNotRepeated
          /\ JobExpected
          /\ JobWatched
          /\ SuccessSeen

(* The inductive invariant behind SizesKept, HeldDuringJob and WakeAfterJob, *)
(* for a lone Task.  A copy that says the Job is over may lag in everything *)
(* but in that: the stored Task is not back at its Job.                     *)
Over == {"ScalingUp", "Completed"}

CopiesOf(t) ==
  {tasks[t], cache[t]} \cup (IF pc \notin {"idle", "status"} /\ cur = t THEN {obj} ELSE {})

OverAfterJob ==
  /\ \A t \in Tasks : jobs[t] = "active" => jobCache[t] \in {"none", "active"}
  /\ \A t \in Tasks : \A o \in CopiesOf(t) : o.state \in Over =>
       jobs[t] # "active" /\ (~tasks[t].exists \/ tasks[t].state \in Over)
  /\ pc = "status" /\ Fresh /\ obj.state \in Over => jobs[cur] # "active"

(* A Task that is not initialised has stopped nothing, one that is gone     *)
(* stops nothing, and no status that is written takes downAt back.          *)
NothingStopped ==
  /\ \A t \in Tasks : /\ ~tasks[t].exists => ~tasks[t].stopPods
                      /\ tasks[t].state = "Unset" => ~tasks[t].downAt /\ tasks[t].orig = NoSizes
  /\ pc = "status" => /\ obj.state # "Unset"
                      /\ Fresh /\ tasks[cur].downAt => obj.downAt

(* From the patches to the end of the Job the recorded workloads are at 0,  *)
(* and from the wait on without ready pods.                                 *)
Stopped(o) == \A w \in Workloads : o.orig[w] # NoSize => replicas[w] = 0
Quiet(o) == \A w \in Workloads : o.orig[w] # NoSize => replicas[w] = 0 /\ pods[w] # "ready"

PodsAreHeld ==
  Spared({"lookup", "patchDown"}) =>
    /\ \A t \in Tasks : tasks[t].stopPods =>
         /\ tasks[t].state = "ScalingDown" =>
              \A w \in Workloads : tasks[t].orig[w] # NoSize =>
                replicas[w] = 0 \/ (~tasks[t].downAt /\ pods[w] # "gone")
         /\ tasks[t].state \in {"Starting", "Running", "Failed"} => Quiet(tasks[t])
    /\ pc = "scaleDown" /\ Fresh =>
         \A w \in Workloads \ todo : obj.orig[w] # NoSize => replicas[w] = 0
    /\ pc = "status" /\ Fresh /\ obj.stopPods =>
         /\ obj.state = "ScalingDown" /\ obj.downAt => Stopped(obj)
         /\ obj.state = "Starting" => Quiet(obj)

(* No copy remembers a wrong size; sizes are recorded while every workload  *)
(* has its own, since the patches end in downAt or in a stored state past   *)
(* them; and they are forgotten when every workload has its own again.      *)
OwnSizes(o) == \A w \in Workloads : o.orig[w] \in {NoSize, Desired[w]}

SizesAreOwn ==
  Intact =>
    /\ SizesRemembered
    /\ \A t \in Tasks : OwnSizes(tasks[t]) /\ OwnSizes(cache[t])
    /\ OwnSizes(obj)
    /\ pc = "scaleDown" => Fresh /\ \A w \in todo : obj.orig[w] # NoSize
    /\ pc = "scaleUp" /\ Fresh =>
         \A w \in Workloads \ todo : obj.orig[w] # NoSize => replicas[w] = Desired[w]
    /\ \A t \in Tasks : tasks[t].state \in {"Unset", "ScalingDown"} /\ ~tasks[t].downAt =>
         replicas = Desired \/ pc = "scaleDown" \/ (pc = "status" /\ Fresh /\ obj.downAt)

ScalingInv == /\ JobInv
              /\ OverAfterJob
              /\ NothingStopped
              /\ PodsAreHeld
              /\ SizesAreOwn

(* Every Task that is created reaches an end.                               *)
EveryTaskSettles ==
  \A t \in Tasks : tasks[t].exists ~> (~tasks[t].exists \/ tasks[t].state \in Finished)

(* Once all Tasks have settled, every workload is back at its own size ...  *)
WorkloadsRestored == <>[](\A w \in Workloads : replicas[w] = Desired[w])

(* ... unless a Task has failed or is deleted, the worker has died or a     *)
(* scale-up patch was refused: no size that is recorded is left unused.     *)
WorkloadsReturn ==
  <>[](/\ Spared({"abort", "patchUp"})
       /\ \A t \in Tasks : tasks[t].rv > 0 => /\ tasks[t].exists /\ ~tasks[t].deleting
                                               /\ tasks[t].state # "Failed"
       => \A w \in Workloads : replicas[w] = Desired[w])
=============================================================================
