# A formal model of the datarestor operator

The operator backs up and restores PersistentVolumeClaims with restic.  Two controllers
do the work: one turns Configs, annotations and schedules into Tasks, the other takes
each Task through its life, scaling workloads down around a restic Job.  This directory
models both in TLA+, checks small instances with TLC and proves what TLAPS can prove for
every size.  `PROJECT.json` lists the runs, what each definition models, the findings,
the hazards and the theorems.

All paths below are relative to `src/`.

## Inventory

| Component | State it keeps | Operations |
|---|---|---|
| **Tasks controller** `internal/controller/task_controller.go`, `task/` | `Task.status` (state, initializedAt, scaledDownAt, scaledUpAt, jobRef), the finalizer, the annotation `original-replicas` | the stages of `Reconcile`: remove finalizer, add finalizer, `Init`, `CheckTaskScaleDown`, `Start`, `UpdateTaskStatus`, `CheckTaskScaleUp` |
| **Workload scaling** `controller/utils/workload.go` | `spec.replicas` of Deployments and StatefulSets, the sizes remembered on the Task | `FindWorkloadsForPVC`, `ScaleDownWorkloadsForPVC`, `ScaleUpWorkloadsForPVC`, two completion checks |
| **Reconcile steps** `controller/reconiler/` | finalizers | `Step` (error, write, requeue), `CheckResource`, `InitResourceIfConditionMet`, `RemoveFinalizerIfConditionMet`, `CheckDeleteResource` |
| **Configs controller** `config_controller.go`, `config/` | `Config.status`, annotations of Configs and PVCs | init, sync and initialise repositories, auto-restore, requests on the Config, requests on PVCs |
| **Schedules** `config/repository_schedule.go`, `utils/schedule.go` | `lastScheduledBackupRun`, `lastScheduledForgetRun` per repository | create Tasks for the PVCs of a due repository, forget old snapshots |
| **PVC selection** `utils/pvc.go`, `watches/` | none: two decisions on the same selectors | `GetPVCsForConfig`, `FilterNewPVCs`, `FilterUnclaimedPVCs`, `matchesConfigSelectors`, `RequestPVCsForConfig`, `RequestConfigs` |
| **restic arguments** `internal/restic/helper.go` | none: pure functions | repository, host, tag and snapshot from an annotation |
| **Work queue** `SetupWithManager` of both controllers, `reconiler/util.go`, `watches/config.go` | the keys in each queue, and those a timer will add | what a result does (requeue, backoff, nothing), events of Tasks, Jobs, PVCs and Configs, a restart |
| **Task builder** `task/task_builder.go` | none | the Task object and the template of its Job |
| restic runner `internal/restic/exec.go` | repositories outside the cluster | init, check, forget |
| Not modelled: see the end | | |

**How they interact.**  Through the API server only.  The Configs controller creates
Task objects; the Tasks controller reads them, creates Jobs (owned by the Task and the
PVC) and patches workloads; the Job controller and the kubelet act on those; users
annotate, edit and delete everything at any time.  Both controllers read through
informer caches that lag, write with optimistic concurrency (the resourceVersion of
the copy they read), and are handed keys by a work queue: one worker per controller, so
two reconciles of one controller never overlap, but every call of a reconcile
interleaves with everybody else.  The whole process may die between any two calls.

**What is hard.**  Sequences of calls that are not atomic (record sizes, patch
workloads, store the state; create a Task, clear the annotation); caches that lag
behind the controller's own writes; two Tasks on one PVC; Jobs that are deleted after
15 seconds; lists indexed by position that users reorder; decisions taken twice by
different code (watch and list, `--repo` and credentials).

**What makes each component correct.**

* Tasks: the state only moves forward and tells the truth about the Job; one Job per
  Task; no Task vanishes in the middle; every Task ends.
* Scaling: every workload that mounts the PVC is found, once; one that is down is
  remembered somewhere; no pod is ready while the Job works; workloads come back, and
  one created anew under an old name is left alone.
* Configs: a request that disappears has been answered; a new PVC is restored before it
  is backed up, once; every request and every new PVC is served in the end.
* Schedules: a recorded run has its backups; times never go back; nothing is due for ever.
* Work queue: no object with something to be done is forgotten, and what is done rests.
* Together: after a disaster a PVC that is applied again has its data back.
* Selection: the watch misses nothing the list would show; the list is the documented one.
* Arguments: target and credentials name one repository; a named backup is found again;
  a PVC gets its own data unless a host or a snapshot is named.

## Modules

| Module | Models | Remarks |
|---|---|---|
| `TaskLifecycle` | what the Tasks controller promises: a state per Task and the Jobs behind it | abstract specification |
| `TaskReconciler` | the Tasks controller with workload scaling, call by call | refines `TaskLifecycle` |
| `Workloads` | which workloads are found from pods, and scaling them by UID and name | the objects behind `Mounting` and `replicas` of `TaskReconciler` |
| `ConfigReconciler` | the Configs controller with schedules, stage by stage | Tasks move along `TaskLifecycle`'s progression |
| `Recovery` | both controllers at work on volumes and snapshots | extends `ConfigReconciler`, with a Job behind each Task |
| `WorkQueues` | results, events and queues of both controllers | shows the fairness the others assume |
| `ResticArgs` | `internal/restic/helper.go` as operators | used by `ResticSnapshots` |
| `ResticSnapshots` | backups and restores requested by annotations, and the snapshots restic finds | |
| `PVCSelection` | the watch and the list of PVCs | |
| `MC*` | the instances TLC checks | one for each module but `TaskLifecycle` and `ResticArgs` |
| `*_proofs` | theorems and proofs | one for each module but `ResticArgs`; `Recovery_proofs` goes on from `ConfigReconciler_proofs` |

### TaskReconciler

One worker (`pc`, `cur`, `obj`, `todo`, `scaled`: the locals of a reconcile), the API
server's Tasks, the informer's copies, Jobs and their cached copies, `replicas` and
`pods` of every workload.  A reconcile is `Fetch`, then one action per stage that
applies; a stage that calls the API more than once is split at its calls:

* scale down: `RecordSizes` (annotation stored), `PatchDown` per workload,
  `MarkScaledDown`, `WriteStatus`; later `AwaitScaleDown`, `WriteStatus`;
* scale up: `BeginScaleUp`, `PatchUp` per workload, `ForgetSizes` (annotation
  removed), `WriteStatus`; later `AwaitScaleUp`, `WriteStatus`;
* everything that returns with `doStatus` goes through `WriteStatus`, which stores the
  status only if the copy is current; `Abort` is a death or an error at any point.

Objects carry a version (`rv`) as in Kubernetes; `Stored` is what the API server does
with an update, the removal of an object without finalizers included.  The empty
initial state is `"Unset"`: `BuildTask` asks for `Pending`, but a status is dropped on
creation.  Adverse events are named in `Faults`, written down in `faults` and bounded by `MaxFaults`: a death
or error, a Task or Job read from a cache that lags, an owner that is not found, a
refused patch, an expired Job.

Abstractions: all Tasks target one PVC and all workloads mount it (other PVCs do not
interact except through the worker); lists of pods and workloads are current but for
owners that are not found; users do not resize or replace workloads meanwhile (`Workloads`
has both); the restic Job's own pod (which no workload owns) is ignored, as
`findScalableWorkload` does;
`CheckDeleteResource` has no action because its condition never holds (`DeletionWaits`,
proved); delays of requeues are arbitrary.

### TaskLifecycle

The life an observer sees: `Absent`, `Unset`, `ScalingDown`, `Starting`, `Running`,
`ScalingUp`, `Completed` or `Failed`, `Gone`, with the Jobs launched and those that
succeeded.  `TaskReconciler` implements it with `phase <- Phase`, `launched <- Launched`
(property `Contract`): caches, versions, workloads, deaths and retries are invisible.

### Workloads

Pods with the owners a pod can have (a StatefulSet, a ReplicaSet of a Deployment or of
nobody, another kind, none), and Deployments and StatefulSets that users create, delete,
resize and create again: `uid` tells incarnations of one name apart.  A Task goes
`ScaleDownWorkloadsForPVC` (find in the order of the list, record under the UID),
`PatchDown` per workload, `Hold`, then `BeginScaleUp`, `LookUp` and `PatchUp` per record
(two calls, so that a user comes between), `RemoveAnnotation`.  A patch names the
workload and does not repeat the UID.

Abstractions: one Task, and no deaths, which are `TaskReconciler`'s; a bare pod and a
DaemonSet are found by nothing and so not stopped, as in the code; a read of a workload
from a cache that lags is what `resize` and `overtake` come to: the size or the UID read is
not the one that is patched.

### ConfigReconciler

One Config, its cached copy, PVCs and their cached copies, the Tasks made so far, a
clock.  A reconcile is `Fetch`, then stages in the order of `Reconcile`; the stages that
walk over PVCs are one action per PVC, so that users, informers and deaths interleave
with each: `CreateAutoRestore`/`MarkRestored`, `ServeConfigRequest`/`ClearConfigRequest`,
`ServePVCRequest`/`ClearPVCRequest`, `ScheduleBackup`, `ScheduleForget`, `WriteStatus`.
Requests are numbers, so that a Task can be traced to the annotation it answers.  A
panic for an empty list of repositories ends the reconcile, as controller-runtime
recovers it.

PVCs are written by users, by the operator and by others: `OtherWrite` is the provisioner
and the controller that binds a new PVC, which write to it just when the operator has seen
it and is about to mark it.  Such a write changes nothing the operator reads but the
version, and makes its next write conflict; it is an adverse event (`otherWrite`), so that
properties can count it.

Abstractions: the Config selects all PVCs (`PVCSelection` models selection); the clock
counts units longer than `MaxAgeForNewPVC`, so a PVC is new exactly in the unit it was
born in; cron expressions are sets of times; a PVC that is deleted is gone and its name
is not used again; the repository of a manual Task is left to `ResticArgs`; an error of a
list gives an empty list, as in the code; the check for active Tasks answers from any
state its cache may be in (fault `staleTask`).

### Recovery

`ConfigReconciler` extended by what it is for: `volume` and `snapshots` hold data (sets of
writes), `jobs` which PVC the Job of a Task works on and what it has read.  A Task names its
PVC, so `JobReads` takes whatever incarnation of that name exists when the pod of the Job is
scheduled; `JobTakesEffect`, with the step of the Task to `ScalingUp`, appends a snapshot or
writes over the volume.  Applications write before, during and after.  It begins after a
disaster: an archive of snapshots, a Config applied again, PVCs that come back; `expected`
is what the newest snapshot held at that moment.  Tasks do not stop pods here: what that
buys is in `TaskReconciler`.

### WorkQueues

One queue and one worker per controller.  A Task is reduced to how far it has come
(`object[k]`, 1 .. `Last`), a Config to its being there.  `Take` reads the cached copy,
`Finish` may write and returns `Result`: RequeueAfter, an error (backoff) or nothing;
`Expire` is either timer; `Sync` an informer event with the handlers of both
controllers, `JobEvent` and `PVCEvent` the events of owned Jobs and watched PVCs; `Restart`
empties queues and caches.  The de-duplication of client-go (`dirty`, `Busy`) is external.
`Finish` may do nothing at all, again and again: the module is about keys that are kept,
not about what a reconcile achieves.

### ResticArgs and ResticSnapshots

A word between two bars is a sequence of dash-separated segments, so that the host
`<namespace>-<name>` is a concatenation and can be ambiguous.  `Numerals` are the words
`Sscanf("%d")` accepts, a prefix of digits being enough.  `ResticSnapshots` takes
annotations as users write them, runs `Backup` and `Restore` with the arguments
`ResticArgs` computes, and asks `Find` (restic, external) which snapshot is restored.

### PVCSelection

`Change` is a create, an update or a delete seen by `RequestPVCsForConfig`: the old and the
new object are looked at, each after a List of the Configs, and a List that fails drops the
event.  `Reconcile` is a reconcile that reaches `ListPVCsForConfig`, where one List that
fails leaves no PVC at all; `swallowed` remembers either, until a reconcile that could list.
Every reconcile ends with a requeue (`Requeue`), which repairs what the watch missed, but at
any later time: between the two the properties hold the watch to what the list would show.

`matchNamespaces` may be left out (`Nil`) or be an explicitly empty list (`<<>>`).  The list
and the documentation take both for all namespaces, the watch only the first
(`EmptyListUnwatched.cfg`).  Users write either; whenever the operator stores the whole
Config (`StoreConfig`) an empty list becomes one that is left out, by `omitempty`.

## Runs

Passing runs (each cfg begins with its bounds and the reason for them):

| Run | Shows | Instance |
|---|---|---|
| `TaskContract` | refinement of `TaskLifecycle`, the inductive invariants, and what survives which adverse events | 1 Task, 2 workloads in any state, 2 adverse events of all kinds, deletions |
| `TaskSettles` | a Task ends and its workloads come back | 1 Task, 2 workloads, 2 adverse events |
| `ConfigRequests` | requests are answered before they are taken off; a marked PVC is restored, and each request or write of others repeats that at most once | 2 PVCs, 2 requests, 1 adverse event of any kind, a spec that may be empty |
| `ConfigSchedules` | the lists stay aligned, no recorded time is lost | 2 repositories, reordered and extended, 2 units of time |
| `ConfigRuns` | a run that is recorded has its backup | 1 PVC, 1 repository, 3 units of time, 1 adverse event |
| `ConfigSettles` | requests, new PVCs and schedules are served; restore first | 1 PVC, 2 requests, 2 units of time, 1 adverse event |
| `Annotations` | documented annotations do what they say | 2 PVCs, 3 repositories, 2 snapshots |
| `Selection` | the watch misses nothing, and the list is the documented one, each where it is so | 2 PVCs, 2 namespaces, 1 label, lists of namespaces left out, empty and with 1 or 2 members, any List failing |
| `WorkQueues` | keys are kept, every object is attended to, what is done rests | 2 Tasks, 1 Config, 1 incident |
| `Workloads` | found once, resized to what users want, strangers untouched | a Deployment and a StatefulSet of sizes 0, 2 or unset, 2 pods, 3 incarnations, 1 adverse event |
| `Recovery` | a PVC that is applied again has its data back | 2 incarnations of a PVC, 2 old snapshots, 3 Tasks |

One run ends in a violation on purpose.  `BlankRestored` checks `DataIsBack`, without the
exception `DataIsBackUnlessOvertaken` makes: a schedule does not wait for the restore of
a new PVC to end, the snapshot of the empty volume becomes the latest one, and `latest`
is what the restore then reads.

**Adverse events.**  The events of a behaviour are a history (`faults`), and a property may
name those it does not survive, `Spared(kinds) => ...`; whatever is not named may happen.
`SizesKept` needs the worker to live, no refused scale-up patch and no deletion;
`HeldDuringJob` needs owners to be found and scale-down patches accepted; `NotRelaunched`
and `SuccessKept` need Jobs to be there when they are looked for; `JobAttended` needs a
current cache of Jobs; `RestoresCounted`, in its upper bound, needs the worker to live and
PVCs to be listed as they are, and counts the writes of others; `RequestsKept` needs Tasks
to be created; `RunIsBackedUp` needs that too, and PVCs and Tasks to be listed, and listed
as they are; `SizesReturn` needs recorded workloads to be read, patched and left alone,
`StrangersUntouched` only that none is replaced between Get and Patch.  In `TaskContract` and for `RestoresCounted` every kind
named is needed: without it TLC finds the property violated.

**Why the bounds are enough.**  Two workloads are the least of which one can fail alone, and
sizes 1 and 2 tell a mixed-up size.  For Tasks adverse events alone and in pairs are explored;
every finding needs one or none.  Two requests are the least for one to replace another while
it is served.  Three units of time are the least for a run, a run that finds the first Task
active, and a run after it.  Three incarnations of workloads are two at work and one that
replaces another.  Two Tasks in `WorkQueues` are the least for one key to wait behind
another.  `MaxTasks` of `ConfigRequests`, `ConfigRuns` and `ConfigSettles` is never reached:
these runs check for deadlock, and a full list of Tasks would stop the worker.
`CHECK_DEADLOCK FALSE` appears where the system may really stop: all Tasks are removed, the
Config is deleted, all keys are done with; and in `Recovery`, where the worker stops
before the fourth Task.  `Recovery`'s `DataIsBackUnlessOvertaken` also holds with one
adverse event, for each of a death (3.1 million states), a PVC or a Config from a cache
that lags, a refused creation, and a write of others (2.9 million); these take longer than a run repeated often should.

**Disagreements.**  Each of the findings of `PROJECT.json` that has no run has a cfg, and `tlc
-config X.cfg MC<module>` prints a behaviour.  Where a cfg lists several properties, each is
violated; TLC stops at the first.

| With | X |
|---|---|
| `MCTaskReconciler` | `FailedJobKeepsPodsDown`, `Overlap`, `SizesLost`, `CompletedBeforeReady`, `ExpiredJobFails`, `StaleJobOrphans`, `LatePod`, `RefusedJobStuck` |
| `MCConfigReconciler` | `ConfigStuck`, `DuplicateSchedule`, `RestoredTwice`, `ManualRestoreOverrun`, `RequestLost`, `SecondRepositorySkipped`, `SameNameSkipped` |
| `MCResticSnapshots` | `AnnotationMeaning`, `DashedNames` |
| `MCPVCSelection` | `TwoNamespacesListed`, `EmptyListUnwatched` |
| `MCWorkQueues` | `GoneTaskRetried` |
| `MCWorkloads` | `StrangerResized` |
| `MCRecovery` | `FailedRestoreStays` |

`TaskSettles` leaves out what keeps a Task from ending: a workload that is not stopped
because its pods come late (`LatePod`), its owner is not found or its patch is refused, a
template the API server refuses (`RefusedJobStuck`), a second Task (`Overlap`).

### Fairness

* `TaskReconciler` and `ConfigReconciler`: a reconcile that has begun goes on (`WF` of
  `WorkerStep`: one goroutine, no lock); the queue hands out a key again and again while
  there is something to reconcile (`SF` of `Fetch`, which is disabled while the worker
  holds another key); informers catch up (`WF` of the syncs); for Tasks, a Job ends
  (`backoffLimit` 0) and pods follow `spec.replicas`.
* The `SF` of `Fetch` is what `WorkQueues` checks as `Attended`: an object with something to
  be done is reconciled again and again from a current copy.  `WorkQueues` itself assumes
  only that a worker with a key takes it and finishes (`WF` of `Take` and `Finish`), that
  timers fire (`Expire`) and events arrive (`Sync`).
* `Recovery`: as `ConfigReconciler`, and a Task goes on when its Job does, which is
  `EveryTaskSettles` of `TaskReconciler`.

Nothing is assumed of users, of the clock, of what a reconcile achieves, or of adverse
events ever happening.

## Proofs

TLAPS proves, for every number of Tasks, workloads, PVCs, repositories, sizes and events,
from the assumptions the modules name (`DesiredAssumption`, `SpecAssumption`, ...):

**Tasks.**

* `TaskLifecycle_proofs`: `TruthHolds`, the truth of states in the abstract Task.
* `TaskReconciler_proofs`, in three parts.  The life of a Task: `TypeCorrect`, then
  * `LifecycleHolds`.  `Contract` and `WorkIsGuarded` are not inductive: a write comes from
    a copy read earlier, so the invariant has to say what copies are.  `LifecycleInv` adds
    that copies are never newer than the stored object and equal to it when the versions
    agree (`CopiesAreVersions`), that they are guarded too, that the Jobs a cache shows were
    launched (`HistoryAgrees`), and that the status about to be written is a lawful
    successor of the stored one if the write will be accepted (`WorkerOnTrack`).
  * `StartHolds`: a worker with an old copy may create the first Job only while the stored
    Task still says `Starting`.
  * `ContractHolds`: `Spec => Contract`, by cases on the actions: each is a step of
    `TaskLifecycle` or leaves the mapped variables alone.  `TruthHoldsHere` carries
    `TruthHolds` over.
* Its Jobs: `JobInvHolds`, from which `NotRelaunched`, `JobAttended`, `SuccessKept` and
  `DeletionWaits`.  `JobInv` adds where launches are recorded (a copy that says `Starting`
  is one whose Job the cache does not show, unless it expired), what a status that ends
  the watch over a Job has seen, and that a Job that succeeded is there until it is
  noticed; each part under the events it survives.
* Its workloads: `ScalingHolds`, from which `SizesKept`, `HeldDuringJob` and
  `WakeAfterJob`.  The invariant follows a size round: it is recorded while the workload
  still has it, patched to 0 by a worker whose record is stored, remembered in every
  current copy while the Job is at work, written back before the record is removed; and
  nobody is past the Job in any copy while the Job is active (`OverAfterJob`).  `Lone`, one
  Task, is assumed: with two Tasks on one PVC all three are false (`Overlap.cfg`).

**Configs** (`ConfigReconciler_proofs`), in layers: types (`ConfigTypes`); the two lists while
a loop runs (`ListsStayAligned`); copies of PVCs are versions, and a marked copy is of a
PVC whose restore exists (`PVCsAgree`, `MarksAreHonest`); how often a PVC is restored
(`RestoresAreCounted`: a restore more than there were requests and writes of others is one
whose mark is set or about to be, by a worker that holds the stored copy; a request and a
write of others make that copy old, and both are counted); what the schedule has left to visit
has its restore (`RestoresComeFirst`); copies of the Config, and how far the service of a
request has come (`RequestsAreKept`); the times a copy holds against the stored ones
(`TimesOnlyAdvance`, for lists that name no target twice: a list that does may give
a target's entry the time of its other entry); and, from a moment at which a PVC is at rest,
that its backup is made, or that all its scheduled Tasks are still over and a run recorded in
the worker's copy of the Config has yet to come to it (`RunsAreBackedUp`, for one repository
and PVCs of different names: `SecondRepositorySkipped.cfg` and `SameNameSkipped.cfg` show that
both conditions are needed).

**Queues** (`WorkQueues_proofs`): types, a key that needs a reconcile is in the queue exactly
once (`QueuesStayInStep`), and `NoKeyIsLost`: queue, worker, timer or an event on its way has
it, restarts included.

**Others.**  `ResticSnapshots_proofs`: `PlainAnnotationsAgree`, that `--repo` and the credentials
agree for annotations of at most three parts and targets that do not read as numbers;
`AnnotationMeaning.cfg` shows that the first condition is needed; and, because every snapshot
is one that `Backup` took (`SnapshotsAreBackups`), `NamesFindBackups`, for repositories whose
targets differ and are no numbers of repositories, and `OwnDataIsRestored`, of every restore
that names neither a host nor a snapshot ID, for PVCs whose default hosts differ (those of
`DashedNames.cfg` do not; for an ID restic does not look at the host).  `PVCSelection_proofs`:
`WatchMissesNothing`, because every listed PVC is one the watch lets through
(`ListedIsWatched`, for selectors without an explicitly empty list) and a change of any other
leaves the list alone, and from it `SinglesAreSelected`, the documented selection where each
selector names one namespace or leaves them out; both unless a List has failed since the last
reconcile.

**Workloads** (`Workloads_proofs`).  `FindWorkloadsForPVC` folds over the list of pods.  The library's
fold is a recursive function over sets of indexes; `FindStepByStep` shows that it is the
loop one would write, a state per index, for lists of every length.  The induction over the
length does without the library's induction theorem: `<` on the numbers is well-founded, so
that a set that holds 0 and the successor of each of its members is an interval (`UpTo`).
`FindFindsAll` is then the loop's invariant, `FoundFrom`, at its end, and `FoundOnceHolds`
follows.  `SizesReturn` is not inductive: while workloads are held their sizes are not their
users'.  `SizesKept` (of that module) says of every workload where its users' size is to be
found: not recorded, it has that size; recorded, the record under its UID names it and holds
that size; already patched, it has the size again.  It needs that no UID is given twice
(`Uids`) and that what is about to be patched is still the workload it was (`NotOvertaken`),
from which `StrangersUntouched` follows too.  Assumed: names of workloads and ReplicaSets
differ (`OwnerAssumption`: objects with their kinds), and pods are finitely many.

**Recovery** (`Recovery_proofs`).  `RecoveryRunsConfigs`: every step is one of `ConfigReconciler`
or leaves its variables alone, so that its invariants can be used.
`DataIsBackUnlessOvertaken` speaks of restores that are over; the invariant `RecoveryInv`
follows the data to there.  Of a name only one PVC exists, and a Job that is running keeps it
from being replaced (`NamesAreUnique`, `VolumesInUse`); the newest snapshot of a PVC that
exists holds the data it should have, unless the PVC took it itself (`NewestHolds`); and what
a restore has read was that snapshot, and is on the volume once the Job has succeeded
(`JobOK`).  `RestoresAloneBringBack` states the exception from the other side: as long as only
restores are made, no data is lost.

**Only model-checked.**  Liveness, which is out of this prover's reach: `EveryTaskSettles`,
`WorkloadsReturn`, `RequestsSettle`, `NewPVCsSettle`, `SchedulesRun`, `Attended`,
`DoneKeysRest` and `NewPVCsRecover`.  Every safety invariant and action property of the
passing runs is a theorem.

## Not modelled

* Process start-up (`cmd/main.go`): flags, certificates, registration.  Leader election is
  the library's; the flag is off by default, the manifests turn it on and run one replica.
* `utils/retry.go`, `WaitForScaleDown`, `WaitForScaleUp`, `ShouldStopPods`,
  `RemoveTasksByConfig`, `GetMaybeExistingJob`: no caller.
* `restic/exec.go`: a command and its output; what `init`, `check` and `forget` come to is the
  fault `restic`.
* The pod template of a Job, logs and output in the status: the layout of one object.
* Small helpers, generated code, manifests.

## Plan

Done: the modules and theorems above.  Left:

1. several Configs that select one PVC, each with schedules and requests of its own;
2. two Tasks that stop the pods of one PVC in one model with the data (`Recovery` keeps
   pods out), once the code orders them: today `Overlap.cfg` shows that it does not;
3. the steps of `Recovery` with adverse events as a run, if its instance can be made
   smaller.
