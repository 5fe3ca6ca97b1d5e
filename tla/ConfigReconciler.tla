-------------------------- MODULE ConfigReconciler --------------------------
(***************************************************************************)
(* The Config controller: one worker goroutine that reads the Config from  *)
(* the informer cache, keeps status.repositories in step with the spec,    *)
(* initialises restic repositories, lists the PVCs the Config selects, and *)
(* then runs the first of these that applies: restore new PVCs, serve a    *)
(* manual request on the Config, serve one on a PVC, schedule the backups  *)
(* of one repository, prune one repository.  All of them but the last      *)
(* create Tasks, which the Tasks controller (TaskLifecycle) carries out.   *)
(*                                                                         *)
(* Every call to the API server is a step of its own.  There is one        *)
(* Config, and it selects every PVC of the model.                          *)
(***************************************************************************)
EXTENDS Integers, Sequences, FiniteSets

CONSTANTS
  PVCs,           \* the PersistentVolumeClaims that may be created
  NoPVC,          \* not a PVC
  NameOf,         \* NameOf[p]: the name of PVC p, without its namespace
  Repos,          \* restic targets
  NoRepo,         \* not a target
  Specs,          \* the values users give spec.repositories: lists of targets
  BackupTimes,    \* BackupTimes[r]: when the backupSchedule of r fires
  ForgetTimes,    \* ForgetTimes[r]: when the forgotSchedule of r fires
  AutoRestore,    \* spec.autoRestore
  UserActions,    \* what users do
  TasksRun,       \* does the Tasks controller run
  Faults,         \* which adverse events may happen ...
  MaxFaults,      \* ... and how many of them (a bound)
  MaxRequests,    \* how many annotations users set (a bound)
  MaxClock,       \* how far the clock goes (a bound)
  MaxTasks        \* how many Tasks can be created (a bound)

UserActionKinds == {"backupPVC", "restorePVC", "backupConfig", "restoreConfig",
                    "deletePVC", "editSpec", "deleteConfig"}

FaultKinds == {"abort",        \* the worker dies or an API call returns an error
               "staleConfig",  \* the Config is read from a cache that lags
               "stalePVC",     \* PVCs are listed from a cache that lags
               "staleTask",    \* Tasks are listed from a cache that lags
               "list",         \* the list of PVCs is refused
               "create",       \* the creation of a Task is refused
               "otherWrite",   \* somebody else writes to a PVC
               "restic"}       \* restic can neither check nor init a repository

ASSUME NoPVCAssumption == NoPVC \notin PVCs /\ DOMAIN NameOf = PVCs
ASSUME NoRepoAssumption == NoRepo \notin Repos
ASSUME SpecAssumption == Specs # {} /\ Specs \subseteq Seq(Repos)
ASSUME TimesAssumption == /\ BackupTimes \in [Repos -> SUBSET Nat]
                          /\ ForgetTimes \in [Repos -> SUBSET Nat]
ASSUME ConfigFaultAssumption == /\ UserActions \subseteq UserActionKinds
                                /\ Faults \subseteq FaultKinds
                                /\ AutoRestore \in BOOLEAN /\ TasksRun \in BOOLEAN
ASSUME BoundAssumption == {MaxFaults, MaxRequests, MaxClock, MaxTasks} \subseteq Nat

VARIABLES
  config,       \* the API server's copy of the Config
  configCache,  \* the informer's copy
  pvcs,         \* the API server's copy of every PVC
  pvcCache,     \* the informer's copies
  made,         \* the Tasks created, in order
  phase,        \* phase[i]: the state of Task i
  clock,        \* time, in units longer than MaxAgeForNewPVC
  pc,           \* what the worker does next
  obj,          \* the worker's copy of the Config
  listed,       \* the worker's copies of the PVCs it has listed
  todo,         \* PVCs the current stage has still to serve
  at,           \* the PVC it is serving
  repo,         \* the index of the repository it is serving
  asked,        \* asked[k]: the PVCs there were when users made request k (history)
  faults        \* the adverse events so far, in their order (history)

taskVars   == <<made, phase>>
worldVars  == <<config, configCache, pvcs, pvcCache>>
workerVars == <<pc, obj, listed, todo, at, repo>>
vars == <<worldVars, taskVars, clock, workerVars, asked, faults>>

-----------------------------------------------------------------------------
(* Objects. *)

Never == -1            \* a timestamp that is not set
NoRequest == 0         \* an annotation that is not set; others are numbered

RepoStatus == [target : Repos, ready : BOOLEAN, backupAt : Nat \cup {Never},
               forgetAt : Nat \cup {Never}]

NewRepo(r) == [target |-> r, ready |-> FALSE, backupAt |-> Never, forgetAt |-> Never]

ConfigRecord == [exists : BOOLEAN, rv : Nat, deleting : BOOLEAN, finalizer : BOOLEAN,
                 ready : BOOLEAN, spec : Seq(Repos), repos : Seq(RepoStatus),
                 backup : Nat, restore : Nat]

PVCRecord == [exists : BOOLEAN, rv : Nat, born : Nat, restored : BOOLEAN,
              backup : Nat, restore : Nat]

NewPVC == [exists |-> FALSE, rv |-> 0, born |-> 0, restored |-> FALSE,
           backup |-> NoRequest, restore |-> NoRequest]

Kinds == {"backup-scheduled", "backup-manual", "restore-manual", "restore-automated"}
Restores == {"restore-manual", "restore-automated"}

(* TaskType and labels of a Task; repo is its repository when a schedule    *)
(* chose it, slot the time it was created, request the annotation it        *)
(* answers, young whether its PVC was new then.                             *)
TaskRecord == [kind : Kinds, pvc : PVCs, repo : Repos \cup {NoRepo}, slot : Nat,
               request : Nat, young : BOOLEAN]

NoConfig == [exists |-> FALSE, rv |-> 0, deleting |-> FALSE, finalizer |-> FALSE,
             ready |-> FALSE, spec |-> <<>>, repos |-> <<>>,
             backup |-> NoRequest, restore |-> NoRequest]

TaskIds == 1 .. MaxTasks

(* The states of a Task and how the Tasks controller moves it (TaskLifecycle). *)
Progress == {<<"Unset", "ScalingDown">>, <<"ScalingDown", "Starting">>,
             <<"Starting", "Running">>, <<"Running", "ScalingUp">>,
             <<"Running", "Failed">>, <<"ScalingUp", "Completed">>}
Phases == {"Absent"} \cup {m[1] : m \in Progress} \cup {m[2] : m \in Progress}
Finished == {"Completed", "Failed"}

(* What the API server stores for an accepted write of o over old.          *)
Stored(old, o) ==
  IF o = old THEN old
  ELSE IF o.deleting /\ ~o.finalizer THEN [NoConfig EXCEPT !.rv = old.rv + 1]
  ELSE [o EXCEPT !.rv = old.rv + 1]

StoredPVC(old, o) == IF o = old THEN old ELSE [o EXCEPT !.rv = old.rv + 1]

-----------------------------------------------------------------------------
(* Mutants of definitions below: plausible mistakes that the properties     *)
(* notice.                                                                  *)

(* Synced: the targets are compared as sets, the order is ignored.          *)
SyncedAsSets(o) ==
  /\ Len(o.repos) = Len(o.spec)
  /\ {o.repos[i].target : i \in DOMAIN o.repos} = {o.spec[i] : i \in DOMAIN o.spec}

(* Rebuilt: the status is made anew whenever the spec changes.              *)
RebuiltAnew(o) == [i \in DOMAIN o.spec |-> NewRepo(o.spec[i])]

(* Due: a time that is just reached does not count.                         *)
DueLater(times, last, ready) ==
  /\ ready /\ times # {}
  /\ last = Never \/ \E c \in times : last < c /\ c < clock

(* Young: the comparison is the wrong way round.                            *)
YoungAfter(p) == p.born < clock

(* Unclaimed: PVCs that are being deleted are not left out.                 *)
UnclaimedGhosts(l) == {p \in PVCs : ~l[p].restored /\ l[p].restore = NoRequest}

(* Requested: only backups are looked for.                                  *)
RequestedBackup(l) == {p \in PVCs : l[p].exists /\ l[p].backup # NoRequest}

(* Unclaimed: the mark is not looked at.                                    *)
UnclaimedMarked(l) == {p \in PVCs : l[p].exists /\ l[p].born = clock /\ l[p].restore = NoRequest}

(* HasActive: the states of the Tasks found are not looked at.              *)
HasAnyTask(p) == \E i \in DOMAIN made : made[i].kind = "backup-scheduled" /\ made[i].pvc = p

(* FreshPVC: the last writer wins.                                          *)
AlwaysFreshPVC(p) == TRUE

-----------------------------------------------------------------------------
(* What the stages look at. *)

(* SyncRepositories: the status lists the targets of the spec, in order.    *)
Synced(o) == [i \in DOMAIN o.repos |-> o.repos[i].target] = o.spec

(* ... and what it makes of it: known entries are kept, others are new.     *)
Rebuilt(o) ==
  [i \in DOMAIN o.spec |->
     IF \E j \in DOMAIN o.repos : o.repos[j].target = o.spec[i]
     THEN o.repos[CHOOSE j \in DOMAIN o.repos :
                    /\ o.repos[j].target = o.spec[i]
                    /\ \A k \in DOMAIN o.repos : k > j => o.repos[k].target # o.spec[i]]
     ELSE NewRepo(o.spec[i])]

ReposReady(o) == \A i \in DOMAIN o.repos : o.repos[i].ready

(* ShouldPerformScheduledOperation; no times: a schedule that is empty or   *)
(* does not parse.                                                          *)
Due(times, last, ready) ==
  /\ ready /\ times # {}
  /\ last = Never \/ \E c \in times : last < c /\ c <= clock

(* The loops over the spec take the i-th status entry for the i-th target.  *)
BackupsDue(o) == {i \in DOMAIN o.spec :
                    Due(BackupTimes[o.spec[i]], o.repos[i].backupAt, o.repos[i].ready)}
ForgetsDue(o) == {i \in DOMAIN o.spec :
                    Due(ForgetTimes[o.spec[i]], o.repos[i].forgetAt, o.repos[i].ready)}
First(S) == CHOOSE i \in S : \A j \in S : i <= j

(* FilterNewPVCs and FilterUnclaimedPVCs.                                   *)
Young(p) == p.born = clock
Unclaimed(l) == {p \in PVCs : /\ l[p].exists /\ Young(l[p])
                              /\ ~l[p].restored /\ l[p].restore = NoRequest}

Requested(l) == {p \in PVCs : l[p].exists /\ (l[p].backup # NoRequest \/ l[p].restore # NoRequest)}

(* hasActiveScheduledBackupTask: by the states a Task may be seen in.  The  *)
(* label it selects by holds the name of the PVC, not its namespace.        *)
Active == {"Starting", "Running"}
ScheduledFor(name) ==
  {i \in DOMAIN made : made[i].kind = "backup-scheduled" /\ NameOf[made[i].pvc] = name}
HasActive(p) == \E i \in ScheduledFor(NameOf[p]) : phase[i] \in Active
EverActive(p) == \E i \in ScheduledFor(NameOf[p]) : phase[i] \in Phases \ {"Unset", "ScalingDown"}

Fresh == obj.rv = config.rv
FreshPVC(p) == listed[p].rv = pvcs[p].rv

NoPVCs == [p \in PVCs |-> NewPVC]

Init ==
  /\ \E s \in Specs : config = [NoConfig EXCEPT !.exists = TRUE, !.rv = 1, !.spec = s]
  /\ configCache = config
  /\ pvcs = NoPVCs /\ pvcCache = pvcs
  /\ made = <<>> /\ phase = [i \in TaskIds |-> "Absent"]
  /\ clock = 0
  /\ pc = "idle" /\ obj = NoConfig /\ listed = NoPVCs /\ todo = {} /\ at = NoPVC /\ repo = 0
  /\ asked = <<>> /\ faults = <<>>

-----------------------------------------------------------------------------
(* The worker. *)

Idle == /\ pc' = "idle" /\ obj' = NoConfig /\ listed' = NoPVCs
        /\ todo' = {} /\ at' = NoPVC /\ repo' = 0

(* An adverse event happens: it must be allowed and is written down.        *)
Charge(kind, bad) ==
  /\ bad => kind \in Faults /\ Len(faults) < MaxFaults
  /\ faults' = IF bad THEN Append(faults, kind) ELSE faults

ToStatus(o) == pc' = "status" /\ obj' = o /\ UNCHANGED <<listed, todo, at, repo>>

(* Create of a Task built by BuildTask; its status is dropped.              *)
NewTask(kind, p, r, request) ==
  /\ Len(made) < MaxTasks
  /\ made' = Append(made, [kind |-> kind, pvc |-> p, repo |-> r, slot |-> clock,
                           request |-> request, young |-> pvcs[p].born = clock])
  /\ phase' = [phase EXCEPT ![Len(made) + 1] = "Unset"]

(* Reconcile begins.  A Config that is gone from the cache is ignored.      *)
Fetch ==
  /\ pc = "idle" /\ configCache.exists
  /\ Charge("staleConfig", configCache # config)
  /\ pc' = "fetched" /\ obj' = configCache
  /\ UNCHANGED <<worldVars, taskVars, clock, listed, todo, at, repo, asked>>

(* An Update of the Config that ends the reconcile, whatever it says.       *)
UpdateAndReturn(o) ==
  /\ config' = IF Fresh THEN Stored(config, o) ELSE config
  /\ Idle
  /\ UNCHANGED <<configCache, pvcs, pvcCache, taskVars, clock, asked, faults>>

InitResourceIfConditionMet ==
  /\ pc = "fetched"
  /\ ~obj.ready /\ ~obj.finalizer
  /\ UpdateAndReturn([obj EXCEPT !.finalizer = TRUE])

InitConfig ==
  /\ pc = "fetched"
  /\ ~obj.ready /\ obj.finalizer
  /\ ToStatus([obj EXCEPT !.ready = TRUE])
  /\ UNCHANGED <<worldVars, taskVars, clock, asked, faults>>

SyncRepositories ==
  /\ pc = "fetched"
  /\ obj.ready /\ ~Synced(obj)
  /\ ToStatus([obj EXCEPT !.repos = Rebuilt(obj)])
  /\ UNCHANGED <<worldVars, taskVars, clock, asked, faults>>

(* restic check, restic init: the first repository that can do neither      *)
(* fails the reconcile, and what was learnt of the others is lost.          *)
InitRepositories ==
  /\ pc = "fetched"
  /\ obj.ready /\ Synced(obj) /\ ~ReposReady(obj)
  /\ \E failed \in BOOLEAN :
       /\ Charge("restic", failed)
       /\ IF failed THEN Idle
          ELSE ToStatus([obj EXCEPT !.repos = [i \in DOMAIN @ |-> [@[i] EXCEPT !.ready = TRUE]]])
  /\ UNCHANGED <<worldVars, taskVars, clock, asked>>

(* ListPVCsForConfig, and which stage the reconcile will stop at: every     *)
(* stage that has something to do ends it.  A list that is refused is an    *)
(* empty one.                                                               *)
ListPVCs ==
  /\ pc = "fetched"
  /\ obj.ready /\ Synced(obj) /\ ReposReady(obj)
  /\ \E refused \in BOOLEAN :
       LET l == IF refused THEN NoPVCs ELSE pvcCache
           found == {p \in PVCs : l[p].exists}
           Serve(stage, P) == pc' = stage /\ todo' = P /\ UNCHANGED <<obj, at, repo>>
       IN
       /\ Charge(IF refused THEN "list" ELSE "stalePVC", refused \/ pvcCache # pvcs)
       /\ listed' = l
       /\ IF AutoRestore /\ Unclaimed(l) # {} THEN Serve("autoRestore", Unclaimed(l))
          ELSE IF obj.restore # NoRequest THEN Serve("configRestore", found)
          ELSE IF obj.backup # NoRequest THEN Serve("configBackup", found)
          ELSE IF Requested(l) # {} THEN Serve("pvcRequest", Requested(l))
          ELSE IF BackupsDue(obj) # {} THEN
            /\ pc' = "schedule" /\ todo' = found
            /\ repo' = First(BackupsDue(obj))
            /\ obj' = [obj EXCEPT !.repos[repo'].backupAt = clock]
            /\ UNCHANGED at
          ELSE IF ForgetsDue(obj) # {} THEN Serve("forget", {})
          ELSE Serve("done", {})
  /\ UNCHANGED <<worldVars, taskVars, clock, asked>>

(* Every stage but the schedule picks a repository, SelectRepository, which *)
(* looks at the first of the spec: if there is none the worker panics, the  *)
(* panic is recovered and the reconcile fails.                              *)
PanicWithoutRepository ==
  /\ pc \in {"autoRestore", "configRestore", "configBackup", "pvcRequest"}
  /\ todo # {} /\ obj.spec = <<>>
  /\ Idle
  /\ UNCHANGED <<worldVars, taskVars, clock, asked, faults>>

(* A Task is created, or the error is logged and the loop goes on.          *)
TryNewTask(kind, p, r, request) ==
  \/ Charge("create", FALSE) /\ NewTask(kind, p, r, request)
  \/ Charge("create", TRUE) /\ UNCHANGED taskVars

(* Mutant of CreateAutoRestore: the error is logged and the PVC marked.      *)
CreateAutoRestoreAnyway(p) ==
  /\ pc = "autoRestore" /\ p \in todo /\ obj.spec # <<>>
  /\ TryNewTask("restore-automated", p, NoRepo, NoRequest)
  /\ pc' = "mark" /\ at' = p
  /\ UNCHANGED <<worldVars, clock, obj, listed, todo, repo, asked>>

(* AutoRestore, one PVC: create the Task, or give up until later.           *)
CreateAutoRestore(p) ==
  /\ pc = "autoRestore" /\ p \in todo /\ obj.spec # <<>>
  /\ \E refused \in BOOLEAN :
       /\ Charge("create", refused)
       /\ IF refused THEN Idle /\ UNCHANGED taskVars
          ELSE /\ NewTask("restore-automated", p, NoRepo, NoRequest)
               /\ pc' = "mark" /\ at' = p
               /\ UNCHANGED <<obj, listed, todo, repo>>
  /\ UNCHANGED <<worldVars, clock, asked>>

(* ... and mark it; a conflict fails the reconcile.                         *)
MarkRestored ==
  /\ pc = "mark"
  /\ IF FreshPVC(at)
     THEN /\ pvcs' = [pvcs EXCEPT ![at] = StoredPVC(@, [listed[at] EXCEPT !.restored = TRUE])]
          /\ IF todo = {at} THEN Idle
             ELSE /\ pc' = "autoRestore" /\ todo' = todo \ {at} /\ at' = NoPVC
                  /\ UNCHANGED <<obj, listed, repo>>
     ELSE Idle /\ UNCHANGED pvcs
  /\ UNCHANGED <<config, configCache, pvcCache, taskVars, clock, asked, faults>>

(* ConfigRestore and ConfigBackup: a Task for every PVC ...                 *)
ServeConfigRequest(p) ==
  /\ pc \in {"configRestore", "configBackup"} /\ p \in todo /\ obj.spec # <<>>
  /\ IF pc = "configRestore" THEN TryNewTask("restore-manual", p, NoRepo, obj.restore)
                             ELSE TryNewTask("backup-manual", p, NoRepo, obj.backup)
  /\ todo' = todo \ {p}
  /\ UNCHANGED <<worldVars, clock, pc, obj, listed, at, repo, asked>>

(* ... and then the annotation goes.                                        *)
ClearConfigRequest ==
  /\ pc \in {"configRestore", "configBackup"} /\ todo = {}
  /\ UpdateAndReturn(IF pc = "configRestore" THEN [obj EXCEPT !.restore = NoRequest]
                                             ELSE [obj EXCEPT !.backup = NoRequest])

(* PVCRestore, PVCBackup: the first annotated PVC of the list is served.    *)
ServePVCRequest(p) ==
  /\ pc = "pvcRequest" /\ p \in todo /\ obj.spec # <<>>
  /\ IF listed[p].restore # NoRequest
     THEN TryNewTask("restore-manual", p, NoRepo, listed[p].restore)
     ELSE TryNewTask("backup-manual", p, NoRepo, listed[p].backup)
  /\ pc' = "clear" /\ at' = p
  /\ UNCHANGED <<worldVars, clock, obj, listed, todo, repo, asked>>

ClearPVCRequest ==
  /\ pc = "clear"
  /\ pvcs' = IF ~FreshPVC(at) THEN pvcs
             ELSE [pvcs EXCEPT ![at] = StoredPVC(@,
                     IF listed[at].restore # NoRequest
                     THEN [listed[at] EXCEPT !.restore = NoRequest]
                     ELSE [listed[at] EXCEPT !.backup = NoRequest])]
  /\ Idle
  /\ UNCHANGED <<config, configCache, pvcCache, taskVars, clock, asked, faults>>

(* ScheduleBackupRepositories, one PVC: skipped if a scheduled Task for it  *)
(* is seen to be active.  A cache that lags may miss one, or show one that  *)
(* has gone on.                                                             *)
ScheduleBackup(p) ==
  /\ pc = "schedule" /\ p \in todo
  /\ \/ /\ HasActive(p)
        /\ Charge("staleTask", FALSE)
        /\ UNCHANGED taskVars
     \/ /\ ~HasActive(p) /\ EverActive(p)
        /\ Charge("staleTask", TRUE)
        /\ UNCHANGED taskVars
     \/ /\ HasActive(p)
        /\ Charge("staleTask", TRUE)
        /\ NewTask("backup-scheduled", p, obj.spec[repo], NoRequest)
     \/ /\ ~HasActive(p)
        /\ TryNewTask("backup-scheduled", p, obj.spec[repo], NoRequest)
  /\ todo' = todo \ {p}
  /\ UNCHANGED <<worldVars, clock, pc, obj, listed, at, repo, asked>>

(* ScheduleForgetRepositories: Reconcile drops the error of a restic forget *)
(* that fails, so that a failed run is recorded like any other.             *)
ScheduleForget ==
  /\ pc = "forget"
  /\ ToStatus([obj EXCEPT !.repos[First(ForgetsDue(obj))].forgetAt = clock])
  /\ UNCHANGED <<worldVars, taskVars, clock, asked, faults>>

(* Status().Update of the Config: only the status travels.                  *)
WriteStatus ==
  /\ pc = "status" \/ (pc = "schedule" /\ todo = {})
  /\ UpdateAndReturn([config EXCEPT !.ready = obj.ready, !.repos = obj.repos])

NothingToDo ==
  /\ pc = "done"
  /\ Idle
  /\ UNCHANGED <<worldVars, taskVars, clock, asked, faults>>

Abort ==
  /\ pc # "idle"
  /\ Charge("abort", TRUE)
  /\ Idle
  /\ UNCHANGED <<worldVars, taskVars, clock, asked>>

WorkerStep ==
  \/ InitResourceIfConditionMet
  \/ InitConfig
  \/ SyncRepositories
  \/ InitRepositories
  \/ ListPVCs
  \/ PanicWithoutRepository
  \/ \E p \in PVCs : CreateAutoRestore(p)
  \/ MarkRestored
  \/ \E p \in PVCs : ServeConfigRequest(p)
  \/ ClearConfigRequest
  \/ \E p \in PVCs : ServePVCRequest(p)
  \/ ClearPVCRequest
  \/ \E p \in PVCs : ScheduleBackup(p)
  \/ ScheduleForget
  \/ WriteStatus
  \/ NothingToDo

-----------------------------------------------------------------------------
(* Users, the clock, the informers and the Tasks controller. *)

UserWrites(kind) == kind \in UserActions /\ UNCHANGED <<configCache, pvcCache, taskVars, clock, workerVars, faults>>

(* Requests are numbered in the order they are made.                        *)
Ask == /\ Len(asked) < MaxRequests
       /\ asked' = Append(asked, {p \in PVCs : pvcs[p].exists})

CreatePVC(p) ==
  /\ pvcs[p].rv = 0
  /\ pvcs' = [pvcs EXCEPT ![p] = [NewPVC EXCEPT !.exists = TRUE, !.rv = 1, !.born = clock]]
  /\ UNCHANGED <<config, configCache, pvcCache, taskVars, clock, workerVars, asked, faults>>

AnnotatePVC(p) ==
  /\ pvcs[p].exists /\ Ask
  /\ \/ UserWrites("backupPVC") /\ pvcs' = [pvcs EXCEPT ![p] = StoredPVC(@, [@ EXCEPT !.backup = Len(asked')])]
     \/ UserWrites("restorePVC") /\ pvcs' = [pvcs EXCEPT ![p] = StoredPVC(@, [@ EXCEPT !.restore = Len(asked')])]
  /\ UNCHANGED config

(* A PVC is as good as gone once it is being deleted: no list returns it.   *)
DeletePVC(p) ==
  /\ UserWrites("deletePVC")
  /\ pvcs[p].exists
  /\ pvcs' = [pvcs EXCEPT ![p] = [NewPVC EXCEPT !.rv = pvcs[p].rv + 1]]
  /\ UNCHANGED <<config, asked>>

(* Users and the operator are not the only ones who write to PVCs: of a new *)
(* one the provisioner sets annotations and the volume controller the       *)
(* binding, in several writes.  None of it concerns the operator but the    *)
(* version, which makes its own next write conflict.                        *)
OtherWrite(p) ==
  /\ pvcs[p].exists
  /\ Charge("otherWrite", TRUE)
  /\ pvcs' = [pvcs EXCEPT ![p].rv = @ + 1]
  /\ UNCHANGED <<config, configCache, pvcCache, taskVars, clock, workerVars, asked>>

AnnotateConfig ==
  /\ config.exists /\ Ask
  /\ \/ UserWrites("backupConfig") /\ config' = Stored(config, [config EXCEPT !.backup = Len(asked')])
     \/ UserWrites("restoreConfig") /\ config' = Stored(config, [config EXCEPT !.restore = Len(asked')])
  /\ UNCHANGED pvcs

EditSpec ==
  /\ UserWrites("editSpec")
  /\ config.exists /\ Ask
  /\ \E s \in Specs \ {config.spec} : config' = Stored(config, [config EXCEPT !.spec = s])
  /\ UNCHANGED pvcs

DeleteConfig ==
  /\ UserWrites("deleteConfig")
  /\ config.exists /\ ~config.deleting
  /\ config' = Stored(config, [config EXCEPT !.deleting = TRUE])
  /\ UNCHANGED <<pvcs, asked>>

SyncConfig ==
  /\ configCache # config
  /\ configCache' = config
  /\ UNCHANGED <<config, pvcs, pvcCache, taskVars, clock, workerVars, asked, faults>>

SyncPVC(p) ==
  /\ pvcCache[p] # pvcs[p]
  /\ pvcCache' = [pvcCache EXCEPT ![p] = pvcs[p]]
  /\ UNCHANGED <<config, configCache, pvcs, taskVars, clock, workerVars, asked, faults>>

Tick ==
  /\ clock < MaxClock
  /\ clock' = clock + 1
  /\ UNCHANGED <<worldVars, taskVars, workerVars, asked, faults>>

TaskStep(i) ==
  /\ TasksRun
  /\ \E m \in Progress : phase[i] = m[1] /\ phase' = [phase EXCEPT ![i] = m[2]]
  /\ UNCHANGED <<worldVars, made, clock, workerVars, asked, faults>>

Next ==
  \/ Fetch
  \/ WorkerStep
  \/ Abort
  \/ AnnotateConfig
  \/ EditSpec
  \/ DeleteConfig
  \/ SyncConfig
  \/ Tick
  \/ \E p \in PVCs : \/ CreatePVC(p)
                     \/ AnnotatePVC(p)
                     \/ DeletePVC(p)
                     \/ OtherWrite(p)
                     \/ SyncPVC(p)
  \/ \E i \in TaskIds : TaskStep(i)

Spec == Init /\ [][Next]_vars

(* The queue hands the Config out again and again (every reconcile ends     *)
(* with a requeue or an error), a reconcile that has begun goes on, and     *)
(* informers catch up.  Nothing is assumed of users or of the clock.        *)
Fairness ==
  /\ SF_vars(Fetch)
  /\ WF_vars(WorkerStep)
  /\ WF_vars(SyncConfig)
  /\ \A p \in PVCs : WF_vars(SyncPVC(p))

FairSpec == Spec /\ Fairness
-----------------------------------------------------------------------------
(* Properties. *)

Stages == {"idle", "fetched", "status", "autoRestore", "mark", "configRestore",
           "configBackup", "pvcRequest", "clear", "schedule", "forget", "done"}

(* The types of all variables.                                              *)
TypeOK ==
  /\ config \in ConfigRecord /\ configCache \in ConfigRecord
  /\ pvcs \in [PVCs -> PVCRecord] /\ pvcCache \in [PVCs -> PVCRecord]
  /\ made \in Seq(TaskRecord) /\ Len(made) <= MaxTasks
  /\ phase \in [TaskIds -> Phases]
  /\ \A i \in TaskIds : phase[i] = "Absent" <=> i > Len(made)
  /\ clock \in 0 .. MaxClock /\ asked \in Seq(SUBSET PVCs) /\ Len(asked) <= MaxRequests
  /\ faults \in Seq(FaultKinds) /\ Len(faults) <= MaxFaults
  /\ pc \in Stages /\ obj \in ConfigRecord /\ listed \in [PVCs -> PVCRecord]
  /\ todo \subseteq {p \in PVCs : listed[p].exists} /\ at \in todo \cup {NoPVC}
  /\ pc \in {"mark", "clear"} <=> at # NoPVC
  /\ repo \in Nat /\ (pc = "schedule" => repo \in DOMAIN obj.spec)

(* The schedule loops take the i-th status entry for the i-th target of the *)
(* spec, and InitRepositories dereferences the target it looks up: whenever *)
(* they run, whatever users do to the spec meanwhile, the two lists agree.  *)
ReposAligned ==
  pc \in {"schedule", "forget"} =>
    /\ Len(obj.repos) = Len(obj.spec)
    /\ \A i \in DOMAIN obj.repos : obj.repos[i].ready /\ obj.repos[i].target = obj.spec[i]

(* A timestamp is never lost or turned back for a repository that stays in  *)
(* the spec, so that no reorder, edit or late write repeats a backup.       *)
LastBackup(o, r) == {o.repos[i].backupAt : i \in {j \in DOMAIN o.repos : o.repos[j].target = r}}

TimesAdvance ==
  [][\A r \in Repos : \A c \in LastBackup(config, r), d \in LastBackup(config', r) : c <= d]_vars

(* What the adverse events so far have not been.                            *)
Spared(kinds) == \A i \in DOMAIN faults : faults[i] \notin kinds

(* A manual request is a promise: the operator takes the annotation off a   *)
(* PVC, or off the Config, only when a Task that answers this very request  *)
(* exists, for every PVC it has listed.                                     *)
Answered(request, p) == \E i \in DOMAIN made : made[i].request = request /\ made[i].pvc = p

(* The requests o carries in an annotation that n has not.                  *)
TakenOff(o, n) ==
  {o[a] : a \in {b \in {"backup", "restore"} : n[b] = NoRequest}} \ {NoRequest}

Served ==
  /\ \A p \in PVCs : pvcs'[p].exists =>
       \A k \in TakenOff(pvcs[p], pvcs'[p]) : Answered(k, p)
  /\ config'.exists =>
       \A k \in TakenOff(config, config') : \A p \in PVCs : listed[p].exists => Answered(k, p)

RequestsServed == [][Served]_vars

(* ... and a request on the Config is for every PVC there was when the user *)
(* made it, whatever has been listed.                                       *)
ServedToAll ==
  config'.exists =>
    \A k \in TakenOff(config, config') : \A p \in asked[k] : pvcs[p].exists => Answered(k, p)

(* The promise is kept unless the creation of a Task is refused, whatever   *)
(* else happens; for all PVCs, unless the list is refused or lags.          *)
RequestsKept ==
  [][/\ Spared({"create"}) => Served
     /\ Spared({"create", "list", "stalePVC"}) => ServedToAll]_vars

(* The mark that stops the automatic restore is only ever set on a PVC for  *)
(* which the restore has been created.                                      *)
MarkIsHonest ==
  \A p \in PVCs : pvcs[p].restored =>
    \E i \in DOMAIN made : made[i].kind = "restore-automated" /\ made[i].pvc = p

(* Auto-restore has priority: a schedule never backs up a PVC that is still *)
(* new, and so may be empty, before a restore of it has been created.       *)
RestoreFirst ==
  AutoRestore =>
    \A i \in DOMAIN made : made[i].kind = "backup-scheduled" /\ made[i].young =>
      \E j \in 1 .. i - 1 : made[j].kind \in Restores /\ made[j].pvc = made[i].pvc

(* One automatic restore per PVC.                                           *)
RestoredOnce ==
  \A i, j \in DOMAIN made :
    made[i].kind = "restore-automated" /\ made[j].kind = "restore-automated"
      /\ made[i].pvc = made[j].pvc => i = j

(* ... or a few: whoever writes to the PVC between the creation of the Task *)
(* and the mark, a user who annotates it or the controller that binds it,   *)
(* makes the mark conflict, and the restore is repeated.  Each of those     *)
(* writes costs one more restore at most, and refusals cost none.  Only a   *)
(* worker that dies there, or a list from a cache that lags, costs more.    *)
AutoRestores(p) == {i \in DOMAIN made : made[i].kind = "restore-automated" /\ made[i].pvc = p}
OtherWrites == {i \in DOMAIN faults : faults[i] = "otherWrite"}

RestoresBounded ==
  Spared({"abort", "stalePVC"}) =>
    \A p \in PVCs : Cardinality(AutoRestores(p)) <= 1 + Len(asked) + Cardinality(OtherWrites)

(* How often a PVC is restored automatically: at least once if it is        *)
(* marked, and at most once and once more for each request and each write   *)
(* of others.                                                               *)
RestoresCounted == MarkIsHonest /\ RestoresBounded

(* A PVC whose user asked for a certain snapshot is not restored to the     *)
(* latest one afterwards.                                                   *)
ManualRestoreWins ==
  \A i, j \in DOMAIN made :
    made[i].kind = "restore-manual" /\ made[j].kind = "restore-automated"
      /\ made[i].pvc = made[j].pvc => j < i

(* No duplicate scheduled Tasks: a PVC has at most one that is not over.    *)
OneScheduledTask ==
  \A i, j \in DOMAIN made :
    /\ made[i].kind = "backup-scheduled" /\ made[j].kind = "backup-scheduled"
    /\ made[i].pvc = made[j].pvc /\ phase[i] \notin Finished /\ phase[j] \notin Finished
      => i = j

(* When a schedule has run since all scheduled Tasks of a PVC were over, it *)
(* has made one for the PVC: a run is not recorded, and so not repeated,    *)
(* for nothing.  Caches that lag may hide the PVC or show an old Task.      *)
AtRest(p, r, t) ==
  /\ pc = "idle" /\ clock = t /\ pvcs[p].exists /\ pvcCache[p].exists
  /\ \A i \in ScheduledFor(NameOf[p]) : phase[i] \in Finished
  /\ \A c \in LastBackup(config, r) : c < t

NotInVain(p, r, t) ==
  Spared({"create", "list", "staleTask", "stalePVC"}) /\ pvcs[p].exists =>
    \A c \in LastBackup(config, r) : c >= t =>
      \E i \in DOMAIN made : /\ made[i].kind = "backup-scheduled" /\ made[i].pvc = p
                            /\ made[i].repo = r /\ made[i].slot >= t

RunIsBackedUp ==
  \A p \in PVCs, r \in Repos, t \in 0 .. MaxClock : [](AtRest(p, r, t) => []NotInVain(p, r, t))

(* Requests do not wait for ever: an annotation the operator can read is    *)
(* taken off in the end.                                                    *)
RequestsSettle ==
  /\ (config.backup # NoRequest \/ config.restore # NoRequest)
       ~> (config.backup = NoRequest /\ config.restore = NoRequest)
  /\ \A p \in PVCs : (pvcs[p].backup # NoRequest \/ pvcs[p].restore # NoRequest)
                        ~> (pvcs[p].backup = NoRequest /\ pvcs[p].restore = NoRequest)

(* A new PVC is marked restored, unless it is deleted or grows old first.   *)
NewPVCsSettle ==
  \A p \in PVCs : AutoRestore /\ pvcs[p].exists
                    ~> (pvcs[p].restored \/ ~pvcs[p].exists \/ pvcs[p].born # clock)

(* No schedule is forgotten: a repository whose time has come is run.       *)
Overdue(r) == \E i \in DOMAIN config.spec :
  /\ config.spec[i] = r /\ BackupTimes[r] # {}
  /\ \A c \in LastBackup(config, r) : c = Never \/ \E d \in BackupTimes[r] : c < d /\ d <= clock

SchedulesRun == \A r \in Repos : Overdue(r) ~> ~Overdue(r)

(* A Config that a user deletes goes away.                                  *)
DeletionEnds == config.deleting ~> ~config.exists
=============================================================================
