------------------------------ MODULE Recovery ------------------------------
(***************************************************************************)
(* The whole operator at work on data: the Configs controller creates      *)
(* Tasks (ConfigReconciler), the Tasks controller moves them along         *)
(* (TaskLifecycle), and their Jobs copy data between volumes and restic    *)
(* snapshots.  It begins after a disaster: all there is left is a Config   *)
(* that has just been applied again, and an archive of snapshots.          *)
(*                                                                         *)
(* A Task names its PVC, so its Job works on whatever PVC has that name    *)
(* when its pod is scheduled; PVCs of one name are incarnations of one     *)
(* claim, in one namespace.  Data is a set of writes.  The clock stands    *)
(* still: PVCs are young, and a schedule is due when it has never run.     *)
(***************************************************************************)
EXTENDS ConfigReconciler

CONSTANTS
  Archive,    \* the snapshots left, in the order they were taken
  JobsFail,   \* may a restic Job fail for another reason than a missing snapshot
  MaxWrites   \* how often applications write (a bound)

SnapshotRecord == [name : {NameOf[p] : p \in PVCs}, data : SUBSET (0 .. MaxWrites), of : PVCs \cup {NoPVC}]

ASSUME ArchiveAssumption == Archive \in Seq([name : {NameOf[p] : p \in PVCs}, data : SUBSET {0},
                                             of : {NoPVC}])
ASSUME JobsFailAssumption == JobsFail \in BOOLEAN /\ MaxWrites \in Nat

VARIABLES
  volume,     \* volume[p]: the data on the volume of p
  snapshots,  \* the snapshots of the repository, in the order they were taken
  jobs,       \* jobs[i]: the PVC the Job of Task i works on, and what it has read
  expected,   \* expected[p]: what was backed up when p was created (history)
  written     \* writes so far

dataVars == <<volume, snapshots, jobs, expected, written>>
recoveryVars == <<vars, dataVars>>

NoJob == [pvc |-> NoPVC, data |-> {}, of |-> NoPVC]

RecoveryInit ==
  /\ Init
  /\ volume = [p \in PVCs |-> {}] /\ expected = volume
  /\ snapshots = Archive
  /\ jobs = [i \in TaskIds |-> NoJob]
  /\ written = 0

-----------------------------------------------------------------------------
SnapshotsOf(p) == {k \in DOMAIN snapshots : snapshots[k].name = NameOf[p]}

Newest(p) == {k \in SnapshotsOf(p) : \A l \in SnapshotsOf(p) : l <= k}

(* Mutant of Latest: the oldest snapshot.                                   *)
Oldest(p) == snapshots[CHOOSE k \in SnapshotsOf(p) : \A l \in SnapshotsOf(p) : k <= l]

(* What restic calls the latest snapshot of the host that stands for a PVC. *)
Latest(p) == snapshots[CHOOSE k \in Newest(p) : TRUE]

IsRestore(i) == made[i].kind \in Restores

(* The pod of a Job is scheduled once there is a PVC of the name it mounts, *)
(* and restic reads the volume, or the latest snapshot if there is one.     *)
JobReads(i) ==
  /\ phase[i] = "Running" /\ jobs[i] = NoJob
  /\ \E p \in PVCs :
       /\ pvcs[p].exists /\ NameOf[p] = NameOf[made[i].pvc]
       /\ jobs' = [jobs EXCEPT ![i] =
            IF ~IsRestore(i) THEN [pvc |-> p, data |-> volume[p], of |-> p]
            ELSE IF SnapshotsOf(p) = {} THEN [NoJob EXCEPT !.pvc = p]
            ELSE [pvc |-> p, data |-> Latest(p).data, of |-> Latest(p).of]]
  /\ UNCHANGED <<vars, volume, snapshots, expected, written>>

(* A backup has become a snapshot, a restore has been written over the      *)
(* volume.                                                                  *)
JobTakesEffect(i) ==
  /\ IF IsRestore(i)
     THEN /\ SnapshotsOf(made[i].pvc) # {}
          /\ volume' = [volume EXCEPT ![jobs[i].pvc] = @ \cup jobs[i].data]
          /\ UNCHANGED snapshots
     ELSE /\ snapshots' = Append(snapshots, [name |-> NameOf[made[i].pvc], data |-> jobs[i].data,
                                             of |-> jobs[i].of])
          /\ UNCHANGED volume
  /\ UNCHANGED <<jobs, expected, written>>

(* Mutant of JobDone: a Job that has not begun is taken for done.           *)
JobDoneAtOnce(i) == IF jobs[i].pvc = NoPVC /\ IsRestore(i) THEN UNCHANGED dataVars ELSE JobTakesEffect(i)

(* The Job of i ends well, and its Task follows.                            *)
JobDone(i) == jobs[i].pvc # NoPVC /\ JobTakesEffect(i)

JobFailed(i) ==
  /\ JobsFail \/ (jobs[i].pvc # NoPVC /\ IsRestore(i) /\ SnapshotsOf(made[i].pvc) = {})
  /\ UNCHANGED dataVars

TaskAndJob(i) ==
  /\ TaskStep(i)
  /\ CASE phase'[i] = "ScalingUp" -> JobDone(i)
       [] phase'[i] = "Failed" -> JobFailed(i)
       [] OTHER -> UNCHANGED dataVars

(* A PVC can be created again once the old one is gone, which is when no    *)
(* pod uses it any more (the pvc-protection finalizer).                     *)
ApplyPVC(p) ==
  /\ \A q \in PVCs : NameOf[q] = NameOf[p] =>
       ~pvcs[q].exists /\ \A i \in TaskIds : ~(phase[i] = "Running" /\ jobs[i].pvc = q)
  /\ CreatePVC(p)
  /\ expected' = [expected EXCEPT ![p] = UNION {snapshots[k].data : k \in Newest(p)}]
  /\ UNCHANGED <<volume, snapshots, jobs, written>>

(* Applications do not wait for the restore.                                *)
Write(p) ==
  /\ pvcs[p].exists /\ written < MaxWrites
  /\ written' = written + 1
  /\ volume' = [volume EXCEPT ![p] = @ \cup {written'}]
  /\ UNCHANGED <<vars, snapshots, jobs, expected>>

OperatorStep == (Fetch \/ WorkerStep \/ Abort) /\ UNCHANGED dataVars

RecoveryNext ==
  \/ OperatorStep
  \/ SyncConfig /\ UNCHANGED dataVars
  \/ \E p \in PVCs : \/ (DeletePVC(p) \/ OtherWrite(p) \/ SyncPVC(p)) /\ UNCHANGED dataVars
                     \/ ApplyPVC(p)
                     \/ Write(p)
  \/ \E i \in TaskIds : TaskAndJob(i) \/ JobReads(i)

RecoverySpec == RecoveryInit /\ [][RecoveryNext]_recoveryVars

(* As in ConfigReconciler; a Task goes on, as TaskReconciler promises, when *)
(* its Job does.                                                            *)
FairRecoverySpec ==
  /\ RecoverySpec
  /\ SF_recoveryVars(Fetch /\ UNCHANGED dataVars)
  /\ WF_recoveryVars(WorkerStep /\ UNCHANGED dataVars)
  /\ WF_recoveryVars(SyncConfig /\ UNCHANGED dataVars)
  /\ \A p \in PVCs : WF_recoveryVars(SyncPVC(p) /\ UNCHANGED dataVars)
  /\ WF_recoveryVars(\E i \in TaskIds : TaskAndJob(i) \/ JobReads(i))

-----------------------------------------------------------------------------
(* Properties. *)

(* The types of the variables this module adds.                             *)
DataTypeOK ==
  /\ volume \in [PVCs -> SUBSET (0 .. MaxWrites)] /\ expected \in [PVCs -> SUBSET (0 .. MaxWrites)]
  /\ \A k \in DOMAIN snapshots : /\ snapshots[k] \in SnapshotRecord
                                 /\ k > Len(Archive) => snapshots[k].of \in PVCs
  /\ \A i \in TaskIds : jobs[i] = NoJob \/ jobs[i].pvc \in PVCs
  /\ written \in 0 .. MaxWrites

(* "PVCs will be automagically restored from backups": when the automatic   *)
(* restore of a PVC has ended well, all that was backed up when the PVC was *)
(* created is on the volume it has worked on.                               *)
Restored(i) == /\ made[i].kind = "restore-automated"
               /\ phase[i] \in {"ScalingUp", "Completed"} /\ jobs[i].pvc # NoPVC

DataIsBack ==
  \A i \in DOMAIN made : Restored(i) => expected[jobs[i].pvc] \subseteq volume[jobs[i].pvc]

(* There is one way to lose it: a backup of the new volume itself, which is *)
(* empty still, has become the latest snapshot first.                       *)
DataIsBackUnlessOvertaken ==
  \A i \in DOMAIN made : Restored(i) /\ jobs[i].of # jobs[i].pvc
    => expected[jobs[i].pvc] \subseteq volume[jobs[i].pvc]

(* When Jobs succeed a new PVC gets its data back in the end, unless it is  *)
(* deleted, or its own backup overtakes the restore (or the bound on Tasks  *)
(* is reached).                                                             *)
Overtaken(p) == \E k \in DOMAIN snapshots : snapshots[k].of = p

NewPVCsRecover ==
  \A p \in PVCs : AutoRestore /\ pvcs[p].exists
    ~> \/ expected[p] \subseteq volume[p]
       \/ ~pvcs[p].exists \/ Overtaken(p)
       \/ Len(made) = MaxTasks
=============================================================================
