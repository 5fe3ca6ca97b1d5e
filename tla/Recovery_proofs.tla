-------------------------- MODULE Recovery_proofs --------------------------
(***************************************************************************)
(* Theorems about Recovery, for every number of PVCs and Tasks, every      *)
(* archive, all adverse events and Jobs that may fail: what is proved of   *)
(* the Configs controller is true here as well, and a restore that has     *)
(* ended well has brought the data back, but for the one case that         *)
(* DataIsBackUnlessOvertaken names.                                        *)
(***************************************************************************)
EXTENDS Recovery, ConfigReconciler_proofs

-----------------------------------------------------------------------------
(* Recovery is a ConfigReconciler that has data. *)

LEMMA RecoverySteps == [RecoveryNext]_recoveryVars => [Next]_vars
<1>1. CASE UNCHANGED recoveryVars
  BY <1>1 DEF recoveryVars
<1>2. CASE OperatorStep \/ SyncConfig
  BY <1>2 DEF OperatorStep, Next
<1>3. ASSUME NEW p \in PVCs, DeletePVC(p) \/ OtherWrite(p) \/ SyncPVC(p) \/ ApplyPVC(p) \/ Write(p)
      PROVE  [Next]_vars
  BY <1>3 DEF Next, ApplyPVC, Write
<1>4. ASSUME NEW i \in TaskIds, TaskAndJob(i) \/ JobReads(i)
      PROVE  [Next]_vars
  BY <1>4 DEF Next, TaskAndJob, JobReads
<1> QED BY Zenon, <1>1, <1>2, <1>3, <1>4 DEF RecoveryNext

(* With data, Tasks and Jobs the Configs controller does nothing it does    *)
(* not do without: whatever is proved of ConfigReconciler holds here.       *)
THEOREM RecoveryRunsConfigs == RecoverySpec => Spec
<1>1. RecoveryInit => Init
  BY DEF RecoveryInit
<1>2. [RecoveryNext]_recoveryVars => [Next]_vars
  BY RecoverySteps
<1> QED BY <1>1, <1>2, PTL DEF RecoverySpec, Spec

LEMMA RecoveryAgrees == RecoverySpec => [](TypeOK /\ PVCsInv)
BY RecoveryRunsConfigs, ConfigTypes, PVCsAgree, PTL

-----------------------------------------------------------------------------
(* What the steps without an effect on data do to PVCs and Tasks. *)

Quiet == \/ Fetch \/ WorkerStep \/ Abort \/ SyncConfig
         \/ \E p \in PVCs : DeletePVC(p) \/ OtherWrite(p) \/ SyncPVC(p)

(* A Task is new, or stays where it is.                                     *)
LEMMA QuietPhases ==
  ASSUME TypeOK, Quiet
  PROVE  \A i \in TaskIds : phase'[i] = phase[i] \/ (phase[i] = "Absent" /\ phase'[i] = "Unset")
<1>1. \/ phase' = phase
      \/ Len(made) < MaxTasks /\ phase' = [phase EXCEPT ![Len(made) + 1] = "Unset"]
  BY Zenon DEF Quiet, WorkerStep, Fetch, Abort, SyncConfig, DeletePVC, OtherWrite, SyncPVC, UserWrites,
     InitResourceIfConditionMet, InitConfig, SyncRepositories, InitRepositories, ListPVCs,
     PanicWithoutRepository, CreateAutoRestore, MarkRestored, ServeConfigRequest, ClearConfigRequest,
     ServePVCRequest, ClearPVCRequest, ScheduleBackup, ScheduleForget, WriteStatus, NothingToDo,
     UpdateAndReturn, TryNewTask, NewTask, taskVars
<1>2. Len(made) \in Nat /\ phase \in [TaskIds -> Phases]
  BY DEF TypeOK
<1>3. CASE phase' = phase
  BY <1>3
<1>4. CASE Len(made) < MaxTasks /\ phase' = [phase EXCEPT ![Len(made) + 1] = "Unset"]
  <2>1. Len(made) + 1 \in TaskIds /\ Len(made) + 1 > Len(made)
    BY <1>2, <1>4, BoundsAreNat DEF TaskIds
  <2>2. phase[Len(made) + 1] = "Absent"
    BY <2>1 DEF TypeOK
  <2> QED BY <1>2, <1>4, <2>1, <2>2
<1> QED BY <1>1, <1>3, <1>4

(* No PVC comes into being.                                                 *)
LEMMA QuietPVCs ==
  ASSUME TypeOK, PVCsInv, Quiet
  PROVE  \A p \in PVCs : pvcs'[p].exists => pvcs[p].exists
<1>0. pvcs \in [PVCs -> PVCRecord] /\ listed \in [PVCs -> PVCRecord] /\ at \in todo \cup {NoPVC}
      /\ todo \subseteq PVCs
  BY DEF TypeOK
<1>1. CASE MarkRestored \/ ClearPVCRequest
  <2>1. at \in PVCs
    BY <1>0, <1>1 DEF MarkRestored, ClearPVCRequest, TypeOK
  <2>2. FreshPVC(at) => listed[at] = pvcs[at]
    BY <2>1 DEF PVCsInv, CopyOK, FreshPVC
  <2>3. \A old, o \in PVCRecord : StoredPVC(old, o).exists => old.exists \/ o.exists
    BY DEF StoredPVC, PVCRecord
  <2>4. listed[at] \in PVCRecord /\ pvcs[at] \in PVCRecord
    BY <1>0, <2>1
  <2>5. PICK o \in PVCRecord : /\ o.exists = listed[at].exists
                               /\ pvcs' \in {pvcs, [pvcs EXCEPT ![at] = StoredPVC(pvcs[at], o)]}
                               /\ pvcs' # pvcs => FreshPVC(at)
    <3>1. /\ [listed[at] EXCEPT !.restored = TRUE] \in PVCRecord
          /\ [listed[at] EXCEPT !.restored = TRUE].exists = listed[at].exists
      BY <2>4 DEF PVCRecord
    <3>2. /\ [listed[at] EXCEPT !.restore = NoRequest] \in PVCRecord
          /\ [listed[at] EXCEPT !.restore = NoRequest].exists = listed[at].exists
          /\ [listed[at] EXCEPT !.backup = NoRequest] \in PVCRecord
          /\ [listed[at] EXCEPT !.backup = NoRequest].exists = listed[at].exists
      BY <2>4 DEF PVCRecord, NoRequest
    <3> QED BY <1>1, <3>1, <3>2 DEF MarkRestored, ClearPVCRequest
  <2> QED BY <1>0, <2>1, <2>2, <2>3, <2>4, <2>5
<1>2. ASSUME NEW p \in PVCs, DeletePVC(p) PROVE \A q \in PVCs : pvcs'[q].exists => pvcs[q].exists
  BY <1>0, <1>2 DEF DeletePVC, NewPVC
<1>3. ASSUME NEW p \in PVCs, OtherWrite(p) PROVE \A q \in PVCs : pvcs'[q].exists => pvcs[q].exists
  BY <1>0, <1>3 DEF OtherWrite, PVCRecord
<1>4. CASE ~MarkRestored /\ ~ClearPVCRequest /\ ~\E p \in PVCs : DeletePVC(p) \/ OtherWrite(p)
  <2>1. UNCHANGED pvcs
    BY Zenon, <1>4 DEF Quiet, WorkerStep, Fetch, Abort, SyncConfig, SyncPVC,
       InitResourceIfConditionMet, InitConfig, SyncRepositories, InitRepositories, ListPVCs,
       PanicWithoutRepository, CreateAutoRestore, ServeConfigRequest, ClearConfigRequest,
       ServePVCRequest, ScheduleBackup, ScheduleForget, WriteStatus, NothingToDo,
       UpdateAndReturn, worldVars
  <2> QED BY <2>1
<1> QED BY <1>1, <1>2, <1>3, <1>4

(* Versions never go back.                                                  *)
LEMMA VersionsGrow ==
  ASSUME TypeOK, TypeOK', PVCsInv, [Next]_vars
  PROVE  /\ \A p \in PVCs : pvcs[p].rv > 0 => pvcs'[p].rv > 0
         /\ \A i \in DOMAIN made : i \in DOMAIN made' /\ made'[i] = made[i]
<1>1. CASE UNCHANGED vars
  BY <1>1 DEF vars, worldVars, taskVars
<1>2. CASE Next
  <2>1. \A p \in PVCs : Changed(pvcs[p], pvcs'[p], clock)
    BY <1>2, PVCChanges
  <2>2. \A p \in PVCs : pvcs[p].rv \in Nat /\ pvcs'[p].rv \in Nat
    BY DEF TypeOK, PVCRecord
  <2> QED BY <1>2, <2>1, <2>2, MadeStays DEF Changed
<1> QED BY <1>1, <1>2

-----------------------------------------------------------------------------
(* Types.  DataTypeOK says what a reader of the variables may rely on; the  *)
(* invariant adds what Jobs have read.                                      *)

DataSets == SUBSET (0 .. MaxWrites)
JobRecord == [pvc : PVCs \cup {NoPVC}, data : DataSets, of : PVCs \cup {NoPVC}]

VolumesOK == /\ volume \in [PVCs -> DataSets] /\ expected \in [PVCs -> DataSets]
             /\ written \in 0 .. MaxWrites

SnapshotsOK == /\ snapshots \in Seq(SnapshotRecord) /\ Len(snapshots) >= Len(Archive)
               /\ \A k \in DOMAIN snapshots : k > Len(Archive) => snapshots[k].of \in PVCs

JobsOK == /\ jobs \in [TaskIds -> JobRecord]
          /\ \A i \in TaskIds : jobs[i] = NoJob \/ jobs[i].pvc \in PVCs
          /\ \A i \in TaskIds : jobs[i].pvc \in PVCs =>
               /\ i \in DOMAIN made
               /\ ~IsRestore(i) => jobs[i].of = jobs[i].pvc

DataInv == VolumesOK /\ SnapshotsOK /\ JobsOK

LEMMA DataInvTypes == DataInv => DataTypeOK
<1> SUFFICES ASSUME DataInv PROVE DataTypeOK
  OBVIOUS
<1>1. \A k \in DOMAIN snapshots : snapshots[k] \in SnapshotRecord
  BY DEF DataInv, SnapshotsOK
<1> QED BY <1>1 DEF DataInv, VolumesOK, SnapshotsOK, JobsOK, DataTypeOK, DataSets

LEMMA NoJobType == NoJob \in JobRecord /\ \A p \in PVCs : [NoJob EXCEPT !.pvc = p] \in JobRecord
BY DEF NoJob, JobRecord, DataSets

(* The newest snapshot of a name, if there is one.                          *)
LEMMA NewestExists ==
  ASSUME snapshots \in Seq(SnapshotRecord), NEW p \in PVCs
  PROVE  /\ Newest(p) \subseteq SnapshotsOf(p) /\ SnapshotsOf(p) \subseteq DOMAIN snapshots
         /\ SnapshotsOf(p) # {} => Newest(p) # {}
         /\ \A k, l \in Newest(p) : k = l
<1>1. Len(snapshots) \in Nat /\ DOMAIN snapshots = 1 .. Len(snapshots)
  OBVIOUS
<1>2. SnapshotsOf(p) \in SUBSET (1 .. Len(snapshots))
  BY <1>1 DEF SnapshotsOf
<1>3. SnapshotsOf(p) # {} => \E k \in SnapshotsOf(p) : \A l \in SnapshotsOf(p) : l <= k
  BY <1>1, <1>2, LastExists
<1>4. \A k, l \in Newest(p) : k <= l /\ l <= k /\ k \in Nat /\ l \in Nat
  BY <1>1, <1>2 DEF Newest
<1>5. \A k, l \in Newest(p) : k = l
  BY <1>4
<1> QED BY <1>1, <1>2, <1>3, <1>5 DEF Newest

LEMMA LatestIsNewest ==
  ASSUME snapshots \in Seq(SnapshotRecord), NEW p \in PVCs, SnapshotsOf(p) # {}
  PROVE  /\ \E k \in Newest(p) : Latest(p) = snapshots[k]
         /\ Latest(p) \in SnapshotRecord
<1>1. Newest(p) # {} /\ Newest(p) \subseteq DOMAIN snapshots
  BY NewestExists
<1>2. (CHOOSE k \in Newest(p) : TRUE) \in Newest(p)
  BY <1>1
<1>3. \A k \in DOMAIN snapshots : snapshots[k] \in SnapshotRecord
  OBVIOUS
<1> QED BY <1>1, <1>2, <1>3 DEF Latest

(* A snapshot more: it is the newest of its name, and of no other.          *)
LEMMA SnapshotAdded ==
  ASSUME snapshots \in Seq(SnapshotRecord), NEW s \in SnapshotRecord, snapshots' = Append(snapshots, s),
         NEW q \in PVCs
  PROVE  /\ SnapshotsOf(q) \subseteq SnapshotsOf(q)'
         /\ s.name # NameOf[q] => SnapshotsOf(q)' = SnapshotsOf(q) /\ Newest(q)' = Newest(q)
         /\ s.name = NameOf[q] => Newest(q)' = {Len(snapshots) + 1}
         /\ \A k \in DOMAIN snapshots : snapshots'[k] = snapshots[k]
         /\ snapshots'[Len(snapshots) + 1] = s
<1> DEFINE n == Len(snapshots)
<1>1. /\ n \in Nat /\ DOMAIN snapshots = 1 .. n /\ DOMAIN snapshots' = 1 .. (n + 1)
      /\ \A k \in 1 .. n : snapshots'[k] = snapshots[k]
      /\ snapshots'[n + 1] = s
  OBVIOUS
<1>2. SnapshotsOf(q) \subseteq 1 .. n
  BY <1>1 DEF SnapshotsOf
<1>3. CASE s.name # NameOf[q]
  <2>1. SnapshotsOf(q)' = SnapshotsOf(q)
    BY <1>1, <1>3 DEF SnapshotsOf
  <2> QED BY <1>1, <1>3, <2>1 DEF Newest
<1>4. CASE s.name = NameOf[q]
  <2>1. SnapshotsOf(q)' = SnapshotsOf(q) \cup {n + 1}
    BY <1>1, <1>4 DEF SnapshotsOf
  <2>2. \A k \in SnapshotsOf(q) : k < n + 1
    BY <1>1, <1>2
  <2>3. Newest(q)' = {k \in SnapshotsOf(q) \cup {n + 1} : \A l \in SnapshotsOf(q) \cup {n + 1} : l <= k}
    BY <2>1 DEF Newest
  <2>4. \A k \in SnapshotsOf(q) : ~(n + 1 <= k)
    BY <1>1, <1>2, <2>2
  <2>5. \A l \in SnapshotsOf(q) \cup {n + 1} : l <= n + 1
    BY <1>1, <1>2, <2>2
  <2> QED BY <1>1, <1>4, <2>1, <2>3, <2>4, <2>5
<1> QED BY <1>1, <1>3, <1>4

LEMMA DataInit == RecoveryInit => DataInv
<1> SUFFICES ASSUME RecoveryInit PROVE DataInv
  OBVIOUS
<1>1. MaxWrites \in Nat /\ {0} \subseteq 0 .. MaxWrites
  BY JobsFailAssumption
<1>2. VolumesOK
  BY <1>1 DEF RecoveryInit, VolumesOK, DataSets
<1>3. SnapshotsOK
  <2>1. [name : {NameOf[p] : p \in PVCs}, data : SUBSET {0}, of : {NoPVC}] \subseteq SnapshotRecord
    BY <1>1 DEF SnapshotRecord
  <2>2. Archive \in Seq(SnapshotRecord)
    <3> DEFINE Old == [name : {NameOf[p] : p \in PVCs}, data : SUBSET {0}, of : {NoPVC}]
    <3>1. Archive \in Seq(Old) /\ Old \subseteq SnapshotRecord
      BY <2>1, ArchiveAssumption
    <3> HIDE DEF Old
    <3>2. Len(Archive) \in Nat /\ Archive \in [1 .. Len(Archive) -> SnapshotRecord]
      BY <3>1
    <3> QED BY <3>2, SeqBy
  <2>3. \A k \in DOMAIN Archive : k <= Len(Archive) /\ k \in Nat /\ Len(Archive) \in Nat
    BY <2>2
  <2> QED BY <2>2, <2>3 DEF RecoveryInit, SnapshotsOK
<1>4. JobsOK
  BY NoJobType, NoPVCAssumption DEF RecoveryInit, JobsOK, NoJob
<1> QED BY <1>2, <1>3, <1>4 DEF DataInv

LEMMA JobReadsTypes ==
  ASSUME DataInv, TypeOK, NEW i \in TaskIds, JobReads(i)
  PROVE  JobsOK'
<1>1. PICK p \in PVCs :
        jobs' = [jobs EXCEPT ![i] =
                  IF ~IsRestore(i) THEN [pvc |-> p, data |-> volume[p], of |-> p]
                  ELSE IF SnapshotsOf(p) = {} THEN [NoJob EXCEPT !.pvc = p]
                  ELSE [pvc |-> p, data |-> Latest(p).data, of |-> Latest(p).of]]
  BY DEF JobReads
<1>2. jobs \in [TaskIds -> JobRecord] /\ volume \in [PVCs -> DataSets] /\ snapshots \in Seq(SnapshotRecord)
  BY DEF DataInv, JobsOK, VolumesOK, SnapshotsOK
<1>3. UNCHANGED made /\ i \in DOMAIN made
  <2>1. phase[i] = "Running" /\ made \in Seq(TaskRecord)
    BY DEF JobReads, TypeOK
  <2>2. i \in Nat /\ 1 <= i /\ ~(i > Len(made)) /\ Len(made) \in Nat
    BY <2>1, BoundsAreNat DEF TypeOK, TaskIds
  <2> QED BY <2>1, <2>2 DEF JobReads, vars, taskVars
<1>4. /\ jobs'[i] \in JobRecord /\ jobs'[i].pvc = p
      /\ ~IsRestore(i) => jobs'[i].of = p
  <2>1. CASE ~IsRestore(i)
    BY <1>1, <1>2, <2>1 DEF JobRecord
  <2>2. CASE IsRestore(i) /\ SnapshotsOf(p) = {}
    BY <1>1, <1>2, <2>2, NoJobType DEF NoJob
  <2>3. CASE IsRestore(i) /\ SnapshotsOf(p) # {}
    <3>1. Latest(p).data \in DataSets /\ Latest(p).of \in PVCs \cup {NoPVC}
      BY <1>2, <2>3, LatestIsNewest DEF SnapshotRecord, DataSets
    <3> QED BY <1>1, <1>2, <2>3, <3>1 DEF JobRecord
  <2> QED BY <2>1, <2>2, <2>3
<1>5. \A j \in TaskIds : j # i => jobs'[j] = jobs[j]
  BY <1>1, <1>2
<1>6. jobs' \in [TaskIds -> JobRecord]
  BY <1>1, <1>2, <1>4
<1>7. \A j \in TaskIds : IsRestore(j)' = IsRestore(j)
  BY <1>3 DEF IsRestore
<1> QED BY <1>3, <1>4, <1>5, <1>6, <1>7 DEF DataInv, JobsOK

(* What the end of a Job comes to.                                          *)
LEMMA JobDoneTypes ==
  ASSUME DataInv, TypeOK, NEW i \in TaskIds, JobDone(i)
  PROVE  /\ VolumesOK' /\ SnapshotsOK'
         /\ jobs[i].pvc \in PVCs /\ i \in DOMAIN made
         /\ UNCHANGED <<jobs, expected, written>>
         /\ IsRestore(i) => /\ UNCHANGED snapshots
                            /\ volume' = [volume EXCEPT ![jobs[i].pvc] = @ \cup jobs[i].data]
         /\ ~IsRestore(i) =>
              /\ UNCHANGED volume
              /\ \E s \in SnapshotRecord : /\ snapshots' = Append(snapshots, s)
                                           /\ s.name = NameOf[made[i].pvc] /\ s.of = jobs[i].pvc
<1>1. /\ jobs[i].pvc \in PVCs /\ i \in DOMAIN made /\ jobs[i] \in JobRecord
      /\ ~IsRestore(i) => jobs[i].of = jobs[i].pvc
  BY DEF JobDone, DataInv, JobsOK, NoJob
<1>2. JobTakesEffect(i)
  BY DEF JobDone
<1>3. VolumesOK /\ SnapshotsOK
  BY DEF DataInv
<1>4. CASE IsRestore(i)
  <2>1. /\ UNCHANGED <<jobs, expected, written, snapshots>>
        /\ volume' = [volume EXCEPT ![jobs[i].pvc] = @ \cup jobs[i].data]
    BY <1>2, <1>4 DEF JobTakesEffect
  <2>2. volume[jobs[i].pvc] \cup jobs[i].data \in DataSets
    BY <1>1, <1>3 DEF VolumesOK, JobRecord, DataSets
  <2>3. VolumesOK'
    BY <1>1, <1>3, <2>1, <2>2 DEF VolumesOK
  <2> QED BY <1>1, <1>3, <1>4, <2>1, <2>3 DEF SnapshotsOK
<1>5. CASE ~IsRestore(i)
  <2> DEFINE s == [name |-> NameOf[made[i].pvc], data |-> jobs[i].data, of |-> jobs[i].of]
  <2>1. UNCHANGED <<jobs, expected, written, volume>> /\ snapshots' = Append(snapshots, s)
    BY <1>2, <1>5 DEF JobTakesEffect
  <2>2. made[i].pvc \in PVCs
    <3>1. made \in Seq(TaskRecord)
      BY DEF TypeOK
    <3>2. made[i] \in TaskRecord
      BY <1>1, <3>1
    <3> QED BY <3>2 DEF TaskRecord
  <2>3. s \in SnapshotRecord /\ s.of \in PVCs /\ s.of = jobs[i].pvc /\ s.name = NameOf[made[i].pvc]
    BY <1>1, <1>5, <2>2 DEF SnapshotRecord, JobRecord, DataSets
  <2> HIDE DEF s
  <2>4. /\ snapshots \in Seq(SnapshotRecord) /\ Len(snapshots) \in Nat /\ Len(snapshots) >= Len(Archive)
        /\ Len(Archive) \in Nat
    BY <1>3, ArchiveAssumption DEF SnapshotsOK
  <2>5. SnapshotsOK'
    <3>1. snapshots' \in Seq(SnapshotRecord) /\ Len(snapshots') = Len(snapshots) + 1
      BY <2>1, <2>3, <2>4
    <3>2. ASSUME NEW k \in DOMAIN snapshots', k > Len(Archive) PROVE snapshots'[k].of \in PVCs
      <4>1. CASE k = Len(snapshots) + 1
        BY <2>1, <2>3, <2>4, <4>1
      <4>2. CASE k # Len(snapshots) + 1
        <5>1. k \in DOMAIN snapshots /\ snapshots'[k] = snapshots[k]
          BY <2>1, <2>4, <3>1, <4>2
        <5> QED BY <1>3, <3>2, <5>1 DEF SnapshotsOK
      <4> QED BY <4>1, <4>2
    <3> QED BY <2>4, <3>1, <3>2 DEF SnapshotsOK
  <2> QED BY <1>1, <1>3, <1>5, <2>1, <2>3, <2>5 DEF VolumesOK
<1> QED BY <1>4, <1>5

(* A Task that ends its Job was at it.                                      *)
LEMMA TaskMoves ==
  ASSUME TypeOK, NEW i \in TaskIds, TaskStep(i)
  PROVE  /\ \A j \in TaskIds : j # i => phase'[j] = phase[j]
         /\ \E m \in Progress : phase[i] = m[1] /\ phase'[i] = m[2]
         /\ UNCHANGED <<made, pvcs>>
BY DEF TaskStep, TypeOK, worldVars

LEMMA DataNext == TypeOK /\ TypeOK' /\ PVCsInv /\ DataInv /\ [RecoveryNext]_recoveryVars => DataInv'
<1> SUFFICES ASSUME TypeOK, TypeOK', PVCsInv, DataInv, [RecoveryNext]_recoveryVars PROVE DataInv'
  OBVIOUS
<1>1. VolumesOK /\ SnapshotsOK /\ JobsOK
  BY DEF DataInv
<1>2. \A i \in DOMAIN made : i \in DOMAIN made' /\ made'[i] = made[i]
  BY RecoverySteps, VersionsGrow
<1>3. ASSUME UNCHANGED jobs PROVE JobsOK'
  BY <1>1, <1>2, <1>3 DEF JobsOK, IsRestore
<1>4. ASSUME UNCHANGED dataVars PROVE DataInv'
  BY <1>1, <1>3, <1>4 DEF DataInv, VolumesOK, SnapshotsOK, dataVars
<1>5. ASSUME NEW p \in PVCs, ApplyPVC(p) PROVE DataInv'
  <2>1. /\ UNCHANGED <<volume, snapshots, jobs, written>>
        /\ expected' = [expected EXCEPT ![p] = UNION {snapshots[k].data : k \in Newest(p)}]
    BY <1>5 DEF ApplyPVC
  <2>2. \A k \in Newest(p) : snapshots[k].data \in DataSets
    <3>1. \A k \in DOMAIN snapshots : snapshots[k] \in SnapshotRecord
      BY <1>1 DEF SnapshotsOK
    <3>2. Newest(p) \subseteq DOMAIN snapshots
      BY <1>1, NewestExists DEF SnapshotsOK
    <3> QED BY <3>1, <3>2 DEF SnapshotRecord, DataSets
  <2>3. UNION {snapshots[k].data : k \in Newest(p)} \in DataSets
    BY <2>2 DEF DataSets
  <2>4. VolumesOK'
    BY <1>1, <2>1, <2>3 DEF VolumesOK
  <2> QED BY <1>1, <1>3, <2>1, <2>4 DEF DataInv, SnapshotsOK
<1>6. ASSUME NEW p \in PVCs, Write(p) PROVE DataInv'
  <2>1. /\ UNCHANGED <<snapshots, jobs, expected>> /\ written' = written + 1 /\ written < MaxWrites
        /\ volume' = [volume EXCEPT ![p] = @ \cup {written'}]
    BY <1>6 DEF Write
  <2>2. written' \in 0 .. MaxWrites
    BY <1>1, <2>1, JobsFailAssumption DEF VolumesOK
  <2>3. VolumesOK'
    BY <1>1, <2>1, <2>2 DEF VolumesOK, DataSets
  <2> QED BY <1>1, <1>3, <2>1, <2>3 DEF DataInv, SnapshotsOK
<1>7. ASSUME NEW i \in TaskIds, JobReads(i) PROVE DataInv'
  <2>1. UNCHANGED <<volume, snapshots, expected, written>>
    BY <1>7 DEF JobReads
  <2> QED BY <1>1, <1>7, <2>1, JobReadsTypes DEF DataInv, VolumesOK, SnapshotsOK
<1>8. ASSUME NEW i \in TaskIds, TaskAndJob(i) PROVE DataInv'
  <2>1. JobDone(i) \/ UNCHANGED dataVars
    BY <1>8 DEF TaskAndJob, JobFailed
  <2>2. CASE JobDone(i)
    BY <1>3, <2>2, JobDoneTypes DEF DataInv
  <2> QED BY <1>4, <2>1, <2>2
<1> QED BY Zenon, <1>4, <1>5, <1>6, <1>7, <1>8 DEF RecoveryNext, OperatorStep, recoveryVars

(* The types of the data, for any number of PVCs, Tasks and snapshots.      *)
THEOREM DataTypes == RecoverySpec => []DataTypeOK
<1>1. RecoveryInit => DataInv
  BY DataInit
<1>2. TypeOK /\ TypeOK' /\ PVCsInv /\ DataInv /\ [RecoveryNext]_recoveryVars => DataInv'
  BY DataNext
<1>3. DataInv => DataTypeOK
  BY DataInvTypes
<1> QED BY <1>1, <1>2, <1>3, RecoveryAgrees, PTL DEF RecoverySpec

-----------------------------------------------------------------------------
(* The data. *)

Working(i) == jobs[i].pvc \in PVCs
BeforeJob == {"Absent", "Unset", "ScalingDown", "Starting"}

(* Of PVCs of one name one exists.                                          *)
NamesAreUnique ==
  \A p, q \in PVCs : pvcs[p].exists /\ pvcs[q].exists /\ NameOf[p] = NameOf[q] => p = q

(* The newest snapshot of a PVC holds what was backed up when it was        *)
(* created, or is a backup of the PVC itself.                               *)
NewestHolds ==
  \A q \in PVCs :
    /\ SnapshotsOf(q) = {} => expected[q] = {}
    /\ pvcs[q].exists =>
         \A k \in Newest(q) : snapshots[k].of = q \/ expected[q] \subseteq snapshots[k].data

(* A Job that is at work keeps its PVC from being replaced by another.      *)
VolumesInUse ==
  \A i \in TaskIds : phase[i] = "Running" /\ Working(i) =>
    \A q \in PVCs : pvcs[q].exists /\ NameOf[jobs[i].pvc] = NameOf[q] => jobs[i].pvc = q

(* What a restore has read was the newest snapshot, and what has been       *)
(* written over a volume stays there.                                       *)
JobOK(i) ==
  /\ phase[i] \in BeforeJob => ~Working(i)
  /\ Working(i) =>
       /\ pvcs[jobs[i].pvc].rv > 0
       /\ NameOf[jobs[i].pvc] = NameOf[made[i].pvc]
       /\ IsRestore(i) =>
            /\ jobs[i].of # jobs[i].pvc => expected[jobs[i].pvc] \subseteq jobs[i].data
            /\ phase[i] \in {"ScalingUp", "Completed"} => jobs[i].data \subseteq volume[jobs[i].pvc]

RecoveryInv == NamesAreUnique /\ NewestHolds /\ VolumesInUse /\ \A i \in TaskIds : JobOK(i)

LEMMA DataIsBackFromInv == DataInv /\ TypeOK /\ RecoveryInv => DataIsBackUnlessOvertaken
<1> SUFFICES ASSUME DataInv, TypeOK, RecoveryInv,
                    NEW i \in DOMAIN made, Restored(i), jobs[i].of # jobs[i].pvc
             PROVE  expected[jobs[i].pvc] \subseteq volume[jobs[i].pvc]
  BY DEF DataIsBackUnlessOvertaken
<1>1. i \in TaskIds
  <2>1. made \in Seq(TaskRecord) /\ Len(made) <= MaxTasks /\ Len(made) \in Nat /\ MaxTasks \in Nat
    BY BoundsAreNat DEF TypeOK
  <2> QED BY <2>1 DEF TaskIds
<1>2. IsRestore(i) /\ phase[i] \in {"ScalingUp", "Completed"} /\ jobs[i].pvc # NoPVC
  BY DEF Restored, IsRestore, Restores
<1>3. Working(i)
  BY <1>1, <1>2 DEF DataInv, JobsOK, NoJob, Working
<1>4. JobOK(i)
  BY <1>1 DEF RecoveryInv
<1> QED BY <1>2, <1>3, <1>4 DEF JobOK

LEMMA RecoveryInvInit == RecoveryInit => RecoveryInv
<1> SUFFICES ASSUME RecoveryInit PROVE RecoveryInv
  OBVIOUS
<1>1. \A p \in PVCs : ~pvcs[p].exists /\ expected[p] = {}
  BY DEF RecoveryInit, Init, NoPVCs, NewPVC
<1>2. \A i \in TaskIds : ~Working(i)
  BY NoPVCAssumption DEF RecoveryInit, NoJob, Working
<1>3. NamesAreUnique
  BY <1>1 DEF NamesAreUnique
<1>4. NewestHolds
  BY <1>1 DEF NewestHolds
<1>5. VolumesInUse
  BY <1>1 DEF VolumesInUse
<1>6. \A i \in TaskIds : JobOK(i)
  BY <1>2 DEF JobOK
<1> QED BY <1>3, <1>4, <1>5, <1>6 DEF RecoveryInv

(* A Job whose PVC, record and Task are as they were.                       *)
LEMMA JobKept ==
  ASSUME TypeOK, TypeOK', PVCsInv, [RecoveryNext]_recoveryVars, DataInv,
         NEW i \in TaskIds, JobOK(i), jobs'[i] = jobs[i],
         phase'[i] \in BeforeJob => phase[i] \in BeforeJob,
         Working(i) => /\ expected'[jobs[i].pvc] = expected[jobs[i].pvc]
                       /\ volume[jobs[i].pvc] \subseteq volume'[jobs[i].pvc],
         Working(i) /\ IsRestore(i) /\ phase'[i] \in {"ScalingUp", "Completed"} =>
           phase'[i] = phase[i] \/ phase[i] = "ScalingUp" \/ jobs[i].data \subseteq volume'[jobs[i].pvc]
  PROVE  JobOK(i)'
<1>1. Working(i)' = Working(i)
  BY DEF Working
<1>2. CASE ~Working(i)
  BY <1>1, <1>2 DEF JobOK
<1>3. CASE Working(i)
  <2>1. i \in DOMAIN made
    BY <1>3 DEF DataInv, JobsOK, Working
  <2>2. made'[i] = made[i] /\ (pvcs[jobs[i].pvc].rv > 0 => pvcs'[jobs[i].pvc].rv > 0)
    BY <1>3, <2>1, RecoverySteps, VersionsGrow DEF Working
  <2>3. IsRestore(i)' = IsRestore(i)
    BY <2>2 DEF IsRestore
  <2>4. phase[i] \notin BeforeJob /\ phase'[i] \notin BeforeJob
    BY <1>3 DEF JobOK
  <2>5. pvcs'[jobs'[i].pvc].rv > 0 /\ NameOf[jobs'[i].pvc] = NameOf[made'[i].pvc]
    BY <1>3, <2>2 DEF JobOK
  <2>6. IsRestore(i) =>
          /\ jobs[i].of # jobs[i].pvc => expected'[jobs[i].pvc] \subseteq jobs[i].data
          /\ phase'[i] \in {"ScalingUp", "Completed"} => jobs[i].data \subseteq volume'[jobs[i].pvc]
    BY <1>3 DEF JobOK
  <2> QED BY <1>1, <2>3, <2>4, <2>5, <2>6 DEF JobOK
<1> QED BY <1>2, <1>3

(* The steps that leave data alone.                                         *)
LEMMA RecoveryQuiet ==
  ASSUME TypeOK, TypeOK', PVCsInv, DataInv, RecoveryInv, [RecoveryNext]_recoveryVars,
         Quiet, UNCHANGED dataVars
  PROVE  RecoveryInv'
<1>1. /\ \A p \in PVCs : pvcs'[p].exists => pvcs[p].exists
      /\ \A i \in TaskIds : phase'[i] = phase[i] \/ (phase[i] = "Absent" /\ phase'[i] = "Unset")
      /\ UNCHANGED <<volume, snapshots, jobs, expected>>
  BY QuietPVCs, QuietPhases DEF dataVars
<1>2. NamesAreUnique'
  BY <1>1 DEF RecoveryInv, NamesAreUnique
<1>3. NewestHolds'
  BY <1>1 DEF RecoveryInv, NewestHolds, Newest, SnapshotsOf
<1>4. VolumesInUse'
  BY <1>1 DEF RecoveryInv, VolumesInUse, Working
<1>5. ASSUME NEW i \in TaskIds PROVE JobOK(i)'
  <2>1. JobOK(i) /\ (phase'[i] \in BeforeJob => phase[i] \in BeforeJob)
    BY <1>1 DEF RecoveryInv, BeforeJob
  <2>2. phase'[i] \in {"ScalingUp", "Completed"} => phase'[i] = phase[i]
    BY <1>1
  <2> QED BY <1>1, <2>1, <2>2, JobKept
<1> QED BY <1>2, <1>3, <1>4, <1>5 DEF RecoveryInv

(* A PVC is applied: nobody works on one of its name, and what the newest   *)
(* snapshot holds is what is expected of it.                                *)
LEMMA RecoveryApply ==
  ASSUME TypeOK, TypeOK', PVCsInv, DataInv, RecoveryInv, [RecoveryNext]_recoveryVars,
         NEW p \in PVCs, ApplyPVC(p)
  PROVE  RecoveryInv'
<1>1. /\ \A q \in PVCs : NameOf[q] = NameOf[p] =>
           ~pvcs[q].exists /\ \A i \in TaskIds : ~(phase[i] = "Running" /\ jobs[i].pvc = q)
      /\ UNCHANGED <<volume, snapshots, jobs, phase>>
      /\ expected' = [expected EXCEPT ![p] = UNION {snapshots[k].data : k \in Newest(p)}]
      /\ pvcs[p].rv = 0
      /\ \A q \in PVCs : q # p => pvcs'[q] = pvcs[q]
  BY DEF ApplyPVC, CreatePVC, TypeOK, taskVars
<1>2. expected \in [PVCs -> DataSets] /\ snapshots \in Seq(SnapshotRecord)
  BY DEF DataInv, VolumesOK, SnapshotsOK
<1>3. NamesAreUnique'
  BY <1>1 DEF RecoveryInv, NamesAreUnique
<1>4. NewestHolds'
  <2>1. ASSUME NEW q \in PVCs
        PROVE  /\ SnapshotsOf(q) = {} => expected'[q] = {}
               /\ pvcs'[q].exists =>
                    \A k \in Newest(q) : snapshots[k].of = q \/ expected'[q] \subseteq snapshots[k].data
    <3>1. CASE q # p
      BY <1>1, <1>2, <3>1 DEF RecoveryInv, NewestHolds
    <3>2. CASE q = p
      <4>1. expected'[q] = UNION {snapshots[k].data : k \in Newest(q)}
        BY <1>1, <1>2, <3>2
      <4>2. Newest(q) \subseteq SnapshotsOf(q) /\ \A k, l \in Newest(q) : k = l
        BY <1>2, NewestExists
      <4> QED BY <4>1, <4>2
    <3> QED BY <3>1, <3>2
  <2>2. \A q \in PVCs : SnapshotsOf(q)' = SnapshotsOf(q) /\ Newest(q)' = Newest(q)
    BY <1>1 DEF SnapshotsOf, Newest
  <2> QED BY <1>1, <2>1, <2>2 DEF NewestHolds
<1>5. VolumesInUse'
  BY <1>1 DEF RecoveryInv, VolumesInUse, Working
<1>6. ASSUME NEW i \in TaskIds PROVE JobOK(i)'
  <2>1. JobOK(i)
    BY DEF RecoveryInv
  <2>2. Working(i) => expected'[jobs[i].pvc] = expected[jobs[i].pvc]
    <3>1. Working(i) => pvcs[jobs[i].pvc].rv > 0 /\ jobs[i].pvc \in PVCs
      BY <2>1 DEF JobOK, Working
    <3> QED BY <1>1, <1>2, <3>1
  <2> QED BY <1>1, <2>1, <2>2, JobKept
<1> QED BY <1>3, <1>4, <1>5, <1>6 DEF RecoveryInv

(* An application writes.                                                   *)
LEMMA RecoveryWrite ==
  ASSUME TypeOK, TypeOK', PVCsInv, DataInv, RecoveryInv, [RecoveryNext]_recoveryVars,
         NEW p \in PVCs, Write(p)
  PROVE  RecoveryInv'
<1>1. /\ UNCHANGED <<snapshots, jobs, expected, phase, pvcs>>
      /\ volume' = [volume EXCEPT ![p] = @ \cup {written'}]
  BY DEF Write, vars, taskVars, worldVars
<1>2. \A q \in PVCs : volume[q] \subseteq volume'[q]
  BY <1>1 DEF DataInv, VolumesOK
<1>3. NamesAreUnique' /\ VolumesInUse'
  BY <1>1 DEF RecoveryInv, NamesAreUnique, VolumesInUse, Working
<1>4. NewestHolds'
  BY <1>1 DEF RecoveryInv, NewestHolds, Newest, SnapshotsOf
<1>5. ASSUME NEW i \in TaskIds PROVE JobOK(i)'
  <2>1. JobOK(i) /\ (Working(i) => volume[jobs[i].pvc] \subseteq volume'[jobs[i].pvc])
    BY <1>2 DEF RecoveryInv, Working
  <2> QED BY <1>1, <2>1, JobKept
<1> QED BY <1>3, <1>4, <1>5 DEF RecoveryInv

(* A Job begins: its PVC is the one of its name, and what it reads is the   *)
(* newest snapshot, which NewestHolds is about.                             *)
LEMMA RecoveryReads ==
  ASSUME TypeOK, TypeOK', PVCsInv, DataInv, RecoveryInv, [RecoveryNext]_recoveryVars,
         NEW i \in TaskIds, JobReads(i)
  PROVE  RecoveryInv'
<1>1. PICK p \in PVCs :
        /\ pvcs[p].exists /\ NameOf[p] = NameOf[made[i].pvc]
        /\ jobs' = [jobs EXCEPT ![i] =
             IF ~IsRestore(i) THEN [pvc |-> p, data |-> volume[p], of |-> p]
             ELSE IF SnapshotsOf(p) = {} THEN [NoJob EXCEPT !.pvc = p]
             ELSE [pvc |-> p, data |-> Latest(p).data, of |-> Latest(p).of]]
  BY DEF JobReads
<1>2. phase[i] = "Running" /\ UNCHANGED <<pvcs, made, phase, volume, snapshots, expected>>
  BY DEF JobReads, vars, worldVars, taskVars
<1>3. jobs \in [TaskIds -> JobRecord] /\ snapshots \in Seq(SnapshotRecord) /\ IsRestore(i)' = IsRestore(i)
  BY <1>2 DEF DataInv, JobsOK, SnapshotsOK, IsRestore
<1>4. \A j \in TaskIds : j # i => jobs'[j] = jobs[j]
  BY <1>1, <1>3
<1>5. /\ jobs'[i].pvc = p
      /\ IsRestore(i) /\ jobs'[i].of # p => expected[p] \subseteq jobs'[i].data
  <2>1. CASE ~IsRestore(i)
    BY <1>1, <1>3, <2>1
  <2>2. CASE IsRestore(i) /\ SnapshotsOf(p) = {}
    <3>1. expected[p] = {}
      BY <2>2 DEF RecoveryInv, NewestHolds
    <3> QED BY <1>1, <1>3, <2>2, <3>1 DEF NoJob
  <2>3. CASE IsRestore(i) /\ SnapshotsOf(p) # {}
    <3>1. PICK k \in Newest(p) : Latest(p) = snapshots[k]
      BY <1>3, <2>3, LatestIsNewest
    <3>2. snapshots[k].of = p \/ expected[p] \subseteq snapshots[k].data
      BY <1>1 DEF RecoveryInv, NewestHolds
    <3> QED BY <1>1, <1>3, <2>3, <3>1, <3>2
  <2> QED BY <2>1, <2>2, <2>3
<1>6. NamesAreUnique'
  BY <1>2 DEF RecoveryInv, NamesAreUnique
<1>7. NewestHolds'
  BY <1>2 DEF RecoveryInv, NewestHolds, Newest, SnapshotsOf
<1>8. VolumesInUse'
  BY <1>1, <1>2, <1>4, <1>5 DEF RecoveryInv, VolumesInUse, NamesAreUnique, Working
<1>9. ASSUME NEW j \in TaskIds PROVE JobOK(j)'
  <2>1. CASE j # i
    BY <1>2, <1>4, <2>1, JobKept DEF RecoveryInv
  <2>2. CASE j = i
    <3>1. pvcs[p].rv > 0
      <4>1. pvcs[p].rv \in Nat /\ (pvcs[p].rv = 0 => pvcs[p] = NewPVC)
        BY DEF TypeOK, PVCRecord, PVCsInv, StoredOK
      <4> QED BY <1>1, <4>1 DEF NewPVC
    <3> QED BY <1>1, <1>2, <1>3, <1>5, <2>2, <3>1 DEF JobOK, BeforeJob, Working
  <2> QED BY <2>1, <2>2
<1> QED BY <1>6, <1>7, <1>8, <1>9 DEF RecoveryInv

(* A Job ends.  A restore is written over the volume; a backup is of the    *)
(* only PVC of its name, as VolumesInUse says.                              *)
LEMMA RecoveryEnds ==
  ASSUME TypeOK, TypeOK', PVCsInv, DataInv, RecoveryInv, [RecoveryNext]_recoveryVars,
         NEW i \in TaskIds, TaskAndJob(i)
  PROVE  RecoveryInv'
<1>1. /\ UNCHANGED <<made, pvcs>>
      /\ \A j \in TaskIds : j # i => phase'[j] = phase[j]
      /\ \E m \in Progress : phase[i] = m[1] /\ phase'[i] = m[2]
  BY TaskMoves DEF TaskAndJob
<1>2. /\ phase'[i] \in BeforeJob => phase[i] \in BeforeJob
      /\ phase'[i] = "Running" => phase[i] \in BeforeJob
      /\ phase'[i] = "Completed" => phase[i] = "ScalingUp"
      /\ phase'[i] = "ScalingUp" => phase[i] = "Running"
  BY <1>1 DEF Progress, BeforeJob
<1>3. NamesAreUnique'
  BY <1>1 DEF RecoveryInv, NamesAreUnique
<1>4. \A j \in TaskIds : JobOK(j) /\ (phase'[j] \in BeforeJob => phase[j] \in BeforeJob)
  BY <1>1, <1>2 DEF RecoveryInv
<1>5. ASSUME UNCHANGED jobs PROVE VolumesInUse'
  <2>1. ASSUME NEW j \in TaskIds, phase'[j] = "Running", Working(j) PROVE phase[j] = "Running"
    <3>1. phase[j] \notin BeforeJob
      BY <1>4, <2>1 DEF JobOK
    <3> QED BY <1>1, <1>2, <2>1, <3>1
  <2> QED BY <1>1, <1>5, <2>1 DEF RecoveryInv, VolumesInUse, Working
<1>6. CASE phase'[i] = "ScalingUp"
  <2>1. JobDone(i) /\ phase[i] = "Running"
    BY <1>2, <1>6 DEF TaskAndJob
  <2>2. UNCHANGED <<jobs, expected>> /\ jobs[i].pvc \in PVCs
    BY <2>1, JobDoneTypes
  <2>3. CASE IsRestore(i)
    <3>1. UNCHANGED snapshots /\ volume' = [volume EXCEPT ![jobs[i].pvc] = @ \cup jobs[i].data]
      BY <2>1, <2>3, JobDoneTypes
    <3>2. /\ \A q \in PVCs : volume[q] \subseteq volume'[q]
          /\ jobs[i].data \subseteq volume'[jobs[i].pvc]
      BY <2>2, <3>1 DEF DataInv, VolumesOK
    <3>3. NewestHolds'
      BY <1>1, <2>2, <3>1 DEF RecoveryInv, NewestHolds, Newest, SnapshotsOf
    <3>4. ASSUME NEW j \in TaskIds PROVE JobOK(j)'
      <4>1. Working(j) => volume[jobs[j].pvc] \subseteq volume'[jobs[j].pvc]
        BY <3>2 DEF Working
      <4> QED BY <1>1, <1>4, <2>2, <3>2, <4>1, JobKept
    <3> QED BY <1>3, <1>5, <2>2, <3>3, <3>4 DEF RecoveryInv
  <2>4. CASE ~IsRestore(i)
    <3>1. PICK s \in SnapshotRecord : /\ snapshots' = Append(snapshots, s)
                                      /\ s.name = NameOf[made[i].pvc] /\ s.of = jobs[i].pvc
      BY <2>1, <2>4, JobDoneTypes
    <3>2. UNCHANGED volume
      BY <2>1, <2>4, JobDoneTypes
    <3>3. ASSUME NEW q \in PVCs
          PROVE  /\ SnapshotsOf(q)' = {} => expected'[q] = {}
                 /\ pvcs'[q].exists =>
                      \A k \in Newest(q)' : snapshots'[k].of = q \/ expected'[q] \subseteq snapshots'[k].data
      <4>0. snapshots \in Seq(SnapshotRecord)
        BY DEF DataInv, SnapshotsOK
      <4>1. SnapshotsOf(q) \subseteq SnapshotsOf(q)'
        BY <3>1, <4>0, SnapshotAdded
      <4>2. SnapshotsOf(q) = {} => expected[q] = {}
        BY DEF RecoveryInv, NewestHolds
      <4>3. CASE s.name # NameOf[q]
        <5>1. /\ Newest(q)' = Newest(q) /\ Newest(q) \subseteq DOMAIN snapshots
              /\ \A k \in DOMAIN snapshots : snapshots'[k] = snapshots[k]
          BY <3>1, <4>0, <4>3, SnapshotAdded, NewestExists
        <5> QED BY <1>1, <2>2, <4>1, <4>2, <5>1 DEF RecoveryInv, NewestHolds
      <4>4. CASE s.name = NameOf[q] /\ pvcs[q].exists
        <5>1. NameOf[jobs[i].pvc] = NameOf[made[i].pvc]
          BY <1>4, <2>2 DEF JobOK, Working
        <5>2. jobs[i].pvc = q
          BY <2>1, <2>2, <3>1, <4>4, <5>1 DEF RecoveryInv, VolumesInUse, Working
        <5>3. \A k \in Newest(q)' : snapshots'[k] = s
          BY <3>1, <4>0, <4>4, SnapshotAdded
        <5> QED BY <2>2, <3>1, <4>1, <4>2, <5>2, <5>3
      <4>5. CASE ~pvcs[q].exists
        BY <1>1, <2>2, <4>1, <4>2, <4>5
      <4> QED BY <4>3, <4>4, <4>5
    <3>4. NewestHolds'
      BY <3>3 DEF NewestHolds
    <3>5. ASSUME NEW j \in TaskIds PROVE JobOK(j)'
      <4>1. Working(j) /\ IsRestore(j) => j # i
        BY <2>4
      <4> QED BY <1>1, <1>4, <2>2, <3>2, <4>1, JobKept
    <3> QED BY <1>3, <1>5, <2>2, <3>4, <3>5 DEF RecoveryInv
  <2> QED BY <2>3, <2>4
<1>7. CASE phase'[i] # "ScalingUp"
  <2>1. UNCHANGED <<volume, snapshots, jobs, expected>>
    BY <1>7 DEF TaskAndJob, JobFailed, dataVars
  <2>2. NewestHolds'
    BY <1>1, <2>1 DEF RecoveryInv, NewestHolds, Newest, SnapshotsOf
  <2>3. ASSUME NEW j \in TaskIds PROVE JobOK(j)'
    BY <1>1, <1>2, <1>4, <1>7, <2>1, JobKept
  <2> QED BY <1>3, <1>5, <2>1, <2>2, <2>3 DEF RecoveryInv
<1> QED BY <1>6, <1>7

LEMMA RecoveryInvNext ==
  TypeOK /\ TypeOK' /\ PVCsInv /\ DataInv /\ RecoveryInv /\ [RecoveryNext]_recoveryVars => RecoveryInv'
<1> SUFFICES ASSUME TypeOK, TypeOK', PVCsInv, DataInv, RecoveryInv, [RecoveryNext]_recoveryVars
             PROVE  RecoveryInv'
  OBVIOUS
<1>1. CASE UNCHANGED recoveryVars
  <2>1. UNCHANGED <<pvcs, made, phase, volume, snapshots, jobs, expected>>
    BY <1>1 DEF recoveryVars, vars, worldVars, taskVars, dataVars
  <2>2. NamesAreUnique' /\ VolumesInUse'
    BY <2>1 DEF RecoveryInv, NamesAreUnique, VolumesInUse, Working
  <2>3. NewestHolds'
    BY <2>1 DEF RecoveryInv, NewestHolds, Newest, SnapshotsOf
  <2>4. \A i \in TaskIds : JobOK(i)'
    BY <2>1 DEF RecoveryInv, JobOK, Working, IsRestore
  <2> QED BY <2>2, <2>3, <2>4 DEF RecoveryInv
<1>2. CASE Quiet /\ UNCHANGED dataVars
  BY <1>2, RecoveryQuiet
<1>3. CASE RecoveryNext /\ ~(Quiet /\ UNCHANGED dataVars)
  BY Zenon, <1>3, RecoveryApply, RecoveryWrite, RecoveryReads, RecoveryEnds
     DEF RecoveryNext, OperatorStep, Quiet
<1> QED BY <1>1, <1>2, <1>3

(* The inductive invariant: of each name one PVC, whose newest snapshot     *)
(* holds its data unless it is its own, and Jobs that have read that.       *)
THEOREM RecoveryHolds == RecoverySpec => []RecoveryInv
<1>1. RecoveryInit => DataInv /\ RecoveryInv
  BY DataInit, RecoveryInvInit
<1>2. TypeOK /\ TypeOK' /\ PVCsInv /\ DataInv /\ RecoveryInv /\ [RecoveryNext]_recoveryVars
        => DataInv' /\ RecoveryInv'
  BY DataNext, RecoveryInvNext
<1> QED BY <1>1, <1>2, RecoveryAgrees, PTL DEF RecoverySpec

(* "PVCs will be automagically restored from backups", but for the one      *)
(* case that a backup of the new volume has become the latest snapshot.     *)
THEOREM DataComesBack == RecoverySpec => []DataIsBackUnlessOvertaken
<1>1. RecoveryInit => DataInv
  BY DataInit
<1>2. TypeOK /\ TypeOK' /\ PVCsInv /\ DataInv /\ [RecoveryNext]_recoveryVars => DataInv'
  BY DataNext
<1>3. DataInv /\ TypeOK /\ RecoveryInv => DataIsBackUnlessOvertaken
  BY DataIsBackFromInv
<1> QED BY <1>1, <1>2, <1>3, RecoveryAgrees, RecoveryHolds, PTL DEF RecoverySpec

-----------------------------------------------------------------------------
(* The exception is about backups, and nothing else: as long as no Task is  *)
(* a backup all snapshots are old ones.                                     *)
OnlyRestores == \A i \in DOMAIN made : IsRestore(i)

OldSnapshots ==
  /\ \A k \in DOMAIN snapshots : snapshots[k].of = NoPVC
  /\ \A i \in TaskIds : jobs[i].of = NoPVC

LEMMA OldSnapshotsNext ==
  TypeOK /\ TypeOK' /\ PVCsInv /\ DataInv /\ (OnlyRestores => OldSnapshots) /\ [RecoveryNext]_recoveryVars
    => (OnlyRestores => OldSnapshots)'
<1> SUFFICES ASSUME TypeOK, TypeOK', PVCsInv, DataInv, OnlyRestores => OldSnapshots,
                    [RecoveryNext]_recoveryVars, OnlyRestores'
             PROVE  OldSnapshots'
  OBVIOUS
<1>1. OnlyRestores /\ OldSnapshots
  <2>1. \A i \in DOMAIN made : i \in DOMAIN made' /\ made'[i] = made[i]
    BY RecoverySteps, VersionsGrow
  <2> QED BY <2>1 DEF OnlyRestores, IsRestore
<1>2. CASE UNCHANGED <<snapshots, jobs>>
  BY <1>1, <1>2 DEF OldSnapshots
<1>3. ASSUME NEW i \in TaskIds, JobReads(i) PROVE OldSnapshots'
  <2>1. i \in DOMAIN made
    <3>1. JobsOK' /\ UNCHANGED made
      BY <1>3, JobReadsTypes DEF JobReads, vars, taskVars
    <3>2. jobs'[i].pvc \in PVCs
      BY <1>3 DEF JobReads, DataInv, JobsOK, NoJob
    <3> QED BY <3>1, <3>2 DEF JobsOK
  <2>2. PICK p \in PVCs :
          jobs' = [jobs EXCEPT ![i] = IF SnapshotsOf(p) = {} THEN [NoJob EXCEPT !.pvc = p]
                                      ELSE [pvc |-> p, data |-> Latest(p).data, of |-> Latest(p).of]]
    BY <1>1, <1>3, <2>1 DEF JobReads, OnlyRestores
  <2>3. SnapshotsOf(p) # {} => Latest(p).of = NoPVC
    <3>1. snapshots \in Seq(SnapshotRecord) /\ Newest(p) \subseteq DOMAIN snapshots
      BY NewestExists DEF DataInv, SnapshotsOK
    <3> QED BY <1>1, <3>1, LatestIsNewest DEF OldSnapshots
  <2>4. \A j \in TaskIds : jobs'[j].of = NoPVC
    BY <1>1, <2>2, <2>3 DEF OldSnapshots, NoJob, DataInv, JobsOK
  <2> QED BY <1>1, <1>3, <2>4 DEF JobReads, OldSnapshots
<1>4. ASSUME NEW i \in TaskIds, TaskAndJob(i) PROVE UNCHANGED <<snapshots, jobs>>
  <2>1. JobDone(i) \/ UNCHANGED dataVars
    BY <1>4 DEF TaskAndJob, JobFailed
  <2>2. CASE JobDone(i)
    BY <1>1, <2>2, JobDoneTypes DEF OnlyRestores
  <2> QED BY <2>1, <2>2 DEF dataVars
<1> QED BY Zenon, <1>2, <1>3, <1>4 DEF RecoveryNext, OperatorStep, ApplyPVC, Write, recoveryVars, dataVars

(* With restores only the data of every restored PVC is back: what the run  *)
(* BlankRestored shows takes a backup.                                      *)
THEOREM RestoresAloneBringBack == RecoverySpec => [](OnlyRestores => DataIsBack)
<1>1. RecoveryInit => DataInv /\ (OnlyRestores => OldSnapshots)
  <2>1. RecoveryInit => OldSnapshots
    <3>1. \A k \in DOMAIN Archive : Archive[k].of = NoPVC
      <4> DEFINE Old == [name : {NameOf[p] : p \in PVCs}, data : SUBSET {0}, of : {NoPVC}]
      <4>1. Archive \in Seq(Old) /\ \A s \in Old : s.of = NoPVC
        BY ArchiveAssumption
      <4> HIDE DEF Old
      <4>2. \A k \in DOMAIN Archive : Archive[k] \in Old
        BY <4>1
      <4> QED BY <4>1, <4>2
    <3> QED BY <3>1 DEF RecoveryInit, OldSnapshots, NoJob
  <2> QED BY <2>1, DataInit
<1>2. TypeOK /\ TypeOK' /\ PVCsInv /\ DataInv /\ [RecoveryNext]_recoveryVars => DataInv'
  BY DataNext
<1>3. TypeOK /\ TypeOK' /\ PVCsInv /\ DataInv /\ (OnlyRestores => OldSnapshots) /\ [RecoveryNext]_recoveryVars
        => (OnlyRestores => OldSnapshots)'
  BY OldSnapshotsNext
<1>4. TypeOK /\ DataInv /\ (OnlyRestores => OldSnapshots) /\ DataIsBackUnlessOvertaken
        => (OnlyRestores => DataIsBack)
  <2> SUFFICES ASSUME TypeOK, DataInv, OldSnapshots, DataIsBackUnlessOvertaken,
                      NEW i \in DOMAIN made, Restored(i)
               PROVE  expected[jobs[i].pvc] \subseteq volume[jobs[i].pvc]
    BY DEF DataIsBack
  <2>1. i \in TaskIds
    <3>1. made \in Seq(TaskRecord) /\ Len(made) <= MaxTasks /\ Len(made) \in Nat /\ MaxTasks \in Nat
      BY BoundsAreNat DEF TypeOK
    <3> QED BY <3>1 DEF TaskIds
  <2>2. jobs[i].of = NoPVC /\ jobs[i].pvc # NoPVC
    BY <2>1 DEF OldSnapshots, Restored
  <2> QED BY <2>2 DEF DataIsBackUnlessOvertaken
<1> QED BY <1>1, <1>2, <1>3, <1>4, RecoveryAgrees, DataComesBack, PTL DEF RecoverySpec
=============================================================================
