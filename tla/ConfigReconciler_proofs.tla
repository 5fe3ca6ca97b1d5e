---------------------- MODULE ConfigReconciler_proofs ----------------------
(***************************************************************************)
(* Theorems about ConfigReconciler, for every set of PVCs and of targets,  *)
(* every choice of faults and of what users do, and every bound.           *)
(***************************************************************************)
EXTENDS ConfigReconciler, SequenceTheorems, FiniteSetTheorems, WellFoundedInduction, TLAPS

-----------------------------------------------------------------------------
(* The first and the last element of a set of indexes. *)

LEMMA FirstExists ==
  ASSUME NEW S \in SUBSET Nat, S # {}
  PROVE  First(S) \in S /\ \A j \in S : First(S) <= j
<1>1. PICK i \in S : \A j \in S : <<j, i>> \notin OpToRel(<, Nat)
  BY NatLessThanWellFounded, WFMin
<1>2. \A j \in S : ~(j < i)
  BY <1>1 DEF OpToRel
<1>3. \A j \in S : i <= j
  BY <1>2
<1> QED BY <1>3 DEF First

LEMMA LastExists ==
  ASSUME NEW n \in Nat, NEW S \in SUBSET (1 .. n), S # {}
  PROVE  \E i \in S : \A j \in S : j <= i
<1> DEFINE T == {n - i : i \in S}
<1>1. T \in SUBSET Nat /\ T # {}
  <2>1. PICK i \in S : TRUE
    OBVIOUS
  <2>2. n - i \in T
    BY <2>1
  <2>3. \A j \in S : n - j \in Nat
    OBVIOUS
  <2> QED BY <2>2, <2>3
<1>2. PICK m \in T : \A k \in T : m <= k
  BY <1>1, FirstExists
<1>3. PICK i \in S : m = n - i
  BY <1>2
<1>4. ASSUME NEW j \in S PROVE j <= i
  <2>1. n - i <= n - j
    BY <1>2, <1>3
  <2> QED BY <2>1
<1> QED BY <1>4

-----------------------------------------------------------------------------
(* What the operators of the model return. *)

LEMMA NewRepoType == ASSUME NEW r \in Repos PROVE NewRepo(r) \in RepoStatus
BY DEF NewRepo, RepoStatus, Never

LEMMA NoConfigType == NoConfig \in ConfigRecord
<1>1. <<>> \in Seq(Repos) /\ <<>> \in Seq(RepoStatus)
  OBVIOUS
<1> QED BY <1>1 DEF NoConfig, ConfigRecord, NoRequest

LEMMA NewPVCType == NewPVC \in PVCRecord /\ NoPVCs \in [PVCs -> PVCRecord]
BY DEF NewPVC, NoPVCs, PVCRecord, NoRequest

LEMMA StoredType ==
  ASSUME NEW old \in ConfigRecord, NEW o \in ConfigRecord
  PROVE  Stored(old, o) \in ConfigRecord
<1>1. old.rv + 1 \in Nat
  BY DEF ConfigRecord
<1>2. [NoConfig EXCEPT !.rv = old.rv + 1] \in ConfigRecord
  BY <1>1, NoConfigType DEF ConfigRecord
<1>3. [o EXCEPT !.rv = old.rv + 1] \in ConfigRecord
  BY <1>1 DEF ConfigRecord
<1> QED BY <1>2, <1>3 DEF Stored

LEMMA StoredPVCType ==
  ASSUME NEW old \in PVCRecord, NEW o \in PVCRecord
  PROVE  StoredPVC(old, o) \in PVCRecord
<1>1. old.rv + 1 \in Nat
  BY DEF PVCRecord
<1>2. [o EXCEPT !.rv = old.rv + 1] \in PVCRecord
  BY <1>1 DEF PVCRecord
<1> QED BY <1>2 DEF StoredPVC

(* A sequence is made by giving its elements.                               *)
LEMMA SeqBy ==
  ASSUME NEW S, NEW n \in Nat, NEW f \in [1 .. n -> S]
  PROVE  f \in Seq(S)
BY SeqDef

(* The entry Rebuilt takes for a target: the last one there is, or a new one. *)
LastEntry(o, r) == CHOOSE j \in DOMAIN o.repos :
                     /\ o.repos[j].target = r
                     /\ \A k \in DOMAIN o.repos : k > j => o.repos[k].target # r

LEMMA LastEntryExists ==
  ASSUME NEW o \in ConfigRecord, NEW r, \E j \in DOMAIN o.repos : o.repos[j].target = r
  PROVE  LastEntry(o, r) \in DOMAIN o.repos /\ o.repos[LastEntry(o, r)].target = r
<1> DEFINE S == {j \in DOMAIN o.repos : o.repos[j].target = r}
<1>1. o.repos \in Seq(RepoStatus)
  BY DEF ConfigRecord
<1>2. Len(o.repos) \in Nat /\ DOMAIN o.repos = 1 .. Len(o.repos)
  BY <1>1
<1>3. S \in SUBSET (1 .. Len(o.repos)) /\ S # {}
  BY <1>2
<1> HIDE DEF S
<1>4. PICK i \in S : \A j \in S : j <= i
  BY <1>2, <1>3, LastExists
<1>5. i \in DOMAIN o.repos /\ o.repos[i].target = r
  BY <1>4 DEF S
<1>6. ASSUME NEW k \in DOMAIN o.repos, k > i PROVE o.repos[k].target # r
  <2>1. k \in Int /\ i \in Int
    BY <1>2, <1>5
  <2> QED BY <1>4, <1>6, <2>1 DEF S
<1> QED BY <1>5, <1>6 DEF LastEntry

LEMMA RebuiltType ==
  ASSUME NEW o \in ConfigRecord
  PROVE  /\ Rebuilt(o) \in Seq(RepoStatus)
         /\ DOMAIN Rebuilt(o) = DOMAIN o.spec
         /\ \A i \in DOMAIN o.spec :
              Rebuilt(o)[i] = IF \E j \in DOMAIN o.repos : o.repos[j].target = o.spec[i]
                              THEN o.repos[LastEntry(o, o.spec[i])] ELSE NewRepo(o.spec[i])
<1> DEFINE Entry(r) == IF \E j \in DOMAIN o.repos : o.repos[j].target = r
                       THEN o.repos[LastEntry(o, r)] ELSE NewRepo(r)
<1>1. o.spec \in Seq(Repos) /\ o.repos \in Seq(RepoStatus)
  BY DEF ConfigRecord
<1>2. Rebuilt(o) = [i \in DOMAIN o.spec |-> Entry(o.spec[i])]
  BY DEF Rebuilt, LastEntry
<1>3. ASSUME NEW r \in Repos PROVE Entry(r) \in RepoStatus
  BY <1>1, NewRepoType, LastEntryExists
<1> HIDE DEF Entry
<1>4. Len(o.spec) \in Nat /\ DOMAIN o.spec = 1 .. Len(o.spec)
  BY <1>1
<1>5. \A i \in DOMAIN o.spec : o.spec[i] \in Repos
  BY <1>1
<1>6. Rebuilt(o) \in [1 .. Len(o.spec) -> RepoStatus]
  BY <1>2, <1>3, <1>4, <1>5
<1>7. Rebuilt(o) \in Seq(RepoStatus)
  BY <1>4, <1>6, SeqBy
<1>8. \A i \in DOMAIN o.spec : Rebuilt(o)[i] = Entry(o.spec[i])
  BY <1>2
<1> QED BY <1>2, <1>7, <1>8 DEF Entry

LEMMA PhaseNames ==
  /\ Phases = {"Absent", "Unset", "ScalingDown", "Starting", "Running", "ScalingUp", "Completed", "Failed"}
  /\ \A m \in Progress : m[1] \in Phases \ {"Absent"} /\ m[2] \in Phases \ {"Absent"}
BY DEF Phases, Progress

-----------------------------------------------------------------------------
(* Type correctness, in four parts. *)

USE DEF taskVars, worldVars, workerVars

WorldOK == /\ config \in ConfigRecord /\ configCache \in ConfigRecord
           /\ pvcs \in [PVCs -> PVCRecord] /\ pvcCache \in [PVCs -> PVCRecord]

TasksOK == /\ made \in Seq(TaskRecord) /\ Len(made) <= MaxTasks
           /\ phase \in [TaskIds -> Phases]
           /\ \A i \in TaskIds : phase[i] = "Absent" <=> i > Len(made)

HistoryOK == /\ clock \in 0 .. MaxClock
             /\ asked \in Seq(SUBSET PVCs) /\ Len(asked) <= MaxRequests
             /\ faults \in Seq(FaultKinds) /\ Len(faults) <= MaxFaults

WorkerOK == /\ pc \in Stages /\ obj \in ConfigRecord /\ listed \in [PVCs -> PVCRecord]
            /\ todo \subseteq {p \in PVCs : listed[p].exists} /\ at \in todo \cup {NoPVC}
            /\ pc \in {"mark", "clear"} <=> at # NoPVC
            /\ repo \in Nat /\ (pc = "schedule" => repo \in DOMAIN obj.spec)

LEMMA TypeParts == TypeOK <=> WorldOK /\ TasksOK /\ HistoryOK /\ WorkerOK
BY DEF TypeOK, WorldOK, TasksOK, HistoryOK, WorkerOK

LEMMA TypeWhole == WorldOK' /\ TasksOK' /\ HistoryOK' /\ WorkerOK' => TypeOK'
BY DEF TypeOK, WorldOK, TasksOK, HistoryOK, WorkerOK

LEMMA BoundsAreNat == MaxFaults \in Nat /\ MaxRequests \in Nat /\ MaxClock \in Nat /\ MaxTasks \in Nat
BY BoundAssumption

LEMMA IdleOK == ASSUME Idle PROVE WorkerOK'
BY NoConfigType, NewPVCType DEF Idle, WorkerOK, Stages

LEMMA TypeInit == Init => TypeOK
<1> SUFFICES ASSUME Init PROVE TypeOK
  OBVIOUS
<1>1. WorldOK
  <2>1. PICK s \in Specs : config = [NoConfig EXCEPT !.exists = TRUE, !.rv = 1, !.spec = s]
    BY DEF Init
  <2>2. s \in Seq(Repos)
    BY SpecAssumption
  <2>3. config \in ConfigRecord
    BY <2>1, <2>2, NoConfigType DEF ConfigRecord
  <2> QED BY <2>3, NewPVCType DEF Init, WorldOK
<1>2. TasksOK
  BY BoundsAreNat, PhaseNames DEF Init, TasksOK, TaskIds
<1>3. HistoryOK
  BY BoundsAreNat DEF Init, HistoryOK
<1>4. WorkerOK
  BY NoConfigType, NewPVCType DEF Init, WorkerOK, Stages
<1> QED BY <1>1, <1>2, <1>3, <1>4, TypeParts

LEMMA ChargeOK ==
  ASSUME HistoryOK, NEW kind \in FaultKinds, NEW bad \in BOOLEAN, Charge(kind, bad),
         UNCHANGED <<clock, asked>>
  PROVE  HistoryOK'
BY ConfigFaultAssumption, BoundsAreNat DEF Charge, HistoryOK

LEMMA NewTaskOK ==
  ASSUME TypeOK, NEW kind \in Kinds, NEW p \in PVCs, NEW r \in Repos \cup {NoRepo}, NEW request \in Nat,
         NewTask(kind, p, r, request)
  PROVE  TasksOK'
<1> DEFINE task == [kind |-> kind, pvc |-> p, repo |-> r, slot |-> clock,
                    request |-> request, young |-> pvcs[p].born = clock]
<1>1. task \in TaskRecord
  BY DEF TypeOK, TaskRecord
<1>2. made' = Append(made, task) /\ Len(made) < MaxTasks
      /\ phase' = [phase EXCEPT ![Len(made) + 1] = "Unset"]
  BY DEF NewTask
<1> HIDE DEF task
<1>3. /\ made \in Seq(TaskRecord) /\ phase \in [TaskIds -> Phases]
      /\ \A i \in TaskIds : phase[i] = "Absent" <=> i > Len(made)
  BY DEF TypeOK
<1>4. made' \in Seq(TaskRecord) /\ Len(made') = Len(made) + 1 /\ Len(made) \in Nat
  BY <1>1, <1>2, <1>3
<1>5. Len(made) + 1 \in TaskIds /\ Len(made') <= MaxTasks
  BY <1>2, <1>4, BoundsAreNat DEF TaskIds
<1>6. phase' \in [TaskIds -> Phases]
  BY <1>2, <1>3, PhaseNames
<1>7. ASSUME NEW i \in TaskIds PROVE phase'[i] = "Absent" <=> i > Len(made')
  <2>1. i \in Nat
    BY BoundsAreNat DEF TaskIds
  <2>2. CASE i = Len(made) + 1
    BY <1>2, <1>3, <1>4, <1>5, <2>2
  <2>3. CASE i # Len(made) + 1
    BY <1>2, <1>3, <1>4, <2>1, <2>3
  <2> QED BY <2>2, <2>3
<1> QED BY <1>4, <1>5, <1>6, <1>7 DEF TasksOK

LEMMA TryNewTaskOK ==
  ASSUME TypeOK, NEW kind \in Kinds, NEW p \in PVCs, NEW r \in Repos \cup {NoRepo}, NEW request \in Nat,
         TryNewTask(kind, p, r, request), UNCHANGED <<clock, asked>>
  PROVE  TasksOK' /\ HistoryOK'
<1>1. "create" \in FaultKinds /\ HistoryOK /\ TasksOK
  BY TypeParts DEF FaultKinds
<1>2. CASE Charge("create", FALSE) /\ NewTask(kind, p, r, request)
  BY <1>1, <1>2, NewTaskOK, ChargeOK
<1>3. CASE Charge("create", TRUE) /\ UNCHANGED taskVars
  BY <1>1, <1>3, ChargeOK DEF TasksOK
<1> QED BY <1>2, <1>3 DEF TryNewTask

LEMMA UpdateOK ==
  ASSUME TypeOK, NEW o \in ConfigRecord, UpdateAndReturn(o)
  PROVE  TypeOK'
<1>1. WorldOK /\ TasksOK /\ HistoryOK
  BY TypeParts
<1>2. WorldOK'
  BY <1>1, StoredType DEF UpdateAndReturn, WorldOK
<1>3. TasksOK' /\ HistoryOK'
  BY <1>1 DEF UpdateAndReturn, TasksOK, HistoryOK
<1>4. WorkerOK'
  BY IdleOK DEF UpdateAndReturn
<1> QED BY <1>2, <1>3, <1>4, TypeWhole

(* A time in the status of one repository.                                  *)
LEMMA SetBackupType ==
  ASSUME NEW o \in ConfigRecord, NEW i, NEW t \in Nat
  PROVE  /\ [o EXCEPT !.repos[i].backupAt = t] \in ConfigRecord
         /\ [o EXCEPT !.repos[i].backupAt = t].spec = o.spec
<1>1. o.repos \in Seq(RepoStatus)
  BY DEF ConfigRecord
<1>2. \A e \in RepoStatus : [e EXCEPT !.backupAt = t] \in RepoStatus
  BY DEF RepoStatus
<1>3. [o.repos EXCEPT ![i].backupAt = t] \in Seq(RepoStatus)
  <2> DEFINE entry(j) == IF j = i THEN [o.repos[j] EXCEPT !.backupAt = t] ELSE o.repos[j]
  <2>1. [o.repos EXCEPT ![i].backupAt = t] = [j \in DOMAIN o.repos |-> entry(j)]
    OBVIOUS
  <2>2. \A j \in DOMAIN o.repos : entry(j) \in RepoStatus
    BY <1>1, <1>2
  <2>3. Len(o.repos) \in Nat /\ DOMAIN o.repos = 1 .. Len(o.repos)
    BY <1>1
  <2> HIDE DEF entry
  <2>4. [o.repos EXCEPT ![i].backupAt = t] \in [1 .. Len(o.repos) -> RepoStatus]
    BY <2>1, <2>2, <2>3
  <2> QED BY <2>3, <2>4, SeqBy
<1> QED BY <1>3 DEF ConfigRecord

LEMMA SetForgetType ==
  ASSUME NEW o \in ConfigRecord, NEW i, NEW t \in Nat
  PROVE  [o EXCEPT !.repos[i].forgetAt = t] \in ConfigRecord
<1>1. o.repos \in Seq(RepoStatus)
  BY DEF ConfigRecord
<1>2. \A e \in RepoStatus : [e EXCEPT !.forgetAt = t] \in RepoStatus
  BY DEF RepoStatus
<1>3. [o.repos EXCEPT ![i].forgetAt = t] \in Seq(RepoStatus)
  <2> DEFINE entry(j) == IF j = i THEN [o.repos[j] EXCEPT !.forgetAt = t] ELSE o.repos[j]
  <2>1. [o.repos EXCEPT ![i].forgetAt = t] = [j \in DOMAIN o.repos |-> entry(j)]
    OBVIOUS
  <2>2. \A j \in DOMAIN o.repos : entry(j) \in RepoStatus
    BY <1>1, <1>2
  <2>3. Len(o.repos) \in Nat /\ DOMAIN o.repos = 1 .. Len(o.repos)
    BY <1>1
  <2> HIDE DEF entry
  <2>4. [o.repos EXCEPT ![i].forgetAt = t] \in [1 .. Len(o.repos) -> RepoStatus]
    BY <2>1, <2>2, <2>3
  <2> QED BY <2>3, <2>4, SeqBy
<1> QED BY <1>3 DEF ConfigRecord

(* The list of PVCs, and where the reconcile goes from there.               *)
Listing(l) ==
  /\ listed' = l /\ at' = at
  /\ \/ /\ pc' = "autoRestore" /\ AutoRestore /\ Unclaimed(l) # {} /\ todo' = Unclaimed(l)
        /\ UNCHANGED <<obj, repo>>
     \/ /\ pc' = "configRestore" /\ obj.restore # NoRequest /\ todo' = {p \in PVCs : l[p].exists}
        /\ UNCHANGED <<obj, repo>>
     \/ /\ pc' = "configBackup" /\ obj.restore = NoRequest /\ obj.backup # NoRequest
        /\ todo' = {p \in PVCs : l[p].exists}
        /\ UNCHANGED <<obj, repo>>
     \/ /\ pc' = "pvcRequest" /\ todo' = Requested(l)
        /\ UNCHANGED <<obj, repo>>
     \/ /\ pc' = "schedule" /\ todo' = {p \in PVCs : l[p].exists}
        /\ AutoRestore => Unclaimed(l) = {}
        /\ Requested(l) = {}
        /\ BackupsDue(obj) # {} /\ repo' = First(BackupsDue(obj))
        /\ obj' = [obj EXCEPT !.repos[repo'].backupAt = clock]
     \/ pc' \in {"forget", "done"} /\ todo' = {} /\ UNCHANGED <<obj, repo>>

LEMMA ListPVCsLists ==
  ASSUME ListPVCs
  PROVE  \E refused \in BOOLEAN :
           /\ Charge(IF refused THEN "list" ELSE "stalePVC", refused \/ pvcCache # pvcs)
           /\ Listing(IF refused THEN NoPVCs ELSE pvcCache)
<1>1. PICK refused \in BOOLEAN :
        LET l == IF refused THEN NoPVCs ELSE pvcCache
            found == {p \in PVCs : l[p].exists}
            Serve(stage, P) == pc' = stage /\ todo' = P /\ UNCHANGED <<obj, at, repo>>
        IN
        /\ Charge(IF refused THEN "list" ELSE "stalePVC", refused \/ pvcCache # pvcs)
        /\ listed' = l
        /\ IF AutoRestore /\ Unclaimed(l) # {} THEN Serve("autoRestore", Unclaimed(l))
           ELSE IF obj.restore # NoRequest THEN Serve("configRestore", found)
           ELSE IF obj.backup # NoRequest THEN Serve("configBackup", found)
           ELSE IF Requested(l) # {} THEN Serve("pvcRequest", Requested(l))
           ELSE IF BackupsDue(obj) # {} THEN
             /\ pc' = "schedule" /\ todo' = found
             /\ repo' = First(BackupsDue(obj))
             /\ obj' = [obj EXCEPT !.repos[repo'].backupAt = clock]
             /\ UNCHANGED at
           ELSE IF ForgetsDue(obj) # {} THEN Serve("forget", {})
           ELSE Serve("done", {})
  BY DEF ListPVCs
<1> DEFINE l == IF refused THEN NoPVCs ELSE pvcCache
<1>2. Listing(l)
  BY <1>1 DEF Listing
<1> QED BY <1>1, <1>2

LEMMA TypeList == TypeOK /\ ListPVCs => TypeOK'
<1> SUFFICES ASSUME TypeOK, ListPVCs PROVE TypeOK'
  OBVIOUS
<1>0. /\ WorldOK /\ TasksOK /\ HistoryOK /\ WorkerOK
      /\ obj \in ConfigRecord /\ clock \in Nat
  BY TypeParts, BoundsAreNat DEF TypeOK
<1>1. PICK refused \in BOOLEAN :
        /\ Charge(IF refused THEN "list" ELSE "stalePVC", refused \/ pvcCache # pvcs)
        /\ Listing(IF refused THEN NoPVCs ELSE pvcCache)
  BY ListPVCsLists
<1>2. HistoryOK'
  <2> DEFINE kind == IF refused THEN "list" ELSE "stalePVC"
             bad == refused \/ pvcCache # pvcs
  <2>1. kind \in FaultKinds /\ bad \in BOOLEAN /\ Charge(kind, bad) /\ UNCHANGED <<clock, asked>>
    BY <1>1 DEF FaultKinds, ListPVCs
  <2> HIDE DEF kind, bad
  <2> QED BY <1>0, <2>1, ChargeOK
<1>3. listed' \in [PVCs -> PVCRecord]
  BY <1>0, <1>1, NewPVCType DEF WorldOK, Listing
<1>4. todo' \subseteq {p \in PVCs : listed'[p].exists}
  BY <1>1 DEF Listing, Unclaimed, Requested
<1>5. at' = NoPVC
  BY <1>0, <1>1 DEF ListPVCs, WorkerOK, Listing
<1>6. /\ obj' \in ConfigRecord /\ repo' \in Nat
      /\ pc' = "schedule" => repo' \in DOMAIN obj'.spec
  <2>1. CASE pc' = "schedule"
    <3>1. /\ BackupsDue(obj) # {} /\ repo' = First(BackupsDue(obj))
          /\ obj' = [obj EXCEPT !.repos[repo'].backupAt = clock]
      BY <1>1, <2>1 DEF Listing
    <3>2. DOMAIN obj.spec \subseteq Nat
      BY <1>0 DEF ConfigRecord
    <3>3. repo' \in DOMAIN obj.spec /\ repo' \in Nat
      BY <3>1, <3>2, FirstExists DEF BackupsDue
    <3> QED BY <1>0, <3>1, <3>3, SetBackupType
  <2>2. CASE pc' # "schedule"
    BY <1>0, <1>1, <2>2 DEF Listing, WorkerOK
  <2> QED BY <2>1, <2>2
<1>7. pc' \in Stages /\ pc' \notin {"mark", "clear"}
  BY <1>1 DEF Listing, Stages
<1>8. WorkerOK'
  BY <1>3, <1>4, <1>5, <1>6, <1>7 DEF WorkerOK
<1> QED BY <1>0, <1>2, <1>8, TypeWhole DEF ListPVCs, WorldOK, TasksOK

(* The worker's steps ... *)
LEMMA TypeWorker == TypeOK /\ WorkerStep => TypeOK'
<1> SUFFICES ASSUME TypeOK, WorkerStep PROVE TypeOK'
  OBVIOUS
<1>0. /\ WorldOK /\ TasksOK /\ HistoryOK /\ WorkerOK
      /\ obj \in ConfigRecord /\ config \in ConfigRecord
      /\ pvcs \in [PVCs -> PVCRecord] /\ listed \in [PVCs -> PVCRecord] /\ clock \in Nat
  BY TypeParts, BoundsAreNat DEF TypeOK
<1>1. CASE InitResourceIfConditionMet
  <2>1. [obj EXCEPT !.finalizer = TRUE] \in ConfigRecord
    BY <1>0 DEF ConfigRecord
  <2> QED BY <1>1, <2>1, UpdateOK DEF InitResourceIfConditionMet
<1>2. CASE InitConfig
  <2>1. [obj EXCEPT !.ready = TRUE] \in ConfigRecord
    BY <1>0 DEF ConfigRecord
  <2>2. WorkerOK'
    BY <1>0, <1>2, <2>1 DEF InitConfig, ToStatus, WorkerOK, Stages
  <2> QED BY <1>0, <1>2, <2>2, TypeWhole DEF InitConfig, WorldOK, TasksOK, HistoryOK
<1>3. CASE SyncRepositories
  <2>1. [obj EXCEPT !.repos = Rebuilt(obj)] \in ConfigRecord
    BY <1>0, RebuiltType DEF ConfigRecord
  <2>2. WorkerOK'
    BY <1>0, <1>3, <2>1 DEF SyncRepositories, ToStatus, WorkerOK, Stages
  <2> QED BY <1>0, <1>3, <2>2, TypeWhole DEF SyncRepositories, WorldOK, TasksOK, HistoryOK
<1>4. CASE InitRepositories
  <2> DEFINE readied == [i \in DOMAIN obj.repos |-> [obj.repos[i] EXCEPT !.ready = TRUE]]
  <2>1. obj.repos \in Seq(RepoStatus) /\ Len(obj.repos) \in Nat /\ DOMAIN obj.repos = 1 .. Len(obj.repos)
    BY <1>0 DEF ConfigRecord
  <2>2. \A e \in RepoStatus : [e EXCEPT !.ready = TRUE] \in RepoStatus
    BY DEF RepoStatus
  <2>3. readied \in [1 .. Len(obj.repos) -> RepoStatus]
    BY <2>1, <2>2
  <2>4. readied \in Seq(RepoStatus)
    BY <2>1, <2>3, SeqBy
  <2>5. [obj EXCEPT !.repos = readied] \in ConfigRecord
    BY <1>0, <2>4 DEF ConfigRecord
  <2>6. "restic" \in FaultKinds /\ UNCHANGED <<clock, asked>>
    BY <1>4 DEF FaultKinds, InitRepositories
  <2>7. PICK failed \in BOOLEAN :
          /\ Charge("restic", failed)
          /\ IF failed THEN Idle ELSE ToStatus([obj EXCEPT !.repos = readied])
    BY <1>4 DEF InitRepositories
  <2> HIDE DEF readied
  <2>8. HistoryOK'
    BY <1>0, <2>6, <2>7, ChargeOK
  <2>9. WorkerOK'
    <3>1. CASE failed
      BY <2>7, <3>1, IdleOK
    <3>2. CASE ~failed
      BY <1>0, <1>4, <2>5, <2>7, <3>2 DEF InitRepositories, ToStatus, WorkerOK, Stages
    <3> QED BY <3>1, <3>2
  <2> QED BY <1>0, <1>4, <2>8, <2>9, TypeWhole DEF InitRepositories, WorldOK, TasksOK
<1>5. CASE ListPVCs
  BY <1>0, <1>5, TypeList
<1>6. CASE PanicWithoutRepository
  <2>1. WorkerOK'
    BY <1>6, IdleOK DEF PanicWithoutRepository
  <2> QED BY <1>0, <1>6, <2>1, TypeWhole DEF PanicWithoutRepository, WorldOK, TasksOK, HistoryOK
<1>7. ASSUME NEW p \in PVCs, CreateAutoRestore(p) PROVE TypeOK'
  <2>1. PICK refused \in BOOLEAN :
          /\ Charge("create", refused)
          /\ IF refused THEN Idle /\ UNCHANGED taskVars
             ELSE /\ NewTask("restore-automated", p, NoRepo, NoRequest)
                  /\ pc' = "mark" /\ at' = p /\ UNCHANGED <<obj, listed, todo, repo>>
    BY <1>7 DEF CreateAutoRestore
  <2>2. "create" \in FaultKinds /\ "restore-automated" \in Kinds /\ NoRequest \in Nat
        /\ NoRepo \in Repos \cup {NoRepo} /\ p \in todo /\ p # NoPVC
    BY <1>7, NoPVCAssumption DEF FaultKinds, Kinds, NoRequest, CreateAutoRestore
  <2>3. UNCHANGED <<worldVars, clock, asked>>
    BY <1>7 DEF CreateAutoRestore
  <2>4. HistoryOK'
    BY <1>0, <2>1, <2>2, <2>3, ChargeOK
  <2>5. TasksOK'
    BY <1>0, <2>1, <2>2, NewTaskOK DEF TasksOK
  <2>6. WorkerOK'
    BY <1>0, <2>1, <2>2, IdleOK DEF WorkerOK, Stages
  <2> QED BY <1>0, <2>3, <2>4, <2>5, <2>6, TypeWhole DEF WorldOK
<1>8. CASE MarkRestored
  <2>1. at \in PVCs
    BY <1>0, <1>8 DEF MarkRestored, WorkerOK
  <2>2. [listed[at] EXCEPT !.restored = TRUE] \in PVCRecord
    BY <1>0, <2>1 DEF PVCRecord
  <2>3. WorldOK'
    BY <1>0, <1>8, <2>1, <2>2, StoredPVCType DEF MarkRestored, WorldOK
  <2>4. WorkerOK'
    BY <1>0, <1>8, IdleOK DEF MarkRestored, WorkerOK, Stages
  <2> QED BY <1>0, <1>8, <2>3, <2>4, TypeWhole DEF MarkRestored, TasksOK, HistoryOK
<1>9. ASSUME NEW p \in PVCs, ServeConfigRequest(p) PROVE TypeOK'
  <2>1. PICK kind \in Kinds, request \in Nat : TryNewTask(kind, p, NoRepo, request)
    BY <1>0, <1>9 DEF ServeConfigRequest, Kinds, ConfigRecord
  <2>2. UNCHANGED <<worldVars, clock, asked>>
    BY <1>9 DEF ServeConfigRequest
  <2>3. TasksOK' /\ HistoryOK'
    BY <2>1, <2>2, TryNewTaskOK
  <2>4. WorkerOK'
    BY <1>0, <1>9 DEF ServeConfigRequest, WorkerOK, Stages
  <2> QED BY <1>0, <2>2, <2>3, <2>4, TypeWhole DEF WorldOK
<1>10. CASE ClearConfigRequest
  <2>1. [obj EXCEPT !.restore = NoRequest] \in ConfigRecord /\ [obj EXCEPT !.backup = NoRequest] \in ConfigRecord
    BY <1>0 DEF ConfigRecord, NoRequest
  <2> QED BY <1>10, <2>1, UpdateOK DEF ClearConfigRequest
<1>11. ASSUME NEW p \in PVCs, ServePVCRequest(p) PROVE TypeOK'
  <2>1. PICK kind \in Kinds, request \in Nat : TryNewTask(kind, p, NoRepo, request)
    BY <1>0, <1>11 DEF ServePVCRequest, Kinds, PVCRecord
  <2>2. UNCHANGED <<worldVars, clock, asked>>
    BY <1>11 DEF ServePVCRequest
  <2>3. TasksOK' /\ HistoryOK'
    BY <2>1, <2>2, TryNewTaskOK
  <2>4. WorkerOK'
    BY <1>0, <1>11, NoPVCAssumption DEF ServePVCRequest, WorkerOK, Stages
  <2> QED BY <1>0, <2>2, <2>3, <2>4, TypeWhole DEF WorldOK
<1>12. CASE ClearPVCRequest
  <2>1. at \in PVCs
    BY <1>0, <1>12 DEF ClearPVCRequest, WorkerOK
  <2>2. [listed[at] EXCEPT !.restore = NoRequest] \in PVCRecord /\ [listed[at] EXCEPT !.backup = NoRequest] \in PVCRecord
    BY <1>0, <2>1 DEF PVCRecord, NoRequest
  <2>3. WorldOK'
    BY <1>0, <1>12, <2>1, <2>2, StoredPVCType DEF ClearPVCRequest, WorldOK
  <2>4. WorkerOK'
    BY <1>12, IdleOK DEF ClearPVCRequest
  <2> QED BY <1>0, <1>12, <2>3, <2>4, TypeWhole DEF ClearPVCRequest, TasksOK, HistoryOK
<1>13. ASSUME NEW p \in PVCs, ScheduleBackup(p) PROVE TypeOK'
  <2>1. obj.spec[repo] \in Repos \cup {NoRepo} /\ NoRequest \in Nat
    BY <1>0, <1>13 DEF ScheduleBackup, WorkerOK, ConfigRecord, NoRequest
  <2>2. UNCHANGED <<worldVars, clock, asked>> /\ "backup-scheduled" \in Kinds /\ "staleTask" \in FaultKinds
    BY <1>13 DEF ScheduleBackup, Kinds, FaultKinds
  <2>3. TasksOK' /\ HistoryOK'
    <3>1. CASE Charge("staleTask", FALSE) /\ UNCHANGED taskVars
      BY <1>0, <2>2, <3>1, ChargeOK DEF TasksOK
    <3>2. CASE Charge("staleTask", TRUE) /\ UNCHANGED taskVars
      BY <1>0, <2>2, <3>2, ChargeOK DEF TasksOK
    <3>3. CASE Charge("staleTask", TRUE) /\ NewTask("backup-scheduled", p, obj.spec[repo], NoRequest)
      BY <1>0, <2>1, <2>2, <3>3, ChargeOK, NewTaskOK
    <3>4. CASE TryNewTask("backup-scheduled", p, obj.spec[repo], NoRequest)
      BY <2>1, <2>2, <3>4, TryNewTaskOK
    <3> QED BY <1>13, <3>1, <3>2, <3>3, <3>4 DEF ScheduleBackup
  <2>4. WorkerOK'
    BY <1>0, <1>13 DEF ScheduleBackup, WorkerOK, Stages
  <2> QED BY <1>0, <2>2, <2>3, <2>4, TypeWhole DEF WorldOK
<1>14. CASE ScheduleForget
  <2> DEFINE i == First(ForgetsDue(obj))
  <2>1. [obj EXCEPT !.repos[i].forgetAt = clock] \in ConfigRecord
    BY <1>0, SetForgetType
  <2>2. WorkerOK'
    BY <1>0, <1>14, <2>1 DEF ScheduleForget, ToStatus, WorkerOK, Stages
  <2> QED BY <1>0, <1>14, <2>2, TypeWhole DEF ScheduleForget, WorldOK, TasksOK, HistoryOK
<1>15. CASE WriteStatus
  <2>1. [config EXCEPT !.ready = obj.ready, !.repos = obj.repos] \in ConfigRecord
    BY <1>0 DEF ConfigRecord
  <2> QED BY <1>15, <2>1, UpdateOK DEF WriteStatus
<1>16. CASE NothingToDo
  <2>1. WorkerOK'
    BY <1>16, IdleOK DEF NothingToDo
  <2> QED BY <1>0, <1>16, <2>1, TypeWhole DEF NothingToDo, WorldOK, TasksOK, HistoryOK
<1> QED BY <1>1, <1>2, <1>3, <1>4, <1>5, <1>6, <1>7, <1>8, <1>9, <1>10, <1>11, <1>12, <1>13, <1>14, <1>15, <1>16
        DEF WorkerStep

LEMMA AskOK == ASSUME HistoryOK, Ask, UNCHANGED <<clock, faults>> PROVE HistoryOK'
BY BoundsAreNat DEF Ask, HistoryOK

(* ... and everybody else's.                                                *)
LEMMA TypeOthers ==
  ASSUME TypeOK,
         \/ Fetch \/ Abort \/ AnnotateConfig \/ EditSpec \/ DeleteConfig \/ SyncConfig \/ Tick
         \/ \E p \in PVCs : CreatePVC(p) \/ AnnotatePVC(p) \/ DeletePVC(p) \/ OtherWrite(p) \/ SyncPVC(p)
         \/ \E i \in TaskIds : TaskStep(i)
  PROVE  TypeOK'
<1>0. /\ WorldOK /\ TasksOK /\ HistoryOK /\ WorkerOK
      /\ config \in ConfigRecord /\ pvcs \in [PVCs -> PVCRecord] /\ clock \in Nat
      /\ asked \in Seq(SUBSET PVCs) /\ Len(asked) \in Nat
  BY TypeParts, BoundsAreNat DEF TypeOK
<1>1. CASE Fetch
  <2>1. "staleConfig" \in FaultKinds /\ UNCHANGED <<clock, asked>> /\ (configCache # config) \in BOOLEAN
    BY <1>1 DEF FaultKinds, Fetch
  <2>2. HistoryOK'
    BY <1>0, <1>1, <2>1, ChargeOK DEF Fetch
  <2>3. WorkerOK'
    BY <1>0, <1>1 DEF Fetch, WorldOK, WorkerOK, Stages
  <2> QED BY <1>0, <1>1, <2>2, <2>3, TypeWhole DEF Fetch, WorldOK, TasksOK
<1>2. CASE Abort
  <2>1. "abort" \in FaultKinds
    BY DEF FaultKinds
  <2>2. HistoryOK' /\ WorkerOK'
    BY <1>0, <1>2, <2>1, ChargeOK, IdleOK DEF Abort
  <2> QED BY <1>0, <1>2, <2>2, TypeWhole DEF Abort, WorldOK, TasksOK
<1>3. CASE AnnotateConfig
  <2>1. Ask /\ UNCHANGED <<clock, faults, pvcs, configCache, pvcCache, taskVars, workerVars>>
    BY <1>3 DEF AnnotateConfig, UserWrites
  <2>2. HistoryOK' /\ Len(asked') \in Nat
    BY <1>0, <2>1, AskOK DEF Ask
  <2>3. [config EXCEPT !.backup = Len(asked')] \in ConfigRecord
        /\ [config EXCEPT !.restore = Len(asked')] \in ConfigRecord
    BY <1>0, <2>2 DEF ConfigRecord
  <2>4. config' \in ConfigRecord
    BY <1>0, <1>3, <2>3, StoredType DEF AnnotateConfig
  <2> QED BY <1>0, <2>1, <2>2, <2>4, TypeWhole DEF WorldOK, TasksOK, WorkerOK
<1>4. CASE EditSpec
  <2>1. Ask /\ UNCHANGED <<clock, faults, pvcs, configCache, pvcCache, taskVars, workerVars>>
    BY <1>4 DEF EditSpec, UserWrites
  <2>2. HistoryOK'
    BY <1>0, <2>1, AskOK
  <2>3. \A s \in Specs : [config EXCEPT !.spec = s] \in ConfigRecord
    BY <1>0, SpecAssumption DEF ConfigRecord
  <2>4. config' \in ConfigRecord
    BY <1>0, <1>4, <2>3, StoredType DEF EditSpec
  <2> QED BY <1>0, <2>1, <2>2, <2>4, TypeWhole DEF WorldOK, TasksOK, WorkerOK
<1>5. CASE DeleteConfig
  <2>1. [config EXCEPT !.deleting = TRUE] \in ConfigRecord
    BY <1>0 DEF ConfigRecord
  <2>2. config' \in ConfigRecord
    BY <1>0, <1>5, <2>1, StoredType DEF DeleteConfig
  <2> QED BY <1>0, <1>5, <2>2, TypeWhole DEF DeleteConfig, UserWrites, WorldOK, TasksOK, HistoryOK, WorkerOK
<1>6. CASE SyncConfig
  BY <1>0, <1>6, TypeWhole DEF SyncConfig, WorldOK, TasksOK, HistoryOK, WorkerOK
<1>7. CASE Tick
  <2>1. clock' \in 0 .. MaxClock
    BY <1>0, <1>7, BoundsAreNat DEF Tick, HistoryOK
  <2> QED BY <1>0, <1>7, <2>1, TypeWhole DEF Tick, WorldOK, TasksOK, HistoryOK, WorkerOK
<1>8. ASSUME NEW p \in PVCs, CreatePVC(p) PROVE TypeOK'
  <2>1. [NewPVC EXCEPT !.exists = TRUE, !.rv = 1, !.born = clock] \in PVCRecord
    BY <1>0, NewPVCType DEF PVCRecord
  <2>2. pvcs' \in [PVCs -> PVCRecord]
    BY <1>0, <1>8, <2>1 DEF CreatePVC
  <2> QED BY <1>0, <1>8, <2>2, TypeWhole DEF CreatePVC, WorldOK, TasksOK, HistoryOK, WorkerOK
<1>9. ASSUME NEW p \in PVCs, AnnotatePVC(p) PROVE TypeOK'
  <2>1. Ask /\ UNCHANGED <<clock, faults, config, configCache, pvcCache, taskVars, workerVars>>
    BY <1>9 DEF AnnotatePVC, UserWrites
  <2>2. HistoryOK' /\ Len(asked') \in Nat
    BY <1>0, <2>1, AskOK DEF Ask
  <2>3. [pvcs[p] EXCEPT !.backup = Len(asked')] \in PVCRecord
        /\ [pvcs[p] EXCEPT !.restore = Len(asked')] \in PVCRecord
    BY <1>0, <2>2 DEF PVCRecord
  <2>4. pvcs' \in [PVCs -> PVCRecord]
    BY <1>0, <1>9, <2>3, StoredPVCType DEF AnnotatePVC
  <2> QED BY <1>0, <2>1, <2>2, <2>4, TypeWhole DEF WorldOK, TasksOK, WorkerOK
<1>10. ASSUME NEW p \in PVCs, DeletePVC(p) PROVE TypeOK'
  <2>1. pvcs[p].rv + 1 \in Nat
    BY <1>0 DEF PVCRecord
  <2>2. [NewPVC EXCEPT !.rv = pvcs[p].rv + 1] \in PVCRecord
    BY <2>1, NewPVCType DEF PVCRecord
  <2>3. pvcs' \in [PVCs -> PVCRecord]
    BY <1>0, <1>10, <2>2 DEF DeletePVC
  <2> QED BY <1>0, <1>10, <2>3, TypeWhole DEF DeletePVC, UserWrites, WorldOK, TasksOK, HistoryOK, WorkerOK
<1>11. ASSUME NEW p \in PVCs, SyncPVC(p) PROVE TypeOK'
  BY <1>0, <1>11, TypeWhole DEF SyncPVC, WorldOK, TasksOK, HistoryOK, WorkerOK
<1>12. ASSUME NEW i \in TaskIds, TaskStep(i) PROVE TypeOK'
  <2>1. PICK m \in Progress : phase[i] = m[1] /\ phase' = [phase EXCEPT ![i] = m[2]]
    BY <1>12 DEF TaskStep
  <2>2. TasksOK'
    BY <1>0, <1>12, <2>1, PhaseNames DEF TaskStep, TasksOK
  <2> QED BY <1>0, <1>12, <2>2, TypeWhole DEF TaskStep, WorldOK, HistoryOK, WorkerOK
<1>13. ASSUME NEW p \in PVCs, OtherWrite(p) PROVE TypeOK'
  <2>1. "otherWrite" \in FaultKinds
    BY DEF FaultKinds
  <2>2. HistoryOK'
    BY <1>0, <1>13, <2>1, ChargeOK DEF OtherWrite
  <2>3. [pvcs[p] EXCEPT !.rv = pvcs[p].rv + 1] \in PVCRecord
    <3>1. pvcs[p] \in PVCRecord /\ pvcs[p].rv + 1 \in Nat
      BY <1>0 DEF PVCRecord
    <3> QED BY <3>1 DEF PVCRecord
  <2>4. pvcs' = [pvcs EXCEPT ![p] = [pvcs[p] EXCEPT !.rv = pvcs[p].rv + 1]]
    BY <1>13 DEF OtherWrite
  <2>5. pvcs' \in [PVCs -> PVCRecord]
    BY <1>0, <2>3, <2>4
  <2> QED BY <1>0, <1>13, <2>2, <2>5, TypeWhole DEF OtherWrite, WorldOK, TasksOK, WorkerOK
<1> QED BY <1>1, <1>2, <1>3, <1>4, <1>5, <1>6, <1>7, <1>8, <1>9, <1>10, <1>11, <1>12, <1>13

LEMMA TypeNext == TypeOK /\ [Next]_vars => TypeOK'
<1>1. ASSUME TypeOK, UNCHANGED vars PROVE TypeOK'
  BY <1>1 DEF TypeOK, vars
<1>2. ASSUME TypeOK, Next PROVE TypeOK'
  BY <1>2, TypeWorker, TypeOthers DEF Next
<1> QED BY <1>1, <1>2

(* All variables of the Configs controller keep their types.                *)
THEOREM ConfigTypes == Spec => []TypeOK
<1>1. Init => TypeOK
  BY TypeInit
<1>2. TypeOK /\ [Next]_vars => TypeOK'
  BY TypeNext
<1> QED BY <1>1, <1>2, PTL DEF Spec

-----------------------------------------------------------------------------
(* The schedule loops see both lists aligned. *)

LEMMA LoopsBegin ==
  ASSUME Next, ~ListPVCs, pc' \in {"schedule", "forget"}
  PROVE  pc = pc' /\ UNCHANGED <<obj, listed>> /\ todo' \subseteq todo
BY Zenon DEF Next, WorkerStep, Fetch, Abort, AnnotateConfig, EditSpec, DeleteConfig, SyncConfig, Tick, CreatePVC, AnnotatePVC,
   DeletePVC, SyncPVC, OtherWrite, TaskStep, UserWrites, InitResourceIfConditionMet, InitConfig, SyncRepositories, InitRepositories,
   PanicWithoutRepository, CreateAutoRestore, MarkRestored, ServeConfigRequest, ClearConfigRequest,
   ServePVCRequest, ClearPVCRequest, ScheduleBackup, ScheduleForget, WriteStatus, NothingToDo,
   UpdateAndReturn, ToStatus, Idle

LEMMA Growth ==
  ASSUME Next
  PROVE  UNCHANGED made \/ \E t : made' = Append(made, t)
BY Zenon DEF Next, WorkerStep, Fetch, Abort, AnnotateConfig, EditSpec, DeleteConfig, SyncConfig, Tick, CreatePVC, AnnotatePVC,
   DeletePVC, SyncPVC, OtherWrite, TaskStep, UserWrites, InitResourceIfConditionMet, InitConfig, SyncRepositories, InitRepositories, ListPVCs,
   PanicWithoutRepository, CreateAutoRestore, MarkRestored, ServeConfigRequest, ClearConfigRequest,
   ServePVCRequest, ClearPVCRequest, ScheduleBackup, ScheduleForget, WriteStatus, NothingToDo,
   UpdateAndReturn, TryNewTask, NewTask

(* The loops begin with lists that are in step, and all targets ready.      *)
LEMMA AlignedWhenListed ==
  ASSUME TypeOK, ListPVCs, pc' \in {"schedule", "forget"}
  PROVE  ReposAligned'
<1>1. /\ obj.repos \in Seq(RepoStatus) /\ obj.spec \in Seq(Repos) /\ clock \in Nat /\ obj \in ConfigRecord
  BY BoundsAreNat DEF TypeOK, ConfigRecord
<1>2. Synced(obj) /\ ReposReady(obj)
  BY DEF ListPVCs
<1>3. DOMAIN [i \in DOMAIN obj.repos |-> obj.repos[i].target] = DOMAIN obj.spec
  BY <1>2 DEF Synced
<1>4. Len(obj.repos) = Len(obj.spec) /\ DOMAIN obj.repos = DOMAIN obj.spec
  BY <1>1, <1>3
<1>5. \A i \in DOMAIN obj.repos : obj.repos[i].ready /\ obj.repos[i].target = obj.spec[i]
  <2>1. \A i \in DOMAIN obj.repos : [j \in DOMAIN obj.repos |-> obj.repos[j].target][i] = obj.spec[i]
    BY <1>2 DEF Synced
  <2> QED BY <1>2, <2>1 DEF ReposReady
<1>6. PICK refused \in BOOLEAN : Listing(IF refused THEN NoPVCs ELSE pvcCache)
  BY ListPVCsLists
<1>7. obj' = obj \/ obj' = [obj EXCEPT !.repos[repo'].backupAt = clock]
  BY <1>6 DEF Listing
<1>8. CASE obj' = obj
  BY <1>4, <1>5, <1>8 DEF ReposAligned
<1>9. CASE obj' = [obj EXCEPT !.repos[repo'].backupAt = clock]
  <2> DEFINE n == repo'
  <2>1. obj'.spec = obj.spec /\ obj'.repos = [obj.repos EXCEPT ![n].backupAt = clock]
    BY <1>1, <1>9 DEF ConfigRecord
  <2>2. ASSUME NEW i \in DOMAIN obj.repos
        PROVE  obj'.repos[i].ready = obj.repos[i].ready /\ obj'.repos[i].target = obj.repos[i].target
    <3>1. obj.repos[i] \in RepoStatus
      BY <1>1
    <3>2. obj'.repos[i] = obj.repos[i] \/ obj'.repos[i] = [obj.repos[i] EXCEPT !.backupAt = clock]
      BY <2>1
    <3> QED BY <3>1, <3>2 DEF RepoStatus
  <2>3. DOMAIN obj'.repos = DOMAIN obj.repos
    BY <2>1
  <2>4. obj'.repos \in Seq(RepoStatus)
    BY <1>1, <1>9, SetBackupType DEF ConfigRecord
  <2>5. Len(obj'.repos) = Len(obj.repos)
    BY <1>1, <2>3, <2>4
  <2> QED BY <1>4, <1>5, <2>1, <2>2, <2>3, <2>5 DEF ReposAligned
<1> QED BY <1>7, <1>8, <1>9

LEMMA AlignedNext == TypeOK /\ ReposAligned /\ [Next]_vars => ReposAligned'
<1>1. ASSUME TypeOK, ReposAligned, UNCHANGED vars PROVE ReposAligned'
  BY <1>1 DEF ReposAligned, vars
<1>2. ASSUME TypeOK, ReposAligned, Next, ~ListPVCs PROVE ReposAligned'
  <2>1. CASE pc' \in {"schedule", "forget"}
    BY <1>2, <2>1, LoopsBegin DEF ReposAligned
  <2>2. CASE pc' \notin {"schedule", "forget"}
    BY <2>2 DEF ReposAligned
  <2> QED BY <2>1, <2>2
<1>3. ASSUME TypeOK, ListPVCs PROVE ReposAligned'
  BY <1>3, AlignedWhenListed DEF ReposAligned
<1> QED BY <1>1, <1>2, <1>3

(* Whenever a schedule loop runs, the status has an entry for every target  *)
(* of the spec, at the same place and ready.                                *)
THEOREM ListsStayAligned == Spec => []ReposAligned
<1>1. Init => ReposAligned
  BY DEF Init, ReposAligned
<1>2. TypeOK /\ ReposAligned /\ [Next]_vars => ReposAligned'
  BY AlignedNext
<1> QED BY <1>1, <1>2, ConfigTypes, PTL DEF Spec

-----------------------------------------------------------------------------
(* Copies of PVCs. *)

RestoreMade(p) == \E i \in DOMAIN made : made[i].kind = "restore-automated" /\ made[i].pvc = p

(* A copy c of a PVC is never newer than the stored one, s, and equals it   *)
(* when the versions do, and it was born when s was.                        *)
CopyOK(c, s, now) ==
  /\ c.rv <= s.rv
  /\ c.rv = s.rv => c = s
  /\ c.exists => /\ c.born <= now
                 /\ s.rv > 0
                 /\ s.exists => s.born = c.born

StoredOK(s) ==
  /\ s.rv = 0 => s = NewPVC
  /\ ~s.exists => s.born = 0

(* A copy that is marked is one whose restore has been made.                *)
PVCsInv ==
  /\ \A p \in PVCs : /\ StoredOK(pvcs[p])
                     /\ CopyOK(pvcs[p], pvcs[p], clock)
                     /\ CopyOK(pvcCache[p], pvcs[p], clock)
                     /\ CopyOK(listed[p], pvcs[p], clock)
  /\ \A p \in PVCs : pvcs[p].restored \/ pvcCache[p].restored \/ listed[p].restored => RestoreMade(p)
  /\ pc = "mark" => RestoreMade(at)

(* What becomes of a stored PVC in a step: it is created, deleted, or       *)
(* updated by somebody who leaves its birth alone.                          *)
Changed(old, n, now) ==
  \/ n = old
  \/ /\ n.rv = old.rv + 1
     /\ \/ old.rv = 0 /\ n.exists /\ n.born = now
        \/ ~n.exists /\ n.born = 0
        \/ n.exists /\ old.exists /\ n.born = old.born

LEMMA CopyStays ==
  ASSUME NEW c \in PVCRecord, NEW s \in PVCRecord, NEW n \in PVCRecord, NEW now \in Nat, NEW later \in Nat,
         now <= later, StoredOK(s), CopyOK(s, s, now), CopyOK(c, s, now), Changed(s, n, now)
  PROVE  CopyOK(c, n, later) /\ CopyOK(n, n, later) /\ StoredOK(n)
<1>1. /\ c.rv \in Nat /\ s.rv \in Nat /\ n.rv \in Nat
      /\ c.born \in Nat /\ s.born \in Nat /\ n.born \in Nat
  BY DEF PVCRecord
<1>2. CASE n = s
  BY <1>1, <1>2 DEF CopyOK, StoredOK
<1>3. CASE n.rv = s.rv + 1 /\ s.rv = 0 /\ n.exists /\ n.born = now
  <2>1. ~c.exists
    BY <1>1, <1>3 DEF CopyOK, StoredOK, NewPVC
  <2> QED BY <1>1, <1>3, <2>1 DEF CopyOK, StoredOK
<1>4. CASE n.rv = s.rv + 1 /\ ~n.exists /\ n.born = 0
  BY <1>1, <1>4 DEF CopyOK, StoredOK
<1>5. CASE n.rv = s.rv + 1 /\ n.exists /\ s.exists /\ n.born = s.born
  BY <1>1, <1>5 DEF CopyOK, StoredOK
<1> QED BY <1>2, <1>3, <1>4, <1>5 DEF Changed

LEMMA MadeStays ==
  ASSUME TypeOK, TypeOK', Next
  PROVE  /\ \A i \in DOMAIN made : i \in DOMAIN made' /\ made'[i] = made[i]
         /\ \A p \in PVCs : RestoreMade(p) => RestoreMade(p)'
<1>1. made \in Seq(TaskRecord) /\ made' \in Seq(TaskRecord)
  BY DEF TypeOK
<1>2. UNCHANGED made \/ \E t : made' = Append(made, t)
  BY Growth
<1>3. \A i \in DOMAIN made : i \in DOMAIN made' /\ made'[i] = made[i]
  BY <1>1, <1>2
<1> QED BY <1>3 DEF RestoreMade

LEMMA NewTaskMade ==
  ASSUME TypeOK, NEW kind, NEW p, NEW r, NEW request, NewTask(kind, p, r, request)
  PROVE  /\ Len(made) + 1 \in DOMAIN made' /\ DOMAIN made' = DOMAIN made \cup {Len(made) + 1}
         /\ \A i \in DOMAIN made : made'[i] = made[i]
         /\ made'[Len(made) + 1] = [kind |-> kind, pvc |-> p, repo |-> r, slot |-> clock,
                                    request |-> request, young |-> pvcs[p].born = clock]
<1>1. made \in Seq(TaskRecord)
  BY DEF TypeOK
<1> DEFINE t == [kind |-> kind, pvc |-> p, repo |-> r, slot |-> clock,
                 request |-> request, young |-> pvcs[p].born = clock]
<1>2. made' = Append(made, t)
  BY DEF NewTask
<1> HIDE DEF t
<1>3. /\ Len(made) + 1 \in DOMAIN made' /\ DOMAIN made' = DOMAIN made \cup {Len(made) + 1}
      /\ \A i \in DOMAIN made : made'[i] = made[i]
      /\ made'[Len(made) + 1] = t
  BY <1>1, <1>2
<1> QED BY <1>3 DEF t

LEMMA PVCChanges ==
  ASSUME TypeOK, PVCsInv, Next
  PROVE  \A p \in PVCs : /\ Changed(pvcs[p], pvcs'[p], clock)
                         /\ pvcs'[p].restored => pvcs[p].restored \/ RestoreMade(p)
<1> DEFINE Unharmed == \A q \in PVCs : /\ Changed(pvcs[q], pvcs'[q], clock)
                                       /\ pvcs'[q].restored => pvcs[q].restored \/ RestoreMade(q)
<1>0. /\ pvcs \in [PVCs -> PVCRecord] /\ listed \in [PVCs -> PVCRecord] /\ at \in todo \cup {NoPVC}
      /\ pc \in {"mark", "clear"} => at \in PVCs /\ listed[at].exists
  BY DEF TypeOK
<1>1. ASSUME MarkRestored PROVE Unharmed
  <2>1. at \in PVCs /\ listed[at].exists /\ RestoreMade(at)
    BY <1>0, <1>1 DEF MarkRestored, PVCsInv
  <2>2. CASE FreshPVC(at)
    <3> DEFINE o == [listed[at] EXCEPT !.restored = TRUE]
    <3>1. listed[at] = pvcs[at] /\ pvcs[at] \in PVCRecord
      BY <1>0, <2>1, <2>2 DEF FreshPVC, PVCsInv, CopyOK
    <3>2. pvcs' = [pvcs EXCEPT ![at] = StoredPVC(pvcs[at], o)]
      BY <1>1, <2>2 DEF MarkRestored
    <3>3. /\ Changed(pvcs[at], StoredPVC(pvcs[at], o), clock)
          /\ StoredPVC(pvcs[at], o).restored => pvcs[at].restored \/ RestoreMade(at)
      BY <2>1, <3>1 DEF Changed, StoredPVC, PVCRecord
    <3> QED BY <1>0, <2>1, <3>2, <3>3 DEF Changed
  <2>3. CASE ~FreshPVC(at)
    BY <1>1, <2>3 DEF MarkRestored, Changed
  <2> QED BY <2>2, <2>3
<1>2. ASSUME ClearPVCRequest PROVE Unharmed
  <2>1. at \in PVCs /\ listed[at].exists
    BY <1>0, <1>2 DEF ClearPVCRequest
  <2>2. CASE FreshPVC(at)
    <3> DEFINE o == IF listed[at].restore # NoRequest
                    THEN [listed[at] EXCEPT !.restore = NoRequest]
                    ELSE [listed[at] EXCEPT !.backup = NoRequest]
    <3>1. listed[at] = pvcs[at] /\ pvcs[at] \in PVCRecord
      BY <1>0, <2>1, <2>2 DEF FreshPVC, PVCsInv, CopyOK
    <3>2. pvcs' = [pvcs EXCEPT ![at] = StoredPVC(pvcs[at], o)]
      BY <1>2, <2>2 DEF ClearPVCRequest
    <3>3. /\ Changed(pvcs[at], StoredPVC(pvcs[at], o), clock)
          /\ StoredPVC(pvcs[at], o).restored => pvcs[at].restored \/ RestoreMade(at)
      BY <2>1, <3>1 DEF Changed, StoredPVC, PVCRecord
    <3> QED BY <1>0, <2>1, <3>2, <3>3 DEF Changed
  <2>3. CASE ~FreshPVC(at)
    BY <1>2, <2>3 DEF ClearPVCRequest, Changed
  <2> QED BY <2>2, <2>3
<1>3. ASSUME NEW p \in PVCs, CreatePVC(p) PROVE Unharmed
  BY <1>0, <1>3 DEF CreatePVC, Changed, NewPVC
<1>4. ASSUME NEW p \in PVCs, AnnotatePVC(p) PROVE Unharmed
  <2>1. PICK o : /\ pvcs' = [pvcs EXCEPT ![p] = StoredPVC(pvcs[p], o)]
                 /\ o.exists = pvcs[p].exists /\ o.born = pvcs[p].born /\ o.restored = pvcs[p].restored
                 /\ o \in [exists : BOOLEAN, rv : Nat, born : Nat, restored : BOOLEAN, backup : Nat, restore : Nat]
    <3>1. pvcs[p] \in PVCRecord /\ Len(asked') \in Nat
      BY <1>0, <1>4 DEF AnnotatePVC, Ask, TypeOK
    <3>2. \/ pvcs' = [pvcs EXCEPT ![p] = StoredPVC(pvcs[p], [pvcs[p] EXCEPT !.backup = Len(asked')])]
          \/ pvcs' = [pvcs EXCEPT ![p] = StoredPVC(pvcs[p], [pvcs[p] EXCEPT !.restore = Len(asked')])]
      BY <1>4 DEF AnnotatePVC
    <3> QED BY <3>1, <3>2 DEF PVCRecord
  <2>2. pvcs[p].exists
    BY <1>4 DEF AnnotatePVC
  <2>3. /\ Changed(pvcs[p], StoredPVC(pvcs[p], o), clock)
        /\ StoredPVC(pvcs[p], o).restored => pvcs[p].restored
    BY <2>1, <2>2 DEF Changed, StoredPVC
  <2>4. \A q \in PVCs : pvcs'[q] = IF q = p THEN StoredPVC(pvcs[p], o) ELSE pvcs[q]
    BY <1>0, <2>1
  <2> QED BY <2>3, <2>4 DEF Changed
<1>5. ASSUME NEW p \in PVCs, DeletePVC(p) PROVE Unharmed
  BY <1>0, <1>5 DEF DeletePVC, Changed, NewPVC
<1>6. ASSUME UNCHANGED pvcs PROVE Unharmed
  BY <1>6 DEF Changed
<1>7. ASSUME NEW p \in PVCs, OtherWrite(p) PROVE Unharmed
  BY <1>0, <1>7 DEF OtherWrite, Changed, PVCRecord
<1>8. \/ MarkRestored \/ ClearPVCRequest \/ UNCHANGED pvcs
      \/ \E p \in PVCs : CreatePVC(p) \/ AnnotatePVC(p) \/ DeletePVC(p) \/ OtherWrite(p)
  BY Zenon
     DEF Next, WorkerStep, Fetch, Abort, AnnotateConfig, EditSpec, DeleteConfig, SyncConfig, Tick,
         SyncPVC, TaskStep, UserWrites, InitResourceIfConditionMet, InitConfig, SyncRepositories,
         InitRepositories, ListPVCs, PanicWithoutRepository, CreateAutoRestore, ServeConfigRequest,
         ClearConfigRequest, ServePVCRequest, ScheduleBackup, ScheduleForget, WriteStatus, NothingToDo,
         UpdateAndReturn
<1>9. Unharmed
  <2> HIDE DEF Unharmed
  <2> QED BY <1>1, <1>2, <1>3, <1>4, <1>5, <1>6, <1>7, <1>8
<1> QED BY <1>9

(* Which copies there are after a step.                                     *)
LEMMA CopyChanges ==
  ASSUME TypeOK, Next
  PROVE  /\ \A p \in PVCs : pvcCache'[p] \in {pvcCache[p], pvcs[p]}
         /\ \A p \in PVCs : listed'[p] \in {listed[p], NewPVC, pvcCache[p]}
         /\ clock' \in {clock, clock + 1}
         /\ pc' = "mark" => (pc = "mark" /\ at' = at) \/ \E p \in PVCs : CreateAutoRestore(p) /\ at' = p
<1>0. pvcCache \in [PVCs -> PVCRecord]
  BY DEF TypeOK
<1>1. UNCHANGED pvcCache \/ \E p \in PVCs : pvcCache' = [pvcCache EXCEPT ![p] = pvcs[p]]
  BY Zenon
     DEF Next, WorkerStep, Fetch, Abort, AnnotateConfig, EditSpec, DeleteConfig, SyncConfig, Tick, CreatePVC,
         AnnotatePVC, DeletePVC, SyncPVC, OtherWrite, TaskStep, UserWrites, InitResourceIfConditionMet, InitConfig,
         SyncRepositories, InitRepositories, ListPVCs, PanicWithoutRepository, CreateAutoRestore, MarkRestored,
         ServeConfigRequest, ClearConfigRequest, ServePVCRequest, ClearPVCRequest, ScheduleBackup,
         ScheduleForget, WriteStatus, NothingToDo, UpdateAndReturn
<1>2. ASSUME ListPVCs PROVE listed' \in {NoPVCs, pvcCache}
  BY <1>2 DEF ListPVCs
<1>3. \/ UNCHANGED listed \/ listed' = NoPVCs \/ ListPVCs
  BY Zenon
     DEF Next, WorkerStep, Fetch, Abort, AnnotateConfig, EditSpec, DeleteConfig, SyncConfig, Tick, CreatePVC,
         AnnotatePVC, DeletePVC, SyncPVC, OtherWrite, TaskStep, UserWrites, InitResourceIfConditionMet, InitConfig,
         SyncRepositories, InitRepositories, PanicWithoutRepository, CreateAutoRestore, MarkRestored,
         ServeConfigRequest, ClearConfigRequest, ServePVCRequest, ClearPVCRequest, ScheduleBackup,
         ScheduleForget, WriteStatus, NothingToDo, UpdateAndReturn, ToStatus, Idle
<1>4. clock' \in {clock, clock + 1}
  <2>1. UNCHANGED clock \/ Tick
    BY Zenon
       DEF Next, WorkerStep, Fetch, Abort, AnnotateConfig, EditSpec, DeleteConfig, SyncConfig, CreatePVC,
           AnnotatePVC, DeletePVC, SyncPVC, OtherWrite, TaskStep, UserWrites, InitResourceIfConditionMet, InitConfig,
           SyncRepositories, InitRepositories, ListPVCs, PanicWithoutRepository, CreateAutoRestore, MarkRestored,
           ServeConfigRequest, ClearConfigRequest, ServePVCRequest, ClearPVCRequest, ScheduleBackup,
           ScheduleForget, WriteStatus, NothingToDo, UpdateAndReturn
  <2> QED BY <2>1 DEF Tick
<1>5. pc' = "mark" => (pc = "mark" /\ at' = at) \/ \E p \in PVCs : CreateAutoRestore(p) /\ at' = p
  <2>1. ListPVCs => pc' # "mark"
    BY DEF ListPVCs
  <2>2. ASSUME NEW p \in PVCs, CreateAutoRestore(p), pc' = "mark" PROVE at' = p
    BY <2>2 DEF CreateAutoRestore, Idle
  <2> QED BY <2>1, <2>2, Zenon
     DEF Next, WorkerStep, Fetch, Abort, AnnotateConfig, EditSpec, DeleteConfig, SyncConfig, Tick, CreatePVC,
         AnnotatePVC, DeletePVC, SyncPVC, OtherWrite, TaskStep, UserWrites, InitResourceIfConditionMet, InitConfig,
         SyncRepositories, InitRepositories, PanicWithoutRepository, MarkRestored,
         ServeConfigRequest, ClearConfigRequest, ServePVCRequest, ClearPVCRequest, ScheduleBackup,
         ScheduleForget, WriteStatus, NothingToDo, UpdateAndReturn, ToStatus, Idle
<1> QED BY <1>0, <1>1, <1>2, <1>3, <1>4, <1>5 DEF NoPVCs

LEMMA PVCsNext == TypeOK /\ TypeOK' /\ PVCsInv /\ [Next]_vars => PVCsInv'
<1>1. ASSUME PVCsInv, UNCHANGED vars PROVE PVCsInv'
  BY <1>1 DEF PVCsInv, RestoreMade, vars
<1>2. ASSUME TypeOK, TypeOK', PVCsInv, Next PROVE PVCsInv'
  <2>0. /\ \A p \in PVCs : /\ pvcs[p] \in PVCRecord /\ pvcs'[p] \in PVCRecord
                           /\ pvcCache[p] \in PVCRecord /\ listed[p] \in PVCRecord
        /\ clock \in Nat /\ clock' \in Nat
    BY <1>2, BoundsAreNat DEF TypeOK
  <2>1. \A p \in PVCs : /\ Changed(pvcs[p], pvcs'[p], clock)
                        /\ pvcs'[p].restored => pvcs[p].restored \/ RestoreMade(p)
    BY <1>2, PVCChanges
  <2>2. /\ \A p \in PVCs : pvcCache'[p] \in {pvcCache[p], pvcs[p]}
        /\ \A p \in PVCs : listed'[p] \in {listed[p], NewPVC, pvcCache[p]}
        /\ clock <= clock'
        /\ pc' = "mark" => (pc = "mark" /\ at' = at) \/ \E p \in PVCs : CreateAutoRestore(p) /\ at' = p
    BY <1>2, <2>0, CopyChanges
  <2>3. \A p \in PVCs : RestoreMade(p) => RestoreMade(p)'
    BY <1>2, MadeStays
  <2>4. ASSUME NEW p \in PVCs
        PROVE  /\ StoredOK(pvcs'[p]) /\ CopyOK(pvcs'[p], pvcs'[p], clock')
               /\ CopyOK(pvcCache'[p], pvcs'[p], clock')
               /\ CopyOK(listed'[p], pvcs'[p], clock')
    <3>1. /\ StoredOK(pvcs[p]) /\ CopyOK(pvcs[p], pvcs[p], clock)
          /\ CopyOK(pvcCache[p], pvcs[p], clock) /\ CopyOK(listed[p], pvcs[p], clock)
      BY <1>2 DEF PVCsInv
    <3>2. CopyOK(NewPVC, pvcs[p], clock)
      BY <2>0, <3>1 DEF CopyOK, StoredOK, NewPVC, PVCRecord
    <3>3. \A c \in {pvcs[p], pvcCache[p], listed[p], NewPVC} : CopyOK(c, pvcs'[p], clock')
      BY <2>0, <2>1, <2>2, <3>1, <3>2, NewPVCType, CopyStays
    <3>4. StoredOK(pvcs'[p]) /\ CopyOK(pvcs'[p], pvcs'[p], clock')
      BY <2>0, <2>1, <2>2, <3>1, CopyStays
    <3> QED BY <2>2, <3>3, <3>4
  <2>5. ASSUME NEW p \in PVCs, pvcs'[p].restored \/ pvcCache'[p].restored \/ listed'[p].restored
        PROVE  RestoreMade(p)'
    <3>1. pvcs[p].restored \/ pvcCache[p].restored \/ listed[p].restored => RestoreMade(p)
      BY <1>2 DEF PVCsInv
    <3>2. RestoreMade(p)
      BY <2>1, <2>2, <2>5, <3>1 DEF NewPVC
    <3> QED BY <2>3, <3>2
  <2>6. ASSUME pc' = "mark" PROVE RestoreMade(at)'
    <3>1. CASE pc = "mark" /\ at' = at
      <4>1. at \in PVCs /\ RestoreMade(at)
        BY <1>2, <3>1 DEF PVCsInv, TypeOK
      <4> QED BY <1>2, <3>1, <4>1, MadeStays DEF RestoreMade
    <3>2. ASSUME NEW p \in PVCs, CreateAutoRestore(p), at' = p PROVE RestoreMade(at)'
      <4>1. NewTask("restore-automated", p, NoRepo, NoRequest)
        BY <2>6, <3>2 DEF CreateAutoRestore, Idle
      <4> DEFINE t == [kind |-> "restore-automated", pvc |-> p, repo |-> NoRepo, slot |-> clock,
                       request |-> NoRequest, young |-> pvcs[p].born = clock]
      <4>2. made' = Append(made, t) /\ t.kind = "restore-automated" /\ t.pvc = p
        BY <4>1 DEF NewTask
      <4> HIDE DEF t
      <4>3. Len(made) + 1 \in DOMAIN made' /\ made'[Len(made) + 1] = t
        BY <1>2, <4>2 DEF TypeOK
      <4> QED BY <3>2, <4>2, <4>3 DEF RestoreMade
    <3> QED BY <2>2, <2>6, <3>1, <3>2
  <2> QED BY <2>4, <2>5, <2>6 DEF PVCsInv
<1> QED BY <1>1, <1>2

(* The informer's and the worker's copies of a PVC are never ahead of the   *)
(* stored one, and a marked copy is one whose restore has been made.        *)
THEOREM PVCsAgree == Spec => []PVCsInv
<1>1. Init => PVCsInv
  <2> SUFFICES ASSUME Init PROVE PVCsInv
    OBVIOUS
  <2>1. \A p \in PVCs : pvcs[p] = NewPVC /\ pvcCache[p] = NewPVC /\ listed[p] = NewPVC
    BY DEF Init, NoPVCs
  <2>2. CopyOK(NewPVC, NewPVC, clock) /\ StoredOK(NewPVC) /\ ~NewPVC.restored
    BY DEF CopyOK, StoredOK, NewPVC
  <2>3. pc # "mark"
    BY DEF Init
  <2> QED BY <2>1, <2>2, <2>3 DEF PVCsInv
<1>2. TypeOK /\ TypeOK' /\ PVCsInv /\ [Next]_vars => PVCsInv'
  BY PVCsNext
<1> QED BY <1>1, <1>2, ConfigTypes, PTL DEF Spec

(* A PVC that is marked restored has a restore that was made for it.        *)
THEOREM MarksAreHonest == Spec => []MarkIsHonest
<1>1. PVCsInv => MarkIsHonest
  BY DEF PVCsInv, MarkIsHonest, RestoreMade
<1> QED BY <1>1, PVCsAgree, PTL


-----------------------------------------------------------------------------
(* Auto-restore comes first. *)

AnyRestore(p) == \E i \in DOMAIN made : made[i].kind \in Restores /\ made[i].pvc = p

(* What the schedule relies on: the new PVCs it has still to look at have   *)
(* their restore already.                                                   *)
ScheduleSafe ==
  AutoRestore /\ pc = "schedule" =>
    \A p \in todo : listed[p].born = clock => AnyRestore(p)

(* Only the schedule makes scheduled backups.                               *)
LEMMA WhoSchedules ==
  ASSUME TypeOK, Next
  PROVE  \/ UNCHANGED made
         \/ \E t : made' = Append(made, t) /\ t.kind # "backup-scheduled"
         \/ \E p \in PVCs : ScheduleBackup(p)
<1>1. ASSUME NEW kind, NEW p, NEW r, NEW request, NewTask(kind, p, r, request), kind # "backup-scheduled"
      PROVE  \E t : made' = Append(made, t) /\ t.kind # "backup-scheduled"
  BY <1>1 DEF NewTask
<1>2. ASSUME NEW kind, NEW p, NEW r, NEW request, TryNewTask(kind, p, r, request), kind # "backup-scheduled"
      PROVE  UNCHANGED made \/ \E t : made' = Append(made, t) /\ t.kind # "backup-scheduled"
  BY <1>1, <1>2 DEF TryNewTask
<1>3. ASSUME NEW p \in PVCs, CreateAutoRestore(p)
      PROVE  UNCHANGED made \/ \E t : made' = Append(made, t) /\ t.kind # "backup-scheduled"
  BY <1>1, <1>3 DEF CreateAutoRestore
<1>4. ASSUME NEW p \in PVCs, ServeConfigRequest(p)
      PROVE  UNCHANGED made \/ \E t : made' = Append(made, t) /\ t.kind # "backup-scheduled"
  BY <1>2, <1>4 DEF ServeConfigRequest
<1>5. ASSUME NEW p \in PVCs, ServePVCRequest(p)
      PROVE  UNCHANGED made \/ \E t : made' = Append(made, t) /\ t.kind # "backup-scheduled"
  BY <1>2, <1>5 DEF ServePVCRequest
<1>6. \/ UNCHANGED made
      \/ \E p \in PVCs : CreateAutoRestore(p) \/ ServeConfigRequest(p) \/ ServePVCRequest(p) \/ ScheduleBackup(p)
  BY Zenon
     DEF Next, WorkerStep, Fetch, Abort, AnnotateConfig, EditSpec, DeleteConfig, SyncConfig, Tick, CreatePVC,
         AnnotatePVC, DeletePVC, SyncPVC, OtherWrite, TaskStep, UserWrites, InitResourceIfConditionMet, InitConfig,
         SyncRepositories, InitRepositories, ListPVCs, PanicWithoutRepository, MarkRestored,
         ClearConfigRequest, ClearPVCRequest, ScheduleForget, WriteStatus, NothingToDo, UpdateAndReturn
<1> QED BY <1>3, <1>4, <1>5, <1>6

LEMMA SafeNext ==
  TypeOK /\ TypeOK' /\ PVCsInv /\ ScheduleSafe /\ [Next]_vars => ScheduleSafe'
<1>1. ASSUME ScheduleSafe, UNCHANGED vars PROVE ScheduleSafe'
  BY <1>1 DEF ScheduleSafe, AnyRestore, vars
<1>2. ASSUME TypeOK, TypeOK', PVCsInv, Next, AutoRestore, pc' = "schedule",
             NEW p \in todo', listed'[p].born = clock',
             pc = "schedule" => \A q \in todo : listed[q].born = clock => AnyRestore(q)
      PROVE  AnyRestore(p)'
  <2>0. /\ p \in PVCs /\ clock \in Nat
        /\ \A q \in PVCs : listed[q] \in PVCRecord /\ pvcCache[q] \in PVCRecord
    BY <1>2, BoundsAreNat DEF TypeOK
  <2>1. AnyRestore(p) => AnyRestore(p)'
    BY <1>2, MadeStays DEF AnyRestore
  <2>2. CASE ListPVCs
    <3>1. PICK refused \in BOOLEAN : Listing(IF refused THEN NoPVCs ELSE pvcCache)
      BY <2>2, ListPVCsLists
    <3> DEFINE l == IF refused THEN NoPVCs ELSE pvcCache
    <3>2. /\ Unclaimed(l) = {} /\ Requested(l) = {} /\ listed' = l
          /\ todo' = {q \in PVCs : l[q].exists} /\ UNCHANGED <<clock, made>>
      BY <1>2, <2>2, <3>1 DEF Listing, ListPVCs
    <3>3. l[p].exists /\ Young(l[p])
      BY <1>2, <3>2 DEF Young
    <3>4. l[p].restored
      BY <2>0, <3>2, <3>3 DEF Unclaimed, Requested
    <3>5. pvcCache[p].restored
      BY <2>0, <3>3, <3>4 DEF NoPVCs, NewPVC
    <3>6. RestoreMade(p)
      BY <1>2, <2>0, <3>5 DEF PVCsInv
    <3> QED BY <2>1, <3>6 DEF RestoreMade, AnyRestore, Restores
  <2>3. CASE ~ListPVCs
    <3>1. pc = "schedule" /\ p \in todo /\ listed' = listed
      BY <1>2, <2>3, LoopsBegin
    <3>2. clock' \in {clock, clock + 1}
      BY <1>2, CopyChanges
    <3>3. CopyOK(listed[p], pvcs[p], clock) /\ listed[p].exists
      BY <1>2, <2>0, <3>1 DEF PVCsInv, TypeOK
    <3>4. listed[p].born = clock
      BY <1>2, <2>0, <3>1, <3>2, <3>3 DEF CopyOK, PVCRecord
    <3> QED BY <1>2, <2>1, <3>1, <3>4
  <2> QED BY <2>2, <2>3
<1> QED BY <1>1, <1>2 DEF ScheduleSafe

LEMMA FirstNext ==
  TypeOK /\ TypeOK' /\ PVCsInv /\ ScheduleSafe /\ RestoreFirst /\ [Next]_vars => RestoreFirst'
<1>1. ASSUME RestoreFirst, UNCHANGED vars PROVE RestoreFirst'
  BY <1>1 DEF RestoreFirst, vars
<1>2. ASSUME TypeOK, TypeOK', PVCsInv, Next, AutoRestore, ScheduleSafe, RestoreFirst,
             NEW i \in DOMAIN made', made'[i].kind = "backup-scheduled", made'[i].young
      PROVE  \E j \in 1 .. i - 1 : made'[j].kind \in Restores /\ made'[j].pvc = made'[i].pvc
  <2>0. /\ made \in Seq(TaskRecord) /\ made' \in Seq(TaskRecord) /\ clock \in Nat
        /\ \A q \in PVCs : listed[q] \in PVCRecord /\ pvcs[q] \in PVCRecord
    BY <1>2, BoundsAreNat DEF TypeOK
  <2>1. \A j \in DOMAIN made : j \in DOMAIN made' /\ made'[j] = made[j]
    BY <1>2, MadeStays
  <2>2. CASE i \in DOMAIN made
    <3>1. PICK j \in 1 .. i - 1 : made[j].kind \in Restores /\ made[j].pvc = made[i].pvc
      BY <1>2, <2>1, <2>2 DEF RestoreFirst
    <3>2. j \in DOMAIN made
      BY <2>0, <2>2, <3>1
    <3> QED BY <2>1, <2>2, <3>1, <3>2
  <2>3. CASE i \notin DOMAIN made
    <3>1. PICK t : made' = Append(made, t)
      BY <1>2, <2>3, Growth
    <3>2. i = Len(made) + 1 /\ made'[i] = t
      BY <2>0, <2>3, <3>1
    <3>3. PICK p \in PVCs : ScheduleBackup(p)
      <4>1. ~UNCHANGED made
        BY <1>2, <2>3
      <4>2. ~(\E u : made' = Append(made, u) /\ u.kind # "backup-scheduled")
        BY <1>2, <2>0, <2>3
      <4> QED BY <1>2, <4>1, <4>2, WhoSchedules
    <3>4. /\ pc = "schedule" /\ p \in todo
          /\ NewTask("backup-scheduled", p, obj.spec[repo], NoRequest)
      BY <1>2, <2>3, <3>3 DEF ScheduleBackup, TryNewTask
    <3> DEFINE u == [kind |-> "backup-scheduled", pvc |-> p, repo |-> obj.spec[repo], slot |-> clock,
                     request |-> NoRequest, young |-> pvcs[p].born = clock]
    <3>5. made' = Append(made, u) /\ u.pvc = p /\ (u.young <=> pvcs[p].born = clock)
      BY <3>4 DEF NewTask
    <3> HIDE DEF u
    <3>6. made'[i] = u
      BY <2>0, <3>2, <3>5
    <3>7. pvcs[p].born = clock
      BY <1>2, <3>5, <3>6
    <3>8. /\ StoredOK(pvcs[p]) /\ CopyOK(listed[p], pvcs[p], clock) /\ listed[p].exists
      BY <1>2, <3>4 DEF PVCsInv, TypeOK
    <3>9. listed[p].born = clock
      BY <2>0, <3>7, <3>8 DEF CopyOK, StoredOK, PVCRecord
    <3>10. PICK j \in DOMAIN made : made[j].kind \in Restores /\ made[j].pvc = p
      BY <1>2, <3>4, <3>9 DEF ScheduleSafe, AnyRestore
    <3>11. j \in 1 .. i - 1
      BY <2>0, <3>2, <3>10
    <3> QED BY <2>1, <3>5, <3>6, <3>10, <3>11
  <2> QED BY <2>2, <2>3
<1> QED BY <1>1, <1>2 DEF RestoreFirst

(* A schedule never backs up a PVC that is still new, and so may be empty,  *)
(* before a restore of it has been made.                                    *)
THEOREM RestoresComeFirst == Spec => []RestoreFirst
<1>1. Init => ScheduleSafe /\ RestoreFirst
  BY DEF Init, ScheduleSafe, RestoreFirst
<1>2. TypeOK /\ TypeOK' /\ PVCsInv /\ ScheduleSafe /\ RestoreFirst /\ [Next]_vars
        => ScheduleSafe' /\ RestoreFirst'
  BY SafeNext, FirstNext
<1> QED BY <1>1, <1>2, ConfigTypes, PVCsAgree, PTL DEF Spec

-----------------------------------------------------------------------------
(* Requests. *)

SameRequests(o, n) == o.backup = n.backup /\ o.restore = n.restore
Numbered(o) == o.backup <= Len(asked) /\ o.restore <= Len(asked)

(* A copy of the Config is never newer than the stored one, and carries the *)
(* same requests when it is as new.                                         *)
ConfigsInv ==
  /\ Numbered(config) /\ Numbered(configCache) /\ Numbered(obj)
  /\ configCache.rv <= config.rv
  /\ configCache.rv = config.rv => SameRequests(configCache, config)
  /\ pc # "idle" => /\ obj.rv <= config.rv
                    /\ obj.rv = config.rv => SameRequests(obj, config)

(* The PVCs of a request had been created when it was made.                 *)
AskedInv == \A k \in DOMAIN asked : \A p \in asked[k] : pvcs[p].rv > 0

(* The request that is being served.                                        *)
ConfigRequest == IF pc = "configRestore" THEN obj.restore ELSE obj.backup
PVCRequest == IF listed[at].restore # NoRequest THEN listed[at].restore ELSE listed[at].backup

ServingInv ==
  /\ pc \in {"configRestore", "configBackup"} =>
       /\ ConfigRequest # NoRequest
       /\ pc = "configBackup" => obj.restore = NoRequest
       /\ Spared({"create"}) =>
            \A p \in PVCs : listed[p].exists /\ p \notin todo => Answered(ConfigRequest, p)
       /\ Spared({"create", "list", "stalePVC"}) =>
            \A p \in asked[ConfigRequest] : pvcs[p].exists => listed[p].exists
  /\ pc = "clear" => (Spared({"create"}) => Answered(PVCRequest, at))

LEMMA TakenOffIs ==
  ASSUME NEW o, NEW n, NEW k \in TakenOff(o, n)
  PROVE  /\ k # NoRequest
         /\ \/ k = o.backup /\ n.backup = NoRequest
            \/ k = o.restore /\ n.restore = NoRequest
BY DEF TakenOff

LEMMA FaultsAppended ==
  ASSUME Next
  PROVE  UNCHANGED faults \/ \E e : faults' = Append(faults, e)
BY Zenon
   DEF Next, WorkerStep, Fetch, Abort, AnnotateConfig, EditSpec, DeleteConfig, SyncConfig, Tick, CreatePVC,
       AnnotatePVC, DeletePVC, SyncPVC, OtherWrite, TaskStep, UserWrites, InitResourceIfConditionMet, InitConfig,
       SyncRepositories, InitRepositories, ListPVCs, PanicWithoutRepository, CreateAutoRestore, MarkRestored,
       ServeConfigRequest, ClearConfigRequest, ServePVCRequest, ClearPVCRequest, ScheduleBackup,
       ScheduleForget, WriteStatus, NothingToDo, UpdateAndReturn, TryNewTask, Charge

LEMMA FaultsGrow ==
  ASSUME TypeOK, TypeOK', Next, NEW K
  PROVE  /\ Spared(K)' => Spared(K)
         /\ \A e : faults' = Append(faults, e) => (Spared(K)' => e \notin K)
<1>1. faults \in Seq(FaultKinds) /\ faults' \in Seq(FaultKinds)
  BY DEF TypeOK
<1>2. UNCHANGED faults \/ \E e : faults' = Append(faults, e)
  BY FaultsAppended
<1>3. ASSUME NEW e, faults' = Append(faults, e)
      PROVE  /\ \A i \in DOMAIN faults : i \in DOMAIN faults' /\ faults'[i] = faults[i]
             /\ Len(faults) + 1 \in DOMAIN faults' /\ faults'[Len(faults) + 1] = e
  BY <1>1, <1>3
<1>4. ASSUME NEW e, faults' = Append(faults, e), Spared(K)' PROVE e \notin K
  BY <1>3, <1>4 DEF Spared
<1>5. Spared(K)' => Spared(K)
  BY <1>2, <1>3 DEF Spared
<1> QED BY <1>4, <1>5

LEMMA AskedGrows ==
  ASSUME TypeOK, TypeOK', Next
  PROVE  /\ Len(asked) \in Nat /\ Len(asked') \in Nat /\ Len(asked) <= Len(asked')
         /\ DOMAIN asked = 1 .. Len(asked) /\ DOMAIN asked' = 1 .. Len(asked')
         /\ \A k \in DOMAIN asked : asked'[k] = asked[k]
         /\ \A k \in DOMAIN asked' \ DOMAIN asked : asked'[k] = {p \in PVCs : pvcs[p].exists}
<1>1. asked \in Seq(SUBSET PVCs) /\ asked' \in Seq(SUBSET PVCs)
  BY DEF TypeOK
<1>2. UNCHANGED asked \/ Ask
  BY Zenon
     DEF Next, WorkerStep, Fetch, Abort, AnnotateConfig, EditSpec, DeleteConfig, SyncConfig, Tick, CreatePVC,
         AnnotatePVC, DeletePVC, SyncPVC, OtherWrite, TaskStep, UserWrites, InitResourceIfConditionMet, InitConfig,
         SyncRepositories, InitRepositories, ListPVCs, PanicWithoutRepository, CreateAutoRestore, MarkRestored,
         ServeConfigRequest, ClearConfigRequest, ServePVCRequest, ClearPVCRequest, ScheduleBackup,
         ScheduleForget, WriteStatus, NothingToDo, UpdateAndReturn
<1> DEFINE there == {p \in PVCs : pvcs[p].exists}
<1>3. UNCHANGED asked \/ asked' = Append(asked, there)
  BY <1>2 DEF Ask
<1>4. there \in SUBSET PVCs
  OBVIOUS
<1> HIDE DEF there
<1>5. /\ Len(asked) \in Nat /\ Len(asked') \in Nat /\ Len(asked) <= Len(asked')
      /\ DOMAIN asked = 1 .. Len(asked) /\ DOMAIN asked' = 1 .. Len(asked')
      /\ \A k \in DOMAIN asked : asked'[k] = asked[k]
      /\ \A k \in DOMAIN asked' \ DOMAIN asked : asked'[k] = there
  BY <1>1, <1>3, <1>4
<1> QED BY <1>5 DEF there

LEMMA AskedNext ==
  ASSUME TypeOK, TypeOK', PVCsInv, AskedInv, Next
  PROVE  AskedInv'
<1>1. \A p \in PVCs : /\ Changed(pvcs[p], pvcs'[p], clock)
                      /\ pvcs[p] \in PVCRecord /\ pvcs'[p] \in PVCRecord
  BY PVCChanges DEF TypeOK
<1>2. \A p \in PVCs : pvcs[p].rv > 0 => pvcs'[p].rv > 0
  BY <1>1 DEF Changed, PVCRecord
<1>3. \A p \in PVCs : pvcs[p].exists => pvcs[p].rv > 0
  BY <1>1 DEF PVCsInv, CopyOK
<1>4. ASSUME NEW k \in DOMAIN asked', NEW p \in asked'[k] PROVE p \in PVCs /\ pvcs[p].rv > 0
  <2>1. asked'[k] \subseteq PVCs
    BY DEF TypeOK
  <2> QED BY <1>3, <1>4, <2>1, AskedGrows DEF AskedInv
<1> QED BY <1>2, <1>4 DEF AskedInv

(* A write carries the annotations it does not set, or it is refused.       *)
LEMMA StoredKeeps ==
  ASSUME NEW old \in ConfigRecord, NEW o \in ConfigRecord
  PROVE  \/ Stored(old, o) = old
         \/ /\ Stored(old, o).rv = old.rv + 1
            /\ \/ ~Stored(old, o).exists /\ Stored(old, o).backup = NoRequest /\ Stored(old, o).restore = NoRequest
               \/ Stored(old, o).backup = o.backup /\ Stored(old, o).restore = o.restore
BY DEF Stored, NoConfig, ConfigRecord

(* What a step does to the stored Config: nothing, or it deletes it, or it  *)
(* keeps the requests or adds one, or it is the end of a service.           *)
LEMMA ConfigChanges ==
  ASSUME TypeOK, TypeOK', ConfigsInv, ServingInv, Next
  PROVE  \/ UNCHANGED config
         \/ /\ config'.rv = config.rv + 1
            /\ Numbered(config)'
            /\ \/ ~config'.exists
               \/ TakenOff(config, config') = {}
               \/ ClearConfigRequest /\ TakenOff(config, config') \subseteq {ConfigRequest}
<1> DEFINE Good == \/ UNCHANGED config
                   \/ /\ config'.rv = config.rv + 1
                      /\ Numbered(config)'
                      /\ \/ ~config'.exists
                         \/ TakenOff(config, config') = {}
                         \/ ClearConfigRequest /\ TakenOff(config, config') \subseteq {ConfigRequest}
<1>0. /\ config \in ConfigRecord /\ config' \in ConfigRecord /\ obj \in ConfigRecord
      /\ Len(asked) \in Nat /\ Len(asked') \in Nat /\ Len(asked) <= Len(asked')
      /\ config.backup \in Nat /\ config.restore \in Nat /\ config.backup <= Len(asked) /\ config.restore <= Len(asked)
  BY AskedGrows DEF TypeOK, ConfigsInv, Numbered, ConfigRecord
<1>1. ASSUME NEW o \in ConfigRecord, config' = Stored(config, o), o.backup = config.backup, o.restore = config.restore
      PROVE  Good
  <2>1. CASE config' = config
    BY <2>1
  <2>2. CASE config'.backup = NoRequest /\ config'.restore = NoRequest /\ ~config'.exists /\ config'.rv = config.rv + 1
    BY <1>0, <2>2 DEF Numbered, NoRequest
  <2>3. CASE config'.backup = o.backup /\ config'.restore = o.restore /\ config'.rv = config.rv + 1
    <3>1. TakenOff(config, config') = {}
      BY <1>1, <2>3, TakenOffIs
    <3> QED BY <1>0, <1>1, <2>3, <3>1 DEF Numbered
  <2> QED BY <1>0, <1>1, <2>1, <2>2, <2>3, StoredKeeps
<1>2. ASSUME NEW o \in ConfigRecord, UpdateAndReturn(o), pc # "idle", o.backup = obj.backup, o.restore = obj.restore
      PROVE  Good
  <2>1. CASE Fresh
    <3>1. obj.backup = config.backup /\ obj.restore = config.restore
      BY <1>2, <2>1 DEF Fresh, ConfigsInv, SameRequests
    <3> QED BY <1>1, <1>2, <2>1, <3>1 DEF UpdateAndReturn
  <2>2. CASE ~Fresh
    BY <1>2, <2>2 DEF UpdateAndReturn
  <2> QED BY <2>1, <2>2
<1>3. ASSUME InitResourceIfConditionMet PROVE Good
  <2>1. [obj EXCEPT !.finalizer = TRUE] \in ConfigRecord
    BY <1>0 DEF ConfigRecord
  <2>2. [obj EXCEPT !.finalizer = TRUE].backup = obj.backup /\ [obj EXCEPT !.finalizer = TRUE].restore = obj.restore
    BY <1>0 DEF ConfigRecord
  <2> QED BY <1>2, <1>3, <2>1, <2>2 DEF InitResourceIfConditionMet
<1>4. ASSUME WriteStatus PROVE Good
  <2> DEFINE o == [config EXCEPT !.ready = obj.ready, !.repos = obj.repos]
  <2>1. o \in ConfigRecord /\ o.backup = config.backup /\ o.restore = config.restore
    BY <1>0 DEF ConfigRecord
  <2>2. config' = Stored(config, o) \/ config' = config
    BY <1>4 DEF WriteStatus, UpdateAndReturn
  <2> HIDE DEF o
  <2> QED BY <1>1, <2>1, <2>2
<1>5. ASSUME ClearConfigRequest PROVE Good
  <2> DEFINE o == IF pc = "configRestore" THEN [obj EXCEPT !.restore = NoRequest]
                                          ELSE [obj EXCEPT !.backup = NoRequest]
  <2>1. CASE Fresh
    <3>1. obj.backup = config.backup /\ obj.restore = config.restore
      BY <1>5, <2>1 DEF ClearConfigRequest, Fresh, ConfigsInv, SameRequests
    <3>2. o \in ConfigRecord
      BY <1>0 DEF ConfigRecord, NoRequest
    <3>3. \/ pc = "configRestore" /\ o.restore = NoRequest /\ o.backup = obj.backup
          \/ pc = "configBackup" /\ o.backup = NoRequest /\ o.restore = obj.restore /\ obj.restore = NoRequest
      BY <1>0, <1>5 DEF ClearConfigRequest, ServingInv, ConfigRecord
    <3>4. config' = Stored(config, o)
      BY <1>5, <2>1 DEF ClearConfigRequest, UpdateAndReturn
    <3> HIDE DEF o
    <3>5. CASE config' = config
      BY <3>5
    <3>6. CASE config'.backup = NoRequest /\ config'.restore = NoRequest /\ ~config'.exists /\ config'.rv = config.rv + 1
      BY <1>0, <3>6 DEF Numbered, NoRequest
    <3>7. CASE config'.backup = o.backup /\ config'.restore = o.restore /\ config'.rv = config.rv + 1
      <4>1. TakenOff(config, config') \subseteq {ConfigRequest}
        BY <1>5, <3>1, <3>3, <3>7, TakenOffIs DEF ConfigRequest
      <4>2. Numbered(config)'
        BY <1>0, <3>1, <3>3, <3>7 DEF Numbered, NoRequest
      <4> QED BY <1>5, <3>7, <4>1, <4>2
    <3> QED BY <1>0, <3>2, <3>4, <3>5, <3>6, <3>7, StoredKeeps
  <2>2. CASE ~Fresh
    BY <1>5, <2>2 DEF ClearConfigRequest, UpdateAndReturn
  <2> QED BY <2>1, <2>2
<1>6. ASSUME AnnotateConfig PROVE Good
  <2>1. Len(asked') > 0 /\ config.exists
    BY <1>0, <1>6, AskedGrows DEF AnnotateConfig, Ask, TypeOK
  <2>2. PICK o \in ConfigRecord :
          /\ config' = Stored(config, o)
          /\ \/ o.backup = Len(asked') /\ o.restore = config.restore
             \/ o.backup = config.backup /\ o.restore = Len(asked')
    <3>1. \/ config' = Stored(config, [config EXCEPT !.backup = Len(asked')])
          \/ config' = Stored(config, [config EXCEPT !.restore = Len(asked')])
      BY <1>6 DEF AnnotateConfig
    <3>2. /\ [config EXCEPT !.backup = Len(asked')] \in ConfigRecord
          /\ [config EXCEPT !.backup = Len(asked')].backup = Len(asked')
          /\ [config EXCEPT !.backup = Len(asked')].restore = config.restore
      BY <1>0 DEF ConfigRecord
    <3>3. /\ [config EXCEPT !.restore = Len(asked')] \in ConfigRecord
          /\ [config EXCEPT !.restore = Len(asked')].restore = Len(asked')
          /\ [config EXCEPT !.restore = Len(asked')].backup = config.backup
      BY <1>0 DEF ConfigRecord
    <3> QED BY <3>1, <3>2, <3>3
  <2>3. CASE config' = config
    BY <2>3
  <2>4. CASE config'.backup = NoRequest /\ config'.restore = NoRequest /\ ~config'.exists /\ config'.rv = config.rv + 1
    BY <1>0, <2>4 DEF Numbered, NoRequest
  <2>5. CASE config'.backup = o.backup /\ config'.restore = o.restore /\ config'.rv = config.rv + 1
    <3>1. TakenOff(config, config') = {}
      BY <1>0, <2>1, <2>2, <2>5, TakenOffIs DEF NoRequest
    <3> QED BY <1>0, <2>2, <2>5, <3>1 DEF Numbered
  <2> QED BY <1>0, <2>2, <2>3, <2>4, <2>5, StoredKeeps
<1>7. ASSUME EditSpec PROVE Good
  <2>1. PICK t \in Specs : config' = Stored(config, [config EXCEPT !.spec = t])
    BY <1>7 DEF EditSpec
  <2> DEFINE o == [config EXCEPT !.spec = t]
  <2>2. o \in ConfigRecord /\ o.backup = config.backup /\ o.restore = config.restore
    BY <1>0, SpecAssumption DEF ConfigRecord
  <2> QED BY <1>1, <2>1, <2>2
<1>8. ASSUME DeleteConfig PROVE Good
  <2> DEFINE o == [config EXCEPT !.deleting = TRUE]
  <2>2. o \in ConfigRecord /\ o.backup = config.backup /\ o.restore = config.restore
    BY <1>0 DEF ConfigRecord
  <2> QED BY <1>1, <1>8, <2>2 DEF DeleteConfig
<1>9. \/ UNCHANGED config \/ InitResourceIfConditionMet \/ WriteStatus \/ ClearConfigRequest
      \/ AnnotateConfig \/ EditSpec \/ DeleteConfig
  BY Zenon
     DEF Next, WorkerStep, Fetch, Abort, SyncConfig, Tick, CreatePVC,
         AnnotatePVC, DeletePVC, SyncPVC, OtherWrite, TaskStep, UserWrites, InitConfig,
         SyncRepositories, InitRepositories, ListPVCs, PanicWithoutRepository, CreateAutoRestore, MarkRestored,
         ServeConfigRequest, ServePVCRequest, ClearPVCRequest, ScheduleBackup,
         ScheduleForget, NothingToDo
<1>10. Good
  <2> HIDE DEF Good
  <2>1. UNCHANGED config => Good
    BY DEF Good
  <2> QED BY <1>3, <1>4, <1>5, <1>6, <1>7, <1>8, <1>9, <2>1
<1> QED BY <1>10

(* What a step does to the worker's copy of the Config.                     *)
LEMMA ObjChanges ==
  ASSUME TypeOK, Next
  PROVE  \/ pc' = "idle" /\ obj' = NoConfig
         \/ pc' # "idle" /\ pc = "idle" /\ obj' = configCache
         \/ pc = pc' /\ pc = "idle" /\ obj' = obj
         \/ pc # "idle" /\ obj'.rv = obj.rv /\ SameRequests(obj', obj)
<1>0. obj \in ConfigRecord
  BY DEF TypeOK
<1>1. CASE ListPVCs
  <2>1. PICK refused \in BOOLEAN : Listing(IF refused THEN NoPVCs ELSE pvcCache)
    BY <1>1, ListPVCsLists
  <2>2. obj' = obj \/ obj' = [obj EXCEPT !.repos[repo'].backupAt = clock]
    BY <2>1 DEF Listing
  <2> QED BY <1>0, <1>1, <2>2 DEF ListPVCs, SameRequests, ConfigRecord
<1>2. ASSUME NEW o, pc # "idle", ToStatus(o), o.rv = obj.rv, SameRequests(o, obj)
      PROVE  pc # "idle" /\ obj'.rv = obj.rv /\ SameRequests(obj', obj)
  BY <1>2 DEF ToStatus
<1>3. CASE InitConfig
  BY <1>0, <1>2, <1>3 DEF InitConfig, SameRequests, ConfigRecord
<1>4. CASE SyncRepositories
  BY <1>0, <1>2, <1>4 DEF SyncRepositories, SameRequests, ConfigRecord
<1>5. CASE InitRepositories
  <2>1. \/ Idle
        \/ ToStatus([obj EXCEPT !.repos = [i \in DOMAIN @ |-> [@[i] EXCEPT !.ready = TRUE]]])
    BY <1>5 DEF InitRepositories
  <2> QED BY <1>0, <1>2, <1>5, <2>1 DEF InitRepositories, Idle, SameRequests, ConfigRecord
<1>6. CASE ScheduleForget
  BY <1>0, <1>2, <1>6 DEF ScheduleForget, SameRequests, ConfigRecord
<1>7. \/ ListPVCs \/ InitConfig \/ SyncRepositories \/ InitRepositories \/ ScheduleForget
      \/ pc' = "idle" /\ obj' = NoConfig
      \/ pc' # "idle" /\ pc = "idle" /\ obj' = configCache
      \/ pc = pc' /\ obj' = obj
      \/ pc # "idle" /\ obj' = obj
  BY Zenon
     DEF Next, WorkerStep, Fetch, Abort, AnnotateConfig, EditSpec, DeleteConfig, SyncConfig, Tick, CreatePVC,
         AnnotatePVC, DeletePVC, SyncPVC, OtherWrite, TaskStep, UserWrites, InitResourceIfConditionMet,
         PanicWithoutRepository, CreateAutoRestore, MarkRestored,
         ServeConfigRequest, ClearConfigRequest, ServePVCRequest, ClearPVCRequest, ScheduleBackup,
         WriteStatus, NothingToDo, UpdateAndReturn, Idle
<1> QED BY <1>1, <1>3, <1>4, <1>5, <1>6, <1>7 DEF SameRequests

LEMMA ConfigsNext ==
  ASSUME TypeOK, TypeOK', ConfigsInv, ServingInv, Next
  PROVE  ConfigsInv'
<1>0. /\ \A o \in {config, configCache, obj} : o.rv \in Nat /\ o.backup \in Nat /\ o.restore \in Nat
      /\ Len(asked) \in Nat /\ Len(asked') \in Nat /\ Len(asked) <= Len(asked')
  BY AskedGrows DEF TypeOK, ConfigRecord
<1>1. \/ UNCHANGED config
      \/ config'.rv = config.rv + 1 /\ Numbered(config)'
  BY ConfigChanges, Zenon
<1>2. Numbered(config)'
  BY <1>0, <1>1 DEF ConfigsInv, Numbered
<1>3. UNCHANGED configCache \/ SyncConfig
  BY Zenon
     DEF Next, WorkerStep, Fetch, Abort, AnnotateConfig, EditSpec, DeleteConfig, Tick, CreatePVC,
         AnnotatePVC, DeletePVC, SyncPVC, OtherWrite, TaskStep, UserWrites, InitResourceIfConditionMet, InitConfig,
         SyncRepositories, InitRepositories, ListPVCs, PanicWithoutRepository, CreateAutoRestore, MarkRestored,
         ServeConfigRequest, ClearConfigRequest, ServePVCRequest, ClearPVCRequest, ScheduleBackup,
         ScheduleForget, WriteStatus, NothingToDo, UpdateAndReturn
<1>4. /\ Numbered(configCache)' /\ configCache'.rv <= config'.rv
      /\ configCache'.rv = config'.rv => SameRequests(configCache, config)'
  BY <1>0, <1>1, <1>3 DEF SyncConfig, ConfigsInv, Numbered, SameRequests
<1>5. Numbered(obj)'
  BY <1>0, ObjChanges DEF ConfigsInv, Numbered, SameRequests, NoConfig, NoRequest
<1>6. ASSUME pc' # "idle"
      PROVE  obj'.rv <= config'.rv /\ (obj'.rv = config'.rv => SameRequests(obj, config)')
  BY <1>0, <1>1, <1>6, ObjChanges DEF ConfigsInv, SameRequests
<1> QED BY <1>2, <1>4, <1>5, <1>6 DEF ConfigsInv

(* How the stages that serve requests are reached and go on.                *)
LEMMA ServiceGoesOn ==
  ASSUME TypeOK, Next, ~ListPVCs
  PROVE  /\ pc' \in {"configRestore", "configBackup"} =>
              /\ pc = pc' /\ UNCHANGED <<obj, listed>>
              /\ \/ UNCHANGED todo
                 \/ \E p \in PVCs : ServeConfigRequest(p)
         /\ pc' = "clear" => \/ pc = "clear" /\ UNCHANGED <<listed, at>>
                            \/ \E p \in PVCs : ServePVCRequest(p)
<1>1. pc' \in {"configRestore", "configBackup"} =>
        /\ pc = pc' /\ UNCHANGED <<obj, listed>>
        /\ \/ UNCHANGED todo
           \/ \E p \in PVCs : ServeConfigRequest(p)
  BY Zenon
     DEF Next, WorkerStep, Fetch, Abort, AnnotateConfig, EditSpec, DeleteConfig, SyncConfig, Tick, CreatePVC,
         AnnotatePVC, DeletePVC, SyncPVC, OtherWrite, TaskStep, UserWrites, InitResourceIfConditionMet, InitConfig,
         SyncRepositories, InitRepositories, PanicWithoutRepository, CreateAutoRestore, MarkRestored,
         ServeConfigRequest, ClearConfigRequest, ServePVCRequest, ClearPVCRequest, ScheduleBackup,
         ScheduleForget, WriteStatus, NothingToDo, UpdateAndReturn, ToStatus, Idle
<1>2. pc' = "clear" => \/ pc = "clear" /\ UNCHANGED <<listed, at>>
                      \/ \E p \in PVCs : ServePVCRequest(p)
  BY Zenon
     DEF Next, WorkerStep, Fetch, Abort, AnnotateConfig, EditSpec, DeleteConfig, SyncConfig, Tick, CreatePVC,
         AnnotatePVC, DeletePVC, SyncPVC, OtherWrite, TaskStep, UserWrites, InitResourceIfConditionMet, InitConfig,
         SyncRepositories, InitRepositories, PanicWithoutRepository, CreateAutoRestore, MarkRestored,
         ServeConfigRequest, ClearConfigRequest, ClearPVCRequest, ScheduleBackup,
         ScheduleForget, WriteStatus, NothingToDo, UpdateAndReturn, ToStatus, Idle
<1> QED BY <1>1, <1>2

(* A Task that is not refused answers its request.                          *)
LEMMA TaskAnswers ==
  ASSUME TypeOK, TypeOK', Next, NEW kind, NEW p, NEW r, NEW request, TryNewTask(kind, p, r, request),
         Spared({"create"})'
  PROVE  Answered(request, p)'
<1>1. made \in Seq(TaskRecord)
  BY DEF TypeOK
<1>2. CASE faults' = Append(faults, "create")
  BY <1>2, FaultsGrow
<1>3. CASE NewTask(kind, p, r, request)
  <2> DEFINE t == [kind |-> kind, pvc |-> p, repo |-> r, slot |-> clock,
                   request |-> request, young |-> pvcs[p].born = clock]
  <2>1. made' = Append(made, t) /\ t.request = request /\ t.pvc = p
    BY <1>3 DEF NewTask
  <2> HIDE DEF t
  <2>2. Len(made) + 1 \in DOMAIN made' /\ made'[Len(made) + 1] = t
    BY <1>1, <2>1
  <2> QED BY <2>1, <2>2 DEF Answered
<1> QED BY <1>2, <1>3 DEF TryNewTask, Charge

LEMMA AnswersStay ==
  ASSUME TypeOK, TypeOK', Next, NEW k, NEW p, Answered(k, p)
  PROVE  Answered(k, p)'
BY MadeStays DEF Answered

(* The PVCs a request is for are listed, unless the list is bad.            *)
LEMMA ListedAll ==
  ASSUME TypeOK, TypeOK', PVCsInv, AskedInv, ConfigsInv, Next, NEW k \in DOMAIN asked,
         NEW p \in asked[k], pvcs'[p].exists,
         pvcs[p].exists => listed[p].exists, UNCHANGED listed
  PROVE  listed'[p].exists
<1>1. p \in PVCs
  BY DEF TypeOK
<1>2. Changed(pvcs[p], pvcs'[p], clock) /\ pvcs[p] \in PVCRecord /\ pvcs[p].rv > 0
  BY <1>1, PVCChanges DEF TypeOK, AskedInv
<1> QED BY <1>2 DEF Changed, PVCRecord

LEMMA ServingListed ==
  ASSUME TypeOK, TypeOK', PVCsInv, ConfigsInv, ListPVCs, Next
  PROVE  ServingInv'
<1>1. PICK refused \in BOOLEAN :
        /\ Charge(IF refused THEN "list" ELSE "stalePVC", refused \/ pvcCache # pvcs)
        /\ Listing(IF refused THEN NoPVCs ELSE pvcCache)
  BY ListPVCsLists
<1> DEFINE l == IF refused THEN NoPVCs ELSE pvcCache
<1>2. pc' # "clear" /\ listed' = l
  BY <1>1 DEF Listing
<1>3. ASSUME pc' \in {"configRestore", "configBackup"}
      PROVE  /\ ConfigRequest' # NoRequest
             /\ pc' = "configBackup" => obj'.restore = NoRequest
             /\ todo' = {p \in PVCs : l[p].exists}
  BY <1>1, <1>3 DEF Listing, ConfigRequest
<1>4. ASSUME Spared({"create", "list", "stalePVC"})', NEW p \in PVCs, pvcs'[p].exists
      PROVE  listed'[p].exists
  <2>1. ~(refused \/ pvcCache # pvcs)
    <3>1. SUFFICES ASSUME refused \/ pvcCache # pvcs PROVE FALSE
      OBVIOUS
    <3>2. faults' = Append(faults, "list") \/ faults' = Append(faults, "stalePVC")
      BY <1>1, <3>1 DEF Charge
    <3> QED BY <1>4, <3>2, FaultsGrow
  <2>2. pvcs' = pvcs
    BY DEF ListPVCs
  <2> QED BY <1>2, <1>4, <2>1, <2>2
<1>5. ASSUME pc' \in {"configRestore", "configBackup"}
      PROVE  asked'[ConfigRequest'] \subseteq PVCs
  <2>1. ConfigRequest' \in DOMAIN asked
    <3>1. obj' = obj /\ obj.backup \in Nat /\ obj.restore \in Nat
      BY <1>1, <1>5 DEF Listing, TypeOK, ConfigRecord
    <3>2. ConfigRequest' \in {obj.backup, obj.restore}
      BY <3>1 DEF ConfigRequest
    <3> QED BY <1>3, <1>5, <3>1, <3>2, AskedGrows DEF ConfigsInv, Numbered, NoRequest
  <2> QED BY <2>1, AskedGrows DEF TypeOK
<1> QED BY <1>2, <1>3, <1>4, <1>5 DEF ServingInv

LEMMA ServingNext ==
  ASSUME TypeOK, TypeOK', PVCsInv, AskedInv, ConfigsInv, ServingInv, Next
  PROVE  ServingInv'
<1>1. CASE ListPVCs
  BY <1>1, ServingListed
<1>2. CASE ~ListPVCs
  <2>0. \A K : Spared(K)' => Spared(K)
    BY FaultsGrow
  <2>1. ASSUME pc' \in {"configRestore", "configBackup"}
        PROVE  /\ pc = pc' /\ UNCHANGED <<obj, listed>> /\ ConfigRequest' = ConfigRequest
               /\ \/ UNCHANGED todo
                  \/ \E p \in PVCs : ServeConfigRequest(p)
    BY <1>2, <2>1, ServiceGoesOn DEF ConfigRequest
  <2>2. ASSUME pc' \in {"configRestore", "configBackup"}
        PROVE  /\ ConfigRequest' # NoRequest
               /\ pc' = "configBackup" => obj'.restore = NoRequest
    BY <2>1, <2>2 DEF ServingInv
  <2>3. ASSUME pc' \in {"configRestore", "configBackup"}, Spared({"create"})',
               NEW p \in PVCs, listed'[p].exists, p \notin todo'
        PROVE  Answered(ConfigRequest, p)'
    <3>1. CASE p \notin todo
      <4>1. Answered(ConfigRequest, p)
        BY <2>0, <2>1, <2>3, <3>1 DEF ServingInv
      <4>2. PICK k : k = ConfigRequest
        OBVIOUS
      <4>3. Answered(k, p)'
        BY <4>1, <4>2, AnswersStay
      <4> QED BY <2>1, <2>3, <4>2, <4>3 DEF Answered
    <3>2. CASE p \in todo
      <4>1. PICK q \in PVCs : ServeConfigRequest(q)
        BY <2>1, <2>3, <3>2
      <4>2. p = q
        BY <2>3, <3>2, <4>1 DEF ServeConfigRequest
      <4>3. \/ pc = "configRestore" /\ TryNewTask("restore-manual", p, NoRepo, obj.restore)
            \/ pc = "configBackup" /\ TryNewTask("backup-manual", p, NoRepo, obj.backup)
        BY <4>1, <4>2 DEF ServeConfigRequest
      <4>4. \/ pc = "configRestore" /\ Answered(obj.restore, p)'
            \/ pc = "configBackup" /\ Answered(obj.backup, p)'
        BY <2>1, <2>3, <4>3, TaskAnswers DEF Answered
      <4> QED BY <2>1, <2>3, <4>4 DEF ConfigRequest, Answered
    <3> QED BY <3>1, <3>2
  <2>4. ASSUME pc' \in {"configRestore", "configBackup"}, Spared({"create", "list", "stalePVC"})',
               NEW p \in asked'[ConfigRequest'], pvcs'[p].exists
        PROVE  listed'[p].exists
    <3>1. ConfigRequest \in DOMAIN asked
      <4>1. ConfigRequest \in {obj.backup, obj.restore} /\ obj.backup \in Nat /\ obj.restore \in Nat
        BY DEF ConfigRequest, TypeOK, ConfigRecord
      <4> QED BY <2>1, <2>2, <2>4, <4>1, AskedGrows DEF ConfigsInv, Numbered, NoRequest
    <3>2. p \in asked[ConfigRequest]
      BY <2>1, <2>4, <3>1, AskedGrows
    <3>3. pvcs[p].exists => listed[p].exists
      BY <2>0, <2>1, <2>4, <3>2 DEF ServingInv
    <3> QED BY <2>1, <2>4, <3>1, <3>2, <3>3, ListedAll
  <2>5. ASSUME pc' = "clear", Spared({"create"})' PROVE Answered(PVCRequest, at)'
    <3>1. CASE pc = "clear" /\ UNCHANGED <<listed, at>>
      <4>1. PICK k : k = PVCRequest
        OBVIOUS
      <4>2. PICK p : p = at
        OBVIOUS
      <4>3. Answered(k, p)
        BY <2>0, <2>5, <3>1, <4>1, <4>2 DEF ServingInv
      <4>4. Answered(k, p)'
        BY <4>3, AnswersStay
      <4>5. PVCRequest' = k /\ at' = p
        BY <3>1, <4>1, <4>2 DEF PVCRequest
      <4> QED BY <4>4, <4>5 DEF Answered
    <3>2. ASSUME NEW p \in PVCs, ServePVCRequest(p) PROVE Answered(PVCRequest, at)'
      <4>1. at' = p /\ listed' = listed
        BY <3>2 DEF ServePVCRequest
      <4>2. \/ listed[p].restore # NoRequest /\ TryNewTask("restore-manual", p, NoRepo, listed[p].restore)
            \/ listed[p].restore = NoRequest /\ TryNewTask("backup-manual", p, NoRepo, listed[p].backup)
        BY <3>2 DEF ServePVCRequest
      <4>3. \/ listed[p].restore # NoRequest /\ Answered(listed[p].restore, p)'
            \/ listed[p].restore = NoRequest /\ Answered(listed[p].backup, p)'
        BY <2>5, <4>1, <4>2, TaskAnswers DEF Answered
      <4> QED BY <4>1, <4>3 DEF PVCRequest, Answered
    <3> QED BY <1>2, <2>5, <3>1, <3>2, ServiceGoesOn
  <2> QED BY <2>2, <2>3, <2>4, <2>5 DEF ServingInv
<1> QED BY <1>1, <1>2

KeptInv == AskedInv /\ ConfigsInv /\ ServingInv

LEMMA KeptInit == Init => KeptInv
<1> SUFFICES ASSUME Init PROVE KeptInv
  OBVIOUS
<1>1. PICK t \in Specs : config = [NoConfig EXCEPT !.exists = TRUE, !.rv = 1, !.spec = t]
  BY DEF Init
<1>2. config.backup = 0 /\ config.restore = 0 /\ configCache = config /\ obj = NoConfig /\ asked = <<>>
      /\ pc = "idle"
  BY <1>1 DEF Init, NoConfig, NoRequest
<1>3. config.rv = 1
  BY <1>1 DEF NoConfig
<1> QED BY <1>2, <1>3 DEF KeptInv, AskedInv, ConfigsInv, ServingInv, Numbered, SameRequests, NoConfig, NoRequest

LEMMA KeptNext == TypeOK /\ TypeOK' /\ PVCsInv /\ KeptInv /\ [Next]_vars => KeptInv'
<1>1. ASSUME KeptInv, UNCHANGED vars PROVE KeptInv'
  BY <1>1 DEF KeptInv, AskedInv, ConfigsInv, ServingInv, Numbered, SameRequests, ConfigRequest, PVCRequest,
              Answered, Spared, vars
<1>2. ASSUME TypeOK, TypeOK', PVCsInv, KeptInv, Next PROVE KeptInv'
  BY <1>2, AskedNext, ConfigsNext, ServingNext DEF KeptInv
<1> QED BY <1>1, <1>2

(* What a step takes off a PVC: only the request it has served.             *)
LEMMA PVCRequestsServed ==
  ASSUME TypeOK, TypeOK', PVCsInv, KeptInv, Next, Spared({"create"}), NEW p \in PVCs, pvcs'[p].exists,
         NEW k \in TakenOff(pvcs[p], pvcs'[p])
  PROVE  Answered(k, p)
<1>0. /\ pvcs \in [PVCs -> PVCRecord] /\ listed \in [PVCs -> PVCRecord] /\ at \in todo \cup {NoPVC}
      /\ pc \in {"mark", "clear"} => at \in PVCs /\ listed[at].exists
      /\ k # NoRequest
      /\ \/ k = pvcs[p].backup /\ pvcs'[p].backup = NoRequest
         \/ k = pvcs[p].restore /\ pvcs'[p].restore = NoRequest
  BY TakenOffIs DEF TypeOK
<1>1. CASE pvcs'[p] = pvcs[p]
  BY <1>0, <1>1
<1>2. CASE MarkRestored /\ pvcs'[p] # pvcs[p]
  <2>1. p = at /\ FreshPVC(at) /\ listed[at].exists
    BY <1>0, <1>2 DEF MarkRestored
  <2>2. listed[p] = pvcs[p]
    BY <1>0, <2>1 DEF FreshPVC, PVCsInv, CopyOK
  <2>3. pvcs'[p] = StoredPVC(pvcs[p], [listed[p] EXCEPT !.restored = TRUE])
    BY <1>0, <1>2, <2>1 DEF MarkRestored
  <2>4. pvcs'[p].backup = pvcs[p].backup /\ pvcs'[p].restore = pvcs[p].restore
    BY <1>0, <2>2, <2>3 DEF StoredPVC, PVCRecord
  <2> QED BY <1>0, <2>4
<1>3. CASE ClearPVCRequest /\ pvcs'[p] # pvcs[p]
  <2>1. p = at /\ FreshPVC(at) /\ listed[at].exists
    BY <1>0, <1>3 DEF ClearPVCRequest
  <2>2. listed[p] = pvcs[p] /\ pvcs[p] \in PVCRecord
    BY <1>0, <2>1 DEF FreshPVC, PVCsInv, CopyOK
  <2>3. pvcs'[p] = StoredPVC(pvcs[p], IF listed[p].restore # NoRequest
                                      THEN [listed[p] EXCEPT !.restore = NoRequest]
                                      ELSE [listed[p] EXCEPT !.backup = NoRequest])
    BY <1>0, <1>3, <2>1 DEF ClearPVCRequest
  <2>4. \/ listed[p].restore # NoRequest /\ pvcs'[p].backup = pvcs[p].backup
        \/ listed[p].restore = NoRequest /\ pvcs'[p].restore = pvcs[p].restore
    BY <2>2, <2>3 DEF StoredPVC, PVCRecord
  <2>5. k = PVCRequest
    BY <1>0, <2>1, <2>2, <2>4 DEF PVCRequest
  <2> QED BY <1>3, <2>1, <2>5 DEF ClearPVCRequest, KeptInv, ServingInv
<1>4. ASSUME NEW q \in PVCs, CreatePVC(q), pvcs'[p] # pvcs[p] PROVE FALSE
  <2>1. p = q /\ pvcs[p].rv = 0
    BY <1>0, <1>4 DEF CreatePVC
  <2>2. pvcs[p].backup = NoRequest /\ pvcs[p].restore = NoRequest
    BY <2>1 DEF PVCsInv, StoredOK, NewPVC
  <2> QED BY <1>0, <2>2
<1>5. ASSUME NEW q \in PVCs, AnnotatePVC(q), pvcs'[p] # pvcs[p] PROVE FALSE
  <2>1. p = q /\ Len(asked') > 0
    BY <1>0, <1>5, AskedGrows DEF AnnotatePVC, Ask, TypeOK
  <2>2. \/ pvcs'[p] = StoredPVC(pvcs[p], [pvcs[p] EXCEPT !.backup = Len(asked')])
        \/ pvcs'[p] = StoredPVC(pvcs[p], [pvcs[p] EXCEPT !.restore = Len(asked')])
    BY <1>0, <1>5, <2>1 DEF AnnotatePVC
  <2>3. pvcs[p] \in PVCRecord
    BY <1>0
  <2>4. CASE pvcs'[p] = StoredPVC(pvcs[p], [pvcs[p] EXCEPT !.backup = Len(asked')])
    <3>1. pvcs'[p].backup = Len(asked') /\ pvcs'[p].restore = pvcs[p].restore
      BY <1>5, <2>3, <2>4 DEF StoredPVC, PVCRecord
    <3> QED BY <1>0, <2>1, <3>1 DEF NoRequest
  <2>5. CASE pvcs'[p] = StoredPVC(pvcs[p], [pvcs[p] EXCEPT !.restore = Len(asked')])
    <3>1. pvcs'[p].restore = Len(asked') /\ pvcs'[p].backup = pvcs[p].backup
      BY <1>5, <2>3, <2>5 DEF StoredPVC, PVCRecord
    <3> QED BY <1>0, <2>1, <3>1 DEF NoRequest
  <2> QED BY <2>2, <2>4, <2>5
<1>6. ASSUME NEW q \in PVCs, DeletePVC(q), pvcs'[p] # pvcs[p] PROVE FALSE
  BY <1>0, <1>6 DEF DeletePVC, NewPVC
<1>7. ASSUME NEW q \in PVCs, OtherWrite(q) PROVE UNCHANGED <<pvcs[p].backup, pvcs[p].restore>>
  BY <1>0, <1>7 DEF OtherWrite, PVCRecord
<1>8. \/ MarkRestored \/ ClearPVCRequest \/ UNCHANGED pvcs
      \/ \E q \in PVCs : CreatePVC(q) \/ AnnotatePVC(q) \/ DeletePVC(q) \/ OtherWrite(q)
  BY Zenon
     DEF Next, WorkerStep, Fetch, Abort, AnnotateConfig, EditSpec, DeleteConfig, SyncConfig, Tick,
         SyncPVC, TaskStep, UserWrites, InitResourceIfConditionMet, InitConfig, SyncRepositories,
         InitRepositories, ListPVCs, PanicWithoutRepository, CreateAutoRestore, ServeConfigRequest,
         ClearConfigRequest, ServePVCRequest, ScheduleBackup, ScheduleForget, WriteStatus, NothingToDo,
         UpdateAndReturn
<1> QED BY <1>0, <1>1, <1>2, <1>3, <1>4, <1>5, <1>6, <1>7, <1>8

(* What a step takes off the Config: only the request it has served, for    *)
(* every PVC listed, and for every PVC there was if the list was good.      *)
LEMMA ConfigRequestsServed ==
  ASSUME TypeOK, TypeOK', PVCsInv, KeptInv, Next, Spared({"create"}), config'.exists,
         NEW k \in TakenOff(config, config')
  PROVE  /\ \A p \in PVCs : listed[p].exists => Answered(k, p)
         /\ Spared({"create", "list", "stalePVC"}) =>
              \A p \in asked[k] : pvcs[p].exists => Answered(k, p)
<1>1. ~UNCHANGED config
  <2>1. SUFFICES ASSUME UNCHANGED config PROVE FALSE
    OBVIOUS
  <2> QED BY <2>1, TakenOffIs
<1>2. ClearConfigRequest /\ k = ConfigRequest
  BY <1>1, ConfigChanges DEF KeptInv
<1>3. \A p \in PVCs : listed[p].exists => Answered(k, p)
  BY <1>2 DEF ClearConfigRequest, KeptInv, ServingInv
<1>4. ASSUME Spared({"create", "list", "stalePVC"}), NEW p \in asked[k], pvcs[p].exists
      PROVE  Answered(k, p)
  <2>1. p \in PVCs
    <3>1. k \in DOMAIN asked
      <4>0. k # NoRequest
        BY TakenOffIs
      <4>1. k \in {obj.backup, obj.restore} /\ obj.backup \in Nat /\ obj.restore \in Nat /\ k # 0
        BY <1>2, <4>0 DEF ConfigRequest, TypeOK, ConfigRecord, NoRequest
      <4> QED BY <4>1, AskedGrows DEF KeptInv, ConfigsInv, Numbered
    <3> QED BY <1>4, <3>1 DEF TypeOK
  <2>2. listed[p].exists
    BY <1>2, <1>4 DEF ClearConfigRequest, KeptInv, ServingInv
  <2> QED BY <1>3, <2>1, <2>2
<1> QED BY <1>3, <1>4

(* A request is taken off a PVC or off the Config only when a Task that     *)
(* answers it exists, for every PVC listed; and for every PVC there was     *)
(* when the user made the request, unless the list was refused or lagged.   *)
THEOREM RequestsAreKept == Spec => RequestsKept
<1>1. Init => KeptInv
  BY KeptInit
<1>2. TypeOK /\ TypeOK' /\ PVCsInv /\ KeptInv /\ [Next]_vars => KeptInv'
  BY KeptNext
<1>3. TypeOK /\ TypeOK' /\ PVCsInv /\ KeptInv /\ [Next]_vars
        => [/\ Spared({"create"}) => Served
            /\ Spared({"create", "list", "stalePVC"}) => ServedToAll]_vars
  <2>1. ASSUME TypeOK, TypeOK', PVCsInv, KeptInv, Next, Spared({"create"}) PROVE Served
    BY <2>1, PVCRequestsServed, ConfigRequestsServed DEF Served
  <2>2. ASSUME TypeOK, TypeOK', PVCsInv, KeptInv, Next, Spared({"create", "list", "stalePVC"})
        PROVE  ServedToAll
    <3>1. Spared({"create"})
      BY <2>2 DEF Spared
    <3> QED BY <2>2, <3>1, ConfigRequestsServed DEF ServedToAll
  <2> QED BY <2>1, <2>2
<1> QED BY <1>1, <1>2, <1>3, ConfigTypes, PVCsAgree, PTL DEF Spec, RequestsKept

-----------------------------------------------------------------------------
(* How often a PVC is restored automatically. *)

Attempts(p) == Cardinality(AutoRestores(p))

(* The worker is about to restore or to mark p.                             *)
InHand(p) == pc \in {"autoRestore", "mark"} /\ p \in todo

(* What makes a mark conflict: requests, and the writes of others.          *)
Excuses == Len(asked) + Cardinality(OtherWrites)

(* A restore more than there were such writes is one whose mark is set or   *)
(* is about to be: the worker holds the stored copy, and only such a write  *)
(* can make that copy old.                                                  *)
AttemptsOK(p) ==
  /\ Attempts(p) <= 1 + Excuses
  /\ pvcs[p].rv = 0 => Attempts(p) = 0
  /\ InHand(p) => ~pvcs[p].restored
  /\ InHand(p) /\ at # p =>
       /\ Attempts(p) <= Excuses
       /\ pvcs[p].exists /\ ~FreshPVC(p) => Attempts(p) < Excuses
  /\ InHand(p) /\ at = p /\ pvcs[p].exists /\ ~FreshPVC(p) => Attempts(p) <= Excuses
  /\ ~InHand(p) /\ pvcs[p].exists /\ ~pvcs[p].restored => Attempts(p) <= Excuses

AttemptsInv == Spared({"abort", "stalePVC"}) => \A p \in PVCs : AttemptsOK(p)

LEMMA AttemptsFinite ==
  ASSUME TypeOK, NEW p
  PROVE  IsFiniteSet(AutoRestores(p)) /\ Attempts(p) \in Nat
<1>1. Len(made) \in Nat /\ DOMAIN made = 1 .. Len(made)
  BY DEF TypeOK
<1>2. IsFiniteSet(DOMAIN made)
  BY <1>1, FS_Interval
<1>3. AutoRestores(p) \in SUBSET DOMAIN made
  BY DEF AutoRestores
<1>4. IsFiniteSet(AutoRestores(p))
  BY <1>2, <1>3, FS_Subset
<1> QED BY <1>4, FS_CardinalityType DEF Attempts

LEMMA OtherWritesFinite ==
  ASSUME TypeOK
  PROVE  IsFiniteSet(OtherWrites) /\ Cardinality(OtherWrites) \in Nat
<1>1. Len(faults) \in Nat /\ DOMAIN faults = 1 .. Len(faults)
  BY DEF TypeOK
<1>2. IsFiniteSet(DOMAIN faults)
  BY <1>1, FS_Interval
<1>3. OtherWrites \in SUBSET DOMAIN faults
  BY DEF OtherWrites
<1>4. IsFiniteSet(OtherWrites)
  BY <1>2, <1>3, FS_Subset
<1> QED BY <1>4, FS_CardinalityType

(* An adverse event is one more write of others, or not.                    *)
LEMMA OtherWritesCounted ==
  ASSUME TypeOK, NEW e, faults' = Append(faults, e)
  PROVE  Cardinality(OtherWrites)' = Cardinality(OtherWrites) + (IF e = "otherWrite" THEN 1 ELSE 0)
<1>1. /\ DOMAIN faults' = DOMAIN faults \cup {Len(faults) + 1}
      /\ \A i \in DOMAIN faults : faults'[i] = faults[i]
      /\ faults'[Len(faults) + 1] = e
      /\ Len(faults) + 1 \notin DOMAIN faults
  BY DEF TypeOK
<1>2. Len(faults) + 1 \notin OtherWrites
  BY <1>1 DEF OtherWrites
<1>3. Cardinality(OtherWrites) \in Nat
  BY OtherWritesFinite
<1>4. CASE e = "otherWrite"
  <2>1. OtherWrites' = OtherWrites \cup {Len(faults) + 1}
    BY <1>1, <1>4 DEF OtherWrites
  <2> QED BY <1>2, <1>4, <2>1, OtherWritesFinite, FS_AddElement
<1>5. CASE e # "otherWrite"
  <2>1. OtherWrites' = OtherWrites
    BY <1>1, <1>5 DEF OtherWrites
  <2> QED BY <1>3, <1>5, <2>1
<1> QED BY <1>4, <1>5

LEMMA ExcusesGrow ==
  ASSUME TypeOK, TypeOK', Next
  PROVE  /\ Excuses \in Nat /\ Excuses' \in Nat /\ Excuses <= Excuses'
         /\ \A q \in PVCs : AnnotatePVC(q) \/ OtherWrite(q) => Excuses' = Excuses + 1
<1>1. /\ Len(asked) \in Nat /\ Len(asked') \in Nat /\ Len(asked) <= Len(asked')
      /\ Cardinality(OtherWrites) \in Nat
  BY AskedGrows, OtherWritesFinite
<1>2. UNCHANGED faults => Cardinality(OtherWrites)' = Cardinality(OtherWrites)
  BY DEF OtherWrites
<1>3. UNCHANGED faults \/ \E e : faults' = Append(faults, e)
  BY FaultsAppended
<1>4. Cardinality(OtherWrites)' \in Nat /\ Cardinality(OtherWrites) <= Cardinality(OtherWrites)'
  BY <1>1, <1>2, <1>3, OtherWritesCounted
<1>5. ASSUME NEW q \in PVCs, AnnotatePVC(q)
      PROVE  Len(asked') = Len(asked) + 1 /\ UNCHANGED faults
  BY <1>5 DEF AnnotatePVC, Ask, UserWrites, TypeOK
<1>6. ASSUME NEW q \in PVCs, OtherWrite(q)
      PROVE  UNCHANGED asked /\ faults' = Append(faults, "otherWrite")
  BY <1>6 DEF OtherWrite, Charge
<1> QED BY <1>1, <1>2, <1>4, <1>5, <1>6, OtherWritesCounted DEF Excuses

(* A Task is an attempt for one PVC, or for none.                           *)
LEMMA TaskAttempts ==
  ASSUME TypeOK, NEW kind, NEW q, NEW r, NEW request, NewTask(kind, q, r, request), NEW p
  PROVE  /\ kind = "restore-automated" /\ p = q => Attempts(p)' = Attempts(p) + 1
         /\ kind # "restore-automated" \/ p # q => Attempts(p)' = Attempts(p)
<1> DEFINE t == [kind |-> kind, pvc |-> q, repo |-> r, slot |-> clock,
                 request |-> request, young |-> pvcs[q].born = clock]
<1>0. t.kind = kind /\ t.pvc = q
  OBVIOUS
<1>1. /\ DOMAIN made' = DOMAIN made \cup {Len(made) + 1}
      /\ \A i \in DOMAIN made : made'[i] = made[i]
      /\ made'[Len(made) + 1] = t
  <2>1. made' = Append(made, t) /\ made \in Seq(TaskRecord)
    BY DEF NewTask, TypeOK
  <2> HIDE DEF t
  <2> QED BY <2>1
<1> HIDE DEF t
<1>2. Len(made) + 1 \notin DOMAIN made
  BY DEF TypeOK
<1>3. AutoRestores(p)' = IF kind = "restore-automated" /\ p = q
                         THEN AutoRestores(p) \cup {Len(made) + 1} ELSE AutoRestores(p)
  BY <1>0, <1>1 DEF AutoRestores
<1>4. Len(made) + 1 \notin AutoRestores(p)
  BY <1>2 DEF AutoRestores
<1> QED BY <1>3, <1>4, AttemptsFinite, FS_AddElement DEF Attempts

LEMMA AttemptsGrow ==
  ASSUME TypeOK, Next, NEW p \in PVCs
  PROVE  \/ Attempts(p)' = Attempts(p)
         \/ CreateAutoRestore(p)
<1>1. ASSUME UNCHANGED made PROVE Attempts(p)' = Attempts(p)
  BY <1>1 DEF Attempts, AutoRestores
<1>2. ASSUME NEW q \in PVCs, CreateAutoRestore(q), q # p PROVE Attempts(p)' = Attempts(p)
  <2>1. UNCHANGED made \/ NewTask("restore-automated", q, NoRepo, NoRequest)
    BY <1>2 DEF CreateAutoRestore
  <2>2. CASE NewTask("restore-automated", q, NoRepo, NoRequest)
    BY <1>2, <2>2, TaskAttempts
  <2> QED BY <1>1, <2>1, <2>2
<1>3. ASSUME NEW kind, NEW q, NEW r, NEW request, kind # "restore-automated",
             NewTask(kind, q, r, request) \/ TryNewTask(kind, q, r, request)
      PROVE  Attempts(p)' = Attempts(p)
  <2>1. UNCHANGED made \/ NewTask(kind, q, r, request)
    BY <1>3 DEF TryNewTask
  <2>2. CASE NewTask(kind, q, r, request)
    BY <1>3, <2>2, TaskAttempts
  <2> QED BY <1>1, <2>1, <2>2
<1>4. ASSUME NEW q \in PVCs, ServeConfigRequest(q) PROVE Attempts(p)' = Attempts(p)
  BY <1>3, <1>4 DEF ServeConfigRequest
<1>5. ASSUME NEW q \in PVCs, ServePVCRequest(q) PROVE Attempts(p)' = Attempts(p)
  BY <1>3, <1>5 DEF ServePVCRequest
<1>6. ASSUME NEW q \in PVCs, ScheduleBackup(q) PROVE Attempts(p)' = Attempts(p)
  <2>1. \/ UNCHANGED made
        \/ NewTask("backup-scheduled", q, obj.spec[repo], NoRequest)
        \/ TryNewTask("backup-scheduled", q, obj.spec[repo], NoRequest)
    BY <1>6 DEF ScheduleBackup
  <2> QED BY <1>1, <1>3, <2>1
<1>7. \/ UNCHANGED made
      \/ \E q \in PVCs : CreateAutoRestore(q) \/ ServeConfigRequest(q) \/ ServePVCRequest(q) \/ ScheduleBackup(q)
  BY Zenon
     DEF Next, WorkerStep, Fetch, Abort, AnnotateConfig, EditSpec, DeleteConfig, SyncConfig, Tick, CreatePVC,
         AnnotatePVC, DeletePVC, SyncPVC, OtherWrite, TaskStep, UserWrites, InitResourceIfConditionMet, InitConfig,
         SyncRepositories, InitRepositories, ListPVCs, PanicWithoutRepository, MarkRestored,
         ClearConfigRequest, ClearPVCRequest, ScheduleForget, WriteStatus, NothingToDo, UpdateAndReturn
<1> QED BY <1>1, <1>2, <1>4, <1>5, <1>6, <1>7

(* The worker keeps what it has in hand ...                                 *)
LEMMA AttemptsKept ==
  ASSUME TypeOK, TypeOK', Next, NEW p \in PVCs, AttemptsOK(p), Attempts(p)' = Attempts(p), pvcs'[p] = pvcs[p],
         InHand(p)' <=> InHand(p), at' = p <=> at = p, listed'[p] = listed[p]
  PROVE  AttemptsOK(p)'
<1>1. /\ Attempts(p) \in Nat /\ Excuses \in Nat /\ Excuses' \in Nat /\ Excuses <= Excuses'
  BY AttemptsFinite, ExcusesGrow
<1>2. FreshPVC(p)' <=> FreshPVC(p)
  BY DEF FreshPVC
<1> QED BY <1>1, <1>2 DEF AttemptsOK

(* ... or lets go of it, marked or with an old copy.                        *)
LEMMA AttemptsLeft ==
  ASSUME TypeOK, TypeOK', Next, NEW p \in PVCs, AttemptsOK(p), Attempts(p)' = Attempts(p), ~InHand(p)',
         InHand(p) /\ at = p => ~FreshPVC(p),
         pvcs'[p].rv = 0 => pvcs[p].rv = 0,
         pvcs'[p].exists /\ ~pvcs'[p].restored => pvcs[p].exists /\ ~pvcs[p].restored
  PROVE  AttemptsOK(p)'
<1>1. /\ Attempts(p) \in Nat /\ Excuses \in Nat /\ Excuses' \in Nat /\ Excuses <= Excuses'
  BY AttemptsFinite, ExcusesGrow
<1> QED BY <1>1 DEF AttemptsOK

(* It takes stored copies in hand, unless the list lags.                    *)
LEMMA AttemptsListed ==
  ASSUME TypeOK, TypeOK', Next, ListPVCs, Spared({"abort", "stalePVC"})', NEW p \in PVCs, AttemptsOK(p),
         Attempts(p)' = Attempts(p)
  PROVE  AttemptsOK(p)'
<1>1. PICK refused \in BOOLEAN :
        /\ Charge(IF refused THEN "list" ELSE "stalePVC", refused \/ pvcCache # pvcs)
        /\ Listing(IF refused THEN NoPVCs ELSE pvcCache)
  BY ListPVCsLists
<1>2. /\ ~InHand(p) /\ at = NoPVC /\ UNCHANGED <<pvcs, asked>>
  BY DEF ListPVCs, InHand, TypeOK
<1>3. CASE ~InHand(p)'
  BY <1>2, <1>3, AttemptsLeft
<1>4. CASE InHand(p)'
  <2>1. p \in Unclaimed(IF refused THEN NoPVCs ELSE pvcCache)
    BY <1>1, <1>4 DEF Listing, InHand
  <2>2. ~refused
    BY <2>1 DEF Unclaimed, NoPVCs, NewPVC
  <2>3. pvcCache = pvcs
    BY <1>1, <2>2, FaultsGrow DEF Charge
  <2>4. listed'[p] = pvcs[p] /\ pvcs[p].exists /\ ~pvcs[p].restored /\ at' = NoPVC /\ at' # p
    BY <1>1, <1>2, <2>1, <2>2, <2>3, NoPVCAssumption DEF Listing, Unclaimed
  <2>5. Attempts(p) <= Excuses /\ FreshPVC(p)' /\ (pvcs[p].rv = 0 => Attempts(p) = 0)
    BY <1>2, <2>4 DEF AttemptsOK, FreshPVC
  <2>6. Attempts(p) \in Nat /\ Excuses \in Nat /\ Excuses' \in Nat /\ Excuses <= Excuses'
    BY AttemptsFinite, ExcusesGrow
  <2> QED BY <1>2, <1>4, <2>4, <2>5, <2>6 DEF AttemptsOK
<1> QED BY <1>3, <1>4

LEMMA AttemptMade ==
  ASSUME TypeOK, TypeOK', PVCsInv, Next, NEW q \in PVCs, CreateAutoRestore(q), NEW p \in PVCs, AttemptsOK(p)
  PROVE  AttemptsOK(p)'
<1>1. /\ pc = "autoRestore" /\ q \in todo /\ at = NoPVC /\ at # p /\ at # q
      /\ UNCHANGED <<pvcs, asked>> /\ listed[q].exists
  BY NoPVCAssumption DEF CreateAutoRestore, TypeOK
<1>2. CASE Idle /\ UNCHANGED taskVars
  <2>1. ~InHand(p)' /\ Attempts(p)' = Attempts(p)
    BY <1>2 DEF Idle, InHand, Attempts, AutoRestores
  <2> QED BY <1>1, <2>1, AttemptsLeft
<1>3. CASE /\ NewTask("restore-automated", q, NoRepo, NoRequest)
           /\ pc' = "mark" /\ at' = q /\ UNCHANGED <<obj, listed, todo, repo>>
  <2>1. InHand(p)' <=> InHand(p)
    BY <1>1, <1>3 DEF InHand
  <2>2. CASE p # q
    <3>1. Attempts(p)' = Attempts(p)
      BY <1>3, <2>2, TaskAttempts
    <3> QED BY <1>1, <1>3, <2>1, <2>2, <3>1, AttemptsKept
  <2>3. CASE p = q
    <3>1. Attempts(p)' = Attempts(p) + 1
      BY <1>3, <2>3, TaskAttempts
    <3>2. InHand(p) /\ InHand(p)' /\ at' = p
      BY <1>1, <1>3, <2>1, <2>3 DEF InHand
    <3>3. pvcs[p].rv # 0
      <4>1. CopyOK(listed[p], pvcs[p], clock)
        BY DEF PVCsInv
      <4> QED BY <1>1, <2>3, <4>1 DEF CopyOK
    <3>4. /\ Attempts(p) <= Excuses /\ ~pvcs[p].restored
          /\ pvcs[p].exists /\ ~FreshPVC(p) => Attempts(p) < Excuses
      BY <1>1, <3>2 DEF AttemptsOK
    <3>5. Attempts(p) \in Nat /\ Excuses \in Nat /\ Excuses' \in Nat /\ Excuses <= Excuses'
      BY AttemptsFinite, ExcusesGrow
    <3>6. FreshPVC(p)' <=> FreshPVC(p)
      BY <1>1, <1>3 DEF FreshPVC
    <3> QED BY <1>1, <3>1, <3>2, <3>3, <3>4, <3>5, <3>6 DEF AttemptsOK
  <2> QED BY <2>2, <2>3
<1> QED BY <1>2, <1>3 DEF CreateAutoRestore

LEMMA AttemptMarked ==
  ASSUME TypeOK, TypeOK', PVCsInv, Next, MarkRestored, NEW p \in PVCs, AttemptsOK(p)
  PROVE  AttemptsOK(p)'
<1>1. /\ pc = "mark" /\ at \in PVCs /\ at \in todo /\ listed[at].exists /\ UNCHANGED <<made, asked>>
      /\ pvcs \in [PVCs -> PVCRecord]
  BY DEF MarkRestored, TypeOK
<1>2. Attempts(p)' = Attempts(p)
  BY <1>1 DEF Attempts, AutoRestores
<1>3. CASE ~FreshPVC(at)
  <2>1. ~InHand(p)' /\ UNCHANGED pvcs
    BY <1>3 DEF MarkRestored, Idle, InHand
  <2> QED BY <1>2, <1>3, <2>1, AttemptsLeft
<1>4. CASE FreshPVC(at)
  <2>1. listed[at] = pvcs[at] /\ pvcs[at].rv # 0
    BY <1>1, <1>4 DEF FreshPVC, PVCsInv, CopyOK
  <2>2. \/ Idle /\ todo = {at}
        \/ pc' = "autoRestore" /\ todo' = todo \ {at} /\ at' = NoPVC /\ listed' = listed
    BY <1>4 DEF MarkRestored
  <2>3. pvcs' = [pvcs EXCEPT ![at] = StoredPVC(pvcs[at], [listed[at] EXCEPT !.restored = TRUE])]
    BY <1>4 DEF MarkRestored
  <2>4. CASE p = at
    <3>1. ~InHand(p)'
      BY <2>2, <2>4 DEF Idle, InHand
    <3>2. pvcs'[p].restored /\ pvcs'[p].rv # 0
      BY <1>1, <2>1, <2>3, <2>4 DEF StoredPVC, PVCRecord
    <3>3. Attempts(p) <= 1 + Excuses
      BY DEF AttemptsOK
    <3>4. Attempts(p) \in Nat /\ Excuses \in Nat /\ Excuses' \in Nat /\ Excuses <= Excuses'
      BY AttemptsFinite, ExcusesGrow
    <3> QED BY <1>1, <1>2, <3>1, <3>2, <3>3, <3>4 DEF AttemptsOK
  <2>5. CASE p # at
    <3>1. pvcs'[p] = pvcs[p]
      BY <1>1, <2>3, <2>5
    <3>2. CASE p \in todo
      <4>1. InHand(p) /\ InHand(p)' /\ at' # p /\ listed' = listed
        BY <1>1, <2>2, <2>5, <3>2, NoPVCAssumption DEF InHand
      <4> QED BY <1>2, <2>5, <3>1, <4>1, AttemptsKept
    <3>3. CASE p \notin todo
      <4>1. ~InHand(p) /\ ~InHand(p)'
        BY <2>2, <3>3 DEF InHand, Idle
      <4> QED BY <1>2, <3>1, <4>1, AttemptsLeft
    <3> QED BY <3>2, <3>3
  <2> QED BY <2>4, <2>5
<1> QED BY <1>3, <1>4

(* What others do to a PVC: whoever makes the copy in hand old has made a   *)
(* request or a write that is counted, or has deleted the PVC.              *)
LEMMA AttemptDisturbed ==
  ASSUME TypeOK, TypeOK', PVCsInv, Next, NEW q \in PVCs,
         CreatePVC(q) \/ AnnotatePVC(q) \/ DeletePVC(q) \/ OtherWrite(q), NEW p \in PVCs, AttemptsOK(p)
  PROVE  AttemptsOK(p)'
<1>1. /\ UNCHANGED <<pc, todo, at, listed, made>> /\ pvcs \in [PVCs -> PVCRecord]
      /\ \A i \in PVCs : i # q => pvcs'[i] = pvcs[i]
  BY DEF CreatePVC, AnnotatePVC, DeletePVC, OtherWrite, UserWrites, TypeOK
<1>2. Attempts(p)' = Attempts(p) /\ (InHand(p)' <=> InHand(p))
  BY <1>1 DEF Attempts, AutoRestores, InHand
<1>3. CASE p # q
  BY <1>1, <1>2, <1>3, AttemptsKept
<1>4. /\ Attempts(p) \in Nat /\ Excuses \in Nat /\ Excuses' \in Nat /\ Excuses <= Excuses'
      /\ pvcs[p] \in PVCRecord /\ pvcs[p].rv \in Nat
  BY <1>1, AttemptsFinite, ExcusesGrow DEF PVCRecord
<1>5. pvcs[p].exists \/ InHand(p) => pvcs[p].rv # 0
  <2>1. InHand(p) => listed[p].exists
    BY DEF InHand, TypeOK
  <2> QED BY <2>1 DEF PVCsInv, CopyOK
<1>6. CASE CreatePVC(q) /\ p = q
  <2>1. pvcs[p].rv = 0 /\ pvcs'[p].rv = 1
    BY <1>1, <1>6 DEF CreatePVC
  <2>2. Attempts(p) = 0 /\ ~InHand(p)
    BY <1>5, <2>1 DEF AttemptsOK
  <2>3. Attempts(p)' = 0
    BY <1>2, <2>2
  <2>4. Attempts(p)' <= Excuses' /\ Attempts(p)' <= 1 + Excuses'
    <3>1. \A a, e \in Nat : a = 0 => a <= e /\ a <= 1 + e
      OBVIOUS
    <3>2. Attempts(p)' \in Nat /\ Excuses' \in Nat
      BY <1>4, <2>3
    <3> QED BY Zenon, <2>3, <3>1, <3>2
  <2>5. ~InHand(p)'
    BY Zenon, <1>2, <2>2
  <2>6. pvcs'[p].rv # 0
    BY <2>1
  <2> QED BY <2>4, <2>5, <2>6 DEF AttemptsOK
<1>7. CASE AnnotatePVC(q) /\ p = q
  <2>1. Excuses' = Excuses + 1 /\ Len(asked') \in Nat /\ pvcs[p].exists
    BY <1>7, ExcusesGrow, AskedGrows DEF AnnotatePVC
  <2>2. \/ pvcs'[p] = StoredPVC(pvcs[p], [pvcs[p] EXCEPT !.backup = Len(asked')])
        \/ pvcs'[p] = StoredPVC(pvcs[p], [pvcs[p] EXCEPT !.restore = Len(asked')])
    BY <1>1, <1>7 DEF AnnotatePVC
  <2>3. pvcs'[p].rv # 0 /\ pvcs'[p].restored = pvcs[p].restored
    <3>1. pvcs[p].rv + 1 # 0 /\ pvcs[p].rv # 0
      BY <1>4, <1>5, <2>1
    <3>2. CASE pvcs'[p] = StoredPVC(pvcs[p], [pvcs[p] EXCEPT !.backup = Len(asked')])
      BY <1>4, <3>1, <3>2 DEF StoredPVC, PVCRecord
    <3>3. CASE pvcs'[p] = StoredPVC(pvcs[p], [pvcs[p] EXCEPT !.restore = Len(asked')])
      BY <1>4, <3>1, <3>3 DEF StoredPVC, PVCRecord
    <3> QED BY <2>2, <3>2, <3>3
  <2>4. /\ Attempts(p) <= 1 + Excuses
        /\ InHand(p) => ~pvcs[p].restored
        /\ InHand(p) /\ at # p => Attempts(p) <= Excuses
    BY DEF AttemptsOK
  <2> QED BY <1>1, <1>2, <1>4, <2>1, <2>3, <2>4 DEF AttemptsOK
<1>8. CASE DeletePVC(q) /\ p = q
  <2>1. pvcs'[p] = [NewPVC EXCEPT !.rv = pvcs[p].rv + 1]
    BY <1>1, <1>8 DEF DeletePVC
  <2>2. ~pvcs'[p].exists /\ ~pvcs'[p].restored /\ pvcs'[p].rv # 0
    BY <1>4, <2>1 DEF NewPVC
  <2>3. /\ Attempts(p) <= 1 + Excuses
        /\ InHand(p) /\ at # p => Attempts(p) <= Excuses
    BY DEF AttemptsOK
  <2> QED BY <1>1, <1>2, <1>4, <2>2, <2>3 DEF AttemptsOK
<1>9. CASE OtherWrite(q) /\ p = q
  <2>1. Excuses' = Excuses + 1 /\ pvcs[p].exists
    BY <1>9, ExcusesGrow DEF OtherWrite
  <2>2. pvcs'[p] = [pvcs[p] EXCEPT !.rv = pvcs[p].rv + 1]
    BY <1>1, <1>9 DEF OtherWrite
  <2>3. pvcs'[p].rv # 0 /\ pvcs'[p].exists /\ pvcs'[p].restored = pvcs[p].restored
    BY <1>4, <2>1, <2>2 DEF PVCRecord
  <2>4. /\ Attempts(p) <= 1 + Excuses
        /\ InHand(p) => ~pvcs[p].restored
        /\ InHand(p) /\ at # p => Attempts(p) <= Excuses
    BY DEF AttemptsOK
  <2> QED BY <1>1, <1>2, <1>4, <2>1, <2>3, <2>4 DEF AttemptsOK
<1> QED BY <1>3, <1>6, <1>7, <1>8, <1>9

(* A PVC request served leaves the mark as it was.                          *)
LEMMA AttemptCleared ==
  ASSUME TypeOK, TypeOK', PVCsInv, Next, ClearPVCRequest, NEW p \in PVCs, AttemptsOK(p)
  PROVE  AttemptsOK(p)'
<1>1. /\ pc = "clear" /\ at \in PVCs /\ listed[at].exists /\ UNCHANGED made /\ pvcs \in [PVCs -> PVCRecord]
      /\ pc' = "idle"
  BY DEF ClearPVCRequest, Idle, TypeOK
<1>2. Attempts(p)' = Attempts(p) /\ ~InHand(p) /\ ~InHand(p)'
  BY <1>1 DEF Attempts, AutoRestores, InHand
<1>3. CASE pvcs'[p] = pvcs[p]
  BY <1>2, <1>3, AttemptsLeft
<1>4. CASE pvcs'[p] # pvcs[p]
  <2>1. p = at /\ FreshPVC(at)
    BY <1>1, <1>4 DEF ClearPVCRequest
  <2>2. listed[at] = pvcs[at] /\ pvcs[at].rv # 0 /\ pvcs[at] \in PVCRecord
    BY <1>1, <2>1 DEF FreshPVC, PVCsInv, CopyOK
  <2>3. pvcs'[p] = StoredPVC(pvcs[p], IF listed[p].restore # NoRequest
                                      THEN [listed[p] EXCEPT !.restore = NoRequest]
                                      ELSE [listed[p] EXCEPT !.backup = NoRequest])
    BY <1>1, <2>1 DEF ClearPVCRequest
  <2>4. /\ pvcs'[p].rv # 0 /\ pvcs'[p].exists = pvcs[p].exists /\ pvcs'[p].restored = pvcs[p].restored
    BY <2>1, <2>2, <2>3 DEF StoredPVC, PVCRecord
  <2> QED BY <1>2, <2>4, AttemptsLeft
<1> QED BY <1>3, <1>4

(* All other steps leave the PVCs alone, and what the worker has in hand,   *)
(* or end the reconcile before a restore is made.                           *)
LEMMA HandsOff ==
  ASSUME TypeOK, Next, NEW p \in PVCs
  PROVE  \/ ListPVCs \/ MarkRestored \/ ClearPVCRequest \/ Abort
         \/ \E q \in PVCs : CreateAutoRestore(q) \/ CreatePVC(q) \/ AnnotatePVC(q) \/ DeletePVC(q) \/ OtherWrite(q)
         \/ UNCHANGED <<pvcs, listed, todo, at, pc>>
         \/ UNCHANGED pvcs /\ ~InHand(p)' /\ at # p
<1>1. \/ ListPVCs \/ MarkRestored \/ ClearPVCRequest \/ Abort
      \/ \E q \in PVCs : CreateAutoRestore(q) \/ CreatePVC(q) \/ AnnotatePVC(q) \/ DeletePVC(q) \/ OtherWrite(q)
      \/ UNCHANGED <<pvcs, listed, todo, at, pc>>
      \/ UNCHANGED pvcs /\ pc \notin {"mark", "clear"} /\ pc' \notin {"autoRestore", "mark"}
  <2>1. ASSUME NEW q \in PVCs, ServeConfigRequest(q)
        PROVE  UNCHANGED pvcs /\ pc \notin {"mark", "clear"} /\ pc' \notin {"autoRestore", "mark"}
    BY <2>1 DEF ServeConfigRequest
  <2>2. ASSUME NEW q \in PVCs, ServePVCRequest(q)
        PROVE  UNCHANGED pvcs /\ pc \notin {"mark", "clear"} /\ pc' \notin {"autoRestore", "mark"}
    BY <2>2 DEF ServePVCRequest
  <2>3. ASSUME NEW q \in PVCs, ScheduleBackup(q)
        PROVE  UNCHANGED pvcs /\ pc \notin {"mark", "clear"} /\ pc' \notin {"autoRestore", "mark"}
    BY <2>3 DEF ScheduleBackup
  <2>4. ASSUME \/ Fetch \/ InitResourceIfConditionMet \/ InitConfig \/ SyncRepositories \/ InitRepositories
               \/ PanicWithoutRepository \/ ClearConfigRequest \/ ScheduleForget \/ WriteStatus \/ NothingToDo
        PROVE  UNCHANGED pvcs /\ pc \notin {"mark", "clear"} /\ pc' \notin {"autoRestore", "mark"}
    BY <2>4 DEF Fetch, InitResourceIfConditionMet, InitConfig, SyncRepositories, InitRepositories,
                PanicWithoutRepository, ClearConfigRequest, ScheduleForget, WriteStatus, NothingToDo,
                UpdateAndReturn, ToStatus, Idle
  <2>5. \/ ListPVCs \/ MarkRestored \/ ClearPVCRequest \/ Abort
        \/ \E q \in PVCs : CreateAutoRestore(q) \/ CreatePVC(q) \/ AnnotatePVC(q) \/ DeletePVC(q) \/ OtherWrite(q)
        \/ UNCHANGED <<pvcs, listed, todo, at, pc>>
        \/ Fetch \/ InitResourceIfConditionMet \/ InitConfig \/ SyncRepositories \/ InitRepositories
        \/ PanicWithoutRepository \/ ClearConfigRequest \/ ScheduleForget \/ WriteStatus \/ NothingToDo
        \/ \E q \in PVCs : ServeConfigRequest(q) \/ ServePVCRequest(q) \/ ScheduleBackup(q)
    BY Zenon
       DEF Next, WorkerStep, AnnotateConfig, EditSpec, DeleteConfig, SyncConfig, Tick, SyncPVC, TaskStep, UserWrites
  <2> QED BY <2>1, <2>2, <2>3, <2>4, <2>5
<1>2. pc \notin {"mark", "clear"} => at # p
  BY NoPVCAssumption DEF TypeOK
<1> QED BY <1>1, <1>2 DEF InHand

LEMMA AttemptsNext == TypeOK /\ TypeOK' /\ PVCsInv /\ AttemptsInv /\ [Next]_vars => AttemptsInv'
<1>1. ASSUME AttemptsInv, UNCHANGED vars PROVE AttemptsInv'
  BY <1>1 DEF AttemptsInv, AttemptsOK, Attempts, AutoRestores, Excuses, OtherWrites, InHand, FreshPVC,
              Spared, vars
<1>2. ASSUME TypeOK, TypeOK', PVCsInv, AttemptsInv, Next, Spared({"abort", "stalePVC"})', NEW p \in PVCs
      PROVE  AttemptsOK(p)'
  <2>1. AttemptsOK(p)
    BY <1>2, FaultsGrow DEF AttemptsInv
  <2>2. \/ Attempts(p)' = Attempts(p)
        \/ CreateAutoRestore(p)
    BY <1>2, AttemptsGrow
  <2>3. CASE Attempts(p)' = Attempts(p) /\ ListPVCs
    BY <1>2, <2>1, <2>3, AttemptsListed
  <2>4. CASE MarkRestored
    BY <1>2, <2>1, <2>4, AttemptMarked
  <2>5. CASE ClearPVCRequest
    BY <1>2, <2>1, <2>5, AttemptCleared
  <2>6. CASE Abort
    BY <1>2, <2>6, FaultsGrow DEF Abort, Charge
  <2>7. ASSUME NEW q \in PVCs, CreateAutoRestore(q) PROVE AttemptsOK(p)'
    BY <1>2, <2>1, <2>7, AttemptMade
  <2>8. ASSUME NEW q \in PVCs, CreatePVC(q) \/ AnnotatePVC(q) \/ DeletePVC(q) \/ OtherWrite(q) PROVE AttemptsOK(p)'
    BY <1>2, <2>1, <2>8, AttemptDisturbed
  <2>9. CASE Attempts(p)' = Attempts(p) /\ UNCHANGED <<pvcs, listed, todo, at, pc>>
    <3>1. InHand(p)' <=> InHand(p)
      BY <2>9 DEF InHand
    <3> QED BY <1>2, <2>1, <2>9, <3>1, AttemptsKept
  <2>10. CASE Attempts(p)' = Attempts(p) /\ UNCHANGED pvcs /\ ~InHand(p)' /\ at # p
    BY <1>2, <2>1, <2>10, AttemptsLeft
  <2> QED BY <1>2, <2>2, <2>3, <2>4, <2>5, <2>6, <2>7, <2>8, <2>9, <2>10, HandsOff
<1> QED BY <1>1, <1>2 DEF AttemptsInv

(* However users, the writers of PVCs and the worker interleave, whatever   *)
(* Task or list is refused: a PVC is restored automatically once, and once  *)
(* more at most for each request and each write of others, unless a         *)
(* reconcile dies or lists PVCs from a late cache.                          *)
THEOREM RestoresStayBounded == Spec => []RestoresBounded
<1>1. Init => AttemptsInv
  <2> SUFFICES ASSUME Init, NEW p \in PVCs PROVE AttemptsOK(p)
    BY DEF AttemptsInv
  <2>1. AutoRestores(p) = {} /\ Len(asked) = 0 /\ pc = "idle" /\ ~pvcs[p].exists
    BY DEF Init, AutoRestores, NoPVCs, NewPVC
  <2>2. OtherWrites = {}
    BY DEF Init, OtherWrites
  <2>3. Attempts(p) = 0 /\ Excuses = 0
    BY <2>1, <2>2, FS_EmptySet DEF Attempts, Excuses
  <2> QED BY <2>1, <2>3 DEF AttemptsOK, InHand
<1>2. TypeOK /\ TypeOK' /\ PVCsInv /\ AttemptsInv /\ [Next]_vars => AttemptsInv'
  BY AttemptsNext
<1>3. TypeOK /\ AttemptsInv => RestoresBounded
  <2>1. TypeOK => Len(asked) \in Nat /\ Cardinality(OtherWrites) \in Nat
    BY OtherWritesFinite DEF TypeOK
  <2>2. ASSUME TypeOK, NEW p \in PVCs, AttemptsOK(p)
        PROVE  Cardinality(AutoRestores(p)) <= 1 + Len(asked) + Cardinality(OtherWrites)
    <3>1. Attempts(p) \in Nat /\ Attempts(p) <= 1 + Excuses
      BY <2>2, AttemptsFinite DEF AttemptsOK
    <3> QED BY <2>1, <2>2, <3>1 DEF Attempts, Excuses
  <2> QED BY <2>2 DEF AttemptsInv, RestoresBounded
<1> QED BY <1>1, <1>2, <1>3, ConfigTypes, PVCsAgree, PTL DEF Spec

(* Both bounds: at least one restore for the mark, at most one more for     *)
(* each request and each write of others.                                   *)
THEOREM RestoresAreCounted == Spec => []RestoresCounted
BY MarksAreHonest, RestoresStayBounded, PTL DEF RestoresCounted

-----------------------------------------------------------------------------
(* Timestamps, when no user lists a target twice. *)

OneEach(spec) == \A i, j \in DOMAIN spec : spec[i] = spec[j] => i = j
Distinct(q) == \A i, j \in DOMAIN q : q[i].target = q[j].target => i = j
Past(q, now) == \A i \in DOMAIN q : q[i].backupAt <= now

(* No backup of u is earlier than the one q has for the same target.        *)
NotBefore(q, u) ==
  \A i \in DOMAIN q, j \in DOMAIN u : q[i].target = u[j].target => q[i].backupAt <= u[j].backupAt

(* u is q, but for entries whose backup is recorded now.                    *)
Advanced(q, u, now) ==
  /\ DOMAIN u = DOMAIN q
  /\ \A i \in DOMAIN q : u[i].target = q[i].target /\ u[i].backupAt \in {q[i].backupAt, now}

Sound(o, now) == OneEach(o.spec) /\ Distinct(o.repos) /\ Past(o.repos, now)

(* The times in a copy of the Config are those of the stored one, or later  *)
(* ones about to be written, when the copy is as new.                       *)
TimesInv ==
  /\ Sound(config, clock) /\ Sound(configCache, clock) /\ Sound(obj, clock)
  /\ configCache.rv <= config.rv
  /\ configCache.rv = config.rv => configCache.repos = config.repos
  /\ pc # "idle" => obj.rv <= config.rv
  /\ pc \notin {"idle", "status", "schedule"} /\ obj.rv = config.rv => obj.repos = config.repos
  /\ pc \in {"status", "schedule"} /\ obj.rv = config.rv => NotBefore(config.repos, obj.repos)

LEMMA TimesType ==
  ASSUME NEW o \in ConfigRecord
  PROVE  /\ DOMAIN o.repos \subseteq Nat /\ DOMAIN o.spec \subseteq Nat
         /\ \A i \in DOMAIN o.repos : o.repos[i] \in RepoStatus /\ o.repos[i].backupAt \in Int
<1>1. o.repos \in Seq(RepoStatus) /\ o.spec \in Seq(Repos)
  BY DEF ConfigRecord
<1>2. \A e \in RepoStatus : e.backupAt \in Int
  BY DEF RepoStatus, Never
<1>3. DOMAIN o.repos = 1 .. Len(o.repos) /\ DOMAIN o.spec = 1 .. Len(o.spec)
  BY <1>1
<1> QED BY <1>1, <1>2, <1>3

LEMMA SameIsNotBefore ==
  ASSUME NEW o \in ConfigRecord, Distinct(o.repos)
  PROVE  NotBefore(o.repos, o.repos)
<1>1. ASSUME NEW i \in DOMAIN o.repos, NEW j \in DOMAIN o.repos, o.repos[i].target = o.repos[j].target
      PROVE  o.repos[i].backupAt <= o.repos[j].backupAt
  <2>1. i = j /\ o.repos[i].backupAt \in Int
    BY <1>1, TimesType DEF Distinct
  <2> QED BY <2>1
<1> QED BY <1>1 DEF NotBefore

LEMMA AdvancedIsSound ==
  ASSUME NEW o \in ConfigRecord, NEW n \in ConfigRecord, NEW now \in Nat, Sound(o, now),
         n.spec = o.spec, Advanced(o.repos, n.repos, now)
  PROVE  Sound(n, now) /\ NotBefore(o.repos, n.repos)
<1>1. OneEach(n.spec)
  BY DEF Sound
<1>2. Distinct(n.repos)
  BY DEF Sound, Distinct, Advanced
<1>3. Past(n.repos, now)
  BY TimesType DEF Sound, Past, Advanced
<1>4. ASSUME NEW i \in DOMAIN o.repos, NEW j \in DOMAIN n.repos, o.repos[i].target = n.repos[j].target
      PROVE  o.repos[i].backupAt <= n.repos[j].backupAt
  <2>1. i = j
    BY <1>4 DEF Sound, Distinct, Advanced
  <2>2. o.repos[i].backupAt \in Int /\ o.repos[i].backupAt <= now /\ n.repos[i].backupAt \in {o.repos[i].backupAt, now}
    BY <1>4, TimesType DEF Sound, Past, Advanced
  <2> QED BY <2>1, <2>2
<1> QED BY <1>1, <1>2, <1>3, <1>4 DEF Sound, NotBefore

(* A status that is rebuilt for another spec keeps the times it has.        *)
LEMMA RebuiltIsSound ==
  ASSUME NEW o \in ConfigRecord, NEW n \in ConfigRecord, NEW now \in Nat, Sound(o, now),
         n.spec = o.spec, n.repos = Rebuilt(o)
  PROVE  Sound(n, now) /\ NotBefore(o.repos, n.repos)
<1>1. OneEach(n.spec)
  BY DEF Sound
<1>2. DOMAIN n.repos = DOMAIN o.spec
  BY RebuiltType
<1>3. ASSUME NEW i \in DOMAIN o.spec
      PROVE  /\ n.repos[i].target = o.spec[i]
             /\ \/ n.repos[i].backupAt = Never
                   /\ ~\E j \in DOMAIN o.repos : o.repos[j].target = o.spec[i]
                \/ \E j \in DOMAIN o.repos : o.repos[j].target = o.spec[i] /\ n.repos[i].backupAt = o.repos[j].backupAt
  <2>1. CASE \E j \in DOMAIN o.repos : o.repos[j].target = o.spec[i]
    BY <2>1, RebuiltType, LastEntryExists
  <2>2. CASE ~\E j \in DOMAIN o.repos : o.repos[j].target = o.spec[i]
    <3>1. n.repos[i] = NewRepo(o.spec[i])
      BY <2>2, RebuiltType
    <3> QED BY <2>2, <3>1 DEF NewRepo
  <2> QED BY <2>1, <2>2
<1>4. Distinct(n.repos)
  BY <1>2, <1>3 DEF Sound, OneEach, Distinct
<1>5. Past(n.repos, now)
  BY <1>2, <1>3, TimesType DEF Sound, Past, Never
<1>6. ASSUME NEW i \in DOMAIN o.repos, NEW j \in DOMAIN n.repos, o.repos[i].target = n.repos[j].target
      PROVE  o.repos[i].backupAt <= n.repos[j].backupAt
  <2>1. PICK k \in DOMAIN o.repos : o.repos[k].target = o.spec[j] /\ n.repos[j].backupAt = o.repos[k].backupAt
    BY <1>2, <1>3, <1>6
  <2>2. i = k
    BY <1>2, <1>3, <1>6, <2>1 DEF Sound, Distinct
  <2> QED BY <2>1, <2>2, TimesType
<1> QED BY <1>1, <1>4, <1>5, <1>6 DEF Sound, NotBefore

LEMMA EmptyIsSound ==
  ASSUME NEW now
  PROVE  Sound(NoConfig, now)
BY DEF NoConfig, Sound, OneEach, Distinct, Past

LEMMA LaterIsSound ==
  ASSUME NEW o \in ConfigRecord, NEW now \in Nat, NEW later \in Nat, now <= later, Sound(o, now)
  PROVE  Sound(o, later)
BY TimesType DEF Sound, Past

(* A write that turns no time back leaves a Config with no time turned back. *)
LEMMA StoredIsSound ==
  ASSUME NEW old \in ConfigRecord, NEW o \in ConfigRecord, NEW now \in Nat,
         Sound(old, now), Sound(o, now), NotBefore(old.repos, o.repos)
  PROVE  /\ Sound(Stored(old, o), now)
         /\ NotBefore(old.repos, Stored(old, o).repos)
         /\ Stored(old, o) = old \/ Stored(old, o).rv = old.rv + 1
<1> DEFINE n == Stored(old, o)
<1>1. \/ n = old
      \/ n.rv = old.rv + 1 /\ n.repos = <<>> /\ n.spec = <<>>
      \/ n.rv = old.rv + 1 /\ n.repos = o.repos /\ n.spec = o.spec
  BY DEF Stored, NoConfig, ConfigRecord
<1> HIDE DEF n
<1>2. CASE n = old
  BY <1>2, SameIsNotBefore DEF Sound, n
<1>3. CASE n.rv = old.rv + 1 /\ n.repos = <<>> /\ n.spec = <<>>
  <2>1. Sound(n, now) /\ NotBefore(old.repos, n.repos)
    BY <1>3 DEF Sound, OneEach, Distinct, Past, NotBefore
  <2> QED BY <1>3, <2>1 DEF n
<1>4. CASE n.rv = old.rv + 1 /\ n.repos = o.repos /\ n.spec = o.spec
  <2>1. Sound(n, now) /\ NotBefore(old.repos, n.repos)
    BY <1>4 DEF Sound
  <2> QED BY <1>4, <2>1 DEF n
<1> QED BY <1>1, <1>2, <1>3, <1>4

Writing == {"status", "schedule"}

(* What a step does to the times in the worker's copy.                      *)
LEMMA ObjTimes ==
  ASSUME TypeOK, TypeOK', TimesInv, Next
  PROVE  \/ pc' = "idle" /\ obj' = NoConfig
         \/ pc = "idle" /\ pc' = "fetched" /\ obj' = configCache /\ UNCHANGED <<config, clock>>
         \/ pc' = pc /\ obj' = obj
         \/ pc \notin {"idle"} \cup Writing /\ pc' \notin Writing /\ obj' = obj
         \/ /\ pc \notin {"idle"} \cup Writing /\ pc' \in Writing /\ UNCHANGED <<config, clock>>
            /\ obj'.rv = obj.rv /\ Sound(obj', clock) /\ NotBefore(obj.repos, obj'.repos)
<1> DEFINE Recorded == /\ pc \notin {"idle"} \cup Writing /\ pc' \in Writing /\ UNCHANGED <<config, clock>>
                       /\ obj'.rv = obj.rv /\ Sound(obj', clock) /\ NotBefore(obj.repos, obj'.repos)
<1>0. /\ obj \in ConfigRecord /\ obj' \in ConfigRecord /\ clock \in Nat /\ Sound(obj, clock)
      /\ obj.repos \in Seq(RepoStatus)
  BY BoundsAreNat DEF TypeOK, TimesInv, ConfigRecord
<1>1. ASSUME pc \notin {"idle"} \cup Writing, pc' \in Writing, UNCHANGED <<config, clock>>,
             obj'.rv = obj.rv, obj'.spec = obj.spec, Advanced(obj.repos, obj'.repos, clock)
      PROVE  Recorded
  <2>1. Sound(obj', clock) /\ NotBefore(obj.repos, obj'.repos)
    BY <1>0, <1>1, AdvancedIsSound
  <2> QED BY <1>1, <2>1
<1>2. ASSUME InitConfig PROVE Recorded
  <2>1. obj' = [obj EXCEPT !.ready = TRUE]
    BY <1>2 DEF InitConfig, ToStatus
  <2>2. obj'.rv = obj.rv /\ obj'.spec = obj.spec /\ obj'.repos = obj.repos
    BY <1>0, <2>1 DEF ConfigRecord
  <2>3. Advanced(obj.repos, obj'.repos, clock)
    BY <2>2 DEF Advanced
  <2> QED BY <1>1, <1>2, <2>2, <2>3 DEF InitConfig, ToStatus, Writing
<1>3. ASSUME SyncRepositories PROVE Recorded
  <2>1. obj' = [obj EXCEPT !.repos = Rebuilt(obj)]
    BY <1>3 DEF SyncRepositories, ToStatus
  <2>2. obj'.rv = obj.rv /\ obj'.spec = obj.spec /\ obj'.repos = Rebuilt(obj)
    BY <1>0, <2>1 DEF ConfigRecord
  <2>3. Sound(obj', clock) /\ NotBefore(obj.repos, obj'.repos)
    BY <1>0, <2>2, RebuiltIsSound
  <2> QED BY <1>3, <2>2, <2>3 DEF SyncRepositories, ToStatus, Writing
<1>4. ASSUME InitRepositories, ~Idle PROVE Recorded
  <2>1. ToStatus([obj EXCEPT !.repos = [j \in DOMAIN @ |-> [@[j] EXCEPT !.ready = TRUE]]])
    BY <1>4 DEF InitRepositories
  <2>2. /\ obj'.rv = obj.rv /\ obj'.spec = obj.spec
        /\ obj'.repos = [j \in DOMAIN obj.repos |-> [obj.repos[j] EXCEPT !.ready = TRUE]]
    BY <1>0, <2>1 DEF ToStatus, ConfigRecord
  <2>3. \A j \in DOMAIN obj.repos : /\ obj'.repos[j].target = obj.repos[j].target
                                    /\ obj'.repos[j].backupAt = obj.repos[j].backupAt
    <3>1. \A e \in RepoStatus : /\ [e EXCEPT !.ready = TRUE].target = e.target
                                /\ [e EXCEPT !.ready = TRUE].backupAt = e.backupAt
      BY DEF RepoStatus
    <3>2. \A j \in DOMAIN obj.repos : obj.repos[j] \in RepoStatus
      BY <1>0, TimesType
    <3>3. \A j \in DOMAIN obj.repos : obj'.repos[j] = [obj.repos[j] EXCEPT !.ready = TRUE]
      BY <2>2
    <3> QED BY <3>1, <3>2, <3>3
  <2>4. Advanced(obj.repos, obj'.repos, clock)
    BY <2>2, <2>3 DEF Advanced
  <2> QED BY <1>1, <1>4, <2>1, <2>2, <2>4 DEF InitRepositories, ToStatus, Writing
<1>5. ASSUME ScheduleForget PROVE Recorded
  <2> DEFINE f == First(ForgetsDue(obj))
  <2>1. ToStatus([obj EXCEPT !.repos[f].forgetAt = clock]) /\ pc = "forget"
    BY <1>5 DEF ScheduleForget
  <2>2. /\ obj'.rv = obj.rv /\ obj'.spec = obj.spec
        /\ obj'.repos = [obj.repos EXCEPT ![f].forgetAt = clock]
    BY <1>0, <2>1 DEF ToStatus, ConfigRecord
  <2> HIDE DEF f
  <2>3. \A j \in DOMAIN obj.repos : /\ obj'.repos[j].target = obj.repos[j].target
                                    /\ obj'.repos[j].backupAt = obj.repos[j].backupAt
    <3>1. \A e \in RepoStatus : /\ [e EXCEPT !.forgetAt = clock].target = e.target
                                /\ [e EXCEPT !.forgetAt = clock].backupAt = e.backupAt
      BY DEF RepoStatus
    <3>2. \A j \in DOMAIN obj.repos : obj.repos[j] \in RepoStatus
      BY <1>0, TimesType
    <3>3. \A j \in DOMAIN obj.repos : obj'.repos[j] \in {obj.repos[j], [obj.repos[j] EXCEPT !.forgetAt = clock]}
      BY <2>2
    <3> QED BY <3>1, <3>2, <3>3
  <2>4. DOMAIN obj'.repos = DOMAIN obj.repos
    BY <2>2
  <2>5. Advanced(obj.repos, obj'.repos, clock)
    BY <2>3, <2>4 DEF Advanced
  <2> QED BY <1>1, <1>5, <2>1, <2>2, <2>5 DEF ScheduleForget, ToStatus, Writing
<1>6. ASSUME ListPVCs, ~(pc' \notin Writing /\ obj' = obj) PROVE Recorded
  <2>1. PICK refused \in BOOLEAN : Listing(IF refused THEN NoPVCs ELSE pvcCache)
    BY <1>6, ListPVCsLists
  <2>2. pc' = "schedule" /\ obj' = [obj EXCEPT !.repos[repo'].backupAt = clock]
    BY <1>6, <2>1 DEF Listing, Writing
  <2> DEFINE f == repo'
  <2>3. /\ obj'.rv = obj.rv /\ obj'.spec = obj.spec
        /\ obj'.repos = [obj.repos EXCEPT ![f].backupAt = clock]
    BY <1>0, <2>2 DEF ConfigRecord
  <2> HIDE DEF f
  <2>4. \A j \in DOMAIN obj.repos : /\ obj'.repos[j].target = obj.repos[j].target
                                    /\ obj'.repos[j].backupAt \in {obj.repos[j].backupAt, clock}
    <3>1. \A e \in RepoStatus : /\ [e EXCEPT !.backupAt = clock].target = e.target
                                /\ [e EXCEPT !.backupAt = clock].backupAt = clock
      BY DEF RepoStatus
    <3>2. \A j \in DOMAIN obj.repos : obj.repos[j] \in RepoStatus
      BY <1>0, TimesType
    <3>3. \A j \in DOMAIN obj.repos : obj'.repos[j] \in {obj.repos[j], [obj.repos[j] EXCEPT !.backupAt = clock]}
      BY <2>3
    <3> QED BY <3>1, <3>2, <3>3
  <2>5. DOMAIN obj'.repos = DOMAIN obj.repos
    BY <2>3
  <2>6. Advanced(obj.repos, obj'.repos, clock)
    BY <2>4, <2>5 DEF Advanced
  <2> QED BY <1>1, <1>6, <2>2, <2>3, <2>6 DEF ListPVCs, Writing
<1>7. \/ InitConfig \/ SyncRepositories \/ (InitRepositories /\ ~Idle) \/ ScheduleForget \/ ListPVCs
      \/ pc' = "idle" /\ obj' = NoConfig
      \/ pc = "idle" /\ pc' = "fetched" /\ obj' = configCache /\ UNCHANGED <<config, clock>>
      \/ pc' = pc /\ obj' = obj
      \/ pc \notin {"idle", "status", "schedule"} /\ pc' \notin {"status", "schedule"} /\ obj' = obj
  BY Zenon
     DEF Next, WorkerStep, Fetch, Abort, AnnotateConfig, EditSpec, DeleteConfig, SyncConfig, Tick, CreatePVC,
         AnnotatePVC, DeletePVC, SyncPVC, OtherWrite, TaskStep, UserWrites, InitResourceIfConditionMet,
         PanicWithoutRepository, CreateAutoRestore, MarkRestored,
         ServeConfigRequest, ClearConfigRequest, ServePVCRequest, ClearPVCRequest, ScheduleBackup,
         WriteStatus, NothingToDo, UpdateAndReturn, Idle
<1> QED BY <1>2, <1>3, <1>4, <1>5, <1>6, <1>7 DEF ListPVCs, Writing

(* What a step does to the times in the stored Config.                      *)
LEMMA ConfigTimesKept ==
  ASSUME TypeOK, TypeOK', TimesInv, Next, \A t \in Specs : OneEach(t)
  PROVE  /\ Sound(config', clock)
         /\ NotBefore(config.repos, config'.repos)
         /\ config' = config \/ config'.rv = config.rv + 1
<1> DEFINE Good == /\ Sound(config', clock)
                   /\ NotBefore(config.repos, config'.repos)
                   /\ config' = config \/ config'.rv = config.rv + 1
<1>0. /\ config \in ConfigRecord /\ obj \in ConfigRecord /\ clock \in Nat
      /\ Sound(config, clock) /\ Sound(obj, clock) /\ NotBefore(config.repos, config.repos)
      /\ Len(asked') \in Nat
  BY BoundsAreNat, SameIsNotBefore DEF TypeOK, TimesInv, Sound
<1>1. ASSUME NEW o \in ConfigRecord, config' = Stored(config, o), Sound(o, clock), NotBefore(config.repos, o.repos)
      PROVE  Good
  BY <1>0, <1>1, StoredIsSound
<1>2. ASSUME UNCHANGED config PROVE Good
  BY <1>0, <1>2
<1>3. ASSUME NEW o \in ConfigRecord, config' = Stored(config, o), o.repos = config.repos, OneEach(o.spec)
      PROVE  Good
  <2>1. Sound(o, clock) /\ NotBefore(config.repos, o.repos)
    BY <1>0, <1>3 DEF Sound
  <2> QED BY <1>1, <1>3, <2>1
<1>4. ASSUME NEW o \in ConfigRecord, UpdateAndReturn(o), pc \notin {"idle", "status", "schedule"},
             o.repos = obj.repos, o.spec = obj.spec
      PROVE  Good
  <2>1. CASE Fresh
    <3>1. o.repos = config.repos /\ OneEach(o.spec)
      BY <1>0, <1>4, <2>1 DEF Fresh, TimesInv, Sound
    <3> QED BY <1>3, <1>4, <2>1, <3>1 DEF UpdateAndReturn
  <2>2. CASE ~Fresh
    BY <1>2, <1>4, <2>2 DEF UpdateAndReturn
  <2> QED BY <2>1, <2>2
<1>5. ASSUME InitResourceIfConditionMet PROVE Good
  <2> DEFINE o == [obj EXCEPT !.finalizer = TRUE]
  <2>1. o \in ConfigRecord /\ o.repos = obj.repos /\ o.spec = obj.spec
    BY <1>0 DEF ConfigRecord
  <2>2. UpdateAndReturn(o) /\ pc \notin {"idle", "status", "schedule"}
    BY <1>5 DEF InitResourceIfConditionMet
  <2> HIDE DEF o
  <2> QED BY <1>4, <2>1, <2>2
<1>6. ASSUME ClearConfigRequest PROVE Good
  <2> DEFINE o == IF pc = "configRestore" THEN [obj EXCEPT !.restore = NoRequest]
                                          ELSE [obj EXCEPT !.backup = NoRequest]
  <2>1. o \in ConfigRecord /\ o.repos = obj.repos /\ o.spec = obj.spec
    BY <1>0 DEF ConfigRecord, NoRequest
  <2>2. UpdateAndReturn(o) /\ pc \notin {"idle", "status", "schedule"}
    BY <1>6 DEF ClearConfigRequest
  <2> HIDE DEF o
  <2> QED BY <1>4, <2>1, <2>2
<1>7. ASSUME WriteStatus PROVE Good
  <2> DEFINE o == [config EXCEPT !.ready = obj.ready, !.repos = obj.repos]
  <2>1. o \in ConfigRecord /\ o.repos = obj.repos /\ o.spec = config.spec
    BY <1>0 DEF ConfigRecord
  <2>2. pc \in {"status", "schedule"} /\ config' = IF Fresh THEN Stored(config, o) ELSE config
    BY <1>7 DEF WriteStatus, UpdateAndReturn
  <2> HIDE DEF o
  <2>3. CASE Fresh
    <3>1. NotBefore(config.repos, o.repos)
      BY <2>1, <2>2, <2>3 DEF Fresh, TimesInv
    <3>2. Sound(o, clock)
      BY <1>0, <2>1 DEF Sound
    <3> QED BY <1>1, <2>1, <2>2, <2>3, <3>1, <3>2
  <2>4. CASE ~Fresh
    BY <1>2, <2>2, <2>4
  <2> QED BY <2>3, <2>4
<1>8. ASSUME AnnotateConfig PROVE Good
  <2>1. /\ [config EXCEPT !.backup = Len(asked')] \in ConfigRecord
        /\ [config EXCEPT !.backup = Len(asked')].repos = config.repos
        /\ [config EXCEPT !.backup = Len(asked')].spec = config.spec
    BY <1>0 DEF ConfigRecord
  <2>2. /\ [config EXCEPT !.restore = Len(asked')] \in ConfigRecord
        /\ [config EXCEPT !.restore = Len(asked')].repos = config.repos
        /\ [config EXCEPT !.restore = Len(asked')].spec = config.spec
    BY <1>0 DEF ConfigRecord
  <2>3. \/ config' = Stored(config, [config EXCEPT !.backup = Len(asked')])
        \/ config' = Stored(config, [config EXCEPT !.restore = Len(asked')])
    BY <1>8 DEF AnnotateConfig
  <2>4. OneEach(config.spec)
    BY <1>0 DEF Sound
  <2>5. CASE config' = Stored(config, [config EXCEPT !.backup = Len(asked')])
    BY <1>3, <2>1, <2>4, <2>5
  <2>6. CASE config' = Stored(config, [config EXCEPT !.restore = Len(asked')])
    BY <1>3, <2>2, <2>4, <2>6
  <2> QED BY <2>3, <2>5, <2>6
<1>9. ASSUME EditSpec PROVE Good
  <2>1. PICK t \in Specs : config' = Stored(config, [config EXCEPT !.spec = t])
    BY <1>9 DEF EditSpec
  <2> DEFINE o == [config EXCEPT !.spec = t]
  <2>2. o \in ConfigRecord /\ o.repos = config.repos /\ o.spec = t
    BY <1>0, SpecAssumption DEF ConfigRecord
  <2> QED BY <1>3, <2>1, <2>2
<1>10. ASSUME DeleteConfig PROVE Good
  <2> DEFINE o == [config EXCEPT !.deleting = TRUE]
  <2>1. o \in ConfigRecord /\ o.repos = config.repos /\ o.spec = config.spec
    BY <1>0 DEF ConfigRecord
  <2>2. config' = Stored(config, o) /\ OneEach(o.spec)
    BY <1>0, <1>10, <2>1 DEF DeleteConfig, Sound
  <2> HIDE DEF o
  <2> QED BY <1>3, <2>1, <2>2
<1>11. \/ UNCHANGED config \/ InitResourceIfConditionMet \/ WriteStatus \/ ClearConfigRequest
       \/ AnnotateConfig \/ EditSpec \/ DeleteConfig
  BY Zenon
     DEF Next, WorkerStep, Fetch, Abort, SyncConfig, Tick, CreatePVC,
         AnnotatePVC, DeletePVC, SyncPVC, OtherWrite, TaskStep, UserWrites, InitConfig,
         SyncRepositories, InitRepositories, ListPVCs, PanicWithoutRepository, CreateAutoRestore, MarkRestored,
         ServeConfigRequest, ServePVCRequest, ClearPVCRequest, ScheduleBackup,
         ScheduleForget, NothingToDo
<1>12. Good
  <2> HIDE DEF Good
  <2> QED BY <1>2, <1>5, <1>6, <1>7, <1>8, <1>9, <1>10, <1>11
<1> QED BY <1>12

LEMMA TimesNext ==
  ASSUME TypeOK, TypeOK', TimesInv, Next, \A t \in Specs : OneEach(t)
  PROVE  TimesInv'
<1>0. /\ config \in ConfigRecord /\ config' \in ConfigRecord /\ configCache \in ConfigRecord
      /\ obj \in ConfigRecord /\ obj' \in ConfigRecord /\ clock \in Nat /\ clock' \in Nat /\ clock <= clock'
      /\ config.rv \in Nat /\ configCache.rv \in Nat /\ obj.rv \in Nat
  <2>1. clock \in Nat /\ clock' \in {clock, clock + 1}
    BY BoundsAreNat, CopyChanges DEF TypeOK
  <2> QED BY <2>1 DEF TypeOK, ConfigRecord
<1>1. /\ Sound(config', clock)
      /\ config' = config \/ config'.rv = config.rv + 1
  BY ConfigTimesKept
<1>2. UNCHANGED configCache \/ SyncConfig
  BY Zenon
     DEF Next, WorkerStep, Fetch, Abort, AnnotateConfig, EditSpec, DeleteConfig, Tick, CreatePVC,
         AnnotatePVC, DeletePVC, SyncPVC, OtherWrite, TaskStep, UserWrites, InitResourceIfConditionMet, InitConfig,
         SyncRepositories, InitRepositories, ListPVCs, PanicWithoutRepository, CreateAutoRestore, MarkRestored,
         ServeConfigRequest, ClearConfigRequest, ServePVCRequest, ClearPVCRequest, ScheduleBackup,
         ScheduleForget, WriteStatus, NothingToDo, UpdateAndReturn
<1>3. /\ Sound(configCache', clock) /\ configCache' \in ConfigRecord
      /\ configCache'.rv <= config'.rv
      /\ configCache'.rv = config'.rv => configCache'.repos = config'.repos
  BY <1>0, <1>1, <1>2 DEF SyncConfig, TimesInv
<1>4. Sound(config', clock') /\ Sound(configCache', clock')
  BY <1>0, <1>1, <1>3, LaterIsSound
<1>5. Sound(obj', clock)
  BY EmptyIsSound, ObjTimes DEF TimesInv
<1>6. Sound(obj', clock')
  BY <1>0, <1>5, LaterIsSound
<1>7. pc' # "idle" => obj'.rv <= config'.rv
  BY <1>0, <1>1, ObjTimes DEF TimesInv
<1>8. ASSUME pc' \notin {"idle", "status", "schedule"}, obj'.rv = config'.rv
      PROVE  obj'.repos = config'.repos
  <2>1. \/ pc = "idle" /\ obj' = configCache /\ config' = config
        \/ pc \notin {"idle", "status", "schedule"} /\ obj' = obj
    BY <1>8, ObjTimes DEF Writing
  <2> QED BY <1>0, <1>1, <1>8, <2>1 DEF TimesInv
<1>9. ASSUME pc' \in {"status", "schedule"}, obj'.rv = config'.rv
      PROVE  NotBefore(config'.repos, obj'.repos)
  <2>1. \/ pc' = pc /\ obj' = obj
        \/ /\ pc \notin {"idle", "status", "schedule"} /\ config' = config
           /\ obj'.rv = obj.rv /\ NotBefore(obj.repos, obj'.repos)
    BY <1>9, ObjTimes DEF Writing
  <2>2. CASE pc' = pc /\ obj' = obj
    <3>1. obj.rv <= config.rv
      BY <1>9, <2>2 DEF TimesInv
    <3>2. config' = config
      BY <1>0, <1>1, <1>9, <2>2, <3>1
    <3> QED BY <1>9, <2>2, <3>2 DEF TimesInv
  <2>3. CASE /\ pc \notin {"idle", "status", "schedule"} /\ config' = config
             /\ obj'.rv = obj.rv /\ NotBefore(obj.repos, obj'.repos)
    <3>1. obj.repos = config.repos
      BY <1>9, <2>3 DEF TimesInv
    <3> QED BY <2>3, <3>1
  <2> QED BY <2>1, <2>2, <2>3
<1> QED BY <1>3, <1>4, <1>6, <1>7, <1>8, <1>9 DEF TimesInv

LEMMA TimesAgree ==
  ASSUME \A t \in Specs : OneEach(t)
  PROVE  Spec => []TimesInv
<1>1. Init => TimesInv
  <2> SUFFICES ASSUME Init PROVE TimesInv
    OBVIOUS
  <2>1. PICK t \in Specs : config = [NoConfig EXCEPT !.exists = TRUE, !.rv = 1, !.spec = t]
    BY DEF Init
  <2>2. config.repos = <<>> /\ config.spec = t /\ configCache = config /\ obj = NoConfig /\ pc = "idle"
    BY <2>1 DEF Init, NoConfig
  <2>3. config.rv = 1
    BY <2>1 DEF NoConfig
  <2>4. Sound(config, clock)
    BY <2>2 DEF Sound, Distinct, Past
  <2> QED BY <2>2, <2>3, <2>4, EmptyIsSound DEF TimesInv
<1>2. TypeOK /\ TypeOK' /\ TimesInv /\ [Next]_vars => TimesInv'
  <2>1. ASSUME TimesInv, UNCHANGED vars PROVE TimesInv'
    BY <2>1 DEF TimesInv, vars
  <2>2. ASSUME TypeOK, TypeOK', TimesInv, Next PROVE TimesInv'
    BY <2>2, TimesNext
  <2> QED BY <2>1, <2>2
<1> QED BY <1>1, <1>2, ConfigTypes, PTL DEF Spec

(* When no user lists a target twice, the time of a repository's last       *)
(* backup is never lost or turned back, whatever users do to the spec and   *)
(* however late a write of the status comes.                                *)
THEOREM TimesOnlyAdvance ==
  ASSUME \A t \in Specs : OneEach(t)
  PROVE  Spec => TimesAdvance
<1>1. TypeOK /\ TypeOK' /\ TimesInv /\ [Next]_vars
        => [\A r \in Repos : \A c \in LastBackup(config, r), d \in LastBackup(config', r) : c <= d]_vars
  <2>1. SUFFICES ASSUME TypeOK, TypeOK', TimesInv, Next, NEW r \in Repos,
                        NEW c \in LastBackup(config, r), NEW d \in LastBackup(config', r)
                 PROVE  c <= d
    OBVIOUS
  <2>2. NotBefore(config.repos, config'.repos)
    BY <2>1, ConfigTimesKept
  <2>3. PICK i \in DOMAIN config.repos : config.repos[i].target = r /\ c = config.repos[i].backupAt
    BY DEF LastBackup
  <2>4. PICK j \in DOMAIN config'.repos : config'.repos[j].target = r /\ d = config'.repos[j].backupAt
    BY DEF LastBackup
  <2> QED BY <2>2, <2>3, <2>4 DEF NotBefore
<1> QED BY <1>1, ConfigTypes, TimesAgree, PTL DEF Spec, TimesAdvance

-----------------------------------------------------------------------------
(* Runs of a Config with one repository are backed up. *)

Losses == {"create", "list", "staleTask", "stalePVC"}

Before(o, r, t) == \A c \in LastBackup(o, r) : c < t
Over(p) == \A i \in ScheduledFor(NameOf[p]) : phase[i] \in Finished
BackupMade(p, r, t) == \E i \in DOMAIN made :
  made[i].kind = "backup-scheduled" /\ made[i].pvc = p /\ made[i].repo = r /\ made[i].slot >= t

(* Since p was at rest at t, either a backup of it has been made, or the    *)
(* worker has still to make one before it can record a run.                 *)
StillToBackUp(p, r, t) ==
  /\ Over(p) /\ pvcCache[p].exists /\ Before(config, r, t)
  /\ pc # "idle" /\ obj.rv = config.rv => Before(obj, r, t) \/ (pc = "schedule" /\ p \in todo)

BackedUp(p, r, t) ==
  /\ clock >= t /\ pvcs[p].rv # 0
  /\ Spared(Losses) /\ pvcs[p].exists => BackupMade(p, r, t) \/ StillToBackUp(p, r, t)

LEMMA BeforeIs ==
  ASSUME NEW o, NEW r, NEW t
  PROVE  Before(o, r, t) <=> \A i \in DOMAIN o.repos : o.repos[i].target = r => o.repos[i].backupAt < t
BY DEF Before, LastBackup

(* A Task that is over stays so.                                            *)
LEMMA OverStays ==
  ASSUME TypeOK, TypeOK', Next, \A q, u \in PVCs : NameOf[q] = NameOf[u] => q = u,
         NEW p \in PVCs, Over(p), ~ScheduleBackup(p)
  PROVE  Over(p)'
<1>0. /\ made \in Seq(TaskRecord) /\ made' \in Seq(TaskRecord) /\ phase \in [TaskIds -> Phases]
      /\ DOMAIN made = 1 .. Len(made) /\ Len(made) \in Nat
  BY DEF TypeOK
<1>1. ASSUME NEW i \in DOMAIN made, phase[i] \in Finished PROVE phase'[i] \in Finished
  <2>1. \/ UNCHANGED phase
        \/ phase' = [phase EXCEPT ![Len(made) + 1] = "Unset"]
        \/ \E j \in TaskIds : TaskStep(j)
    BY Zenon
       DEF Next, WorkerStep, Fetch, Abort, AnnotateConfig, EditSpec, DeleteConfig, SyncConfig, Tick, CreatePVC,
           AnnotatePVC, DeletePVC, SyncPVC, OtherWrite, UserWrites, InitResourceIfConditionMet, InitConfig,
           SyncRepositories, InitRepositories, ListPVCs, PanicWithoutRepository, CreateAutoRestore, MarkRestored,
           ServeConfigRequest, ClearConfigRequest, ServePVCRequest, ClearPVCRequest, ScheduleBackup,
           ScheduleForget, WriteStatus, NothingToDo, UpdateAndReturn, TryNewTask, NewTask
  <2>2. CASE phase' = [phase EXCEPT ![Len(made) + 1] = "Unset"]
    BY <1>0, <1>1, <2>2
  <2>3. ASSUME NEW j \in TaskIds, TaskStep(j) PROVE phase'[i] \in Finished
    <3>1. PICK m \in Progress : phase[j] = m[1] /\ phase' = [phase EXCEPT ![j] = m[2]]
      BY <2>3 DEF TaskStep
    <3>2. m[1] \notin Finished
      BY DEF Progress, Finished
    <3> QED BY <1>0, <1>1, <3>1, <3>2
  <2> QED BY <1>1, <2>1, <2>2, <2>3
<1>2. ASSUME NEW i \in DOMAIN made', made'[i].kind = "backup-scheduled", NameOf[made'[i].pvc] = NameOf[p]
      PROVE  i \in DOMAIN made /\ made'[i] = made[i]
  <2>1. CASE UNCHANGED made
    BY <1>2, <2>1
  <2>2. ASSUME NEW e, made' = Append(made, e), e.kind # "backup-scheduled"
        PROVE  i \in DOMAIN made /\ made'[i] = made[i]
    BY <1>0, <1>2, <2>2
  <2>3. ASSUME NEW q \in PVCs, ScheduleBackup(q) PROVE i \in DOMAIN made /\ made'[i] = made[i]
    <3>1. q # p
      BY <2>3
    <3>2. UNCHANGED made \/ NewTask("backup-scheduled", q, obj.spec[repo], NoRequest)
      BY <2>3 DEF ScheduleBackup, TryNewTask
    <3>3. ASSUME NewTask("backup-scheduled", q, obj.spec[repo], NoRequest), i = Len(made) + 1 PROVE FALSE
      <4>1. made'[i] = [kind |-> "backup-scheduled", pvc |-> q, repo |-> obj.spec[repo], slot |-> clock,
                        request |-> NoRequest, young |-> pvcs[q].born = clock]
        BY <3>3, NewTaskMade
      <4>2. made'[i].pvc = q
        BY <4>1
      <4> QED BY <1>2, <3>1, <4>2
    <3>4. CASE NewTask("backup-scheduled", q, obj.spec[repo], NoRequest)
      BY <1>2, <3>3, <3>4, NewTaskMade
    <3> QED BY <1>2, <3>2, <3>4
  <2> QED BY <2>1, <2>2, <2>3, WhoSchedules
<1> QED BY <1>1, <1>2 DEF Over, ScheduledFor

(* The repositories the stored Config gets: the worker's, and that only     *)
(* when its copy is as new and a run is through with all PVCs.              *)
LEMMA ConfigRepos ==
  ASSUME TypeOK, TypeOK', Next
  PROVE  \/ config'.repos \in {config.repos, <<>>}
         \/ Fresh /\ pc # "idle" /\ (pc = "schedule" => todo = {}) /\ config'.repos = obj.repos
<1> DEFINE Good == \/ config'.repos \in {config.repos, <<>>}
                   \/ Fresh /\ pc # "idle" /\ (pc = "schedule" => todo = {}) /\ config'.repos = obj.repos
<1>0. config \in ConfigRecord /\ obj \in ConfigRecord
  BY DEF TypeOK
<1>1. ASSUME NEW o \in ConfigRecord, config' = Stored(config, o) PROVE config'.repos \in {config.repos, <<>>, o.repos}
  BY <1>1 DEF Stored, NoConfig, ConfigRecord
<1>2. ASSUME NEW o \in ConfigRecord, UpdateAndReturn(o), pc # "idle", pc = "schedule" => todo = {},
             o.repos = obj.repos
      PROVE  Good
  BY <1>1, <1>2 DEF UpdateAndReturn
<1>3. ASSUME InitResourceIfConditionMet PROVE Good
  <2> DEFINE o == [obj EXCEPT !.finalizer = TRUE]
  <2>1. o \in ConfigRecord /\ o.repos = obj.repos
    BY <1>0 DEF ConfigRecord
  <2>2. UpdateAndReturn(o) /\ pc = "fetched"
    BY <1>3 DEF InitResourceIfConditionMet
  <2> HIDE DEF o
  <2> QED BY <1>2, <2>1, <2>2
<1>4. ASSUME ClearConfigRequest PROVE Good
  <2> DEFINE o == IF pc = "configRestore" THEN [obj EXCEPT !.restore = NoRequest]
                                          ELSE [obj EXCEPT !.backup = NoRequest]
  <2>1. o \in ConfigRecord /\ o.repos = obj.repos
    BY <1>0 DEF ConfigRecord, NoRequest
  <2>2. UpdateAndReturn(o) /\ pc \in {"configRestore", "configBackup"}
    BY <1>4 DEF ClearConfigRequest
  <2> HIDE DEF o
  <2> QED BY <1>2, <2>1, <2>2
<1>5. ASSUME WriteStatus PROVE Good
  <2> DEFINE o == [config EXCEPT !.ready = obj.ready, !.repos = obj.repos]
  <2>1. o \in ConfigRecord /\ o.repos = obj.repos
    BY <1>0 DEF ConfigRecord
  <2>2. UpdateAndReturn(o) /\ (pc = "status" \/ (pc = "schedule" /\ todo = {}))
    BY <1>5 DEF WriteStatus
  <2> HIDE DEF o
  <2> QED BY <1>2, <2>1, <2>2
<1>6. ASSUME AnnotateConfig \/ EditSpec \/ DeleteConfig PROVE Good
  <2>1. \E o \in ConfigRecord : config' = Stored(config, o) /\ o.repos = config.repos
    <3>0. Len(asked') \in Nat
      BY DEF TypeOK
    <3>1. /\ [config EXCEPT !.backup = Len(asked')] \in ConfigRecord
          /\ [config EXCEPT !.backup = Len(asked')].repos = config.repos
          /\ [config EXCEPT !.restore = Len(asked')] \in ConfigRecord
          /\ [config EXCEPT !.restore = Len(asked')].repos = config.repos
      BY <1>0, <3>0 DEF ConfigRecord
    <3>2. /\ \A u \in Specs : /\ [config EXCEPT !.spec = u] \in ConfigRecord
                             /\ [config EXCEPT !.spec = u].repos = config.repos
          /\ [config EXCEPT !.deleting = TRUE] \in ConfigRecord
          /\ [config EXCEPT !.deleting = TRUE].repos = config.repos
      BY <1>0, SpecAssumption DEF ConfigRecord
    <3> QED BY <1>6, <3>1, <3>2 DEF AnnotateConfig, EditSpec, DeleteConfig
  <2> QED BY <1>1, <2>1
<1>7. \/ UNCHANGED config \/ InitResourceIfConditionMet \/ WriteStatus \/ ClearConfigRequest
      \/ AnnotateConfig \/ EditSpec \/ DeleteConfig
  BY Zenon
     DEF Next, WorkerStep, Fetch, Abort, SyncConfig, Tick, CreatePVC,
         AnnotatePVC, DeletePVC, SyncPVC, OtherWrite, TaskStep, UserWrites, InitConfig,
         SyncRepositories, InitRepositories, ListPVCs, PanicWithoutRepository, CreateAutoRestore, MarkRestored,
         ServeConfigRequest, ServePVCRequest, ClearPVCRequest, ScheduleBackup,
         ScheduleForget, NothingToDo
<1>8. Good
  <2> HIDE DEF Good
  <2>1. UNCHANGED config => Good
    BY DEF Good
  <2> QED BY <1>3, <1>4, <1>5, <1>6, <1>7, <2>1
<1> QED BY <1>8

(* A status that is about to be written carries no new time of a backup,    *)
(* unless a schedule is run.                                                *)
LEMMA StatusCarries ==
  ASSUME TypeOK, TypeOK', Next, pc' = "status", pc # "status", NEW r, NEW t \in Nat, Before(obj, r, t)
  PROVE  Before(obj', r, t)
<1>0. /\ obj \in ConfigRecord /\ obj' \in ConfigRecord
      /\ \A i \in DOMAIN obj.repos : obj.repos[i].target = r => obj.repos[i].backupAt < t
  BY BeforeIs DEF TypeOK
<1>1. ASSUME DOMAIN obj'.repos = DOMAIN obj.repos,
             \A i \in DOMAIN obj.repos : /\ obj'.repos[i].target = obj.repos[i].target
                                         /\ obj'.repos[i].backupAt = obj.repos[i].backupAt
      PROVE  Before(obj', r, t)
  BY <1>0, <1>1, BeforeIs
<1>2. CASE InitConfig
  <2>1. obj'.repos = obj.repos
    BY <1>0, <1>2 DEF InitConfig, ToStatus, ConfigRecord
  <2> QED BY <1>1, <2>1
<1>3. CASE SyncRepositories
  <2>1. obj'.repos = Rebuilt(obj)
    BY <1>0, <1>3 DEF SyncRepositories, ToStatus, ConfigRecord
  <2>2. ASSUME NEW i \in DOMAIN obj.spec, Rebuilt(obj)[i].target = r PROVE Rebuilt(obj)[i].backupAt < t
    <3>1. CASE \E j \in DOMAIN obj.repos : obj.repos[j].target = obj.spec[i]
      BY <1>0, <2>2, <3>1, RebuiltType, LastEntryExists
    <3>2. CASE ~\E j \in DOMAIN obj.repos : obj.repos[j].target = obj.spec[i]
      <4>1. Rebuilt(obj)[i] = NewRepo(obj.spec[i])
        BY <1>0, <3>2, RebuiltType
      <4> QED BY <4>1 DEF NewRepo, Never
    <3> QED BY <3>1, <3>2
  <2> QED BY <1>0, <2>1, <2>2, RebuiltType, BeforeIs
<1>4. CASE InitRepositories
  <2>1. ToStatus([obj EXCEPT !.repos = [j \in DOMAIN @ |-> [@[j] EXCEPT !.ready = TRUE]]])
    BY <1>4 DEF InitRepositories, Idle
  <2>2. obj'.repos = [j \in DOMAIN obj.repos |-> [obj.repos[j] EXCEPT !.ready = TRUE]]
    BY <1>0, <2>1 DEF ToStatus, ConfigRecord
  <2>3. \A e \in RepoStatus : /\ [e EXCEPT !.ready = TRUE].target = e.target
                              /\ [e EXCEPT !.ready = TRUE].backupAt = e.backupAt
    BY DEF RepoStatus
  <2>4. \A j \in DOMAIN obj.repos : obj.repos[j] \in RepoStatus
    BY <1>0, TimesType
  <2>5. \A j \in DOMAIN obj.repos : obj'.repos[j] = [obj.repos[j] EXCEPT !.ready = TRUE]
    BY <2>2
  <2> QED BY <1>1, <2>2, <2>3, <2>4, <2>5
<1>5. CASE ScheduleForget
  <2> DEFINE f == First(ForgetsDue(obj))
  <2>1. obj'.repos = [obj.repos EXCEPT ![f].forgetAt = clock]
    BY <1>0, <1>5 DEF ScheduleForget, ToStatus, ConfigRecord
  <2> HIDE DEF f
  <2>2. \A e \in RepoStatus : /\ [e EXCEPT !.forgetAt = clock].target = e.target
                              /\ [e EXCEPT !.forgetAt = clock].backupAt = e.backupAt
    BY DEF RepoStatus
  <2>3. \A j \in DOMAIN obj.repos : obj.repos[j] \in RepoStatus
    BY <1>0, TimesType
  <2>4. \A j \in DOMAIN obj.repos : obj'.repos[j] \in {obj.repos[j], [obj.repos[j] EXCEPT !.forgetAt = clock]}
    BY <2>1
  <2> QED BY <1>1, <2>1, <2>2, <2>3, <2>4
<1>6. InitConfig \/ SyncRepositories \/ InitRepositories \/ ScheduleForget
  <2>1. ListPVCs => pc' # "status"
    BY DEF ListPVCs
  <2>2. ASSUME NEW p \in PVCs, CreateAutoRestore(p) PROVE pc' # "status"
    BY <2>2 DEF CreateAutoRestore, Idle
  <2> QED BY <2>1, <2>2, Zenon
     DEF Next, WorkerStep, Fetch, Abort, AnnotateConfig, EditSpec, DeleteConfig, SyncConfig, Tick, CreatePVC,
         AnnotatePVC, DeletePVC, SyncPVC, OtherWrite, TaskStep, UserWrites, InitResourceIfConditionMet,
         PanicWithoutRepository, MarkRestored, ServeConfigRequest, ClearConfigRequest,
         ServePVCRequest, ClearPVCRequest, ScheduleBackup, WriteStatus, NothingToDo, UpdateAndReturn, Idle
<1> QED BY <1>2, <1>3, <1>4, <1>5, <1>6

(* A run that comes to a PVC at rest makes a backup of it ...               *)
LEMMA RunMakesBackup ==
  ASSUME TypeOK, TypeOK', Next, \A q, u \in Repos : q = u, Spared(Losses)', NEW p \in PVCs, NEW r \in Repos,
         NEW t \in Nat, clock >= t, Over(p), ScheduleBackup(p)
  PROVE  BackupMade(p, r, t)'
<1>1. ~HasActive(p)
  BY DEF HasActive, Over, Active, Finished
<1>2. \A kind \in Losses : ~Charge(kind, TRUE)
  BY FaultsGrow DEF Charge
<1>3. NewTask("backup-scheduled", p, obj.spec[repo], NoRequest)
  BY <1>1, <1>2, Zenon DEF ScheduleBackup, TryNewTask, Losses
<1>4. obj.spec[repo] = r
  <2>1. repo \in DOMAIN obj.spec /\ obj.spec \in Seq(Repos)
    BY DEF ScheduleBackup, TypeOK, ConfigRecord
  <2>2. obj.spec[repo] \in Repos
    BY <2>1
  <2> QED BY <2>2
<1>5. /\ Len(made) + 1 \in DOMAIN made'
      /\ made'[Len(made) + 1] = [kind |-> "backup-scheduled", pvc |-> p, repo |-> r, slot |-> clock,
                                 request |-> NoRequest, young |-> pvcs[p].born = clock]
  BY <1>3, <1>4, NewTaskMade
<1>6. /\ made'[Len(made) + 1].kind = "backup-scheduled" /\ made'[Len(made) + 1].pvc = p
      /\ made'[Len(made) + 1].repo = r /\ made'[Len(made) + 1].slot = clock
  BY <1>5
<1> QED BY <1>5, <1>6 DEF BackupMade

(* ... and it does come to every PVC before it is recorded.                 *)
LEMMA RunComesTo ==
  ASSUME TypeOK, TypeOK', Next, Spared(Losses)', NEW p \in PVCs, pvcs[p].exists, pc' = "schedule",
         pc = "schedule" => p \in todo, ~ScheduleBackup(p)
  PROVE  p \in todo'
<1>1. CASE ListPVCs
  <2>1. PICK refused \in BOOLEAN :
          /\ Charge(IF refused THEN "list" ELSE "stalePVC", refused \/ pvcCache # pvcs)
          /\ Listing(IF refused THEN NoPVCs ELSE pvcCache)
    BY <1>1, ListPVCsLists
  <2>2. ~(refused \/ pvcCache # pvcs)
    <3>1. SUFFICES ASSUME refused \/ pvcCache # pvcs PROVE FALSE
      OBVIOUS
    <3>2. faults' = Append(faults, "list") \/ faults' = Append(faults, "stalePVC")
      BY <2>1, <3>1 DEF Charge
    <3> QED BY <3>2, FaultsGrow DEF Losses
  <2> QED BY <2>1, <2>2 DEF Listing
<1>2. CASE ~ListPVCs
  <2>1. pc = "schedule"
    BY <1>2, LoopsBegin
  <2>2. UNCHANGED todo \/ \E q \in PVCs : ScheduleBackup(q)
    <3>1. ASSUME NEW q \in PVCs, CreateAutoRestore(q) PROVE pc # "schedule"
      BY <3>1 DEF CreateAutoRestore
    <3> QED BY <1>2, <2>1, <3>1, Zenon
       DEF Next, WorkerStep, Fetch, Abort, AnnotateConfig, EditSpec, DeleteConfig, SyncConfig, Tick, CreatePVC,
           AnnotatePVC, DeletePVC, SyncPVC, OtherWrite, TaskStep, UserWrites, InitResourceIfConditionMet, InitConfig,
           SyncRepositories, InitRepositories, PanicWithoutRepository, MarkRestored,
           ServeConfigRequest, ClearConfigRequest, ServePVCRequest, ClearPVCRequest,
           ScheduleForget, WriteStatus, NothingToDo, UpdateAndReturn, Idle, ToStatus
  <2> QED BY <2>1, <2>2 DEF ScheduleBackup
<1> QED BY <1>1, <1>2

LEMMA BackedUpNext ==
  ASSUME TypeOK, TypeOK', PVCsInv, TimesInv, Next, \A u \in Specs : OneEach(u), \A q, u \in Repos : q = u,
         \A q, u \in PVCs : NameOf[q] = NameOf[u] => q = u,
         NEW p \in PVCs, NEW r \in Repos, NEW t \in Nat, BackedUp(p, r, t)
  PROVE  BackedUp(p, r, t)'
<1>0. /\ config \in ConfigRecord /\ config.rv \in Nat /\ obj.rv \in Nat
      /\ pvcs[p] \in PVCRecord /\ pvcs'[p] \in PVCRecord /\ clock \in Nat /\ clock' \in Nat /\ clock <= clock'
      /\ clock >= t
  <2>1. clock \in Nat /\ clock' \in {clock, clock + 1}
    BY BoundsAreNat, CopyChanges DEF TypeOK
  <2>2. clock' \in Nat /\ clock <= clock'
    BY <2>1
  <2>3. config \in ConfigRecord /\ obj \in ConfigRecord
    BY DEF TypeOK
  <2>4. config.rv \in Nat /\ obj.rv \in Nat
    BY <2>3 DEF ConfigRecord
  <2>5. pvcs[p] \in PVCRecord /\ pvcs'[p] \in PVCRecord
    BY DEF TypeOK
  <2> QED BY <2>1, <2>2, <2>3, <2>4, <2>5 DEF BackedUp
<1>1. /\ pvcs'[p].rv # 0
      /\ pvcs'[p].exists => pvcs[p].exists
  <2>1. Changed(pvcs[p], pvcs'[p], clock) /\ pvcs[p].rv # 0
    BY PVCChanges DEF BackedUp
  <2> QED BY <1>0, <2>1 DEF Changed, PVCRecord
<1>2. BackupMade(p, r, t) => BackupMade(p, r, t)'
  BY MadeStays DEF BackupMade
<1>3. ASSUME Spared(Losses)', pvcs'[p].exists, ~BackupMade(p, r, t)'
      PROVE  StillToBackUp(p, r, t)'
  <2>1. pvcs[p].exists /\ StillToBackUp(p, r, t)
    BY <1>1, <1>2, <1>3, FaultsGrow DEF BackedUp
  <2>2. ~ScheduleBackup(p)
    BY <1>0, <1>3, <2>1, RunMakesBackup DEF StillToBackUp
  <2>3. Over(p)'
    BY <2>1, <2>2, OverStays DEF StillToBackUp
  <2>4. pvcCache'[p].exists
    BY <2>1, CopyChanges DEF StillToBackUp
  <2>5. Before(config', r, t)
    <3>1. CASE config'.repos = config.repos
      BY <2>1, <3>1 DEF StillToBackUp, Before, LastBackup
    <3>2. CASE config'.repos = <<>>
      BY <3>2, BeforeIs
    <3>3. CASE Fresh /\ pc # "idle" /\ (pc = "schedule" => todo = {}) /\ config'.repos = obj.repos
      <4>1. Before(obj, r, t)
        BY <2>1, <3>3 DEF StillToBackUp, Fresh
      <4> QED BY <3>3, <4>1 DEF Before, LastBackup
    <3> QED BY <3>1, <3>2, <3>3, ConfigRepos
  <2>6. config' = config \/ config'.rv = config.rv + 1
    BY ConfigTimesKept
  <2>7. ASSUME pc' # "idle", obj'.rv = config'.rv
        PROVE  Before(obj', r, t) \/ (pc' = "schedule" /\ p \in todo')
    <3>1. CASE pc = "idle" /\ obj' = configCache /\ UNCHANGED config
      <4>1. configCache.repos = config.repos
        BY <2>7, <3>1 DEF TimesInv
      <4> QED BY <2>1, <3>1, <4>1 DEF StillToBackUp, Before, LastBackup
    <3>2. CASE pc # "idle" /\ obj'.rv = obj.rv
      <4>1. config' = config /\ obj.rv = config.rv
        <5>1. obj.rv <= config.rv
          BY <3>2 DEF TimesInv
        <5>2. CASE config' = config
          BY <2>7, <3>2, <5>2
        <5>3. CASE config'.rv = config.rv + 1
          <6>1. obj.rv = config.rv + 1
            BY <2>7, <3>2, <5>3
          <6>2. config.rv \in Nat /\ obj.rv \in Nat
            BY <1>0
          <6>3. FALSE
            BY <5>1, <6>1, <6>2
          <6> QED BY <6>3
        <5> QED BY <2>6, <5>2, <5>3
      <4>2. Before(obj, r, t) \/ (pc = "schedule" /\ p \in todo)
        BY <2>1, <3>2, <4>1 DEF StillToBackUp
      <4>3. CASE pc' = "schedule"
        <5>1. CASE pc = "schedule" => p \in todo
          BY <1>3, <2>1, <2>2, <4>3, <5>1, RunComesTo
        <5>2. CASE ~(pc = "schedule" => p \in todo)
          <6>1. ~ListPVCs
            BY <5>2 DEF ListPVCs
          <6>2. obj' = obj
            BY <4>3, <6>1, LoopsBegin
          <6> QED BY <4>2, <5>2, <6>2
        <5> QED BY <4>3, <5>1, <5>2
      <4>4. CASE pc' = "status" /\ pc # "status"
        <5>1. pc # "schedule"
          BY <2>7, <4>4, ObjTimes DEF Writing
        <5> QED BY <4>2, <4>4, <5>1, StatusCarries
      <4>5. CASE pc' # "schedule" /\ (pc' = pc \/ pc' \notin Writing)
        <5>1. obj' = obj /\ (pc # "schedule" \/ Before(obj, r, t))
          BY <2>7, <3>2, <4>2, <4>5, ObjTimes DEF Writing
        <5> QED BY <4>2, <5>1
      <4> QED BY <4>3, <4>4, <4>5 DEF Writing
    <3> QED BY <2>7, <3>1, <3>2, ObjTimes
  <2> QED BY <2>3, <2>4, <2>5, <2>7 DEF StillToBackUp, Before, LastBackup
<1> QED BY <1>0, <1>1, <1>3 DEF BackedUp

(* When there is one repository, no two PVCs have one name and no user      *)
(* lists the repository twice, no run is recorded for nothing: a PVC whose  *)
(* scheduled Tasks are over gets one from the next run, unless an event     *)
(* RunIsBackedUp names keeps it from it.                                    *)
THEOREM RunsAreBackedUp ==
  ASSUME \A u \in Specs : OneEach(u), \A q, u \in Repos : q = u,
         \A q, u \in PVCs : NameOf[q] = NameOf[u] => q = u
  PROVE  Spec => RunIsBackedUp
<1>1. ASSUME NEW p \in PVCs, NEW r \in Repos, NEW t \in 0 .. MaxClock
      PROVE  Spec => [](AtRest(p, r, t) => []NotInVain(p, r, t))
  <2>0. t \in Nat
    BY BoundsAreNat
  <2>1. TypeOK /\ PVCsInv /\ AtRest(p, r, t) => BackedUp(p, r, t)
    <3>1. SUFFICES ASSUME TypeOK, PVCsInv, AtRest(p, r, t) PROVE BackedUp(p, r, t)
      OBVIOUS
    <3>2. pvcs[p].rv # 0
      BY <3>1 DEF AtRest, PVCsInv, StoredOK, NewPVC
    <3>3. StillToBackUp(p, r, t)
      BY <3>1 DEF AtRest, StillToBackUp, Over, Before
    <3>4. clock >= t
      BY <2>0, <3>1 DEF AtRest
    <3> QED BY <3>2, <3>3, <3>4 DEF BackedUp
  <2>2. TypeOK /\ TypeOK' /\ PVCsInv /\ TimesInv /\ BackedUp(p, r, t) /\ [Next]_vars => BackedUp(p, r, t)'
    <3>1. ASSUME BackedUp(p, r, t), UNCHANGED vars PROVE BackedUp(p, r, t)'
      BY <3>1 DEF BackedUp, StillToBackUp, BackupMade, Over, ScheduledFor, Before, LastBackup, Spared, vars
    <3>2. ASSUME TypeOK, TypeOK', PVCsInv, TimesInv, BackedUp(p, r, t), Next PROVE BackedUp(p, r, t)'
      BY <2>0, <3>2, BackedUpNext
    <3> QED BY <3>1, <3>2
  <2>3. TypeOK /\ BackedUp(p, r, t) => NotInVain(p, r, t)
    <3>1. SUFFICES ASSUME TypeOK, BackedUp(p, r, t), Spared(Losses), pvcs[p].exists,
                          NEW c \in LastBackup(config, r), c >= t
                   PROVE  BackupMade(p, r, t)
      BY DEF NotInVain, Losses, BackupMade
    <3>2. c \in Int
      BY <3>1, TimesType DEF TypeOK, LastBackup
    <3>3. ~Before(config, r, t)
      BY <2>0, <3>1, <3>2 DEF Before
    <3> QED BY <3>1, <3>3 DEF BackedUp, StillToBackUp
  <2>4. Spec => []TimesInv
    BY TimesAgree
  <2> QED BY <2>1, <2>2, <2>3, <2>4, ConfigTypes, PVCsAgree, PTL DEF Spec
<1> QED BY <1>1 DEF RunIsBackedUp

=============================================================================
