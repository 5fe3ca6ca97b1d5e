--------------------------- MODULE ResticSnapshots ---------------------------
(***************************************************************************)
(* Annotations at work: Tasks made from them take snapshots into restic    *)
(* repositories and look for snapshots to restore.  The repositories are   *)
(* modelled by what the operator's command lines ask of restic.            *)
(***************************************************************************)
EXTENDS ResticArgs

CONSTANTS
  Annotations,   \* the annotations users write
  TaskNames,     \* TaskNames[n]: the name of the n-th backup Task
  Ids,           \* Ids[n]: the ID of the n-th snapshot
  MaxSnapshots   \* a bound

ASSUME AnnotationsAssumption == Annotations \subseteq Seq(Words) \ {<<>>}
ASSUME MaxSnapshotsAssumption == MaxSnapshots \in Nat

VARIABLES
  snapshots,     \* the snapshots of all repositories, in the order they were taken
  task           \* the last Task: what it was asked, its repository, its credentials

vars == <<snapshots, task>>

NoTask == [asked |-> <<NoWord>>, repo |-> 0, credentials |-> 0, found |-> 0]

Init == snapshots = <<>> /\ task = NoTask

(* restic, asked for a snapshot: 0 if there is none.  An ID is looked for   *)
(* in the repository; "latest" means the newest of the host, and of the tag *)
(* if one is given.                                                         *)
Find(args) ==
  LET fits == {i \in DOMAIN snapshots :
        /\ Repositories[snapshots[i].repo].target = Repositories[args.repo].target
        /\ args.source.by = "id" => snapshots[i].id = args.source.word
        /\ args.source.by # "id" => snapshots[i].host = args.host
        /\ args.source.by = "tag" => snapshots[i].tag = args.source.word}
  IN IF fits = {} THEN 0 ELSE CHOOSE i \in fits : \A j \in fits : j <= i

(* A backup Task for PVC p: its snapshot is taken.                          *)
Backup(p, a) ==
  /\ Len(snapshots) < MaxSnapshots
  /\ LET n == Len(snapshots) + 1
         args == MakeBackupArgs(a, p, TaskNames[n])
     IN /\ snapshots' = Append(snapshots,
             [repo |-> args.repo, host |-> args.host, tag |-> args.tag, id |-> Ids[n],
              of |-> p, asked |-> a])
        /\ task' = [asked |-> a, repo |-> args.repo, credentials |-> SelectRepository(a),
                    found |-> n]

(* A restore Task for PVC p.                                                *)
Restore(p, a) ==
  /\ LET args == MakeRestoreArgs(a, p) IN
       task' = [asked |-> a, repo |-> args.repo, credentials |-> SelectRepository(a),
                found |-> Find(args)]
  /\ UNCHANGED snapshots

Next == \E p \in PVCs, a \in Annotations : Backup(p, a) \/ Restore(p, a)

Spec == Init /\ [][Next]_vars

-----------------------------------------------------------------------------
(* "The same rules": a Task gets the credentials of the repository that its *)
(* command line names.                                                      *)
SameRules == task.repo = task.credentials

(* They are the same for the documented annotations, of at most three       *)
(* words, unless a target reads as a number (Shadowed).                     *)
SameRulesWhenPlain == Len(task.asked) <= 3 /\ ~Shadowed(task.asked) => SameRules

(* A backup that was given a name can be restored into any PVC by its       *)
(* repository, its host and that name, until the name is used again.        *)
Supersedes(j, i) ==
  /\ j > i
  /\ snapshots[j].repo = snapshots[i].repo /\ snapshots[j].host = snapshots[i].host
  /\ snapshots[j].tag = snapshots[i].tag

NamedBackupsAreFound ==
  \A i \in DOMAIN snapshots :
    LET s == snapshots[i]
        name == s.asked[Len(s.asked)]
    IN name \notin LatestWords /\ (\A j \in DOMAIN snapshots : ~Supersedes(j, i)) =>
         \A q \in PVCs : Find(MakeRestoreArgs(<<Repositories[s.repo].target, s.host, name>>, q)) = i

(* A restore that names neither a host nor a snapshot ID never brings the   *)
(* data of another PVC, whatever repository and backup it names, but for    *)
(* snapshots whose host a user chose.  (A word without bars is an ID, for   *)
(* which restic does not look at the host: it may be a snapshot of any PVC.) *)
NamesHost(a) == Len(a) >= 2 /\ a[Len(a) - 1] # NoWord

RestoresOwnData ==
  \A p \in PVCs, a \in {b \in Annotations : ~NamesHost(b) /\ RestoreSource(b).by # "id"} :
    LET i == Find(MakeRestoreArgs(a, p)) IN
      i # 0 => snapshots[i].of = p \/ NamesHost(snapshots[i].asked)

(* The name of a backup alone is enough to restore it.                      *)
NameIsEnough ==
  \A i \in DOMAIN snapshots :
    LET s == snapshots[i] IN
      Len(s.asked) = 1 /\ (\A j \in DOMAIN snapshots : ~Supersedes(j, i)) =>
        Find(MakeRestoreArgs(<<s.tag>>, s.of)) = i

(* A snapshot ID can be given together with a repository and a host.        *)
IdIsFound ==
  \A i \in DOMAIN snapshots :
    LET s == snapshots[i] IN
      \A q \in PVCs : Find(MakeRestoreArgs(<<Repositories[s.repo].target, s.host, s.id>>, q)) = i
=============================================================================
