----------------------- MODULE ResticSnapshots_proofs -----------------------
(***************************************************************************)
(* That a Task gets the credentials of the repository its command names,   *)
(* for every annotation of at most three words the target of which does    *)
(* not read as a number; that a backup with a name is found by it; and     *)
(* that a restore which names no host and no ID brings the PVC's own data. *)
(* All of it for whatever repositories, annotations and PVCs there are.    *)
(***************************************************************************)
EXTENDS ResticSnapshots, WellFoundedInduction, TLAPS

(* convertStringToRepoNameArgs reads the repository from the right, and     *)
(* SelectRepository from the left of exactly three words: up to three words *)
(* they agree on it.                                                        *)
LEMMA RulesAgree ==
  ASSUME NEW a \in Seq(Words), Len(a) <= 3, ~Shadowed(a)
  PROVE  RepoArg(a) = SelectRepository(a)
<1> DEFINE n == Len(a)
<1>0. n \in Nat /\ n <= 3
  OBVIOUS
<1>1. CASE n # 3
  <2>1. n < 3
    <3> HIDE DEF n
    <3> QED
      BY <1>0, <1>1
  <2> QED
    BY <1>1, <2>1 DEF RepoArg, SelectRepository
<1>2. CASE n = 3
  <2>1. a[Len(a) - 2] = a[1]
    BY <1>2
  <2>2. CASE a[1] = NoWord
    BY <1>2, <2>1, <2>2 DEF RepoArg, SelectRepository
  <2>3. CASE a[1] # NoWord /\ a[1] \notin Numerals
    <3>1. NumberedBy(a[1]) = {}
      BY <2>3 DEF NumberedBy
    <3> QED
      BY <1>2, <2>1, <2>3, <3>1 DEF RepoArg, SelectRepository
  <2>4. CASE a[1] # NoWord /\ a[1] \in Numerals
    <3>1. NumberedBy(a[1]) # {} \/ WithTarget(a[1]) = {}
      BY <1>2, <2>4 DEF Shadowed
    <3> QED
      BY <1>2, <2>1, <2>4, <3>1 DEF RepoArg, SelectRepository
  <2> QED
    BY <2>2, <2>3, <2>4
<1> QED
  BY <1>1, <1>2

(* SameRulesWhenPlain, the property the run Annotations checks, for every   *)
(* list of repositories and every set of annotations.                       *)
THEOREM PlainAnnotationsAgree == Spec => []SameRulesWhenPlain
<1>1. Init => SameRulesWhenPlain
  BY DEF Init, NoTask, SameRulesWhenPlain, SameRules
<1>2. SameRulesWhenPlain /\ [Next]_vars => SameRulesWhenPlain'
  <2> SUFFICES ASSUME SameRulesWhenPlain, [Next]_vars
               PROVE  SameRulesWhenPlain'
    OBVIOUS
  <2>1. ASSUME NEW p \in PVCs, NEW a \in Annotations, Backup(p, a)
        PROVE  SameRulesWhenPlain'
    <3>1. task'.asked = a /\ task'.repo = RepoArg(a) /\ task'.credentials = SelectRepository(a)
      BY <2>1 DEF Backup, MakeBackupArgs
    <3> QED
      BY <3>1, RulesAgree, AnnotationsAssumption DEF SameRulesWhenPlain, SameRules
  <2>2. ASSUME NEW p \in PVCs, NEW a \in Annotations, Restore(p, a)
        PROVE  SameRulesWhenPlain'
    <3>1. task'.asked = a /\ task'.repo = RepoArg(a) /\ task'.credentials = SelectRepository(a)
      BY <2>2 DEF Restore, MakeRestoreArgs
    <3> QED
      BY <3>1, RulesAgree, AnnotationsAssumption DEF SameRulesWhenPlain, SameRules
  <2>3. CASE UNCHANGED vars
    BY <2>3 DEF vars, SameRulesWhenPlain, SameRules
  <2> QED
    BY <2>1, <2>2, <2>3 DEF Next
<1> QED
  BY <1>1, <1>2, PTL DEF Spec

-----------------------------------------------------------------------------
(* First and last elements of sets of indexes. *)

LEMMA FirstIndex ==
  ASSUME NEW S \in SUBSET Nat, S # {}
  PROVE  \E i \in S : \A j \in S : i <= j
<1>1. PICK i \in S : \A j \in S : <<j, i>> \notin OpToRel(<, Nat)
  BY NatLessThanWellFounded, WFMin
<1>2. \A j \in S : ~(j < i)
  BY <1>1 DEF OpToRel
<1> QED
  BY <1>2

LEMMA LastIndex ==
  ASSUME NEW n \in Nat, NEW S \in SUBSET (1 .. n), S # {}
  PROVE  \E i \in S : \A j \in S : j <= i
<1> DEFINE T == {k \in Nat : \A j \in S : j <= k}
<1>1. n \in T
  OBVIOUS
<1>2. PICK k \in T : \A l \in T : k <= l
  <2>1. T \in SUBSET Nat /\ T # {}
    BY <1>1
  <2> HIDE DEF T
  <2> QED
    BY <2>1, FirstIndex
<1>3. k \in S
  <2>1. SUFFICES ASSUME k \notin S
                 PROVE  FALSE
    OBVIOUS
  <2>2. PICK j \in S : TRUE
    OBVIOUS
  <2>3. k - 1 \in Nat
    BY <2>2
  <2>4. \A i \in S : i <= k - 1
    BY <2>1
  <2> QED
    BY <1>2, <2>3, <2>4
<1> QED
  BY <1>3

LEMMA FirstOfIsFirst ==
  ASSUME NEW S \in SUBSET Nat, S # {}
  PROVE  FirstOf(S) \in S
BY FirstIndex DEF FirstOf

(* A finite list of numbers has a least one: otherwise there is a shortest  *)
(* beginning of the list that has none, and what is one shorter has one.    *)
LEMMA LeastExists ==
  ASSUME NEW n \in Nat, n # 0, NEW f \in [1 .. n -> Int]
  PROVE  \E i \in 1 .. n : \A j \in 1 .. n : f[i] <= f[j]
<1> DEFINE Bad == {k \in 1 .. n : \A i \in 1 .. k : \E j \in 1 .. k : ~(f[i] <= f[j])}
<1>1. SUFFICES ASSUME Bad # {}
               PROVE  FALSE
  <2>1. n \in 1 .. n
    OBVIOUS
  <2> QED
    BY <2>1
<1>2. PICK k \in Bad : \A l \in Bad : k <= l
  <2>1. Bad \in SUBSET Nat
    OBVIOUS
  <2> HIDE DEF Bad
  <2> QED
    BY <1>1, <2>1, FirstIndex
<1>3. k \in 1 .. n /\ \A i \in 1 .. k : \E j \in 1 .. k : ~(f[i] <= f[j])
  BY <1>2
<1>4. k # 1
  <2>1. SUFFICES ASSUME k = 1
                 PROVE  FALSE
    OBVIOUS
  <2>2. \E j \in 1 .. 1 : ~(f[1] <= f[j])
    BY <1>3, <2>1
  <2>3. f[1] \in Int
    BY <1>3, <2>1
  <2> QED
    BY <2>2, <2>3
<1>5. k - 1 \in 1 .. n /\ k - 1 \notin Bad
  <2>1. k - 1 \in 1 .. n /\ ~(k <= k - 1)
    BY <1>3, <1>4
  <2> QED
    BY <1>2, <2>1
<1>6. PICK i \in 1 .. k - 1 : \A j \in 1 .. k - 1 : f[i] <= f[j]
  BY <1>5
<1> HIDE DEF Bad
<1>7. \A j \in 1 .. k : j \in 1 .. k - 1 \/ j = k
  BY <1>3
<1>8. i \in 1 .. k /\ k \in 1 .. k /\ \A j \in 1 .. k : f[j] \in Int
  BY <1>3
<1>9. CASE f[i] <= f[k]
  <2>1. \A j \in 1 .. k : f[i] <= f[j]
    BY <1>6, <1>7, <1>9
  <2> QED
    BY <1>3, <1>8, <2>1
<1>10. CASE ~(f[i] <= f[k])
  <2>1. \A j \in 1 .. k : f[k] <= f[j]
    BY <1>6, <1>7, <1>8, <1>10
  <2> QED
    BY <1>3, <1>8, <2>1
<1> QED
  BY <1>9, <1>10

LEMMA HighestExists == HighestPriority # {}
<1> DEFINE n == Len(Repositories)
           f == [i \in 1 .. n |-> Repositories[i].priority]
<1>1. n \in Nat /\ n # 0 /\ DOMAIN Repositories = 1 .. n
  BY RepositoriesAssumption
<1>2. \A i \in DOMAIN Repositories : Repositories[i] \in [target : Words, priority : Int]
  <2> DEFINE R == [target : Words, priority : Int]
  <2>1. Repositories \in Seq(R)
    BY RepositoriesAssumption
  <2> HIDE DEF R
  <2>2. \A i \in DOMAIN Repositories : Repositories[i] \in R
    BY <2>1
  <2> QED
    BY <2>2 DEF R
<1> HIDE DEF n
<1>3. f \in [1 .. n -> Int]
  BY <1>1, <1>2
<1>4. \E i \in 1 .. n : \A j \in 1 .. n : f[i] <= f[j]
  <2> HIDE DEF f
  <2> QED
    BY <1>1, <1>3, LeastExists
<1> QED
  BY <1>1, <1>4 DEF HighestPriority

LEMMA RepoArgExists ==
  ASSUME NEW a
  PROVE  RepoArg(a) \in DOMAIN Repositories
<1>1. DOMAIN Repositories \subseteq Nat
  BY RepositoriesAssumption
<1>2. \A S \in SUBSET DOMAIN Repositories : S # {} => FirstOf(S) \in DOMAIN Repositories
  BY <1>1, FirstOfIsFirst
<1>3. \A w : NumberedBy(w) \subseteq DOMAIN Repositories /\ WithTarget(w) \subseteq DOMAIN Repositories
  BY DEF NumberedBy, WithTarget, WithPriority
<1>4. HighestPriority \subseteq DOMAIN Repositories
  BY DEF HighestPriority
<1> QED
  BY <1>2, <1>3, <1>4, HighestExists DEF RepoArg

-----------------------------------------------------------------------------
(* What is in the repositories: snapshots that Backup has taken.            *)
SnapshotOf(p, a, n) ==
  [repo |-> RepoArg(a), host |-> HostArg(a, p), tag |-> BackupTag(a, TaskNames[n]),
   id |-> Ids[n], of |-> p, asked |-> a]

Snapshots == {SnapshotOf(p, a, n) : p \in PVCs, a \in Annotations, n \in Nat}

SnapshotsTaken == snapshots \in Seq(Snapshots)

LEMMA SnapshotsAreBackups == Spec => []SnapshotsTaken
<1>1. Init => SnapshotsTaken
  BY DEF Init, SnapshotsTaken
<1>2. SnapshotsTaken /\ [Next]_vars => SnapshotsTaken'
  <2> SUFFICES ASSUME SnapshotsTaken, [Next]_vars
               PROVE  SnapshotsTaken'
    OBVIOUS
  <2>1. ASSUME NEW p \in PVCs, NEW a \in Annotations, Backup(p, a)
        PROVE  SnapshotsTaken'
    <3> DEFINE n == Len(snapshots) + 1
    <3>1. n \in Nat
      BY DEF SnapshotsTaken
    <3>2. snapshots' = Append(snapshots, SnapshotOf(p, a, n))
      BY <2>1 DEF Backup, MakeBackupArgs, SnapshotOf
    <3>3. SnapshotOf(p, a, n) \in Snapshots
      <4> HIDE DEF n
      <4> QED
        BY <3>1 DEF Snapshots
    <3> QED
      BY <3>2, <3>3 DEF SnapshotsTaken
  <2>2. ASSUME NEW p \in PVCs, NEW a \in Annotations, Restore(p, a)
        PROVE  SnapshotsTaken'
    BY <2>2 DEF Restore, SnapshotsTaken
  <2>3. CASE UNCHANGED vars
    BY <2>3 DEF vars, SnapshotsTaken
  <2> QED
    BY <2>1, <2>2, <2>3 DEF Next
<1> QED
  BY <1>1, <1>2, PTL DEF Spec

(* What is known of one snapshot.                                           *)
LEMMA SnapshotFacts ==
  ASSUME SnapshotsTaken, NEW i \in DOMAIN snapshots
  PROVE  LET s == snapshots[i] IN
         /\ s.repo \in DOMAIN Repositories
         /\ s.of \in PVCs /\ s.asked \in Annotations
         /\ s.host = HostArg(s.asked, s.of)
         /\ s.asked[Len(s.asked)] \notin LatestWords => s.tag = s.asked[Len(s.asked)]
<1>1. snapshots[i] \in Snapshots
  BY DEF SnapshotsTaken
<1>2. PICK p \in PVCs, a \in Annotations, n \in Nat : snapshots[i] = SnapshotOf(p, a, n)
  BY <1>1 DEF Snapshots
<1> QED
  BY <1>2, RepoArgExists DEF SnapshotOf, BackupTag

-----------------------------------------------------------------------------
(* Repositories that are told apart by their targets, none of which is      *)
(* empty or the number of a repository; PVCs have a name.                   *)
TargetsAreNames ==
  \A i \in DOMAIN Repositories :
    LET w == Repositories[i].target IN
      w # NoWord /\ NumberedBy(w) = {} /\ WithTarget(w) = {i}

DefaultHost(p) == p.namespace \o p.name
PVCsAreNamed == \A p \in PVCs : DefaultHost(p) # NoWord

LEMMA HostIsNamed ==
  ASSUME PVCsAreNamed, NEW p \in PVCs, NEW a
  PROVE  HostArg(a, p) # NoWord
BY DEF PVCsAreNamed, HostArg, DefaultHost

(* A name and a host lead to the newest snapshot that carries both.         *)
LEMMA NamedIsFound ==
  ASSUME TargetsAreNames, PVCsAreNamed, SnapshotsTaken, NEW i \in DOMAIN snapshots,
         snapshots[i].asked[Len(snapshots[i].asked)] \notin LatestWords,
         \A j \in DOMAIN snapshots : ~Supersedes(j, i), NEW q
  PROVE  Find(MakeRestoreArgs(<<Repositories[snapshots[i].repo].target, snapshots[i].host,
                                snapshots[i].asked[Len(snapshots[i].asked)]>>, q)) = i
<1> DEFINE s == snapshots[i]
           r == s.repo
           target == Repositories[r].target
           host == s.host
           name == s.asked[Len(s.asked)]
           a == <<target, host, name>>
<1>1. r \in DOMAIN Repositories /\ host # NoWord /\ name \notin LatestWords /\ s.tag = name
  BY SnapshotFacts, HostIsNamed
<1>2. target # NoWord /\ NumberedBy(target) = {} /\ WithTarget(target) = {r}
  BY <1>1 DEF TargetsAreNames
<1>3. r \in Nat /\ DOMAIN snapshots \subseteq Nat
  BY <1>1, RepositoriesAssumption DEF SnapshotsTaken
<1>4. FirstOf({r}) = r
  BY <1>3 DEF FirstOf
<1> HIDE DEF target, host, name, r
<1>5. RepoArg(a) = r
  <2>1. Len(a) = 3 /\ a[1] = target
    OBVIOUS
  <2>2. a[Len(a) - 2] = target
    BY <2>1
  <2>3. ~(Len(a) < 3 \/ a[Len(a) - 2] = NoWord)
    BY <1>2, <2>1, <2>2
  <2>4. NumberedBy(a[Len(a) - 2]) = {} /\ WithTarget(a[Len(a) - 2]) = {r}
    BY <1>2, <2>2
  <2> HIDE DEF a
  <2>5. WithTarget(a[Len(a) - 2]) # {} /\ FirstOf(WithTarget(a[Len(a) - 2])) = r
    BY <1>4, <2>4
  <2> QED
    BY <2>3, <2>4, <2>5, Zenon DEF RepoArg
<1>6. HostArg(a, q) = host
  <2>1. Len(a) = 3 /\ a[2] = host
    OBVIOUS
  <2>2. a[Len(a) - 1] = host
    BY <2>1
  <2> HIDE DEF a
  <2> QED
    BY <1>1, <2>1, <2>2 DEF HostArg
<1>7. RestoreSource(a) = [by |-> "tag", word |-> name]
  <2>1. Len(a) = 3 /\ a[3] = name
    OBVIOUS
  <2>2. a[Len(a)] = name
    BY <2>1
  <2> HIDE DEF a
  <2> QED
    BY <1>1, <2>1, <2>2 DEF RestoreSource
<1> DEFINE fits == {j \in DOMAIN snapshots :
                      /\ Repositories[snapshots[j].repo].target = target
                      /\ snapshots[j].host = host
                      /\ snapshots[j].tag = name}
<1>8. Find(MakeRestoreArgs(a, q))
        = IF fits = {} THEN 0 ELSE CHOOSE m \in fits : \A j \in fits : j <= m
  <2> DEFINE args == MakeRestoreArgs(a, q)
  <2>1. /\ args.repo = r /\ args.host = host
        /\ args.source.by = "tag" /\ args.source.word = name
    BY <1>5, <1>6, <1>7 DEF MakeRestoreArgs
  <2> HIDE DEF args, a
  <2> DEFINE found == {j \in DOMAIN snapshots :
                         /\ Repositories[snapshots[j].repo].target = Repositories[args.repo].target
                         /\ args.source.by = "id" => snapshots[j].id = args.source.word
                         /\ args.source.by # "id" => snapshots[j].host = args.host
                         /\ args.source.by = "tag" => snapshots[j].tag = args.source.word}
  <2>2. Find(args) = IF found = {} THEN 0 ELSE CHOOSE m \in found : \A j \in found : j <= m
    BY DEF Find
  <2>3. found = fits
    BY <2>1 DEF target
  <2> HIDE DEF found, fits
  <2> QED
    BY <2>2, <2>3 DEF args
<1>9. i \in fits
  BY <1>1 DEF target, host, r
<1>10. ASSUME NEW j \in fits
       PROVE  j <= i
  <2>1. snapshots[j].repo \in DOMAIN Repositories
    BY SnapshotFacts
  <2>2. snapshots[j].repo = r
    BY <1>2, <2>1 DEF WithTarget
  <2>3. ~(j > i)
    BY <1>1, <2>2 DEF Supersedes, host, r
  <2>4. i \in Nat /\ j \in Nat
    BY <1>3
  <2> QED
    BY <2>3, <2>4
<1>11. \A m \in fits : (\A j \in fits : j <= m) => m = i
  <2>1. \A m \in fits : m \in Nat /\ i \in Nat
    BY <1>3
  <2> QED
    BY <1>9, <1>10, <2>1
<1>12. (CHOOSE m \in fits : \A j \in fits : j <= m) = i
  <2> HIDE DEF fits
  <2> QED
    BY <1>9, <1>10, <1>11
<1> QED
  BY <1>8, <1>9, <1>12 DEF a, target, host, name, r

(* NamedBackupsAreFound: a backup that was given a name is restored by its  *)
(* repository, its host and that name, into whatever PVC and however many   *)
(* snapshots there are, until the name is used again.                       *)
THEOREM NamesFindBackups ==
  ASSUME TargetsAreNames, PVCsAreNamed
  PROVE  Spec => []NamedBackupsAreFound
<1>1. SnapshotsTaken => NamedBackupsAreFound
  BY NamedIsFound DEF NamedBackupsAreFound
<1> QED
  BY <1>1, SnapshotsAreBackups, PTL

-----------------------------------------------------------------------------
(* PVCs that are told apart by namespace and name joined with a dash; those *)
(* of DashedNames.cfg are not.                                              *)
HostsDiffer == \A p, q \in PVCs : DefaultHost(p) = DefaultHost(q) => p = q

(* What is found, other than by an ID, is of the host that was asked for.   *)
LEMMA FoundIsOfHost ==
  ASSUME SnapshotsTaken, NEW p, NEW a, RestoreSource(a).by # "id",
         Find(MakeRestoreArgs(a, p)) # 0
  PROVE  LET i == Find(MakeRestoreArgs(a, p)) IN
         i \in DOMAIN snapshots /\ snapshots[i].host = HostArg(a, p)
<1> DEFINE args == MakeRestoreArgs(a, p)
           fits == {i \in DOMAIN snapshots :
                      /\ Repositories[snapshots[i].repo].target = Repositories[args.repo].target
                      /\ args.source.by = "id" => snapshots[i].id = args.source.word
                      /\ args.source.by # "id" => snapshots[i].host = args.host
                      /\ args.source.by = "tag" => snapshots[i].tag = args.source.word}
<1>1. args.source.by # "id" /\ args.host = HostArg(a, p)
  BY DEF MakeRestoreArgs
<1>2. Find(args) = IF fits = {} THEN 0 ELSE CHOOSE i \in fits : \A j \in fits : j <= i
  BY DEF Find
<1>3. fits # {}
  BY <1>2
<1>4. \E i \in fits : \A j \in fits : j <= i
  <2>1. Len(snapshots) \in Nat /\ fits \in SUBSET (1 .. Len(snapshots))
    BY DEF SnapshotsTaken
  <2> HIDE DEF fits
  <2> QED
    BY <1>3, <2>1, LastIndex
<1>5. Find(args) \in fits
  <2> HIDE DEF fits, args
  <2> QED
    BY <1>2, <1>3, <1>4
<1> HIDE DEF args
<1> QED
  BY <1>1, <1>5 DEF args

(* RestoresOwnData: a restore that names neither a host nor a snapshot ID   *)
(* never brings the data of another PVC, whatever else it names, but for    *)
(* snapshots whose host a user chose.                                       *)
THEOREM OwnDataIsRestored ==
  ASSUME HostsDiffer
  PROVE  Spec => []RestoresOwnData
<1>1. SnapshotsTaken => RestoresOwnData
  <2> SUFFICES ASSUME SnapshotsTaken, NEW p \in PVCs, NEW a \in Annotations,
                      ~NamesHost(a), RestoreSource(a).by # "id",
                      Find(MakeRestoreArgs(a, p)) # 0,
                      ~NamesHost(snapshots[Find(MakeRestoreArgs(a, p))].asked)
               PROVE  snapshots[Find(MakeRestoreArgs(a, p))].of = p
    BY DEF RestoresOwnData
  <2> DEFINE i == Find(MakeRestoreArgs(a, p))
  <2>1. i \in DOMAIN snapshots /\ snapshots[i].host = HostArg(a, p)
    BY FoundIsOfHost
  <2> HIDE DEF i
  <2>2. snapshots[i].of \in PVCs /\ snapshots[i].host = HostArg(snapshots[i].asked, snapshots[i].of)
    BY <2>1, SnapshotFacts
  <2>3. snapshots[i].host = DefaultHost(snapshots[i].of)
    BY <2>2 DEF HostArg, NamesHost, DefaultHost, i
  <2>4. snapshots[i].host = DefaultHost(p)
    BY <2>1 DEF HostArg, NamesHost, DefaultHost
  <2>5. snapshots[i].of = p
    BY <2>2, <2>3, <2>4 DEF HostsDiffer
  <2> QED
    BY <2>5 DEF i
<1> QED
  BY <1>1, SnapshotsAreBackups, PTL
=============================================================================
