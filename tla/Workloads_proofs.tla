-------------------------- MODULE Workloads_proofs --------------------------
(***************************************************************************)
(* Theorems about Workloads, for any Deployments, StatefulSets, pods and   *)
(* sizes, every list of pods and every bound.                              *)
(***************************************************************************)
EXTENDS Workloads, FiniteSetTheorems, WellFoundedInduction, TLAPS

-----------------------------------------------------------------------------
(* FindWorkloadsForPVC folds over the list of pods.  What it returns is     *)
(* shown for every list by its shortest counterexample: the induction is    *)
(* the well-foundedness of < on Nat, applied to a set.                      *)

LEMMA LeastExists ==
  ASSUME NEW S \in SUBSET Nat, S # {}
  PROVE  \E i \in S : \A j \in S : i <= j
<1>1. PICK i \in S : \A j \in S : <<j, i>> \notin OpToRel(<, Nat)
  BY NatLessThanWellFounded, WFMin
<1>2. \A j \in S : ~(j < i)
  BY <1>1 DEF OpToRel
<1> QED BY <1>2

(* A set of numbers that holds 0, and n + 1 with n, up to a bound.          *)
LEMMA UpTo ==
  ASSUME NEW m \in Nat, NEW S \in SUBSET (0 .. m), 0 \in S,
         \A n \in S : n < m => n + 1 \in S
  PROVE  S = 0 .. m
<1> SUFFICES ASSUME (0 .. m) \ S # {} PROVE FALSE
  OBVIOUS
<1>1. PICK i \in (0 .. m) \ S : \A j \in (0 .. m) \ S : i <= j
  <2>1. (0 .. m) \ S \in SUBSET Nat
    OBVIOUS
  <2> QED BY <2>1, LeastExists
<1>2. i \in Nat /\ i # 0 /\ i <= m /\ i - 1 \in 0 .. m /\ i - 1 < m /\ ~(i <= i - 1)
  BY <1>1
<1>3. i - 1 \in S
  BY <1>1, <1>2
<1>4. (i - 1) + 1 \in S
  BY <1>2, <1>3
<1> QED BY <1>1, <1>2, <1>4

(* One pod of the list.                                                     *)
FindNext(found, p, missed) ==
  LET w == FindScalableWorkload(p) IN
  IF p \in missed \/ w = Nothing \/ Contains(found, w) THEN found ELSE Append(found, w)

(* The function behind the fold, over the first k indexes of the list.      *)
Folded(list, missed, k, f) ==
  f = [s \in SUBSET (1 .. k) |-> IF s = {} THEN <<>>
                                 ELSE FindNext(f[s \ {Max(s)}], list[Max(s)], missed)]

LEMMA MaxOfAll ==
  ASSUME NEW k \in Nat, NEW s \in SUBSET (1 .. (k + 1)), k + 1 \in s
  PROVE  Max(s) = k + 1
<1>1. k + 1 \in s /\ \A y \in s : k + 1 >= y
  OBVIOUS
<1>2. \A x \in s : (\A y \in s : x >= y) => x = k + 1
  BY <1>1
<1> QED BY <1>1, <1>2 DEF Max

LEMMA FoldedExtends ==
  ASSUME NEW list, NEW missed, NEW k \in Nat, NEW f, Folded(list, missed, k, f)
  PROVE  \E g : Folded(list, missed, k + 1, g)
<1> DEFINE g == [s \in SUBSET (1 .. (k + 1)) |->
                   IF k + 1 \in s THEN FindNext(f[s \ {k + 1}], list[k + 1], missed) ELSE f[s]]
<1>1. /\ \A s \in SUBSET (1 .. k) : f[s] = IF s = {} THEN <<>>
                                           ELSE FindNext(f[s \ {Max(s)}], list[Max(s)], missed)
  BY DEF Folded
<1>2. ASSUME NEW s \in SUBSET (1 .. (k + 1))
      PROVE  g[s] = IF s = {} THEN <<>> ELSE FindNext(g[s \ {Max(s)}], list[Max(s)], missed)
  <2>1. CASE k + 1 \in s
    <3>1. Max(s) = k + 1 /\ s # {}
      BY <2>1, MaxOfAll
    <3>2. s \ {k + 1} \in SUBSET (1 .. (k + 1)) /\ k + 1 \notin s \ {k + 1}
      OBVIOUS
    <3>3. g[s \ {k + 1}] = f[s \ {k + 1}]
      BY <3>2
    <3>4. g[s] = FindNext(f[s \ {k + 1}], list[k + 1], missed)
      BY <2>1
    <3> QED BY <3>1, <3>3, <3>4
  <2>2. CASE k + 1 \notin s
    <3>1. s \in SUBSET (1 .. k) /\ s \ {Max(s)} \in SUBSET (1 .. (k + 1)) /\ k + 1 \notin s \ {Max(s)}
      <4>1. \A i \in s : i \in 1 .. k
        BY <2>2
      <4> QED BY <2>2, <4>1
    <3>2. g[s] = f[s] /\ g[s \ {Max(s)}] = f[s \ {Max(s)}]
      BY <2>2, <3>1
    <3> QED BY <1>1, <3>1, <3>2
  <2> QED BY <2>1, <2>2
<1>3. Folded(list, missed, k + 1, g)
  <2>1. g = [s \in SUBSET (1 .. (k + 1)) |-> g[s]]
    OBVIOUS
  <2> HIDE DEF g
  <2> QED BY <1>2, <2>1 DEF Folded
<1> QED BY <1>3

LEMMA FoldedExists ==
  ASSUME NEW list, NEW missed, NEW m \in Nat
  PROVE  \E f : Folded(list, missed, m, f)
<1> DEFINE S == {k \in 0 .. m : \E f : Folded(list, missed, k, f)}
<1>1. 0 \in S
  <2> DEFINE f == [s \in SUBSET (1 .. 0) |-> <<>>]
  <2>1. \A s \in SUBSET (1 .. 0) : s = {}
    OBVIOUS
  <2>2. f = [s \in SUBSET (1 .. 0) |-> IF s = {} THEN <<>>
                                       ELSE FindNext(f[s \ {Max(s)}], list[Max(s)], missed)]
    BY <2>1
  <2>3. Folded(list, missed, 0, f)
    BY <2>2 DEF Folded
  <2> QED BY <2>3
<1>2. \A n \in S : n < m => n + 1 \in S
  BY FoldedExtends
<1>3. S = 0 .. m
  <2> HIDE DEF S
  <2>1. S \in SUBSET (0 .. m)
    BY DEF S
  <2> QED BY <1>1, <1>2, <2>1, UpTo
<1>4. m \in S
  BY <1>3
<1> QED BY <1>4

(* What is found in the first n pods, for every n.                          *)
LEMMA FindStepByStep ==
  ASSUME NEW m \in Nat, NEW list, DOMAIN list = 1 .. m, NEW missed
  PROVE  \E g : /\ g[0] = <<>> /\ g[m] = FindWorkloadsForPVC(list, missed)
                /\ \A n \in 1 .. m : g[n] = FindNext(g[n - 1], list[n], missed)
<1> DEFINE f == CHOOSE iter : Folded(list, missed, m, iter)
           g == [n \in 0 .. m |-> f[1 .. n]]
<1>1. Folded(list, missed, m, f)
  BY FoldedExists
<1>2. FindWorkloadsForPVC(list, missed) = f[1 .. m]
  BY DEF FindWorkloadsForPVC, FoldLeft, MapThenFoldSet, Folded, FindNext
<1> HIDE DEF f
<1>3. \A s \in SUBSET (1 .. m) : f[s] = IF s = {} THEN <<>>
                                        ELSE FindNext(f[s \ {Max(s)}], list[Max(s)], missed)
  BY <1>1 DEF Folded
<1>4. g[0] = <<>>
  <2>1. 1 .. 0 = {} /\ 1 .. 0 \in SUBSET (1 .. m)
    OBVIOUS
  <2>2. f[1 .. 0] = <<>>
    BY <1>3, <2>1
  <2> QED BY <2>2
<1>5. ASSUME NEW n \in 1 .. m PROVE g[n] = FindNext(g[n - 1], list[n], missed)
  <2>1. /\ n \in Nat /\ n - 1 \in Nat /\ n - 1 \in 0 .. m /\ (n - 1) + 1 = n
        /\ 1 .. n \in SUBSET (1 .. m) /\ n \in 1 .. n /\ (1 .. n) \ {n} = 1 .. (n - 1)
    OBVIOUS
  <2>2. Max(1 .. n) = n
    BY <2>1, MaxOfAll
  <2>3. f[1 .. n] = FindNext(f[1 .. (n - 1)], list[n], missed)
    BY <1>3, <2>1, <2>2
  <2> QED BY <2>1, <2>3
<1>6. g[m] = f[1 .. m]
  OBVIOUS
<1> HIDE DEF g
<1> QED BY <1>2, <1>4, <1>5, <1>6

-----------------------------------------------------------------------------
(* What is found. *)

(* The workloads that a pod of P leads to.                                  *)
LedTo(P) == {FindScalableWorkload(p) : p \in P} \ {Nothing}

LEMMA FindScalableType ==
  ASSUME NEW p
  PROVE  LET w == FindScalableWorkload(p) IN w # Nothing => w \in Workloads /\ Exists(w)
BY DEF FindScalableWorkload, Exists

(* found has been made of the pods in P, without a workload twice.          *)
FoundFrom(found, P) ==
  /\ found \in Seq(Workloads)
  /\ \A i, j \in DOMAIN found : found[i] = found[j] => i = j
  /\ ToSet(found) = LedTo(P)

LEMMA FindNextPod ==
  ASSUME NEW found, NEW P, FoundFrom(found, P), NEW p, NEW missed
  PROVE  FoundFrom(FindNext(found, p, missed), P \cup ({p} \ missed))
<1> DEFINE w == FindScalableWorkload(p)
<1>1. /\ found \in Seq(Workloads) /\ Len(found) \in Nat /\ DOMAIN found = 1 .. Len(found)
      /\ ToSet(found) = LedTo(P)
      /\ \A i, j \in DOMAIN found : found[i] = found[j] => i = j
  BY DEF FoundFrom
<1>2. Contains(found, w) <=> w \in ToSet(found)
  BY <1>1 DEF Contains, ToSet
<1>3. CASE p \in missed
  <2>1. P \cup ({p} \ missed) = P
    BY <1>3
  <2> QED BY <1>3, <2>1 DEF FindNext
<1>4. CASE p \notin missed /\ (w = Nothing \/ Contains(found, w))
  <2>1. LedTo(P \cup ({p} \ missed)) = LedTo(P)
    <3>1. w = Nothing \/ w \in LedTo(P)
      BY <1>1, <1>2, <1>4
    <3>2. P \cup ({p} \ missed) = P \cup {p}
      BY <1>4
    <3>3. {FindScalableWorkload(q) : q \in P \cup {p}} = {FindScalableWorkload(q) : q \in P} \cup {w}
      OBVIOUS
    <3> QED BY <3>1, <3>2, <3>3 DEF LedTo
  <2>2. FindNext(found, p, missed) = found
    BY <1>4 DEF FindNext
  <2> QED BY <1>1, <2>1, <2>2 DEF FoundFrom
<1>5. CASE p \notin missed /\ w # Nothing /\ ~Contains(found, w)
  <2>1. FindNext(found, p, missed) = Append(found, w)
    BY <1>5 DEF FindNext
  <2>2. w \in Workloads
    BY <1>5, FindScalableType
  <2> HIDE DEF w
  <2> DEFINE more == Append(found, w)
  <2>3. /\ more \in Seq(Workloads) /\ DOMAIN more = 1 .. (Len(found) + 1)
        /\ \A i \in 1 .. Len(found) : more[i] = found[i]
        /\ more[Len(found) + 1] = w
    BY <1>1, <2>2
  <2> HIDE DEF more
  <2>4. \A i \in 1 .. Len(found) : found[i] # w
    BY <1>1, <1>5 DEF Contains
  <2>5. ASSUME NEW i \in DOMAIN more, NEW j \in DOMAIN more, more[i] = more[j] PROVE i = j
    <3>1. CASE i \in 1 .. Len(found) /\ j \in 1 .. Len(found)
      BY <1>1, <2>3, <2>5, <3>1
    <3>2. CASE i = Len(found) + 1 /\ j \in 1 .. Len(found)
      BY <2>3, <2>4, <2>5, <3>2
    <3>3. CASE j = Len(found) + 1 /\ i \in 1 .. Len(found)
      BY <2>3, <2>4, <2>5, <3>3
    <3> QED BY <1>1, <2>3, <3>1, <3>2, <3>3
  <2>6. ToSet(more) = ToSet(found) \cup {w}
    <3>1. DOMAIN more = DOMAIN found \cup {Len(found) + 1}
      BY <1>1, <2>3
    <3> QED BY <1>1, <2>3, <3>1 DEF ToSet
  <2>7. LedTo(P \cup ({p} \ missed)) = LedTo(P) \cup {w}
    <3>1. P \cup ({p} \ missed) = P \cup {p}
      BY <1>5
    <3>2. {FindScalableWorkload(q) : q \in P \cup {p}} = {FindScalableWorkload(q) : q \in P} \cup {w}
      BY DEF w
    <3> QED BY <1>5, <3>1, <3>2 DEF LedTo
  <2> QED BY <1>1, <2>1, <2>3, <2>5, <2>6, <2>7 DEF FoundFrom, more
<1> QED BY <1>3, <1>4, <1>5

(* What FindWorkloadsForPVC returns, for every list and whatever is missed. *)
THEOREM FindFindsAll ==
  ASSUME NEW m \in Nat, NEW list, DOMAIN list = 1 .. m, NEW missed
  PROVE  FoundFrom(FindWorkloadsForPVC(list, missed), ToSet(list) \ missed)
<1> DEFINE P(n) == {list[i] : i \in 1 .. n} \ missed
<1>1. PICK g : /\ g[0] = <<>> /\ g[m] = FindWorkloadsForPVC(list, missed)
               /\ \A n \in 1 .. m : g[n] = FindNext(g[n - 1], list[n], missed)
  BY FindStepByStep
<1> DEFINE S == {n \in 0 .. m : FoundFrom(g[n], P(n))}
<1>2. 0 \in S
  <2>1. P(0) = {}
    OBVIOUS
  <2>2. FoundFrom(<<>>, {})
    BY DEF FoundFrom, LedTo, ToSet
  <2> HIDE DEF P
  <2>3. FoundFrom(g[0], P(0))
    BY <1>1, <2>1, <2>2
  <2>4. 0 \in 0 .. m
    OBVIOUS
  <2> QED BY <2>3, <2>4
<1>3. ASSUME NEW n \in S, n < m PROVE n + 1 \in S
  <2>1. n \in Nat /\ n + 1 \in 1 .. m /\ n + 1 \in 0 .. m /\ (n + 1) - 1 = n
    BY <1>3
  <2>2. P(n + 1) = P(n) \cup ({list[n + 1]} \ missed)
    <3>1. 1 .. (n + 1) = (1 .. n) \cup {n + 1}
      BY <2>1
    <3> QED BY <3>1
  <2>3. g[n + 1] = FindNext(g[n], list[n + 1], missed)
    BY <1>1, <2>1
  <2>4. FoundFrom(g[n], P(n))
    OBVIOUS
  <2> HIDE DEF P
  <2>5. FoundFrom(FindNext(g[n], list[n + 1], missed), P(n) \cup ({list[n + 1]} \ missed))
    BY <2>4, FindNextPod
  <2> QED BY <2>1, <2>2, <2>3, <2>5
<1>4. S = 0 .. m
  <2> HIDE DEF P
  <2>1. S \in SUBSET (0 .. m)
    OBVIOUS
  <2> HIDE DEF S
  <2> QED BY <1>2, <1>3, <2>1, UpTo
<1>5. FoundFrom(g[m], P(m))
  <2>1. m \in 0 .. m
    OBVIOUS
  <2>2. m \in S
    <3> HIDE DEF S
    <3> QED BY <1>4, <2>1
  <2> HIDE DEF P
  <2> QED BY <2>2
<1>6. P(m) = ToSet(list) \ missed
  BY DEF ToSet
<1> HIDE DEF P
<1> QED BY <1>1, <1>5, <1>6

(* A list of pods holds each of them.                                       *)
LEMMA ListsAreOfAll ==
  ASSUME NEW S \in SUBSET Pods, NEW list \in SetToSeqs(S)
  PROVE  /\ DOMAIN list = 1 .. Cardinality(S) /\ Cardinality(S) \in Nat
         /\ ToSet(list) = S
<1> DEFINE n == Cardinality(S)
<1>1. IsFiniteSet(S) /\ n \in Nat
  BY PodsAssumption, FS_Subset, FS_CardinalityType
<1>2. list \in [1 .. n -> S] /\ \A i, j \in 1 .. n : i # j => list[i] # list[j]
  BY DEF SetToSeqs
<1>3. list \in Injection(1 .. n, S)
  BY <1>2 DEF Injection, IsInjective
<1>4. Cardinality(1 .. n) = n
  <2>1. Cardinality(1 .. n) = IF 1 > n THEN 0 ELSE n - 1 + 1
    BY <1>1, FS_Interval
  <2> HIDE DEF n
  <2> QED BY <1>1, <2>1
<1>5. list \in Surjection(1 .. n, S)
  BY <1>1, <1>3, <1>4, FS_Injection
<1> QED BY <1>1, <1>2, <1>5 DEF Surjection, ToSet

-----------------------------------------------------------------------------
(* The types, and the UIDs. *)

(* UIDs are given once: no two workloads share one, and what is recorded    *)
(* was created before.                                                      *)
Uids ==
  /\ \A w \in Workloads : uid[w] <= created
  /\ \A w, v \in Workloads : Exists(w) /\ uid[w] = uid[v] => w = v
  /\ DOMAIN recorded \subseteq 1 .. created

Steps ==
  /\ pc = "patch" <=> at # 0
  /\ pc = "idle" => DOMAIN recorded = {} /\ todo = {}

Types == TypeOK /\ Uids /\ Steps

LEMMA Charged ==
  ASSUME faults \in Seq(FaultKinds), Len(faults) <= MaxFaults,
         NEW kind \in FaultKinds, NEW bad \in BOOLEAN, Charge(kind, bad)
  PROVE  /\ faults' \in Seq(FaultKinds) /\ Len(faults') <= MaxFaults
         /\ \A K : (\A i \in DOMAIN faults' : faults'[i] \notin K)
                    => Spared(K) /\ (bad => kind \notin K)
<1>1. CASE ~bad
  BY <1>1 DEF Charge, Spared
<1>2. CASE bad
  <2>1. faults' = Append(faults, kind) /\ Len(faults) < MaxFaults /\ MaxFaults \in Nat
    BY <1>2, WorkloadFaultAssumption DEF Charge
  <2>2. /\ Len(faults) \in Nat /\ DOMAIN faults = 1 .. Len(faults)
        /\ Append(faults, kind) \in Seq(FaultKinds)
        /\ DOMAIN Append(faults, kind) = 1 .. (Len(faults) + 1)
        /\ Len(Append(faults, kind)) = Len(faults) + 1
        /\ \A i \in 1 .. Len(faults) : Append(faults, kind)[i] = faults[i]
        /\ Append(faults, kind)[Len(faults) + 1] = kind
    OBVIOUS
  <2>3. Len(faults') <= MaxFaults
    BY <2>1, <2>2
  <2>4. ASSUME NEW K, \A i \in DOMAIN faults' : faults'[i] \notin K
        PROVE  Spared(K) /\ kind \notin K
    <3>1. /\ Len(faults) + 1 \in DOMAIN faults'
          /\ \A i \in DOMAIN faults : i \in DOMAIN faults'
      BY <2>1, <2>2
    <3> QED BY <2>1, <2>2, <2>4, <3>1 DEF Spared
  <2> QED BY <2>1, <2>2, <2>3, <2>4
<1> QED BY <1>1, <1>2

(* ScaleDownWorkloadsForPVC finds workloads that exist.                     *)
LEMMA FoundExist ==
  ASSUME mounting \in SUBSET Pods, NEW list \in SetToSeqs(mounting), NEW missed
  PROVE  /\ ToSet(FindWorkloadsForPVC(list, missed)) \subseteq Workloads
         /\ \A w \in ToSet(FindWorkloadsForPVC(list, missed)) : Exists(w)
<1> DEFINE P == ToSet(list) \ missed
<1>1. DOMAIN list = 1 .. Cardinality(mounting) /\ Cardinality(mounting) \in Nat
  BY ListsAreOfAll
<1>2. ToSet(FindWorkloadsForPVC(list, missed)) = LedTo(P)
  BY <1>1, FindFindsAll DEF FoundFrom
<1>3. \A w \in LedTo(P) : w \in Workloads /\ Exists(w)
  BY FindScalableType DEF LedTo
<1> QED BY <1>2, <1>3

(* What ScaleDownWorkloadsForPVC records.                                   *)
LEMMA RecordedDown ==
  ASSUME Types, ScaleDownWorkloadsForPVC
  PROVE  /\ pc = "idle" /\ pc' = "down" /\ todo' \subseteq Workloads
         /\ \A w \in todo' : Exists(w) /\ uid[w] \in DOMAIN recorded'
         /\ DOMAIN recorded' = {uid[w] : w \in todo'}
         /\ \A w \in todo' : recorded'[uid[w]] = [name |-> w, replicas |-> SpecReplicas(size[w])]
         /\ UNCHANGED <<userVars, size, at>>
<1>1. PICK list \in SetToSeqs(mounting), missed \in SUBSET mounting :
        LET found == FindWorkloadsForPVC(list, missed) IN
        /\ todo' = ToSet(found)
        /\ recorded' = [u \in {uid[w] : w \in ToSet(found)} |->
                          LET w == CHOOSE v \in ToSet(found) : uid[v] = u
                          IN [name |-> w, replicas |-> SpecReplicas(size[w])]]
  BY DEF ScaleDownWorkloadsForPVC
<1>2. /\ todo' \subseteq Workloads
      /\ \A w \in todo' : Exists(w)
  BY <1>1, FoundExist DEF Types, TypeOK
<1>3. recorded' = [u \in {uid[w] : w \in todo'} |->
                     LET w == CHOOSE v \in todo' : uid[v] = u
                     IN [name |-> w, replicas |-> SpecReplicas(size[w])]]
  BY <1>1
<1>4. ASSUME NEW w \in todo'
      PROVE  uid[w] \in DOMAIN recorded'
             /\ recorded'[uid[w]] = [name |-> w, replicas |-> SpecReplicas(size[w])]
  <2>1. (CHOOSE v \in todo' : uid[v] = uid[w]) = w
    <3>1. \A v \in todo' : uid[v] = uid[w] => v = w
      BY <1>2 DEF Types, Uids
    <3> QED BY <3>1
  <2> QED BY <1>3, <2>1
<1>5. /\ pc = "idle" /\ pc' = "down" /\ UNCHANGED <<userVars, size, at>>
  BY DEF ScaleDownWorkloadsForPVC
<1>6. DOMAIN recorded' = {uid[w] : w \in todo'}
  BY <1>3
<1> QED BY <1>2, <1>4, <1>5, <1>6

LEMMA SpecReplicasType ==
  ASSUME NEW n \in Nat \cup {NoSize}
  PROVE  SpecReplicas(n) \in Nat
BY DEF SpecReplicas

(* The adverse events of a step, and what they leave of the past.           *)
LEMMA FaultsStep ==
  ASSUME Types, Next
  PROVE  /\ faults' \in Seq(FaultKinds) /\ Len(faults') <= MaxFaults
         /\ \A K : Spared(K)' => Spared(K)
<1>1. faults \in Seq(FaultKinds) /\ Len(faults) <= MaxFaults
  BY DEF Types, TypeOK
<1>2. CASE UNCHANGED faults
  BY <1>1, <1>2 DEF Spared
<1>3. ASSUME NEW kind \in FaultKinds, NEW bad \in BOOLEAN, Charge(kind, bad)
      PROVE  /\ faults' \in Seq(FaultKinds) /\ Len(faults') <= MaxFaults
             /\ \A K : Spared(K)' => Spared(K)
  BY <1>1, <1>3, Charged DEF Spared
<1>4. \/ UNCHANGED faults
      \/ \E kind \in FaultKinds, bad \in BOOLEAN : Charge(kind, bad)
  <2>1. CASE ScaleDownWorkloadsForPVC
    BY <2>1 DEF ScaleDownWorkloadsForPVC, FaultKinds
  <2>2. CASE \E w \in Workloads : PatchDown(w)
    BY <2>2 DEF PatchDown, PatchSize, FaultKinds
  <2>3. CASE Hold \/ BeginScaleUp \/ RemoveAnnotation
    BY <2>3 DEF Hold, BeginScaleUp, RemoveAnnotation
  <2>4. CASE \E u \in DOMAIN recorded : LookUp(u)
    BY <2>4 DEF LookUp, FaultKinds
  <2>5. CASE PatchUp
    BY <2>5 DEF PatchUp, PatchSize, FaultKinds
  <2>6. CASE \E w \in Workloads : CreateWorkload(w)
    BY <2>6 DEF CreateWorkload
  <2>7. CASE \E w \in Workloads : DeleteWorkload(w)
    <3>1. Charge("overtake", pc \in {"down", "patch"})
      BY <2>7 DEF DeleteWorkload
    <3>2. "overtake" \in FaultKinds /\ (pc \in {"down", "patch"}) \in BOOLEAN
      BY DEF FaultKinds
    <3> QED BY <3>1, <3>2, Zenon
  <2>8. CASE \E w \in Workloads : Resize(w)
    <3>1. PICK w \in Workloads : Charge("resize", uid[w] \in DOMAIN recorded)
      BY <2>8 DEF Resize
    <3>2. "resize" \in FaultKinds /\ (uid[w] \in DOMAIN recorded) \in BOOLEAN
      BY DEF FaultKinds
    <3> QED BY <3>1, <3>2, Zenon
  <2>9. CASE \E p \in Pods : CreatePod(p) \/ DeletePod(p)
    BY <2>9 DEF CreatePod, DeletePod
  <2> QED BY <2>1, <2>2, <2>3, <2>4, <2>5, <2>6, <2>7, <2>8, <2>9 DEF Next
<1> QED BY <1>2, <1>3, <1>4

(* What a patch and what users do to the sizes.                             *)
LEMMA PatchType ==
  ASSUME TypeOK, NEW w \in Workloads, NEW n \in Nat, NEW refused \in BOOLEAN,
         PatchSize(w, n, refused)
  PROVE  size' \in [Workloads -> Nat \cup {NoSize}]
BY DEF PatchSize, TypeOK

(* The types, with the UIDs and the steps they are inductive with.          *)
THEOREM TypesHold == Spec => []Types
<1>1. ASSUME Init PROVE Types
  <2>1. NoRecord \in [{} -> {}] /\ DOMAIN NoRecord = {}
    BY DEF NoRecord
  <2>2. TypeOK
    <3>1. /\ uid \in [Workloads -> 0 .. MaxUid] /\ created \in 0 .. MaxUid
          /\ size \in [Workloads -> Nat \cup {NoSize}] /\ own \in [Workloads -> Nat \cup {NoSize}]
      BY <1>1, WorkloadFaultAssumption DEF Init
    <3>2. owner \in [Pods -> Owners] /\ mounting \in SUBSET Pods
      BY <1>1 DEF Init, Owners
    <3>3. faults \in Seq(FaultKinds) /\ Len(faults) <= MaxFaults
      BY <1>1, WorkloadFaultAssumption DEF Init
    <3>4. /\ pc \in {"idle", "down", "held", "up", "patch"}
          /\ DOMAIN recorded \subseteq 1 .. MaxUid
          /\ \A u \in DOMAIN recorded : recorded[u] \in Records
          /\ todo \subseteq IF pc = "down" THEN Workloads ELSE DOMAIN recorded
          /\ at \in DOMAIN recorded \cup {0}
      BY <1>1, <2>1 DEF Init
    <3> QED BY <3>1, <3>2, <3>3, <3>4 DEF TypeOK
  <2>3. Uids
    BY <1>1, <2>1 DEF Init, Uids, Exists
  <2>4. Steps
    BY <1>1, <2>1 DEF Init, Steps
  <2> QED BY <2>2, <2>3, <2>4 DEF Types
<1>2. ASSUME Types, [Next]_vars PROVE Types'
  <2> USE <1>2 DEF Types
  <2>0. /\ uid \in [Workloads -> 0 .. MaxUid] /\ created \in 0 .. MaxUid /\ MaxUid \in Nat
        /\ size \in [Workloads -> Nat \cup {NoSize}] /\ own \in [Workloads -> Nat \cup {NoSize}]
        /\ owner \in [Pods -> Owners] /\ mounting \in SUBSET Pods
    BY WorkloadFaultAssumption DEF TypeOK
  <2>1. ASSUME Next PROVE TypeOK' /\ Uids' /\ Steps'
    <3>1. faults' \in Seq(FaultKinds) /\ Len(faults') <= MaxFaults
      BY <2>1, FaultsStep
    <3>2. CASE ScaleDownWorkloadsForPVC
      <4>1. /\ pc' = "down" /\ todo' \subseteq Workloads /\ UNCHANGED <<userVars, size, at>>
            /\ \A w \in todo' : Exists(w) /\ uid[w] \in DOMAIN recorded'
            /\ DOMAIN recorded' = {uid[w] : w \in todo'}
            /\ \A w \in todo' : recorded'[uid[w]] = [name |-> w, replicas |-> SpecReplicas(size[w])]
            /\ pc = "idle"
        BY <3>2, RecordedDown
      <4>2. \A u \in DOMAIN recorded' : recorded'[u] \in Records
        <5>1. ASSUME NEW u \in DOMAIN recorded' PROVE recorded'[u] \in Records
          <6>1. PICK w \in todo' : u = uid[w]
            BY <4>1
          <6>2. w \in Workloads /\ SpecReplicas(size[w]) \in Nat
            BY <2>0, <4>1, SpecReplicasType
          <6>3. recorded'[u] = [name |-> w, replicas |-> SpecReplicas(size[w])]
            BY <4>1, <6>1
          <6> QED BY <6>2, <6>3 DEF Records
        <5> QED BY <5>1
      <4>3. \A w \in todo' : uid[w] \in 1 .. created /\ uid[w] \in 1 .. MaxUid
        <5>1. ASSUME NEW w \in todo' PROVE uid[w] \in 1 .. created /\ uid[w] \in 1 .. MaxUid
          <6>1. uid[w] \in 0 .. MaxUid /\ uid[w] # 0 /\ uid[w] <= created
            BY <2>0, <4>1 DEF Exists, Uids
          <6> QED BY <2>0, <6>1
        <5> QED BY <5>1
      <4>4. DOMAIN recorded' \subseteq 1 .. created /\ DOMAIN recorded' \subseteq 1 .. MaxUid
        BY <4>1, <4>3
      <4>5. at = 0
        BY <4>1 DEF Steps, TypeOK
      <4>6. TypeOK'
        BY <2>0, <3>1, <4>1, <4>2, <4>4, <4>5 DEF TypeOK, userVars
      <4>7. Uids'
        BY <4>1, <4>4 DEF Uids, Exists, userVars
      <4> QED BY <4>1, <4>5, <4>6, <4>7 DEF Steps
    <3>3. ASSUME NEW w \in Workloads, PatchDown(w) PROVE TypeOK' /\ Uids' /\ Steps'
      <4>1. PICK refused \in BOOLEAN : PatchSize(w, 0, refused)
        BY <3>3 DEF PatchDown
      <4>2. size' \in [Workloads -> Nat \cup {NoSize}]
        BY <4>1, PatchType
      <4>3. /\ pc = "down" /\ todo' = todo \ {w} /\ UNCHANGED <<userVars, pc, recorded, at>>
        BY <3>3 DEF PatchDown
      <4> QED BY <2>0, <3>1, <4>2, <4>3 DEF TypeOK, Uids, Exists, Steps, userVars
    <3>4. CASE Hold
      BY <2>0, <3>1, <3>4 DEF Hold, TypeOK, Uids, Exists, Steps, userVars
    <3>5. CASE BeginScaleUp
      BY <2>0, <3>1, <3>5 DEF BeginScaleUp, TypeOK, Uids, Exists, Steps, userVars
    <3>6. ASSUME NEW u \in DOMAIN recorded, LookUp(u) PROVE TypeOK' /\ Uids' /\ Steps'
      <4>1. /\ pc = "up" /\ u \in todo /\ UNCHANGED <<userVars, size, recorded>>
            /\ \/ pc' = "patch" /\ at' = u /\ UNCHANGED todo
               \/ todo' = todo \ {u} /\ UNCHANGED <<pc, at>>
        BY <3>6 DEF LookUp
      <4>2. u # 0
        BY <2>0 DEF TypeOK
      <4> QED BY <2>0, <3>1, <4>1, <4>2 DEF TypeOK, Uids, Exists, Steps, userVars
    <3>7. CASE PatchUp
      <4>1. PICK refused \in BOOLEAN : PatchSize(recorded[at].name, recorded[at].replicas, refused)
        BY <3>7 DEF PatchUp
      <4>2. /\ pc = "patch" /\ pc' = "up" /\ todo' = todo \ {at} /\ at' = 0
            /\ UNCHANGED <<userVars, recorded>>
        BY <3>7 DEF PatchUp
      <4>3. at \in DOMAIN recorded
        BY <4>2 DEF TypeOK, Steps
      <4>4. recorded[at].name \in Workloads /\ recorded[at].replicas \in Nat
        BY <4>3 DEF TypeOK, Records
      <4>5. size' \in [Workloads -> Nat \cup {NoSize}]
        BY <4>1, <4>4, PatchType
      <4> QED BY <2>0, <3>1, <4>2, <4>5 DEF TypeOK, Uids, Exists, Steps, userVars
    <3>8. CASE RemoveAnnotation
      <4>1. DOMAIN NoRecord = {}
        BY DEF NoRecord
      <4>2. /\ pc = "up" /\ todo = {} /\ pc' = "idle" /\ recorded' = NoRecord
            /\ UNCHANGED <<userVars, size, todo, at, faults>>
        BY <3>8 DEF RemoveAnnotation
      <4>3. at = 0
        BY <4>2 DEF Steps
      <4> QED BY <2>0, <3>1, <4>1, <4>2, <4>3 DEF TypeOK, Uids, Exists, Steps, userVars
    <3>9. ASSUME NEW w \in Workloads, CreateWorkload(w) PROVE TypeOK' /\ Uids' /\ Steps'
      <4>1. /\ ~Exists(w) /\ created < MaxUid /\ created' = created + 1
            /\ uid' = [uid EXCEPT ![w] = created + 1]
            /\ UNCHANGED <<owner, mounting, taskVars, faults>>
        BY <3>9 DEF CreateWorkload
      <4>2. PICK n \in Sizes : size' = [size EXCEPT ![w] = n] /\ own' = [own EXCEPT ![w] = n]
        BY <3>9 DEF CreateWorkload
      <4>3. size' \in [Workloads -> Nat \cup {NoSize}] /\ own' \in [Workloads -> Nat \cup {NoSize}]
        BY <2>0, <4>2, SizesAssumption
      <4>4. created' \in 0 .. MaxUid /\ uid' \in [Workloads -> 0 .. MaxUid]
        BY <2>0, <4>1
      <4>5. \A v \in Workloads : uid'[v] = IF v = w THEN created + 1 ELSE uid[v]
        BY <2>0, <4>1
      <4>6. \A v \in Workloads : uid[v] \in 0 .. MaxUid /\ uid[v] <= created
        BY <2>0 DEF Uids
      <4>7. Uids'
        <5>1. \A v \in Workloads : uid'[v] <= created'
          BY <2>0, <4>1, <4>5, <4>6
        <5>2. ASSUME NEW v \in Workloads, NEW x \in Workloads, uid'[v] # 0, uid'[v] = uid'[x] PROVE v = x
          <6>1. uid[v] # created + 1 /\ uid[x] # created + 1
            BY <2>0, <4>6
          <6> QED BY <4>5, <5>2, <6>1 DEF Uids, Exists
        <5>3. DOMAIN recorded' \subseteq 1 .. created'
          BY <2>0, <4>1 DEF Uids, taskVars
        <5> QED BY <5>1, <5>2, <5>3 DEF Uids, Exists
      <4> QED BY <2>0, <3>1, <4>1, <4>3, <4>4, <4>7 DEF TypeOK, Steps, taskVars
    <3>10. ASSUME NEW w \in Workloads, DeleteWorkload(w) PROVE TypeOK' /\ Uids' /\ Steps'
      <4>1. /\ uid' = [uid EXCEPT ![w] = 0] /\ size' = [size EXCEPT ![w] = 0] /\ own' = [own EXCEPT ![w] = 0]
            /\ UNCHANGED <<owner, mounting, created, taskVars>>
        BY <3>10 DEF DeleteWorkload
      <4>2. \A v \in Workloads : uid'[v] = IF v = w THEN 0 ELSE uid[v]
        BY <2>0, <4>1
      <4>3. /\ size' \in [Workloads -> Nat \cup {NoSize}] /\ own' \in [Workloads -> Nat \cup {NoSize}]
            /\ uid' \in [Workloads -> 0 .. MaxUid]
        BY <2>0, <4>1
      <4>4. Uids'
        BY <2>0, <4>1, <4>2 DEF Uids, Exists, taskVars
      <4> QED BY <2>0, <3>1, <4>1, <4>3, <4>4 DEF TypeOK, Steps, taskVars
    <3>11. ASSUME NEW w \in Workloads, Resize(w) PROVE TypeOK' /\ Uids' /\ Steps'
      <4>1. UNCHANGED <<uid, owner, mounting, created, taskVars>>
        BY <3>11 DEF Resize
      <4>2. PICK n \in Sizes : size' = [size EXCEPT ![w] = n] /\ own' = [own EXCEPT ![w] = n]
        BY <3>11 DEF Resize
      <4>3. size' \in [Workloads -> Nat \cup {NoSize}] /\ own' \in [Workloads -> Nat \cup {NoSize}]
        BY <2>0, <4>2, SizesAssumption
      <4> QED BY <2>0, <3>1, <4>1, <4>3 DEF TypeOK, Uids, Exists, Steps, taskVars
    <3>12. ASSUME NEW p \in Pods, CreatePod(p) \/ DeletePod(p) PROVE TypeOK' /\ Uids' /\ Steps'
      <4>1. /\ UNCHANGED <<uid, own, created, taskVars, size, faults>>
            /\ \E o \in Owners : owner' = [owner EXCEPT ![p] = o]
            /\ mounting' \subseteq mounting \cup {p}
        BY <3>12 DEF CreatePod, DeletePod, Owners
      <4>2. owner' \in [Pods -> Owners] /\ mounting' \in SUBSET Pods
        BY <2>0, <4>1
      <4> QED BY <2>0, <3>1, <4>1, <4>2 DEF TypeOK, Uids, Exists, Steps, taskVars
    <3> QED BY <2>1, <3>2, <3>3, <3>4, <3>5, <3>6, <3>7, <3>8, <3>9, <3>10, <3>11, <3>12 DEF Next
  <2>2. CASE UNCHANGED vars
    BY <2>2 DEF vars, userVars, taskVars, TypeOK, Uids, Exists, Steps
  <2> QED BY <2>1, <2>2
<1> QED BY <1>1, <1>2, PTL DEF Spec

(* Workloads.TypeOK: the types of all variables.                            *)
THEOREM TypeOKHolds == Spec => []TypeOK
<1>1. Types => TypeOK
  BY DEF Types
<1> QED BY <1>1, TypesHold, PTL

-----------------------------------------------------------------------------
(* What is found, of any state. *)

(* A pod leads to a workload through its owner, or the controller of it.    *)
LEMMA LeadsTo ==
  ASSUME TypeOK, NEW p \in Pods, NEW w \in Workloads
  PROVE  FindScalableWorkload(p) = w
           <=> /\ Exists(w)
               /\ owner[p] = w \/ (owner[p] \in ReplicaSets /\ ControllerOf[owner[p]] = w)
<1>1. w \notin ReplicaSets /\ w # Nothing
  BY OwnerAssumption
<1>2. CASE owner[p] \in ReplicaSets
  BY <1>1, <1>2 DEF FindScalableWorkload, Exists
<1>3. CASE owner[p] \notin ReplicaSets
  BY <1>1, <1>3 DEF FindScalableWorkload, Exists
<1> QED BY <1>2, <1>3

(* Workloads.FoundOnce: whatever order the pods are listed in,              *)
(* FindWorkloadsForPVC finds every workload that a pod leads to, and none   *)
(* twice.                                                                   *)
THEOREM FoundOnceHolds == Spec => []FoundOnce
<1>1. ASSUME TypeOK PROVE FoundOnce
  <2> SUFFICES ASSUME NEW list \in SetToSeqs(mounting)
      PROVE  LET found == FindWorkloadsForPVC(list, {}) IN
             /\ \A i, j \in DOMAIN found : found[i] = found[j] => i = j
             /\ ToSet(found) = {w \in Workloads :
                                 /\ Exists(w)
                                 /\ \E p \in mounting :
                                      owner[p] = w \/ (owner[p] \in ReplicaSets /\ ControllerOf[owner[p]] = w)}
    BY DEF FoundOnce
  <2>1. mounting \in SUBSET Pods
    BY <1>1 DEF TypeOK
  <2>2. DOMAIN list = 1 .. Cardinality(mounting) /\ Cardinality(mounting) \in Nat /\ ToSet(list) = mounting
    BY <2>1, ListsAreOfAll
  <2>3. FoundFrom(FindWorkloadsForPVC(list, {}), mounting)
    <3>1. FoundFrom(FindWorkloadsForPVC(list, {}), ToSet(list) \ {})
      BY <2>2, FindFindsAll
    <3>2. ToSet(list) \ {} = mounting
      BY <2>2
    <3> QED BY <3>1, <3>2
  <2>4. LedTo(mounting) = {w \in Workloads :
                            /\ Exists(w)
                            /\ \E p \in mounting :
                                 owner[p] = w \/ (owner[p] \in ReplicaSets /\ ControllerOf[owner[p]] = w)}
    <3>1. ASSUME NEW w \in LedTo(mounting)
          PROVE  /\ w \in Workloads /\ Exists(w)
                 /\ \E p \in mounting :
                      owner[p] = w \/ (owner[p] \in ReplicaSets /\ ControllerOf[owner[p]] = w)
      <4>1. PICK p \in mounting : w = FindScalableWorkload(p) /\ w # Nothing
        BY DEF LedTo
      <4>2. w \in Workloads
        BY <4>1, FindScalableType
      <4> QED BY <1>1, <2>1, <4>1, <4>2, LeadsTo
    <3>2. ASSUME NEW w \in Workloads, Exists(w), NEW p \in mounting,
                 owner[p] = w \/ (owner[p] \in ReplicaSets /\ ControllerOf[owner[p]] = w)
          PROVE  w \in LedTo(mounting)
      <4>1. FindScalableWorkload(p) = w
        BY <1>1, <2>1, <3>2, LeadsTo
      <4>2. w # Nothing
        BY OwnerAssumption
      <4> QED BY <4>1, <4>2 DEF LedTo
    <3> QED BY <3>1, <3>2
  <2> QED BY <2>3, <2>4 DEF FoundFrom
<1> QED BY <1>1, TypeOKHolds, PTL

-----------------------------------------------------------------------------
(* The sizes. *)

(* Unless a user comes between the operator's Get and its Patch, what it    *)
(* patches is recorded, and still the workload it was.                      *)
NotOvertaken ==
  Spared({"overtake"}) =>
    /\ pc = "down" => \A w \in todo : uid[w] \in DOMAIN recorded
    /\ pc = "patch" => uid[recorded[at].name] = at

GoodSize(w) == size[w] = own[w] \/ (own[w] = NoSize /\ size[w] = 1)

(* A workload that is not recorded has the size its users gave it; what is  *)
(* recorded of the others is that size, and they have it again once they    *)
(* have been patched.  Only the sizes of recorded workloads may differ, and *)
(* the record is dropped when nothing is left to patch: this is what makes  *)
(* SizesReturn inductive.                                                   *)
SizesKept ==
  Spared({"find", "patch", "resize", "overtake"}) =>
    \A w \in Workloads : Exists(w) =>
      IF uid[w] \in DOMAIN recorded
      THEN /\ recorded[uid[w]].name = w
           /\ recorded[uid[w]].replicas = SpecReplicas(own[w])
           /\ pc \in {"up", "patch"} /\ uid[w] \notin todo => GoodSize(w)
      ELSE GoodSize(w)


LEMMA SparedLess ==
  ASSUME Spared({"find", "patch", "resize", "overtake"})
  PROVE  Spared({"overtake"})
BY DEF Spared

LEMMA NotOvertakenStep ==
  ASSUME Types, NotOvertaken, [Next]_vars
  PROVE  NotOvertaken'
<1> SUFFICES ASSUME Spared({"overtake"})'
    PROVE  /\ pc' = "down" => \A w \in todo' : uid'[w] \in DOMAIN recorded'
           /\ pc' = "patch" => uid'[recorded'[at'].name] = at'
  BY DEF NotOvertaken
<1>0. /\ uid \in [Workloads -> 0 .. MaxUid] /\ created \in Nat
      /\ \A u \in DOMAIN recorded : recorded[u].name \in Workloads
      /\ faults \in Seq(FaultKinds) /\ Len(faults) <= MaxFaults
      /\ \A u \in DOMAIN recorded : u # 0
  BY DEF Types, TypeOK, Records
<1>1. ASSUME Next
      PROVE  /\ pc' = "down" => \A w \in todo' : uid'[w] \in DOMAIN recorded'
             /\ pc' = "patch" => uid'[recorded'[at'].name] = at'
  <2>1. Spared({"overtake"})
    BY <1>1, FaultsStep
  <2>2. /\ pc = "down" => \A w \in todo : w \in Workloads /\ uid[w] \in DOMAIN recorded
        /\ pc = "patch" => /\ uid[recorded[at].name] = at /\ at \in DOMAIN recorded /\ at # 0
                           /\ recorded[at].name \in Workloads
    BY <1>0, <2>1 DEF NotOvertaken, Types, Steps, TypeOK
  <2>3. CASE ScaleDownWorkloadsForPVC
    BY <2>3, RecordedDown DEF userVars
  <2>4. CASE \E w \in Workloads : PatchDown(w)
    BY <2>2, <2>4 DEF PatchDown, userVars
  <2>5. CASE Hold \/ BeginScaleUp \/ PatchUp \/ RemoveAnnotation
    BY <2>5 DEF Hold, BeginScaleUp, PatchUp, RemoveAnnotation
  <2>6. CASE \E u \in DOMAIN recorded : LookUp(u)
    BY <2>2, <2>6 DEF LookUp, IsRecorded, userVars
  <2>7. ASSUME NEW w \in Workloads, CreateWorkload(w)
        PROVE  /\ pc' = "down" => \A v \in todo' : uid'[v] \in DOMAIN recorded'
               /\ pc' = "patch" => uid'[recorded'[at'].name] = at'
    <3>1. /\ uid[w] = 0 /\ UNCHANGED <<pc, recorded, todo, at>>
          /\ \A v \in Workloads : v # w => uid'[v] = uid[v]
      BY <1>0, <2>7 DEF CreateWorkload, Exists, taskVars
    <3> QED BY <1>0, <2>2, <3>1
  <2>8. ASSUME NEW w \in Workloads, DeleteWorkload(w)
        PROVE  pc' # "down" /\ pc' # "patch"
    <3>1. Charge("overtake", pc \in {"down", "patch"}) /\ pc' = pc
      BY <2>8 DEF DeleteWorkload, taskVars
    <3>2. "overtake" \in FaultKinds /\ (pc \in {"down", "patch"}) \in BOOLEAN
      BY DEF FaultKinds
    <3>3. \A K : (\A i \in DOMAIN faults' : faults'[i] \notin K)
                => Spared(K) /\ (pc \in {"down", "patch"} => "overtake" \notin K)
      BY <1>0, <3>1, <3>2, Charged
    <3>4. \A i \in DOMAIN faults' : faults'[i] \notin {"overtake"}
      BY DEF Spared
    <3>5. pc \in {"down", "patch"} => "overtake" \notin {"overtake"}
      BY <3>3, <3>4
    <3> QED BY <3>1, <3>5
  <2>9. CASE \E w \in Workloads : Resize(w)
    BY <2>2, <2>9 DEF Resize, taskVars
  <2>10. CASE \E p \in Pods : CreatePod(p) \/ DeletePod(p)
    BY <2>2, <2>10 DEF CreatePod, DeletePod, taskVars
  <2> QED BY <1>1, <2>3, <2>4, <2>5, <2>6, <2>7, <2>8, <2>9, <2>10 DEF Next
<1>2. CASE UNCHANGED vars
  BY <1>2 DEF vars, userVars, taskVars, NotOvertaken, Spared
<1> QED BY <1>1, <1>2

LEMMA SizesKeptStep ==
  ASSUME Types, NotOvertaken, SizesKept, [Next]_vars
  PROVE  SizesKept'
<1> DEFINE K == {"find", "patch", "resize", "overtake"}
<1>0. /\ uid \in [Workloads -> 0 .. MaxUid] /\ created \in Nat
      /\ size \in [Workloads -> Nat \cup {NoSize}] /\ own \in [Workloads -> Nat \cup {NoSize}]
      /\ \A u \in DOMAIN recorded : recorded[u].name \in Workloads
      /\ faults \in Seq(FaultKinds) /\ Len(faults) <= MaxFaults
      /\ \A u \in DOMAIN recorded : u # 0 /\ u \in Nat /\ u <= created
  BY DEF Types, TypeOK, Records, Uids
<1>a. ASSUME NEW kind \in K, NEW bad \in BOOLEAN, Charge(kind, bad), Spared(K)' PROVE ~bad
  <2>1. kind \in FaultKinds
    BY DEF FaultKinds
  <2>2. \A L : (\A i \in DOMAIN faults' : faults'[i] \notin L)
               => Spared(L) /\ (bad => kind \notin L)
    BY <1>0, <1>a, <2>1, Charged
  <2>3. \A i \in DOMAIN faults' : faults'[i] \notin K
    BY <1>a DEF Spared
  <2> HIDE DEF K
  <2> QED BY <2>2, <2>3
<1>1. ASSUME Next, Spared(K)', NEW w \in Workloads, uid'[w] # 0
      PROVE  IF uid'[w] \in DOMAIN recorded'
             THEN /\ recorded'[uid'[w]].name = w
                  /\ recorded'[uid'[w]].replicas = SpecReplicas(own'[w])
                  /\ pc' \in {"up", "patch"} /\ uid'[w] \notin todo' => GoodSize(w)'
             ELSE GoodSize(w)'
  <2>1. Spared(K) /\ Spared({"overtake"})
    BY <1>1, FaultsStep, SparedLess
  <2>2. ASSUME NEW v \in Workloads, uid[v] # 0
        PROVE  IF uid[v] \in DOMAIN recorded
               THEN /\ recorded[uid[v]].name = v
                    /\ recorded[uid[v]].replicas = SpecReplicas(own[v])
                    /\ pc \in {"up", "patch"} /\ uid[v] \notin todo => GoodSize(v)
               ELSE GoodSize(v)
    BY <2>1, <2>2 DEF SizesKept, Exists
  <2>3. /\ pc = "down" => \A v \in todo : v \in Workloads /\ uid[v] \in DOMAIN recorded
        /\ pc = "patch" => /\ uid[recorded[at].name] = at /\ at \in DOMAIN recorded /\ at # 0
                           /\ recorded[at].name \in Workloads
    BY <1>0, <2>1 DEF NotOvertaken, Types, Steps, TypeOK
  <2>4. CASE ScaleDownWorkloadsForPVC
    <3>1. /\ pc = "idle" /\ pc' = "down" /\ UNCHANGED <<uid, own, size>>
          /\ DOMAIN recorded' = {uid[v] : v \in todo'} /\ todo' \subseteq Workloads
          /\ \A v \in todo' : recorded'[uid[v]] = [name |-> v, replicas |-> SpecReplicas(size[v])]
      BY <2>4, RecordedDown DEF userVars
    <3>2. GoodSize(w)
      BY <1>1, <2>2, <3>1 DEF Types, Steps
    <3>3. GoodSize(w)'
      BY <3>1, <3>2 DEF GoodSize
    <3>4. CASE uid[w] \in DOMAIN recorded'
      <4>1. w \in todo'
        BY <1>1, <3>1, <3>4 DEF Types, Uids, Exists
      <4>2. recorded'[uid[w]].name = w /\ recorded'[uid[w]].replicas = SpecReplicas(size[w])
        <5>1. recorded'[uid[w]] = [name |-> w, replicas |-> SpecReplicas(size[w])]
          BY <3>1, <4>1
        <5> QED BY <5>1
      <4>3. SpecReplicas(size[w]) = SpecReplicas(own[w])
        BY <3>2, SizesAssumption DEF GoodSize, SpecReplicas
      <4> QED BY <3>1, <3>3, <3>4, <4>2, <4>3
    <3> QED BY <3>1, <3>3, <3>4
  <2>5. ASSUME NEW v \in Workloads, PatchDown(v)
        PROVE  IF uid'[w] \in DOMAIN recorded'
               THEN /\ recorded'[uid'[w]].name = w
                    /\ recorded'[uid'[w]].replicas = SpecReplicas(own'[w])
                    /\ pc' \in {"up", "patch"} /\ uid'[w] \notin todo' => GoodSize(w)'
               ELSE GoodSize(w)'
    <3>1. /\ pc = "down" /\ v \in todo /\ UNCHANGED <<uid, own, pc, recorded>>
          /\ \E refused \in BOOLEAN : PatchSize(v, 0, refused)
      BY <2>5 DEF PatchDown, userVars
    <3>2. w # v => size'[w] = size[w]
      BY <1>0, <3>1 DEF PatchSize
    <3>3. uid[v] \in DOMAIN recorded
      BY <2>3, <3>1
    <3> QED BY <1>1, <2>2, <3>1, <3>2, <3>3 DEF GoodSize
  <2>6. CASE Hold \/ BeginScaleUp
    <3>1. /\ UNCHANGED <<uid, own, size, recorded>>
          /\ pc' = "held" \/ (pc' = "up" /\ todo' = DOMAIN recorded)
      BY <2>6 DEF Hold, BeginScaleUp, userVars
    <3> QED BY <1>1, <2>2, <3>1 DEF GoodSize
  <2>7. ASSUME NEW u \in DOMAIN recorded, LookUp(u)
        PROVE  IF uid'[w] \in DOMAIN recorded'
               THEN /\ recorded'[uid'[w]].name = w
                    /\ recorded'[uid'[w]].replicas = SpecReplicas(own'[w])
                    /\ pc' \in {"up", "patch"} /\ uid'[w] \notin todo' => GoodSize(w)'
               ELSE GoodSize(w)'
    <3>1. PICK refused \in BOOLEAN :
            /\ Charge("find", refused)
            /\ IF ~refused /\ IsRecorded(u, recorded[u].name)
               THEN pc' = "patch" /\ at' = u /\ UNCHANGED todo
               ELSE todo' = todo \ {u} /\ UNCHANGED <<pc, at>>
      BY <2>7 DEF LookUp
    <3>2. /\ pc = "up" /\ UNCHANGED <<uid, own, size, recorded>>
      BY <2>7 DEF LookUp, userVars
    <3>3. ~refused
      BY <1>1, <1>a, <3>1
    <3>4. CASE uid[w] = u
      <4>1. recorded[u].name = w
        BY <1>1, <2>2, <3>2, <3>4
      <4>2. UNCHANGED todo
        BY <3>1, <3>3, <3>4, <4>1 DEF IsRecorded
      <4> QED BY <1>1, <2>2, <3>2, <4>2 DEF GoodSize
    <3>5. CASE uid[w] # u
      <4>1. uid[w] \in todo' <=> uid[w] \in todo
        BY <3>1, <3>5
      <4> QED BY <1>1, <2>2, <3>2, <4>1 DEF GoodSize
    <3> QED BY <3>4, <3>5
  <2>8. CASE PatchUp
    <3> DEFINE v == recorded[at].name
    <3>1. PICK refused \in BOOLEAN : PatchSize(v, recorded[at].replicas, refused)
      BY <2>8 DEF PatchUp
    <3>2. /\ pc = "patch" /\ pc' = "up" /\ todo' = todo \ {at} /\ UNCHANGED <<uid, own, recorded>>
      BY <2>8 DEF PatchUp, userVars
    <3>3. ~refused
      BY <1>1, <1>a, <3>1 DEF PatchSize
    <3>4. v \in Workloads /\ uid[v] = at /\ at # 0 /\ at \in DOMAIN recorded
      BY <2>3, <3>2
    <3>5. size' = [size EXCEPT ![v] = recorded[at].replicas]
      BY <3>1, <3>3, <3>4 DEF PatchSize, Exists
    <3> HIDE DEF v
    <3>6. CASE w = v
      <4>1. recorded[at].name = w /\ recorded[at].replicas = SpecReplicas(own[w])
        BY <2>2, <3>4, <3>6
      <4>2. size'[w] = SpecReplicas(own[w])
        BY <1>0, <3>5, <3>6, <4>1
      <4>3. GoodSize(w)'
        BY <3>2, <4>2 DEF GoodSize, SpecReplicas
      <4> QED BY <3>2, <3>4, <3>6, <4>1, <4>3
    <3>7. CASE w # v
      <4>1. uid[w] # at
        BY <1>1, <3>2, <3>4, <3>7 DEF Types, Uids, Exists
      <4>2. size'[w] = size[w]
        BY <1>0, <3>5, <3>7
      <4> QED BY <1>1, <2>2, <3>2, <4>1, <4>2 DEF GoodSize
    <3> QED BY <3>6, <3>7
  <2>9. CASE RemoveAnnotation
    <3>1. /\ pc = "up" /\ todo = {} /\ DOMAIN recorded' = {} /\ UNCHANGED <<uid, own, size>>
      BY <2>9 DEF RemoveAnnotation, NoRecord, userVars
    <3>2. GoodSize(w)
      BY <1>1, <2>2, <3>1
    <3> QED BY <3>1, <3>2 DEF GoodSize
  <2>10. ASSUME NEW v \in Workloads, CreateWorkload(v)
         PROVE  IF uid'[w] \in DOMAIN recorded'
                THEN /\ recorded'[uid'[w]].name = w
                     /\ recorded'[uid'[w]].replicas = SpecReplicas(own'[w])
                     /\ pc' \in {"up", "patch"} /\ uid'[w] \notin todo' => GoodSize(w)'
                ELSE GoodSize(w)'
    <3>1. /\ UNCHANGED <<pc, recorded, todo, at>> /\ uid' = [uid EXCEPT ![v] = created + 1]
          /\ \E n \in Sizes : size' = [size EXCEPT ![v] = n] /\ own' = [own EXCEPT ![v] = n]
      BY <2>10 DEF CreateWorkload, taskVars
    <3>2. CASE w = v
      <4>1. uid'[w] = created + 1 /\ size'[w] = own'[w]
        BY <1>0, <3>1, <3>2
      <4>2. uid'[w] \notin DOMAIN recorded'
        BY <1>0, <3>1, <4>1
      <4> QED BY <4>1, <4>2 DEF GoodSize
    <3>3. CASE w # v
      <4>1. uid'[w] = uid[w] /\ size'[w] = size[w] /\ own'[w] = own[w]
        BY <1>0, <3>1, <3>3
      <4> QED BY <1>1, <2>2, <3>1, <4>1 DEF GoodSize
    <3> QED BY <3>2, <3>3
  <2>11. ASSUME NEW v \in Workloads, DeleteWorkload(v)
         PROVE  IF uid'[w] \in DOMAIN recorded'
                THEN /\ recorded'[uid'[w]].name = w
                     /\ recorded'[uid'[w]].replicas = SpecReplicas(own'[w])
                     /\ pc' \in {"up", "patch"} /\ uid'[w] \notin todo' => GoodSize(w)'
                ELSE GoodSize(w)'
    <3>1. /\ UNCHANGED <<pc, recorded, todo, at>> /\ uid' = [uid EXCEPT ![v] = 0]
          /\ size' = [size EXCEPT ![v] = 0] /\ own' = [own EXCEPT ![v] = 0]
      BY <2>11 DEF DeleteWorkload, taskVars
    <3>2. w # v
      BY <1>0, <1>1, <3>1
    <3>3. uid'[w] = uid[w] /\ size'[w] = size[w] /\ own'[w] = own[w]
      BY <1>0, <3>1, <3>2
    <3> QED BY <1>1, <2>2, <3>1, <3>3 DEF GoodSize
  <2>12. ASSUME NEW v \in Workloads, Resize(v)
         PROVE  IF uid'[w] \in DOMAIN recorded'
                THEN /\ recorded'[uid'[w]].name = w
                     /\ recorded'[uid'[w]].replicas = SpecReplicas(own'[w])
                     /\ pc' \in {"up", "patch"} /\ uid'[w] \notin todo' => GoodSize(w)'
                ELSE GoodSize(w)'
    <3>1. /\ UNCHANGED <<uid, pc, recorded, todo, at>>
          /\ Charge("resize", uid[v] \in DOMAIN recorded)
          /\ \E n \in Sizes : size' = [size EXCEPT ![v] = n] /\ own' = [own EXCEPT ![v] = n]
      BY <2>12 DEF Resize, taskVars
    <3>2. uid[v] \notin DOMAIN recorded
      <4>1. (uid[v] \in DOMAIN recorded) \in BOOLEAN /\ "resize" \in K
        OBVIOUS
      <4> HIDE DEF K
      <4> QED BY <1>1, <1>a, <3>1, <4>1, Zenon
    <3>3. CASE w = v
      <4>1. size'[w] = own'[w]
        BY <1>0, <3>1, <3>3
      <4> QED BY <3>1, <3>2, <3>3, <4>1 DEF GoodSize
    <3>4. CASE w # v
      <4>1. uid'[w] = uid[w] /\ size'[w] = size[w] /\ own'[w] = own[w]
        BY <1>0, <3>1, <3>4
      <4> QED BY <1>1, <2>2, <3>1, <4>1 DEF GoodSize
    <3> QED BY <3>3, <3>4
  <2>13. CASE \E p \in Pods : CreatePod(p) \/ DeletePod(p)
    <3>1. UNCHANGED <<uid, own, size, pc, recorded, todo, at>>
      BY <2>13 DEF CreatePod, DeletePod, taskVars
    <3> QED BY <1>1, <2>2, <3>1 DEF GoodSize
  <2> QED BY <1>1, <2>4, <2>5, <2>6, <2>7, <2>8, <2>9, <2>10, <2>11, <2>12, <2>13 DEF Next
<1>2. CASE UNCHANGED vars
  BY <1>2 DEF vars, userVars, taskVars, SizesKept, Spared, GoodSize, Exists
<1> QED BY <1>1, <1>2 DEF SizesKept, Exists

(* The inductive invariant behind the next two.                             *)
THEOREM SizesHold == Spec => [](Types /\ NotOvertaken /\ SizesKept)
<1>1. ASSUME Init PROVE NotOvertaken /\ SizesKept
  <2>1. pc = "idle" /\ uid = [w \in Workloads |-> 0]
    BY <1>1 DEF Init
  <2> QED BY <2>1 DEF NotOvertaken, SizesKept, Exists
<1>2. Types /\ NotOvertaken /\ [Next]_vars => NotOvertaken'
  BY NotOvertakenStep
<1>3. Types /\ NotOvertaken /\ SizesKept /\ [Next]_vars => SizesKept'
  BY SizesKeptStep
<1>4. Init => NotOvertaken /\ SizesKept
  BY <1>1
<1> QED BY <1>2, <1>3, <1>4, TypesHold, PTL DEF Spec

(* Workloads.SizesReturn: when a Task has let go of the workloads each has  *)
(* the size its users gave it, also one that was deleted and created again  *)
(* meanwhile with another.                                                  *)
THEOREM SizesReturnHolds == Spec => []SizesReturn
<1>1. ASSUME Types, SizesKept PROVE SizesReturn
  BY <1>1 DEF SizesReturn, SizesKept, Types, Steps, GoodSize
<1>2. Types /\ SizesKept => SizesReturn
  BY <1>1
<1> QED BY <1>2, SizesHold, PTL

(* Workloads.StrangersUntouched: the operator resizes only workloads it has *)
(* recorded under their UID, unless a user replaces one between the Get and *)
(* the Patch.                                                               *)
THEOREM StrangersUntouchedHolds == Spec => StrangersUntouched
<1>1. ASSUME Types, NotOvertaken, [Next]_vars, Spared({"overtake"}),
             NEW w \in Workloads, Strangers(w), ByOperator
      PROVE  size'[w] = size[w]
  <2>0. /\ uid \in [Workloads -> 0 .. MaxUid] /\ created \in Nat
        /\ size \in [Workloads -> Nat \cup {NoSize}] /\ own \in [Workloads -> Nat \cup {NoSize}]
        /\ \A u \in DOMAIN recorded : recorded[u].name \in Workloads
    BY <1>1 DEF Types, TypeOK, Records
  <2>1. /\ uid[w] \notin DOMAIN recorded /\ UNCHANGED <<uid, own, created>>
    BY <1>1 DEF Strangers, ByOperator, userVars
  <2>2. /\ pc = "down" => \A v \in todo : uid[v] \in DOMAIN recorded
        /\ pc = "patch" => uid[recorded[at].name] = at /\ at \in DOMAIN recorded
    BY <1>1 DEF NotOvertaken, Types, Steps, TypeOK
  <2>3. CASE ScaleDownWorkloadsForPVC \/ Hold \/ BeginScaleUp \/ RemoveAnnotation
    BY <2>3 DEF ScaleDownWorkloadsForPVC, Hold, BeginScaleUp, RemoveAnnotation
  <2>4. ASSUME NEW v \in Workloads, PatchDown(v) PROVE size'[w] = size[w]
    <3>1. w # v
      BY <2>1, <2>2, <2>4 DEF PatchDown
    <3> QED BY <2>0, <2>4, <3>1 DEF PatchDown, PatchSize
  <2>5. CASE \E u \in DOMAIN recorded : LookUp(u)
    BY <2>5 DEF LookUp
  <2>6. CASE PatchUp
    <3>1. w # recorded[at].name
      BY <2>1, <2>2, <2>6 DEF PatchUp
    <3> QED BY <2>0, <2>6, <3>1 DEF PatchUp, PatchSize
  <2>7. ASSUME NEW v \in Workloads, CreateWorkload(v) PROVE FALSE
    BY <2>0, <2>1, <2>7 DEF CreateWorkload
  <2>8. ASSUME NEW v \in Workloads, DeleteWorkload(v) PROVE FALSE
    BY <2>0, <2>1, <2>8 DEF DeleteWorkload, Exists
  <2>9. ASSUME NEW v \in Workloads, Resize(v) PROVE FALSE
    <3>1. \E n \in Sizes \ {own[v]} : own' = [own EXCEPT ![v] = n]
      BY <2>9 DEF Resize
    <3> QED BY <2>0, <2>1, <3>1
  <2>10. CASE \E p \in Pods : CreatePod(p) \/ DeletePod(p)
    BY <2>10 DEF CreatePod, DeletePod
  <2>11. CASE UNCHANGED vars
    BY <2>11 DEF vars
  <2> QED BY <1>1, <2>3, <2>4, <2>5, <2>6, <2>7, <2>8, <2>9, <2>10, <2>11 DEF Next
<1>2. Types /\ NotOvertaken /\ [Next]_vars
        => [Spared({"overtake"}) =>
              \A w \in Workloads : Strangers(w) /\ ByOperator => size'[w] = size[w]]_vars
  BY <1>1
<1> QED BY <1>2, SizesHold, PTL DEF Spec, StrangersUntouched
=============================================================================
