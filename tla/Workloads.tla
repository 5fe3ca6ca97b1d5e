----------------------------- MODULE Workloads -----------------------------
(***************************************************************************)
(* The objects behind the workloads of TaskReconciler: which Deployments   *)
(* and StatefulSets the pods that mount a PVC lead to, and what scaling    *)
(* them down and up again does when users delete, create and resize them   *)
(* under the same names.  One PVC, one Task; deaths of the operator and    *)
(* the order of its writes to the Task are in TaskReconciler.              *)
(***************************************************************************)
EXTENDS Integers, Sequences, FiniteSets, SequencesExt

CONSTANTS
  Workloads,     \* names of Deployments and StatefulSets, each with its kind
  KindOf,        \* KindOf[w]: "Deployment" or "StatefulSet"
  ReplicaSets,   \* names of ReplicaSets
  ControllerOf,  \* ControllerOf[r]: the Deployment that controls r, or Nothing
  Pods,          \* pods of the namespace of the PVC
  Nothing,       \* no owner, or no workload
  Other,         \* an owner of another kind, such as a Job or a DaemonSet
  Sizes,         \* the sizes users give workloads
  NoSize,        \* a spec.replicas that is not set
  Faults,        \* which adverse events may happen ...
  MaxFaults,     \* ... and how many of them (a bound)
  MaxUid         \* how many workloads are ever created (a bound)

FaultKinds == {"lookup",    \* the owner of a pod cannot be read
               "find",      \* a recorded workload cannot be read
               "patch",     \* a patch is refused
               "resize",    \* a user resizes a workload that is being held
               "overtake"}  \* a user replaces a workload between Get and Patch

ASSUME KindAssumption == KindOf \in [Workloads -> {"Deployment", "StatefulSet"}]
ASSUME ControllerAssumption ==
  ControllerOf \in [ReplicaSets -> {w \in Workloads : KindOf[w] = "Deployment"} \cup {Nothing}]
ASSUME OwnerAssumption == /\ Workloads \cap ReplicaSets = {}
                          /\ {Nothing, Other} \cap (Workloads \cup ReplicaSets) = {}
ASSUME PodsAssumption == IsFiniteSet(Pods)
ASSUME SizesAssumption == Sizes \subseteq Nat \cup {NoSize} /\ NoSize \notin Nat
ASSUME WorkloadFaultAssumption == Faults \subseteq FaultKinds /\ MaxFaults \in Nat /\ MaxUid \in Nat

VARIABLES
  uid,       \* uid[w]: which incarnation of w exists, 0 if none does
  size,      \* size[w]: spec.replicas
  own,       \* own[w]: the size its users gave it last (history)
  owner,     \* owner[p]: the controller of pod p, Nothing if it has none
  mounting,  \* the pods that exist and mount the PVC
  created,   \* workloads created so far
  pc,        \* what the Task does next
  recorded,  \* the annotation: a function from UIDs to names and sizes
  todo,      \* names, then UIDs, that have still to be patched
  at,        \* the UID that has been looked up and is patched next
  faults     \* the adverse events so far (history)

userVars == <<uid, own, owner, mounting, created>>
taskVars == <<pc, recorded, todo, at>>
vars == <<userVars, taskVars, size, faults>>

Owners == {w \in Workloads : KindOf[w] = "StatefulSet"} \cup ReplicaSets \cup {Nothing, Other}
Exists(w) == uid[w] # 0
NoRecord == [u \in {} |-> Nothing]

(* Mutants of SpecReplicas: a size that is not set counts as none, or as is. *)
SpecReplicasZero(s) == IF s = NoSize THEN 0 ELSE s
SpecReplicasRaw(s) == s

(* getWorkloadSpecReplicas: spec.replicas, 1 if it is not set.              *)
SpecReplicas(s) == IF s = NoSize THEN 1 ELSE s

-----------------------------------------------------------------------------
(* Mutants of definitions below. *)

(* FindWorkloadsForPVC: nothing is remembered of the workloads found.       *)
FindTwice(list, missed) ==
  SelectSeq([i \in DOMAIN list |-> IF owner[list[i]] \in ReplicaSets THEN ControllerOf[owner[list[i]]]
                                   ELSE owner[list[i]]],
            LAMBDA w : w \in Workloads /\ uid[w] # 0)

(* IsRecorded: the name is enough.                                          *)
IsNamed(u, w) == Exists(w)

-----------------------------------------------------------------------------
(* findScalableWorkload: a StatefulSet, or the Deployment of a ReplicaSet,  *)
(* that exists; pods of other kinds of owners lead nowhere.                 *)
FindScalableWorkload(p) ==
  LET w == IF owner[p] \in ReplicaSets THEN ControllerOf[owner[p]] ELSE owner[p]
  IN IF w \in Workloads /\ uid[w] # 0 THEN w ELSE Nothing

(* FindWorkloadsForPVC: over the pods in the order of the list, but for     *)
(* those whose owner cannot be read; a workload found before (by its UID)   *)
(* is not added again.                                                      *)
FindWorkloadsForPVC(list, missed) ==
  FoldLeft(LAMBDA found, p :
             LET w == FindScalableWorkload(p) IN
             IF p \in missed \/ w = Nothing \/ Contains(found, w) THEN found ELSE Append(found, w),
           <<>>, list)

(* The UID check of findWorkloadByUID.                                      *)
IsRecorded(u, w) == uid[w] = u

Charge(kind, bad) ==
  /\ bad => kind \in Faults /\ Len(faults) < MaxFaults
  /\ faults' = IF bad THEN Append(faults, kind) ELSE faults

Init ==
  /\ uid = [w \in Workloads |-> 0]
  /\ size = [w \in Workloads |-> 0] /\ own = size
  /\ owner = [p \in Pods |-> Nothing] /\ mounting = {}
  /\ created = 0
  /\ pc = "idle" /\ recorded = NoRecord /\ todo = {} /\ at = 0
  /\ faults = <<>>

-----------------------------------------------------------------------------
(* The Task. *)

(* ScaleDownWorkloadsForPVC: find, record under the UID, then patch.        *)
ScaleDownWorkloadsForPVC ==
  /\ pc = "idle"
  /\ \E list \in SetToSeqs(mounting), missed \in SUBSET mounting :
       LET found == FindWorkloadsForPVC(list, missed) IN
       /\ Charge("lookup", missed # {})
       /\ found # <<>>
       /\ todo' = ToSet(found)
       /\ recorded' = [u \in {uid[w] : w \in ToSet(found)} |->
                         LET w == CHOOSE v \in ToSet(found) : uid[v] = u
                         IN [name |-> w, replicas |-> SpecReplicas(size[w])]]
  /\ pc' = "down"
  /\ UNCHANGED <<userVars, size, at>>

(* The patch names the workload; one that is gone is an error, which is     *)
(* dropped.                                                                 *)
PatchSize(w, n, refused) ==
  /\ Charge("patch", refused)
  /\ size' = IF refused \/ ~Exists(w) THEN size ELSE [size EXCEPT ![w] = n]

PatchDown(w) ==
  /\ pc = "down" /\ w \in todo
  /\ \E refused \in BOOLEAN : PatchSize(w, 0, refused)
  /\ todo' = todo \ {w}
  /\ UNCHANGED <<userVars, pc, recorded, at>>

Hold ==
  /\ pc = "down" /\ todo = {}
  /\ pc' = "held"
  /\ UNCHANGED <<userVars, size, recorded, todo, at, faults>>

(* ScaleUpWorkloadsForPVC: the workload is looked up by its name, and       *)
(* skipped if it cannot be read or has another UID than the one recorded    *)
(* ...                                                                      *)
BeginScaleUp ==
  /\ pc = "held"
  /\ pc' = "up" /\ todo' = DOMAIN recorded
  /\ UNCHANGED <<userVars, size, recorded, at, faults>>

LookUp(u) ==
  /\ pc = "up" /\ u \in todo
  /\ \E refused \in BOOLEAN :
       /\ Charge("find", refused)
       /\ IF ~refused /\ IsRecorded(u, recorded[u].name)
          THEN pc' = "patch" /\ at' = u /\ UNCHANGED todo
          ELSE todo' = todo \ {u} /\ UNCHANGED <<pc, at>>
  /\ UNCHANGED <<userVars, size, recorded>>

(* ... and patched in the next call.                                        *)
PatchUp ==
  /\ pc = "patch"
  /\ \E refused \in BOOLEAN : PatchSize(recorded[at].name, recorded[at].replicas, refused)
  /\ pc' = "up" /\ todo' = todo \ {at} /\ at' = 0
  /\ UNCHANGED <<userVars, recorded>>

RemoveAnnotation ==
  /\ pc = "up" /\ todo = {}
  /\ pc' = "idle" /\ recorded' = NoRecord
  /\ UNCHANGED <<userVars, size, todo, at, faults>>

-----------------------------------------------------------------------------
(* Users and the workload controllers. *)

(* A workload is created, for the first time or again after its deletion.   *)
CreateWorkload(w) ==
  /\ ~Exists(w) /\ created < MaxUid
  /\ created' = created + 1
  /\ uid' = [uid EXCEPT ![w] = created']
  /\ \E s \in Sizes : size' = [size EXCEPT ![w] = s] /\ own' = [own EXCEPT ![w] = s]
  /\ UNCHANGED <<owner, mounting, taskVars, faults>>

DeleteWorkload(w) ==
  /\ Exists(w)
  /\ Charge("overtake", pc \in {"down", "patch"})
  /\ uid' = [uid EXCEPT ![w] = 0]
  /\ size' = [size EXCEPT ![w] = 0] /\ own' = [own EXCEPT ![w] = 0]
  /\ UNCHANGED <<owner, mounting, created, taskVars>>

Resize(w) ==
  /\ Exists(w)
  /\ Charge("resize", uid[w] \in DOMAIN recorded)
  /\ \E s \in Sizes \ {own[w]} : size' = [size EXCEPT ![w] = s] /\ own' = [own EXCEPT ![w] = s]
  /\ UNCHANGED <<uid, owner, mounting, created, taskVars>>

(* A pod that mounts the PVC appears; any owner, or none.                   *)
CreatePod(p) ==
  /\ p \notin mounting
  /\ \E o \in Owners : owner' = [owner EXCEPT ![p] = o]
  /\ mounting' = mounting \cup {p}
  /\ UNCHANGED <<uid, own, created, taskVars, size, faults>>

DeletePod(p) ==
  /\ p \in mounting
  /\ mounting' = mounting \ {p} /\ owner' = [owner EXCEPT ![p] = Nothing]
  /\ UNCHANGED <<uid, own, created, taskVars, size, faults>>

Next ==
  \/ ScaleDownWorkloadsForPVC
  \/ \E w \in Workloads : PatchDown(w)
  \/ Hold
  \/ BeginScaleUp
  \/ \E u \in DOMAIN recorded : LookUp(u)
  \/ PatchUp
  \/ RemoveAnnotation
  \/ \E w \in Workloads : CreateWorkload(w) \/ DeleteWorkload(w) \/ Resize(w)
  \/ \E p \in Pods : CreatePod(p) \/ DeletePod(p)

Spec == Init /\ [][Next]_vars

-----------------------------------------------------------------------------
(* Properties. *)

(* The types of all variables.                                              *)
Records == [name : Workloads, replicas : Nat]

TypeOK ==
  /\ uid \in [Workloads -> 0 .. MaxUid] /\ created \in 0 .. MaxUid
  /\ size \in [Workloads -> Nat \cup {NoSize}] /\ own \in [Workloads -> Nat \cup {NoSize}]
  /\ owner \in [Pods -> Owners] /\ mounting \in SUBSET Pods
  /\ pc \in {"idle", "down", "held", "up", "patch"}
  /\ DOMAIN recorded \subseteq 1 .. MaxUid
  /\ \A u \in DOMAIN recorded : recorded[u] \in Records
  /\ todo \subseteq IF pc = "down" THEN Workloads ELSE DOMAIN recorded
  /\ at \in DOMAIN recorded \cup {0}
  /\ faults \in Seq(FaultKinds) /\ Len(faults) <= MaxFaults

(* Whatever order the pods are listed in, FindWorkloadsForPVC finds every   *)
(* workload that a pod leads to, and none twice: the set that TaskReconciler *)
(* calls Mounting.  Two ReplicaSets of a rollout count as one Deployment.   *)
FoundOnce ==
  \A list \in SetToSeqs(mounting) :
    LET found == FindWorkloadsForPVC(list, {}) IN
    /\ \A i, j \in DOMAIN found : found[i] = found[j] => i = j
    /\ ToSet(found) = {w \in Workloads : /\ Exists(w)
                                        /\ \E p \in mounting :
                                             owner[p] = w \/ (owner[p] \in ReplicaSets /\ ControllerOf[owner[p]] = w)}

Spared(kinds) == \A i \in DOMAIN faults : faults[i] \notin kinds

(* When a Task has let go of the workloads each has the size its users gave *)
(* it, one that they never set written out, also one that was deleted and   *)
(* created again meanwhile with another.                                    *)
SizesReturn ==
  pc = "idle" /\ Spared({"find", "patch", "resize", "overtake"}) =>
    \A w \in Workloads : Exists(w) => size[w] = own[w] \/ (own[w] = NoSize /\ size[w] = 1)

(* The operator resizes only workloads it has recorded under their UID: one *)
(* created since is none of its business, whatever its name.                *)
Strangers(w) == Exists(w) /\ uid[w] \notin DOMAIN recorded
ByOperator == UNCHANGED userVars

NoStrangerResized == [][\A w \in Workloads : Strangers(w) /\ ByOperator => size'[w] = size[w]]_vars

(* ... which the UID check ensures but for the time between Get and Patch.  *)
StrangersUntouched ==
  [][Spared({"overtake"}) =>
       \A w \in Workloads : Strangers(w) /\ ByOperator => size'[w] = size[w]]_vars
=============================================================================
