---------------------------- MODULE PVCSelection ----------------------------
(***************************************************************************)
(* Which PVCs a Config is about, decided twice: GetPVCsForConfig asks the  *)
(* API server for a list per selector, and the watch on PVCs decides with  *)
(* matchesConfigSelectors whether a change of a PVC is news for the Config *)
(* and puts it into the queue.                                             *)
(***************************************************************************)
EXTENDS Naturals, Sequences

CONSTANTS
  PVCs,        \* the PersistentVolumeClaims that may exist
  Namespaces,  \* the namespaces
  Nil,         \* matchNamespaces, where it is left out
  Keys,        \* label keys
  Values,      \* label values
  NoValue,     \* the empty value
  Selectors,   \* the lists of selectors users give spec.selectors
  Labellings   \* the labels a PVC may have

ASSUME NoValueAssumption == NoValue \in Values
ASSUME NilAssumption == Nil # <<>>

(* Labels and matchLabels: a map, here a function on the keys it has.       *)
LabelMaps == UNION {[K -> Values] : K \in SUBSET Keys}
NoLabels == [k \in {} |-> NoValue]

(* An empty list of namespaces is not the list that is left out: the first  *)
(* is a slice of no elements, the second is nil.                            *)
Selector == [matchLabels : LabelMaps, matchNamespaces : {Nil} \cup Seq(Namespaces)]

ASSUME SelectorsAssumption == Selectors \subseteq Seq(Selector)
ASSUME LabellingsAssumption == Labellings \subseteq LabelMaps

VARIABLES
  selectors,   \* spec.selectors
  pvcs,        \* the PVCs that exist, with their namespaces and labels
  queued,      \* is the Config in the queue of its controller
  listed,      \* the PVCs the last reconcile found
  swallowed    \* history: a List failed since the last reconcile that listed well

vars == <<selectors, pvcs, queued, listed, swallowed>>

PVC == [exists : BOOLEAN, deleting : BOOLEAN, namespace : Namespaces, labels : LabelMaps]

(* To the API server and to the documentation, not to the watch, both stand *)
(* for all namespaces.                                                      *)
Everywhere(s) == s.matchNamespaces \in {Nil, <<>>}

-----------------------------------------------------------------------------
(* Mutants of the definitions below.                                        *)

(* MatchesSelector: only the first namespace is looked at.                  *)
MatchesFirst(p, s) ==
  /\ \/ s.matchNamespaces = Nil
     \/ s.matchNamespaces # <<>> /\ p.namespace = Head(s.matchNamespaces)
  /\ \A k \in DOMAIN s.matchLabels : k \in DOMAIN p.labels /\ p.labels[k] = s.matchLabels[k]

(* ListedBy: a selector without labels selects nothing.                     *)
ListedByLabels(p, s) ==
  /\ Everywhere(s) \/ p.namespace = s.matchNamespaces[Len(s.matchNamespaces)]
  /\ \E k \in DOMAIN s.matchLabels : k \in DOMAIN p.labels /\ p.labels[k] = s.matchLabels[k]

-----------------------------------------------------------------------------
(* The labels as the watch reads them: a key that is missing reads as "".   *)
LabelOf(p, k) == IF k \in DOMAIN p.labels THEN p.labels[k] ELSE NoValue

(* matchesConfigSelectors, one selector: an empty list, which is not nil,    *)
(* has no namespace to match.                                               *)
MatchesSelector(p, s) ==
  /\ \/ s.matchNamespaces = Nil
     \/ \E i \in DOMAIN s.matchNamespaces : p.namespace = s.matchNamespaces[i]
  /\ \A k \in DOMAIN s.matchLabels : LabelOf(p, k) = s.matchLabels[k]

(* The List of GetPVCsForConfig for one selector: MatchingLabels wants the  *)
(* key; every InNamespace option overwrites the one before it.              *)
ListedBy(p, s) ==
  /\ Everywhere(s) \/ p.namespace = s.matchNamespaces[Len(s.matchNamespaces)]
  /\ \A k \in DOMAIN s.matchLabels : k \in DOMAIN p.labels /\ p.labels[k] = s.matchLabels[k]

(* matchesConfigSelectors: one selector is enough.                          *)
Matches(p, ss) == \E i \in DOMAIN ss : MatchesSelector(p, ss[i])

(* GetPVCsForConfig: what any selector lists, but for what is being deleted. *)
Listed(ps, ss) ==
  {p \in PVCs : ps[p].exists /\ ~ps[p].deleting /\ \E i \in DOMAIN ss : ListedBy(ps[p], ss[i])}

Init ==
  /\ selectors \in Selectors
  /\ pvcs \in [PVCs -> {[exists |-> FALSE, deleting |-> FALSE, namespace |-> n, labels |-> NoLabels]
                          : n \in Namespaces}]
  /\ queued = TRUE
  /\ listed = {}
  /\ swallowed = FALSE

(* A PVC changes: RequestPVCsForConfig looks at what it was and at what it  *)
(* is, each time at the Configs it lists; if the List fails it asks for     *)
(* nothing.                                                                 *)
Change(p, o) ==
  LET objects == {x \in {pvcs[p], o} : x.exists}
  IN \E seen \in SUBSET objects :
       /\ pvcs' = [pvcs EXCEPT ![p] = o]
       /\ queued' = (queued \/ \E x \in seen : Matches(x, selectors))
       /\ swallowed' = (swallowed \/ seen # objects)
       /\ UNCHANGED <<selectors, listed>>

CreatePVC(p) ==
  /\ ~pvcs[p].exists
  /\ \E l \in Labellings : Change(p, [pvcs[p] EXCEPT !.exists = TRUE, !.labels = l])

LabelPVC(p) == /\ pvcs[p].exists
               /\ \E l \in Labellings \ {pvcs[p].labels} : Change(p, [pvcs[p] EXCEPT !.labels = l])

DeletePVC(p) == pvcs[p].exists /\ ~pvcs[p].deleting /\ Change(p, [pvcs[p] EXCEPT !.deleting = TRUE])

RemovePVC(p) == /\ pvcs[p].exists /\ pvcs[p].deleting
                /\ Change(p, [pvcs[p] EXCEPT !.exists = FALSE, !.deleting = FALSE,
                                                 !.labels = NoLabels])

(* RequestConfigs: a change of a Config is always news.                     *)
EditConfig ==
  /\ selectors' \in Selectors \ {selectors}
  /\ queued' = TRUE
  /\ UNCHANGED <<pvcs, listed, swallowed>>

(* The operator stores the whole Config, for its finalizer or to take an    *)
(* annotation off: omitempty drops every empty list of namespaces.          *)
StoreConfig ==
  /\ selectors' = [i \in DOMAIN selectors |->
                     IF Everywhere(selectors[i]) THEN [selectors[i] EXCEPT !.matchNamespaces = Nil]
                                                 ELSE selectors[i]]
  /\ queued' = TRUE
  /\ UNCHANGED <<pvcs, listed, swallowed>>

(* The requeue that every reconcile ends with.                              *)
Requeue == ~queued /\ queued' = TRUE /\ UNCHANGED <<selectors, pvcs, listed, swallowed>>

(* A reconcile that reaches ListPVCsForConfig.  One List that fails leaves  *)
(* it with no PVC at all, and it goes on.                                   *)
Reconcile ==
  \E refused \in BOOLEAN :
    /\ queued
    /\ refused => selectors # <<>>
    /\ listed' = IF refused THEN {} ELSE Listed(pvcs, selectors)
    /\ swallowed' = refused
    /\ queued' = FALSE
    /\ UNCHANGED <<selectors, pvcs>>

Next == \/ EditConfig
        \/ StoreConfig
        \/ Requeue
        \/ Reconcile
        \/ \E p \in PVCs : CreatePVC(p) \/ LabelPVC(p) \/ DeletePVC(p) \/ RemovePVC(p)

Spec == Init /\ [][Next]_vars

-----------------------------------------------------------------------------
(* The watch misses nothing that the list would show: unless a List failed, *)
(* a Config that is not in the queue has listed the PVCs it is about.  Not  *)
(* so with an explicitly empty list of namespaces, which the watch takes    *)
(* for none and the list for all.                                           *)
NothingMissed ==
  (\A i \in DOMAIN selectors : selectors[i].matchNamespaces # <<>>)
    => queued \/ swallowed \/ listed = Listed(pvcs, selectors)

(* What the documentation of Selector says: all labels, and any of the      *)
(* namespaces, or all of them if none is named.                             *)
Meant(p, s) ==
  /\ Everywhere(s) \/ \E i \in DOMAIN s.matchNamespaces : p.namespace = s.matchNamespaces[i]
  /\ \A k \in DOMAIN s.matchLabels : k \in DOMAIN p.labels /\ p.labels[k] = s.matchLabels[k]

(* A Config that is not in the queue has listed the PVCs its documentation  *)
(* promises, unless a List failed.  Not so for every selector: see          *)
(* TwoNamespacesListed.cfg and EmptyListUnwatched.cfg ...                   *)
SelectedAsMeant ==
  \/ queued
  \/ swallowed
  \/ listed = {p \in PVCs : /\ pvcs[p].exists /\ ~pvcs[p].deleting
                            /\ \E i \in DOMAIN selectors : Meant(pvcs[p], selectors[i])}

(* ... but so where each selector names one namespace or leaves the list out. *)
SingleNamespaces ==
  \A i \in DOMAIN selectors :
    \/ selectors[i].matchNamespaces = Nil
    \/ Len(selectors[i].matchNamespaces) = 1

SelectedWhenSingle == SingleNamespaces => SelectedAsMeant
=============================================================================
