------------------------ MODULE PVCSelection_proofs ------------------------
(***************************************************************************)
(* That the watch on PVCs misses nothing a reconcile would list, for all   *)
(* selectors, labels and namespaces but an explicitly empty list of        *)
(* namespaces: every PVC that GetPVCsForConfig lists is one that           *)
(* matchesConfigSelectors lets through.  And that the list is the          *)
(* documented one for selectors that name one namespace or leave them out. *)
(***************************************************************************)
EXTENDS PVCSelection, TLAPS

(* The watch is the more generous of the two: it looks at all namespaces of *)
(* a selector where the list looks at the last.                             *)
LEMMA ListedIsWatched ==
  ASSUME NEW o, NEW s \in Selector, s.matchNamespaces # <<>>, ListedBy(o, s)
  PROVE  MatchesSelector(o, s)
<1> DEFINE ns == s.matchNamespaces
<1>1. ns = Nil \/ ns \in Seq(Namespaces)
  BY DEF Selector
<1>2. ns = Nil \/ \E i \in DOMAIN ns : o.namespace = ns[i]
  <2>1. ASSUME ns # Nil
        PROVE  Len(ns) \in DOMAIN ns
    <3>1. ns # <<>>
      OBVIOUS
    <3> HIDE DEF ns
    <3> QED
      BY <1>1, <2>1, <3>1
  <2> QED
    BY <2>1 DEF ListedBy, Everywhere
<1>3. \A k \in DOMAIN s.matchLabels : LabelOf(o, k) = s.matchLabels[k]
  BY DEF ListedBy, LabelOf
<1> QED
  BY <1>2, <1>3 DEF MatchesSelector

(* The types of the variables that the argument needs.                      *)
TypeOK == selectors \in Seq(Selector) /\ pvcs \in [PVCs -> PVC]

LEMMA NoLabelsType == NoLabels \in LabelMaps
<1>1. NoLabels \in [{} -> Values]
  BY DEF NoLabels
<1>2. {} \in SUBSET Keys
  OBVIOUS
<1> QED
  BY <1>1, <1>2 DEF LabelMaps

LEMMA TypeInitially == Init => TypeOK
<1> SUFFICES ASSUME Init
             PROVE  TypeOK
  OBVIOUS
<1> DEFINE Absent == {[exists |-> FALSE, deleting |-> FALSE, namespace |-> n, labels |-> NoLabels]
                        : n \in Namespaces}
<1>1. ASSUME NEW o \in Absent
      PROVE  o \in PVC
  <2>1. PICK n \in Namespaces :
          o = [exists |-> FALSE, deleting |-> FALSE, namespace |-> n, labels |-> NoLabels]
    BY <1>1
  <2> QED
    BY <2>1, NoLabelsType DEF PVC
<1>2. pvcs \in [PVCs -> Absent]
  BY DEF Init
<1>3. pvcs \in [PVCs -> PVC]
  <2> HIDE DEF Absent
  <2> QED
    BY <1>1, <1>2
<1>4. selectors \in Seq(Selector)
  BY SelectorsAssumption DEF Init
<1> QED
  BY <1>3, <1>4 DEF TypeOK

(* A step that changes PVC p to o changes nothing else.                     *)
LEMMA ChangeKeepsTypes ==
  ASSUME TypeOK, NEW p \in PVCs, NEW o \in PVC, Change(p, o)
  PROVE  TypeOK'
BY DEF TypeOK, Change

(* The Config as the operator stores it has selectors of the same type.     *)
LEMMA StoreKeepsTypes ==
  ASSUME TypeOK, StoreConfig
  PROVE  TypeOK'
<1> DEFINE Kept(s) == IF Everywhere(s) THEN [s EXCEPT !.matchNamespaces = Nil] ELSE s
<1>1. \A s \in Selector : Kept(s) \in Selector
  BY DEF Selector
<1>2. selectors' = [i \in DOMAIN selectors |-> Kept(selectors[i])] /\ pvcs' = pvcs
  BY DEF StoreConfig
<1>3. selectors' \in Seq(Selector)
  <2> HIDE DEF Kept
  <2>1. selectors \in Seq(Selector)
    BY DEF TypeOK
  <2>2. /\ Len(selectors) \in Nat
        /\ DOMAIN selectors = 1 .. Len(selectors)
        /\ \A i \in DOMAIN selectors : selectors[i] \in Selector
    BY <2>1
  <2>3. selectors' \in [1 .. Len(selectors) -> Selector]
    BY <1>1, <1>2, <2>2
  <2> QED
    BY <2>2, <2>3 DEF Seq
<1> QED
  BY <1>2, <1>3 DEF TypeOK

(* ... and is news if the Config is concerned, or a List failed.            *)
LEMMA ChangeIsNews ==
  ASSUME TypeOK, NothingMissed, NEW p \in PVCs, NEW o \in PVC, Change(p, o)
  PROVE  NothingMissed'
<1> SUFFICES ASSUME \A i \in DOMAIN selectors : selectors[i].matchNamespaces # <<>>,
                    ~queued', ~swallowed'
             PROVE  listed' = Listed(pvcs', selectors')
  BY DEF NothingMissed, Change
<1>1. PICK seen \in SUBSET {x \in {pvcs[p], o} : x.exists} :
        /\ pvcs' = [pvcs EXCEPT ![p] = o]
        /\ queued' = (queued \/ \E x \in seen : Matches(x, selectors))
        /\ swallowed' = (swallowed \/ seen # {x \in {pvcs[p], o} : x.exists})
        /\ UNCHANGED <<selectors, listed>>
  BY DEF Change
<1>2. /\ ~queued /\ ~swallowed
      /\ \A x \in {pvcs[p], o} : x.exists => ~Matches(x, selectors)
  BY <1>1
<1>3. \A i \in DOMAIN selectors : selectors[i] \in Selector
  BY DEF TypeOK
<1>4. \A x \in {pvcs[p], o} : x.exists => \A i \in DOMAIN selectors : ~ListedBy(x, selectors[i])
  BY <1>2, <1>3, ListedIsWatched DEF Matches
<1>5. p \notin Listed(pvcs, selectors) /\ p \notin Listed(pvcs', selectors)
  BY <1>1, <1>4 DEF Listed, TypeOK
<1>6. ASSUME NEW q \in PVCs, q # p
      PROVE  q \in Listed(pvcs, selectors) <=> q \in Listed(pvcs', selectors)
  <2>1. pvcs'[q] = pvcs[q]
    BY <1>1, <1>6 DEF TypeOK
  <2> QED
    BY <2>1 DEF Listed
<1>7. Listed(pvcs', selectors) = Listed(pvcs, selectors)
  BY <1>5, <1>6 DEF Listed
<1> QED
  BY <1>1, <1>2, <1>7 DEF NothingMissed

(* What the list says is the truth, and the selectors are what they seem.   *)
THEOREM SelectionHolds == Spec => [](TypeOK /\ NothingMissed)
<1> DEFINE Inv == TypeOK /\ NothingMissed
<1>1. Init => Inv
  BY TypeInitially DEF Init, NothingMissed
<1>2. Inv /\ [Next]_vars => Inv'
  <2> SUFFICES ASSUME TypeOK, NothingMissed, [Next]_vars
               PROVE  Inv'
    OBVIOUS
  <2>1. CASE EditConfig
    BY <2>1, SelectorsAssumption DEF EditConfig, TypeOK, NothingMissed
  <2>2. CASE StoreConfig
    BY <2>2, StoreKeepsTypes DEF StoreConfig, NothingMissed
  <2>3. CASE Requeue
    BY <2>3 DEF Requeue, TypeOK, NothingMissed
  <2>4. CASE Reconcile
    BY <2>4 DEF Reconcile, TypeOK, NothingMissed
  <2>5. ASSUME NEW p \in PVCs, CreatePVC(p) \/ LabelPVC(p) \/ DeletePVC(p) \/ RemovePVC(p)
        PROVE  Inv'
    <3>1. pvcs[p] \in PVC /\ NoLabels \in LabelMaps
      BY NoLabelsType DEF TypeOK
    <3>2. PICK o \in PVC : Change(p, o)
      <4>1. CASE CreatePVC(p)
        BY <3>1, <4>1, LabellingsAssumption DEF CreatePVC, PVC
      <4>2. CASE LabelPVC(p)
        BY <3>1, <4>2, LabellingsAssumption DEF LabelPVC, PVC
      <4>3. CASE DeletePVC(p)
        BY <3>1, <4>3 DEF DeletePVC, PVC
      <4>4. CASE RemovePVC(p)
        BY <3>1, <4>4 DEF RemovePVC, PVC
      <4> QED
        BY <2>5, <4>1, <4>2, <4>3, <4>4
    <3> QED
      BY <3>2, ChangeKeepsTypes, ChangeIsNews
  <2>6. CASE UNCHANGED vars
    BY <2>6 DEF vars, TypeOK, NothingMissed, Listed
  <2> QED
    BY <2>1, <2>2, <2>3, <2>4, <2>5, <2>6 DEF Next
<1> QED
  BY <1>1, <1>2, PTL DEF Spec

(* A Config that is not in the queue has listed exactly the PVCs that its   *)
(* selectors list, where no List failed and no selector gives an empty list *)
(* of namespaces: no change of a PVC or of the Config goes unnoticed.       *)
THEOREM WatchMissesNothing == Spec => []NothingMissed
BY SelectionHolds, PTL

(* The last namespace is all of them when a selector names one.             *)
LEMMA SingleIsMeant ==
  ASSUME NEW o, NEW s \in Selector,
         s.matchNamespaces = Nil \/ Len(s.matchNamespaces) = 1
  PROVE  ListedBy(o, s) <=> Meant(o, s)
<1> DEFINE ns == s.matchNamespaces
<1>1. ns = Nil \/ ns \in Seq(Namespaces)
  BY DEF Selector
<1>2. ASSUME ns # Nil
      PROVE  Len(ns) = 1 /\ DOMAIN ns = {1}
  <2>1. Len(ns) = 1
    BY <1>2
  <2> HIDE DEF ns
  <2> QED
    BY <1>1, <1>2, <2>1
<1>3. ns # Nil => (o.namespace = ns[Len(ns)] <=> \E i \in DOMAIN ns : o.namespace = ns[i])
  BY <1>2
<1> QED
  BY <1>3 DEF ListedBy, Meant, Everywhere

(* The documentation of Selector is true of GetPVCsForConfig and the watch  *)
(* for every Config whose selectors name one namespace each or leave the    *)
(* list out, as long as no List fails.                                      *)
THEOREM SinglesAreSelected == Spec => []SelectedWhenSingle
<1>1. TypeOK /\ NothingMissed => SelectedWhenSingle
  <2> SUFFICES ASSUME TypeOK, NothingMissed, SingleNamespaces, ~queued, ~swallowed
               PROVE  listed = {p \in PVCs : /\ pvcs[p].exists /\ ~pvcs[p].deleting
                                             /\ \E i \in DOMAIN selectors : Meant(pvcs[p], selectors[i])}
    BY DEF SelectedWhenSingle, SelectedAsMeant
  <2>1. \A i \in DOMAIN selectors : selectors[i] \in Selector
    BY DEF TypeOK
  <2>2. \A p \in PVCs : \A i \in DOMAIN selectors :
          ListedBy(pvcs[p], selectors[i]) <=> Meant(pvcs[p], selectors[i])
    BY <2>1, SingleIsMeant DEF SingleNamespaces
  <2>3. \A i \in DOMAIN selectors : selectors[i].matchNamespaces # <<>>
    BY NilAssumption DEF SingleNamespaces
  <2> QED
    BY <2>2, <2>3 DEF NothingMissed, Listed
<1> QED
  BY <1>1, SelectionHolds, PTL
=============================================================================
