------------------------- MODULE MCConfigReconciler -------------------------
(* Instances of ConfigReconciler for TLC.                                   *)
EXTENDS ConfigReconciler, TLC

CONSTANTS p1, p2, r1, r2

OnePVC == {p1}
TwoPVCs == {p1, p2}
OneRepo == {r1}
TwoRepos == {r1, r2}

(* Every PVC a name of its own, or one name in several namespaces.          *)
OwnNames == [p \in PVCs |-> p]
OneName == [p \in PVCs |-> "data"]

(* What spec.repositories may be.                                           *)
FixedSpec == {<<r1>>}
PairSpec == {<<r1, r2>>}
EditedSpecs == {<<r1>>, <<r1, r2>>, <<r2, r1>>}
EmptySpec == {<<>>}
MaybeEmptySpec == {<<>>, <<r1>>}

(* Schedules: at every tick, at the first one, never.                       *)
NoTimes == [r \in Repos |-> {}]
EveryTick == [r \in Repos |-> 0 .. MaxClock]
SecondTick == [r \in Repos |-> {1}]
=============================================================================
