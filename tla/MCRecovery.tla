----------------------------- MODULE MCRecovery -----------------------------
(* Instances of Recovery for TLC.                                           *)
EXTENDS Recovery, TLC

CONSTANTS p1, p2, r1

OnePVC == {p1}
TwoPVCs == {p1, p2}
OneRepo == {r1}
FixedSpec == {<<r1>>}
EveryTick == [r \in Repos |-> 0 .. MaxClock]
NoTimes == [r \in Repos |-> {}]

(* All PVCs are incarnations of one claim.  An early snapshot of it, taken  *)
(* before there was data, and a later one are left.                         *)
OneName == [p \in PVCs |-> "data"]
TwoSnapshots == <<[name |-> "data", data |-> {}, of |-> NoPVC],
                  [name |-> "data", data |-> {0}, of |-> NoPVC]>>
=============================================================================
