---------------------------- MODULE MCWorkloads ----------------------------
(* Instances of Workloads for TLC.                                          *)
EXTENDS Workloads, TLC

CONSTANTS d, s, r1, r2, r3, p1, p2

DeploymentAndStatefulSet == {d, s}
OneDeployment == {d}
TheirKinds == [w \in Workloads |-> IF w = d THEN "Deployment" ELSE "StatefulSet"]

(* Two ReplicaSets of a rollout, and one that nobody controls.              *)
SomeReplicaSets == {r1, r2, r3}
TheirControllers == [r \in ReplicaSets |-> IF r = r3 THEN Nothing ELSE d]
TwoPods == {p1, p2}
=============================================================================
