--------------------------- MODULE MCWorkQueues ---------------------------
(* Instances of WorkQueues for TLC.                                         *)
EXTENDS WorkQueues, TLC

CONSTANTS t1, t2, c1, c2

OneTask == {t1}
TwoTasks == {t1, t2}
OneConfig == {c1}
TwoConfigs == {c1, c2}
NoConfigs == {}
=============================================================================
