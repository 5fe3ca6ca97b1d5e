------------------------- MODULE MCResticSnapshots -------------------------
(* Instances of ResticSnapshots for TLC.                                    *)
EXTENDS ResticSnapshots, TLC

(* PVCs "data" of the namespaces "a" and "b"; and two PVCs of one host.     *)
DistinctPVCs == {[namespace |-> <<"a">>, name |-> <<"data">>],
                 [namespace |-> <<"b">>, name |-> <<"data">>]}
DashedPVCs == {[namespace |-> <<"a">>, name |-> <<"b", "data">>],
               [namespace |-> <<"a", "b">>, name |-> <<"data">>]}

LatestValues == {<<>>, <<"now">>}
Names == {<<"v1">>}
Hosts == {<<"a", "data">>}

(* "2" is the priority of the first repository, not the highest; the target *)
(* "7nas" reads as the number 7, the snapshot ID "4dc109" as 4.             *)
Digits == {<<"2">>, <<"4dc109">>, <<"7nas">>}
Values == [w \in Digits |-> CASE w = <<"2">> -> 2 [] w = <<"4dc109">> -> 4 [] w = <<"7nas">> -> 7]
TwoRepositories == <<[target |-> <<"s3">>, priority |-> 2], [target |-> <<"nfs">>, priority |-> 1]>>
ThreeRepositories == Append(TwoRepositories, [target |-> <<"7nas">>, priority |-> 3])

BackupTasks == <<<<"backup", "x">>, <<"backup", "y">>, <<"backup", "z">>>>
SnapshotIds == <<<<"4dc109">>, <<"e5f6">>, <<"a1b2">>>>

AllWords == LatestValues \cup Names \cup Hosts \cup Digits \cup {<<"s3">>, <<"nfs">>, <<"other">>}
            \cup {BackupTasks[n] : n \in 1 .. 3} \cup {SnapshotIds[n] : n \in 1 .. 3}

(* Annotations of up to three words, each in a place where it makes sense,  *)
(* the ID of the first snapshot among those of one word, and longer ones.   *)
RepositoryWords == {<<>>, <<"2">>, <<"s3">>, <<"7nas">>, <<"other">>}
HostWords == Hosts \cup {<<>>}
NameWords == LatestValues \cup Names
OneWord == {<<n>> : n \in NameWords \cup {SnapshotIds[1]}}
Documented == OneWord \cup {<<h, n>> : h \in HostWords, n \in NameWords}
                      \cup {<<r, h, n>> : r \in RepositoryWords, h \in HostWords,
                                         n \in NameWords \ {<<>>}}
                      \cup {<<<<"s3">>, <<>>, <<>>>>}
FourWords == {<<<<"other">>, <<"2">>, <<>>, <<"now">>>>}
SimpleOrLong == OneWord \cup FourWords
=============================================================================
