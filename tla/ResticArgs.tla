----------------------------- MODULE ResticArgs -----------------------------
(***************************************************************************)
(* What an annotation means: the restic command line and the credentials   *)
(* of the Task made for it.  An annotation "repository|host|name" is the   *)
(* sequence of the words between its bars (strings.Split), read from the   *)
(* right; a word is the sequence of its parts between dashes, so that the  *)
(* host "namespace-name" of a PVC is what it is in the code, a text that   *)
(* has forgotten where the namespace ended.                                *)
(***************************************************************************)
EXTENDS Integers, Sequences

CONSTANTS
  Words,         \* the words of annotations, targets, hosts and names
  LatestWords,   \* LatestAcceptableValues: "latest", "true", "now" and ""
  Numerals,      \* the words that begin with digits ...
  Number,        \* ... and the number Sscanf("%d") reads from each
  Repositories,  \* spec.repositories: targets and priorities
  PVCs           \* PVCs: their namespaces and names

NoWord == <<>>

ASSUME WordsAssumption ==
  /\ NoWord \in LatestWords /\ LatestWords \subseteq Words
  /\ Numerals \subseteq Words \ {NoWord}
  /\ Number \in [Numerals -> Int]
ASSUME RepositoriesAssumption ==
  Repositories \in Seq([target : Words, priority : Int]) /\ Repositories # <<>>

-----------------------------------------------------------------------------
(* Mutants of the definitions below.                                        *)

(* HostArg: read from the left. *)
HostArgFromLeft(a, p) == IF Len(a) >= 2 /\ a[1] # NoWord THEN a[1] ELSE p.namespace \o p.name

(* HostArg: the namespace is left out. *)
HostArgByName(a, p) == IF Len(a) >= 2 /\ a[Len(a) - 1] # NoWord THEN a[Len(a) - 1] ELSE p.name

(* BackupTag: the name is only looked for behind a bar. *)
BackupTagOfParts(a, task) == IF Len(a) = 1 \/ a[Len(a)] \in LatestWords THEN task ELSE a[Len(a)]

-----------------------------------------------------------------------------
(* The first of some repositories, in the order of the spec.                *)
FirstOf(S) == CHOOSE i \in S : \A j \in S : i <= j

WithPriority(n) == {i \in DOMAIN Repositories : Repositories[i].priority = n}
WithTarget(w) == {i \in DOMAIN Repositories : Repositories[i].target = w}

(* The lower the number the higher the priority.                            *)
HighestPriority == {i \in DOMAIN Repositories :
                      \A j \in DOMAIN Repositories : Repositories[i].priority <= Repositories[j].priority}

NumberedBy(w) == IF w \in Numerals THEN WithPriority(Number[w]) ELSE {}

(* convertStringToRepoNameArgs: the third word from the right is a priority *)
(* of a repository, or else a target, or else says nothing.                 *)
RepoArg(a) ==
  LET w == a[Len(a) - 2] IN
  IF Len(a) < 3 \/ w = NoWord THEN FirstOf(HighestPriority)
  ELSE IF NumberedBy(w) # {} THEN FirstOf(NumberedBy(w))
  ELSE IF WithTarget(w) # {} THEN FirstOf(WithTarget(w))
  ELSE FirstOf(HighestPriority)

(* Mutant of SelectRepository: targets are not looked for.                   *)
SelectByNumber(a) ==
  IF Len(a) = 3 /\ a[1] # NoWord /\ NumberedBy(a[1]) # {} THEN FirstOf(NumberedBy(a[1]))
  ELSE FirstOf(HighestPriority)

(* SelectRepository, whose environment the Task gets: the first of three    *)
(* words is a priority if it begins with digits, and a target if not.       *)
SelectRepository(a) ==
  LET found == IF Len(a) # 3 \/ a[1] = NoWord THEN {}
               ELSE IF a[1] \in Numerals THEN NumberedBy(a[1]) ELSE WithTarget(a[1])
  IN IF found # {} THEN FirstOf(found) ELSE FirstOf(HighestPriority)

(* convertStringToHostArgs and GetHostFromPVC: the second word from the     *)
(* right, or namespace and name of the PVC, joined by a dash.               *)
HostArg(a, p) ==
  IF Len(a) >= 2 /\ a[Len(a) - 1] # NoWord THEN a[Len(a) - 1] ELSE p.namespace \o p.name

(* convertParamsToBackupName: the last word, or the name of the Task.       *)
BackupTag(a, task) == IF a[Len(a)] \in LatestWords THEN task ELSE a[Len(a)]

(* convertStringToNameArgs: the newest snapshot, the newest that is tagged  *)
(* with the last word, or, when there is only one word, the one of that ID. *)
RestoreSource(a) ==
  IF a[Len(a)] \in LatestWords THEN [by |-> "latest", word |-> NoWord]
  ELSE [by |-> IF Len(a) > 1 THEN "tag" ELSE "id", word |-> a[Len(a)]]

(* MakeBackupArgs and MakeRestoreArgs.                                      *)
MakeBackupArgs(a, p, task) ==
  [repo |-> RepoArg(a), host |-> HostArg(a, p), tag |-> BackupTag(a, task)]
MakeRestoreArgs(a, p) ==
  [repo |-> RepoArg(a), host |-> HostArg(a, p), source |-> RestoreSource(a)]

(* A target that reads as a number that is no priority: the command finds   *)
(* it by its text, the environment does not.                                *)
Shadowed(a) == Len(a) = 3 /\ a[1] \in Numerals /\ NumberedBy(a[1]) = {} /\ WithTarget(a[1]) # {}
=============================================================================
