----------------------------- MODULE WorkQueues -----------------------------
(***************************************************************************)
(* What decides whether an object is reconciled again: the results that    *)
(* Reconcile returns, the events the two controllers ask for, and the work *)
(* queue of controller-runtime between them.  One queue and one worker per *)
(* controller.  What a reconcile does to a Task is reduced to how far it   *)
(* brings it (TaskReconciler has the stages), and a Config to its being    *)
(* there: this module is about keys.                                       *)
(***************************************************************************)
EXTENDS Integers, Sequences, FiniteSets, Functions

CONSTANTS
  Tasks,         \* names of Tasks
  Configs,       \* names of Configs
  NoKey,         \* no name: the worker is idle
  Last,          \* the stage of a Task that is finished and has no finalizer
  UserDeletes,   \* do users delete Tasks and Configs
  MaxIncidents   \* restarts of the operator and events of Jobs (a bound)

Keys == Tasks \cup Configs

ASSUME KeysAssumption == Tasks \cap Configs = {} /\ NoKey \notin Keys
ASSUME FiniteKeysAssumption == IsFiniteSet(Configs)
ASSUME LastAssumption == Last \in Nat /\ Last > 1
ASSUME QueueBoundAssumption == MaxIncidents \in Nat /\ UserDeletes \in BOOLEAN

VARIABLES
  object,    \* object[k]: the stage the API server stores
  seen,      \* seen[k]: the stage in the informer cache
  queue,     \* queue[c]: the keys controller c will reconcile next, in order
  dirty,     \* keys that need a reconcile
  waiting,   \* keys that a timer (RequeueAfter, backoff) will add
  held,      \* held[c]: the key its worker reconciles
  copy,      \* copy[c]: the stage of that key the worker has read
  incidents  \* restarts and events of Jobs so far

queueVars == <<queue, dirty, waiting, held, copy>>
vars == <<object, seen, queueVars, incidents>>

Controllers == {"tasks", "configs"}
Of(k) == IF k \in Tasks THEN "tasks" ELSE "configs"

(* Stages: not created, 1 .. Last while the object exists, and gone.  A     *)
(* Config stays at 1.                                                       *)
Absent == 0
Gone == Last + 1
Stages == 0 .. Last + 1
Exists(s) == s \in 1 .. Last

(* Something is still to be done: a Task has stages to come, a Config that  *)
(* exists is reconciled for ever, for its schedules.                        *)
Open(k, s) == Exists(s) /\ (k \in Tasks => s < Last)

Busy == {held[c] : c \in Controllers} \ {NoKey}

-----------------------------------------------------------------------------
(* Mutants of definitions below: plausible mistakes the properties notice.  *)

(* Result: a finished Task is polled like a Config.                         *)
ResultAlways(k, s) == IF Exists(s) THEN "requeue"
                      ELSE IF k \in Tasks THEN "error" ELSE "empty"

(* ... a pass over a Config that finds nothing to do asks for no requeue.   *)
ResultOnce(k, s) == CASE k \in Configs -> "empty"
                      [] k \in Tasks /\ Exists(s) /\ s < Last -> "requeue"
                      [] k \in Tasks /\ s = Last -> "empty"
                      [] k \in Tasks /\ ~Exists(s) -> "error"

(* NotQueued: a key that is being reconciled is queued at once.             *)
NotQueuedNow(K) == K \ dirty

(* PutBack: what came while the key was reconciled is taken for done.       *)
PutBackNever(c, k) == queue

-----------------------------------------------------------------------------
(* The queue: a key that is dirty already is not added twice, one that is   *)
(* being reconciled is put back when that ends.                             *)

Orders(K) == Bijection(1 .. Cardinality(K), K)

NotQueued(K) == K \ (dirty \cup Busy)

Add(c, K) ==
  /\ dirty' = dirty \cup K
  /\ \E s \in Orders(NotQueued(K)) : queue' = [queue EXCEPT ![c] = @ \o s]

PutBack(c, k) == IF k \in dirty THEN [queue EXCEPT ![c] = Append(@, k)] ELSE queue

(* How Reconcile ends, given what it read: Step turns an error into an      *)
(* error, period -1 into an empty result and any other period into          *)
(* RequeueAfter.  A Task that is not found is deleted, under the empty name *)
(* of an object that was never read, which is an error; a Config that is    *)
(* not found is ignored.                                                    *)
Result(k, s) == CASE Open(k, s) -> "requeue"
                  [] k \in Tasks /\ s = Last -> "empty"
                  [] k \in Tasks /\ ~Exists(s) -> "error"
                  [] k \in Configs /\ ~Exists(s) -> "empty"

Init ==
  /\ object = [k \in Keys |-> Absent] /\ seen = object
  /\ queue = [c \in Controllers |-> <<>>]
  /\ dirty = {} /\ waiting = {}
  /\ held = [c \in Controllers |-> NoKey]
  /\ copy = [c \in Controllers |-> Absent]
  /\ incidents = 0

(* The worker of c takes the oldest key and reads the object from the cache. *)
Take(c) ==
  /\ held[c] = NoKey /\ queue[c] # <<>>
  /\ held' = [held EXCEPT ![c] = Head(queue[c])]
  /\ copy' = [copy EXCEPT ![c] = seen[Head(queue[c])]]
  /\ queue' = [queue EXCEPT ![c] = Tail(@)]
  /\ dirty' = dirty \ {Head(queue[c])}
  /\ UNCHANGED <<object, seen, waiting, incidents>>

(* The reconcile ends.  A stage has written the Task, which the API server  *)
(* accepts from a current copy only; or it waits (for pods, for the Job),   *)
(* or a call has failed.  Removing the finalizer of a Task a user has       *)
(* deleted removes the Task.                                                *)
Finish(c) ==
  LET k == held[c] IN
  /\ k # NoKey
  /\ \/ UNCHANGED object
     \/ /\ k \in Tasks /\ Open(k, copy[c]) /\ copy[c] = object[k]
        /\ \E s \in {copy[c] + 1} \cup (IF UserDeletes /\ copy[c] + 1 = Last THEN {Gone} ELSE {}) :
             object' = [object EXCEPT ![k] = s]
  /\ waiting' = IF Result(k, copy[c]) = "empty" THEN waiting ELSE waiting \cup {k}
  /\ held' = [held EXCEPT ![c] = NoKey]
  /\ copy' = [copy EXCEPT ![c] = Absent]
  /\ queue' = PutBack(c, k)
  /\ UNCHANGED <<seen, dirty, incidents>>

(* The delay of a requeue, or the backoff after an error, is over.          *)
Expire(k) ==
  /\ k \in waiting
  /\ waiting' = waiting \ {k}
  /\ Add(Of(k), {k})
  /\ UNCHANGED <<object, seen, held, copy, incidents>>

(* The informer learns of a change.  For() adds the key; for a Config       *)
(* RequestConfigs adds every Config of the cache as well, or none if its    *)
(* list is refused.                                                         *)
Sync(k) ==
  /\ seen[k] # object[k] /\ (Exists(seen[k]) \/ Exists(object[k]))
  /\ seen' = [seen EXCEPT ![k] = object[k]]
  /\ \/ Add(Of(k), {k})
     \/ k \in Configs /\ Add("configs", {k} \cup {l \in Configs : Exists(seen'[l])})
  /\ UNCHANGED <<object, waiting, held, copy, incidents>>

(* Owns(&Job): an event of the Job of a Task adds the Task, whatever has    *)
(* become of it.                                                            *)
JobEvent(t) ==
  /\ object[t] # Absent /\ incidents < MaxIncidents
  /\ incidents' = incidents + 1
  /\ Add("tasks", {t})
  /\ UNCHANGED <<object, seen, waiting, held, copy>>

(* Mutant of PVCEvent: the keys go to the other controller.                 *)
PVCEventMisrouted ==
  /\ \E K \in SUBSET {k \in Configs : Exists(seen[k])} : Add("tasks", K)
  /\ UNCHANGED <<object, seen, waiting, held, copy, incidents>>

(* RequestPVCsForConfig adds the Configs of the cache that select the PVC.  *)
PVCEvent ==
  /\ \E K \in SUBSET {k \in Configs : Exists(seen[k])} : Add("configs", K)
  /\ UNCHANGED <<object, seen, waiting, held, copy, incidents>>

(* Users create Configs, once more after they have deleted them; Tasks have *)
(* generated names and are created once.                                    *)
Create(k) ==
  /\ object[k] = Absent \/ (k \in Configs /\ object[k] = Gone)
  /\ object' = [object EXCEPT ![k] = 1]
  /\ UNCHANGED <<seen, queueVars, incidents>>

(* An object without a finalizer is gone when it is deleted.                *)
Delete(k) ==
  /\ UserDeletes
  /\ IF k \in Tasks THEN object[k] \in {1, Last} ELSE Exists(object[k])
  /\ object' = [object EXCEPT ![k] = Gone]
  /\ UNCHANGED <<seen, queueVars, incidents>>

(* The operator is started again: nothing of the queues survives, and the   *)
(* informers list every object, each of which is an event.                  *)
Restart ==
  /\ incidents < MaxIncidents
  /\ incidents' = incidents + 1
  /\ seen' = [k \in Keys |-> Absent]
  /\ queue' = [c \in Controllers |-> <<>>]
  /\ dirty' = {} /\ waiting' = {}
  /\ held' = [c \in Controllers |-> NoKey]
  /\ copy' = [c \in Controllers |-> Absent]
  /\ UNCHANGED object

Next ==
  \/ \E c \in Controllers : Take(c) \/ Finish(c)
  \/ \E k \in Keys : Expire(k) \/ Sync(k) \/ Create(k) \/ Delete(k)
  \/ \E t \in Tasks : JobEvent(t)
  \/ PVCEvent
  \/ Restart

Spec == Init /\ [][Next]_vars

(* Workers work, timers fire and events arrive.  Nothing is assumed of what *)
(* a reconcile achieves.                                                    *)
Fairness ==
  /\ \A c \in Controllers : WF_vars(Take(c)) /\ WF_vars(Finish(c))
  /\ \A k \in Keys : WF_vars(Expire(k)) /\ WF_vars(Sync(k))

FairSpec == Spec /\ Fairness
-----------------------------------------------------------------------------
(* Properties. *)

(* The types of all variables.                                              *)
TypeOK ==
  /\ object \in [Keys -> Stages] /\ seen \in [Keys -> Stages]
  /\ queue \in [Controllers -> Seq(Keys)]
  /\ dirty \in SUBSET Keys /\ waiting \in SUBSET Keys
  /\ held \in [Controllers -> Keys \cup {NoKey}]
  /\ copy \in [Controllers -> Stages]
  /\ \A c \in Controllers : held[c] # NoKey => Of(held[c]) = c
  /\ incidents \in 0 .. MaxIncidents

(* The queue holds the dirty keys that nobody reconciles, each once, in the *)
(* queue of its own controller.                                             *)
Queued(c) == Range(queue[c])

QueuesAgree ==
  \A c \in Controllers : /\ Queued(c) = {k \in dirty : Of(k) = c} \ Busy
                         /\ IsInjective(queue[c])

(* No key is lost: an object with something still to be done is in a queue, *)
(* in the hands of a worker that will put it back, waits for a timer, or an *)
(* event that will add it is on its way.  It is what Result, the watches    *)
(* and the initial list have to achieve together.                           *)
WillRequeue(c, k) == held[c] = k /\ Result(k, copy[c]) # "empty"

KeyKept ==
  \A k \in Keys : Open(k, object[k]) =>
    \/ k \in dirty \cup waiting
    \/ seen[k] # object[k]
    \/ \E c \in Controllers : WillRequeue(c, k)

(* Inductive: the key of an object that is open in the cache is kept.       *)
SeenKept ==
  \A k \in Keys : Open(k, seen[k]) =>
    k \in dirty \cup waiting \/ \E c \in Controllers : WillRequeue(c, k)

(* What the fairness of the two reconcilers takes for granted: an object    *)
(* with something to be done is handed to a worker, with a current copy.    *)
Attended ==
  \A k \in Keys : Open(k, object[k]) ~>
    (~Open(k, object[k]) \/ (held[Of(k)] = k /\ copy[Of(k)] = object[k]))

(* A Task that is finished, and a Config that is gone, are not reconciled   *)
(* for ever.                                                                *)
AtRest(k) == k \notin dirty \cup waiting \cup Busy

DoneKeysRest ==
  /\ \A t \in Tasks : object[t] = Last ~> (AtRest(t) \/ object[t] # Last)
  /\ \A k \in Configs : object[k] = Gone ~> (AtRest(k) \/ object[k] # Gone)

(* Neither is a Task that is gone.                                          *)
GoneKeysRest == \A t \in Tasks : object[t] = Gone ~> AtRest(t)
=============================================================================
