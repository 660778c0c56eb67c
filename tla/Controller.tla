----------------------------- MODULE Controller -----------------------------
(***************************************************************************)
(* The endpoints controller (SLOPSController/cmd/main.go): an informer     *)
(* mirrors the cluster's Endpoints objects and queues the key of each that *)
(* changes; one worker takes keys off the work queue and copies the        *)
(* addresses into ep_map, which fetchSvc serves to the gateway.            *)
(*                                                                         *)
(* Informer, work queue and API server are external: the informer updates  *)
(* its store and then calls the handler; the queue holds a key once, and a *)
(* key added while the worker has it comes back when the worker is done.   *)
(***************************************************************************)
EXTENDS Integers, Sequences, FiniteSets

CONSTANTS
    Namespace, Name,  \* what Endpoints objects are called by
    Addresses,        \* the address lists an object may have
    Absent,           \* no such object; no such entry
    MaxRetries,       \* 5 in handleError
    MaxChanges,       \* bound: changes of the cluster
    MaxErrors,        \* bound: failing reads of the store
    MaxCrashes        \* bound: restarts

ASSUME AbsentAssumption == Absent \notin Addresses
ASSUME BoundAssumption == {MaxRetries, MaxChanges, MaxErrors, MaxCrashes} \subseteq Nat

Object == Namespace \X Name          \* the key "namespace/name"
NameOf(o) == o[2]                    \* GetName()
NoKey == <<>>

ASSUME NameAssumption == Name \cap Object = {}   \* a name has no "/"

VARIABLES
    indexer,   \* the informer's store
    notify,    \* the object whose handler the informer is about to call
    queue,     \* the work queue
    dirty,     \* keys to be processed: those in the queue, or to be put back
    waiting,   \* keys waiting for their rate-limited retry
    requeues,  \* NumRequeues
    pc,        \* where the worker is
    key,       \* the key it has
    obj,       \* what GetByKey returned
    ep_map,    \* what fetchSvc serves
    dropped,   \* history: keys handleError gave up on, and not synced since
    writer,    \* history: the object a name's entry was last set from
    changes, errors, crashes

informerVars == <<indexer, notify, changes>>
queueVars    == <<queue, dirty, waiting, requeues, dropped>>
workerVars   == <<pc, key, obj>>
tableVars    == <<ep_map, writer>>
boundVars    == <<errors, crashes>>
vars == <<informerVars, queueVars, workerVars, tableVars, boundVars>>

Init ==
    /\ indexer = [o \in Object |-> Absent] /\ notify = NoKey
    /\ queue = <<>> /\ dirty = {} /\ waiting = {} /\ dropped = {}
    /\ requeues = [o \in Object |-> 0]
    /\ pc = "get" /\ key = NoKey /\ obj = Absent
    /\ ep_map = [e \in Name \cup Object |-> Absent] /\ writer = [n \in Name |-> NoKey]
    /\ changes = 0 /\ errors = 0 /\ crashes = 0

-----------------------------------------------------------------------------
(* Informer and queue.                                                     *)

\* An object is added, updated or deleted.
Change(o) ==
    /\ notify = NoKey
    /\ changes < MaxChanges
    /\ \E v \in (Addresses \cup {Absent}) \ {indexer[o]} : indexer' = [indexer EXCEPT ![o] = v]
    /\ notify' = o
    /\ changes' = changes + 1
    /\ UNCHANGED <<queueVars, workerVars, tableVars, boundVars>>

Add(o) ==
    /\ dirty' = dirty \cup {o}
    /\ queue' = IF o \in dirty \/ o = key THEN queue ELSE Append(queue, o)

\* Mutant: what the worker has is not queued again.
HandlerSkipsKey ==
    /\ notify # NoKey
    /\ IF notify = key THEN UNCHANGED <<queue, dirty>> ELSE Add(notify)
    /\ notify' = NoKey
    /\ UNCHANGED <<indexer, changes, waiting, requeues, dropped, workerVars, tableVars, boundVars>>

\* AddFunc, UpdateFunc and DeleteFunc: queue.Add(key).
Handler ==
    /\ notify # NoKey
    /\ Add(notify)
    /\ notify' = NoKey
    /\ UNCHANGED <<indexer, changes, waiting, requeues, dropped, workerVars, tableVars, boundVars>>

\* The rate limiter lets a key go.
Retry(o) ==
    /\ o \in waiting
    /\ Add(o)
    /\ waiting' = waiting \ {o}
    /\ UNCHANGED <<informerVars, requeues, dropped, workerVars, tableVars, boundVars>>

-----------------------------------------------------------------------------
(* ProcessNextItem, by the one worker.                                     *)

Get ==
    /\ pc = "get"
    /\ queue # <<>>
    /\ key' = Head(queue)
    /\ queue' = Tail(queue)
    /\ dirty' = dirty \ {key'}
    /\ pc' = "read"
    /\ UNCHANGED <<informerVars, waiting, requeues, dropped, obj, tableVars, boundVars>>

\* syncToStdOut reads the store.
GetByKey ==
    /\ pc = "read"
    /\ obj' = indexer[key]
    /\ pc' = "write"
    /\ UNCHANGED <<informerVars, queueVars, key, tableVars, boundVars>>

\* The error the code is prepared for.
GetByKeyFails ==
    /\ pc = "read"
    /\ errors < MaxErrors
    /\ errors' = errors + 1
    /\ pc' = "failed"
    /\ UNCHANGED <<informerVars, queueVars, key, obj, tableVars, crashes>>

\* Mutant: Done forgets what became dirty meanwhile.
DoneOnly == UNCHANGED queue /\ pc' = "get" /\ key' = NoKey /\ obj' = Absent

\* Done: a key that became dirty meanwhile goes back to the queue.
Done ==
    /\ queue' = IF key \in dirty THEN Append(queue, key) ELSE queue
    /\ pc' = "get" /\ key' = NoKey /\ obj' = Absent

\* The entry is deleted under the key, or set under the name; handleError
\* forgets the key.
Write ==
    /\ pc = "write"
    /\ IF obj = Absent
       THEN ep_map' = [ep_map EXCEPT ![key] = Absent] /\ UNCHANGED writer
       ELSE /\ ep_map' = [ep_map EXCEPT ![NameOf(key)] = obj]
            /\ writer' = [writer EXCEPT ![NameOf(key)] = key]
    /\ requeues' = [requeues EXCEPT ![key] = 0]
    /\ dropped' = dropped \ {key}
    /\ Done
    /\ UNCHANGED <<informerVars, dirty, waiting, boundVars>>

\* Mutant: one retry too many.
HandleErrorOnceMore ==
    /\ pc = "failed"
    /\ IF requeues[key] <= MaxRetries
       THEN /\ requeues' = [requeues EXCEPT ![key] = @ + 1]
            /\ waiting' = waiting \cup {key}
            /\ UNCHANGED dropped
       ELSE /\ requeues' = [requeues EXCEPT ![key] = 0]
            /\ dropped' = dropped \cup {key}
            /\ UNCHANGED waiting
    /\ Done
    /\ UNCHANGED <<informerVars, dirty, tableVars, boundVars>>

\* handleError with an error: a retry later, or none.
HandleError ==
    /\ pc = "failed"
    /\ IF requeues[key] < MaxRetries
       THEN /\ requeues' = [requeues EXCEPT ![key] = @ + 1]
            /\ waiting' = waiting \cup {key}
            /\ UNCHANGED dropped
       ELSE /\ requeues' = [requeues EXCEPT ![key] = 0]
            /\ dropped' = dropped \cup {key}
            /\ UNCHANGED waiting
    /\ Done
    /\ UNCHANGED <<informerVars, dirty, tableVars, boundVars>>

\* The process is restarted, for one because a request reads ep_map while the
\* worker writes it: everything is built anew from the cluster.
Restart ==
    /\ crashes < MaxCrashes
    /\ crashes' = crashes + 1
    /\ notify' = NoKey
    /\ dirty' = {o \in Object : indexer[o] # Absent}
    /\ queue' \in {q \in [1 .. Cardinality(dirty') -> dirty'] : \A i, j \in DOMAIN q : q[i] = q[j] => i = j}
    /\ waiting' = {} /\ dropped' = {}
    /\ requeues' = [o \in Object |-> 0]
    /\ pc' = "get" /\ key' = NoKey /\ obj' = Absent
    /\ ep_map' = [e \in Name \cup Object |-> Absent] /\ writer' = [n \in Name |-> NoKey]
    /\ UNCHANGED <<indexer, changes, errors>>

Work == Handler \/ (\E o \in Object : Retry(o)) \/ Get \/ GetByKey \/ Write \/ HandleError

Next ==
    \/ \E o \in Object : Change(o)
    \/ Work
    \/ GetByKeyFails
    \/ Restart

\* Informer, rate limiter and worker keep running.
Spec == Init /\ [][Next]_vars /\ WF_vars(Work)

-----------------------------------------------------------------------------
(* Properties.                                                             *)

\* Type invariant.
TypeOK ==
    /\ indexer \in [Object -> Addresses \cup {Absent}]
    /\ notify \in Object \cup {NoKey} /\ key \in Object \cup {NoKey}
    /\ queue \in Seq(Object)
    /\ {dirty, waiting, dropped} \subseteq SUBSET Object
    /\ requeues \in [Object -> 0 .. MaxRetries]
    /\ pc \in {"get", "read", "write", "failed"}
    /\ obj \in Addresses \cup {Absent}
    /\ ep_map \in [Name \cup Object -> Addresses \cup {Absent}]
    /\ writer \in [Name -> Object \cup {NoKey}]

\* The key is queued, being worked on, or on its way to the queue.
UnderWay(o) == o \in dirty \cup waiting \cup {notify, key}

\* What fetchSvc serves for the object's name is what the object has now, unless
\* another object of that name, in another namespace, was written there last.
Shown(o) == ep_map[NameOf(o)] = indexer[o] \/ writer[NameOf(o)] \notin {o, NoKey}

\* An object that exists is shown unless it is under way or was given up on: a
\* change between GetByKey and the write into ep_map, or while a key waits for its
\* retry, is never overlooked.
StaleIsUnderWay ==
    \A o \in Object : indexer[o] # Absent => Shown(o) \/ UnderWay(o) \/ o \in dropped

\* When queue, rate limiter, informer and worker have nothing left to do, every
\* object that exists is shown, except for those given up on: what is dirty is
\* really in the queue.
AtRest == pc = "get" /\ queue = <<>> /\ waiting = {} /\ notify = NoKey
RestIsCurrent ==
    AtRest => \A o \in Object : indexer[o] # Absent => Shown(o) \/ o \in dropped

\* When the cluster stops changing, the table comes to show every object that
\* exists, except for those given up on.
Converges ==
    \A o \in Object : <>[](indexer[o] # Absent => Shown(o) \/ o \in dropped)

\* "Endpoint %s does not exist anymore": then it is not served either, once the
\* worker has nothing left to do.
GoneIsNotServed ==
    (pc = "get" /\ dirty \cup waiting \cup dropped = {} /\ notify = NoKey) =>
        \A n \in Name : (\A o \in Object : NameOf(o) = n => indexer[o] = Absent) => ep_map[n] = Absent

=============================================================================
