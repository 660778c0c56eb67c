-------------------------- MODULE ControllerProofs --------------------------
(***************************************************************************)
(* The controller's table fails to show an object that exists only while   *)
(* something will still mend it, and shows all but those given up on when  *)
(* nothing is left to do: for any objects, changes, errors, retries and    *)
(* restarts.                                                               *)
(***************************************************************************)
EXTENDS Controller, FiniteSetTheorems, SequenceTheorems, TLAPS

Existing == {o \in Object : indexer[o] # Absent}

\* The worker has a key from Get to Done, and what it read of it is what the
\* store has, or the key will come back.
Worker ==
    /\ (pc = "get") <=> (key = NoKey)
    /\ pc = "write" => obj = indexer[key] \/ key \in dirty \cup {notify}

\* A dirty key is in the queue, or Done puts it there; the queue holds dirty
\* keys only, each once, and never the one that is worked on.
Queued ==
    /\ \A o \in dirty : o = key \/ \E i \in DOMAIN queue : queue[i] = o
    /\ \A i \in DOMAIN queue : queue[i] \in dirty /\ queue[i] # key
    /\ \A i, j \in DOMAIN queue : queue[i] = queue[j] => i = j

ControllerInv ==
    /\ TypeOK /\ Worker /\ Queued
    /\ IsFiniteSet(Existing)
    /\ StaleIsUnderWay

-----------------------------------------------------------------------------
(* Lemmas.                                                                 *)

LEMMA KeysAreNot == NoKey \notin Object
<1>1. ASSUME NEW o \in Object PROVE o # NoKey
  <2>1. Len(o) = 2
    BY DEF Object
  <2>2. Len(NoKey) = 0
    BY DEF NoKey
  <2> QED BY <2>1, <2>2
<1> QED BY <1>1

LEMMA Names == \A o \in Object : NameOf(o) \in Name /\ o \notin Name
BY NameAssumption DEF Object, NameOf

LEMMA Appended ==
    ASSUME NEW S, NEW q \in Seq(S), NEW o \in S, \A i \in DOMAIN q : q[i] # o,
           \A i, j \in DOMAIN q : q[i] = q[j] => i = j
    PROVE  /\ Append(q, o) \in Seq(S)
           /\ \E i \in DOMAIN Append(q, o) : Append(q, o)[i] = o
           /\ \A i \in DOMAIN q : i \in DOMAIN Append(q, o) /\ Append(q, o)[i] = q[i]
           /\ \A i \in DOMAIN Append(q, o) : Append(q, o)[i] = o \/ (i \in DOMAIN q /\ Append(q, o)[i] = q[i])
           /\ \A i, j \in DOMAIN Append(q, o) : Append(q, o)[i] = Append(q, o)[j] => i = j
<1>1. /\ Append(q, o) \in Seq(S) /\ DOMAIN Append(q, o) = 1 .. Len(q) + 1
      /\ Append(q, o)[Len(q) + 1] = o
      /\ \A i \in 1 .. Len(q) : Append(q, o)[i] = q[i]
      /\ DOMAIN q = 1 .. Len(q) /\ Len(q) \in Nat
  BY AppendProperties, LenProperties
<1>2. \A i \in DOMAIN Append(q, o) : i \in DOMAIN q \/ i = Len(q) + 1
  BY <1>1
<1> QED BY <1>1, <1>2

LEMMA HeadOff ==
    ASSUME NEW S, NEW q \in Seq(S), q # <<>>, \A i, j \in DOMAIN q : q[i] = q[j] => i = j
    PROVE  /\ Head(q) \in S /\ Tail(q) \in Seq(S)
           /\ \E i \in DOMAIN q : q[i] = Head(q)
           /\ \A i \in DOMAIN q : q[i] = Head(q) \/ \E j \in DOMAIN Tail(q) : Tail(q)[j] = q[i]
           /\ \A j \in DOMAIN Tail(q) : Tail(q)[j] # Head(q) /\ \E i \in DOMAIN q : Tail(q)[j] = q[i]
           /\ \A i, j \in DOMAIN Tail(q) : Tail(q)[i] = Tail(q)[j] => i = j
<1>1. /\ DOMAIN q = 1 .. Len(q) /\ Len(q) \in Nat /\ Len(q) > 0 /\ Head(q) = q[1]
      /\ Head(q) \in S /\ Tail(q) \in Seq(S) /\ DOMAIN Tail(q) = 1 .. Len(q) - 1
      /\ \A j \in 1 .. Len(q) - 1 : Tail(q)[j] = q[j + 1]
  BY HeadTailProperties, LenProperties, EmptySeq
<1>2. ASSUME NEW i \in DOMAIN q, i # 1 PROVE i - 1 \in DOMAIN Tail(q) /\ Tail(q)[i - 1] = q[i]
  BY <1>1, <1>2
<1>3. ASSUME NEW j \in DOMAIN Tail(q) PROVE j + 1 \in DOMAIN q /\ j + 1 # 1 /\ Tail(q)[j] = q[j + 1]
  BY <1>1
<1>4. 1 \in DOMAIN q
  BY <1>1
<1>5. \A i, j \in DOMAIN Tail(q) : i + 1 = j + 1 => i = j
  BY <1>1
<1>6. \A i, j \in DOMAIN Tail(q) : Tail(q)[i] = Tail(q)[j] => i = j
  BY <1>3, <1>5
<1>7. \A j \in DOMAIN Tail(q) : Tail(q)[j] # Head(q) /\ \E i \in DOMAIN q : Tail(q)[j] = q[i]
  BY <1>1, <1>3, <1>4
<1>8. \A i \in DOMAIN q : q[i] = Head(q) \/ \E j \in DOMAIN Tail(q) : Tail(q)[j] = q[i]
  BY <1>1, <1>2
<1> QED BY <1>1, <1>4, <1>6, <1>7, <1>8

\* A key that is not queued is put into the queue.
LEMMA Enqueued ==
    ASSUME NEW o \in Object, queue \in Seq(Object), queue' = Append(queue, o), Queued,
           \A i \in DOMAIN queue : queue[i] # o
    PROVE  /\ queue' \in Seq(Object)
           /\ \A h \in dirty \cup {o} : h = key \/ \E i \in DOMAIN queue' : queue'[i] = h
           /\ \A i \in DOMAIN queue' : queue'[i] = o \/ (queue'[i] \in dirty /\ queue'[i] # key)
           /\ \A i, j \in DOMAIN queue' : queue'[i] = queue'[j] => i = j
<1>1. \A i, j \in DOMAIN queue : queue[i] = queue[j] => i = j
  BY DEF Queued
<1>2. /\ queue' \in Seq(Object)
      /\ \E i \in DOMAIN queue' : queue'[i] = o
      /\ \A i \in DOMAIN queue : i \in DOMAIN queue' /\ queue'[i] = queue[i]
      /\ \A i \in DOMAIN queue' : queue'[i] = o \/ (i \in DOMAIN queue /\ queue'[i] = queue[i])
      /\ \A i, j \in DOMAIN queue' : queue'[i] = queue'[j] => i = j
  BY <1>1, Appended
<1> QED BY <1>2 DEF Queued

\* A key is added: what was dirty or queued stays.
LEMMA Added ==
    ASSUME TypeOK, Queued, NEW o \in Object, Add(o), UNCHANGED key
    PROVE  /\ queue' \in Seq(Object) /\ dirty' = dirty \cup {o} /\ dirty' \in SUBSET Object
           /\ Queued'
<1>1. queue \in Seq(Object) /\ dirty' = dirty \cup {o} /\ dirty' \in SUBSET Object
  BY DEF TypeOK, Add
<1>2. CASE o \in dirty \/ o = key
  BY <1>1, <1>2 DEF Add, Queued
<1>3. CASE ~(o \in dirty \/ o = key)
  <2>1. queue' = Append(queue, o)
    BY <1>3 DEF Add
  <2>2. \A i \in DOMAIN queue : queue[i] # o
    BY <1>3 DEF Queued
  <2>3. /\ queue' \in Seq(Object)
        /\ \A h \in dirty \cup {o} : h = key \/ \E i \in DOMAIN queue' : queue'[i] = h
        /\ \A i \in DOMAIN queue' : queue'[i] = o \/ (queue'[i] \in dirty /\ queue'[i] # key)
        /\ \A i, j \in DOMAIN queue' : queue'[i] = queue'[j] => i = j
    BY <1>1, <2>1, <2>2, Enqueued
  <2> QED BY <1>1, <1>3, <2>3 DEF Queued
<1> QED BY <1>1, <1>2, <1>3

\* The worker is done with its key.
LEMMA DoneQueues ==
    ASSUME TypeOK, Queued, key \in Object, Done, UNCHANGED dirty
    PROVE  queue' \in Seq(Object) /\ Queued'
<1>1. queue \in Seq(Object) /\ key' = NoKey
  BY DEF TypeOK, Done
<1>2. CASE key \in dirty
  <2>1. queue' = Append(queue, key)
    BY <1>2 DEF Done
  <2>2. \A i \in DOMAIN queue : queue[i] # key
    BY DEF Queued
  <2>3. /\ queue' \in Seq(Object)
        /\ \A h \in dirty : h = key \/ \E i \in DOMAIN queue' : queue'[i] = h
        /\ \A i \in DOMAIN queue' : queue'[i] = key \/ queue'[i] \in dirty
        /\ \A i, j \in DOMAIN queue' : queue'[i] = queue'[j] => i = j
    BY <1>1, <2>1, <2>2, Enqueued
  <2>4. \E i \in DOMAIN queue' : queue'[i] = key
    <3>1. DOMAIN queue' = 1 .. Len(queue) + 1 /\ Len(queue) \in Nat /\ queue'[Len(queue) + 1] = key
      BY <1>1, <2>1, AppendProperties, LenProperties
    <3> QED BY <3>1
  <2>5. \A o \in dirty : o \in Object
    BY DEF TypeOK
  <2> QED BY <1>1, <1>2, <2>3, <2>4, <2>5, KeysAreNot DEF Queued
<1>3. CASE key \notin dirty
  <2>1. queue' = queue
    BY <1>3 DEF Done
  <2>2. \A i \in DOMAIN queue : queue[i] # NoKey
    <3>1. \A i \in DOMAIN queue : queue[i] \in Object
      BY <1>1
    <3> QED BY <3>1, KeysAreNot
  <2> QED BY <1>1, <1>3, <2>1, <2>2 DEF Queued
<1> QED BY <1>2, <1>3

-----------------------------------------------------------------------------
(* The steps.                                                              *)

LEMMA ControllerInitially == Init => ControllerInv
<1> SUFFICES ASSUME Init PROVE ControllerInv
  OBVIOUS
<1>1. TypeOK
  BY BoundAssumption DEF Init, TypeOK
<1>2. Existing = {} /\ IsFiniteSet(Existing)
  BY FS_EmptySet DEF Init, Existing
<1>3. StaleIsUnderWay
  BY DEF Init, StaleIsUnderWay
<1> QED BY <1>1, <1>2, <1>3 DEF Init, ControllerInv, Worker, Queued

LEMMA ChangeKeeps ==
    ASSUME ControllerInv, NEW o \in Object, Change(o)
    PROVE  ControllerInv'
<1>1. PICK v \in Addresses \cup {Absent} : indexer' = [indexer EXCEPT ![o] = v]
  BY DEF Change
<1>2. /\ notify = NoKey /\ notify' = o
      /\ UNCHANGED <<queue, dirty, waiting, requeues, dropped, pc, key, obj, ep_map, writer>>
  BY DEF Change, queueVars, workerVars, tableVars
<1>3. indexer' \in [Object -> Addresses \cup {Absent}] /\ \A h \in Object : h # o => indexer'[h] = indexer[h]
  BY <1>1 DEF ControllerInv, TypeOK
<1>4. TypeOK'
  BY <1>2, <1>3 DEF ControllerInv, TypeOK
<1>5. Worker' /\ Queued'
  BY <1>2, <1>3 DEF ControllerInv, TypeOK, Worker, Queued
<1>6. IsFiniteSet(Existing')
  <2>1. Existing' \subseteq Existing \cup {o}
    BY <1>3 DEF Existing
  <2> QED BY <2>1, FS_AddElement, FS_Subset DEF ControllerInv
<1>7. StaleIsUnderWay'
  <2> SUFFICES ASSUME NEW h \in Object, indexer'[h] # Absent
               PROVE  Shown(h)' \/ UnderWay(h)' \/ h \in dropped'
    BY DEF StaleIsUnderWay
  <2>1. CASE h = o
    BY <1>2, <2>1 DEF UnderWay
  <2>2. CASE h # o
    <3>1. Shown(h) \/ UnderWay(h) \/ h \in dropped
      BY <1>3, <2>2 DEF ControllerInv, StaleIsUnderWay
    <3> QED BY <1>2, <1>3, <2>2, <3>1, KeysAreNot DEF Shown, UnderWay
  <2> QED BY <2>1, <2>2
<1> QED BY <1>4, <1>5, <1>6, <1>7 DEF ControllerInv

\* Nothing is overlooked in a step that takes nothing from the table or the
\* store, and keeps under way what was.
LEMMA StaleKept ==
    ASSUME StaleIsUnderWay, UNCHANGED <<indexer, ep_map, writer, dropped>>,
           \A o \in Object : UnderWay(o) => UnderWay(o)'
    PROVE  StaleIsUnderWay'
BY DEF StaleIsUnderWay, Shown

LEMMA HandlerKeeps ==
    ASSUME ControllerInv, Handler
    PROVE  ControllerInv'
<1>1. /\ notify \in Object /\ notify' = NoKey /\ Add(notify)
      /\ UNCHANGED <<indexer, waiting, requeues, dropped, pc, key, obj, ep_map, writer>>
  BY DEF Handler, workerVars, tableVars, ControllerInv, TypeOK
<1>2. queue' \in Seq(Object) /\ dirty' = dirty \cup {notify} /\ dirty' \in SUBSET Object /\ Queued'
  BY <1>1, Added DEF ControllerInv
<1>3. TypeOK'
  BY <1>1, <1>2 DEF ControllerInv, TypeOK
<1>4. Worker'
  BY <1>1, <1>2 DEF ControllerInv, Worker
<1>5. \A o \in Object : UnderWay(o)' <=> UnderWay(o)
  BY <1>1, <1>2, KeysAreNot DEF UnderWay
<1>6. StaleIsUnderWay'
  BY <1>1, <1>5, StaleKept DEF ControllerInv
<1> QED BY <1>1, <1>2, <1>3, <1>4, <1>6 DEF ControllerInv, Existing

LEMMA RetryKeeps ==
    ASSUME ControllerInv, NEW o \in Object, Retry(o)
    PROVE  ControllerInv'
<1>1. /\ o \in waiting /\ waiting' = waiting \ {o} /\ Add(o)
      /\ UNCHANGED <<indexer, notify, requeues, dropped, pc, key, obj, ep_map, writer>>
  BY DEF Retry, informerVars, workerVars, tableVars
<1>2. queue' \in Seq(Object) /\ dirty' = dirty \cup {o} /\ dirty' \in SUBSET Object /\ Queued'
  BY <1>1, Added DEF ControllerInv
<1>3. TypeOK'
  BY <1>1, <1>2 DEF ControllerInv, TypeOK
<1>4. Worker'
  BY <1>1, <1>2 DEF ControllerInv, Worker
<1>5. \A h \in Object : UnderWay(h)' <=> UnderWay(h)
  BY <1>1, <1>2 DEF UnderWay
<1>6. StaleIsUnderWay'
  BY <1>1, <1>5, StaleKept DEF ControllerInv
<1> QED BY <1>1, <1>2, <1>3, <1>4, <1>6 DEF ControllerInv, Existing

LEMMA GetKeeps ==
    ASSUME ControllerInv, Get
    PROVE  ControllerInv'
<1>1. /\ pc = "get" /\ key = NoKey /\ pc' = "read" /\ queue \in Seq(Object) /\ queue # <<>>
      /\ key' = Head(queue) /\ queue' = Tail(queue) /\ dirty' = dirty \ {key'}
      /\ UNCHANGED <<indexer, notify, waiting, requeues, dropped, obj, ep_map, writer>>
  BY DEF Get, informerVars, tableVars, ControllerInv, TypeOK, Worker
<1>2. key' \in Object /\ queue' \in Seq(Object)
  BY <1>1, HeadOff
<1>3. TypeOK'
  BY <1>1, <1>2 DEF ControllerInv, TypeOK
<1>4. Worker'
  <2>1. key' # NoKey
    BY <1>2, KeysAreNot
  <2> QED BY <1>1, <2>1 DEF Worker
<1>5. /\ \E i \in DOMAIN queue : queue[i] = key'
      /\ \A i \in DOMAIN queue : queue[i] = key' \/ \E j \in DOMAIN queue' : queue'[j] = queue[i]
      /\ \A j \in DOMAIN queue' : queue'[j] # key' /\ \E i \in DOMAIN queue : queue'[j] = queue[i]
      /\ \A i, j \in DOMAIN queue' : queue'[i] = queue'[j] => i = j
  <2>1. queue \in Seq(Object) /\ queue # <<>> /\ \A i, j \in DOMAIN queue : queue[i] = queue[j] => i = j
    BY <1>1 DEF ControllerInv, Queued
  <2>2. /\ \E i \in DOMAIN queue : queue[i] = Head(queue)
        /\ \A i \in DOMAIN queue : queue[i] = Head(queue) \/ \E j \in DOMAIN Tail(queue) : Tail(queue)[j] = queue[i]
        /\ \A j \in DOMAIN Tail(queue) : /\ Tail(queue)[j] # Head(queue)
                                        /\ \E i \in DOMAIN queue : Tail(queue)[j] = queue[i]
        /\ \A i, j \in DOMAIN Tail(queue) : Tail(queue)[i] = Tail(queue)[j] => i = j
    BY <2>1, HeadOff, ZenonT(30)
  <2>3. key' = Head(queue) /\ queue' = Tail(queue)
    BY <1>1
  <2> QED BY <2>2, <2>3, ZenonT(30)
<1>6. key' \in dirty
  BY <1>5 DEF ControllerInv, Queued
<1>7. Queued'
  <2>1. \A o \in dirty : \E i \in DOMAIN queue : queue[i] = o
    BY <1>1, KeysAreNot DEF ControllerInv, Queued, TypeOK
  <2> QED BY <1>1, <1>5, <2>1 DEF ControllerInv, Queued
<1>8. \A o \in Object : UnderWay(o)' <=> UnderWay(o)
  BY <1>1, <1>6, KeysAreNot DEF UnderWay
<1>9. StaleIsUnderWay'
  BY <1>1, <1>8, StaleKept DEF ControllerInv
<1> QED BY <1>1, <1>3, <1>4, <1>7, <1>9 DEF ControllerInv, Existing

LEMMA ReadKeeps ==
    ASSUME ControllerInv, GetByKey \/ GetByKeyFails
    PROVE  ControllerInv'
<1>1. /\ pc = "read" /\ UNCHANGED <<indexer, notify, queue, dirty, waiting, requeues, dropped, key, ep_map, writer>>
      /\ (pc' = "write" /\ obj' = indexer[key]) \/ (pc' = "failed" /\ obj' = obj)
  BY DEF GetByKey, GetByKeyFails, informerVars, queueVars, tableVars
<1>2. key \in Object
  BY <1>1 DEF ControllerInv, TypeOK, Worker
<1>3. TypeOK'
  BY <1>1, <1>2 DEF ControllerInv, TypeOK
<1>4. Worker' /\ Queued'
  BY <1>1 DEF ControllerInv, Worker, Queued
<1>5. \A o \in Object : UnderWay(o)' <=> UnderWay(o)
  BY <1>1 DEF UnderWay
<1>6. StaleIsUnderWay'
  BY <1>1, <1>5, StaleKept DEF ControllerInv
<1> QED BY <1>1, <1>3, <1>4, <1>6 DEF ControllerInv, Existing

LEMMA WriteKeeps ==
    ASSUME ControllerInv, Write
    PROVE  ControllerInv'
<1>1. /\ pc = "write" /\ Done /\ dropped' = dropped \ {key}
      /\ \/ obj = Absent /\ ep_map' = [ep_map EXCEPT ![key] = Absent] /\ writer' = writer
         \/ /\ obj # Absent /\ ep_map' = [ep_map EXCEPT ![NameOf(key)] = obj]
            /\ writer' = [writer EXCEPT ![NameOf(key)] = key]
      /\ requeues' = [requeues EXCEPT ![key] = 0]
      /\ UNCHANGED <<indexer, notify, dirty, waiting>>
  BY DEF Write, informerVars
<1>2. key \in Object /\ NameOf(key) \in Name /\ key \notin Name
  BY <1>1, Names DEF ControllerInv, TypeOK, Worker
<1>3. queue' \in Seq(Object) /\ Queued' /\ pc' = "get" /\ key' = NoKey /\ obj' = Absent
  BY <1>1, <1>2, DoneQueues DEF ControllerInv, Done
<1>4. TypeOK'
  <2>1. requeues' \in [Object -> 0 .. MaxRetries]
    <3>1. 0 \in 0 .. MaxRetries /\ requeues \in [Object -> 0 .. MaxRetries]
      BY BoundAssumption DEF ControllerInv, TypeOK
    <3> QED BY <1>1, <3>1
  <2>2. ep_map' \in [Name \cup Object -> Addresses \cup {Absent}]
    BY <1>1, <1>2 DEF ControllerInv, TypeOK
  <2>3. writer' \in [Name -> Object \cup {NoKey}]
    BY <1>1, <1>2 DEF ControllerInv, TypeOK
  <2> QED BY <1>1, <1>3, <2>1, <2>2, <2>3 DEF ControllerInv, TypeOK
<1>5. Worker'
  BY <1>1, <1>3 DEF ControllerInv, Worker
<1>6. StaleIsUnderWay'
  <2> SUFFICES ASSUME NEW h \in Object, indexer[h] # Absent
               PROVE  Shown(h)' \/ UnderWay(h)' \/ h \in dropped'
    BY <1>1 DEF StaleIsUnderWay
  <2>0. h # NoKey /\ key # NoKey /\ NameOf(h) \in Name /\ NameOf(h) # key
    BY <1>2, KeysAreNot, Names
  <2>1. CASE h = key /\ key \in dirty \cup {notify}
    BY <1>1, <2>1 DEF UnderWay
  <2>2. CASE h = key /\ key \notin dirty \cup {notify}
    <3>1. obj = indexer[key] /\ obj # Absent
      BY <1>1, <2>2 DEF ControllerInv, Worker
    <3>2. ep_map'[NameOf(key)] = indexer'[key]
      BY <1>1, <1>2, <3>1 DEF ControllerInv, TypeOK
    <3> QED BY <2>2, <3>2 DEF Shown
  <2>3. CASE h # key
    <3>1. UnderWay(h) => UnderWay(h)'
      BY <1>1, <2>3 DEF UnderWay
    <3>2. Shown(h) => Shown(h)'
      <4>1. CASE writer'[NameOf(h)] = key
        BY <2>0, <2>3, <4>1 DEF Shown
      <4>2. CASE writer'[NameOf(h)] # key
        <5>1. writer'[NameOf(h)] = writer[NameOf(h)] /\ ep_map'[NameOf(h)] = ep_map[NameOf(h)]
          BY <1>1, <1>2, <2>0, <4>2 DEF ControllerInv, TypeOK
        <5> QED BY <1>1, <5>1 DEF Shown
      <4> QED BY <4>1, <4>2
    <3> QED BY <1>1, <2>3, <3>1, <3>2 DEF ControllerInv, StaleIsUnderWay
  <2> QED BY <2>1, <2>2, <2>3
<1> QED BY <1>1, <1>3, <1>4, <1>5, <1>6 DEF ControllerInv, Existing

LEMMA HandleErrorKeeps ==
    ASSUME ControllerInv, HandleError
    PROVE  ControllerInv'
<1>1. /\ pc = "failed" /\ Done /\ UNCHANGED <<indexer, notify, dirty, ep_map, writer>>
  BY DEF HandleError, informerVars, tableVars
<1>2. key \in Object
  BY <1>1 DEF ControllerInv, TypeOK, Worker
<1>3. queue' \in Seq(Object) /\ Queued' /\ pc' = "get" /\ key' = NoKey /\ obj' = Absent
  BY <1>1, <1>2, DoneQueues DEF ControllerInv, Done
<1>4. \/ /\ requeues' = [requeues EXCEPT ![key] = requeues[key] + 1] /\ requeues[key] < MaxRetries
         /\ waiting' = waiting \cup {key} /\ dropped' = dropped
      \/ /\ requeues' = [requeues EXCEPT ![key] = 0]
         /\ waiting' = waiting /\ dropped' = dropped \cup {key}
  BY DEF HandleError
<1>5. TypeOK'
  <2>1. requeues' \in [Object -> 0 .. MaxRetries]
    <3>1. MaxRetries \in Nat /\ requeues \in [Object -> 0 .. MaxRetries]
      BY BoundAssumption DEF ControllerInv, TypeOK
    <3>2. 0 \in 0 .. MaxRetries /\ requeues[key] \in 0 .. MaxRetries
      BY <1>2, <3>1
    <3>3. requeues[key] < MaxRetries => requeues[key] + 1 \in 0 .. MaxRetries
      BY <3>1, <3>2
    <3> QED BY <1>2, <1>4, <3>1, <3>2, <3>3
  <2> QED BY <1>1, <1>2, <1>3, <1>4, <2>1 DEF ControllerInv, TypeOK
<1>6. Worker'
  BY <1>1, <1>3 DEF ControllerInv, Worker
<1>7. StaleIsUnderWay'
  <2>1. ASSUME NEW h \in Object, UnderWay(h) \/ h \in dropped
        PROVE  UnderWay(h)' \/ h \in dropped'
    BY <1>1, <1>4, <2>1 DEF UnderWay
  <2> QED BY <1>1, <2>1 DEF ControllerInv, StaleIsUnderWay, Shown
<1> QED BY <1>1, <1>3, <1>5, <1>6, <1>7 DEF ControllerInv, Existing

LEMMA RestartKeeps ==
    ASSUME ControllerInv, Restart
    PROVE  ControllerInv'
<1>1. /\ indexer' = indexer /\ notify' = NoKey /\ dirty' = Existing
      /\ queue' \in {q \in [1 .. Cardinality(Existing) -> Existing] : \A i, j \in DOMAIN q : q[i] = q[j] => i = j}
      /\ waiting' = {} /\ dropped' = {} /\ requeues' = [o \in Object |-> 0]
      /\ pc' = "get" /\ key' = NoKey /\ obj' = Absent /\ ep_map' = [e \in Name \cup Object |-> Absent]
      /\ writer' = [n \in Name |-> NoKey]
  BY DEF Restart, Existing
<1>2. IsFiniteSet(Existing) /\ Cardinality(Existing) \in Nat /\ Existing \subseteq Object
  BY FS_CardinalityType DEF ControllerInv, Existing
<1>3. queue' \in Seq(Object) /\ DOMAIN queue' = 1 .. Cardinality(Existing)
  BY <1>1, <1>2
<1>4. TypeOK'
  BY <1>1, <1>2, <1>3, BoundAssumption DEF ControllerInv, TypeOK
<1>5. Queued'
  <2>1. \A o \in Existing : \E i \in DOMAIN queue' : queue'[i] = o
    <3>1. queue' \in Injection(1 .. Cardinality(Existing), Existing)
      BY <1>1 DEF Injection, IsInjective
    <3>2. Cardinality(1 .. Cardinality(Existing)) = Cardinality(Existing)
      BY <1>2, FS_Interval
    <3>3. queue' \in Surjection(1 .. Cardinality(Existing), Existing)
      BY <1>2, <3>1, <3>2, FS_Injection
    <3> QED BY <1>3, <3>3 DEF Surjection
  <2> QED BY <1>1, <1>2, <2>1, KeysAreNot DEF Queued
<1>6. Worker'
  BY <1>1 DEF Worker
<1>7. StaleIsUnderWay'
  BY <1>1 DEF StaleIsUnderWay, UnderWay, Existing
<1> QED BY <1>1, <1>2, <1>4, <1>5, <1>6, <1>7 DEF ControllerInv, Existing

LEMMA StutterKeeps ==
    ASSUME ControllerInv, UNCHANGED vars
    PROVE  ControllerInv'
<1>1. UNCHANGED <<indexer, notify, queue, dirty, waiting, requeues, dropped, pc, key, obj, ep_map, writer>>
  BY DEF vars, informerVars, queueVars, workerVars, tableVars
<1>2. TypeOK' /\ Worker' /\ Queued'
  BY <1>1 DEF ControllerInv, TypeOK, Worker, Queued
<1>3. \A o \in Object : UnderWay(o)' <=> UnderWay(o)
  BY <1>1 DEF UnderWay
<1>4. StaleIsUnderWay'
  BY <1>1, <1>3, StaleKept DEF ControllerInv
<1> QED BY <1>1, <1>2, <1>4 DEF ControllerInv, Existing

LEMMA ControllerInductive == Spec => []ControllerInv
<1>1. ControllerInv /\ [Next]_vars => ControllerInv'
  BY ChangeKeeps, HandlerKeeps, RetryKeeps, GetKeeps, ReadKeeps, WriteKeeps, HandleErrorKeeps, RestartKeeps, StutterKeeps
  DEF Next, Work
<1> QED BY <1>1, ControllerInitially, PTL DEF Spec

-----------------------------------------------------------------------------
(* The theorems.                                                           *)

\* Type correctness; in particular no key is retried more than MaxRetries times.
THEOREM ControllerTypes == Spec => []TypeOK
<1>1. ControllerInv => TypeOK
  BY DEF ControllerInv
<1> QED BY <1>1, ControllerInductive, PTL

\* An object that exists is shown under its name, or another of that name was
\* written there last, unless its key is under way or was given up on: a change
\* between GetByKey and the write into ep_map, or while a key waits for its retry,
\* is never overlooked.
THEOREM StaleTheorem == Spec => []StaleIsUnderWay
<1>1. ControllerInv => StaleIsUnderWay
  BY DEF ControllerInv
<1> QED BY <1>1, ControllerInductive, PTL

\* At rest the table shows every object that exists and was not given up on,
\* unless another of its name was written later: what is dirty is really queued.
THEOREM RestTheorem == Spec => []RestIsCurrent
<1>1. ControllerInv => RestIsCurrent
  <2> SUFFICES ASSUME ControllerInv, AtRest
               PROVE  \A o \in Object : indexer[o] # Absent => Shown(o) \/ o \in dropped
    BY DEF RestIsCurrent
  <2>1. key = NoKey /\ notify = NoKey /\ waiting = {} /\ dirty \in SUBSET Object
    BY DEF ControllerInv, Worker, AtRest, TypeOK
  <2>2. dirty = {}
    BY <2>1, KeysAreNot DEF ControllerInv, Queued, AtRest
  <2>3. \A o \in Object : ~UnderWay(o)
    BY <2>1, <2>2, KeysAreNot DEF UnderWay
  <2> QED BY <2>3 DEF ControllerInv, StaleIsUnderWay
<1> QED BY <1>1, ControllerInductive, PTL
=============================================================================
