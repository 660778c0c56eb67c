---------------------------- MODULE SystemProofs ----------------------------
(***************************************************************************)
(* The gateway under any number of requests in flight: type correctness.   *)
(* The gateway with one request at a time, as the client makes them: lists *)
(* and routes.  Client, gateway and producers together: counts.            *)
(***************************************************************************)
EXTENDS System, SequenceTheorems, TLAPS

-----------------------------------------------------------------------------
(* The gateway, whatever is in flight.                                     *)

RequestType ==
    [pc : {"idle", "search", "wrap", "pick", "load", "store", "read", "bump", "post"},
     key : Key \cup {None}, ip : IP \cup {None}, keys : Seq(Key), index : Nat, clean : BOOLEAN]

\* A request under way has a key, from some point on a producer, and stores
\* into a list of the map only; what it noted about the updater stays true.
Proper(r, eps, u) ==
    /\ r \in RequestType
    /\ r.pc # "idle" => r.key \in Key
    /\ r.pc \in {"load", "store", "read", "bump", "post"} => r.ip \in IP
    /\ r.pc = "store" => r.ip \in eps
    /\ r.clean => u = "gone"

GlobalsOK ==
    /\ svc \in Lists /\ epIPs \in Lists
    /\ DOMAIN key2EpMap \subseteq IP
    /\ \A ip \in DOMAIN key2EpMap : key2EpMap[ip] \in Seq(Key)
    /\ curEpIndex \in Nat
    /\ updater \in {"receive", "reset", "gone"} /\ todo \in Seq(IP)
    /\ fetched \in {<<>>, <<NoAnswer>>} \cup {<<eps>> : eps \in Lists}
    /\ routed \in [Key -> IP \cup {None}]

GatewayInv ==
    /\ GlobalsOK
    /\ req \in [Slot -> RequestType]
    /\ \A s \in Slot : Proper(req[s], DOMAIN key2EpMap, updater)

LEMMA TypesFollow == GatewayInv => TypeOK
BY DEF GatewayInv, GlobalsOK, TypeOK, RequestType

LEMMA IdleIsProper ==
    /\ Idle \in RequestType /\ Idle.pc = "idle" /\ ~Idle.clean
    /\ \A eps, u : Proper(Idle, eps, u)
BY DEF Idle, RequestType, Proper

LEMMA ListsAreLists ==
    ASSUME NEW eps \in Lists
    PROVE  eps \in Seq(IP) /\ Range(eps) \subseteq IP
BY ListsAssumption DEF Range

LEMMA NoKeysType ==
    ASSUME NEW eps \in Lists
    PROVE  /\ DOMAIN NoKeys(eps) = Range(eps) /\ Range(eps) \subseteq IP
           /\ \A ip \in DOMAIN NoKeys(eps) : NoKeys(eps)[ip] = <<>> /\ NoKeys(eps)[ip] \in Seq(Key)
BY ListsAreLists DEF NoKeys

LEMMA GatewayInitially == Init => GatewayInv
<1> SUFFICES ASSUME Init PROVE GatewayInv
  OBVIOUS
<1>1. GlobalsOK
  <2>1. svc \in Lists /\ epIPs = svc /\ key2EpMap = NoKeys(svc)
    BY DEF Init
  <2>2. <<>> \in Seq(IP) /\ <<>> \in Seq(Key)
    OBVIOUS
  <2> QED BY <2>1, <2>2, NoKeysType DEF Init, GlobalsOK
<1> QED BY <1>1, IdleIsProper DEF Init, GatewayInv

\* A step of one request.
LEMMA OneRequest ==
    ASSUME GatewayInv, GlobalsOK', NEW s \in Slot, NEW r \in RequestType,
           req' = [req EXCEPT ![s] = r], Proper(r, DOMAIN key2EpMap', updater'),
           DOMAIN key2EpMap \subseteq DOMAIN key2EpMap', updater' = updater
    PROVE  GatewayInv'
<1>1. req' \in [Slot -> RequestType]
  BY DEF GatewayInv
<1>2. ASSUME NEW t \in Slot PROVE Proper(req'[t], DOMAIN key2EpMap', updater')
  <2>1. CASE t = s
    BY <2>1 DEF GatewayInv
  <2>2. CASE t # s
    <3>1. req'[t] = req[t] /\ Proper(req[t], DOMAIN key2EpMap, updater)
      BY <2>2 DEF GatewayInv
    <3> QED BY <3>1 DEF Proper
  <2> QED BY <2>1, <2>2
<1> QED BY <1>1, <1>2 DEF GatewayInv

\* A request is over, and nothing else happens.
LEMMA GivesUp ==
    ASSUME GatewayInv, NEW s \in Slot, req' = [req EXCEPT ![s] = Idle], UNCHANGED <<svc, lists, update>>,
           routed' \in [Key -> IP \cup {None}]
    PROVE  GatewayInv'
<1>1. GlobalsOK'
  BY DEF GatewayInv, GlobalsOK, lists, update
<1> QED BY <1>1, OneRequest, IdleIsProper DEF lists, update

LEMMA ArriveTypes ==
    ASSUME GatewayInv, NEW s \in Slot, NEW k \in Key, Arrive(s, k)
    PROVE  GatewayInv'
<1>1. PICK r : r = [Idle EXCEPT !.pc = "search", !.key = k]
  OBVIOUS
<1>2. req' = [req EXCEPT ![s] = r] /\ UNCHANGED <<svc, lists, update, routed>>
  BY <1>1 DEF Arrive
<1>3. r \in RequestType /\ Proper(r, DOMAIN key2EpMap', updater')
  <2>1. r = [pc |-> "search", key |-> k, ip |-> None, keys |-> <<>>, index |-> 0, clean |-> FALSE]
    BY <1>1 DEF Idle
  <2> QED BY <2>1 DEF RequestType, Proper
<1>4. GlobalsOK'
  BY <1>2 DEF GatewayInv, GlobalsOK, lists, update
<1> QED BY <1>2, <1>3, <1>4, OneRequest DEF lists, update

LEMMA SearchTypes ==
    ASSUME GatewayInv, NEW s \in Slot, Search(s)
    PROVE  GatewayInv'
<1>1. PICK ip \in (IF Holders(req[s].key) = {} THEN {None} ELSE Holders(req[s].key)) :
          req' = [req EXCEPT ![s].pc = IF ip = None THEN "wrap" ELSE "post",
                             ![s].ip = ip, ![s].clean = (updater = "gone")]
  BY DEF Search
<1>2. PICK r : r = [req[s] EXCEPT !.pc = IF ip = None THEN "wrap" ELSE "post",
                                  !.ip = ip, !.clean = (updater = "gone")]
  OBVIOUS
<1>3. req[s] \in RequestType /\ Proper(req[s], DOMAIN key2EpMap, updater) /\ req[s].pc = "search" /\ DOMAIN key2EpMap \subseteq IP
  BY DEF GatewayInv, GlobalsOK, Search
<1>4. req' = [req EXCEPT ![s] = r] /\ UNCHANGED <<svc, lists, update, routed>>
  BY <1>1, <1>2 DEF Search, GatewayInv
<1>5. ip = None \/ ip \in IP
  BY <1>1, <1>3 DEF Holders
<1>6. r \in RequestType
  BY <1>2, <1>3, <1>5 DEF RequestType
<1>7. Proper(r, DOMAIN key2EpMap', updater')
  <2>1. /\ r.pc = (IF ip = None THEN "wrap" ELSE "post") /\ r.ip = ip /\ r.clean = (updater = "gone")
        /\ r.key = req[s].key
    BY <1>2, <1>3 DEF RequestType
  <2> QED BY <1>3, <1>4, <1>5, <1>6, <2>1 DEF Proper, update, lists
<1>8. GlobalsOK'
  BY <1>4 DEF GatewayInv, GlobalsOK, lists, update
<1> QED BY <1>4, <1>6, <1>7, <1>8, OneRequest DEF lists, update

LEMMA WrapTypes ==
    ASSUME GatewayInv, NEW s \in Slot, Wrap(s)
    PROVE  GatewayInv'
<1>1. PICK r : r = [req[s] EXCEPT !.pc = "pick"]
  OBVIOUS
<1>2. req[s] \in RequestType /\ Proper(req[s], DOMAIN key2EpMap, updater) /\ req[s].pc = "wrap"
  BY DEF GatewayInv, Wrap
<1>3. /\ req' = [req EXCEPT ![s] = r] /\ UNCHANGED <<svc, epIPs, key2EpMap, update, routed>>
      /\ curEpIndex' \in {0, curEpIndex}
  BY <1>1 DEF Wrap, GatewayInv
<1>4. r \in RequestType /\ Proper(r, DOMAIN key2EpMap', updater')
  BY <1>1, <1>2, <1>3 DEF RequestType, Proper, update
<1>5. GlobalsOK'
  BY <1>3 DEF GatewayInv, GlobalsOK, update
<1> QED BY <1>3, <1>4, <1>5, OneRequest DEF update

LEMMA PickTypes ==
    ASSUME GatewayInv, NEW s \in Slot, Pick(s)
    PROVE  GatewayInv'
<1>1. CASE curEpIndex < Len(epIPs)
  <2>1. epIPs \in Seq(IP) /\ curEpIndex \in Nat
    BY ListsAreLists DEF GatewayInv, GlobalsOK
  <2>2. epIPs[curEpIndex + 1] \in IP
    BY <1>1, <2>1, LenProperties
  <2>3. PICK r : r = [req[s] EXCEPT !.pc = "load", !.ip = epIPs[curEpIndex + 1]]
    OBVIOUS
  <2>4. req[s] \in RequestType /\ Proper(req[s], DOMAIN key2EpMap, updater) /\ req[s].pc = "pick"
    BY DEF GatewayInv, Pick
  <2>5. req' = [req EXCEPT ![s] = r] /\ UNCHANGED <<svc, lists, update, routed>>
    BY <1>1, <2>3 DEF Pick, GatewayInv
  <2>6. r \in RequestType /\ Proper(r, DOMAIN key2EpMap', updater')
    BY <2>2, <2>3, <2>4, <2>5 DEF RequestType, Proper, lists, update
  <2>7. GlobalsOK'
    BY <2>5 DEF GatewayInv, GlobalsOK, lists, update
  <2> QED BY <2>5, <2>6, <2>7, OneRequest DEF lists, update
<1>2. CASE ~(curEpIndex < Len(epIPs))
  <2>1. req' = [req EXCEPT ![s] = Idle] /\ UNCHANGED <<svc, lists, update, routed>>
    BY <1>2 DEF Pick
  <2> QED BY <2>1, GivesUp DEF GatewayInv, GlobalsOK
<1> QED BY <1>1, <1>2

LEMMA LoadTypes ==
    ASSUME GatewayInv, NEW s \in Slot, Load(s)
    PROVE  GatewayInv'
<1>1. req[s] \in RequestType /\ Proper(req[s], DOMAIN key2EpMap, updater) /\ req[s].pc = "load"
  BY DEF GatewayInv, Load
<1>2. UNCHANGED <<svc, lists, update, routed>>
  BY DEF Load
<1>3. PICK r \in RequestType : req' = [req EXCEPT ![s] = r] /\ Proper(r, DOMAIN key2EpMap, updater)
  <2>1. CASE req[s].ip \in DOMAIN key2EpMap
    <3>1. PICK r : r = [req[s] EXCEPT !.pc = "store", !.keys = key2EpMap[req[s].ip]]
      OBVIOUS
    <3>2. key2EpMap[req[s].ip] \in Seq(Key)
      BY <2>1 DEF GatewayInv, GlobalsOK
    <3>3. req' = [req EXCEPT ![s] = r]
      BY <2>1, <3>1 DEF Load, GatewayInv
    <3>4. r \in RequestType /\ Proper(r, DOMAIN key2EpMap, updater)
      BY <1>1, <2>1, <3>1, <3>2 DEF RequestType, Proper
    <3> QED BY <3>3, <3>4
  <2>2. CASE req[s].ip \notin DOMAIN key2EpMap
    <3>1. PICK r : r = [req[s] EXCEPT !.pc = "read"]
      OBVIOUS
    <3>2. req' = [req EXCEPT ![s] = r]
      BY <2>2, <3>1 DEF Load, GatewayInv
    <3>3. r \in RequestType /\ Proper(r, DOMAIN key2EpMap, updater)
      BY <1>1, <3>1 DEF RequestType, Proper
    <3> QED BY <3>2, <3>3
  <2> QED BY <2>1, <2>2
<1>4. GlobalsOK'
  BY <1>2 DEF GatewayInv, GlobalsOK, lists, update
<1> QED BY <1>2, <1>3, <1>4, OneRequest DEF lists, update

LEMMA StoreTypes ==
    ASSUME GatewayInv, NEW s \in Slot, Store(s)
    PROVE  GatewayInv'
<1>1. req[s] \in RequestType /\ Proper(req[s], DOMAIN key2EpMap, updater) /\ req[s].pc = "store"
  BY DEF GatewayInv, Store
<1>2. PICK r : r = [req[s] EXCEPT !.pc = "read", !.keys = <<>>]
  OBVIOUS
<1>3. /\ req' = [req EXCEPT ![s] = r]
      /\ key2EpMap' = [key2EpMap EXCEPT ![req[s].ip] = Append(req[s].keys, req[s].key)]
      /\ UNCHANGED <<svc, epIPs, curEpIndex, update, routed>>
  BY <1>2 DEF Store, GatewayInv
<1>4. r \in RequestType /\ Proper(r, DOMAIN key2EpMap', updater')
  <2>1. <<>> \in Seq(Key)
    OBVIOUS
  <2>2. r \in RequestType
    BY <1>1, <1>2, <2>1 DEF RequestType
  <2>3. r.pc = "read" /\ r.ip = req[s].ip /\ r.key = req[s].key /\ r.clean = req[s].clean
    BY <1>1, <1>2 DEF RequestType
  <2> QED BY <1>1, <1>3, <2>2, <2>3 DEF Proper, update
<1>5. Append(req[s].keys, req[s].key) \in Seq(Key)
  <2>1. req[s].keys \in Seq(Key) /\ req[s].key \in Key
    BY <1>1 DEF RequestType, Proper
  <2> QED BY <2>1, AppendProperties
<1>6. \A ip \in DOMAIN key2EpMap' : key2EpMap'[ip] \in Seq(Key)
  BY <1>3, <1>5 DEF GatewayInv, GlobalsOK
<1>7. DOMAIN key2EpMap' = DOMAIN key2EpMap
  BY <1>3
<1>8. GlobalsOK'
  BY <1>3, <1>6, <1>7 DEF GatewayInv, GlobalsOK, update
<1> QED BY <1>3, <1>4, <1>7, <1>8, OneRequest DEF update

LEMMA ReadIndexTypes ==
    ASSUME GatewayInv, NEW s \in Slot, ReadIndex(s)
    PROVE  GatewayInv'
<1>1. PICK r : r = [req[s] EXCEPT !.pc = "bump", !.index = curEpIndex]
  OBVIOUS
<1>2. req[s] \in RequestType /\ Proper(req[s], DOMAIN key2EpMap, updater) /\ req[s].pc = "read" /\ curEpIndex \in Nat
  BY DEF GatewayInv, GlobalsOK, ReadIndex
<1>3. req' = [req EXCEPT ![s] = r] /\ UNCHANGED <<svc, lists, update, routed>>
  BY <1>1 DEF ReadIndex, GatewayInv
<1>4. r \in RequestType /\ Proper(r, DOMAIN key2EpMap', updater')
  BY <1>1, <1>2, <1>3 DEF RequestType, Proper, lists, update
<1>5. GlobalsOK'
  BY <1>3 DEF GatewayInv, GlobalsOK, lists, update
<1> QED BY <1>3, <1>4, <1>5, OneRequest DEF lists, update

LEMMA BumpTypes ==
    ASSUME GatewayInv, NEW s \in Slot, Bump(s)
    PROVE  GatewayInv'
<1>1. PICK r : r = [req[s] EXCEPT !.pc = "post"]
  OBVIOUS
<1>2. req[s] \in RequestType /\ Proper(req[s], DOMAIN key2EpMap, updater) /\ req[s].pc = "bump"
  BY DEF GatewayInv, Bump
<1>3. /\ req' = [req EXCEPT ![s] = r] /\ UNCHANGED <<svc, epIPs, key2EpMap, update, routed>>
      /\ curEpIndex' = req[s].index + 1
  BY <1>1 DEF Bump, GatewayInv
<1>4. r \in RequestType /\ Proper(r, DOMAIN key2EpMap', updater') /\ req[s].index + 1 \in Nat
  BY <1>1, <1>2, <1>3 DEF RequestType, Proper, update
<1>5. GlobalsOK'
  BY <1>3, <1>4 DEF GatewayInv, GlobalsOK, update
<1> QED BY <1>3, <1>4, <1>5, OneRequest DEF update

LEMMA PostTypes ==
    ASSUME GatewayInv, NEW s \in Slot, Post(s)
    PROVE  GatewayInv'
<1>1. Proper(req[s], DOMAIN key2EpMap, updater) /\ req[s].pc = "post"
  BY DEF GatewayInv, Post
<1>2. req[s].key \in Key /\ req[s].ip \in IP
  BY <1>1 DEF Proper
<1>3. /\ routed' \in [Key -> IP \cup {None}]
      /\ req' = [req EXCEPT ![s] = Idle] /\ UNCHANGED <<svc, lists, update>>
  BY <1>2 DEF Post, GatewayInv, GlobalsOK
<1> QED BY <1>3, GivesUp

\* The updater's steps leave requests alone and only add to the map's domain.
LEMMA UpdaterTypes ==
    ASSUME GatewayInv, ControllerChanges \/ Fetch \/ Receive \/ Reset
    PROVE  GatewayInv'
<1>1. ASSUME GlobalsOK', req' = req, DOMAIN key2EpMap \subseteq DOMAIN key2EpMap',
             updater = "gone" => updater' = "gone"
      PROVE  GatewayInv'
  BY <1>1 DEF GatewayInv, Proper
<1>2. CASE ControllerChanges
  <2>1. /\ svc' \in Lists /\ UNCHANGED <<epIPs, key2EpMap, curEpIndex, fetched, updater, todo, req, routed>>
    BY <1>2 DEF ControllerChanges, lists, update
  <2>2. GlobalsOK'
    BY <2>1 DEF GatewayInv, GlobalsOK
  <2> QED BY <1>1, <2>1, <2>2
<1>3. CASE Fetch
  <2>1. /\ fetched' = <<svc>> \/ fetched' = <<NoAnswer>>
        /\ UNCHANGED <<svc, epIPs, key2EpMap, curEpIndex, updater, todo, req, routed>>
    BY <1>3 DEF Fetch, lists
  <2>2. GlobalsOK'
    BY <2>1 DEF GatewayInv, GlobalsOK
  <2> QED BY <1>1, <2>1, <2>2
<1>4. CASE Receive
  <2>1. /\ updater = "receive" /\ updater' = "reset" /\ fetched' = <<>>
        /\ epIPs' = fetched[1] /\ todo' = fetched[1]
        /\ UNCHANGED <<svc, key2EpMap, curEpIndex, req, routed>>
    BY <1>4 DEF Receive
  <2>2. fetched[1] \in Lists
    BY <1>4 DEF Receive, GatewayInv, GlobalsOK
  <2>3. GlobalsOK'
    BY <2>1, <2>2, ListsAreLists DEF GatewayInv, GlobalsOK
  <2> QED BY <1>1, <2>1, <2>3
<1>5. CASE Reset
  <2>1. /\ updater = "reset" /\ UNCHANGED <<svc, epIPs, curEpIndex, fetched, req, routed>>
    BY <1>5 DEF Reset
  <2>2. CASE todo = <<>>
    <3>1. updater' = "gone" /\ UNCHANGED <<key2EpMap, todo>>
      BY <1>5, <2>2 DEF Reset
    <3>2. GlobalsOK'
      BY <2>1, <3>1 DEF GatewayInv, GlobalsOK
    <3> QED BY <1>1, <2>1, <3>1, <3>2
  <2>3. CASE todo # <<>>
    <3>1. /\ key2EpMap' = [ip \in DOMAIN key2EpMap \cup {Head(todo)} |->
                             IF ip = Head(todo) THEN <<>> ELSE key2EpMap[ip]]
          /\ todo' = Tail(todo) /\ updater' = updater
      BY <1>5, <2>3 DEF Reset
    <3>2. Head(todo) \in IP /\ Tail(todo) \in Seq(IP)
      BY <2>3, HeadTailProperties DEF GatewayInv, GlobalsOK
    <3>3. \A ip \in DOMAIN key2EpMap' : key2EpMap'[ip] \in Seq(Key)
      BY <3>1 DEF GatewayInv, GlobalsOK
    <3>4. GlobalsOK'
      BY <2>1, <3>1, <3>2, <3>3 DEF GatewayInv, GlobalsOK
    <3> QED BY <1>1, <2>1, <3>1, <3>4
  <2> QED BY <2>2, <2>3
<1> QED BY <1>2, <1>3, <1>4, <1>5

LEMMA RestartTypes ==
    ASSUME GatewayInv, Restart
    PROVE  GatewayInv'
<1>1. /\ epIPs' = svc /\ key2EpMap' = NoKeys(svc) /\ curEpIndex' = 0
      /\ fetched' = <<>> /\ updater' = "receive" /\ todo' = <<>>
      /\ req' = [s \in Slot |-> Idle] /\ routed' = [k \in Key |-> None] /\ svc' = svc
  BY DEF Restart
<1>2. GlobalsOK'
  <2>1. svc \in Lists
    BY DEF GatewayInv, GlobalsOK
  <2>2. /\ DOMAIN NoKeys(svc) \subseteq IP
        /\ \A ip \in DOMAIN NoKeys(svc) : NoKeys(svc)[ip] \in Seq(Key)
    BY <2>1, NoKeysType
  <2> QED BY <1>1, <2>1, <2>2 DEF GlobalsOK
<1> QED BY <1>1, <1>2, IdleIsProper DEF GatewayInv

\* Nothing the types speak of changes.
LEMMA GatewayStutters ==
    ASSUME GatewayInv, UNCHANGED <<svc, lists, update, req, routed>>
    PROVE  GatewayInv'
BY DEF GatewayInv, GlobalsOK, lists, update

LEMMA HandleTypes ==
    ASSUME GatewayInv, NEW s \in Slot, Handle(s)
    PROVE  GatewayInv'
BY SearchTypes, WrapTypes, PickTypes, LoadTypes, StoreTypes, ReadIndexTypes, BumpTypes, PostTypes DEF Handle, Route

\* Type correctness of the gateway, with any number of requests in flight: what
\* a handler takes from one global and uses on another is never out of range,
\* and the list it appends to is in the map.
THEOREM GatewayTypes == Spec => []TypeOK
<1>1. ASSUME GatewayInv, [Next]_vars PROVE GatewayInv'
  <2>1. CASE UNCHANGED vars
    BY <1>1, <2>1, GatewayStutters DEF vars
  <2> QED BY <1>1, <2>1, HandleTypes, ArriveTypes, UpdaterTypes, RestartTypes DEF Next
<1> QED BY <1>1, GatewayInitially, TypesFollow, PTL DEF Spec

-----------------------------------------------------------------------------
(* The gateway with one request at a time.                                 *)

Alone == \A s \in Slot : s # 1 => req[s].pc = "idle"

\* The key of a request that is going to insert it is in no list, and what the
\* request has loaded shares no key with another list, whatever was reset since.
Inserts(r) ==
    /\ r.pc \in {"wrap", "pick", "load", "store"} =>
          \A ip \in DOMAIN key2EpMap : r.key \notin Range(key2EpMap[ip])
    /\ r.pc = "store" =>
          /\ r.key \notin Range(r.keys) /\ IsInjective(r.keys)
          /\ \A ip \in DOMAIN key2EpMap : ip # r.ip => Range(r.keys) \cap Range(key2EpMap[ip]) = {}

\* Every producer in the list has a list of keys, or the updater is about to
\* make it one.
EndpointsListed ==
    Range(epIPs) \subseteq DOMAIN key2EpMap \cup (IF updater = "reset" THEN Range(todo) ELSE {})

\* A key routed since the updater's end is in its producer's list ...
RoutedListed ==
    \A k \in Key : routed[k] # None =>
        updater = "gone" /\ routed[k] \in DOMAIN key2EpMap /\ k \in Range(key2EpMap[routed[k]])

\* ... and a request that began since then finds it there, or puts it there; none
\* is routed while an older request is under way.
Routes(r) ==
    /\ r.pc \notin {"idle", "search"} /\ ~r.clean => \A k \in Key : routed[k] = None
    /\ r.clean =>
          /\ r.pc = "load" => r.ip \in DOMAIN key2EpMap
          /\ r.pc = "store" => r.keys = key2EpMap[r.ip]
          /\ r.pc \in {"read", "bump", "post"} => r.ip \in DOMAIN key2EpMap /\ r.key \in Range(key2EpMap[r.ip])

\* Between its look at the index and its use of it, only a new list can make a
\* request fail.
Picks(r) ==
    r.pc = "pick" => epIPs = <<>> \/ curEpIndex < Len(epIPs) \/ (updater # "receive" /\ ~r.clean)

OneInv ==
    /\ Alone /\ KeyInOneList /\ EndpointsListed /\ RoutedListed
    /\ Inserts(req[1]) /\ Routes(req[1]) /\ Picks(req[1])

LEMMA OneInitially == Init => OneInv
<1> SUFFICES ASSUME Init PROVE OneInv
  OBVIOUS
<1>1. svc \in Lists /\ epIPs = svc /\ key2EpMap = NoKeys(svc)
  BY DEF Init
<1>2. /\ DOMAIN key2EpMap = Range(epIPs)
      /\ \A ip \in DOMAIN key2EpMap : key2EpMap[ip] = <<>>
  BY <1>1, NoKeysType
<1>3. KeyInOneList
  BY <1>2 DEF KeyInOneList, Range, IsInjective
<1>4. req[1] = Idle /\ Alone /\ \A k \in Key : routed[k] = None
  BY ClientAssumption, IdleIsProper DEF Init, Alone
<1> QED BY <1>2, <1>3, <1>4, IdleIsProper DEF OneInv, EndpointsListed, RoutedListed, Inserts, Routes, Picks

\* Only the client's request moves.
LEMMA OnlyTheFirst ==
    ASSUME Alone, GatewayInv, NEW s \in Slot, req[s].pc # "idle"
    PROVE  s = 1
BY DEF Alone

LEMMA SlotOne ==
    ASSUME GatewayInv, Alone, NEW r, req' = [req EXCEPT ![1] = r]
    PROVE  req'[1] = r /\ Alone'
BY ClientAssumption DEF GatewayInv, Alone

\* The request leaves the lists alone.
LEMMA ListsKept ==
    ASSUME GatewayInv, OneInv, UNCHANGED <<epIPs, key2EpMap, update, routed>>
    PROVE  KeyInOneList' /\ EndpointsListed' /\ RoutedListed'
BY DEF OneInv, KeyInOneList, EndpointsListed, RoutedListed, update, Range, IsInjective

LEMMA IdleFits ==
    ASSUME GatewayInv, OneInv, UNCHANGED <<epIPs, key2EpMap, update>>, Alone', RoutedListed',
           req'[1].pc \in {"idle", "search"}, ~req'[1].clean
    PROVE  OneInv'
<1>1. KeyInOneList' /\ EndpointsListed'
  BY DEF OneInv, KeyInOneList, EndpointsListed, update, Range, IsInjective
<1> QED BY <1>1 DEF OneInv, Inserts, Routes, Picks

LEMMA GivesUpOne ==
    ASSUME GatewayInv, OneInv, req' = [req EXCEPT ![1] = Idle], UNCHANGED <<svc, lists, update, routed>>
    PROVE  OneInv'
<1>1. Alone /\ UNCHANGED <<epIPs, key2EpMap, update, routed>>
  BY DEF OneInv, lists
<1>2. req'[1] = Idle /\ Alone'
  BY <1>1, SlotOne
<1> QED BY <1>1, <1>2, ListsKept, IdleFits, IdleIsProper

LEMMA ArriveOne ==
    ASSUME GatewayInv, OneInv, NEW k \in Key, Arrive(1, k)
    PROVE  OneInv'
<1>1. PICK r : r = [Idle EXCEPT !.pc = "search", !.key = k]
  OBVIOUS
<1>2. req' = [req EXCEPT ![1] = r] /\ UNCHANGED <<epIPs, key2EpMap, update, routed>> /\ Alone
  BY <1>1 DEF Arrive, lists, OneInv
<1>3. req'[1] = r /\ Alone'
  BY <1>2, SlotOne
<1>4. r.pc = "search" /\ ~r.clean
  BY <1>1 DEF Idle
<1> QED BY <1>2, <1>3, <1>4, ListsKept, IdleFits

LEMMA SearchOne ==
    ASSUME GatewayInv, OneInv, Search(1)
    PROVE  OneInv'
<1>1. PICK ip \in (IF Holders(req[1].key) = {} THEN {None} ELSE Holders(req[1].key)) :
          req' = [req EXCEPT ![1].pc = IF ip = None THEN "wrap" ELSE "post",
                             ![1].ip = ip, ![1].clean = (updater = "gone")]
  BY DEF Search
<1>2. PICK r : r = [req[1] EXCEPT !.pc = IF ip = None THEN "wrap" ELSE "post",
                                  !.ip = ip, !.clean = (updater = "gone")]
  OBVIOUS
<1>3. req[1] \in RequestType /\ Proper(req[1], DOMAIN key2EpMap, updater) /\ req[1].pc = "search"
      /\ DOMAIN key2EpMap \subseteq IP
  BY ClientAssumption DEF GatewayInv, GlobalsOK, Search
<1>4. req' = [req EXCEPT ![1] = r] /\ UNCHANGED <<epIPs, key2EpMap, curEpIndex, update, routed>> /\ Alone
  BY <1>1, <1>2, ClientAssumption DEF Search, GatewayInv, lists, OneInv
<1>5. req'[1] = r /\ Alone'
  BY <1>4, SlotOne
<1>6. KeyInOneList' /\ EndpointsListed' /\ RoutedListed'
  BY <1>4, ListsKept
<1>7. /\ r.pc = (IF ip = None THEN "wrap" ELSE "post") /\ r.ip = ip /\ r.clean = (updater = "gone")
      /\ r.key = req[1].key
  BY <1>2, <1>3 DEF RequestType
<1>8. IF ip = None THEN \A jp \in DOMAIN key2EpMap : r.key \notin Range(key2EpMap[jp])
                   ELSE ip \in DOMAIN key2EpMap /\ r.key \in Range(key2EpMap[ip])
  BY <1>1, <1>3, <1>7, NoneAssumption DEF Holders
<1>9. Inserts(r)' /\ Routes(r)' /\ Picks(r)'
  BY <1>4, <1>7, <1>8 DEF OneInv, RoutedListed, Inserts, Routes, Picks, update
<1> QED BY <1>5, <1>6, <1>9 DEF OneInv, Inserts, Routes, Picks

LEMMA WrapOne ==
    ASSUME GatewayInv, OneInv, Wrap(1)
    PROVE  OneInv'
<1>1. PICK r : r = [req[1] EXCEPT !.pc = "pick"]
  OBVIOUS
<1>2. req[1] \in RequestType /\ req[1].pc = "wrap" /\ epIPs \in Seq(IP) /\ Alone
  BY ClientAssumption, ListsAreLists DEF GatewayInv, GlobalsOK, Wrap, OneInv
<1>3. /\ req' = [req EXCEPT ![1] = r] /\ UNCHANGED <<epIPs, key2EpMap, update, routed>>
      /\ curEpIndex' = IF curEpIndex >= Len(epIPs) THEN 0 ELSE curEpIndex
  BY <1>1 DEF Wrap
<1>4. req'[1] = r /\ Alone'
  BY <1>2, <1>3, SlotOne
<1>5. KeyInOneList' /\ EndpointsListed' /\ RoutedListed'
  BY <1>3, ListsKept
<1>6. r.pc = "pick" /\ r.key = req[1].key /\ r.clean = req[1].clean
  BY <1>1, <1>2 DEF RequestType
<1>7. epIPs = <<>> \/ curEpIndex' < Len(epIPs)
  <2>1. curEpIndex \in Nat /\ Len(epIPs) \in Nat /\ (Len(epIPs) = 0 => epIPs = <<>>)
    BY <1>2, EmptySeq, LenProperties DEF GatewayInv, GlobalsOK
  <2> QED BY <1>3, <2>1
<1>8. Inserts(r)' /\ Routes(r)' /\ Picks(r)'
  BY <1>2, <1>3, <1>6, <1>7 DEF OneInv, Inserts, Routes, Picks
<1> QED BY <1>4, <1>5, <1>8 DEF OneInv, Inserts, Routes, Picks

LEMMA PickOne ==
    ASSUME GatewayInv, OneInv, Pick(1)
    PROVE  OneInv'
<1>1. CASE curEpIndex < Len(epIPs)
  <2>1. epIPs \in Seq(IP) /\ curEpIndex \in Nat /\ Alone
    BY ListsAreLists DEF GatewayInv, GlobalsOK, OneInv
  <2>2. epIPs[curEpIndex + 1] \in Range(epIPs)
    BY <1>1, <2>1, LenProperties DEF Range
  <2>3. PICK r : r = [req[1] EXCEPT !.pc = "load", !.ip = epIPs[curEpIndex + 1]]
    OBVIOUS
  <2>4. req[1] \in RequestType /\ Proper(req[1], DOMAIN key2EpMap, updater) /\ req[1].pc = "pick"
    BY ClientAssumption DEF GatewayInv, Pick
  <2>5. req' = [req EXCEPT ![1] = r] /\ UNCHANGED <<epIPs, key2EpMap, update, routed>>
    BY <1>1, <2>3, ClientAssumption DEF Pick, GatewayInv, lists
  <2>6. req'[1] = r /\ Alone'
    BY <2>1, <2>5, SlotOne
  <2>7. KeyInOneList' /\ EndpointsListed' /\ RoutedListed'
    BY <2>5, ListsKept
  <2>8. r.pc = "load" /\ r.key = req[1].key /\ r.clean = req[1].clean /\ r.ip = epIPs[curEpIndex + 1]
    BY <2>3, <2>4 DEF RequestType
  <2>9. r.clean => r.ip \in DOMAIN key2EpMap
    BY <2>2, <2>4, <2>8 DEF OneInv, EndpointsListed, Proper
  <2>10. Inserts(r)' /\ Routes(r)' /\ Picks(r)'
    BY <2>4, <2>5, <2>8, <2>9 DEF OneInv, Inserts, Routes, Picks
  <2> QED BY <2>6, <2>7, <2>10 DEF OneInv, Inserts, Routes, Picks
<1>2. CASE ~(curEpIndex < Len(epIPs))
  BY <1>2, GivesUpOne DEF Pick
<1> QED BY <1>1, <1>2

LEMMA LoadOne ==
    ASSUME GatewayInv, OneInv, Load(1)
    PROVE  OneInv'
<1>1. req[1] \in RequestType /\ Proper(req[1], DOMAIN key2EpMap, updater) /\ req[1].pc = "load" /\ Alone
  BY ClientAssumption DEF GatewayInv, Load, OneInv
<1>2. UNCHANGED <<epIPs, key2EpMap, curEpIndex, update, routed>>
  BY DEF Load, lists
<1>3. KeyInOneList' /\ EndpointsListed' /\ RoutedListed'
  BY <1>2, ListsKept
<1>4. CASE req[1].ip \in DOMAIN key2EpMap
  <2>1. PICK r : r = [req[1] EXCEPT !.pc = "store", !.keys = key2EpMap[req[1].ip]]
    OBVIOUS
  <2>2. req' = [req EXCEPT ![1] = r]
    BY <1>4, <2>1, ClientAssumption DEF Load, GatewayInv
  <2>3. req'[1] = r /\ Alone'
    BY <1>1, <2>2, SlotOne
  <2>4. /\ r.pc = "store" /\ r.key = req[1].key /\ r.clean = req[1].clean /\ r.ip = req[1].ip
        /\ r.keys = key2EpMap[r.ip]
    BY <1>1, <2>1 DEF RequestType
  <2>5. Inserts(r)
    BY <1>1, <1>4, <2>4 DEF OneInv, Inserts, KeyInOneList
  <2>6. Routes(r) /\ Picks(r)
    BY <1>1, <1>4, <2>4 DEF OneInv, Routes, Picks
  <2> QED BY <1>2, <1>3, <2>3, <2>5, <2>6 DEF OneInv, Inserts, Routes, Picks, update
<1>5. CASE req[1].ip \notin DOMAIN key2EpMap
  <2>1. PICK r : r = [req[1] EXCEPT !.pc = "read"]
    OBVIOUS
  <2>2. req' = [req EXCEPT ![1] = r]
    BY <1>5, <2>1, ClientAssumption DEF Load, GatewayInv
  <2>3. req'[1] = r /\ Alone'
    BY <1>1, <2>2, SlotOne
  <2>4. r.pc = "read" /\ r.clean = req[1].clean
    BY <1>1, <2>1 DEF RequestType
  <2>5. Inserts(r) /\ Routes(r) /\ Picks(r)
    BY <1>1, <1>5, <2>4 DEF OneInv, Inserts, Routes, Picks
  <2> QED BY <1>2, <1>3, <2>3, <2>5 DEF OneInv, Inserts, Routes, Picks, update
<1> QED BY <1>4, <1>5

\* Adding a key to a list that has it not.
LEMMA AddedKey ==
    ASSUME NEW S, NEW q \in Seq(S), NEW k \in S, k \notin Range(q), IsInjective(q)
    PROVE  Range(Append(q, k)) = Range(q) \cup {k} /\ IsInjective(Append(q, k))
<1>1. /\ Append(q, k) \in Seq(S) /\ DOMAIN Append(q, k) = 1 .. Len(q) + 1
      /\ Append(q, k)[Len(q) + 1] = k
      /\ \A n \in 1 .. Len(q) : Append(q, k)[n] = q[n]
      /\ DOMAIN q = 1 .. Len(q) /\ Len(q) \in Nat
  BY AppendProperties, LenProperties
<1>2. DOMAIN Append(q, k) = DOMAIN q \cup {Len(q) + 1} /\ Len(q) + 1 \notin DOMAIN q
  BY <1>1
<1>3. Range(Append(q, k)) = Range(q) \cup {k}
  BY <1>1, <1>2 DEF Range
<1>4. \A n \in DOMAIN q : q[n] # k
  BY DEF Range
<1>5. IsInjective(Append(q, k))
  BY <1>1, <1>2, <1>4 DEF IsInjective
<1> QED BY <1>3, <1>5

LEMMA StoreOne ==
    ASSUME GatewayInv, OneInv, Store(1)
    PROVE  OneInv'
<1>1. req[1] \in RequestType /\ Proper(req[1], DOMAIN key2EpMap, updater) /\ req[1].pc = "store" /\ Alone
  BY ClientAssumption DEF GatewayInv, Store, OneInv
<1>2. PICK r : r = [req[1] EXCEPT !.pc = "read", !.keys = <<>>]
  OBVIOUS
<1>3. PICK ip, keys, k : ip = req[1].ip /\ keys = req[1].keys /\ k = req[1].key
  OBVIOUS
<1>4. ip \in DOMAIN key2EpMap /\ keys \in Seq(Key) /\ k \in Key
  BY <1>1, <1>3 DEF RequestType, Proper
<1>5. /\ req' = [req EXCEPT ![1] = r] /\ key2EpMap' = [key2EpMap EXCEPT ![ip] = Append(keys, k)]
      /\ UNCHANGED <<epIPs, curEpIndex, update, routed>>
  BY <1>2, <1>3, ClientAssumption DEF Store, GatewayInv
<1>6. req'[1] = r /\ Alone'
  BY <1>1, <1>5, SlotOne
<1>7. r.pc = "read" /\ r.ip = ip /\ r.key = k /\ r.clean = req[1].clean
  BY <1>1, <1>2, <1>3 DEF RequestType
<1>8. /\ k \notin Range(keys) /\ IsInjective(keys)
      /\ \A jp \in DOMAIN key2EpMap : jp # ip => Range(keys) \cap Range(key2EpMap[jp]) = {}
      /\ \A jp \in DOMAIN key2EpMap : k \notin Range(key2EpMap[jp])
      /\ req[1].clean => keys = key2EpMap[ip]
  BY <1>1, <1>3 DEF OneInv, Inserts, Routes
<1>9. PICK new : new = Append(keys, k)
  OBVIOUS
<1>10. Range(new) = Range(keys) \cup {k} /\ IsInjective(new)
  BY <1>4, <1>8, <1>9, AddedKey
<1>11. /\ DOMAIN key2EpMap' = DOMAIN key2EpMap /\ key2EpMap'[ip] = new
       /\ \A jp \in DOMAIN key2EpMap : jp # ip => key2EpMap'[jp] = key2EpMap[jp]
  BY <1>4, <1>5, <1>9
<1>12. KeyInOneList'
  <2>1. ASSUME NEW jp \in DOMAIN key2EpMap PROVE IsInjective(key2EpMap'[jp])
    BY <1>10, <1>11 DEF OneInv, KeyInOneList
  <2>2. ASSUME NEW ip1 \in DOMAIN key2EpMap, NEW jp \in DOMAIN key2EpMap, ip1 # jp
        PROVE  Range(key2EpMap'[ip1]) \cap Range(key2EpMap'[jp]) = {}
    <3>1. CASE ip1 # ip /\ jp # ip
      BY <1>11, <2>2, <3>1 DEF OneInv, KeyInOneList
    <3>2. CASE ip1 = ip \/ jp = ip
      BY <1>8, <1>10, <1>11, <2>2, <3>2
    <3> QED BY <3>1, <3>2
  <2> QED BY <1>11, <2>1, <2>2 DEF KeyInOneList, IsInjective, Range
<1>13. EndpointsListed'
  BY <1>5, <1>11 DEF OneInv, EndpointsListed, update, Range
<1>14. RoutedListed'
  <2>1. CASE req[1].clean
    <3>1. ASSUME NEW jp \in DOMAIN key2EpMap PROVE Range(key2EpMap[jp]) \subseteq Range(key2EpMap'[jp])
      BY <1>8, <1>10, <1>11, <2>1
    <3>2. ASSUME NEW h \in Key, routed[h] # None
          PROVE  updater = "gone" /\ routed[h] \in DOMAIN key2EpMap /\ h \in Range(key2EpMap'[routed[h]])
      BY <3>1, <3>2 DEF OneInv, RoutedListed
    <3> QED BY <1>5, <1>11, <3>2 DEF RoutedListed, update, Range
  <2>2. CASE ~req[1].clean
    BY <1>1, <1>5, <2>2 DEF OneInv, Routes, RoutedListed
  <2> QED BY <2>1, <2>2
<1>15. Inserts(r)' /\ Routes(r)' /\ Picks(r)'
  <2>1. Inserts(r)' /\ Picks(r)'
    BY <1>7 DEF Inserts, Picks
  <2>2. ip \in DOMAIN key2EpMap' /\ k \in Range(key2EpMap'[ip])
    BY <1>4, <1>10, <1>11
  <2>3. ~r.clean => \A h \in Key : routed'[h] = None
    BY <1>1, <1>5, <1>7 DEF OneInv, Routes
  <2>4. Routes(r)'
    BY <1>7, <2>2, <2>3 DEF Routes, Range
  <2> QED BY <2>1, <2>4
<1> QED BY <1>6, <1>12, <1>13, <1>14, <1>15 DEF OneInv, Inserts, Routes, Picks, Range, IsInjective

LEMMA ReadIndexOne ==
    ASSUME GatewayInv, OneInv, ReadIndex(1)
    PROVE  OneInv'
<1>1. PICK r : r = [req[1] EXCEPT !.pc = "bump", !.index = curEpIndex]
  OBVIOUS
<1>2. req[1] \in RequestType /\ req[1].pc = "read" /\ Alone
  BY ClientAssumption DEF GatewayInv, ReadIndex, OneInv
<1>3. req' = [req EXCEPT ![1] = r] /\ UNCHANGED <<epIPs, key2EpMap, update, routed>>
  BY <1>1, ClientAssumption DEF ReadIndex, GatewayInv, lists
<1>4. req'[1] = r /\ Alone'
  BY <1>2, <1>3, SlotOne
<1>5. KeyInOneList' /\ EndpointsListed' /\ RoutedListed'
  BY <1>3, ListsKept
<1>6. r.pc = "bump" /\ r.key = req[1].key /\ r.clean = req[1].clean /\ r.ip = req[1].ip
  BY <1>1, <1>2 DEF RequestType
<1>7. Inserts(r)' /\ Routes(r)' /\ Picks(r)'
  BY <1>2, <1>3, <1>6 DEF OneInv, Inserts, Routes, Picks
<1> QED BY <1>4, <1>5, <1>7 DEF OneInv, Inserts, Routes, Picks

LEMMA BumpOne ==
    ASSUME GatewayInv, OneInv, Bump(1)
    PROVE  OneInv'
<1>1. PICK r : r = [req[1] EXCEPT !.pc = "post"]
  OBVIOUS
<1>2. req[1] \in RequestType /\ req[1].pc = "bump" /\ Alone
  BY ClientAssumption DEF GatewayInv, Bump, OneInv
<1>3. req' = [req EXCEPT ![1] = r] /\ UNCHANGED <<epIPs, key2EpMap, update, routed>>
  BY <1>1 DEF Bump
<1>4. req'[1] = r /\ Alone'
  BY <1>2, <1>3, SlotOne
<1>5. KeyInOneList' /\ EndpointsListed' /\ RoutedListed'
  BY <1>3, ListsKept
<1>6. r.pc = "post" /\ r.key = req[1].key /\ r.clean = req[1].clean /\ r.ip = req[1].ip
  BY <1>1, <1>2 DEF RequestType
<1>7. Inserts(r)' /\ Routes(r)' /\ Picks(r)'
  BY <1>2, <1>3, <1>6 DEF OneInv, Inserts, Routes, Picks
<1> QED BY <1>4, <1>5, <1>7 DEF OneInv, Inserts, Routes, Picks

LEMMA PostOne ==
    ASSUME GatewayInv, OneInv, Post(1)
    PROVE  OneInv'
<1>1. Proper(req[1], DOMAIN key2EpMap, updater) /\ req[1].pc = "post" /\ Alone
  BY ClientAssumption DEF GatewayInv, Post, OneInv
<1>2. req' = [req EXCEPT ![1] = Idle] /\ UNCHANGED <<epIPs, key2EpMap, update>>
  BY DEF Post, lists
<1>3. req'[1] = Idle /\ Alone'
  BY <1>1, <1>2, SlotOne
<1>4. RoutedListed'
  <2>1. ASSUME NEW k \in Key, routed'[k] # None
        PROVE  updater = "gone" /\ routed'[k] \in DOMAIN key2EpMap /\ k \in Range(key2EpMap[routed'[k]])
    <3>1. CASE req[1].clean /\ k = req[1].key
      BY <1>1, <3>1 DEF Post, GatewayInv, GlobalsOK, OneInv, Routes, Proper
    <3>2. CASE ~(req[1].clean /\ k = req[1].key)
      <4>1. routed'[k] = routed[k]
        BY <3>2 DEF Post, GatewayInv, GlobalsOK
      <4> QED BY <2>1, <4>1 DEF OneInv, RoutedListed
    <3> QED BY <3>1, <3>2
  <2> QED BY <1>2, <2>1 DEF RoutedListed, update, Range
<1> QED BY <1>2, <1>3, <1>4, IdleFits, IdleIsProper

LEMMA HandleOne ==
    ASSUME GatewayInv, OneInv, NEW s \in Slot, Handle(s)
    PROVE  OneInv'
<1>1. req[s].pc # "idle"
  BY DEF Handle, Route, Search, Wrap, Pick, Load, Store, ReadIndex, Bump, Post
<1>2. s = 1
  BY <1>1, OnlyTheFirst DEF OneInv
<1> QED BY <1>2, SearchOne, WrapOne, PickOne, LoadOne, StoreOne, ReadIndexOne, BumpOne, PostOne DEF Handle, Route

\* What each part of the invariant is about: it stays as long as that does.
LEMMA KeyInOneKept ==
    ASSUME KeyInOneList, UNCHANGED key2EpMap
    PROVE  KeyInOneList'
BY DEF KeyInOneList, Range, IsInjective

LEMMA RoutedKept ==
    ASSUME RoutedListed, UNCHANGED <<key2EpMap, updater, routed>>
    PROVE  RoutedListed'
BY DEF RoutedListed, Range

LEMMA RequestKept ==
    ASSUME NEW r, Inserts(r), Routes(r), Picks(r),
           UNCHANGED <<epIPs, key2EpMap, curEpIndex, updater, routed>>
    PROVE  Inserts(r)' /\ Routes(r)' /\ Picks(r)'
<1>1. Inserts(r)'
  BY DEF Inserts, Range, IsInjective
<1>2. Routes(r)'
  BY DEF Routes, Range
<1>3. Picks(r)'
  BY DEF Picks
<1> QED BY <1>1, <1>2, <1>3

LEMMA RequestSame ==
    ASSUME GatewayInv, OneInv, NEW r, r = req[1], UNCHANGED req,
           KeyInOneList', EndpointsListed', RoutedListed', Inserts(r)', Routes(r)', Picks(r)'
    PROVE  OneInv'
<1>1. Alone' /\ req'[1] = r
  BY DEF OneInv, Alone
<1> QED BY <1>1 DEF OneInv, Inserts, Routes, Picks

LEMMA StutterOne ==
    ASSUME GatewayInv, OneInv, UNCHANGED <<lists, updater, todo, req, routed>>
    PROVE  OneInv'
<1>1. PICK r : r = req[1]
  OBVIOUS
<1>2. KeyInOneList' /\ RoutedListed'
  BY KeyInOneKept, RoutedKept DEF OneInv, lists
<1>3. EndpointsListed'
  BY DEF OneInv, EndpointsListed, lists, Range
<1>4. Inserts(r)' /\ Routes(r)' /\ Picks(r)'
  BY <1>1, RequestKept DEF OneInv, lists
<1> QED BY <1>1, <1>2, <1>3, <1>4, RequestSame

\* The updater forgets keys, of no list in particular.
LEMMA ResetOne ==
    ASSUME GatewayInv, OneInv, Reset
    PROVE  OneInv'
<1>1. /\ updater = "reset" /\ UNCHANGED <<epIPs, curEpIndex, req, routed>>
      /\ req[1] \in RequestType /\ Proper(req[1], DOMAIN key2EpMap, updater) /\ ~req[1].clean
  <2>1. Proper(req[1], DOMAIN key2EpMap, updater) /\ req[1] \in RequestType
    BY ClientAssumption DEF GatewayInv
  <2> QED BY <2>1 DEF Reset, Proper
<1>2. \A k \in Key : routed[k] = None
  BY <1>1 DEF OneInv, RoutedListed
<1> PICK r : r = req[1]
  OBVIOUS
<1>3. CASE todo = <<>>
  <2>1. updater' = "gone" /\ UNCHANGED <<key2EpMap, todo>>
    BY <1>3 DEF Reset
  <2>2. Range(todo) = {}
    BY <1>3 DEF Range
  <2>3. KeyInOneList'
    BY <2>1, KeyInOneKept DEF OneInv
  <2>4. EndpointsListed'
    BY <1>1, <2>1, <2>2 DEF OneInv, EndpointsListed, Range
  <2>5. RoutedListed'
    BY <1>1, <1>2 DEF RoutedListed
  <2>6. Inserts(r)'
    BY <2>1 DEF OneInv, Inserts, Range, IsInjective
  <2>7. Routes(r)' /\ Picks(r)'
    BY <1>1, <1>2, <2>1 DEF OneInv, Routes, Picks
  <2> QED BY <1>1, <2>3, <2>4, <2>5, <2>6, <2>7, RequestSame
<1>4. CASE todo # <<>>
  <2>1. /\ key2EpMap' = [ip \in DOMAIN key2EpMap \cup {Head(todo)} |->
                           IF ip = Head(todo) THEN <<>> ELSE key2EpMap[ip]]
        /\ todo' = Tail(todo) /\ updater' = updater
    BY <1>4 DEF Reset
  <2>2. PICK h : h = Head(todo)
    OBVIOUS
  <2>3. /\ DOMAIN key2EpMap' = DOMAIN key2EpMap \cup {h} /\ key2EpMap'[h] = <<>>
        /\ \A ip \in DOMAIN key2EpMap' : ip # h => ip \in DOMAIN key2EpMap /\ key2EpMap'[ip] = key2EpMap[ip]
    BY <2>1, <2>2
  <2>4. Range(key2EpMap'[h]) = {} /\ IsInjective(key2EpMap'[h])
    BY <2>3 DEF Range, IsInjective
  <2>5. Range(todo) \subseteq {h} \cup Range(Tail(todo))
    <3>1. todo \in Seq(IP) /\ todo # <<>>
      BY <1>4 DEF GatewayInv, GlobalsOK
    <3>2. /\ DOMAIN todo = 1 .. Len(todo) /\ Len(todo) \in Nat /\ h = todo[1]
          /\ DOMAIN Tail(todo) = 1 .. Len(todo) - 1
          /\ \A n \in 1 .. Len(todo) - 1 : Tail(todo)[n] = todo[n + 1]
      BY <2>2, <3>1, HeadTailProperties, LenProperties
    <3>3. ASSUME NEW n \in DOMAIN todo, n # 1 PROVE todo[n] \in Range(Tail(todo))
      <4>1. n - 1 \in DOMAIN Tail(todo) /\ Tail(todo)[n - 1] = todo[n]
        BY <3>2, <3>3
      <4> QED BY <4>1 DEF Range
    <3> QED BY <3>2, <3>3 DEF Range
  <2>6. KeyInOneList'
    <3>1. ASSUME NEW ip \in DOMAIN key2EpMap' PROVE IsInjective(key2EpMap'[ip])
      BY <2>3, <2>4 DEF OneInv, KeyInOneList
    <3>2. ASSUME NEW ip \in DOMAIN key2EpMap', NEW jp \in DOMAIN key2EpMap', ip # jp
          PROVE  Range(key2EpMap'[ip]) \cap Range(key2EpMap'[jp]) = {}
      BY <2>3, <2>4, <3>2 DEF OneInv, KeyInOneList
    <3> QED BY <3>1, <3>2 DEF KeyInOneList, IsInjective, Range
  <2>7. EndpointsListed'
    <3>1. Range(epIPs) \subseteq DOMAIN key2EpMap \cup Range(todo)
      BY <1>1 DEF OneInv, EndpointsListed
    <3>2. Range(epIPs) \subseteq DOMAIN key2EpMap' \cup Range(Tail(todo))
      BY <2>3, <2>5, <3>1
    <3> QED BY <1>1, <2>1, <3>2 DEF EndpointsListed, Range
  <2>8. RoutedListed'
    BY <1>1, <1>2 DEF RoutedListed
  <2>9. Inserts(r)'
    <3>1. ASSUME NEW ip \in DOMAIN key2EpMap' PROVE Range(key2EpMap'[ip]) = {} \/
             (ip \in DOMAIN key2EpMap /\ Range(key2EpMap'[ip]) = Range(key2EpMap[ip]))
      BY <2>3, <2>4
    <3>2. Inserts(r)
      BY DEF OneInv
    <3>3. r.pc \in {"wrap", "pick", "load", "store"} =>
             \A ip \in DOMAIN key2EpMap' : r.key \notin Range(key2EpMap'[ip])
      BY <3>1, <3>2 DEF Inserts
    <3>4. r.pc = "store" =>
             \A ip \in DOMAIN key2EpMap' : ip # r.ip => Range(r.keys) \cap Range(key2EpMap'[ip]) = {}
      BY <3>1, <3>2 DEF Inserts
    <3>5. r.pc = "store" => r.key \notin Range(r.keys) /\ IsInjective(r.keys)
      BY <3>2 DEF Inserts
    <3> QED BY <3>3, <3>4, <3>5 DEF Inserts, Range
  <2>10. Routes(r)' /\ Picks(r)'
    BY <1>1, <1>2, <2>1 DEF OneInv, Routes, Picks
  <2> QED BY <1>1, <2>6, <2>7, <2>8, <2>9, <2>10, RequestSame
<1> QED BY <1>3, <1>4

LEMMA ReceiveOne ==
    ASSUME GatewayInv, OneInv, Receive
    PROVE  OneInv'
<1>1. /\ updater = "receive" /\ updater' = "reset" /\ epIPs' = fetched[1] /\ todo' = fetched[1]
      /\ UNCHANGED <<key2EpMap, curEpIndex, req, routed>>
  BY DEF Receive
<1>2. ~req[1].clean
  BY <1>1, ClientAssumption DEF GatewayInv, Proper
<1>3. \A k \in Key : routed[k] = None
  BY <1>1 DEF OneInv, RoutedListed
<1>4. EndpointsListed'
  BY <1>1 DEF EndpointsListed, Range
<1>5. KeyInOneList' /\ Alone' /\ RoutedListed'
  BY <1>1, <1>3 DEF OneInv, KeyInOneList, Alone, RoutedListed, Range, IsInjective
<1> QED BY <1>1, <1>2, <1>3, <1>4, <1>5 DEF OneInv, Inserts, Routes, Picks, Range, IsInjective

LEMMA UpdaterOne ==
    ASSUME GatewayInv, OneInv, ControllerChanges \/ Fetch \/ Receive \/ Reset
    PROVE  OneInv'
BY ReceiveOne, ResetOne, StutterOne DEF ControllerChanges, Fetch, update

LEMMA RestartOne ==
    ASSUME GatewayInv, OneInv, Restart
    PROVE  OneInv'
<1>1. /\ epIPs' = svc /\ key2EpMap' = NoKeys(svc) /\ updater' = "receive" /\ svc \in Lists
      /\ req' = [s \in Slot |-> Idle] /\ routed' = [k \in Key |-> None]
  BY DEF Restart, GatewayInv, GlobalsOK
<1>2. /\ DOMAIN key2EpMap' = Range(epIPs')
      /\ \A ip \in DOMAIN key2EpMap' : key2EpMap'[ip] = <<>>
  BY <1>1, NoKeysType
<1>3. KeyInOneList'
  BY <1>2 DEF KeyInOneList, Range, IsInjective
<1>4. req'[1] = Idle /\ Alone' /\ \A k \in Key : routed'[k] = None
  BY <1>1, ClientAssumption, IdleIsProper DEF Alone
<1>5. EndpointsListed' /\ RoutedListed'
  BY <1>1, <1>2, <1>4 DEF EndpointsListed, RoutedListed, Range
<1> QED BY <1>3, <1>4, <1>5, IdleIsProper DEF OneInv, Inserts, Routes, Picks

-----------------------------------------------------------------------------
(* Client, gateway and producers.                                          *)

\* A request under way is the client's last.
ClientInv ==
    /\ client \in {"next", "take", "post", "await", "output", "exited"}
    /\ gen \in {"select", "deliver", "gone"}
    /\ x \in Key \cup {None} /\ (client \in {"post", "await"} => x \in Key)
    /\ client \in {"next", "post", "await"} => gen = "select"
    /\ client = "take" => gen = "deliver"
    /\ frequencies \in [Key -> Nat] /\ accepted \in [Key -> Nat]
    /\ i \in Nat /\ faults \in Nat
    /\ req[1].pc # "idle" => client \in {"await", "exited"} /\ req[1].key = x

\* What the gateway sees of a step of the system.
LEMMA GatewaySees ==
    ASSUME ClientInv, [SysNext]_sysVars
    PROVE  \/ \E s \in Slot : Handle(s)
           \/ \E k \in Key : Arrive(1, k)
           \/ \E s \in Slot : ForwardFails(s)
           \/ ControllerChanges \/ Fetch \/ Receive \/ Reset
           \/ Restart
           \/ UNCHANGED <<svc, lists, update, req, routed>>
<1>1. CASE SysNext
  <2>1. CASE ClientStep \/ Interrupted
    BY <2>1 DEF ClientStep, AskNext, TakeKey, PostKey, Count, CloseAbort, Abort, Output, Interrupted, Fault, vars, ClientInv
  <2>2. CASE GatewayStep
    BY <2>2 DEF GatewayStep, Forward, Handle
  <2>3. CASE Update \/ Restart
    BY <2>3 DEF Update
  <2> QED BY <1>1, <2>1, <2>2, <2>3 DEF SysNext
<1>2. CASE UNCHANGED sysVars
  BY <1>2 DEF sysVars, vars
<1> QED BY <1>1, <1>2

LEMMA GatewayKeeps ==
    ASSUME GatewayInv, OneInv, ClientInv, [SysNext]_sysVars
    PROVE  GatewayInv' /\ OneInv'
<1>1. ASSUME NEW s \in Slot, Handle(s) PROVE GatewayInv' /\ OneInv'
  BY <1>1, HandleTypes, HandleOne
<1>2. ASSUME NEW k \in Key, Arrive(1, k) PROVE GatewayInv' /\ OneInv'
  BY <1>2, ArriveTypes, ArriveOne, ClientAssumption
<1>3. ASSUME NEW s \in Slot, ForwardFails(s) PROVE GatewayInv' /\ OneInv'
  <2>1. s = 1 /\ req' = [req EXCEPT ![s] = Idle] /\ UNCHANGED <<svc, lists, update, routed>>
    BY <1>3, OnlyTheFirst DEF OneInv, ForwardFails
  <2> QED BY <2>1, GivesUp, GivesUpOne DEF GatewayInv, GlobalsOK
<1>4. ASSUME ControllerChanges \/ Fetch \/ Receive \/ Reset PROVE GatewayInv' /\ OneInv'
  BY <1>4, UpdaterTypes, UpdaterOne
<1>5. ASSUME Restart PROVE GatewayInv' /\ OneInv'
  BY <1>5, RestartTypes, RestartOne
<1>6. ASSUME UNCHANGED <<svc, lists, update, req, routed>> PROVE GatewayInv' /\ OneInv'
  BY <1>6, GatewayStutters, StutterOne DEF update
<1> QED BY <1>1, <1>2, <1>3, <1>4, <1>5, <1>6, GatewaySees

\* A step of the handler is one of the client's request, which it leaves to
\* another step or ends.
LEMMA HandlerMoves ==
    ASSUME GatewayInv, Alone, NEW s \in Slot, Handle(s) \/ ForwardFails(s)
    PROVE  s = 1 /\ req[1].pc # "idle" /\ (req'[1].pc # "idle" => req'[1].key = req[1].key)
<1>1. req[s].pc # "idle"
  BY DEF Handle, Route, Search, Wrap, Pick, Load, Store, ReadIndex, Bump, Post, ForwardFails
<1>2. s = 1 /\ req[1] \in RequestType /\ req \in [Slot -> RequestType] /\ 1 \in Slot
  BY <1>1, ClientAssumption DEF Alone, GatewayInv
<1>3. req'[1].pc # "idle" => req'[1].key = req[1].key
  <2>1. CASE Search(1)
    <3>1. PICK ip : req' = [req EXCEPT ![1].pc = IF ip = None THEN "wrap" ELSE "post",
                                       ![1].ip = ip, ![1].clean = (updater = "gone")]
      BY <2>1 DEF Search
    <3> QED BY <1>2, <3>1 DEF RequestType
  <2>2. CASE Pick(1)
    BY <1>2, <2>2, IdleIsProper DEF Pick, RequestType
  <2>3. CASE Wrap(1) \/ Load(1) \/ Store(1)
    BY <1>2, <2>3 DEF Wrap, Load, Store, RequestType
  <2>4. CASE ReadIndex(1) \/ Bump(1)
    BY <1>2, <2>4 DEF ReadIndex, Bump, RequestType
  <2>5. CASE Post(1) \/ ForwardFails(1)
    BY <1>2, <2>5, IdleIsProper DEF Post, ForwardFails
  <2> QED BY <1>2, <2>1, <2>2, <2>3, <2>4, <2>5 DEF Handle, Route
<1> QED BY <1>1, <1>2, <1>3

LEMMA ClientKeeps ==
    ASSUME GatewayInv, OneInv, ClientInv, [SysNext]_sysVars
    PROVE  ClientInv'
<1>0. Alone /\ req \in [Slot -> RequestType] /\ 1 \in Slot
  BY ClientAssumption DEF GatewayInv, OneInv
<1>1. CASE AskNext \/ Count \/ CloseAbort \/ Abort \/ Output
  BY <1>1 DEF ClientInv, AskNext, Count, CloseAbort, Abort, Output, Exit, vars, bounds
<1>2. CASE TakeKey
  BY <1>2 DEF ClientInv, TakeKey, vars, bounds
<1>3. CASE PostKey
  <2>1. CASE Arrive(1, x)
    <3>1. req'[1] = [Idle EXCEPT !.pc = "search", !.key = x]
      BY <1>0, <2>1 DEF Arrive
    <3>2. req'[1].key = x
      BY <3>1 DEF Idle
    <3> QED BY <1>3, <2>1, <3>2 DEF ClientInv, PostKey, Arrive
  <2>2. CASE Fault
    BY <1>3, <2>2 DEF ClientInv, PostKey, Fault
  <2> QED BY <1>3, <2>1, <2>2 DEF PostKey
<1>4. CASE Interrupted
  BY <1>4 DEF ClientInv, Interrupted, Exit, Fault
<1>5. CASE GatewayStep
  <2>1. PICK s \in Slot : Handle(s) \/ ForwardFails(s)
    BY <1>5 DEF GatewayStep, Handle, Forward
  <2>2. s = 1 /\ req[1].pc # "idle" /\ (req'[1].pc # "idle" => req'[1].key = req[1].key)
    BY <1>0, <2>1, HandlerMoves
  <2>3. UNCHANGED <<client, gen, x, i, frequencies>>
    BY <1>5 DEF GatewayStep, Forward, ForwardFails, clientVars
  <2>4. accepted' \in [Key -> Nat]
    <3>1. CASE \E r \in Slot : Forward(r)
      <4>1. PICK r \in Slot : Forward(r)
        BY <3>1
      <4>2. req[r].key \in Key
        BY <4>1 DEF Forward, Post, GatewayInv, Proper
      <4>3. accepted' = [accepted EXCEPT ![req[r].key] = @ + 1] /\ accepted \in [Key -> Nat]
        BY <4>1 DEF Forward, ClientInv
      <4> QED BY <4>2, <4>3
    <3>2. CASE UNCHANGED accepted
      BY <3>2 DEF ClientInv
    <3> QED BY <1>5, <3>1, <3>2 DEF GatewayStep, ForwardFails
  <2>5. faults' \in {faults, faults + 1}
    <3>1. ASSUME NEW r \in Slot, Search(r) \/ Wrap(r) \/ Pick(r) \/ Load(r) PROVE UNCHANGED bounds
      BY <3>1 DEF Search, Wrap, Pick, Load
    <3>2. ASSUME NEW r \in Slot, Store(r) \/ ReadIndex(r) \/ Bump(r) \/ Post(r) PROVE UNCHANGED bounds
      BY <3>2 DEF Store, ReadIndex, Bump, Post
    <3>3. ASSUME NEW r \in Slot, ForwardFails(r) PROVE faults' = faults + 1
      BY <3>3 DEF ForwardFails
    <3> QED BY <1>5, <3>1, <3>2, <3>3 DEF GatewayStep, Forward, Route, bounds
  <2> QED BY <2>2, <2>3, <2>4, <2>5 DEF ClientInv
<1>6. CASE Update /\ UNCHANGED <<clientVars, accepted>>
  BY <1>6 DEF ClientInv, Update, ControllerChanges, Fetch, Receive, Reset, clientVars, bounds
<1>7. CASE Restart /\ UNCHANGED <<clientVars, accepted>>
  <2>1. req'[1].pc = "idle"
    BY <1>0, <1>7, IdleIsProper DEF Restart
  <2> QED BY <1>7, <2>1 DEF ClientInv, Restart, clientVars
<1>8. CASE UNCHANGED sysVars
  BY <1>8 DEF ClientInv, sysVars, vars, clientVars, bounds
<1> QED BY <1>1, <1>2, <1>3, <1>4, <1>5, <1>6, <1>7, <1>8 DEF SysNext, ClientStep

GatewayAndClient == GatewayInv /\ OneInv /\ ClientInv

LEMMA SystemInitially == SysInit => GatewayAndClient
<1> SUFFICES ASSUME SysInit PROVE GatewayAndClient
  OBVIOUS
<1>1. /\ Init /\ client = "next" /\ gen = "select" /\ x = None /\ i = 0 /\ faults = 0
      /\ frequencies = [k \in Key |-> 0] /\ accepted = [k \in Key |-> 0]
  BY DEF SysInit, Init
<1>2. req[1].pc = "idle"
  BY <1>1, ClientAssumption, IdleIsProper DEF Init
<1> QED BY <1>1, <1>2, GatewayInitially, OneInitially DEF GatewayAndClient, ClientInv

LEMMA GatewayAndClientInductive == SysSpec => []GatewayAndClient
<1>1. GatewayAndClient /\ [SysNext]_sysVars => GatewayAndClient'
  BY GatewayKeeps, ClientKeeps DEF GatewayAndClient
<1> QED BY <1>1, SystemInitially, PTL DEF SysSpec

\* One client, whatever fails and is restarted: the types of gateway, client
\* and generator.
THEOREM SystemTypes == SysSpec => []SysTypeOK
<1>1. GatewayAndClient => SysTypeOK
  BY TypesFollow DEF GatewayAndClient, ClientInv, SysTypeOK
<1> QED BY <1>1, GatewayAndClientInductive, PTL

\* A key is in one producer's list at most and once, although the updater takes
\* keys from the lists between any two reads and writes of the handler.
THEOREM OneListTheorem == SysSpec => []KeyInOneList
<1>1. GatewayAndClient => KeyInOneList
  BY DEF GatewayAndClient, OneInv
<1> QED BY <1>1, GatewayAndClientInductive, PTL

\* Client, generator and gateway stay in step, whatever fails and is restarted.
THEOREM InStepTheorem == SysSpec => []InStep
<1>1. GatewayAndClient => InStep
  BY DEF GatewayAndClient, ClientInv, InStep
<1> QED BY <1>1, GatewayAndClientInductive, PTL

\* A clean request for a routed key goes where the key went.
LEMMA SameProducer ==
    ASSUME GatewayInv, OneInv, req[1].pc = "post", req[1].clean, routed[req[1].key] # None
    PROVE  req[1].ip = routed[req[1].key]
<1>1. req[1] \in RequestType /\ req[1].key \in Key
  BY ClientAssumption DEF GatewayInv, Proper
<1>2. /\ routed[req[1].key] \in DOMAIN key2EpMap /\ req[1].key \in Range(key2EpMap[routed[req[1].key]])
      /\ req[1].ip \in DOMAIN key2EpMap /\ req[1].key \in Range(key2EpMap[req[1].ip])
  BY <1>1 DEF OneInv, RoutedListed, Routes
<1> QED BY <1>2 DEF OneInv, KeyInOneList

LEMMA RoutedMoves ==
    ASSUME GatewayInv, OneInv, ClientInv, [SysNext]_sysVars, NEW k \in Key, routed[k] # None
    PROVE  routed'[k] \in {routed[k], None} /\ (routed'[k] = None => faults' # faults)
<1>1. ASSUME NEW s \in Slot, Post(s) PROVE routed'[k] = routed[k]
  <2>1. s = 1 /\ req[1].pc = "post" /\ routed \in [Key -> IP \cup {None}]
    BY <1>1, HandlerMoves DEF Post, Handle, GatewayInv, GlobalsOK, OneInv
  <2>2. CASE req[1].clean /\ req[1].key = k
    BY <1>1, <2>1, <2>2, SameProducer DEF Post
  <2>3. CASE ~(req[1].clean /\ req[1].key = k)
    BY <1>1, <2>1, <2>3 DEF Post
  <2> QED BY <2>2, <2>3
<1>2. ASSUME NEW s \in Slot, Route(s) PROVE routed' = routed
  BY <1>2 DEF Route, Search, Wrap, Pick, Load, Store, ReadIndex, Bump
<1>3. ASSUME Restart PROVE routed'[k] = None /\ faults' # faults
  BY <1>3 DEF Restart, ClientInv
<1>4. ASSUME \/ \E h \in Key : Arrive(1, h)
             \/ \E s \in Slot : ForwardFails(s)
             \/ ControllerChanges \/ Fetch \/ Receive \/ Reset
      PROVE  routed' = routed
  BY <1>4 DEF Arrive, ForwardFails, ControllerChanges, Fetch, Receive, Reset
<1> QED BY <1>1, <1>2, <1>3, <1>4, GatewaySees DEF Handle, GatewayInv, GlobalsOK

\* From the updater's end on, and until the gateway is restarted, a key goes to
\* one producer: the property the counts and message sets rest on.
THEOREM KeyStaysTheorem == SysSpec => KeyStays
<1>1. /\ GatewayAndClient /\ [SysNext]_sysVars
      => [\A k \in Key : routed[k] # None => routed'[k] \in {routed[k], None}
                                             /\ (routed'[k] = None => faults' # faults)]_vars
  BY RoutedMoves DEF GatewayAndClient
<1> QED BY <1>1, GatewayAndClientInductive, PTL DEF SysSpec, KeyStays

\* A request panics on the index only when there is no producer, or when the
\* updater took a list or was resetting since the request's search.
THEOREM FailsTheorem == SysSpec => FailsOnlyOnNewList
<1>1. ASSUME GatewayInv, OneInv, ClientInv, [SysNext]_sysVars, NEW s \in Slot,
             req[s].pc = "pick", req'[s].pc = "idle", faults' = faults
      PROVE  epIPs = <<>> \/ (updater # "receive" /\ ~req[s].clean)
  <2>1. s = 1 /\ req \in [Slot -> RequestType] /\ req[1] \in RequestType
    BY <1>1, OnlyTheFirst DEF OneInv, GatewayInv
  <2>2. CASE \E t \in Slot : Handle(t)
    <3>1. PICK t \in Slot : Handle(t)
      BY <2>2
    <3>2. t = 1
      BY <1>1, <3>1, HandlerMoves DEF OneInv
    <3>3. Pick(1)
      BY <1>1, <2>1, <3>1, <3>2 DEF Handle, Route, Search, Wrap, Load, Store, ReadIndex, Bump, Post
    <3>4. ~(curEpIndex < Len(epIPs))
      BY <1>1, <2>1, <3>3 DEF Pick, RequestType
    <3> QED BY <1>1, <2>1, <3>4 DEF OneInv, Picks
  <2>3. CASE Restart \/ \E t \in Slot : ForwardFails(t)
    BY <1>1, <2>3 DEF Restart, ForwardFails, ClientInv
  <2>4. CASE \E k \in Key : Arrive(1, k)
    BY <1>1, <2>1, <2>4 DEF Arrive
  <2>5. CASE ControllerChanges \/ Fetch \/ Receive \/ Reset
    BY <1>1, <2>5 DEF ControllerChanges, Fetch, Receive, Reset
  <2> QED BY <1>1, <2>2, <2>3, <2>4, <2>5, GatewaySees
<1>2. /\ GatewayAndClient /\ [SysNext]_sysVars
      => [\A s \in Slot :
            (req[s].pc = "pick" /\ req'[s].pc = "idle" /\ faults' = faults) =>
                epIPs = <<>> \/ (updater # "receive" /\ ~req[s].clean)]_vars
  BY <1>1 DEF GatewayAndClient
<1> QED BY <1>2, GatewayAndClientInductive, PTL DEF SysSpec, FailsOnlyOnNewList

-----------------------------------------------------------------------------
(* What the producers accepted.                                            *)

\* All of a key's accepted messages are counted, but the one in hand, and while
\* the gateway has that one no producer has accepted it.
Counted ==
    \A k \in Key :
        accepted[k] + (IF req[1].pc # "idle" /\ x = k THEN 1 ELSE 0)
              <= frequencies[k] + (IF client \in {"await", "exited"} /\ x = k THEN 1 ELSE 0)

LEMMA CountedKeeps ==
    ASSUME GatewayInv, OneInv, ClientInv, Counted, [SysNext]_sysVars
    PROVE  Counted'
<1>0. Alone /\ req \in [Slot -> RequestType] /\ 1 \in Slot
  BY ClientAssumption DEF GatewayInv, OneInv
<1>1. ASSUME UNCHANGED <<x, client, frequencies, accepted>>, req'[1].pc # "idle" => req[1].pc # "idle"
      PROVE  Counted'
  BY <1>1 DEF ClientInv, Counted
<1>2. CASE AskNext \/ TakeKey \/ CloseAbort \/ Abort
  <2>1. req[1].pc = "idle" /\ UNCHANGED <<accepted, frequencies, req>> /\ client' \notin {"await", "exited"}
        /\ client \notin {"await", "exited"}
    BY <1>2 DEF ClientInv, AskNext, TakeKey, CloseAbort, Abort, vars
  <2> QED BY <2>1 DEF ClientInv, Counted
<1>3. CASE PostKey
  <2>1. req[1].pc = "idle" /\ UNCHANGED <<accepted, frequencies, x>> /\ client' = "await" /\ client = "post"
    BY <1>3 DEF ClientInv, PostKey
  <2> QED BY <2>1 DEF ClientInv, Counted
<1>4. CASE Count
  <2>1. req[1].pc = "idle" /\ UNCHANGED <<accepted, x, req>> /\ client' = "next" /\ client = "await"
        /\ frequencies' = [frequencies EXCEPT ![x] = @ + 1] /\ x \in Key /\ frequencies \in [Key -> Nat]
        /\ accepted \in [Key -> Nat]
    BY <1>4 DEF ClientInv, Count, vars
  <2> QED BY <2>1 DEF Counted
<1>5. CASE Output \/ Interrupted
  <2>1. UNCHANGED <<accepted, x, req, frequencies>> /\ client' = "exited"
    BY <1>5 DEF Output, Interrupted, Exit, Fault, vars
  <2> QED BY <2>1 DEF ClientInv, Counted
<1>6. CASE GatewayStep
  <2>1. CASE \E s \in Slot : Forward(s)
    <3>1. PICK s \in Slot : Forward(s)
      BY <2>1
    <3>2. s = 1 /\ req[1].pc # "idle" /\ req'[1].pc = "idle"
      BY <1>0, <3>1, HandlerMoves, IdleIsProper DEF Forward, Handle, Post
    <3>3. /\ UNCHANGED <<client, x, frequencies>> /\ accepted' = [accepted EXCEPT ![x] = @ + 1]
          /\ client \in {"await", "exited"}
      BY <3>1, <3>2 DEF Forward, clientVars, ClientInv
    <3> QED BY <3>2, <3>3 DEF ClientInv, Counted
  <2>2. CASE \E s \in Slot : (Route(s) /\ UNCHANGED <<clientVars, accepted>>) \/ ForwardFails(s)
    <3>1. PICK s \in Slot : (Route(s) /\ UNCHANGED <<clientVars, accepted>>) \/ ForwardFails(s)
      BY <2>2
    <3>2. req[1].pc # "idle"
      BY <1>0, <3>1, HandlerMoves DEF Handle
    <3> QED BY <1>1, <3>1, <3>2 DEF ForwardFails, clientVars
  <2> QED BY <1>6, <2>1, <2>2 DEF GatewayStep
<1>7. CASE Restart /\ UNCHANGED <<clientVars, accepted>>
  <2>1. req'[1].pc = "idle"
    BY <1>0, <1>7, IdleIsProper DEF Restart
  <2> QED BY <1>1, <1>7, <2>1 DEF clientVars
<1>8. CASE (Update /\ UNCHANGED <<clientVars, accepted>>) \/ UNCHANGED sysVars
  <2>1. UNCHANGED <<accepted, x, client, frequencies, req>>
    BY <1>8 DEF Update, ControllerChanges, Fetch, Receive, Reset, clientVars, sysVars, vars
  <2> QED BY <1>1, <2>1
<1> QED BY <1>2, <1>3, <1>4, <1>5, <1>6, <1>7, <1>8 DEF SysNext, ClientStep

SysInv == GatewayAndClient /\ Counted

LEMMA SysInitially == SysInit => SysInv
<1> SUFFICES ASSUME SysInit PROVE SysInv
  OBVIOUS
<1>1. GatewayAndClient
  BY SystemInitially
<1>2. client = "next" /\ frequencies = [k \in Key |-> 0] /\ accepted = [k \in Key |-> 0]
  BY DEF SysInit
<1>3. req[1].pc = "idle"
  BY <1>1, <1>2 DEF GatewayAndClient, ClientInv
<1>4. Counted
  BY <1>2, <1>3 DEF Counted
<1> QED BY <1>1, <1>4 DEF SysInv

LEMMA SysInductive == SysSpec => []SysInv
<1>1. SysInv /\ [SysNext]_sysVars => SysInv'
  BY GatewayKeeps, ClientKeeps, CountedKeeps DEF SysInv, GatewayAndClient
<1> QED BY <1>1, SysInitially, PTL DEF SysSpec

\* The client's frequencies cover what the producers accepted, whatever failed
\* and was restarted on the way: none is accepted that is not counted, but the
\* one in hand.
THEOREM CountsTheorem == SysSpec => []CountsCover
<1>1. SysInv => CountsCover
  <2> SUFFICES ASSUME SysInv, NEW k \in Key
               PROVE  accepted[k] <= frequencies[k] + (IF client \in {"await", "exited"} /\ x = k THEN 1 ELSE 0)
    BY DEF CountsCover
  <2>1. /\ frequencies[k] \in Nat /\ accepted[k] \in Nat
        /\ accepted[k] + (IF req[1].pc # "idle" /\ x = k THEN 1 ELSE 0)
              <= frequencies[k] + (IF client \in {"await", "exited"} /\ x = k THEN 1 ELSE 0)
    BY DEF SysInv, Counted, GatewayAndClient, ClientInv
  <2> QED BY <2>1
<1> QED BY <1>1, SysInductive, PTL

=============================================================================
