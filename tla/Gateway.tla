------------------------------ MODULE Gateway ------------------------------
(***************************************************************************)
(* The gateway (SLOPSGW/cmd/main.go).  A request for a key goes to the     *)
(* producer the key was given to first; a new key is given to the next     *)
(* producer in turn.  The lists are globals without a lock: every access a *)
(* handler or the updater makes is a step of its own, and what Go makes of *)
(* two that collide (the runtime throws, a slice header is read torn) is   *)
(* the end of the process.                                                 *)
(***************************************************************************)
EXTENDS Integers, Sequences, FiniteSets, SequencesExt

CONSTANTS
    Key,          \* the keys clients use
    IP,           \* addresses of producers
    Lists,        \* the answers the controller may give: sequences of IP
    None,         \* searchKeyInMap's "nil"; no address
    NoAnswer,     \* getEndpoints() = nil
    MaxInFlight,  \* requests at a time
    MaxRequests,  \* bound: requests
    MaxChanges,   \* bound: changes of the controller's answer
    MaxFaults     \* bound: restarts, and what else fails

ASSUME ListsAssumption == Lists \subseteq Seq(IP)
ASSUME NoneAssumption == None \notin IP /\ NoAnswer \notin Lists
ASSUME BoundAssumption == {MaxInFlight, MaxRequests, MaxChanges, MaxFaults} \subseteq Nat

VARIABLES
    svc,        \* what the controller answers
    epIPs,
    key2EpMap,  \* [subset of IP -> Seq(Key)]
    curEpIndex, \* counted from zero
    fetched,    \* what the fetching goroutine offers on epChannel: <<>> or <<answer>>
    updater,    \* "receive", "reset" or "gone"
    todo,       \* endpoints whose list the updater has still to reset
    req,        \* routeMsg's locals, per request in flight
    requests, changes, faults,
    routed      \* history: where a key went since the updater is gone

lists  == <<epIPs, key2EpMap, curEpIndex>>
update == <<fetched, updater, todo>>
bounds == <<requests, changes, faults>>
vars   == <<svc, lists, update, req, bounds, routed>>

Slot == 1 .. MaxInFlight
Idle == [pc |-> "idle", key |-> None, ip |-> None, keys |-> <<>>, index |-> 0, clean |-> FALSE]

NoKeys(eps) == [ip \in Range(eps) |-> <<>>]

\* main up to the goroutines.
Init ==
    /\ svc \in Lists
    /\ epIPs = svc /\ key2EpMap = NoKeys(svc) /\ curEpIndex = 0
    /\ fetched = <<>> /\ updater = "receive" /\ todo = <<>>
    /\ req = [s \in Slot |-> Idle]
    /\ routed = [k \in Key |-> None]
    /\ requests = 0 /\ changes = 0 /\ faults = 0

-----------------------------------------------------------------------------
(* Controller, fetcher and updater.                                        *)

ControllerChanges ==
    /\ changes < MaxChanges
    /\ svc' \in Lists \ {svc}
    /\ changes' = changes + 1
    /\ UNCHANGED <<lists, update, req, requests, faults, routed>>

\* At once, and at every tick: getEndpoints, then wait for a receiver.  (A nil
\* answer costs a restart, so it is bounded with them.)
Fetch ==
    /\ fetched = <<>>
    /\ \/ fetched' = <<svc>>
       \/ faults < MaxFaults /\ fetched' = <<NoAnswer>>
    /\ UNCHANGED <<svc, lists, updater, todo, req, bounds, routed>>

Receive ==
    /\ updater = "receive"
    /\ fetched # <<>> /\ fetched # <<NoAnswer>>
    /\ epIPs' = fetched[1]
    /\ todo' = fetched[1]
    /\ updater' = "reset"
    /\ fetched' = <<>>
    /\ UNCHANGED <<svc, key2EpMap, curEpIndex, req, bounds, routed>>

\* "This would clean up the map": the keys of one endpoint are forgotten.  The
\* goroutine ends after the last.
Reset ==
    /\ updater = "reset"
    /\ IF todo = <<>>
       THEN updater' = "gone" /\ UNCHANGED <<key2EpMap, todo>>
       ELSE /\ key2EpMap' = [ip \in DOMAIN key2EpMap \cup {Head(todo)} |->
                               IF ip = Head(todo) THEN <<>> ELSE key2EpMap[ip]]
            /\ todo' = Tail(todo)
            /\ UNCHANGED updater
    /\ UNCHANGED <<svc, epIPs, curEpIndex, fetched, req, bounds, routed>>

-----------------------------------------------------------------------------
(* routeMsg.                                                               *)

Arrive(s, k) ==
    /\ req[s].pc = "idle"
    /\ requests < MaxRequests
    /\ requests' = requests + 1
    /\ req' = [req EXCEPT ![s] = [Idle EXCEPT !.pc = "search", !.key = k]]
    /\ UNCHANGED <<svc, lists, update, changes, faults, routed>>

\* Mutant: the search looks at the first key of every list.
HoldersAtHead(k) ==
    {ip \in DOMAIN key2EpMap : key2EpMap[ip] # <<>> /\ Head(key2EpMap[ip]) = k}

Holders(k) == {ip \in DOMAIN key2EpMap : k \in Range(key2EpMap[ip])}

\* searchKeyInMap.  Map order is unspecified.
Search(s) ==
    /\ req[s].pc = "search"
    /\ \E ip \in IF Holders(req[s].key) = {} THEN {None} ELSE Holders(req[s].key) :
          req' = [req EXCEPT ![s].pc = IF ip = None THEN "wrap" ELSE "post",
                             ![s].ip = ip, ![s].clean = (updater = "gone")]
    /\ UNCHANGED <<svc, lists, update, bounds, routed>>

\* Mutant: off by one.
WrapLate(s) ==
    /\ req[s].pc = "wrap"
    /\ curEpIndex' = IF curEpIndex > Len(epIPs) THEN 0 ELSE curEpIndex
    /\ req' = [req EXCEPT ![s].pc = "pick"]
    /\ UNCHANGED <<svc, epIPs, key2EpMap, update, bounds, routed>>

Wrap(s) ==
    /\ req[s].pc = "wrap"
    /\ curEpIndex' = IF curEpIndex >= Len(epIPs) THEN 0 ELSE curEpIndex
    /\ req' = [req EXCEPT ![s].pc = "pick"]
    /\ UNCHANGED <<svc, epIPs, key2EpMap, update, bounds, routed>>

\* epIPs[curEpIndex], or a panic that ends the request (gin recovers).
Pick(s) ==
    /\ req[s].pc = "pick"
    /\ req' = [req EXCEPT ![s] = IF curEpIndex < Len(epIPs)
                                THEN [@ EXCEPT !.pc = "load", !.ip = epIPs[curEpIndex + 1]]
                                ELSE Idle]
    /\ UNCHANGED <<svc, lists, update, bounds, routed>>

\* insertKeyInMap reads the endpoint's list; it has none to append to when the
\* endpoint is not in the map ...
Load(s) ==
    /\ req[s].pc = "load"
    /\ req' = IF req[s].ip \in DOMAIN key2EpMap
              THEN [req EXCEPT ![s].pc = "store", ![s].keys = key2EpMap[req[s].ip]]
              ELSE [req EXCEPT ![s].pc = "read"]
    /\ UNCHANGED <<svc, lists, update, bounds, routed>>

\* Mutant: insertKeyInMap's arguments swapped.
StoreAddress(s) ==
    /\ req[s].pc = "store"
    /\ key2EpMap' = [key2EpMap EXCEPT ![req[s].ip] = Append(req[s].keys, req[s].ip)]
    /\ req' = [req EXCEPT ![s].pc = "read", ![s].keys = <<>>]
    /\ UNCHANGED <<svc, epIPs, curEpIndex, update, bounds, routed>>

\* ... and puts back the list with the key.
Store(s) ==
    /\ req[s].pc = "store"
    /\ key2EpMap' = [key2EpMap EXCEPT ![req[s].ip] = Append(req[s].keys, req[s].key)]
    /\ req' = [req EXCEPT ![s].pc = "read", ![s].keys = <<>>]
    /\ UNCHANGED <<svc, epIPs, curEpIndex, update, bounds, routed>>

\* curEpIndex++ reads ...
ReadIndex(s) ==
    /\ req[s].pc = "read"
    /\ req' = [req EXCEPT ![s].pc = "bump", ![s].index = curEpIndex]
    /\ UNCHANGED <<svc, lists, update, bounds, routed>>

\* ... and writes.
Bump(s) ==
    /\ req[s].pc = "bump"
    /\ curEpIndex' = req[s].index + 1
    /\ req' = [req EXCEPT ![s].pc = "post"]
    /\ UNCHANGED <<svc, epIPs, key2EpMap, update, bounds, routed>>

\* http.Post to the producer, and the answer.
Post(s) ==
    /\ req[s].pc = "post"
    /\ routed' = IF req[s].clean THEN [routed EXCEPT ![req[s].key] = req[s].ip] ELSE routed
    /\ req' = [req EXCEPT ![s] = Idle]
    /\ UNCHANGED <<svc, lists, update, bounds>>

-----------------------------------------------------------------------------
(* The process ends and is started again.                                  *)

Reading(s) == req[s].pc \in {"search", "wrap", "pick", "load", "read"}
Writing(s) == req[s].pc \in {"wrap", "store", "bump"}

\* Two goroutines are at the globals, one of them writing.
Collision ==
    \/ \E s, t \in Slot : s # t /\ Writing(s) /\ (Reading(t) \/ Writing(t))
    \/ (updater = "reset" \/ (updater = "receive" /\ fetched # <<>>)) /\ \E s \in Slot : Reading(s) \/ Writing(s)

\* A collision may end the process; the updater dereferences a nil answer.
Restart ==
    /\ faults < MaxFaults
    /\ Collision \/ (updater = "receive" /\ fetched = <<NoAnswer>>)
    /\ epIPs' = svc /\ key2EpMap' = NoKeys(svc) /\ curEpIndex' = 0
    /\ fetched' = <<>> /\ updater' = "receive" /\ todo' = <<>>
    /\ req' = [s \in Slot |-> Idle]
    /\ routed' = [k \in Key |-> None]
    /\ faults' = faults + 1
    /\ UNCHANGED <<svc, requests, changes>>

Route(s)  == Search(s) \/ Wrap(s) \/ Pick(s) \/ Load(s) \/ Store(s) \/ ReadIndex(s) \/ Bump(s)
Handle(s) == Route(s) \/ Post(s)

Next ==
    \/ ControllerChanges
    \/ Fetch \/ Receive \/ Reset
    \/ \E s \in Slot : Handle(s) \/ \E k \in Key : Arrive(s, k)
    \/ Restart

\* The goroutines run, and the controller answers again and again.
Spec ==
    /\ Init /\ [][Next]_vars
    /\ WF_vars(Fetch) /\ WF_vars(Receive) /\ WF_vars(Reset)
    /\ WF_vars(\E s \in Slot : Handle(s))

-----------------------------------------------------------------------------
(* Properties.                                                             *)

\* Type invariant.
TypeOK ==
    /\ svc \in Lists /\ epIPs \in Lists
    /\ DOMAIN key2EpMap \subseteq IP
    /\ \A ip \in DOMAIN key2EpMap : key2EpMap[ip] \in Seq(Key)
    /\ curEpIndex \in Nat
    /\ updater \in {"receive", "reset", "gone"} /\ todo \in Seq(IP)
    /\ fetched \in {<<>>, <<NoAnswer>>} \cup {<<eps>> : eps \in Lists}
    /\ req \in [Slot -> [pc : {"idle", "search", "wrap", "pick", "load", "store", "read", "bump", "post"},
                         key : Key \cup {None}, ip : IP \cup {None}, keys : Seq(Key),
                         index : Nat, clean : BOOLEAN]]
    /\ routed \in [Key -> IP \cup {None}]

\* One request at a time, a key is in one endpoint's list at most, and once:
\* whatever the updater forgets while a handler is between its reads and writes.
KeyInOneList ==
    /\ \A ip, jp \in DOMAIN key2EpMap :
          ip # jp => Range(key2EpMap[ip]) \cap Range(key2EpMap[jp]) = {}
    /\ \A ip \in DOMAIN key2EpMap : IsInjective(key2EpMap[ip])

\* From the updater's end on, until the gateway is restarted, a key goes to one
\* producer, as counting and message sets, which every producer keeps for
\* itself, need it to.  (Before its end the updater makes the gateway forget.)
KeyStays ==
    [][\A k \in Key : routed[k] # None => routed'[k] \in {routed[k], None}
                                          /\ (routed'[k] = None => faults' # faults)]_vars

\* A request panics on the index only if there is no producer, or the updater
\* took a list or was still resetting when the request searched or since: index
\* and list fit again for every request that comes after.
FailsOnlyOnNewList ==
    [][\A s \in Slot :
          (req[s].pc = "pick" /\ req'[s].pc = "idle" /\ faults' = faults) =>
              epIPs = <<>> \/ (updater # "receive" /\ ~req[s].clean)]_vars

\* "Go away and keep updating the endpoints": while the gateway runs, its list
\* becomes the controller's when that stops changing.
FollowsController == <>[](epIPs = svc)

=============================================================================
