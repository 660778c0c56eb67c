------------------------------ MODULE Producer ------------------------------
(***************************************************************************)
(* From an HTTP request to the Kafka log (SLOPSProducer/cmd/message.go and *)
(* producer.go).  NewMessage picks a partition and starts a goroutine that *)
(* runs Produce; Produce reads the key's message set, starts a goroutine   *)
(* that stores the new one, and hands the message to Kafka.  Nothing waits *)
(* for anything else: the request is answered as soon as the goroutine is  *)
(* started.                                                                *)
(*                                                                         *)
(* Which keys are routed is left to a RouteTable, which the lossy counter  *)
(* and the partition map implement (LossyCount).  Kafka's log is external: *)
(* a message given to the asynchronous producer is appended to its         *)
(* partition, more than once if the broker's answer is lost, or lost after *)
(* the retries.  Nothing reports a message that does not reach the log.    *)
(***************************************************************************)
EXTENDS MessageSet

CONSTANTS
    None,        \* RouteTable: not routed
    HashOf,      \* [Key -> Partition], hash()
    Modes,       \* the values of app.vanilla explored
    Paced,       \* TRUE: clients leave a key alone until its last message is in the log
    MaxMsgs,     \* bound: messages per key
    MaxRoutes,   \* bound: changes of the route table
    MaxLost,     \* bound: messages Kafka loses
    MaxRepeats,  \* bound: times a message is sent again because the broker's answer was lost
    MaxCrashes   \* bound: restarts of the process

ASSUME HashAssumption == HashOf \in [Key -> Partition]
ASSUME BoundAssumption ==
    /\ {MaxMsgs, MaxRoutes, MaxLost, MaxRepeats, MaxCrashes} \subseteq Nat
    /\ Paced \in BOOLEAN /\ Modes \subseteq BOOLEAN

VARIABLES
    vanilla,  \* app.vanilla, read from the environment at start-up
    route,    \* the route table
    sets,     \* app.messageSets
    produces, \* running Produce goroutines
    stores,   \* running messageSets.AddKey goroutines
    log,      \* Kafka
    sent,     \* messages NewMessage accepted, per key
    lost,     \* messages Kafka gave up on: they come back on the error channel
    before,   \* history: messages earlier processes accepted, per key
    routes, repeats, crashes   \* count towards their bounds

bounds == <<routes, repeats, crashes>>
vars   == <<vanilla, route, sets, produces, stores, log, sent, lost, before, bounds>>

RT == INSTANCE RouteTable

Init ==
    /\ vanilla \in Modes
    /\ RT!Init
    /\ sets = [k \in Key |-> NoSet]
    /\ produces = {} /\ stores = {} /\ lost = {}
    /\ log  = [p \in Partition |-> <<>>]
    /\ sent = [k \in Key |-> 0] /\ before = [k \in Key |-> 0]
    /\ routes = 0 /\ repeats = 0 /\ crashes = 0

\* Nothing of k is under way.
Quiet(k) == \A g \in produces \cup stores : g.key # k

-----------------------------------------------------------------------------

\* The lossy counter changes a route.  main starts it in vanilla mode as well,
\* to track the partition weights.
Reroute ==
    /\ routes < MaxRoutes
    /\ RT!Next
    /\ routes' = routes + 1
    /\ UNCHANGED <<vanilla, sets, produces, stores, log, sent, lost, before, repeats, crashes>>

\* A request for k: the partition is the route's, or else the hash's, and the
\* rest is left to a goroutine.
NewMessage(k) ==
    /\ sent[k] < MaxMsgs
    /\ Paced => Quiet(k)
    /\ LET p == IF vanilla \/ route[k] = None THEN HashOf[k] ELSE route[k]
           g == [key |-> k, seq |-> sent[k] + 1, pc |-> "header", target |-> p, set |-> NoSet]
       IN  produces' = produces \cup {g}
    /\ sent' = [sent EXCEPT ![k] = @ + 1]
    /\ UNCHANGED <<vanilla, route, sets, stores, log, lost, before, bounds>>

\* Produce up to the handover to Kafka: MsgsetHdrVal reads the stored set and
\* starts the goroutine that will replace it.  A vanilla message gets no header.
Header(g) ==
    /\ g.pc = "header"
    /\ LET last == sets[g.key]
           set  == IF vanilla THEN NoSet ELSE MsgsetHdrVal(last, g.target)
           to   == IF vanilla THEN g.target ELSE SendTo(last, g.target)
       IN  /\ produces' = (produces \ {g}) \cup {[g EXCEPT !.pc = "send", !.target = to, !.set = set]}
           /\ stores' = IF vanilla \/ ~MustStore(last, g.target) THEN stores
                        ELSE stores \cup {[key |-> g.key, seq |-> g.seq, set |-> set]}
    /\ UNCHANGED <<vanilla, route, sets, log, sent, lost, before, bounds>>

\* Mutant: an existing set is not replaced.
StoreSetOnce(s) ==
    /\ sets' = [sets EXCEPT ![s.key] = IF @ = NoSet THEN s.set ELSE @]
    /\ stores' = stores \ {s}
    /\ UNCHANGED <<vanilla, route, produces, log, sent, lost, before, bounds>>

\* messageSets.AddKey, whenever its goroutine gets to run.
StoreSet(s) ==
    /\ sets' = [sets EXCEPT ![s.key] = s.set]
    /\ stores' = stores \ {s}
    /\ UNCHANGED <<vanilla, route, produces, log, sent, lost, before, bounds>>

Message(g) == [key |-> g.key, seq |-> g.seq, set |-> g.set]

\* Mutant: the message is dropped when Kafka's input is busy.
SendIfReady(g) ==
    /\ g.pc \in {"send", "retry"}
    /\ produces' = produces \ {g}
    /\ log' \in {log, [log EXCEPT ![g.target] = Append(@, Message(g))]}
    /\ UNCHANGED <<vanilla, route, sets, stores, sent, lost, before, bounds>>

Appended(g) == [log EXCEPT ![g.target] = Append(@, Message(g))]

\* Produce hands its message over, and Kafka appends it.
Send(g) ==
    /\ g.pc \in {"send", "retry"}
    /\ log' = Appended(g)
    /\ produces' = produces \ {g}
    /\ UNCHANGED <<vanilla, route, sets, stores, sent, lost, before, bounds>>

\* Mutant: a retried message is made anew.
SendUnansweredAnew(g) ==
    /\ g.pc \in {"send", "retry"}
    /\ repeats < MaxRepeats
    /\ repeats' = repeats + 1
    /\ log' = Appended(g)
    /\ produces' = (produces \ {g}) \cup {[g EXCEPT !.pc = "header"]}
    /\ UNCHANGED <<vanilla, route, sets, stores, sent, lost, before, routes, crashes>>

\* The broker appends it and the answer is lost: it is going to be sent again,
\* up to Retry.Max times.
SendUnanswered(g) ==
    /\ g.pc \in {"send", "retry"}
    /\ repeats < MaxRepeats
    /\ repeats' = repeats + 1
    /\ log' = Appended(g)
    /\ produces' = (produces \ {g}) \cup {[g EXCEPT !.pc = "retry"]}
    /\ UNCHANGED <<vanilla, route, sets, stores, sent, lost, before, routes, crashes>>

\* Kafka gives up on it.  main counts the error, and writes nothing: the log
\* event it builds is never sent.
Lose(g) ==
    /\ g.pc \in {"send", "retry"}
    /\ Cardinality(lost) < MaxLost
    /\ lost' = lost \cup {Message(g)}
    /\ produces' = produces \ {g}
    /\ UNCHANGED <<vanilla, route, sets, stores, log, sent, before, bounds>>

\* The process is restarted: everything but Kafka was in memory, messages that
\* had been answered for included.
Restart ==
    /\ crashes < MaxCrashes
    /\ crashes' = crashes + 1
    /\ route' = [k \in Key |-> None]
    /\ sets' = [k \in Key |-> NoSet]
    /\ produces' = {} /\ stores' = {}
    /\ before' = sent
    /\ UNCHANGED <<vanilla, log, sent, lost, routes, repeats>>

Next ==
    \/ Reroute
    \/ \E k \in Key : NewMessage(k)
    \/ \E g \in produces : Header(g) \/ Send(g) \/ SendUnanswered(g) \/ Lose(g)
    \/ \E s \in stores : StoreSet(s)
    \/ Restart

\* The Go scheduler lets every goroutine run; clients, counter and failures
\* owe nothing.
Progress == \/ \E g \in produces : Header(g) \/ Send(g)
            \/ \E s \in stores : StoreSet(s)

Spec == Init /\ [][Next]_vars /\ WF_vars(Progress)

-----------------------------------------------------------------------------
(* Properties.                                                             *)

Logged(k) == UNION {{log[p][i] : i \in {j \in DOMAIN log[p] : log[p][j].key = k}} : p \in Partition}

\* Messages of k the running process has decided the header of, in the log or not.
Decided(k) == {m \in Logged(k) \cup lost : m.key = k /\ m.seq > before[k]}
              \cup {Message(g) : g \in {h \in produces : h.key = k /\ h.pc # "header"}}

\* Every message set of k the running process has: stored, about to be stored, or
\* in a header.
SetsOf(k) == ({sets[k]} \cup {s.set : s \in {t \in stores : t.key = k}} \cup {m.set : m \in Decided(k)})
             \ {NoSet}

\* Type invariant.
TypeOK ==
    /\ vanilla \in BOOLEAN
    /\ RT!TypeOK
    /\ sets \in [Key -> MessageSet \cup {NoSet}]
    /\ produces \subseteq [key : Key, seq : Nat, pc : {"header", "send", "retry"}, target : Partition,
                            set : MessageSet \cup {NoSet}]
    /\ stores \subseteq [key : Key, seq : Nat, set : MessageSet]
    /\ log \in [Partition -> Seq([key : Key, seq : Nat, set : MessageSet \cup {NoSet}])]
    /\ sent \in [Key -> Nat] /\ before \in [Key -> Nat]
    /\ lost \subseteq [key : Key, seq : Nat, set : MessageSet \cup {NoSet}]
    /\ bounds \in Nat \X Nat \X Nat

\* However the goroutines interleave, a set is the first of its key or leads
\* from one partition to another, its index one above its source's.
WellLinked(s) ==
    \/ s = FirstSet(s.DestPartition)
    \/ /\ s.SrcPartition \in Partition \ {s.DestPartition}
       /\ s.SrcMsgsetIndex \in Nat
       /\ s.DestMsgsetIndex = s.SrcMsgsetIndex + 1
SetsAreWellLinked ==
    \A k \in Key : \A s \in SetsOf(k) \cup ({m.set : m \in Logged(k)} \ {NoSet}) : WellLinked(s)

\* The consumer recognises the message that starts a new set by its being on
\* another partition than its set (HandleShiftKey): a message is on its set's
\* partition, or it is on the set's source partition.
HeaderNamesPartition ==
    \A p \in Partition : \A i \in DOMAIN log[p] :
        LET s == log[p][i].set
        IN  s # NoSet => p = s.DestPartition \/ (p = s.SrcPartition /\ s.DestMsgsetIndex > 0)

\* A set never continues one that was not announced: some message of the key, of
\* the same process, carries the set its source names.
SourceWasAnnounced ==
    \A k \in Key : \A s \in SetsOf(k) :
        s.SrcPartition # -1 =>
            \E m \in Decided(k) : /\ m.set # NoSet
                                 /\ m.set.DestPartition = s.SrcPartition
                                 /\ m.set.DestMsgsetIndex = s.SrcMsgsetIndex

\* Without SLOPS every message is on its key's hash partition.
VanillaHashes ==
    vanilla => \A p \in Partition : \A i \in DOMAIN log[p] : p = HashOf[log[p][i].key]

\* A running process loses no message it has answered for, but to Kafka: the
\* message is in a goroutine's hands, in the log, or came back as an error.  A
\* restart loses what the goroutines hold, and nothing is left to say so.
NothingVanishes ==
    \A k \in Key : \A n \in 1 .. sent[k] :
        \/ n <= before[k]
        \/ \E m \in produces \cup Logged(k) \cup lost : m.key = k /\ m.seq = n

\* A message has one header, however often it is handed over and whatever went
\* down with the process, and is in the log once unless a broker's answer was lost.
SentOnce ==
    \A p, q \in Partition : \A i \in DOMAIN log[p], j \in DOMAIN log[q] :
        LET m == log[p][i]  n == log[q][j]
        IN  (m.key = n.key /\ m.seq = n.seq) =>
               m.set = n.set /\ (repeats = 0 => p = q /\ i = j)

\* A message NewMessage answered for reaches the log or comes back as an error,
\* unless the process is restarted first.
Delivery ==
    \A k \in Key, n \in 1 .. MaxMsgs :
        (sent[k] >= n) ~> (n <= before[k] \/ \E m \in Logged(k) \cup lost : m.key = k /\ m.seq = n)

\* The promise of message sets on the log itself (msgSet.go): set indices, and
\* offsets within a set, order a key's messages as they were sent.
TotalOrder == ~vanilla => InTotalOrder(log)

LastSet(k) ==
    IF Logged(k) = {} THEN NoSet
    ELSE (CHOOSE m \in Logged(k) : \A n \in Logged(k) : n.seq <= m.seq).set

MS == INSTANCE MessageSetStream
      WITH last <- [k \in Key |-> LastSet(k)], sent <- [k \in Key |-> Cardinality(Logged(k))]

\* When clients leave a key alone until its message is in the log, handler,
\* Produce goroutine and AddKey goroutine together are one atomic send.
SendsAtomically == MS!Spec

=============================================================================
