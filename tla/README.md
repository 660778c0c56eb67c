# A formal model of SLOPS

TLA+ modules, TLC configurations and TLAPS proofs for the five Go programs of
this repository. Paths and line numbers are those of the source; `PROJECT.json`
maps every definition to its lines.

## 1. The system

    client ──HTTP──> gateway ──HTTP──> producer(s) ──Kafka──> consumer group
                        ▲
                        └──HTTP── endpoints controller <── Kubernetes API

A message has a key. Cold keys go to the partition their hash names; a producer
counts the keys it sees, and gives a *hot* key a partition of its own choice.
Because a key then changes partitions, every message carries a *message set*
header that is meant to let a consumer put a key's messages back in order.

| component | state | operations | meets |
|---|---|---|---|
| **Partition map** `SLOPSProducer/internal/metadata.go` | `store` (records per partition), `keyMap` (key to record), one RW lock | `AddKey`, `GetKey`, `DeleteKey`, `PartitionSize`, `Rebalance` | counter, handlers, ticker goroutine |
| **Lossy counter** `SLOPSProducer/cmd/count.go` | `items`, `currentBucket`, `N` (locals of one goroutine) | count a key; turn the bucket over; `MapToPartition` | `app.ch` from the handlers; the map |
| **Message sets** `internal/msgSet.go`, `SLOPSConsumer/cmd/msgSet.go` | `KV`: last set of every key, one RW lock | `AddKey`, `GetKey`, encoding | `Produce` goroutines |
| **Producer pipeline** `message.go`, `producer.go`, `main.go` | running handlers and goroutines; Kafka's input | `NewMessage`, `Produce`, `MsgsetHdrVal` | counter, map, message sets, Kafka |
| **Consumer** `SLOPSConsumer/cmd/main.go` | `ready`; marks and commits (in sarama) | `main`'s start, loop and stop, `ConsumeClaim`, `printMessage`, `HandleShiftKey`, `HandleSyncEvent` | Kafka |
| **Endpoints controller** `SLOPSController/cmd/main.go` | `ep_map`, work queue, informer store | `syncToStdOut`, `handleError`, `fetchSvc` | Kubernetes, gateway |
| **Gateway** `SLOPSGW/cmd/main.go` | `epIPs`, `key2EpMap`, `curEpIndex`: globals, no lock | `routeMsg`, fetching and updating goroutines | controller, producers, client |
| **Client** `SLOPSClient/cmd/main.go` | `i`, `frequencies`; a generator goroutine | draw a key, post it, count it; abort; signal | gateway |
| configuration, tracing, scripts, HTTP helpers | | | not modelled, see section 8 |

What is hard in it:

* `Rebalance` holds no lock across its steps; it moves records it copied earlier.
* `MapToPartition` and the check before `AddKey` are several critical sections.
* The counter does unsigned arithmetic that would wrap at zero.
* A request is answered before its message is sent, and the message is sent
  before its set is stored: three goroutines per request, none waiting for another.
* Messages are lost, processes restart with everything in memory, sessions end
  in the middle of a message, a claim's channel closes under it.
* Controller and gateway share globals between goroutines without locks.
* A message is posted twice on its way, and neither answer says whether a
  producer has it: the gateway answers 200 whatever its own post came to.
* Goroutines meet on channels without a buffer: client and its generator,
  handlers and counter, the gateway's two; `main` of the consumer waits on a
  channel another goroutine replaces.

What makes each part correct, in a sentence: the map's two indexes agree and no
key has two routes; the counter's survivors earned their place and nobody else
has a route; message sets link up and, for well-paced clients, order the stream;
the consumer commits only what it handled, hands partitions over without reading
anything twice unless something failed, and fires its events on the right
messages; the controller's table catches up with the cluster; the gateway keeps a
key with one producer, whose counter and message sets are the only ones that know
of it; and the client's counts cover what the producers accepted. `PROJECT.json` lists the hazards behind each, line by line.

## 2. Modules

| module | models | runs |
|---|---|---|
| `PartitionMap` | the map and `Rebalance`, on its own under any caller that adds only absent keys | `partition_map` (by `MCPartitionMap`) |
| `LossyCount` (extends `PartitionMap`) | counter, map and `Rebalance` together | `rebalance_doc` |
| `RequestPath` (extends `LossyCount`) | the handlers before them: sampling, `app.ch`, the lookup | `request_path` |
| `RouteTable` | abstract: a key gets a partition only while it has none | refined by `LossyCount` and `RequestPath`, used by `Producer` |
| `MessageSet` | message sets as values, what `MsgsetHdrVal` computes | |
| `MessageSetStream` | abstract: sending a message is atomic, and it may arrive again | refined by `Producer` (paced), used by `Consumer` |
| `Producer` | `NewMessage`, `Produce`, `AddKey` goroutines, Kafka's log | `producer`, `producer_paced`, `producer_order_doc` (by `MCProducer`) |
| `Consumer` | the consumer group on a log written by `MessageSetStream` | `consumer`, `consumer_done_doc` (by `MCConsumer`) |
| `Controller` | informer, work queue, worker, served table | `controller`, `controller_gone_doc` |
| `Gateway` | `routeMsg` and the two goroutines on the shared globals | `gateway_update_doc` (by `MCGateway`) |
| `System` (extends `Gateway`) | the client, the gateway, and the producers as far as they accept messages | `system` (by `MCSystem`) |
| `PartitionMapProofs`, `LossyCountProofs`, `RequestPathProofs`, `MessageSetStreamProofs`, `ProducerProofs`, `ConsumerProofs`, `ControllerProofs`, `SystemProofs` | theorems about the module each is named after (the gateway's are in `SystemProofs`) | |

The chain of abstractions is

    handlers + counter + map (RequestPath)  implements  RouteTable        (TLC and TLAPS)
    RouteTable + goroutines (Producer)      implements  MessageSetStream  (TLC and TLAPS, paced clients)
    MessageSetStream                        is totally ordered            (TLAPS)
    MessageSetStream                        is the environment of Consumer
    client + gateway                        is System, as far as the producer's answer

so that the producer is checked with any route table, and the consumer with
any well-formed stream, instead of multiplying the state spaces.

`System` ends where a producer's handler accepts a message. It could not go on to
the log with an atomic send: `message.go:58` answers before `Produce` has run, so
even this client, which sends nothing before its last message is answered, can
have two messages of a key overtake each other behind the producer's handler.
`producer_order_doc` is this very case. What holds is in two parts: a key stays
with one producer (`KeyStays`), and a producer whose requests for a key do not
overlap orders it (`SendsAtomically`); that the client paces itself enough is
claimed nowhere.

### How state and actions correspond to the code

*PartitionMap.* `store` and `keyMap` are the fields of `PartitionMap`; records
are values, since none is ever changed in place. `AddKey`, `DeleteKey`,
`migrateKey` are whole critical sections, hence single actions. `Rebalance` is
`RB_PartitionSets`, then for every overloaded partition `RB_Candidates`,
`RB_TargetMatch`, and `RB_Migrate` once per pair of `swapMap`; its locals are
`less`, `grtr`, `cands`, `swap`. Go's map order is `\E`. Sizes are sums of
counts; they are written as the cardinality of a set of units so that the
provers can use them, and `MCPartitionMap` has TLC check that the two agree
(`UnitsAddUp`). Averages are compared after multiplying by the number of
partitions, so no fractions are needed. `cands` is a set where the code has a
list, and `swap` does not group by destination: every order of migration is
allowed, the code's among them.

*LossyCount.* `Receive` is lines 27 to 37 with the test on line 40; a bucket's
turn is `Keep`, `KeepHot`, `Drop` per item with `GetKey` or `DeleteKey`, the
only call of the map, in it; `SizeFirst`, `SizeSecond`, `AddHot` are the three
critical sections of a promotion; `TurnEnd` is lines 65 to 70. `uint64` wraps at
`Word`. The threshold is the constant `HotCount`, the least count that passes
line 52 when `N = Width` (deployed: `Width` 1000, `HotCount` 10, because the
floating-point product is just above 9). `arrivals` is a history variable. The
counter also runs in vanilla mode, without `Rebalance`; those behaviours are
included, as `Rebalance` need not start before the counter is done.

*RequestPath.* A handler is a record: idle, at `app.ch <- input.Key`, or before
`GetKey`. It arrives with its body read; a body that `readJSON` refuses, or panics
on, is answered at once and changes nothing. Whether the request is sampled is drawn (`message.go:31`). `Offer` is
the rendezvous, the same step as the counter's `Receive`. `Room` ends the
messages, so that buckets stay within their bound. The route `Lookup` reads is
not kept: `Producer` takes it from there, with any route table.

*Producer.* A goroutine is a record in `produces` or `stores`; starting it adds
the record, its atomic steps change or remove it. `Header` is `MsgsetHdrVal`,
whose one lock-protected read is its only interaction; `StoreSet` is the
`AddKey` goroutine. `Send` hands the message over and Kafka appends it;
`SendUnanswered` appends it as well, but the answer is lost and the message is
sent again, and perhaps again (`Retry.Max` is 5, acknowledged by the leader only);
`Lose` is the errors channel, which `main` empties without a trace: the log event
built on line 73 of `main.go` is never sent. `Restart` empties everything but the
log: routes, sets, and the goroutines with the messages they hold, which the client
has been answered for and nobody hears of again. That `Produce` ends the process when
its trace cannot be flushed (`producer.go:139`) is one cause of it. `before` is a
history variable: how many messages of a key earlier processes accepted; what the
properties promise of messages, they promise of those above it. `Reroute` is any
step of the route table. `Paced` is a hypothesis about clients, not code: they
send nothing for a key while a goroutine of the key runs.

*Consumer.* `pc[p]` is where the claim's loop of partition `p` is: `Take`,
`PrintMessage`, `Mark`, `Return` are the statements of `ConsumeClaim` and
`printMessage`; `TakeNil` is `select` receiving from the closed channel. `log`
comes from `MessageSetStream`, in which a message may arrive twice.
`MarshalBinary` gives the fields the encoding prints, `Readable` asks for five,
because `UnmarshalBinary` scans fields separated by blanks; `Decodes` are the
keys of one word. The session is sarama's and Kafka's, as the code relies on
them: initial offset the oldest, automatic commits of what is marked (`Commit`),
a last commit when a member's last claim returns, which may fail. A rebalance is
started by Kafka (`SessionEnds`) or by a member that joins or leaves; each member
learns of it at a heartbeat (`Notice`), its claims return, `Released` is `Consume`
returning to the loop in `main`, and `Consume`, with `Setup`, the next session
once all have come back. `main[c]` is where `main` is: before or at
`<-consumer.ready` (`AwaitReady`), past it, or stopping on a signal
(`Terminate`). `Dies` ends a member anywhere (`Killed`, `TakeNil`); it is started
again by its deployment unless it was stopping. `mishap` remembers, for the
session under way, that a partition's owner died or could not commit.

*Controller.* `Change` is the informer's store, `Handler` the callbacks on lines
162 to 183, the queue is client-go's (a key once; a key added while it is worked
on comes back at `Done`). `GetByKey` and `Write` are the two accesses of
`syncToStdOut` and may be separated by anything; `GetByKeyFails` is the error it
is prepared for. `Write` deletes under the queue's key and sets under the name,
as lines 67 and 82 do. `writer` is a history variable: which object a name's entry
was last set from, since objects of one name in two namespaces share it. `MaxRetries`
is 5 in the code and 1 in the run.

*Gateway.* The three globals are variables, every access of a handler or the
updater is a step. Where two accesses collide, the Go runtime may stop the
process: `Restart`. It is also what a nil answer does to the updater.

*System.* `client` is where the client's `main` is, `gen` where its generator
goroutine is; a send on a channel without a buffer and its receipt are one step
(`AskNext`, `TakeKey`). `PostKey` reaches the gateway, or fails; `Count` runs
when the handler is idle again, which is the answer, an error, or the end of the
gateway. `Forward` is the gateway's post together with the handler `NewMessage` of
the producer it reaches, up to its answer: `accepted` counts these messages.
`ForwardFails` is the error that is logged, after which the client is answered all the
same. `Restart` empties the gateway; a producer's restart changes nothing here. The
rate limiter only delays.

## 3. Runs and what they show

| run | states | bounds | shows |
|---|---|---|---|
| `partition_map` | 72,123 | 3 keys, 2 partitions, counts 0 to 2 | indexes agree; no step of `Rebalance` makes a partition heavier, and it returns |
| `request_path` | 52,595 | 1 handler, 2 keys, 2 partitions, buckets of 4, 3 buckets | all of section 4's counter properties, that every request is answered, and the refinement of `RouteTable` |
| `producer` | 580,094 | 1 key, 3 messages, 2 route changes, 1 loss, 2 resends (of one message or of two), 1 restart, both modes | what headers say holds under every interleaving; one header and one place per message; the running process loses nothing it answered for; delivery |
| `producer_paced` | 297,156 (by symmetry) | 2 keys, 3 partitions, 3 messages per key, 3 route changes, 1 resend | total order, and the refinement of `MessageSetStream` |
| `consumer` | 645,782 | 1 key, 2 partitions, 2 members, 3 messages, 1 rebalance or kill beside those the members cause themselves | at least once, twice only after a mishap, shift events on the right messages, no rest with work undone, everything handled, every member up or gone |
| `controller` | 93,088 | 2 objects of one name, 4 changes, 2 errors, 1 restart | no change of an existing object overlooked; the table comes to show each, but those given up on |
| `system` | 1,367,967 (by symmetry) | 2 keys, 4 messages, lists of two producers, one and none, 1 change of the list, 2 faults anywhere | a key is in one list, and stays; the client's counts cover what is accepted; nobody hangs; a request fails only on an empty list or one replaced under it |

Five further runs check one sentence of the repository each and find it violated
(section 6).

Why the bounds are enough: a hazard of the map needs two keys on one partition and
one on the other (3 keys, 2 partitions), and counts 0, 1 and more; a key needs
three turns to be promoted, kept and dropped again; two messages that overlap
and a third that builds on their sets show every stale read of a set; three
messages end a set and go on in the next one. Of the consumer's disturbances
one comes from outside, but members also stop, leave and kill themselves on a
closed channel, which are not counted: hand-overs with a commit, with a failed
one and with none follow one another. One retry distinguishes retrying from
giving up. One handler is enough to have counter, `Rebalance` and a waiting
request meet, and counter keeps the order of arrivals anyway; the proofs cover
any number. Two faults can hit any two steps of a request or of two, and four messages
give one before, between and after. Keys are interchangeable for the client, the gateway
and the paced producer, so `system` and `producer_paced`, which check no
liveness, take one of each set of permuted states. Every bound is a constant named
`Max...`, and each stops an actor outside the code (clients, Kafka, the cluster)
or a failure, never a step of the code. Once they are used up, producer,
consumer, controller, gateway and system have nothing left to do, hence
`CHECK_DEADLOCK FALSE` there; `request_path` says so as well, though `Rebalance` can always run.
The partition map and the counter alone are checked for deadlock. Whether
anybody hangs before that is asked by a property of its own: `NobodyHangs`,
`EveryRequestIsAnswered`, `MembersSettle`.

In `partition_map` the caller may add a count of 0, as the exported API allows;
the counter never does (`SurvivorsArriveTwicePerBucket`), so `RB_Migrate` fires
only in `partition_map`. There stale candidates do bring deleted keys back, and
the indexes agree all the same.

## 4. Properties

Every module with a state has one type invariant (the map's is part of the
counter's, the gateway's of the system's). Five properties, marked (proved), have a theorem (section 7) and no
run of their own: they hold without fairness, and runs check what builds on them.
The others:

* `StoreAgreesWithKeyMap`: every stored record is the one the key map has, in
  the slice of its partition, and none twice.
* `RebalanceAddsNoWeight`: what the stopping condition amounts to, whatever the map
  has become since the sizes and candidates were read: no step of `Rebalance` makes a
  partition heavier. It may make one lighter: a stale copy that weighs nothing takes
  the place of the record its key was given since.
* `RebalanceReturns`: the loop ends however the map changes under it.
* `SurvivorsArriveTwicePerBucket`: the count loses one at each turn *and* the
  bucket it is compared with grows by one, so staying takes two arrivals per
  bucket; and the unsigned count never wraps.
* `ForgottenWereSparse`, the converse: what a turn leaves out arrived less than
  twice per bucket since it was added, wherever in the list it stood and whatever
  of the loop was already done.
* `HotKeysAreRouted`: when a turn is over every kept key that passes the threshold
  has a route, given in this turn or an earlier one, and no stored record ever has
  a count below the threshold.
* `RoutedKeysAreTracked`, also in the middle of the loop over the items.
* `SizesStillTrue`: three critical sections of a promotion act as one. It rests on
  `Rebalance` never moving weight; with the other sign in `targetMatch` it fails,
  and so does `RoutesLikeATable`.
* `RecordsStay`: a route keeps partition and weight until it goes. The weights that
  `MapToPartition` and `Rebalance` compare are the counts at promotion,
  whatever a key has sent since.
* `TurnCompletes`, `EveryRequestIsAnswered`: the turn of the bucket ends, and a
  handler that waits on `app.ch` behind it is served.
* `SetsAreWellLinked` (proved), `HeaderNamesPartition`, `SourceWasAnnounced`: what a
  consumer may still rely on when requests overlap.
* `TotalOrder`, `SendsAtomically`: the full promise, for paced clients.
* `VanillaHashes` (proved): without SLOPS a message is where its key hashes to.
* `NothingVanishes`: a message the running process has answered for is in a
  goroutine, in the log or came back as an error, at every moment; `Delivery` adds
  that it leaves the goroutine, unless the process is restarted first. Neither says
  that anybody learns of a message that is not delivered.
* `SentOnce`: the copies of a message, made when an answer is lost, perhaps after
  other sends and a restart, carry the header of the first; without a lost
  answer there is one copy.
* `CommittedIsHandled`; and `EverythingIsHandled`, however members come and go.
* `ShiftsAreSetEnds`: `printMessage` compares partitions, sets are told apart by their
  indices; the two agree. `SyncsFollowAShift` (proved) says which messages the other event
  fires on, which is not what its comment says (section 6).
* `RedeliveryNeedsMishap`: a rebalance or a graceful stop loses no mark; only a
  death or a failed last commit makes the group read something twice.
* `MembersSettle`: `main` never waits for ever on a `ready` channel that has been
  replaced, and a member told to stop leaves the group.
* `RestIsEarned`: the safety side of the two. Wherever no claim, member or `main` has
  a step to take and the group cannot form, every message is handled, and every `main` is
  past its channel or has left: nobody waits for a session that does not come,
  and no partition is without a claim.
* `StaleIsUnderWay`, `Converges`; `RestIsCurrent` (proved): an object that exists is
  shown (what its name's entry holds is what it has now, or another object of the name
  was written there last) unless it is under way; in the end, or with queue, rate
  limiter, informer and worker at rest, unless it was given up on. Of deleted objects
  they say nothing: `controller_gone_doc` does.
* `KeyInOneList`: however the updater's reset falls between a handler's search and its
  insertion. `KeyStays`: once the updater has ended, a key goes to one producer until
  the gateway restarts; while it resets, keys move, and that is what lines 92 to 96
  are for. `FailsOnlyOnNewList`: an index is out of range only when there is no
  producer, or the updater took a list, or was resetting, since the request's search.
  All for the client's one request in flight.
* `CountsCover`: the producers accepted no message that the client has not counted.
  The converse fails by design of the code (a failed post is counted), and the log may hold
  more, since a producer's message may be sent again (`SentOnce`).
* `InStep` (proved): `main` asks a generator that selects and takes from one that
  delivers, and posts only when its last request is done with, whatever fails
  or is restarted.
* `NobodyHangs`: in every state the client or the handler it waits for can go on.

Each property of a passing run has a mutant, next to the definition it changes
and marked `Mutant`: the definition with a plausible bug, under which TLC finds
the property violated.

## 5. Fairness

Fairness is weak but for one action, and only of code that runs by itself: the goroutine that turns the
bucket over and the one that rebalances (`BucketStep`, `Rebalance`), the
`Produce` and `AddKey` goroutines (`Progress`), the consumer's claims, `main`,
heartbeats and the loop that calls `Consume` again (`Work` in `Consumer`; a dead
member is restarted by its deployment), handlers, rate limiter and worker of the controller (`Work`), the
gateway's goroutines and handlers. The Go scheduler starves no runnable
goroutine, and no lock is held for ever. Clients, Kafka's rebalances, changes of
the cluster, losses, errors and crashes are under no fairness. `System` has none at
all: it checks safety.

The one strong fairness is `Offer` in `RequestPath`: the counter receives again
and again but turns its bucket over in between, and Go serves the senders waiting
on a channel in order of arrival.

`Terminate` always leaves one member: with none, nothing would be left to read.

Fairness on the disjunction of several goroutines' steps (`Progress`, `Work`) is
enough because each of those steps is finite in number
between two events from outside.

## 6. Where the code and its words differ

| run | the repository says | the code does |
|---|---|---|
| `rebalance_doc` | "Rebalance rebalances the backup store." (`metadata.go:149`) | the condition on line 225 skips every destination for a flow with a count above 0: `Rebalance` never changes anything |
| `producer_order_doc` | message sets allow "a total ordering on each stream" (`msgSet.go:13`) | sending and storing run in goroutines nobody waits for; overlapping requests end up out of order within a set |
| `consumer_done_doc` | "Should return when `session.Context()` is done." (`main.go:174`) | `select` may take nil from the closed channel; `printMessage` dereferences it |
| `controller_gone_doc` | "Endpoint %s does not exist anymore" (`main.go:66`) | deletes under `namespace/name` what was stored under the name |
| `gateway_update_doc` | "Go away and keep updating the endpoints." (`main.go:86`) | the goroutine receives once and ends |

A sixth has a theorem and no run: `HandleSyncEvent` "happens when a stream (key) has
started a new message set on this partition after having shifted from another
partition" (`SLOPSConsumer/cmd/main.go:260-263`). Line 233 tests the header's source only,
so the event is fired on the old partition as well, for the message that ends
the old set, and again for every later message of the new set: `SyncsTheorem` says on
exactly which. A counterexample takes a single message that moves its key, and the handler
only logs.

Smaller things seen on the way: the comment on `addKey` (`metadata.go:37-39`)
says only `Rebalance` calls it and holds the lock; `AddKey` and `migrateKey` call
it and hold the lock, and `Rebalance` holds none. The README's `P2C` and `LOSSY`
variables are not read anywhere. `readJSON` (`helpers.go:57-58`, and the
gateway's copy, `main.go:260-261`) means to return a message for a body that ends
early, but takes the offset from `syntaxError`, which is nil in that case: the
handler panics and the answer is 500. `writeJSON` sets the content type after the
header has been written (`helpers.go:29-30`). The producer registers for
interrupts (`main.go:53-54`) on a channel nobody reads, so SIGINT does not end it.

## 7. What is proved

By TLAPS, for every set of keys, partitions, members, producers and objects and
every bound, from the named assumptions on constants only:

| theorem | property |
|---|---|
| `PartitionMapProofs!PMTypeCorrect`, `PMAgreement`, `PMAddsNoWeight` | `PMTypeOK`, `StoreAgreesWithKeyMap`, `RebalanceAddsNoWeight` |
| `LossyCountProofs!TypeCorrect`, `Agreement`, `NoOrphanRoute`, `SizesCurrent`, `SurvivorsEarnedIt` | `TypeOK` and the counter's four invariants |
| `LossyCountProofs!ForgottenTheorem`, `HotTheorem` | `ForgottenWereSparse`, `HotKeysAreRouted` |
| `LossyCountProofs!RecordsTheorem`, `Refinement` | `Spec => RecordsStay`, `Spec => RoutesLikeATable` |
| `RequestPathProofs!RPSurvivorsEarnedIt`, `RPForgottenTheorem`, `RPNoOrphanRoute`, `RPHotTheorem`, `RPRecordsTheorem`, `RPRefinement` | `SurvivorsArriveTwicePerBucket`, `ForgottenWereSparse`, `RoutedKeysAreTracked`, `HotKeysAreRouted`, `RecordsStay`, `RoutesLikeATable` under `RPSpec`, with any number of handlers |
| `MessageSetStreamProofs!StreamIsOrdered` | `TotalOrder` of the abstract stream |
| `ProducerProofs!TypeCorrect`, `WellLinkedSets`, `HeadersFit`, `VanillaTheorem`, `AnnouncedTheorem` | `TypeOK`, `SetsAreWellLinked`, `HeaderNamesPartition`, `VanillaHashes`, `SourceWasAnnounced`, paced or not |
| `ProducerProofs!VanishesTheorem`, `OnceTheorem` | `NothingVanishes`, `SentOnce`, paced or not |
| `ProducerProofs!AtomicTheorem`, `OrderTheorem` | `SendsAtomically` and `TotalOrder`, when clients are paced, in every behaviour in which nothing is lost and the process stays up |
| `ConsumerProofs!TypeCorrect`, `AtLeastOnce`, `ShiftsTheorem`, `SyncsTheorem` | `TypeOK`, `CommittedIsHandled`, `ShiftsAreSetEnds`, `SyncsFollowAShift` |
| `ConsumerProofs!RedeliveryTheorem` | `Spec => RedeliveryNeedsMishap` |
| `ConsumerProofs!RestTheorem` | `RestIsEarned` |
| `ControllerProofs!ControllerTypes`, `StaleTheorem` | `TypeOK`, `StaleIsUnderWay` |
| `ControllerProofs!RestTheorem` | `RestIsCurrent` |
| `SystemProofs!GatewayTypes`, `SystemTypes` | the gateway's `TypeOK`, with any number of requests in flight; `SysTypeOK` |
| `SystemProofs!OneListTheorem`, `KeyStaysTheorem`, `FailsTheorem` | `KeyInOneList`, `KeyStays`, `FailsOnlyOnNewList` |
| `SystemProofs!InStepTheorem`, `CountsTheorem` | `InStep`, `CountsCover` |

*The map.* `PMIndInv` is the type invariant, the agreement of the indexes, and
`SwapIsWeightless`. Agreement is inductive by itself once restated for a pair of
values (`MapOK`), because `deleteKey` finds a key's one record where the record
says it is; adding and deleting are the two lemmas everything else cites.
`StopUnlessWeightless` is arithmetic: `srcSize >= dstSize` and a count above 0
make the stopping condition true.

`RebalanceAddsNoWeight` adds up to this: a migration deletes the record the key has
now, which takes units away (`RemovingAddsNone`), and appends one of count 0, which
adds none (`WeightlessAddsNone`); `MigratingAddsNone` puts the two together.

*The counter.* `SurvivorsArriveTwicePerBucket` speaks of the counter between
bucket turns only; the invariant must hold inside the loop. `IndInv` therefore
splits the items into those passed and those to come: `ItemsInv` for the old
list, `KeptInv` for the new one (whose items have had one turn more), `ControlInv`
for the counter's control and the bound on every count (the messages received so far, which
`WordIsWide` keeps below the word size), `PendingInv` for the item being mapped.
`Weighted` says no stored record has count 0; with `StopUnlessWeightless` it
follows that `swap` stays empty, so `Rebalance` reads only, sizes stay true and
the refinement's only steps are `AddHot` (a `Promote`) and `Drop` (a `Demote`, or
a stutter when the key has no route). `RecordsStay` follows as well: the only step
that could give a routed key another record is a migration.

What a turn leaves out and what it promotes is decided item by item but judged when
the turn ends, and `IndInv` says nothing of the items dropped. `TurnInv` adds it:
`DroppedInv`, every item passed is in the new list or arrived too seldom (an item's
arrivals are its count and the turns it has seen, so a failed comparison bounds
them), and `PromotedInv`, every kept item that passes the threshold is
routed, or is the one now being mapped. The loop tests the threshold against `N`,
which a turn leaves at `Width` (`ControlInv`); `HotMeans` makes of that the comparison
with `HotCount`. Deleting a later item's route spoils no kept one, because the items'
keys differ (`KeptAreOthers`). The run has `HotCount` 1, which every kept key
passes; the theorem has no such bound.

*The request path.* A step of a handler is a `Receive` or leaves the counter's
variables alone, so `IndInv` is inductive under `RPNext` by the same lemmas, and
`StepRefines` is cited for the refinement; `HandlersInv` adds that a waiting
handler's key is one.

*The stream.* Total order is not inductive: a new message must come after *all*
earlier ones, and all that is known when it is sent is the last set. `StreamInv`
therefore says that the last set is the one the last message carries, and that no
message is beyond it (`UpToLast`), that a set is a first one or leads on by one
index from another partition, its messages on one of the two (`Linked`), that a set
that leads on is carried by a message on the partition it comes from
(`Announced`), and that a key's next message is where the set of the one before
leads (`Consecutive`). `InitKeeps` and `StepKeeps` are cited again, with other
constants and variables, by the producer and the consumer.

*The producer.* `SetsInv` says of every set there is, wherever it is (stored,
about to be stored, in a goroutine, in the log, lost), that it is well linked,
and of every message that its set fits its partition. Two goroutines working from
the same old set break neither: that is why these hold without pacing.
`CarriedInv` is about provenance: what is stored or about to be is carried by a
message whose header is decided, and a carried set continues a carried set; since
messages are only ever added to those decided (`HandoverDecides`, `LoseDecides`:
they move from goroutine to log or are lost), this survives losses. A restart begins
anew with no set and no message decided, which needs to know that no message
of an earlier process has a number above `before` (`SeqInv`).

`NothingVanishes` is inductive as it stands, once each step is seen to move a
message from one place to the next (`MovedOn`). `SentOnce` is not: a copy is made by
a goroutine that has sent before, so `OnceInv` adds that a message has one goroutine
at most, that a goroutine whose message is in the log waits to retry and
carries the set it has there, and `SeqInv` that no number beyond `sent` is in use. With
`repeats = 0` nobody retries. A restart takes the goroutines, not the log or `sent`, so a
number is never given out again.

For the refinement, the last set and the number of messages of
`MessageSetStream` are read off the log. `PacedInv` says, key by key, that the log
has every message but the one under way (`AllArrived`), that one goroutine at
most runs, and how far it is (`Phase`): before `Header` the stored set is the
last one in the log; after it, its header and target are what an atomic send would
have chosen, and its set is stored or the only one about to be (`Settled`); when
the answer was lost, its message is in the log. `Elsewhere` disposes of the other
keys. The first handover is then a `Send`, a second one a `Repeat`, everything
else a stutter, and total order comes from the stream's invariant. `Undisturbed`
(no loss, no restart, not in vanilla mode) is a condition on behaviours, so the
theorems hold whatever the bounds on losses and restarts, up to the first one.

*The consumer.* `ProgressInv` orders committed, marked and delivered offsets and
says what has been handled at each place of the claim's loop. Redelivery is the
harder one: it happens at the start of a session and depends on how the last one
ended, member by member. `SessionInv` says that between two messages a
claim's mark is its position; that, in a session without a mishap, the mark of a
claim that has returned is, too, and its partition is committed that far once
all of its owner's claims have returned; and that a member that is joining or has left has no claim running. `ReturnLeaves`, `DiesLeaves` and `MemberMoves` are one lemma per way a
session changes; when all members have joined, every claim has returned and
every partition falls under the first clause.

`EventInv` says that the two events were called for exactly the handled messages
that pass `printMessage`'s tests. That those tests, which compare partitions
only, find the ends of sets is a fact about the stream, and follows from
`StreamInv`.

`RestIsEarned` needs to know why somebody always has a step. `MembersInv`: who
is joining finds the group forming; a `main` on the `ready` channel is joining, so the
next `Setup` closes it; a session that has ended without a rebalance, and a member
that has left, belong to a `main` told to stop; and not all are. `OwnersInv`: a
running member's claims have not returned, and a formed group has an owner with a session for
every partition. At rest, then, the group is formed, every session runs or has
left, every claim is in `select` at the end of its log, and `ProgressInv` says that
all before it is handled.

*The controller.* `StaleIsUnderWay` needs the discipline of the work queue:
a dirty key is in the queue or being worked on, the queue holds each dirty key
once and never the one worked on (`Queued`), and what the worker has read is what
the store has unless the key will come back (`Worker`). At rest nothing is left of
these, which is `RestIsCurrent`. With `writer` the induction needs no more: a write of the
key's own object makes it shown or under way, and one of another object excuses it,
until its own key is written again.

*Gateway and system.* `GatewayInv` holds for any number of requests. With one
(`OneInv`), the key a handler is about to insert is in no list and the list it
loaded shares no key with another one, whatever the updater resets in between
(`Inserts`); every listed producer has a list, or the updater is about to make one
(`EndpointsListed`); and a key routed since the updater's end is found in its
producer's list, so it is routed there again (`RoutedListed`, `Routes`). `ClientInv`
says that the client has one request at a time, and where its generator is while it
asks, takes, posts and waits (`InStep`). `Counted` is `CountsCover` with the
message the gateway has in hand added to those accepted.

Assumptions worth knowing: `WordIsWide` (no count can reach the width of a
`uint64` within the bound on buckets), `NilIsNoPartition`, `NameAssumption` (an
object's name is no "namespace/name": it has no slash), `ClientAssumption` (at least one request may be in flight),
`NoSetAssumption` (and, in it, `StreamAssumption`: "no set" is not a set). The rest say that
constants are of the right kind.

Only model-checked: everything under fairness (`RebalanceReturns`,
`TurnCompletes`, `EveryRequestIsAnswered`, `Delivery`, `EverythingIsHandled`,
`MembersSettle`, `Converges`) and what is stated with ENABLED (`NobodyHangs`),
which the prover does not do. Every other property of a passing run has a theorem,
and behind most of these stands one that has: `NothingVanishes`, `RestIsEarned`,
`RestIsCurrent`, `InStep` say that the code is nowhere at rest with work undone; the
fairness that takes it there is TLC's.

## 8. Not modelled, and why

* **Several requests in flight at the gateway**: the repository's client has one.
  With two, `KeyInOneList` and `FailsOnlyOnNewList` fail: search and insertion,
  and the increment of the index, are not atomic. (`Gateway` has the constant
  `MaxInFlight` to show it.)
* **Configuration, tracing, deployment, the HTTP answers**: start-up parsing,
  output only; a request is modelled from where its body has been read.
* **The client's other generator**, `TargetedGenerator`, which nothing calls, and
  what `output` writes of the frequencies.
* **sarama, Kafka, client-go**: external, modelled as the code uses them. A message
  sent again is modelled; batches that overtake each other inside sarama are not.
* **hash**: a constant function from keys to partitions.
* **Restarts and order**: a restarted producer begins every key at set 0 again, so
  `TotalOrder` is stated within one life of the process.
* **Order from client to log**: not claimed, because it does not hold (section 2).
* **Two handlers in `request_path`**: TLC takes more than four minutes; the theorems hold
  for any number.
* **The gateway's start-up panic** when the controller does not answer the first
  request: the process ends at once and nothing follows from it.

## 9. Plan

Done, in order: partition map; counter with the map and the route table; message
sets and producer; consumer; controller; gateway; repeated messages; the
consumer's start-up, hand-over and stop; the handlers before the counter; client,
gateway and several producers together; the proofs of section 7.

Next, extending the model:

1. Controller composed with gateway (`fetchSvc` as `svc`): how far a change of
   producers gets.
2. The gateway with several requests in flight, and the properties that remain.
3. Two handlers in `request_path`, with a coarser `Rebalance` (the implementation of
   `RouteTable` allows it).

Next, proving more:

1. The refinement by the system of a stream the client sends by itself.
2. A predicate on states in place of the ENABLED of `NobodyHangs`.

## 10. Running it

    tlc -workers 2 -config RequestPath.cfg RequestPath
    tlapm LossyCountProofs.tla

Every run takes about two minutes or less, all the proofs together about ten.
