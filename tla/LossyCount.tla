----------------------------- MODULE LossyCount -----------------------------
(***************************************************************************)
(* The lossy counter (SLOPSProducer/cmd/count.go) working on the partition *)
(* map while Rebalance runs on a ticker.  The counter is one goroutine; it *)
(* owns its items, bucket number and N, and shares only the map.  The end  *)
(* of a bucket is a loop over the items in which every call of a map       *)
(* method is an action of its own: Rebalance may run between any two.      *)
(***************************************************************************)
EXTENDS PartitionMap

CONSTANTS
    Width,        \* messages per bucket, floor(1 / Epsilon)
    HotCount,     \* least count that passes the threshold when N = Width
    MaxBuckets    \* bound: buckets counted before the clients stop sending

ASSUME WidthAssumption == Width \in Nat \ {0}
ASSUME HotAssumption   == HotCount \in Nat
ASSUME BoundAssumption == MaxBuckets \in Nat \ {0}
ASSUME NilIsNoPartition == Nil \notin Partition
\* No count comes near the width of a uint64 within the bound.
ASSUME WordIsWide == Word > Width * MaxBuckets + MaxBuckets

VARIABLES
    lcPc,           \* where the counting goroutine is
    items,          \* the tracked keys
    currentBucket,
    N,              \* messages counted in this bucket
    idx,            \* position of the range loop in items
    newItems,       \* what the loop keeps so far
    choice,         \* MapToPartition's locals p1, p2, v1, v2, as far as it has them
    arrivals        \* history: messages counted since the key was last added to items

lcVars == <<lcPc, items, currentBucket, N, idx, newItems, choice, arrivals>>
vars   == <<pmVars, lcVars>>

Item == [Key : Key, Count : Uint64, Bucket : Nat]

Init ==
    /\ PMInit
    /\ lcPc = "receive" /\ items = <<>> /\ currentBucket = 1 /\ N = 0
    /\ idx = 1 /\ newItems = <<>> /\ choice = <<>>
    /\ arrivals = [k \in Key |-> 0]

-----------------------------------------------------------------------------
(* Counting a message.                                                     *)

Tracked(k, its) == \E i \in DOMAIN its : its[i].Key = k

\* items[index].Count++ for the key's item, or a new item.
Counted(k) ==
    IF Tracked(k, items)
    THEN [i \in DOMAIN items |->
            IF items[i].Key = k /\ \A j \in 1 .. i - 1 : items[j].Key # k
            THEN [items[i] EXCEPT !.Count = (@ + 1) % Word] ELSE items[i]]
    ELSE Append(items, [Key |-> k, Count |-> 1, Bucket |-> currentBucket - 1])

\* NewMessage hands a sampled key over on app.ch.
Receive(k) ==
    /\ lcPc = "receive"
    /\ currentBucket <= MaxBuckets
    /\ items' = Counted(k)
    /\ N' = N + 1
    /\ arrivals' = [arrivals EXCEPT ![k] = IF Tracked(k, items) THEN @ + 1 ELSE 1]
    /\ IF N + 1 >= Width
       THEN lcPc' = "scan" /\ idx' = 1 /\ newItems' = <<>>
       ELSE UNCHANGED <<lcPc, idx, newItems>>
    /\ UNCHANGED <<currentBucket, choice, pmVars>>

-----------------------------------------------------------------------------
(* The bucket turns over.                                                  *)

\* The loop's copy of the current item, its count already reduced.  uint64
\* arithmetic wraps.
rec == [items[idx] EXCEPT !.Count = (@ + Word - 1) % Word]

\* Mutant: a bucket too long.
StaysTooLong == (rec.Count + rec.Bucket + 1) % Word >= currentBucket % Word

\* Mutant: the comparison is strict.
StaysStrictly == (rec.Count + rec.Bucket) % Word > currentBucket % Word

Stays == (rec.Count + rec.Bucket) % Word >= currentBucket % Word

\* Mutant: more than the threshold is asked for.
IsHotter(count, n) == count * Width > HotCount * n

\* float64(rec.Count) >= (Support - Epsilon) * float64(N)
IsHot(count, n) == count * Width >= HotCount * n

AtItem == lcPc = "scan" /\ idx <= Len(items)

\* It stays, and is not hot or mapped already.
Keep ==
    /\ AtItem
    /\ Stays
    /\ IsHot(rec.Count, N) => keyMap[rec.Key] # Nil
    /\ newItems' = Append(newItems, rec)
    /\ idx' = idx + 1
    /\ UNCHANGED <<lcPc, items, currentBucket, N, choice, arrivals, pmVars>>

\* It stays, is hot, and GetKey returns nil: it is going to be mapped.
KeepHot ==
    /\ AtItem
    /\ Stays
    /\ IsHot(rec.Count, N)
    /\ keyMap[rec.Key] = Nil
    /\ newItems' = Append(newItems, rec)
    /\ lcPc' = "size1"
    /\ UNCHANGED <<items, currentBucket, N, idx, choice, arrivals, pmVars>>

\* MapToPartition draws two partitions and reads the size of the first.
SizeFirst ==
    /\ lcPc = "size1"
    /\ \E p1, p2 \in Partition : choice' = <<p1, p2, PartitionSize(p1)>>
    /\ lcPc' = "size2"
    /\ UNCHANGED <<items, currentBucket, N, idx, newItems, arrivals, pmVars>>

\* It reads the size of the second.
SizeSecond ==
    /\ lcPc = "size2"
    /\ choice' = Append(choice, PartitionSize(choice[2]))
    /\ lcPc' = "add"
    /\ UNCHANGED <<items, currentBucket, N, idx, newItems, arrivals, pmVars>>

\* The lighter of the two, the first on a tie.
MapToPartition == IF choice[3] > choice[4] THEN choice[2] ELSE choice[1]

AddHot ==
    /\ lcPc = "add"
    /\ AddKey(rec.Key, rec.Count, MapToPartition)
    /\ lcPc' = "scan"
    /\ idx' = idx + 1
    /\ choice' = <<>>
    /\ UNCHANGED <<items, currentBucket, N, newItems, arrivals, rbVars>>

\* Mutant: the record is forgotten and the route left.
DropItem ==
    /\ AtItem
    /\ ~Stays
    /\ idx' = idx + 1
    /\ UNCHANGED <<lcPc, items, currentBucket, N, newItems, choice, arrivals, pmVars>>

\* Mutant: the loop does not move on.
DropAgain ==
    /\ AtItem
    /\ ~Stays
    /\ DeleteKey(rec.Key)
    /\ UNCHANGED <<lcPc, items, currentBucket, N, idx, newItems, choice, arrivals, rbVars>>

\* It does not stay.
Drop ==
    /\ AtItem
    /\ ~Stays
    /\ DeleteKey(rec.Key)
    /\ idx' = idx + 1
    /\ UNCHANGED <<lcPc, items, currentBucket, N, newItems, choice, arrivals, rbVars>>

\* Mutant: N is not reset.
TurnEndKeepsN ==
    /\ lcPc = "scan" /\ idx > Len(items)
    /\ currentBucket' = currentBucket + 1
    /\ items' = newItems
    /\ newItems' = <<>>
    /\ lcPc' = "receive"
    /\ UNCHANGED <<N, idx, choice, arrivals, pmVars>>

TurnEnd ==
    /\ lcPc = "scan" /\ idx > Len(items)
    /\ currentBucket' = currentBucket + 1
    /\ N' = 0
    /\ items' = newItems
    /\ newItems' = <<>>
    /\ lcPc' = "receive"
    /\ UNCHANGED <<idx, choice, arrivals, pmVars>>

BucketStep == Keep \/ KeepHot \/ SizeFirst \/ SizeSecond \/ AddHot \/ Drop \/ TurnEnd

Next ==
    \/ \E k \in Key : Receive(k)
    \/ BucketStep
    \/ Rebalance /\ UNCHANGED lcVars

\* Both goroutines are runnable whenever they can take a step, and the Go
\* scheduler starves neither; clients need not send.
Spec == Init /\ [][Next]_vars /\ WF_vars(BucketStep) /\ WF_vars(Rebalance /\ UNCHANGED lcVars)

-----------------------------------------------------------------------------
(* Properties.                                                             *)

\* Type invariant of the counter and the map.
TypeOK ==
    /\ PMTypeOK
    /\ lcPc \in {"receive", "scan", "size1", "size2", "add"}
    /\ items \in Seq(Item) /\ newItems \in Seq(Item)
    /\ currentBucket \in 1 .. MaxBuckets + 1
    /\ N \in 0 .. Width
    /\ idx \in Nat \ {0}
    /\ choice \in Seq(Nat)
    /\ arrivals \in [Key -> Nat]

\* What surviving means.  The count loses one at every turn and is then held
\* against the bucket number, which has grown by one as well: a key stays only
\* if it arrived at least twice per bucket it has been tracked for, and its
\* unsigned count never reaches zero, let alone passes it.
SurvivorsArriveTwicePerBucket ==
    lcPc = "receive" =>
        \A i \in DOMAIN items :
            LET turns == currentBucket - 1 - items[i].Bucket
            IN  /\ items[i].Count \in 1 .. Word - 2
                /\ arrivals[items[i].Key] = items[i].Count + turns
                /\ arrivals[items[i].Key] >= 2 * turns

\* A routed key is one the counter still tracks: no key it forgot stays pinned
\* to a partition.  During the loop over the items, it is among those kept or
\* those still to be looked at.
RoutedKeysAreTracked ==
    \A k \in Key : keyMap[k] # Nil =>
        IF lcPc = "receive" THEN Tracked(k, items)
        ELSE Tracked(k, newItems) \/ \E i \in idx .. Len(items) : items[i].Key = k

\* The converse of surviving: the counter forgets a key only if it arrived, on the
\* average of the buckets since it was added, less than twice in each.
ForgottenWereSparse ==
    [][\A i \in DOMAIN items :
          ~Tracked(items[i].Key, items') =>
              arrivals[items[i].Key] < 2 * (currentBucket - items[i].Bucket)]_vars

\* Between two buckets the routes are those of the hot keys: whatever Rebalance did
\* during the turn, a kept key that passes the threshold has a route, and no route
\* was ever given to one that did not.
HotKeysAreRouted ==
    /\ (lcPc = "receive" /\ N = 0) =>
          \A i \in DOMAIN items : items[i].Count >= HotCount => keyMap[items[i].Key] # Nil
    /\ \A k \in Key : keyMap[k] # Nil => keyMap[k].Count >= HotCount

\* MapToPartition reads two sizes under two locks and AddKey takes a third: the
\* sizes it chose by are still the sizes when the key is added.
SizesStillTrue ==
    lcPc = "add" => /\ choice[3] = PartitionSize(choice[1])
                    /\ choice[4] = PartitionSize(choice[2])

\* A route's record never changes while it stands: MapToPartition and Rebalance
\* weigh a key by what it had when it was added, whatever it has sent since.
RecordsStay == [][\A k \in Key : keyMap[k] # Nil => keyMap'[k] \in {Nil, keyMap[k]}]_vars

\* A bucket's turn comes to its end: messages are counted again.
TurnCompletes == (lcPc # "receive") ~> (lcPc = "receive")

\* The route of a key: its record's partition, if it has one.
Route == [k \in Key |-> IF keyMap[k] = Nil THEN Nil ELSE keyMap[k].Partition]

RT == INSTANCE RouteTable WITH route <- Route, None <- Nil

\* Seen from NewMessage, counter, map and Rebalance together are a route table:
\* no interleaving sends a key from one partition straight to another.
RoutesLikeATable == RT!Spec

-----------------------------------------------------------------------------
\* "Rebalance rebalances the backup store": when moving some candidate to some
\* partition below the average would narrow the gap between the two, targetMatch
\* finds a destination for one.
RebalanceRelieves ==
    [][(rbPc = "match" /\ rbPc' # "match" /\
          \E kc \in cands, p \in less :
             LET gap == PartitionSize(kc.Partition) - PartitionSize(p)
             IN  gap > Abs(gap - 2 * kc.Count))
       => swap' # {}]_vars

=============================================================================
