---------------------------- MODULE PartitionMap ----------------------------
(***************************************************************************)
(* The producer's map from hot keys to partitions                          *)
(* (SLOPSProducer/internal/metadata.go): a store of key records per        *)
(* partition, an index from keys to records, and Rebalance, which a ticker *)
(* goroutine runs while other goroutines read and write the same map.      *)
(*                                                                         *)
(* Every exported method takes the read-write lock for its whole body, so  *)
(* it is one action.  Rebalance takes no lock itself: each of the methods  *)
(* it calls does, so it is a sequence of four kinds of action, and other   *)
(* goroutines may run between any two of them.                             *)
(***************************************************************************)
EXTENDS Integers, Sequences, FiniteSets, FiniteSetsExt, SequencesExt

CONSTANTS
    Key,            \* the keys clients use
    NumPartitions,  \* conf.Partitions
    Word,           \* uint64 values are 0 .. Word-1
    Nil             \* the nil *KeyRecord

ASSUME PartitionsAssumption == NumPartitions \in Nat \ {0}
ASSUME WordAssumption == Word \in Nat \ {0, 1}

Uint64    == 0 .. Word - 1
Partition == 0 .. NumPartitions - 1
KeyRecord == [Key : Key, Count : Uint64, Partition : Partition]

ASSUME NilAssumption == Nil \notin KeyRecord

VARIABLES
    store,   \* [Partition -> Seq(KeyRecord)]
    keyMap,  \* the record of each key, Nil when it has none
    rbPc,    \* where the rebalancing goroutine is
    less,    \* Rebalance's lessThanParts
    grtr,    \* the part of grtrThanParts its loop has still to visit
    cands,   \* its candidates: copies of records
    swap     \* the moves of swapMap not made yet, pairs <<record copy, destination>>

mapVars == <<store, keyMap>>
rbVars  == <<rbPc, less, grtr, cands, swap>>
pmVars  == <<store, keyMap, rbPc, less, grtr, cands, swap>>

PMInit ==
    /\ store  = [p \in Partition |-> <<>>]
    /\ keyMap = [k \in Key |-> Nil]
    /\ rbPc   = "idle"
    /\ less   = {} /\ grtr = {} /\ cands = {} /\ swap = {}

-----------------------------------------------------------------------------
(* Sizes.  partitionSize adds up the counts of a partition: it is the      *)
(* number of units <<i, n>> with n below the count of the i-th record.     *)
(* Averages are compared after multiplying both sides by NumPartitions.    *)

Units(s) == {u \in (DOMAIN s) \X Uint64 : u[2] < s[u[1]].Count}
PartitionSize(p) == Cardinality(Units(store[p]))
TotalSize == SumFunction([p \in Partition |-> PartitionSize(p)])
Excess(size) == size * NumPartitions - TotalSize   \* (size - systemAvgSize()) * NumPartitions

-----------------------------------------------------------------------------
(* The methods that change the map.                                        *)

Appended(st, rec) == [st EXCEPT ![rec.Partition] = Append(@, rec)]

AddKey(k, count, p) ==
    LET kc == [Key |-> k, Count |-> count, Partition |-> p]
    IN  /\ store'  = Appended(store, kc)
        /\ keyMap' = [keyMap EXCEPT ![k] = kc]

\* Where deleteKey may find k: the first record of k in some partition.  The
\* partitions are scanned in Go's unspecified map order.
Found(k) ==
    {f \in UNION {{p} \X (DOMAIN store[p]) : p \in Partition} :
        /\ store[f[1]][f[2]].Key = k
        /\ \A j \in 1 .. f[2] - 1 : store[f[1]][j].Key # k}

\* The stores deleteKey(k) may leave.  The record's own Partition field says
\* which slice loses position i.
StoresWithout(k) ==
    IF Found(k) = {} THEN {store}
    ELSE {[store EXCEPT ![store[f[1]][f[2]].Partition] = RemoveAt(@, f[2])] : f \in Found(k)}

\* Mutant: the record is left in the key map.
DeleteKeyFromStore(k) ==
    /\ store' \in StoresWithout(k)
    /\ keyMap' = keyMap

DeleteKey(k) ==
    /\ store'  \in StoresWithout(k)
    /\ keyMap' = IF Found(k) = {} THEN keyMap ELSE [keyMap EXCEPT ![k] = Nil]

migrateKey(k, count, p) ==
    LET kc   == [Key |-> k, Count |-> count, Partition |-> p]
        bases == IF keyMap[k] # Nil THEN StoresWithout(k) ELSE {store}
    IN  /\ store'  \in {Appended(st, kc) : st \in bases}
        /\ keyMap' = [keyMap EXCEPT ![k] = kc]

-----------------------------------------------------------------------------
(* Rebalance.                                                              *)

Abs(x) == IF x < 0 THEN -x ELSE x

\* Mutant: the loop does not see its end.
NextPartAlways(rest) == "candidates"

\* Where the loop over grtrThanParts goes once `rest' is left of it.
NextPart(rest) == IF rest = {} THEN "idle" ELSE "candidates"

\* partitionSets splits the partitions around the average.
RB_PartitionSets ==
    /\ rbPc = "idle"
    /\ less' = {p \in Partition : Excess(PartitionSize(p)) < 0}
    /\ grtr' = {p \in Partition : Excess(PartitionSize(p)) > 0}
    /\ rbPc' = NextPart(grtr')
    /\ UNCHANGED <<cands, swap, mapVars>>

\* migrationCandidates of the lowest partition left, the sizes read afresh: the flows
\* no larger than its excess.  The loop skips a partition without any.
RB_Candidates ==
    /\ rbPc = "candidates"
    /\ \E p \in grtr :
          LET diff == Excess(PartitionSize(p))
          IN  /\ \A q \in grtr : p <= q
              /\ grtr' = grtr \ {p}
              /\ cands' = {kc \in Range(store[p]) : diff > 0 /\ kc.Count * NumPartitions <= diff}
    /\ rbPc' = IF cands' = {} THEN NextPart(grtr') ELSE "match"
    /\ UNCHANGED <<less, swap, mapVars>>

\* Mutant: with the sign that compares the gap before and after the move.
StopUnlessNarrower(srcSize, dstSize, count) ==
    \/ srcSize < dstSize
    \/ srcSize - dstSize < Abs(srcSize - dstSize - 2 * count)

\* The stopping condition of targetMatch, sign as in the code.
Stop(srcSize, dstSize, count) ==
    \/ srcSize < dstSize
    \/ srcSize - dstSize < Abs(srcSize - dstSize + 2 * count)

Targets(kc) ==
    {p \in less : ~Stop(PartitionSize(kc.Partition), PartitionSize(p), kc.Count)}

\* The target that brings kc closest to the average, the first on a tie.
IsBestTarget(kc, p) ==
    LET delta(q) == Abs(Excess(PartitionSize(q) + kc.Count))
    IN  /\ p \in Targets(kc)
        /\ \A q \in Targets(kc) : delta(p) < delta(q) \/ (delta(p) = delta(q) /\ p <= q)

RB_TargetMatch ==
    /\ rbPc = "match"
    /\ swap' = {m \in cands \X less : IsBestTarget(m[1], m[2])}
    /\ cands' = {}
    /\ rbPc' = IF swap' = {} THEN NextPart(grtr) ELSE "migrate"
    /\ UNCHANGED <<less, grtr, mapVars>>

\* One call of migrateKey per pair; swapMap is ranged over in map order.
RB_Migrate ==
    /\ rbPc = "migrate"
    /\ \E m \in swap :
          /\ migrateKey(m[1].Key, m[1].Count, m[2])
          /\ swap' = swap \ {m}
    /\ rbPc' = IF swap' = {} THEN NextPart(grtr) ELSE "migrate"
    /\ UNCHANGED <<less, grtr, cands>>

Rebalance == RB_PartitionSets \/ RB_Candidates \/ RB_TargetMatch \/ RB_Migrate

-----------------------------------------------------------------------------
(* The map on its own: its API under one caller that, like LossyCount,     *)
(* adds only keys GetKey does not find, with Rebalance running beside it.  *)
(* Every uint64 count is allowed here, zero included.                      *)

PMAdd == /\ \E k \in Key, c \in Uint64, p \in Partition : keyMap[k] = Nil /\ AddKey(k, c, p)
         /\ UNCHANGED rbVars

PMDelete == /\ \E k \in Key : DeleteKey(k)
            /\ UNCHANGED rbVars

PMNext == PMAdd \/ PMDelete \/ Rebalance

PMSpec == PMInit /\ [][PMNext]_pmVars /\ WF_pmVars(Rebalance)

-----------------------------------------------------------------------------
(* Properties.                                                             *)

\* Type invariant of the map and of Rebalance's locals.
PMTypeOK ==
    /\ store  \in [Partition -> Seq(KeyRecord)]
    /\ keyMap \in [Key -> KeyRecord \cup {Nil}]
    /\ rbPc \in {"idle", "candidates", "match", "migrate"}
    /\ less \subseteq Partition /\ grtr \subseteq Partition
    /\ cands \subseteq KeyRecord
    /\ swap  \subseteq KeyRecord \X Partition

\* The two indexes describe the same flows: every stored record is the one the
\* key map has for its key and lies in the slice of its own partition, every
\* record of the key map is stored, and none twice.  AddKey, deleteKey and
\* migrateKey must keep it between them, whatever runs between Rebalance's
\* reads and its moves.
StoredIsMapped ==
    \A p \in Partition : \A i \in DOMAIN store[p] :
        store[p][i].Partition = p /\ keyMap[store[p][i].Key] = store[p][i]
MappedIsStored ==
    \A k \in Key : keyMap[k] # Nil =>
        \E i \in DOMAIN store[keyMap[k].Partition] : store[keyMap[k].Partition][i].Key = k
StoredOnce ==
    \A p \in Partition : \A i, j \in DOMAIN store[p] :
        store[p][i].Key = store[p][j].Key => i = j
StoreAgreesWithKeyMap == StoredIsMapped /\ MappedIsStored /\ StoredOnce

\* What targetMatch's stopping condition amounts to: no step of Rebalance makes a
\* partition heavier, whatever the map has become since the sizes and the
\* candidates were read.  (A stale copy may make one lighter: it takes the place
\* of the record its key was given since.)
RebalanceAddsNoWeight ==
    [][Rebalance => \A p \in Partition : PartitionSize(p)' <= PartitionSize(p)]_pmVars

\* A run of Rebalance comes to its end, however often the map changes under it.
RebalanceReturns == (rbPc # "idle") ~> (rbPc = "idle")

=============================================================================
