-------------------------- MODULE LossyCountProofs --------------------------
(***************************************************************************)
(* The lossy counter with the partition map and Rebalance, for every       *)
(* number of keys and partitions and every bucket width: type correctness, *)
(* the safety invariants, and that the whole implements a RouteTable.      *)
(***************************************************************************)
EXTENDS LossyCount, PartitionMapProofs

-----------------------------------------------------------------------------
(* The inductive invariant, in parts.                                      *)

\* Messages counted so far bound every count.
Total == Width * (currentBucket - 1) + N

\* The counter's control: N is the bucket's width from the message that fills
\* the bucket to the end of the loop over the items.
ControlInv ==
    /\ Total <= Width * MaxBuckets
    /\ lcPc = "receive" => N < Width /\ newItems = <<>>
    /\ lcPc # "receive" => N = Width /\ currentBucket <= MaxBuckets
    /\ lcPc = "scan" => idx <= Len(items) + 1
    /\ lcPc \in {"size1", "size2", "add"} => idx <= Len(items)

\* An item that survived t turns has lost t counts and has at least t left.
Earned(it, t) ==
    /\ it.Bucket < currentBucket
    /\ it.Count \in 1 .. Total
    /\ it.Count >= t
    /\ arrivals[it.Key] = it.Count + t

\* The same of the next state.
EarnedNext(it, t) ==
    /\ it.Bucket < currentBucket'
    /\ it.Count \in 1 .. Total'
    /\ it.Count >= t
    /\ arrivals'[it.Key] = it.Count + t

Passed == IF lcPc = "scan" THEN idx - 1 ELSE idx

ItemsInv ==
    /\ \A i \in DOMAIN items : Earned(items[i], currentBucket - 1 - items[i].Bucket)
    /\ \A i, j \in DOMAIN items : items[i].Key = items[j].Key => i = j

KeptInv ==
    /\ \A n \in DOMAIN newItems : Earned(newItems[n], currentBucket - newItems[n].Bucket)
    /\ \A n \in DOMAIN newItems : \E i \in DOMAIN items :
          i <= Passed /\ items[i].Key = newItems[n].Key
    /\ \A n, m \in DOMAIN newItems : newItems[n].Key = newItems[m].Key => n = m

\* Nothing stored is without weight, so Rebalance has nothing to move.
Weighted ==
    /\ \A p \in Partition : \A i \in DOMAIN store[p] : store[p][i].Count # 0
    /\ \A kc \in cands : kc.Count # 0
    /\ swap = {}

\* From KeepHot to AddHot the key has no record, and the sizes read are current.
PendingInv ==
    /\ lcPc \in {"size1", "size2", "add"} =>
          keyMap[rec.Key] = Nil /\ rec.Count # 0 /\ Tracked(rec.Key, newItems)
    /\ lcPc \in {"size2", "add"} =>
          /\ choice[1] \in Partition /\ choice[2] \in Partition
          /\ choice[3] = PartitionSize(choice[1])
    /\ lcPc = "size2" => Len(choice) = 3
    /\ lcPc = "add" => Len(choice) = 4 /\ choice[4] = PartitionSize(choice[2])

IndInv ==
    /\ TypeOK /\ ControlInv /\ ItemsInv /\ KeptInv
    /\ StoreAgreesWithKeyMap /\ Weighted /\ PendingInv /\ RoutedKeysAreTracked

-----------------------------------------------------------------------------
(* Arithmetic: within the bound nothing wraps.                             *)

LEMMA ModWord ==
    ASSUME NEW x \in Uint64
    PROVE  x % Word = x /\ (x + Word) % Word = x
BY WordAssumption DEF Uint64

LEMMA BoundIsNat == Width * MaxBuckets \in Nat /\ Word > Width * MaxBuckets + MaxBuckets
BY WidthAssumption, BoundAssumption, WordIsWide

\* A count within the bound can be incremented in its word.
LEMMA Fits ==
    ASSUME NEW c \in Nat, NEW t \in Nat, c <= t, t + 1 <= Width * MaxBuckets
    PROVE  c + 1 \in Uint64
<1>1. PICK b \in Nat : b = Width * MaxBuckets
  BY BoundIsNat
<1>2. b >= t + 1 /\ Word > b + MaxBuckets
  BY <1>1, BoundIsNat
<1> QED BY <1>2, BoundAssumption, WordAssumption DEF Uint64

\* One more bucket adds Width to the bound on counts, which stays below Word.
LEMMA TotalGrows ==
    ASSUME NEW b \in 1 .. MaxBuckets
    PROVE  /\ Width * (b - 1) \in Nat /\ Width * b \in Nat
           /\ Width * (b - 1) + Width = Width * b
           /\ Width * b <= Width * MaxBuckets
<1>1. Width \in Nat /\ b \in Nat /\ b - 1 \in Nat /\ MaxBuckets \in Nat /\ MaxBuckets - b \in Nat
  BY WidthAssumption, BoundAssumption
<1>2. Width * (b - 1) + Width = Width * b
  BY <1>1
<1>3. Width * MaxBuckets = Width * b + Width * (MaxBuckets - b)
  BY <1>1
<1>4. \A x, y \in Nat : x * y \in Nat
  OBVIOUS
<1>5. Width * (b - 1) \in Nat /\ Width * b \in Nat /\ Width * (MaxBuckets - b) \in Nat
  BY <1>1, <1>4
<1> QED BY <1>2, <1>3, <1>5

-----------------------------------------------------------------------------
(* Initially.                                                              *)

LEMMA Initially == Init => IndInv
<1> SUFFICES ASSUME Init PROVE IndInv
  OBVIOUS
<1>1. PMTypeOK /\ StoreAgreesWithKeyMap
  BY PMInitially DEF Init, PMIndInv, PMInv
<1>2. \A p \in Partition : DOMAIN store[p] = {}
  BY DEF Init, PMInit
<1>3. DOMAIN items = {} /\ DOMAIN newItems = {}
  BY DEF Init
<1>4. Total = 0 /\ 0 <= Width * MaxBuckets
  BY WidthAssumption, BoundIsNat DEF Init, Total
<1>5. TypeOK
  BY <1>1, WidthAssumption, BoundAssumption DEF Init, TypeOK
<1>6. ControlInv
  BY <1>4, WidthAssumption DEF Init, ControlInv
<1>7. Weighted
  BY <1>2 DEF Init, PMInit, Weighted
<1> QED BY <1>1, <1>3, <1>5, <1>6, <1>7
        DEF Init, PMInit, IndInv, ItemsInv, KeptInv, PendingInv, RoutedKeysAreTracked

-----------------------------------------------------------------------------
(* The item the loop is at.                                                *)

LEMMA RecProperties ==
    ASSUME IndInv, idx \in DOMAIN items, lcPc # "receive"
    PROVE  /\ rec \in Item
           /\ rec.Key = items[idx].Key /\ rec.Bucket = items[idx].Bucket
           /\ rec.Count = items[idx].Count - 1
           /\ rec.Bucket \in 0 .. currentBucket - 1
           /\ Stays <=> rec.Count >= currentBucket - rec.Bucket
           /\ Stays => Earned(rec, currentBucket - rec.Bucket)
<1> DEFINE it == items[idx]
<1>1. it \in Item /\ Earned(it, currentBucket - 1 - it.Bucket)
  BY DEF IndInv, TypeOK, ItemsInv
<1>2. Total \in Nat /\ Total <= Width * MaxBuckets
  <2>1. currentBucket \in 1 .. MaxBuckets /\ N \in Nat
    BY WidthAssumption DEF IndInv, TypeOK, ControlInv
  <2> QED BY <2>1, TotalGrows DEF IndInv, ControlInv, Total
<1>3. /\ it.Count \in Nat /\ it.Bucket \in Nat /\ currentBucket \in Nat /\ Word \in Nat
      /\ it.Count >= 1 /\ it.Count <= Total /\ it.Bucket < currentBucket
      /\ it.Count >= currentBucket - 1 - it.Bucket
      /\ arrivals[it.Key] = it.Count + (currentBucket - 1 - it.Bucket)
      /\ currentBucket <= MaxBuckets
  BY <1>1, <1>2, WordAssumption DEF Earned, Item, Uint64, IndInv, TypeOK, ControlInv
<1>4. it.Count - 1 \in Uint64 /\ (it.Count - 1) + it.Bucket \in Uint64 /\ currentBucket \in Uint64
  BY <1>2, <1>3, BoundIsNat, BoundAssumption DEF Uint64
<1>5. (it.Count + Word - 1) % Word = it.Count - 1
  <2>1. it.Count + Word - 1 = (it.Count - 1) + Word
    BY <1>3
  <2> QED BY <2>1, <1>4, ModWord
<1>6. /\ rec.Key = it.Key /\ rec.Bucket = it.Bucket /\ rec.Count = it.Count - 1
      /\ rec \in Item
  BY <1>1, <1>4, <1>5 DEF rec, Item
<1>7. Stays <=> (it.Count - 1) + it.Bucket >= currentBucket
  BY <1>4, <1>6, ModWord DEF Stays
<1> HIDE DEF it
<1>8. Stays => Earned(rec, currentBucket - rec.Bucket)
  BY <1>2, <1>3, <1>6, <1>7 DEF Earned
<1> QED BY <1>3, <1>6, <1>7, <1>8 DEF it

-----------------------------------------------------------------------------
(* Rebalance runs, and changes nothing but its own locals.                 *)

LEMMA RebalanceMovesNothing ==
    ASSUME IndInv, Rebalance
    PROVE  PMTypeOK' /\ StoreAgreesWithKeyMap' /\ Weighted' /\ UNCHANGED mapVars
<1>1. PMInv
  BY DEF IndInv, TypeOK, PMInv
<1>2. PMInv'
  BY <1>1, RebalanceKeepsPMInv
<1>3. UNCHANGED mapVars /\ swap' = {}
  <2>1. CASE RB_PartitionSets \/ RB_Candidates
    BY <2>1 DEF RB_PartitionSets, RB_Candidates, mapVars, IndInv, Weighted
  <2>2. CASE RB_Migrate
    BY <2>2 DEF RB_Migrate, IndInv, Weighted
  <2>3. CASE RB_TargetMatch
    <3> SUFFICES ASSUME NEW m \in swap' PROVE FALSE
      BY <2>3 DEF RB_TargetMatch, mapVars
    <3>1. m \in cands \X less
      BY <2>3 DEF RB_TargetMatch
    <3>2. m[1].Count # 0
      BY <3>1 DEF IndInv, Weighted
    <3>3. m[1].Count = 0
      <4>1. SwapIsWeightless
        BY DEF IndInv, Weighted, SwapIsWeightless
      <4>2. SwapIsWeightless'
        BY <1>1, <4>1, RebalanceKeepsSwapWeightless
      <4> QED BY <4>2 DEF SwapIsWeightless
    <3> QED BY <3>2, <3>3
  <2> QED BY <2>1, <2>2, <2>3 DEF Rebalance
<1>4. \A kc \in cands' : kc.Count # 0
  <2>1. CASE RB_Candidates
    <3>1. PICK p \in grtr : cands' \subseteq Range(store[p])
      BY <2>1 DEF RB_Candidates
    <3>2. p \in Partition
      BY <1>1 DEF PMInv, PMTypeOK
    <3> QED BY <3>1, <3>2 DEF Range, IndInv, Weighted
  <2>2. CASE RB_PartitionSets \/ RB_TargetMatch \/ RB_Migrate
    <3>1. cands' \subseteq cands
      BY <2>2 DEF RB_PartitionSets, RB_TargetMatch, RB_Migrate
    <3> QED BY <3>1 DEF IndInv, Weighted
  <2> QED BY <2>1, <2>2 DEF Rebalance
<1>5. Weighted'
  BY <1>3, <1>4 DEF IndInv, Weighted, mapVars
<1> QED BY <1>2, <1>3, <1>5 DEF PMInv

LEMMA RebalanceStep ==
    ASSUME IndInv, Rebalance, UNCHANGED lcVars
    PROVE  IndInv'
<1>1. PMTypeOK' /\ StoreAgreesWithKeyMap' /\ Weighted' /\ UNCHANGED mapVars
  BY RebalanceMovesNothing
<1>2. TypeOK'
  BY <1>1 DEF IndInv, TypeOK, lcVars
<1>3. ControlInv'
  BY DEF IndInv, ControlInv, Total, lcVars
<1>4. ItemsInv'
  BY DEF IndInv, ItemsInv, Earned, Total, lcVars
<1>5. KeptInv'
  BY DEF IndInv, KeptInv, Earned, Total, Passed, lcVars
<1>6. PendingInv'
  BY <1>1 DEF IndInv, PendingInv, PartitionSize, rec, Tracked, lcVars, mapVars
<1>7. RoutedKeysAreTracked'
  BY <1>1 DEF IndInv, RoutedKeysAreTracked, Tracked, lcVars, mapVars
<1> QED BY <1>1, <1>2, <1>3, <1>4, <1>5, <1>6, <1>7 DEF IndInv

-----------------------------------------------------------------------------
(* Steps of the counter that leave the map and its size readings alone.    *)

LEMMA MapPartsKept ==
    ASSUME IndInv, UNCHANGED pmVars
    PROVE  PMTypeOK' /\ StoreAgreesWithKeyMap' /\ Weighted'
BY DEF IndInv, TypeOK, pmVars, PMTypeOK, Weighted,
   StoreAgreesWithKeyMap, StoredIsMapped, MappedIsStored, StoredOnce

LEMMA ReceiveStep ==
    ASSUME IndInv, NEW k \in Key, Receive(k)
    PROVE  IndInv'
<1>0. /\ items \in Seq(Item) /\ currentBucket \in 1 .. MaxBuckets /\ N \in Nat /\ N < Width
      /\ arrivals \in [Key -> Nat] /\ Word \in Nat
      /\ lcPc = "receive" /\ newItems = <<>> /\ currentBucket' = currentBucket
      /\ N' = N + 1 /\ Width \in Nat
  BY WidthAssumption, WordAssumption, BoundAssumption DEF Receive, IndInv, TypeOK, ControlInv
<1>1. PMTypeOK' /\ StoreAgreesWithKeyMap' /\ Weighted'
  BY MapPartsKept DEF Receive
<1>2. /\ Total \in Nat /\ Total' = Total + 1 /\ Total + 1 <= Width * MaxBuckets
      /\ Width * MaxBuckets \in Nat /\ Word > Width * MaxBuckets + MaxBuckets
  <2>1. /\ Width * (currentBucket - 1) \in Nat /\ Width * currentBucket \in Nat
        /\ Width * (currentBucket - 1) + Width = Width * currentBucket
        /\ Width * currentBucket <= Width * MaxBuckets
    BY <1>0, TotalGrows
  <2>2. Total \in Nat /\ Total' = Total + 1
    BY <1>0, <2>1 DEF Total
  <2>3. Total + 1 <= Width * (currentBucket - 1) + Width
    BY <1>0, <2>1 DEF Total
  <2> QED BY <2>1, <2>2, <2>3, BoundIsNat
<1>3. ASSUME NEW i \in DOMAIN items
      PROVE  /\ items[i] \in Item /\ items[i].Count \in 1 .. Total
             /\ items[i].Bucket \in 0 .. currentBucket - 1
             /\ items[i].Count >= currentBucket - 1 - items[i].Bucket
             /\ arrivals[items[i].Key] = items[i].Count + (currentBucket - 1 - items[i].Bucket)
             /\ (items[i].Count + 1) % Word = items[i].Count + 1
  <2>1. items[i] \in Item /\ Earned(items[i], currentBucket - 1 - items[i].Bucket)
    BY <1>0 DEF IndInv, ItemsInv
  <2>2. items[i].Count \in 1 .. Total /\ items[i].Bucket \in Nat
    BY <2>1 DEF Earned, Item
  <2>3. items[i].Count + 1 \in Uint64
    <3>1. items[i].Count <= Total /\ items[i].Count \in Nat
      BY <1>2, <2>2
    <3>2. PICK t \in Nat : t = Total
      BY <1>2
    <3>3. items[i].Count <= t /\ t + 1 <= Width * MaxBuckets
      BY <1>2, <3>1, <3>2
    <3> QED BY <3>1, <3>2, <3>3, Fits
  <2> QED BY <1>0, <2>1, <2>2, <2>3, ModWord DEF Earned
\* The items afterwards.
<1> DEFINE Goal == /\ items' \in Seq(Item) /\ ItemsInv'
                   /\ \A l \in Key : Tracked(l, items) => Tracked(l, items')
<1>4. ASSUME Tracked(k, items) PROVE Goal
  <2>1. /\ items' \in Seq(Item) /\ Len(items') = Len(items)
        /\ \A i \in DOMAIN items :
              /\ items'[i].Key = items[i].Key /\ items'[i].Bucket = items[i].Bucket
              /\ items[i].Key # k => items'[i] = items[i]
              /\ items[i].Key = k => items'[i].Count = items[i].Count + 1
    <3>1. \A i \in DOMAIN items : items[i].Key = k => \A j \in 1 .. i - 1 : items[j].Key # k
      <4> SUFFICES ASSUME NEW i \in DOMAIN items, items[i].Key = k,
                          NEW j \in 1 .. i - 1, items[j].Key = k
                   PROVE  FALSE
        OBVIOUS
      <4>1. j \in DOMAIN items /\ j # i
        BY <1>0
      <4> QED BY <4>1 DEF IndInv, ItemsInv
    <3>2. items' = [i \in DOMAIN items |->
                      IF items[i].Key = k THEN [items[i] EXCEPT !.Count = (@ + 1) % Word]
                      ELSE items[i]]
      BY <1>0, <1>4, <3>1 DEF Receive, Counted
    <3>3. \A i \in DOMAIN items : items[i].Count + 1 \in Uint64
      BY <1>0, <1>2, <1>3, BoundAssumption, SMTT(30) DEF Uint64
    <3>4. ASSUME NEW i \in DOMAIN items PROVE items'[i] \in Item
      <4>1. CASE items[i].Key = k
        <5>1. items'[i] = [items[i] EXCEPT !.Count = items[i].Count + 1]
          BY <1>3, <3>2, <4>1
        <5> QED BY <5>1, <1>3, <3>3 DEF Item
      <4>2. CASE items[i].Key # k
        BY <1>3, <3>2, <4>2
      <4> QED BY <4>1, <4>2
    <3>5. items' \in Seq(Item) /\ Len(items') = Len(items)
      BY <1>0, <3>2, <3>4, SMTT(30)
    <3> QED BY <1>3, <3>2, <3>5 DEF Item
  <2>2. arrivals' = [arrivals EXCEPT ![k] = @ + 1]
    BY <1>4 DEF Receive
  <2>3. DOMAIN items' = DOMAIN items
    BY <1>0, <2>1
  <2>4. ItemsInv'
    <3>1. ASSUME NEW i \in DOMAIN items
          PROVE  EarnedNext(items'[i], currentBucket' - 1 - items'[i].Bucket)
      <4>1. /\ items[i].Key \in Key /\ items[i].Count \in Nat /\ items[i].Bucket \in Nat
            /\ items'[i].Key = items[i].Key /\ items'[i].Bucket = items[i].Bucket
            /\ currentBucket' \in Nat
            /\ items[i].Count >= 1 /\ items[i].Count <= Total
            /\ items[i].Bucket < currentBucket'
            /\ items[i].Count >= currentBucket' - 1 - items[i].Bucket
            /\ arrivals[items[i].Key] = items[i].Count + (currentBucket' - 1 - items[i].Bucket)
        <5>1. items[i] \in Item /\ items[i].Key \in Key /\ items[i].Bucket \in Nat
              /\ items[i].Count \in Nat /\ currentBucket \in Nat
          BY <1>0, <1>2, <1>3, BoundAssumption DEF Item
        <5> QED BY <1>0, <1>2, <1>3, <2>1, <5>1, SMTT(30)
      <4>2. CASE items[i].Key = k
        <5>1. items'[i].Count = items[i].Count + 1
              /\ arrivals'[items'[i].Key] = arrivals[items[i].Key] + 1
          BY <1>0, <2>1, <2>2, <4>1, <4>2
        <5> QED BY <1>2, <4>1, <5>1 DEF EarnedNext
      <4>3. CASE items[i].Key # k
        <5>1. items'[i].Count = items[i].Count
              /\ arrivals'[items'[i].Key] = arrivals[items[i].Key]
          BY <1>0, <2>1, <2>2, <4>1, <4>3
        <5> QED BY <1>2, <4>1, <5>1 DEF EarnedNext
      <4> QED BY <4>2, <4>3
    <3>2. \A i, j \in DOMAIN items' : items'[i].Key = items'[j].Key => i = j
      BY <2>1, <2>3 DEF IndInv, ItemsInv
    <3> QED BY <2>3, <3>1, <3>2 DEF ItemsInv, Earned, EarnedNext
  <2>5. \A l \in Key : Tracked(l, items) => Tracked(l, items')
    BY <2>1, <2>3 DEF Tracked
  <2> QED BY <2>1, <2>4, <2>5
<1>5. ASSUME ~Tracked(k, items) PROVE Goal
  <2> DEFINE new == [Key |-> k, Count |-> 1, Bucket |-> currentBucket - 1]
  <2>1. new \in Item
    BY <1>0, WordAssumption DEF Item, Uint64
  <2>2. items' = Append(items, new) /\ arrivals' = [arrivals EXCEPT ![k] = 1]
    BY <1>5 DEF Receive, Counted
  <2>3. /\ items' \in Seq(Item) /\ Len(items') = Len(items) + 1
        /\ \A i \in DOMAIN items : i \in DOMAIN items' /\ items'[i] = items[i]
        /\ items'[Len(items) + 1] = new
        /\ DOMAIN items' = DOMAIN items \cup {Len(items) + 1}
    BY <1>0, <2>1, <2>2
  <2>4. \A i \in DOMAIN items : items[i].Key # k
    BY <1>5 DEF Tracked
  <2>5. ASSUME NEW i \in DOMAIN items
        PROVE  EarnedNext(items'[i], currentBucket' - 1 - items'[i].Bucket)
    <3>1. items[i].Key \in Key /\ items[i].Key # k /\ items[i].Bucket \in Nat /\ items[i].Count \in Nat
      BY <1>2, <1>3, <2>4 DEF Item
    <3>2. arrivals'[items[i].Key] = arrivals[items[i].Key] /\ items'[i] = items[i]
      BY <1>0, <2>2, <2>3, <3>1
    <3> QED BY <1>0, <1>2, <1>3, <3>1, <3>2, SMTT(30) DEF EarnedNext
  <2>6. EarnedNext(new, currentBucket' - 1 - new.Bucket)
    BY <1>0, <1>2, <2>2 DEF EarnedNext
  <2>7. ItemsInv'
    <3>1. \A i \in DOMAIN items' : EarnedNext(items'[i], currentBucket' - 1 - items'[i].Bucket)
      <4> HIDE DEF new
      <4> QED BY <2>3, <2>5, <2>6
    <3>2. \A i, j \in DOMAIN items' : items'[i].Key = items'[j].Key => i = j
      BY <2>3, <2>4 DEF IndInv, ItemsInv
    <3> QED BY <3>1, <3>2 DEF ItemsInv, Earned, EarnedNext
  <2>8. \A l \in Key : Tracked(l, items) => Tracked(l, items')
    BY <2>3 DEF Tracked
  <2> QED BY <2>3, <2>7, <2>8
<1>6. Goal
  BY <1>4, <1>5
<1> HIDE DEF Goal
<1>7. /\ lcPc' \in {"receive", "scan"} /\ newItems' = <<>>
      /\ lcPc' = "receive" => N' < Width
      /\ lcPc' # "receive" => N' = Width /\ idx' = 1
      /\ idx' \in Nat \ {0} /\ N' \in 0 .. Width
  BY <1>0 DEF Receive, IndInv, TypeOK
<1>8. TypeOK'
  <2>1. arrivals' \in [Key -> Nat]
    BY <1>0 DEF Receive
  <2> QED BY <1>0, <1>1, <1>6, <1>7, <2>1 DEF Goal, Receive, IndInv, TypeOK
<1>9. ControlInv'
  BY <1>0, <1>2, <1>6, <1>7 DEF Goal, ControlInv
<1>10. KeptInv'
  BY <1>7 DEF KeptInv
<1>11. PendingInv'
  BY <1>7 DEF PendingInv
<1>12. RoutedKeysAreTracked'
  <2> SUFFICES ASSUME NEW l \in Key, keyMap'[l] # Nil
               PROVE  /\ lcPc' = "receive" => Tracked(l, items')
                      /\ lcPc' # "receive" => \E i \in idx' .. Len(items') : items'[i].Key = l
    BY DEF RoutedKeysAreTracked, Tracked
  <2>1. Tracked(l, items)
    BY <1>0 DEF Receive, IndInv, RoutedKeysAreTracked, pmVars
  <2>2. Tracked(l, items') /\ items' \in Seq(Item)
    BY <1>6, <2>1 DEF Goal
  <2> QED BY <1>7, <2>2 DEF Tracked
<1> QED BY <1>1, <1>6, <1>8, <1>9, <1>10, <1>11, <1>12 DEF Goal, IndInv

-----------------------------------------------------------------------------
(* Steps of the loop over the items.                                       *)

LEMMA ItemsInvKept ==
    ASSUME IndInv, UNCHANGED <<items, currentBucket, N, arrivals>>
    PROVE  ItemsInv'
BY DEF IndInv, ItemsInv, Earned, Total

\* The loop's item is appended to what it keeps.
LEMMA KeepingKeepsKeptInv ==
    ASSUME IndInv, AtItem, Stays, newItems' = Append(newItems, rec), Passed' = idx,
           UNCHANGED <<items, currentBucket, N, arrivals>>
    PROVE  newItems' \in Seq(Item) /\ KeptInv' /\ Tracked(rec.Key, newItems')
           /\ \A k \in Key : Tracked(k, newItems) => Tracked(k, newItems')
<1>1. idx \in DOMAIN items /\ lcPc = "scan" /\ items \in Seq(Item) /\ newItems \in Seq(Item)
  BY DEF AtItem, IndInv, TypeOK
<1>2. rec \in Item /\ rec.Key = items[idx].Key /\ Earned(rec, currentBucket - rec.Bucket)
  BY <1>1, RecProperties
<1> DEFINE r == rec
<1> HIDE DEF r
<1>3. /\ newItems' \in Seq(Item) /\ Len(newItems') = Len(newItems) + 1
      /\ \A n \in DOMAIN newItems : n \in DOMAIN newItems' /\ newItems'[n] = newItems[n]
      /\ newItems'[Len(newItems) + 1] = r /\ Len(newItems) + 1 \in DOMAIN newItems'
      /\ DOMAIN newItems' = DOMAIN newItems \cup {Len(newItems) + 1}
  <2>1. r \in Item /\ newItems' = Append(newItems, r)
    BY <1>2 DEF r
  <2> QED BY <1>1, <2>1
<1>4. \A n \in DOMAIN newItems : \E i \in DOMAIN items : i <= idx - 1 /\ items[i].Key = newItems[n].Key
  BY <1>1 DEF IndInv, KeptInv, Passed
<1>5. \A n \in DOMAIN newItems : newItems[n].Key # r.Key
  <2> SUFFICES ASSUME NEW n \in DOMAIN newItems, newItems[n].Key = r.Key PROVE FALSE
    OBVIOUS
  <2>1. PICK i \in DOMAIN items : i <= idx - 1 /\ items[i].Key = newItems[n].Key
    BY <1>4
  <2>2. items[i].Key = items[idx].Key /\ i # idx
    BY <1>1, <1>2, <2>1 DEF r
  <2> QED BY <1>1, <2>2 DEF IndInv, ItemsInv
<1>6. \A n \in DOMAIN newItems' : Earned(newItems'[n], currentBucket - newItems'[n].Bucket)
  BY <1>2, <1>3 DEF IndInv, KeptInv, r
<1>7. \A n \in DOMAIN newItems' : \E i \in DOMAIN items' : i <= Passed' /\ items'[i].Key = newItems'[n].Key
  <2> SUFFICES ASSUME NEW n \in DOMAIN newItems'
               PROVE  \E i \in DOMAIN items : i <= idx /\ items[i].Key = newItems'[n].Key
    OBVIOUS
  <2>1. CASE n \in DOMAIN newItems
    <3>1. PICK i \in DOMAIN items : i <= idx - 1 /\ items[i].Key = newItems[n].Key
      BY <1>4, <2>1
    <3> QED BY <1>1, <1>3, <2>1, <3>1
  <2>2. CASE n = Len(newItems) + 1
    BY <1>1, <1>2, <1>3, <2>2 DEF r
  <2> QED BY <1>3, <2>1, <2>2
<1>8. \A n, m \in DOMAIN newItems' : newItems'[n].Key = newItems'[m].Key => n = m
  BY <1>3, <1>5 DEF IndInv, KeptInv
<1>9. KeptInv'
  BY <1>6, <1>7, <1>8 DEF KeptInv, Earned, Total
<1>10. Tracked(rec.Key, newItems') /\ \A k \in Key : Tracked(k, newItems) => Tracked(k, newItems')
  BY <1>3 DEF Tracked, r
<1> QED BY <1>3, <1>9, <1>10

\* What the routes rest on moves along with the loop.
LEMMA KeepStep ==
    ASSUME IndInv, Keep
    PROVE  IndInv'
<1>0. /\ AtItem /\ lcPc = "scan" /\ lcPc' = "scan" /\ idx \in Nat \ {0} /\ idx' = idx + 1
      /\ items \in Seq(Item) /\ idx \in DOMAIN items
      /\ UNCHANGED <<items, currentBucket, N, choice, arrivals, pmVars>>
  BY DEF Keep, AtItem, IndInv, TypeOK
<1>1. PMTypeOK' /\ StoreAgreesWithKeyMap' /\ Weighted'
  BY <1>0, MapPartsKept
<1>2. ItemsInv'
  BY <1>0, ItemsInvKept
<1>3. Passed' = idx
  BY <1>0 DEF Passed
<1>4. /\ newItems' \in Seq(Item) /\ KeptInv' /\ Tracked(rec.Key, newItems')
      /\ \A k \in Key : Tracked(k, newItems) => Tracked(k, newItems')
  BY <1>0, <1>3, KeepingKeepsKeptInv DEF Keep
<1>5. TypeOK'
  BY <1>0, <1>1, <1>4 DEF IndInv, TypeOK
<1>6. ControlInv'
  BY <1>0 DEF IndInv, ControlInv, Total
<1>7. PendingInv'
  BY <1>0 DEF PendingInv
<1>8. RoutedKeysAreTracked'
  <2> SUFFICES ASSUME NEW k \in Key, keyMap[k] # Nil
               PROVE  Tracked(k, newItems') \/ \E i \in idx + 1 .. Len(items) : items[i].Key = k
    BY <1>0 DEF RoutedKeysAreTracked, pmVars, Tracked
  <2>1. Tracked(k, newItems) \/ \E i \in idx .. Len(items) : items[i].Key = k
    BY <1>0 DEF IndInv, RoutedKeysAreTracked
  <2>2. rec.Key = items[idx].Key
    BY <1>0, RecProperties
  <2> QED BY <1>0, <1>4, <2>1, <2>2
<1> QED BY <1>1, <1>2, <1>4, <1>5, <1>6, <1>7, <1>8 DEF IndInv

LEMMA KeepHotStep ==
    ASSUME IndInv, KeepHot
    PROVE  IndInv'
<1>0. /\ AtItem /\ lcPc = "scan" /\ lcPc' = "size1" /\ idx \in Nat \ {0} /\ idx' = idx
      /\ items \in Seq(Item) /\ idx \in DOMAIN items /\ Stays
      /\ UNCHANGED <<items, currentBucket, N, choice, arrivals, pmVars>>
  BY DEF KeepHot, AtItem, IndInv, TypeOK
<1>1. PMTypeOK' /\ StoreAgreesWithKeyMap' /\ Weighted'
  BY <1>0, MapPartsKept
<1>2. ItemsInv'
  BY <1>0, ItemsInvKept
<1>3. Passed' = idx
  BY <1>0 DEF Passed
<1>4. /\ newItems' \in Seq(Item) /\ KeptInv' /\ Tracked(rec.Key, newItems')
      /\ \A k \in Key : Tracked(k, newItems) => Tracked(k, newItems')
  BY <1>0, <1>3, KeepingKeepsKeptInv DEF KeepHot
<1>5. TypeOK'
  BY <1>0, <1>1, <1>4 DEF IndInv, TypeOK
<1>6. ControlInv'
  BY <1>0 DEF IndInv, ControlInv, Total
<1>7. PendingInv'
  <2>1. rec' = rec
    BY <1>0 DEF rec
  <2>2. keyMap[rec.Key] = Nil /\ keyMap' = keyMap
    BY <1>0 DEF KeepHot, pmVars
  <2>3. rec.Count # 0
    <3>1. Earned(rec, currentBucket - rec.Bucket)
      BY <1>0, RecProperties
    <3> QED BY <3>1 DEF Earned
  <2>4. Tracked(rec.Key, newItems)'
    BY <1>4, <2>1 DEF Tracked
  <2> QED BY <1>0, <2>1, <2>2, <2>3, <2>4 DEF PendingInv
<1>8. RoutedKeysAreTracked'
  <2> SUFFICES ASSUME NEW k \in Key, keyMap[k] # Nil
               PROVE  Tracked(k, newItems') \/ \E i \in idx .. Len(items) : items[i].Key = k
    BY <1>0 DEF RoutedKeysAreTracked, pmVars, Tracked
  <2> QED BY <1>0, <1>4 DEF IndInv, RoutedKeysAreTracked
<1> QED BY <1>1, <1>2, <1>4, <1>5, <1>6, <1>7, <1>8 DEF IndInv

\* Append leaves what the sequence held where it is.
LEMMA AppendKeeps ==
    ASSUME NEW S, NEW seq \in Seq(S), NEW elt \in S
    PROVE  \A i \in 1 .. Len(seq) : Append(seq, elt)[i] = seq[i]
OBVIOUS

\* MapToPartition reads the sizes one by one.
LEMMA SizeSteps ==
    ASSUME IndInv, SizeFirst \/ SizeSecond
    PROVE  IndInv'
<1>0. /\ lcPc \in {"size1", "size2"} /\ lcPc' \in {"size2", "add"}
      /\ UNCHANGED <<items, currentBucket, N, idx, newItems, arrivals, pmVars>>
  BY DEF SizeFirst, SizeSecond
<1>1. PMTypeOK' /\ StoreAgreesWithKeyMap' /\ Weighted'
  BY <1>0, MapPartsKept
<1>2. ItemsInv'
  BY <1>0, ItemsInvKept
<1>3. KeptInv'
  BY <1>0 DEF IndInv, KeptInv, Earned, Total, Passed
<1>4. ControlInv'
  BY <1>0 DEF IndInv, ControlInv, Total
<1>5. RoutedKeysAreTracked'
  BY <1>0 DEF IndInv, RoutedKeysAreTracked, Tracked, pmVars
<1>6. \A p \in Partition : PartitionSize(p) \in Nat /\ PartitionSize(p)' = PartitionSize(p)
  BY <1>0, PartitionSizeIsNat DEF IndInv, TypeOK, PartitionSize, pmVars
<1>7. rec' = rec /\ keyMap' = keyMap /\ newItems' = newItems
  BY <1>0 DEF rec, pmVars
<1>8. Partition \subseteq Nat
  BY PartitionsAssumption DEF Partition
<1>9. CASE SizeFirst
  <2>1. PICK p1 \in Partition, p2 \in Partition : choice' = <<p1, p2, PartitionSize(p1)>>
    BY <1>9 DEF SizeFirst
  <2>2. choice' \in Seq(Nat) /\ Len(choice') = 3
    BY <2>1, <1>6, <1>8
  <2>3. lcPc = "size1" /\ lcPc' = "size2"
    BY <1>9 DEF SizeFirst
  <2>4. PendingInv'
    <3>1. choice'[3] = PartitionSize(p1) /\ choice'[1] = p1 /\ choice'[2] = p2
      BY <2>1
    <3>2. choice'[3] = PartitionSize(p1)'
      BY <3>1, <1>6
    <3>3. keyMap[rec.Key] = Nil /\ rec.Count # 0 /\ Tracked(rec.Key, newItems)
      BY <2>3 DEF IndInv, PendingInv
    <3> QED BY <1>7, <2>2, <2>3, <3>1, <3>2, <3>3 DEF PendingInv, PartitionSize, Tracked
  <2>5. TypeOK'
    BY <1>0, <1>1, <2>2 DEF IndInv, TypeOK
  <2> QED BY <1>1, <1>2, <1>3, <1>4, <1>5, <2>4, <2>5 DEF IndInv
<1>10. CASE SizeSecond
  <2>1. lcPc = "size2" /\ lcPc' = "add" /\ choice' = Append(choice, PartitionSize(choice[2]))
    BY <1>10 DEF SizeSecond
  <2>2. /\ choice \in Seq(Nat) /\ Len(choice) = 3 /\ choice[1] \in Partition
        /\ choice[2] \in Partition /\ choice[3] = PartitionSize(choice[1])
        /\ keyMap[rec.Key] = Nil /\ rec.Count # 0 /\ Tracked(rec.Key, newItems)
    BY <2>1 DEF IndInv, TypeOK, PendingInv
  <2>3. /\ choice' \in Seq(Nat) /\ Len(choice') = 4 /\ choice'[1] = choice[1]
        /\ choice'[2] = choice[2] /\ choice'[3] = choice[3]
        /\ choice'[4] = PartitionSize(choice[2])
    <3>1. PartitionSize(choice[2]) \in Nat
      BY <2>2, <1>6
    <3>2. PICK v \in Nat : v = PartitionSize(choice[2]) /\ choice' = Append(choice, v)
      BY <3>1, <2>1
    <3>3. choice \in Seq(Nat) /\ v \in Nat
      BY <2>2, <3>2
    <3>a. /\ Append(choice, v) \in Seq(Nat) /\ Len(Append(choice, v)) = Len(choice) + 1
          /\ Append(choice, v)[Len(choice) + 1] = v
      BY <3>3, AppendProperties
    <3>4. \A i \in 1 .. Len(choice) : Append(choice, v)[i] = choice[i]
      BY <2>2, AppendKeeps
    <3>5. 1 \in 1 .. Len(choice) /\ 2 \in 1 .. Len(choice) /\ 3 \in 1 .. Len(choice)
      BY <2>2
    <3>6. Len(choice) + 1 = 4
      BY <2>2
    <3> QED BY <3>2, <3>a, <3>4, <3>5, <3>6
  <2>4. PendingInv'
    BY <1>6, <1>7, <2>1, <2>2, <2>3 DEF PendingInv, PartitionSize, Tracked
  <2>5. TypeOK'
    BY <1>0, <1>1, <2>3 DEF IndInv, TypeOK
  <2> QED BY <1>1, <1>2, <1>3, <1>4, <1>5, <2>4, <2>5 DEF IndInv
<1> QED BY <1>9, <1>10

\* The new record has weight, and the key had none.
LEMMA AddHotStep ==
    ASSUME IndInv, AddHot
    PROVE  /\ IndInv'
           /\ rec.Key \in Key /\ rec.Count \in Uint64 /\ MapToPartition \in Partition
           /\ keyMap[rec.Key] = Nil
           /\ keyMap' = [keyMap EXCEPT ![rec.Key] =
                 [Key |-> rec.Key, Count |-> rec.Count, Partition |-> MapToPartition]]
<1> DEFINE k == rec.Key
           c == rec.Count
           p == MapToPartition
<1>0. /\ lcPc = "add" /\ lcPc' = "scan" /\ idx \in Nat \ {0} /\ idx' = idx + 1
      /\ idx \in DOMAIN items /\ choice' = <<>> /\ items \in Seq(Item)
      /\ UNCHANGED <<items, currentBucket, N, newItems, arrivals, rbVars>>
  BY DEF AddHot, IndInv, TypeOK, ControlInv
<1>1. /\ k \in Key /\ c \in Uint64 /\ c # 0 /\ p \in Partition /\ keyMap[k] = Nil
      /\ k = items[idx].Key /\ AddKey(k, c, p)
  <2>1. rec \in Item /\ rec.Key = items[idx].Key
    BY <1>0, RecProperties
  <2>2. choice[1] \in Partition /\ choice[2] \in Partition /\ keyMap[k] = Nil /\ c # 0
    BY <1>0 DEF IndInv, PendingInv
  <2> QED BY <2>1, <2>2 DEF Item, MapToPartition, AddHot
<1> HIDE DEF k, c, p
<1>2. PMInv'
  BY <1>0, <1>1, AddKeyKeepsPMInv DEF IndInv, TypeOK, PMInv
<1> DEFINE kc == [Key |-> k, Count |-> c, Partition |-> p]
<1>3. store' = [store EXCEPT ![p] = Append(@, kc)] /\ keyMap' = [keyMap EXCEPT ![k] = kc]
  BY <1>1 DEF AddKey, Appended
<1>4. Weighted'
  <2>1. ASSUME NEW q \in Partition, NEW i \in DOMAIN store'[q] PROVE store'[q][i].Count # 0
    <3>1. store \in [Partition -> Seq(KeyRecord)]
      BY DEF IndInv, TypeOK, PMTypeOK
    <3>2. kc \in KeyRecord
      BY <1>1 DEF KeyRecord
    <3>3. CASE q # p
      BY <1>3, <2>1, <3>1, <3>3 DEF IndInv, Weighted
    <3>4. CASE q = p
      <4>1. store'[q] = Append(store[q], kc) /\ store[q] \in Seq(KeyRecord)
        BY <1>1, <1>3, <3>1, <3>4
      <4>2. \/ i \in DOMAIN store[q] /\ store'[q][i] = store[q][i]
            \/ store'[q][i] = kc
        BY <2>1, <3>2, <4>1
      <4> QED BY <1>1, <4>2 DEF IndInv, Weighted
    <3> QED BY <3>3, <3>4
  <2> QED BY <1>0, <2>1 DEF IndInv, Weighted, rbVars
<1>5. ItemsInv'
  BY <1>0, ItemsInvKept
<1>6. KeptInv'
  <2>1. Passed' = Passed
    BY <1>0 DEF Passed
  <2> QED BY <1>0, <2>1 DEF IndInv, KeptInv, Earned, Total
<1>7. ControlInv'
  BY <1>0 DEF IndInv, ControlInv, Total
<1>8. PendingInv'
  BY <1>0 DEF PendingInv
<1>9. TypeOK'
  BY <1>0, <1>2 DEF IndInv, TypeOK, PMInv
<1>10. RoutedKeysAreTracked'
  <2> SUFFICES ASSUME NEW l \in Key, keyMap'[l] # Nil
               PROVE  Tracked(l, newItems) \/ \E i \in idx + 1 .. Len(items) : items[i].Key = l
    BY <1>0 DEF RoutedKeysAreTracked, Tracked
  <2>1. CASE l = k
    <3>1. Tracked(k, newItems)
      BY <1>0, <1>1 DEF IndInv, PendingInv, k
    <3> QED BY <2>1, <3>1
  <2>2. CASE l # k
    <3>1. keyMap[l] # Nil
      BY <1>3, <2>2 DEF IndInv, TypeOK, PMTypeOK
    <3>2. Tracked(l, newItems) \/ \E i \in idx .. Len(items) : items[i].Key = l
      BY <1>0, <3>1 DEF IndInv, RoutedKeysAreTracked
    <3> QED BY <1>0, <1>1, <2>2, <3>2
  <2> QED BY <2>1, <2>2
<1>11. IndInv'
  BY <1>2, <1>4, <1>5, <1>6, <1>7, <1>8, <1>9, <1>10 DEF IndInv, PMInv
<1> QED BY <1>1, <1>3, <1>11 DEF k, c, p

\* A key that is dropped loses its route in the same step.
LEMMA DropStep ==
    ASSUME IndInv, Drop
    PROVE  IndInv' /\ rec.Key \in Key /\ keyMap' = [keyMap EXCEPT ![rec.Key] = Nil]
<1> DEFINE k == rec.Key
<1>0. /\ AtItem /\ lcPc = "scan" /\ lcPc' = "scan" /\ idx \in Nat \ {0} /\ idx' = idx + 1
      /\ items \in Seq(Item) /\ idx \in DOMAIN items /\ DeleteKey(k)
      /\ UNCHANGED <<items, currentBucket, N, newItems, choice, arrivals, rbVars>>
  BY DEF Drop, AtItem, IndInv, TypeOK
<1>1. k \in Key /\ k = items[idx].Key
  BY <1>0, RecProperties DEF Item
<1> HIDE DEF k
<1>2. PMInv' /\ keyMap' = [keyMap EXCEPT ![k] = Nil]
  BY <1>0, <1>1, DeleteKeyKeepsPMInv DEF IndInv, TypeOK, PMInv
<1>3. Weighted'
  <2>1. ASSUME NEW p \in Partition, NEW i \in DOMAIN store'[p] PROVE store'[p][i].Count # 0
    <3> DEFINE r == store'[p][i]
    <3>1. r \in KeyRecord /\ keyMap'[r.Key] = r /\ r.Key \in Key /\ r # Nil
      <4>1. store'[p] \in Seq(KeyRecord)
        BY <1>2 DEF PMInv, PMTypeOK
      <4>2. r \in KeyRecord
        BY <2>1, <4>1
      <4>3. keyMap'[r.Key] = r
        BY <1>2, <2>1 DEF PMInv, StoreAgreesWithKeyMap, StoredIsMapped
      <4> QED BY <4>2, <4>3, NilAssumption DEF KeyRecord
    <3> HIDE DEF r
    <3>2. keyMap[r.Key] = r
      BY <1>2, <3>1 DEF IndInv, TypeOK, PMTypeOK
    <3>3. PICK j \in DOMAIN store[r.Partition] : store[r.Partition][j].Key = r.Key
      BY <3>1, <3>2 DEF IndInv, StoreAgreesWithKeyMap, MappedIsStored
    <3>4. store[r.Partition][j] = r
      BY <3>1, <3>2, <3>3 DEF IndInv, StoreAgreesWithKeyMap, StoredIsMapped, KeyRecord
    <3>5. r.Count # 0
      BY <3>1, <3>3, <3>4 DEF IndInv, Weighted, KeyRecord
    <3> QED BY <3>5 DEF r
  <2> QED BY <1>0, <2>1 DEF IndInv, Weighted, rbVars
<1>4. ItemsInv'
  BY <1>0, ItemsInvKept
<1>5. KeptInv'
  <2>1. Passed \in Nat /\ Passed' \in Nat /\ Passed <= Passed' /\ DOMAIN items \subseteq Nat
    BY <1>0 DEF Passed
  <2>2. \A n \in DOMAIN newItems : \E i \in DOMAIN items : i <= Passed' /\ items[i].Key = newItems[n].Key
    <3> SUFFICES ASSUME NEW n \in DOMAIN newItems
                 PROVE  \E i \in DOMAIN items : i <= Passed' /\ items[i].Key = newItems[n].Key
      OBVIOUS
    <3>1. PICK i \in DOMAIN items : i <= Passed /\ items[i].Key = newItems[n].Key
      BY DEF IndInv, KeptInv
    <3>2. i <= Passed'
      BY <2>1, <3>1
    <3> QED BY <3>1, <3>2
  <2> QED BY <1>0, <2>2 DEF IndInv, KeptInv, Earned, Total
<1>6. ControlInv'
  BY <1>0 DEF IndInv, ControlInv, Total
<1>7. PendingInv'
  BY <1>0 DEF PendingInv
<1>8. TypeOK'
  BY <1>0, <1>2 DEF IndInv, TypeOK, PMInv
<1>9. RoutedKeysAreTracked'
  <2> SUFFICES ASSUME NEW l \in Key, keyMap'[l] # Nil
               PROVE  Tracked(l, newItems) \/ \E i \in idx + 1 .. Len(items) : items[i].Key = l
    BY <1>0 DEF RoutedKeysAreTracked, Tracked
  <2>1. l # k /\ keyMap[l] # Nil
    BY <1>1, <1>2 DEF IndInv, TypeOK, PMTypeOK
  <2>2. Tracked(l, newItems) \/ \E i \in idx .. Len(items) : items[i].Key = l
    BY <1>0, <2>1 DEF IndInv, RoutedKeysAreTracked
  <2> QED BY <1>0, <1>1, <2>1, <2>2
<1> QED BY <1>1, <1>2, <1>3, <1>4, <1>5, <1>6, <1>7, <1>8, <1>9 DEF IndInv, PMInv, k

\* What the loop kept becomes the items, one bucket later.
LEMMA TurnEndStep ==
    ASSUME IndInv, TurnEnd
    PROVE  IndInv'
<1>0. /\ lcPc = "scan" /\ lcPc' = "receive" /\ idx > Len(items) /\ idx \in Nat
      /\ items \in Seq(Item) /\ newItems \in Seq(Item)
      /\ currentBucket \in 1 .. MaxBuckets /\ currentBucket' = currentBucket + 1
      /\ N = Width /\ N' = 0 /\ items' = newItems /\ newItems' = <<>> /\ Width \in Nat
      /\ UNCHANGED <<idx, choice, arrivals, pmVars>>
  BY WidthAssumption DEF TurnEnd, IndInv, TypeOK, ControlInv
<1>1. PMTypeOK' /\ StoreAgreesWithKeyMap' /\ Weighted'
  BY <1>0, MapPartsKept
<1>2. Total' = Total
  <2>1. Width * (currentBucket - 1) + Width = Width * currentBucket /\ Width * currentBucket \in Nat
    BY <1>0, TotalGrows
  <2>2. currentBucket' - 1 = currentBucket
    BY <1>0, BoundAssumption
  <2>3. Total' = Width * currentBucket + 0
    BY <1>0, <2>2 DEF Total
  <2> QED BY <1>0, <2>1, <2>3 DEF Total
<1>3. ItemsInv'
  <2>1. ASSUME NEW n \in DOMAIN newItems
        PROVE  EarnedNext(newItems[n], currentBucket' - 1 - newItems[n].Bucket)
    <3>1. Earned(newItems[n], currentBucket - newItems[n].Bucket)
      BY DEF IndInv, KeptInv
    <3>2. newItems[n].Bucket \in Nat /\ currentBucket \in Nat /\ currentBucket' = currentBucket + 1
      <4>1. newItems[n] \in Item
        BY <1>0
      <4> QED BY <1>0, <4>1, BoundAssumption DEF Item
    <3>3. newItems[n].Bucket < currentBucket'
      BY <3>1, <3>2 DEF Earned
    <3>4. currentBucket' - 1 - newItems[n].Bucket = currentBucket - newItems[n].Bucket
      BY <3>2
    <3> QED BY <1>0, <1>2, <3>1, <3>3, <3>4 DEF Earned, EarnedNext
  <2> QED BY <1>0, <2>1 DEF IndInv, KeptInv, ItemsInv, Earned, EarnedNext
<1>4. KeptInv'
  BY <1>0 DEF KeptInv
<1>5. ControlInv'
  BY <1>0, <1>2, WidthAssumption DEF IndInv, ControlInv
<1>6. TypeOK'
  BY <1>0, <1>1, BoundAssumption DEF IndInv, TypeOK
<1>7. PendingInv'
  BY <1>0 DEF PendingInv
<1>8. RoutedKeysAreTracked'
  <2> SUFFICES ASSUME NEW k \in Key, keyMap[k] # Nil PROVE Tracked(k, newItems)
    BY <1>0 DEF RoutedKeysAreTracked, Tracked, pmVars
  <2>1. Tracked(k, newItems) \/ \E i \in idx .. Len(items) : items[i].Key = k
    BY <1>0 DEF IndInv, RoutedKeysAreTracked
  <2> QED BY <1>0, <2>1
<1> QED BY <1>1, <1>3, <1>4, <1>5, <1>6, <1>7, <1>8 DEF IndInv

-----------------------------------------------------------------------------
(* The theorems.                                                           *)

LEMMA Step == IndInv /\ [Next]_vars => IndInv'
<1> SUFFICES ASSUME IndInv, [Next]_vars PROVE IndInv'
  OBVIOUS
<1>1. ASSUME NEW k \in Key, Receive(k) PROVE IndInv'
  BY <1>1, ReceiveStep
<1>2. CASE BucketStep
  BY <1>2, KeepStep, KeepHotStep, SizeSteps, AddHotStep, DropStep, TurnEndStep DEF BucketStep
<1>3. CASE Rebalance /\ UNCHANGED lcVars
  BY <1>3, RebalanceStep
<1>4. CASE UNCHANGED vars
  <2>1. UNCHANGED pmVars /\ UNCHANGED lcVars
    BY <1>4 DEF vars
  <2>2. PMTypeOK' /\ StoreAgreesWithKeyMap' /\ Weighted'
    BY <2>1, MapPartsKept
  <2>3. TypeOK' /\ ControlInv' /\ ItemsInv' /\ KeptInv'
    BY <2>1, <2>2 DEF IndInv, TypeOK, ControlInv, ItemsInv, KeptInv, Earned, Total, Passed, lcVars
  <2>4. PendingInv' /\ RoutedKeysAreTracked'
    BY <2>1 DEF IndInv, PendingInv, RoutedKeysAreTracked, Tracked, PartitionSize, rec, lcVars, pmVars
  <2> QED BY <2>2, <2>3, <2>4 DEF IndInv
<1> QED BY <1>1, <1>2, <1>3, <1>4 DEF Next

LEMMA Inductive == Spec => []IndInv
BY Initially, Step, PTL DEF Spec

\* Type correctness of the counter with the map.
THEOREM TypeCorrect == Spec => []TypeOK
<1>1. IndInv => TypeOK
  BY DEF IndInv
<1> QED BY <1>1, Inductive, PTL

\* Store and key map agree although LossyCount looks a key up, sizes partitions
\* and adds the key under separate locks: Rebalance never slips a move between.
THEOREM Agreement == Spec => []StoreAgreesWithKeyMap
<1>1. IndInv => StoreAgreesWithKeyMap
  BY DEF IndInv
<1> QED BY <1>1, Inductive, PTL

\* No key the counter forgot stays routed.
THEOREM NoOrphanRoute == Spec => []RoutedKeysAreTracked
<1>1. IndInv => RoutedKeysAreTracked
  BY DEF IndInv
<1> QED BY <1>1, Inductive, PTL

\* The sizes MapToPartition chose by are current when the key is added.
THEOREM SizesCurrent == Spec => []SizesStillTrue
<1>1. IndInv => SizesStillTrue
  BY DEF IndInv, PendingInv, SizesStillTrue
<1> QED BY <1>1, Inductive, PTL

LEMMA InvSurvivors == IndInv => SurvivorsArriveTwicePerBucket
<1> SUFFICES ASSUME IndInv, lcPc = "receive", NEW i \in DOMAIN items
             PROVE  LET turns == currentBucket - 1 - items[i].Bucket
                    IN  /\ items[i].Count \in 1 .. Word - 2
                        /\ arrivals[items[i].Key] = items[i].Count + turns
                        /\ arrivals[items[i].Key] >= 2 * turns
  BY DEF SurvivorsArriveTwicePerBucket
<1>1. items[i] \in Item /\ Earned(items[i], currentBucket - 1 - items[i].Bucket)
  BY DEF IndInv, TypeOK, ItemsInv
<1>2. Total <= Width * MaxBuckets /\ Word > Width * MaxBuckets + MaxBuckets
      /\ Width * MaxBuckets \in Nat /\ MaxBuckets >= 1 /\ MaxBuckets \in Nat /\ Word \in Nat
  BY BoundIsNat, BoundAssumption, WordAssumption DEF IndInv, ControlInv
<1>3. items[i].Count \in Nat /\ items[i].Bucket \in Nat /\ currentBucket \in Nat
      /\ items[i].Count >= 1 /\ items[i].Count <= Total /\ Total \in Int
  <2>1. Total \in Int
    BY WidthAssumption, BoundAssumption DEF IndInv, TypeOK, Total
  <2> QED BY <1>1, <2>1, BoundAssumption, WordAssumption DEF Earned, Item, Uint64, IndInv, TypeOK
<1> HIDE DEF Total
<1> QED BY <1>1, <1>2, <1>3 DEF Earned

\* A tracked key arrived at least twice per bucket it survived, and neither its
\* count nor the comparison with the bucket number wraps around.
THEOREM SurvivorsEarnedIt == Spec => []SurvivorsArriveTwicePerBucket
BY InvSurvivors, Inductive, PTL

-----------------------------------------------------------------------------
(* The counter, the map and Rebalance implement a RouteTable.              *)

\* Where the key map is left alone, so are the routes.
LEMMA RouteKept ==
    ASSUME UNCHANGED keyMap
    PROVE  UNCHANGED Route
BY DEF Route

LEMMA RebalanceKeepsKeyMap ==
    ASSUME IndInv, Rebalance
    PROVE  UNCHANGED keyMap
BY RebalanceMovesNothing DEF mapVars

LEMMA AddHotPromotes ==
    ASSUME IndInv, AddHot
    PROVE  RT!Next
<1> DEFINE k == rec.Key
           p == MapToPartition
           kc == [Key |-> k, Count |-> rec.Count, Partition |-> p]
<1>1. /\ k \in Key /\ p \in Partition /\ kc \in KeyRecord /\ keyMap[k] = Nil
      /\ keyMap' = [keyMap EXCEPT ![k] = kc]
  BY AddHotStep DEF KeyRecord
<1>2. keyMap \in [Key -> KeyRecord \cup {Nil}] /\ kc # Nil /\ kc.Partition = p
  BY <1>1, NilAssumption DEF IndInv, TypeOK, PMTypeOK
<1> HIDE DEF k, p, kc
<1>3. Route[k] = Nil
  BY <1>1 DEF Route
<1>4. Route' = [Route EXCEPT ![k] = p]
  BY <1>1, <1>2 DEF Route
<1> QED BY <1>1, <1>3, <1>4 DEF RT!Next, RT!Promote

\* Dropping a key that has no route changes none.
LEMMA DropDemotes ==
    ASSUME IndInv, Drop
    PROVE  RT!Next \/ UNCHANGED Route
<1> DEFINE k == rec.Key
<1>1. k \in Key /\ keyMap' = [keyMap EXCEPT ![k] = Nil]
  BY DropStep
<1>2. keyMap \in [Key -> KeyRecord \cup {Nil}]
  BY DEF IndInv, TypeOK, PMTypeOK
<1> HIDE DEF k
<1>3. CASE keyMap[k] = Nil
  BY <1>1, <1>2, <1>3 DEF Route
<1>4. CASE keyMap[k] # Nil
  <2>1. Route[k] # Nil
    <3>1. keyMap[k].Partition \in Partition
      BY <1>1, <1>2, <1>4 DEF KeyRecord
    <3> QED BY <1>1, <1>4, <3>1, NilIsNoPartition DEF Route
  <2>2. Route' = [Route EXCEPT ![k] = Nil]
    BY <1>1, <1>2 DEF Route
  <2> QED BY <1>1, <2>1, <2>2 DEF RT!Next, RT!Demote
<1> QED BY <1>3, <1>4

LEMMA StepRefines == IndInv /\ [Next]_vars => [RT!Next]_Route
<1> SUFFICES ASSUME IndInv, [Next]_vars PROVE RT!Next \/ UNCHANGED Route
  OBVIOUS
<1>1. ASSUME NEW k \in Key, Receive(k) PROVE UNCHANGED keyMap
  BY <1>1 DEF Receive, pmVars
<1>2. CASE Keep \/ KeepHot \/ SizeFirst \/ SizeSecond \/ TurnEnd
  <2>1. UNCHANGED keyMap
    BY <1>2 DEF Keep, KeepHot, SizeFirst, SizeSecond, TurnEnd, pmVars
  <2> QED BY <2>1, RouteKept
<1>3. CASE UNCHANGED vars
  BY <1>3, RouteKept DEF vars, pmVars
<1> QED BY <1>1, <1>2, <1>3, RouteKept, AddHotPromotes, DropDemotes, RebalanceKeepsKeyMap
        DEF Next, BucketStep

LEMMA InitRefines == Init => RT!Init
BY DEF Init, PMInit, RT!Init, Route

\* What NewMessage may rely on: a key is given a partition only while it has
\* none and changes partition only by losing the one it has first, whatever
\* MapToPartition, AddKey, DeleteKey and Rebalance do in between.
THEOREM Refinement == Spec => RoutesLikeATable
BY InitRefines, StepRefines, Inductive, PTL DEF Spec, RoutesLikeATable, RT!Spec

-----------------------------------------------------------------------------
(* What a record says stays what it said when the key was added.           *)

Fixed == \A k \in Key : keyMap[k] # Nil => keyMap'[k] \in {Nil, keyMap[k]}

LEMMA StepKeepsRecords == IndInv /\ [Next]_vars => [Fixed]_vars
<1> SUFFICES ASSUME IndInv, [Next]_vars PROVE Fixed
  OBVIOUS
<1>0. keyMap \in [Key -> KeyRecord \cup {Nil}]
  BY DEF IndInv, TypeOK, PMTypeOK
<1>1. CASE UNCHANGED keyMap
  BY <1>1 DEF Fixed
<1>2. CASE AddHot
  <2>1. PICK kc : keyMap[rec.Key] = Nil /\ keyMap' = [keyMap EXCEPT ![rec.Key] = kc]
    BY <1>2, AddHotStep
  <2> QED BY <1>0, <2>1 DEF Fixed
<1>3. CASE Drop
  <2>1. keyMap' = [keyMap EXCEPT ![rec.Key] = Nil]
    BY <1>3, DropStep
  <2> QED BY <1>0, <2>1 DEF Fixed
<1>4. ASSUME NEW k \in Key, Receive(k) PROVE UNCHANGED keyMap
  BY <1>4 DEF Receive, pmVars
<1>5. Keep \/ KeepHot \/ SizeFirst \/ SizeSecond \/ TurnEnd => UNCHANGED keyMap
  BY DEF Keep, KeepHot, SizeFirst, SizeSecond, TurnEnd, pmVars
<1>6. UNCHANGED vars => UNCHANGED keyMap
  BY DEF vars, pmVars
<1> QED BY <1>1, <1>2, <1>3, <1>4, <1>5, <1>6, RebalanceKeepsKeyMap DEF Next, BucketStep

\* A route is weighed by the count its key had when it was added, for as long as
\* it stands.
THEOREM RecordsTheorem == Spec => RecordsStay
BY StepKeepsRecords, Initially, Step, PTL DEF Spec, RecordsStay, Fixed

-----------------------------------------------------------------------------
(* What a turn leaves out and what it promotes.                            *)

\* The items the loop has passed are kept, or arrived too seldom.
DroppedInv ==
    lcPc # "receive" =>
        \A i \in DOMAIN items : i <= Passed =>
            \/ Tracked(items[i].Key, newItems)
            \/ arrivals[items[i].Key] < 2 * (currentBucket - items[i].Bucket)

\* Hot items have a route, from the moment the loop is done with them to the first
\* message of the next bucket.
PromotedInv ==
    /\ (lcPc = "receive" /\ N = 0) =>
          \A i \in DOMAIN items : items[i].Count >= HotCount => keyMap[items[i].Key] # Nil
    /\ \A n \in DOMAIN newItems : newItems[n].Count >= HotCount =>
          keyMap[newItems[n].Key] # Nil
          \/ (lcPc \in {"size1", "size2", "add"} /\ newItems[n].Key = rec.Key)
    /\ lcPc \in {"size1", "size2", "add"} => rec.Count >= HotCount
    /\ \A k \in Key : keyMap[k] # Nil => keyMap[k].Count >= HotCount

\* The threshold of a full bucket, without the multiplication.
LEMMA HotMeans ==
    ASSUME NEW c \in Nat
    PROVE  IsHot(c, Width) <=> c >= HotCount
<1>0. Width \in Nat /\ Width >= 1 /\ HotCount \in Nat
  BY WidthAssumption, HotAssumption
<1>1. \A x, y \in Nat : x * y \in Nat
  OBVIOUS
<1>2. CASE c >= HotCount
  <2>1. PICK d \in Nat : c = HotCount + d
    <3>1. c - HotCount \in Nat /\ c = HotCount + (c - HotCount)
      BY <1>0, <1>2
    <3> QED BY <3>1
  <2>2. c * Width = HotCount * Width + d * Width
    BY <1>0, <2>1
  <2>3. d * Width \in Nat /\ HotCount * Width \in Nat
    BY <1>0, <1>1
  <2>4. c * Width >= HotCount * Width
    BY <2>2, <2>3
  <2> QED BY <1>2, <2>4 DEF IsHot
<1>3. CASE c < HotCount
  <2>1. PICK d \in Nat : HotCount = c + 1 + d
    <3>1. HotCount - c - 1 \in Nat /\ HotCount = c + 1 + (HotCount - c - 1)
      BY <1>0, <1>3
    <3> QED BY <3>1
  <2>2. HotCount * Width = c * Width + Width + d * Width
    BY <1>0, <2>1
  <2>3. d * Width \in Nat /\ c * Width \in Nat
    BY <1>0, <1>1
  <2>4. ~(c * Width >= HotCount * Width)
    BY <1>0, <2>2, <2>3
  <2> QED BY <1>0, <1>3, <2>4 DEF IsHot
<1> QED BY <1>0, <1>2, <1>3

\* Keeping an item adds it to those kept.
LEMMA KeptAre ==
    ASSUME IndInv, AtItem, newItems' = Append(newItems, rec)
    PROVE  /\ \A n \in DOMAIN newItems' :
                 newItems'[n] = rec \/ \E m \in DOMAIN newItems : newItems'[n] = newItems[m]
           /\ \A k : Tracked(k, newItems) => Tracked(k, newItems')
           /\ Tracked(rec.Key, newItems')
<1>1. newItems \in Seq(Item) /\ rec \in Item
  BY RecProperties DEF AtItem, IndInv, TypeOK
<1> DEFINE r == rec
<1> HIDE DEF r
<1>2. /\ DOMAIN newItems' = DOMAIN newItems \cup {Len(newItems) + 1}
      /\ \A m \in DOMAIN newItems : newItems'[m] = newItems[m]
      /\ newItems'[Len(newItems) + 1] = r
  <2>1. r \in Item /\ newItems' = Append(newItems, r)
    BY <1>1 DEF r
  <2> QED BY <1>1, <2>1
<1> QED BY <1>2 DEF Tracked, r

LEMMA KeptKeys ==
    ASSUME IndInv, NEW n \in DOMAIN newItems
    PROVE  newItems[n].Key \in Key
<1>1. newItems \in Seq(Item)
  BY DEF IndInv, TypeOK
<1>2. newItems[n] \in Item
  BY <1>1
<1> QED BY <1>2 DEF Item

\* Nothing the loop keeps has the key of the item it is at.
LEMMA KeptAreOthers ==
    ASSUME IndInv, AtItem, NEW n \in DOMAIN newItems
    PROVE  newItems[n].Key # rec.Key
<1>1. idx \in DOMAIN items /\ lcPc = "scan" /\ idx \in Nat /\ DOMAIN items \subseteq Nat
  BY DEF AtItem, IndInv, TypeOK
<1>2. PICK i \in DOMAIN items : i <= idx - 1 /\ items[i].Key = newItems[n].Key
  BY <1>1 DEF IndInv, KeptInv, Passed
<1>3. i # idx
  BY <1>1, <1>2
<1> QED BY <1>1, <1>2, <1>3, RecProperties DEF IndInv, ItemsInv

\* An item that does not stay has not earned it.
LEMMA DropIsDeserved ==
    ASSUME IndInv, Drop
    PROVE  arrivals[items[idx].Key] < 2 * (currentBucket - items[idx].Bucket)
<1>1. idx \in DOMAIN items /\ lcPc # "receive" /\ ~Stays
  BY DEF Drop, AtItem, IndInv, TypeOK
<1> DEFINE it == items[idx]
<1>2. /\ it \in Item /\ it.Count - 1 < currentBucket - it.Bucket
      /\ arrivals[it.Key] = it.Count + (currentBucket - 1 - it.Bucket)
  <2>1. it \in Item /\ Earned(it, currentBucket - 1 - it.Bucket)
    BY <1>1 DEF IndInv, TypeOK, ItemsInv
  <2>2. rec \in Item /\ rec.Count = it.Count - 1 /\ rec.Bucket = it.Bucket
        /\ ~(rec.Count >= currentBucket - rec.Bucket)
    BY <1>1, RecProperties
  <2>3. currentBucket \in Nat /\ it.Count \in Int /\ it.Bucket \in Int
    BY <2>1, BoundAssumption DEF Item, Uint64, IndInv, TypeOK
  <2> QED BY <2>1, <2>2, <2>3 DEF Earned
<1>3. it.Count \in Nat /\ it.Bucket \in Nat /\ currentBucket \in Nat
  BY <1>2, BoundAssumption, WordAssumption DEF Item, Uint64, IndInv, TypeOK
<1> HIDE DEF it
<1>4. arrivals[it.Key] < 2 * (currentBucket - it.Bucket)
  BY <1>2, <1>3
<1> QED BY <1>4 DEF it

\* Where items, what is kept and the loop's position stay, so does what was passed.
LEMMA DroppedKept ==
    ASSUME DroppedInv, UNCHANGED <<items, newItems, arrivals, currentBucket>>, Passed' = Passed,
           lcPc' # "receive" => lcPc # "receive"
    PROVE  DroppedInv'
BY DEF DroppedInv, Tracked

LEMMA DroppedStep == IndInv /\ DroppedInv /\ [Next]_vars => DroppedInv'
<1> SUFFICES ASSUME IndInv, DroppedInv, [Next]_vars PROVE DroppedInv'
  OBVIOUS
<1>0. idx \in Nat \ {0} /\ DOMAIN items \subseteq Nat \ {0}
  BY DEF IndInv, TypeOK
<1>1. ASSUME NEW k \in Key, Receive(k) PROVE DroppedInv'
  <2> SUFFICES ASSUME lcPc' # "receive", NEW i \in DOMAIN items', i <= Passed' PROVE FALSE
    BY DEF DroppedInv
  <2>1. lcPc' = "scan" /\ idx' = 1
    BY <1>1 DEF Receive
  <2>2. Passed' = 0
    BY <2>1 DEF Passed
  <2>3. i \in Nat \ {0}
    <3>1. items' \in Seq(Item)
      BY <1>1, ReceiveStep DEF IndInv, TypeOK
    <3> QED BY <3>1
  <2> QED BY <2>2, <2>3
<1>2. CASE Keep \/ KeepHot
  <2>1. /\ AtItem /\ newItems' = Append(newItems, rec) /\ lcPc = "scan"
        /\ UNCHANGED <<items, currentBucket, arrivals>>
        /\ \/ lcPc' = "scan" /\ idx' = idx + 1
           \/ lcPc' = "size1" /\ idx' = idx
    BY <1>2 DEF Keep, KeepHot, AtItem
  <2>2. Passed' = idx /\ Passed = idx - 1
    BY <1>0, <2>1 DEF Passed
  <2>3. idx \in DOMAIN items /\ rec.Key = items[idx].Key
    BY <2>1, RecProperties DEF AtItem, IndInv, TypeOK
  <2> SUFFICES ASSUME NEW i \in DOMAIN items, i <= idx
               PROVE  \/ Tracked(items[i].Key, newItems')
                      \/ arrivals[items[i].Key] < 2 * (currentBucket - items[i].Bucket)
    BY <2>1, <2>2 DEF DroppedInv, Tracked
  <2>4. CASE i = idx
    BY <2>1, <2>3, <2>4, KeptAre
  <2>5. CASE i # idx
    <3>1. i <= Passed
      BY <1>0, <2>2, <2>5
    <3> QED BY <2>1, <3>1, KeptAre DEF DroppedInv
  <2> QED BY <2>4, <2>5
<1>3. CASE Drop
  <2>1. /\ AtItem /\ lcPc = "scan" /\ lcPc' = "scan" /\ idx' = idx + 1
        /\ UNCHANGED <<items, currentBucket, newItems, arrivals>>
    BY <1>3 DEF Drop, AtItem
  <2>2. Passed' = idx /\ Passed = idx - 1
    BY <1>0, <2>1 DEF Passed
  <2> SUFFICES ASSUME NEW i \in DOMAIN items, i <= idx
               PROVE  \/ Tracked(items[i].Key, newItems)
                      \/ arrivals[items[i].Key] < 2 * (currentBucket - items[i].Bucket)
    BY <2>1, <2>2 DEF DroppedInv, Tracked
  <2>3. CASE i = idx
    BY <1>3, <2>3, DropIsDeserved
  <2>4. CASE i # idx
    <3>1. i <= Passed
      BY <1>0, <2>2, <2>4
    <3> QED BY <2>1, <3>1 DEF DroppedInv
  <2> QED BY <2>3, <2>4
<1>4. CASE SizeFirst \/ SizeSecond
  <2>1. lcPc # "receive" /\ lcPc # "scan" /\ lcPc' # "scan" /\ UNCHANGED <<items, newItems, arrivals, currentBucket, idx>>
    BY <1>4 DEF SizeFirst, SizeSecond
  <2> QED BY <2>1, DroppedKept DEF Passed
<1>5. CASE AddHot
  <2>1. lcPc = "add" /\ lcPc' = "scan" /\ idx' = idx + 1 /\ UNCHANGED <<items, newItems, arrivals, currentBucket>>
    BY <1>5 DEF AddHot
  <2>2. Passed' = Passed
    BY <1>0, <2>1 DEF Passed
  <2> QED BY <2>1, <2>2, DroppedKept
<1>6. CASE TurnEnd
  BY <1>6 DEF TurnEnd, DroppedInv
<1>7. CASE UNCHANGED lcVars
  BY <1>7, DroppedKept DEF lcVars, Passed
<1> QED BY <1>1, <1>2, <1>3, <1>4, <1>5, <1>6, <1>7 DEF Next, BucketStep, vars

LEMMA PromotedStep == IndInv /\ PromotedInv /\ [Next]_vars => PromotedInv'
<1> SUFFICES ASSUME IndInv, PromotedInv, [Next]_vars PROVE PromotedInv'
  OBVIOUS
<1>0. keyMap \in [Key -> KeyRecord \cup {Nil}] /\ N \in Nat
  BY WidthAssumption DEF IndInv, TypeOK, PMTypeOK
<1>1. CASE UNCHANGED <<lcVars, keyMap>>
  BY <1>1 DEF PromotedInv, lcVars, rec
<1>2. ASSUME NEW k \in Key, Receive(k) PROVE PromotedInv'
  <2>1. /\ lcPc' \in {"receive", "scan"} /\ N' # 0 /\ UNCHANGED keyMap
        /\ newItems' = <<>>
    <3>1. newItems = <<>> /\ lcPc = "receive" /\ N' = N + 1 /\ UNCHANGED keyMap
      BY <1>2 DEF Receive, pmVars, IndInv, ControlInv
    <3>2. \/ lcPc' = "scan" /\ newItems' = <<>>
          \/ lcPc' = lcPc /\ newItems' = newItems
      BY <1>2 DEF Receive
    <3> QED BY <1>0, <3>1, <3>2
  <2> QED BY <2>1 DEF PromotedInv
\* The item just kept: mapped, not hot, or to be mapped.
<1>3. CASE Keep \/ KeepHot
  <2>1. /\ AtItem /\ Stays /\ newItems' = Append(newItems, rec) /\ lcPc = "scan" /\ UNCHANGED <<items, keyMap>>
        /\ \/ lcPc' = "scan" /\ (IsHot(rec.Count, N) => keyMap[rec.Key] # Nil)
           \/ lcPc' = "size1" /\ idx' = idx /\ IsHot(rec.Count, N)
    BY <1>3 DEF Keep, KeepHot, AtItem, pmVars
  <2>2. idx \in DOMAIN items /\ N = Width
    BY <2>1 DEF AtItem, IndInv, TypeOK, ControlInv
  <2>3. rec.Count \in Nat
    BY <2>1, <2>2, RecProperties, WordAssumption DEF Item, Uint64
  <2>4. IsHot(rec.Count, N) <=> rec.Count >= HotCount
    BY <2>2, <2>3, HotMeans
  <2>5. lcPc' = "size1" => rec' = rec
    BY <2>1 DEF rec
  <2>6. ASSUME NEW n \in DOMAIN newItems', newItems'[n].Count >= HotCount
        PROVE  keyMap[newItems'[n].Key] # Nil \/ (lcPc' = "size1" /\ newItems'[n].Key = rec.Key)
    <3>1. newItems'[n] = rec \/ \E m \in DOMAIN newItems : newItems'[n] = newItems[m]
      BY <2>1, KeptAre
    <3>2. CASE newItems'[n] = rec
      BY <2>1, <2>4, <2>6, <3>2
    <3>3. CASE \E m \in DOMAIN newItems : newItems'[n] = newItems[m]
      BY <2>1, <2>6, <3>3 DEF PromotedInv
    <3> QED BY <3>1, <3>2, <3>3
  <2>7. lcPc' \in {"scan", "size1"} /\ (lcPc' = "size1" => rec.Count >= HotCount)
    BY <2>1, <2>4
  <2> QED BY <2>1, <2>5, <2>6, <2>7 DEF PromotedInv
<1>4. CASE SizeFirst \/ SizeSecond
  <2>1. /\ lcPc \in {"size1", "size2"} /\ lcPc' \in {"size2", "add"}
        /\ UNCHANGED <<items, newItems, idx, keyMap>>
    BY <1>4 DEF SizeFirst, SizeSecond, pmVars
  <2>2. rec' = rec
    BY <2>1 DEF rec
  <2> QED BY <2>1, <2>2 DEF PromotedInv
<1>5. CASE AddHot
  <2> DEFINE kc == [Key |-> rec.Key, Count |-> rec.Count, Partition |-> MapToPartition]
             k == rec.Key
  <2>1. /\ lcPc = "add" /\ lcPc' = "scan" /\ UNCHANGED newItems /\ k \in Key
        /\ keyMap' = [keyMap EXCEPT ![k] = kc] /\ kc \in KeyRecord
    BY <1>5, AddHotStep DEF AddHot, KeyRecord
  <2>2. kc.Count >= HotCount /\ kc # Nil
    BY <2>1, NilAssumption DEF PromotedInv
  <2> HIDE DEF kc
  <2>3. \A l \in Key : keyMap'[l] # Nil => keyMap'[l].Count >= HotCount
    BY <1>0, <2>1, <2>2 DEF PromotedInv
  <2>4. ASSUME NEW n \in DOMAIN newItems, newItems[n].Count >= HotCount PROVE keyMap'[newItems[n].Key] # Nil
    <3>1. newItems[n].Key \in Key
      BY KeptKeys
    <3>2. keyMap[newItems[n].Key] # Nil \/ newItems[n].Key = k
      BY <2>4 DEF PromotedInv
    <3> HIDE DEF k
    <3> QED BY <1>0, <2>1, <2>2, <3>1, <3>2
  <2> QED BY <2>1, <2>3, <2>4 DEF PromotedInv
<1>6. CASE Drop
  <2> DEFINE k == rec.Key
  <2>1. /\ AtItem /\ lcPc = "scan" /\ lcPc' = "scan" /\ UNCHANGED newItems
        /\ k \in Key /\ keyMap' = [keyMap EXCEPT ![k] = Nil]
    BY <1>6, DropStep DEF Drop, AtItem
  <2>2. \A l \in Key : keyMap'[l] # Nil => keyMap'[l].Count >= HotCount
    BY <1>0, <2>1 DEF PromotedInv
  <2>3. ASSUME NEW n \in DOMAIN newItems, newItems[n].Count >= HotCount PROVE keyMap'[newItems[n].Key] # Nil
    <3>1. newItems[n].Key # k
      BY <2>1, KeptAreOthers
    <3>2. newItems[n].Key \in Key
      BY KeptKeys
    <3>3. keyMap[newItems[n].Key] # Nil
      BY <2>1, <2>3 DEF PromotedInv
    <3> HIDE DEF k
    <3> QED BY <1>0, <2>1, <3>1, <3>2, <3>3
  <2> QED BY <2>1, <2>2, <2>3 DEF PromotedInv
<1>7. CASE TurnEnd
  <2>1. lcPc = "scan" /\ lcPc' = "receive" /\ items' = newItems /\ newItems' = <<>> /\ UNCHANGED keyMap
    BY <1>7 DEF TurnEnd, pmVars
  <2> QED BY <2>1 DEF PromotedInv
<1>8. Rebalance /\ UNCHANGED lcVars => UNCHANGED <<lcVars, keyMap>>
  BY RebalanceKeepsKeyMap
<1>9. UNCHANGED vars => UNCHANGED <<lcVars, keyMap>>
  BY DEF vars, pmVars
<1> QED BY <1>1, <1>2, <1>3, <1>4, <1>5, <1>6, <1>7, <1>8, <1>9 DEF Next, BucketStep

TurnInv == IndInv /\ DroppedInv /\ PromotedInv

LEMMA TurnInitially == Init => TurnInv
<1> SUFFICES ASSUME Init PROVE DroppedInv /\ PromotedInv
  BY Initially DEF TurnInv
<1>1. DroppedInv
  BY DEF Init, DroppedInv
<1>2. PromotedInv
  BY DEF Init, PMInit, PromotedInv
<1> QED BY <1>1, <1>2

LEMMA TurnStep == TurnInv /\ [Next]_vars => TurnInv'
BY Step, DroppedStep, PromotedStep DEF TurnInv

\* A key leaves the items at the end of a turn only, and then deserves it.
Deserved ==
    \A i \in DOMAIN items :
        ~Tracked(items[i].Key, items') =>
            arrivals[items[i].Key] < 2 * (currentBucket - items[i].Bucket)

LEMMA StepForgets == TurnInv /\ [Next]_vars => [Deserved]_vars
<1> SUFFICES ASSUME TurnInv, [Next]_vars PROVE Deserved
  OBVIOUS
<1>0. items \in Seq(Item) /\ newItems \in Seq(Item) /\ idx \in Nat
  BY DEF TurnInv, IndInv, TypeOK
<1>1. CASE UNCHANGED items
  BY <1>1 DEF Deserved, Tracked
<1>2. ASSUME NEW k \in Key, Receive(k) PROVE Deserved
  <2> SUFFICES ASSUME NEW i \in DOMAIN items PROVE Tracked(items[i].Key, Counted(k))
    BY <1>2 DEF Receive, Deserved
  <2>1. CASE Tracked(k, items)
    <3> DEFINE c == [items[i] EXCEPT !.Count = (@ + 1) % Word]
    <3>1. items[i] \in Item
      BY <1>0
    <3>2. c.Key = items[i].Key
      BY <3>1 DEF Item
    <3>3. DOMAIN Counted(k) = DOMAIN items /\ Counted(k)[i] \in {items[i], c}
      BY <2>1 DEF Counted
    <3> HIDE DEF c
    <3> QED BY <3>2, <3>3 DEF Tracked
  <2>2. CASE ~Tracked(k, items)
    <3> DEFINE fresh == [Key |-> k, Count |-> 1, Bucket |-> currentBucket - 1]
    <3>1. Counted(k) = Append(items, fresh)
      BY <2>2 DEF Counted
    <3> HIDE DEF fresh
    <3>2. i \in DOMAIN Counted(k) /\ Counted(k)[i] = items[i]
      BY <1>0, <3>1
    <3> QED BY <3>2 DEF Tracked
  <2> QED BY <2>1, <2>2
<1>3. CASE TurnEnd
  <2>1. lcPc = "scan" /\ idx > Len(items) /\ items' = newItems
    BY <1>3 DEF TurnEnd
  <2>2. \A i \in DOMAIN items : i <= Passed
    BY <1>0, <2>1 DEF Passed
  <2> QED BY <2>1, <2>2 DEF TurnInv, DroppedInv, Deserved
<1>4. Keep \/ KeepHot \/ SizeFirst \/ SizeSecond \/ AddHot \/ Drop => UNCHANGED items
  BY DEF Keep, KeepHot, SizeFirst, SizeSecond, AddHot, Drop
<1>5. UNCHANGED vars \/ UNCHANGED lcVars => UNCHANGED items
  BY DEF vars, lcVars
<1> QED BY <1>1, <1>2, <1>3, <1>4, <1>5 DEF Next, BucketStep

\* The counter forgets no key that arrived twice per bucket, on the average since it
\* was added.
THEOREM ForgottenTheorem == Spec => ForgottenWereSparse
BY StepForgets, TurnInitially, TurnStep, PTL DEF Spec, ForgottenWereSparse, Deserved

\* After a turn the kept keys that pass the threshold are routed, and only such
\* keys ever are.
THEOREM HotTheorem == Spec => []HotKeysAreRouted
<1>1. TurnInv => HotKeysAreRouted
  BY DEF TurnInv, PromotedInv, HotKeysAreRouted
<1> QED BY <1>1, TurnInitially, TurnStep, PTL DEF Spec
=============================================================================
