------------------------- MODULE PartitionMapProofs -------------------------
(***************************************************************************)
(* Type correctness of the partition map, agreement of its two indexes,    *)
(* and what Rebalance can move, for every number of keys and partitions.   *)
(***************************************************************************)
EXTENDS PartitionMap, FiniteSetTheorems, SequenceTheorems, TLAPS

LEMMA UnitsFinite ==
    ASSUME NEW s \in Seq(KeyRecord)
    PROVE  IsFiniteSet(Units(s)) /\ Cardinality(Units(s)) \in Nat
<1>1. IsFiniteSet(DOMAIN s)
  <2>1. DOMAIN s = 1 .. Len(s) /\ Len(s) \in Nat
    OBVIOUS
  <2> QED BY <2>1, FS_Interval
<1>2. IsFiniteSet(Uint64)
  BY WordAssumption, FS_Interval DEF Uint64
<1>3. IsFiniteSet((DOMAIN s) \X Uint64)
  BY <1>1, <1>2, FS_Product
<1>4. Units(s) \in SUBSET ((DOMAIN s) \X Uint64)
  BY DEF Units
<1>5. IsFiniteSet(Units(s))
  BY <1>3, <1>4, FS_Subset
<1> QED BY <1>5, FS_CardinalityType

LEMMA PartitionSizeIsNat ==
    ASSUME PMTypeOK, NEW p \in Partition
    PROVE  PartitionSize(p) \in Nat
<1>1. store[p] \in Seq(KeyRecord)
  BY DEF PMTypeOK
<1> QED BY <1>1, UnitsFinite DEF PartitionSize

LEMMA RemoveAtProperties ==
    ASSUME NEW S, NEW s \in Seq(S), NEW i \in 1 .. Len(s)
    PROVE  /\ RemoveAt(s, i) \in Seq(S)
           /\ Len(RemoveAt(s, i)) = Len(s) - 1
           /\ \A j \in 1 .. Len(s) - 1 :
                 RemoveAt(s, i)[j] = IF j < i THEN s[j] ELSE s[j + 1]
<1> DEFINE a == SubSeq(s, 1, i - 1)
           b == SubSeq(s, i + 1, Len(s))
<1>1. a \in Seq(S) /\ Len(a) = i - 1 /\ \A j \in 1 .. i - 1 : a[j] = s[j]
  OBVIOUS
<1>2. b \in Seq(S) /\ Len(b) = Len(s) - i /\ \A j \in 1 .. Len(s) - i : b[j] = s[i + j]
  OBVIOUS
<1>3. RemoveAt(s, i) = a \o b
  BY DEF RemoveAt
<1>4. Len(s) \in Nat /\ i \in Int /\ 1 <= i /\ i <= Len(s)
  OBVIOUS
<1> HIDE DEF a, b
<1>5. Len(a) + Len(b) = Len(s) - 1
  BY <1>1, <1>2, <1>4
<1>6. /\ a \o b \in Seq(S) /\ Len(a \o b) = Len(a) + Len(b)
      /\ \A j \in 1 .. Len(a) + Len(b) :
            (a \o b)[j] = IF j <= Len(a) THEN a[j] ELSE b[j - Len(a)]
  BY <1>1, <1>2, ConcatProperties
<1>7. ASSUME NEW j \in 1 .. Len(s) - 1
      PROVE  (a \o b)[j] = IF j < i THEN s[j] ELSE s[j + 1]
  <2>1. (a \o b)[j] = IF j <= i - 1 THEN a[j] ELSE b[j - (i - 1)]
    BY <1>1, <1>5, <1>6
  <2>2. CASE j < i
    BY <1>1, <1>4, <2>1, <2>2
  <2>3. CASE ~(j < i)
    <3>1. j - (i - 1) \in 1 .. Len(s) - i /\ i + (j - (i - 1)) = j + 1
      BY <2>3, <1>4
    <3>2. b[j - (i - 1)] = s[i + (j - (i - 1))]
      BY <1>2, <3>1
    <3> QED BY <2>1, <2>3, <3>1, <3>2, <1>4
  <2> QED BY <2>2, <2>3
<1> QED BY <1>3, <1>5, <1>6, <1>7

-----------------------------------------------------------------------------
(* The map's invariant, as a predicate of a store and a key map, so that   *)
(* it can be followed through migrateKey's delete and add.                 *)

MapOK(st, km) ==
    /\ st \in [Partition -> Seq(KeyRecord)]
    /\ km \in [Key -> KeyRecord \cup {Nil}]
    /\ \A p \in Partition : \A i \in DOMAIN st[p] :
          st[p][i].Partition = p /\ km[st[p][i].Key] = st[p][i]
    /\ \A k \in Key : km[k] # Nil =>
          \E i \in DOMAIN st[km[k].Partition] : st[km[k].Partition][i].Key = k
    /\ \A p \in Partition : \A i, j \in DOMAIN st[p] :
          st[p][i].Key = st[p][j].Key => i = j

LEMMA MapOKIsAgreement ==
    PMTypeOK => (MapOK(store, keyMap) <=> StoreAgreesWithKeyMap)
BY DEF PMTypeOK, MapOK, StoreAgreesWithKeyMap, StoredIsMapped, MappedIsStored, StoredOnce

\* Adding the record of a key without one.
LEMMA AddingKeepsMapOK ==
    ASSUME NEW st, NEW km, MapOK(st, km),
           NEW k \in Key, NEW c \in Uint64, NEW p \in Partition, km[k] = Nil,
           NEW kc, kc = [Key |-> k, Count |-> c, Partition |-> p]
    PROVE  MapOK(Appended(st, kc), [km EXCEPT ![k] = kc])
<1> DEFINE st1 == Appended(st, kc)
           km1 == [km EXCEPT ![k] = kc]
<1>0. kc \in KeyRecord /\ kc.Key = k /\ kc.Partition = p /\ kc # Nil
  BY NilAssumption DEF KeyRecord
<1>1. st1 \in [Partition -> Seq(KeyRecord)] /\ km1 \in [Key -> KeyRecord \cup {Nil}]
  BY <1>0 DEF MapOK, Appended
<1>2. /\ \A q \in Partition : q # p => st1[q] = st[q]
      /\ Len(st1[p]) = Len(st[p]) + 1
      /\ \A i \in 1 .. Len(st[p]) : st1[p][i] = st[p][i]
      /\ st1[p][Len(st[p]) + 1] = kc
  BY <1>0 DEF MapOK, Appended
<1>3. \A q \in Partition : \A i \in DOMAIN st[q] : st[q][i].Key \in Key /\ st[q][i].Key # k
  <2> SUFFICES ASSUME NEW q \in Partition, NEW i \in DOMAIN st[q]
               PROVE  st[q][i].Key \in Key /\ st[q][i].Key # k
    OBVIOUS
  <2>1. st[q][i] \in KeyRecord /\ km[st[q][i].Key] = st[q][i]
    BY DEF MapOK
  <2>2. st[q][i] # Nil
    BY <2>1, NilAssumption
  <2> QED BY <2>1, <2>2 DEF KeyRecord
<1>4. ASSUME NEW q \in Partition, NEW i \in DOMAIN st1[q]
      PROVE  \/ i \in DOMAIN st[q] /\ st1[q][i] = st[q][i]
             \/ q = p /\ i = Len(st[p]) + 1 /\ st1[q][i] = kc
  <2>1. st[q] \in Seq(KeyRecord) /\ st1[q] \in Seq(KeyRecord)
    BY <1>1 DEF MapOK
  <2>2. CASE q = p
    BY <1>2, <2>1, <2>2, SMTT(30)
  <2>3. CASE q # p
    BY <1>2, <2>1, <2>3
  <2> QED BY <2>2, <2>3
<1>5. ASSUME NEW q \in Partition, NEW i \in DOMAIN st1[q]
      PROVE  st1[q][i].Partition = q /\ km1[st1[q][i].Key] = st1[q][i]
  <2>1. CASE i \in DOMAIN st[q] /\ st1[q][i] = st[q][i]
    BY <2>1, <1>3 DEF MapOK
  <2>2. CASE q = p /\ st1[q][i] = kc
    BY <2>2, <1>0 DEF MapOK
  <2> QED BY <1>4, <2>1, <2>2
<1>6. ASSUME NEW l \in Key, km1[l] # Nil
      PROVE  \E i \in DOMAIN st1[km1[l].Partition] : st1[km1[l].Partition][i].Key = l
  <2>1. CASE l = k
    <3>1. km1[l] = kc /\ km1[l].Partition = p
      BY <2>1, <1>0 DEF MapOK
    <3>2. Len(st[p]) + 1 \in DOMAIN st1[p]
      BY <1>1, <1>2 DEF MapOK
    <3> QED BY <3>1, <3>2, <1>0, <1>2, <2>1
  <2>2. CASE l # k
    <3>1. km1[l] = km[l] /\ km[l] \in KeyRecord
      BY <2>2, <1>6 DEF MapOK
    <3> DEFINE q == km[l].Partition
    <3>2. q \in Partition
      BY <3>1 DEF KeyRecord
    <3>3. PICK i \in DOMAIN st[q] : st[q][i].Key = l
      BY <3>1, <1>6 DEF MapOK
    <3>4. i \in DOMAIN st1[q] /\ st1[q][i] = st[q][i]
      <4>1. st[q] \in Seq(KeyRecord) /\ st1[q] \in Seq(KeyRecord)
        BY <1>1, <3>2 DEF MapOK
      <4>2. CASE q = p
        BY <4>1, <4>2, <1>2
      <4>3. CASE q # p
        BY <4>1, <4>3, <1>2, <3>2
      <4> QED BY <4>2, <4>3
    <3> QED BY <3>1, <3>3, <3>4
  <2> QED BY <2>1, <2>2
<1>7. ASSUME NEW q \in Partition, NEW i \in DOMAIN st1[q], NEW j \in DOMAIN st1[q],
             st1[q][i].Key = st1[q][j].Key
      PROVE  i = j
  <2>1. CASE i \in DOMAIN st[q] /\ st1[q][i] = st[q][i]
    <3>1. j \in DOMAIN st[q] /\ st1[q][j] = st[q][j]
      BY <2>1, <1>0, <1>3, <1>4, <1>7
    <3> QED BY <2>1, <3>1, <1>7 DEF MapOK
  <2>2. CASE q = p /\ i = Len(st[p]) + 1 /\ st1[q][i] = kc
    BY <2>2, <1>0, <1>3, <1>4, <1>7
  <2> QED BY <1>4, <2>1, <2>2
<1> QED BY <1>1, <1>5, <1>6, <1>7 DEF MapOK

\* deleteKey, wherever it finds the key.
LEMMA DeletingKeepsMapOK ==
    ASSUME MapOK(store, keyMap), NEW k \in Key, NEW st \in StoresWithout(k)
    PROVE  /\ MapOK(st, [keyMap EXCEPT ![k] = Nil])
           /\ Found(k) = {} => keyMap[k] = Nil
<1> DEFINE km == [keyMap EXCEPT ![k] = Nil]
<1>1. CASE Found(k) = {}
  <2>1. keyMap[k] = Nil
    <3> SUFFICES ASSUME keyMap[k] # Nil PROVE FALSE
      OBVIOUS
    <3> DEFINE p == keyMap[k].Partition
    <3>1. p \in Partition
      BY DEF MapOK, KeyRecord
    <3>2. PICK i \in DOMAIN store[p] : store[p][i].Key = k
      BY DEF MapOK
    <3>3. store[p] \in Seq(KeyRecord)
      BY <3>1 DEF MapOK
    <3>4. \A j \in 1 .. i - 1 : store[p][j].Key # k
      <4> SUFFICES ASSUME NEW j \in 1 .. i - 1, store[p][j].Key = k PROVE FALSE
        OBVIOUS
      <4>1. j \in DOMAIN store[p] /\ j # i
        BY <3>2, <3>3
      <4> QED BY <4>1, <3>1, <3>2 DEF MapOK
    <3>5. <<p, i>> \in Found(k)
      BY <3>1, <3>2, <3>4 DEF Found
    <3> QED BY <3>5, <1>1
  <2>2. km = keyMap /\ st = store
    BY <1>1, <2>1 DEF MapOK, StoresWithout
  <2> QED BY <2>1, <2>2
<1>2. CASE Found(k) # {}
  <2>1. PICK f \in Found(k) :
          st = [store EXCEPT ![store[f[1]][f[2]].Partition] = RemoveAt(@, f[2])]
    BY <1>2 DEF StoresWithout
  <2> DEFINE p == f[1]
             i == f[2]
  <2>2. p \in Partition /\ i \in DOMAIN store[p] /\ store[p][i].Key = k
    BY DEF Found
  <2>3. store[p] \in Seq(KeyRecord) /\ store[p][i].Partition = p
    BY <2>2 DEF MapOK
  <2>4. i \in 1 .. Len(store[p])
    BY <2>2, <2>3
  <2>5. st = [store EXCEPT ![p] = RemoveAt(@, i)]
    BY <2>1, <2>3
  <2> HIDE DEF p, i
  <2>6. /\ st[p] \in Seq(KeyRecord) /\ Len(st[p]) = Len(store[p]) - 1
        /\ \A j \in 1 .. Len(store[p]) - 1 :
              st[p][j] = IF j < i THEN store[p][j] ELSE store[p][j + 1]
    <3>1. st[p] = RemoveAt(store[p], i)
      BY <2>2, <2>5 DEF MapOK
    <3> QED BY <3>1, <2>3, <2>4, RemoveAtProperties
  <2>7. \A q \in Partition : q # p => st[q] = store[q]
    BY <2>5 DEF MapOK
  <2>8. st \in [Partition -> Seq(KeyRecord)] /\ km \in [Key -> KeyRecord \cup {Nil}]
    BY <2>2, <2>5, <2>6 DEF MapOK
  \* Every record left was in the same slice, and is not the removed one.
  <2> DEFINE old(q, j) == IF q = p /\ j >= i THEN j + 1 ELSE j
  <2>9. ASSUME NEW q \in Partition, NEW j \in DOMAIN st[q]
        PROVE  /\ j \in Nat
               /\ old(q, j) \in DOMAIN store[q] /\ st[q][j] = store[q][old(q, j)]
               /\ st[q][j].Key # k /\ st[q][j].Key \in Key
    <3>1. st[q] \in Seq(KeyRecord) /\ store[q] \in Seq(KeyRecord)
      BY <2>8 DEF MapOK
    <3>2. j \in Nat /\ old(q, j) \in DOMAIN store[q] /\ st[q][j] = store[q][old(q, j)]
      <4>1. CASE q = p
        <5>1. j \in 1 .. Len(store[p]) - 1
          BY <4>1, <3>1, <2>3, <2>6
        <5>2. st[p][j] = IF j < i THEN store[p][j] ELSE store[p][j + 1]
          BY <5>1, <2>6
        <5>3. CASE j < i
          BY <4>1, <5>1, <5>2, <5>3, <2>3, <2>4
        <5>4. CASE ~(j < i)
          BY <4>1, <5>1, <5>2, <5>4, <2>3, <2>4
        <5> QED BY <5>3, <5>4
      <4>2. CASE q # p
        BY <4>2, <3>1, <2>7
      <4> QED BY <4>1, <4>2
    <3>3. st[q][j].Key # k
      <4> SUFFICES ASSUME st[q][j].Key = k PROVE FALSE
        OBVIOUS
      <4>1. store[q][old(q, j)].Partition = q /\ keyMap[k] = store[q][old(q, j)]
        BY <3>2 DEF MapOK
      <4>2. keyMap[k] = store[p][i]
        BY <2>2 DEF MapOK
      <4>3. q = p
        BY <4>1, <4>2, <2>3
      <4>4. old(p, j) = i
        BY <4>3, <3>2, <2>2 DEF MapOK
      <4> QED BY <4>3, <4>4, <2>4, <3>2
    <3>4. st[q][j] \in KeyRecord
      BY <3>1
    <3> HIDE DEF old
    <3> QED BY <3>2, <3>3, <3>4 DEF KeyRecord
  <2>10. ASSUME NEW q \in Partition, NEW j \in DOMAIN st[q]
         PROVE  st[q][j].Partition = q /\ km[st[q][j].Key] = st[q][j]
    <3>1. store[q][old(q, j)].Partition = q
          /\ keyMap[store[q][old(q, j)].Key] = store[q][old(q, j)]
      BY <2>9 DEF MapOK
    <3> QED BY <3>1, <2>9 DEF MapOK
  <2>11. ASSUME NEW l \in Key, km[l] # Nil
         PROVE  \E j \in DOMAIN st[km[l].Partition] : st[km[l].Partition][j].Key = l
    <3>1. l # k /\ km[l] = keyMap[l] /\ km[l] \in KeyRecord
      BY <2>11 DEF MapOK
    <3> DEFINE q == km[l].Partition
    <3>2. q \in Partition
      BY <3>1 DEF KeyRecord
    <3>3. PICK j \in DOMAIN store[q] : store[q][j].Key = l
      BY <3>1, <2>11 DEF MapOK
    <3>4. store[q] \in Seq(KeyRecord) /\ st[q] \in Seq(KeyRecord)
      BY <3>2, <2>8 DEF MapOK
    <3>5. CASE q = p
      <4>1. j # i
        BY <3>1, <3>3, <3>5, <2>2
      <4> DEFINE n == IF j < i THEN j ELSE j - 1
      <4>2. n \in 1 .. Len(store[p]) - 1 /\ (IF n < i THEN n ELSE n + 1) = j
        BY <3>3, <3>4, <3>5, <4>1, <2>4, SMTT(30)
      <4>3. n \in DOMAIN st[q] /\ st[q][n] = store[q][j]
        <5> HIDE DEF n, q
        <5> QED BY <4>2, <3>4, <3>5, <2>6
      <4> QED BY <4>3, <3>3
    <3>6. CASE q # p
      BY <3>6, <3>2, <3>3, <2>7
    <3> QED BY <3>5, <3>6
  <2>12. ASSUME NEW q \in Partition, NEW j \in DOMAIN st[q], NEW n \in DOMAIN st[q],
                st[q][j].Key = st[q][n].Key
         PROVE  j = n
    <3>1. old(q, j) = old(q, n)
      BY <2>9, <2>12 DEF MapOK
    <3> QED BY <3>1, <2>4, <2>9
  <2> QED BY <1>2, <2>8, <2>10, <2>11, <2>12 DEF MapOK
<1> QED BY <1>1, <1>2

-----------------------------------------------------------------------------
(* Each kind of step keeps the type invariant and the agreement.           *)

PMInv == PMTypeOK /\ StoreAgreesWithKeyMap

LEMMA AddKeyKeepsPMInv ==
    ASSUME PMInv, NEW k \in Key, NEW c \in Uint64, NEW p \in Partition,
           keyMap[k] = Nil, AddKey(k, c, p), UNCHANGED rbVars
    PROVE  PMInv'
<1> DEFINE kc == [Key |-> k, Count |-> c, Partition |-> p]
<1>1. MapOK(store, keyMap)
  BY MapOKIsAgreement DEF PMInv
<1>2. store' = Appended(store, kc) /\ keyMap' = [keyMap EXCEPT ![k] = kc]
  BY DEF AddKey
<1>3. MapOK(store', keyMap')
  BY <1>1, <1>2, AddingKeepsMapOK
<1> QED BY <1>3 DEF PMInv, MapOK, PMTypeOK, rbVars,
           StoreAgreesWithKeyMap, StoredIsMapped, MappedIsStored, StoredOnce

LEMMA DeleteKeyKeepsPMInv ==
    ASSUME PMInv, NEW k \in Key, DeleteKey(k), UNCHANGED rbVars
    PROVE  PMInv' /\ keyMap' = [keyMap EXCEPT ![k] = Nil]
<1>1. MapOK(store, keyMap)
  BY MapOKIsAgreement DEF PMInv
<1>2. store' \in StoresWithout(k)
  BY DEF DeleteKey
<1>3. /\ MapOK(store', [keyMap EXCEPT ![k] = Nil])
      /\ Found(k) = {} => keyMap[k] = Nil
  BY <1>1, <1>2, DeletingKeepsMapOK
<1>4. keyMap' = [keyMap EXCEPT ![k] = Nil]
  <2>1. CASE Found(k) = {}
    <3>1. keyMap[k] = Nil /\ keyMap' = keyMap
      BY <2>1, <1>3 DEF DeleteKey
    <3>2. keyMap \in [Key -> KeyRecord \cup {Nil}]
      BY <1>1 DEF MapOK
    <3> QED BY <3>1, <3>2
  <2>2. CASE Found(k) # {}
    BY <2>2 DEF DeleteKey
  <2> QED BY <2>1, <2>2
<1> QED BY <1>3, <1>4 DEF PMInv, MapOK, PMTypeOK, rbVars,
           StoreAgreesWithKeyMap, StoredIsMapped, MappedIsStored, StoredOnce

LEMMA RB_MigrateKeepsPMInv ==
    ASSUME PMInv, RB_Migrate
    PROVE  PMInv'
<1>1. MapOK(store, keyMap)
  BY MapOKIsAgreement DEF PMInv
<1>2. PICK m \in swap : migrateKey(m[1].Key, m[1].Count, m[2]) /\ swap' = swap \ {m}
  BY DEF RB_Migrate
<1> DEFINE k == m[1].Key
           c == m[1].Count
           p == m[2]
           kc == [Key |-> k, Count |-> c, Partition |-> p]
<1>3. k \in Key /\ c \in Uint64 /\ p \in Partition
  BY DEF PMInv, PMTypeOK, KeyRecord
<1>4. PICK st \in (IF keyMap[k] # Nil THEN StoresWithout(k) ELSE {store}) :
        store' = Appended(st, kc) /\ keyMap' = [keyMap EXCEPT ![k] = kc]
  BY <1>2 DEF migrateKey
<1> DEFINE km == [keyMap EXCEPT ![k] = Nil]
<1> HIDE DEF k, c, p
<1>5. MapOK(st, km)
  <2>1. CASE keyMap[k] # Nil
    BY <1>1, <1>3, <1>4, <2>1, DeletingKeepsMapOK
  <2>2. CASE keyMap[k] = Nil
    <3>1. km = keyMap /\ st = store
      BY <1>1, <1>3, <1>4, <2>2 DEF MapOK
    <3> QED BY <1>1, <3>1
  <2> QED BY <2>1, <2>2
<1>6. km[k] = Nil
  BY <1>1, <1>3 DEF MapOK
<1>7. MapOK(Appended(st, kc), [km EXCEPT ![k] = kc])
  BY <1>3, <1>5, <1>6, AddingKeepsMapOK
<1>8. [km EXCEPT ![k] = kc] = keyMap'
  BY <1>1, <1>4 DEF MapOK
<1>9. MapOK(store', keyMap')
  BY <1>4, <1>7, <1>8
<1>10. rbPc' \in {"idle", "candidates", "match", "migrate"} /\ swap' \subseteq swap
       /\ less' = less /\ grtr' = grtr /\ cands' = cands
  BY <1>2 DEF RB_Migrate, NextPart
<1> QED BY <1>9, <1>10 DEF PMInv, MapOK, PMTypeOK,
           StoreAgreesWithKeyMap, StoredIsMapped, MappedIsStored, StoredOnce

\* Rebalance's other steps only read the map.
LEMMA RebalanceKeepsPMInv ==
    ASSUME PMInv, Rebalance
    PROVE  PMInv'
<1>1. CASE RB_Migrate
  BY <1>1, RB_MigrateKeepsPMInv
<1>2. ASSUME UNCHANGED mapVars, /\ rbPc' \in {"idle", "candidates", "match", "migrate"}
                                /\ less' \subseteq Partition /\ grtr' \subseteq Partition
                                /\ cands' \subseteq KeyRecord
                                /\ swap' \subseteq KeyRecord \X Partition
      PROVE  PMInv'
  BY <1>2 DEF PMInv, PMTypeOK, mapVars,
     StoreAgreesWithKeyMap, StoredIsMapped, MappedIsStored, StoredOnce
<1>3. CASE RB_PartitionSets
  BY <1>2, <1>3 DEF RB_PartitionSets, NextPart, PMInv, PMTypeOK
<1>4. CASE RB_Candidates
  <2>1. cands' \subseteq KeyRecord
    <3>1. PICK p \in grtr :
            cands' = {kc \in Range(store[p]) : Excess(PartitionSize(p)) > 0
                        /\ kc.Count * NumPartitions <= Excess(PartitionSize(p))}
      BY <1>4 DEF RB_Candidates
    <3>2. store[p] \in Seq(KeyRecord)
      BY DEF PMInv, PMTypeOK
    <3>3. Range(store[p]) \subseteq KeyRecord
      BY <3>2 DEF Range
    <3> QED BY <3>1, <3>3
  <2> QED BY <1>2, <1>4, <2>1 DEF RB_Candidates, NextPart, PMInv, PMTypeOK
<1>5. CASE RB_TargetMatch
  <2>1. swap' \subseteq KeyRecord \X Partition
    BY <1>5 DEF RB_TargetMatch, PMInv, PMTypeOK
  <2> QED BY <1>2, <1>5, <2>1 DEF RB_TargetMatch, NextPart, PMInv, PMTypeOK
<1> QED BY <1>1, <1>3, <1>4, <1>5 DEF Rebalance

-----------------------------------------------------------------------------
(* What Rebalance may move.                                                *)

\* The stopping condition skips every partition for a flow that has weight.
LEMMA StopUnlessWeightless ==
    ASSUME NEW a \in Nat, NEW b \in Nat, NEW c \in Nat, ~Stop(a, b, c)
    PROVE  c = 0
BY DEF Stop, Abs

SwapIsWeightless == \A m \in swap : m[1].Count = 0

LEMMA RebalanceKeepsSwapWeightless ==
    ASSUME PMInv, SwapIsWeightless, Rebalance
    PROVE  SwapIsWeightless'
<1>1. CASE RB_TargetMatch
  <2> SUFFICES ASSUME NEW m \in swap' PROVE m[1].Count = 0
    BY DEF SwapIsWeightless
  <2> DEFINE kc == m[1]
  <2>1. m \in cands \X less /\ IsBestTarget(kc, m[2])
    BY <1>1 DEF RB_TargetMatch
  <2>2. kc \in KeyRecord /\ m[2] \in Partition
    BY <2>1 DEF PMInv, PMTypeOK
  <2>3. kc.Count \in Nat /\ kc.Partition \in Partition
    BY <2>2, WordAssumption DEF KeyRecord, Uint64
  <2>4. PartitionSize(kc.Partition) \in Nat /\ PartitionSize(m[2]) \in Nat
    BY <2>2, <2>3, PartitionSizeIsNat DEF PMInv
  <2>5. ~Stop(PartitionSize(kc.Partition), PartitionSize(m[2]), kc.Count)
    BY <2>1 DEF IsBestTarget, Targets
  <2> QED BY <2>3, <2>4, <2>5, StopUnlessWeightless
<1>2. CASE RB_PartitionSets \/ RB_Candidates \/ RB_Migrate
  <2>1. swap' \subseteq swap
    BY <1>2 DEF RB_PartitionSets, RB_Candidates, RB_Migrate
  <2> QED BY <2>1 DEF SwapIsWeightless
<1> QED BY <1>1, <1>2 DEF Rebalance

-----------------------------------------------------------------------------
(* The map on its own.                                                     *)

PMIndInv == PMInv /\ SwapIsWeightless

LEMMA PMInitially == PMInit => PMIndInv
<1> SUFFICES ASSUME PMInit PROVE PMIndInv
  OBVIOUS
<1>1. \A p \in Partition : DOMAIN store[p] = {}
  BY DEF PMInit
<1> QED BY <1>1 DEF PMInit, PMIndInv, PMInv, PMTypeOK, SwapIsWeightless,
           StoreAgreesWithKeyMap, StoredIsMapped, MappedIsStored, StoredOnce

LEMMA PMStep == PMIndInv /\ [PMNext]_pmVars => PMIndInv'
<1> SUFFICES ASSUME PMIndInv, [PMNext]_pmVars PROVE PMIndInv'
  OBVIOUS
<1> USE DEF PMIndInv
<1>1. CASE PMAdd
  <2>1. SwapIsWeightless'
    BY <1>1 DEF PMAdd, rbVars, SwapIsWeightless
  <2> QED BY <1>1, <2>1, AddKeyKeepsPMInv DEF PMAdd
<1>2. CASE PMDelete
  <2>1. SwapIsWeightless'
    BY <1>2 DEF PMDelete, rbVars, SwapIsWeightless
  <2> QED BY <1>2, <2>1, DeleteKeyKeepsPMInv DEF PMDelete
<1>3. CASE Rebalance
  BY <1>3, RebalanceKeepsPMInv, RebalanceKeepsSwapWeightless
<1>4. CASE UNCHANGED pmVars
  BY <1>4 DEF pmVars, PMInv, PMTypeOK, SwapIsWeightless,
     StoreAgreesWithKeyMap, StoredIsMapped, MappedIsStored, StoredOnce
<1> QED BY <1>1, <1>2, <1>3, <1>4 DEF PMNext

\* Type correctness of the map and of Rebalance's locals.
THEOREM PMTypeCorrect == PMSpec => []PMTypeOK
<1>1. PMIndInv => PMTypeOK
  BY DEF PMIndInv, PMInv
<1> QED BY <1>1, PMInitially, PMStep, PTL DEF PMSpec

\* The store and the key map agree whatever runs between Rebalance's reads and
\* its moves: AddKey, DeleteKey and migrateKey keep them in step.
THEOREM PMAgreement == PMSpec => []StoreAgreesWithKeyMap
<1>1. PMIndInv => StoreAgreesWithKeyMap
  BY DEF PMIndInv, PMInv
<1> QED BY <1>1, PMInitially, PMStep, PTL DEF PMSpec

-----------------------------------------------------------------------------
(* What a step of Rebalance does to the sizes.                             *)

\* A record less in a slice is no weight more.
LEMMA RemovingAddsNone ==
    ASSUME NEW s \in Seq(KeyRecord), NEW i \in DOMAIN s
    PROVE  Cardinality(Units(RemoveAt(s, i))) <= Cardinality(Units(s))
<1>1. /\ RemoveAt(s, i) \in Seq(KeyRecord) /\ Len(RemoveAt(s, i)) = Len(s) - 1
      /\ \A j \in 1 .. Len(s) - 1 : RemoveAt(s, i)[j] = IF j < i THEN s[j] ELSE s[j + 1]
  <2>1. i \in 1 .. Len(s)
    OBVIOUS
  <2> QED BY <2>1, RemoveAtProperties
<1>2. PICK r \in Seq(KeyRecord) : r = RemoveAt(s, i)
  BY <1>1
<1>3. /\ DOMAIN r = 1 .. Len(s) - 1 /\ DOMAIN s = 1 .. Len(s) /\ Len(s) \in Nat /\ i \in Nat
      /\ \A j \in 1 .. Len(s) - 1 : r[j] = IF j < i THEN s[j] ELSE s[j + 1]
  BY <1>1, <1>2
<1> DEFINE was(j) == IF j < i THEN j ELSE j + 1
<1>4. PICK f : f = [u \in Units(r) |-> <<was(u[1]), u[2]>>]
  OBVIOUS
<1>5. ASSUME NEW u \in Units(r)
      PROVE  /\ u[1] \in DOMAIN r /\ u = <<u[1], u[2]>>
             /\ f[u] = <<was(u[1]), u[2]>> /\ f[u] \in Units(s)
  <2>1. u \in (DOMAIN r) \X Uint64 /\ u[2] < r[u[1]].Count
    BY DEF Units
  <2>2. was(u[1]) \in DOMAIN s /\ r[u[1]] = s[was(u[1])]
    BY <1>3, <2>1
  <2>3. <<was(u[1]), u[2]>> \in Units(s)
    BY <2>1, <2>2 DEF Units
  <2> QED BY <1>4, <2>1, <2>3
<1>6. ASSUME NEW u \in Units(r), NEW v \in Units(r), f[u] = f[v] PROVE u = v
  <2>1. u[2] = v[2] /\ was(u[1]) = was(v[1]) /\ u[1] \in Nat /\ v[1] \in Nat
    BY <1>3, <1>5, <1>6
  <2>2. u[1] = v[1]
    BY <1>3, <2>1
  <2> QED BY <1>5, <2>1, <2>2
<1>7. f \in Injection(Units(r), Units(s))
  <2>1. f \in [Units(r) -> Units(s)]
    BY <1>4, <1>5
  <2> QED BY <1>6, <2>1 DEF Injection, IsInjective
<1> QED BY <1>2, <1>7, UnitsFinite, FS_Injection

\* Neither is a record of count 0 more.
LEMMA WeightlessAddsNone ==
    ASSUME NEW s \in Seq(KeyRecord), NEW rec \in KeyRecord, rec.Count = 0
    PROVE  Units(Append(s, rec)) = Units(s)
<1>1. /\ DOMAIN s = 1 .. Len(s) /\ Len(s) \in Nat
      /\ DOMAIN Append(s, rec) = 1 .. Len(s) + 1 /\ Append(s, rec)[Len(s) + 1] = rec
      /\ \A j \in 1 .. Len(s) : Append(s, rec)[j] = s[j]
  BY AppendProperties
<1>2. \A n \in Uint64 : ~(n < 0)
  BY WordAssumption DEF Uint64
<1>3. ASSUME NEW u \in (DOMAIN Append(s, rec)) \X Uint64, u[2] < Append(s, rec)[u[1]].Count
      PROVE  u[1] \in DOMAIN s /\ Append(s, rec)[u[1]] = s[u[1]]
  <2>1. u[1] # Len(s) + 1
    BY <1>1, <1>2, <1>3
  <2> QED BY <1>1, <2>1
<1>4. Units(Append(s, rec)) \subseteq Units(s)
  BY <1>3 DEF Units
<1>5. Units(s) \subseteq Units(Append(s, rec))
  BY <1>1 DEF Units
<1> QED BY <1>4, <1>5

LEMMA MigratingAddsNone ==
    ASSUME PMIndInv, RB_Migrate, NEW p \in Partition
    PROVE  PartitionSize(p)' <= PartitionSize(p)
<1>0. PMTypeOK /\ store[p] \in Seq(KeyRecord)
  BY DEF PMIndInv, PMInv, PMTypeOK
<1>1. PICK m \in swap : migrateKey(m[1].Key, m[1].Count, m[2])
  BY DEF RB_Migrate
<1>2. PICK kc : kc = [Key |-> m[1].Key, Count |-> m[1].Count, Partition |-> m[2]]
  OBVIOUS
<1>3. kc \in KeyRecord /\ kc.Count = 0
  BY <1>0, <1>1, <1>2 DEF PMIndInv, SwapIsWeightless, PMTypeOK, KeyRecord
<1>4. PICK st \in StoresWithout(kc.Key) \cup {store} : store' = Appended(st, kc)
  BY <1>1, <1>2 DEF migrateKey
<1>5. /\ st \in [Partition -> Seq(KeyRecord)]
      /\ Cardinality(Units(st[p])) <= Cardinality(Units(store[p]))
  <2>1. CASE st = store
    BY <1>0, <2>1, UnitsFinite DEF PMTypeOK
  <2>2. CASE st # store
    <3>1. Found(kc.Key) # {} /\ st \in StoresWithout(kc.Key)
      BY <1>4, <2>2 DEF StoresWithout
    <3>2. PICK f \in Found(kc.Key) :
            st = [store EXCEPT ![store[f[1]][f[2]].Partition] = RemoveAt(@, f[2])]
      BY <3>1 DEF StoresWithout
    <3>3. PICK q \in Partition : \E i \in DOMAIN store[q] : f = <<q, i>>
      BY <3>2 DEF Found
    <3>4. PICK i \in DOMAIN store[q] : f = <<q, i>>
      BY <3>3
    <3>5. store[q][i].Partition = q
      BY <3>4 DEF PMIndInv, PMInv, StoreAgreesWithKeyMap, StoredIsMapped
    <3>6. st = [store EXCEPT ![q] = RemoveAt(@, i)]
      BY <3>2, <3>4, <3>5
    <3>7. store[q] \in Seq(KeyRecord) /\ i \in 1 .. Len(store[q])
      BY <1>0, <3>4 DEF PMTypeOK
    <3>8. /\ RemoveAt(store[q], i) \in Seq(KeyRecord)
          /\ Cardinality(Units(RemoveAt(store[q], i))) <= Cardinality(Units(store[q]))
      BY <3>7, RemoveAtProperties, RemovingAddsNone
    <3>9. Cardinality(Units(store[p])) <= Cardinality(Units(store[p]))
      BY <1>0, UnitsFinite
    <3> QED BY <1>0, <3>6, <3>7, <3>8, <3>9 DEF PMTypeOK
  <2> QED BY <2>1, <2>2
<1>6. Units(store'[p]) = Units(st[p])
  <2>1. CASE p = m[2]
    <3>1. store'[p] = Append(st[p], kc) /\ st[p] \in Seq(KeyRecord)
      BY <1>2, <1>4, <1>5, <2>1 DEF Appended
    <3> QED BY <1>3, <3>1, WeightlessAddsNone
  <2>2. CASE p # m[2]
    <3>1. store'[p] = st[p]
      BY <1>2, <1>4, <1>5, <2>2 DEF Appended
    <3> QED BY <3>1
  <2> QED BY <2>1, <2>2
<1> QED BY <1>5, <1>6 DEF PartitionSize

\* No step of Rebalance makes a partition heavier, for any number of partitions
\* and whatever the map has become since its reads: the stopping condition of
\* targetMatch lets through flows of count 0 only.
THEOREM PMAddsNoWeight == PMSpec => RebalanceAddsNoWeight
<1>1. ASSUME PMIndInv, Rebalance, NEW p \in Partition PROVE PartitionSize(p)' <= PartitionSize(p)
  <2>1. CASE RB_Migrate
    BY <1>1, <2>1, MigratingAddsNone
  <2>2. CASE RB_PartitionSets \/ RB_Candidates \/ RB_TargetMatch
    <3>1. store' = store
      BY <2>2 DEF RB_PartitionSets, RB_Candidates, RB_TargetMatch, mapVars
    <3>2. PartitionSize(p)' = PartitionSize(p) /\ PartitionSize(p) \in Nat
      BY <1>1, <3>1, PartitionSizeIsNat DEF PartitionSize, PMIndInv, PMInv
    <3> QED BY <3>2
  <2> QED BY <1>1, <2>1, <2>2 DEF Rebalance
<1>2. PMIndInv /\ [PMNext]_pmVars
      => [Rebalance => \A p \in Partition : PartitionSize(p)' <= PartitionSize(p)]_pmVars
  BY <1>1
<1> QED BY <1>2, PMInitially, PMStep, PTL DEF PMSpec, RebalanceAddsNoWeight

=============================================================================
