----------------------- MODULE MessageSetStreamProofs -----------------------
(***************************************************************************)
(* Set indices and offsets order a stream, for any keys, partitions and    *)
(* number of messages.                                                     *)
(***************************************************************************)
EXTENDS MessageSetStream, SequenceTheorems, TLAPS

Streamed == [key : Key, seq : Nat \ {0}, set : MessageSet]

\* A set is the first of its key, or leads on from another partition's.
Leads(s) ==
    /\ s.SrcPartition # s.DestPartition
    /\ \/ s.SrcPartition = -1 /\ s.SrcMsgsetIndex = -1 /\ s.DestMsgsetIndex = 0
       \/ s.SrcPartition \in Partition /\ s.SrcMsgsetIndex \in Nat /\ s.DestMsgsetIndex = s.SrcMsgsetIndex + 1

Typed ==
    /\ log \in [Partition -> Seq(Streamed)]
    /\ last \in [Key -> MessageSet \cup {NoSet}]
    /\ sent \in [Key -> Nat]

Numbered ==
    /\ \A k \in Key : last[k] = NoSet <=> sent[k] = 0
    /\ \A p \in Partition : \A i \in DOMAIN log[p] : log[p][i].seq <= sent[log[p][i].key]

\* The last set of a key is the furthest the stream has got.
UpToLast ==
    \A p \in Partition : \A i \in DOMAIN log[p] :
        LET m == log[p][i]
        IN  /\ IndexOn(p, m) <= last[m.key].DestMsgsetIndex
            /\ IndexOn(p, m) = last[m.key].DestMsgsetIndex => p = last[m.key].DestPartition
            /\ m.seq = sent[m.key] => m.set = last[m.key]

\* Sets lead on, and their messages are on one of the two partitions.
Linked ==
    /\ \A k \in Key : last[k] # NoSet => Leads(last[k])
    /\ \A p \in Partition : \A i \in DOMAIN log[p] :
          LET m == log[p][i]
          IN  Leads(m.set) /\ p \in {m.set.SrcPartition, m.set.DestPartition}

\* A partition's log holds a message of key k with this set...
Told(held, k, set) == \E j \in DOMAIN held : held[j].key = k /\ held[j].set = set

\* ... that is no later than the key's message number s.
ToldBy(held, k, set, s) ==
    \E j \in DOMAIN held : held[j].key = k /\ held[j].set = set /\ held[j].seq <= s

\* A set that leads on was announced on the partition it comes from.
Announced ==
    /\ \A k \in Key : (last[k] # NoSet /\ last[k].SrcPartition # -1) =>
          Told(log[last[k].SrcPartition], k, last[k])
    /\ \A p \in Partition : \A i \in DOMAIN log[p] :
          LET m == log[p][i]
          IN  m.set.SrcPartition # -1 => ToldBy(log[m.set.SrcPartition], m.key, m.set, m.seq)

\* The next message of a key is where the set of this one leads.
Consecutive ==
    \A p, q \in Partition : \A i \in DOMAIN log[p], j \in DOMAIN log[q] :
        LET m == log[p][i]  n == log[q][j]
        IN  (m.key = n.key /\ n.seq = m.seq + 1) =>
               q = m.set.DestPartition /\ IndexOn(q, n) = m.set.DestMsgsetIndex

StreamInv ==
    /\ Typed /\ Numbered /\ UpToLast /\ Linked
    /\ Announced /\ Consecutive /\ InTotalOrder(log)

-----------------------------------------------------------------------------
(* Appending to a partition.                                               *)

\* The log is what it was, and m at the end of partition `to'.
Extended(to, m) ==
    /\ log' \in [Partition -> Seq(Streamed)]
    /\ \A q \in Partition : \A j \in DOMAIN log[q] : j \in DOMAIN log'[q] /\ log'[q][j] = log[q][j]
    /\ \E end \in DOMAIN log'[to] :
          /\ log'[to][end] = m
          /\ \A j \in DOMAIN log[to] : j < end
          /\ \A q \in Partition : \A j \in DOMAIN log'[q] :
                \/ j \in DOMAIN log[q] /\ log'[q][j] = log[q][j]
                \/ q = to /\ j = end

LEMMA Appending ==
    ASSUME log \in [Partition -> Seq(Streamed)], NEW to \in Partition, NEW m \in Streamed,
           log' = [log EXCEPT ![to] = Append(@, m)]
    PROVE  Extended(to, m)
<1>1. log[to] \in Seq(Streamed) /\ log'[to] = Append(log[to], m)
      /\ \A q \in Partition : q # to => log'[q] = log[q]
  OBVIOUS
<1>2. /\ Append(log[to], m) \in Seq(Streamed)
      /\ Len(Append(log[to], m)) = Len(log[to]) + 1
      /\ Append(log[to], m)[Len(log[to]) + 1] = m
      /\ \A j \in 1 .. Len(log[to]) : Append(log[to], m)[j] = log[to][j]
      /\ DOMAIN Append(log[to], m) = 1 .. Len(log[to]) + 1
      /\ DOMAIN log[to] = 1 .. Len(log[to]) /\ Len(log[to]) \in Nat
  BY <1>1, AppendProperties, LenProperties
<1> DEFINE end == Len(log[to]) + 1
<1>3. end \in DOMAIN log'[to] /\ log'[to][end] = m /\ \A j \in DOMAIN log[to] : j < end
  BY <1>1, <1>2
<1>4. \A q \in Partition : \A j \in DOMAIN log'[q] :
         \/ j \in DOMAIN log[q] /\ log'[q][j] = log[q][j]
         \/ q = to /\ j = end
  BY <1>1, <1>2
<1>5. \A q \in Partition : \A j \in DOMAIN log[q] : j \in DOMAIN log'[q] /\ log'[q][j] = log[q][j]
  BY <1>1, <1>2
<1>6. log' \in [Partition -> Seq(Streamed)]
  BY <1>1, <1>2
<1> QED BY <1>3, <1>4, <1>5, <1>6 DEF Extended

\* What has been told stays told.
LEMMA ToldStays ==
    ASSUME NEW held, NEW after, \A j \in DOMAIN held : j \in DOMAIN after /\ after[j] = held[j]
    PROVE  /\ \A k, set : Told(held, k, set) => Told(after, k, set)
           /\ \A k, set, s : ToldBy(held, k, set, s) => ToldBy(after, k, set, s)
BY DEF Told, ToldBy

-----------------------------------------------------------------------------
(* Sending.                                                                *)

\* What is sent, relative to the last set.
LEMMA Headers ==
    ASSUME NEW l \in MessageSet \cup {NoSet}, l # NoSet => Leads(l), NEW p \in Partition
    PROVE  LET set == MsgsetHdrVal(l, p)
               to  == SendTo(l, p)
           IN  /\ set \in MessageSet /\ Leads(set) /\ to \in Partition
               /\ to \in {set.SrcPartition, set.DestPartition}
               /\ set # l => (set.SrcPartition = -1 \/ set.SrcPartition = to)
               /\ l # NoSet => /\ to = l.DestPartition
                               /\ l.DestMsgsetIndex <= set.DestMsgsetIndex
                               /\ l.DestMsgsetIndex = set.DestMsgsetIndex => set = l
                               /\ (IF set.DestPartition = to THEN set.DestMsgsetIndex ELSE set.SrcMsgsetIndex)
                                      = l.DestMsgsetIndex
               /\ l = NoSet => to = set.DestPartition
<1>1. CASE l = NoSet
  BY <1>1, PartitionAssumption, NoSetAssumption
  DEF MsgsetHdrVal, SendTo, PartitionChanged, FirstSet, MessageSet, Leads
<1>2. CASE l # NoSet /\ l.DestPartition = p
  BY <1>2 DEF MsgsetHdrVal, SendTo, PartitionChanged, MessageSet, Leads
<1>3. CASE l # NoSet /\ l.DestPartition # p
  <2>1. l \in MessageSet
    BY <1>3
  <2>2. MsgsetHdrVal(l, p) = SetAfter(l, p) /\ SendTo(l, p) = l.DestPartition
    BY <1>3 DEF MsgsetHdrVal, SendTo, PartitionChanged
  <2>3. /\ SetAfter(l, p) \in MessageSet
        /\ SetAfter(l, p).SrcPartition = l.DestPartition
        /\ SetAfter(l, p).DestPartition = p
        /\ SetAfter(l, p).SrcMsgsetIndex = l.DestMsgsetIndex
        /\ SetAfter(l, p).DestMsgsetIndex = l.DestMsgsetIndex + 1
        /\ l.DestPartition \in Partition /\ l.DestMsgsetIndex \in Nat
    BY <2>1 DEF SetAfter, MessageSet
  <2> QED BY <1>3, <2>2, <2>3 DEF Leads
<1> QED BY <1>1, <1>2, <1>3

LEMMA InitKeeps == Init => StreamInv
<1> SUFFICES ASSUME Init PROVE StreamInv
  OBVIOUS
<1>1. Typed
  BY DEF Init, Typed
<1>2. \A p \in Partition : DOMAIN log[p] = {}
  BY DEF Init
<1>3. \A k \in Key : last[k] = NoSet /\ sent[k] = 0
  BY DEF Init
<1>4. Numbered
  BY <1>2, <1>3 DEF Numbered
<1>5. UpToLast
  BY <1>2 DEF UpToLast
<1>6. Linked
  BY <1>2, <1>3 DEF Linked
<1>7. Announced
  BY <1>2, <1>3 DEF Announced
<1>8. Consecutive /\ InTotalOrder(log)
  BY <1>2 DEF Consecutive, InTotalOrder
<1> QED BY <1>1, <1>4, <1>5, <1>6, <1>7, <1>8 DEF StreamInv

LEMMA SendKeeps ==
    ASSUME StreamInv, NEW k \in Key, NEW p \in Partition, Send(k, p)
    PROVE  StreamInv'
<1> DEFINE l   == last[k]
           set == MsgsetHdrVal(last[k], p)
           to  == SendTo(last[k], p)
           m   == [key |-> k, seq |-> sent[k] + 1, set |-> set]
<1>1. /\ log  \in [Partition -> Seq(Streamed)] /\ last \in [Key -> MessageSet \cup {NoSet}]
      /\ sent \in [Key -> Nat]
  BY DEF StreamInv, Typed
<1>2. /\ log'  = [log EXCEPT ![to] = Append(@, m)]
      /\ last' = [last EXCEPT ![k] = set]
      /\ sent' = [sent EXCEPT ![k] = @ + 1]
  BY DEF Send
<1>3. l \in MessageSet \cup {NoSet} /\ (l # NoSet => Leads(l))
  BY <1>1 DEF StreamInv, Linked
<1>4. /\ set \in MessageSet /\ Leads(set) /\ to \in Partition
      /\ to \in {set.SrcPartition, set.DestPartition}
      /\ set # l => (set.SrcPartition = -1 \/ set.SrcPartition = to)
      /\ l # NoSet => /\ to = l.DestPartition
                      /\ l.DestMsgsetIndex <= set.DestMsgsetIndex
                      /\ l.DestMsgsetIndex = set.DestMsgsetIndex => set = l
                      /\ (IF set.DestPartition = to THEN set.DestMsgsetIndex ELSE set.SrcMsgsetIndex)
                             = l.DestMsgsetIndex
      /\ l = NoSet => to = set.DestPartition
  BY <1>3, Headers
<1> HIDE DEF l, set, to
<1>5. m \in Streamed /\ m.key = k /\ m.seq = sent[k] + 1 /\ m.set = set
  BY <1>1, <1>4 DEF Streamed
<1>6. IndexOn(to, m) = (IF set.DestPartition = to THEN set.DestMsgsetIndex ELSE set.SrcMsgsetIndex)
  BY <1>5 DEF IndexOn
<1> HIDE DEF m
<1>0. Extended(to, m)
  BY <1>1, <1>2, <1>4, <1>5, Appending
<1>7. /\ log' \in [Partition -> Seq(Streamed)]
      /\ \A q \in Partition : \A j \in DOMAIN log[q] : j \in DOMAIN log'[q] /\ log'[q][j] = log[q][j]
  BY <1>0 DEF Extended
<1>8. PICK end \in DOMAIN log'[to] :
         /\ log'[to][end] = m
         /\ \A j \in DOMAIN log[to] : j < end
         /\ \A q \in Partition : \A j \in DOMAIN log'[q] :
               \/ j \in DOMAIN log[q] /\ log'[q][j] = log[q][j]
               \/ q = to /\ j = end
  BY <1>0 DEF Extended
<1>9. /\ last' \in [Key -> MessageSet \cup {NoSet}] /\ sent' \in [Key -> Nat]
      /\ last'[k] = set /\ sent'[k] = sent[k] + 1
      /\ \A h \in Key : h # k => last'[h] = last[h] /\ sent'[h] = sent[h]
  BY <1>1, <1>2, <1>4
<1>10. \A q \in Partition : \A j \in DOMAIN log[q] : log[q][j] \in Streamed
  BY <1>1
<1>11. Typed'
  BY <1>7, <1>9 DEF Typed
<1>12. set # NoSet
  BY <1>4, NoSetAssumption
<1>13. Numbered'
  <2>1. ASSUME NEW h \in Key
        PROVE  last'[h] = NoSet <=> sent'[h] = 0
    <3>1. sent[h] \in Nat /\ (last[h] = NoSet <=> sent[h] = 0)
      BY <1>1 DEF StreamInv, Numbered
    <3>2. CASE h = k
      BY <1>9, <1>12, <3>1, <3>2
    <3>3. CASE h # k
      BY <1>9, <3>1, <3>3
    <3> QED BY <3>2, <3>3
  <2>2. ASSUME NEW q \in Partition, NEW j \in DOMAIN log'[q]
        PROVE  log'[q][j].seq <= sent'[log'[q][j].key]
    <3>1. CASE j \in DOMAIN log[q] /\ log'[q][j] = log[q][j]
      <4> DEFINE n == log[q][j]
      <4>1. n \in Streamed /\ n.seq <= sent[n.key]
        BY <1>10, <3>1 DEF StreamInv, Numbered
      <4>2. n.key \in Key /\ n.seq \in Nat /\ sent[n.key] \in Nat
        BY <1>1, <4>1 DEF Streamed
      <4>3. sent[n.key] <= sent'[n.key]
        BY <1>9, <4>2
      <4> QED BY <1>9, <3>1, <4>1, <4>2, <4>3
    <3>2. CASE q = to /\ j = end
      BY <1>1, <1>5, <1>8, <1>9, <3>2
    <3> QED BY <1>8, <2>2, <3>1, <3>2
  <2> QED BY <2>1, <2>2 DEF Numbered
<1>14. l = NoSet => sent[k] = 0
  BY DEF StreamInv, Numbered, l
\* A message of k that is there already.
<1>15. ASSUME NEW q \in Partition, NEW j \in DOMAIN log[q], log[q][j].key = k
       PROVE  /\ log[q][j].seq <= sent[k] /\ l # NoSet
              /\ IndexOn(q, log[q][j]) <= l.DestMsgsetIndex
              /\ IndexOn(q, log[q][j]) = l.DestMsgsetIndex => q = to
              /\ log[q][j].seq = sent[k] => log[q][j].set = l
  <2>1. log[q][j].seq <= sent[k]
    BY <1>15 DEF StreamInv, Numbered
  <2>2. l # NoSet
    BY <1>1, <1>10, <1>14, <1>15, <2>1 DEF Streamed
  <2> QED BY <1>4, <1>15, <2>1, <2>2 DEF StreamInv, UpToLast, l
<1>16. \A q \in Partition, j \in Nat : \A n \in Streamed : IndexOn(q, n) \in Int
  BY DEF IndexOn, Streamed, MessageSet
<1>17. UpToLast'
  <2> SUFFICES ASSUME NEW q \in Partition, NEW j \in DOMAIN log'[q]
               PROVE  LET n == log'[q][j]
                      IN  /\ IndexOn(q, n) <= last'[n.key].DestMsgsetIndex
                          /\ IndexOn(q, n) = last'[n.key].DestMsgsetIndex => q = last'[n.key].DestPartition
                          /\ n.seq = sent'[n.key] => n.set = last'[n.key]
    BY DEF UpToLast, IndexOn
  <2>1. CASE j \in DOMAIN log[q] /\ log'[q][j] = log[q][j]
    <3>1. log[q][j] \in Streamed /\ log[q][j].key \in Key
      BY <1>10, <2>1 DEF Streamed
    <3>2. CASE log[q][j].key # k
      BY <1>9, <2>1, <3>1, <3>2 DEF StreamInv, UpToLast
    <3>3. CASE log[q][j].key = k
      <4>1. IndexOn(q, log[q][j]) \in Int /\ set.DestMsgsetIndex \in Int /\ l.DestMsgsetIndex \in Int
            /\ log[q][j].seq \in Nat
        BY <1>3, <1>4, <1>15, <1>16, <2>1, <3>1, <3>3 DEF MessageSet, Streamed
      <4>2. IndexOn(q, log[q][j]) <= l.DestMsgsetIndex /\ l # NoSet
            /\ (IndexOn(q, log[q][j]) = l.DestMsgsetIndex => q = to)
            /\ log[q][j].seq <= sent[k]
        BY <1>15, <2>1, <3>3
      <4> QED BY <1>1, <1>4, <1>9, <2>1, <3>3, <4>1, <4>2, SMTT(30)
    <3> QED BY <3>2, <3>3
  <2>2. CASE q = to /\ j = end
    <3>1. IndexOn(to, m) <= set.DestMsgsetIndex /\ (IndexOn(to, m) = set.DestMsgsetIndex => to = set.DestPartition)
      BY <1>4, <1>6 DEF Leads, MessageSet
    <3> QED BY <1>5, <1>8, <1>9, <2>2, <3>1
  <2> QED BY <1>8, <2>1, <2>2
<1>18. Linked'
  <2>1. \A h \in Key : last'[h] # NoSet => Leads(last'[h])
    BY <1>4, <1>9 DEF StreamInv, Linked
  <2>2. ASSUME NEW q \in Partition, NEW j \in DOMAIN log'[q]
        PROVE  Leads(log'[q][j].set) /\ q \in {log'[q][j].set.SrcPartition, log'[q][j].set.DestPartition}
    <3>1. CASE j \in DOMAIN log[q] /\ log'[q][j] = log[q][j]
      BY <2>2, <3>1 DEF StreamInv, Linked
    <3>2. CASE q = to /\ j = end
      BY <1>4, <1>5, <1>8, <3>2
    <3> QED BY <1>8, <2>2, <3>1, <3>2
  <2> QED BY <2>1, <2>2 DEF Linked, Leads
<1>19. Announced'
  <2>1. ASSUME NEW h \in Key, NEW s, NEW src, s = last'[h], s # NoSet, src = s.SrcPartition, src # -1
        PROVE  Told(log'[src], h, s)
    <3>0. src \in Partition
      BY <1>18, <2>1 DEF Linked, Leads
    <3>1. CASE s = last[h]
      <4>1. Told(log[src], h, s)
        BY <2>1, <3>1 DEF StreamInv, Announced
      <4> QED BY <1>7, <3>0, <4>1, ToldStays
    <3>2. CASE s # last[h]
      <4>1. h = k /\ src = to /\ s = set
        BY <1>4, <1>9, <2>1, <3>2 DEF l
      <4> QED BY <1>5, <1>8, <4>1 DEF Told
    <3> QED BY <3>1, <3>2
  <2>2. ASSUME NEW q \in Partition, NEW j \in DOMAIN log'[q], NEW n, NEW src, n = log'[q][j],
               src = n.set.SrcPartition, src # -1
        PROVE  ToldBy(log'[src], n.key, n.set, n.seq)
    <3>0. src \in Partition
      BY <1>18, <2>2 DEF Linked, Leads
    <3>1. CASE j \in DOMAIN log[q] /\ log'[q][j] = log[q][j]
      <4>1. ToldBy(log[src], n.key, n.set, n.seq)
        BY <2>2, <3>1 DEF StreamInv, Announced
      <4> QED BY <1>7, <3>0, <4>1, ToldStays
    <3>2. CASE q = to /\ j = end
      <4>0. n.key = k /\ n.seq = sent'[k] /\ n.set = set /\ last'[k] = set
        BY <1>5, <1>8, <1>9, <2>2, <3>2
      <4>1. Told(log'[src], k, set)
        BY <1>12, <2>1, <2>2, <4>0
      <4>2. PICK i \in DOMAIN log'[src] : log'[src][i].key = k /\ log'[src][i].set = set
        BY <4>1 DEF Told
      <4>3. log'[src][i].seq <= sent'[k]
        BY <1>13, <3>0, <4>2 DEF Numbered
      <4> QED BY <4>0, <4>2, <4>3 DEF ToldBy
    <3> QED BY <1>8, <3>1, <3>2
  <2> QED BY <2>1, <2>2 DEF Announced
<1>20. Consecutive'
  <2> SUFFICES ASSUME NEW p1 \in Partition, NEW q \in Partition, NEW i \in DOMAIN log'[p1], NEW j \in DOMAIN log'[q],
                      log'[p1][i].key = log'[q][j].key,
                      log'[q][j].seq = log'[p1][i].seq + 1
               PROVE  /\ q = log'[p1][i].set.DestPartition
                      /\ IndexOn(q, log'[q][j]) = log'[p1][i].set.DestMsgsetIndex
    BY DEF Consecutive, IndexOn
  <2>1. CASE i \in DOMAIN log[p1] /\ log'[p1][i] = log[p1][i] /\ j \in DOMAIN log[q] /\ log'[q][j] = log[q][j]
    BY <2>1 DEF StreamInv, Consecutive
  <2>2. CASE i \in DOMAIN log[p1] /\ log'[p1][i] = log[p1][i] /\ q = to /\ j = end
    <3>1. log[p1][i] \in Streamed /\ log[p1][i].key = k /\ log[p1][i].seq = sent[k]
      BY <1>1, <1>5, <1>8, <1>10, <2>2, SMTT(30) DEF Streamed
    <3>2. log[p1][i].set = l /\ l # NoSet
      BY <1>15, <2>2, <3>1
    <3> QED BY <1>4, <1>6, <1>8, <2>2, <3>2
  <2>3. CASE p1 = to /\ i = end
    <3>1. log'[p1][i].key = k /\ log'[p1][i].seq = sent'[k] /\ sent'[k] \in Nat
      BY <1>5, <1>8, <1>9, <2>3
    <3>2. log'[q][j].seq <= sent'[k]
      BY <1>13, <3>1 DEF Numbered
    <3> QED BY <3>1, <3>2
  <2> QED BY <1>8, <2>1, <2>2, <2>3
<1>21. InTotalOrder(log)'
  <2> SUFFICES ASSUME NEW p1 \in Partition, NEW q \in Partition, NEW i \in DOMAIN log'[p1], NEW j \in DOMAIN log'[q],
                      log'[p1][i].key = log'[q][j].key,
                      log'[p1][i].seq < log'[q][j].seq
               PROVE  \/ IndexOn(p1, log'[p1][i]) < IndexOn(q, log'[q][j])
                      \/ IndexOn(p1, log'[p1][i]) = IndexOn(q, log'[q][j]) /\ p1 = q /\ i < j
    BY DEF InTotalOrder, IndexOn
  <2>1. CASE i \in DOMAIN log[p1] /\ log'[p1][i] = log[p1][i] /\ j \in DOMAIN log[q] /\ log'[q][j] = log[q][j]
    BY <2>1 DEF StreamInv, InTotalOrder
  <2>2. CASE i \in DOMAIN log[p1] /\ log'[p1][i] = log[p1][i] /\ q = to /\ j = end
    <3>1. log[p1][i] \in Streamed /\ log[p1][i].key = k
      BY <1>5, <1>8, <1>10, <2>2
    <3>2. /\ IndexOn(p1, log[p1][i]) <= l.DestMsgsetIndex /\ l # NoSet
          /\ IndexOn(p1, log[p1][i]) = l.DestMsgsetIndex => p1 = to
      BY <1>15, <2>2, <3>1
    <3>3. IndexOn(q, log'[q][j]) = l.DestMsgsetIndex
      BY <1>4, <1>6, <1>8, <2>2, <3>2
    <3>4. IndexOn(p1, log[p1][i]) \in Int /\ l.DestMsgsetIndex \in Int
      BY <1>3, <1>16, <3>1, <3>2 DEF MessageSet
    <3>5. p1 = to => i < j
      BY <1>8, <2>2
    <3> QED BY <2>2, <3>2, <3>3, <3>4, <3>5
  <2>3. CASE p1 = to /\ i = end
    <3>1. log'[p1][i].key = k /\ log'[p1][i].seq = sent'[k] /\ sent'[k] \in Nat
      BY <1>5, <1>8, <1>9, <2>3
    <3>2. log'[q][j].seq <= sent'[k]
      BY <1>13, <3>1 DEF Numbered
    <3>3. log'[q][j] \in Streamed
      BY <1>7
    <3>4. log'[q][j].seq \in Nat
      BY <3>3 DEF Streamed
    <3> QED BY <3>1, <3>2, <3>4
  <2> QED BY <1>8, <2>1, <2>2, <2>3
<1> QED BY <1>11, <1>13, <1>17, <1>18, <1>19, <1>20, <1>21 DEF StreamInv

LEMMA RepeatKeeps ==
    ASSUME StreamInv, NEW k \in Key, Repeat(k)
    PROVE  StreamInv'
<1>1. /\ log  \in [Partition -> Seq(Streamed)] /\ last \in [Key -> MessageSet \cup {NoSet}]
      /\ sent \in [Key -> Nat]
  BY DEF StreamInv, Typed
<1>2. PICK to \in Partition : \E o \in DOMAIN log[to] :
         /\ log[to][o].key = k /\ log[to][o].seq = sent[k]
         /\ log' = [log EXCEPT ![to] = Append(@, log[to][o])]
  BY DEF Repeat
<1>a. PICK o \in DOMAIN log[to] : /\ log[to][o].key = k /\ log[to][o].seq = sent[k]
                                  /\ log' = [log EXCEPT ![to] = Append(@, log[to][o])]
  BY <1>2
<1>3. PICK m : /\ m = log[to][o] /\ m.key = k /\ m.seq = sent[k]
               /\ log' = [log EXCEPT ![to] = Append(@, m)]
  BY <1>a
<1>4. m \in Streamed /\ m.key = k /\ m.seq = sent[k] /\ k \in Key /\ sent[k] \in Nat
  BY <1>1, <1>3
<1>5. Extended(to, m)
  BY <1>1, <1>3, <1>4, Appending
<1>6. /\ log' \in [Partition -> Seq(Streamed)]
      /\ \A q \in Partition : \A j \in DOMAIN log[q] : j \in DOMAIN log'[q] /\ log'[q][j] = log[q][j]
  BY <1>5 DEF Extended
<1>7. PICK end \in DOMAIN log'[to] :
         /\ log'[to][end] = m
         /\ \A j \in DOMAIN log[to] : j < end
         /\ \A q \in Partition : \A j \in DOMAIN log'[q] :
               \/ j \in DOMAIN log[q] /\ log'[q][j] = log[q][j]
               \/ q = to /\ j = end
  BY <1>5 DEF Extended
<1>8. last' = last /\ sent' = sent
  BY DEF Repeat
\* Every message is one that was there, on the same partition and no later.
<1>9. ASSUME NEW q \in Partition, NEW j \in DOMAIN log'[q]
      PROVE  \E i \in DOMAIN log[q] : log'[q][j] = log[q][i]
  BY <1>3, <1>7
<1>10. \A q \in Partition : \A j \in DOMAIN log'[q] : log'[q][j].seq \in Nat
  <2>1. \A q \in Partition : \A j \in DOMAIN log'[q] : log'[q][j] \in Streamed
    BY <1>6
  <2> QED BY <2>1 DEF Streamed
<1>11. Typed'
  BY <1>1, <1>6, <1>8 DEF Typed
<1>12. Numbered'
  BY <1>8, <1>9 DEF StreamInv, Numbered
<1>13. UpToLast'
  BY <1>8, <1>9 DEF StreamInv, UpToLast, IndexOn
<1>14. Linked'
  BY <1>8, <1>9 DEF StreamInv, Linked, Leads
<1>15. Announced'
  <2>1. ASSUME NEW h \in Key, NEW s, NEW src, s = last[h], s # NoSet, src = s.SrcPartition, src # -1
        PROVE  Told(log'[src], h, s)
    <3>1. src \in Partition
      BY <2>1 DEF StreamInv, Linked, Leads
    <3>2. Told(log[src], h, s)
      BY <2>1 DEF StreamInv, Announced
    <3> QED BY <1>6, <3>1, <3>2, ToldStays
  <2>2. ASSUME NEW q \in Partition, NEW j \in DOMAIN log'[q], NEW n, NEW src, n = log'[q][j],
               src = n.set.SrcPartition, src # -1
        PROVE  ToldBy(log'[src], n.key, n.set, n.seq)
    <3>1. PICK o1 \in DOMAIN log[q] : n = log[q][o1]
      BY <1>9, <2>2
    <3>2. src \in Partition
      BY <2>2, <3>1 DEF StreamInv, Linked, Leads
    <3>3. ToldBy(log[src], n.key, n.set, n.seq)
      BY <2>2, <3>1 DEF StreamInv, Announced
    <3> QED BY <1>6, <3>2, <3>3, ToldStays
  <2> QED BY <1>8, <2>1, <2>2 DEF Announced
<1>16. Consecutive'
  <2> SUFFICES ASSUME NEW p1 \in Partition, NEW q \in Partition, NEW i \in DOMAIN log'[p1], NEW j \in DOMAIN log'[q],
                      log'[p1][i].key = log'[q][j].key,
                      log'[q][j].seq = log'[p1][i].seq + 1
               PROVE  /\ q = log'[p1][i].set.DestPartition
                      /\ IndexOn(q, log'[q][j]) = log'[p1][i].set.DestMsgsetIndex
    BY DEF Consecutive, IndexOn
  <2>1. PICK i1 \in DOMAIN log[p1], j1 \in DOMAIN log[q] : log'[p1][i] = log[p1][i1] /\ log'[q][j] = log[q][j1]
    BY <1>9
  <2> QED BY <2>1 DEF StreamInv, Consecutive
<1>17. InTotalOrder(log)'
  <2> SUFFICES ASSUME NEW p1 \in Partition, NEW q \in Partition, NEW i \in DOMAIN log'[p1], NEW j \in DOMAIN log'[q],
                      log'[p1][i].key = log'[q][j].key,
                      log'[p1][i].seq < log'[q][j].seq
               PROVE  \/ IndexOn(p1, log'[p1][i]) < IndexOn(q, log'[q][j])
                      \/ IndexOn(p1, log'[p1][i]) = IndexOn(q, log'[q][j]) /\ p1 = q /\ i < j
    BY DEF InTotalOrder, IndexOn
  <2>1. CASE i \in DOMAIN log[p1] /\ log'[p1][i] = log[p1][i]
    <3>1. CASE j \in DOMAIN log[q] /\ log'[q][j] = log[q][j]
      BY <2>1, <3>1 DEF StreamInv, InTotalOrder
    <3>2. CASE q = to /\ j = end
      <4>1. log'[q][j] = log[q][o]
        BY <1>3, <1>7, <3>2
      <4>2. p1 = q => i < j
        BY <1>7, <2>1, <3>2
      <4>3. PICK a \in Streamed, b \in Streamed : a = log[p1][i] /\ b = log[q][o]
        BY <1>1, <1>3, <2>1, <3>2
      <4>4. IndexOn(p1, a) < IndexOn(q, b) \/ (IndexOn(p1, a) = IndexOn(q, b) /\ p1 = q /\ i < o)
        BY <1>3, <2>1, <3>2, <4>1, <4>3 DEF StreamInv, InTotalOrder
      <4> QED BY <2>1, <4>1, <4>2, <4>3, <4>4
    <3> QED BY <1>7, <3>1, <3>2
  <2>2. CASE p1 = to /\ i = end
    <3>1. log'[p1][i].key = k /\ log'[p1][i].seq = sent'[k]
      BY <1>4, <1>7, <1>8, <2>2
    <3>2. log'[q][j].seq <= sent'[k] /\ log'[q][j].seq \in Nat /\ sent'[k] \in Nat
      BY <1>4, <1>8, <1>10, <1>12, <3>1 DEF Numbered
    <3> QED BY <3>1, <3>2
  <2> QED BY <1>7, <2>1, <2>2
<1> QED BY <1>11, <1>12, <1>13, <1>14, <1>15, <1>16, <1>17 DEF StreamInv

LEMMA StutterKeeps ==
    ASSUME StreamInv, UNCHANGED <<log, last, sent>>
    PROVE  StreamInv'
<1>1. log' = log /\ last' = last /\ sent' = sent
  OBVIOUS
<1>2. Typed' /\ Numbered'
  BY <1>1 DEF StreamInv, Typed, Numbered
<1>3. UpToLast'
  BY <1>1 DEF StreamInv, UpToLast, IndexOn
<1>4. Linked'
  BY <1>1 DEF StreamInv, Linked, Leads
<1>5. Announced'
  BY <1>1 DEF StreamInv, Announced
<1>6. Consecutive'
  BY <1>1 DEF StreamInv, Consecutive, IndexOn
<1>7. InTotalOrder(log)'
  BY <1>1 DEF StreamInv, InTotalOrder, IndexOn
<1> QED BY <1>2, <1>3, <1>4, <1>5, <1>6, <1>7 DEF StreamInv

LEMMA StepKeeps ==
    ASSUME StreamInv, [Next]_<<log, last, sent>>
    PROVE  StreamInv'
BY SendKeeps, RepeatKeeps, StutterKeeps DEF Next

LEMMA Inductive == Spec => []StreamInv
BY InitKeeps, StepKeeps, PTL DEF Spec

\* A send is one message of the key, with the next number.
LEMMA OneMessage ==
    ASSUME StreamInv, NEW k \in Key, NEW p \in Partition, Send(k, p)
    PROVE  /\ sent' = [sent EXCEPT ![k] = @ + 1]
           /\ \E to \in Partition, m \in Streamed : m.key = k /\ log' = [log EXCEPT ![to] = Append(@, m)]
<1>1. last \in [Key -> MessageSet \cup {NoSet}] /\ sent \in [Key -> Nat] /\ (last[k] # NoSet => Leads(last[k]))
  BY DEF StreamInv, Typed, Linked
<1>2. MsgsetHdrVal(last[k], p) \in MessageSet /\ SendTo(last[k], p) \in Partition
  BY <1>1, Headers
<1>3. PICK m : m = [key |-> k, seq |-> sent[k] + 1, set |-> MsgsetHdrVal(last[k], p)]
  OBVIOUS
<1>4. m \in Streamed /\ m.key = k
  BY <1>1, <1>2, <1>3 DEF Streamed
<1> QED BY <1>2, <1>3, <1>4 DEF Send

\* What is in the log stays where it is.
LEMMA LogGrows ==
    ASSUME StreamInv, Next
    PROVE  \A q \in Partition : \A j \in DOMAIN log[q] : j \in DOMAIN log'[q] /\ log'[q][j] = log[q][j]
<1>1. /\ log  \in [Partition -> Seq(Streamed)] /\ last \in [Key -> MessageSet \cup {NoSet}]
      /\ sent \in [Key -> Nat]
  BY DEF StreamInv, Typed
<1>2. ASSUME NEW k \in Key, NEW p \in Partition, Send(k, p)
      PROVE  \E to \in Partition, m \in Streamed : log' = [log EXCEPT ![to] = Append(@, m)]
  BY <1>2, OneMessage
<1>3. ASSUME NEW k \in Key, Repeat(k)
      PROVE  \E to \in Partition, m \in Streamed : log' = [log EXCEPT ![to] = Append(@, m)]
  <2>1. PICK to \in Partition : \E i \in DOMAIN log[to] : log' = [log EXCEPT ![to] = Append(@, log[to][i])]
    BY <1>3 DEF Repeat
  <2>2. PICK i \in DOMAIN log[to] : log' = [log EXCEPT ![to] = Append(@, log[to][i])]
    BY <2>1
  <2>3. log[to][i] \in Streamed
    BY <1>1
  <2> QED BY <2>2, <2>3
<1>4. PICK to \in Partition, m \in Streamed : log' = [log EXCEPT ![to] = Append(@, m)]
  BY <1>2, <1>3 DEF Next
<1>5. Extended(to, m)
  BY <1>1, <1>4, Appending
<1> QED BY <1>5 DEF Extended

-----------------------------------------------------------------------------
(* The theorem.                                                            *)

\* "This allows for forcing a total ordering on each stream irrespective of
\* changing partitions" (msgSet.go): it does, for any number of messages,
\* however often a key moves and messages are repeated, if sending is atomic.
THEOREM StreamIsOrdered == Spec => []TotalOrder
<1>1. StreamInv => TotalOrder
  BY DEF StreamInv, TotalOrder
<1> QED BY <1>1, Inductive, PTL
=============================================================================
