--------------------------- MODULE ProducerProofs ---------------------------
(***************************************************************************)
(* The producer under every interleaving of its goroutines, for any number *)
(* of keys, partitions, requests, losses and restarts: sets are well       *)
(* linked and announced, a header names the partition of its message, and  *)
(* vanilla messages are where the hash says.  When clients wait, sending   *)
(* refines MessageSetStream, and messages are totally ordered.             *)
(***************************************************************************)
EXTENDS Producer, SequenceTheorems, FiniteSetTheorems, TLAPS

\* NoSet, or a well-linked set.
Good(s) == s = NoSet \/ (s \in MessageSet /\ WellLinked(s))

\* A message with set s may be on partition p.
Fits(s, p) == s # NoSet => p = s.DestPartition \/ (p = s.SrcPartition /\ s.DestMsgsetIndex > 0)

\* The sets of messages decided, stored and about to be stored are good; what
\* Produce is going to send fits its target, as what is in the log does.
SetsInv ==
    /\ \A k \in Key : Good(sets[k])
    /\ \A s \in stores : Good(s.set)
    /\ \A g \in produces : Good(g.set) /\ Fits(g.set, g.target)
    /\ \A p \in Partition : \A i \in DOMAIN log[p] : Good(log[p][i].set) /\ Fits(log[p][i].set, p)
    /\ \A m \in lost : Good(m.set)

IndInv == TypeOK /\ SetsInv

-----------------------------------------------------------------------------
(* What MsgsetHdrVal returns.                                              *)

LEMMA HeaderValue ==
    ASSUME NEW last \in MessageSet \cup {NoSet}, Good(last), NEW p \in Partition
    PROVE  LET set == MsgsetHdrVal(last, p)
               to  == SendTo(last, p)
           IN  set \in MessageSet /\ WellLinked(set) /\ to \in Partition /\ Fits(set, to)
<1>1. CASE last = NoSet
  BY <1>1, PartitionAssumption DEF MsgsetHdrVal, SendTo, PartitionChanged, FirstSet, MessageSet, WellLinked, Fits
<1>2. CASE last # NoSet /\ last.DestPartition = p
  BY <1>2 DEF MsgsetHdrVal, SendTo, PartitionChanged, MessageSet, Good, Fits
<1>3. CASE last # NoSet /\ last.DestPartition # p
  <2>1. last \in MessageSet
    BY <1>3
  <2>2. MsgsetHdrVal(last, p) = SetAfter(last, p) /\ SendTo(last, p) = last.DestPartition
    BY <1>3 DEF MsgsetHdrVal, SendTo, PartitionChanged
  <2>3. /\ SetAfter(last, p) \in MessageSet
        /\ SetAfter(last, p).SrcPartition = last.DestPartition
        /\ SetAfter(last, p).DestPartition = p
        /\ SetAfter(last, p).SrcMsgsetIndex \in Nat
        /\ SetAfter(last, p).DestMsgsetIndex = SetAfter(last, p).SrcMsgsetIndex + 1
    BY <2>1 DEF SetAfter, MessageSet
  <2>4. last.DestPartition \in Partition
    BY <2>1 DEF MessageSet
  <2> QED BY <1>3, <2>2, <2>3, <2>4 DEF WellLinked, Fits
<1> QED BY <1>1, <1>2, <1>3

-----------------------------------------------------------------------------

Produced == [key : Key, seq : Nat, pc : {"header", "send", "retry"}, target : Partition,
             set : MessageSet \cup {NoSet}]
Storing  == [key : Key, seq : Nat, set : MessageSet]
Logging  == [key : Key, seq : Nat, set : MessageSet \cup {NoSet}]

LEMMA MessageType ==
    ASSUME NEW g \in Produced
    PROVE  Message(g) \in Logging /\ Message(g).set = g.set
BY DEF Produced, Logging, Message

LEMMA Initially == Init => IndInv
<1> SUFFICES ASSUME Init PROVE IndInv
  OBVIOUS
<1>1. TypeOK
  <2>1. vanilla \in BOOLEAN /\ RT!TypeOK
    BY BoundAssumption DEF Init, RT!Init, RT!TypeOK
  <2>2. log \in [Partition -> Seq(Logging)] /\ {sent, before} \subseteq [Key -> Nat] /\ sets \in [Key -> MessageSet \cup {NoSet}]
    BY DEF Init
  <2> QED BY <2>1, <2>2 DEF Init, TypeOK, Logging, bounds
<1>2. \A p \in Partition : DOMAIN log[p] = {}
  BY DEF Init
<1>3. SetsInv
  BY <1>2 DEF Init, SetsInv, Good
<1> QED BY <1>1, <1>3 DEF IndInv

LEMMA RerouteStep ==
    ASSUME IndInv, Reroute
    PROVE  IndInv'
<1>1. RT!TypeOK'
  <2>1. route \in [Key -> Partition \cup {None}]
    BY DEF IndInv, TypeOK, RT!TypeOK
  <2>2. PICK k \in Key, r \in Partition \cup {None} : route' = [route EXCEPT ![k] = r]
    BY DEF Reroute, RT!Next, RT!Promote, RT!Demote
  <2> QED BY <2>1, <2>2 DEF RT!TypeOK
<1>2. TypeOK'
  <2>1. bounds' \in Nat \X Nat \X Nat
    BY DEF IndInv, TypeOK, Reroute, bounds
  <2>2. UNCHANGED <<vanilla, sets, produces, stores, log, sent, lost, before>>
    BY DEF Reroute
  <2> QED BY <1>1, <2>1, <2>2 DEF IndInv, TypeOK
<1>3. SetsInv'
  BY DEF IndInv, SetsInv, Reroute
<1> QED BY <1>2, <1>3 DEF IndInv

LEMMA NewMessageStep ==
    ASSUME IndInv, NEW k \in Key, NewMessage(k)
    PROVE  IndInv'
<1>1. PICK g \in Produced : produces' = produces \cup {g} /\ g.set = NoSet
  <2> DEFINE p == IF vanilla \/ route[k] = None THEN HashOf[k] ELSE route[k]
             g == [key |-> k, seq |-> sent[k] + 1, pc |-> "header", target |-> p, set |-> NoSet]
  <2>1. p \in Partition
    BY HashAssumption DEF IndInv, TypeOK, RT!TypeOK
  <2>2. sent[k] + 1 \in Nat
    BY DEF IndInv, TypeOK
  <2>3. g \in Produced /\ g.set = NoSet
    BY <2>1, <2>2 DEF Produced
  <2>4. produces' = produces \cup {g}
    BY DEF NewMessage
  <2> QED BY <2>3, <2>4
<1>2. TypeOK'
  <2>1. produces' \subseteq Produced
    BY <1>1 DEF IndInv, TypeOK, Produced
  <2>2. sent' \in [Key -> Nat]
    BY DEF IndInv, TypeOK, NewMessage
  <2>3. UNCHANGED <<vanilla, route, sets, stores, log, lost, before, bounds>>
    BY DEF NewMessage
  <2> QED BY <2>1, <2>2, <2>3 DEF IndInv, TypeOK, RT!TypeOK, Produced
<1>3. SetsInv'
  BY <1>1 DEF IndInv, SetsInv, NewMessage, Good, Fits
<1> QED BY <1>2, <1>3 DEF IndInv

LEMMA HeaderStep ==
    ASSUME IndInv, NEW g \in produces, Header(g)
    PROVE  IndInv'
<1> DEFINE last == sets[g.key]
           set  == IF vanilla THEN NoSet ELSE MsgsetHdrVal(last, g.target)
           to   == IF vanilla THEN g.target ELSE SendTo(last, g.target)
           h    == [g EXCEPT !.pc = "send", !.target = to, !.set = set]
           t    == [key |-> g.key, seq |-> g.seq, set |-> set]
<1>1. g \in Produced /\ last \in MessageSet \cup {NoSet} /\ Good(last)
  BY DEF IndInv, TypeOK, SetsInv, Produced
<1>2. /\ to \in Partition /\ set \in MessageSet \cup {NoSet} /\ Good(set) /\ Fits(set, to)
      /\ ~vanilla => set \in MessageSet
  BY <1>1, HeaderValue DEF Produced, Good, Fits
<1>3. /\ produces' = (produces \ {g}) \cup {h}
      /\ stores' = stores \/ (~vanilla /\ stores' = stores \cup {t})
      /\ UNCHANGED <<vanilla, route, sets, log, sent, lost, before, bounds>>
  BY DEF Header
<1> HIDE DEF last, set, to
<1>4. h \in Produced /\ h.set = set /\ h.target = to
  BY <1>1, <1>2 DEF Produced
<1>5. (~vanilla => t \in Storing) /\ t.set = set
  BY <1>1, <1>2 DEF Produced, Storing
<1> HIDE DEF h, t
<1>6. TypeOK'
  <2>1. produces' \subseteq Produced
    BY <1>3, <1>4 DEF IndInv, TypeOK, Produced
  <2>2. stores' \subseteq Storing
    BY <1>3, <1>5 DEF IndInv, TypeOK, Storing
  <2> QED BY <1>3, <2>1, <2>2 DEF IndInv, TypeOK, RT!TypeOK, Produced, Storing
<1>7. SetsInv'
  BY <1>2, <1>3, <1>4, <1>5 DEF IndInv, SetsInv
<1> QED BY <1>6, <1>7 DEF IndInv

LEMMA StoreSetStep ==
    ASSUME IndInv, NEW s \in stores, StoreSet(s)
    PROVE  IndInv'
<1>1. s \in Storing
  BY DEF IndInv, TypeOK, Storing
<1>2. TypeOK'
  <2>1. sets' \in [Key -> MessageSet \cup {NoSet}]
    BY <1>1 DEF IndInv, TypeOK, StoreSet, Storing
  <2> QED BY <2>1 DEF IndInv, TypeOK, RT!TypeOK, StoreSet
<1>3. SetsInv'
  BY <1>1 DEF IndInv, TypeOK, SetsInv, StoreSet, Storing
<1> QED BY <1>2, <1>3 DEF IndInv

\* What appending a decided message to its target does to the log.
LEMMA AppendedLog ==
    ASSUME IndInv, NEW g \in produces, log' = Appended(g)
    PROVE  /\ log' \in [Partition -> Seq(Logging)]
           /\ \A q \in Partition : \A i \in DOMAIN log'[q] : Good(log'[q][i].set) /\ Fits(log'[q][i].set, q)
<1> DEFINE m == Message(g)
           p == g.target
<1>1. g \in Produced /\ m \in Logging /\ m.set = g.set /\ p \in Partition
  <2>1. g \in Produced
    BY DEF IndInv, TypeOK, Produced
  <2> QED BY <2>1, MessageType DEF Produced
<1>2. log' = [log EXCEPT ![p] = Append(@, m)]
  BY DEF Appended
<1>3. Good(m.set) /\ Fits(m.set, p)
  BY <1>1 DEF IndInv, SetsInv
<1> HIDE DEF m, p
<1>4. log \in [Partition -> Seq(Logging)]
  BY DEF IndInv, TypeOK, Logging
<1>5. log' \in [Partition -> Seq(Logging)]
  <2>1. Append(log[p], m) \in Seq(Logging)
    BY <1>1, <1>4, AppendProperties
  <2> QED BY <1>2, <1>4, <2>1
<1>6. ASSUME NEW q \in Partition, NEW i \in DOMAIN log'[q]
      PROVE  Good(log'[q][i].set) /\ Fits(log'[q][i].set, q)
  <2>1. CASE q # p
    BY <1>2, <1>4, <1>6, <2>1 DEF IndInv, SetsInv
  <2>2. CASE q = p
    <3>1. log'[q] = Append(log[q], m) /\ log[q] \in Seq(Logging)
      BY <1>1, <1>2, <1>4, <2>2
    <3>2. (i \in DOMAIN log[q] /\ log'[q][i] = log[q][i]) \/ log'[q][i] = m
      BY <1>1, <1>6, <3>1
    <3> QED BY <1>3, <2>2, <3>2 DEF IndInv, SetsInv
  <2> QED BY <2>1, <2>2
<1> QED BY <1>5, <1>6

LEMMA SendStep ==
    ASSUME IndInv, NEW g \in produces, Send(g)
    PROVE  IndInv'
<1>1. /\ log' = Appended(g) /\ produces' = produces \ {g}
      /\ UNCHANGED <<vanilla, route, sets, stores, sent, lost, before, bounds>>
  BY DEF Send
<1>2. TypeOK'
  BY <1>1, AppendedLog DEF IndInv, TypeOK, RT!TypeOK, Logging
<1>3. SetsInv'
  BY <1>1, AppendedLog DEF IndInv, SetsInv
<1> QED BY <1>2, <1>3 DEF IndInv

LEMMA SendUnansweredStep ==
    ASSUME IndInv, NEW g \in produces, SendUnanswered(g)
    PROVE  IndInv'
<1> DEFINE h == [g EXCEPT !.pc = "retry"]
<1>1. /\ log' = Appended(g) /\ produces' = (produces \ {g}) \cup {h} /\ repeats' = repeats + 1
      /\ UNCHANGED <<vanilla, route, sets, stores, sent, lost, before, routes, crashes>>
  BY DEF SendUnanswered
<1>2. g \in Produced
  BY DEF IndInv, TypeOK, Produced
<1>3. h \in Produced /\ h.set = g.set /\ h.target = g.target
  BY <1>2 DEF Produced
<1> HIDE DEF h
<1>4. TypeOK'
  <2>1. produces' \subseteq Produced
    BY <1>1, <1>3 DEF IndInv, TypeOK, Produced
  <2>2. bounds' \in Nat \X Nat \X Nat
    BY <1>1 DEF IndInv, TypeOK, bounds
  <2> QED BY <1>1, <2>1, <2>2, AppendedLog DEF IndInv, TypeOK, RT!TypeOK, Produced, Logging
<1>5. SetsInv'
  BY <1>1, <1>3, AppendedLog DEF IndInv, SetsInv
<1> QED BY <1>4, <1>5 DEF IndInv

LEMMA LoseStep ==
    ASSUME IndInv, NEW g \in produces, Lose(g)
    PROVE  IndInv'
<1>1. g \in Produced
  BY DEF IndInv, TypeOK, Produced
<1>2. Message(g) \in Logging /\ Message(g).set = g.set
  BY <1>1, MessageType
<1>3. /\ lost' = lost \cup {Message(g)} /\ produces' = produces \ {g}
      /\ UNCHANGED <<vanilla, route, sets, stores, log, sent, before, bounds>>
  BY DEF Lose
<1>4. TypeOK'
  BY <1>2, <1>3 DEF IndInv, TypeOK, RT!TypeOK, Logging
<1>5. SetsInv'
  BY <1>2, <1>3 DEF IndInv, SetsInv
<1> QED BY <1>4, <1>5 DEF IndInv

LEMMA RestartStep == IndInv /\ Restart => IndInv'
<1> SUFFICES ASSUME IndInv, Restart PROVE IndInv'
  OBVIOUS
<1>1. /\ crashes' = crashes + 1
      /\ route' = [k \in Key |-> None] /\ sets' = [k \in Key |-> NoSet]
      /\ produces' = {} /\ stores' = {} /\ before' = sent
      /\ UNCHANGED <<vanilla, log, sent, lost, routes, repeats>>
  BY DEF Restart
<1>2. TypeOK'
  <2>1. RT!TypeOK'
    BY <1>1 DEF RT!TypeOK
  <2>2. bounds' \in Nat \X Nat \X Nat
    BY <1>1 DEF IndInv, TypeOK, bounds
  <2> QED BY <1>1, <2>1, <2>2 DEF IndInv, TypeOK
<1>3. SetsInv'
  BY <1>1 DEF IndInv, SetsInv, Good
<1> QED BY <1>2, <1>3 DEF IndInv

LEMMA Step == IndInv /\ [Next]_vars => IndInv'
<1> SUFFICES ASSUME IndInv, [Next]_vars PROVE IndInv'
  OBVIOUS
<1>1. CASE UNCHANGED vars
  BY <1>1 DEF vars, IndInv, TypeOK, RT!TypeOK, SetsInv
<1> QED BY <1>1, RerouteStep, NewMessageStep, HeaderStep, StoreSetStep, SendStep, SendUnansweredStep, LoseStep,
        RestartStep DEF Next

LEMMA Inductive == Spec => []IndInv
BY Initially, Step, PTL DEF Spec

-----------------------------------------------------------------------------
(* Vanilla mode.                                                           *)

VanillaInv ==
    vanilla => /\ \A g \in produces : g.target = HashOf[g.key]
               /\ VanillaHashes

LEMMA VanillaStep == IndInv /\ VanillaInv /\ [Next]_vars => VanillaInv'
<1> SUFFICES ASSUME IndInv, VanillaInv, [Next]_vars, vanilla' PROVE VanillaInv'
  BY DEF VanillaInv
<1>1. vanilla /\ produces \subseteq Produced /\ log \in [Partition -> Seq(Logging)]
  BY DEF Next, Reroute, NewMessage, Header, Send, SendUnanswered, Lose, StoreSet, Restart, vars,
         IndInv, TypeOK, Produced, Logging
<1>2. /\ \A g \in produces : g.target = HashOf[g.key]
      /\ \A p \in Partition : \A i \in DOMAIN log[p] : p = HashOf[log[p][i].key]
  BY <1>1 DEF VanillaInv, VanillaHashes
<1>3. ASSUME \A g \in produces' : g.target = HashOf[g.key], log' = log PROVE VanillaInv'
  BY <1>2, <1>3 DEF VanillaInv, VanillaHashes
<1>4. ASSUME NEW g \in produces, log' = Appended(g), \A h \in produces' : h.target = HashOf[h.key]
      PROVE  VanillaInv'
  <2>1. PICK m, p : m = Message(g) /\ p = g.target
    OBVIOUS
  <2>2. m \in Logging /\ m.key = g.key /\ p \in Partition /\ p = HashOf[m.key]
    <3>1. g \in Produced
      BY <1>1
    <3> QED BY <1>2, <2>1, <3>1 DEF Produced, Logging, Message
  <2>3. log[p] \in Seq(Logging) /\ log'[p] = Append(log[p], m) /\ \A q \in Partition : q # p => log'[q] = log[q]
    BY <1>1, <1>4, <2>1, <2>2 DEF Appended
  <2>4. \A i \in DOMAIN log'[p] : (i \in DOMAIN log[p] /\ log'[p][i] = log[p][i]) \/ log'[p][i] = m
    BY <2>2, <2>3
  <2>5. ASSUME NEW q \in Partition, NEW i \in DOMAIN log'[q] PROVE q = HashOf[log'[q][i].key]
    <3>1. CASE q # p
      BY <1>2, <2>3, <2>5, <3>1
    <3>2. CASE q = p
      <4>1. (i \in DOMAIN log[p] /\ log'[p][i] = log[p][i]) \/ log'[p][i] = m
        BY <2>4, <2>5, <3>2
      <4> QED BY <1>2, <2>2, <3>2, <4>1
    <3> QED BY <3>1, <3>2
  <2> QED BY <1>4, <2>5 DEF VanillaInv, VanillaHashes
<1>5. CASE \E k \in Key : NewMessage(k)
  <2>1. PICK k \in Key : NewMessage(k)
    BY <1>5
  <2>2. \A g \in produces' : g.target = HashOf[g.key]
    BY <1>1, <1>2, <2>1 DEF NewMessage
  <2> QED BY <1>3, <2>1, <2>2 DEF NewMessage
<1>6. CASE \E g \in produces : Header(g)
  <2>1. PICK g \in produces : Header(g)
    BY <1>6
  <2>2. PICK set : produces' = (produces \ {g}) \cup {[g EXCEPT !.pc = "send", !.target = g.target, !.set = set]}
    BY <1>1, <2>1 DEF Header
  <2>3. g \in Produced
    BY <1>1
  <2>4. \A h \in produces' : h.target = HashOf[h.key]
    BY <1>2, <2>2, <2>3 DEF Produced
  <2> QED BY <1>3, <2>1, <2>4 DEF Header
<1>7. CASE \E g \in produces : Send(g) \/ SendUnanswered(g)
  <2>1. PICK g \in produces : Send(g) \/ SendUnanswered(g)
    BY <1>7
  <2>2. log' = Appended(g) /\ (produces' = produces \ {g} \/ produces' = (produces \ {g}) \cup {[g EXCEPT !.pc = "retry"]})
    BY <2>1 DEF Send, SendUnanswered
  <2>3. g \in Produced
    BY <1>1
  <2>4. \A h \in produces' : h.target = HashOf[h.key]
    BY <1>2, <2>2, <2>3 DEF Produced
  <2> QED BY <1>4, <2>2, <2>4
<1>8. CASE Reroute \/ (\E g \in produces : Lose(g)) \/ (\E s \in stores : StoreSet(s)) \/ Restart \/ UNCHANGED vars
  <2>1. produces' \subseteq produces /\ log' = log
    BY <1>8 DEF Reroute, Lose, StoreSet, Restart, vars
  <2> QED BY <1>2, <1>3, <2>1
<1> QED BY <1>5, <1>6, <1>7, <1>8 DEF Next

-----------------------------------------------------------------------------
(* Sets are announced.                                                     *)

\* The sets messages of k carry.
Carried(k) == {m.set : m \in Decided(k)}

\* Set s starts a key, or leads on from a set of C.
Continues(s, C) ==
    s # NoSet /\ s.SrcPartition # -1 =>
        \E u \in C : u # NoSet /\ u.DestPartition = s.SrcPartition /\ u.DestMsgsetIndex = s.SrcMsgsetIndex

\* The goroutines' messages are the running process's, and no message is of a
\* later one than has been accepted.
SeqInv ==
    /\ \A g \in produces : before[g.key] < g.seq /\ g.seq <= sent[g.key]
    /\ \A k \in Key : \A m \in Logged(k) : m.seq <= sent[k]
    /\ \A m \in lost : m.seq <= sent[m.key]
    /\ \A k \in Key : before[k] <= sent[k]

\* What is stored, or about to be, some message carries; what a message carries
\* continues what another one does.  A goroutine has no set before Header.
CarriedInv ==
    /\ \A g \in produces : g.pc = "header" => g.set = NoSet
    /\ \A k \in Key : sets[k] \in Carried(k) \cup {NoSet}
    /\ \A t \in stores : t.set \in Carried(t.key)
    /\ \A k \in Key : \A s \in Carried(k) : Continues(s, Carried(k))

LEMMA CarriedIsAnnounced == IndInv /\ CarriedInv => SourceWasAnnounced
<1> SUFFICES ASSUME IndInv, CarriedInv, NEW k \in Key, NEW s \in SetsOf(k), s.SrcPartition # -1
             PROVE  \E m \in Decided(k) : /\ m.set # NoSet
                                         /\ m.set.DestPartition = s.SrcPartition
                                         /\ m.set.DestMsgsetIndex = s.SrcMsgsetIndex
  BY DEF SourceWasAnnounced
<1>1. s \in Carried(k) /\ s # NoSet
  BY DEF SetsOf, CarriedInv, Carried
<1> QED BY <1>1 DEF CarriedInv, Carried, Continues

\* Messages are only added to those decided.
LEMMA MoreDecided ==
    ASSUME \A k \in Key : Decided(k) \subseteq Decided(k)', NEW k \in Key
    PROVE  /\ Carried(k) \subseteq Carried(k)'
           /\ \A s : Continues(s, Carried(k)) => Continues(s, Carried(k)')
<1>1. Carried(k) \subseteq Carried(k)'
  BY DEF Carried
<1> QED BY <1>1 DEF Continues

LEMMA SameDecided ==
    ASSUME IndInv, CarriedInv, \A k \in Key : Decided(k)' = Decided(k),
           \A g \in produces' : g.pc = "header" => g.set = NoSet, UNCHANGED sets, stores' \subseteq stores
    PROVE  CarriedInv'
<1>1. \A k \in Key : Carried(k)' = Carried(k)
  BY DEF Carried
<1>2. \A t \in stores : t.key \in Key
  BY DEF IndInv, TypeOK
<1> QED BY <1>1, <1>2 DEF CarriedInv

LEMMA LoggedAre ==
    ASSUME NEW k \in Key, NEW m
    PROVE  m \in Logged(k) <=> m.key = k /\ \E p \in Partition : \E i \in DOMAIN log[p] : m = log[p][i]
BY DEF Logged

LEMMA LoggedWillBe ==
    ASSUME NEW k \in Key, NEW m
    PROVE  m \in Logged(k)' <=> m.key = k /\ \E p \in Partition : \E i \in DOMAIN log'[p] : m = log'[p][i]
BY DEF Logged

LEMMA DecidedAre ==
    ASSUME NEW k \in Key, NEW m
    PROVE  m \in Decided(k) <=>
               \/ /\ m.key = k /\ m.seq > before[k]
                  /\ m \in lost \/ \E p \in Partition : \E i \in DOMAIN log[p] : m = log[p][i]
               \/ \E g \in produces : g.key = k /\ g.pc # "header" /\ m = Message(g)
BY DEF Decided, Logged

LEMMA DecidedWillBe ==
    ASSUME NEW k \in Key, NEW m
    PROVE  m \in Decided(k)' <=>
               \/ /\ m.key = k /\ m.seq > before'[k]
                  /\ m \in lost' \/ \E p \in Partition : \E i \in DOMAIN log'[p] : m = log'[p][i]
               \/ \E g \in produces' : g.key = k /\ g.pc # "header" /\ m = Message(g)
BY DEF Decided, Logged, Message

LEMMA CarriedFirst == Init => CarriedInv
<1> SUFFICES ASSUME Init PROVE CarriedInv
  OBVIOUS
<1>1. \A k \in Key : \A m : m \notin Decided(k)
  BY DecidedAre DEF Init
<1>2. \A k \in Key : Carried(k) = {}
  BY <1>1 DEF Carried
<1> QED BY <1>2 DEF Init, CarriedInv

LEMMA LoggedType ==
    ASSUME IndInv, NEW k \in Key, NEW m \in Logged(k)
    PROVE  m \in Logging
<1>1. PICK p \in Partition : \E i \in DOMAIN log[p] : m = log[p][i]
  BY LoggedAre
<1>2. log[p] \in Seq(Logging)
  BY DEF IndInv, TypeOK, Logging
<1> QED BY <1>1, <1>2

\* What appending a message to its target does to the messages in the log.
LEMMA LoggedAfter ==
    ASSUME IndInv, NEW g \in produces, log' = Appended(g)
    PROVE  /\ \A k \in Key : Logged(k)' = IF k = g.key THEN Logged(k) \cup {Message(g)} ELSE Logged(k)
           /\ \A q \in Partition : \A i \in DOMAIN log[q] : i \in DOMAIN log'[q] /\ log'[q][i] = log[q][i]
           /\ \E i \in DOMAIN log'[g.target] : log'[g.target][i] = Message(g)
<1> DEFINE m == Message(g)
           p == g.target
<1>1. g \in Produced /\ m.key = g.key /\ p \in Partition /\ m \in Logging
  BY MessageType DEF IndInv, TypeOK, Produced, Message
<1>2. log[p] \in Seq(Logging) /\ log'[p] = Append(log[p], m) /\ \A q \in Partition : q # p => log'[q] = log[q]
  BY <1>1 DEF IndInv, TypeOK, Logging, Appended
<1> HIDE DEF m, p
<1>3. /\ \A i \in DOMAIN log[p] : i \in DOMAIN log'[p] /\ log'[p][i] = log[p][i]
      /\ \A i \in DOMAIN log'[p] : (i \in DOMAIN log[p] /\ log'[p][i] = log[p][i]) \/ log'[p][i] = m
      /\ \E i \in DOMAIN log'[p] : log'[p][i] = m
  BY <1>1, <1>2
<1>4. \A q \in Partition : \A i \in DOMAIN log[q] : i \in DOMAIN log'[q] /\ log'[q][i] = log[q][i]
  BY <1>2, <1>3
<1>5. ASSUME NEW k \in Key, NEW n
      PROVE  n \in Logged(k)' <=> n \in Logged(k) \/ (k = g.key /\ n = m)
  <2>1. n \in Logged(k) => n \in Logged(k)'
    BY <1>4, LoggedAre, LoggedWillBe
  <2>2. k = g.key => m \in Logged(k)'
    BY <1>1, <1>3, LoggedWillBe
  <2>3. n \in Logged(k)' => n \in Logged(k) \/ (k = g.key /\ n = m)
    <3>1. (\E q \in Partition : \E i \in DOMAIN log'[q] : n = log'[q][i]) =>
             n = m \/ \E q \in Partition : \E i \in DOMAIN log[q] : n = log[q][i]
      BY <1>2, <1>3
    <3>2. n \in Logged(k)' => n.key = k /\ \E q \in Partition : \E i \in DOMAIN log'[q] : n = log'[q][i]
      BY LoggedWillBe
    <3>3. (\E q \in Partition : \E i \in DOMAIN log[q] : n = log[q][i]) /\ n.key = k => n \in Logged(k)
      BY LoggedAre
    <3> QED BY <1>1, <3>1, <3>2, <3>3
  <2> QED BY <2>1, <2>2, <2>3
<1>6. \A k \in Key : Logged(k)' = IF k = g.key THEN Logged(k) \cup {m} ELSE Logged(k)
  <2> SUFFICES ASSUME NEW k \in Key PROVE Logged(k)' = IF k = g.key THEN Logged(k) \cup {m} ELSE Logged(k)
    OBVIOUS
  <2>1. CASE k = g.key
    BY <1>5, <2>1
  <2>2. CASE k # g.key
    BY <1>5, <2>2
  <2> QED BY <2>1, <2>2
<1> QED BY <1>3, <1>4, <1>6 DEF m, p

\* Handing a message over moves it from the goroutine to the log.
LEMMA HandoverDecides ==
    ASSUME IndInv, SeqInv, NEW g \in produces, g.pc # "header", log' = Appended(g), UNCHANGED <<lost, before>>,
           produces' = produces \ {g} \/ produces' = (produces \ {g}) \cup {[g EXCEPT !.pc = "retry"]},
           NEW k \in Key
    PROVE  Decided(k)' = Decided(k)
<1> DEFINE h == [g EXCEPT !.pc = "retry"]
<1>1. g \in Produced
  BY DEF IndInv, TypeOK, Produced
<1>2. h.key = g.key /\ h.pc = "retry" /\ Message(h) = Message(g)
  BY <1>1 DEF Produced, Message
<1> HIDE DEF h
<1>3. produces' \subseteq (produces \ {g}) \cup {h} /\ produces \subseteq produces' \cup {g}
  BY DEF h
<1>4. Logged(k)' = IF k = g.key THEN Logged(k) \cup {Message(g)} ELSE Logged(k)
  BY LoggedAfter
<1>5. ASSUME NEW n
      PROVE  (\E f \in produces : f.key = k /\ f.pc # "header" /\ n = Message(f)) =>
                 (\E f \in produces' : f.key = k /\ f.pc # "header" /\ n = Message(f)) \/ (k = g.key /\ n = Message(g))
  BY <1>3
<1>6. ASSUME NEW n
      PROVE  (\E f \in produces' : f.key = k /\ f.pc # "header" /\ n = Message(f)) =>
                 (\E f \in produces : f.key = k /\ f.pc # "header" /\ n = Message(f))
  <2> SUFFICES ASSUME NEW f \in produces', f.key = k, f.pc # "header", n = Message(f)
               PROVE  \E e \in produces : e.key = k /\ e.pc # "header" /\ n = Message(e)
    OBVIOUS
  <2> QED BY <1>2, <1>3
<1>7. ASSUME NEW n
      PROVE  n \in Decided(k)' <=> (n.key = k /\ n.seq > before[k] /\ (n \in Logged(k)' \/ n \in lost))
                                   \/ \E f \in produces' : f.key = k /\ f.pc # "header" /\ n = Message(f)
  BY DEF Decided, Message
<1>8. ASSUME NEW n
      PROVE  n \in Decided(k) <=> (n.key = k /\ n.seq > before[k] /\ (n \in Logged(k) \/ n \in lost))
                                  \/ \E f \in produces : f.key = k /\ f.pc # "header" /\ n = Message(f)
  BY DEF Decided, Message
<1>9. k = g.key => Message(g) \in Decided(k) /\ Message(g).seq > before[k] /\ Message(g).key = k
  BY <1>1, <1>8 DEF SeqInv, Produced, Message, IndInv, TypeOK
<1>10. ASSUME NEW n PROVE n \in Decided(k)' <=> n \in Decided(k)
  BY <1>4, <1>5, <1>6, <1>7, <1>8, <1>9
<1> QED BY <1>10

LEMMA LoseDecides ==
    ASSUME IndInv, SeqInv, NEW g \in produces, Lose(g), NEW k \in Key
    PROVE  Decided(k)' = Decided(k)
<1>1. /\ g \in Produced /\ g.pc # "header" /\ Message(g).key = g.key
      /\ Message(g).seq > before[g.key]
  BY DEF IndInv, TypeOK, Produced, Message, Lose, SeqInv
<1>2. log' = log /\ before' = before /\ lost' = lost \cup {Message(g)} /\ produces' = produces \ {g}
  BY DEF Lose
<1>3. ASSUME NEW n \in Decided(k) PROVE n \in Decided(k)'
  BY <1>1, <1>2, DecidedAre, DecidedWillBe
<1>4. ASSUME NEW n \in Decided(k)' PROVE n \in Decided(k)
  BY <1>1, <1>2, DecidedAre, DecidedWillBe
<1> QED BY <1>3, <1>4

LEMMA NewMessageCarried ==
    ASSUME IndInv, CarriedInv, NEW k \in Key, NewMessage(k)
    PROVE  CarriedInv'
<1> DEFINE p == IF vanilla \/ route[k] = None THEN HashOf[k] ELSE route[k]
           g == [key |-> k, seq |-> sent[k] + 1, pc |-> "header", target |-> p, set |-> NoSet]
<1>1. produces' = produces \cup {g} /\ g.pc = "header" /\ g.set = NoSet
  BY DEF NewMessage
<1> HIDE DEF g
<1>2. log' = log /\ lost' = lost /\ UNCHANGED <<sets, stores, before>>
  BY DEF NewMessage
<1>3. ASSUME NEW j \in Key PROVE Decided(j)' = Decided(j)
  BY <1>1, <1>2, DecidedAre, DecidedWillBe DEF Decided, Logged, Message
<1> QED BY <1>1, <1>2, <1>3, SameDecided DEF CarriedInv

\* The message whose header is decided carries the set its goroutine starts to
\* store, and that continues the set read.
LEMMA HeaderCarried ==
    ASSUME IndInv, CarriedInv, NEW g \in produces, Header(g)
    PROVE  CarriedInv'
<1> PICK k : k = g.key
  OBVIOUS
<1> DEFINE last == sets[k]
           set  == IF vanilla THEN NoSet ELSE MsgsetHdrVal(last, g.target)
           to   == IF vanilla THEN g.target ELSE SendTo(last, g.target)
           h    == [g EXCEPT !.pc = "send", !.target = to, !.set = set]
           t    == [key |-> k, seq |-> g.seq, set |-> set]
<1>1. g \in Produced /\ k \in Key /\ g.pc = "header" /\ last \in MessageSet \cup {NoSet} /\ g.target \in Partition
  BY DEF IndInv, TypeOK, Produced, Header
<1>2. /\ produces' = (produces \ {g}) \cup {h}
      /\ stores' \subseteq stores \cup {t}
      /\ UNCHANGED <<sets, log, lost, before>>
  BY DEF Header
<1>3. h.key = k /\ h.pc = "send" /\ h.set = set /\ t.key = k /\ t.set = set /\ Message(h).set = set
  BY <1>1 DEF Produced, Message
<1>4. /\ set = NoSet \/ set = FirstSet(g.target) \/ (last # NoSet /\ set = last)
         \/ (last # NoSet /\ set = SetAfter(last, g.target))
  BY DEF MsgsetHdrVal
<1> HIDE DEF set, to, h, t, last
<1>5. \A j \in Key : Decided(j) \subseteq Decided(j)' /\ \A m \in Decided(j)' \ Decided(j) : j = k /\ m = Message(h)
  <2> SUFFICES ASSUME NEW j \in Key PROVE Decided(j) \subseteq Decided(j)' /\ \A m \in Decided(j)' \ Decided(j) : j = k /\ m = Message(h)
    OBVIOUS
  <2>1. ASSUME NEW m \in Decided(j) PROVE m \in Decided(j)'
    BY <1>1, <1>2, DecidedAre, DecidedWillBe
  <2>2. ASSUME NEW m \in Decided(j)', m \notin Decided(j) PROVE j = k /\ m = Message(h)
    <3>1. \E f \in produces' : f.key = j /\ f.pc # "header" /\ m = Message(f)
      BY <1>2, <2>2, DecidedAre, DecidedWillBe
    <3>2. PICK f \in produces' : f.key = j /\ f.pc # "header" /\ m = Message(f)
      BY <3>1
    <3>3. f \notin produces
      BY <2>2, <3>2, DecidedAre
    <3> QED BY <1>2, <1>3, <3>2, <3>3
  <2> QED BY <2>1, <2>2
<1>6. Message(h) \in Decided(k)'
  BY <1>1, <1>2, <1>3, DecidedWillBe
<1>7. \A j \in Key : /\ Carried(j) \subseteq Carried(j)'
                     /\ \A s : Continues(s, Carried(j)) => Continues(s, Carried(j)')
  BY <1>5, MoreDecided
<1>8. set \in Carried(k)' /\ \A j \in Key : \A s \in Carried(j)' \ Carried(j) : j = k /\ s = set
  BY <1>3, <1>5, <1>6 DEF Carried
<1>9. Continues(set, Carried(k)')
  <2>1. CASE set = NoSet
    BY <2>1 DEF Continues
  <2>2. CASE set = FirstSet(g.target)
    BY <2>2 DEF Continues, FirstSet
  <2>3. CASE last # NoSet /\ (set = last \/ set = SetAfter(last, g.target))
    <3>1. last \in Carried(k)
      BY <1>1, <2>3 DEF CarriedInv, last
    <3>2. CASE set = last
      BY <1>1, <1>7, <3>1, <3>2 DEF CarriedInv
    <3>3. CASE set = SetAfter(last, g.target)
      <4>1. set.SrcPartition = last.DestPartition /\ set.SrcMsgsetIndex = last.DestMsgsetIndex
        BY <3>3 DEF SetAfter
      <4>2. last \in Carried(k)'
        BY <1>1, <1>7, <3>1
      <4> QED BY <2>3, <4>1, <4>2 DEF Continues
    <3> QED BY <2>3, <3>2, <3>3
  <2> QED BY <1>4, <2>1, <2>2, <2>3
<1>10. \A f \in produces' : f.pc = "header" => f.set = NoSet
  BY <1>2, <1>3 DEF CarriedInv
<1>11. \A j \in Key : sets'[j] \in Carried(j)' \cup {NoSet}
  BY <1>2, <1>7 DEF CarriedInv
<1>12. \A f \in stores' : f.set \in Carried(f.key)'
  <2>1. \A f \in stores : f.key \in Key
    BY DEF IndInv, TypeOK
  <2>2. \A f \in stores : f.set \in Carried(f.key)'
    BY <1>7, <2>1 DEF CarriedInv
  <2>3. \A f \in stores' : f \in stores \/ (f.key = k /\ f.set = set)
    BY <1>2, <1>3
  <2> QED BY <1>8, <2>2, <2>3
<1>13. \A j \in Key : \A s \in Carried(j)' : Continues(s, Carried(j)')
  BY <1>7, <1>8, <1>9 DEF CarriedInv
<1> QED BY <1>10, <1>11, <1>12, <1>13 DEF CarriedInv

LEMMA StoreSetCarried ==
    ASSUME IndInv, CarriedInv, NEW s \in stores, StoreSet(s)
    PROVE  CarriedInv'
<1>1. s.key \in Key /\ sets' = [sets EXCEPT ![s.key] = s.set] /\ stores' = stores \ {s}
      /\ UNCHANGED <<produces, log, lost, before>> /\ sets \in [Key -> MessageSet \cup {NoSet}]
  BY DEF StoreSet, IndInv, TypeOK
<1>2. \A k \in Key : Decided(k)' = Decided(k)
  BY <1>1 DEF Decided, Logged, Message
<1>3. \A k \in Key : Carried(k)' = Carried(k)
  BY <1>2 DEF Carried
<1>4. \A k \in Key : sets'[k] \in Carried(k)' \cup {NoSet}
  BY <1>1, <1>3 DEF CarriedInv
<1>5. \A t \in stores' : t.set \in Carried(t.key)'
  <2>1. \A t \in stores : t.key \in Key
    BY DEF IndInv, TypeOK
  <2> QED BY <1>1, <1>3, <2>1 DEF CarriedInv
<1> QED BY <1>1, <1>3, <1>4, <1>5 DEF CarriedInv

\* A process that has just started has decided nothing.
LEMMA RestartCarried == IndInv /\ SeqInv /\ Restart => CarriedInv'
<1> SUFFICES ASSUME IndInv, SeqInv, Restart PROVE CarriedInv'
  OBVIOUS
<1>1. /\ produces' = {} /\ stores' = {} /\ sets' = [k \in Key |-> NoSet]
      /\ before' = sent /\ log' = log /\ lost' = lost
  BY DEF Restart
<1>2. ASSUME NEW k \in Key, NEW m, m \in Logged(k) \/ (m.key = k /\ m \in lost)
      PROVE  ~(m.seq > sent[k])
  <2>1. m \in Logging
    BY <1>2, LoggedType DEF IndInv, TypeOK, Logging
  <2> QED BY <1>2, <2>1 DEF SeqInv, Logging, IndInv, TypeOK
<1>3. ASSUME NEW k \in Key, NEW m PROVE m \notin Decided(k)'
  BY <1>1, <1>2, DecidedWillBe, LoggedAre
<1>4. \A k \in Key : Carried(k)' = {}
  BY <1>3 DEF Carried
<1> QED BY <1>1, <1>4 DEF CarriedInv

LEMMA CarriedStep == IndInv /\ SeqInv /\ CarriedInv /\ [Next]_vars => CarriedInv'
<1> SUFFICES ASSUME IndInv, SeqInv, CarriedInv, [Next]_vars PROVE CarriedInv'
  OBVIOUS
<1>1. CASE Reroute \/ UNCHANGED vars
  <2>1. UNCHANGED <<sets, stores, produces, log, lost, before>>
    BY <1>1 DEF Reroute, vars
  <2>2. \A k \in Key : Decided(k)' = Decided(k)
    BY <2>1 DEF Decided, Logged, Message
  <2> QED BY <2>1, <2>2, SameDecided DEF CarriedInv
<1>2. ASSUME NEW g \in produces, Send(g) \/ SendUnanswered(g) PROVE CarriedInv'
  <2>1. /\ log' = Appended(g) /\ UNCHANGED <<lost, before, sets, stores>> /\ g.pc # "header"
        /\ produces' = produces \ {g} \/ produces' = (produces \ {g}) \cup {[g EXCEPT !.pc = "retry"]}
    BY <1>2 DEF Send, SendUnanswered
  <2>2. \A k \in Key : Decided(k)' = Decided(k)
    BY <2>1, HandoverDecides
  <2>3. [g EXCEPT !.pc = "retry"].pc = "retry"
    BY DEF IndInv, TypeOK
  <2> QED BY <2>1, <2>2, <2>3, SameDecided DEF CarriedInv
<1>3. ASSUME NEW g \in produces, Lose(g) PROVE CarriedInv'
  <2>1. UNCHANGED <<sets, stores>> /\ produces' \subseteq produces
    BY <1>3 DEF Lose
  <2>2. \A k \in Key : Decided(k)' = Decided(k)
    BY <1>3, LoseDecides
  <2> QED BY <2>1, <2>2, SameDecided DEF CarriedInv
<1> QED BY <1>1, <1>2, <1>3, NewMessageCarried, HeaderCarried, StoreSetCarried, RestartCarried DEF Next

-----------------------------------------------------------------------------
(* Sending is atomic when clients wait.                                    *)

\* Nothing was lost and the process has not been restarted.
Undisturbed == ~vanilla /\ lost = {} /\ crashes = 0

\* The messages of k that the log has: all but the one under way.
Arrived(k) == IF \E g \in produces : g.key = k /\ g.pc # "retry" THEN sent[k] - 1 ELSE sent[k]

\* The log has each of them, and of each one copy or more of one message.
AllArrived(k) ==
    /\ IsFiniteSet(Logged(k)) /\ Cardinality(Logged(k)) = Arrived(k)
    /\ \A m \in Logged(k) : m.seq <= Arrived(k)
    /\ Logged(k) # {} => \E m \in Logged(k) : m.seq = Arrived(k)
    /\ \A m, n \in Logged(k) : m.seq = n.seq => m = n

\* s is stored, or the only set that is going to be.
Settled(k, s) ==
    /\ \A t \in stores : t.key = k => t.set = s
    /\ (\A t \in stores : t.key # k) => sets[k] = s

\* What g, a goroutine of k, did is what an atomic send would have done by now.
Phase(k, g) ==
    /\ g.seq = sent[k]
    /\ g.pc = "header" => (\A t \in stores : t.key # k) /\ sets[k] = LastSet(k)
    /\ g.pc = "send" => /\ \E p \in Partition : g.set = MsgsetHdrVal(LastSet(k), p)
                                                /\ g.target = SendTo(LastSet(k), p)
                        /\ Settled(k, g.set)
    /\ g.pc = "retry" => /\ \E i \in DOMAIN log[g.target] : log[g.target][i] = Message(g)
                         /\ Settled(k, g.set)

KeyPaced(k) ==
    /\ AllArrived(k)
    /\ \A g, h \in produces : g.key = k /\ h.key = k => g = h
    /\ \A g \in produces : g.key = k => Phase(k, g)
    /\ (\A g \in produces : g.key # k) => Settled(k, LastSet(k))

PacedInv == \A k \in Key : KeyPaced(k)

LEMMA LastIsLast ==
    ASSUME NEW S, NEW m \in S, \A n \in S : n.seq \in Nat /\ n.seq <= m.seq,
           \A n \in S : n.seq = m.seq => n = m
    PROVE  (CHOOSE x \in S : \A n \in S : n.seq <= x.seq) = m
<1>1. \E x \in S : \A n \in S : n.seq <= x.seq
  OBVIOUS
<1>2. PICK x \in S : x = (CHOOSE y \in S : \A n \in S : n.seq <= y.seq) /\ \A n \in S : n.seq <= x.seq
  BY <1>1
<1>3. x.seq = m.seq
  BY <1>2
<1> QED BY <1>2, <1>3

LEMMA LastSame ==
    ASSUME NEW k \in Key, Logged(k)' = Logged(k)
    PROVE  LastSet(k)' = LastSet(k)
BY DEF LastSet

\* A step that leaves a key alone.
LEMMA Elsewhere ==
    ASSUME NEW k \in Key, KeyPaced(k), Logged(k)' = Logged(k), sent'[k] = sent[k], sets'[k] = sets[k],
           \A g : g.key = k => (g \in produces' <=> g \in produces),
           \A t : t.key = k => (t \in stores' <=> t \in stores),
           \A g \in produces : g.key = k =>
               \A i \in DOMAIN log[g.target] : i \in DOMAIN log'[g.target] /\ log'[g.target][i] = log[g.target][i]
    PROVE  KeyPaced(k)'
<1>1. LastSet(k)' = LastSet(k)
  BY LastSame
<1>2. Arrived(k)' = Arrived(k)
  BY DEF Arrived
<1>3. AllArrived(k)'
  BY <1>2 DEF KeyPaced, AllArrived
<1>4. \A s : Settled(k, s)' <=> Settled(k, s)
  BY DEF Settled
<1>5. ASSUME NEW g \in produces', g.key = k PROVE Phase(k, g)'
  <2>1. g \in produces /\ Phase(k, g) /\ Message(g)' = Message(g)
    BY <1>5 DEF KeyPaced, Message
  <2> QED BY <1>1, <1>4, <1>5, <2>1 DEF Phase
<1>6. (\A g \in produces' : g.key # k) => Settled(k, LastSet(k))'
  BY <1>1 DEF KeyPaced, Settled
<1>7. \A g, h \in produces' : g.key = k /\ h.key = k => g = h
  BY DEF KeyPaced
<1> QED BY <1>3, <1>5, <1>6, <1>7 DEF KeyPaced

\* The message g sends is the next one of its key, and the last.
LEMMA Arrives ==
    ASSUME IndInv, NEW k \in Key, KeyPaced(k), NEW g \in produces, g.key = k, g.pc = "send", log' = Appended(g)
    PROVE  /\ g.seq = Cardinality(Logged(k)) + 1
           /\ IsFiniteSet(Logged(k)') /\ Cardinality(Logged(k)') = sent[k]
           /\ Message(g) \in Logged(k)'
           /\ \A m \in Logged(k)' : m.seq <= sent[k] /\ (m.seq = sent[k] => m = Message(g))
           /\ \A m, n \in Logged(k)' : m.seq = n.seq => m = n
           /\ LastSet(k)' = g.set
<1> DEFINE m == Message(g)
<1>1. g.seq = sent[k] /\ sent[k] \in Nat /\ m.seq = sent[k] /\ m.set = g.set
  BY DEF KeyPaced, Phase, IndInv, TypeOK, Message
<1>2. Arrived(k) = sent[k] - 1
  BY DEF Arrived
<1>3. /\ IsFiniteSet(Logged(k)) /\ Cardinality(Logged(k)) = sent[k] - 1
      /\ \A n \in Logged(k) : n.seq <= sent[k] - 1
      /\ \A n, o \in Logged(k) : n.seq = o.seq => n = o
  BY <1>2 DEF KeyPaced, AllArrived
<1>4. Logged(k)' = Logged(k) \cup {m}
  BY LoggedAfter
<1>5. \A n \in Logged(k) : n.seq \in Nat
  BY LoggedType DEF Logging
<1>6. m \notin Logged(k)
  BY <1>1, <1>3, <1>5
<1> HIDE DEF m
<1>7. IsFiniteSet(Logged(k)') /\ Cardinality(Logged(k)') = sent[k]
  <2>1. IsFiniteSet(Logged(k) \cup {m}) /\ Cardinality(Logged(k) \cup {m}) = Cardinality(Logged(k)) + 1
    BY <1>3, <1>6, FS_AddElement
  <2> QED BY <1>1, <1>3, <1>4, <2>1
<1>8. \A n \in Logged(k)' : n.seq \in Nat /\ n.seq <= sent[k] /\ (n.seq = sent[k] => n = m)
  BY <1>1, <1>3, <1>4, <1>5
<1>9. \A n, o \in Logged(k)' : n.seq = o.seq => n = o
  BY <1>1, <1>3, <1>4, <1>5
<1>10. LastSet(k)' = g.set
  <2>1. m \in Logged(k)' /\ Logged(k)' # {}
    BY <1>4
  <2>2. (CHOOSE x \in Logged(k)' : \A n \in Logged(k)' : n.seq <= x.seq) = m
    BY <1>1, <1>8, <2>1, LastIsLast
  <2> QED BY <1>1, <2>1, <2>2 DEF LastSet
<1>11. g.seq = Cardinality(Logged(k)) + 1
  BY <1>1, <1>3
<1> QED BY <1>4, <1>7, <1>8, <1>9, <1>10, <1>11 DEF m

\* A message sent again is the last one of its key.
LEMMA ArrivesAgain ==
    ASSUME IndInv, NEW k \in Key, KeyPaced(k), NEW g \in produces, g.key = k, g.pc = "retry"
    PROVE  /\ Message(g) \in Logged(k) /\ g.seq = Cardinality(Logged(k)) /\ LastSet(k) = g.set
           /\ log' = Appended(g) => Logged(k)' = Logged(k)
<1> DEFINE m == Message(g)
<1>1. /\ g.seq = sent[k] /\ sent[k] \in Nat /\ m.seq = sent[k] /\ m.set = g.set /\ m.key = k
      /\ g.target \in Partition /\ \E i \in DOMAIN log[g.target] : log[g.target][i] = m
  BY DEF KeyPaced, Phase, IndInv, TypeOK, Message
<1>2. Arrived(k) = sent[k]
  BY DEF Arrived, KeyPaced
<1>3. /\ Cardinality(Logged(k)) = sent[k]
      /\ \A n \in Logged(k) : n.seq <= sent[k]
      /\ \A n, o \in Logged(k) : n.seq = o.seq => n = o
  BY <1>2 DEF KeyPaced, AllArrived
<1>4. \A n \in Logged(k) : n.seq \in Nat
  BY LoggedType DEF Logging
<1>5. m \in Logged(k)
  BY <1>1, LoggedAre
<1> HIDE DEF m
<1>6. LastSet(k) = g.set
  <2>1. (CHOOSE x \in Logged(k) : \A n \in Logged(k) : n.seq <= x.seq) = m
    BY <1>1, <1>3, <1>4, <1>5, LastIsLast
  <2> QED BY <1>1, <1>5, <2>1 DEF LastSet
<1>7. log' = Appended(g) => Logged(k)' = Logged(k)
  BY <1>5, LoggedAfter DEF m
<1> QED BY <1>1, <1>3, <1>5, <1>6, <1>7 DEF m

\* Storing k's sets one after the other.
LEMMA StoreSettles ==
    ASSUME IndInv, NEW k \in Key, NEW t \in stores, t.key = k, StoreSet(t)
    PROVE  \A s : Settled(k, s) => Settled(k, s)'
<1> SUFFICES ASSUME NEW s, Settled(k, s) PROVE Settled(k, s)'
  OBVIOUS
<1>1. sets' = [sets EXCEPT ![k] = t.set] /\ stores' = stores \ {t} /\ t.set = s /\ sets'[k] = t.set
  BY DEF StoreSet, Settled, IndInv, TypeOK
<1> QED BY <1>1 DEF Settled

LEMMA NewMessagePaced ==
    ASSUME Paced, IndInv, PacedInv, NEW j \in Key, NewMessage(j)
    PROVE  PacedInv'
<1> DEFINE p == IF vanilla \/ route[j] = None THEN HashOf[j] ELSE route[j]
<1>0. PICK g : g = [key |-> j, seq |-> sent[j] + 1, pc |-> "header", target |-> p, set |-> NoSet]
  OBVIOUS
<1>1. /\ produces' = produces \cup {g} /\ sent' = [sent EXCEPT ![j] = @ + 1]
      /\ UNCHANGED <<sets, stores, log>>
      /\ \A h \in produces \cup stores : h.key # j
  BY <1>0 DEF NewMessage, Quiet
<1>2. g.key = j /\ g.pc = "header" /\ g.seq = sent'[j] /\ sent'[j] = sent[j] + 1 /\ sent[j] \in Nat
  BY <1>0, <1>1 DEF IndInv, TypeOK
<1>3. \A k \in Key : Logged(k)' = Logged(k)
  BY <1>1 DEF Logged
<1>4. ASSUME NEW k \in Key, k # j PROVE KeyPaced(k)'
  <2>1. sent'[k] = sent[k]
    BY <1>1, <1>4 DEF IndInv, TypeOK
  <2>2. KeyPaced(k)
    BY DEF PacedInv
  <2> QED BY <1>1, <1>2, <1>3, <1>4, <2>1, <2>2, Elsewhere
<1>5. KeyPaced(j)'
  <2>1. KeyPaced(j) /\ LastSet(j)' = LastSet(j) /\ Logged(j)' = Logged(j)
    BY <1>3, LastSame DEF PacedInv
  <2>2. Arrived(j) = sent[j] /\ Arrived(j)' = sent[j]
    BY <1>1, <1>2 DEF Arrived
  <2>3. AllArrived(j)'
    BY <2>1, <2>2 DEF KeyPaced, AllArrived
  <2>4. sets'[j] = LastSet(j)'
    BY <1>1, <2>1 DEF KeyPaced, Settled
  <2>5. Phase(j, g)'
    BY <1>1, <1>2, <2>4 DEF Phase
  <2>6. \A f \in produces' : f.key = j => f = g
    BY <1>1
  <2> QED BY <1>1, <1>2, <2>3, <2>5, <2>6 DEF KeyPaced
<1> QED BY <1>4, <1>5 DEF PacedInv

\* The goroutine reads the set of the key's last message, as an atomic send does.
LEMMA HeaderPaced ==
    ASSUME IndInv, PacedInv, ~vanilla, NEW g \in produces, Header(g)
    PROVE  PacedInv'
<1> PICK j \in Key : j = g.key
  BY DEF IndInv, TypeOK
<1>0. PICK set : set = MsgsetHdrVal(sets[j], g.target)
  OBVIOUS
<1>1. PICK h, t : /\ h = [g EXCEPT !.pc = "send", !.target = SendTo(sets[j], g.target), !.set = set]
                  /\ t = [key |-> j, seq |-> g.seq, set |-> set]
  OBVIOUS
<1>2. /\ g.pc = "header"
      /\ produces' = (produces \ {g}) \cup {h}
      /\ stores' = IF MustStore(sets[j], g.target) THEN stores \cup {t} ELSE stores
      /\ UNCHANGED <<sets, log, sent>>
  BY <1>0, <1>1 DEF Header
<1>3. /\ h.key = j /\ h.pc = "send" /\ h.set = set /\ h.seq = g.seq /\ h.target = SendTo(sets[j], g.target)
      /\ t.key = j /\ t.set = set /\ g.target \in Partition
  BY <1>1 DEF IndInv, TypeOK
<1>4. \A k \in Key : Logged(k)' = Logged(k)
  BY <1>2 DEF Logged
<1>5. ASSUME NEW k \in Key, k # j PROVE KeyPaced(k)'
  <2>1. KeyPaced(k)
    BY DEF PacedInv
  <2>2. \A f : f.key = k => (f \in produces' <=> f \in produces)
    BY <1>2, <1>3, <1>5
  <2>3. \A f : f.key = k => (f \in stores' <=> f \in stores)
    BY <1>2, <1>3, <1>5
  <2> QED BY <1>2, <1>4, <2>1, <2>2, <2>3, Elsewhere
<1>6. KeyPaced(j)'
  <2>1. KeyPaced(j) /\ LastSet(j)' = LastSet(j) /\ Logged(j)' = Logged(j)
    BY <1>4, LastSame DEF PacedInv
  <2>2. g.seq = sent[j] /\ sets[j] = LastSet(j) /\ (\A f \in stores : f.key # j)
    BY <1>2, <2>1 DEF KeyPaced, Phase
  <2>3. \A f \in produces' : f.key = j => f = h
    BY <1>2, <2>1 DEF KeyPaced
  <2>4. h \in produces'
    BY <1>2
  <2>5. Arrived(j)' = Arrived(j)
    BY <1>2, <1>3, <2>4 DEF Arrived
  <2>6. AllArrived(j)'
    BY <2>1, <2>5 DEF KeyPaced, AllArrived
  <2>7. Settled(j, set)'
    <3>1. CASE MustStore(sets[j], g.target)
      BY <1>2, <1>3, <2>2, <3>1 DEF Settled
    <3>2. CASE ~MustStore(sets[j], g.target)
      BY <1>0, <1>2, <2>2, <3>2 DEF Settled, MustStore, MsgsetHdrVal
    <3> QED BY <3>1, <3>2
  <2>8. Phase(j, h)'
    BY <1>0, <1>2, <1>3, <2>1, <2>2, <2>7 DEF Phase
  <2> QED BY <1>3, <2>3, <2>4, <2>6, <2>8 DEF KeyPaced
<1> QED BY <1>5, <1>6 DEF PacedInv

LEMMA StoreSetPaced ==
    ASSUME IndInv, PacedInv, NEW t \in stores, StoreSet(t)
    PROVE  PacedInv'
<1> PICK j \in Key : j = t.key
  BY DEF IndInv, TypeOK
<1>1. /\ sets' = [sets EXCEPT ![j] = t.set] /\ stores' = stores \ {t} /\ UNCHANGED <<produces, log, sent>>
      /\ sets \in [Key -> MessageSet \cup {NoSet}]
  BY DEF StoreSet, IndInv, TypeOK
<1>2. \A k \in Key : Logged(k)' = Logged(k)
  BY <1>1 DEF Logged
<1>3. ASSUME NEW k \in Key, k # j PROVE KeyPaced(k)'
  <2>1. KeyPaced(k) /\ sets'[k] = sets[k]
    BY <1>1, <1>3 DEF PacedInv
  <2> QED BY <1>1, <1>2, <1>3, <2>1, Elsewhere
<1>4. KeyPaced(j)'
  <2>1. KeyPaced(j) /\ LastSet(j)' = LastSet(j) /\ Logged(j)' = Logged(j)
    BY <1>2, LastSame DEF PacedInv
  <2>2. \A s : Settled(j, s) => Settled(j, s)'
    BY StoreSettles
  <2>3. AllArrived(j)'
    <3>1. Arrived(j)' = Arrived(j)
      BY <1>1 DEF Arrived
    <3> QED BY <2>1, <3>1 DEF KeyPaced, AllArrived
  <2>4. ASSUME NEW g \in produces, g.key = j PROVE Phase(j, g)'
    <3>1. Phase(j, g) /\ g.pc # "header" /\ Message(g)' = Message(g)
      BY <2>1, <2>4 DEF KeyPaced, Phase, Message
    <3> QED BY <1>1, <2>1, <2>2, <3>1 DEF Phase
  <2>5. (\A g \in produces : g.key # j) => Settled(j, LastSet(j))'
    <3> SUFFICES ASSUME \A g \in produces : g.key # j PROVE Settled(j, LastSet(j))'
      OBVIOUS
    <3>1. PICK s : s = LastSet(j)
      OBVIOUS
    <3>2. Settled(j, s)'
      BY <2>1, <2>2, <3>1 DEF KeyPaced
    <3> QED BY <2>1, <3>1, <3>2 DEF Settled
  <2> QED BY <1>1, <2>1, <2>3, <2>4, <2>5 DEF KeyPaced
<1> QED BY <1>3, <1>4 DEF PacedInv

\* The message is in the log: its goroutine is done, or thinks it is not.
LEMMA HandoverPaced ==
    ASSUME IndInv, PacedInv, NEW g \in produces, Send(g) \/ SendUnanswered(g)
    PROVE  PacedInv'
<1> PICK j \in Key : j = g.key
  BY DEF IndInv, TypeOK
<1>1. PICK h : h = [g EXCEPT !.pc = "retry"]
  OBVIOUS
<1>2. /\ g.pc \in {"send", "retry"} /\ log' = Appended(g)
      /\ UNCHANGED <<sets, stores, sent>>
      /\ \/ produces' = produces \ {g}
         \/ produces' = (produces \ {g}) \cup {h}
  BY <1>1 DEF Send, SendUnanswered
<1>3. /\ h.key = j /\ h.pc = "retry" /\ h.set = g.set /\ h.seq = g.seq /\ h.target = g.target
      /\ Message(h) = Message(g)
  BY <1>1 DEF IndInv, TypeOK, Message
<1>4. /\ \A k \in Key \ {j} : Logged(k)' = Logged(k)
      /\ \A q \in Partition : \A i \in DOMAIN log[q] : i \in DOMAIN log'[q] /\ log'[q][i] = log[q][i]
      /\ \E i \in DOMAIN log'[g.target] : log'[g.target][i] = Message(g)
  BY <1>2, LoggedAfter
<1>5. ASSUME NEW k \in Key, k # j PROVE KeyPaced(k)'
  <2>1. KeyPaced(k) /\ Logged(k)' = Logged(k)
    BY <1>4, <1>5 DEF PacedInv
  <2>2. \A f : f.key = k => (f \in produces' <=> f \in produces)
    BY <1>2, <1>3, <1>5
  <2>3. \A f \in produces : f.target \in Partition
    BY DEF IndInv, TypeOK
  <2> QED BY <1>2, <1>4, <2>1, <2>2, <2>3, Elsewhere
<1>6. KeyPaced(j)'
  <2>1. KeyPaced(j) /\ Phase(j, g) /\ sent[j] \in Nat
    BY DEF PacedInv, KeyPaced, IndInv, TypeOK
  <2>2. Settled(j, g.set)'
    BY <1>2, <2>1 DEF Phase, Settled
  <2>3. \A f \in produces' : f.key = j => f = h
    BY <1>2, <2>1 DEF KeyPaced
  <2>4. Arrived(j)' = sent[j]
    BY <1>2, <1>3, <2>3 DEF Arrived
  <2>5. AllArrived(j)' /\ LastSet(j)' = g.set
    <3>1. CASE g.pc = "send"
      <4>1. Message(g).seq = sent[j]
        BY <2>1 DEF Phase, Message
      <4> QED BY <1>2, <2>1, <2>4, <3>1, <4>1, Arrives DEF AllArrived
    <3>2. CASE g.pc = "retry"
      <4>1. Logged(j)' = Logged(j) /\ LastSet(j) = g.set
        BY <1>2, <2>1, <3>2, ArrivesAgain
      <4>2. LastSet(j)' = g.set
        BY <4>1, LastSame
      <4>3. Arrived(j) = sent[j]
        BY <2>1, <3>2 DEF Arrived, KeyPaced
      <4> QED BY <2>1, <2>4, <4>1, <4>2, <4>3 DEF AllArrived, KeyPaced
    <3> QED BY <1>2, <3>1, <3>2
  <2>6. Phase(j, h)'
    <3>1. Message(h)' = Message(g)
      BY <1>3 DEF Message
    <3> QED BY <1>2, <1>3, <1>4, <2>1, <2>2, <3>1 DEF Phase
  <2>7. Settled(j, LastSet(j))'
    BY <2>2, <2>5 DEF Settled
  <2> QED BY <2>3, <2>5, <2>6, <2>7 DEF KeyPaced
<1> QED BY <1>5, <1>6 DEF PacedInv

LEMMA PacedFirst == IndInv /\ Init => PacedInv
<1> SUFFICES ASSUME IndInv, Init, NEW k \in Key PROVE KeyPaced(k)
  BY DEF PacedInv
<1>1. produces = {} /\ stores = {} /\ sets[k] = NoSet /\ sent[k] = 0 /\ \A p \in Partition : log[p] = <<>>
  BY DEF Init
<1>2. Logged(k) = {}
  <2>1. \A m : m \notin Logged(k)
    BY <1>1, LoggedAre
  <2> QED BY <2>1
<1>3. Cardinality(Logged(k)) = 0 /\ IsFiniteSet(Logged(k))
  BY <1>2, FS_EmptySet
<1> QED BY <1>1, <1>2, <1>3 DEF KeyPaced, AllArrived, Arrived, Settled, LastSet

LEMMA PacedStep ==
    ASSUME Paced
    PROVE  IndInv /\ PacedInv /\ Undisturbed /\ Undisturbed' /\ [Next]_vars => PacedInv'
<1> SUFFICES ASSUME IndInv, PacedInv, Undisturbed, Undisturbed', [Next]_vars PROVE PacedInv'
  OBVIOUS
<1>1. CASE Reroute \/ UNCHANGED vars
  <2>1. UNCHANGED <<sets, produces, stores, log, sent>>
    BY <1>1 DEF Reroute, vars
  <2>2. \A k \in Key : Logged(k)' = Logged(k)
    BY <2>1 DEF Logged
  <2> QED BY <2>1, <2>2, Elsewhere DEF PacedInv
<1>2. ~(\E g \in produces : Lose(g)) /\ ~Restart
  <2>1. \A g : ~Lose(g)
    BY DEF Undisturbed, Lose
  <2> QED BY <2>1 DEF Undisturbed, Restart
<1>3. ~vanilla
  BY DEF Undisturbed
<1> QED BY <1>1, <1>2, <1>3, NewMessagePaced, HeaderPaced, StoreSetPaced, HandoverPaced DEF Next

-----------------------------------------------------------------------------
(* Sending refines the message set stream.                                 *)

LEMMA HandoverIsSend ==
    ASSUME IndInv, PacedInv, NEW g \in produces, g.pc = "send", log' = Appended(g)
    PROVE  MS!Next
<1> PICK j \in Key : j = g.key
  BY DEF IndInv, TypeOK
<1>1. KeyPaced(j) /\ Phase(j, g)
  BY DEF PacedInv, KeyPaced
<1>2. PICK p \in Partition : g.set = MsgsetHdrVal(LastSet(j), p) /\ g.target = SendTo(LastSet(j), p)
  BY <1>1 DEF Phase
<1>3. /\ g.seq = Cardinality(Logged(j)) + 1 /\ Cardinality(Logged(j)') = Cardinality(Logged(j)) + 1
      /\ LastSet(j)' = g.set
  BY <1>1, Arrives DEF Phase
<1>4. \A k \in Key : k # j => LastSet(k)' = LastSet(k) /\ Logged(k)' = Logged(k)
  BY LoggedAfter, LastSame
<1>5. [k \in Key |-> LastSet(k)]' = [[k \in Key |-> LastSet(k)] EXCEPT ![j] = g.set]
  BY <1>3, <1>4
<1>6. [k \in Key |-> Cardinality(Logged(k))]' = [[k \in Key |-> Cardinality(Logged(k))] EXCEPT ![j] = @ + 1]
  BY <1>3, <1>4
<1>7. log' = [log EXCEPT ![g.target] = Append(@, [key |-> j, seq |-> Cardinality(Logged(j)) + 1, set |-> g.set])]
  BY <1>3 DEF Appended, Message
<1>8. MS!Send(j, p)
  BY <1>2, <1>5, <1>6, <1>7 DEF MS!Send, MS!MsgsetHdrVal, MsgsetHdrVal, MS!SendTo, SendTo, MS!FirstSet, FirstSet,
        MS!SetAfter, SetAfter, MS!PartitionChanged, PartitionChanged
<1> QED BY <1>8 DEF MS!Next

LEMMA HandoverIsRepeat ==
    ASSUME IndInv, PacedInv, NEW g \in produces, g.pc = "retry", log' = Appended(g)
    PROVE  MS!Next
<1> PICK j \in Key : j = g.key
  BY DEF IndInv, TypeOK
<1>1. KeyPaced(j) /\ Phase(j, g)
  BY DEF PacedInv, KeyPaced
<1>2. g.seq = Cardinality(Logged(j)) /\ Logged(j)' = Logged(j)
  BY <1>1, ArrivesAgain
<1>3. \A k \in Key : LastSet(k)' = LastSet(k) /\ Logged(k)' = Logged(k)
  BY <1>2, LoggedAfter, LastSame
<1>4. UNCHANGED <<[k \in Key |-> LastSet(k)], [k \in Key |-> Cardinality(Logged(k))]>>
  BY <1>3
<1>5. PICK i \in DOMAIN log[g.target] : log[g.target][i] = Message(g)
  BY <1>1 DEF Phase
<1>6. g.target \in Partition /\ log[g.target][i].key = j /\ log[g.target][i].seq = Cardinality(Logged(j))
  BY <1>2, <1>5 DEF IndInv, TypeOK, Message
<1>7. log' = [log EXCEPT ![g.target] = Append(@, log[g.target][i])]
  BY <1>5 DEF Appended
<1>8. MS!Repeat(j)
  BY <1>4, <1>6, <1>7 DEF MS!Repeat
<1> QED BY <1>8 DEF MS!Next

LEMMA StepRefines ==
    IndInv /\ PacedInv /\ [Next]_vars
        => [MS!Next]_<<log, [k \in Key |-> LastSet(k)], [k \in Key |-> Cardinality(Logged(k))]>>
<1> SUFFICES ASSUME IndInv, PacedInv, [Next]_vars
             PROVE  MS!Next \/ UNCHANGED <<log, [k \in Key |-> LastSet(k)], [k \in Key |-> Cardinality(Logged(k))]>>
  OBVIOUS
<1>1. CASE log' = log
  <2>1. \A k \in Key : Logged(k)' = Logged(k)
    BY <1>1 DEF Logged
  <2>2. \A k \in Key : LastSet(k)' = LastSet(k)
    BY <2>1, LastSame
  <2> QED BY <1>1, <2>1, <2>2
<1>2. CASE \E g \in produces : Send(g) \/ SendUnanswered(g)
  <2>1. PICK g \in produces : g.pc \in {"send", "retry"} /\ log' = Appended(g)
    BY <1>2 DEF Send, SendUnanswered
  <2> QED BY <2>1, HandoverIsSend, HandoverIsRepeat
<1>3. log' = log \/ \E g \in produces : Send(g) \/ SendUnanswered(g)
  BY DEF Next, Reroute, NewMessage, Header, Lose, StoreSet, Restart, vars
<1> QED BY <1>1, <1>2, <1>3

LEMMA InitRefines == Init => MS!Init
<1> SUFFICES ASSUME Init PROVE MS!Init
  OBVIOUS
<1>1. \A k \in Key : Logged(k) = {}
  <2>1. \A k \in Key : \A m : m \notin Logged(k)
    BY LoggedAre DEF Init
  <2> QED BY <2>1
<1>2. \A k \in Key : LastSet(k) = NoSet /\ Cardinality(Logged(k)) = 0
  BY <1>1, FS_EmptySet DEF LastSet
<1> QED BY <1>2 DEF Init, MS!Init

\* The stream's invariant, of the log and what it says of each key.
SP == INSTANCE MessageSetStreamProofs
      WITH last <- [k \in Key |-> LastSet(k)], sent <- [k \in Key |-> Cardinality(Logged(k))]

LEMMA StreamSame == (MS!Init => SP!Init) /\ (MS!Next => SP!Next)
BY DEF MS!Init, SP!Init, MS!Next, SP!Next, MS!Send, SP!Send, MS!Repeat, SP!Repeat,
       MS!MsgsetHdrVal, SP!MsgsetHdrVal, MS!SendTo, SP!SendTo, MS!FirstSet, SP!FirstSet,
       MS!SetAfter, SP!SetAfter, MS!PartitionChanged, SP!PartitionChanged

LEMMA StreamFirst == Init => SP!StreamInv
BY InitRefines, StreamSame, SP!InitKeeps, PartitionAssumption, NoSetAssumption DEF MessageSet, SP!MessageSet

LEMMA StreamStep ==
    IndInv /\ PacedInv /\ [Next]_vars /\ SP!StreamInv => SP!StreamInv'
BY StepRefines, StreamSame, SP!StepKeeps, PartitionAssumption, NoSetAssumption DEF MessageSet, SP!MessageSet

-----------------------------------------------------------------------------
(* Every accepted message is somewhere.                                    *)

\* A step that only moves messages on.
LEMMA MovedOn ==
    ASSUME NothingVanishes, UNCHANGED <<sent, before>>, lost \subseteq lost',
           \A k \in Key : Logged(k) \subseteq Logged(k)',
           \A g \in produces : \E m \in produces' \cup Logged(g.key)' \cup lost' : m.key = g.key /\ m.seq = g.seq
    PROVE  NothingVanishes'
<1> SUFFICES ASSUME NEW k \in Key, NEW n \in 1 .. sent[k], ~(n <= before[k])
             PROVE  \E m \in produces' \cup Logged(k)' \cup lost' : m.key = k /\ m.seq = n
  BY DEF NothingVanishes
<1>1. PICK m \in produces \cup Logged(k) \cup lost : m.key = k /\ m.seq = n
  BY DEF NothingVanishes
<1> QED BY <1>1

\* The goroutine a request starts, and what Header makes of one.
LEMMA Starts ==
    ASSUME NEW k \in Key, NewMessage(k)
    PROVE  \E g : produces' = produces \cup {g} /\ g.key = k /\ g.seq = sent[k] + 1 /\ g.pc = "header"
<1> DEFINE p == IF vanilla \/ route[k] = None THEN HashOf[k] ELSE route[k]
           g == [key |-> k, seq |-> sent[k] + 1, pc |-> "header", target |-> p, set |-> NoSet]
<1>1. produces' = produces \cup {g}
  BY DEF NewMessage
<1>2. g.key = k /\ g.seq = sent[k] + 1 /\ g.pc = "header"
  OBVIOUS
<1> HIDE DEF g
<1> QED BY <1>1, <1>2

LEMMA GoesOn ==
    ASSUME IndInv, NEW g \in produces, Header(g)
    PROVE  \E h : produces' = (produces \ {g}) \cup {h} /\ h.key = g.key /\ h.seq = g.seq /\ h.pc = "send"
<1>1. PICK to, set : produces' = (produces \ {g}) \cup {[g EXCEPT !.pc = "send", !.target = to, !.set = set]}
  BY DEF Header
<1> DEFINE h == [g EXCEPT !.pc = "send", !.target = to, !.set = set]
<1>2. g \in Produced
  BY DEF IndInv, TypeOK, Produced
<1>3. produces' = (produces \ {g}) \cup {h}
  BY <1>1
<1>4. h.key = g.key /\ h.seq = g.seq /\ h.pc = "send"
  BY <1>2 DEF Produced
<1> HIDE DEF h
<1> QED BY <1>3, <1>4

\* Messages are numbered as they are accepted.
LEMMA SeqStep == IndInv /\ SeqInv /\ [Next]_vars => SeqInv'
<1> SUFFICES ASSUME IndInv, SeqInv, [Next]_vars PROVE SeqInv'
  OBVIOUS
<1>0. /\ produces \subseteq Produced /\ lost \subseteq Logging
      /\ sent \in [Key -> Nat] /\ before \in [Key -> Nat]
      /\ \A k \in Key : \A m \in Logged(k) : m.seq \in Nat
  BY LoggedType DEF IndInv, TypeOK, Produced, Logging
<1>1. ASSUME NEW k \in Key, NewMessage(k) PROVE SeqInv'
  <2>1. PICK g : produces' = produces \cup {g} /\ g.key = k /\ g.seq = sent[k] + 1
    BY <1>1, Starts
  <2>2. sent' = [sent EXCEPT ![k] = @ + 1] /\ UNCHANGED <<log, lost, before>>
    BY <1>1 DEF NewMessage
  <2>3. \A j \in Key : sent'[j] \in Nat /\ sent[j] <= sent'[j] /\ Logged(j)' = Logged(j)
    BY <1>0, <2>2 DEF Logged
  <2>4. \A f \in produces' : before'[f.key] < f.seq /\ f.seq <= sent'[f.key]
    BY <1>0, <2>1, <2>2, <2>3 DEF SeqInv, Produced
  <2>5. \A j \in Key : \A m \in Logged(j)' : m.seq <= sent'[j]
    BY <1>0, <2>3 DEF SeqInv
  <2>6. \A m \in lost' : m.seq <= sent'[m.key]
    BY <1>0, <2>2, <2>3 DEF SeqInv, Logging
  <2>7. \A j \in Key : before'[j] <= sent'[j]
    BY <1>0, <2>2, <2>3 DEF SeqInv
  <2> QED BY <2>4, <2>5, <2>6, <2>7 DEF SeqInv
<1>2. ASSUME NEW g \in produces, Header(g) PROVE SeqInv'
  <2>1. PICK h : produces' = (produces \ {g}) \cup {h} /\ h.key = g.key /\ h.seq = g.seq
    BY <1>2, GoesOn
  <2>2. UNCHANGED <<log, lost, before, sent>> /\ \A k \in Key : Logged(k)' = Logged(k)
    BY <1>2 DEF Header, Logged
  <2> QED BY <2>1, <2>2 DEF SeqInv
<1>3. ASSUME NEW g \in produces, Send(g) \/ SendUnanswered(g) PROVE SeqInv'
  <2>1. PICK h : h = [g EXCEPT !.pc = "retry"]
    OBVIOUS
  <2>2. /\ log' = Appended(g) /\ UNCHANGED <<sent, lost, before>>
        /\ produces' \subseteq (produces \ {g}) \cup {h} /\ h.key = g.key /\ h.seq = g.seq
    BY <1>0, <1>3, <2>1 DEF Send, SendUnanswered, Produced
  <2>3. \A k \in Key : Logged(k)' = IF k = g.key THEN Logged(k) \cup {Message(g)} ELSE Logged(k)
    BY <2>2, LoggedAfter
  <2>4. g.key \in Key /\ Message(g).seq = g.seq
    BY <1>0 DEF Produced, Message
  <2> QED BY <2>2, <2>3, <2>4 DEF SeqInv
<1>4. ASSUME NEW g \in produces, Lose(g) PROVE SeqInv'
  <2>1. /\ produces' \subseteq produces /\ lost' = lost \cup {Message(g)}
        /\ UNCHANGED <<sent, log, before>> /\ \A k \in Key : Logged(k)' = Logged(k)
    BY <1>4 DEF Lose, Logged
  <2>2. Message(g).key = g.key /\ Message(g).seq = g.seq
    BY DEF Message
  <2> QED BY <2>1, <2>2 DEF SeqInv
<1>5. ASSUME Restart PROVE SeqInv'
  <2>1. produces' = {} /\ before' = sent /\ UNCHANGED <<sent, log, lost>> /\ \A k \in Key : Logged(k)' = Logged(k)
    BY <1>5 DEF Restart, Logged
  <2> QED BY <1>0, <2>1 DEF SeqInv
<1>6. ASSUME Reroute \/ (\E t \in stores : StoreSet(t)) \/ UNCHANGED vars PROVE SeqInv'
  <2>1. UNCHANGED <<produces, log, sent, lost, before>> /\ \A k \in Key : Logged(k)' = Logged(k)
    BY <1>6 DEF Reroute, StoreSet, vars, Logged
  <2> QED BY <2>1 DEF SeqInv
<1> QED BY <1>1, <1>2, <1>3, <1>4, <1>5, <1>6 DEF Next

LEMMA SeqFirst == Init => SeqInv
<1> SUFFICES ASSUME Init PROVE SeqInv
  OBVIOUS
<1>1. \A k \in Key : \A m : m \notin Logged(k)
  BY LoggedAre DEF Init
<1> QED BY <1>1 DEF Init, SeqInv

LEMMA VanishesStep == IndInv /\ NothingVanishes /\ [Next]_vars => NothingVanishes'
<1> SUFFICES ASSUME IndInv, NothingVanishes, [Next]_vars PROVE NothingVanishes'
  OBVIOUS
<1>0. produces \subseteq Produced
  BY DEF IndInv, TypeOK, Produced
<1>1. ASSUME log' = log PROVE \A k \in Key : Logged(k) = Logged(k)'
  BY <1>1 DEF Logged
<1>2. ASSUME NEW k \in Key, NewMessage(k) PROVE NothingVanishes'
  <2>1. PICK g \in produces' : produces \subseteq produces' /\ g.key = k /\ g.seq = sent[k] + 1
    BY <1>2, Starts
  <2>2. /\ sent \in [Key -> Nat] /\ sent' = [sent EXCEPT ![k] = @ + 1]
        /\ UNCHANGED <<log, lost, before>>
    BY <1>2 DEF NewMessage, IndInv, TypeOK
  <2> SUFFICES ASSUME NEW j \in Key, NEW n \in 1 .. sent'[j], ~(n <= before'[j])
               PROVE  \E m \in produces' \cup Logged(j)' \cup lost' : m.key = j /\ m.seq = n
    BY DEF NothingVanishes
  <2>3. CASE n \in 1 .. sent[j]
    <3>1. PICK m \in produces \cup Logged(j) \cup lost : m.key = j /\ m.seq = n
      BY <2>2, <2>3 DEF NothingVanishes
    <3> QED BY <1>1, <2>1, <2>2, <3>1
  <2>4. CASE n \notin 1 .. sent[j]
    <3>1. j = k /\ n = sent[k] + 1
      BY <2>2, <2>4
    <3> QED BY <2>1, <3>1
  <2> QED BY <2>3, <2>4
<1>3. ASSUME NEW g \in produces, Header(g) PROVE NothingVanishes'
  <2>1. PICK h \in produces' : h.key = g.key /\ h.seq = g.seq /\ produces \ {g} \subseteq produces'
    BY <1>3, GoesOn
  <2>2. UNCHANGED <<sent, log, lost, before>>
    BY <1>3 DEF Header
  <2> QED BY <1>1, <2>1, <2>2, MovedOn
<1>4. ASSUME NEW g \in produces, Send(g) \/ SendUnanswered(g) PROVE NothingVanishes'
  <2>1. log' = Appended(g) /\ produces \ {g} \subseteq produces' /\ UNCHANGED <<sent, lost, before>>
    BY <1>4 DEF Send, SendUnanswered
  <2>2. \A k \in Key : Logged(k)' = IF k = g.key THEN Logged(k) \cup {Message(g)} ELSE Logged(k)
    BY <2>1, LoggedAfter
  <2>3. g.key \in Key /\ Message(g).key = g.key /\ Message(g).seq = g.seq
    BY <1>0 DEF Produced, Message
  <2> QED BY <2>1, <2>2, <2>3, MovedOn
<1>5. ASSUME NEW g \in produces, Lose(g) PROVE NothingVanishes'
  <2>1. lost' = lost \cup {Message(g)} /\ produces' = produces \ {g} /\ UNCHANGED <<sent, log, before>>
    BY <1>5 DEF Lose
  <2>2. Message(g).key = g.key /\ Message(g).seq = g.seq
    BY DEF Message
  <2> QED BY <1>1, <2>1, <2>2, MovedOn
<1>6. ASSUME Restart PROVE NothingVanishes'
  <2>1. before' = sent' /\ sent' \in [Key -> Nat]
    BY <1>6 DEF Restart, IndInv, TypeOK
  <2> QED BY <2>1 DEF NothingVanishes
<1>7. ASSUME Reroute \/ (\E s \in stores : StoreSet(s)) \/ UNCHANGED vars PROVE NothingVanishes'
  <2>1. UNCHANGED <<produces, log, sent, lost, before>>
    BY <1>7 DEF Reroute, StoreSet, vars
  <2> QED BY <1>1, <2>1, MovedOn
<1> QED BY <1>2, <1>3, <1>4, <1>5, <1>6, <1>7 DEF Next

-----------------------------------------------------------------------------
(* No message is made twice.                                               *)

Same(m, n) == m.key = n.key /\ m.seq = n.seq

\* A message is one goroutine's.  It is not in the log before that goroutine has
\* sent it, and then has the goroutine's set.
OnceInv ==
    /\ \A g \in produces : g.seq <= sent[g.key]
    /\ \A p \in Partition : \A j \in DOMAIN log[p] : log[p][j].seq <= sent[log[p][j].key]
    /\ \A g, h \in produces : Same(g, h) => g = h
    /\ \A g \in produces : \A p \in Partition : \A j \in DOMAIN log[p] :
          Same(g, log[p][j]) => g.pc = "retry" /\ g.set = log[p][j].set
    /\ repeats = 0 => \A g \in produces : g.pc # "retry"
    /\ SentOnce

\* What is in the log was there, or is the message appended.
LEMMA AppendedWhere ==
    ASSUME IndInv, NEW g \in produces, log' = Appended(g), NEW q \in Partition, NEW j \in DOMAIN log'[q]
    PROVE  \/ j \in DOMAIN log[q] /\ log'[q][j] = log[q][j]
           \/ q = g.target /\ j = Len(log[q]) + 1 /\ log'[q][j] = Message(g)
<1>1. PICK m, p : m = Message(g) /\ p = g.target
  OBVIOUS
<1>2. log \in [Partition -> Seq(Logging)] /\ m \in Logging /\ p \in Partition
  BY <1>1, MessageType DEF IndInv, TypeOK, Logging, Produced
<1>3. log'[q] = IF q = p THEN Append(log[q], m) ELSE log[q]
  BY <1>1, <1>2 DEF Appended
<1>4. PICK s \in Seq(Logging) : s = log[q]
  BY <1>2
<1>5. CASE q = p
  <2>1. log'[q] = Append(s, m)
    BY <1>3, <1>4, <1>5
  <2>2. (j \in DOMAIN s /\ Append(s, m)[j] = s[j]) \/ (j = Len(s) + 1 /\ Append(s, m)[j] = m)
    BY <1>2, <2>1
  <2> QED BY <1>1, <1>4, <1>5, <2>1, <2>2
<1>6. CASE q # p
  BY <1>3, <1>6
<1> QED BY <1>5, <1>6

LEMMA OnceKept ==
    ASSUME OnceInv, produces' \subseteq produces, UNCHANGED <<log, sent, repeats>>
    PROVE  OnceInv'
BY DEF OnceInv, SentOnce

LEMMA OnceNewMessage ==
    ASSUME IndInv, OnceInv, NEW k \in Key, NewMessage(k)
    PROVE  OnceInv'
<1>1. PICK g : produces' = produces \cup {g} /\ g.key = k /\ g.seq = sent[k] + 1 /\ g.pc = "header"
  BY Starts
<1>2. /\ sent \in [Key -> Nat] /\ sent' = [sent EXCEPT ![k] = @ + 1]
      /\ UNCHANGED <<log, repeats>>
  BY DEF NewMessage, bounds, IndInv, TypeOK
<1>3. /\ \A h \in produces : h.key \in Key /\ h.seq \in Nat
      /\ \A p \in Partition : \A j \in DOMAIN log[p] : log[p][j].key \in Key /\ log[p][j].seq \in Nat
  <2>1. produces \subseteq Produced /\ log \in [Partition -> Seq(Logging)]
    BY DEF IndInv, TypeOK, Produced, Logging
  <2>2. \A p \in Partition : \A j \in DOMAIN log[p] : log[p][j] \in Logging
    BY <2>1
  <2> QED BY <2>1, <2>2 DEF Produced, Logging
<1>4. \A h \in produces : h.seq <= sent[h.key]
  BY DEF OnceInv
<1>5. \A p \in Partition : \A j \in DOMAIN log[p] : log[p][j].seq <= sent[log[p][j].key]
  BY DEF OnceInv
<1>6. /\ \A h \in produces : ~Same(g, h) /\ ~Same(h, g)
      /\ \A p \in Partition : \A j \in DOMAIN log[p] : ~Same(g, log[p][j])
  BY <1>1, <1>2, <1>3, <1>4, <1>5 DEF Same
<1>7. \A h \in produces' : h.seq <= sent'[h.key]
  BY <1>1, <1>2, <1>3, <1>4
<1>8. \A p \in Partition : \A j \in DOMAIN log'[p] : log'[p][j].seq <= sent'[log'[p][j].key]
  BY <1>2, <1>3, <1>5
<1>9. SentOnce'
  BY <1>2 DEF OnceInv, SentOnce
<1>10. \A h, f \in produces' : Same(h, f) => h = f
  BY <1>1, <1>6 DEF OnceInv
<1>11. \A h \in produces' : \A p \in Partition : \A j \in DOMAIN log'[p] :
          Same(h, log'[p][j]) => h.pc = "retry" /\ h.set = log'[p][j].set
  BY <1>1, <1>2, <1>6 DEF OnceInv
<1>12. repeats' = 0 => \A h \in produces' : h.pc # "retry"
  BY <1>1, <1>2 DEF OnceInv
<1> QED BY <1>7, <1>8, <1>9, <1>10, <1>11, <1>12 DEF OnceInv, Same

LEMMA OnceHeader ==
    ASSUME IndInv, OnceInv, NEW g \in produces, Header(g)
    PROVE  OnceInv'
<1>1. PICK h : produces' = (produces \ {g}) \cup {h} /\ h.key = g.key /\ h.seq = g.seq /\ h.pc = "send"
  BY GoesOn
<1>2. g.pc = "header" /\ UNCHANGED <<log, sent, repeats>>
  BY DEF Header, bounds
<1>3. \A p \in Partition : \A j \in DOMAIN log[p] : ~Same(h, log[p][j])
  BY <1>1, <1>2 DEF OnceInv, Same
<1>4. SentOnce'
  BY <1>2 DEF OnceInv, SentOnce
<1>5. \A e, f \in produces' : Same(e, f) => e = f
  BY <1>1 DEF OnceInv, Same
<1>6. \A f \in produces' : f.seq <= sent'[f.key] /\ (repeats' = 0 => f.pc # "retry")
  BY <1>1, <1>2 DEF OnceInv
<1>7. \A f \in produces' : \A p \in Partition : \A j \in DOMAIN log'[p] :
          Same(f, log'[p][j]) => f.pc = "retry" /\ f.set = log'[p][j].set
  BY <1>1, <1>2, <1>3 DEF OnceInv
<1>8. \A p \in Partition : \A j \in DOMAIN log'[p] : log'[p][j].seq <= sent'[log'[p][j].key]
  BY <1>2 DEF OnceInv
<1> QED BY <1>4, <1>5, <1>6, <1>7, <1>8 DEF OnceInv, Same

\* The appended message is new to the log, or there with the same set.
LEMMA OnceHandover ==
    ASSUME IndInv, OnceInv, NEW g \in produces, Send(g) \/ SendUnanswered(g)
    PROVE  OnceInv'
<1> DEFINE h == [g EXCEPT !.pc = "retry"]
           m == Message(g)
<1>0. g \in Produced /\ g.key \in Key /\ repeats \in Nat
  BY DEF IndInv, TypeOK, Produced, bounds
<1>1. /\ log' = Appended(g) /\ UNCHANGED sent /\ repeats' \in {repeats, repeats + 1}
      /\ produces' \subseteq (produces \ {g}) \cup {h}
      /\ h \in produces' => repeats' = repeats + 1 \/ h \in produces \ {g}
  BY DEF Send, SendUnanswered, bounds
<1>2. /\ h.key = g.key /\ h.seq = g.seq /\ h.pc = "retry" /\ h.set = g.set
      /\ m.key = g.key /\ m.seq = g.seq /\ m.set = g.set
  BY <1>0 DEF Produced, Message
<1> HIDE DEF h, m
<1>3. ASSUME NEW q \in Partition, NEW j \in DOMAIN log'[q]
      PROVE  \/ j \in DOMAIN log[q] /\ log'[q][j] = log[q][j]
             \/ q = g.target /\ j = Len(log[q]) + 1 /\ log'[q][j] = m
  BY <1>1, <1>3, AppendedWhere DEF m
<1>4. ASSUME NEW q \in Partition, NEW j \in DOMAIN log[q], Same(m, log[q][j])
      PROVE  g.pc = "retry" /\ log[q][j].set = m.set /\ repeats # 0
  BY <1>2, <1>4 DEF OnceInv, Same
<1>5. \A q \in Partition : \A j \in DOMAIN log'[q] : log'[q][j].seq <= sent'[log'[q][j].key]
  BY <1>1, <1>2, <1>3 DEF OnceInv
<1>6. repeats' = 0 => repeats = 0 /\ \A f \in produces' : f.pc # "retry"
  BY <1>0, <1>1, <1>2 DEF OnceInv
<1>7. SentOnce'
  <2> SUFFICES ASSUME NEW p \in Partition, NEW q \in Partition,
                      NEW a \in DOMAIN log'[p], NEW b \in DOMAIN log'[q], Same(log'[p][a], log'[q][b])
               PROVE  /\ log'[p][a].set = log'[q][b].set
                      /\ repeats' = 0 => p = q /\ a = b
    BY DEF SentOnce, Same
  <2>1. CASE a \in DOMAIN log[p] /\ log'[p][a] = log[p][a] /\ b \in DOMAIN log[q] /\ log'[q][b] = log[q][b]
    BY <2>1, <1>6 DEF OnceInv, SentOnce, Same
  <2>2. CASE log'[p][a] = m /\ b \in DOMAIN log[q] /\ log'[q][b] = log[q][b]
    BY <2>2, <1>4, <1>6
  <2>3. CASE log'[q][b] = m /\ a \in DOMAIN log[p] /\ log'[p][a] = log[p][a]
    <3>1. Same(m, log[p][a])
      BY <2>3 DEF Same
    <3> QED BY <2>3, <3>1, <1>4, <1>6
  <2>4. CASE p = g.target /\ a = Len(log[p]) + 1 /\ q = g.target /\ b = Len(log[q]) + 1
             /\ log'[p][a] = m /\ log'[q][b] = m
    BY <2>4
  <2> QED BY <1>3, <2>1, <2>2, <2>3, <2>4
<1>8. \A e, f \in produces' : Same(e, f) => e = f
  BY <1>1, <1>2 DEF OnceInv, Same
<1>9. \A f \in produces' : f.seq <= sent'[f.key]
  BY <1>1, <1>2 DEF OnceInv
<1>10. ASSUME NEW f \in produces', NEW q \in Partition, NEW j \in DOMAIN log'[q], Same(f, log'[q][j])
       PROVE  f.pc = "retry" /\ f.set = log'[q][j].set
  <2>1. CASE f \in produces \ {g}
    <3>1. ~Same(f, m)
      BY <2>1, <1>2 DEF OnceInv, Same
    <3>2. j \in DOMAIN log[q] /\ log'[q][j] = log[q][j]
      BY <3>1, <1>3, <1>10
    <3> QED BY <2>1, <3>2, <1>10 DEF OnceInv
  <2>2. CASE f = h
    <3>1. CASE log'[q][j] = m
      BY <1>2, <2>2, <3>1
    <3>2. CASE j \in DOMAIN log[q] /\ log'[q][j] = log[q][j]
      <4>1. Same(m, log[q][j])
        BY <1>2, <1>10, <2>2, <3>2 DEF Same
      <4> QED BY <1>2, <1>4, <2>2, <3>2, <4>1
    <3> QED BY <1>3, <3>1, <3>2
  <2> QED BY <1>1, <2>1, <2>2
<1> QED BY <1>5, <1>6, <1>7, <1>8, <1>9, <1>10 DEF OnceInv, Same

LEMMA OnceStep == IndInv /\ OnceInv /\ [Next]_vars => OnceInv'
<1> SUFFICES ASSUME IndInv, OnceInv, [Next]_vars PROVE OnceInv'
  OBVIOUS
<1>1. ASSUME Reroute \/ (\E g \in produces : Lose(g)) \/ (\E s \in stores : StoreSet(s)) \/ Restart \/ UNCHANGED vars
      PROVE  OnceInv'
  <2>1. produces' \subseteq produces /\ UNCHANGED <<log, sent, repeats>>
    BY <1>1 DEF Reroute, Lose, StoreSet, Restart, vars, bounds
  <2> QED BY <2>1, OnceKept
<1> QED BY <1>1, OnceNewMessage, OnceHeader, OnceHandover DEF Next

-----------------------------------------------------------------------------
(* The theorems.                                                           *)

\* Type correctness.
THEOREM TypeCorrect == Spec => []TypeOK
<1>1. IndInv => TypeOK
  BY DEF IndInv
<1> QED BY <1>1, Inductive, PTL

\* Requests of a key may overtake each other between reading and storing its
\* set, and yet every set links two different partitions with consecutive
\* indices, or is the first of its key.
THEOREM WellLinkedSets == Spec => []SetsAreWellLinked
<1>1. IndInv => SetsAreWellLinked
  BY DEF IndInv, SetsInv, SetsAreWellLinked, SetsOf, Decided, Logged, Message, Good
<1> QED BY <1>1, Inductive, PTL

\* A message in the log is on the partition its header names, or on the source
\* of a set that is not the first.
THEOREM HeadersFit == Spec => []HeaderNamesPartition
<1>1. IndInv => HeaderNamesPartition
  BY DEF IndInv, SetsInv, HeaderNamesPartition, Fits
<1> QED BY <1>1, Inductive, PTL

\* Without SLOPS every message in the log is on its key's hash partition,
\* whatever the counter puts into the route table and however often the
\* process restarts.
THEOREM VanillaTheorem == Spec => []VanillaHashes
<1>1. Init => VanillaInv
  BY DEF Init, VanillaInv, VanillaHashes
<1>2. IndInv /\ VanillaInv => VanillaHashes
  BY DEF VanillaInv, VanillaHashes
<1> QED BY <1>1, <1>2, VanillaStep, Inductive, PTL DEF Spec

\* No message set continues one that was not announced: the set a stored set,
\* or a header, names as its source is in the header of some message of the
\* key and the same process, though goroutines interleave and messages are lost.
THEOREM AnnouncedTheorem == Spec => []SourceWasAnnounced
BY CarriedFirst, CarriedStep, CarriedIsAnnounced, SeqFirst, SeqStep, Inductive, PTL DEF Spec

\* A message the running process answered for is in a goroutine's hands, in the
\* log or back as an error, in every interleaving: the safety half of Delivery.
THEOREM VanishesTheorem == Spec => []NothingVanishes
<1>1. Init => NothingVanishes
  BY DEF Init, NothingVanishes
<1> QED BY <1>1, VanishesStep, Inductive, PTL DEF Spec

\* A message has one header, and is in the log once unless an answer was lost.
THEOREM OnceTheorem == Spec => []SentOnce
<1>1. Init => OnceInv
  <2> SUFFICES ASSUME Init PROVE OnceInv
    OBVIOUS
  <2>1. \A p \in Partition : DOMAIN log[p] = {}
    BY DEF Init
  <2> QED BY <2>1 DEF Init, OnceInv, SentOnce
<1>2. OnceInv => SentOnce
  BY DEF OnceInv
<1> QED BY <1>1, <1>2, OnceStep, Inductive, PTL DEF Spec

LEMMA PacedInductive ==
    ASSUME Paced
    PROVE  Spec /\ []Undisturbed => []PacedInv
BY PacedFirst, PacedStep, Inductive, PTL DEF Spec

\* When clients leave a key alone until its message is in the log, and nothing
\* is lost and the process not restarted, handler, Produce goroutine and AddKey
\* goroutine together are one atomic send: the log, the last set in it and the
\* number of messages change as MessageSetStream says, however the goroutines
\* of different keys interleave, routes change and messages are sent again.
THEOREM AtomicTheorem ==
    ASSUME Paced
    PROVE  Spec /\ []Undisturbed => SendsAtomically
BY InitRefines, StepRefines, Inductive, PacedInductive, PTL DEF Spec, SendsAtomically, MS!Spec

\* And then message sets keep what msgSet.go promises: set indices, and offsets
\* within a set, order a key's messages as they were sent.
THEOREM OrderTheorem ==
    ASSUME Paced
    PROVE  Spec /\ []Undisturbed => []TotalOrder
<1>1. SP!StreamInv => TotalOrder
  BY DEF SP!StreamInv, SP!InTotalOrder, InTotalOrder, TotalOrder, IndexOn, SP!IndexOn
<1> QED BY <1>1, StreamFirst, StreamStep, Inductive, PacedInductive, PTL DEF Spec
=============================================================================
