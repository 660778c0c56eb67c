----------------------------- MODULE MessageSet -----------------------------
(***************************************************************************)
(* Message sets (internal/msgSet.go, in the producer and again in the      *)
(* consumer) and the header the producer computes from the last set of a   *)
(* key (SLOPSProducer/cmd/producer.go, MsgsetHdrVal).  Pure definitions.   *)
(***************************************************************************)
EXTENDS Integers, Sequences, FiniteSets

CONSTANTS
    Key,        \* the keys clients use
    Partition,  \* the topic's partitions
    NoSet       \* GetKey's "no such value", and the header of a vanilla message

ASSUME PartitionAssumption == Partition \subseteq Nat

\* A consecutive run of messages of a key on DestPartition, and the run on
\* SrcPartition it follows, if any.  Its Key field is the message's key.
MessageSet ==
    [SrcPartition  : Partition \cup {-1}, SrcMsgsetIndex  : Int,
     DestPartition : Partition,           DestMsgsetIndex : Nat]

ASSUME NoSetAssumption == NoSet \notin MessageSet

\* Mutants: indices from -1; source and destination swapped.
FirstSetFromMinusOne(p) ==
    [SrcPartition  |-> -1, SrcMsgsetIndex  |-> -1,
     DestPartition |-> p,  DestMsgsetIndex |-> -1]
FirstSetSwapped(p) ==
    [SrcPartition  |-> p,  SrcMsgsetIndex  |-> 0,
     DestPartition |-> -1, DestMsgsetIndex |-> -1]

\* The first message of a key starts set 0.
FirstSet(p) ==
    [SrcPartition  |-> -1, SrcMsgsetIndex  |-> -1,
     DestPartition |-> p,  DestMsgsetIndex |-> 0]

\* Mutants: the index stays; the index of the set before last.
SetAfterSameIndex(last, p) ==
    [SrcPartition  |-> last.DestPartition, SrcMsgsetIndex  |-> last.DestMsgsetIndex,
     DestPartition |-> p,                  DestMsgsetIndex |-> last.DestMsgsetIndex]
SetAfterOldSource(last, p) ==
    [SrcPartition  |-> last.DestPartition, SrcMsgsetIndex  |-> last.SrcMsgsetIndex,
     DestPartition |-> p,                  DestMsgsetIndex |-> last.DestMsgsetIndex + 1]

\* The set that follows `last' when the key moves to p.
SetAfter(last, p) ==
    [SrcPartition  |-> last.DestPartition, SrcMsgsetIndex  |-> last.DestMsgsetIndex,
     DestPartition |-> p,                  DestMsgsetIndex |-> last.DestMsgsetIndex + 1]

\* MsgsetHdrVal: the set of a message to p when the stored set is `last' ...
MsgsetHdrVal(last, p) ==
    IF last = NoSet THEN FirstSet(p)
    ELSE IF last.DestPartition = p THEN last
    ELSE SetAfter(last, p)

\* ... and its second result.  Every set it makes is stored: a first one, too.
PartitionChanged(last, p) == last # NoSet /\ last.DestPartition # p
MustStore(last, p)        == last = NoSet \/ last.DestPartition # p

\* Produce sends the message that starts a new set to the partition of the old.
SendTo(last, p) == IF PartitionChanged(last, p) THEN last.DestPartition ELSE p

-----------------------------------------------------------------------------
(* Reading a stream back.  A message is [key, seq, set]; seq numbers the   *)
(* messages of a key in the order their requests were handled.             *)

\* The index of the set a message on partition p belongs to: on the source
\* partition it is the last message of the old set.
IndexOn(p, m) == IF m.set.DestPartition = p THEN m.set.DestMsgsetIndex ELSE m.set.SrcMsgsetIndex

\* Set indices, and offsets within a set, order the messages of every key.
InTotalOrder(log) ==
    \A p, q \in Partition : \A i \in DOMAIN log[p], j \in DOMAIN log[q] :
        LET m == log[p][i]  n == log[q][j]
        IN  (m.key = n.key /\ m.seq < n.seq) =>
               \/ IndexOn(p, m) < IndexOn(q, n)
               \/ IndexOn(p, m) = IndexOn(q, n) /\ p = q /\ i < j
=============================================================================
