----------------------------- MODULE RouteTable -----------------------------
(***************************************************************************)
(* What the rest of the producer may rely on of the hot-key machinery: a   *)
(* table that sends a hot key to one partition and leaves the others to    *)
(* the hash.  A key gets a partition only while it has none, and changes   *)
(* partition only by losing the one it has first.                          *)
(***************************************************************************)
CONSTANTS
    Key,        \* the keys clients use
    Partition,  \* the topic's partitions
    None        \* "not routed": NewMessage falls back on hash

VARIABLE route  \* [Key -> Partition \cup {None}]

Init == route = [k \in Key |-> None]

\* The lossy counter finds k hot and maps it.
Promote(k, p) ==
    /\ route[k] = None
    /\ route' = [route EXCEPT ![k] = p]

\* The lossy counter no longer tracks k.
Demote(k) ==
    /\ route[k] # None
    /\ route' = [route EXCEPT ![k] = None]

Next == \E k \in Key : Demote(k) \/ \E p \in Partition : Promote(k, p)

Spec == Init /\ [][Next]_route

TypeOK == route \in [Key -> Partition \cup {None}]
=============================================================================
