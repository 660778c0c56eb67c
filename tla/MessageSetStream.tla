-------------------------- MODULE MessageSetStream --------------------------
(***************************************************************************)
(* What message sets promise: sending a message is atomic.  The header is  *)
(* computed from the set of the key's previous message, and the message is *)
(* on its partition before the next one of the key is looked at.           *)
(***************************************************************************)
EXTENDS MessageSet

VARIABLES
    log,   \* [Partition -> Seq(message)]
    last,  \* the set of the last message of each key, NoSet before the first
    sent   \* the number of messages of each key

Init ==
    /\ log  = [p \in Partition |-> <<>>]
    /\ last = [k \in Key |-> NoSet]
    /\ sent = [k \in Key |-> 0]

\* A message of k, meant for partition p.
Send(k, p) ==
    LET set == MsgsetHdrVal(last[k], p)
        m   == [key |-> k, seq |-> sent[k] + 1, set |-> set]
    IN  /\ log'  = [log EXCEPT ![SendTo(last[k], p)] = Append(@, m)]
        /\ last' = [last EXCEPT ![k] = set]
        /\ sent' = [sent EXCEPT ![k] = @ + 1]

\* Delivery is at least once: the key's last message arrives again.
Repeat(k) ==
    /\ \E p \in Partition : \E i \in DOMAIN log[p] :
          /\ log[p][i].key = k /\ log[p][i].seq = sent[k]
          /\ log' = [log EXCEPT ![p] = Append(@, log[p][i])]
    /\ UNCHANGED <<last, sent>>

Next == \E k \in Key : Repeat(k) \/ \E p \in Partition : Send(k, p)

Spec == Init /\ [][Next]_<<log, last, sent>>

\* "This allows for forcing a total ordering on each stream irrespective of
\* changing partitions" (msgSet.go).
TotalOrder == InTotalOrder(log)
=============================================================================
