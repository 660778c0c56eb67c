------------------------------ MODULE Consumer ------------------------------
(***************************************************************************)
(* The consumer group (SLOPSConsumer/cmd/main.go) reading a log that the   *)
(* producers write as message sets promise (MessageSetStream).             *)
(*                                                                         *)
(* A session is Kafka's, and external: it gives every partition to one     *)
(* member and delivers a partition's messages in log order from the        *)
(* committed offset on.  In a rebalance every member's session ends, at    *)
(* the member's next heartbeat, and the next begins when all have joined.  *)
(* A member commits what it has marked now and then, and once more when    *)
(* its last claim returns.                                                 *)
(***************************************************************************)
EXTENDS MessageSet

CONSTANTS
    Member,         \* the consumer processes
    Words,          \* [Key -> Seq(word)]: a key's words, between blanks
    MaxMsgs,        \* bound: messages in the log
    MaxDisturbances \* bound: rebalances Kafka starts and members killed from outside

ASSUME WordsAssumption ==
    /\ DOMAIN Words = Key
    /\ \A k \in Key : Words[k] \in Seq({Words[k][i] : i \in DOMAIN Words[k]})
ASSUME BoundAssumption == {MaxMsgs, MaxDisturbances} \subseteq Nat

VARIABLES
    log, last, sent,  \* the stream
    rebalancing, \* the group has to form again
    session,    \* per member: "joining" (in Consume, before Setup), "running", "done"
                \* (the session's context is), or "left" (it has closed its client)
    main,       \* per member: "start", "waiting" (on consumer.ready), "up", "stopping"
    owner,      \* [Partition -> Member]
    pc,         \* where the ConsumeClaim of each partition is
    pos,        \* messages of each partition delivered so far
    marked,     \* messages MarkMessage was called for
    committed,  \* the offset Kafka keeps for the group
    handled,    \* history: offsets printMessage has seen, per partition
    shifts,     \* HandleShiftKey was called for these: <<partition, offset>>
    syncs,      \* HandleSyncEvent, likewise
    mishap,     \* history: in this session the owner died, or its last commit failed
    disturbances

streamVars == <<log, last, sent>>
groupVars  == <<rebalancing, session, main>>
eventVars  == <<handled, shifts, syncs>>
vars == <<streamVars, groupVars, owner, pc, pos, marked, committed, eventVars, mishap, disturbances>>

Stream == INSTANCE MessageSetStream

Init ==
    /\ Stream!Init
    /\ rebalancing = TRUE
    /\ session = [c \in Member |-> "joining"] /\ main = [c \in Member |-> "start"]
    /\ owner \in [Partition -> Member]
    /\ pc = [p \in Partition |-> "returned"]
    /\ pos = [p \in Partition |-> 0] /\ marked = pos /\ committed = pos
    /\ handled = [p \in Partition |-> {}] /\ shifts = {} /\ syncs = {}
    /\ mishap = [p \in Partition |-> FALSE]
    /\ disturbances = 0

\* A producer sends a message.
Produced ==
    /\ Cardinality(UNION {{p} \X (DOMAIN log[p]) : p \in Partition}) < MaxMsgs
    /\ Stream!Next
    /\ UNCHANGED <<groupVars, owner, pc, pos, marked, committed, eventVars, mishap, disturbances>>

-----------------------------------------------------------------------------
(* ConsumeClaim.                                                           *)

\* Mutant: marked as soon as it is taken.
TakeMarked(p) ==
    /\ pc[p] = "select"
    /\ pos[p] < Len(log[p])
    /\ pos' = [pos EXCEPT ![p] = @ + 1]
    /\ marked' = [marked EXCEPT ![p] = pos'[p]]
    /\ pc'  = [pc EXCEPT ![p] = "message"]
    /\ UNCHANGED <<streamVars, groupVars, owner, committed, eventVars, mishap, disturbances>>

\* select takes a message.  It may even if the context is done as well.
Take(p) ==
    /\ pc[p] = "select"
    /\ pos[p] < Len(log[p])
    /\ pos' = [pos EXCEPT ![p] = @ + 1]
    /\ pc'  = [pc EXCEPT ![p] = "message"]
    /\ UNCHANGED <<streamVars, groupVars, owner, marked, committed, eventVars, mishap, disturbances>>

\* The fields MarshalBinary prints.
MarshalBinary(m) ==
    Words[m.key] \o <<m.set.SrcPartition, m.set.SrcMsgsetIndex,
                      m.set.DestPartition, m.set.DestMsgsetIndex>>

\* The SyncEvent header is there, and UnmarshalBinary finds its five fields.
Readable(m) == m.set # NoSet /\ Len(MarshalBinary(m)) = 5

\* Mutant: the source partition is compared.
IsLastOfSetBySource(p, m) == m.set.SrcPartition # p

\* "Check if this is the last message of a set."
IsLastOfSet(p, m) == m.set.DestPartition # p

\* "Ignore new streams."
HasSource(m) == m.set.SrcPartition > -1 /\ m.set.SrcMsgsetIndex > -1

\* printMessage.  A header that does not decode ends it early.
PrintMessage(p) ==
    LET m  == log[p][pos[p]]
        at == <<p, pos[p]>>
    IN  /\ pc[p] = "message"
        /\ handled' = [handled EXCEPT ![p] = @ \cup {pos[p]}]
        /\ shifts' = IF Readable(m) /\ IsLastOfSet(p, m) THEN shifts \cup {at} ELSE shifts
        /\ syncs'  = IF Readable(m) /\ HasSource(m) THEN syncs \cup {at} ELSE syncs
        /\ pc' = [pc EXCEPT ![p] = "mark"]
        /\ UNCHANGED <<streamVars, groupVars, owner, pos, marked, committed, mishap, disturbances>>

\* MarkMessage, whatever printMessage made of it.
Mark(p) ==
    /\ pc[p] = "mark"
    /\ marked' = [marked EXCEPT ![p] = pos[p]]
    /\ pc' = [pc EXCEPT ![p] = "select"]
    /\ UNCHANGED <<streamVars, groupVars, owner, pos, committed, eventVars, mishap, disturbances>>

Owned(c) == {p \in Partition : owner[p] = c}
Returned(ps) == \A p \in ps : pc[p] = "returned"

\* Mutant: the last commit is left out.
ReturnUncommitted(p) ==
    /\ pc[p] = "select"
    /\ session[owner[p]] = "done"
    /\ pc' = [pc EXCEPT ![p] = "returned"]
    /\ UNCHANGED <<streamVars, groupVars, owner, pos, marked, committed, eventVars, mishap, disturbances>>

\* select sees the context done and the claim returns.  With a member's last
\* claim the session is released: what is marked is committed, if that works.
Return(p) ==
    /\ pc[p] = "select"
    /\ session[owner[p]] = "done"
    /\ pc' = [pc EXCEPT ![p] = "returned"]
    /\ LET mine == Owned(owner[p])
       IN  \/ /\ Returned(mine \ {p})
              /\ committed' = [q \in Partition |-> IF q \in mine THEN marked[q] ELSE committed[q]]
              /\ UNCHANGED mishap
           \/ /\ Returned(mine \ {p})
              /\ mishap' = [q \in Partition |-> q \in mine \/ mishap[q]]
              /\ UNCHANGED committed
           \/ /\ ~Returned(mine \ {p})
              /\ UNCHANGED <<committed, mishap>>
    /\ UNCHANGED <<streamVars, groupVars, owner, pos, marked, eventVars, disturbances>>

\* A member is gone and its marks with it.  The group notices; the member is
\* started again, unless it was on its way out.
Dies(c) ==
    /\ pc' = [p \in Partition |-> IF owner[p] = c THEN "returned" ELSE pc[p]]
    /\ marked' = [p \in Partition |-> IF owner[p] = c THEN committed[p] ELSE marked[p]]
    /\ mishap' = [p \in Partition |-> owner[p] = c \/ mishap[p]]
    /\ rebalancing' = TRUE
    /\ IF main[c] = "stopping"
       THEN session' = [session EXCEPT ![c] = "left"] /\ UNCHANGED main
       ELSE session' = [session EXCEPT ![c] = "joining"] /\ main' = [main EXCEPT ![c] = "start"]
    /\ UNCHANGED <<streamVars, owner, pos, committed, eventVars>>

\* Once the context is done the channel of messages is closed: select may then
\* receive nil instead, which printMessage dereferences.
TakeNil(p) ==
    /\ pc[p] = "select"
    /\ session[owner[p]] = "done"
    /\ Dies(owner[p])
    /\ UNCHANGED disturbances

-----------------------------------------------------------------------------
(* Around the claims.                                                      *)

\* The offset manager's ticker, while the member has claims.
Commit(p) ==
    /\ ~Returned(Owned(owner[p]))
    /\ committed[p] # marked[p]
    /\ committed' = [committed EXCEPT ![p] = marked[p]]
    /\ UNCHANGED <<streamVars, groupVars, owner, pc, pos, marked, eventVars, mishap, disturbances>>

\* Kafka rebalances the group.
SessionEnds ==
    /\ ~rebalancing
    /\ disturbances < MaxDisturbances
    /\ rebalancing' = TRUE
    /\ disturbances' = disturbances + 1
    /\ UNCHANGED <<streamVars, session, main, owner, pc, pos, marked, committed, eventVars, mishap>>

\* A heartbeat tells the member.
Notice(c) ==
    /\ rebalancing
    /\ session[c] = "running"
    /\ session' = [session EXCEPT ![c] = "done"]
    /\ UNCHANGED <<streamVars, rebalancing, main, owner, pc, pos, marked, committed, eventVars, mishap, disturbances>>

Killed(c) ==
    /\ disturbances < MaxDisturbances
    /\ session[c] # "left"
    /\ Dies(c)
    /\ disturbances' = disturbances + 1

\* Mutant: main's loop does not look at the context.
ReleasedAgain(c) ==
    /\ session[c] = "done"
    /\ Returned(Owned(c))
    /\ session' = [session EXCEPT ![c] = "joining"] /\ rebalancing' = TRUE
    /\ UNCHANGED <<streamVars, main, owner, pc, pos, marked, committed, eventVars, mishap, disturbances>>

\* Consume returns when all claims have.  main's loop makes a new ready channel
\* and calls it again, or ends, and main closes the client.
Released(c) ==
    /\ session[c] = "done"
    /\ Returned(Owned(c))
    /\ IF main[c] = "stopping"
       THEN session' = [session EXCEPT ![c] = "left"] /\ rebalancing' = TRUE
       ELSE session' = [session EXCEPT ![c] = "joining"] /\ UNCHANGED rebalancing
    /\ UNCHANGED <<streamVars, main, owner, pc, pos, marked, committed, eventVars, mishap, disturbances>>

Joining == {c \in Member : session[c] = "joining"}

\* A new session from the offsets given on.  Setup closes the ready channel, and
\* main, if it waits on it, goes on.
NewSession(from) ==
    /\ \A c \in Member : session[c] \in {"joining", "left"}
    /\ Joining # {}
    /\ rebalancing' = FALSE
    /\ session' = [c \in Member |-> IF session[c] = "left" THEN "left"
                                    ELSE IF main[c] = "stopping" THEN "done" ELSE "running"]
    /\ main' = [c \in Member |-> IF main[c] = "waiting" THEN "up" ELSE main[c]]
    /\ owner' \in [Partition -> Joining]
    /\ pc' = [p \in Partition |-> "select"]
    /\ pos' = from /\ marked' = from
    /\ mishap' = [p \in Partition |-> FALSE]
    /\ UNCHANGED <<streamVars, committed, eventVars, disturbances>>

\* Mutants: from the last committed message; from the newest.
ConsumeLastAgain == NewSession([p \in Partition |-> committed[p] - 1])
ConsumeNewest    == NewSession([p \in Partition |-> Len(log[p])])

Consume == NewSession(committed)

\* main gets to `<-consumer.ready': the channel of this round is closed from Setup on.
AwaitReady(c) ==
    /\ main[c] = "start"
    /\ main' = [main EXCEPT ![c] = IF session[c] \in {"running", "done"} THEN "up" ELSE "waiting"]
    /\ UNCHANGED <<streamVars, rebalancing, session, owner, pc, pos, marked, committed, eventVars, mishap, disturbances>>

\* SIGTERM: main cancels the context, which is the session's too.  (Another
\* member stays.)
Terminate(c) ==
    /\ main[c] = "up"
    /\ \E d \in Member \ {c} : main[d] # "stopping"
    /\ main' = [main EXCEPT ![c] = "stopping"]
    /\ session' = [session EXCEPT ![c] = IF @ = "running" THEN "done" ELSE @]
    /\ UNCHANGED <<streamVars, rebalancing, owner, pc, pos, marked, committed, eventVars, mishap, disturbances>>

ClaimStep  == \E p \in Partition : Take(p) \/ PrintMessage(p) \/ Mark(p) \/ Return(p)
MemberStep == \E c \in Member : Notice(c) \/ Released(c) \/ AwaitReady(c)
Work       == ClaimStep \/ MemberStep \/ Consume

Next ==
    \/ Produced
    \/ Work
    \/ \E p \in Partition : TakeNil(p) \/ Commit(p)
    \/ SessionEnds
    \/ \E c \in Member : Killed(c) \/ Terminate(c)

\* Claims and members run, a dead member is restarted, the group forms again.
Spec == Init /\ [][Next]_vars /\ WF_vars(Work)

-----------------------------------------------------------------------------
(* Properties.                                                             *)

\* Type invariant.
TypeOK ==
    /\ rebalancing \in BOOLEAN
    /\ session \in [Member -> {"joining", "running", "done", "left"}]
    /\ main \in [Member -> {"start", "waiting", "up", "stopping"}]
    /\ owner \in [Partition -> Member]
    /\ pc \in [Partition -> {"select", "message", "mark", "returned"}]
    /\ pos \in [Partition -> Nat] /\ marked \in [Partition -> Nat] /\ committed \in [Partition -> Nat]
    /\ handled \in [Partition -> SUBSET Nat]
    /\ shifts \subseteq Partition \X Nat /\ syncs \subseteq Partition \X Nat
    /\ mishap \in [Partition -> BOOLEAN]
    /\ disturbances \in Nat

\* At least once: an offset is committed only when printMessage has seen every
\* message below it, whoever died or lost the partition in between.
CommittedIsHandled == \A p \in Partition : 1 .. committed[p] \subseteq handled[p]

\* No message is delivered twice unless its partition's owner died, or could not
\* commit at the end of its session: rebalances and graceful stops lose no mark.
RedeliveryNeedsMishap == [][\A p \in Partition : pos'[p] < pos[p] => mishap[p]]_vars

\* Keys whose header survives its encoding: those of one word.
Decodes == {k \in Key : Len(Words[k]) = 1}

\* HandleShiftKey is called for exactly the messages that end a set: the next
\* message of the key belongs to a higher set if and only if it was called.
\* (The test looks at partitions only, the sets are told by their indices.)
ShiftsAreSetEnds ==
    \A p, q \in Partition : \A i \in handled[p], j \in DOMAIN log[q] :
        LET m == log[p][i]  n == log[q][j]
        IN  (m.key = n.key /\ n.seq = m.seq + 1 /\ m.key \in Decodes) =>
               (<<p, i>> \in shifts <=> IndexOn(p, m) < IndexOn(q, n))

\* HandleSyncEvent is called for every message of a set that continues another:
\* for the one that ends the other set, still on the other set's partition, and
\* for all that follow it on the new one.  (The comment at HandleSyncEvent has it
\* called when the key has started a new set on this partition.)  That ending
\* message is in the log, on the partition the event names.
SyncsFollowAShift ==
    \A p \in Partition : \A i \in handled[p] :
        LET m == log[p][i]
            EndsSource(n) == n.key = m.key /\ n.set = m.set /\ n.seq <= m.seq
        IN  m.key \in Decodes =>
               (<<p, i>> \in syncs <=>
                   \E q \in Partition : /\ q = m.set.SrcPartition
                                        /\ \E j \in DOMAIN log[q] : EndsSource(log[q][j]))

\* No claim, member or main has a step to take, and the group none for them.
AtRest ==
    /\ \A p \in Partition : /\ pc[p] \notin {"message", "mark"}
                            /\ pc[p] = "select" => pos[p] >= Len(log[p]) /\ session[owner[p]] # "done"
    /\ \A c \in Member : /\ ~(rebalancing /\ session[c] = "running")
                         /\ ~(session[c] = "done" /\ Returned(Owned(c)))
                         /\ main[c] # "start"
    /\ Joining = {} \/ \E c \in Member : session[c] \notin {"joining", "left"}

\* The group never settles with work undone: it comes to rest, whatever ended
\* its sessions, only when every message of the log is handled and every main
\* is past `<-consumer.ready' or has left.
RestIsEarned ==
    AtRest => /\ \A p \in Partition : handled[p] = DOMAIN log[p]
              /\ \A c \in Member : main[c] = "up" \/ session[c] = "left"

\* Every message in the log is handled in the end.  (The bound ends the log.)
EverythingIsHandled == <>[](\A p \in Partition : handled[p] = DOMAIN log[p])

\* Every main gets past `<-consumer.ready', whichever session it finds, and one
\* that was told to stop has left the group.
MembersSettle == <>[](\A c \in Member : main[c] = "up" \/ session[c] = "left")

-----------------------------------------------------------------------------
(* What a comment says and the code does not do.                           *)

\* "Should return when session.Context() is done": with nobody killed, a claim
\* whose context is done ends in select, by returning, and what it marked is not
\* thrown away.
DoneMeansReturn ==
    [][\A p \in Partition :
          (session[owner[p]] = "done" /\ pc[p] # "returned" /\ pc'[p] = "returned" /\ disturbances' = disturbances) =>
              pc[p] = "select" /\ marked'[p] = marked[p]]_vars

=============================================================================
