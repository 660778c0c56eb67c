--------------------------- MODULE ConsumerProofs ---------------------------
(***************************************************************************)
(* At-least-once processing by the consumer group, what it takes for a     *)
(* message to be delivered again, which messages the two handlers are      *)
(* called for, and that the group rests only when its work is done, for    *)
(* any number of members, partitions, messages, rebalances and deaths.     *)
(***************************************************************************)
EXTENDS Consumer, SequenceTheorems, TLAPS

\* What is proved of streams.
SP == INSTANCE MessageSetStreamProofs

\* Commits run behind marks and marks behind deliveries; what is marked has been
\* handled, and so has everything delivered but the message in hand.
ProgressInv ==
    \A p \in Partition :
        /\ committed[p] <= marked[p] /\ marked[p] <= pos[p]
        /\ 1 .. marked[p] \subseteq handled[p]
        /\ pc[p] \in {"select", "mark"} => 1 .. pos[p] \subseteq handled[p]
        /\ pc[p] = "message" => 1 .. pos[p] - 1 \subseteq handled[p] /\ pos[p] # 0
           /\ marked[p] < pos[p]

\* Claims run in sessions only.  A claim in select has marked what it was given;
\* one that returned has, too, and with the last of its owner's it is committed,
\* unless there was a mishap.
SessionInv ==
    \A p \in Partition :
        /\ session[owner[p]] \in {"joining", "left"} => pc[p] = "returned"
        /\ pc[p] = "select" => marked[p] = pos[p]
        /\ pc[p] = "returned" /\ ~mishap[p] =>
              /\ marked[p] = pos[p]
              /\ Returned(Owned(owner[p])) => committed[p] = pos[p]

IndInv == TypeOK /\ ProgressInv

LEMMA Initially == Init => IndInv
<1> SUFFICES ASSUME Init PROVE IndInv
  OBVIOUS
<1>1. TypeOK
  BY DEF Init, TypeOK
<1>2. ProgressInv
  BY DEF Init, ProgressInv
<1> QED BY <1>1, <1>2 DEF IndInv

-----------------------------------------------------------------------------
(* A claim's steps.                                                        *)

LEMMA TakeStep ==
    ASSUME IndInv, NEW p \in Partition, Take(p)
    PROVE  IndInv'
<1>1. TypeOK'
  BY SMTT(30) DEF IndInv, TypeOK, Take, groupVars, eventVars
<1>2. ASSUME NEW q \in Partition
      PROVE  /\ pos'[q] = (IF q = p THEN pos[q] + 1 ELSE pos[q]) /\ pos[q] \in Nat /\ marked[q] \in Nat
             /\ pc'[q] = IF q = p THEN "message" ELSE pc[q]
  BY DEF IndInv, TypeOK, Take
<1>3. ProgressInv'
  <2>1. pc[p] = "select" /\ UNCHANGED <<marked, committed, handled>>
    BY DEF Take, eventVars
  <2>2. ASSUME NEW q \in Partition, q # p
        PROVE  pos'[q] = pos[q] /\ pc'[q] = pc[q]
    BY <1>2, <2>2
  <2>3. pos'[p] = pos[p] + 1 /\ pc'[p] = "message" /\ pos[p] \in Nat /\ marked[p] \in Nat
        /\ pos'[p] - 1 = pos[p] /\ committed[p] \in Nat
    <3>1. committed[p] \in Nat
      BY DEF IndInv, TypeOK
    <3> QED BY <1>2, <3>1
  <2> QED BY <2>1, <2>2, <2>3 DEF IndInv, ProgressInv
<1> QED BY <1>1, <1>3 DEF IndInv

LEMMA PrintStep ==
    ASSUME IndInv, NEW p \in Partition, PrintMessage(p)
    PROVE  IndInv'
<1>1. /\ pc[p] = "message" /\ pc' = [pc EXCEPT ![p] = "mark"]
      /\ handled' = [handled EXCEPT ![p] = @ \cup {pos[p]}]
      /\ UNCHANGED <<groupVars, owner, pos, marked, committed, mishap, disturbances>>
  BY DEF PrintMessage
<1>2. pos[p] \in Nat
  BY DEF IndInv, TypeOK
<1>3. shifts' \subseteq Partition \X Nat /\ syncs' \subseteq Partition \X Nat
  <2>1. shifts' \subseteq shifts \cup {<<p, pos[p]>>} /\ syncs' \subseteq syncs \cup {<<p, pos[p]>>}
    BY DEF PrintMessage
  <2> QED BY <1>2, <2>1 DEF IndInv, TypeOK
<1>4. TypeOK'
  <2>1. handled' \in [Partition -> SUBSET Nat]
    BY <1>1, <1>2 DEF IndInv, TypeOK
  <2> QED BY <1>1, <1>3, <2>1 DEF IndInv, TypeOK, groupVars
<1>5. ProgressInv'
  <2>1. ASSUME NEW q \in Partition
        PROVE  handled[q] \subseteq handled'[q] /\ (q # p => pc'[q] = pc[q] /\ handled'[q] = handled[q])
    BY <1>1 DEF IndInv, TypeOK
  <2>2. 1 .. pos[p] \subseteq handled'[p] /\ pc'[p] = "mark"
    <3>1. 1 .. pos[p] - 1 \subseteq handled[p] /\ handled'[p] = handled[p] \cup {pos[p]} /\ pc'[p] = "mark"
      BY <1>1 DEF IndInv, TypeOK, ProgressInv
    <3> QED BY <1>2, <3>1
  <2> QED BY <1>1, <2>1, <2>2 DEF IndInv, ProgressInv
<1> QED BY <1>4, <1>5 DEF IndInv

LEMMA MarkStep ==
    ASSUME IndInv, NEW p \in Partition, Mark(p)
    PROVE  IndInv'
<1>1. TypeOK'
  BY DEF IndInv, TypeOK, Mark, groupVars, eventVars
<1>2. ASSUME NEW q \in Partition
      PROVE  /\ marked'[q] = (IF q = p THEN pos[q] ELSE marked[q])
             /\ pc'[q] = IF q = p THEN "select" ELSE pc[q]
             /\ {pos[q], marked[q], committed[q]} \subseteq Nat
  BY DEF IndInv, TypeOK, Mark
<1>3. ProgressInv'
  BY <1>2 DEF IndInv, ProgressInv, Mark, eventVars
<1> QED BY <1>1, <1>3 DEF IndInv

\* Whatever Return commits is marked.
LEMMA ReturnStep ==
    ASSUME IndInv, NEW p \in Partition, Return(p)
    PROVE  IndInv'
<1>1. /\ pc' = [pc EXCEPT ![p] = "returned"]
      /\ UNCHANGED <<groupVars, owner, pos, marked, handled, shifts, syncs, disturbances>>
  BY DEF Return, eventVars
<1>2. /\ committed' \in [Partition -> Nat] /\ mishap' \in [Partition -> BOOLEAN]
      /\ \A q \in Partition : committed'[q] \in {committed[q], marked[q]}
  BY DEF Return, IndInv, TypeOK
<1>3. TypeOK'
  BY <1>1, <1>2 DEF IndInv, TypeOK, groupVars
<1>4. ASSUME NEW q \in Partition
      PROVE  {pos[q], marked[q], committed[q]} \subseteq Nat /\ pc'[q] \in {pc[q], "returned"}
  BY <1>1 DEF IndInv, TypeOK
<1>5. ProgressInv'
  BY <1>1, <1>2, <1>4 DEF IndInv, ProgressInv
<1> QED BY <1>3, <1>5 DEF IndInv

-----------------------------------------------------------------------------
(* Steps around the claims.                                                *)

LEMMA DiesStep ==
    ASSUME IndInv, NEW c \in Member, Dies(c), disturbances' \in Nat
    PROVE  IndInv'
<1>1. TypeOK'
  BY DEF IndInv, TypeOK, Dies, eventVars
<1>2. ASSUME NEW q \in Partition
      PROVE  /\ {pos[q], marked[q], committed[q]} \subseteq Nat
             /\ pc'[q] \in {pc[q], "returned"} /\ marked'[q] \in {marked[q], committed[q]}
  BY DEF IndInv, TypeOK, Dies
<1>3. ASSUME NEW q \in Partition
      PROVE  /\ committed[q] <= marked'[q] /\ marked'[q] <= marked[q] /\ marked'[q] \in Nat
  BY <1>2 DEF IndInv, ProgressInv
<1>4. ProgressInv'
  <2> SUFFICES ASSUME NEW q \in Partition
               PROVE  /\ committed[q] <= marked'[q] /\ marked'[q] <= pos[q]
                      /\ 1 .. marked'[q] \subseteq handled[q]
                      /\ pc'[q] \in {"select", "mark"} => 1 .. pos[q] \subseteq handled[q]
                      /\ pc'[q] = "message" => 1 .. pos[q] - 1 \subseteq handled[q] /\ pos[q] # 0
                         /\ marked'[q] < pos[q]
    BY DEF ProgressInv, Dies, eventVars
  <2> QED BY <1>2, <1>3 DEF IndInv, ProgressInv
<1> QED BY <1>1, <1>4 DEF IndInv

LEMMA CommitStep ==
    ASSUME IndInv, NEW p \in Partition, Commit(p)
    PROVE  IndInv'
<1>1. TypeOK'
  BY DEF IndInv, TypeOK, Commit, groupVars, eventVars
<1>2. ASSUME NEW q \in Partition
      PROVE  {pos[q], marked[q], committed[q]} \subseteq Nat /\ committed'[q] \in {committed[q], marked[q]}
  BY DEF IndInv, TypeOK, Commit
<1>3. ProgressInv'
  BY <1>2 DEF IndInv, ProgressInv, Commit, eventVars
<1> QED BY <1>1, <1>3 DEF IndInv

LEMMA ConsumeStep ==
    ASSUME IndInv, Consume
    PROVE  IndInv'
<1>1. TypeOK'
  <2>1. owner' \in [Partition -> Member]
    BY DEF Consume, NewSession, Joining
  <2>2. /\ session' \in [Member -> {"joining", "running", "done", "left"}]
        /\ main' \in [Member -> {"start", "waiting", "up", "stopping"}]
    BY DEF IndInv, TypeOK, Consume, NewSession
  <2> QED BY <2>1, <2>2 DEF IndInv, TypeOK, Consume, NewSession, eventVars
<1>2. ASSUME NEW q \in Partition
      PROVE  /\ {marked[q], committed[q]} \subseteq Nat /\ committed[q] <= marked[q]
             /\ 1 .. committed[q] \subseteq handled[q]
  <2>1. {marked[q], committed[q]} \subseteq Nat /\ committed[q] <= marked[q]
        /\ 1 .. marked[q] \subseteq handled[q]
    BY DEF IndInv, TypeOK, ProgressInv
  <2> QED BY <2>1
<1>3. ProgressInv'
  BY <1>2 DEF ProgressInv, Consume, NewSession, eventVars
<1> QED BY <1>1, <1>3 DEF IndInv

LEMMA Step == IndInv /\ [Next]_vars => IndInv'
<1> SUFFICES ASSUME IndInv, [Next]_vars PROVE IndInv'
  OBVIOUS
<1>1. CASE Produced
  BY <1>1 DEF Produced, IndInv, TypeOK, ProgressInv, groupVars, eventVars
<1>2. CASE SessionEnds
  BY <1>2 DEF SessionEnds, IndInv, TypeOK, ProgressInv, eventVars
<1>3. ASSUME NEW p \in Partition, TakeNil(p) PROVE IndInv'
  <2>1. owner[p] \in Member /\ Dies(owner[p]) /\ disturbances' \in Nat
    BY <1>3 DEF TakeNil, IndInv, TypeOK
  <2> QED BY <2>1, DiesStep
<1>4. ASSUME NEW c \in Member, Killed(c) PROVE IndInv'
  <2>1. Dies(c) /\ disturbances' \in Nat
    BY <1>4 DEF Killed, IndInv, TypeOK
  <2> QED BY <2>1, DiesStep
<1>5. ASSUME NEW c \in Member, Notice(c) \/ Released(c) \/ AwaitReady(c) \/ Terminate(c) PROVE IndInv'
  <2>1. ProgressInv'
    BY <1>5 DEF Notice, Released, AwaitReady, Terminate, IndInv, ProgressInv, eventVars
  <2>2. /\ session' \in [Member -> {"joining", "running", "done", "left"}]
        /\ main' \in [Member -> {"start", "waiting", "up", "stopping"}]
        /\ rebalancing' \in BOOLEAN
    BY <1>5 DEF Notice, Released, AwaitReady, Terminate, IndInv, TypeOK
  <2>3. UNCHANGED <<owner, pc, pos, marked, committed, eventVars, mishap, disturbances>>
    BY <1>5 DEF Notice, Released, AwaitReady, Terminate
  <2> QED BY <2>1, <2>2, <2>3 DEF IndInv, TypeOK, eventVars
<1>6. CASE UNCHANGED vars
  BY <1>6 DEF vars, groupVars, eventVars, IndInv, TypeOK, ProgressInv
<1> QED BY <1>1, <1>2, <1>3, <1>4, <1>5, <1>6, TakeStep, PrintStep, MarkStep, ReturnStep, CommitStep,
        ConsumeStep DEF Next, Work, ClaimStep, MemberStep

LEMMA Inductive == Spec => []IndInv
BY Initially, Step, PTL DEF Spec

-----------------------------------------------------------------------------
(* What sessions leave behind.                                             *)

\* A claim of p goes on: its owner's last claim has not returned.
LEMMA ClaimGoesOn ==
    ASSUME IndInv, SessionInv, NEW p \in Partition, pc[p] # "returned",
           UNCHANGED <<session, owner, committed, mishap>>,
           \A q \in Partition \ {p} : pc'[q] = pc[q] /\ marked'[q] = marked[q] /\ pos'[q] = pos[q],
           pc'[p] # "returned", pc'[p] = "select" => marked'[p] = pos'[p]
    PROVE  SessionInv'
<1> SUFFICES ASSUME NEW q \in Partition
             PROVE  /\ session[owner[q]] \in {"joining", "left"} => pc'[q] = "returned"
                    /\ pc'[q] = "select" => marked'[q] = pos'[q]
                    /\ pc'[q] = "returned" /\ ~mishap[q] =>
                          /\ marked'[q] = pos'[q]
                          /\ Returned(Owned(owner[q]))' => committed[q] = pos'[q]
  BY DEF SessionInv
<1>1. CASE q = p
  BY <1>1 DEF SessionInv
<1>2. CASE q # p
  <2>1. Returned(Owned(owner[q]))' => Returned(Owned(owner[q]))
    BY DEF Returned, Owned
  <2> QED BY <1>2, <2>1 DEF SessionInv
<1> QED BY <1>1, <1>2

LEMMA ReturnLeaves ==
    ASSUME IndInv, SessionInv, NEW p \in Partition, Return(p)
    PROVE  SessionInv'
<1> DEFINE mine == Owned(owner[p])
<1>1. /\ pc[p] = "select" /\ pc' = [pc EXCEPT ![p] = "returned"]
      /\ UNCHANGED <<session, owner, pos, marked>>
  BY DEF Return, groupVars
<1>2. CASE Returned(mine \ {p}) /\ UNCHANGED mishap
           /\ committed' = [q \in Partition |-> IF q \in mine THEN marked[q] ELSE committed[q]]
  <2> SUFFICES ASSUME NEW q \in Partition
               PROVE  /\ session[owner[q]] \in {"joining", "left"} => pc'[q] = "returned"
                      /\ pc'[q] = "select" => marked[q] = pos[q]
                      /\ pc'[q] = "returned" /\ ~mishap[q] =>
                            /\ marked[q] = pos[q]
                            /\ Returned(Owned(owner[q]))' => committed'[q] = pos[q]
    BY <1>1, <1>2 DEF SessionInv
  <2>1. CASE q \in mine
    <3>1. ~mishap[q] => marked[q] = pos[q]
      BY <1>1, <1>2, <2>1 DEF SessionInv, Returned
    <3>2. committed'[q] = marked[q] /\ pc'[q] = "returned"
      BY <1>1, <1>2, <2>1 DEF Returned, IndInv, TypeOK
    <3> QED BY <3>1, <3>2
  <2>2. CASE q \notin mine
    <3>1. q # p /\ pc'[q] = pc[q] /\ committed'[q] = committed[q]
      BY <1>1, <1>2, <2>2 DEF Owned, IndInv, TypeOK
    <3>2. Returned(Owned(owner[q]))' => Returned(Owned(owner[q]))
      BY <1>1, <2>2 DEF Returned, Owned, IndInv, TypeOK
    <3> QED BY <3>1, <3>2 DEF SessionInv
  <2> QED BY <2>1, <2>2
<1>3. CASE Returned(mine \ {p}) /\ UNCHANGED committed
           /\ mishap' = [q \in Partition |-> q \in mine \/ mishap[q]]
  <2> SUFFICES ASSUME NEW q \in Partition
               PROVE  /\ session[owner[q]] \in {"joining", "left"} => pc'[q] = "returned"
                      /\ pc'[q] = "select" => marked[q] = pos[q]
                      /\ pc'[q] = "returned" /\ ~mishap'[q] =>
                            /\ marked[q] = pos[q]
                            /\ Returned(Owned(owner[q]))' => committed[q] = pos[q]
    BY <1>1, <1>3 DEF SessionInv
  <2>1. CASE q \in mine
    BY <1>1, <1>3, <2>1 DEF Returned, IndInv, TypeOK
  <2>2. CASE q \notin mine
    <3>1. q # p /\ pc'[q] = pc[q] /\ mishap'[q] = mishap[q]
      BY <1>1, <1>3, <2>2 DEF Owned, IndInv, TypeOK
    <3>2. Returned(Owned(owner[q]))' => Returned(Owned(owner[q]))
      BY <1>1, <2>2 DEF Returned, Owned, IndInv, TypeOK
    <3> QED BY <3>1, <3>2 DEF SessionInv
  <2> QED BY <2>1, <2>2
<1>4. CASE ~Returned(mine \ {p}) /\ UNCHANGED <<committed, mishap>>
  <2> SUFFICES ASSUME NEW q \in Partition
               PROVE  /\ session[owner[q]] \in {"joining", "left"} => pc'[q] = "returned"
                      /\ pc'[q] = "select" => marked[q] = pos[q]
                      /\ pc'[q] = "returned" /\ ~mishap[q] =>
                            /\ marked[q] = pos[q]
                            /\ Returned(Owned(owner[q]))' => committed[q] = pos[q]
    BY <1>1, <1>4 DEF SessionInv
  <2>1. CASE q \in mine
    <3>1. ~Returned(Owned(owner[q]))'
      BY <1>1, <1>4, <2>1 DEF Returned, Owned, IndInv, TypeOK
    <3>2. q = p \/ (q # p /\ pc'[q] = pc[q])
      BY <1>1 DEF IndInv, TypeOK
    <3>3. pc'[p] = "returned"
      BY <1>1 DEF IndInv, TypeOK
    <3> QED BY <1>1, <3>1, <3>2, <3>3 DEF SessionInv
  <2>2. CASE q \notin mine
    <3>1. q # p /\ pc'[q] = pc[q]
      BY <1>1, <2>2 DEF Owned, IndInv, TypeOK
    <3>2. Returned(Owned(owner[q]))' => Returned(Owned(owner[q]))
      BY <1>1, <2>2 DEF Returned, Owned, IndInv, TypeOK
    <3> QED BY <3>1, <3>2 DEF SessionInv
  <2> QED BY <2>1, <2>2
<1> QED BY <1>2, <1>3, <1>4 DEF Return

LEMMA DiesLeaves ==
    ASSUME IndInv, SessionInv, NEW c \in Member, Dies(c)
    PROVE  SessionInv'
<1>1. /\ pc' = [p \in Partition |-> IF owner[p] = c THEN "returned" ELSE pc[p]]
      /\ marked' = [p \in Partition |-> IF owner[p] = c THEN committed[p] ELSE marked[p]]
      /\ mishap' = [p \in Partition |-> owner[p] = c \/ mishap[p]]
      /\ UNCHANGED <<owner, pos, committed>>
  BY DEF Dies
<1>2. \A d \in Member \ {c} : session'[d] = session[d]
  BY DEF Dies, IndInv, TypeOK
<1> SUFFICES ASSUME NEW p \in Partition
             PROVE  /\ session'[owner[p]] \in {"joining", "left"} => pc'[p] = "returned"
                    /\ pc'[p] = "select" => marked'[p] = pos[p]
                    /\ pc'[p] = "returned" /\ ~mishap'[p] =>
                          /\ marked'[p] = pos[p]
                          /\ Returned(Owned(owner[p]))' => committed[p] = pos[p]
  BY <1>1 DEF SessionInv
<1>3. CASE owner[p] = c
  BY <1>1, <1>3
<1>4. CASE owner[p] # c
  <2>1. Returned(Owned(owner[p]))' => Returned(Owned(owner[p]))
    BY <1>1, <1>4 DEF Returned, Owned
  <2>2. session'[owner[p]] = session[owner[p]]
    BY <1>2, <1>4 DEF IndInv, TypeOK
  <2> QED BY <1>1, <1>4, <2>1, <2>2 DEF SessionInv
<1> QED BY <1>3, <1>4

\* A step that leaves the claims alone leads into a session's end only when the
\* member's claims have returned.
LEMMA MemberMoves ==
    ASSUME SessionInv, UNCHANGED <<owner, pc, pos, marked, committed, mishap>>,
           \A p \in Partition : session'[owner[p]] \in {"joining", "left"} =>
               session[owner[p]] \in {"joining", "left"} \/ pc[p] = "returned"
    PROVE  SessionInv'
BY DEF SessionInv, Returned, Owned

LEMMA SessionStep ==
    ASSUME IndInv, SessionInv, [Next]_vars
    PROVE  SessionInv'
<1>1. ASSUME UNCHANGED <<session, owner, pc, pos, marked, committed, mishap>> PROVE SessionInv'
  BY <1>1, MemberMoves
<1>2. CASE Produced \/ SessionEnds \/ UNCHANGED vars
  BY <1>1, <1>2 DEF Produced, SessionEnds, vars, groupVars
<1>3. ASSUME NEW p \in Partition, Take(p) PROVE SessionInv'
  BY <1>3, ClaimGoesOn DEF Take, groupVars, IndInv, TypeOK
<1>4. ASSUME NEW p \in Partition, PrintMessage(p) PROVE SessionInv'
  <2>1. /\ pc[p] = "message" /\ pc' = [pc EXCEPT ![p] = "mark"]
        /\ UNCHANGED <<session, owner, pos, marked, committed, mishap>>
    BY <1>4 DEF PrintMessage, groupVars
  <2> QED BY <2>1, ClaimGoesOn DEF IndInv, TypeOK
<1>5. ASSUME NEW p \in Partition, Mark(p) PROVE SessionInv'
  BY <1>5, ClaimGoesOn DEF Mark, groupVars, IndInv, TypeOK
<1>6. ASSUME NEW p \in Partition, TakeNil(p) PROVE SessionInv'
  BY <1>6, DiesLeaves DEF TakeNil, IndInv, TypeOK
<1>7. ASSUME NEW c \in Member, Killed(c) PROVE SessionInv'
  BY <1>7, DiesLeaves DEF Killed
<1>8. ASSUME NEW p \in Partition, Commit(p) PROVE SessionInv'
  <2>1. /\ ~Returned(Owned(owner[p])) /\ committed' = [committed EXCEPT ![p] = marked[p]]
        /\ UNCHANGED <<session, owner, pc, pos, marked, mishap>>
    BY <1>8 DEF Commit, groupVars
  <2> SUFFICES ASSUME NEW q \in Partition, pc[q] = "returned", ~mishap[q], Returned(Owned(owner[q]))
               PROVE  committed'[q] = pos[q]
    BY <2>1 DEF SessionInv, Returned, Owned
  <2>2. q # p
    BY <2>1
  <2> QED BY <2>1, <2>2 DEF SessionInv, IndInv, TypeOK
<1>9. ASSUME NEW c \in Member, Notice(c) \/ Released(c) PROVE SessionInv'
  <2>1. CASE Notice(c)
    BY <2>1, MemberMoves DEF Notice, IndInv, TypeOK
  <2>2. CASE Released(c)
    <3>1. /\ Returned(Owned(c)) /\ UNCHANGED <<owner, pc, pos, marked, committed, mishap>>
          /\ \A d \in Member \ {c} : session'[d] = session[d]
      BY <2>2 DEF Released, IndInv, TypeOK
    <3>2. \A p \in Partition : owner[p] = c => pc[p] = "returned"
      BY <3>1 DEF Returned, Owned
    <3> QED BY <3>1, <3>2, MemberMoves DEF IndInv, TypeOK
  <2> QED BY <1>9, <2>1, <2>2
<1>10. ASSUME NEW c \in Member, AwaitReady(c) \/ Terminate(c) PROVE SessionInv'
  BY <1>1, <1>10, MemberMoves DEF AwaitReady, Terminate, IndInv, TypeOK
<1>11. CASE Consume
  <2>1. /\ \A p \in Partition : owner'[p] \in Joining
        /\ \A c \in Joining : session'[c] \in {"running", "done"}
    BY <1>11 DEF Consume, NewSession, Joining
  <2>2. \A p \in Partition : pc'[p] = "select" /\ marked'[p] = pos'[p]
    BY <1>11 DEF Consume, NewSession
  <2> QED BY <2>1, <2>2 DEF SessionInv
<1> QED BY <1>2, <1>3, <1>4, <1>5, <1>6, <1>7, <1>8, <1>9, <1>10, <1>11, ReturnLeaves
        DEF Next, Work, ClaimStep, MemberStep

LEMMA InductiveSessions == Spec => [](IndInv /\ SessionInv)
<1>1. Init => SessionInv
  BY DEF Init, SessionInv
<1> QED BY <1>1, Initially, Step, SessionStep, PTL DEF Spec

-----------------------------------------------------------------------------
(* What printMessage made of the messages it has seen.                     *)

\* HandleShiftKey and HandleSyncEvent were called for the handled messages that
\* pass printMessage's tests, and for no others.
EventInv ==
    \A p \in Partition :
        /\ pos[p] <= Len(log[p]) /\ handled[p] \subseteq DOMAIN log[p]
        /\ \A i \in Nat : <<p, i>> \in shifts \cup syncs => i \in handled[p]
        /\ \A i \in handled[p] :
              /\ <<p, i>> \in shifts <=> Readable(log[p][i]) /\ IsLastOfSet(p, log[p][i])
              /\ <<p, i>> \in syncs  <=> Readable(log[p][i]) /\ HasSource(log[p][i])

StreamOK == SP!StreamInv

LEMMA StreamInitially == Init => StreamOK
<1>1. Stream!Init => SP!Init
  BY DEF Stream!Init, SP!Init
<1> QED BY <1>1, SP!InitKeeps, PartitionAssumption, NoSetAssumption DEF Init, StreamOK, MessageSet, SP!MessageSet

LEMMA StreamIsNext ==
    ASSUME [Next]_vars
    PROVE  SP!Next \/ UNCHANGED <<log, last, sent>>
<1>1. Stream!Next => SP!Next
  BY DEF Stream!Next, SP!Next, Stream!Send, SP!Send, Stream!Repeat, SP!Repeat, Stream!MsgsetHdrVal, SP!MsgsetHdrVal,
     Stream!SendTo, SP!SendTo, Stream!FirstSet, SP!FirstSet, Stream!SetAfter, SP!SetAfter,
     Stream!PartitionChanged, SP!PartitionChanged
<1>2. Stream!Next \/ UNCHANGED streamVars
  BY DEF Next, Work, ClaimStep, MemberStep, Produced, Take, PrintMessage, Mark, Return, TakeNil, Dies, Consume,
     NewSession, Commit, SessionEnds, Notice, Killed, Released, AwaitReady, Terminate, vars
<1> QED BY <1>1, <1>2 DEF streamVars

LEMMA StreamStep ==
    ASSUME StreamOK, [Next]_vars
    PROVE  StreamOK'
BY StreamIsNext, SP!StepKeeps, PartitionAssumption, NoSetAssumption DEF StreamOK, MessageSet, SP!MessageSet

\* The log only grows.
LEMMA LogKeeps ==
    ASSUME StreamOK, [Next]_vars, NEW p \in Partition
    PROVE  /\ DOMAIN log[p] = 1 .. Len(log[p]) /\ Len(log[p]) \in Nat
           /\ Len(log[p]) <= Len(log'[p])
           /\ \A i \in DOMAIN log[p] : i \in DOMAIN log'[p] /\ log'[p][i] = log[p][i]
<1>1. SP!Next \/ UNCHANGED <<log, last, sent>>
  BY StreamIsNext
<1>2. StreamOK'
  BY StreamStep
<1>3. \A i \in DOMAIN log[p] : i \in DOMAIN log'[p] /\ log'[p][i] = log[p][i]
  <2>1. CASE SP!Next
    BY <2>1, SP!LogGrows, PartitionAssumption, NoSetAssumption DEF StreamOK, MessageSet, SP!MessageSet
  <2>2. CASE UNCHANGED <<log, last, sent>>
    BY <2>2
  <2> QED BY <1>1, <2>1, <2>2
<1>4. log[p] \in Seq(SP!Streamed) /\ log'[p] \in Seq(SP!Streamed)
  BY <1>2 DEF StreamOK, SP!StreamInv, SP!Typed
<1>5. /\ DOMAIN log[p] = 1 .. Len(log[p]) /\ Len(log[p]) \in Nat
      /\ DOMAIN log'[p] = 1 .. Len(log'[p]) /\ Len(log'[p]) \in Nat
  BY <1>4, LenProperties
<1>6. Len(log[p]) <= Len(log'[p])
  BY <1>3, <1>5
<1> QED BY <1>3, <1>5, <1>6

LEMMA EventStep ==
    ASSUME IndInv, StreamOK, EventInv, [Next]_vars
    PROVE  EventInv'
<1>1. ASSUME NEW p \in Partition
      PROVE  /\ DOMAIN log[p] = 1 .. Len(log[p]) /\ Len(log[p]) \in Nat /\ Len(log'[p]) \in Nat
             /\ DOMAIN log'[p] = 1 .. Len(log'[p])
             /\ Len(log[p]) <= Len(log'[p]) /\ pos[p] \in Nat
             /\ \A i \in DOMAIN log[p] : i \in DOMAIN log'[p] /\ log'[p][i] = log[p][i]
  BY LogKeeps DEF IndInv, TypeOK
\* Offsets move within the log.
<1>2. ASSUME NEW p \in Partition PROVE pos'[p] <= Len(log'[p])
  <2>1. pos[p] <= Len(log[p])
    BY DEF EventInv
  <2>2. CASE pos'[p] = pos[p]
    BY <1>1, <2>1, <2>2
  <2>3. ASSUME NEW q \in Partition, Take(q) PROVE pos'[p] <= Len(log'[p])
    <3>1. CASE p = q
      BY <1>1, <2>3, <3>1 DEF Take, IndInv, TypeOK
    <3>2. CASE p # q
      BY <2>2, <2>3, <3>2 DEF Take, IndInv, TypeOK
    <3> QED BY <3>1, <3>2
  <2>4. CASE Consume
    <3>1. pos'[p] = committed[p] /\ committed[p] <= marked[p] /\ marked[p] <= pos[p]
          /\ committed[p] \in Nat /\ marked[p] \in Nat
      BY <2>4 DEF Consume, NewSession, IndInv, TypeOK, ProgressInv
    <3> QED BY <1>1, <2>1, <3>1
  <2>5. ~Consume /\ (\A q \in Partition : ~Take(q)) => pos' = pos
    BY DEF Next, Work, ClaimStep, MemberStep, Produced, PrintMessage, Mark, Return, TakeNil, Dies,
       Commit, SessionEnds, Notice, Killed, Released, AwaitReady, Terminate, vars
  <2> QED BY <2>2, <2>3, <2>4, <2>5
<1>3. ASSUME UNCHANGED eventVars PROVE EventInv'
  <2> SUFFICES ASSUME NEW p \in Partition
               PROVE  /\ handled[p] \subseteq DOMAIN log'[p]
                      /\ \A i \in Nat : <<p, i>> \in shifts \cup syncs => i \in handled[p]
                      /\ \A i \in handled[p] :
                            /\ <<p, i>> \in shifts <=> Readable(log'[p][i]) /\ IsLastOfSet(p, log'[p][i])
                            /\ <<p, i>> \in syncs  <=> Readable(log'[p][i]) /\ HasSource(log'[p][i])
    BY <1>2, <1>3 DEF EventInv, eventVars, Readable, MarshalBinary, IsLastOfSet, HasSource
  <2> QED BY <1>1 DEF EventInv
<1>4. ASSUME NEW p \in Partition, PrintMessage(p) PROVE EventInv'
  <2> DEFINE at == pos[p]
             m  == log[p][at]
  <2>1. /\ handled' = [handled EXCEPT ![p] = @ \cup {at}]
        /\ shifts' = (IF Readable(m) /\ IsLastOfSet(p, m) THEN shifts \cup {<<p, at>>} ELSE shifts)
        /\ syncs'  = (IF Readable(m) /\ HasSource(m) THEN syncs \cup {<<p, at>>} ELSE syncs)
        /\ log' = log /\ pos' = pos
    BY <1>4 DEF PrintMessage, streamVars
  <2>2. at \in DOMAIN log[p]
    <3>1. at # 0 /\ at <= Len(log[p]) /\ at \in Nat
      BY <1>4 DEF PrintMessage, IndInv, TypeOK, ProgressInv, EventInv
    <3> QED BY <1>1, <3>1
  <2>3. ASSUME NEW q \in Partition
        PROVE  handled'[q] = handled[q] \cup (IF q = p THEN {at} ELSE {})
    BY <2>1 DEF IndInv, TypeOK
  <2> HIDE DEF at, m
  <2> SUFFICES ASSUME NEW q \in Partition
               PROVE  /\ handled'[q] \subseteq DOMAIN log[q]
                      /\ \A i \in Nat : <<q, i>> \in shifts' \cup syncs' => i \in handled'[q]
                      /\ \A i \in handled'[q] :
                            /\ <<q, i>> \in shifts' <=> Readable(log[q][i]) /\ IsLastOfSet(q, log[q][i])
                            /\ <<q, i>> \in syncs'  <=> Readable(log[q][i]) /\ HasSource(log[q][i])
    BY <1>2, <2>1 DEF EventInv, Readable, MarshalBinary, IsLastOfSet, HasSource
  <2>4. /\ handled[q] \subseteq DOMAIN log[q]
        /\ \A i \in Nat : <<q, i>> \in shifts \cup syncs => i \in handled[q]
        /\ \A i \in handled[q] :
              /\ <<q, i>> \in shifts <=> Readable(log[q][i]) /\ IsLastOfSet(q, log[q][i])
              /\ <<q, i>> \in syncs  <=> Readable(log[q][i]) /\ HasSource(log[q][i])
    BY DEF EventInv
  <2>5. handled'[q] \subseteq DOMAIN log[q]
    BY <2>2, <2>3, <2>4
  <2>6. ASSUME NEW i \in Nat, <<q, i>> \in shifts' \cup syncs' PROVE i \in handled'[q]
    BY <2>1, <2>3, <2>4, <2>6
  <2>7. ASSUME NEW i \in handled'[q]
        PROVE  /\ <<q, i>> \in shifts' <=> Readable(log[q][i]) /\ IsLastOfSet(q, log[q][i])
               /\ <<q, i>> \in syncs'  <=> Readable(log[q][i]) /\ HasSource(log[q][i])
    <3>1. CASE q = p /\ i = at
      <4>1. m = log[q][i]
        BY <3>1 DEF m
      <4>2. i \in Nat
        BY <2>2, <1>1, <3>1
      <4>3. CASE i \in handled[q]
        BY <2>1, <2>4, <3>1, <4>1, <4>3
      <4>4. CASE i \notin handled[q]
        <5>1. <<q, i>> \notin shifts \cup syncs
          BY <2>4, <4>2, <4>4
        <5> QED BY <2>1, <3>1, <4>1, <5>1
      <4> QED BY <4>3, <4>4
    <3>2. CASE ~(q = p /\ i = at)
      <4>1. i \in handled[q]
        BY <2>3, <3>2
      <4>2. <<q, i>> # <<p, at>>
        BY <3>2
      <4> QED BY <2>1, <2>4, <4>1, <4>2
    <3> QED BY <3>1, <3>2
  <2> QED BY <2>5, <2>6, <2>7
<1>5. (\A p \in Partition : ~PrintMessage(p)) => UNCHANGED eventVars
  BY DEF Next, Work, ClaimStep, MemberStep, Produced, Take, Mark, Return, TakeNil, Dies, Consume, NewSession,
     Commit, SessionEnds, Notice, Killed, Released, AwaitReady, Terminate, vars
<1> QED BY <1>3, <1>4, <1>5

LEMMA InductiveEvents == Spec => [](IndInv /\ StreamOK /\ EventInv)
<1>1. Init => EventInv
  <2> SUFFICES ASSUME Init PROVE EventInv
    OBVIOUS
  <2>1. \A p \in Partition : pos[p] = 0 /\ handled[p] = {} /\ Len(log[p]) = 0
    BY DEF Init, Stream!Init
  <2> QED BY <2>1 DEF Init, EventInv
<1> QED BY <1>1, Initially, Step, StreamInitially, StreamStep, EventStep, PTL DEF Spec

\* A header of a key of one word can be read.
LEMMA OneWordDecodes ==
    ASSUME NEW m \in SP!Streamed, m.key \in Decodes
    PROVE  Readable(m)
<1> DEFINE w == Words[m.key]
           W == {w[i] : i \in DOMAIN w} \cup Int
           h == <<m.set.SrcPartition, m.set.SrcMsgsetIndex, m.set.DestPartition, m.set.DestMsgsetIndex>>
<1>1. m.key \in Key /\ m.set \in MessageSet
  BY DEF SP!Streamed, SP!MessageSet, MessageSet
<1>2. w \in Seq(W) /\ Len(w) = 1
  <2>1. w \in Seq({w[i] : i \in DOMAIN w}) /\ Len(w) = 1
    BY <1>1, WordsAssumption DEF Decodes
  <2> QED BY <2>1
<1>3. h \in Seq(W) /\ Len(h) = 4
  <2>1. /\ m.set.SrcPartition \in Int /\ m.set.SrcMsgsetIndex \in Int
        /\ m.set.DestPartition \in Int /\ m.set.DestMsgsetIndex \in Int
    <3>1. PICK s \in MessageSet : s = m.set
      BY <1>1
    <3>2. s.SrcPartition \in Partition \cup {-1} /\ s.SrcMsgsetIndex \in Int
          /\ s.DestPartition \in Partition /\ s.DestMsgsetIndex \in Nat
      BY DEF MessageSet
    <3>3. \A x : x \in Partition => x \in Int
      BY PartitionAssumption
    <3>4. s.SrcPartition \in Int /\ s.SrcMsgsetIndex \in Int /\ s.DestPartition \in Int /\ s.DestMsgsetIndex \in Int
      BY <3>2, <3>3
    <3> QED BY <3>1, <3>4
  <2>2. m.set.SrcPartition \in W /\ m.set.SrcMsgsetIndex \in W /\ m.set.DestPartition \in W /\ m.set.DestMsgsetIndex \in W
    BY <2>1
  <2> HIDE DEF W
  <2> QED BY <2>2
<1> HIDE DEF W, h, w
<1>4. Len(w \o h) = Len(w) + Len(h)
  <2>1. ASSUME NEW S, NEW s \in Seq(S), NEW t \in Seq(S) PROVE Len(s \o t) = Len(s) + Len(t)
    BY <2>1, ConcatProperties
  <2> QED BY <1>2, <1>3, <2>1
<1>5. MarshalBinary(m) = w \o h
  BY DEF MarshalBinary, w, h
<1>6. m.set # NoSet
  BY <1>1, NoSetAssumption
<1> QED BY <1>2, <1>3, <1>4, <1>5, <1>6 DEF Readable

-----------------------------------------------------------------------------
(* What keeps the group moving.                                            *)

\* Whoever joins finds the group forming, and a main waits for the session it
\* joins.  Only a main told to stop has left or has a session that ended without
\* a rebalance, and some member was not told.
MembersInv ==
    \A c \in Member :
        /\ session[c] = "joining" => rebalancing
        /\ session[c] = "done" /\ ~rebalancing => main[c] = "stopping"
        /\ main[c] = "waiting" => session[c] = "joining"
        /\ main[c] = "stopping" => session[c] # "running"
        /\ session[c] = "left" => main[c] = "stopping"
        /\ \E d \in Member : main[d] # "stopping"

\* While the session runs so does the claim, and a formed group has an owner for it.
OwnersInv ==
    \A p \in Partition :
        /\ session[owner[p]] = "running" => pc[p] # "returned"
        /\ rebalancing \/ session[owner[p]] \in {"running", "done"}

GroupInv == MembersInv /\ OwnersInv

\* A step of one member: the others are as they were.
LEMMA OneMember ==
    ASSUME IndInv, MembersInv, NEW c \in Member, rebalancing => rebalancing',
           \A d \in Member \ {c} : session'[d] = session[d] /\ main'[d] = main[d],
           session'[c] = "joining" => rebalancing',
           session'[c] = "done" /\ ~rebalancing' => main'[c] = "stopping",
           main'[c] = "waiting" => session'[c] = "joining",
           main'[c] = "stopping" => session'[c] # "running",
           session'[c] = "left" => main'[c] = "stopping",
           \E d \in Member : main'[d] # "stopping"
    PROVE  MembersInv'
<1> SUFFICES ASSUME NEW d \in Member
             PROVE  /\ session'[d] = "joining" => rebalancing'
                    /\ session'[d] = "done" /\ ~rebalancing' => main'[d] = "stopping"
                    /\ main'[d] = "waiting" => session'[d] = "joining"
                    /\ main'[d] = "stopping" => session'[d] # "running"
                    /\ session'[d] = "left" => main'[d] = "stopping"
  BY DEF MembersInv
<1>1. CASE d = c
  BY <1>1
<1>2. CASE d # c
  <2>1. session'[d] = session[d] /\ main'[d] = main[d]
    BY <1>2
  <2> QED BY <2>1 DEF MembersInv
<1> QED BY <1>1, <1>2

LEMMA DiesGroup ==
    ASSUME IndInv, GroupInv, NEW c \in Member, Dies(c)
    PROVE  GroupInv'
<1>1. /\ rebalancing' = TRUE
      /\ pc' = [p \in Partition |-> IF owner[p] = c THEN "returned" ELSE pc[p]]
      /\ UNCHANGED owner
      /\ \A d \in Member \ {c} : session'[d] = session[d] /\ main'[d] = main[d]
  BY DEF Dies, IndInv, TypeOK
<1>2. \/ main[c] = "stopping" /\ session'[c] = "left" /\ main' = main
      \/ main[c] # "stopping" /\ session'[c] = "joining" /\ main'[c] = "start"
  BY DEF Dies, IndInv, TypeOK
<1>3. MembersInv'
  <2>1. \E d \in Member : main'[d] # "stopping"
    BY <1>2 DEF GroupInv, MembersInv
  <2> QED BY <1>1, <1>2, <2>1, OneMember DEF GroupInv
<1>4. OwnersInv'
  <2> SUFFICES ASSUME NEW p \in Partition, session'[owner[p]] = "running" PROVE pc'[p] # "returned"
    BY <1>1 DEF OwnersInv
  <2>1. owner[p] # c
    BY <1>2
  <2>2. session'[owner[p]] = session[owner[p]] /\ pc'[p] = pc[p]
    BY <1>1, <2>1 DEF IndInv, TypeOK
  <2> QED BY <2>2 DEF GroupInv, OwnersInv
<1> QED BY <1>3, <1>4 DEF GroupInv

LEMMA ConsumeGroup ==
    ASSUME IndInv, GroupInv, Consume
    PROVE  GroupInv'
<1>1. /\ rebalancing' = FALSE
      /\ \A c \in Member :
            /\ session[c] \in {"joining", "left"}
            /\ session'[c] = IF session[c] = "left" THEN "left"
                             ELSE IF main[c] = "stopping" THEN "done" ELSE "running"
            /\ main'[c] = IF main[c] = "waiting" THEN "up" ELSE main[c]
      /\ \A p \in Partition : owner'[p] \in Joining /\ pc'[p] = "select"
  BY DEF Consume, NewSession
<1>2. MembersInv'
  <2> SUFFICES ASSUME NEW c \in Member
               PROVE  /\ session'[c] # "joining"
                      /\ session'[c] = "done" => main'[c] = "stopping"
                      /\ main'[c] # "waiting"
                      /\ main'[c] = "stopping" => session'[c] # "running"
                      /\ session'[c] = "left" => main'[c] = "stopping"
                      /\ \E d \in Member : main'[d] # "stopping"
    BY DEF MembersInv
  <2>1. session'[c] # "joining" /\ main'[c] # "waiting"
    BY <1>1
  <2>2. /\ session'[c] = "done" => main'[c] = "stopping"
        /\ main'[c] = "stopping" => session'[c] # "running"
    BY <1>1
  <2>3. session'[c] = "left" => main'[c] = "stopping"
    BY <1>1 DEF GroupInv, MembersInv
  <2>4. \E d \in Member : main'[d] # "stopping"
    BY <1>1 DEF GroupInv, MembersInv
  <2> QED BY <2>1, <2>2, <2>3, <2>4
<1>3. OwnersInv'
  BY <1>1 DEF OwnersInv, Joining
<1> QED BY <1>2, <1>3 DEF GroupInv

\* The claims alone: none of a running session returns.
LEMMA ClaimGroup ==
    ASSUME IndInv, GroupInv, UNCHANGED <<rebalancing, session, main, owner>>,
           \A p \in Partition : pc'[p] = "returned" => pc[p] = "returned" \/ session[owner[p]] = "done"
    PROVE  GroupInv'
<1>1. MembersInv'
  BY DEF GroupInv, MembersInv
<1>2. OwnersInv'
  BY DEF GroupInv, OwnersInv
<1> QED BY <1>1, <1>2 DEF GroupInv

\* A member's steps outside its claims.
LEMMA MemberGroup ==
    ASSUME IndInv, GroupInv, NEW c \in Member,
           Notice(c) \/ Released(c) \/ AwaitReady(c) \/ Terminate(c)
    PROVE  GroupInv'
<1>1. /\ UNCHANGED <<owner, pc>> /\ (rebalancing => rebalancing')
      /\ \A d \in Member \ {c} : session'[d] = session[d] /\ main'[d] = main[d]
  BY DEF Notice, Released, AwaitReady, Terminate, IndInv, TypeOK
<1>2. CASE Notice(c)
  <2>1. rebalancing' /\ session[c] = "running" /\ session'[c] = "done" /\ UNCHANGED main
    BY <1>2 DEF Notice, IndInv, TypeOK
  <2>2. MembersInv'
    BY <1>1, <2>1, OneMember DEF GroupInv, MembersInv
  <2>3. OwnersInv'
    BY <1>1, <2>1 DEF GroupInv, OwnersInv, IndInv, TypeOK
  <2> QED BY <2>2, <2>3 DEF GroupInv
<1>3. CASE Released(c)
  <2>1. session[c] = "done" /\ UNCHANGED main
    BY <1>3 DEF Released
  <2>2. \/ main[c] = "stopping" /\ session'[c] = "left" /\ rebalancing'
        \/ main[c] # "stopping" /\ session'[c] = "joining" /\ rebalancing'
    BY <1>3, <2>1 DEF Released, IndInv, TypeOK, GroupInv, MembersInv
  <2>3. MembersInv'
    BY <1>1, <2>1, <2>2, OneMember DEF GroupInv, MembersInv
  <2>4. OwnersInv'
    BY <1>1, <2>1, <2>2 DEF GroupInv, OwnersInv, IndInv, TypeOK
  <2> QED BY <2>3, <2>4 DEF GroupInv
<1>4. CASE AwaitReady(c)
  <2>1. /\ main[c] = "start" /\ UNCHANGED <<rebalancing, session>>
        /\ main'[c] = IF session[c] \in {"running", "done"} THEN "up" ELSE "waiting"
    BY <1>4 DEF AwaitReady, IndInv, TypeOK
  <2>2. session[c] # "left" /\ (session[c] = "done" => rebalancing)
    BY <2>1 DEF GroupInv, MembersInv
  <2>3. session[c] \in {"joining", "running", "done", "left"}
    BY DEF IndInv, TypeOK
  <2>4. main'[c] # "stopping" /\ (main'[c] = "waiting" => session'[c] = "joining")
    BY <2>1, <2>2, <2>3
  <2>5. MembersInv'
    BY <1>1, <2>1, <2>2, <2>4, OneMember DEF GroupInv, MembersInv
  <2>6. OwnersInv'
    BY <1>1, <2>1 DEF GroupInv, OwnersInv
  <2> QED BY <2>5, <2>6 DEF GroupInv
<1>5. CASE Terminate(c)
  <2>1. /\ main[c] = "up" /\ main'[c] = "stopping" /\ UNCHANGED rebalancing
        /\ session'[c] = IF session[c] = "running" THEN "done" ELSE session[c]
        /\ \E d \in Member \ {c} : main[d] # "stopping"
    BY <1>5 DEF Terminate, IndInv, TypeOK
  <2>2. \E d \in Member : main'[d] # "stopping"
    BY <1>1, <2>1
  <2>3. /\ session'[c] = "joining" => rebalancing'
        /\ session'[c] # "running"
    BY <2>1 DEF GroupInv, MembersInv
  <2>4. MembersInv'
    BY <1>1, <2>1, <2>2, <2>3, OneMember DEF GroupInv
  <2>5. ASSUME NEW p \in Partition
        PROVE  /\ session'[owner[p]] = "running" => session[owner[p]] = "running"
               /\ session[owner[p]] \in {"running", "done"} => session'[owner[p]] \in {"running", "done"}
    <3>1. owner[p] \in Member
      BY DEF IndInv, TypeOK
    <3>2. CASE owner[p] = c
      BY <2>1, <3>2
    <3>3. CASE owner[p] # c
      BY <1>1, <3>1, <3>3
    <3> QED BY <3>2, <3>3
  <2>6. OwnersInv'
    BY <1>1, <2>1, <2>5 DEF GroupInv, OwnersInv
  <2> QED BY <2>4, <2>6 DEF GroupInv
<1> QED BY <1>2, <1>3, <1>4, <1>5

LEMMA GroupStep ==
    ASSUME IndInv, GroupInv, [Next]_vars
    PROVE  GroupInv'
<1>1. CASE Produced \/ UNCHANGED vars
  BY <1>1, ClaimGroup DEF Produced, vars, groupVars
<1>2. ASSUME NEW p \in Partition, Take(p) \/ PrintMessage(p) \/ Mark(p) \/ Return(p) \/ Commit(p)
      PROVE  GroupInv'
  <2>1. UNCHANGED <<rebalancing, session, main, owner>>
    BY <1>2 DEF Take, PrintMessage, Mark, Return, Commit, groupVars
  <2>2. \A q \in Partition : pc'[q] = "returned" => pc[q] = "returned" \/ session[owner[q]] = "done"
    BY <1>2 DEF Take, PrintMessage, Mark, Return, Commit, IndInv, TypeOK
  <2> QED BY <2>1, <2>2, ClaimGroup
<1>3. ASSUME NEW p \in Partition, TakeNil(p) PROVE GroupInv'
  BY <1>3, DiesGroup DEF TakeNil, IndInv, TypeOK
<1>4. ASSUME NEW c \in Member, Killed(c) PROVE GroupInv'
  BY <1>4, DiesGroup DEF Killed
<1>5. CASE SessionEnds
  <2>1. rebalancing' /\ UNCHANGED <<session, main, owner, pc>>
    BY <1>5 DEF SessionEnds
  <2>2. MembersInv'
    BY <2>1 DEF GroupInv, MembersInv
  <2>3. OwnersInv'
    BY <2>1 DEF GroupInv, OwnersInv
  <2> QED BY <2>2, <2>3 DEF GroupInv
<1> QED BY <1>1, <1>2, <1>3, <1>4, <1>5, MemberGroup, ConsumeGroup DEF Next, Work, ClaimStep, MemberStep

LEMMA InductiveGroup == Spec => [](IndInv /\ GroupInv)
<1>1. Init => GroupInv
  <2> SUFFICES ASSUME Init PROVE GroupInv
    OBVIOUS
  <2>1. MembersInv
    BY DEF Init, MembersInv
  <2>2. OwnersInv
    BY DEF Init, OwnersInv
  <2> QED BY <2>1, <2>2 DEF GroupInv
<1> QED BY <1>1, Initially, Step, GroupStep, PTL DEF Spec

-----------------------------------------------------------------------------
(* The theorems.                                                           *)

\* Type correctness.
THEOREM TypeCorrect == Spec => []TypeOK
<1>1. IndInv => TypeOK
  BY DEF IndInv
<1> QED BY <1>1, Inductive, PTL

\* At least once: whatever sessions end and members die between taking, printing,
\* marking and committing, nothing unhandled is committed.
THEOREM AtLeastOnce == Spec => []CommittedIsHandled
<1>1. IndInv => CommittedIsHandled
  <2> SUFFICES ASSUME IndInv, NEW p \in Partition PROVE 1 .. committed[p] \subseteq handled[p]
    BY DEF CommittedIsHandled
  <2>1. {marked[p], committed[p]} \subseteq Nat /\ committed[p] <= marked[p]
        /\ 1 .. marked[p] \subseteq handled[p]
    BY DEF IndInv, TypeOK, ProgressInv
  <2> QED BY <2>1
<1> QED BY <1>1, Inductive, PTL

\* Where a partition is delivered again from, its owner died or failed to commit:
\* a new session starts where the last one, if it ended well, stopped.
THEOREM RedeliveryTheorem == Spec => RedeliveryNeedsMishap
<1>1. ASSUME IndInv, SessionInv, [Next]_vars, NEW p \in Partition, pos'[p] < pos[p]
      PROVE  mishap[p]
  <2>1. pos[p] \in Nat
    BY <1>1 DEF IndInv, TypeOK
  <2>2. CASE Consume
    <3>1. session[owner[p]] \in {"joining", "left"} /\ pos'[p] = committed[p]
      BY <1>1, <2>2 DEF Consume, NewSession, IndInv, TypeOK
    <3>2. \A q \in Partition : pc[q] = "returned"
      BY <1>1, <2>2 DEF Consume, NewSession, SessionInv, IndInv, TypeOK
    <3>3. Returned(Owned(owner[p]))
      BY <3>2 DEF Returned, Owned
    <3> QED BY <1>1, <2>1, <3>1, <3>2, <3>3 DEF SessionInv
  <2>3. CASE \E q \in Partition : Take(q)
    BY <1>1, <2>1, <2>3 DEF Take, IndInv, TypeOK
  <2>4. ~Consume /\ (\A q \in Partition : ~Take(q)) => pos' = pos
    BY <1>1 DEF Next, Work, ClaimStep, MemberStep, Produced, PrintMessage, Mark, Return, TakeNil, Dies,
       Commit, SessionEnds, Notice, Killed, Released, AwaitReady, Terminate, vars
  <2> QED BY <1>1, <2>1, <2>2, <2>3, <2>4
<1>2. IndInv /\ SessionInv /\ [Next]_vars => [\A p \in Partition : pos'[p] < pos[p] => mishap[p]]_vars
  BY <1>1
<1> QED BY <1>2, InductiveSessions, PTL DEF Spec, RedeliveryNeedsMishap

\* HandleShiftKey is called for exactly the messages that end a set, although
\* the test compares partitions only: whatever members die and sessions end, a
\* message it was called for is followed by one of a higher set, and a message
\* that is followed by one of a higher set had it called.
THEOREM ShiftsTheorem == Spec => []ShiftsAreSetEnds
<1>1. ASSUME IndInv, StreamOK, EventInv,
             NEW p \in Partition, NEW q \in Partition, NEW i \in handled[p], NEW j \in DOMAIN log[q],
             log[p][i].key = log[q][j].key, log[q][j].seq = log[p][i].seq + 1, log[p][i].key \in Decodes
      PROVE  <<p, i>> \in shifts <=> IndexOn(p, log[p][i]) < IndexOn(q, log[q][j])
  <2>1. i \in DOMAIN log[p] /\ (<<p, i>> \in shifts <=> Readable(log[p][i]) /\ IsLastOfSet(p, log[p][i]))
    BY <1>1 DEF EventInv
  <2>2. PICK m \in SP!Streamed : m = log[p][i]
    BY <1>1, <2>1 DEF StreamOK, SP!StreamInv, SP!Typed
  <2>4. IndexOn(q, log[q][j]) = m.set.DestMsgsetIndex
    BY <1>1, <2>1, <2>2 DEF StreamOK, SP!StreamInv, SP!Consecutive, SP!IndexOn, IndexOn
  <2>5. SP!Leads(m.set)
    BY <1>1, <2>1, <2>2 DEF StreamOK, SP!StreamInv, SP!Linked
  <2>6. m.set.DestMsgsetIndex \in Nat
    BY <2>2 DEF SP!Streamed, SP!MessageSet
  <2>7. p # m.set.DestPartition => p = m.set.SrcPartition
    BY <1>1, <2>1, <2>2 DEF StreamOK, SP!StreamInv, SP!Linked
  <2>8. Readable(m)
    BY <1>1, <2>2, OneWordDecodes
  <2>9. IsLastOfSet(p, m) <=> IndexOn(p, m) < m.set.DestMsgsetIndex
    BY <2>5, <2>6, <2>7, PartitionAssumption DEF SP!Leads, IsLastOfSet, IndexOn
  <2> QED BY <2>1, <2>2, <2>4, <2>8, <2>9
<1>2. IndInv /\ StreamOK /\ EventInv => ShiftsAreSetEnds
  BY <1>1 DEF ShiftsAreSetEnds
<1> QED BY <1>2, InductiveEvents, PTL

\* HandleSyncEvent is called for exactly the messages of sets that continue another
\* set, the message that ends that other set, still on its partition, included.
\* That ending message is in the log, on the partition the event names.
THEOREM SyncsTheorem == Spec => []SyncsFollowAShift
<1>1. ASSUME IndInv, StreamOK, EventInv, NEW p \in Partition, NEW i \in handled[p], log[p][i].key \in Decodes
      PROVE  LET m == log[p][i]
             IN  <<p, i>> \in syncs <=>
                    \E q \in Partition : /\ q = m.set.SrcPartition
                                         /\ \E j \in DOMAIN log[q] :
                                               log[q][j].key = m.key /\ log[q][j].set = m.set /\ log[q][j].seq <= m.seq
  <2>1. i \in DOMAIN log[p] /\ (<<p, i>> \in syncs <=> Readable(log[p][i]) /\ HasSource(log[p][i]))
    BY <1>1 DEF EventInv
  <2>2. PICK m \in SP!Streamed : m = log[p][i]
    BY <1>1, <2>1 DEF StreamOK, SP!StreamInv, SP!Typed
  <2>4. SP!Leads(m.set)
    BY <1>1, <2>1, <2>2 DEF StreamOK, SP!StreamInv, SP!Linked
  <2>5. Readable(m)
    BY <1>1, <2>2, OneWordDecodes
  <2>6. CASE m.set.SrcPartition = -1
    <3>1. ~HasSource(m) /\ m.set.SrcPartition \notin Partition
      BY <2>6, PartitionAssumption DEF HasSource
    <3> QED BY <2>1, <2>2, <3>1
  <2>7. CASE m.set.SrcPartition # -1
    <3>1. m.set.SrcPartition \in Partition /\ HasSource(m)
      <4>1. m.set.SrcPartition \in Partition /\ m.set.SrcMsgsetIndex \in Nat
        BY <2>4, <2>7 DEF SP!Leads
      <4>2. m.set.SrcPartition \in Nat
        BY <4>1, PartitionAssumption
      <4> QED BY <4>1, <4>2 DEF HasSource
    <3>2. \E j \in DOMAIN log[m.set.SrcPartition] :
             LET n == log[m.set.SrcPartition][j]
             IN  n.key = m.key /\ n.set = m.set /\ n.seq <= m.seq
      BY <1>1, <2>1, <2>2, <2>7 DEF StreamOK, SP!StreamInv, SP!Announced, SP!ToldBy
    <3> QED BY <2>1, <2>2, <2>5, <3>1, <3>2
  <2> QED BY <2>6, <2>7
<1>2. IndInv /\ StreamOK /\ EventInv => SyncsFollowAShift
  BY <1>1 DEF SyncsFollowAShift
<1> QED BY <1>2, InductiveEvents, PTL

\* The group never settles with work undone: where no claim, member or main has a
\* step to take and the group cannot form, every message of the log is handled and
\* every main is past `<-consumer.ready' or has left.  (That the group comes to
\* rest is liveness.)
THEOREM RestTheorem == Spec => []RestIsEarned
<1>1. ASSUME IndInv, GroupInv, AtRest, NEW c \in Member
      PROVE  ~rebalancing
  <2> SUFFICES ASSUME rebalancing PROVE FALSE
    OBVIOUS
  <2>1. ASSUME NEW d \in Member PROVE session[d] \in {"joining", "left"}
    <3>1. session[d] # "running" /\ (session[d] = "done" => ~Returned(Owned(d)))
      BY <1>1 DEF AtRest
    <3>2. session[d] # "done"
      <4> SUFFICES ASSUME session[d] = "done" PROVE FALSE
        OBVIOUS
      <4>1. PICK p \in Partition : owner[p] = d /\ pc[p] # "returned"
        BY <3>1 DEF Returned, Owned
      <4>2. pc[p] = "select"
        BY <1>1, <4>1 DEF AtRest, IndInv, TypeOK
      <4> QED BY <1>1, <4>1, <4>2 DEF AtRest
    <3> QED BY <1>1, <3>1, <3>2 DEF IndInv, TypeOK
  <2>2. Joining = {}
    BY <1>1, <2>1 DEF AtRest
  <2>3. \A d \in Member : main[d] = "stopping"
    BY <1>1, <2>1, <2>2 DEF Joining, GroupInv, MembersInv
  <2> QED BY <1>1, <2>3 DEF GroupInv, MembersInv
\* So every session runs, or its main was told to stop and has left.
<1>2. ASSUME IndInv, GroupInv, AtRest, NEW c \in Member
      PROVE  /\ session[c] \in {"running", "left"}
             /\ main[c] = "up" \/ session[c] = "left"
  <2>1. ~rebalancing
    BY <1>1, <1>2
  <2>2. session[c] # "joining" /\ main[c] # "start" /\ main[c] # "waiting"
        /\ (main[c] = "stopping" => session[c] # "running")
    BY <1>2, <2>1 DEF GroupInv, MembersInv, AtRest
  <2>3. session[c] # "done"
    <3> SUFFICES ASSUME session[c] = "done" PROVE FALSE
      OBVIOUS
    <3>1. PICK p \in Partition : owner[p] = c /\ pc[p] # "returned"
      BY <1>2 DEF AtRest, Returned, Owned
    <3>2. pc[p] = "select"
      BY <1>2, <3>1 DEF AtRest, IndInv, TypeOK
    <3> QED BY <1>2, <3>1, <3>2 DEF AtRest
  <2> QED BY <1>2, <2>2, <2>3 DEF IndInv, TypeOK
<1>3. ASSUME IndInv, GroupInv, StreamOK, EventInv, AtRest, NEW p \in Partition
      PROVE  handled[p] = DOMAIN log[p]
  <2>1. owner[p] \in Member
    BY <1>3 DEF IndInv, TypeOK
  <2>2. session[owner[p]] = "running"
    BY <1>1, <1>2, <1>3, <2>1 DEF GroupInv, OwnersInv
  <2>3. pc[p] = "select" /\ pos[p] >= Len(log[p])
    BY <1>3, <2>2 DEF GroupInv, OwnersInv, AtRest, IndInv, TypeOK
  <2>4. log[p] \in Seq(SP!Streamed)
    BY <1>3 DEF StreamOK, SP!StreamInv, SP!Typed
  <2>5. DOMAIN log[p] = 1 .. Len(log[p]) /\ Len(log[p]) \in Nat
    BY <2>4, LenProperties
  <2>6. pos[p] \in Nat /\ pos[p] <= Len(log[p]) /\ 1 .. pos[p] \subseteq handled[p]
        /\ handled[p] \subseteq DOMAIN log[p]
    BY <1>3, <2>3 DEF IndInv, TypeOK, ProgressInv, EventInv
  <2>7. pos[p] = Len(log[p])
    BY <2>3, <2>5, <2>6
  <2> QED BY <2>5, <2>6, <2>7
<1>4. IndInv /\ GroupInv /\ StreamOK /\ EventInv => RestIsEarned
  BY <1>2, <1>3 DEF RestIsEarned
<1> QED BY <1>4, InductiveGroup, InductiveEvents, PTL

=============================================================================
