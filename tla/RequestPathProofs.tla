------------------------- MODULE RequestPathProofs -------------------------
(***************************************************************************)
(* The handlers change nothing about counter, map and Rebalance: what is   *)
(* proved of those alone holds with any number of handlers in front.       *)
(***************************************************************************)
EXTENDS RequestPath, LossyCountProofs

\* A handler that is not idle has a key.
HandlersInv ==
    /\ handlers \in [Handler -> [pc : {"idle", "offer", "lookup"}, key : Key \cup {Nil}]]
    /\ \A h \in Handler : handlers[h].pc # "idle" => handlers[h].key \in Key

LEMMA HandlersInitially == RPInit => HandlersInv
BY DEF RPInit, HandlersInv, Idle

LEMMA HandlersStep == HandlersInv /\ [RPNext]_rpVars => HandlersInv'
<1> SUFFICES ASSUME HandlersInv, [RPNext]_rpVars PROVE HandlersInv'
  OBVIOUS
<1>1. ASSUME NEW h \in Handler, Arrive(h) PROVE HandlersInv'
  <2>1. PICK k \in Key, pc \in {"offer", "lookup"} :
            handlers' = [handlers EXCEPT ![h] = [pc |-> pc, key |-> k]]
    BY <1>1 DEF Arrive
  <2> QED BY <2>1 DEF HandlersInv
<1>2. ASSUME NEW h \in Handler, Offer(h) PROVE HandlersInv'
  BY <1>2 DEF Offer, HandlersInv
<1>3. ASSUME NEW h \in Handler, Lookup(h) PROVE HandlersInv'
  BY <1>3 DEF Lookup, HandlersInv, Idle
<1>4. CASE UNCHANGED handlers
  BY <1>4 DEF HandlersInv
<1> QED BY <1>1, <1>2, <1>3, <1>4 DEF RPNext, rpVars

\* Every step of handlers, counter and Rebalance is one of the counter and
\* Rebalance, or none of theirs.
LEMMA RPStep == HandlersInv /\ [RPNext]_rpVars => [Next]_vars
<1> SUFFICES ASSUME HandlersInv, [RPNext]_rpVars PROVE [Next]_vars
  OBVIOUS
<1>1. ASSUME NEW h \in Handler, Arrive(h) \/ Lookup(h) PROVE UNCHANGED vars
  BY <1>1 DEF Arrive, Lookup
<1>2. ASSUME NEW h \in Handler, Offer(h) PROVE \E k \in Key : Receive(k)
  BY <1>2 DEF Offer, HandlersInv
<1>3. CASE BucketStep \/ (Rebalance /\ UNCHANGED lcVars)
  BY <1>3 DEF Next
<1>4. CASE UNCHANGED rpVars
  BY <1>4 DEF rpVars
<1> QED BY <1>1, <1>2, <1>3, <1>4 DEF RPNext, Next

LEMMA RPInductive == RPSpec => [](IndInv /\ HandlersInv)
<1>1. RPInit => IndInv /\ HandlersInv
  BY Initially, HandlersInitially DEF RPInit
<1> QED BY <1>1, HandlersStep, RPStep, Step, PTL DEF RPSpec

-----------------------------------------------------------------------------

\* What stays counted was counted twice per bucket, whichever handlers hand keys
\* over and when.
THEOREM RPSurvivorsEarnedIt == RPSpec => []SurvivorsArriveTwicePerBucket
<1>1. IndInv => SurvivorsArriveTwicePerBucket
  BY InvSurvivors
<1> QED BY <1>1, RPInductive, PTL

\* A handler that looks a route up finds that of a key the counter tracks.
THEOREM RPNoOrphanRoute == RPSpec => []RoutedKeysAreTracked
<1>1. IndInv => RoutedKeysAreTracked
  BY DEF IndInv
<1> QED BY <1>1, RPInductive, PTL

\* And what handlers see of the table is a route table.
THEOREM RPRefinement == RPSpec => RoutesLikeATable
<1>1. RPInit => RT!Init
  BY InitRefines DEF RPInit
<1> QED BY <1>1, StepRefines, RPStep, RPInductive, PTL DEF RPSpec, RoutesLikeATable, RT!Spec

\* Nor does a request change the weight of its key's route.
THEOREM RPRecordsTheorem == RPSpec => RecordsStay
<1> DEFINE Same == \A k \in Key : keyMap[k] # Nil => keyMap'[k] \in {Nil, keyMap[k]}
<1>1. IndInv /\ [Next]_vars => [Same]_vars
  BY StepKeepsRecords DEF Fixed
<1> QED BY <1>1, RPStep, RPInductive, PTL DEF RPSpec, RecordsStay

LEMMA RPTurns == RPSpec => []TurnInv
<1>1. RPInit => TurnInv
  BY TurnInitially DEF RPInit
<1> QED BY <1>1, RPInductive, RPStep, TurnStep, PTL DEF RPSpec

\* However handlers take turns, no key of theirs that keeps arriving is forgotten.
THEOREM RPForgottenTheorem == RPSpec => ForgottenWereSparse
<1> DEFINE Fair == \A i \in DOMAIN items :
                      ~Tracked(items[i].Key, items') =>
                          arrivals[items[i].Key] < 2 * (currentBucket - items[i].Bucket)
<1>1. TurnInv /\ [Next]_vars => [Fair]_vars
  BY StepForgets DEF Deserved
<1> QED BY <1>1, RPStep, RPInductive, RPTurns, PTL DEF RPSpec, ForgottenWereSparse

\* And the hot keys of theirs are routed when a turn is over.
THEOREM RPHotTheorem == RPSpec => []HotKeysAreRouted
<1>1. TurnInv => HotKeysAreRouted
  BY DEF TurnInv, PromotedInv, HotKeysAreRouted
<1> QED BY <1>1, RPTurns, PTL
=============================================================================
