---------------------------- MODULE RequestPath ----------------------------
(***************************************************************************)
(* The producer's HTTP handlers (SLOPSProducer/cmd/message.go) in front of *)
(* the lossy counter.  A handler reads its body, may have to hand the key  *)
(* to the counter on a channel without a buffer, looks the key's route up  *)
(* and starts a Produce goroutine (Producer goes on from there).  Handlers *)
(* run beside each other, the counter and Rebalance.                       *)
(***************************************************************************)
EXTENDS LossyCount

CONSTANT Handler   \* requests at a time

VARIABLE handlers  \* [pc, key] of each: "idle", "offer" (at app.ch), "lookup"

rpVars == <<vars, handlers>>

Idle == [pc |-> "idle", key |-> Nil]

RPInit == Init /\ handlers = [h \in Handler |-> Idle]

-----------------------------------------------------------------------------
(* A handler.  (A body that readJSON refuses, or panics on, is answered at *)
(* once, and nothing has changed.)                                         *)

\* What clients send has to end, for the model to be finite: no more messages
\* are sampled than fill the buckets.
Room == Width * (currentBucket - 1) + N + Cardinality({h \in Handler : handlers[h].pc = "offer"})
            < Width * MaxBuckets

\* A request whose body is read; whether it is sampled is drawn.
Arrive(h) ==
    /\ handlers[h].pc = "idle"
    /\ \E k \in Key, pc \in {"offer", "lookup"} :
          /\ pc = "offer" => Room
          /\ handlers' = [handlers EXCEPT ![h] = [pc |-> pc, key |-> k]]
    /\ UNCHANGED vars

\* app.ch <- input.Key, once the counter receives.
Offer(h) ==
    /\ handlers[h].pc = "offer"
    /\ Receive(handlers[h].key)
    /\ handlers' = [handlers EXCEPT ![h].pc = "lookup"]

\* GetKey and `go app.Produce'; the request is answered.
Lookup(h) ==
    /\ handlers[h].pc = "lookup"
    /\ handlers' = [handlers EXCEPT ![h] = Idle]
    /\ UNCHANGED vars

RPNext ==
    \/ \E h \in Handler : Arrive(h) \/ Offer(h) \/ Lookup(h)
    \/ BucketStep /\ UNCHANGED handlers
    \/ Rebalance /\ UNCHANGED <<lcVars, handlers>>

\* Goroutines run; those that wait at a channel are served in turn.
RPSpec ==
    /\ RPInit /\ [][RPNext]_rpVars
    /\ WF_rpVars(BucketStep /\ UNCHANGED handlers)
    /\ WF_rpVars(Rebalance /\ UNCHANGED <<lcVars, handlers>>)
    /\ \A h \in Handler : SF_rpVars(Offer(h)) /\ WF_rpVars(Lookup(h))

-----------------------------------------------------------------------------
\* Every request is answered, though a sampled one waits for the counter, the
\* counter for the end of its bucket's turn, and that for its share of the map.
EveryRequestIsAnswered == \A h \in Handler : handlers[h].pc # "idle" ~> handlers[h].pc = "idle"

=============================================================================
