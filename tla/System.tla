------------------------------- MODULE System -------------------------------
(***************************************************************************)
(* From the load generator to the producers: the client                    *)
(* (SLOPSClient/cmd/main.go) asks its generator goroutine for a key, posts *)
(* a message to the gateway, waits for the answer, counts it and goes on.  *)
(* The gateway posts to one of the producers, whose handler NewMessage     *)
(* accepts the message, and answers, before anything is sent to Kafka: what*)
(* becomes of it there is Producer's.                                      *)
(*                                                                         *)
(* The gateway is Gateway's.                                               *)
(***************************************************************************)
EXTENDS Gateway

CONSTANT Iters    \* flag -iter

VARIABLES
    client,       \* where main is: "next", "take", "post", "await", "output", "exited"
    gen,          \* where ZipfGenerator's goroutine is: "select", "deliver", "gone"
    x,            \* the key in hand
    i, frequencies,
    accepted      \* history: how many messages of a key the producers accepted

clientVars == <<client, gen, x, i, frequencies>>
sysVars    == <<vars, clientVars, accepted>>

ASSUME ClientAssumption == 1 \in Slot   \* the client's requests have a place in req

SysInit ==
    /\ Init
    /\ client = "next" /\ gen = "select" /\ x = None
    /\ i = 0 /\ frequencies = [k \in Key |-> 0]
    /\ accepted = [k \in Key |-> 0]

-----------------------------------------------------------------------------
(* The client.  next and ch are channels without a buffer: a send and its  *)
(* receipt are one step.                                                   *)

AskNext ==
    /\ client = "next" /\ gen = "select"
    /\ i < Iters
    /\ client' = "take" /\ gen' = "deliver"
    /\ UNCHANGED <<vars, x, i, frequencies, accepted>>

\* Mutant: the generator returns with its first key.
TakeOnly ==
    /\ client = "take" /\ gen = "deliver"
    /\ x' \in Key
    /\ client' = "post" /\ gen' = "gone"
    /\ UNCHANGED <<vars, i, frequencies, accepted>>

\* Any of the keys may be drawn.
TakeKey ==
    /\ client = "take" /\ gen = "deliver"
    /\ x' \in Key
    /\ client' = "post" /\ gen' = "select"
    /\ UNCHANGED <<vars, i, frequencies, accepted>>

\* Something fails, and the gateway does not notice.
Fault ==
    /\ faults < MaxFaults
    /\ faults' = faults + 1
    /\ UNCHANGED <<svc, lists, update, req, requests, changes, routed>>

\* http.Post reaches the gateway, or fails.
PostKey ==
    /\ client = "post"
    /\ client' = "await"
    /\ Arrive(1, x) \/ Fault
    /\ UNCHANGED <<gen, x, i, frequencies, accepted>>

\* Mutant: a key's first message counts zero.
CountFromZero ==
    /\ client = "await" /\ req[1].pc = "idle"
    /\ frequencies' = [frequencies EXCEPT ![x] = IF x \in {k \in Key : @ > 0} THEN @ + 1 ELSE 0]
    /\ i' = i + 1
    /\ client' = "next"
    /\ UNCHANGED <<vars, gen, x, accepted>>

\* The answer is there, or an error: the message counts either way.
Count ==
    /\ client = "await" /\ req[1].pc = "idle"
    /\ frequencies' = [frequencies EXCEPT ![x] = @ + 1]
    /\ i' = i + 1
    /\ client' = "next"
    /\ UNCHANGED <<vars, gen, x, accepted>>

\* The loop ends: main closes abort ...
CloseAbort ==
    /\ client = "next"
    /\ i >= Iters
    /\ client' = "output"
    /\ UNCHANGED <<vars, gen, x, i, frequencies, accepted>>

\* ... which the generator may still see ...
Abort ==
    /\ client = "output" /\ gen = "select"
    /\ gen' = "gone"
    /\ UNCHANGED <<vars, client, x, i, frequencies, accepted>>

\* ... and returns from output.  A signal ends the process anywhere before.
Exit == client' = "exited" /\ gen' = "gone" /\ UNCHANGED <<x, i, frequencies, accepted>>
Output      == client = "output" /\ Exit /\ UNCHANGED vars
Interrupted == client # "exited" /\ Exit /\ Fault

ClientStep == AskNext \/ TakeKey \/ PostKey \/ Count \/ CloseAbort \/ Abort \/ Output

-----------------------------------------------------------------------------
(* Gateway and producers.                                                  *)

Update == ControllerChanges \/ Fetch \/ Receive \/ Reset

\* The gateway's post reaches the producer, whose handler accepts the message;
\* that the answer gets back to the gateway is not needed ...
Forward(s) ==
    /\ Post(s)
    /\ accepted' = [accepted EXCEPT ![req[s].key] = @ + 1]
    /\ UNCHANGED clientVars

\* ... or does not.  The error is logged and the client is answered with 200 all the same.
ForwardFails(s) ==
    /\ req[s].pc = "post"
    /\ faults < MaxFaults
    /\ faults' = faults + 1
    /\ req' = [req EXCEPT ![s] = Idle]
    /\ UNCHANGED <<svc, lists, update, requests, changes, routed, clientVars, accepted>>

GatewayStep ==
    \E s \in Slot :
        \/ Route(s) /\ UNCHANGED <<clientVars, accepted>>
        \/ Forward(s) \/ ForwardFails(s)

SysNext ==
    \/ ClientStep
    \/ Interrupted
    \/ GatewayStep
    \/ (Update \/ Restart) /\ UNCHANGED <<clientVars, accepted>>

SysSpec == SysInit /\ [][SysNext]_sysVars

-----------------------------------------------------------------------------
(* Properties.                                                             *)

\* Type invariant, of gateway, client and generator together.
SysTypeOK ==
    /\ TypeOK
    /\ client \in {"next", "take", "post", "await", "output", "exited"}
    /\ gen \in {"select", "deliver", "gone"}
    /\ x \in Key \cup {None} /\ i \in Nat
    /\ frequencies \in [Key -> Nat] /\ accepted \in [Key -> Nat]

\* The client's numbers cover what the producers accepted, whatever failed and
\* was restarted on the way: no message is accepted twice, for another key or
\* uncounted, but the message in hand.
CountsCover ==
    \A k \in Key :
        accepted[k] <= frequencies[k] + (IF client \in {"await", "exited"} /\ x = k THEN 1 ELSE 0)

\* Client, generator and gateway stay in step, whatever fails and is restarted:
\* main asks a generator that selects and takes from one that delivers, never
\* posts before its last request is done with, and waits for its own key.
InStep ==
    /\ client = "next" => gen = "select"
    /\ client = "take" => gen = "deliver"
    /\ client \in {"next", "take", "post", "output"} => req[1].pc = "idle"
    /\ (client = "await" /\ req[1].pc # "idle") => req[1].key = x

\* No rendezvous is missed, and no restart or failed request leaves the client
\* waiting: it can step, or the handler it waits for can.
NobodyHangs == client = "exited" \/ ENABLED ClientStep \/ ENABLED GatewayStep

=============================================================================
