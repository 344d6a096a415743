---------------------------- MODULE Subscription ----------------------------
(***************************************************************************)
(* pubsubtest.Subscription: what the integration tests read the Pub/Sub    *)
(* emulator with. Subscribe starts a goroutine in which the client's       *)
(* Receive calls back once per delivery; the callback acknowledges the     *)
(* message, unless the test asked to do that itself, and pushes it into a  *)
(* channel, from which the test takes messages with a timeout. The cleanup *)
(* of the test stops the goroutine.                                        *)
(*                                                                         *)
(* Pub/Sub and its client are external: a message is delivered, in any     *)
(* order and perhaps more than once, until an acknowledgement has reached  *)
(* the service; a Receive that was cancelled returns when its callbacks    *)
(* have, and when no message is left that it keeps for an Ack.             *)
(***************************************************************************)
EXTENDS Naturals, Sequences, Functions

CONSTANTS
    Messages,       \* messages published to the topic
    Callbacks,      \* callbacks Receive runs at a time
    Capacity,       \* of the channel; 64 in the code
    MaxN,           \* bound: the largest n of a WaitForN
    MaxWaits,       \* bound: waits of the test
    MaxDeliveries,  \* bound: deliveries
    Nothing         \* no message in a callback

ASSUME NothingAssumption == Nothing \notin Messages
ASSUME BoundsAssumption == MaxN \in Nat /\ MaxDeliveries \in Nat
ASSUME CapacityAssumption == Capacity \in Nat \ {0}

VARIABLES
    isManualAck,    \* Subscribe was given WithManualAck
    published,      \* messages the topic has taken
    backlog,        \* those the service still has for the subscription
    acked,          \* those Ack was called for
    kept,           \* delivered, and not yet acked or given up by the client
    callback,       \* the message each callback has in hand
    receive,        \* what Receive is doing
    ch,             \* the channel
    pushed,         \* history: everything pushed into it, in order
    delivered,      \* how many deliveries there were
    wait,           \* the wait the test is in
    results,        \* history: the waits that returned
    returned,       \* history: what they gave the test, one after the other
    stop            \* the cleanup of the test

service == <<published, backlog>>
client == <<acked, kept, callback, receive, delivered>>
test == <<wait, results, returned, stop>>
vars == <<isManualAck, service, client, ch, pushed, test>>

NoWait == [n |-> 0, got |-> <<>>]
Idle == {b \in Callbacks : callback[b] = Nothing}

(* Subscribe has returned: the subscription exists and Receive runs. *)
Init ==
    /\ isManualAck \in BOOLEAN
    /\ published = {} /\ backlog = {}
    /\ acked = {} /\ kept = {}
    /\ callback = [b \in Callbacks |-> Nothing]
    /\ receive = "running"
    /\ ch = <<>> /\ pushed = <<>>
    /\ delivered = 0
    /\ wait = NoWait /\ results = <<>> /\ returned = <<>>
    /\ stop = "no"

-----------------------------------------------------------------------------
(* The service and its client *)

Publish(m) ==
    /\ m \notin published
    /\ published' = published \cup {m}
    /\ backlog' = backlog \cup {m}
    /\ UNCHANGED <<isManualAck, client, ch, pushed, test>>

(* An acknowledgement reaches the service. *)
Settle(m) ==
    /\ m \in acked \cap backlog
    /\ backlog' = backlog \ {m}
    /\ UNCHANGED <<isManualAck, published, client, ch, pushed, test>>

(* The client no longer extends the deadline of a message. *)
Expire(m) ==
    /\ m \in kept
    /\ kept' = kept \ {m}
    /\ UNCHANGED <<isManualAck, service, acked, callback, receive, delivered, ch,
                   pushed, test>>

(* A fatal error of the service; the code ignores it. *)
ReceiveFails ==
    /\ receive = "running" /\ stop = "no"
    /\ receive' = "failing"
    /\ UNCHANGED <<isManualAck, service, acked, kept, callback, delivered, ch,
                   pushed, test>>

ReceiveReturns ==
    /\ receive = "failing" \/ (receive = "running" /\ stop = "cancelled")
    /\ Idle = Callbacks /\ kept = {}
    /\ receive' = "returned"
    /\ UNCHANGED <<isManualAck, service, acked, kept, callback, delivered, ch,
                   pushed, test>>

-----------------------------------------------------------------------------
(* The callback *)

AckedOnReceipt == ~isManualAck

Callback(b, m) ==
    /\ receive = "running" /\ stop = "no"
    /\ m \in backlog
    /\ callback[b] = Nothing
    /\ delivered < MaxDeliveries /\ delivered' = delivered + 1
    /\ callback' = [callback EXCEPT ![b] = m]
    /\ IF AckedOnReceipt
          THEN acked' = acked \cup {m} /\ UNCHANGED kept
          ELSE kept' = kept \cup {m} /\ UNCHANGED acked
    /\ UNCHANGED <<isManualAck, service, receive, ch, pushed, test>>

(* Mutant of Push: the select has a default case. *)
PushOrDrop(b) ==
    /\ callback[b] # Nothing
    /\ IF Len(ch) < Capacity
          THEN ch' = Append(ch, callback[b]) /\ pushed' = Append(pushed, callback[b])
          ELSE UNCHANGED <<ch, pushed>>
    /\ callback' = [callback EXCEPT ![b] = Nothing]
    /\ UNCHANGED <<isManualAck, service, acked, kept, receive, delivered, test>>

(* The two cases of the select; when both are ready it takes either. *)
Push(b) ==
    /\ callback[b] # Nothing
    /\ Len(ch) < Capacity
    /\ ch' = Append(ch, callback[b])
    /\ pushed' = Append(pushed, callback[b])
    /\ callback' = [callback EXCEPT ![b] = Nothing]
    /\ UNCHANGED <<isManualAck, service, acked, kept, receive, delivered, test>>

(* Mutant of Abandon: the callback looks at done, not at the context. *)
AbandonWhenDone(b) ==
    /\ callback[b] # Nothing
    /\ receive = "returned"
    /\ callback' = [callback EXCEPT ![b] = Nothing]
    /\ UNCHANGED <<isManualAck, service, acked, kept, receive, delivered, ch,
                   pushed, test>>

Abandon(b) ==
    /\ callback[b] # Nothing
    /\ stop = "cancelled"
    /\ callback' = [callback EXCEPT ![b] = Nothing]
    /\ UNCHANGED <<isManualAck, service, acked, kept, receive, delivered, ch,
                   pushed, test>>

-----------------------------------------------------------------------------
(* The test *)

(* The Ack of a message the test was given does something only with         *)
(* WithManualAck.                                                           *)
Ack(m) ==
    /\ isManualAck
    /\ m \in Range(returned) \ acked
    /\ stop # "stopped"
    /\ acked' = acked \cup {m}
    /\ kept' = kept \ {m}
    /\ UNCHANGED <<isManualAck, service, callback, receive, delivered, ch, pushed, test>>

Result(n, got, outcome) ==
    /\ results' = Append(results, [n |-> n, got |-> got, outcome |-> outcome])
    /\ returned' = returned \o got

(* WaitForN(n); WaitForMessage is the wait for one. *)
WaitForN(n) ==
    /\ stop = "no" /\ wait = NoWait
    /\ Len(results) < MaxWaits
    /\ IF n <= 0
          THEN Result(n, <<>>, "invalid") /\ UNCHANGED wait
          ELSE wait' = [n |-> n, got |-> <<>>] /\ UNCHANGED <<results, returned>>
    /\ UNCHANGED <<isManualAck, service, client, ch, pushed, stop>>

Take ==
    /\ wait # NoWait /\ ch # <<>>
    /\ ch' = Tail(ch)
    /\ LET got == Append(wait.got, Head(ch)) IN
         IF Len(got) = wait.n
            THEN wait' = NoWait /\ Result(wait.n, got, "ok")
            ELSE wait' = [wait EXCEPT !.got = got] /\ UNCHANGED <<results, returned>>
    /\ UNCHANGED <<isManualAck, service, client, pushed, stop>>

(* Mutant of GiveUp: an error comes without the messages. *)
GiveUpEmpty(outcome) ==
    /\ wait # NoWait
    /\ wait' = NoWait
    /\ Result(wait.n, <<>>, outcome)
    /\ UNCHANGED <<isManualAck, service, client, ch, pushed, stop>>

(* The timeout has passed or the test has cancelled its context; with a     *)
(* message there as well, select takes either.                              *)
GiveUp(outcome) ==
    /\ wait # NoWait
    /\ wait' = NoWait
    /\ Result(wait.n, wait.got, outcome)
    /\ UNCHANGED <<isManualAck, service, client, ch, pushed, stop>>

(* t.Cleanup, after the test: cancel, then wait for the goroutine. *)
Cancel ==
    /\ stop = "no" /\ wait = NoWait
    /\ stop' = "cancelled"
    /\ UNCHANGED <<isManualAck, service, client, ch, pushed, wait, results, returned>>

(* Mutant of Stopped: stop does not wait for done. *)
StoppedAtOnce ==
    /\ stop = "cancelled"
    /\ stop' = "stopped"
    /\ UNCHANGED <<isManualAck, service, client, ch, pushed, wait, results, returned>>

Stopped ==
    /\ stop = "cancelled" /\ receive = "returned"
    /\ stop' = "stopped"
    /\ UNCHANGED <<isManualAck, service, client, ch, pushed, wait, results, returned>>

-----------------------------------------------------------------------------
Next ==
    \/ \E m \in Messages : Publish(m) \/ Settle(m) \/ Expire(m) \/ Ack(m)
    \/ ReceiveFails \/ ReceiveReturns
    \/ \E b \in Callbacks :
        Push(b) \/ Abandon(b) \/ \E m \in Messages : Callback(b, m)
    \/ \E n \in 0..MaxN : WaitForN(n)
    \/ Take
    \/ \E outcome \in {"timeout", "cancelled"} : GiveUp(outcome)
    \/ Cancel \/ Stopped

(* Goroutines run, and timers fire: that of a wait, and the client's for a  *)
(* message that is never acked. Nobody owes a message, an Ack or a read.    *)
Fairness ==
    /\ \A b \in Callbacks : WF_vars(Push(b) \/ Abandon(b))
    /\ \A m \in Messages : WF_vars(Expire(m))
    /\ WF_vars(ReceiveReturns)
    /\ WF_vars(Take \/ GiveUp("timeout"))
    /\ WF_vars(Stopped)

Spec == Init /\ [][Next]_vars /\ Fairness

-----------------------------------------------------------------------------
(* Shapes; the channel is bounded, the test does not stop the subscription  *)
(* while it waits, and once stop has returned no callback is left.          *)
TypeOK ==
    /\ isManualAck \in BOOLEAN
    /\ backlog \subseteq published /\ published \subseteq Messages
    /\ acked \subseteq published /\ kept \subseteq published
    /\ callback \in [Callbacks -> Messages \cup {Nothing}]
    /\ receive \in {"running", "failing", "returned"}
    /\ ch \in Seq(Messages) /\ Len(ch) <= Capacity
    /\ pushed \in Seq(Messages) /\ delivered \in 0..MaxDeliveries
    /\ wait \in [n : 0..MaxN, got : Seq(Messages)]
    /\ results \in Seq([n : 0..MaxN, got : Seq(Messages),
                       outcome : {"ok", "timeout", "cancelled", "invalid"}])
    /\ returned \in Seq(Messages)
    /\ wait = NoWait \/ (stop = "no" /\ Len(wait.got) < wait.n)
    /\ stop \in {"no", "cancelled", "stopped"}
    /\ stop = "stopped" => Idle = Callbacks /\ receive = "returned"

(* emulator.go 177-196: the callback acks before it pushes, so a message    *)
(* the service has forgotten is with a callback or was pushed, until stop   *)
(* may drop it; with WithManualAck it is forgotten only when the test was   *)
(* given it, stop or not.                                                   *)
ForgottenIsHandedOver ==
    \A m \in published \ backlog :
        IF isManualAck
           THEN m \in Range(returned)
           ELSE \/ stop # "no"
                \/ m \in Range(pushed)
                \/ \E b \in Callbacks : callback[b] = m

(* emulator.go 240-275: whatever the timeouts cut in two, the waits give    *)
(* the test every pushed message once and in order; the rest is still in    *)
(* the channel, and only a full count comes without an error.               *)
WaitsLoseNothing ==
    /\ returned \o wait.got \o ch = pushed
    /\ \A i \in DOMAIN results :
        results[i].outcome = "ok" <=> results[i].n > 0 /\ Len(results[i].got) = results[i].n

(* emulator.go 190-194, 230-235: the cleanup of a test returns, although    *)
(* the channel may be full and nobody reads it any more.                    *)
StopReturns == stop = "cancelled" ~> stop = "stopped"
=============================================================================
