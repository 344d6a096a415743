------------------------------- MODULE Fakes --------------------------------
(***************************************************************************)
(* The test doubles that packages/api-scenario/apiscenariofake gives to    *)
(* the tests of consuming services: a Broker that fans messages out over   *)
(* bounded channels, a Publisher that records what goes through it, a      *)
(* Stream that runs a handler on each message, and the typed expecters     *)
(* that wait for one message.                                              *)
(*                                                                         *)
(* Callers are goroutines that publish through one Publisher; every        *)
(* receiver has the channel of one subscription. A message is named by its *)
(* place in the Publisher's record, and the result of a handler by the     *)
(* message it is the result of.                                            *)
(*                                                                         *)
(* A test decides when it subscribes, publishes, starts Consume, waits,    *)
(* cancels or collects a result, and may stop doing so. That a wait        *)
(* timed out is therefore not an action: it takes nothing from a channel.  *)
(***************************************************************************)
EXTENDS Naturals, Sequences, FiniteSets

CONSTANTS
    Topics,
    Callers,        \* goroutines that call Publisher.Publish
    Streams,        \* receivers read by Stream.Consume
    Expecters,      \* receivers read by Wait of a typed expecter
    ChannelCap,     \* defaultSubscribeBuffer
    HandledCap,     \* handledBufferSize
    MaxMessages     \* bound on the calls of Publish

ASSUME CapAssumption == ChannelCap \in Nat \ {0} /\ HandledCap \in Nat \ {0}
ASSUME ReceiversAssumption == Streams \cap Expecters = {}
ASSUME BoundAssumption == MaxMessages \in Nat

VARIABLES
    published,      \* Publisher.published, the topic of each message
    byTopic,        \* Broker.byTopic, the receivers' channels of each topic
    call,           \* what each caller's Publish is doing
    queue,          \* the channel of each receiver
    taken,          \* what each receiver has taken from its channel
    consume,        \* what each Stream.Consume is doing
    handled,        \* Stream.handled
    observed,       \* what ExpectHandled has returned
    cancelled,      \* streams whose ctx is cancelled
    audience,       \* history: who was subscribed when a Publish was called
    missed          \* history: what had been published when one subscribed

broker == <<byTopic, queue>>
stream == <<consume, handled, observed, cancelled>>
history == <<audience, missed>>
vars == <<published, call, broker, taken, stream, history>>

Receivers == Streams \cup Expecters
Messages == 1 .. MaxMessages
Elements(s) == {s[i] : i \in DOMAIN s}
Subscribed == UNION {Elements(byTopic[t]) : t \in Topics}
Returned == [step |-> "returned", msg |-> 0, targets |-> <<>>]
Ended == {m \in DOMAIN published :
             \A c \in Callers : call[c] # Returned => call[c].msg # m}

-----------------------------------------------------------------------------
Init ==
    /\ published = <<>>
    /\ byTopic = [t \in Topics |-> <<>>]
    /\ call = [c \in Callers |-> Returned]
    /\ queue = [r \in Receivers |-> <<>>]
    /\ taken = [r \in Receivers |-> <<>>]
    /\ consume = [s \in Streams |-> "new"]
    /\ handled = [s \in Streams |-> <<>>]
    /\ observed = [s \in Streams |-> <<>>]
    /\ cancelled = {}
    /\ audience = [m \in Messages |-> {}]
    /\ missed = [r \in Receivers |-> {}]

(* Mutant of Subscribe: a new subscriber is given the past of its topic. *)
SubscribeReplaying(r, t) ==
    /\ r \notin Subscribed
    /\ byTopic' = [byTopic EXCEPT ![t] = Append(@, r)]
    /\ missed' = [missed EXCEPT ![r] = Ended]
    /\ queue' = [queue EXCEPT ![r] =
                    IF published # <<>> /\ published[1] = t /\ 1 \in Ended
                        THEN <<1>> ELSE @]
    /\ UNCHANGED <<published, call, taken, stream, audience>>

(* Broker.Subscribe, called eagerly by NewStream and by Expect...           *)
Subscribe(r, t) ==
    /\ r \notin Subscribed
    /\ byTopic' = [byTopic EXCEPT ![t] = Append(@, r)]
    /\ missed' = [missed EXCEPT ![r] = Ended]
    /\ UNCHANGED <<published, call, queue, taken, stream, audience>>

(* Publisher.Publish: the record is written before the broker is called.    *)
Record(c, t) ==
    /\ call[c] = Returned
    /\ Len(published) < MaxMessages
    /\ published' = Append(published, t)
    /\ call' = [call EXCEPT ![c] = [step |-> "recorded",
                                    msg |-> Len(published) + 1,
                                    targets |-> <<>>]]
    /\ audience' = [audience EXCEPT ![Len(published) + 1] =
                                    Elements(byTopic[t])]
    /\ UNCHANGED <<broker, taken, stream, missed>>

(* Broker.Publish copies the list of channels under the lock ...            *)
Snapshot(c) ==
    /\ call[c].step = "recorded"
    /\ call' = [call EXCEPT ![c] =
                    [step |-> "sending",
                     msg |-> @.msg,
                     targets |-> byTopic[published[@.msg]]]]
    /\ UNCHANGED <<published, broker, taken, stream, history>>

(* Mutant of Send: a full channel drops the message. *)
SendOrDrop(c) ==
    /\ call[c].step = "sending"
    /\ call[c].targets # <<>>
    /\ LET r == Head(call[c].targets) IN
        queue' = [queue EXCEPT ![r] =
                    IF Len(@) < ChannelCap THEN Append(@, call[c].msg) ELSE @]
    /\ call' = [call EXCEPT ![c].targets = Tail(@)]
    /\ UNCHANGED <<published, byTopic, taken, stream, history>>

(* Mutant of Send: the buffer of a channel is not counted. *)
SendUnbounded(c) ==
    /\ call[c].step = "sending"
    /\ call[c].targets # <<>>
    /\ LET r == Head(call[c].targets) IN
        queue' = [queue EXCEPT ![r] = Append(@, call[c].msg)]
    /\ call' = [call EXCEPT ![c].targets = Tail(@)]
    /\ UNCHANGED <<published, byTopic, taken, stream, history>>

(* ... and sends to them in turn without it, blocking on a full channel.    *)
Send(c) ==
    /\ call[c].step = "sending"
    /\ call[c].targets # <<>>
    /\ LET r == Head(call[c].targets) IN
        /\ Len(queue[r]) < ChannelCap
        /\ queue' = [queue EXCEPT ![r] = Append(@, call[c].msg)]
    /\ call' = [call EXCEPT ![c].targets = Tail(@)]
    /\ UNCHANGED <<published, byTopic, taken, stream, history>>

Return(c) ==
    /\ call[c].step = "sending"
    /\ call[c].targets = <<>>
    /\ call' = [call EXCEPT ![c] = Returned]
    /\ UNCHANGED <<published, broker, taken, stream, history>>

TakeMessage(r) ==
    /\ queue[r] # <<>>
    /\ taken' = [taken EXCEPT ![r] = Append(@, Head(queue[r]))]
    /\ queue' = [queue EXCEPT ![r] = Tail(@)]
    /\ UNCHANGED <<published, byTopic, call, history>>

(* Wait of a typed expecter that finds a message.                           *)
Wait(x) ==
    /\ TakeMessage(x)
    /\ UNCHANGED stream

Start(s) ==
    /\ s \in Subscribed
    /\ consume[s] = "new"
    /\ consume' = [consume EXCEPT ![s] = "selecting"]
    /\ UNCHANGED <<published, call, broker, taken, handled, observed,
                   cancelled, history>>

(* The select of Consume takes either case when both are ready.             *)
Take(s) ==
    /\ consume[s] = "selecting"
    /\ TakeMessage(s)
    /\ consume' = [consume EXCEPT ![s] = "handling"]
    /\ UNCHANGED <<handled, observed, cancelled>>

(* Mutant of Stop: the ctx is looked at before the first message only. *)
StopAtStart(s) ==
    /\ consume[s] = "selecting"
    /\ s \in cancelled
    /\ taken[s] = <<>>
    /\ consume' = [consume EXCEPT ![s] = "returned"]
    /\ UNCHANGED <<published, call, broker, taken, handled, observed,
                   cancelled, history>>

Stop(s) ==
    /\ consume[s] = "selecting"
    /\ s \in cancelled
    /\ consume' = [consume EXCEPT ![s] = "returned"]
    /\ UNCHANGED <<published, call, broker, taken, handled, observed,
                   cancelled, history>>

(* Mutant of Report: the send gives up when the ctx is cancelled. *)
ReportOrGiveUp(s) ==
    /\ consume[s] = "handling"
    /\ Len(handled[s]) < HandledCap \/ s \in cancelled
    /\ handled' = [handled EXCEPT ![s] =
                    IF Len(@) < HandledCap
                        THEN Append(@, taken[s][Len(taken[s])]) ELSE @]
    /\ consume' = [consume EXCEPT ![s] = "selecting"]
    /\ UNCHANGED <<published, call, broker, taken, observed, cancelled,
                   history>>

(* Mutant of Report: the results have one place less. *)
ReportUnbuffered(s) ==
    /\ consume[s] = "handling"
    /\ Len(handled[s]) + 1 < HandledCap
    /\ handled' = [handled EXCEPT ![s] = Append(@, taken[s][Len(taken[s])])]
    /\ consume' = [consume EXCEPT ![s] = "selecting"]
    /\ UNCHANGED <<published, call, broker, taken, observed, cancelled,
                   history>>

(* The handler returns; the send of its result is outside the select.       *)
Report(s) ==
    /\ consume[s] = "handling"
    /\ Len(handled[s]) < HandledCap
    /\ handled' = [handled EXCEPT ![s] = Append(@, taken[s][Len(taken[s])])]
    /\ consume' = [consume EXCEPT ![s] = "selecting"]
    /\ UNCHANGED <<published, call, broker, taken, observed, cancelled,
                   history>>

(* ExpectHandled that finds a result.                                       *)
ExpectHandled(s) ==
    /\ handled[s] # <<>>
    /\ observed' = [observed EXCEPT ![s] = Append(@, Head(handled[s]))]
    /\ handled' = [handled EXCEPT ![s] = Tail(@)]
    /\ UNCHANGED <<published, call, broker, taken, consume, cancelled,
                   history>>

Cancel(s) ==
    /\ s \notin cancelled
    /\ cancelled' = cancelled \cup {s}
    /\ UNCHANGED <<published, call, broker, taken, consume, handled,
                   observed, history>>

Publish(c) ==
    \/ \E t \in Topics : Record(c, t)
    \/ Snapshot(c)
    \/ Send(c)
    \/ Return(c)

Consume(s) ==
    \/ Start(s)
    \/ Take(s)
    \/ Stop(s)
    \/ Report(s)

Next ==
    \/ \E r \in Receivers, t \in Topics : Subscribe(r, t)
    \/ \E c \in Callers : Publish(c)
    \/ \E x \in Expecters : Wait(x)
    \/ \E s \in Streams : Consume(s) \/ ExpectHandled(s) \/ Cancel(s)

(* Goroutines run, and a handler that was called returns. What the test has *)
(* to call itself (Wait, ExpectHandled, Start) is not fair.                 *)
Fairness ==
    /\ \A c \in Callers :
        WF_vars(Snapshot(c)) /\ WF_vars(Send(c)) /\ WF_vars(Return(c))
    /\ \A s \in Streams :
        WF_vars(Take(s)) /\ WF_vars(Stop(s)) /\ WF_vars(Report(s))

Spec == Init /\ [][Next]_vars /\ Fairness

-----------------------------------------------------------------------------
Call == [step : {"returned", "recorded", "sending"},
         msg : 0 .. MaxMessages, targets : Seq(Receivers)]

(* Shapes of all variables; no channel exceeds its buffer, and a call sends *)
(* only what the Publisher has recorded.                                    *)
TypeOK ==
    /\ published \in Seq(Topics) /\ Len(published) <= MaxMessages
    /\ byTopic \in [Topics -> Seq(Receivers)]
    /\ call \in [Callers -> Call]
    /\ \A c \in Callers :
        call[c] # Returned => call[c].msg \in DOMAIN published
    /\ queue \in [Receivers -> Seq(Messages)]
    /\ \A r \in Receivers : Len(queue[r]) <= ChannelCap
    /\ taken \in [Receivers -> Seq(Messages)]
    /\ consume \in
        [Streams -> {"new", "selecting", "handling", "returned"}]
    /\ handled \in [Streams -> Seq(Messages)]
    /\ \A s \in Streams : Len(handled[s]) <= HandledCap
    /\ observed \in [Streams -> Seq(Messages)]
    /\ cancelled \subseteq Streams
    /\ audience \in [Messages -> SUBSET Receivers]
    /\ missed \in [Receivers -> SUBSET Messages]

(* Everything that ever entered the channel of r.                           *)
Arrived(r) == taken[r] \o queue[r]
Copies(r, m) == Cardinality({i \in DOMAIN Arrived(r) : Arrived(r)[i] = m})

(* broker.go 35-39: fan-out without loss. A Publish that has returned has   *)
(* reached everyone subscribed when it was called, exactly once, although   *)
(* the list is a copy and every send may block; one still running has not   *)
(* reached anyone twice.                                                    *)
DeliveredOnce ==
    \A m \in DOMAIN published, r \in Receivers :
        /\ Copies(r, m) <= 1
        /\ m \in Ended /\ r \in audience[m] => Copies(r, m) = 1

(* broker_test.go 54-94: nothing reaches a receiver that was published to   *)
(* another topic, or whose Publish had returned when the receiver           *)
(* subscribed; what is received is already in the Publisher's record.       *)
NothingElse ==
    \A r \in Receivers : \A m \in Elements(Arrived(r)) :
        /\ m \in DOMAIN published
        /\ r \in Elements(byTopic[published[m]])
        /\ m \notin missed[r]

(* stream.go 69-87: ExpectHandled gives one result for every message the    *)
(* handler was called with, in the order of the messages, whether the ctx   *)
(* is cancelled while a result waits for room or not.                       *)
ResultsInOrder ==
    \A s \in Streams :
        LET reported == observed[s] \o handled[s] IN
        IF consume[s] = "handling"
            THEN Append(reported, taken[s][Len(taken[s])]) = taken[s]
            ELSE reported = taken[s]

Full(s) == Len(handled[s]) = HandledCap

(* Nobody is going to take anything from the channel of r unless the test   *)
(* does something.                                                          *)
Stalled(r) ==
    \/ r \in Expecters
    \/ r \in Streams /\ consume[r] \in {"new", "returned"}
    \/ r \in Streams /\ consume[r] = "handling" /\ Full(r)

(* broker.go 32-34: a hanging Publish shows a test that does not drain: it  *)
(* hangs only on the full channel of a receiver that is not being read, so  *)
(* never on another publisher, and never because of a receiver behind the   *)
(* one it is sending to.                                                    *)
HangingPublishIsUndrained ==
    \A c \in Callers :
        <>[](call[c] # Returned) =>
            <>[](\E r \in Receivers :
                    /\ call[c].targets # <<>> /\ Head(call[c].targets) = r
                    /\ Len(queue[r]) = ChannelCap
                    /\ Stalled(r))

(* stream.go 63-67: Consume returns when its ctx is cancelled, but for one  *)
(* case, which stream.go 48-50 calls outside the intended use: the handler  *)
(* has returned and the buffer of results is full and never collected.      *)
CancelledConsumeReturns ==
    \A s \in Streams :
        <>[](s \in cancelled /\ consume[s] \in {"selecting", "handling"}) =>
            <>[](consume[s] = "handling" /\ Full(s))
=============================================================================
