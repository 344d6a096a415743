------------------------- MODULE SubscriptionProofs -------------------------
(***************************************************************************)
(* What Subscription promises the integration tests, for any messages, any *)
(* number of callbacks, any capacity of the channel and any waits.         *)
(***************************************************************************)
EXTENDS Subscription, SequenceTheorems, TLAPS

USE NothingAssumption, BoundsAssumption, CapacityAssumption

-----------------------------------------------------------------------------
(* A queue that moves from one sequence to the next keeps its order. *)

LEMMA AppendedAtTheEnd ==
    ASSUME NEW s \in Seq(Messages), NEW t \in Seq(Messages), NEW m \in Messages
    PROVE  /\ s \o Append(t, m) = Append(s \o t, m)
           /\ Append(t, m) \in Seq(Messages) /\ Len(Append(t, m)) = Len(t) + 1
           /\ Range(Append(t, m)) = Range(t) \cup {m}
<1> DEFINE one == <<m>>
<1>1. one \in Seq(Messages) /\ Range(one) = {m}
    BY DEF Range
<1>2. Append(t, m) = t \o one /\ Append(s \o t, m) = (s \o t) \o one
    BY AppendIsConcat, ConcatProperties
<1> HIDE DEF one
<1>3. s \o Append(t, m) = Append(s \o t, m)
    BY <1>1, <1>2, ConcatAssociative, SMTT(30)
<1>4. Range(Append(t, m)) = Range(t) \cup {m}
    BY <1>1, <1>2, RangeConcatenation
<1> QED
    BY <1>3, <1>4, AppendProperties

LEMMA TakenFromTheFront ==
    ASSUME NEW s \in Seq(Messages), NEW t \in Seq(Messages), NEW u \in Seq(Messages), u # <<>>
    PROVE  /\ Head(u) \in Messages /\ Tail(u) \in Seq(Messages) /\ Len(Tail(u)) <= Len(u)
           /\ (s \o Append(t, Head(u))) \o Tail(u) = (s \o t) \o u
<1> DEFINE h == Head(u) r == Tail(u) one == <<h>> st == s \o t
<1>1. h \in Messages /\ r \in Seq(Messages) /\ Len(r) = Len(u) - 1 /\ Len(u) \in Nat
    BY HeadTailProperties, LenProperties
<1>2. one \in Seq(Messages)
    BY <1>1
<1>3. u = one \o r
    BY <1>1, HeadTailProperties
<1>4. st \in Seq(Messages)
    BY ConcatProperties
<1>5. s \o Append(t, h) = st \o one
    BY <1>1, <1>4, AppendedAtTheEnd, AppendIsConcat
<1> HIDE DEF h, r, one, st
<1>6. (st \o one) \o r = st \o (one \o r)
    <2>1. \A a, b, d \in Seq(Messages) : (a \o b) \o d = a \o (b \o d)
        BY ConcatAssociative, SMTT(30)
    <2> QED
        BY <1>1, <1>2, <1>4, <2>1, ZenonT(60)
<1>7. (s \o Append(t, h)) \o r = st \o u
    BY <1>3, <1>5, <1>6
<1>8. Len(r) <= Len(u)
    BY <1>1
<1> QED
    BY <1>1, <1>7, <1>8 DEF h, r, st

-----------------------------------------------------------------------------
(* The invariant *)

(* Once Receive has returned no callback is left, and none comes after it.  *)
ReturnedIsIdle == receive = "returned" => Idle = Callbacks

(* What is on its way or was pushed comes from the topic. *)
ComesFromTopic ==
    /\ \A b \in Callbacks : callback[b] # Nothing => callback[b] \in published
    /\ Range(pushed) \subseteq published

(* The service forgets only what was acknowledged; that is what the test    *)
(* was given, where it acknowledges itself, and else what the callback has  *)
(* in hand or has pushed, until stop lets it go.                            *)
HandedOver ==
    /\ published \ backlog \subseteq acked
    /\ IF isManualAck
          THEN acked \subseteq Range(returned)
          ELSE \A m \in acked :
                  \/ stop # "no"
                  \/ m \in Range(pushed)
                  \/ \E b \in Callbacks : callback[b] = m

SubscriptionInv ==
    /\ TypeOK
    /\ ReturnedIsIdle
    /\ ComesFromTopic
    /\ HandedOver
    /\ WaitsLoseNothing

LEMMA InitHolds == Init => SubscriptionInv
<1> SUFFICES ASSUME Init PROVE SubscriptionInv
    OBVIOUS
<1>1. <<>> \in Seq(Messages) /\ Len(<<>>) = 0 /\ Range(<<>>) = {} /\ DOMAIN <<>> = {}
      /\ <<>> \in Seq([n : 0..MaxN, got : Seq(Messages),
                       outcome : {"ok", "timeout", "cancelled", "invalid"}])
    BY EmptySeq DEF Range
<1>2. NoWait \in [n : 0..MaxN, got : Seq(Messages)] /\ NoWait.got = <<>>
    BY <1>1 DEF NoWait
<1>3. TypeOK
    BY <1>1, <1>2 DEF Init, TypeOK
<1>4. ReturnedIsIdle /\ ComesFromTopic /\ HandedOver
    BY <1>1 DEF Init, ReturnedIsIdle, ComesFromTopic, HandedOver
<1>5. (<<>> \o <<>>) \o <<>> = <<>>
    BY <1>1, ConcatEmptySeq
<1>6. WaitsLoseNothing
    BY <1>1, <1>2, <1>5 DEF Init, WaitsLoseNothing
<1> QED
    BY <1>3, <1>4, <1>6 DEF SubscriptionInv

-----------------------------------------------------------------------------
(* The service and its client *)

LEMMA ClientSteps ==
    ASSUME SubscriptionInv,
           \/ \E m \in Messages : Publish(m) \/ Settle(m) \/ Expire(m)
           \/ ReceiveFails \/ ReceiveReturns
    PROVE  SubscriptionInv'
<1>1. UNCHANGED <<isManualAck, acked, callback, delivered, ch, pushed, wait, results, returned, stop>>
    BY DEF Publish, Settle, Expire, ReceiveFails, ReceiveReturns, service, client, test
<1>2. /\ published \subseteq published' /\ published' \subseteq Messages
      /\ backlog' \subseteq published'
      /\ published' \ backlog' \subseteq acked
      /\ kept' \subseteq kept
      /\ receive' = receive \/ (receive' = "failing" /\ receive = "running" /\ stop = "no")
         \/ (receive' = "returned" /\ Idle = Callbacks)
    BY DEF SubscriptionInv, TypeOK, HandedOver, Publish, Settle, Expire, ReceiveFails,
           ReceiveReturns, service, client
<1>3. Idle' = Idle
    BY <1>1 DEF Idle
<1>4. TypeOK'
    BY <1>1, <1>2, <1>3 DEF SubscriptionInv, TypeOK, NoWait
<1>5. ReturnedIsIdle'
    BY <1>2, <1>3 DEF SubscriptionInv, ReturnedIsIdle
<1>6. ComesFromTopic' /\ HandedOver'
    BY <1>1, <1>2 DEF SubscriptionInv, ComesFromTopic, HandedOver
<1>7. WaitsLoseNothing'
    BY <1>1 DEF SubscriptionInv, WaitsLoseNothing
<1> QED
    BY <1>4, <1>5, <1>6, <1>7 DEF SubscriptionInv

-----------------------------------------------------------------------------
(* The callback *)

(* What a step of a callback has to keep. *)
LEMMA CallbackKeeps ==
    ASSUME SubscriptionInv, NEW b \in Callbacks, NEW x \in published \cup {Nothing},
           callback' = [callback EXCEPT ![b] = x],
           x = Nothing \/ receive = "running",
           UNCHANGED <<isManualAck, service, receive, ch, pushed, test>>,
           acked' \subseteq published, kept' \subseteq published,
           delivered' \in 0..MaxDeliveries
    PROVE  TypeOK' /\ ReturnedIsIdle' /\ ComesFromTopic' /\ WaitsLoseNothing'
<1>1. published \subseteq Messages /\ x \in Messages \cup {Nothing}
    BY DEF SubscriptionInv, TypeOK
<1>2. callback' \in [Callbacks -> Messages \cup {Nothing}]
    BY <1>1 DEF SubscriptionInv, TypeOK
<1>3. \A c \in Callbacks : callback'[c] = IF c = b THEN x ELSE callback[c]
    BY DEF SubscriptionInv, TypeOK
<1>4. receive = "returned" => Idle' = Callbacks
    BY <1>3 DEF SubscriptionInv, ReturnedIsIdle, Idle
<1>5. TypeOK'
    BY <1>2, <1>4 DEF SubscriptionInv, TypeOK, NoWait, service, test
<1>6. ReturnedIsIdle'
    BY <1>4 DEF ReturnedIsIdle
<1>7. ComesFromTopic'
    BY <1>3 DEF SubscriptionInv, ComesFromTopic, service
<1>8. WaitsLoseNothing'
    BY DEF SubscriptionInv, WaitsLoseNothing, test
<1> QED
    BY <1>5, <1>6, <1>7, <1>8

LEMMA CallbackHolds ==
    ASSUME SubscriptionInv, NEW b \in Callbacks, NEW m \in Messages, Callback(b, m)
    PROVE  SubscriptionInv'
<1>1. /\ m \in published /\ m # Nothing /\ callback[b] = Nothing /\ receive = "running"
      /\ callback' = [callback EXCEPT ![b] = m]
      /\ UNCHANGED <<isManualAck, service, receive, ch, pushed, test>>
      /\ acked' = IF isManualAck THEN acked ELSE acked \cup {m}
      /\ kept' = IF isManualAck THEN kept \cup {m} ELSE kept
    BY DEF Callback, AckedOnReceipt, SubscriptionInv, TypeOK
<1>2. acked' \subseteq published /\ kept' \subseteq published
    BY <1>1 DEF SubscriptionInv, TypeOK
<1>3. delivered' \in 0..MaxDeliveries
    BY DEF Callback, SubscriptionInv, TypeOK
<1>4. TypeOK' /\ ReturnedIsIdle' /\ ComesFromTopic' /\ WaitsLoseNothing'
    BY <1>1, <1>2, <1>3, CallbackKeeps
<1>5. callback'[b] = m /\ \A c \in Callbacks \ {b} : callback'[c] = callback[c]
    BY <1>1 DEF SubscriptionInv, TypeOK
<1>6. HandedOver'
    <2>1. CASE isManualAck
        BY <1>1, <2>1 DEF SubscriptionInv, HandedOver, service, test
    <2>2. CASE ~isManualAck
        <3>1. ASSUME NEW n \in acked', stop = "no", n \notin Range(pushed)
              PROVE  \E c \in Callbacks : callback'[c] = n
            <4>1. CASE n = m
                BY <1>5, <4>1
            <4>2. CASE n # m
                <5>1. n \in acked /\ n # Nothing
                    BY <1>1, <3>1, <4>2 DEF SubscriptionInv, TypeOK
                <5>2. PICK c \in Callbacks : callback[c] = n
                    BY <2>2, <3>1, <5>1 DEF SubscriptionInv, HandedOver
                <5> QED
                    BY <1>1, <1>5, <5>1, <5>2
            <4> QED
                BY <4>1, <4>2
        <3>2. published' \ backlog' \subseteq acked'
            BY <1>1 DEF SubscriptionInv, HandedOver, service
        <3> QED
            BY <1>1, <2>2, <3>1, <3>2 DEF HandedOver, test
    <2> QED
        BY <2>1, <2>2
<1> QED
    BY <1>4, <1>6 DEF SubscriptionInv

LEMMA AbandonHolds ==
    ASSUME SubscriptionInv, NEW b \in Callbacks, Abandon(b)
    PROVE  SubscriptionInv'
<1>1. /\ stop = "cancelled" /\ callback' = [callback EXCEPT ![b] = Nothing]
      /\ UNCHANGED <<isManualAck, service, acked, kept, receive, delivered, ch, pushed, test>>
      /\ acked \subseteq published /\ kept \subseteq published /\ delivered \in 0..MaxDeliveries
    BY DEF Abandon, SubscriptionInv, TypeOK
<1>2. TypeOK' /\ ReturnedIsIdle' /\ ComesFromTopic' /\ WaitsLoseNothing'
    BY <1>1, CallbackKeeps
<1>3. HandedOver'
    BY <1>1 DEF SubscriptionInv, HandedOver, service, test
<1> QED
    BY <1>2, <1>3 DEF SubscriptionInv

LEMMA PushHolds ==
    ASSUME SubscriptionInv, NEW b \in Callbacks, Push(b)
    PROVE  SubscriptionInv'
<1> DEFINE m == callback[b]
<1>1. /\ m # Nothing /\ Len(ch) < Capacity
      /\ ch' = Append(ch, m) /\ pushed' = Append(pushed, m)
      /\ callback' = [callback EXCEPT ![b] = Nothing]
      /\ UNCHANGED <<isManualAck, service, acked, kept, receive, delivered, test>>
    BY DEF Push
<1>2. /\ m \in Messages /\ m \in published
      /\ ch \in Seq(Messages) /\ pushed \in Seq(Messages)
      /\ returned \in Seq(Messages) /\ wait.got \in Seq(Messages)
    BY <1>1 DEF SubscriptionInv, TypeOK, ComesFromTopic
<1>3. \A c \in Callbacks : callback'[c] = IF c = b THEN Nothing ELSE callback[c]
    BY <1>1 DEF SubscriptionInv, TypeOK
<1> HIDE DEF m
<1>4. /\ ch' \in Seq(Messages) /\ pushed' \in Seq(Messages) /\ Len(ch') <= Capacity
      /\ Range(pushed') = Range(pushed) \cup {m}
    BY <1>1, <1>2, AppendedAtTheEnd, LenProperties
<1>5. TypeOK'
    <2>1. callback' \in [Callbacks -> Messages \cup {Nothing}]
        BY <1>1 DEF SubscriptionInv, TypeOK
    <2>2. stop = "stopped" => Idle' = Callbacks
        BY <1>3 DEF SubscriptionInv, TypeOK, Idle
    <2> QED
        BY <1>1, <1>4, <2>1, <2>2 DEF SubscriptionInv, TypeOK, NoWait, service, test
<1>6. ReturnedIsIdle'
    BY <1>1, <1>3 DEF SubscriptionInv, ReturnedIsIdle, Idle
<1>7. ComesFromTopic'
    BY <1>1, <1>2, <1>3, <1>4 DEF SubscriptionInv, ComesFromTopic, service
<1>8. HandedOver'
    BY <1>1, <1>3, <1>4, SMTT(30) DEF SubscriptionInv, HandedOver, service, test, m
<1>9. WaitsLoseNothing'
    <2> DEFINE st == returned \o wait.got
    <2>1. st \in Seq(Messages) /\ st \o ch = pushed
        BY <1>2, ConcatProperties DEF SubscriptionInv, WaitsLoseNothing
    <2> HIDE DEF st
    <2>2. st \o Append(ch, m) = Append(pushed, m)
        BY <1>2, <2>1, AppendedAtTheEnd
    <2>3. (returned' \o wait'.got) \o ch' = pushed'
        BY <1>1, <2>2 DEF st, test
    <2> QED
        BY <1>1, <2>3 DEF SubscriptionInv, WaitsLoseNothing, test
<1> QED
    BY <1>5, <1>6, <1>7, <1>8, <1>9 DEF SubscriptionInv

-----------------------------------------------------------------------------
(* The test *)

LEMMA AckHolds ==
    ASSUME SubscriptionInv, NEW m \in Messages, Ack(m)
    PROVE  SubscriptionInv'
<1>1. /\ isManualAck /\ m \in Range(returned)
      /\ acked' = acked \cup {m} /\ kept' = kept \ {m}
      /\ UNCHANGED <<isManualAck, service, callback, receive, delivered, ch, pushed, test>>
    BY DEF Ack
<1>2. m \in published
    <2>1. /\ returned \in Seq(Messages) /\ wait.got \in Seq(Messages) /\ ch \in Seq(Messages)
          /\ (returned \o wait.got) \o ch = pushed
        BY DEF SubscriptionInv, TypeOK, WaitsLoseNothing
    <2> DEFINE st == returned \o wait.got
    <2>2. st \in Seq(Messages) /\ Range(st) = Range(returned) \cup Range(wait.got)
        BY <2>1, ConcatProperties, RangeConcatenation
    <2>3. st \o ch = pushed
        BY <2>1
    <2> HIDE DEF st
    <2>4. Range(st \o ch) = Range(st) \cup Range(ch)
        BY <2>1, <2>2, RangeConcatenation
    <2> QED
        BY <1>1, <2>2, <2>3, <2>4 DEF SubscriptionInv, ComesFromTopic
<1>3. Idle' = Idle
    BY <1>1 DEF Idle
<1>4. TypeOK'
    BY <1>1, <1>2, <1>3 DEF SubscriptionInv, TypeOK, NoWait, service, test
<1>5. ReturnedIsIdle' /\ ComesFromTopic'
    BY <1>1, <1>3 DEF SubscriptionInv, ReturnedIsIdle, ComesFromTopic, service
<1>6. HandedOver'
    BY <1>1 DEF SubscriptionInv, HandedOver, service, test
<1>7. WaitsLoseNothing'
    BY <1>1 DEF SubscriptionInv, WaitsLoseNothing, test
<1> QED
    BY <1>4, <1>5, <1>6, <1>7 DEF SubscriptionInv

Outcomes == {"ok", "timeout", "cancelled", "invalid"}

(* A wait that begins, goes on or ends: what it has to keep.                *)
LEMMA WaitKeeps ==
    ASSUME SubscriptionInv,
           UNCHANGED <<isManualAck, service, client, pushed, stop>>,
           ch' \in Seq(Messages), Len(ch') <= Len(ch),
           wait' \in [n : 0..MaxN, got : Seq(Messages)],
           wait' = NoWait \/ (stop = "no" /\ Len(wait'.got) < wait'.n),
           returned' \o wait'.got \o ch' = pushed,
           \/ UNCHANGED <<results, returned>>
           \/ \E n \in 0..MaxN, got \in Seq(Messages), outcome \in Outcomes :
                 /\ Result(n, got, outcome)
                 /\ outcome = "ok" <=> n > 0 /\ Len(got) = n
    PROVE  SubscriptionInv'
<1> DEFINE Returns == [n : 0..MaxN, got : Seq(Messages), outcome : Outcomes]
<1>1. /\ results' \in Seq(Returns) /\ returned' \in Seq(Messages)
      /\ Range(returned) \subseteq Range(returned')
      /\ \A i \in DOMAIN results' : results'[i].outcome = "ok" <=>
            results'[i].n > 0 /\ Len(results'[i].got) = results'[i].n
    <2>1. /\ results \in Seq(Returns) /\ returned \in Seq(Messages)
          /\ \A i \in DOMAIN results : results[i].outcome = "ok" <=>
                results[i].n > 0 /\ Len(results[i].got) = results[i].n
        BY DEF SubscriptionInv, TypeOK, WaitsLoseNothing, Outcomes
    <2>2. CASE UNCHANGED <<results, returned>>
        BY <2>1, <2>2
    <2>3. ASSUME NEW n \in 0..MaxN, NEW got \in Seq(Messages), NEW outcome \in Outcomes,
                 Result(n, got, outcome), outcome = "ok" <=> n > 0 /\ Len(got) = n
          PROVE  <1>1!:
        <3> DEFINE r == [n |-> n, got |-> got, outcome |-> outcome]
        <3>1. r \in Returns /\ (r.outcome = "ok" <=> r.n > 0 /\ Len(r.got) = r.n)
            BY <2>3
        <3>2. results' = Append(results, r) /\ returned' = returned \o got
            BY <2>3 DEF Result
        <3> HIDE DEF r, Returns
        <3>3. /\ results' \in Seq(Returns) /\ Len(results') = Len(results) + 1
              /\ \A i \in 1..Len(results) : results'[i] = results[i]
              /\ results'[Len(results) + 1] = r
            BY <2>1, <3>1, <3>2, AppendProperties
        <3>4. /\ DOMAIN results = 1..Len(results) /\ Len(results) \in Nat
              /\ DOMAIN results' = 1..(Len(results) + 1)
            BY <2>1, <3>3, LenProperties
        <3>5. /\ returned' \in Seq(Messages)
              /\ Range(returned) \subseteq Range(returned')
            BY <2>1, <2>3, <3>2, ConcatProperties, RangeConcatenation
        <3>6. ASSUME NEW i \in DOMAIN results'
              PROVE  results'[i].outcome = "ok" <=>
                        results'[i].n > 0 /\ Len(results'[i].got) = results'[i].n
            <4>1. CASE i \in 1..Len(results)
                BY <2>1, <3>3, <3>4, <4>1
            <4>2. CASE i = Len(results) + 1
                BY <3>1, <3>3, <4>2
            <4> QED
                BY <3>4, <3>6, <4>1, <4>2
        <3> QED
            BY <3>3, <3>5, <3>6
    <2> QED
        BY <2>2, <2>3
<1>2. Idle' = Idle
    BY DEF Idle, client
<1>3. TypeOK'
    BY <1>1, <1>2, LenProperties DEF SubscriptionInv, TypeOK, Outcomes, service, client
<1>4. ReturnedIsIdle' /\ ComesFromTopic'
    BY <1>2 DEF SubscriptionInv, ReturnedIsIdle, ComesFromTopic, service, client
<1>5. HandedOver'
    BY <1>1 DEF SubscriptionInv, HandedOver, service, client
<1>6. WaitsLoseNothing'
    BY <1>1 DEF WaitsLoseNothing
<1> QED
    BY <1>3, <1>4, <1>5, <1>6 DEF SubscriptionInv

(* The parts of a state in which the test waits. *)
LEMMA WaitShape ==
    ASSUME SubscriptionInv
    PROVE  /\ returned \in Seq(Messages) /\ wait.got \in Seq(Messages) /\ ch \in Seq(Messages)
           /\ returned \o wait.got \in Seq(Messages) /\ returned \o wait.got \o ch = pushed
           /\ wait \in [n : 0..MaxN, got : Seq(Messages)]
           /\ wait # NoWait => stop = "no" /\ Len(wait.got) < wait.n
           /\ NoWait \in [n : 0..MaxN, got : Seq(Messages)] /\ NoWait.got = <<>>
           /\ Len(ch) \in Nat /\ Len(wait.got) \in Nat
<1>1. <<>> \in Seq(Messages)
    BY EmptySeq
<1>2. /\ returned \in Seq(Messages) /\ wait.got \in Seq(Messages) /\ ch \in Seq(Messages)
      /\ returned \o wait.got \o ch = pushed
      /\ wait \in [n : 0..MaxN, got : Seq(Messages)]
      /\ wait # NoWait => stop = "no" /\ Len(wait.got) < wait.n
    BY DEF SubscriptionInv, TypeOK, WaitsLoseNothing
<1>3. returned \o wait.got \in Seq(Messages) /\ Len(ch) \in Nat /\ Len(wait.got) \in Nat
    BY <1>2, ConcatProperties, LenProperties
<1>4. NoWait \in [n : 0..MaxN, got : Seq(Messages)] /\ NoWait.got = <<>>
    BY <1>1 DEF NoWait
<1> QED
    BY <1>2, <1>3, <1>4

LEMMA WaitBegins ==
    ASSUME SubscriptionInv, NEW n \in 0..MaxN, WaitForN(n)
    PROVE  SubscriptionInv'
<1>1. /\ stop = "no" /\ wait = NoWait
      /\ UNCHANGED <<isManualAck, service, client, ch, pushed, stop>>
    BY DEF WaitForN
<1>2. wait.got = <<>> /\ <<>> \in Seq(Messages) /\ Len(<<>>) = 0
    BY <1>1, WaitShape
<1>3. returned \o <<>> = returned /\ returned \o <<>> \o ch = pushed
    BY <1>2, WaitShape, ConcatEmptySeq
<1>4. CASE n <= 0 /\ Result(n, <<>>, "invalid") /\ UNCHANGED wait
    <2> DEFINE got == <<>>
    <2>1. returned' = returned
        BY <1>3, <1>4 DEF Result
    <2>2. /\ ch' \in Seq(Messages) /\ Len(ch') <= Len(ch)
          /\ wait' \in [n : 0..MaxN, got : Seq(Messages)] /\ wait' = NoWait
          /\ returned' \o wait'.got \o ch' = pushed
        <3>1. wait' = NoWait /\ wait'.got = <<>> /\ ch' = ch
            BY <1>1, <1>2, <1>4
        <3>2. returned' \o wait'.got = returned \o <<>>
            BY <2>1, <3>1
        <3> QED
            BY <1>3, <3>1, <3>2, WaitShape
    <2>3. /\ got \in Seq(Messages) /\ "invalid" \in Outcomes
          /\ "invalid" = "ok" <=> n > 0 /\ Len(got) = n
          /\ Result(n, got, "invalid")
        BY <1>2, <1>4 DEF Outcomes
    <2> HIDE DEF got
    <2> QED
        BY <1>1, <2>2, <2>3, WaitKeeps
<1>5. CASE n > 0 /\ wait' = [n |-> n, got |-> <<>>] /\ UNCHANGED <<results, returned>>
    <2>1. /\ ch' \in Seq(Messages) /\ Len(ch') <= Len(ch)
          /\ wait' \in [n : 0..MaxN, got : Seq(Messages)]
          /\ wait'.got = <<>> /\ wait'.n = n
        BY <1>1, <1>2, <1>5, WaitShape
    <2>2. Len(wait'.got) < wait'.n
        BY <1>2, <1>5, <2>1
    <2>3. returned' \o wait'.got \o ch' = pushed
        BY <1>1, <1>3, <1>5, <2>1
    <2> QED
        BY <1>1, <1>5, <2>1, <2>2, <2>3, WaitKeeps
<1> QED
    BY <1>4, <1>5 DEF WaitForN

LEMMA TakeHolds ==
    ASSUME SubscriptionInv, Take
    PROVE  SubscriptionInv'
<1> DEFINE got == Append(wait.got, Head(ch))
<1>1. /\ wait # NoWait /\ ch # <<>> /\ ch' = Tail(ch)
      /\ UNCHANGED <<isManualAck, service, client, pushed, stop>>
      /\ IF Len(got) = wait.n
            THEN wait' = NoWait /\ Result(wait.n, got, "ok")
            ELSE wait' = [wait EXCEPT !.got = got] /\ UNCHANGED <<results, returned>>
    BY DEF Take
<1>2. /\ Head(ch) \in Messages /\ Tail(ch) \in Seq(Messages) /\ Len(Tail(ch)) <= Len(ch)
      /\ (returned \o got) \o Tail(ch) = (returned \o wait.got) \o ch
    <2>1. returned \in Seq(Messages) /\ wait.got \in Seq(Messages) /\ ch \in Seq(Messages)
        BY WaitShape
    <2>2. ch # <<>>
        BY <1>1
    <2> DEFINE g == wait.got
    <2>3. g \in Seq(Messages) /\ got = Append(g, Head(ch))
        BY <2>1
    <2> HIDE DEF got, g
    <2>4. \A a, b, d \in Seq(Messages) : d # <<>> =>
            (a \o Append(b, Head(d))) \o Tail(d) = (a \o b) \o d
        BY TakenFromTheFront, ZenonT(60)
    <2>5. (returned \o Append(g, Head(ch))) \o Tail(ch) = (returned \o g) \o ch
        BY <2>1, <2>2, <2>3, <2>4, ZenonT(60)
    <2>6. (returned \o got) \o Tail(ch) = (returned \o g) \o ch
        BY <2>3, <2>5
    <2>7. Head(ch) \in Messages /\ Tail(ch) \in Seq(Messages) /\ Len(Tail(ch)) <= Len(ch)
        BY <2>1, <2>2, TakenFromTheFront
    <2> QED
        BY <2>6, <2>7 DEF g
<1>3. got \in Seq(Messages) /\ Len(got) = Len(wait.got) + 1
    BY <1>2, WaitShape, AppendProperties
<1> HIDE DEF got
<1>4. CASE Len(got) = wait.n
    <2>1. wait' = NoWait /\ Result(wait.n, got, "ok") /\ returned' = returned \o got
        BY <1>1, <1>4 DEF Result
    <2>2. returned' \in Seq(Messages) /\ returned' \o <<>> = returned'
        BY <1>3, <2>1, WaitShape, ConcatProperties, ConcatEmptySeq
    <2>3. returned' \o wait'.got \o ch' = pushed
        BY <1>1, <1>2, <2>1, <2>2, WaitShape
    <2>4. wait.n \in 0..MaxN /\ wait.n > 0 /\ "ok" \in Outcomes
        BY <1>3, <1>4, WaitShape DEF Outcomes
    <2>5. wait' \in [n : 0..MaxN, got : Seq(Messages)] /\ ch' \in Seq(Messages)
          /\ Len(ch') <= Len(ch)
        BY <1>1, <1>2, <2>1, WaitShape
    <2> QED
        BY <1>1, <1>3, <1>4, <2>1, <2>3, <2>4, <2>5, WaitKeeps
<1>5. CASE Len(got) # wait.n
    <2>1. wait' = [wait EXCEPT !.got = got] /\ UNCHANGED <<results, returned>>
        BY <1>1, <1>5
    <2>2. /\ wait' \in [n : 0..MaxN, got : Seq(Messages)]
          /\ wait'.got = got /\ wait'.n = wait.n
        BY <1>3, <2>1, WaitShape
    <2>3. stop = "no" /\ Len(wait'.got) < wait'.n
        BY <1>1, <1>3, <1>5, <2>2, WaitShape, SMTT(30)
    <2>4. returned' \o wait'.got \o ch' = pushed
        BY <1>1, <1>2, <2>1, <2>2, WaitShape
    <2>5. ch' \in Seq(Messages) /\ Len(ch') <= Len(ch)
        BY <1>1, <1>2
    <2> QED
        BY <1>1, <2>1, <2>2, <2>3, <2>4, <2>5, WaitKeeps
<1> QED
    BY <1>4, <1>5

LEMMA GiveUpHolds ==
    ASSUME SubscriptionInv, NEW outcome \in {"timeout", "cancelled"}, GiveUp(outcome)
    PROVE  SubscriptionInv'
<1>1. /\ wait # NoWait /\ wait' = NoWait /\ Result(wait.n, wait.got, outcome)
      /\ UNCHANGED <<isManualAck, service, client, ch, pushed, stop>>
      /\ returned' = returned \o wait.got
    BY DEF GiveUp, Result
<1>2. returned' \o <<>> = returned'
    BY <1>1, WaitShape, ConcatEmptySeq
<1>3. returned' \o wait'.got \o ch' = pushed
    BY <1>1, <1>2, WaitShape
<1>4. /\ wait.n \in 0..MaxN /\ wait.got \in Seq(Messages) /\ Len(wait.got) # wait.n
      /\ outcome \in Outcomes /\ outcome # "ok"
    BY <1>1, WaitShape DEF Outcomes
<1>5. ch' \in Seq(Messages) /\ Len(ch') <= Len(ch)
      /\ wait' \in [n : 0..MaxN, got : Seq(Messages)]
    BY <1>1, WaitShape
<1> QED
    BY <1>1, <1>3, <1>4, <1>5, WaitKeeps

LEMMA StopHolds ==
    ASSUME SubscriptionInv, Cancel \/ Stopped
    PROVE  SubscriptionInv'
<1>1. /\ UNCHANGED <<isManualAck, service, client, ch, pushed, wait, results, returned>>
      /\ \/ stop = "no" /\ stop' = "cancelled" /\ wait = NoWait
         \/ stop = "cancelled" /\ stop' = "stopped" /\ receive = "returned"
    BY DEF Cancel, Stopped
<1>2. Idle' = Idle
    BY <1>1 DEF Idle, client
<1>3. TypeOK'
    BY <1>1, <1>2 DEF SubscriptionInv, TypeOK, ReturnedIsIdle, NoWait, service, client
<1>4. ReturnedIsIdle' /\ ComesFromTopic'
    BY <1>1, <1>2 DEF SubscriptionInv, ReturnedIsIdle, ComesFromTopic, service, client
<1>5. HandedOver'
    BY <1>1 DEF SubscriptionInv, HandedOver, service, client
<1>6. WaitsLoseNothing'
    BY <1>1 DEF SubscriptionInv, WaitsLoseNothing
<1> QED
    BY <1>3, <1>4, <1>5, <1>6 DEF SubscriptionInv

LEMMA StepHolds == SubscriptionInv /\ [Next]_vars => SubscriptionInv'
<1> SUFFICES ASSUME SubscriptionInv, [Next]_vars PROVE SubscriptionInv'
    OBVIOUS
<1>1. ASSUME NEW m \in Messages, Publish(m) \/ Settle(m) \/ Expire(m) PROVE SubscriptionInv'
    BY <1>1, ClientSteps
<1>2. CASE ReceiveFails \/ ReceiveReturns
    BY <1>2, ClientSteps
<1>3. ASSUME NEW m \in Messages, Ack(m) PROVE SubscriptionInv'
    BY <1>3, AckHolds
<1>4. ASSUME NEW b \in Callbacks, Push(b) PROVE SubscriptionInv'
    BY <1>4, PushHolds
<1>5. ASSUME NEW b \in Callbacks, Abandon(b) PROVE SubscriptionInv'
    BY <1>5, AbandonHolds
<1>6. ASSUME NEW b \in Callbacks, NEW m \in Messages, Callback(b, m) PROVE SubscriptionInv'
    BY <1>6, CallbackHolds
<1>7. ASSUME NEW n \in 0..MaxN, WaitForN(n) PROVE SubscriptionInv'
    BY <1>7, WaitBegins
<1>8. CASE Take
    BY <1>8, TakeHolds
<1>9. ASSUME NEW outcome \in {"timeout", "cancelled"}, GiveUp(outcome) PROVE SubscriptionInv'
    BY <1>9, GiveUpHolds
<1>10. CASE Cancel \/ Stopped
    BY <1>10, StopHolds
<1>11. CASE UNCHANGED vars
    <2>1. Idle' = Idle
        BY <1>11 DEF vars, client, Idle
    <2>2. TypeOK' /\ ReturnedIsIdle'
        BY <1>11, <2>1 DEF vars, service, client, test, SubscriptionInv, TypeOK, ReturnedIsIdle, NoWait
    <2>3. ComesFromTopic' /\ HandedOver' /\ WaitsLoseNothing'
        BY <1>11 DEF vars, service, client, test, SubscriptionInv, ComesFromTopic, HandedOver,
                     WaitsLoseNothing
    <2> QED
        BY <2>2, <2>3 DEF SubscriptionInv
<1> QED
    BY <1>1, <1>2, <1>3, <1>4, <1>5, <1>6, <1>7, <1>8, <1>9, <1>10, <1>11 DEF Next

-----------------------------------------------------------------------------
(* Every state of a subscription satisfies the invariant, whatever the      *)
(* service redelivers and whenever the test waits, acks or stops.           *)
THEOREM Invariance == Spec => []SubscriptionInv
BY InitHolds, StepHolds, PTL DEF Spec

(* The channel stays within its capacity, the test does not stop the        *)
(* subscription while it waits, and once stop has returned no callback is   *)
(* left that could touch what the next test uses (emulator.go 230-235).     *)
THEOREM TypeCorrect == Spec => []TypeOK
<1>1. SubscriptionInv => TypeOK
    BY DEF SubscriptionInv
<1> QED
    BY Invariance, <1>1, PTL

(* No message the service has forgotten is lost to the test: it was given   *)
(* to it, where the test acknowledges, and else it was pushed or is about   *)
(* to be, however often it is redelivered, Receive fails and the channel is *)
(* full, until stop (emulator.go 177-196).                                  *)
THEOREM NothingForgotten == Spec => []ForgottenIsHandedOver
<1>1. SubscriptionInv => ForgottenIsHandedOver
    BY DEF SubscriptionInv, HandedOver, ForgottenIsHandedOver
<1> QED
    BY Invariance, <1>1, PTL

(* The waits give the test every pushed message once and in order, whatever *)
(* the timeouts cut in two, and only a full count comes without an error    *)
(* (emulator.go 240-275).                                                   *)
THEOREM WaitsAreComplete == Spec => []WaitsLoseNothing
<1>1. SubscriptionInv => WaitsLoseNothing
    BY DEF SubscriptionInv
<1> QED
    BY Invariance, <1>1, PTL
=============================================================================
