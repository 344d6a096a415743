----------------------------- MODULE FakesProofs -----------------------------
(***************************************************************************)
(* What the test doubles promise the tests of consuming services, for any  *)
(* topics, publishers and receivers and any sizes of the buffers.          *)
(***************************************************************************)
EXTENDS Fakes, SequenceTheorems, FiniteSetTheorems, TLAPS

USE CapAssumption, ReceiversAssumption, BoundAssumption

-----------------------------------------------------------------------------
(* Sequences that hold nothing twice *)

NoRepeat(s) == \A i, j \in DOMAIN s : s[i] = s[j] => i = j

LEMMA Empty ==
    ASSUME NEW S
    PROVE  <<>> \in Seq(S) /\ Len(<<>>) = 0 /\ Elements(<<>>) = {} /\ NoRepeat(<<>>)
BY EmptySeq DEF Elements, NoRepeat

LEMMA Appended ==
    ASSUME NEW S, NEW s \in Seq(S), NEW m \in S
    PROVE  /\ Append(s, m) \in Seq(S) /\ Len(Append(s, m)) = Len(s) + 1
           /\ Elements(Append(s, m)) = Elements(s) \cup {m}
           /\ NoRepeat(s) /\ m \notin Elements(s) => NoRepeat(Append(s, m))
<1> DEFINE a == Append(s, m)
<1>1. /\ a \in Seq(S) /\ Len(a) = Len(s) + 1 /\ Len(s) \in Nat
      /\ DOMAIN s = 1 .. Len(s) /\ DOMAIN a = 1 .. Len(s) + 1
      /\ \A i \in 1 .. Len(s) : a[i] = s[i]
      /\ a[Len(s) + 1] = m
    BY AppendProperties, LenProperties
<1> HIDE DEF a
<1>2. Elements(a) = Elements(s) \cup {m}
    BY <1>1 DEF Elements
<1>3. NoRepeat(s) /\ m \notin Elements(s) => NoRepeat(a)
    BY <1>1 DEF Elements, NoRepeat
<1> QED
    BY <1>1, <1>2, <1>3 DEF a

LEMMA Beheaded ==
    ASSUME NEW S, NEW s \in Seq(S), s # <<>>
    PROVE  /\ Head(s) \in S /\ Tail(s) \in Seq(S) /\ Len(Tail(s)) = Len(s) - 1
           /\ Elements(s) = Elements(Tail(s)) \cup {Head(s)}
           /\ NoRepeat(s) => NoRepeat(Tail(s)) /\ Head(s) \notin Elements(Tail(s))
<1> DEFINE h == Head(s) r == Tail(s)
<1>1. /\ h \in S /\ r \in Seq(S) /\ Len(r) = Len(s) - 1 /\ Len(s) \in Nat \ {0}
      /\ DOMAIN s = 1 .. Len(s) /\ DOMAIN r = 1 .. Len(s) - 1
      /\ \A i \in 1 .. Len(s) - 1 : r[i] = s[i + 1]
      /\ h = s[1]
    BY HeadTailProperties, LenProperties, EmptySeq
<1> HIDE DEF h, r
<1>2. Elements(s) \subseteq Elements(r) \cup {h}
    <2> SUFFICES ASSUME NEW i \in 1 .. Len(s) PROVE s[i] \in Elements(r) \cup {h}
        BY <1>1 DEF Elements
    <2>1. CASE i = 1
        BY <1>1, <2>1
    <2>2. CASE i # 1
        <3>1. i - 1 \in DOMAIN r /\ r[i - 1] = s[i]
            BY <1>1, <2>2
        <3> QED
            BY <3>1 DEF Elements
    <2> QED
        BY <2>1, <2>2
<1>3. Elements(r) \cup {h} \subseteq Elements(s)
    <2>1. \A i \in DOMAIN r : i + 1 \in DOMAIN s /\ r[i] = s[i + 1]
        BY <1>1
    <2>2. 1 \in DOMAIN s /\ h = s[1]
        BY <1>1
    <2> QED
        BY <2>1, <2>2 DEF Elements
<1>4. ASSUME NoRepeat(s) PROVE NoRepeat(r) /\ h \notin Elements(r)
    <2>1. \A i \in DOMAIN r : i + 1 \in DOMAIN s /\ r[i] = s[i + 1] /\ i \in Nat \ {0}
        BY <1>1
    <2>2. 1 \in DOMAIN s /\ h = s[1]
        BY <1>1
    <2>3. \A i, j \in DOMAIN r : r[i] = r[j] => i = j
        <3> SUFFICES ASSUME NEW i \in DOMAIN r, NEW j \in DOMAIN r, r[i] = r[j] PROVE i = j
            OBVIOUS
        <3>1. i + 1 = j + 1
            BY <1>4, <2>1 DEF NoRepeat
        <3> QED
            BY <2>1, <3>1
    <2>4. ASSUME NEW i \in DOMAIN r, r[i] = h PROVE FALSE
        <3>1. i + 1 = 1
            BY <1>4, <2>1, <2>2, <2>4 DEF NoRepeat
        <3> QED
            BY <2>1, <3>1
    <2> QED
        BY <2>3, <2>4 DEF NoRepeat, Elements
<1> QED
    BY <1>1, <1>2, <1>3, <1>4 DEF h, r

(* What moves from the front of u to the end of t keeps its place in t \o u. *)
LEMMA Moved ==
    ASSUME NEW S, NEW t \in Seq(S), NEW u \in Seq(S)
    PROVE  /\ t \o u \in Seq(S)
           /\ \A m \in S : t \o Append(u, m) = Append(t \o u, m)
           /\ u # <<>> => Append(t, Head(u)) \o Tail(u) = t \o u
<1>1. \A a, b, d \in Seq(S) : (a \o b) \o d = a \o (b \o d)
    BY ConcatAssociative, SMTT(30)
<1>2. t \o u \in Seq(S)
    BY ConcatProperties
<1>3. ASSUME NEW m \in S PROVE t \o Append(u, m) = Append(t \o u, m)
    <2> DEFINE one == <<m>>
    <2>1. one \in Seq(S)
        OBVIOUS
    <2>2. Append(u, m) = u \o one /\ Append(t \o u, m) = (t \o u) \o one
        BY <1>2, AppendIsConcat
    <2> HIDE DEF one
    <2> QED
        BY <1>1, <2>1, <2>2
<1>4. ASSUME u # <<>> PROVE Append(t, Head(u)) \o Tail(u) = t \o u
    <2> DEFINE h == Head(u) r == Tail(u) one == <<h>>
    <2>1. h \in S /\ r \in Seq(S) /\ u = one \o r
        BY <1>4, HeadTailProperties
    <2>2. one \in Seq(S) /\ Append(t, h) = t \o one
        BY <2>1, AppendIsConcat
    <2> HIDE DEF h, r, one
    <2>3. Append(t, h) \o r = t \o u
        BY <1>1, <2>1, <2>2
    <2> QED
        BY <2>3 DEF h, r
<1> QED
    BY <1>2, <1>3, <1>4

-----------------------------------------------------------------------------
(* The invariant *)

Running(c) == call[c] # Returned

SubscribedOnce == \A t \in Topics : NoRepeat(byTopic[t])

(* No two calls of Publish are about the same message. *)
CallsAreApart ==
    \A c, d \in Callers :
        Running(c) /\ Running(d) /\ call[c].msg = call[d].msg => c = d

(* A message is meant for receivers of its topic; who subscribed later has  *)
(* missed it only if its Publish had returned by then.                      *)
AudienceSubscribed ==
    \A m \in DOMAIN published : audience[m] \subseteq Elements(byTopic[published[m]])
MissedHasEnded == \A r \in Receivers : missed[r] \subseteq Ended

(* Nothing enters a channel twice, and what a returned call published is    *)
(* in the channel of its whole audience.                                    *)
ArrivedOnce == \A r \in Receivers : NoRepeat(Arrived(r))
EndedArrived ==
    \A m \in Ended : \A r \in audience[m] : m \in Elements(Arrived(r))

(* A call that has not copied the list has reached nobody. One that has     *)
(* still owes its message to the rest of the copy, none of whom has it,     *)
(* and everyone of the audience outside the rest of the copy has.           *)
CallReaches(c) ==
    LET m == call[c].msg
        rest == Elements(call[c].targets)
    IN
    /\ call[c].step \in {"recorded", "sending"}
    /\ NoRepeat(call[c].targets)
    /\ rest \subseteq Elements(byTopic[published[m]])
    /\ \A r \in rest : m \notin Elements(Arrived(r))
    /\ IF call[c].step = "recorded"
          THEN \A r \in Receivers : m \notin Elements(Arrived(r))
          ELSE \A r \in audience[m] \ rest : m \in Elements(Arrived(r))
CallsReach == \A c \in Callers : Running(c) => CallReaches(c)

Fanout ==
    /\ SubscribedOnce
    /\ CallsAreApart
    /\ AudienceSubscribed
    /\ MissedHasEnded
    /\ ArrivedOnce
    /\ EndedArrived
    /\ CallsReach
    /\ NothingElse

FakesInv ==
    /\ TypeOK
    /\ ResultsInOrder
    /\ Fanout

LEMMA ArrivedIsSequence ==
    ASSUME TypeOK, NEW r \in Receivers
    PROVE  Arrived(r) \in Seq(Messages)
<1>1. taken[r] \in Seq(Messages) /\ queue[r] \in Seq(Messages)
    BY DEF TypeOK
<1> QED
    BY <1>1, Moved DEF Arrived

LEMMA EndedOrRunning ==
    ASSUME FakesInv
    PROVE  /\ Ended \subseteq DOMAIN published
           /\ \A c \in Callers : Running(c) =>
                /\ call[c].msg \in DOMAIN published /\ call[c].msg \notin Ended
                /\ published[call[c].msg] \in Topics /\ call[c].msg \in Messages
           /\ DOMAIN published = 1 .. Len(published) /\ Len(published) \in 0 .. MaxMessages
           /\ \A m \in DOMAIN published : published[m] \in Topics /\ m \in Messages
<1>1. DOMAIN published = 1 .. Len(published) /\ Len(published) \in Nat
    BY LenProperties DEF FakesInv, TypeOK
<1>2. \A m \in DOMAIN published : published[m] \in Topics /\ m \in Messages
    BY <1>1, ElementOfSeq DEF FakesInv, TypeOK, Messages
<1>3. Len(published) \in 0 .. MaxMessages
    BY <1>1 DEF FakesInv, TypeOK
<1> QED
    BY <1>1, <1>2, <1>3 DEF FakesInv, TypeOK, Ended, Running

LEMMA InitHolds == Init => FakesInv
<1> SUFFICES ASSUME Init PROVE FakesInv
    OBVIOUS
<1> USE DEF Init
<1>1. /\ \A S : <<>> \in Seq(S)
      /\ Len(<<>>) = 0 /\ Elements(<<>>) = {} /\ NoRepeat(<<>>)
      /\ DOMAIN <<>> = {}
    BY Empty DEF Elements
<1>2. Returned \in Call
    BY <1>1 DEF Returned, Call
<1>3. TypeOK
    BY <1>1, <1>2 DEF TypeOK
<1>4. \A r \in Receivers : Arrived(r) = <<>>
    BY <1>1, ConcatEmptySeq DEF Arrived
<1>5. ResultsInOrder
    BY <1>1, ConcatEmptySeq DEF ResultsInOrder, Receivers
<1>6. Ended = {} /\ \A c \in Callers : ~ Running(c)
    BY <1>1 DEF Ended, Running
<1>7. SubscribedOnce /\ CallsAreApart /\ AudienceSubscribed /\ MissedHasEnded
    BY <1>1, <1>6 DEF SubscribedOnce, CallsAreApart, AudienceSubscribed, MissedHasEnded
<1>8. ArrivedOnce /\ EndedArrived /\ CallsReach /\ NothingElse
    BY <1>1, <1>4, <1>6 DEF ArrivedOnce, EndedArrived, CallsReach, NothingElse
<1> QED
    BY <1>3, <1>5, <1>7, <1>8 DEF FakesInv, Fanout

-----------------------------------------------------------------------------
(* The broker *)

LEMMA SubscribeStep ==
    ASSUME FakesInv, NEW r \in Receivers, NEW t \in Topics, Subscribe(r, t)
    PROVE  FakesInv'
<1> USE DEF FakesInv, Fanout
<1>1. /\ UNCHANGED <<published, call, queue, taken, consume, handled, observed,
                     cancelled, audience>>
      /\ byTopic' = [byTopic EXCEPT ![t] = Append(@, r)]
      /\ missed' = [missed EXCEPT ![r] = Ended]
      /\ r \notin Subscribed
    BY DEF Subscribe, stream
<1>2. byTopic[t] \in Seq(Receivers) /\ r \notin Elements(byTopic[t])
    BY <1>1 DEF TypeOK, Subscribed
<1>3. /\ Append(byTopic[t], r) \in Seq(Receivers)
      /\ Elements(Append(byTopic[t], r)) = Elements(byTopic[t]) \cup {r}
      /\ NoRepeat(Append(byTopic[t], r))
    BY <1>2, Appended DEF SubscribedOnce
<1>4. \A u \in Topics :
        /\ byTopic'[u] \in Seq(Receivers) /\ NoRepeat(byTopic'[u])
        /\ Elements(byTopic[u]) \subseteq Elements(byTopic'[u])
    BY <1>1, <1>2, <1>3 DEF TypeOK, SubscribedOnce
<1>5. Ended' = Ended /\ (\A q : Arrived(q)' = Arrived(q)) /\ \A c : Running(c)' = Running(c)
    BY <1>1 DEF Ended, Arrived, Running
<1>6. \A q \in Receivers : missed'[q] = IF q = r THEN Ended ELSE missed[q]
    BY <1>1 DEF TypeOK
<1>7. TypeOK'
    <2>1. missed' \in [Receivers -> SUBSET Messages]
        BY <1>1, EndedOrRunning DEF TypeOK
    <2>2. byTopic' \in [Topics -> Seq(Receivers)]
        BY <1>1, <1>3 DEF TypeOK
    <2> QED
        BY <1>1, <2>1, <2>2 DEF TypeOK
<1>8. ResultsInOrder'
    BY <1>1 DEF ResultsInOrder
<1>9. SubscribedOnce' /\ CallsAreApart' /\ ArrivedOnce' /\ EndedArrived'
    BY <1>1, <1>4, <1>5 DEF SubscribedOnce, CallsAreApart, ArrivedOnce, EndedArrived
<1>10. AudienceSubscribed' /\ CallsReach'
    BY <1>1, <1>4, <1>5, EndedOrRunning DEF AudienceSubscribed, CallsReach, CallReaches
<1>11. MissedHasEnded'
    BY <1>5, <1>6 DEF MissedHasEnded
<1>12. NothingElse'
    <2> SUFFICES ASSUME NEW q \in Receivers, NEW m \in Elements(Arrived(q))
                 PROVE  /\ m \in DOMAIN published
                        /\ q \in Elements(byTopic'[published[m]])
                        /\ m \notin missed'[q]
        BY <1>1, <1>5 DEF NothingElse
    <2>1. /\ m \in DOMAIN published /\ published[m] \in Topics
          /\ q \in Elements(byTopic[published[m]]) /\ m \notin missed[q]
        BY EndedOrRunning DEF NothingElse
    <2>2. q # r
        BY <1>1, <2>1 DEF Subscribed
    <2> QED
        BY <1>4, <1>6, <2>1, <2>2
<1> QED
    BY <1>7, <1>8, <1>9, <1>10, <1>11, <1>12

LEMMA RecordStep ==
    ASSUME FakesInv, NEW c \in Callers, NEW t \in Topics, Record(c, t)
    PROVE  FakesInv'
<1> USE DEF FakesInv, Fanout
<1> DEFINE n == Len(published) + 1
           new == [step |-> "recorded", msg |-> n, targets |-> <<>>]
<1>1. /\ UNCHANGED <<byTopic, queue, taken, consume, handled, observed, cancelled, missed>>
      /\ published' = Append(published, t)
      /\ call' = [call EXCEPT ![c] = new]
      /\ audience' = [audience EXCEPT ![n] = Elements(byTopic[t])]
      /\ ~ Running(c) /\ Len(published) < MaxMessages
    BY DEF Record, broker, stream, Running
<1>2. /\ n \in Messages /\ n \notin DOMAIN published
      /\ published' \in Seq(Topics) /\ Len(published') = n
      /\ DOMAIN published' = DOMAIN published \cup {n}
      /\ published'[n] = t
      /\ \A m \in DOMAIN published : published'[m] = published[m]
    BY <1>1, EndedOrRunning, AppendProperties DEF TypeOK, Messages
<1>3. new \in Call /\ new # Returned
    BY <1>2, Empty DEF Call, Returned, Messages
<1>4. call' \in [Callers -> Call]
    BY <1>1, <1>3 DEF TypeOK
<1>5. \A d \in Callers : call'[d] = IF d = c THEN new ELSE call[d]
    BY <1>1 DEF TypeOK
<1>6. \A d \in Callers : Running(d)' <=> d = c \/ Running(d)
    BY <1>3, <1>5 DEF Running
<1>7. Ended' = Ended
    <2>1. new.msg = n
        OBVIOUS
    <2> HIDE DEF new, n
    <2>2. n \notin Ended'
        BY <1>5, <1>6, <2>1 DEF Ended, Running
    <2>3. \A m \in DOMAIN published : m \in Ended' <=> m \in Ended
        BY <1>1, <1>2, <1>5, <1>6, <2>1 DEF Ended, Running
    <2> QED
        BY <1>2, <2>2, <2>3 DEF Ended
<1>8. /\ \A q : Arrived(q)' = Arrived(q)
      /\ \A q \in Receivers : n \notin Elements(Arrived(q))
    BY <1>1, <1>2 DEF Arrived, NothingElse
<1>9. /\ \A m \in DOMAIN published : audience'[m] = audience[m]
      /\ audience'[n] = Elements(byTopic[t])
      /\ audience' \in [Messages -> SUBSET Receivers]
    <2>1. Elements(byTopic[t]) \subseteq Receivers
        BY ElementOfSeq DEF TypeOK, Elements
    <2> QED
        BY <1>1, <1>2, <2>1, EndedOrRunning DEF TypeOK
<1>10. TypeOK'
    <2>1. \A d \in Callers : Running(d)' => call'[d].msg \in DOMAIN published'
        BY <1>2, <1>5, <1>6, EndedOrRunning
    <2>2. Len(published') <= MaxMessages
        BY <1>1, <1>2, EndedOrRunning
    <2> HIDE DEF n, new
    <2> QED
        BY <1>1, <1>2, <1>4, <1>9, <2>1, <2>2 DEF TypeOK, Running
<1>11. ResultsInOrder'
    BY <1>1 DEF ResultsInOrder
<1>12. CallsAreApart'
    <2> SUFFICES ASSUME NEW d \in Callers, NEW e \in Callers, Running(d)', Running(e)',
                        call'[d].msg = call'[e].msg
                 PROVE  d = e
        BY DEF CallsAreApart
    <2> QED
        BY <1>2, <1>5, <1>6, EndedOrRunning DEF CallsAreApart
<1>13. CallsReach'
    <2>1. ASSUME NEW d \in Callers, d # c, Running(d)' PROVE CallReaches(d)'
        <3>1. call'[d] = call[d] /\ Running(d) /\ call[d].msg \in DOMAIN published
            BY <1>5, <1>6, <2>1, EndedOrRunning
        <3>2. CallReaches(d)
            BY <3>1 DEF CallsReach
        <3> HIDE DEF n, new
        <3> QED
            BY <1>1, <1>2, <1>8, <1>9, <3>1, <3>2 DEF CallReaches
    <2>2. CallReaches(c)'
        <3>1. call'[c].step = "recorded" /\ call'[c].msg = n /\ call'[c].targets = <<>>
            BY <1>5
        <3> HIDE DEF n, new
        <3> QED
            BY <1>8, <3>1, Empty DEF CallReaches
    <2> QED
        BY <2>1, <2>2 DEF CallsReach
<1> HIDE DEF n, new
<1>14. SubscribedOnce' /\ ArrivedOnce' /\ MissedHasEnded'
    BY <1>1, <1>7, <1>8 DEF SubscribedOnce, ArrivedOnce, MissedHasEnded
<1>15. AudienceSubscribed'
    BY <1>1, <1>2, <1>9 DEF AudienceSubscribed
<1>16. EndedArrived'
    BY <1>7, <1>8, <1>9, EndedOrRunning DEF EndedArrived
<1>17. NothingElse'
    BY <1>1, <1>2, <1>8 DEF NothingElse
<1> QED
    BY <1>10, <1>11, <1>12, <1>13, <1>14, <1>15, <1>16, <1>17

LEMMA SnapshotStep ==
    ASSUME FakesInv, NEW c \in Callers, Snapshot(c)
    PROVE  FakesInv'
<1> USE DEF FakesInv, Fanout
<1> DEFINE m == call[c].msg
           list == byTopic[published[m]]
           new == [step |-> "sending", msg |-> m, targets |-> list]
<1>1. /\ UNCHANGED <<published, byTopic, queue, taken, consume, handled, observed,
                     cancelled, audience, missed>>
      /\ call[c].step = "recorded" /\ Running(c)
      /\ call' = [call EXCEPT ![c] = new]
    <2>1. /\ UNCHANGED <<published, byTopic, queue, taken, consume, handled, observed,
                         cancelled, audience, missed>>
          /\ call[c].step = "recorded" /\ Running(c)
        BY DEF Snapshot, broker, stream, history, Running, Returned
    <2>2. call' = [call EXCEPT ![c] = new]
        BY DEF Snapshot
    <2> QED
        BY <2>1, <2>2
<1>2. m \in DOMAIN published /\ m \in 0 .. MaxMessages /\ published[m] \in Topics
      /\ list \in Seq(Receivers)
    BY <1>1, EndedOrRunning DEF TypeOK, Call
<1>3. new \in Call /\ new # Returned
    BY <1>2 DEF Call, Returned
<1>4. call' \in [Callers -> Call]
    BY <1>1, <1>3 DEF TypeOK
<1>5. \A d \in Callers : call'[d] = IF d = c THEN new ELSE call[d]
    BY <1>1 DEF TypeOK
<1>6. \A d \in Callers : (Running(d)' <=> Running(d)) /\ call'[d].msg = call[d].msg
    BY <1>1, <1>3, <1>5 DEF Running
<1>7. CallReaches(c)
    BY <1>1 DEF CallsReach
<1>8. \A q : Arrived(q)' = Arrived(q)
    BY <1>1 DEF Arrived
<1>9. CallReaches(c)'
    <2>1. call'[c].step = "sending" /\ call'[c].msg = m /\ call'[c].targets = list
        BY <1>5
    <2>2. NoRepeat(list) /\ audience[m] \subseteq Elements(list)
        BY <1>2 DEF SubscribedOnce, AudienceSubscribed
    <2>3. \A r \in Elements(list) : r \in Receivers
        BY <1>2, ElementOfSeq DEF Elements
    <2>4. \A r \in Receivers : m \notin Elements(Arrived(r))
        BY <1>1, <1>7 DEF CallReaches
    <2> QED
        BY <1>1, <1>8, <2>1, <2>2, <2>3, <2>4 DEF CallReaches
<1> HIDE DEF m, list, new
<1>10. CallsReach'
    <2>1. ASSUME NEW d \in Callers, d # c, Running(d)' PROVE CallReaches(d)'
        <3>1. call'[d] = call[d] /\ CallReaches(d)
            BY <1>5, <1>6, <2>1 DEF CallsReach
        <3> QED
            BY <1>1, <1>8, <3>1 DEF CallReaches
    <2> QED
        BY <1>9, <2>1 DEF CallsReach
<1>11. Ended' = Ended
    BY <1>1, <1>6 DEF Ended, Running
<1>12. TypeOK'
    BY <1>1, <1>4, <1>6 DEF TypeOK, Running
<1>13. ResultsInOrder' /\ SubscribedOnce' /\ AudienceSubscribed' /\ MissedHasEnded'
    BY <1>1, <1>11
       DEF ResultsInOrder, SubscribedOnce, AudienceSubscribed, MissedHasEnded
<1>14. CallsAreApart'
    BY <1>6 DEF CallsAreApart
<1>15. ArrivedOnce' /\ EndedArrived' /\ NothingElse'
    BY <1>1, <1>8, <1>11 DEF ArrivedOnce, EndedArrived, NothingElse
<1> QED
    BY <1>10, <1>12, <1>13, <1>14, <1>15

LEMMA SendStep ==
    ASSUME FakesInv, NEW c \in Callers, Send(c)
    PROVE  FakesInv'
<1> USE DEF FakesInv, Fanout
<1> DEFINE m == call[c].msg
           list == call[c].targets
           first == Head(list)
           rest == Tail(list)
           new == [step |-> "sending", msg |-> m, targets |-> rest]
<1>1. /\ UNCHANGED <<published, byTopic, taken, consume, handled, observed,
                     cancelled, audience, missed>>
      /\ call[c].step = "sending" /\ Running(c) /\ list # <<>>
      /\ call' = [call EXCEPT ![c] = new]
      /\ queue' = [queue EXCEPT ![first] = Append(@, m)]
      /\ Len(queue[first]) < ChannelCap
    <2>1. /\ UNCHANGED <<published, byTopic, taken, consume, handled, observed,
                         cancelled, audience, missed>>
          /\ call[c].step = "sending" /\ Running(c) /\ list # <<>>
          /\ queue' = [queue EXCEPT ![first] = Append(@, m)]
          /\ Len(queue[first]) < ChannelCap
        BY DEF Send, stream, history, Running, Returned
    <2>2. call' = [call EXCEPT ![c].targets = rest]
        BY DEF Send
    <2>3. call[c] = [step |-> "sending", msg |-> m, targets |-> list]
        BY <2>1 DEF TypeOK, Call
    <2> HIDE DEF m, list, first, rest
    <2>4. [call[c] EXCEPT !.targets = rest] = new
        BY <2>3
    <2>5. call' = [call EXCEPT ![c] = new]
        BY <2>2, <2>4
    <2> QED
        BY <2>1, <2>5
<1>2. m \in DOMAIN published /\ m \in Messages /\ published[m] \in Topics
      /\ m \in 0 .. MaxMessages /\ list \in Seq(Receivers)
    BY <1>1, EndedOrRunning DEF TypeOK, Call
<1>3. CallReaches(c)
    BY <1>1 DEF CallsReach
<1>4. /\ first \in Receivers /\ rest \in Seq(Receivers) /\ NoRepeat(rest)
      /\ Elements(list) = Elements(rest) \cup {first} /\ first \notin Elements(rest)
    BY <1>1, <1>2, <1>3, Beheaded DEF CallReaches
<1>5. new \in Call /\ new # Returned
    BY <1>2, <1>4 DEF Call, Returned
<1>6. call' \in [Callers -> Call]
    BY <1>1, <1>5 DEF TypeOK
<1>7. \A d \in Callers : call'[d] = IF d = c THEN new ELSE call[d]
    BY <1>1 DEF TypeOK
<1>8. \A d \in Callers : (Running(d)' <=> Running(d)) /\ call'[d].msg = call[d].msg
    <2>1. new.step = "sending" /\ new.msg = m /\ new.targets = rest
        OBVIOUS
    <2> HIDE DEF new, rest, list, first
    <2> QED
        BY <1>1, <1>5, <1>7, <2>1 DEF Running
<1>9. /\ first \in Elements(byTopic[published[m]])
      /\ m \notin Elements(Arrived(first)) /\ m \notin missed[first]
    BY <1>1, <1>3, <1>4, EndedOrRunning DEF CallReaches, MissedHasEnded
<1>10. /\ \A r \in Receivers :
            /\ queue'[r] \in Seq(Messages) /\ Len(queue'[r]) <= ChannelCap
            /\ Arrived(r)' = IF r = first THEN Append(Arrived(r), m) ELSE Arrived(r)
       /\ queue' \in [Receivers -> Seq(Messages)]
    <2>1. queue[first] \in Seq(Messages) /\ taken[first] \in Seq(Messages)
        BY <1>4 DEF TypeOK
    <2>2. /\ Append(queue[first], m) \in Seq(Messages)
          /\ Len(Append(queue[first], m)) <= ChannelCap
        BY <1>1, <1>2, <2>1, Appended, LenProperties
    <2> HIDE DEF m, first
    <2>3. taken[first] \o Append(queue[first], m) = Append(taken[first] \o queue[first], m)
        <3>1. \A t, u \in Seq(Messages) : \A n \in Messages : t \o Append(u, n) = Append(t \o u, n)
            BY Moved
        <3> QED
            BY <1>2, <2>1, <3>1
    <2> QED
        BY <1>1, <1>4, <2>2, <2>3 DEF TypeOK, Arrived
<1>11. \A r \in Receivers :
          /\ Elements(Arrived(r)') = IF r = first THEN Elements(Arrived(r)) \cup {m}
                                                 ELSE Elements(Arrived(r))
          /\ NoRepeat(Arrived(r)')
    <2> SUFFICES ASSUME NEW r \in Receivers
                 PROVE  /\ Elements(Arrived(r)') = IF r = first
                               THEN Elements(Arrived(r)) \cup {m} ELSE Elements(Arrived(r))
                        /\ NoRepeat(Arrived(r)')
        OBVIOUS
    <2>1. Arrived(r) \in Seq(Messages) /\ NoRepeat(Arrived(r))
        BY ArrivedIsSequence DEF ArrivedOnce
    <2> HIDE DEF m, first
    <2>2. CASE r = first
        <3>1. \A a \in Seq(Messages) : \A n \in Messages :
                /\ Elements(Append(a, n)) = Elements(a) \cup {n}
                /\ NoRepeat(a) /\ n \notin Elements(a) => NoRepeat(Append(a, n))
            BY Appended
        <3> QED
            BY <1>2, <1>9, <1>10, <2>1, <2>2, <3>1
    <2>3. CASE r # first
        BY <1>10, <2>1, <2>3
    <2> QED
        BY <2>2, <2>3
<1>12. Ended' = Ended
    BY <1>1, <1>8 DEF Ended, Running
<1>13. CallReaches(c)'
    <2>1. call'[c].step = "sending" /\ call'[c].msg = m /\ call'[c].targets = rest
        <3>1. new.step = "sending" /\ new.msg = m /\ new.targets = rest
            OBVIOUS
        <3> HIDE DEF new, rest, list, first, m
        <3> QED
            BY <1>7, <3>1
    <2>2. \A r \in Elements(rest) : r \in Receivers /\ r # first
        BY <1>4, ElementOfSeq DEF Elements
    <2>3. \A r \in audience[m] : r \in Receivers
        BY <1>2 DEF TypeOK
    <2> HIDE DEF m, list, first, rest, new
    <2> QED
        BY <1>1, <1>3, <1>4, <1>11, <2>1, <2>2, <2>3 DEF CallReaches, m, list
<1>14. CallsReach'
    <2>1. ASSUME NEW d \in Callers, d # c, Running(d)' PROVE CallReaches(d)'
        <3>1. /\ call'[d] = call[d] /\ Running(d) /\ CallReaches(d)
              /\ call[d].msg \in Messages /\ call[d].targets \in Seq(Receivers)
            BY <1>7, <1>8, <2>1, EndedOrRunning DEF CallsReach, TypeOK, Call
        <3>2. call[d].msg # m
            BY <1>1, <2>1, <3>1 DEF CallsAreApart
        <3>3. \A r \in Elements(call[d].targets) : r \in Receivers
            BY <3>1, ElementOfSeq DEF Elements
        <3>4. \A r \in audience[call[d].msg] : r \in Receivers
            BY <3>1 DEF TypeOK
        <3> HIDE DEF m, list, first, rest, new
        <3> QED
            BY <1>1, <1>11, <3>1, <3>2, <3>3, <3>4 DEF CallReaches
    <2> QED
        BY <1>13, <2>1 DEF CallsReach
<1> HIDE DEF m, list, first, rest, new
<1>15. TypeOK'
    BY <1>1, <1>6, <1>8, <1>10 DEF TypeOK, Running
<1>16. ResultsInOrder' /\ SubscribedOnce' /\ AudienceSubscribed' /\ MissedHasEnded'
    BY <1>1, <1>12
       DEF ResultsInOrder, SubscribedOnce, AudienceSubscribed, MissedHasEnded
<1>17. CallsAreApart'
    BY <1>8 DEF CallsAreApart
<1>18. ArrivedOnce' /\ NothingElse'
    BY <1>1, <1>2, <1>9, <1>11 DEF ArrivedOnce, NothingElse
<1>19. EndedArrived'
    <2>1. \A n \in Ended : n \in Messages /\ audience[n] \subseteq Receivers
        BY EndedOrRunning DEF TypeOK
    <2> QED
        BY <1>1, <1>11, <1>12, <2>1 DEF EndedArrived
<1> QED
    BY <1>14, <1>15, <1>16, <1>17, <1>18, <1>19

LEMMA ReturnStep ==
    ASSUME FakesInv, NEW c \in Callers, Return(c)
    PROVE  FakesInv'
<1> USE DEF FakesInv, Fanout
<1> DEFINE m == call[c].msg
<1>1. /\ UNCHANGED <<published, byTopic, queue, taken, consume, handled, observed,
                     cancelled, audience, missed>>
      /\ call[c].step = "sending" /\ call[c].targets = <<>> /\ Running(c)
      /\ call' = [call EXCEPT ![c] = Returned]
    BY DEF Return, broker, stream, history, Running, Returned
<1>2. Returned \in Call
    BY Empty DEF Returned, Call
<1>3. call' \in [Callers -> Call]
    BY <1>1, <1>2 DEF TypeOK
<1>4. \A d \in Callers : call'[d] = IF d = c THEN Returned ELSE call[d]
    BY <1>1 DEF TypeOK
<1>5. \A d \in Callers : Running(d)' <=> Running(d) /\ d # c
    BY <1>4 DEF Running
<1>6. m \in DOMAIN published /\ m \in Messages
    BY <1>1, EndedOrRunning
<1>7. \A r \in audience[m] : m \in Elements(Arrived(r))
    BY <1>1, Empty DEF CallsReach, CallReaches
<1>8. \A q : Arrived(q)' = Arrived(q)
    BY <1>1 DEF Arrived
<1> HIDE DEF m
<1>9. Ended' = Ended \cup {m}
    <2>1. \A d \in Callers : Running(d) /\ d # c => call[d].msg # m
        BY <1>1 DEF CallsAreApart, m
    <2>2. \A n : n \in Ended' <=> n \in DOMAIN published
                 /\ \A d \in Callers : Running(d) /\ d # c => call[d].msg # n
        BY <1>1, <1>4, <1>5 DEF Ended, Running
    <2>3. \A n : n \in Ended <=> n \in DOMAIN published
                 /\ \A d \in Callers : Running(d) => call[d].msg # n
        BY DEF Ended, Running
    <2> QED
        BY <1>6, <2>1, <2>2, <2>3 DEF m
<1>10. TypeOK'
    BY <1>1, <1>3, <1>4 DEF TypeOK
<1>11. ResultsInOrder' /\ SubscribedOnce' /\ AudienceSubscribed' /\ MissedHasEnded'
    BY <1>1, <1>9
       DEF ResultsInOrder, SubscribedOnce, AudienceSubscribed, MissedHasEnded
<1>12. CallsAreApart'
    BY <1>4, <1>5 DEF CallsAreApart
<1>13. CallsReach'
    BY <1>1, <1>4, <1>5, <1>8 DEF CallsReach, CallReaches
<1>14. ArrivedOnce' /\ EndedArrived' /\ NothingElse'
    BY <1>1, <1>7, <1>8, <1>9 DEF ArrivedOnce, EndedArrived, NothingElse
<1> QED
    BY <1>10, <1>11, <1>12, <1>13, <1>14

-----------------------------------------------------------------------------
(* The receivers *)

(* What is taken from a channel still counts as arrived: what the broker    *)
(* has delivered does not depend on who reads it.                           *)
LEMMA TakeKeepsArrived ==
    ASSUME TypeOK, NEW r \in Receivers, TakeMessage(r)
    PROVE  /\ \A q \in Receivers : Arrived(q)' = Arrived(q)
           /\ queue' \in [Receivers -> Seq(Messages)]
           /\ taken' \in [Receivers -> Seq(Messages)]
           /\ \A q \in Receivers : Len(queue'[q]) <= ChannelCap
           /\ Head(queue[r]) \in Messages /\ taken[r] \in Seq(Messages)
           /\ \A q \in Receivers :
                taken'[q] = IF q = r THEN Append(taken[r], Head(queue[r])) ELSE taken[q]
           /\ UNCHANGED <<published, byTopic, call, audience, missed>>
<1> DEFINE t == taken[r] u == queue[r] h == Head(u) w == Tail(u)
<1>1. t \in Seq(Messages) /\ u \in Seq(Messages) /\ u # <<>> /\ Len(u) <= ChannelCap
    BY DEF TypeOK, TakeMessage
<1>2. h \in Messages /\ w \in Seq(Messages) /\ Len(w) <= ChannelCap
    BY <1>1, Beheaded, LenProperties
<1>3. Append(t, h) \in Seq(Messages)
    BY <1>1, <1>2
<1>4. Append(t, h) \o w = t \o u
    <2>1. \A a, b \in Seq(Messages) : b # <<>> => Append(a, Head(b)) \o Tail(b) = a \o b
        BY Moved
    <2> QED
        BY <1>1, <2>1
<1>5. /\ queue' = [queue EXCEPT ![r] = w] /\ taken' = [taken EXCEPT ![r] = Append(t, h)]
      /\ UNCHANGED <<published, byTopic, call, audience, missed>>
    BY DEF TakeMessage, history
<1>6. taken \in [Receivers -> Seq(Messages)] /\ queue \in [Receivers -> Seq(Messages)]
      /\ \A q \in Receivers : Len(queue[q]) <= ChannelCap
    BY DEF TypeOK
<1>7. t = taken[r] /\ u = queue[r] /\ h = Head(queue[r])
    OBVIOUS
<1> HIDE DEF t, u, h, w
<1>8. \A q \in Receivers :
        /\ taken'[q] = IF q = r THEN Append(t, h) ELSE taken[q]
        /\ queue'[q] = IF q = r THEN w ELSE queue[q]
    BY <1>5, <1>6
<1>9. \A q \in Receivers : Arrived(q)' = Arrived(q)
    BY <1>4, <1>7, <1>8 DEF Arrived
<1>10. /\ queue' \in [Receivers -> Seq(Messages)]
       /\ taken' \in [Receivers -> Seq(Messages)]
       /\ \A q \in Receivers : Len(queue'[q]) <= ChannelCap
    BY <1>2, <1>3, <1>5, <1>6, <1>8
<1> QED
    BY <1>1, <1>2, <1>5, <1>7, <1>8, <1>9, <1>10

LEMMA FanoutKept ==
    ASSUME FakesInv, \A q \in Receivers : Arrived(q)' = Arrived(q),
           UNCHANGED <<published, byTopic, call, audience, missed>>
    PROVE  Fanout'
<1> USE DEF FakesInv, Fanout
<1>1. Ended' = Ended /\ \A c : Running(c)' = Running(c)
    BY DEF Ended, Running
<1>2. SubscribedOnce' /\ CallsAreApart' /\ AudienceSubscribed' /\ MissedHasEnded'
    BY <1>1 DEF SubscribedOnce, CallsAreApart, AudienceSubscribed, MissedHasEnded
<1>3. ArrivedOnce' /\ NothingElse'
    BY DEF ArrivedOnce, NothingElse
<1>4. EndedArrived'
    <2>1. \A m \in Ended : audience[m] \subseteq Receivers
        BY EndedOrRunning DEF TypeOK
    <2> QED
        BY <1>1, <2>1 DEF EndedArrived
<1>5. CallsReach'
    <2> SUFFICES ASSUME NEW c \in Callers, Running(c) PROVE CallReaches(c)'
        BY <1>1 DEF CallsReach
    <2>1. CallReaches(c) /\ call[c].msg \in Messages
        BY EndedOrRunning DEF CallsReach
    <2>2. \A r \in Elements(call[c].targets) : r \in Receivers
        <3>1. call[c].targets \in Seq(Receivers)
            BY DEF TypeOK, Call
        <3> QED
            BY <3>1, ElementOfSeq DEF Elements
    <2>3. \A r \in audience[call[c].msg] : r \in Receivers
        BY <2>1 DEF TypeOK
    <2> QED
        BY <2>1, <2>2, <2>3 DEF CallReaches
<1> QED
    BY <1>2, <1>3, <1>4, <1>5

LEMMA WaitStep ==
    ASSUME FakesInv, NEW x \in Expecters, Wait(x)
    PROVE  FakesInv'
<1>1. x \in Receivers /\ TakeMessage(x) /\ UNCHANGED <<consume, handled, observed, cancelled>>
    BY DEF Wait, Receivers, stream
<1>2. TypeOK
    BY DEF FakesInv
<1>3. TypeOK'
    BY <1>1, <1>2, TakeKeepsArrived DEF TypeOK
<1>4. ResultsInOrder'
    <2>1. \A s \in Streams : taken'[s] = taken[s]
        BY <1>1, <1>2, TakeKeepsArrived DEF Receivers
    <2> QED
        BY <1>1, <2>1 DEF FakesInv, ResultsInOrder
<1>5. Fanout'
    BY <1>1, <1>2, TakeKeepsArrived, FanoutKept
<1> QED
    BY <1>3, <1>4, <1>5 DEF FakesInv

LEMMA TakeStep ==
    ASSUME FakesInv, NEW s \in Streams, Take(s)
    PROVE  FakesInv'
<1> DEFINE h == Head(queue[s])
<1>1. /\ s \in Receivers /\ TakeMessage(s) /\ consume[s] = "selecting"
      /\ consume' = [consume EXCEPT ![s] = "handling"]
      /\ UNCHANGED <<handled, observed, cancelled>>
    BY DEF Take, Receivers
<1>2. TypeOK
    BY DEF FakesInv
<1>3. /\ h \in Messages /\ taken[s] \in Seq(Messages)
      /\ \A q \in Streams : taken'[q] = IF q = s THEN Append(taken[s], h) ELSE taken[q]
    BY <1>1, <1>2, TakeKeepsArrived DEF Receivers
<1>4. \A q \in Streams : consume'[q] = IF q = s THEN "handling" ELSE consume[q]
    BY <1>1, <1>2 DEF TypeOK
<1>5. TypeOK'
    BY <1>1, <1>2, TakeKeepsArrived DEF TypeOK
<1>6. ResultsInOrder'
    <2> HIDE DEF h
    <2>1. Append(taken[s], h)[Len(Append(taken[s], h))] = h
        BY <1>3, AppendProperties, LenProperties
    <2>2. observed[s] \o handled[s] = taken[s]
        BY <1>1 DEF FakesInv, ResultsInOrder
    <2> QED
        BY <1>1, <1>3, <1>4, <2>1, <2>2 DEF FakesInv, ResultsInOrder
<1>7. Fanout'
    BY <1>1, <1>2, TakeKeepsArrived, FanoutKept
<1> QED
    BY <1>5, <1>6, <1>7 DEF FakesInv

(* The loop of Consume but for the take, and the test that ends it.         *)
LEMMA LoopStep ==
    ASSUME FakesInv, NEW s \in Streams, Start(s) \/ Stop(s) \/ Cancel(s)
    PROVE  FakesInv'
<1>1. /\ UNCHANGED <<published, call, byTopic, queue, taken, handled, observed,
                     audience, missed>>
      /\ \/ consume' = consume
         \/ /\ consume[s] # "handling"
            /\ \E k \in {"selecting", "returned"} : consume' = [consume EXCEPT ![s] = k]
      /\ cancelled' \subseteq cancelled \cup {s}
    BY DEF Start, Stop, Cancel, broker, history
<1>2. TypeOK'
    BY <1>1 DEF FakesInv, TypeOK
<1>3. \A q \in Streams : consume'[q] = "handling" <=> consume[q] = "handling"
    BY <1>1 DEF FakesInv, TypeOK
<1>4. ResultsInOrder'
    BY <1>1, <1>3 DEF FakesInv, ResultsInOrder
<1>5. Fanout'
    BY <1>1, FanoutKept DEF Arrived
<1> QED
    BY <1>2, <1>4, <1>5 DEF FakesInv

LEMMA ReportStep ==
    ASSUME FakesInv, NEW s \in Streams, Report(s)
    PROVE  FakesInv'
<1> DEFINE m == taken[s][Len(taken[s])]
           more == Append(handled[s], m)
<1>1. /\ UNCHANGED <<published, call, byTopic, queue, taken, observed, cancelled,
                     audience, missed>>
      /\ consume[s] = "handling" /\ consume' = [consume EXCEPT ![s] = "selecting"]
      /\ handled' = [handled EXCEPT ![s] = more]
      /\ Len(handled[s]) < HandledCap
    BY DEF Report, broker, history
<1>2. /\ handled[s] \in Seq(Messages) /\ observed[s] \in Seq(Messages)
      /\ taken[s] \in Seq(Messages)
    BY DEF FakesInv, TypeOK, Receivers
<1>3. Append(observed[s] \o handled[s], m) = taken[s]
    BY <1>1 DEF FakesInv, ResultsInOrder
<1>4. m \in Messages
    <2>1. Len(taken[s]) \in DOMAIN taken[s]
        <3>1. observed[s] \o handled[s] \in Seq(Messages)
            BY <1>2, Moved
        <3> HIDE DEF m
        <3>2. Len(taken[s]) = Len(observed[s] \o handled[s]) + 1
            <4>1. \A a \in Seq(Messages) : \A n : Len(Append(a, n)) = Len(a) + 1
                OBVIOUS
            <4> QED
                BY <1>3, <3>1, <4>1
        <3> QED
            <4> DEFINE st == observed[s] \o handled[s]
            <4>1. Len(st) \in Nat
                BY <3>1, LenProperties
            <4> HIDE DEF st
            <4>2. Len(taken[s]) = Len(st) + 1
                BY <3>2 DEF st
            <4>3. DOMAIN taken[s] = 1 .. Len(taken[s])
                BY <1>2, LenProperties
            <4> QED
                BY <4>1, <4>2, <4>3
    <2> QED
        BY <1>2, <2>1, ElementOfSeq
<1> HIDE DEF m
<1>5. /\ more \in Seq(Messages) /\ Len(more) <= HandledCap
      /\ observed[s] \o more = taken[s]
    <2>1. \A t, u \in Seq(Messages) : \A n \in Messages : t \o Append(u, n) = Append(t \o u, n)
        BY Moved
    <2>2. more \in Seq(Messages) /\ Len(more) = Len(handled[s]) + 1
        BY <1>2, <1>4, AppendProperties
    <2>3. Len(handled[s]) \in Nat
        BY <1>2, LenProperties
    <2>4. Len(more) <= HandledCap
        BY <1>1, <2>2, <2>3
    <2>5. observed[s] \o more = taken[s]
        BY <1>2, <1>3, <1>4, <2>1
    <2> QED
        BY <2>2, <2>4, <2>5
<1> HIDE DEF more
<1>6. \A q \in Streams :
        /\ consume'[q] = IF q = s THEN "selecting" ELSE consume[q]
        /\ handled'[q] = IF q = s THEN more ELSE handled[q]
    BY <1>1 DEF FakesInv, TypeOK
<1>7. TypeOK'
    BY <1>1, <1>5, <1>6 DEF FakesInv, TypeOK
<1>8. ResultsInOrder'
    <2>1. \A q \in Streams \ {s} : observed'[q] \o handled'[q] = observed[q] \o handled[q]
        BY <1>1, <1>6
    <2>2. observed'[s] \o handled'[s] = taken[s]
        BY <1>1, <1>5, <1>6
    <2>3. ASSUME NEW q \in Streams
          PROVE  LET reported == observed'[q] \o handled'[q] IN
                 IF consume'[q] = "handling"
                    THEN Append(reported, taken'[q][Len(taken'[q])]) = taken'[q]
                    ELSE reported = taken'[q]
        <3>1. CASE q = s
            <4>1. consume'[s] = "selecting" /\ taken'[s] = taken[s]
                BY <1>1, <1>6
            <4> QED
                BY <2>2, <3>1, <4>1
        <3>2. CASE q # s
            BY <1>1, <1>6, <2>1, <3>2 DEF FakesInv, ResultsInOrder
        <3> QED
            BY <3>1, <3>2
    <2> QED
        BY <2>3 DEF ResultsInOrder
<1>9. Fanout'
    BY <1>1, FanoutKept DEF Arrived
<1> QED
    BY <1>7, <1>8, <1>9 DEF FakesInv

LEMMA ExpectHandledStep ==
    ASSUME FakesInv, NEW s \in Streams, ExpectHandled(s)
    PROVE  FakesInv'
<1> DEFINE o == observed[s] g == handled[s] o2 == Append(o, Head(g)) g2 == Tail(g)
<1>1. /\ UNCHANGED <<published, call, byTopic, queue, taken, consume, cancelled,
                     audience, missed>>
      /\ observed' = [observed EXCEPT ![s] = o2]
      /\ handled' = [handled EXCEPT ![s] = g2]
      /\ g # <<>>
    BY DEF ExpectHandled, broker, history
<1>2. o \in Seq(Messages) /\ g \in Seq(Messages) /\ Len(g) <= HandledCap
    BY DEF FakesInv, TypeOK
<1>3. /\ o2 \in Seq(Messages) /\ g2 \in Seq(Messages) /\ Len(g2) <= HandledCap
      /\ o2 \o g2 = o \o g
    <2>1. \A a, b \in Seq(Messages) : b # <<>> => Append(a, Head(b)) \o Tail(b) = a \o b
        BY Moved
    <2>2. Head(g) \in Messages /\ g2 \in Seq(Messages) /\ Len(g2) = Len(g) - 1
        BY <1>1, <1>2, Beheaded
    <2>3. o2 \in Seq(Messages)
        BY <1>2, <2>2
    <2>4. Len(g2) <= HandledCap
        <3>1. Len(g) \in Nat
            BY <1>2, LenProperties
        <3> QED
            BY <1>2, <2>2, <3>1
    <2>5. o2 \o g2 = o \o g
        BY <1>1, <1>2, <2>1
    <2> QED
        BY <2>2, <2>3, <2>4, <2>5
<1>4. o = observed[s] /\ g = handled[s]
    OBVIOUS
<1> HIDE DEF o, g, o2, g2
<1>5. \A q \in Streams :
        /\ observed'[q] = IF q = s THEN o2 ELSE observed[q]
        /\ handled'[q] = IF q = s THEN g2 ELSE handled[q]
    BY <1>1 DEF FakesInv, TypeOK
<1>6. \A q \in Streams : observed'[q] \o handled'[q] = observed[q] \o handled[q]
    BY <1>3, <1>4, <1>5
<1>7. TypeOK'
    BY <1>1, <1>3, <1>5 DEF FakesInv, TypeOK
<1>8. ResultsInOrder'
    BY <1>1, <1>6 DEF FakesInv, ResultsInOrder
<1>9. Fanout'
    BY <1>1, FanoutKept DEF Arrived
<1> QED
    BY <1>7, <1>8, <1>9 DEF FakesInv

-----------------------------------------------------------------------------
(* The theorems *)

LEMMA StepKeeps == FakesInv /\ [Next]_vars => FakesInv'
<1> SUFFICES ASSUME FakesInv, [Next]_vars PROVE FakesInv'
    OBVIOUS
<1>1. ASSUME NEW r \in Receivers, NEW t \in Topics, Subscribe(r, t) PROVE FakesInv'
    BY <1>1, SubscribeStep
<1>2. ASSUME NEW c \in Callers, Publish(c) PROVE FakesInv'
    BY <1>2, RecordStep, SnapshotStep, SendStep, ReturnStep DEF Publish
<1>3. ASSUME NEW x \in Expecters, Wait(x) PROVE FakesInv'
    BY <1>3, WaitStep
<1>4. ASSUME NEW s \in Streams, Consume(s) \/ ExpectHandled(s) \/ Cancel(s) PROVE FakesInv'
    BY <1>4, TakeStep, LoopStep, ReportStep, ExpectHandledStep DEF Consume
<1>5. CASE UNCHANGED vars
    <2>1. UNCHANGED <<published, call, byTopic, queue, taken, consume, handled, observed,
                      cancelled, audience, missed>>
        BY <1>5 DEF vars, broker, stream, history
    <2>2. TypeOK' /\ ResultsInOrder'
        BY <2>1 DEF FakesInv, TypeOK, ResultsInOrder
    <2>3. Fanout'
        BY <2>1, FanoutKept DEF Arrived
    <2> QED
        BY <2>2, <2>3 DEF FakesInv
<1> QED
    BY <1>1, <1>2, <1>3, <1>4, <1>5 DEF Next

(* Every state of the test doubles satisfies the invariant, whatever the    *)
(* tests do and in whatever order publishers, streams and tests run.        *)
THEOREM Invariance == Spec => []FakesInv
BY InitHolds, StepKeeps, PTL DEF Spec

(* All variables keep their types, no channel and no buffer of results      *)
(* exceeds its capacity.                                                    *)
THEOREM TypeCorrect == Spec => []TypeOK
<1>1. FakesInv => TypeOK
    BY DEF FakesInv
<1> QED
    BY <1>1, Invariance, PTL

(* ExpectHandled gives the results in the order of the messages, none left  *)
(* out, whether the ctx is cancelled while a result waits for room or not.  *)
THEOREM ResultsKeepOrder == Spec => []ResultsInOrder
<1>1. FakesInv => ResultsInOrder
    BY DEF FakesInv
<1> QED
    BY <1>1, Invariance, PTL

(* Nothing reaches a receiver from another topic, from before it            *)
(* subscribed, or before the Publisher has recorded it.                     *)
THEOREM NothingElseArrives == Spec => []NothingElse
<1>1. FakesInv => NothingElse
    BY DEF FakesInv, Fanout
<1> QED
    BY <1>1, Invariance, PTL

(* How often a sequence that holds nothing twice holds m. *)
LEMMA CountIn ==
    ASSUME NEW s, NoRepeat(s), NEW m
    PROVE  Cardinality({i \in DOMAIN s : s[i] = m}) = IF m \in Elements(s) THEN 1 ELSE 0
<1> DEFINE places == {i \in DOMAIN s : s[i] = m}
<1>1. CASE m \in Elements(s)
    <2>1. PICK i \in DOMAIN s : s[i] = m
        BY <1>1 DEF Elements
    <2>2. places = {i}
        BY <2>1 DEF NoRepeat
    <2>3. Cardinality({i}) = 1
        BY FS_Singleton
    <2> QED
        BY <1>1, <2>2, <2>3
<1>2. CASE m \notin Elements(s)
    <2>1. places = {}
        BY <1>2 DEF Elements
    <2> QED
        BY <1>2, <2>1, FS_EmptySet
<1> QED
    BY <1>1, <1>2

(* The fan-out neither loses nor repeats: a Publish that has returned has   *)
(* put its message once into the channel of everyone subscribed when it was *)
(* called, and one that still runs has put it into no channel twice.        *)
THEOREM FanoutIsExact == Spec => []DeliveredOnce
<1>1. FakesInv => DeliveredOnce
    <2> SUFFICES ASSUME FakesInv, NEW m \in DOMAIN published, NEW r \in Receivers
                 PROVE  /\ Copies(r, m) <= 1
                        /\ m \in Ended /\ r \in audience[m] => Copies(r, m) = 1
        BY DEF DeliveredOnce
    <2>1. NoRepeat(Arrived(r))
        BY DEF FakesInv, Fanout, ArrivedOnce
    <2>2. Copies(r, m) = IF m \in Elements(Arrived(r)) THEN 1 ELSE 0
        BY <2>1, CountIn DEF Copies
    <2>3. m \in Ended /\ r \in audience[m] => m \in Elements(Arrived(r))
        BY DEF FakesInv, Fanout, EndedArrived
    <2> QED
        BY <2>2, <2>3
<1> QED
    BY <1>1, Invariance, PTL
=============================================================================
