-------------------------- MODULE LifecycleProofs ---------------------------
(***************************************************************************)
(* Safety of Lifecycle for any set of requests, from one invariant.        *)
(***************************************************************************)
EXTENDS Lifecycle, SequenceTheorems, TLAPS

Nobody == \A r \in Requests : request[r] \notin {"handling", "querying"}

(* Before the server starts there is nothing under way.                     *)
OpeningInv ==
    main = "opening" =>
        /\ ~draining /\ ~failed /\ ~timedOut
        /\ \A r \in Requests : request[r] = "absent"

(* While the goroutines run everything is open. Shutdown is called because  *)
(* the group is cancelled, and when it has returned nobody is left unless   *)
(* it timed out.                                                            *)
ServingInv ==
    /\ main = "serving" => Len(opened) = Len(wanted)
    /\ poolShut => main \in {"closing", "exited"}
    /\ draining => Cancelled /\ server = "closed"
    /\ server = "listening" => "server" \in group
    /\ main = "serving" /\ "shutdown" \notin group =>
        draining /\ (Nobody \/ timedOut)
    /\ timedOut => failed

(* What the goroutines leave behind.                                        *)
ClosingInv ==
    main \in {"closing", "exited"} =>
        /\ Nobody \/ timedOut
        /\ ~err => signalled /\ ~failed

CauseInv == cause = "cancelled" => Cancelled

(* A request that is left finds its pool, and the pool its dialer, open, or *)
(* the pool refusing.                                                       *)
PoolIn(w, o) == {"dialer", "pool"} \cap Elements(w) \subseteq Elements(o)
PoolInv == Nobody \/ poolShut \/ PoolIn(wanted, opened)

LifeInv ==
    /\ TypeOK
    /\ OpeningInv /\ ServingInv /\ ClosingInv /\ CauseInv /\ PoolInv
    /\ WhatIsUsedIsOpen /\ NothingCutShort /\ StoppingCostsNoRetry

-----------------------------------------------------------------------------
LEMMA ConfigurationShape ==
    ASSUME NEW w \in Configurations
    PROVE  w \in Seq(Resources)
<1> USE DEF Resources
<1>1. <<"pool", "firestore", "publisher">> \in Seq(Resources)
    OBVIOUS
<1>2. <<"pool", "firestore", "publisher", "gcs">> \in Seq(Resources)
    OBVIOUS
<1>3. <<"dialer", "pool", "firestore", "publisher">> \in Seq(Resources)
    OBVIOUS
<1>4. <<"dialer", "pool", "firestore", "publisher", "gcs">> \in Seq(Resources)
    OBVIOUS
<1> QED
    BY <1>1, <1>2, <1>3, <1>4 DEF Configurations

(* How far a stack of open resources has come is all there is to know of    *)
(* it: with all of them open, each one is.                                  *)
LEMMA AllOpen ==
    ASSUME NEW w \in Configurations, NEW o \in Seq(Resources),
           Len(o) = Len(w), \A i \in DOMAIN o : o[i] = w[i]
    PROVE  Elements(w) \subseteq Elements(o)
<1>1. w \in Seq(Resources)
    BY ConfigurationShape
<1>2. DOMAIN w = DOMAIN o
    BY <1>1
<1> QED
    BY <1>2 DEF Elements

(* In every configuration the pool is the first resource, or the second     *)
(* after the dialer.                                                        *)
LEMMA PoolPosition ==
    ASSUME NEW w \in Configurations
    PROVE  \E p \in {1, 2} :
            /\ p <= Len(w)
            /\ \A i \in 1 .. Len(w) : w[i] = "pool" <=> i = p
            /\ \A i \in 1 .. Len(w) : w[i] = "dialer" => i < p
<1>1. CASE w = <<"pool", "firestore", "publisher">>
    <2>1. /\ Len(w) = 3
          /\ w[1] = "pool" /\ w[2] = "firestore" /\ w[3] = "publisher"
        BY <1>1
    <2> QED  BY <2>1
<1>2. CASE w = <<"pool", "firestore", "publisher", "gcs">>
    <2>1. /\ Len(w) = 4
          /\ w[1] = "pool" /\ w[2] = "firestore" /\ w[3] = "publisher"
          /\ w[4] = "gcs"
        BY <1>2
    <2> QED  BY <2>1
<1>3. CASE w = <<"dialer", "pool", "firestore", "publisher">>
    <2>1. /\ Len(w) = 4
          /\ w[1] = "dialer" /\ w[2] = "pool" /\ w[3] = "firestore"
          /\ w[4] = "publisher"
        BY <1>3
    <2> QED  BY <2>1
<1>4. CASE w = <<"dialer", "pool", "firestore", "publisher", "gcs">>
    <2>1. /\ Len(w) = 5
          /\ w[1] = "dialer" /\ w[2] = "pool" /\ w[3] = "firestore"
          /\ w[4] = "publisher" /\ w[5] = "gcs"
        BY <1>4
    <2> QED  BY <2>1
<1> QED
    BY <1>1, <1>2, <1>3, <1>4 DEF Configurations

(* Closing what was opened last leaves pool and dialer alone, unless it is  *)
(* the pool: what stands on the dialer goes first.                          *)
LEMMA PoolStays ==
    ASSUME NEW w \in Configurations, NEW o \in Seq(Resources),
           o # <<>>, Len(o) <= Len(w), \A i \in DOMAIN o : o[i] = w[i],
           PoolIn(w, o), o[Len(o)] # "pool"
    PROVE  PoolIn(w, SubSeq(o, 1, Len(o) - 1))
<1> DEFINE s == SubSeq(o, 1, Len(o) - 1)
<1>1. PICK p \in {1, 2} :
        /\ p <= Len(w)
        /\ \A i \in 1 .. Len(w) : w[i] = "pool" <=> i = p
        /\ \A i \in 1 .. Len(w) : w[i] = "dialer" => i < p
    BY PoolPosition
<1>2. w \in Seq(Resources)
    BY ConfigurationShape
<1>3. Len(o) \in Nat \ {0} /\ DOMAIN o = 1 .. Len(o) /\ DOMAIN w = 1 .. Len(w)
      /\ Len(w) \in Nat
    BY <1>2
<1>4. "pool" \in Elements(w)
    BY <1>1, <1>3 DEF Elements
<1>5. PICK j \in 1 .. Len(o) : o[j] = "pool"
    BY <1>3, <1>4 DEF PoolIn, Elements
<1>6. j = p /\ j < Len(o)
    BY <1>1, <1>3, <1>5
<1>7. DOMAIN s = 1 .. Len(o) - 1 /\ \A i \in 1 .. Len(o) - 1 : s[i] = o[i]
    BY <1>3
<1>8. \A i \in 1 .. Len(w) : w[i] \in {"pool", "dialer"} =>
        i \in DOMAIN s /\ s[i] = w[i]
    BY <1>1, <1>3, <1>6, <1>7
<1>9. SUFFICES ASSUME NEW x \in {"dialer", "pool"}, x \in Elements(w)
               PROVE  x \in Elements(s)
    BY DEF PoolIn
<1>10. PICK i \in DOMAIN w : w[i] = x
    BY <1>9 DEF Elements
<1>11. i \in DOMAIN s /\ s[i] = x
    BY <1>3, <1>8, <1>9, <1>10
<1> QED
    BY <1>11 DEF Elements

(* The stack without its top.                                               *)
LEMMA FrontShape ==
    ASSUME NEW S, NEW o \in Seq(S), o # <<>>
    PROVE  /\ SubSeq(o, 1, Len(o) - 1) \in Seq(S)
           /\ Len(SubSeq(o, 1, Len(o) - 1)) = Len(o) - 1
<1> DEFINE m == Len(o) - 1
<1>1. m \in Nat /\ \A i \in 1 .. m : o[i] \in S
    OBVIOUS
<1> HIDE DEF m
<1>2. /\ SubSeq(o, 1, m) \in Seq(S)
      /\ Len(SubSeq(o, 1, m)) = IF 1 <= m THEN m - 1 + 1 ELSE 0
    BY <1>1, SubSeqProperties
<1>3. Len(SubSeq(o, 1, m)) = m
    BY <1>1, <1>2
<1> QED
    BY <1>2, <1>3 DEF m

-----------------------------------------------------------------------------
LEMMA LifeInit == Init => LifeInv
<1> SUFFICES ASSUME Init PROVE LifeInv
    OBVIOUS
<1> USE DEF Init
<1>1. wanted \in Configurations /\ wanted \in Seq(Resources)
    BY ConfigurationShape
<1>2. opened \in Seq(Resources) /\ Len(opened) <= Len(wanted)
      /\ DOMAIN opened = {}
    BY <1>1
<1>3. TypeOK
    BY <1>1, <1>2 DEF TypeOK, Goroutines
<1>4. Nobody
    BY DEF Nobody
<1> QED
    BY <1>3, <1>4 DEF LifeInv, OpeningInv, ServingInv, ClosingInv, CauseInv,
        PoolInv, WhatIsUsedIsOpen, NothingCutShort, StoppingCostsNoRetry

-----------------------------------------------------------------------------
(* What the invariant says while the goroutines run.                        *)
LEMMA ServingIsOpen ==
    ASSUME LifeInv, main = "serving"
    PROVE  Elements(wanted) \subseteq Elements(opened)
BY AllOpen DEF LifeInv, TypeOK, ServingInv

LEMMA LifeStep == LifeInv /\ [Next]_vars => LifeInv'
<1> SUFFICES ASSUME LifeInv, [Next]_vars PROVE LifeInv'
    OBVIOUS
<1> USE DEF LifeInv, TypeOK, OpeningInv, ServingInv, ClosingInv, CauseInv,
        PoolInv, WhatIsUsedIsOpen, NothingCutShort, StoppingCostsNoRetry,
        Nobody, Cancelled, Goroutines, runVars, httpVars, relayVars
<1>1. CASE Signal
    BY <1>1 DEF Signal
<1>2. CASE StartFails
    BY <1>2 DEF StartFails
<1>3. CASE Serve
    BY <1>3 DEF Serve
<1>4. CASE Wait
    BY <1>4 DEF Wait
<1>5. CASE ShutPool
    BY <1>5 DEF ShutPool
<1>6. CASE Exit
    BY <1>6 DEF Exit, InFlight
<1>7. CASE Listen
    BY <1>7 DEF Listen
<1>8. CASE ServerFails
    BY <1>8 DEF ServerFails, Returns
<1>9. CASE ServerReturns
    BY <1>9 DEF ServerReturns, Returns
<1>10. CASE Shutdown
    BY <1>10 DEF Shutdown
<1>11. CASE ShutdownDone
    BY <1>11 DEF ShutdownDone, Returns, InFlight, Cancelled
<1>12. CASE ShutdownTimesOut
    BY <1>12 DEF ShutdownTimesOut, Returns
<1>13. CASE Tick
    BY <1>13, ServingIsOpen DEF Tick
<1>14. CASE PublishEnds
    BY <1>14 DEF PublishEnds
<1>15. CASE RecordResult
    BY <1>15, ZenonT(60) DEF RecordResult, Recorded, Cancelled
<1>16. CASE TickerReturns
    BY <1>16 DEF TickerReturns, Returns
<1>17. CASE Open
  <2>1. wanted \in Seq(Resources)
    BY ConfigurationShape
  <2>2. opened' \in Seq(Resources) /\ Len(opened') = Len(opened) + 1
    BY <1>17, <2>1 DEF Open
  <2>3. \A j \in DOMAIN opened' : opened'[j] = wanted'[j]
    BY <1>17, <2>1, <2>2 DEF Open
  <2>4. Len(opened') <= Len(wanted') /\ wanted' = wanted
    BY <1>17, <2>1, <2>2 DEF Open
  <2> QED
    BY <1>17, <2>2, <2>3, <2>4 DEF Open
<1>18. CASE Close
  <2>1. wanted \in Seq(Resources)
    BY ConfigurationShape
  <2>2. opened' \in Seq(Resources) /\ Len(opened') = Len(opened) - 1
    <3>1. /\ opened \in Seq(Resources) /\ opened # <<>>
          /\ opened' = SubSeq(opened, 1, Len(opened) - 1)
        BY <1>18 DEF Close
    <3> QED
        BY <3>1, FrontShape
  <2>3. \A j \in DOMAIN opened' : opened'[j] = wanted'[j]
    BY <1>18, <2>1, <2>2 DEF Close
  <2>4. Len(opened') <= Len(wanted') /\ wanted' = wanted
    BY <1>18, <2>1, <2>2 DEF Close
  <2>5. TypeOK'
    BY <1>18, <2>2, <2>3, <2>4 DEF Close
  <2>6. CASE Last = "pool"
    <3>1. poolShut /\ \A r \in Requests : request[r] # "querying"
        BY <1>18, <2>6 DEF Close
    <3> QED
        BY <1>18, <2>5, <3>1 DEF Close
  <2>7. CASE Last # "pool"
    <3>1. PoolIn(wanted, opened) => PoolIn(wanted, opened')
        BY <1>18, <2>7, PoolStays DEF Close, Last
    <3>2. ASSUME NEW r \in Requests, request[r] = "querying"
          PROVE  PoolIn(wanted, opened)
        BY <3>2 DEF PoolIn
    <3> QED
        BY <1>18, <2>4, <2>5, <3>1, <3>2 DEF Close, PoolIn
  <2> QED
    BY <2>6, <2>7
<1>19. ASSUME NEW r \in Requests, Accept(r)
       PROVE  LifeInv'
  <2>1. main = "serving" /\ PoolIn(wanted, opened)
    BY <1>19, ServingIsOpen DEF Accept, PoolIn
  <2> QED
    BY <1>19, <2>1 DEF Accept, Becomes
<1>20. ASSUME NEW r \in Requests, Query(r)
       PROVE  LifeInv'
  <2>1. poolShut \/ PoolIn(wanted, opened)
    BY <1>20 DEF Query
  <2> QED
    BY <1>20, <2>1 DEF Query, Becomes, PoolIn
<1>21. ASSUME NEW r \in Requests, QueryEnds(r)
       PROVE  LifeInv'
    BY <1>21 DEF QueryEnds, Becomes
<1>22. ASSUME NEW r \in Requests, Answer(r)
       PROVE  LifeInv'
    BY <1>22 DEF Answer, Becomes
<1>23. CASE UNCHANGED vars
    BY <1>23 DEF vars
<1> QED
    BY <1>1, <1>2, <1>3, <1>4, <1>5, <1>6, <1>7, <1>8, <1>9, <1>10, <1>11,
       <1>12, <1>13, <1>14, <1>15, <1>16, <1>17, <1>18, <1>19, <1>20, <1>21,
       <1>22, <1>23 DEF Next, Run, RunHTTP, Ticker, Request

LEMMA LifeInvariant == Spec => []LifeInv
BY LifeInit, LifeStep, PTL DEF Spec

-----------------------------------------------------------------------------
(* The process is well typed in every reachable state: goroutines, batches  *)
(* and resources fit together (main.go run and runHTTP).                    *)
THEOREM TypeCorrect == Spec => []TypeOK
<1>1. LifeInv => TypeOK
    BY DEF LifeInv
<1> QED
    BY <1>1, LifeInvariant, PTL

(* Nothing is closed that the relay or a query still uses (main.go 90-123). *)
THEOREM UsedIsOpen == Spec => []WhatIsUsedIsOpen
<1>1. LifeInv => WhatIsUsedIsOpen
    BY DEF LifeInv
<1> QED
    BY <1>1, LifeInvariant, PTL

(* Requests are lost only when Shutdown ran out of time, which the process  *)
(* reports, for any number of requests (main.go 212-225).                   *)
THEOREM OnlyTimeoutCutsShort == Spec => []NothingCutShort
<1>1. LifeInv => NothingCutShort
    BY DEF LifeInv
<1> QED
    BY <1>1, LifeInvariant, PTL

(* A stop is never counted as a failure of a row (relay.go 72-92).          *)
THEOREM StopsAreFree == Spec => []StoppingCostsNoRetry
<1>1. LifeInv => StoppingCostsNoRetry
    BY DEF LifeInv
<1> QED
    BY <1>1, LifeInvariant, PTL
=============================================================================
