----------------------------- MODULE OutboxProofs -----------------------------
(***************************************************************************)
(* Proofs about Outbox, for any number of rows and processes and for every *)
(* batch size, failure threshold and visibility timeout.                   *)
(***************************************************************************)
EXTENDS Outbox, FiniteSetTheorems, TLAPS

USE EventsAssumption, NoEventAssumption, ConfigAssumption

(* A clock step keeps an age an age and makes nothing younger, and keeps     *)
(* the order of two ages.                                                    *)
LEMMA OlderIsAge ==
    ASSUME NEW a \in Ages, NEW b \in Ages
    PROVE  /\ Older(a) \in Ages
           /\ a <= Older(a)
           /\ a <= b => Older(a) <= Older(b)
BY SMT DEF Ages, Expired, Older

(* What GoOnWith leaves is well typed when the rows left are among the       *)
(* worker's own.                                                             *)
LEMMA GoOnWithType ==
    ASSUME TypeOK, NEW w \in Workers, NEW B \in SUBSET Events, GoOnWith(w, B)
    PROVE  /\ pc' \in [Workers -> {"idle", "claiming", "publishing", "marking",
                                   "recording", "down"}]
           /\ batch' \in [Workers -> SUBSET Events]
           /\ current' \in [Workers -> Events \union {NoEvent}]
           /\ seen' \in [Workers -> [Events -> Nat]]
           /\ claimAge' \in [Workers -> Ages]
           /\ \A v \in Workers :
                /\ pc'[v] \in {"idle", "down"} <=> batch'[v] = {}
                /\ IF pc'[v] \in {"marking", "recording"}
                   THEN current'[v] \in batch'[v]
                   ELSE current'[v] = NoEvent
<1>1. Expired \in Ages
  BY SMT DEF Ages, Expired
<1>2. pc' \in [Workers -> {"idle", "claiming", "publishing", "marking",
                           "recording", "down"}]
  BY DEF GoOnWith, TypeOK
<1>3. batch' \in [Workers -> SUBSET Events] /\ current' \in [Workers -> Events \union {NoEvent}]
  BY DEF GoOnWith, TypeOK
<1>4. seen' \in [Workers -> [Events -> Nat]]
  BY DEF GoOnWith, TypeOK
<1>5. claimAge' \in [Workers -> Ages]
  BY <1>1 DEF GoOnWith, TypeOK
<1>6. ASSUME NEW v \in Workers
      PROVE  /\ pc'[v] \in {"idle", "down"} <=> batch'[v] = {}
             /\ IF pc'[v] \in {"marking", "recording"}
                THEN current'[v] \in batch'[v]
                ELSE current'[v] = NoEvent
  BY DEF GoOnWith, TypeOK
<1>7. QED
  BY <1>2, <1>3, <1>4, <1>5, <1>6

(* Type correctness: the initial states, and every step. *)
LEMMA TypeInit == Init => TypeOK
<1>1. Expired \in Ages
  BY SMT DEF Ages, Expired
<1>2. QED
  BY <1>1 DEF Init, TypeOK

LEMMA TypeStep == TypeOK /\ [Next]_vars => TypeOK'
<1> SUFFICES ASSUME TypeOK, [Next]_vars PROVE TypeOK'
  OBVIOUS
<1>0. 0 \in Ages /\ Expired \in Ages
  BY SMT DEF Ages, Expired
<1>1. ASSUME NEW e \in Events, Enqueue(e) PROVE TypeOK'
  BY <1>1 DEF TypeOK, Enqueue, relay
<1>2. ASSUME NEW w \in Workers, ClaimSelect(w) PROVE TypeOK'
  <2>1. PICK B \in Oldest(Claimable) : B # {} /\ batch' = [batch EXCEPT ![w] = B]
    BY <1>2 DEF ClaimSelect
  <2>2. B \subseteq Events
    BY <2>1 DEF Oldest, Claimable
  <2>3. QED
    BY <1>0, <1>2, <2>1, <2>2 DEF TypeOK, ClaimSelect, rows
<1>3. ASSUME NEW w \in Workers, ClaimCommit(w) PROVE TypeOK'
  <2>1. attemptAge' \in [Events -> Ages] /\ seen' \in [Workers -> [Events -> Nat]]
    BY <1>3 DEF TypeOK, ClaimCommit, StampClaim
  <2>2. QED
    BY <1>3, <2>1 DEF TypeOK, ClaimCommit
<1>4. ASSUME NEW w \in Workers, ClaimFail(w) PROVE TypeOK'
  BY <1>4, GoOnWithType DEF TypeOK, ClaimFail, rows
<1>5. ASSUME NEW w \in Workers, ClaimLost(w) PROVE TypeOK'
  <2>1. attemptAge' \in [Events -> Ages]
    BY <1>5 DEF TypeOK, ClaimLost, StampClaim
  <2>2. QED
    BY <1>5, <2>1, GoOnWithType DEF TypeOK, ClaimLost
<1>6. ASSUME NEW w \in Workers, PublishOk(w) PROVE TypeOK'
  BY <1>6 DEF TypeOK, PublishOk, rows
<1>7. ASSUME NEW w \in Workers, PublishError(w) PROVE TypeOK'
  BY <1>7 DEF TypeOK, PublishError, rows
<1>8. ASSUME NEW w \in Workers, MarkPublished(w) PROVE TypeOK'
  <2>1. current[w] \in Events /\ batch[w] \ {current[w]} \in SUBSET Events
    BY <1>8 DEF TypeOK, MarkPublished
  <2>2. QED
    BY <1>0, <1>8, <2>1, GoOnWithType DEF TypeOK, MarkPublished
<1>9. ASSUME NEW w \in Workers, RecordFailure(w) PROVE TypeOK'
  <2>1. current[w] \in Events /\ batch[w] \ {current[w]} \in SUBSET Events
    BY <1>9 DEF TypeOK, RecordFailure
  <2>2. failureCount' \in [Events -> Nat] /\ attemptAge' \in [Events -> Ages]
    <3>1. failureCount \in [Events -> Nat]
      BY DEF TypeOK
    <3>2. failureCount[current[w]] \in Nat
      BY <2>1, <3>1
    <3>3. failureCount[current[w]] + 1 \in Nat
      BY <3>2, SMT
    <3>4. QED
      BY <1>0, <1>9, <2>1, <3>1, <3>3 DEF TypeOK, RecordFailure
  <2>3. lastError' \subseteq Events
    BY <1>9, <2>1 DEF TypeOK, RecordFailure
  <2>4. GoOnWith(w, batch[w] \ {current[w]})
    BY <1>9 DEF RecordFailure
  <2>5. QED
    BY <1>9, <2>1, <2>2, <2>3, <2>4, GoOnWithType DEF TypeOK, RecordFailure
<1>10. ASSUME NEW w \in Workers, ResultLost(w) PROVE TypeOK'
  <2>1. batch[w] \ {current[w]} \in SUBSET Events
    BY DEF TypeOK
  <2>2. QED
    BY <1>10, <2>1, GoOnWithType DEF TypeOK, ResultLost, rows
<1>11. ASSUME NEW w \in Workers, Crash(w) PROVE TypeOK'
  BY <1>0, <1>11 DEF TypeOK, Crash, rows
<1>12. ASSUME NEW w \in Workers, Restart(w) PROVE TypeOK'
  BY <1>12 DEF TypeOK, Restart, rows
<1>13. CASE Tick
  BY <1>13, OlderIsAge DEF TypeOK, Tick
<1>14. CASE UNCHANGED vars
  BY <1>14 DEF TypeOK, vars, rows, relay
<1>15. QED
  BY <1>1, <1>2, <1>3, <1>4, <1>5, <1>6, <1>7, <1>8, <1>9, <1>10, <1>11, <1>12,
     <1>13, <1>14 DEF Next

(* In every reachable state the table, the relays and the topics are of      *)
(* their types, and a relay has a row in hand exactly when it is between     *)
(* publish and result.                                                       *)
THEOREM TypeCorrect == Spec => []TypeOK
<1>1. QED
  BY TypeInit, TypeStep, PTL DEF Spec

-----------------------------------------------------------------------------
(* Delivery: nothing is marked before its topic has it, nothing leaves       *)
(* before it is committed.                                                   *)

LEMMA DeliveryInit == Init => DeliveryInv
BY DEF Init, DeliveryInv, HeldIsCommitted, MarkedIsDelivered, PublishedIsDelivered

LEMMA DeliveryStep == TypeOK /\ DeliveryInv /\ [Next]_vars => DeliveryInv'
<1> SUFFICES ASSUME TypeOK, DeliveryInv, [Next]_vars PROVE DeliveryInv'
  OBVIOUS
<1> USE DEF DeliveryInv, HeldIsCommitted, MarkedIsDelivered, PublishedIsDelivered
<1>1. ASSUME NEW e \in Events, Enqueue(e) PROVE DeliveryInv'
  BY <1>1 DEF Enqueue, relay
<1>2. ASSUME NEW w \in Workers, ClaimSelect(w) PROVE DeliveryInv'
  <2>1. PICK B \in Oldest(Claimable) : batch' = [batch EXCEPT ![w] = B]
    BY <1>2 DEF ClaimSelect
  <2>2. B \subseteq committed
    BY <2>1 DEF Oldest, Claimable, Due
  <2>3. QED
    BY <1>2, <2>1, <2>2 DEF TypeOK, ClaimSelect, rows
<1>3. ASSUME NEW w \in Workers, ClaimCommit(w) PROVE DeliveryInv'
  BY <1>3 DEF TypeOK, ClaimCommit
<1>4. ASSUME NEW w \in Workers, ClaimFail(w) PROVE DeliveryInv'
  BY <1>4 DEF TypeOK, ClaimFail, GoOnWith, rows
<1>5. ASSUME NEW w \in Workers, ClaimLost(w) PROVE DeliveryInv'
  BY <1>5 DEF TypeOK, ClaimLost, GoOnWith
<1>6. ASSUME NEW w \in Workers, PublishOk(w) PROVE DeliveryInv'
  BY <1>6 DEF TypeOK, PublishOk, rows
<1>7. ASSUME NEW w \in Workers, PublishError(w) PROVE DeliveryInv'
  BY <1>7 DEF TypeOK, PublishError, rows
<1>8. ASSUME NEW w \in Workers, MarkPublished(w) PROVE DeliveryInv'
  BY <1>8 DEF TypeOK, MarkPublished, GoOnWith
<1>9. ASSUME NEW w \in Workers, RecordFailure(w) PROVE DeliveryInv'
  BY <1>9 DEF TypeOK, RecordFailure, GoOnWith
<1>10. ASSUME NEW w \in Workers, ResultLost(w) PROVE DeliveryInv'
  BY <1>10 DEF TypeOK, ResultLost, GoOnWith, rows
<1>11. ASSUME NEW w \in Workers, Crash(w) PROVE DeliveryInv'
  BY <1>11 DEF TypeOK, Crash, rows
<1>12. ASSUME NEW w \in Workers, Restart(w) PROVE DeliveryInv'
  BY <1>12 DEF TypeOK, Restart, rows
<1>13. CASE Tick
  BY <1>13 DEF Tick
<1>14. CASE UNCHANGED vars
  BY <1>14 DEF vars, rows, relay
<1>15. QED
  BY <1>1, <1>2, <1>3, <1>4, <1>5, <1>6, <1>7, <1>8, <1>9, <1>10, <1>11, <1>12,
     <1>13, <1>14 DEF Next

(* No row is marked published before its topic has the event, and no event   *)
(* reaches a topic before its transaction is committed, whatever crashes and *)
(* whatever answers are lost.                                                *)
THEOREM PublishedDelivered == Spec => []PublishedIsDelivered
<1>1. DeliveryInv => PublishedIsDelivered
  BY DEF DeliveryInv
<1>2. QED
  BY <1>1, TypeInit, TypeStep, DeliveryInit, DeliveryStep, PTL DEF Spec

(* The outbox implements its abstract specification: its initial states are  *)
(* abstract ones, and each of its steps is an abstract one or stutters.      *)
THEOREM OutboxDelivers == Spec => Delivers
<1>1. Init => Delivery!Init
  BY DEF Init, Delivery!Init
<1>2. TypeOK /\ DeliveryInv /\ [Next]_vars => [Delivery!Next]_Delivery!vars
  <2> SUFFICES ASSUME TypeOK, DeliveryInv, [Next]_vars
               PROVE  Delivery!Next \/ UNCHANGED Delivery!vars
    OBVIOUS
  <2> USE DEF Delivery!Next, Delivery!vars
  <2>1. ASSUME NEW e \in Events, Enqueue(e) PROVE Delivery!Next
    BY <2>1 DEF Enqueue, Delivery!Enqueue
  <2>2. ASSUME NEW w \in Workers, PublishOk(w) PROVE Delivery!Next
    <3>1. PICK e \in batch[w] : delivered' = delivered \union {e}
      BY <2>2 DEF PublishOk
    <3>2. e \in Events /\ e \in committed
      BY <3>1 DEF TypeOK, DeliveryInv, HeldIsCommitted
    <3>3. QED
      BY <2>2, <3>1, <3>2 DEF PublishOk, rows, Delivery!Deliver
  <2>3. ASSUME NEW w \in Workers, PublishError(w)
        PROVE  Delivery!Next \/ UNCHANGED Delivery!vars
    <3>1. PICK e \in batch[w] : delivered' \in {delivered, delivered \union {e}}
      BY <2>3 DEF PublishError
    <3>2. e \in Events /\ e \in committed
      BY <3>1 DEF TypeOK, DeliveryInv, HeldIsCommitted
    <3>3. QED
      BY <2>3, <3>1, <3>2 DEF PublishError, rows, Delivery!Deliver
  <2>4. ASSUME NEW w \in Workers, MarkPublished(w) PROVE Delivery!Next
    <3>1. current[w] \in Events /\ current[w] \in delivered
      BY <2>4 DEF TypeOK, DeliveryInv, MarkedIsDelivered, MarkPublished
    <3>2. QED
      BY <2>4, <3>1 DEF MarkPublished, Delivery!Settle
  <2>5. ASSUME NEW w \in Workers,
               \/ ClaimSelect(w) \/ ClaimCommit(w) \/ ClaimFail(w) \/ ClaimLost(w)
               \/ RecordFailure(w) \/ ResultLost(w) \/ Crash(w) \/ Restart(w)
        PROVE  UNCHANGED Delivery!vars
    BY <2>5 DEF ClaimSelect, ClaimCommit, ClaimFail, ClaimLost, RecordFailure,
                ResultLost, Crash, Restart, rows
  <2>6. CASE Tick
    BY <2>6 DEF Tick
  <2>7. CASE UNCHANGED vars
    BY <2>7 DEF vars, rows
  <2>8. QED
    BY <2>1, <2>2, <2>3, <2>4, <2>5, <2>6, <2>7 DEF Next
<1>3. QED
  BY <1>1, <1>2, TypeInit, TypeStep, DeliveryInit, DeliveryStep, PTL
  DEF Spec, Delivers, Delivery!Spec

-----------------------------------------------------------------------------
(* The lease *)

LEMMA LeaseInit == Init => LeaseInv
BY DEF Init, LeaseInv, LocksAreExclusive, LockedIsDue, StampedSinceClaim,
       ExclusiveLease, Holds

(* A worker whose rows another worker's claim has locked has outlived its    *)
(* own lease: the rows were due, and stamped since its claim.                *)
LEMMA LockedFromExpired ==
    ASSUME TypeOK, LeaseInv,
           NEW v \in Workers, NEW w \in Workers, NEW e \in Events, v # w,
           pc[v] = "claiming", e \in batch[v], e \in batch[w]
    PROVE  pc[w] # "claiming" /\ claimAge[w] = Expired
<1>1. pc[w] # "claiming"
  BY DEF LeaseInv, LocksAreExclusive
<1>2. attemptAge[e] > VisibilityTimeout /\ attemptAge[e] <= claimAge[w]
  BY <1>1 DEF LeaseInv, LockedIsDue, StampedSinceClaim
<1>3. QED
  BY <1>1, <1>2 DEF TypeOK, Ages, Expired

(* A step that claims no row, delays no claim's end and restamps rows only   *)
(* in keeping with LockedIsDue and StampedSinceClaim keeps the rest.         *)
LEMMA LeaseKept ==
    ASSUME LeaseInv,
           \A v \in Workers :
               /\ batch'[v] \subseteq batch[v]
               /\ batch'[v] # {} => /\ claimAge'[v] = claimAge[v]
                                    /\ pc'[v] = "claiming" => pc[v] = "claiming",
           LockedIsDue', StampedSinceClaim'
    PROVE  LeaseInv'
<1>1. ASSUME NEW v \in Workers, NEW e \in batch'[v]
      PROVE  /\ e \in batch[v]
             /\ claimAge'[v] = claimAge[v]
             /\ pc'[v] = "claiming" => pc[v] = "claiming"
  <2>1. batch'[v] # {}
    BY <1>1
  <2>2. QED
    BY <2>1
<1>2. LocksAreExclusive'
  <2>1. ASSUME NEW v \in Workers, NEW w \in Workers, v # w,
               pc'[v] = "claiming", pc'[w] = "claiming",
               NEW e \in batch'[v] \cap batch'[w]
        PROVE  FALSE
    <3>1. pc[v] = "claiming" /\ pc[w] = "claiming" /\ e \in batch[v] \cap batch[w]
      BY <1>1, <2>1
    <3>2. QED
      BY <2>1, <3>1 DEF LeaseInv, LocksAreExclusive
  <2>2. QED
    BY <2>1 DEF LocksAreExclusive
<1>3. ExclusiveLease'
  <2>1. ASSUME NEW v \in Workers, NEW w \in Workers, NEW e \in Events, v # w,
               e \in batch'[v], e \in batch'[w]
        PROVE  claimAge'[v] > VisibilityTimeout \/ claimAge'[w] > VisibilityTimeout
    <3>1. /\ e \in batch[v] /\ e \in batch[w]
          /\ claimAge'[v] = claimAge[v] /\ claimAge'[w] = claimAge[w]
      BY <1>1, <2>1
    <3>2. QED
      BY <2>1, <3>1 DEF LeaseInv, ExclusiveLease, Holds
  <2>2. QED
    BY <2>1 DEF ExclusiveLease, Holds
<1>4. QED
  BY <1>2, <1>3 DEF LeaseInv

(* The case of a worker that stops holding some rows, all others as before.  *)
LEMMA GoOnWithKeepsLease ==
    ASSUME TypeOK, LeaseInv, NEW w \in Workers, NEW B \in SUBSET batch[w],
           GoOnWith(w, B), B # {} => pc[w] # "claiming"
    PROVE  /\ \A v \in Workers :
               /\ batch'[v] \subseteq batch[v]
               /\ batch'[v] # {} => /\ claimAge'[v] = claimAge[v]
                                    /\ (pc'[v] = "claiming") = (pc[v] = "claiming")
           /\ attemptAge' = attemptAge => LeaseInv'
<1>1. ASSUME NEW v \in Workers
      PROVE  /\ batch'[v] \subseteq batch[v]
             /\ batch'[v] # {} => /\ claimAge'[v] = claimAge[v]
                                  /\ (pc'[v] = "claiming") = (pc[v] = "claiming")
  BY DEF TypeOK, GoOnWith
<1>2. ASSUME attemptAge' = attemptAge PROVE LeaseInv'
  <2>1. LockedIsDue' /\ StampedSinceClaim'
    BY <1>1, <1>2 DEF LeaseInv, LockedIsDue, StampedSinceClaim
  <2>2. QED
    BY <1>1, <2>1, LeaseKept
<1>3. QED
  BY <1>1, <1>2

LEMMA LeaseStep == TypeOK /\ LeaseInv /\ [Next]_vars => LeaseInv'
<1> SUFFICES ASSUME TypeOK, LeaseInv, [Next]_vars PROVE LeaseInv'
  OBVIOUS
<1>1. ASSUME NEW e \in Events, Enqueue(e) PROVE LeaseInv'
  BY <1>1 DEF Enqueue, relay, LeaseInv, LocksAreExclusive, LockedIsDue,
              StampedSinceClaim, ExclusiveLease, Holds
<1>2. ASSUME NEW w \in Workers, ClaimSelect(w) PROVE LeaseInv'
  <2>1. PICK B \in Oldest(Claimable) : batch' = [batch EXCEPT ![w] = B]
    BY <1>2 DEF ClaimSelect
  <2>2. /\ pc' = [pc EXCEPT ![w] = "claiming"]
        /\ claimAge' = [claimAge EXCEPT ![w] = 0]
        /\ attemptAge' = attemptAge
    BY <1>2 DEF ClaimSelect, rows
  <2>3. ASSUME NEW e \in B, NEW v \in Workers, v # w, e \in batch[v]
        PROVE  pc[v] # "claiming" /\ claimAge[v] > VisibilityTimeout
    <3>1. e \in Events /\ Due(e) /\ e \notin Locked
      BY <2>1 DEF Oldest, Claimable
    <3>2. pc[v] # "claiming"
      BY <2>3, <3>1 DEF Locked
    <3>3. attemptAge[e] > VisibilityTimeout /\ attemptAge[e] <= claimAge[v]
      BY <2>3, <3>1, <3>2 DEF Due, LeaseInv, StampedSinceClaim
    <3>4. QED
      BY <3>1, <3>2, <3>3 DEF TypeOK, Ages, Expired
  <2>4. \A e \in B : attemptAge[e] > VisibilityTimeout
    BY <2>1 DEF Oldest, Claimable, Due
  <2>5. LocksAreExclusive'
    BY <2>1, <2>2, <2>3 DEF TypeOK, LeaseInv, LocksAreExclusive
  <2>6. LockedIsDue' /\ StampedSinceClaim'
    BY <2>1, <2>2, <2>4 DEF TypeOK, LeaseInv, LockedIsDue, StampedSinceClaim
  <2>7. ExclusiveLease'
    BY <2>1, <2>2, <2>3 DEF TypeOK, LeaseInv, ExclusiveLease, Holds
  <2>8. QED
    BY <2>5, <2>6, <2>7 DEF LeaseInv
<1>3. ASSUME NEW w \in Workers, pc[w] = "claiming", StampClaim(w),
             \A v \in Workers : /\ batch'[v] \subseteq batch[v]
                                /\ batch'[v] # {} => claimAge'[v] = claimAge[v]
                                /\ v # w => pc'[v] = pc[v],
             pc'[w] # "claiming"
      PROVE  LeaseInv'
  <2>1. ASSUME NEW v \in Workers, NEW e \in batch'[v], pc'[v] = "claiming"
        PROVE  attemptAge'[e] > VisibilityTimeout
    <3>1. v # w /\ pc[v] = "claiming"
      BY <1>3, <2>1
    <3>2. e \in batch[v] /\ e \in Events
      BY <1>3, <2>1 DEF TypeOK
    <3>3. e \notin batch[w]
      BY <1>3, <3>1, <3>2 DEF LeaseInv, LocksAreExclusive
    <3>4. attemptAge'[e] = attemptAge[e]
      BY <1>3, <3>2, <3>3 DEF StampClaim
    <3>5. QED
      BY <3>1, <3>2, <3>4 DEF LeaseInv, LockedIsDue
  <2>2. ASSUME NEW v \in Workers, NEW e \in batch'[v], pc'[v] # "claiming"
        PROVE  attemptAge'[e] <= claimAge'[v]
    <3>1. e \in batch[v] /\ e \in Events /\ claimAge'[v] = claimAge[v]
      <4>1. batch'[v] # {} /\ batch'[v] \subseteq batch[v]
        BY <1>3, <2>2
      <4>2. QED
        BY <1>3, <2>2, <4>1 DEF TypeOK
    <3>2. CASE e \in batch[w]
      <4>1. attemptAge'[e] = claimAge[w] /\ claimAge[w] \in Ages
        BY <1>3, <3>1, <3>2 DEF StampClaim, TypeOK
      <4>2. v # w => claimAge[v] = Expired
        BY <1>3, <3>1, <3>2, LockedFromExpired
      <4>3. QED
        BY <3>1, <4>1, <4>2 DEF Ages, Expired
    <3>3. CASE e \notin batch[w]
      <4>1. v # w /\ pc[v] # "claiming" /\ attemptAge'[e] = attemptAge[e]
        BY <1>3, <2>2, <3>1, <3>3 DEF StampClaim
      <4>2. QED
        BY <3>1, <4>1 DEF LeaseInv, StampedSinceClaim
    <3>4. QED
      BY <3>2, <3>3
  <2>3. LockedIsDue' /\ StampedSinceClaim'
    BY <2>1, <2>2 DEF LockedIsDue, StampedSinceClaim
  <2>4. \A v \in Workers :
            /\ batch'[v] \subseteq batch[v]
            /\ batch'[v] # {} => /\ claimAge'[v] = claimAge[v]
                                 /\ pc'[v] = "claiming" => pc[v] = "claiming"
    BY <1>3
  <2>5. QED
    BY <2>3, <2>4, LeaseKept
<1>4. ASSUME NEW w \in Workers, ClaimCommit(w) PROVE LeaseInv'
  BY <1>3, <1>4 DEF ClaimCommit, TypeOK
<1>5. ASSUME NEW w \in Workers, ClaimLost(w) PROVE LeaseInv'
  BY <1>3, <1>5 DEF ClaimLost, GoOnWith, TypeOK
<1>6. ASSUME NEW w \in Workers, ClaimFail(w) PROVE LeaseInv'
  BY <1>6, GoOnWithKeepsLease DEF ClaimFail, rows
<1>7. ASSUME NEW w \in Workers, PublishOk(w) \/ PublishError(w) PROVE LeaseInv'
  BY <1>7, ZenonT(60)
          DEF PublishOk, PublishError, rows, TypeOK, LeaseInv, LocksAreExclusive,
              LockedIsDue, StampedSinceClaim, ExclusiveLease, Holds
<1>8. ASSUME NEW w \in Workers, MarkPublished(w) \/ RecordFailure(w) PROVE LeaseInv'
  <2>1. /\ current[w] \notin Locked /\ current[w] \in Events
        /\ attemptAge' = [attemptAge EXCEPT ![current[w]] = 0]
        /\ GoOnWith(w, batch[w] \ {current[w]})
        /\ pc[w] # "claiming"
    BY <1>8 DEF MarkPublished, RecordFailure, TypeOK
  <2>2. \A v \in Workers :
            /\ batch'[v] \subseteq batch[v]
            /\ batch'[v] # {} => /\ claimAge'[v] = claimAge[v]
                                 /\ (pc'[v] = "claiming") = (pc[v] = "claiming")
    BY <2>1, GoOnWithKeepsLease
  <2>3. \A v \in Workers : pc[v] = "claiming" => current[w] \notin batch[v]
    BY <2>1 DEF Locked
  <2>4. LockedIsDue'
    BY <2>1, <2>2, <2>3, ZenonT(60) DEF TypeOK, LeaseInv, LockedIsDue
  <2>5. StampedSinceClaim'
    <3>1. ASSUME NEW v \in Workers, NEW e \in batch'[v], pc'[v] # "claiming"
          PROVE  attemptAge'[e] <= claimAge'[v]
      <4>1. /\ e \in batch[v] /\ e \in Events
            /\ claimAge'[v] = claimAge[v] /\ claimAge[v] \in Ages
            /\ attemptAge[e] <= claimAge[v]
        BY <2>2, <3>1 DEF TypeOK, LeaseInv, StampedSinceClaim
      <4>2. attemptAge'[e] = IF e = current[w] THEN 0 ELSE attemptAge[e]
        BY <2>1, <4>1 DEF TypeOK
      <4>3. QED
        BY <4>1, <4>2 DEF Ages, Expired
    <3>2. QED
      BY <3>1 DEF StampedSinceClaim
  <2>6. QED
    BY <2>2, <2>4, <2>5, LeaseKept
<1>9. ASSUME NEW w \in Workers, ResultLost(w) PROVE LeaseInv'
  BY <1>9, GoOnWithKeepsLease DEF ResultLost, rows
<1>10. ASSUME NEW w \in Workers, Crash(w) \/ Restart(w) PROVE LeaseInv'
  <2>1. \A v \in Workers :
            /\ batch'[v] \subseteq batch[v]
            /\ batch'[v] # {} => /\ claimAge'[v] = claimAge[v] /\ pc'[v] = pc[v]
    BY <1>10 DEF Crash, Restart, TypeOK
  <2>2. attemptAge' = attemptAge
    BY <1>10 DEF Crash, Restart, rows
  <2>3. LockedIsDue' /\ StampedSinceClaim'
    BY <2>1, <2>2 DEF LeaseInv, LockedIsDue, StampedSinceClaim
  <2>4. QED
    BY <2>1, <2>3, LeaseKept
<1>11. CASE Tick
  <2>1. /\ \A e \in Events : attemptAge'[e] = Older(attemptAge[e]) /\ attemptAge[e] \in Ages
        /\ \A w \in Workers : claimAge'[w] = Older(claimAge[w]) /\ claimAge[w] \in Ages
        /\ batch' = batch /\ pc' = pc
    BY <1>11 DEF Tick, TypeOK
  <2>2. LocksAreExclusive'
    BY <2>1 DEF LeaseInv, LocksAreExclusive
  <2>3. LockedIsDue'
    <3>1. ASSUME NEW w \in Workers, NEW e \in batch[w], pc[w] = "claiming"
          PROVE  attemptAge'[e] > VisibilityTimeout
      <4>1. e \in Events /\ attemptAge[e] > VisibilityTimeout
        BY <3>1 DEF TypeOK, LeaseInv, LockedIsDue
      <4>2. QED
        BY <2>1, <4>1 DEF Ages, Expired, Older
    <3>2. QED
      BY <2>1, <3>1 DEF LockedIsDue
  <2>4. StampedSinceClaim'
    <3>1. ASSUME NEW w \in Workers, NEW e \in batch[w], pc[w] # "claiming"
          PROVE  attemptAge'[e] <= claimAge'[w]
      <4>1. e \in Events /\ attemptAge[e] <= claimAge[w]
        BY <3>1 DEF TypeOK, LeaseInv, StampedSinceClaim
      <4>2. QED
        BY <2>1, <4>1, OlderIsAge
    <3>2. QED
      BY <2>1, <3>1 DEF StampedSinceClaim
  <2>5. ExclusiveLease'
    <3>1. ASSUME NEW w \in Workers, claimAge[w] > VisibilityTimeout
          PROVE  claimAge'[w] > VisibilityTimeout
      BY <2>1, <3>1 DEF Ages, Expired, Older
    <3>2. QED
      BY <2>1, <3>1 DEF LeaseInv, ExclusiveLease, Holds
  <2>6. QED
    BY <2>2, <2>3, <2>4, <2>5 DEF LeaseInv
<1>12. CASE UNCHANGED vars
  BY <1>12 DEF vars, rows, relay, LeaseInv, LocksAreExclusive, LockedIsDue,
               StampedSinceClaim, ExclusiveLease, Holds
<1>13. QED
  BY <1>1, <1>2, <1>4, <1>5, <1>6, <1>7, <1>8, <1>9, <1>10, <1>11, <1>12 DEF Next

(* Two workers have the same row in hand only when one of them has held its  *)
(* claim for longer than the visibility timeout: within their leases no two  *)
(* processes publish the same event.                                         *)
THEOREM LeaseIsExclusive == Spec => []ExclusiveLease
<1>1. LeaseInv => ExclusiveLease
  BY DEF LeaseInv
<1>2. QED
  BY <1>1, TypeInit, TypeStep, LeaseInit, LeaseStep, PTL DEF Spec

-----------------------------------------------------------------------------
(* The retry budget *)

USE WorkersAssumption

(* The workers that hold a row are finitely many, and no more than there are. *)
LEMMA HoldersFinite ==
    ASSUME NEW e \in Events
    PROVE  /\ IsFiniteSet(Holders(e)) /\ IsFiniteSet(Workers)
           /\ Cardinality(Holders(e)) \in Nat /\ Cardinality(Workers) \in Nat
           /\ Cardinality(Holders(e)) <= Cardinality(Workers)
<1>1. Holders(e) \subseteq Workers
  BY DEF Holders
<1>2. QED
  BY <1>1, FS_Subset, FS_CardinalityType

(* The same for the holders after a step. *)
LEMMA HoldersFiniteNext ==
    ASSUME NEW e \in Events
    PROVE  /\ IsFiniteSet(Holders(e)')
           /\ Cardinality(Holders(e)') \in Nat
           /\ Cardinality(Holders(e)') <= Cardinality(Workers)
<1>1. Holders(e)' \subseteq Workers
  BY DEF Holders
<1>2. QED
  BY <1>1, FS_Subset, FS_CardinalityType

LEMMA BudgetInit == Init => RetryBudget
<1> SUFFICES ASSUME Init, NEW e \in Events
             PROVE  failureCount[e] + Cardinality(Holders(e))
                        < FailureThreshold + Cardinality(Workers)
  BY DEF RetryBudget
<1>1. failureCount[e] = 0
  BY DEF Init
<1>2. QED
  BY <1>1, HoldersFinite

(* What a step may do to one row: leave its count and give it no new holder, *)
(* count one failure for a holder that lets it go, or hand it, below the     *)
(* threshold, to one more worker.                                            *)
LEMMA BudgetStep == TypeOK /\ RetryBudget /\ [Next]_vars => RetryBudget'
<1> SUFFICES ASSUME TypeOK, RetryBudget, [Next]_vars, NEW e \in Events
             PROVE  failureCount'[e] + Cardinality(Holders(e)')
                        < FailureThreshold + Cardinality(Workers)
  BY DEF RetryBudget
<1>1. failureCount[e] \in Nat /\ failureCount[e] + Cardinality(Holders(e))
                                     < FailureThreshold + Cardinality(Workers)
  BY DEF TypeOK, RetryBudget
<1>2. ASSUME failureCount'[e] = failureCount[e], Holders(e)' \subseteq Holders(e)
      PROVE  failureCount'[e] + Cardinality(Holders(e)')
                 < FailureThreshold + Cardinality(Workers)
  <2>1. Cardinality(Holders(e)') <= Cardinality(Holders(e))
    BY <1>2, HoldersFinite, FS_Subset
  <2>2. QED
    BY <1>1, <1>2, <2>1, HoldersFinite, HoldersFiniteNext
<1>3. ASSUME NEW w \in Workers, ClaimSelect(w)
      PROVE  failureCount'[e] + Cardinality(Holders(e)')
                 < FailureThreshold + Cardinality(Workers)
  <2>1. PICK B \in Oldest(Claimable) : batch' = [batch EXCEPT ![w] = B]
    BY <1>3 DEF ClaimSelect
  <2>2. failureCount' = failureCount
    BY <1>3 DEF ClaimSelect, rows
  <2>3. CASE e \in B
    <3>1. failureCount[e] < FailureThreshold
      BY <2>1, <2>3 DEF Oldest, Claimable, Due
    <3>2. QED
      BY <1>1, <2>2, <3>1, HoldersFinite, HoldersFiniteNext
  <2>4. CASE e \notin B
    <3>1. Holders(e)' \subseteq Holders(e)
      BY <2>1, <2>4 DEF Holders, Holds, TypeOK
    <3>2. QED
      BY <1>2, <2>2, <3>1
  <2>5. QED
    BY <2>3, <2>4
<1>4. ASSUME NEW w \in Workers, RecordFailure(w)
      PROVE  failureCount'[e] + Cardinality(Holders(e)')
                 < FailureThreshold + Cardinality(Workers)
  <2>1. /\ failureCount' = [failureCount EXCEPT ![current[w]] = @ + 1]
        /\ batch' = [batch EXCEPT ![w] = batch[w] \ {current[w]}]
        /\ current[w] \in batch[w]
    BY <1>4 DEF RecordFailure, GoOnWith, TypeOK
  <2>2. CASE e = current[w]
    <3>1. Holders(e)' = Holders(e) \ {w} /\ w \in Holders(e)
      BY <2>1, <2>2 DEF Holders, Holds, TypeOK
    <3>2. Cardinality(Holders(e)') = Cardinality(Holders(e)) - 1
      BY <3>1, HoldersFinite, FS_RemoveElement, ZenonT(60)
    <3>3. failureCount'[e] = failureCount[e] + 1
      BY <2>1, <2>2 DEF TypeOK
    <3>4. QED
      BY <1>1, <3>2, <3>3, HoldersFinite, HoldersFiniteNext
  <2>3. CASE e # current[w]
    <3>1. Holders(e)' \subseteq Holders(e)
      BY <2>1 DEF Holders, Holds, TypeOK
    <3>2. failureCount'[e] = failureCount[e]
      BY <2>1, <2>3 DEF TypeOK
    <3>3. QED
      BY <1>2, <3>1, <3>2
  <2>4. QED
    BY <2>2, <2>3
<1>5. ASSUME NEW w \in Workers,
             \/ ClaimFail(w) \/ ClaimLost(w) \/ MarkPublished(w) \/ ResultLost(w)
      PROVE  failureCount'[e] = failureCount[e] /\ Holders(e)' \subseteq Holders(e)
  <2>1. PICK B \in SUBSET batch[w] : batch' = [batch EXCEPT ![w] = B]
    BY <1>5 DEF ClaimFail, ClaimLost, MarkPublished, ResultLost, GoOnWith
  <2>2. failureCount' = failureCount
    BY <1>5 DEF ClaimFail, ClaimLost, MarkPublished, ResultLost, rows
  <2>3. QED
    BY <2>1, <2>2 DEF Holders, Holds, TypeOK
<1>6. ASSUME NEW w \in Workers,
             \/ ClaimCommit(w) \/ PublishOk(w) \/ PublishError(w)
             \/ Crash(w) \/ Restart(w)
      PROVE  failureCount'[e] = failureCount[e] /\ Holders(e)' \subseteq Holders(e)
  BY <1>6 DEF ClaimCommit, PublishOk, PublishError, Crash, Restart, rows,
              Holders, Holds, TypeOK
<1>7. ASSUME (\E x \in Events : Enqueue(x)) \/ Tick \/ UNCHANGED vars
      PROVE  failureCount'[e] = failureCount[e] /\ Holders(e)' \subseteq Holders(e)
  BY <1>7 DEF Enqueue, Tick, vars, rows, relay, Holders, Holds
<1>8. QED
  BY <1>2, <1>3, <1>4, <1>5, <1>6, <1>7 DEF Next

(* However claims overlap, a row collects fewer failures than the threshold  *)
(* plus the number of processes: every failure beyond the threshold belongs  *)
(* to a worker that claimed the row below it.                                *)
THEOREM RetriesAreBounded == Spec => []RetryBudget
<1>1. QED
  BY TypeInit, TypeStep, BudgetInit, BudgetStep, PTL DEF Spec

-----------------------------------------------------------------------------
(* The log of dead letters, in one process *)

(* A relay that works alone is the only one that counts failures, so what    *)
(* its claim returned is still the count when it decides whether to log.     *)
CountIsFresh ==
    \A w \in Workers : \A e \in batch[w] :
        pc[w] # "claiming" => seen[w][e] = failureCount[e]

LastFailureIsLogged ==
    \A w \in Workers :
        pc[w] = "recording" /\ failureCount[current[w]] + 1 >= FailureThreshold =>
            current[w] \in stuckLogged

FailedIsCommitted == \A e \in Events : failureCount[e] # 0 => e \in committed

LogInv == CountIsFresh /\ LastFailureIsLogged /\ FailedIsCommitted /\ DeadIsLogged

LEMMA LogInit == Init => LogInv
BY DEF Init, LogInv, CountIsFresh, LastFailureIsLogged, FailedIsCommitted, DeadIsLogged, Dead

(* A step that counts no failure keeps it: what is left of a batch has been  *)
(* seen as it is, and no row dies.                                           *)
LEMMA LogKept ==
    ASSUME TypeOK, LogInv,
           failureCount' = failureCount, stuckLogged' = stuckLogged,
           committed \subseteq committed', published \subseteq published',
           \A v \in Workers :
               /\ pc'[v] # "recording" \/ UNCHANGED <<pc[v], current[v]>>
               /\ batch'[v] # {} /\ pc'[v] # "claiming" =>
                     /\ pc[v] # "claiming"
                     /\ batch'[v] \subseteq batch[v]
                     /\ \A e \in batch'[v] : seen'[v][e] = seen[v][e]
    PROVE  LogInv'
<1>1. CountIsFresh'
  <2>1. ASSUME NEW v \in Workers, NEW e \in batch'[v], pc'[v] # "claiming"
        PROVE  seen'[v][e] = failureCount'[e]
    <3>1. batch'[v] # {}
      BY <2>1
    <3>2. pc[v] # "claiming" /\ e \in batch[v] /\ seen'[v][e] = seen[v][e]
      BY <2>1, <3>1
    <3>3. QED
      BY <3>2 DEF LogInv, CountIsFresh
  <2>2. QED
    BY <2>1 DEF CountIsFresh
<1>2. LastFailureIsLogged'
  BY DEF LogInv, LastFailureIsLogged
<1>3. FailedIsCommitted'
  BY DEF LogInv, FailedIsCommitted
<1>4. DeadIsLogged'
  <2>1. ASSUME NEW e \in Events, Dead(e)' PROVE e \in stuckLogged
    <3>1. failureCount[e] >= FailureThreshold /\ e \notin published
      BY <2>1 DEF Dead
    <3>2. e \in committed
      BY <3>1 DEF LogInv, FailedIsCommitted
    <3>3. QED
      BY <3>1, <3>2 DEF LogInv, DeadIsLogged, Dead
  <2>2. QED
    BY <2>1 DEF DeadIsLogged
<1>5. QED
  BY <1>1, <1>2, <1>3, <1>4 DEF LogInv

LEMMA LogStep ==
    ASSUME \A v, w \in Workers : v = w, TypeOK, DeliveryInv, LogInv, [Next]_vars
    PROVE  LogInv'
<1>1. ASSUME NEW e \in Events, Enqueue(e) PROVE LogInv'
  BY <1>1, LogKept DEF Enqueue, relay
<1>2. ASSUME NEW w \in Workers, ClaimSelect(w) PROVE LogInv'
  BY <1>2, LogKept DEF ClaimSelect, rows, TypeOK
<1>3. ASSUME NEW w \in Workers, ClaimCommit(w) PROVE LogInv'
  BY <1>3 DEF ClaimCommit, TypeOK, LogInv, CountIsFresh, LastFailureIsLogged,
              FailedIsCommitted, DeadIsLogged, Dead
<1>4. ASSUME NEW w \in Workers, ClaimFail(w) \/ ClaimLost(w) PROVE LogInv'
  BY <1>4, LogKept DEF ClaimFail, ClaimLost, GoOnWith, rows, TypeOK
<1>5. ASSUME NEW w \in Workers, PublishOk(w) PROVE LogInv'
  BY <1>5, LogKept DEF PublishOk, rows, TypeOK
<1>6. ASSUME NEW w \in Workers, PublishError(w) PROVE LogInv'
  <2>1. PICK e \in batch[w] :
          /\ current' = [current EXCEPT ![w] = e]
          /\ stuckLogged' = IF Attempts(w, e) >= FailureThreshold
                            THEN stuckLogged \union {e}
                            ELSE stuckLogged
    BY <1>6 DEF PublishError
  <2>2. seen[w][e] = failureCount[e]
    BY <1>6 DEF PublishError, LogInv, CountIsFresh
  <2>3. LastFailureIsLogged'
    BY <1>6, <2>1, <2>2 DEF PublishError, rows, Attempts, TypeOK, LastFailureIsLogged
  <2>4. CountIsFresh'
    BY <1>6, ZenonT(60) DEF PublishError, rows, TypeOK, LogInv, CountIsFresh
  <2>5. FailedIsCommitted' /\ DeadIsLogged'
    BY <1>6, <2>1 DEF PublishError, rows, LogInv, FailedIsCommitted, DeadIsLogged, Dead
  <2>6. QED
    BY <2>3, <2>4, <2>5 DEF LogInv
<1>7. ASSUME NEW w \in Workers, MarkPublished(w) \/ ResultLost(w) PROVE LogInv'
  <2>1. /\ GoOnWith(w, batch[w] \ {current[w]}) /\ pc[w] # "claiming"
        /\ failureCount' = failureCount /\ stuckLogged' = stuckLogged
        /\ committed \subseteq committed' /\ published \subseteq published'
    BY <1>7 DEF MarkPublished, ResultLost, rows
  <2>2. QED
    BY <2>1, LogKept DEF GoOnWith, TypeOK
<1>8. ASSUME NEW w \in Workers, RecordFailure(w) PROVE LogInv'
  <2> DEFINE x == current[w]
  <2>1. /\ failureCount' = [failureCount EXCEPT ![x] = failureCount[x] + 1]
        /\ pc[w] = "recording" /\ x \in batch[w] /\ x \in Events
        /\ GoOnWith(w, batch[w] \ {x})
        /\ UNCHANGED <<committed, published, stuckLogged>>
    BY <1>8 DEF RecordFailure, TypeOK
  <2>2. \A v \in Workers : v = w
    OBVIOUS
  <2>3. \A e \in Events \ {x} : failureCount'[e] = failureCount[e]
    BY <2>1 DEF TypeOK
  <2>4. failureCount'[x] = failureCount[x] + 1
    BY <2>1 DEF TypeOK
  <2>5. CountIsFresh'
    <3>1. ASSUME NEW e \in batch'[w]
          PROVE  seen'[w][e] = failureCount'[e]
      <4>1. e \in batch[w] /\ e # x /\ e \in Events
        BY <2>1, <3>1 DEF GoOnWith, TypeOK
      <4>2. seen'[w][e] = seen[w][e]
        BY <2>1, <4>1 DEF GoOnWith, TypeOK
      <4>3. QED
        BY <2>1, <2>3, <4>1, <4>2 DEF LogInv, CountIsFresh
    <3>2. QED
      BY <2>2, <3>1 DEF CountIsFresh
  <2>6. LastFailureIsLogged'
    BY <2>1, <2>2 DEF GoOnWith, LastFailureIsLogged, TypeOK
  <2>7. FailedIsCommitted'
    BY <2>1, <2>3 DEF LogInv, FailedIsCommitted, DeliveryInv, HeldIsCommitted
  <2>8. DeadIsLogged'
    BY <2>1, <2>3, <2>4 DEF LogInv, DeadIsLogged, Dead, LastFailureIsLogged
  <2>9. QED
    BY <2>5, <2>6, <2>7, <2>8 DEF LogInv
<1>9. ASSUME NEW w \in Workers, Crash(w) \/ Restart(w) PROVE LogInv'
  BY <1>9, LogKept DEF Crash, Restart, rows, TypeOK
<1>10. CASE Tick
  BY <1>10, LogKept DEF Tick
<1>11. CASE UNCHANGED vars
  BY <1>11, LogKept DEF vars, rows, relay
<1>12. QED
  BY <1>1, <1>2, <1>3, <1>4, <1>5, <1>6, <1>7, <1>8, <1>9, <1>10, <1>11 DEF Next

(* Where one process runs the relay, a row that no claim will take again has *)
(* had its ERROR log (Config.FailureThreshold), whatever crashes and         *)
(* whatever statement fails. With two, a run finds the row that has not.     *)
THEOREM DeadLetterIsLogged ==
    ASSUME \A v, w \in Workers : v = w
    PROVE  Spec => []DeadIsLogged
<1>1. LogInv => DeadIsLogged
  BY DEF LogInv
<1>2. TypeOK /\ DeliveryInv /\ LogInv /\ [Next]_vars => LogInv'
  BY LogStep
<1>3. QED
  BY <1>1, <1>2, TypeInit, TypeStep, DeliveryInit, DeliveryStep, LogInit, PTL DEF Spec
=============================================================================
