------------------------------- MODULE Outbox -------------------------------
(***************************************************************************)
(* The consuming side of the transactional outbox: the rows of             *)
(* scenario.outbox_events, the statements of                               *)
(* internal/repository/postgres/outbox_repo.go on them, and the polling    *)
(* relay (internal/usecase/outbox/relay.go) that one ticker goroutine per  *)
(* server process drives. Processes (Workers) share nothing but the table  *)
(* and Pub/Sub; they crash and restart, statements and publish calls fail, *)
(* and an answer may be lost after its effect.                             *)
(*                                                                         *)
(* Events are numbered in the order of created_at, which is the now() of   *)
(* the inserting transaction: rows may be committed in any other order.    *)
(*                                                                         *)
(* Time is the database's clock, the only one the code compares. It is     *)
(* kept as ages: how long ago a stamp was taken, saturating at Expired,    *)
(* past which the claim query tells no two ages apart.                     *)
(***************************************************************************)
EXTENDS Naturals, FiniteSets

CONSTANTS
    Events,             \* outbox rows that may come to exist
    Workers,            \* server processes
    NoEvent,            \* "no row in hand"
    BatchSize,          \* outbox.Config.BatchSize
    FailureThreshold,   \* outbox.Config.FailureThreshold
    VisibilityTimeout   \* outbox.Config.VisibilityTimeout, in clock units

ASSUME EventsAssumption == Events \subseteq Nat /\ IsFiniteSet(Events)
ASSUME WorkersAssumption == IsFiniteSet(Workers)
ASSUME NoEventAssumption == NoEvent \notin Events

(* relay.go New refuses values that are not positive. *)
ASSUME ConfigAssumption ==
    /\ BatchSize \in Nat \ {0}
    /\ FailureThreshold \in Nat \ {0}
    /\ VisibilityTimeout \in Nat \ {0}

VARIABLES
    (* scenario.outbox_events *)
    committed,      \* event_ids of committed rows
    published,      \* rows with published_at set
    failureCount,   \* failure_count
    lastError,      \* rows with last_error set
    attemptAge,     \* now() - last_attempted_at; Expired also stands for NULL
    (* the relay of each process *)
    pc,             \* what RunOnce is doing
    batch,          \* rows it selected and has not finished
    current,        \* the row processOne has published or failed to publish
    seen,           \* FailureCount of the claimed rows, as returned by the claim
    claimAge,       \* now() - the now() of its latest claim
    (* the world *)
    delivered,      \* events their topic holds
    stuckLogged     \* events for which "outbox event stuck" was logged

rows == <<committed, published, failureCount, lastError, attemptAge>>
relay == <<pc, batch, current, seen, claimAge>>
vars == <<rows, relay, delivered, stuckLogged>>

Expired == VisibilityTimeout + 1
Ages == 0 .. Expired
Older(age) == IF age < Expired THEN age + 1 ELSE age

-----------------------------------------------------------------------------
Init ==
    /\ committed = {}
    /\ published = {}
    /\ failureCount = [e \in Events |-> 0]
    /\ lastError = {}
    /\ attemptAge = [e \in Events |-> Expired]
    /\ pc = [w \in Workers |-> "idle"]
    /\ batch = [w \in Workers |-> {}]
    /\ current = [w \in Workers |-> NoEvent]
    /\ seen = [w \in Workers |-> [e \in Events |-> 0]]
    /\ claimAge = [w \in Workers |-> Expired]
    /\ delivered = {}
    /\ stuckLogged = {}

(* The row, inserted by writeOutboxEvent, becomes visible with the commit   *)
(* of the transaction that also holds the business rows.                    *)
Enqueue(e) ==
    /\ e \notin committed
    /\ committed' = committed \union {e}
    /\ UNCHANGED <<published, failureCount, lastError, attemptAge>>
    /\ UNCHANGED <<relay, delivered, stuckLogged>>

-----------------------------------------------------------------------------
(* ClaimUnpublished *)

(* Rows that a claim statement has locked and not yet committed. *)
Locked == UNION {batch[w] : w \in {v \in Workers : pc[v] = "claiming"}}

(* Mutant of Due: the claim does not look at failure_count. *)
DueForever(e) == e \in committed \ published /\ attemptAge[e] > VisibilityTimeout

(* The WHERE clause of the claim. *)
Due(e) ==
    /\ e \in committed \ published
    /\ failureCount[e] < FailureThreshold
    /\ attemptAge[e] > VisibilityTimeout

(* Mutant of Claimable: a plain SELECT, which does not skip locked rows. *)
ClaimableUnlocked == {e \in Events : Due(e)}

(* Mutant of Claimable: a row that failed once is not tried again. *)
ClaimableOnce == {e \in Events : Due(e) /\ e \notin Locked /\ e \notin lastError}

(* FOR UPDATE SKIP LOCKED: what another statement holds is not waited for. *)
Claimable == {e \in Events : Due(e) /\ e \notin Locked}

(* ORDER BY created_at LIMIT BatchSize. *)
Oldest(S) ==
    {B \in SUBSET S :
        /\ Cardinality(B) <= BatchSize
        /\ \A old \in B, new \in S \ B : old < new
        /\ B = S \/ Cardinality(B) = BatchSize}

(* What a worker is left with after its batch: rows B, or nothing to do. *)
GoOnWith(w, B) ==
    /\ batch' = [batch EXCEPT ![w] = B]
    /\ current' = [current EXCEPT ![w] = NoEvent]
    /\ seen' = [seen EXCEPT ![w] = [e \in Events |->
                   IF e \in B THEN seen[w][e] ELSE 0]]
    /\ claimAge' = [claimAge EXCEPT ![w] = IF B = {} THEN Expired ELSE claimAge[w]]
    /\ pc' = [pc EXCEPT ![w] = IF B = {} THEN "idle" ELSE "publishing"]

(* The statement selects and locks its rows. A claim that finds none        *)
(* changes nothing.                                                         *)
ClaimSelect(w) ==
    /\ pc[w] = "idle"
    /\ \E B \in Oldest(Claimable) :
        /\ B # {}
        /\ batch' = [batch EXCEPT ![w] = B]
    /\ pc' = [pc EXCEPT ![w] = "claiming"]
    /\ claimAge' = [claimAge EXCEPT ![w] = 0]
    /\ UNCHANGED <<rows, current, seen, delivered, stuckLogged>>

(* The UPDATE's effect: last_attempted_at becomes the statement's now(). *)
StampClaim(w) ==
    attemptAge' = [e \in Events |->
                      IF e \in batch[w] THEN claimAge[w] ELSE attemptAge[e]]

(* The statement commits and its RETURNING rows reach the relay, in an      *)
(* order PostgreSQL does not promise: hence a set.                          *)
ClaimCommit(w) ==
    /\ pc[w] = "claiming"
    /\ StampClaim(w)
    /\ seen' = [seen EXCEPT ![w] = [e \in Events |->
                   IF e \in batch[w] THEN failureCount[e] ELSE 0]]
    /\ pc' = [pc EXCEPT ![w] = "publishing"]
    /\ UNCHANGED <<committed, published, failureCount, lastError>>
    /\ UNCHANGED <<batch, current, claimAge, delivered, stuckLogged>>

(* Mutant of ClaimFail: the rows of the failed claim are not forgotten. *)
ClaimFailKeepsRows(w) ==
    /\ pc[w] = "claiming"
    /\ pc' = [pc EXCEPT ![w] = "idle"]
    /\ UNCHANGED <<rows, batch, current, seen, claimAge, delivered, stuckLogged>>

(* The statement fails and is rolled back: RunOnce returns the error and    *)
(* the ticker goes on.                                                      *)
ClaimFail(w) ==
    /\ pc[w] = "claiming"
    /\ GoOnWith(w, {})
    /\ UNCHANGED <<rows, delivered, stuckLogged>>

(* The statement commits and its answer is lost (rows.Scan, rows.Err): the  *)
(* rows are hidden although nobody works on them.                           *)
ClaimLost(w) ==
    /\ pc[w] = "claiming"
    /\ StampClaim(w)
    /\ GoOnWith(w, {})
    /\ UNCHANGED <<committed, published, failureCount, lastError>>
    /\ UNCHANGED <<delivered, stuckLogged>>

-----------------------------------------------------------------------------
(* processOne, once for every claimed row *)

(* Publish returns nil: the topic has the message. *)
PublishOk(w) ==
    /\ pc[w] = "publishing"
    /\ \E e \in batch[w] :
        /\ current' = [current EXCEPT ![w] = e]
        /\ delivered' = delivered \union {e}
    /\ pc' = [pc EXCEPT ![w] = "marking"]
    /\ UNCHANGED <<rows, batch, seen, claimAge, stuckLogged>>

(* Mutant of Attempts: the failure at hand is not counted. *)
AttemptsBefore(w, e) == seen[w][e]

(* The attempts processOne reports, by the count the claim returned. *)
Attempts(w, e) == seen[w][e] + 1

(* Mutant of PublishError: the error is swallowed. *)
PublishErrorIgnored(w) ==
    /\ pc[w] = "publishing"
    /\ \E e \in batch[w] : current' = [current EXCEPT ![w] = e]
    /\ pc' = [pc EXCEPT ![w] = "marking"]
    /\ UNCHANGED <<rows, batch, seen, claimAge, delivered, stuckLogged>>

(* Publish returns an error. The topic may have the message all the same:   *)
(* result.Get gives up waiting, it takes nothing back.                      *)
PublishError(w) ==
    /\ pc[w] = "publishing"
    /\ \E e \in batch[w] :
        /\ current' = [current EXCEPT ![w] = e]
        /\ delivered' \in {delivered, delivered \union {e}}
        /\ stuckLogged' = IF Attempts(w, e) >= FailureThreshold
                          THEN stuckLogged \union {e}
                          ELSE stuckLogged
    /\ pc' = [pc EXCEPT ![w] = "recording"]
    /\ UNCHANGED <<rows, batch, seen, claimAge>>

(* Mutant of MarkPublished: one UPDATE for the whole batch. *)
MarkBatchPublished(w) ==
    /\ pc[w] = "marking"
    /\ published' = published \union batch[w]
    /\ GoOnWith(w, {})
    /\ UNCHANGED <<committed, failureCount, lastError, attemptAge, delivered, stuckLogged>>

(* MarkPublished commits; a row that a claim holds locked is waited for.    *)
MarkPublished(w) ==
    /\ pc[w] = "marking"
    /\ current[w] \notin Locked
    /\ published' = published \union {current[w]}
    /\ lastError' = lastError \ {current[w]}
    /\ attemptAge' = [attemptAge EXCEPT ![current[w]] = 0]
    /\ GoOnWith(w, batch[w] \ {current[w]})
    /\ UNCHANGED <<committed, failureCount, delivered, stuckLogged>>

(* RecordFailure commits, whatever has become of the row since the claim.   *)
RecordFailure(w) ==
    /\ pc[w] = "recording"
    /\ current[w] \notin Locked
    /\ failureCount' = [failureCount EXCEPT ![current[w]] = @ + 1]
    /\ lastError' = lastError \union {current[w]}
    /\ attemptAge' = [attemptAge EXCEPT ![current[w]] = 0]
    /\ GoOnWith(w, batch[w] \ {current[w]})
    /\ UNCHANGED <<committed, published, delivered, stuckLogged>>

(* Either statement fails: the error is logged, and the next row is taken.  *)
ResultLost(w) ==
    /\ pc[w] \in {"marking", "recording"}
    /\ GoOnWith(w, batch[w] \ {current[w]})
    /\ UNCHANGED <<rows, delivered, stuckLogged>>

-----------------------------------------------------------------------------
(* Processes and time *)

(* The process dies and forgets its batch. (In the middle of a claim it is  *)
(* ClaimFail or ClaimLost, then this.)                                      *)
Crash(w) ==
    /\ pc[w] \notin {"down", "claiming"}
    /\ pc' = [pc EXCEPT ![w] = "down"]
    /\ batch' = [batch EXCEPT ![w] = {}]
    /\ current' = [current EXCEPT ![w] = NoEvent]
    /\ seen' = [seen EXCEPT ![w] = [e \in Events |-> 0]]
    /\ claimAge' = [claimAge EXCEPT ![w] = Expired]
    /\ UNCHANGED <<rows, delivered, stuckLogged>>

Restart(w) ==
    /\ pc[w] = "down"
    /\ pc' = [pc EXCEPT ![w] = "idle"]
    /\ UNCHANGED <<rows, batch, current, seen, claimAge, delivered, stuckLogged>>

Tick ==
    /\ attemptAge' = [e \in Events |-> Older(attemptAge[e])]
    /\ claimAge' = [w \in Workers |-> Older(claimAge[w])]
    /\ UNCHANGED <<committed, published, failureCount, lastError>>
    /\ UNCHANGED <<pc, batch, current, seen, delivered, stuckLogged>>

Next ==
    \/ \E e \in Events : Enqueue(e)
    \/ \E w \in Workers :
        \/ ClaimSelect(w) \/ ClaimCommit(w) \/ ClaimFail(w) \/ ClaimLost(w)
        \/ PublishOk(w) \/ PublishError(w)
        \/ MarkPublished(w) \/ RecordFailure(w) \/ ResultLost(w)
        \/ Crash(w) \/ Restart(w)
    \/ Tick

Spec == Init /\ [][Next]_vars

(* The ticker calls RunOnce forever, the clock runs, a process that died is *)
(* started again. A crash or a failed statement is never forced, and does   *)
(* not strike every time: what is tried again and again succeeds once.      *)
(* Publishing alone is owed no success, only an answer.                     *)
Fairness ==
    /\ WF_vars(Tick)
    /\ \A w \in Workers :
        /\ SF_vars(ClaimSelect(w))
        /\ SF_vars(ClaimCommit(w))
        /\ SF_vars(PublishOk(w) \/ PublishError(w))
        /\ SF_vars(MarkPublished(w))
        /\ SF_vars(RecordFailure(w))
        /\ WF_vars(Restart(w))

FairSpec == Spec /\ Fairness

(* The same, and Pub/Sub does not fail forever either. *)
RecoveringSpec == FairSpec /\ \A w \in Workers : SF_vars(PublishOk(w))

-----------------------------------------------------------------------------
(* Properties *)

(* Every variable has its type; a worker holds rows exactly while it works  *)
(* on a batch, and one in hand exactly between publish and result.          *)
TypeOK ==
    /\ committed \subseteq Events
    /\ published \subseteq Events
    /\ delivered \subseteq Events
    /\ stuckLogged \subseteq Events
    /\ lastError \subseteq Events
    /\ failureCount \in [Events -> Nat]
    /\ attemptAge \in [Events -> Ages]
    /\ pc \in [Workers -> {"idle", "claiming", "publishing", "marking",
                           "recording", "down"}]
    /\ batch \in [Workers -> SUBSET Events]
    /\ current \in [Workers -> Events \union {NoEvent}]
    /\ seen \in [Workers -> [Events -> Nat]]
    /\ claimAge \in [Workers -> Ages]
    /\ \A w \in Workers :
        /\ pc[w] \in {"idle", "down"} <=> batch[w] = {}
        /\ IF pc[w] \in {"marking", "recording"}
           THEN current[w] \in batch[w]
           ELSE current[w] = NoEvent

(* A row is marked published only when its topic has the event, and no      *)
(* event leaves before its transaction is committed (relay.go processOne:   *)
(* publish, then mark).                                                     *)
PublishedIsDelivered == published \subseteq delivered /\ delivered \subseteq committed

Holds(w, e) == e \in batch[w]

(* Config.VisibilityTimeout is the time a claimed row stays hidden from the *)
(* other workers: two of them have the same row in hand only when one has   *)
(* held its claim for longer than that.                                     *)
ExclusiveLease ==
    \A v, w \in Workers : \A e \in Events :
        v # w /\ Holds(v, e) /\ Holds(w, e) =>
            claimAge[v] > VisibilityTimeout \/ claimAge[w] > VisibilityTimeout

Holders(e) == {w \in Workers : Holds(w, e)}

(* A row is attempted a bounded number of times: every worker that holds a  *)
(* row claimed it below the threshold, and adds at most one failure.        *)
RetryBudget ==
    \A e \in Events :
        failureCount[e] + Cardinality(Holders(e))
            < FailureThreshold + Cardinality(Workers)

Dead(e) == e \in committed \ published /\ failureCount[e] >= FailureThreshold

(* The ERROR log at the threshold is there to find dead letters (Config.    *)
(* FailureThreshold): a row that no claim will take again has had its log.  *)
DeadIsLogged == \A e \in Events : Dead(e) => e \in stuckLogged

(* Every committed event is settled, or is given up at the threshold.       *)
EventuallySettled ==
    \A e \in Events : e \in committed ~> (e \in published \/ Dead(e))

(* db/schema.sql: the outbox rules out by construction that a committed     *)
(* event is lost because publishing failed.                                 *)
NeverLost == \A e \in Events : e \in committed ~> e \in delivered

(* Why PublishedIsDelivered and ExclusiveLease hold: what makes the two      *)
(* inductive. A worker about to mark a row has seen Publish succeed; rows    *)
(* of a claim in progress are locked and nobody restamps them; from then on  *)
(* the row was stamped no earlier than its holder's claim, so a second claim *)
(* finds it only after the first has run out.                                *)
HeldIsCommitted == \A w \in Workers : batch[w] \subseteq committed

MarkedIsDelivered == \A w \in Workers : pc[w] = "marking" => current[w] \in delivered

LocksAreExclusive ==
    \A v, w \in Workers :
        v # w /\ pc[v] = "claiming" /\ pc[w] = "claiming" => batch[v] \cap batch[w] = {}

LockedIsDue ==
    \A w \in Workers : \A e \in batch[w] :
        pc[w] = "claiming" => attemptAge[e] > VisibilityTimeout

StampedSinceClaim ==
    \A w \in Workers : \A e \in batch[w] :
        pc[w] # "claiming" => attemptAge[e] <= claimAge[w]

LeaseInv ==
    /\ LocksAreExclusive
    /\ LockedIsDue
    /\ StampedSinceClaim
    /\ ExclusiveLease

DeliveryInv ==
    /\ HeldIsCommitted
    /\ MarkedIsDelivered
    /\ PublishedIsDelivered

(* The outbox delivers as its abstract specification says. *)
Delivery == INSTANCE EventDelivery
Delivers == Delivery!Spec
=============================================================================
