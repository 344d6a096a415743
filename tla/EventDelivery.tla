---------------------------- MODULE EventDelivery ----------------------------
(***************************************************************************)
(* What the transactional outbox promises to the service that writes into  *)
(* it (db/schema.sql, comment of scenario.outbox_events): an event exists  *)
(* once its transaction is committed; it reaches its Pub/Sub topic at      *)
(* least once, never before the commit; and its row is settled             *)
(* (published_at set) only after the topic has it. Nothing is ever taken   *)
(* back. How rows are claimed, retried and raced for is Outbox.tla's       *)
(* business, which implements this specification.                          *)
(***************************************************************************)
CONSTANT Events

VARIABLES
    committed,   \* events whose outbox row is committed
    delivered,   \* events their topic holds, once or more often
    published    \* events whose row says published_at IS NOT NULL

vars == <<committed, delivered, published>>

Init == committed = {} /\ delivered = {} /\ published = {}

(* The transaction that inserts the row of e commits. *)
Enqueue(e) ==
    /\ e \notin committed
    /\ committed' = committed \union {e}
    /\ UNCHANGED <<delivered, published>>

(* The topic takes e; a further copy of e leaves delivered as it is. *)
Deliver(e) ==
    /\ e \in committed
    /\ delivered' = delivered \union {e}
    /\ UNCHANGED <<committed, published>>

(* The row of e is marked. *)
Settle(e) ==
    /\ e \in delivered
    /\ published' = published \union {e}
    /\ UNCHANGED <<committed, delivered>>

Next == \E e \in Events : Enqueue(e) \/ Deliver(e) \/ Settle(e)

Spec == Init /\ [][Next]_vars
=============================================================================
