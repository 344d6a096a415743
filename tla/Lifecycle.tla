----------------------------- MODULE Lifecycle ------------------------------
(***************************************************************************)
(* The life of one server process (cmd/server/main.go): run opens its      *)
(* clients one after the other, runHTTP starts three goroutines in an      *)
(* errgroup (HTTP server, outbox ticker, shutdown), and when all three     *)
(* have returned the deferred closes run in reverse order.                 *)
(*                                                                         *)
(* The context of the group is cancelled by a signal or by the first       *)
(* goroutine that fails; the relay's calls carry it. Requests do not: only *)
(* Shutdown waits for them, for ten seconds.                               *)
(***************************************************************************)
EXTENDS Naturals, Sequences, FiniteSets

CONSTANTS Requests      \* HTTP requests that may arrive

VARIABLES
    (* run *)
    main,           \* what run is doing
    wanted,         \* the resources this configuration needs, in order
    opened,         \* those that are open, the latest one last
    poolShut,       \* pool.Close has been called
    err,            \* run will return an error
    signalled,      \* SIGINT or SIGTERM has come
    (* runHTTP *)
    group,          \* goroutines that have not returned
    failed,         \* one of them has returned an error
    server,         \* the HTTP server
    draining,       \* Shutdown has been called
    timedOut,       \* its ten seconds are over
    (* the work in progress *)
    relay,          \* what RunOnce is doing
    cause,          \* how its publish ended
    charged,        \* history: causes of the recorded failures
    request         \* what each request is doing

runVars == <<main, wanted, opened, poolShut, err>>
httpVars == <<group, failed, server, draining, timedOut>>
relayVars == <<relay, cause, charged>>
vars == <<runVars, signalled, httpVars, relayVars, request>>

Goroutines == {"server", "ticker", "shutdown"}
Elements(s) == {s[i] : i \in DOMAIN s}
Cancelled == signalled \/ failed
InFlight == {r \in Requests : request[r] \in {"handling", "querying"}}

(* newDatabasePool opens a dialer with IAM authentication only, and         *)
(* buildScriptStore a GCS client unless the scripts are local.              *)
Configurations ==
    { <<"pool", "firestore", "publisher">>,
      <<"pool", "firestore", "publisher", "gcs">>,
      <<"dialer", "pool", "firestore", "publisher">>,
      <<"dialer", "pool", "firestore", "publisher", "gcs">> }

Resources == {"dialer", "pool", "firestore", "publisher", "gcs"}

-----------------------------------------------------------------------------
Init ==
    /\ main = "opening"
    /\ wanted \in Configurations
    /\ opened = <<>>
    /\ poolShut = FALSE
    /\ err = FALSE
    /\ signalled = FALSE
    /\ group = {}
    /\ failed = FALSE
    /\ server = "new"
    /\ draining = FALSE
    /\ timedOut = FALSE
    /\ relay = "idle"
    /\ cause = "none"
    /\ charged = {}
    /\ request = [r \in Requests |-> "absent"]

Signal ==
    /\ ~signalled
    /\ main # "exited"
    /\ signalled' = TRUE
    /\ UNCHANGED <<runVars, httpVars, relayVars, request>>

(* ------------------------------- run ----------------------------------- *)
Open ==
    /\ main = "opening"
    /\ Len(opened) < Len(wanted)
    /\ opened' = Append(opened, wanted[Len(opened) + 1])
    /\ UNCHANGED <<main, wanted, poolShut, err, signalled, httpVars,
                   relayVars, request>>

(* A client cannot be opened, or a later constructor refuses: run returns.  *)
StartFails ==
    /\ main = "opening"
    /\ main' = "closing"
    /\ err' = TRUE
    /\ UNCHANGED <<wanted, opened, poolShut, signalled, httpVars, relayVars,
                   request>>

Serve ==
    /\ main = "opening"
    /\ Len(opened) = Len(wanted)
    /\ main' = "serving"
    /\ group' = Goroutines
    /\ UNCHANGED <<wanted, opened, poolShut, err, signalled, failed, server,
                   draining, timedOut, relayVars, request>>

(* Mutant of Wait: run goes on when the first goroutine has returned. *)
WaitForFirst ==
    /\ main = "serving"
    /\ group # Goroutines
    /\ main' = "closing"
    /\ err' = failed
    /\ UNCHANGED <<wanted, opened, poolShut, signalled, httpVars, relayVars,
                   request>>

(* g.Wait returns the first error. *)
Wait ==
    /\ main = "serving"
    /\ group = {}
    /\ main' = "closing"
    /\ err' = failed
    /\ UNCHANGED <<wanted, opened, poolShut, signalled, httpVars, relayVars,
                   request>>

Last == opened[Len(opened)]

(* pool.Close refuses new work at once and waits for every connection.      *)
ShutPool ==
    /\ main = "closing"
    /\ opened # <<>> /\ Last = "pool"
    /\ ~poolShut
    /\ poolShut' = TRUE
    /\ UNCHANGED <<main, wanted, opened, err, signalled, httpVars, relayVars,
                   request>>

(* Mutant of Close: the resources are closed in the order of their opening. *)
CloseFirst ==
    /\ main = "closing"
    /\ opened # <<>>
    /\ opened' = Tail(opened)
    /\ UNCHANGED <<main, wanted, poolShut, err, signalled, httpVars,
                   relayVars, request>>

Close ==
    /\ main = "closing"
    /\ opened # <<>>
    /\ Last = "pool" =>
        poolShut /\ \A r \in Requests : request[r] # "querying"
    /\ opened' = SubSeq(opened, 1, Len(opened) - 1)
    /\ UNCHANGED <<main, wanted, poolShut, err, signalled, httpVars,
                   relayVars, request>>

(* The end of the process cuts off the requests that are left.              *)
Exit ==
    /\ main = "closing"
    /\ opened = <<>>
    /\ main' = "exited"
    /\ request' = [r \in Requests |->
                    IF r \in InFlight THEN "cut" ELSE request[r]]
    /\ UNCHANGED <<wanted, opened, poolShut, err, signalled, httpVars,
                   relayVars>>

(* ------------------------------ runHTTP -------------------------------- *)
Returns(g, error) ==
    /\ group' = group \ {g}
    /\ failed' = (failed \/ error)

Listen ==
    /\ "server" \in group
    /\ server = "new"
    /\ server' = "listening"
    /\ UNCHANGED <<runVars, signalled, group, failed, draining, timedOut,
                   relayVars, request>>

(* The port is taken, or Accept fails.                                      *)
ServerFails ==
    /\ "server" \in group
    /\ server \in {"new", "listening"}
    /\ server' = "closed"
    /\ Returns("server", TRUE)
    /\ UNCHANGED <<runVars, signalled, draining, timedOut, relayVars, request>>

(* ListenAndServe returns ErrServerClosed once Shutdown has been called,    *)
(* even if it had not yet begun.                                            *)
ServerReturns ==
    /\ "server" \in group
    /\ server = "closed"
    /\ Returns("server", FALSE)
    /\ UNCHANGED <<runVars, signalled, server, draining, timedOut, relayVars,
                   request>>

Shutdown ==
    /\ "shutdown" \in group
    /\ ~draining
    /\ Cancelled
    /\ draining' = TRUE
    /\ server' = "closed"
    /\ UNCHANGED <<runVars, signalled, group, failed, timedOut, relayVars,
                   request>>

(* Mutant of ShutdownDone: the server is closed under its requests. *)
ShutdownAtOnce ==
    /\ "shutdown" \in group
    /\ draining
    /\ Returns("shutdown", FALSE)
    /\ UNCHANGED <<runVars, signalled, server, draining, timedOut, relayVars,
                   request>>

ShutdownDone ==
    /\ "shutdown" \in group
    /\ draining
    /\ InFlight = {}
    /\ Returns("shutdown", FALSE)
    /\ UNCHANGED <<runVars, signalled, server, draining, timedOut, relayVars,
                   request>>

ShutdownTimesOut ==
    /\ "shutdown" \in group
    /\ draining
    /\ timedOut' = TRUE
    /\ Returns("shutdown", TRUE)
    /\ UNCHANGED <<runVars, signalled, server, draining, relayVars, request>>

(* ------------------------------ the ticker ----------------------------- *)
(* A tick whose claim returns rows; with a cancelled context it fails.      *)
Tick ==
    /\ "ticker" \in group
    /\ relay = "idle"
    /\ ~Cancelled
    /\ relay' = "publishing"
    /\ UNCHANGED <<runVars, signalled, httpVars, cause, charged, request>>

PublishEnds ==
    /\ relay = "publishing"
    /\ cause' \in {"delivered", "refused"} \cup
                  (IF Cancelled THEN {"cancelled"} ELSE {})
    /\ relay' = "recording"
    /\ UNCHANGED <<runVars, signalled, httpVars, charged, request>>

(* Mutant of Recorded: the result is recorded whatever became of the        *)
(* context of the group.                                                    *)
RecordedAnyway == cause

(* A statement is not begun with a cancelled context.                       *)
Recorded == IF Cancelled THEN "none" ELSE cause

(* MarkPublished or RecordFailure, which may fail, and the rest of the      *)
(* batch, if any.                                                           *)
RecordResult ==
    /\ relay = "recording"
    /\ \/ charged' = charged \cup ({Recorded} \cap {"refused", "cancelled"})
       \/ UNCHANGED charged
    /\ relay' \in {"publishing", "idle"}
    /\ cause' = "none"
    /\ UNCHANGED <<runVars, signalled, httpVars, request>>

(* Mutant of TickerReturns: Run is given the context of run. *)
TickerReturnsOnSignal ==
    /\ "ticker" \in group
    /\ relay = "idle"
    /\ signalled
    /\ Returns("ticker", FALSE)
    /\ UNCHANGED <<runVars, signalled, server, draining, timedOut, relayVars,
                   request>>

TickerReturns ==
    /\ "ticker" \in group
    /\ relay = "idle"
    /\ Cancelled
    /\ Returns("ticker", FALSE)
    /\ UNCHANGED <<runVars, signalled, server, draining, timedOut, relayVars,
                   request>>

(* ------------------------------ requests ------------------------------- *)
Becomes(r, state) == request' = [request EXCEPT ![r] = state]

Accept(r) ==
    /\ server = "listening"
    /\ request[r] = "absent"
    /\ Becomes(r, "handling")
    /\ UNCHANGED <<runVars, signalled, httpVars, relayVars>>

(* A statement or a transaction takes a connection, unless the pool is      *)
(* closed: then the handler answers 500.                                    *)
Query(r) ==
    /\ request[r] = "handling"
    /\ main # "exited"
    /\ Becomes(r, IF poolShut THEN "refused" ELSE "querying")
    /\ UNCHANGED <<runVars, signalled, httpVars, relayVars>>

QueryEnds(r) ==
    /\ request[r] = "querying"
    /\ main # "exited"
    /\ Becomes(r, "handling")
    /\ UNCHANGED <<runVars, signalled, httpVars, relayVars>>

Answer(r) ==
    /\ request[r] = "handling"
    /\ main # "exited"
    /\ Becomes(r, "answered")
    /\ UNCHANGED <<runVars, signalled, httpVars, relayVars>>

-----------------------------------------------------------------------------
Run == Open \/ StartFails \/ Serve \/ Wait \/ ShutPool \/ Close \/ Exit

RunHTTP ==
    \/ Listen \/ ServerFails \/ ServerReturns
    \/ Shutdown \/ ShutdownDone \/ ShutdownTimesOut

Ticker == Tick \/ PublishEnds \/ RecordResult \/ TickerReturns

Request(r) == Accept(r) \/ Query(r) \/ QueryEnds(r) \/ Answer(r)

Next ==
    \/ Signal
    \/ Run
    \/ RunHTTP
    \/ Ticker
    \/ \E r \in Requests : Request(r)

(* Goroutines run, timers fire, and calls return: a publish and a statement *)
(* because their context ends, the query of a request because the database  *)
(* answers it. The signal is not owed, nor a failure, nor an answer to a    *)
(* request. RunOnce ends: its batch is finite.                              *)
BatchEnds == RecordResult /\ relay' = "idle"

Fairness ==
    /\ WF_vars(Open \/ Serve \/ Wait \/ ShutPool \/ Close \/ Exit)
    /\ WF_vars(ServerReturns)
    /\ WF_vars(Shutdown)
    /\ WF_vars(ShutdownDone \/ ShutdownTimesOut)
    /\ WF_vars(PublishEnds)
    /\ SF_vars(BatchEnds)
    /\ WF_vars(TickerReturns)
    /\ \A r \in Requests : WF_vars(QueryEnds(r))

Spec == Init /\ [][Next]_vars /\ Fairness

-----------------------------------------------------------------------------
(* Shapes of all variables; the goroutines live only while run waits for    *)
(* them, work is under way only while its goroutine lives, and what is open *)
(* is an initial part of what is wanted.                                    *)
TypeOK ==
    /\ main \in {"opening", "serving", "closing", "exited"}
    /\ wanted \in Configurations
    /\ opened \in Seq(Resources) /\ Len(opened) <= Len(wanted)
    /\ \A i \in DOMAIN opened : opened[i] = wanted[i]
    /\ poolShut \in BOOLEAN /\ err \in BOOLEAN /\ signalled \in BOOLEAN
    /\ group \subseteq Goroutines
    /\ group # {} => main = "serving"
    /\ failed \in BOOLEAN /\ draining \in BOOLEAN /\ timedOut \in BOOLEAN
    /\ server \in {"new", "listening", "closed"}
    /\ relay \in {"idle", "publishing", "recording"}
    /\ relay # "idle" => "ticker" \in group
    /\ cause \in {"none", "delivered", "refused", "cancelled"}
    /\ charged \subseteq {"refused", "cancelled"}
    /\ request \in [Requests -> {"absent", "handling", "querying",
                                 "answered", "refused", "cut"}]

(* main.go 90-123, 222-225: what is in use is open. The relay works only    *)
(* with everything open, so its last publish is flushed and recorded before *)
(* the closes; a query has its pool, and the pool its dialer, even when     *)
(* Shutdown gave up on the request.                                         *)
WhatIsUsedIsOpen ==
    /\ relay # "idle" => Elements(wanted) \subseteq Elements(opened)
    /\ \A r \in Requests : request[r] = "querying" =>
        {"dialer", "pool"} \cap Elements(wanted) \subseteq Elements(opened)

(* main.go 212-220: a request that was accepted is answered before the      *)
(* process ends and never meets a closed pool, whatever cancelled the       *)
(* group, except when Shutdown ran out of its ten seconds, and then the     *)
(* process reports an error. Without an error it ends only on a signal.     *)
NothingCutShort ==
    /\ \A r \in Requests : request[r] \in {"refused", "cut"} => timedOut
    /\ main = "exited" /\ ~err => signalled /\ ~timedOut

(* relay.go 72-92: a publish that fails because the process is stopping is  *)
(* not counted against its row: RecordFailure has the same context. So no   *)
(* number of restarts brings a row closer to the threshold.                 *)
StoppingCostsNoRetry == "cancelled" \notin charged

(* main.go 195-226, outbox_ticker.go 40-44: once a signal has come or a     *)
(* goroutine has failed, the process ends, although a batch may be under    *)
(* way and a request may never be answered.                                 *)
StopsWhenAsked == Cancelled ~> main = "exited"
=============================================================================
