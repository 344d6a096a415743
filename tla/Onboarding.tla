----------------------------- MODULE Onboarding -----------------------------
(***************************************************************************)
(* The onboarding of one player: the four endpoints of                     *)
(* internal/handler/rest/onboarding_handler.go, the service behind them    *)
(* (internal/usecase/onboarding/service.go), its two transactions          *)
(* (internal/repository/postgres/onboarding_repo.go) and the account       *)
(* service, which the code asks by HTTP and tells by events. Everything in *)
(* the code is keyed by player_id, so one player stands for all.           *)
(*                                                                         *)
(* The player's requests run side by side: a client may press twice, retry *)
(* after a lost answer, or go on before the events of the last step have   *)
(* arrived. The outbox in between is EventDelivery's: an event is enqueued *)
(* by the commit and reaches account later, in any order, perhaps again.   *)
(***************************************************************************)
EXTENDS Naturals, FiniteSets

CONSTANTS
    Requests,           \* requests that can be in progress at a time
    Names, ValidNames,  \* names a client sends; those account accepts
    Factions, SelectableFactions,  \* the same of faction ids
    Langs, ScriptLangs, \* languages asked for; those with a script in the store
    None,               \* no faction, no argument, no outcome
    MaxCalls            \* bound: requests made in all

ASSUME OnboardingAssumption ==
    /\ ValidNames \subseteq Names
    /\ SelectableFactions \subseteq Factions
    /\ ScriptLangs \subseteq Langs
    /\ None \notin Names \union Factions \union Langs \union Requests
    /\ MaxCalls \in Nat

VARIABLES
    (* the scenario schema *)
    onboarded,    \* the player has a row in player_onboarding
    inserting,    \* the request whose transaction holds that row's key, or None
    outbox,       \* events of committed outbox rows
    (* account *)
    registered,   \* the player exists in account
    faction,      \* players.selected_faction
    delivered,    \* events account has been given
    (* the requests *)
    req,          \* what each request in progress is doing
    calls,        \* requests made so far; numbers them and their events
    (* what the client has been told *)
    acked,        \* events of requests answered 204
    chosen,       \* faction of the latest selection answered 204
    completions   \* requests for completion answered 200

db == <<onboarded, inserting, outbox>>
account == <<registered, faction, delivered>>
client == <<acked, chosen, completions>>
vars == <<db, account, req, calls, client>>

Ops == {"script", "name", "faction", "complete"}
Steps == {"idle", "read_script", "validate", "publish", "read_player", "insert",
          "commit", "done"}
Outcomes == {"ok", "invalid_name", "invalid_faction", "player_not_found",
             "faction_not_selected", "already_onboarded", "script_not_found",
             "internal"}
Kinds == {"name_set", "faction_set", "player_onboarded"}
Events == [id : 1 .. MaxCalls, kind : Kinds, value : Names \union Factions]

(* The faction the client was last told it chose is noted in a request when *)
(* it is sent.                                                              *)
Idle == [op |-> "script", arg |-> None, id |-> 0, step |-> "idle", outcome |-> None,
         faction |-> None, chosen |-> None]

Delivery == INSTANCE EventDelivery WITH committed <- outbox, published <- {}

Init ==
    /\ onboarded = FALSE
    /\ inserting = None
    /\ outbox = {}
    /\ registered \in BOOLEAN
    /\ faction = None
    /\ delivered = {}
    /\ req = [r \in Requests |-> Idle]
    /\ calls = 0
    /\ acked = {}
    /\ chosen = None
    /\ completions = {}

-----------------------------------------------------------------------------
(* Requests *)

Goto(r, step) == req' = [req EXCEPT ![r].step = step]
Answer(r, outcome) == req' = [req EXCEPT ![r].step = "done", ![r].outcome = outcome]

(* A request arrives. SelectFaction checks its argument before anything     *)
(* else; the others begin with a call to somebody.                          *)
FirstStep(op, arg) ==
    CASE op = "script" -> "read_script"
      [] op = "name" -> "validate"
      [] op = "faction" -> IF arg \in SelectableFactions THEN "publish" ELSE "done"
      [] op = "complete" -> "read_player"

Arguments(op) ==
    CASE op = "script" -> Langs
      [] op = "name" -> Names
      [] op = "faction" -> Factions
      [] op = "complete" -> {None}

Arrive(r) ==
    /\ req[r].step = "idle"
    /\ calls < MaxCalls
    /\ calls' = calls + 1
    /\ \E op \in Ops : \E arg \in Arguments(op) :
        req' = [req EXCEPT ![r] =
            [Idle EXCEPT !.op = op, !.arg = arg, !.id = calls + 1,
                         !.step = FirstStep(op, arg),
                         !.outcome = IF FirstStep(op, arg) = "done"
                                     THEN "invalid_faction" ELSE None,
                         !.chosen = chosen]]
    /\ UNCHANGED <<db, account, client>>

(* service.go GetScript: one read of the script store. *)
ReadScript(r) ==
    /\ req[r].step = "read_script"
    /\ \/ Answer(r, IF req[r].arg \in ScriptLangs THEN "ok" ELSE "script_not_found")
       \/ Answer(r, "internal")
    /\ UNCHANGED <<db, account, calls, client>>

(* UpdateName: account says what it thinks of the name. *)
ValidateName(r) ==
    /\ req[r].step = "validate"
    /\ \/ /\ registered /\ req[r].arg \in ValidNames
          /\ Goto(r, "publish")
       \/ /\ registered /\ req[r].arg \notin ValidNames
          /\ Answer(r, "invalid_name")
       \/ /\ ~registered
          /\ Answer(r, "player_not_found")
       \/ Answer(r, "internal")
    /\ UNCHANGED <<db, account, calls, client>>

EventOf(q) ==
    [id |-> q.id,
     kind |-> CASE q.op = "name" -> "name_set"
                [] q.op = "faction" -> "faction_set"
                [] q.op = "complete" -> "player_onboarded",
     value |-> IF q.op = "complete" THEN q.faction ELSE q.arg]

(* Mutant of PublishEvents: the error of the commit is dropped. *)
PublishEventsUnchecked(r) ==
    /\ req[r].step = "publish"
    /\ Delivery!Enqueue(EventOf(req[r])) \/ UNCHANGED <<outbox, delivered>>
    /\ Answer(r, "ok")
    /\ UNCHANGED <<onboarded, inserting, registered, faction, calls, client>>

(* UpdateName and SelectFaction end with PublishEvents, a transaction with  *)
(* one outbox row. It commits, and the client gets its 204; or fails; or    *)
(* commits while the service hears of an error.                             *)
PublishEvents(r) ==
    /\ req[r].step = "publish"
    /\ \/ Delivery!Enqueue(EventOf(req[r])) /\ Answer(r, "ok")
       \/ Delivery!Enqueue(EventOf(req[r])) /\ Answer(r, "internal")
       \/ UNCHANGED <<outbox, delivered>> /\ Answer(r, "internal")
    /\ UNCHANGED <<onboarded, inserting, registered, faction, calls, client>>

(* Mutant of GetOnboardingPlayer: a player without a faction is not refused. *)
GetOnboardingPlayerUnchecked(r) ==
    /\ req[r].step = "read_player"
    /\ req' = [req EXCEPT ![r].step = "insert", ![r].faction = faction]
    /\ UNCHANGED <<db, account, calls, client>>

(* Complete: what account knows of the player by now. *)
GetOnboardingPlayer(r) ==
    /\ req[r].step = "read_player"
    /\ \/ /\ ~registered
          /\ Answer(r, "player_not_found")
       \/ /\ registered /\ faction = None
          /\ Answer(r, "faction_not_selected")
       \/ /\ registered /\ faction # None
          /\ req' = [req EXCEPT ![r].step = "insert", ![r].faction = faction]
       \/ Answer(r, "internal")
    /\ UNCHANGED <<db, account, calls, client>>

(* Mutant of InsertOnboarding: ON CONFLICT DO NOTHING. *)
InsertOnboardingIdempotent(r) ==
    /\ req[r].step = "insert"
    /\ inserting = None
    /\ inserting' = r /\ Goto(r, "commit")
    /\ UNCHANGED <<onboarded, outbox, account, calls, client>>

(* MarkComplete inserts the player's row. While another transaction has     *)
(* inserted it and not ended, PostgreSQL makes the second one wait.         *)
InsertOnboarding(r) ==
    /\ req[r].step = "insert"
    /\ inserting = None
    /\ \/ ~onboarded /\ inserting' = r /\ Goto(r, "commit")
       \/ onboarded /\ inserting' = None /\ Answer(r, "already_onboarded")
       \/ inserting' = None /\ Answer(r, "internal")
    /\ UNCHANGED <<onboarded, outbox, account, calls, client>>

(* Mutant of CommitOnboarding: the event has a transaction of its own. *)
CommitOnboardingDualWrite(r) ==
    /\ req[r].step = "commit"
    /\ inserting' = None
    /\ onboarded' = TRUE
    /\ Delivery!Enqueue(EventOf(req[r])) \/ UNCHANGED <<outbox, delivered>>
    /\ Answer(r, "ok")
    /\ UNCHANGED <<registered, faction, calls, client>>

(* Mutant of CommitOnboarding: a failed transaction is not rolled back. *)
CommitOnboardingLeaks(r) ==
    /\ req[r].step = "commit"
    /\ \/ /\ inserting' = None
          /\ onboarded' = TRUE
          /\ Delivery!Enqueue(EventOf(req[r]))
          /\ Answer(r, "ok")
       \/ /\ UNCHANGED <<inserting, onboarded, outbox, delivered>>
          /\ Answer(r, "internal")
    /\ UNCHANGED <<registered, faction, calls, client>>

(* The outbox row goes into the same transaction, and either both rows are  *)
(* committed or neither is (writeOutboxEvent or Commit failed, rolled       *)
(* back); the answer to a commit may be lost.                               *)
CommitOnboarding(r) ==
    /\ req[r].step = "commit"
    /\ inserting' = None
    /\ \/ /\ onboarded' = TRUE
          /\ Delivery!Enqueue(EventOf(req[r]))
          /\ Answer(r, "ok") \/ Answer(r, "internal")
       \/ /\ UNCHANGED <<onboarded, outbox, delivered>>
          /\ Answer(r, "internal")
    /\ UNCHANGED <<registered, faction, calls, client>>

(* The client reads the answer. *)
Receive(r) ==
    /\ req[r].step = "done"
    /\ req' = [req EXCEPT ![r] = Idle]
    /\ LET q == req[r] IN
        /\ acked' = IF q.outcome = "ok" /\ q.op \in {"name", "faction"}
                    THEN acked \union {EventOf(q)} ELSE acked
        /\ chosen' = IF q.outcome = "ok" /\ q.op = "faction" THEN q.arg ELSE chosen
        /\ completions' = IF q.outcome = "ok" /\ q.op = "complete"
                          THEN completions \union {q.id} ELSE completions
    /\ UNCHANGED <<db, account, calls>>

-----------------------------------------------------------------------------
(* The rest of the world *)

(* The server dies: every request in progress is gone without an answer,    *)
(* and an open transaction is rolled back.                                  *)
Crash ==
    /\ \E r \in Requests : req[r].step # "idle"
    /\ req' = [r \in Requests |-> Idle]
    /\ inserting' = None
    /\ UNCHANGED <<onboarded, outbox, account, calls, client>>

(* Account registers the player, at some time. *)
Register ==
    /\ ~registered
    /\ registered' = TRUE
    /\ UNCHANGED <<db, faction, delivered, req, calls, client>>

(* The outbox hands account an event. One that account has had before is    *)
(* ignored (asyncapi.yaml: subscribers are idempotent by event id).         *)
Consume(e) ==
    /\ e \notin delivered
    /\ Delivery!Deliver(e)
    /\ faction' = IF e.kind = "faction_set" THEN e.value ELSE faction
    /\ UNCHANGED <<onboarded, inserting, registered, req, calls, client>>

Next ==
    \/ \E r \in Requests :
        \/ Arrive(r)
        \/ ReadScript(r)
        \/ ValidateName(r) \/ PublishEvents(r)
        \/ GetOnboardingPlayer(r) \/ InsertOnboarding(r) \/ CommitOnboarding(r)
        \/ Receive(r)
    \/ Crash
    \/ Register
    \/ \E e \in outbox : Consume(e)

Spec == Init /\ [][Next]_vars

(* A request in progress is worked on, and every call it makes returns.     *)
Fairness ==
    \A r \in Requests :
        WF_vars(\/ ReadScript(r) \/ ValidateName(r) \/ PublishEvents(r)
                \/ GetOnboardingPlayer(r) \/ InsertOnboarding(r)
                \/ CommitOnboarding(r) \/ Receive(r))

FairSpec == Spec /\ Fairness

-----------------------------------------------------------------------------
(* Answers *)

Api == INSTANCE ApiScenario

Handler(op) ==
    CASE op = "script" -> "getOnboardingScript"
      [] op = "name" -> "updateOnboardingName"
      [] op = "faction" -> "selectOnboardingFaction"
      [] op = "complete" -> "completeOnboarding"

Status(q) == Api!Status(Handler(q.op), q.outcome)

Answered(op, status) ==
    {r \in Requests : req[r].step = "done" /\ req[r].op = op /\ Status(req[r]) = status}

(* Properties *)

(* Every variable has its type, and the key of the player's row is held by  *)
(* exactly the request that is about to commit it.                          *)
TypeOK ==
    /\ onboarded \in BOOLEAN
    /\ inserting \in Requests \union {None}
    /\ outbox \subseteq Events
    /\ registered \in BOOLEAN
    /\ faction \in SelectableFactions \union {None}
    /\ delivered \subseteq outbox
    /\ req \in [Requests ->
          [op : Ops, arg : Names \union Factions \union Langs \union {None},
           id : 0 .. MaxCalls, step : Steps, outcome : Outcomes \union {None},
           faction : SelectableFactions \union {None},
           chosen : SelectableFactions \union {None}]]
    /\ calls \in 0 .. MaxCalls
    /\ acked \subseteq Events
    /\ chosen \in SelectableFactions \union {None}
    /\ completions \subseteq 1 .. MaxCalls
    /\ \A r \in Requests : req[r].step = "commit" <=> inserting = r

Announcements == {e \in outbox : e.kind = "player_onboarded"}

(* The row and the event are one (schema.sql, asyncapi.yaml: player-        *)
(* onboarded is issued once per player): the player is onboarded exactly    *)
(* when one player_onboarded event is in the outbox, and never a second.    *)
OnboardedIsAnnouncedOnce ==
    IF onboarded THEN Cardinality(Announcements) = 1 ELSE Announcements = {}

(* However often the player presses and retries, one request is answered    *)
(* with 200.                                                                *)
OneCompletion ==
    Cardinality(completions
                \union {req[r].id : r \in Answered("complete", 200)}) <= 1

(* What was acknowledged with 204 survives everything.                      *)
AckedIsDurable == acked \subseteq outbox

(* What the handlers make of an outcome (onboarding_handler.go 113-128) is  *)
(* true of the outbox: a request that is refused has put no event there,    *)
(* one that is answered with success has put its own, and only a 500 may    *)
(* stand for either. Rest takes the service to be so.                       *)
AnswersAreTrue ==
    \A r \in Requests :
        LET q == req[r] IN
        q.step = "done" /\ q.op # "script" =>
            /\ q.outcome \in Api!Outcomes(Handler(q.op))
            /\ (EventOf(q) \in outbox) \in Api!Done(Handler(q.op), q.outcome)

(* The faction that is announced is one the player did select, and account  *)
(* knew of it.                                                              *)
AnnouncedWasSelected ==
    \A a \in Announcements :
        \E s \in delivered : s.kind = "faction_set" /\ s.value = a.value

(* Every request comes to an answer, or dies with its server: no request    *)
(* waits forever for another one's transaction.                             *)
EveryRequestAnswered ==
    \A r \in Requests : [](req[r].step # "idle" => <>(req[r].step = "idle"))

(* errors.go and openapi.yaml: "faction not selected" is a violation of the *)
(* flow, a client that skipped the faction step.                            *)
ConflictMeansStepSkipped ==
    \A r \in Answered("complete", 409) :
        req[r].outcome = "faction_not_selected" => req[r].chosen = None

(* openapi.yaml, OnboardingCompleteResponse: the initial faction has been   *)
(* settled by the faction step before completion.                           *)
AnnouncedIsChosen ==
    \A r \in Answered("complete", 200) :
        req[r].chosen # None => req[r].faction = req[r].chosen
=============================================================================
