------------------------------- MODULE Startup -------------------------------
(***************************************************************************)
(* A server process from its environment on: config.FromEnv reads and      *)
(* checks the variables, and run hands the values to constructors, some of *)
(* which check them again, and to libraries that accept or refuse the      *)
(* rest. This composes with Lifecycle, which has the clients these         *)
(* constructors open and all that follows: the environment decides which   *)
(* clients there are, whether the server can listen, and whether a claim   *)
(* of the ticker can succeed.                                              *)
(*                                                                         *)
(* The value of a variable is its text, with the number where it is one;   *)
(* durations are in microseconds.                                          *)
(***************************************************************************)
EXTENDS Lifecycle, Integers

CONSTANTS
    Environments,   \* the environments a process is started with
    MaxInt4         \* stands for 2^31 - 1, the largest PostgreSQL INT

VARIABLES
    env,            \* the variables
    built,          \* the steps of run that have succeeded
    error           \* the step that failed

startup == <<env, built, error>>
allVars == <<vars, startup>>

Text(t) == [text |-> t, n |-> 0]
Number(k) == [text |-> "number", n |-> k]
Empty == Text("")

Variables ==
    { "PORT", "ENV", "DATABASE_CONN", "STORY_BUCKET", "GOOGLE_CLOUD_PROJECT_ID",
      "ONBOARDING_NAME_SET_TOPIC", "ONBOARDING_FACTION_SET_TOPIC",
      "PLAYER_ONBOARDED_TOPIC", "ACCOUNT_BASE_URL", "INTERNAL_AUTH_PUBLIC_KEY",
      "DATABASE_IAM_AUTH_ENABLED", "CLOUDSQL_CONNECTION_NAME",
      "OUTBOX_POLL_INTERVAL", "OUTBOX_BATCH_SIZE", "OUTBOX_FAILURE_THRESHOLD",
      "OUTBOX_VISIBILITY_TIMEOUT" }

ASSUME EnvironmentsAssumption ==
    Environments \subseteq [Variables -> [text : STRING, n : Int]]

-----------------------------------------------------------------------------
(* FromEnv *)

IsNumber(v) == v.text = "number"

(* Mutant of Positive: zero passes. *)
NotNegative(v) == IsNumber(v) /\ v.n >= 0

Positive(v) == IsNumber(v) /\ v.n > 0

(* The claim counts in milliseconds. *)
LongEnough(v) == IsNumber(v) /\ v.n >= 1000

IsLocalStory(e) == e["STORY_BUCKET"].text \in {"local:", "local:path"}
IAM(e) == e["DATABASE_IAM_AUTH_ENABLED"] = Text("true")

(* Whether FromEnv goes on after it has read a variable. In which order it  *)
(* reads them shows only in the text of its error.                          *)
Accepts(e, name) ==
    LET v == e[name] IN
    CASE name = "PORT" -> IsNumber(v)
      [] name = "STORY_BUCKET" -> v # Empty /\ v # Text("local:")
      [] name = "DATABASE_IAM_AUTH_ENABLED" -> v \in {Text("true"), Text("false")}
      [] name = "CLOUDSQL_CONNECTION_NAME" -> IAM(e) => v # Empty
      [] name \in {"OUTBOX_POLL_INTERVAL", "OUTBOX_BATCH_SIZE",
                   "OUTBOX_FAILURE_THRESHOLD"} -> Positive(v)
      [] name = "OUTBOX_VISIBILITY_TIMEOUT" -> LongEnough(v)
      [] OTHER -> v # Empty

FromEnvFails == \E name \in Variables : ~Accepts(env, name)

-----------------------------------------------------------------------------
(* run *)

(* The clients an environment asks for, in the order of Lifecycle. *)
Clients(e) ==
    (IF IAM(e) THEN <<"dialer">> ELSE <<>>)
        \o <<"pool", "firestore", "publisher">>
        \o (IF IsLocalStory(e) THEN <<>> ELSE <<"gcs">>)

Steps == <<"config">> \o wanted \o <<"account", "relay", "ticker", "public key", "serve">>
Here == Steps[Len(built) + 1]

PublisherTakes ==
    \A name \in {"GOOGLE_CLOUD_PROJECT_ID", "ONBOARDING_NAME_SET_TOPIC",
                 "ONBOARDING_FACTION_SET_TOPIC", "PLAYER_ONBOARDED_TOPIC"} :
        env[name] # Empty

RelayTakes ==
    \A name \in {"OUTBOX_BATCH_SIZE", "OUTBOX_FAILURE_THRESHOLD",
                 "OUTBOX_VISIBILITY_TIMEOUT"} : env[name].n > 0

TickerTakes == env["OUTBOX_POLL_INTERVAL"].n > 0

(* Whether a step takes the values it is given. With IAM authentication the *)
(* connection string is parsed before the dialer is made.                   *)
Takes(step) ==
    CASE step = "config" -> ~FromEnvFails
      [] step \in {"dialer", "pool"} -> env["DATABASE_CONN"] # Text("garbage")
      [] step = "publisher" -> PublisherTakes
      [] step = "relay" -> RelayTakes
      [] step = "ticker" -> TickerTakes
      [] step = "public key" -> env["INTERNAL_AUTH_PUBLIC_KEY"] # Text("garbage")
      [] OTHER -> TRUE

Construct ==
    /\ main = "opening"
    /\ Takes(Here)
    /\ \/ Here \in Resources /\ Open
       \/ Here = "serve" /\ Serve
       \/ Here \notin Resources \cup {"serve"} /\ UNCHANGED vars
    /\ built' = Append(built, Here)
    /\ UNCHANGED <<env, error>>

(* The values are refused, or a client cannot be made, for instance for     *)
(* want of credentials. NewAccountClient panics where the others return an  *)
(* error; the deferred closes run all the same, and the process fails.      *)
ConstructFails ==
    /\ main = "opening"
    /\ Takes(Here) => Here \in Resources \cup {"account"}
    /\ StartFails
    /\ error' = Here
    /\ UNCHANGED <<env, built>>

(* What an environment can still spoil once the process serves. A port out  *)
(* of range shows when the server listens; a threshold that no INT can be   *)
(* compared with makes every claim fail, which is logged.                   *)
PortExists == env["PORT"].n \in 0..65535
ClaimsCanSucceed == env["OUTBOX_FAILURE_THRESHOLD"].n <= MaxInt4

(* The interval of a claim, in milliseconds. *)
Window == env["OUTBOX_VISIBILITY_TIMEOUT"].n \div 1000

(* A signal is waited for once the configuration is read; before, it just   *)
(* ends the process.                                                        *)
Runs ==
    /\ \/ Signal /\ built # <<>>
       \/ Wait \/ ShutPool \/ Close \/ Exit
       \/ Listen /\ PortExists
       \/ ServerFails \/ ServerReturns
       \/ Shutdown \/ ShutdownDone \/ ShutdownTimesOut
       \/ Tick /\ ClaimsCanSucceed
       \/ PublishEnds \/ RecordResult \/ TickerReturns
       \/ \E r \in Requests : Request(r)
    /\ UNCHANGED startup

StartupInit ==
    /\ Init
    /\ env \in Environments
    /\ wanted = Clients(env)
    /\ built = <<>>
    /\ error = "none"

StartupNext == Construct \/ ConstructFails \/ Runs

(* A step of the start succeeds or fails; none hangs.                       *)
StartupSpec ==
    /\ StartupInit /\ [][StartupNext]_allVars
    /\ Fairness
    /\ WF_allVars(Construct \/ ConstructFails)

-----------------------------------------------------------------------------
(* config.go 121-171, relay.go 41-49, outbox_ticker.go 27-29, publisher.go  *)
(* 25-30, outbox_repo.go 40-49: FromEnv and the code behind it agree on     *)
(* lower bounds. No constructor that checks a value again, the relay's, the *)
(* ticker's or the publisher's, refuses what FromEnv let through; a dialer  *)
(* is opened only with a name to dial; and a claim hides its rows for at    *)
(* least a millisecond, or another process would take them while they are   *)
(* published. Upper bounds are nobody's: a port over 65535 and a threshold  *)
(* over an INT are let through (PortExists, ClaimsCanSucceed).              *)
AcceptedIsUsable ==
    /\ error \notin {"relay", "ticker"}
    /\ error = "publisher" => PublisherTakes
    /\ "dialer" \in Elements(opened) =>
          env["CLOUDSQL_CONNECTION_NAME"] # Empty
    /\ relay # "idle" => Window >= 1
=============================================================================
