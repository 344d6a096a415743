--------------------------- MODULE StartupProofs ----------------------------
(***************************************************************************)
(* A process that is started with any environment lives the life of        *)
(* Lifecycle, so all that is proved there holds of it; and FromEnv lets    *)
(* nothing through that a later check refuses.                             *)
(***************************************************************************)
EXTENDS Startup, LifecycleProofs

-----------------------------------------------------------------------------
(* Start and life *)

(* Every step of a start is a step of Lifecycle or leaves it alone.         *)
LEMMA StartupStep == [StartupNext]_allVars => [Next]_vars
<1> SUFFICES ASSUME StartupNext \/ UNCHANGED allVars
             PROVE  Next \/ UNCHANGED vars
    OBVIOUS
<1>1. CASE Construct
    BY <1>1 DEF Construct, Next, Run
<1>2. CASE ConstructFails
    BY <1>2 DEF ConstructFails, Next, Run
<1>3. CASE Runs
    <2>1. CASE \E r \in Requests : Request(r)
        BY <2>1 DEF Next
    <2> QED
        BY <1>3, <2>1 DEF Runs, Next, Run, RunHTTP, Ticker
<1>4. CASE UNCHANGED allVars
    BY <1>4 DEF allVars
<1> QED
    BY <1>1, <1>2, <1>3, <1>4 DEF StartupNext

(* Whatever the environment, the process behaves as Lifecycle says: its     *)
(* constructors and checks add no behaviour (main.go 79-168).               *)
THEOREM StartedIsAlive == StartupSpec => Spec
<1>1. StartupInit => Init
    BY DEF StartupInit
<1> QED
    BY <1>1, StartupStep, PTL DEF StartupSpec, Spec

(* So the safety of a process does not depend on how it was configured      *)
(* (main.go 79-226).                                                        *)
THEOREM StartedIsSafe ==
    StartupSpec => [](WhatIsUsedIsOpen /\ NothingCutShort /\ StoppingCostsNoRetry)
BY StartedIsAlive, UsedIsOpen, OnlyTimeoutCutsShort, StopsAreFree, PTL

-----------------------------------------------------------------------------
(* What is accepted is usable *)

Accepted == \A name \in Variables : Accepts(env, name)

(* Nothing is done with the configuration before it is accepted; the        *)
(* clients are those it names, and an error of relay, ticker or publisher   *)
(* is not one of their own checks.                                          *)
StartInv ==
    /\ env \in [Variables -> [text : STRING, n : Int]]
    /\ wanted = Clients(env)
    /\ built # <<>> \/ main = "serving" \/ opened # <<>> => Accepted
    /\ error \notin {"relay", "ticker"}
    /\ error = "publisher" => PublisherTakes

(* The variables the constructors check a second time.                      *)
LEMMA CheckedVariables ==
    {"CLOUDSQL_CONNECTION_NAME", "GOOGLE_CLOUD_PROJECT_ID",
     "ONBOARDING_NAME_SET_TOPIC", "ONBOARDING_FACTION_SET_TOPIC",
     "PLAYER_ONBOARDED_TOPIC", "OUTBOX_POLL_INTERVAL", "OUTBOX_BATCH_SIZE",
     "OUTBOX_FAILURE_THRESHOLD", "OUTBOX_VISIBILITY_TIMEOUT"} \subseteq Variables
BY DEF Variables

(* FromEnv's checks imply those of the constructors, and a window that the  *)
(* claim can express.                                                       *)
LEMMA AcceptedIsTaken ==
    ASSUME env \in [Variables -> [text : STRING, n : Int]], Accepted
    PROVE  PublisherTakes /\ RelayTakes /\ TickerTakes /\ Window >= 1
<1> USE CheckedVariables DEF Accepted
<1>1. PublisherTakes
    BY DEF PublisherTakes, Accepts
<1>2. RelayTakes
    BY DEF RelayTakes, Accepts, Positive, LongEnough
<1>3. TickerTakes
    BY DEF TickerTakes, Accepts, Positive
<1>4. env["OUTBOX_VISIBILITY_TIMEOUT"].n \in Int
      /\ env["OUTBOX_VISIBILITY_TIMEOUT"].n >= 1000
    BY DEF Accepts, LongEnough
<1>5. Window >= 1
    BY <1>4 DEF Window
<1> QED
    BY <1>1, <1>2, <1>3, <1>5

(* A dialer is wanted only with IAM authentication, and that needs a name.  *)
LEMMA DialerIsNamed ==
    ASSUME env \in [Variables -> [text : STRING, n : Int]], Accepted,
           "dialer" \in Elements(Clients(env))
    PROVE  env["CLOUDSQL_CONNECTION_NAME"] # Empty
<1>1. IAM(env)
    BY DEF Clients, Elements
<1> QED
    BY <1>1, CheckedVariables DEF Accepted, Accepts

(* The first thing run does is to read the configuration.                   *)
LEMMA FirstOfThree ==
    ASSUME NEW S, NEW a \in S, NEW s \in Seq(S), NEW t \in Seq(S)
    PROVE  (<<a>> \o s \o t)[1] = a
<1>1. <<a>> \in Seq(S) /\ Len(<<a>>) = 1 /\ <<a>>[1] = a
    OBVIOUS
<1>2. /\ <<a>> \o s \in Seq(S) /\ Len(<<a>> \o s) = 1 + Len(s)
      /\ (<<a>> \o s)[1] = a
    BY <1>1, ConcatProperties
<1> QED
    BY <1>2, ConcatProperties

StepNames == {"dialer", "pool", "firestore", "publisher", "gcs", "config",
              "account", "relay", "ticker", "public key", "serve"}

LEMMA ConfigFirst ==
    ASSUME wanted \in Configurations, built = <<>>
    PROVE  Here = "config"
<1>1. wanted \in Seq(StepNames)
    <2> USE DEF StepNames
    <2>1. <<"pool", "firestore", "publisher">> \in Seq(StepNames)
        OBVIOUS
    <2>2. <<"pool", "firestore", "publisher", "gcs">> \in Seq(StepNames)
        OBVIOUS
    <2>3. <<"dialer", "pool", "firestore", "publisher">> \in Seq(StepNames)
        OBVIOUS
    <2>4. <<"dialer", "pool", "firestore", "publisher", "gcs">> \in Seq(StepNames)
        OBVIOUS
    <2> QED
        BY <2>1, <2>2, <2>3, <2>4 DEF Configurations
<1>2. PICK rest \in Seq(StepNames) :
        rest = <<"account", "relay", "ticker", "public key", "serve">>
    <2>1. <<"account", "relay", "ticker", "public key", "serve">> \in Seq(StepNames)
        BY DEF StepNames
    <2> QED
        BY <2>1, Zenon
<1>3. Steps = <<"config">> \o wanted \o rest
    BY <1>2 DEF Steps
<1>4. Steps[1] = "config"
    <2>1. "config" \in StepNames
        BY DEF StepNames
    <2> QED
        BY <1>1, <1>3, <2>1, FirstOfThree, Zenon
<1>5. Len(built) + 1 = 1
    OBVIOUS
<1> QED
    BY <1>4, <1>5 DEF Here

LEMMA StartInit == StartupInit => StartInv
BY EnvironmentsAssumption DEF StartupInit, Init, StartInv

(* Of the steps of Lifecycle only the start opens a client or begins to     *)
(* serve.                                                                   *)
LEMMA RunsOpensNothing ==
    ASSUME TypeOK, Runs
    PROVE  /\ wanted' = wanted
           /\ main' = "serving" => main = "serving"
           /\ opened' # <<>> => opened # <<>>
           /\ UNCHANGED startup
<1> USE DEF runVars, httpVars, relayVars
<1>1. CASE \E r \in Requests : Request(r)
    BY <1>1 DEF Runs, Request, Accept, Query, QueryEnds, Answer
<1>2. CASE Signal \/ Wait \/ ShutPool \/ Exit
    BY <1>2 DEF Runs, Signal, Wait, ShutPool, Exit
<1>3. CASE Close
    BY <1>3 DEF Runs, Close
<1>4. CASE Listen \/ ServerFails \/ ServerReturns \/ Shutdown \/ ShutdownDone
           \/ ShutdownTimesOut
    BY <1>4 DEF Runs, Listen, ServerFails, ServerReturns, Shutdown, ShutdownDone,
                ShutdownTimesOut
<1>5. CASE Tick \/ PublishEnds \/ RecordResult \/ TickerReturns
    BY <1>5 DEF Runs, Tick, PublishEnds, RecordResult, TickerReturns
<1> QED
    BY <1>1, <1>2, <1>3, <1>4, <1>5 DEF Runs

LEMMA StartStep == TypeOK /\ StartInv /\ [StartupNext]_allVars => StartInv'
<1> SUFFICES ASSUME TypeOK, StartInv, StartupNext \/ UNCHANGED allVars
             PROVE  StartInv'
    OBVIOUS
<1> USE DEF StartInv
<1>1. wanted \in Configurations
    BY DEF TypeOK
<1>2. CASE Construct
    <2>1. UNCHANGED <<env, error, wanted>>
        BY <1>2 DEF Construct, Open, Serve, vars, runVars
    <2>2. Accepted
        <3>1. CASE built = <<>>
            BY <1>1, <1>2, <3>1, ConfigFirst
                DEF Construct, Takes, FromEnvFails, Accepted
        <3> QED
            BY <3>1
    <2> QED
        BY <2>1, <2>2 DEF Accepted, PublisherTakes
<1>3. CASE ConstructFails
    <2>1. /\ UNCHANGED <<env, built, wanted, opened>> /\ main' = "closing"
          /\ error' = Here
        BY <1>3 DEF ConstructFails, StartFails
    <2>2. Here = "config" \/ Accepted
        BY <1>1, ConfigFirst
    <2>3. Here \notin {"relay", "ticker"} /\ (Here = "publisher" => PublisherTakes)
        BY <1>3, <2>2, AcceptedIsTaken DEF ConstructFails, Takes, Resources
    <2> QED
        BY <2>1, <2>3 DEF Accepted, PublisherTakes
<1>4. CASE Runs
    BY <1>4, RunsOpensNothing DEF startup, Accepted, PublisherTakes
<1>5. CASE UNCHANGED allVars
    BY <1>5 DEF allVars, vars, runVars, startup, Accepted, PublisherTakes
<1> QED
    BY <1>2, <1>3, <1>4, <1>5 DEF StartupNext

LEMMA StartUsable == TypeOK /\ StartInv => AcceptedIsUsable
<1> SUFFICES ASSUME TypeOK, StartInv PROVE AcceptedIsUsable
    OBVIOUS
<1> USE DEF StartInv
<1>1. ASSUME "dialer" \in Elements(opened)
      PROVE  env["CLOUDSQL_CONNECTION_NAME"] # Empty
    <2>1. "dialer" \in Elements(Clients(env)) /\ opened # <<>>
        BY <1>1 DEF TypeOK, Elements
    <2> QED
        BY <2>1, DialerIsNamed
<1>2. ASSUME relay # "idle" PROVE Window >= 1
    <2>1. main = "serving"
        BY <1>2 DEF TypeOK
    <2> QED
        BY <2>1, AcceptedIsTaken
<1> QED
    BY <1>1, <1>2 DEF AcceptedIsUsable

(* Whatever the environment, FromEnv's checks imply those of the relay, the *)
(* ticker and the publisher, a dialer has a name, and a claim hides its     *)
(* rows (config.go 121-171 against relay.go, outbox_ticker.go, publisher.go *)
(* and outbox_repo.go).                                                     *)
THEOREM AcceptedUsable == StartupSpec => []AcceptedIsUsable
<1>1. StartupSpec => []TypeOK
    BY StartedIsAlive, TypeCorrect, PTL
<1>2. StartupSpec => []StartInv
    BY <1>1, StartInit, StartStep, PTL DEF StartupSpec
<1> QED
    BY <1>1, <1>2, StartUsable, PTL
=============================================================================
