----------------------------- MODULE ServerFake -----------------------------
(***************************************************************************)
(* apiscenarioserverfake: the HTTP server that stands for the scenario     *)
(* service in the tests of consumers. They call it through the client that *)
(* Rest models, so this module adds the fake's side to Rest: a test sets   *)
(* the Fn of an endpoint whenever it likes, also while calls are under     *)
(* way, and closes the server at its end.                                  *)
(*                                                                         *)
(* A Fn is the response it asks for. The test writes the field without the *)
(* mutex the handlers take to read it; a func is one word, so a read sees  *)
(* one of the values written, and a step of the test is taken as atomic.   *)
(***************************************************************************)
EXTENDS Rest

CONSTANTS
    Answers,    \* the responses a test programs, out of Programs
    MaxSets     \* bound: how often the test sets a Fn

VARIABLES
    fn,         \* the Fn of each endpoint
    sets,       \* how often one was set
    srv,        \* the httptest.Server
    copied,     \* the Fn the handler of each call works with
    seen        \* history: the Fns its endpoint has had during each call

fakeVars == <<fn, sets, srv, copied, seen>>
allVars == <<vars, fakeVars>>

(* A callback returns any status with any body, or none. *)
Programs == [status : {200, 204, 401, 403, 404, 500}, body : Bodies]
ASSUME AnswersAssumption == Answers \subseteq Programs /\ Nothing \notin Programs

FakeInit ==
    /\ Init
    /\ fn = [e \in Story |-> Nothing]
    /\ sets = 0
    /\ srv = "open"
    /\ copied = [c \in Calls |-> Nothing]
    /\ seen = [c \in Calls |-> {}]

-----------------------------------------------------------------------------
(* The test and its calls *)

SetFn(e, f) ==
    /\ sets < MaxSets /\ sets' = sets + 1
    /\ f # fn[e]
    /\ fn' = [fn EXCEPT ![e] = f]
    /\ seen' = [c \in Calls |->
        IF call[c].op = e /\ call[c].step = "waiting" THEN seen[c] \cup {f} ELSE seen[c]]
    /\ UNCHANGED <<vars, srv, copied>>

(* Server.Close: no connection is accepted any more, and it returns when    *)
(* every request under way has been answered.                               *)
Close ==
    /\ srv = "open"
    /\ srv' = "closing"
    /\ UNCHANGED <<vars, fn, sets, copied, seen>>

Closed ==
    /\ srv = "closing"
    /\ \A c \in Calls : server[c].step \notin {"travelling", "handling"}
    /\ srv' = "closed"
    /\ UNCHANGED <<vars, fn, sets, copied, seen>>

(* A call, to whichever peer; a fake that is not open refuses it. *)
Call(c) ==
    /\ Send(c)
    /\ srv # "open" => call'[c].step = "returned"
    /\ seen' = [seen EXCEPT ![c] =
           IF peer = "fake" /\ call'[c].op \in Story THEN {fn[call'[c].op]} ELSE {}]
    /\ UNCHANGED <<fn, sets, srv, copied>>

-----------------------------------------------------------------------------
(* The server *)

FakeRoutes ==
    { Route("GET", <<"episodes">>, "listEpisodes"),
      Route("GET", <<"episodes", EpisodeParam, "script">>, "getEpisodeScript"),
      Route("POST", <<"episodes", EpisodeParam, "complete">>, "completeEpisode") }

EndpointsOf(request) ==
    {r.handler : r \in {s \in FakeRoutes : Matches(s, request)}}

(* ServeMux knows three endpoints and answers 404 to the rest. A handler    *)
(* copies its Fn under the lock ...                                         *)
Find(c) ==
    /\ server[c].step = "travelling"
    /\ \/ /\ EndpointsOf(call[c].request) = {}
          /\ Reply(c, Response(404, "none"))
          /\ UNCHANGED copied
       \/ \E e \in EndpointsOf(call[c].request) :
          /\ server' = [server EXCEPT ![c].step = "handling", ![c].handler = e]
          /\ copied' = [copied EXCEPT ![c] = fn[e]]
    /\ UNCHANGED <<config, call, happened, fn, sets, srv, seen>>

(* What an endpoint answers when its Fn is not set. *)
Default(e) == IF e = "completeEpisode" THEN Response(204, "none") ELSE Response(200, "fits")

(* Mutant of WriteJSON: the Content-Type is set after the header went out. *)
WriteJSONLate(program) == Response(program.status, "none")

(* A body that is not nil is sent as JSON; net/http sends none with a 204.  *)
WriteJSON(program) ==
    IF program.status = 204 THEN Response(204, "none") ELSE program

(* ... and calls that copy without it. *)
Serve(c) ==
    /\ server[c].step = "handling"
    /\ Reply(c, IF copied[c] = Nothing THEN Default(server[c].handler)
                                       ELSE WriteJSON(copied[c]))
    /\ UNCHANGED <<config, call, happened, fakeVars>>

FakeStep ==
    /\ peer = "fake"
    /\ \/ \E e \in Story, f \in Answers \cup {Nothing} : SetFn(e, f)
       \/ Close \/ Closed
       \/ \E c \in Calls : Find(c) \/ Serve(c)

ConsumerNext ==
    \/ \E c \in Calls :
        \/ Call(c)
        \/ (Receive(c) \/ GiveUp(c) \/ ServiceStep(c)) /\ UNCHANGED fakeVars
    \/ FakeStep

ConsumerSpec == FakeInit /\ [][ConsumerNext]_allVars

-----------------------------------------------------------------------------
(* What a test means by a Fn. *)
Means(op, f) == IF f = Nothing THEN Result(op, Default(op)) ELSE Result(op, f)

(* server.go 30-33: what a Fn returns is the response, so a call that is    *)
(* not given up ends as a Fn means that its endpoint had during the call,   *)
(* however the test changes it meanwhile; an operation the fake does not    *)
(* serve is "not found"; and a server that is closing answers nothing new.  *)
AnsweredAsProgrammed ==
    peer = "fake" =>
        \A c \in Calls :
            LET op == call[c].op IN
            call[c].step = "returned" /\ call[c].result # "error" =>
                \/ op \in Story /\ \E f \in seen[c] : call[c].result = Means(op, f)
                \/ op \notin Story /\ call[c].result = "not_found"
=============================================================================
