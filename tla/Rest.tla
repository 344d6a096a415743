-------------------------------- MODULE Rest --------------------------------
(***************************************************************************)
(* Calls of a consumer to the scenario service, from the method of         *)
(* apiscenarioclient to its return: client, connection, router, internal   *)
(* auth, handler and service, and back. Either end may give up at any      *)
(* time: the caller's context ends while the service works on, and a       *)
(* connection or a server process dies with what it carries.               *)
(*                                                                         *)
(* The service behind a handler is here only how its call ends and whether *)
(* it has done what it was asked; how that comes about, and what calls     *)
(* have to do with each other there, is in Onboarding and Story. The same  *)
(* client may talk to the fake of ServerFake instead, which adds its steps *)
(* to these.                                                               *)
(***************************************************************************)
EXTENDS ApiScenario

CONSTANTS
    Calls,      \* calls consumers make
    Episodes,   \* episode ids they ask for
    Nothing     \* no operation, no handler, no response, no result yet

(* What is sent back. *)
Responses == [status : {200, 204, 400, 401, 403, 404, 409, 500}, body : Bodies]

ASSUME NothingAssumption == Nothing \notin Ops \cup Results \cup Responses

VARIABLES
    peer,       \* what answers at the Client's base URL: "service" or "fake"
    base,       \* the path of that URL
    call,       \* the caller's side of each call
    server,     \* the service's side of each call
    happened    \* the operations the service has done for each call

config == <<peer, base>>
vars == <<config, call, server, happened>>

(* token: the X-Internal-Auth of the request, which the Client itself never *)
(* adds. It is there if one of the caller's request editors adds it.        *)
NewCall == [step |-> "new", op |-> Nothing, request |-> Nothing, body |-> "none",
            token |-> "none", result |-> Nothing]
Unreached == [step |-> "unreached", handler |-> Nothing, response |-> Nothing]

Tokens == {"none", "valid", "expired"}

(* apiscenarioclient.New with its options. The base URL is taken as it is;  *)
(* one with a path of its own is not the service's.                         *)
Init ==
    /\ peer \in {"service", "fake"}
    /\ peer = "fake" => base = <<>>
    /\ base \in {<<>>, <<"elsewhere">>}
    /\ call = [c \in Calls |-> NewCall]
    /\ server = [c \in Calls |-> Unreached]
    /\ happened = [c \in Calls |-> {}]

-----------------------------------------------------------------------------
(* The caller *)

Return(c, result) ==
    call' = [call EXCEPT ![c].step = "returned", ![c].result = result]

(* The request of an operation, as it is sent to a base URL with this path. *)
Sent(url, op, episode) == [NewRequest(op, episode) EXCEPT !.path = url \o @]

(* A call whose request is under way, and one that ended before that.       *)
Waiting(op, episode, body, token) ==
    [step |-> "waiting", op |-> op, request |-> Sent(base, op, episode),
     body |-> IF op \in Silent THEN body ELSE "none",
     token |-> token, result |-> Nothing]
Unsent(op) == [step |-> "returned", op |-> op, request |-> Nothing, body |-> "none",
               token |-> "none", result |-> "error"]

(* A method of the Client builds its request, lets the editors run over it, *)
(* and sends it; a base URL that does not parse, or an editor's error, ends *)
(* the call before anything is sent. An editor may also spoil the body.     *)
Send(c) ==
    /\ call[c].step = "new"
    /\ \E op \in Ops, episode \in Episodes, body \in {"json", "malformed"}, token \in Tokens :
        \/ /\ call' = [call EXCEPT ![c] = Unsent(op)]
           /\ UNCHANGED server
        \/ /\ op \in Silent \/ body = "json"
           /\ call' = [call EXCEPT ![c] = Waiting(op, episode, body, token)]
           /\ server' = [server EXCEPT ![c].step = "travelling"]
    /\ UNCHANGED <<config, happened>>

(* The response arrives: Parse...Response and the method's own reading.     *)
Receive(c) ==
    /\ call[c].step = "waiting"
    /\ server[c].step = "answered"
    /\ Return(c, Result(call[c].op, server[c].response))
    /\ UNCHANGED <<config, server, happened>>

(* The context ends, the connection breaks or the body cannot be read.      *)
GiveUp(c) ==
    /\ call[c].step = "waiting"
    /\ Return(c, "error")
    /\ UNCHANGED <<config, server, happened>>

-----------------------------------------------------------------------------
(* The service *)

Reply(c, response) ==
    server' = [server EXCEPT ![c].step = "answered", ![c].response = response]

Protected(handler) == handler # "getHealth"

(* Mutant of Dispatch: UpdateName goes on after its body failed to bind. *)
DispatchUnbound(c) ==
    /\ server[c].step = "travelling"
    /\ LET handlers == HandlersOf(call[c].request) IN
        \/ /\ handlers = {}
           /\ Reply(c, Response(404, "none"))
        \/ \E h \in handlers :
            \/ /\ Protected(h) /\ call[c].token # "valid"
               /\ Reply(c, Response(401, "other"))
            \/ /\ Protected(h) => call[c].token = "valid"
               /\ server' = [server EXCEPT ![c].step = "handling", ![c].handler = h,
                    ![c].response = IF call[c].body = "malformed"
                                    THEN Response(400, "other") ELSE Nothing]
    /\ UNCHANGED <<config, call, happened>>

(* The router finds the handler, or none; VerifyInternalAuth stands before  *)
(* all but /health; UpdateName and SelectFaction bind their body before     *)
(* they call the service.                                                   *)
Dispatch(c) ==
    /\ server[c].step = "travelling"
    /\ LET handlers == HandlersOf(call[c].request) IN
        \/ /\ handlers = {}
           /\ Reply(c, Response(404, "none"))
        \/ \E h \in handlers :
            \/ /\ Protected(h) /\ call[c].token # "valid"
               /\ Reply(c, Response(401, "other"))
            \/ /\ Protected(h) => call[c].token = "valid"
               /\ \/ /\ h \in Silent /\ call[c].body = "malformed"
                     /\ Reply(c, Response(400, "other"))
                  \/ /\ h \notin Silent \/ call[c].body = "json"
                     /\ server' = [server EXCEPT ![c].step = "handling",
                                                 ![c].handler = h]
    /\ UNCHANGED <<config, call, happened>>

(* The service ends in one of the ways its handler knows, having done what  *)
(* it was asked or not. Which calls exclude each other is left open here:   *)
(* that onboarding completes once is Onboarding!OneCompletion.              *)
Handle(c) ==
    /\ server[c].step = "handling"
    /\ LET h == server[c].handler IN
        \E outcome \in Outcomes(h) : \E done \in Done(h, outcome) :
            /\ Reply(c, Answer(h, outcome))
            /\ happened' = [happened EXCEPT ![c] = IF done THEN @ \cup {h} ELSE @]
    /\ UNCHANGED <<config, call>>

(* The connection, or the process behind it, dies. A handler that is cut    *)
(* off has done what it was asked, or not.                                  *)
Vanish(c) ==
    /\ server[c].step \in {"travelling", "handling", "answered"}
    /\ server' = [server EXCEPT ![c].step = "gone", ![c].response = Nothing]
    /\ LET h == server[c].handler IN
        \/ UNCHANGED happened
        \/ /\ server[c].step = "handling" /\ h \in Changing
           /\ happened' = [happened EXCEPT ![c] = @ \cup {h}]
    /\ UNCHANGED <<config, call>>

ServiceStep(c) == peer = "service" /\ (Dispatch(c) \/ Handle(c) \/ Vanish(c))

-----------------------------------------------------------------------------
Segments == Episodes \cup {"health", "episodes", "onboarding", "script", "name",
                           "faction", "complete"}

(* Shapes of all variables; the service holds a response exactly while one  *)
(* is on its way, and nothing has happened for a call it never handled.     *)
TypeOK ==
    /\ peer \in {"service", "fake"}
    /\ base \in Seq({"elsewhere"})
    /\ call \in [Calls ->
        [step : {"new", "waiting", "returned"}, op : Ops \cup {Nothing},
         request : [method : {"GET", "POST", "PUT"},
                    path : Seq({"elsewhere"} \cup Segments)] \cup {Nothing},
         body : {"none", "json", "malformed"}, token : Tokens,
         result : Results \cup {Nothing}]]
    /\ server \in [Calls ->
        [step : {"unreached", "travelling", "handling", "answered", "gone"},
         handler : Ops \cup {Nothing},
         response : Responses \cup {Nothing}]]
    /\ happened \in [Calls -> SUBSET Ops]
    /\ \A c \in Calls :
        /\ (server[c].response # Nothing) <=> (server[c].step = "answered")
        /\ happened[c] # {} => server[c].handler # Nothing

(* What a caller of the service is told, in the words of RemoteCall; those  *)
(* of a fake are told what the test makes up.                               *)
Verdict(result) ==
    CASE result = Nothing -> Nothing
      [] result = "ok" -> "done"
      [] result \in Refusals -> "refused"
      [] OTHER -> "unknown"
Told(c) == IF peer = "fake" THEN Nothing ELSE Verdict(call[c].result)

Promise == INSTANCE RemoteCall WITH
    asked <- [c \in Calls |-> call[c].op],
    told <- [c \in Calls |-> Told(c)]

(* The sentinels are definite (client.go 14-34): nil is returned only for   *)
(* what has happened, ErrUnauthorized to ErrConflict only for what has not  *)
(* and never will, although the caller may be gone before the handler ends  *)
(* and a commit may succeed unheard; and each method reaches the handler of *)
(* its own name, once.                                                      *)
Keeps == Promise!Spec

(* client.go 176-196: the "unexpected status" error is for services that    *)
(* do not keep the contract. Against this one no call ends with it: what    *)
(* every handler answers on success is what the client takes for success.   *)
NeverUnexpected ==
    peer = "service" => \A c \in Calls : call[c].result # "unexpected"
=============================================================================
