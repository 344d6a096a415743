----------------------------- MODULE RestProofs -----------------------------
(***************************************************************************)
(* What Rest and ServerFake promise, for any number of calls, any episodes *)
(* and any answers a test programs. First the contract, which is a matter  *)
(* of the pure operators of ApiScenario, then one invariant of both sides  *)
(* of a call.                                                              *)
(***************************************************************************)
EXTENDS ServerFake, SequenceTheorems, TLAPS

-----------------------------------------------------------------------------
(* The contract *)

(* What the client makes of a response, as a function.                      *)
ResultOf == [op \in Ops |-> [r \in Responses |-> Result(op, r)]]

LEMMA OpsAre ==
    /\ Ops = {"listEpisodes", "getEpisodeScript", "completeEpisode",
              "getOnboardingScript", "updateOnboardingName",
              "selectOnboardingFaction", "completeOnboarding", "getHealth"}
    /\ Story = {"listEpisodes", "getEpisodeScript", "completeEpisode"}
    /\ Silent = {"updateOnboardingName", "selectOnboardingFaction"}
BY DEF Ops, Story, Onboarding, Silent

LEMMA RequestShape ==
    ASSUME NEW episode \in Episodes
    PROVE  /\ NewRequest("listEpisodes", episode) = Request("GET", <<"episodes">>)
           /\ NewRequest("completeEpisode", episode)
                 = Request("POST", <<"episodes", episode, "complete">>)
           /\ NewRequest("getEpisodeScript", episode)
                 = Request("GET", <<"episodes", episode, "script">>)
           /\ NewRequest("completeOnboarding", episode)
                 = Request("POST", <<"onboarding", "complete">>)
           /\ NewRequest("selectOnboardingFaction", episode)
                 = Request("POST", <<"onboarding", "faction">>)
           /\ NewRequest("updateOnboardingName", episode)
                 = Request("PUT", <<"onboarding", "name">>)
           /\ NewRequest("getOnboardingScript", episode)
                 = Request("GET", <<"onboarding", "script">>)
           /\ NewRequest("getHealth", episode) = Request("GET", <<"health">>)
BY DEF NewRequest, NewStoryRequest, NewOnboardingRequest, Story, Onboarding

LEMMA RequestTyped ==
    ASSUME NEW op \in Ops, NEW episode \in Episodes
    PROVE  NewRequest(op, episode) \in
              [method : {"GET", "POST", "PUT"}, path : Seq(Segments)]
<1>1. /\ <<"episodes">> \in Seq(Segments) /\ <<"health">> \in Seq(Segments)
      /\ <<"episodes", episode, "complete">> \in Seq(Segments)
      /\ <<"episodes", episode, "script">> \in Seq(Segments)
      /\ <<"onboarding", "complete">> \in Seq(Segments)
      /\ <<"onboarding", "faction">> \in Seq(Segments)
      /\ <<"onboarding", "name">> \in Seq(Segments)
      /\ <<"onboarding", "script">> \in Seq(Segments)
    BY DEF Segments
<1>2. \E method \in {"GET", "POST", "PUT"}, path \in Seq(Segments) :
        NewRequest(op, episode) = Request(method, path)
    BY <1>1, OpsAre, RequestShape
<1> QED
    BY <1>2 DEF Request

(* A response is read as one of the results the methods name.               *)
LEMMA ResultTyped ==
    ASSUME NEW op \in Ops, NEW r \in Responses
    PROVE  ResultOf[op][r] = Result(op, r) /\ Result(op, r) \in Results
BY DEF ResultOf, Result, Results, Refusals, ResolveStatusError, Responses

LEMMA AnswerShape ==
    ASSUME NEW op \in Ops, NEW outcome \in Outcomes(op)
    PROVE  Answer(op, outcome) =
              [status |-> Status(op, outcome),
               body |-> IF outcome # "ok" THEN "other"
                        ELSE IF op \in Silent THEN "none" ELSE "fits"]
<1> DEFINE body == CASE outcome # "ok" -> "other"
                     [] outcome = "ok" /\ op \in Silent -> "none"
                     [] OTHER -> "fits"
<1>1. Answer(op, outcome) = [status |-> Status(op, outcome), body |-> body]
    BY DEF Answer, Response
<1>2. body = IF outcome # "ok" THEN "other"
             ELSE IF op \in Silent THEN "none" ELSE "fits"
    OBVIOUS
<1> HIDE DEF body
<1> QED
    BY <1>1, <1>2

(* What a handler answers is read as its outcome was meant.                 *)
LEMMA AnswerMeans ==
    ASSUME NEW op \in Ops, NEW outcome \in Outcomes(op)
    PROVE  /\ Answer(op, outcome) \in Responses
           /\ outcome = "ok" => Result(op, Answer(op, outcome)) = "ok"
           /\ outcome = "internal" => Result(op, Answer(op, outcome)) = "internal_server"
           /\ outcome \notin {"ok", "internal"} =>
                 Result(op, Answer(op, outcome))
                    \in {"not_found", "forbidden", "conflict", "bad_request", "internal_server"}
<1>1. CASE outcome = "ok"
    <2>1. CASE op \in Silent
        <3>1. Answer(op, outcome) = [status |-> 204, body |-> "none"]
            BY <1>1, <2>1, AnswerShape DEF Status, SuccessStatus
        <3>2. Answer(op, outcome) \in Responses
            BY <3>1 DEF Responses, Bodies
        <3>3. Result(op, Answer(op, outcome)) = "ok"
            BY <2>1, <3>1 DEF Result, Parsed
        <3> QED
            BY <1>1, <3>2, <3>3
    <2>2. CASE op \notin Silent
        <3>1. Answer(op, outcome) = [status |-> 200, body |-> "fits"]
            BY <1>1, <2>2, AnswerShape DEF Status, SuccessStatus
        <3>2. Answer(op, outcome) \in Responses
            BY <3>1 DEF Responses, Bodies
        <3>3. Result(op, Answer(op, outcome)) = "ok"
            BY <2>2, <3>1 DEF Result, Parsed
        <3> QED
            BY <1>1, <3>2, <3>3
    <2> QED
        BY <2>1, <2>2
<1>2. CASE outcome # "ok"
    <2> DEFINE status == Status(op, outcome)
    <2>1. Answer(op, outcome) = [status |-> status, body |-> "other"]
        BY <1>2, AnswerShape
    <2>2. status \in {400, 403, 404, 409, 500} /\ (outcome = "internal" => status = 500)
        <3>1. CASE op \in Onboarding
            <4>1. status = ResolveOnboardingErrorStatus(outcome)
                BY <1>2, <3>1 DEF Status
            <4> QED
                BY <4>1 DEF ResolveOnboardingErrorStatus
        <3>2. CASE op \notin Onboarding
            <4>1. status = ResolveErrorStatus(outcome)
                BY <1>2, <3>2 DEF Status
            <4> QED
                BY <4>1 DEF ResolveErrorStatus
        <3> QED
            BY <3>1, <3>2
    <2> HIDE DEF status
    <2>3. Answer(op, outcome) \in Responses
        BY <2>1, <2>2 DEF Responses, Bodies
    <2>4. Parsed(op, Answer(op, outcome)) = "no_JSON200"
        BY <2>1, <2>2 DEF Parsed
    <2>5. Result(op, Answer(op, outcome)) = ResolveStatusError(status)
        BY <2>1, <2>2, <2>4 DEF Result
    <2>6. ResolveStatusError(status)
              = CASE status = 400 -> "bad_request" [] status = 403 -> "forbidden"
                  [] status = 404 -> "not_found" [] status = 409 -> "conflict"
                  [] status = 500 -> "internal_server"
        BY <2>2 DEF ResolveStatusError
    <2> QED
        BY <1>2, <2>2, <2>3, <2>5, <2>6
<1> QED
    BY <1>1, <1>2

-----------------------------------------------------------------------------
(* The routes *)

(* What tells the operations apart: the method, the number of segments, the *)
(* first and the last one. No route has a parameter in those places.        *)
Sign(op, method, length, first, last) ==
    \/ op = "getHealth" /\ method = "GET" /\ length = 1 /\ first = "health"
    \/ op = "listEpisodes" /\ method = "GET" /\ length = 1 /\ first = "episodes"
    \/ op = "getEpisodeScript" /\ method = "GET" /\ length = 3 /\ first = "episodes"
    \/ op = "completeEpisode" /\ method = "POST" /\ length = 3 /\ first = "episodes"
    \/ op = "getOnboardingScript" /\ method = "GET" /\ length = 2 /\ first = "onboarding"
    \/ op = "updateOnboardingName" /\ method = "PUT" /\ length = 2 /\ first = "onboarding"
    \/ /\ op = "selectOnboardingFaction" /\ method = "POST"
       /\ length = 2 /\ first = "onboarding" /\ last = "faction"
    \/ /\ op = "completeOnboarding" /\ method = "POST"
       /\ length = 2 /\ first = "onboarding" /\ last = "complete"

Signed(op, x) == Sign(op, x.method, Len(x.path), x.path[1], x.path[Len(x.path)])

LEMMA SignIsUnique ==
    ASSUME NEW op, NEW other, NEW method, NEW length, NEW first, NEW last,
           Sign(op, method, length, first, last), Sign(other, method, length, first, last)
    PROVE  op = other
BY DEF Sign

LEMMA RouteSigned ==
    ASSUME NEW r \in Routes
    PROVE  /\ Signed(r.handler, r)
           /\ Len(r.path) \in 1 .. 3 /\ DOMAIN r.path = 1 .. Len(r.path)
           /\ r.path[1] \notin {EpisodeParam, "elsewhere"}
           /\ r.path[Len(r.path)] # EpisodeParam
<1>1. CASE r = Route("GET", <<"health">>, "getHealth")
    BY <1>1 DEF Route, EpisodeParam, Sign, Signed
<1>2. CASE r = Route("GET", <<"episodes">>, "listEpisodes")
    BY <1>2 DEF Route, EpisodeParam, Sign, Signed
<1>3. CASE r = Route("GET", <<"episodes", EpisodeParam, "script">>, "getEpisodeScript")
    BY <1>3 DEF Route, EpisodeParam, Sign, Signed
<1>4. CASE r = Route("POST", <<"episodes", EpisodeParam, "complete">>, "completeEpisode")
    BY <1>4 DEF Route, EpisodeParam, Sign, Signed
<1>5. CASE r = Route("GET", <<"onboarding", "script">>, "getOnboardingScript")
    BY <1>5 DEF Route, EpisodeParam, Sign, Signed
<1>6. CASE r = Route("PUT", <<"onboarding", "name">>, "updateOnboardingName")
    BY <1>6 DEF Route, EpisodeParam, Sign, Signed
<1>7. CASE r = Route("POST", <<"onboarding", "faction">>, "selectOnboardingFaction")
    BY <1>7 DEF Route, EpisodeParam, Sign, Signed
<1>8. CASE r = Route("POST", <<"onboarding", "complete">>, "completeOnboarding")
    BY <1>8 DEF Route, EpisodeParam, Sign, Signed
<1> QED
    BY <1>1, <1>2, <1>3, <1>4, <1>5, <1>6, <1>7, <1>8 DEF Routes

LEMMA RequestSigned ==
    ASSUME NEW op \in Ops, NEW episode \in Episodes
    PROVE  Signed(op, NewRequest(op, episode))
<1> DEFINE x == NewRequest(op, episode)
<1>1. ASSUME NEW method, NEW path, x = Request(method, path),
             Sign(op, method, Len(path), path[1], path[Len(path)])
      PROVE  Signed(op, x)
    <2>1. x.method = method /\ x.path = path
        BY <1>1 DEF Request
    <2> QED
        BY <1>1, <2>1 DEF Signed
<1>2. CASE op = "getHealth"
    <2> DEFINE path == <<"health">>
    <2>1. Sign(op, "GET", Len(path), path[1], path[Len(path)])
        BY <1>2 DEF Sign
    <2> QED
        BY <1>1, <1>2, <2>1, RequestShape, Zenon
<1>3. CASE op = "listEpisodes"
    <2> DEFINE path == <<"episodes">>
    <2>1. Sign(op, "GET", Len(path), path[1], path[Len(path)])
        BY <1>3 DEF Sign
    <2> QED
        BY <1>1, <1>3, <2>1, RequestShape, Zenon
<1>4. CASE op = "getEpisodeScript"
    <2> DEFINE path == <<"episodes", episode, "script">>
    <2>1. Sign(op, "GET", Len(path), path[1], path[Len(path)])
        BY <1>4 DEF Sign
    <2> QED
        BY <1>1, <1>4, <2>1, RequestShape, Zenon
<1>5. CASE op = "completeEpisode"
    <2> DEFINE path == <<"episodes", episode, "complete">>
    <2>1. Sign(op, "POST", Len(path), path[1], path[Len(path)])
        BY <1>5 DEF Sign
    <2> QED
        BY <1>1, <1>5, <2>1, RequestShape, Zenon
<1>6. CASE op = "getOnboardingScript"
    <2> DEFINE path == <<"onboarding", "script">>
    <2>1. Sign(op, "GET", Len(path), path[1], path[Len(path)])
        BY <1>6 DEF Sign
    <2> QED
        BY <1>1, <1>6, <2>1, RequestShape, Zenon
<1>7. CASE op = "updateOnboardingName"
    <2> DEFINE path == <<"onboarding", "name">>
    <2>1. Sign(op, "PUT", Len(path), path[1], path[Len(path)])
        BY <1>7 DEF Sign
    <2> QED
        BY <1>1, <1>7, <2>1, RequestShape, Zenon
<1>8. CASE op = "selectOnboardingFaction"
    <2> DEFINE path == <<"onboarding", "faction">>
    <2>1. Sign(op, "POST", Len(path), path[1], path[Len(path)])
        BY <1>8 DEF Sign
    <2> QED
        BY <1>1, <1>8, <2>1, RequestShape, Zenon
<1>9. CASE op = "completeOnboarding"
    <2> DEFINE path == <<"onboarding", "complete">>
    <2>1. Sign(op, "POST", Len(path), path[1], path[Len(path)])
        BY <1>9 DEF Sign
    <2> QED
        BY <1>1, <1>9, <2>1, RequestShape, Zenon
<1> QED
    BY <1>2, <1>3, <1>4, <1>5, <1>6, <1>7, <1>8, <1>9, OpsAre

LEMMA MatchSigned ==
    ASSUME NEW r \in Routes, NEW x, Matches(r, x)
    PROVE  /\ x.method = r.method /\ Len(x.path) = Len(r.path)
           /\ x.path[1] = r.path[1] /\ x.path[Len(x.path)] = r.path[Len(r.path)]
BY RouteSigned DEF Matches

(* A request that is sent to the service's own base URL finds the handler   *)
(* of its own name and no other; at any other it finds none.                *)
LEMMA RouteOfRequest ==
    ASSUME NEW op \in Ops, NEW episode \in Episodes, NEW r \in Routes,
           base \in {<<>>, <<"elsewhere">>}, Matches(r, Sent(base, op, episode))
    PROVE  r.handler = op
<1> DEFINE x == NewRequest(op, episode)
<1>1. x.method \in {"GET", "POST", "PUT"} /\ x.path \in Seq(Segments)
    BY RequestTyped
<1>2. /\ Sent(base, op, episode).method = x.method
      /\ Sent(base, op, episode).path = base \o x.path
    BY RequestTyped DEF Sent
<1>3. Signed(op, x)
    BY RequestSigned
<1> HIDE DEF x
<1>4. CASE base = <<>>
    <2>1. base \o x.path = x.path
        BY <1>1, <1>4, ConcatEmptySeq
    <2>2. Signed(op, r)
        BY <1>2, <1>3, <2>1, MatchSigned DEF Signed
    <2> QED
        BY <2>2, RouteSigned, SignIsUnique DEF Signed
<1>5. CASE base = <<"elsewhere">>
    <2>1. (base \o x.path)[1] = "elsewhere"
        BY <1>1, <1>5
    <2> QED
        BY <1>2, <2>1, MatchSigned, RouteSigned
<1> QED
    BY <1>4, <1>5

LEMMA HandlerOfRequest ==
    ASSUME NEW op \in Ops, NEW episode \in Episodes,
           base \in {<<>>, <<"elsewhere">>}
    PROVE  HandlersOf(Sent(base, op, episode)) \subseteq {op}
BY RouteOfRequest DEF HandlersOf

(* The fake serves the three story operations, each at its own path.        *)
LEMMA EndpointOfRequest ==
    ASSUME NEW op \in Ops, NEW episode \in Episodes, base = <<>>
    PROVE  EndpointsOf(Sent(base, op, episode)) = {op} \cap Story
<1>1. FakeRoutes \subseteq Routes
    BY DEF FakeRoutes, Routes
<1>2. \A r \in FakeRoutes : r.handler \in Story
    BY DEF FakeRoutes, Route, Story
<1>3. ASSUME NEW r \in FakeRoutes, Matches(r, Sent(base, op, episode)) PROVE r.handler = op
    BY <1>1, <1>3, RouteOfRequest
<1>4. ASSUME op \in Story PROVE \E r \in FakeRoutes :
        r.handler = op /\ Matches(r, Sent(base, op, episode))
    <2>1. Sent(base, op, episode) = NewRequest(op, episode)
        <3>1. base \o NewRequest(op, episode).path = NewRequest(op, episode).path
            BY RequestTyped, ConcatEmptySeq
        <3> QED
            BY <3>1, RequestTyped DEF Sent
    <2> QED
        BY <1>4, <2>1, OpsAre, RequestShape DEF FakeRoutes, Route, Request, Matches, EpisodeParam
<1> QED
    BY <1>2, <1>3, <1>4 DEF EndpointsOf

-----------------------------------------------------------------------------
(* The invariant *)

RequestRecords == [method : {"GET", "POST", "PUT"}, path : Seq({"elsewhere"} \cup Segments)]
CallRecords ==
    [step : {"new", "waiting", "returned"}, op : Ops \cup {Nothing},
     request : RequestRecords \cup {Nothing}, body : {"none", "json", "malformed"},
     token : Tokens, result : Results \cup {Nothing}]
ServerRecords ==
    [step : {"unreached", "travelling", "handling", "answered", "gone"},
     handler : Ops \cup {Nothing}, response : Responses \cup {Nothing}]

(* The Client as New left it. *)
ConfigInv ==
    /\ peer \in {"service", "fake"}
    /\ peer = "fake" => base = <<>>
    /\ base \in {<<>>, <<"elsewhere">>}

(* q is the caller's side of a call, s the service's, h what has happened   *)
(* for it. How far the two sides are from each other: a definite result is  *)
(* one that was received, so the handler has ended.                         *)
SidesInv(q, s, h) ==
    /\ q.step = "new" <=> q.op = Nothing
    /\ q.step = "returned" <=> q.result # Nothing
    /\ q.step = "new" => s.step = "unreached"
    /\ s.step = "unreached" => q.step = "new" \/ q.result = "error"
    /\ q.result \in Refusals \cup {"ok"} => s.step \in {"answered", "gone"}
    /\ s.step \in {"unreached", "travelling"} => s.handler = Nothing
    /\ s.step = "handling" => s.handler = q.op
    /\ s.step \in {"unreached", "travelling", "handling"} => h = {}
    /\ s.response # Nothing <=> s.step = "answered"
    /\ h \subseteq {q.op} \cap {s.handler}

(* What travels is the request of the call's own operation.                 *)
RequestInv(q, s) ==
    s.step # "unreached" =>
        \E episode \in Episodes : q.request = Sent(base, q.op, episode)

(* What a result says is true, and stays true. *)
True(q, result, h) ==
    /\ result = "ok" => h = {q.op}
    /\ result \in Refusals => h = {}
    /\ result # "unexpected"

(* The service's answers, on their way and received.                        *)
AnswerInv(q, s, h) ==
    /\ peer = "service" /\ s.step = "answered" => True(q, ResultOf[q.op][s.response], h)
    /\ peer = "service" => True(q, q.result, h)
    /\ peer = "fake" => h = {}

CallInv(q, s, h) == SidesInv(q, s, h) /\ RequestInv(q, s) /\ AnswerInv(q, s, h)

RestInv ==
    /\ ConfigInv
    /\ call \in [Calls -> CallRecords]
    /\ server \in [Calls -> ServerRecords]
    /\ happened \in [Calls -> SUBSET Ops]
    /\ \A c \in Calls : CallInv(call[c], server[c], happened[c])

(* What the client makes of what a Fn means. *)
MeansOf == [op \in Story |-> [f \in Answers \cup {Nothing} |-> Means(op, f)]]

Programmed(op, result, fns) ==
    \/ op \in Story /\ \E f \in fns : result = MeansOf[op][f]
    \/ op \notin Story /\ result = "not_found"

(* The Fns a call has met; once it has returned, no more are noted.         *)
ProgramInv(q, s, copy, met) ==
    /\ s.step = "handling" => q.op \in Story
    /\ q.step = "waiting" /\ q.op \in Story => fn[q.op] \in met
    /\ q.step = "waiting" /\ s.step = "handling" => copy \in met
    /\ q.step = "waiting" /\ s.step = "answered" =>
          Programmed(q.op, ResultOf[q.op][s.response], met)
    /\ q.step = "returned" /\ q.result # "error" => Programmed(q.op, q.result, met)

FakeInv ==
    /\ fn \in [Story -> Answers \cup {Nothing}]
    /\ copied \in [Calls -> Answers \cup {Nothing}]
    /\ seen \in [Calls -> SUBSET (Answers \cup {Nothing})]
    /\ peer = "fake" =>
          \A c \in Calls : ProgramInv(call[c], server[c], copied[c], seen[c])

ConsumerInv == RestInv /\ FakeInv

-----------------------------------------------------------------------------
(* A step of one call *)

LEMMA OneCall ==
    ASSUME RestInv, NEW c \in Calls,
           NEW q \in CallRecords, NEW s \in ServerRecords, NEW h \in SUBSET Ops,
           UNCHANGED config,
           call' = [call EXCEPT ![c] = q],
           server' = [server EXCEPT ![c] = s],
           happened' = [happened EXCEPT ![c] = h],
           CallInv(q, s, h)
    PROVE  RestInv'
<1>1. ConfigInv'
    BY DEF RestInv, ConfigInv, config
<1>2. /\ call' \in [Calls -> CallRecords]
      /\ server' \in [Calls -> ServerRecords]
      /\ happened' \in [Calls -> SUBSET Ops]
    BY DEF RestInv
<1>3. /\ call'[c] = q /\ server'[c] = s /\ happened'[c] = h
      /\ \A d \in Calls \ {c} :
            call'[d] = call[d] /\ server'[d] = server[d] /\ happened'[d] = happened[d]
    BY DEF RestInv
<1>4. \A d \in Calls : CallInv(call[d], server[d], happened[d])'
    <2> SUFFICES ASSUME NEW d \in Calls
                 PROVE  CallInv(call[d], server[d], happened[d])'
        OBVIOUS
    <2> DEFINE x == call'[d] y == server'[d] z == happened'[d]
    <2>1. CallInv(x, y, z)
        BY <1>3 DEF RestInv
    <2>2. SidesInv(x, y, z)
        BY <2>1 DEF CallInv
    <2>3. RequestInv(call[d], server[d])'
        BY <2>1 DEF CallInv, RequestInv, config
    <2>4. AnswerInv(call[d], server[d], happened[d])'
        BY <2>1 DEF CallInv, AnswerInv, config
    <2>5. SidesInv(call[d], server[d], happened[d])'
        BY <2>2 DEF SidesInv
    <2> QED
        BY <2>3, <2>4, <2>5 DEF CallInv
<1> QED
    BY <1>1, <1>2, <1>4 DEF RestInv

(* The same for what the fake notes of a call. *)
LEMMA OneFakeCall ==
    ASSUME RestInv, FakeInv, NEW c \in Calls,
           NEW q \in CallRecords, NEW s \in ServerRecords,
           NEW k \in Answers \cup {Nothing}, NEW m \in SUBSET (Answers \cup {Nothing}),
           UNCHANGED <<config, fn>>,
           call' = [call EXCEPT ![c] = q],
           server' = [server EXCEPT ![c] = s],
           copied' = [copied EXCEPT ![c] = k],
           seen' = [seen EXCEPT ![c] = m],
           peer = "fake" => ProgramInv(q, s, k, m)
    PROVE  FakeInv'
<1>1. /\ fn' \in [Story -> Answers \cup {Nothing}]
      /\ copied' \in [Calls -> Answers \cup {Nothing}]
      /\ seen' \in [Calls -> SUBSET (Answers \cup {Nothing})]
    BY DEF FakeInv
<1>2. /\ call'[c] = q /\ server'[c] = s /\ copied'[c] = k /\ seen'[c] = m
      /\ \A d \in Calls \ {c} : /\ call'[d] = call[d] /\ server'[d] = server[d]
                                /\ copied'[d] = copied[d] /\ seen'[d] = seen[d]
    BY DEF RestInv, FakeInv
<1>3. ASSUME peer' = "fake", NEW d \in Calls
      PROVE  ProgramInv(call[d], server[d], copied[d], seen[d])'
    <2>1. peer = "fake"
        BY <1>3 DEF config
    <2>2. ProgramInv(call'[d], server'[d], copied'[d], seen'[d])
        BY <1>2, <2>1 DEF FakeInv
    <2> QED
        BY <2>2 DEF ProgramInv
<1> QED
    BY <1>1, <1>3 DEF FakeInv

-----------------------------------------------------------------------------
(* What the steps of a call send *)

LEMMA InitHolds == FakeInit => ConsumerInv
<1> SUFFICES ASSUME FakeInit PROVE ConsumerInv
    OBVIOUS
<1>1. ConfigInv
    BY DEF FakeInit, Init, ConfigInv
<1>2. NewCall \in CallRecords /\ Unreached \in ServerRecords
    BY DEF NewCall, Unreached, CallRecords, ServerRecords, Tokens
<1>3. CallInv(NewCall, Unreached, {})
    BY NothingAssumption
       DEF CallInv, SidesInv, RequestInv, AnswerInv, True, NewCall, Unreached, Results, Refusals
<1>4. RestInv
    BY <1>1, <1>2, <1>3 DEF FakeInit, Init, RestInv
<1>5. ProgramInv(NewCall, Unreached, Nothing, {})
    BY DEF ProgramInv, NewCall, Unreached
<1>6. FakeInv
    BY <1>5 DEF FakeInit, Init, FakeInv
<1> QED
    BY <1>4, <1>6 DEF ConsumerInv

Travelling == [step |-> "travelling", handler |-> Nothing, response |-> Nothing]

LEMMA SentTyped ==
    ASSUME ConfigInv, NEW op \in Ops, NEW episode \in Episodes
    PROVE  Sent(base, op, episode) \in RequestRecords
<1>1. base \in Seq({"elsewhere"} \cup Segments)
    <2>1. <<>> \in Seq({"elsewhere"} \cup Segments)
        OBVIOUS
    <2>2. <<"elsewhere">> \in Seq({"elsewhere"} \cup Segments)
        OBVIOUS
    <2> QED
        BY <2>1, <2>2 DEF ConfigInv
<1>2. NewRequest(op, episode).path \in Seq({"elsewhere"} \cup Segments)
      /\ NewRequest(op, episode).method \in {"GET", "POST", "PUT"}
    BY RequestTyped
<1>3. base \o NewRequest(op, episode).path \in Seq({"elsewhere"} \cup Segments)
    BY <1>1, <1>2, ConcatProperties
<1>4. Sent(base, op, episode) = [method |-> NewRequest(op, episode).method,
                                 path |-> base \o NewRequest(op, episode).path]
    <2> DEFINE x == NewRequest(op, episode)
    <2>1. x \in [method : {"GET", "POST", "PUT"}, path : Seq(Segments)]
        BY RequestTyped
    <2>2. Sent(base, op, episode) = [x EXCEPT !.path = base \o x.path]
        BY DEF Sent
    <2> HIDE DEF x
    <2>3. ASSUME NEW y PROVE [x EXCEPT !.path = y] = [method |-> x.method, path |-> y]
        BY <2>1
    <2> QED
        BY <2>2, <2>3 DEF x
<1> QED
    BY <1>2, <1>3, <1>4 DEF RequestRecords

LEMMA SendEffect ==
    ASSUME ConsumerInv, NEW c \in Calls, Send(c)
    PROVE  /\ call[c].step = "new" /\ UNCHANGED <<config, happened>>
           /\ \E op \in Ops :
                \/ call' = [call EXCEPT ![c] = Unsent(op)] /\ UNCHANGED server
                \/ \E episode \in Episodes, body \in {"json", "malformed"}, token \in Tokens :
                      /\ call' = [call EXCEPT ![c] = Waiting(op, episode, body, token)]
                      /\ server' = [server EXCEPT ![c] = Travelling]
<1>1. ASSUME server' = [server EXCEPT ![c].step = "travelling"]
      PROVE  server' = [server EXCEPT ![c] = Travelling]
    <2>1. server[c] = Unreached
        BY DEF Send, ConsumerInv, RestInv, CallInv, SidesInv, ServerRecords, Unreached
    <2>2. [server[c] EXCEPT !.step = "travelling"] = Travelling
        BY <2>1 DEF Unreached, Travelling
    <2> QED
        BY <1>1, <2>2
<1>2. PICK op \in Ops, episode \in Episodes, body \in {"json", "malformed"}, token \in Tokens :
        \/ call' = [call EXCEPT ![c] = Unsent(op)] /\ UNCHANGED server
        \/ /\ op \in Silent \/ body = "json"
           /\ call' = [call EXCEPT ![c] = Waiting(op, episode, body, token)]
           /\ server' = [server EXCEPT ![c].step = "travelling"]
    BY DEF Send
<1>3. call[c].step = "new" /\ UNCHANGED <<config, happened>>
    BY DEF Send
<1> QED
    BY <1>1, <1>2, <1>3

-----------------------------------------------------------------------------
(* The steps preserve the invariant *)

LEMMA SentCall ==
    ASSUME ConsumerInv, NEW c \in Calls, Send(c)
    PROVE  RestInv'
<1>1. PICK op \in Ops :
        \/ call' = [call EXCEPT ![c] = Unsent(op)] /\ UNCHANGED server
        \/ \E episode \in Episodes, body \in {"json", "malformed"}, token \in Tokens :
              /\ call' = [call EXCEPT ![c] = Waiting(op, episode, body, token)]
              /\ server' = [server EXCEPT ![c] = Travelling]
    BY SendEffect
<1>2. UNCHANGED config /\ happened' = [happened EXCEPT ![c] = {}] /\ server[c] \in ServerRecords
      /\ server[c].step = "unreached" /\ server[c].handler = Nothing
      /\ server[c].response = Nothing
    BY SendEffect DEF ConsumerInv, RestInv, CallInv, SidesInv
<1>3. op # Nothing /\ Nothing \notin Results
    BY NothingAssumption
<1>4. CASE call' = [call EXCEPT ![c] = Unsent(op)] /\ UNCHANGED server
    <2> DEFINE q == Unsent(op) s == server[c]
    <2>1. q \in CallRecords
        BY DEF Unsent, CallRecords, Results, Tokens
    <2>2. server' = [server EXCEPT ![c] = s]
        BY <1>4 DEF ConsumerInv, RestInv
    <2>3. CallInv(q, s, {})
        BY <1>2, <1>3 DEF CallInv, SidesInv, RequestInv, AnswerInv, True, Unsent, Results, Refusals
    <2>4. call' = [call EXCEPT ![c] = q] /\ s \in ServerRecords
        BY <1>2, <1>4
    <2> HIDE DEF q, s
    <2> QED
        BY <1>2, <2>1, <2>2, <2>3, <2>4, OneCall DEF ConsumerInv
<1>5. CASE \E episode \in Episodes, body \in {"json", "malformed"}, token \in Tokens :
              /\ call' = [call EXCEPT ![c] = Waiting(op, episode, body, token)]
              /\ server' = [server EXCEPT ![c] = Travelling]
    <2>1. PICK episode \in Episodes, body \in {"json", "malformed"}, token \in Tokens :
              /\ call' = [call EXCEPT ![c] = Waiting(op, episode, body, token)]
              /\ server' = [server EXCEPT ![c] = Travelling]
        BY <1>5
    <2> DEFINE q == Waiting(op, episode, body, token)
    <2>2. q \in CallRecords /\ Travelling \in ServerRecords
        BY SentTyped DEF ConsumerInv, RestInv, Waiting, CallRecords, Travelling, ServerRecords
    <2>3. SidesInv(q, Travelling, {})
        BY <1>3 DEF SidesInv, Waiting, Travelling, Results, Refusals
    <2>4. RequestInv(q, Travelling)
        BY DEF RequestInv, Waiting, Travelling
    <2>5. AnswerInv(q, Travelling, {})
        BY <1>3 DEF AnswerInv, True, Waiting, Travelling, Results, Refusals
    <2> HIDE DEF q
    <2> QED
        BY <1>2, <2>1, <2>2, <2>3, <2>4, <2>5, OneCall DEF ConsumerInv, CallInv, q
<1> QED
    BY <1>1, <1>4, <1>5

(* A call that returns. *)
Ended(q, result) == [q EXCEPT !.step = "returned", !.result = result]

LEMMA EndedShape ==
    ASSUME NEW q \in CallRecords, NEW result \in Results
    PROVE  /\ Ended(q, result) \in CallRecords
           /\ Ended(q, result).step = "returned" /\ Ended(q, result).op = q.op
           /\ Ended(q, result).request = q.request /\ Ended(q, result).token = q.token
           /\ Ended(q, result).result = result
BY DEF Ended, CallRecords

LEMMA ReturnedCall ==
    ASSUME ConsumerInv, NEW c \in Calls, NEW result \in Results,
           call[c].step = "waiting",
           Return(c, result), UNCHANGED <<config, server, happened>>,
           result \in Refusals \cup {"ok"} => server[c].step = "answered",
           peer = "service" => True(call[c], result, happened[c])
    PROVE  /\ RestInv' /\ Ended(call[c], result) \in CallRecords
           /\ call' = [call EXCEPT ![c] = Ended(call[c], result)]
           /\ server' = [server EXCEPT ![c] = server[c]]
<1> DEFINE q == Ended(call[c], result) s == server[c] h == happened[c]
<1>1. /\ call[c] \in CallRecords /\ s \in ServerRecords /\ h \in SUBSET Ops
      /\ CallInv(call[c], s, h)
    BY DEF ConsumerInv, RestInv
<1>2. /\ call' = [call EXCEPT ![c] = q]
      /\ server' = [server EXCEPT ![c] = s]
      /\ happened' = [happened EXCEPT ![c] = h]
    BY DEF Return, Ended, ConsumerInv, RestInv
<1>3. /\ q \in CallRecords
      /\ q.step = "returned" /\ q.op = call[c].op
      /\ q.request = call[c].request /\ q.token = call[c].token
      /\ q.result = result
    BY <1>1, EndedShape
<1>4. result # Nothing /\ "error" # Nothing /\ h \subseteq happened[c]
    BY NothingAssumption DEF Results
<1> HIDE DEF q, s, h
<1>5. SidesInv(q, s, h)
    BY <1>1, <1>3, <1>4 DEF CallInv, SidesInv, s
<1>6. RequestInv(q, s)
    BY <1>1, <1>3 DEF CallInv, RequestInv
<1>7. AnswerInv(q, s, h)
    BY <1>1, <1>3 DEF CallInv, AnswerInv, True, s, h
<1>8. CallInv(q, s, h)
    BY <1>5, <1>6, <1>7 DEF CallInv
<1>9. RestInv'
    BY <1>1, <1>2, <1>3, <1>4, <1>8, OneCall DEF ConsumerInv
<1> QED
    BY <1>2, <1>3, <1>9 DEF q, s

LEMMA ReceivedCall ==
    ASSUME ConsumerInv, NEW c \in Calls, Receive(c)
    PROVE  /\ RestInv'
           /\ ResultOf[call[c].op][server[c].response] \in Results
           /\ Return(c, ResultOf[call[c].op][server[c].response])
           /\ call[c].step = "waiting" /\ server[c].step = "answered"
           /\ UNCHANGED <<config, server, happened>>
<1> DEFINE result == ResultOf[call[c].op][server[c].response]
<1>1. /\ call[c].step = "waiting" /\ server[c].step = "answered"
      /\ UNCHANGED <<config, server, happened>>
      /\ Return(c, Result(call[c].op, server[c].response))
    BY DEF Receive
<1>2. call[c].op \in Ops /\ server[c].response \in Responses
    BY <1>1 DEF ConsumerInv, RestInv, CallInv, SidesInv, CallRecords, ServerRecords
<1>3. result \in Results /\ Return(c, result)
    BY <1>1, <1>2, ResultTyped
<1>4. peer = "service" => True(call[c], result, happened[c])
    BY <1>1 DEF ConsumerInv, RestInv, CallInv, AnswerInv
<1> HIDE DEF result
<1>5. RestInv'
    BY <1>1, <1>3, <1>4, ReturnedCall
<1> QED
    BY <1>1, <1>3, <1>5 DEF result

LEMMA GivenUpCall ==
    ASSUME ConsumerInv, NEW c \in Calls, GiveUp(c)
    PROVE  RestInv'
<1>1. True(call[c], "error", happened[c]) /\ "error" \in Results
      /\ "error" \notin Refusals \cup {"ok"}
    BY DEF True, Results, Refusals
<1> QED
    BY <1>1, ReturnedCall DEF GiveUp

(* A step of the side that serves. *)
LEMMA ServedCall ==
    ASSUME ConsumerInv, NEW c \in Calls,
           NEW s \in ServerRecords, NEW h \in SUBSET Ops,
           server[c].step # "unreached",
           UNCHANGED <<config, call>>,
           server' = [server EXCEPT ![c] = s],
           happened' = [happened EXCEPT ![c] = h],
           SidesInv(call[c], s, h), AnswerInv(call[c], s, h)
    PROVE  /\ RestInv' /\ call[c] \in CallRecords
           /\ call' = [call EXCEPT ![c] = call[c]]
<1> DEFINE q == call[c]
<1>1. q \in CallRecords /\ CallInv(q, server[c], happened[c])
    BY DEF ConsumerInv, RestInv
<1>2. call' = [call EXCEPT ![c] = q]
    BY DEF ConsumerInv, RestInv
<1>3. CallInv(q, s, h)
    BY <1>1 DEF CallInv, RequestInv
<1> HIDE DEF q
<1>4. RestInv'
    BY <1>1, <1>2, <1>3, OneCall DEF ConsumerInv
<1> QED
    BY <1>1, <1>2, <1>4 DEF q

Answered(s, response) == [s EXCEPT !.step = "answered", !.response = response]

LEMMA RepliedCall ==
    ASSUME ConsumerInv, NEW c \in Calls,
           NEW response \in Responses, NEW h \in SUBSET Ops,
           server[c].step \in {"travelling", "handling"},
           Reply(c, response), UNCHANGED <<config, call>>,
           happened' = [happened EXCEPT ![c] = h],
           h \subseteq {call[c].op} \cap {server[c].handler},
           peer = "service" => True(call[c], ResultOf[call[c].op][response], h),
           peer = "fake" => h = {}
    PROVE  /\ RestInv' /\ call[c] \in CallRecords
           /\ call' = [call EXCEPT ![c] = call[c]]
           /\ server' = [server EXCEPT ![c] = Answered(server[c], response)]
           /\ Answered(server[c], response) \in ServerRecords
<1> DEFINE q == call[c] s == Answered(server[c], response)
<1>1. /\ q \in CallRecords /\ server[c] \in ServerRecords
      /\ SidesInv(q, server[c], happened[c]) /\ AnswerInv(q, server[c], happened[c])
    BY DEF ConsumerInv, RestInv, CallInv
<1>2. server' = [server EXCEPT ![c] = s]
    BY DEF Reply, Answered, ConsumerInv, RestInv
<1>3. /\ s \in ServerRecords /\ s.step = "answered"
      /\ s.handler = server[c].handler /\ s.response = response
    BY <1>1 DEF Answered, ServerRecords
<1>4. response # Nothing
    BY NothingAssumption
<1> HIDE DEF q, s
<1>5. SidesInv(q, s, h)
    BY <1>1, <1>3, <1>4 DEF SidesInv, q
<1>6. q.result \notin Refusals \cup {"ok"}
    BY <1>1 DEF SidesInv
<1>7. AnswerInv(q, s, h)
    BY <1>1, <1>3, <1>6 DEF AnswerInv, True, q
<1>8. RestInv' /\ call[c] \in CallRecords /\ call' = [call EXCEPT ![c] = call[c]]
    BY <1>2, <1>3, <1>5, <1>7, ServedCall DEF q
<1> QED
    BY <1>2, <1>3, <1>8 DEF s

LEMMA RefusalMeans ==
    ASSUME NEW op \in Ops
    PROVE  /\ Response(404, "none") \in Responses
           /\ Response(401, "other") \in Responses
           /\ Response(400, "other") \in Responses
           /\ ResultOf[op][Response(404, "none")] = "not_found"
           /\ ResultOf[op][Response(401, "other")] = "unauthorized"
           /\ ResultOf[op][Response(400, "other")] = "bad_request"
<1>1. /\ Response(404, "none") \in Responses
      /\ Response(401, "other") \in Responses
      /\ Response(400, "other") \in Responses
    BY DEF Response, Responses, Bodies
<1>2. ASSUME NEW r \in Responses, r.status \in {400, 401, 404}
      PROVE  Result(op, r) = ResolveStatusError(r.status)
    <2>1. Parsed(op, r) = "no_JSON200"
        BY <1>2 DEF Parsed
    <2> QED
        BY <1>2, <2>1 DEF Result
<1>3. /\ ResolveStatusError(404) = "not_found"
      /\ ResolveStatusError(401) = "unauthorized"
      /\ ResolveStatusError(400) = "bad_request"
    BY DEF ResolveStatusError
<1> QED
    BY <1>1, <1>2, <1>3, ResultTyped DEF Response

(* A request that is under way is its call's own. *)
LEMMA UnderWay ==
    ASSUME ConsumerInv, NEW c \in Calls, server[c].step \in {"travelling", "handling"}
    PROVE  /\ call[c].op \in Ops
           /\ \E episode \in Episodes : call[c].request = Sent(base, call[c].op, episode)
           /\ base \in {<<>>, <<"elsewhere">>}
           /\ happened[c] = {}
           /\ UNCHANGED happened => happened' = [happened EXCEPT ![c] = {}]
<1>1. /\ call[c] \in CallRecords /\ CallInv(call[c], server[c], happened[c])
      /\ happened \in [Calls -> SUBSET Ops]
      /\ base \in {<<>>, <<"elsewhere">>}
    BY DEF ConsumerInv, RestInv, ConfigInv
<1>2. call[c].op \in Ops /\ happened[c] = {}
    BY <1>1 DEF CallInv, SidesInv, CallRecords
<1>3. [happened EXCEPT ![c] = {}] = happened
    BY <1>1, <1>2
<1> QED
    BY <1>1, <1>2, <1>3 DEF CallInv, RequestInv

LEMMA DispatchedCall ==
    ASSUME ConsumerInv, NEW c \in Calls, Dispatch(c)
    PROVE  RestInv'
<1> DEFINE op == call[c].op
<1>1. /\ server[c].step = "travelling" /\ UNCHANGED <<config, call>> /\ op \in Ops
      /\ happened' = [happened EXCEPT ![c] = {}]
      /\ base \in {<<>>, <<"elsewhere">>}
    BY UnderWay DEF Dispatch
<1>2. HandlersOf(call[c].request) \subseteq {op}
    BY <1>1, UnderWay, HandlerOfRequest
<1>3. ASSUME NEW response \in Responses, Reply(c, response),
             ResultOf[op][response] \in Refusals
      PROVE  RestInv'
    <2> DEFINE h == {}
    <2>1. True(call[c], ResultOf[op][response], h)
        BY <1>3 DEF True, Refusals
    <2>2. /\ h \in SUBSET Ops /\ h \subseteq {call[c].op} \cap {server[c].handler}
          /\ happened' = [happened EXCEPT ![c] = h]
        BY <1>1
    <2>3. peer = "fake" => h = {}
        OBVIOUS
    <2> HIDE DEF h
    <2> QED
        BY <1>1, <1>3, <2>1, <2>2, <2>3, RepliedCall
<1>4. CASE HandlersOf(call[c].request) = {} /\ Reply(c, Response(404, "none"))
    BY <1>1, <1>3, <1>4, RefusalMeans DEF Refusals
<1>5. ASSUME NEW h \in HandlersOf(call[c].request)
      PROVE  h = op
    BY <1>2
<1>6. CASE Reply(c, Response(401, "other"))
    BY <1>1, <1>3, <1>6, RefusalMeans DEF Refusals
<1>7. CASE Reply(c, Response(400, "other"))
    BY <1>1, <1>3, <1>7, RefusalMeans DEF Refusals
<1>8. CASE server' = [server EXCEPT ![c].step = "handling", ![c].handler = op]
    <2> DEFINE s == [server[c] EXCEPT !.step = "handling", !.handler = op]
    <2> DEFINE h == happened[c]
    <2>1. /\ server[c] \in ServerRecords /\ CallInv(call[c], server[c], h)
          /\ server' = [server EXCEPT ![c] = s]
          /\ happened' = [happened EXCEPT ![c] = h]
          /\ h = {} /\ h \in SUBSET Ops /\ h \subseteq happened[c]
        BY <1>1, <1>8, UnderWay DEF ConsumerInv, RestInv
    <2>2. /\ s \in ServerRecords /\ s.step = "handling" /\ s.handler = op
          /\ s.response = server[c].response
        BY <1>1, <2>1 DEF ServerRecords
    <2> HIDE DEF s, h
    <2>3. SidesInv(call[c], s, h)
        BY <1>1, <2>1, <2>2 DEF CallInv, SidesInv
    <2>4. AnswerInv(call[c], s, h)
        BY <2>1, <2>2 DEF CallInv, AnswerInv
    <2> QED
        BY <1>1, <2>1, <2>2, <2>3, <2>4, ServedCall
<1> QED
    BY <1>4, <1>5, <1>6, <1>7, <1>8 DEF Dispatch

LEMMA HandledCall ==
    ASSUME ConsumerInv, peer = "service", NEW c \in Calls, Handle(c)
    PROVE  RestInv'
<1> DEFINE op == server[c].handler
<1>1. /\ server[c].step = "handling" /\ UNCHANGED <<config, call>> /\ op \in Ops
      /\ happened[c] = {} /\ op = call[c].op
    BY UnderWay DEF Handle, ConsumerInv, RestInv, CallInv, SidesInv
<1>2. PICK outcome \in Outcomes(op) : \E done \in Done(op, outcome) :
            /\ Reply(c, Answer(op, outcome))
            /\ happened' = [happened EXCEPT ![c] = IF done THEN @ \cup {op} ELSE @]
    BY DEF Handle
<1>3. PICK done \in Done(op, outcome) :
            /\ Reply(c, Answer(op, outcome))
            /\ happened' = [happened EXCEPT ![c] = IF done THEN @ \cup {op} ELSE @]
    BY <1>2
<1> DEFINE h == IF done THEN {op} ELSE {}
           response == Answer(op, outcome)
<1>4. happened' = [happened EXCEPT ![c] = h]
    BY <1>1, <1>3
<1>5. /\ response \in Responses /\ ResultOf[op][response] = Result(op, response)
      /\ outcome = "ok" => Result(op, response) = "ok"
      /\ outcome = "internal" => Result(op, response) = "internal_server"
      /\ outcome \notin {"ok", "internal"} =>
            Result(op, response)
               \in {"not_found", "forbidden", "conflict", "bad_request", "internal_server"}
    BY <1>1, <1>2, AnswerMeans, ResultTyped
<1>6. /\ outcome = "ok" => done = TRUE
      /\ outcome \notin {"ok", "internal"} => done = FALSE
    BY DEF Done
<1>7. True(call[c], ResultOf[op][response], h)
    BY <1>1, <1>5, <1>6 DEF True, Refusals
<1>8. h \in SUBSET Ops /\ h \subseteq {op} 
    BY <1>1
<1>9. Reply(c, response)
    BY <1>3
<1> HIDE DEF response, h, op
<1>10. h \subseteq {call[c].op} \cap {server[c].handler}
    BY <1>1, <1>8 DEF op
<1>11. peer # "fake"
    OBVIOUS
<1> QED
    BY <1>1, <1>4, <1>5, <1>7, <1>8, <1>9, <1>10, <1>11, RepliedCall DEF op

LEMMA VanishedCall ==
    ASSUME ConsumerInv, peer = "service", NEW c \in Calls, Vanish(c)
    PROVE  RestInv'
<1> DEFINE q == call[c]
           s == [server[c] EXCEPT !.step = "gone", !.response = Nothing]
<1>1. /\ q \in CallRecords /\ server[c] \in ServerRecords
      /\ happened[c] \in SUBSET Ops
      /\ SidesInv(q, server[c], happened[c]) /\ AnswerInv(q, server[c], happened[c])
    BY DEF ConsumerInv, RestInv, CallInv
<1>2. /\ server[c].step \in {"travelling", "handling", "answered"}
      /\ server' = [server EXCEPT ![c] = s] /\ UNCHANGED <<config, call>>
    BY DEF Vanish, ConsumerInv, RestInv
<1>3. /\ s \in ServerRecords /\ s.step = "gone"
      /\ s.handler = server[c].handler /\ s.response = Nothing
    BY <1>1 DEF ServerRecords
<1>4. PICK h \in SUBSET Ops :
        /\ happened' = [happened EXCEPT ![c] = h]
        /\ \/ h = happened[c]
           \/ /\ server[c].step = "handling" /\ h = {server[c].handler}
    <2>1. CASE UNCHANGED happened
        <3>1. happened' = [happened EXCEPT ![c] = happened[c]]
            BY <2>1 DEF ConsumerInv, RestInv
        <3> QED
            BY <1>1, <3>1
    <2>2. CASE /\ server[c].step = "handling"
               /\ happened' = [happened EXCEPT ![c] = @ \cup {server[c].handler}]
        <3>1. happened[c] = {} /\ server[c].handler \in Ops
            BY <1>1, <2>2, UnderWay DEF SidesInv
        <3>2. happened' = [happened EXCEPT ![c] = {server[c].handler}]
            BY <2>2, <3>1
        <3> QED
            BY <2>2, <3>1, <3>2
    <2> QED
        BY <2>1, <2>2 DEF Vanish
<1> HIDE DEF q, s
<1>5. SidesInv(q, s, h)
    BY <1>1, <1>2, <1>3, <1>4 DEF SidesInv
<1>6. AnswerInv(q, s, h)
    <2>1. CASE h = happened[c]
        BY <1>1, <1>3, <2>1 DEF AnswerInv
    <2>2. CASE server[c].step = "handling" /\ h = {server[c].handler}
        <3>1. q.result \notin Refusals \cup {"ok"} /\ server[c].handler = q.op
            BY <1>1, <2>2 DEF SidesInv
        <3> QED
            BY <1>1, <1>3, <2>2, <3>1 DEF AnswerInv, True
    <2> QED
        BY <1>4, <2>1, <2>2
<1>7. server[c].step # "unreached"
    BY <1>2
<1> QED
    BY <1>2, <1>3, <1>4, <1>5, <1>6, <1>7, ServedCall DEF q

-----------------------------------------------------------------------------
(* The fake *)

(* What the fake sends for a Fn is read as the test meant the Fn.           *)
FnAnswer(op, f) == IF f = Nothing THEN Default(op) ELSE WriteJSON(f)

LEMMA FnAnswerMeans ==
    ASSUME NEW op \in Story, NEW f \in Answers \cup {Nothing}
    PROVE  /\ FnAnswer(op, f) \in Responses
           /\ ResultOf[op][FnAnswer(op, f)] = Means(op, f)
           /\ MeansOf[op][f] = Means(op, f)
<1>1. MeansOf[op][f] = Means(op, f)
    BY DEF MeansOf
<1>2. op \in Ops /\ op \notin Silent
    BY DEF Ops, Story, Silent
<1>3. CASE f = Nothing
    <2>1. FnAnswer(op, f) = Default(op) /\ Default(op) \in Responses
        BY <1>3 DEF FnAnswer, Default, Response, Responses, Bodies
    <2>2. Means(op, f) = Result(op, Default(op))
        BY <1>3 DEF Means
    <2> QED
        BY <1>1, <1>2, <2>1, <2>2, ResultTyped
<1>4. CASE f # Nothing
    <2>1. f \in Programs
        BY <1>4, AnswersAssumption
    <2>2. FnAnswer(op, f) = WriteJSON(f) /\ Means(op, f) = Result(op, f)
        BY <1>4 DEF FnAnswer, Means
    <2>3. CASE f.status # 204
        <3>1. WriteJSON(f) = f /\ f \in Responses
            BY <2>1, <2>3 DEF WriteJSON, Programs, Responses
        <3> QED
            BY <1>1, <1>2, <2>2, <3>1, ResultTyped
    <2>4. CASE f.status = 204
        <3> DEFINE r == Response(204, "none")
        <3>1. WriteJSON(f) = r /\ r \in Responses /\ r.status = 204
            BY <2>4 DEF WriteJSON, Response, Responses, Bodies
        <3>2. ASSUME NEW x, x.status = 204
              PROVE  Result(op, x) = "unexpected"
            <4>1. Parsed(op, x) = "no_JSON200"
                BY <3>2 DEF Parsed
            <4>2. ResolveStatusError(204) = "unexpected"
                BY DEF ResolveStatusError
            <4> QED
                BY <1>2, <3>2, <4>1, <4>2 DEF Result
        <3>3. Result(op, r) = Result(op, f)
            BY <2>4, <3>1, <3>2
        <3> HIDE DEF r
        <3> QED
            BY <1>1, <1>2, <2>2, <3>1, <3>3, ResultTyped
    <2> QED
        BY <2>3, <2>4
<1> QED
    BY <1>3, <1>4

LEMMA CalledFake ==
    ASSUME ConsumerInv, NEW c \in Calls, Call(c)
    PROVE  ConsumerInv'
<1>1. Send(c) /\ UNCHANGED <<fn, copied, config>>
    BY SendEffect DEF Call
<1>2. RestInv'
    BY <1>1, SentCall
<1> DEFINE m == IF peer = "fake" /\ call'[c].op \in Story THEN {fn[call'[c].op]} ELSE {}
           s == server'[c]
           q == call'[c]
           k == copied[c]
<1>3. seen' = [seen EXCEPT ![c] = m] /\ m \in SUBSET (Answers \cup {Nothing})
    BY DEF Call, ConsumerInv, FakeInv
<1>4. copied' = [copied EXCEPT ![c] = k] /\ k \in Answers \cup {Nothing}
    BY <1>1 DEF ConsumerInv, FakeInv
<1>5. PICK op \in Ops :
        \/ call' = [call EXCEPT ![c] = Unsent(op)] /\ UNCHANGED server
        \/ \E episode \in Episodes, body \in {"json", "malformed"}, token \in Tokens :
              /\ call' = [call EXCEPT ![c] = Waiting(op, episode, body, token)]
              /\ server' = [server EXCEPT ![c] = Travelling]
    BY <1>1, SendEffect
<1>6. /\ call' = [call EXCEPT ![c] = q] /\ server' = [server EXCEPT ![c] = s]
      /\ q \in CallRecords /\ s \in ServerRecords
    BY <1>2, <1>5 DEF ConsumerInv, RestInv
<1>7. /\ q.op = op /\ s.step \in {"unreached", "travelling"}
      /\ q.step = "returned" => q.result = "error"
    <2>1. server[c].step = "unreached"
        BY <1>1, SendEffect DEF ConsumerInv, RestInv, CallInv, SidesInv
    <2>2. CASE call' = [call EXCEPT ![c] = Unsent(op)] /\ UNCHANGED server
        <3>1. q = Unsent(op) /\ s = server[c]
            BY <2>2 DEF ConsumerInv, RestInv
        <3> QED
            BY <2>1, <3>1 DEF Unsent
    <2>3. ASSUME NEW episode \in Episodes, NEW body, NEW token,
                 call' = [call EXCEPT ![c] = Waiting(op, episode, body, token)],
                 server' = [server EXCEPT ![c] = Travelling]
          PROVE  q.op = op /\ s.step = "travelling" /\ q.step = "waiting"
        <3>1. q = Waiting(op, episode, body, token) /\ s = Travelling
            BY <2>3 DEF ConsumerInv, RestInv
        <3> QED
            BY <3>1 DEF Waiting, Travelling
    <2> QED
        BY <1>5, <2>2, <2>3
<1> HIDE DEF q, s, k
<1>8. ASSUME peer = "fake"
      PROVE  ProgramInv(q, s, k, m)
    BY <1>7, <1>8 DEF ProgramInv, q
<1> HIDE DEF m
<1>9. FakeInv'
    BY <1>1, <1>3, <1>4, <1>6, <1>8, OneFakeCall DEF ConsumerInv
<1> QED
    BY <1>2, <1>9 DEF ConsumerInv

LEMMA ReturnedFake ==
    ASSUME ConsumerInv, NEW c \in Calls, Receive(c) \/ GiveUp(c), UNCHANGED fakeVars
    PROVE  ConsumerInv'
<1>1. PICK result \in Results :
        /\ Return(c, result) /\ call[c].step = "waiting"
        /\ UNCHANGED <<config, server, happened>>
        /\ RestInv' /\ Ended(call[c], result) \in CallRecords
        /\ call' = [call EXCEPT ![c] = Ended(call[c], result)]
        /\ server' = [server EXCEPT ![c] = server[c]]
        /\ result # "error" => /\ server[c].step = "answered"
                               /\ result = ResultOf[call[c].op][server[c].response]
    <2>1. CASE Receive(c)
        <3> DEFINE result == ResultOf[call[c].op][server[c].response]
        <3>1. /\ RestInv' /\ result \in Results /\ Return(c, result)
              /\ call[c].step = "waiting" /\ server[c].step = "answered"
              /\ UNCHANGED <<config, server, happened>>
            BY <2>1, ReceivedCall
        <3>2. peer = "service" => True(call[c], result, happened[c])
            BY <3>1 DEF ConsumerInv, RestInv, CallInv, AnswerInv
        <3> HIDE DEF result
        <3>3. /\ Ended(call[c], result) \in CallRecords
              /\ call' = [call EXCEPT ![c] = Ended(call[c], result)]
              /\ server' = [server EXCEPT ![c] = server[c]]
            BY <3>1, <3>2, ReturnedCall
        <3> QED
            BY <3>1, <3>3 DEF result
    <2>2. CASE GiveUp(c)
        <3>1. True(call[c], "error", happened[c]) /\ "error" \in Results
              /\ "error" \notin Refusals \cup {"ok"}
            BY DEF True, Results, Refusals
        <3>2. /\ Return(c, "error") /\ call[c].step = "waiting"
              /\ UNCHANGED <<config, server, happened>>
            BY <2>2 DEF GiveUp
        <3>3. /\ RestInv' /\ Ended(call[c], "error") \in CallRecords
              /\ call' = [call EXCEPT ![c] = Ended(call[c], "error")]
              /\ server' = [server EXCEPT ![c] = server[c]]
            BY <3>1, <3>2, ReturnedCall
        <3> QED
            BY <3>1, <3>2, <3>3
    <2> QED
        BY <2>1, <2>2
<1> DEFINE q == Ended(call[c], result) s == server[c] k == copied[c] m == seen[c]
<1>2. /\ copied' = [copied EXCEPT ![c] = k] /\ seen' = [seen EXCEPT ![c] = m]
      /\ k \in Answers \cup {Nothing} /\ m \in SUBSET (Answers \cup {Nothing})
      /\ s \in ServerRecords /\ call[c] \in CallRecords /\ UNCHANGED fn
    BY DEF ConsumerInv, RestInv, FakeInv, fakeVars
<1>3. q.step = "returned" /\ q.op = call[c].op /\ q.result = result
    BY <1>2, EndedShape
<1>4. ASSUME peer = "fake" PROVE ProgramInv(q, s, k, m)
    <2>1. ProgramInv(call[c], s, k, m)
        BY <1>4 DEF ConsumerInv, FakeInv
    <2> HIDE DEF q, s, k, m
    <2> QED
        BY <1>1, <1>3, <2>1 DEF ProgramInv, s
<1>5. /\ call' = [call EXCEPT ![c] = q] /\ server' = [server EXCEPT ![c] = s]
      /\ q \in CallRecords /\ RestInv' /\ UNCHANGED config
    BY <1>1
<1> HIDE DEF q, s, k, m
<1>6. FakeInv'
    BY <1>2, <1>4, <1>5, OneFakeCall DEF ConsumerInv
<1> QED
    BY <1>5, <1>6 DEF ConsumerInv

LEMMA ServiceStepHolds ==
    ASSUME ConsumerInv, NEW c \in Calls, ServiceStep(c), UNCHANGED fakeVars
    PROVE  ConsumerInv'
<1>1. RestInv'
    BY DispatchedCall, HandledCall, VanishedCall DEF ServiceStep
<1>2. peer = "service" /\ UNCHANGED <<config, fakeVars>>
    BY DEF ServiceStep, Dispatch, Handle, Vanish
<1>3. FakeInv'
    BY <1>2 DEF ConsumerInv, FakeInv, config, fakeVars
<1> QED
    BY <1>1, <1>3 DEF ConsumerInv

LEMMA RestUnchanged ==
    ASSUME RestInv, UNCHANGED vars
    PROVE  RestInv'
BY DEF RestInv, ConfigInv, CallInv, SidesInv, RequestInv, AnswerInv, 
       vars, config

LEMMA SetFnHolds ==
    ASSUME ConsumerInv, NEW e \in Story, NEW f \in Answers \cup {Nothing}, SetFn(e, f)
    PROVE  ConsumerInv'
<1>1. UNCHANGED <<vars, copied>> /\ fn' = [fn EXCEPT ![e] = f]
      /\ seen' = [c \in Calls |->
            IF call[c].op = e /\ call[c].step = "waiting" THEN seen[c] \cup {f} ELSE seen[c]]
    BY DEF SetFn
<1>2. RestInv'
    BY <1>1, RestUnchanged DEF ConsumerInv
<1>3. /\ fn' \in [Story -> Answers \cup {Nothing}]
      /\ copied' \in [Calls -> Answers \cup {Nothing}]
      /\ seen' \in [Calls -> SUBSET (Answers \cup {Nothing})]
    BY <1>1 DEF ConsumerInv, FakeInv
<1>4. ASSUME peer = "fake", NEW c \in Calls
      PROVE  ProgramInv(call[c], server[c], copied[c], seen[c])'
    <2> DEFINE q == call[c] s == server[c]
    <2>1. ProgramInv(q, s, copied[c], seen[c])
        BY <1>4 DEF ConsumerInv, FakeInv
    <2>2. seen[c] \subseteq seen'[c] /\ (q.op = e /\ q.step = "waiting" => f \in seen'[c])
        BY <1>1
    <2>3. q' = q /\ s' = s /\ copied'[c] = copied[c]
        BY <1>1 DEF vars
    <2>4. q.step = "waiting" /\ q.op \in Story => fn'[q.op] \in seen'[c]
        BY <1>1, <2>1, <2>2 DEF ConsumerInv, FakeInv, ProgramInv
    <2>5. ASSUME NEW result, Programmed(q.op, result, seen[c])
          PROVE  Programmed(q.op, result, seen'[c])
        BY <2>2, <2>5 DEF Programmed
    <2> HIDE DEF q, s
    <2>6. ProgramInv(q, s, copied[c], seen[c])'
        BY <2>1, <2>2, <2>3, <2>4, <2>5 DEF ProgramInv
    <2> QED
        BY <2>6 DEF q, s
<1>5. FakeInv'
    BY <1>1, <1>3, <1>4 DEF FakeInv, vars, config
<1> QED
    BY <1>2, <1>5 DEF ConsumerInv

LEMMA FakeUnchanged ==
    ASSUME ConsumerInv, UNCHANGED <<vars, fn, copied, seen>>
    PROVE  ConsumerInv'
<1>1. RestInv'
    BY RestUnchanged DEF ConsumerInv
<1>2. FakeInv'
    BY DEF ConsumerInv, FakeInv, ProgramInv, vars, config
<1> QED
    BY <1>1, <1>2 DEF ConsumerInv

(* An answer of the fake. *)
LEMMA FakeRepliedCall ==
    ASSUME ConsumerInv, peer = "fake", NEW c \in Calls, NEW response \in Responses,
           server[c].step \in {"travelling", "handling"},
           Reply(c, response), UNCHANGED <<config, call, happened, fn, copied, seen>>,
           call[c].step = "waiting" => Programmed(call[c].op, ResultOf[call[c].op][response], seen[c])
    PROVE  ConsumerInv'
<1> DEFINE h == happened[c]
<1>1. h = {} /\ h \in SUBSET Ops /\ happened' = [happened EXCEPT ![c] = h]
    BY UnderWay DEF ConsumerInv, RestInv
<1>2. h \subseteq {call[c].op} \cap {server[c].handler} /\ h \subseteq {"getHealth"}
      /\ "completeOnboarding" \notin h
    BY <1>1
<1>3. peer # "service"
    OBVIOUS
<1> HIDE DEF h
<1>4. /\ RestInv' /\ call[c] \in CallRecords
      /\ call' = [call EXCEPT ![c] = call[c]]
      /\ server' = [server EXCEPT ![c] = Answered(server[c], response)]
      /\ Answered(server[c], response) \in ServerRecords
    BY <1>1, <1>2, <1>3, RepliedCall
<1> DEFINE q == call[c] s == Answered(server[c], response) k == copied[c] m == seen[c]
<1>5. /\ copied' = [copied EXCEPT ![c] = k] /\ seen' = [seen EXCEPT ![c] = m]
      /\ k \in Answers \cup {Nothing} /\ m \in SUBSET (Answers \cup {Nothing})
      /\ server[c] \in ServerRecords
    BY DEF ConsumerInv, RestInv, FakeInv
<1>6. s.step = "answered" /\ s.response = response
    BY <1>5 DEF Answered, ServerRecords
<1>7. ProgramInv(q, server[c], k, m)
    BY DEF ConsumerInv, FakeInv
<1> HIDE DEF s
<1>8. ProgramInv(q, s, k, m)
    BY <1>6, <1>7 DEF ProgramInv
<1> HIDE DEF q, k, m
<1>9. FakeInv'
    BY <1>4, <1>5, <1>8, OneFakeCall DEF ConsumerInv, q, s
<1> QED
    BY <1>4, <1>9 DEF ConsumerInv

LEMMA FoundCall ==
    ASSUME ConsumerInv, peer = "fake", NEW c \in Calls, Find(c)
    PROVE  ConsumerInv'
<1> DEFINE op == call[c].op
<1>1. /\ server[c].step = "travelling" /\ op \in Ops /\ base = <<>>
      /\ UNCHANGED <<config, call, happened, fn, seen>>
    BY UnderWay DEF Find, ConsumerInv, RestInv, ConfigInv
<1>2. EndpointsOf(call[c].request) = {op} \cap Story
    BY <1>1, UnderWay, EndpointOfRequest
<1>3. CASE /\ EndpointsOf(call[c].request) = {}
           /\ Reply(c, Response(404, "none"))
           /\ UNCHANGED copied
    <2>1. op \notin Story
        BY <1>2, <1>3
    <2>2. Programmed(op, ResultOf[op][Response(404, "none")], seen[c])
        BY <1>1, <2>1, RefusalMeans DEF Programmed
    <2>3. Response(404, "none") \in Responses
        BY <1>1, RefusalMeans
    <2> QED
        BY <1>1, <1>3, <2>2, <2>3, FakeRepliedCall
<1>4. CASE op \in Story
           /\ server' = [server EXCEPT ![c].step = "handling", ![c].handler = op]
           /\ copied' = [copied EXCEPT ![c] = fn[op]]
    <2> DEFINE q == call[c] s == [server[c] EXCEPT !.step = "handling", !.handler = op]
               h == happened[c] k == fn[op] m == seen[c]
    <2>1. /\ server[c] \in ServerRecords /\ q \in CallRecords /\ CallInv(q, server[c], h)
          /\ server' = [server EXCEPT ![c] = s]
          /\ happened' = [happened EXCEPT ![c] = h]
          /\ seen' = [seen EXCEPT ![c] = m]
          /\ h = {} /\ h \in SUBSET Ops /\ h \subseteq happened[c]
          /\ k \in Answers \cup {Nothing} /\ m \in SUBSET (Answers \cup {Nothing})
        BY <1>1, <1>4, UnderWay DEF ConsumerInv, RestInv, FakeInv
    <2>2. /\ s \in ServerRecords /\ s.step = "handling" /\ s.handler = op
          /\ s.response = server[c].response
        BY <1>1, <2>1 DEF ServerRecords
    <2> HIDE DEF s, h
    <2>3. SidesInv(call[c], s, h)
        BY <1>1, <2>1, <2>2 DEF CallInv, SidesInv
    <2>4. AnswerInv(call[c], s, h)
        BY <2>1, <2>2 DEF CallInv, AnswerInv
    <2>5. RestInv' /\ call' = [call EXCEPT ![c] = call[c]]
        BY <1>1, <2>1, <2>2, <2>3, <2>4, ServedCall
    <2>6. ProgramInv(q, server[c], copied[c], m)
        BY DEF ConsumerInv, FakeInv
    <2>7. ProgramInv(q, s, k, m)
        BY <1>4, <2>2, <2>6 DEF ProgramInv
    <2>8. copied' = [copied EXCEPT ![c] = k] /\ call' = [call EXCEPT ![c] = q]
        BY <1>4, <2>5
    <2> HIDE DEF q, k, m
    <2>9. FakeInv'
        BY <1>1, <2>1, <2>2, <2>7, <2>8, OneFakeCall DEF ConsumerInv
    <2> QED
        BY <2>5, <2>9 DEF ConsumerInv
<1>5. ASSUME NEW e \in EndpointsOf(call[c].request) PROVE e = op /\ op \in Story
    BY <1>2
<1> QED
    BY <1>3, <1>4, <1>5 DEF Find

LEMMA ServedFake ==
    ASSUME ConsumerInv, peer = "fake", NEW c \in Calls, Serve(c)
    PROVE  ConsumerInv'
<1> DEFINE op == call[c].op f == copied[c]
<1>1. /\ server[c].step = "handling" /\ server[c].handler = op
      /\ UNCHANGED <<config, call, happened, fn, copied, seen>>
      /\ Reply(c, FnAnswer(server[c].handler, f))
      /\ f \in Answers \cup {Nothing}
      /\ ProgramInv(call[c], server[c], f, seen[c])
    BY DEF Serve, FnAnswer, fakeVars, ConsumerInv, RestInv, CallInv, SidesInv, FakeInv
<1>2. op \in Story /\ (call[c].step = "waiting" => f \in seen[c])
    BY <1>1 DEF ProgramInv
<1>3. /\ FnAnswer(op, f) \in Responses
      /\ ResultOf[op][FnAnswer(op, f)] = MeansOf[op][f]
    BY <1>1, <1>2, FnAnswerMeans
<1>4. call[c].step = "waiting" => Programmed(op, ResultOf[op][FnAnswer(op, f)], seen[c])
    BY <1>2, <1>3 DEF Programmed
<1> QED
    BY <1>1, <1>3, <1>4, FakeRepliedCall

LEMMA StepHolds == ConsumerInv /\ [ConsumerNext]_allVars => ConsumerInv'
<1> SUFFICES ASSUME ConsumerInv, [ConsumerNext]_allVars PROVE ConsumerInv'
    OBVIOUS
<1>1. ASSUME NEW c \in Calls, Call(c) PROVE ConsumerInv'
    BY <1>1, CalledFake
<1>2. ASSUME NEW c \in Calls, Receive(c) \/ GiveUp(c), UNCHANGED fakeVars PROVE ConsumerInv'
    BY <1>2, ReturnedFake
<1>3. ASSUME NEW c \in Calls, ServiceStep(c), UNCHANGED fakeVars PROVE ConsumerInv'
    BY <1>3, ServiceStepHolds
<1>4. CASE FakeStep
    <2>1. ASSUME NEW e \in Story, NEW f \in Answers \cup {Nothing}, SetFn(e, f)
          PROVE  ConsumerInv'
        BY <2>1, SetFnHolds
    <2>2. CASE Close \/ Closed
        BY <2>2, FakeUnchanged DEF Close, Closed
    <2>3. ASSUME NEW c \in Calls, Find(c) PROVE ConsumerInv'
        BY <1>4, <2>3, FoundCall DEF FakeStep
    <2>4. ASSUME NEW c \in Calls, Serve(c) PROVE ConsumerInv'
        BY <1>4, <2>4, ServedFake DEF FakeStep
    <2> QED
        BY <1>4, <2>1, <2>2, <2>3, <2>4 DEF FakeStep
<1>5. CASE UNCHANGED allVars
    BY <1>5, FakeUnchanged DEF allVars, fakeVars
<1> QED
    BY <1>1, <1>2, <1>3, <1>4, <1>5 DEF ConsumerNext

(* The invariant holds throughout: what Rest and ServerFake let a test and  *)
(* its consumers do, in any order, keeps both sides of every call together. *)
THEOREM Invariance == ConsumerSpec => []ConsumerInv
BY InitHolds, StepHolds, PTL DEF ConsumerSpec

-----------------------------------------------------------------------------
(* What follows from it *)

(* Every variable has its type, and the service holds a response exactly    *)
(* while one is on its way.                                                 *)
THEOREM TypeCorrect == ConsumerSpec => []TypeOK
<1>1. ConsumerInv => TypeOK
    <2> SUFFICES ASSUME ConsumerInv PROVE TypeOK
        OBVIOUS
    <2>1. base \in Seq({"elsewhere"})
        <3>1. <<>> \in Seq({"elsewhere"}) /\ <<"elsewhere">> \in Seq({"elsewhere"})
            OBVIOUS
        <3> QED
            BY <3>1 DEF ConsumerInv, RestInv, ConfigInv
    <2>2. peer \in {"service", "fake"}
        BY DEF ConsumerInv, RestInv, ConfigInv
    <2>3. \A c \in Calls :
            /\ (server[c].response # Nothing) <=> (server[c].step = "answered")
            /\ happened[c] # {} => server[c].handler # Nothing
        <3> SUFFICES ASSUME NEW c \in Calls
                     PROVE  /\ (server[c].response # Nothing) <=> (server[c].step = "answered")
                            /\ happened[c] # {} => server[c].handler # Nothing
            OBVIOUS
        <3>1. SidesInv(call[c], server[c], happened[c]) /\ happened[c] \in SUBSET Ops
            BY DEF ConsumerInv, RestInv, CallInv
        <3>2. Nothing \notin Ops
            BY NothingAssumption
        <3> QED
            BY <3>1, <3>2 DEF SidesInv
    <2> QED
        BY <2>1, <2>2, <2>3
           DEF ConsumerInv, RestInv, TypeOK, CallRecords, ServerRecords, RequestRecords
<1> QED
    BY Invariance, <1>1, PTL

(* The two ends keep one contract: no call to the service ends with the     *)
(* error for a status the client does not know, whatever is asked, however  *)
(* the call of the service ends, and whoever gives up when (client.go       *)
(* 176-196).                                                                *)
THEOREM ContractKept == ConsumerSpec => []NeverUnexpected
<1>1. ConsumerInv => NeverUnexpected
    BY DEF ConsumerInv, RestInv, CallInv, AnswerInv, True, NeverUnexpected
<1> QED
    BY Invariance, <1>1, PTL

(* The fake answers as a test programs it: a call that is not given up ends *)
(* as one of the Fns means that its endpoint had during the call, however   *)
(* the test changes them meanwhile (apiscenarioserverfake/server.go 30-33). *)
THEOREM FakeAnswers == ConsumerSpec => []AnsweredAsProgrammed
<1>1. ConsumerInv => AnsweredAsProgrammed
    <2> SUFFICES ASSUME ConsumerInv, peer = "fake", NEW c \in Calls,
                        call[c].step = "returned", call[c].result # "error"
                 PROVE  \/ /\ call[c].op \in Story
                           /\ \E f \in seen[c] : call[c].result = Means(call[c].op, f)
                        \/ call[c].op \notin Story /\ call[c].result = "not_found"
        BY DEF AnsweredAsProgrammed
    <2>1. Programmed(call[c].op, call[c].result, seen[c])
        BY DEF ConsumerInv, FakeInv, ProgramInv
    <2>2. seen[c] \in SUBSET (Answers \cup {Nothing})
        BY DEF ConsumerInv, FakeInv
    <2>3. ASSUME call[c].op \in Story, NEW f \in seen[c], call[c].result = MeansOf[call[c].op][f]
          PROVE  call[c].result = Means(call[c].op, f)
        BY <2>2, <2>3, FnAnswerMeans
    <2> QED
        BY <2>1, <2>3 DEF Programmed
<1> QED
    BY Invariance, <1>1, PTL

-----------------------------------------------------------------------------
(* The calls keep what RemoteCall promises *)

VerdictOf == [result \in Results \cup {Nothing} |-> Verdict(result)]
Asked == [c \in Calls |-> call[c].op]
AllTold == [c \in Calls |-> Told(c)]

LEMMA Verdicts ==
    /\ VerdictOf[Nothing] = Nothing /\ VerdictOf["ok"] = "done"
    /\ VerdictOf["error"] = "unknown"
    /\ \A result \in Refusals : VerdictOf[result] = "refused"
    /\ \A result \in Results \ (Refusals \cup {"ok"}) : VerdictOf[result] = "unknown"
    /\ \A result \in Results : VerdictOf[result] = Verdict(result)
<1>1. ASSUME NEW result \in Results \cup {Nothing}
      PROVE  VerdictOf[result] = Verdict(result)
    BY DEF VerdictOf
<1>2. Verdict(Nothing) = Nothing /\ Nothing \notin Results
    <2>1. Nothing \notin Results
        BY NothingAssumption
    <2> QED
        BY <2>1 DEF Verdict, Results
<1>3. ASSUME NEW result \in Results
      PROVE  Verdict(result) = IF result = "ok" THEN "done"
                               ELSE IF result \in Refusals THEN "refused" ELSE "unknown"
    <2>1. result # Nothing
        BY <1>2
    <2>2. "ok" \notin Refusals
        BY DEF Refusals
    <2> QED
        BY <2>1, <2>2 DEF Verdict
<1>4. {"ok", "error"} \cup Refusals \subseteq Results /\ "ok" \notin Refusals /\ "error" \notin Refusals
    BY DEF Results, Refusals
<1> QED
    BY <1>1, <1>2, <1>3, <1>4

LEMMA ToldIs ==
    ASSUME ConsumerInv
    PROVE  AllTold = [c \in Calls |-> IF peer = "fake" THEN Nothing ELSE VerdictOf[call[c].result]]
<1>1. ASSUME NEW c \in Calls
      PROVE  Told(c) = IF peer = "fake" THEN Nothing ELSE VerdictOf[call[c].result]
    <2>1. call[c].result \in Results \cup {Nothing}
        BY DEF ConsumerInv, RestInv, CallRecords
    <2>2. VerdictOf[call[c].result] = Verdict(call[c].result)
        BY <2>1 DEF VerdictOf
    <2> QED
        BY <2>2 DEF Told
<1> QED
    BY <1>1 DEF AllTold

(* A step that changes the result of one call, and its operation perhaps.   *)
LEMMA ToldStep ==
    ASSUME ConsumerInv, ConsumerInv', NEW c \in Calls, NEW q \in CallRecords,
           UNCHANGED config, call' = [call EXCEPT ![c] = q]
    PROVE  /\ Asked' = [Asked EXCEPT ![c] = q.op]
           /\ AllTold' = [AllTold EXCEPT ![c] =
                 IF peer = "fake" THEN Nothing ELSE VerdictOf[q.result]]
           /\ Asked[c] = call[c].op
           /\ AllTold[c] = IF peer = "fake" THEN Nothing ELSE VerdictOf[call[c].result]
<1>1. AllTold' = [d \in Calls |-> IF peer' = "fake" THEN Nothing ELSE VerdictOf[call'[d].result]]
    <2>1. ASSUME NEW d \in Calls
          PROVE  Told(d)' = IF peer' = "fake" THEN Nothing ELSE VerdictOf[call'[d].result]
        <3>1. call'[d].result \in Results \cup {Nothing}
            BY DEF ConsumerInv, RestInv, CallRecords
        <3>2. VerdictOf[call'[d].result] = Verdict(call'[d].result)
            BY <3>1 DEF VerdictOf
        <3> QED
            BY <3>2 DEF Told
    <2> QED
        BY <2>1 DEF AllTold
<1>2. AllTold = [d \in Calls |-> IF peer = "fake" THEN Nothing ELSE VerdictOf[call[d].result]]
    BY ToldIs
<1>3. peer' = peer
    BY DEF config
<1>4. /\ call'[c] = q
      /\ \A d \in Calls \ {c} : call'[d] = call[d]
    BY DEF ConsumerInv, RestInv
<1>5. Asked' = [Asked EXCEPT ![c] = q.op] /\ Asked[c] = call[c].op
    <2>1. Asked' = [d \in Calls |-> call'[d].op]
        BY DEF Asked
    <2>2. Asked = [d \in Calls |-> call[d].op]
        BY DEF Asked
    <2> QED
        BY <1>4, <2>1, <2>2
<1>6. AllTold' = [AllTold EXCEPT ![c] =
                 IF peer = "fake" THEN Nothing ELSE VerdictOf[q.result]]
    BY <1>1, <1>2, <1>3, <1>4
<1>7. AllTold[c] = IF peer = "fake" THEN Nothing ELSE VerdictOf[call[c].result]
    BY <1>2
<1> QED
    BY <1>5, <1>6, <1>7

LEMMA AskedStep ==
    ASSUME ConsumerInv, ConsumerInv', NEW c \in Calls, Call(c)
    PROVE  Promise!Next
<1>1. Send(c) /\ call[c].step = "new" /\ UNCHANGED <<config, happened>>
    BY SendEffect DEF Call
<1>2. PICK op \in Ops, q \in CallRecords :
        /\ call' = [call EXCEPT ![c] = q]
        /\ q.op = op /\ q.result \in {Nothing, "error"}
    <2>1. PICK op \in Ops :
            \/ call' = [call EXCEPT ![c] = Unsent(op)] /\ UNCHANGED server
            \/ \E episode \in Episodes, body \in {"json", "malformed"}, token \in Tokens :
                  /\ call' = [call EXCEPT ![c] = Waiting(op, episode, body, token)]
                  /\ server' = [server EXCEPT ![c] = Travelling]
        BY <1>1, SendEffect
    <2>2. call[c] \in CallRecords /\ call'[c] \in CallRecords
        BY DEF ConsumerInv, RestInv
    <2>3. ASSUME NEW q, call' = [call EXCEPT ![c] = q]
          PROVE  q \in CallRecords
        BY <2>2, <2>3 DEF ConsumerInv, RestInv
    <2>4. Unsent(op).op = op /\ Unsent(op).result = "error"
        BY DEF Unsent
    <2>5. \A episode, body, token : /\ Waiting(op, episode, body, token).op = op
                                    /\ Waiting(op, episode, body, token).result = Nothing
        BY DEF Waiting
    <2> QED
        BY <2>1, <2>3, <2>4, <2>5
<1>3. /\ Asked' = [Asked EXCEPT ![c] = op]
      /\ AllTold' = [AllTold EXCEPT ![c] =
            IF peer = "fake" THEN Nothing ELSE VerdictOf[q.result]]
      /\ Asked[c] = call[c].op
      /\ AllTold[c] = IF peer = "fake" THEN Nothing ELSE VerdictOf[call[c].result]
    BY <1>1, <1>2, ToldStep
<1>4. call[c].op = Nothing /\ call[c].result = Nothing
    BY <1>1 DEF ConsumerInv, RestInv, CallInv, SidesInv
<1>5. Asked[c] = Nothing /\ AllTold[c] = Nothing
    BY <1>3, <1>4, Verdicts
<1>6. AllTold' = AllTold \/ AllTold' = [AllTold EXCEPT ![c] = "unknown"]
    <2>1. AllTold' = [AllTold EXCEPT ![c] = Nothing] \/ AllTold' = [AllTold EXCEPT ![c] = "unknown"]
        BY <1>2, <1>3, Verdicts
    <2>2. [AllTold EXCEPT ![c] = Nothing] = AllTold
        BY <1>5 DEF AllTold
    <2> QED
        BY <2>1, <2>2
<1>7. Promise!Ask(c, op)
    BY <1>1, <1>3, <1>5, <1>6 DEF Promise!Ask, Asked, AllTold
<1> QED
    BY <1>7 DEF Promise!Next

LEMMA ToldReturnStep ==
    ASSUME ConsumerInv, ConsumerInv', NEW c \in Calls, Receive(c) \/ GiveUp(c)
    PROVE  [Promise!Next]_Promise!vars
<1>1. PICK result \in Results :
        /\ Return(c, result) /\ call[c].step = "waiting"
        /\ UNCHANGED <<config, server, happened>>
        /\ peer = "service" => True(call[c], result, happened[c])
    <2>1. CASE Receive(c)
        BY <2>1, ReceivedCall DEF ConsumerInv, RestInv, CallInv, AnswerInv
    <2>2. CASE GiveUp(c)
        BY <2>2 DEF GiveUp, True, Results, Refusals
    <2> QED
        BY <2>1, <2>2
<1> DEFINE q == Ended(call[c], result)
<1>2. call[c] \in CallRecords /\ call' = [call EXCEPT ![c] = q]
    BY <1>1 DEF ConsumerInv, RestInv, Return, Ended
<1>3. q \in CallRecords /\ q.op = call[c].op /\ q.result = result
    BY <1>2, EndedShape
<1>4. call[c].op \in Ops /\ call[c].op # Nothing /\ call[c].result = Nothing
    BY <1>1, <1>2, NothingAssumption DEF ConsumerInv, RestInv, CallInv, SidesInv, CallRecords
<1> HIDE DEF q
<1>5. /\ Asked' = [Asked EXCEPT ![c] = q.op]
      /\ AllTold' = [AllTold EXCEPT ![c] =
            IF peer = "fake" THEN Nothing ELSE VerdictOf[q.result]]
      /\ Asked[c] = call[c].op
      /\ AllTold[c] = IF peer = "fake" THEN Nothing ELSE VerdictOf[call[c].result]
    BY <1>1, <1>2, <1>3, ToldStep
<1>6. Asked' = Asked
    <2>1. [Asked EXCEPT ![c] = Asked[c]] = Asked
        BY DEF Asked
    <2> QED
        BY <1>3, <1>5, <2>1
<1>7. CASE peer = "fake"
    <2>1. [AllTold EXCEPT ![c] = AllTold[c]] = AllTold
        BY DEF AllTold
    <2>2. AllTold' = AllTold
        BY <1>5, <1>7, <2>1
    <2> QED
        BY <1>1, <1>6, <2>2 DEF Promise!vars, Asked, AllTold
<1>8. CASE peer # "fake"
    <2> DEFINE verdict == VerdictOf[result]
    <2>1. peer = "service"
        BY <1>8 DEF ConsumerInv, RestInv, ConfigInv
    <2>2. /\ verdict \in {"done", "refused", "unknown"}
          /\ verdict = "done" => result = "ok"
          /\ verdict = "refused" => result \in Refusals
        BY Verdicts
    <2>3. /\ verdict = "done" => happened[c] # {}
          /\ verdict = "refused" => happened[c] = {}
        BY <1>1, <2>1, <2>2 DEF True
    <2>4. AllTold' = [AllTold EXCEPT ![c] = verdict] /\ AllTold[c] = Nothing
        BY <1>3, <1>4, <1>5, <1>8, Verdicts
    <2> HIDE DEF verdict
    <2>5. Promise!Tell(c, verdict)
        BY <1>1, <1>4, <1>5, <1>6, <2>3, <2>4 DEF Promise!Tell, Asked, AllTold
    <2> QED
        BY <2>2, <2>5 DEF Promise!Next
<1> QED
    BY <1>7, <1>8

LEMMA SameTold ==
    ASSUME UNCHANGED <<config, call>>
    PROVE  Asked' = Asked /\ AllTold' = AllTold
BY DEF Asked, AllTold, Told, config

LEMMA HappenedStep ==
    ASSUME ConsumerInv, NEW c \in Calls, ServiceStep(c)
    PROVE  [Promise!Next]_Promise!vars
<1>1. UNCHANGED <<config, call>>
    BY DEF ServiceStep, Dispatch, Handle, Vanish
<1>2. Asked' = Asked /\ AllTold' = AllTold
    BY <1>1, SameTold
<1>3. CASE UNCHANGED happened
    BY <1>2, <1>3 DEF Promise!vars, Asked, AllTold
<1>4. CASE /\ server[c].step = "handling"
           /\ happened' = [happened EXCEPT ![c] = {call[c].op}]
    <2>1. /\ call[c].op \in Ops /\ happened[c] = {}
          /\ call[c].result \in (Results \cup {Nothing}) \ (Refusals \cup {"ok"})
        BY <1>4, UnderWay DEF ConsumerInv, RestInv, CallInv, SidesInv, CallRecords
    <2>2. AllTold[c] \in {Nothing, "unknown"} /\ Asked[c] = call[c].op
        BY <2>1, ToldIs, Verdicts DEF Asked
    <2>3. Asked[c] # Nothing
        BY <2>1, <2>2, NothingAssumption
    <2>4. Promise!Happen(c)
        BY <1>2, <1>4, <2>1, <2>2, <2>3 DEF Promise!Happen, Asked, AllTold
    <2> QED
        BY <2>4 DEF Promise!Next
<1>5. ASSUME server[c].step = "handling"
      PROVE  happened[c] = {} /\ server[c].handler = call[c].op
    BY <1>5, UnderWay DEF ConsumerInv, RestInv, CallInv, SidesInv
<1>6. CASE Dispatch(c)
    BY <1>3, <1>6 DEF Dispatch
<1>7. CASE Handle(c)
    <2>1. server[c].step = "handling" /\ \E done : happened' =
              [happened EXCEPT ![c] = IF done THEN @ \cup {server[c].handler} ELSE @]
        BY <1>7 DEF Handle
    <2>2. happened' = [happened EXCEPT ![c] = happened[c]] \/ happened' = [happened EXCEPT ![c] = {call[c].op}]
        BY <1>5, <2>1
    <2>3. [happened EXCEPT ![c] = happened[c]] = happened
        BY DEF ConsumerInv, RestInv
    <2> QED
        BY <1>3, <1>4, <2>1, <2>2, <2>3
<1>8. CASE Vanish(c)
    <2>1. \/ UNCHANGED happened
          \/ /\ server[c].step = "handling"
             /\ happened' = [happened EXCEPT ![c] = @ \cup {server[c].handler}]
        BY <1>8 DEF Vanish
    <2> QED
        BY <1>3, <1>4, <1>5, <2>1
<1> QED
    BY <1>6, <1>7, <1>8 DEF ServiceStep

(* What a caller is told is what RemoteCall lets it rely on: "done" only    *)
(* after it has happened, a refusal only of what has not happened and never *)
(* will, although the two sides of a call fail and end independently        *)
(* (client.go 14-34).                                                       *)
THEOREM CallsKeepThePromise == ConsumerSpec => Keeps
<1>1. FakeInit => Promise!Init
    <2> SUFFICES ASSUME FakeInit PROVE Promise!Init
        OBVIOUS
    <2>1. \A c \in Calls : call[c].op = Nothing /\ call[c].result = Nothing
        BY DEF FakeInit, Init, NewCall
    <2>2. AllTold = [c \in Calls |-> IF peer = "fake" THEN Nothing ELSE VerdictOf[call[c].result]]
        BY InitHolds, ToldIs
    <2>3. AllTold = [c \in Calls |-> Nothing] /\ Asked = [c \in Calls |-> Nothing]
        BY <2>1, <2>2, Verdicts DEF Asked
    <2>4. happened = [c \in Calls |-> {}]
        BY DEF FakeInit, Init
    <2> QED
        BY <2>3, <2>4 DEF Promise!Init, Asked, AllTold
<1>2. ConsumerInv /\ ConsumerInv' /\ [ConsumerNext]_allVars => [Promise!Next]_Promise!vars
    <2> SUFFICES ASSUME ConsumerInv, ConsumerInv', [ConsumerNext]_allVars
                 PROVE  [Promise!Next]_Promise!vars
        OBVIOUS
    <2>1. ASSUME NEW c \in Calls, Call(c) PROVE [Promise!Next]_Promise!vars
        BY <2>1, AskedStep
    <2>2. ASSUME NEW c \in Calls, Receive(c) \/ GiveUp(c) PROVE [Promise!Next]_Promise!vars
        BY <2>2, ToldReturnStep
    <2>3. ASSUME NEW c \in Calls, ServiceStep(c) PROVE [Promise!Next]_Promise!vars
        BY <2>3, HappenedStep
    <2>4. CASE UNCHANGED <<config, call, happened>>
        BY <2>4, SameTold DEF Promise!vars, Asked, AllTold
    <2>5. CASE FakeStep
        BY <2>4, <2>5 DEF FakeStep, SetFn, Close, Closed, Find, Serve, vars
    <2>6. CASE UNCHANGED allVars
        BY <2>4, <2>6 DEF allVars, vars
    <2> QED
        BY <2>1, <2>2, <2>3, <2>5, <2>6 DEF ConsumerNext
<1> QED
    BY Invariance, <1>1, <1>2, PTL DEF ConsumerSpec, Keeps, Promise!Spec
=============================================================================
