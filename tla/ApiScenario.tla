---------------------------- MODULE ApiScenario -----------------------------
(***************************************************************************)
(* The REST contract of the scenario service as its two ends implement it: *)
(* the requests the generated client builds (openapi_gen.go), the routes   *)
(* and statuses of the service (router.go, handler/rest), and what the     *)
(* sentinel client makes of a response (apiscenarioclient/client.go).      *)
(*                                                                         *)
(* Pure operators. A body is abstracted to what a reader can tell: there   *)
(* is none, it fits the type the operation answers with, or it is some     *)
(* other JSON.                                                             *)
(***************************************************************************)
EXTENDS Naturals, Sequences

Story == {"listEpisodes", "getEpisodeScript", "completeEpisode"}
Onboarding == {"getOnboardingScript", "updateOnboardingName",
               "selectOnboardingFaction", "completeOnboarding"}
Ops == Story \cup Onboarding \cup {"getHealth"}

(* The operations that are answered 204 without a body. *)
Silent == {"updateOnboardingName", "selectOnboardingFaction"}
(* The operations that change something. *)
Changing == Silent \cup {"completeEpisode", "completeOnboarding"}

Bodies == {"none", "fits", "other"}

-----------------------------------------------------------------------------
(* The generated client: where an operation is sent. *)

Request(method, path) == [method |-> method, path |-> path]

NewStoryRequest(op, episode) ==
    CASE op = "listEpisodes" -> Request("GET", <<"episodes">>)
      [] op = "completeEpisode" -> Request("POST", <<"episodes", episode, "complete">>)
      [] op = "getEpisodeScript" -> Request("GET", <<"episodes", episode, "script">>)

NewOnboardingRequest(op) ==
    CASE op = "completeOnboarding" -> Request("POST", <<"onboarding", "complete">>)
      [] op = "selectOnboardingFaction" -> Request("POST", <<"onboarding", "faction">>)
      [] op = "updateOnboardingName" -> Request("PUT", <<"onboarding", "name">>)
      [] op = "getOnboardingScript" -> Request("GET", <<"onboarding", "script">>)

NewRequest(op, episode) ==
    CASE op \in Story -> NewStoryRequest(op, episode)
      [] op \in Onboarding -> NewOnboardingRequest(op)
      [] op = "getHealth" -> Request("GET", <<"health">>)

-----------------------------------------------------------------------------
(* The service: which handler a request reaches. *)

EpisodeParam == ":episodeId"

Route(method, path, handler) ==
    [method |-> method, path |-> path, handler |-> handler]

Routes ==
    { Route("GET", <<"health">>, "getHealth"),
      Route("GET", <<"episodes">>, "listEpisodes"),
      Route("GET", <<"episodes", EpisodeParam, "script">>, "getEpisodeScript"),
      Route("POST", <<"episodes", EpisodeParam, "complete">>, "completeEpisode"),
      Route("GET", <<"onboarding", "script">>, "getOnboardingScript"),
      Route("PUT", <<"onboarding", "name">>, "updateOnboardingName"),
      Route("POST", <<"onboarding", "faction">>, "selectOnboardingFaction"),
      Route("POST", <<"onboarding", "complete">>, "completeOnboarding") }

Matches(route, request) ==
    /\ route.method = request.method
    /\ Len(route.path) = Len(request.path)
    /\ \A i \in DOMAIN route.path : route.path[i] \in {EpisodeParam, request.path[i]}

HandlersOf(request) == {r.handler : r \in {s \in Routes : Matches(s, request)}}

(* How the service call of a handler can end (usecase/story/service.go,     *)
(* usecase/onboarding/service.go). "internal" stands for every error        *)
(* without a sentinel; a panic that gin recovers from is one of them.       *)
Outcomes(handler) ==
    {"ok", "internal"} \cup
    CASE handler = "getEpisodeScript" ->
            {"episode_not_found", "episode_locked", "script_not_found", "script_infra"}
      [] handler = "completeEpisode" -> {"episode_not_found", "episode_locked"}
      [] handler = "getOnboardingScript" -> {"script_not_found"}
      [] handler = "updateOnboardingName" -> {"invalid_name", "player_not_found"}
      [] handler = "selectOnboardingFaction" -> {"invalid_faction"}
      [] handler = "completeOnboarding" ->
            {"player_not_found", "faction_not_selected", "already_onboarded"}
      [] OTHER -> {}

(* Whether the service has done what it was asked when its call ends so: an *)
(* error without a sentinel may be that of a commit whose answer was lost.  *)
(* For onboarding, Onboarding checks this of the service.                   *)
Done(handler, outcome) ==
    CASE outcome = "ok" -> {TRUE}
      [] outcome = "internal" /\ handler \in Changing -> BOOLEAN
      [] OTHER -> {FALSE}

ResolveErrorStatus(err) ==
    CASE err \in {"episode_not_found", "script_not_found"} -> 404
      [] err = "episode_locked" -> 403
      [] OTHER -> 500

ResolveOnboardingErrorStatus(err) ==
    CASE err \in {"script_not_found", "player_not_found"} -> 404
      [] err \in {"already_onboarded", "faction_not_selected"} -> 409
      [] err \in {"invalid_faction", "invalid_name"} -> 400
      [] OTHER -> 500

(* Mutant of SuccessStatus: completing an episode has nothing to say. *)
SuccessStatusQuiet(handler) ==
    IF handler \in Silent \cup {"completeEpisode"} THEN 204 ELSE 200

SuccessStatus(handler) == IF handler \in Silent THEN 204 ELSE 200

Status(handler, outcome) ==
    CASE outcome = "ok" -> SuccessStatus(handler)
      [] outcome # "ok" /\ handler \in Onboarding -> ResolveOnboardingErrorStatus(outcome)
      [] OTHER -> ResolveErrorStatus(outcome)

Response(status, body) == [status |-> status, body |-> body]

Answer(handler, outcome) ==
    Response(Status(handler, outcome),
             CASE outcome # "ok" -> "other"
               [] outcome = "ok" /\ handler \in Silent -> "none"
               [] OTHER -> "fits")

-----------------------------------------------------------------------------
(* The client: what it makes of a response. *)

(* Parse...Response: a body is looked at only if the operation has one, the *)
(* status is 200 and the Content-Type says JSON, which it does if and only  *)
(* if there is a body.                                                      *)
Parsed(op, response) ==
    CASE op \in Silent \/ response.status # 200 \/ response.body = "none" -> "no_JSON200"
      [] op \notin Silent /\ response.status = 200 /\ response.body = "fits" -> "JSON200"
      [] OTHER -> "error"

(* Mutant of ResolveStatusError: 500 and above count as not found. *)
ResolveStatusErrorLumped(code) ==
    CASE code = 401 -> "unauthorized"
      [] code = 403 -> "forbidden"
      [] code = 400 -> "bad_request"
      [] code = 409 -> "conflict"
      [] code >= 404 /\ code # 409 -> "not_found"
      [] OTHER -> "unexpected"

ResolveStatusError(code) ==
    CASE code = 401 -> "unauthorized"
      [] code = 403 -> "forbidden"
      [] code = 404 -> "not_found"
      [] code = 400 -> "bad_request"
      [] code = 409 -> "conflict"
      [] code >= 500 -> "internal_server"
      [] OTHER -> "unexpected"

Refusals == {"unauthorized", "forbidden", "not_found", "bad_request", "conflict"}
Results == Refusals \cup {"ok", "internal_server", "unexpected", "error"}

Result(op, response) ==
    CASE Parsed(op, response) = "error" -> "error"
      [] Parsed(op, response) = "JSON200" -> "ok"
      [] op \in Silent /\ response.status = 204 -> "ok"
      [] OTHER -> ResolveStatusError(response.status)
=============================================================================
