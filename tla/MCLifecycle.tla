---------------------------- MODULE MCLifecycle -----------------------------
(* Startup with Lifecycle for TLC: every environment that differs from one  *)
(* valid one in at most two variables.                                      *)
EXTENDS Startup

Outbox == {"OUTBOX_POLL_INTERVAL", "OUTBOX_BATCH_SIZE", "OUTBOX_FAILURE_THRESHOLD",
           "OUTBOX_VISIBILITY_TIMEOUT"}

Values(name) ==
    {Empty} \cup
    CASE name = "PORT" -> {Text("garbage"), Number(8080), Number(65536)}
      [] name \in {"DATABASE_CONN", "INTERNAL_AUTH_PUBLIC_KEY"} ->
            {Text("garbage"), Text("valid")}
      [] name = "STORY_BUCKET" -> {Text("local:"), Text("local:path"), Text("bucket")}
      [] name = "DATABASE_IAM_AUTH_ENABLED" ->
            {Text("true"), Text("false"), Text("TRUE")}
      [] name = "OUTBOX_FAILURE_THRESHOLD" ->
            {Text("garbage"), Number(-1), Number(0), Number(5), Number(MaxInt4 + 1)}
      [] name = "OUTBOX_VISIBILITY_TIMEOUT" ->
            {Text("garbage")} \cup {Number(k) : k \in {0, 999, 1000, 30000}}
      [] name \in Outbox -> {Text("garbage"), Number(-1), Number(0), Number(5)}
      [] OTHER -> {Text("valid")}

Valid ==
    [name \in Variables |->
        CASE name = "PORT" -> Number(8080)
          [] name = "STORY_BUCKET" -> Text("bucket")
          [] name = "DATABASE_IAM_AUTH_ENABLED" -> Text("false")
          [] name = "OUTBOX_VISIBILITY_TIMEOUT" -> Number(30000)
          [] name \in Outbox -> Number(5)
          [] OTHER -> Text("valid")]

Changed(e) == UNION {{[e EXCEPT ![name] = v] : v \in Values(name)} : name \in Variables}
MCEnvironments == UNION {Changed(e) : e \in Changed(Valid)}
=============================================================================
