----------------------------- MODULE RemoteCall -----------------------------
(***************************************************************************)
(* What a consumer of the scenario API may rely on when a call returns:    *)
(*                                                                         *)
(*   - the service does what it was asked, at most once per call, and      *)
(*     nothing else;                                                       *)
(*   - "done" is told only after it has happened;                          *)
(*   - "refused" is told only if it has not happened and never will;       *)
(*   - "unknown" leaves everything open: it may have happened, or still    *)
(*     happen later.                                                       *)
(***************************************************************************)
CONSTANTS Calls, Ops, Nothing

VARIABLES
    asked,      \* the operation of each call, Nothing before it is made
    happened,   \* the operations the service has done for each call
    told        \* what the caller was told

vars == <<asked, happened, told>>

Init ==
    /\ asked = [c \in Calls |-> Nothing]
    /\ happened = [c \in Calls |-> {}]
    /\ told = [c \in Calls |-> Nothing]

Ask(c, op) ==
    /\ asked[c] = Nothing
    /\ asked' = [asked EXCEPT ![c] = op]
    /\ UNCHANGED happened
    /\ \/ UNCHANGED told
       \/ told' = [told EXCEPT ![c] = "unknown"]

Happen(c) ==
    /\ asked[c] # Nothing
    /\ happened[c] = {}
    /\ told[c] \in {Nothing, "unknown"}
    /\ happened' = [happened EXCEPT ![c] = {asked[c]}]
    /\ UNCHANGED <<asked, told>>

Tell(c, verdict) ==
    /\ asked[c] # Nothing
    /\ told[c] = Nothing
    /\ verdict = "done" => happened[c] # {}
    /\ verdict = "refused" => happened[c] = {}
    /\ told' = [told EXCEPT ![c] = verdict]
    /\ UNCHANGED <<asked, happened>>

Next ==
    \E c \in Calls :
        \/ \E op \in Ops : Ask(c, op)
        \/ Happen(c)
        \/ \E verdict \in {"done", "refused", "unknown"} : Tell(c, verdict)

Spec == Init /\ [][Next]_vars
=============================================================================
