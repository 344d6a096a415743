------------------------------ MODULE MCFakes -------------------------------
(* A small instance of Fakes for TLC. Callers are alike, and so are topics, *)
(* so the first message may be taken to be c1's, and about t1. Unlike       *)
(* SYMMETRY this is sound for the temporal properties, too: any behaviour   *)
(* is one of these with other names, and nobody owes a call of Publish.     *)
EXTENDS Fakes

CONSTANTS t1, t2, c1, c2

TwoTopics == {t1, t2}
TwoCallers == {c1, c2}

FirstIsFirst ==
    published = <<>> /\ published' # <<>> =>
        published' = <<t1>> /\ call'[c1] # Returned

FirstNext == Next /\ FirstIsFirst
FirstSpec == Init /\ [][FirstNext]_vars /\ Fairness
=============================================================================
