------------------------------- MODULE MCRest -------------------------------
(* A small instance of Rest and ServerFake for TLC. The test programs a     *)
(* success, a success without a body, one whose body the client cannot      *)
(* read, a 204 and a refusal.                                               *)
EXTENDS ServerFake, TLC

CONSTANTS c1, c2

TwoCalls == {c1, c2}
FiveAnswers == {Response(200, "fits"), Response(200, "none"), Response(200, "other"),
                Response(204, "fits"), Response(403, "none")}
Symmetry == Permutations(TwoCalls)
=============================================================================
