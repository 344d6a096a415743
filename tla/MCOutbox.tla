------------------------------ MODULE MCOutbox ------------------------------
(* Small instances of Outbox for TLC. *)
EXTENDS Outbox, TLC

CONSTANTS w1, w2

OneEvent == {1}
TwoEvents == {1, 2}
OneWorker == {w1}
TwoWorkers == {w1, w2}

(* Processes differ in nothing but their names. *)
Symmetry == Permutations(TwoWorkers)
=============================================================================
