------------------------------- MODULE MCStory -------------------------------
(* A small instance of Story for TLC: a prologue, and an episode that needs  *)
(* the prologue, a level and a faction.                                      *)
EXTENDS Story, TLC

CONSTANTS r1, r2

TwoRequests == {r1, r2}
Symmetry == Permutations(TwoRequests)

TwoEpisodes == {"ep1", "she_ep2"}
SmallLevels == [ep1 |-> 0, she_ep2 |-> 1]
SmallFactions == [ep1 |-> {}, she_ep2 |-> {"SHE"}]
SmallEpisodes == [ep1 |-> {}, she_ep2 |-> {"ep1"}]
=============================================================================
