--------------------------- MODULE MCTournament ---------------------------
(* Fewer games than workers, as many, and more.                            *)
EXTENDS Tournament
MCTotals == {1, 2, 3}
=============================================================================
