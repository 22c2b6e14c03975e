----------------------------- MODULE MCNNCache -----------------------------
(* Two computations on a table of 1, 2 or 4 slots, with keys that collide. *)
EXTENDS NNCache, TLC

\* Modulo 4 these probe from 3, 3 and 0: a run that wraps around the end.
CollidingKeys == {3, 7, 4}

Symmetry == Permutations(Clients) \cup Permutations(Values)

=============================================================================
