------------------------- MODULE MCSearchLifecycle -------------------------
(* Instances of SearchLifecycle for TLC.                                   *)
EXTENDS SearchLifecycle

\* No limit, a limit below the number of workers, a limit equal to it.
FewPermits == {0, 1, 2}

\* A root whose moves `searchmoves` or the tablebases restrict, and a mated or
\* stalemated one.  A filter that leaves no move does not occur: it holds legal
\* moves (engine.cc:72-84 and the tablebase probes).
SomeRoots ==
  {[edges |-> Moves, allowed |-> Moves \ {CHOOSE m \in Moves : TRUE}],
   [edges |-> {}, allowed |-> {}]}
=============================================================================
