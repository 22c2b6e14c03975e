----------------------------- MODULE MCNodeTree -----------------------------
(***************************************************************************)
(* A game of six positions.   T1 and T2 have the same board with different *)
(* fifty-move counts, as after a detour; the capture x resets the count,   *)
(* so that U is a transposition.                                           *)
(***************************************************************************)
EXTENDS NodeTree

MCSucc ==
  [S |-> [k |-> "T1", h |-> "T2"], T1 |-> [x |-> "U"], T2 |-> [x |-> "U"],
   U |-> [z |-> "E"],
   E |-> [a |-> "F"], F |-> <<>>]
MCBucket(p, q) == p # q /\ {p, q} = {"T1", "T2"}
MCLines == {<<>>, <<"k", "x", "z", "a">>, <<"h">>}

Engine(b, n) == [user |-> "engine", bucketing |-> b, noise |-> n]
SelfPlay(b, n) == [user |-> "selfplay", bucketing |-> b, noise |-> n]
MCModes == {Engine(FALSE, FALSE), SelfPlay(FALSE, FALSE), SelfPlay(FALSE, TRUE)}
TwinModes == {Engine(TRUE, FALSE)}
=============================================================================
