------------------------- MODULE MCPositionHistory -------------------------
(* Positions for TLC, each with few men and one difficulty.                *)
EXTENDS PositionHistory

Men(white, black) ==
  [s \in {m[2] : m \in white \cup black} |->
     IF \E m \in white : m[2] = s
     THEN [color |-> "white", kind |-> (CHOOSE m \in white : m[2] = s)[1]]
     ELSE [color |-> "black", kind |-> (CHOOSE m \in black : m[2] = s)[1]]]

\* Files a to h are 0 to 7, rows 1 to 8 too.
K(r, f) == <<"king", <<r, f>>>>
Q(r, f) == <<"queen", <<r, f>>>>
R(r, f) == <<"rook", <<r, f>>>>
B(r, f) == <<"bishop", <<r, f>>>>
N(r, f) == <<"knight", <<r, f>>>>
P(r, f) == <<"pawn", <<r, f>>>>

Position(turn, white, black) ==
  [men |-> Men(white, black), turn |-> turn, castlings |-> {}, passed |-> {},
   rule50_ply |-> 0, moves |-> 1]
By(black, side) == [black |-> black, side |-> side, file |-> 0]
ByFile(black, file) == [black |-> black, side |-> "file", file |-> file]

\* Castling on both sides, with attacked squares on the way.
Castling ==
  [Position("white", {K(0, 4), R(0, 0), R(0, 7)}, {K(7, 4), R(7, 0), R(7, 7), N(3, 3)})
     EXCEPT !.castlings = {By(c, s) : c \in BOOLEAN, s \in {"K", "Q"}}]
\* A pawn takes a rook that might have castled.
TakesRook ==
  [Position("white", {K(0, 4), P(6, 1)}, {K(7, 4), R(7, 0), R(7, 7)})
     EXCEPT !.castlings = {By(TRUE, s) : s \in {"K", "Q"}}]
\* Chess960: the king stays where it is and the rook that leaves uncovers it.
Uncovered ==
  [Position("white", {K(0, 2), R(0, 1)}, {K(7, 7), R(0, 0)})
     EXCEPT !.castlings = {ByFile(FALSE, 1)}]
\* Chess960: king and rook change places, on both sides of the board.
Crossing ==
  [Position("black", {K(0, 5), R(0, 6), P(1, 5)}, {K(7, 1), R(7, 0), P(6, 1)})
     EXCEPT !.castlings = {ByFile(FALSE, 6), ByFile(TRUE, 0)}]
\* Chess960: the rook further out is not the one that castles.
TwoRooks ==
  [Position("white", {K(0, 3), R(0, 5), R(0, 7)}, {K(7, 0)})
     EXCEPT !.castlings = {ByFile(FALSE, 5)}]
\* En passant would uncover the king along its row, stays on the line of a pin, is
\* given by the description.
PassantRow ==
  Position("black", {K(4, 0), P(4, 1), P(4, 3)}, {K(7, 7), R(4, 7), P(6, 2)})
PassantDiagonal ==
  Position("black", {K(2, 6), P(4, 4), P(4, 2)}, {K(7, 7), B(7, 1), P(6, 3)})
PassantGiven ==
  [Position("white", {K(3, 1), P(4, 4)}, {K(7, 0), P(4, 3), R(7, 4)})
     EXCEPT !.passed = {<<5, 3>>}, !.moves = 12]
\* The pawn that goes two squares gives check and may be taken in passing.
PassantCheck ==
  Position("white", {K(0, 0), P(1, 3)}, {K(4, 4), P(3, 2), P(3, 4)})
\* Two checks at once, and single ones that can be met in every way.
DoubleCheck ==
  Position("black", {K(0, 4), Q(0, 3), N(0, 6), P(1, 3)}, {K(7, 0), R(7, 4), N(4, 4)})
PinnedMen ==
  Position("white", {K(0, 3), R(1, 3), B(1, 4), N(1, 2)},
           {K(7, 7), R(6, 3), B(4, 7), Q(3, 0)})
\* A promotion, and one that takes.
Promoting == Position("black", {K(0, 0), B(0, 6)}, {K(2, 1), P(1, 5), P(1, 2)})
\* Mate or stalemate at the next move, also as the counter reaches 100.
Mating == Position("white", {K(5, 1), Q(4, 6)}, {K(7, 0)})
MatingLate == [Mating EXCEPT !.rule50_ply = 99, !.moves = 70]
\* Men that cannot mate, or no longer once something is taken.
Bishops == Position("white", {K(3, 3), B(0, 0)}, {K(3, 5), B(2, 4)})
LastKnight == Position("white", {K(2, 2), B(0, 6)}, {K(2, 5), N(1, 3)})
\* Kings that walk to and fro behind blocked pawns; with a pawn that may be taken
\* in passing at first, so that the first position does not come again.
Blocked == {P(1, 0), P(1, 2), P(5, 0), P(5, 2)}
BlockedToo == {P(2, 0), P(2, 2), P(6, 0), P(6, 2)}
Shuffle == Position("black", {K(0, 0)} \cup Blocked, {K(7, 0)} \cup BlockedToo)
ShufflePassed ==
  [Position("black", {K(0, 0), P(2, 5), P(3, 6)} \cup Blocked,
            {K(7, 0), P(3, 5), P(4, 6)} \cup BlockedToo) EXCEPT !.passed = {<<2, 6>>}]

AllFens ==
  {Castling, TakesRook, Uncovered, Crossing, TwoRooks, PassantRow, PassantDiagonal, PassantGiven,
   PassantCheck, DoubleCheck, PinnedMen, Promoting, Mating, MatingLate, Bishops, LastKnight, Shuffle, ShufflePassed}
\* The walk of the kings has to be long, the others show what they have in three.
Plies == [f \in AllFens |->
  IF f = Shuffle THEN 10 ELSE IF f = ShufflePassed THEN 6
  ELSE IF f \in {TakesRook, Uncovered, PassantRow, PassantDiagonal, PassantCheck, Mating}
  THEN 3 ELSE 2]
=============================================================================
