-------------------------- MODULE PositionHistory --------------------------
(***************************************************************************)
(* The positions of a game (src/src/chess/position.cc), from the one a     *)
(* description gives to the last one, with the counters that decide draws. *)
(* Users append moves that are legal, castling in either notation: the     *)
(* commands `position` and `fen`, the search as it walks down the tree,    *)
(* self-play.  Going back (Pop, Trim) leaves a history that was there      *)
(* before and is not an action here.                                       *)
(*                                                                         *)
(* Abstracted: a description is a record and not a text (SetFromFen reads  *)
(* it, GetFen writes it); them_board_, which is the mirrored us_board_;    *)
(* the hashes; last_move_, which nobody reads.                             *)
(***************************************************************************)
EXTENDS ChessBoard, Sequences

CONSTANTS
  Fens,       \* descriptions of positions, reached by play
  MaxPlies    \* bound: [Fens -> how many moves of a game are followed]

\* Who does not move is not in check.
ASSUME FensAssumption == \A f \in Fens : ~IsUnderCheck(Mirror(SetFromFen(f)))

VARIABLES
  fen,        \* the starting one
  positions_

vars == <<fen, positions_>>

Last == positions_[Len(positions_)]

\* cycle_length_ of the first position is not initialised, and not read.
Starting(f) ==
  LET board == SetFromFen(f) IN
  [board |-> board, rule50_ply |-> f.rule50_ply, repetitions |-> 0, cycle_length |-> 0,
   ply_count |-> 2 * f.moves - (IF board.flipped THEN 1 ELSE 2)]

\* Mutant: the repetitions of the earlier position are not counted.
ComputeLastMoveRepetitionsOnce(positions) ==
  LET last == positions[Len(positions)]
      same == {i \in 1 .. Len(positions) - 4 : positions[i].board = last.board}
  IN  IF last.rule50_ply < 4 \/ same = {} THEN [repetitions |-> 0, cycle_length |-> 0]
      ELSE [repetitions |-> 1,
            cycle_length |-> Len(positions) - (CHOOSE i \in same : \A k \in same : k <= i)]

\* Back from the last position, two plies at a time, to one that is equal, or to
\* one before which a move cannot be taken back.
ComputeLastMoveRepetitions(positions) ==
  LET last == positions[Len(positions)]
      at[i \in Int] ==
        IF i < 1 THEN 0
        ELSE IF positions[i].board = last.board THEN i
        ELSE IF positions[i].rule50_ply < 2 THEN 0
        ELSE at[i - 2]
      found == IF last.rule50_ply < 4 THEN 0 ELSE at[Len(positions) - 4]
  IN  IF found = 0 THEN [repetitions |-> 0, cycle_length |-> 0]
      ELSE [repetitions |-> 1 + positions[found].repetitions,
            cycle_length |-> Len(positions) - found]

AppendMove(m) ==
  LET applied == ApplyMove(Last.board, m)
      position == [board |-> Mirror(applied.board),
                   rule50_ply |-> IF applied.zeroing THEN 0 ELSE Last.rule50_ply + 1,
                   repetitions |-> 0, cycle_length |-> 0, ply_count |-> Last.ply_count + 1]
      counted == ComputeLastMoveRepetitions(Append(positions_, position))
  IN  positions_' = Append(positions_, [position EXCEPT !.repetitions = counted.repetitions,
                                                        !.cycle_length = counted.cycle_length])

ComputeGameResult ==
  LET board == Last.board IN
  IF GenerateLegalMoves(board) = {}
  THEN IF IsUnderCheck(board) THEN IF board.flipped THEN "white won" ELSE "black won"
       ELSE "draw"
  ELSE IF ~HasMatingMaterial(board) \/ Last.rule50_ply >= 100 \/ Last.repetitions >= 2
  THEN "draw" ELSE "undecided"

\* The last position in which a repetition or a zeroing move shows is a
\* repetition.
DidRepeatSinceLastZeroingMove ==
  LET stops == {i \in DOMAIN positions_ :
                  positions_[i].repetitions > 0 \/ positions_[i].rule50_ply = 0} IN
  /\ stops # {}
  /\ \E i \in stops : positions_[i].repetitions > 0 /\ \A k \in stops : k <= i

WhiteBoard(b) == IF b.flipped THEN Mirror(b) ELSE b
\* What the command `fen` answers.
FenOfLast ==
  LET f == GetFen(WhiteBoard(Last.board), Last.board.flipped) IN
  [men |-> f.men, turn |-> f.turn, castlings |-> f.castlings, passed |-> f.passed,
   rule50_ply |-> Last.rule50_ply,
   moves |-> (Last.ply_count + (IF Last.board.flipped THEN 1 ELSE 2)) \div 2]
-----------------------------------------------------------------------------
Init == fen \in Fens /\ positions_ = <<Starting(fen)>>

Play ==
  /\ Len(positions_) <= MaxPlies[fen]
  /\ \E m \in GenerateLegalMoves(Last.board) :
       \E written \in {m, GetLegacyMove(Last.board, m)} :
         AppendMove(written) \/ AppendMove(GetModernMove(Last.board, written))
  /\ UNCHANGED fen

Next == Play
Spec == Init /\ [][Next]_vars
-----------------------------------------------------------------------------
(* What the sets of squares say of the game. *)

SquareOf(b, s) == IF b.flipped THEN MirrorSquare(s) ELSE s
Side(b, ours) == IF b.flipped = ours THEN "black" ELSE "white"
KindAt(b, s) == GetPieceAt(b, s).kind
RightsOf(b) ==
  LET white == WhiteBoard(b).castlings
      right(can, color, row, file) == {[color |-> c, rook |-> <<row, file>>] : c \in {c \in {color} : can}}
  IN  right(white.we_can_00, "white", 0, white.our_kingside_rook)
      \cup right(white.we_can_000, "white", 0, white.our_queenside_rook)
      \cup right(white.they_can_00, "black", 7, white.their_kingside_rook)
      \cup right(white.they_can_000, "black", 7, white.their_queenside_rook)
GameOf(b) ==
  LET white == WhiteBoard(b) IN
  [men |-> [s \in Occupied(white) |-> GetPieceAt(white, s)],
   turn |-> IF b.flipped THEN "black" ELSE "white",
   rights |-> RightsOf(b),
   passed |-> {<<IF s[1] = 0 THEN 2 ELSE 5, s[2]>> : s \in white.pawns \ PawnMask}]

Rules == INSTANCE ChessRules WITH game <- GameOf(Last.board), Starts <- Fens

\* Playing on sets of squares, mirrored after each move, is playing chess:
\* castling and its rights, en passant, promotion (board.cc, ApplyMove and Mirror).
ImplementsChess == Rules!Spec

Unmirrored(b, m) == [m EXCEPT !.from = SquareOf(b, @), !.to = SquareOf(b, @)]
\* The moves that pass the tests of pins, of the squares between an attacker and
\* the king, and of the special cases are the legal ones (board.cc:890-960).
MovesAreTheLegalOnes ==
  {Unmirrored(Last.board, m) : m \in GenerateLegalMoves(Last.board)}
    = Rules!LegalMoves(GameOf(Last.board))

\* How often the position was there before, and how long ago, though the search
\* for it skips positions and stops early; and whether that ever happened since
\* the last move that cannot be taken back (position.cc:130).
Before(n) == {i \in 1 .. n - 1 : GameOf(positions_[i].board) = GameOf(positions_[n].board)}
Earlier == Before(Len(positions_))
RepetitionsCounted ==
  /\ Last.repetitions = Cardinality(Earlier)
  /\ Last.cycle_length =
       IF Earlier = {} THEN 0
       ELSE Len(positions_) - (CHOOSE i \in Earlier : \A k \in Earlier : k <= i)
  /\ DidRepeatSinceLastZeroingMove <=>
       \E n \in DOMAIN positions_ :
         /\ Before(n) # {}
         /\ \A k \in n .. Len(positions_) : positions_[k].rule50_ply # 0

\* Neither material that can mate nor a reason of the laws to stop: bishops on
\* squares of one color, or a single knight, are not enough.
Minors(men) == {s \in DOMAIN men : men[s].kind \in {"bishop", "knight"}}
CannotMate(men) ==
  /\ \A s \in DOMAIN men : men[s].kind \in {"king", "bishop", "knight"}
  /\ \/ Cardinality(Minors(men)) <= 1
     \/ \A s, t \in Minors(men) :
          men[s].kind = "bishop" /\ (s[1] + s[2] + t[1] + t[2]) % 2 = 0

\* Mate comes before every draw, and is a win of the side that is not to move
\* (position.cc:91).
ResultIsLawful ==
  LET game == GameOf(Last.board)
      over == Rules!LegalMoves(game) = {}
      mated == over /\ Rules!InCheck(game.men, game.turn)
      drawn == \/ over \/ CannotMate(game.men) \/ Last.rule50_ply >= 100
               \/ Cardinality(Earlier) >= 2
  IN  ComputeGameResult = IF mated THEN Rules!Other(game.turn) \o " won"
                          ELSE IF drawn THEN "draw" ELSE "undecided"

\* The description of a position leads back to it, in both notations of
\* castling (board.cc:972, position.cc:195).
FenLeadsBack ==
  LET again == Starting(FenOfLast) IN
  /\ GameOf(again.board) = GameOf(Last.board)
  /\ again.rule50_ply = Last.rule50_ply /\ again.ply_count = Last.ply_count
=============================================================================
