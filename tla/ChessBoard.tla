----------------------------- MODULE ChessBoard -----------------------------
(***************************************************************************)
(* The board as the engine keeps it (src/src/chess/board.cc): sets of      *)
(* squares, seen from the side to move, which is "ours" and moves up the   *)
(* board; after each move the board is mirrored.  Queens are in rooks_ and *)
(* in bishops_, knights and kings are what is left over, and a pawn in the *)
(* first or last row stands for a right to take en passant.                *)
(*                                                                         *)
(* Pure operators.  The attack tables with their magic numbers are         *)
(* functions of the occupied squares, and modelled as such.  Legal moves   *)
(* are those of a position that is reached by play: the side that moved    *)
(* last is not in check.                                                   *)
(***************************************************************************)
EXTENDS Integers, FiniteSets

Square == (0 .. 7) \X (0 .. 7)      \* <<row, column>>
RookDirections == {<<1, 0>>, <<-1, 0>>, <<0, 1>>, <<0, -1>>}
BishopDirections == {<<1, 1>>, <<-1, 1>>, <<1, -1>>, <<-1, -1>>}
KingMoves == RookDirections \cup BishopDirections
KnightMoves == {<<1, 2>>, <<1, -2>>, <<-1, 2>>, <<-1, -2>>,
                <<2, 1>>, <<2, -1>>, <<-2, 1>>, <<-2, -1>>}
PawnMask == (1 .. 6) \X (0 .. 7)

Castlings == [we_can_00 : BOOLEAN, we_can_000 : BOOLEAN,
              they_can_00 : BOOLEAN, they_can_000 : BOOLEAN,
              our_kingside_rook : 0 .. 7, our_queenside_rook : 0 .. 7,
              their_kingside_rook : 0 .. 7, their_queenside_rook : 0 .. 7]
ChessBoard == [our_pieces : SUBSET Square, their_pieces : SUBSET Square,
               rooks : SUBSET Square, bishops : SUBSET Square, pawns : SUBSET Square,
               our_king : Square, their_king : Square,
               castlings : Castlings, flipped : BOOLEAN]

MirrorSquare(s) == <<7 - s[1], s[2]>>
MirrorSet(S) == {MirrorSquare(s) : s \in S}
MirrorCastlings(c) ==
  [we_can_00 |-> c.they_can_00, we_can_000 |-> c.they_can_000,
   they_can_00 |-> c.we_can_00, they_can_000 |-> c.we_can_000,
   our_kingside_rook |-> c.their_kingside_rook, our_queenside_rook |-> c.their_queenside_rook,
   their_kingside_rook |-> c.our_kingside_rook, their_queenside_rook |-> c.our_queenside_rook]
Mirror(b) ==
  [our_pieces |-> MirrorSet(b.their_pieces), their_pieces |-> MirrorSet(b.our_pieces),
   rooks |-> MirrorSet(b.rooks), bishops |-> MirrorSet(b.bishops), pawns |-> MirrorSet(b.pawns),
   our_king |-> MirrorSquare(b.their_king), their_king |-> MirrorSquare(b.our_king),
   castlings |-> MirrorCastlings(b.castlings), flipped |-> ~b.flipped]

Pawns(b) == b.pawns \cap PawnMask
Occupied(b) == b.our_pieces \cup b.their_pieces
Kings(b) == {b.our_king, b.their_king}
Knights(b) == (Occupied(b) \ Pawns(b)) \ (Kings(b) \cup b.rooks \cup b.bishops)
-----------------------------------------------------------------------------
(* Attacks. *)

Offset(s, d, n) == <<s[1] + n * d[1], s[2] + n * d[2]>>
\* The squares from s in a direction, up to the edge.
Ray == [s \in Square |-> [d \in KingMoves |->
          LET length == Cardinality({n \in 1 .. 7 : Offset(s, d, n) \in Square}) IN
          [n \in 1 .. length |-> Offset(s, d, n)]]]
Slide(s, directions, occupied) ==
  UNION {{Ray[s][d][n] : n \in {n \in DOMAIN Ray[s][d] :
                                  \A k \in 1 .. n - 1 : Ray[s][d][k] \notin occupied}} :
         d \in directions}
GetRookAttacks(s, occupied) == Slide(s, RookDirections, occupied)
GetBishopAttacks(s, occupied) == Slide(s, BishopDirections, occupied)
KnightAttacks == [s \in Square |-> {Offset(s, d, 1) : d \in KnightMoves} \cap Square]
\* Of the opponent's pawns; none comes from a last row, where pawns mean
\* something else.
PawnAttacks == [s \in Square |-> {Offset(s, d, 1) : d \in {<<1, 1>>, <<1, -1>>}} \cap PawnMask]

Abs(n) == IF n < 0 THEN -n ELSE n

IsUnderAttack(b, s) ==
  \/ Abs(b.their_king[1] - s[1]) <= 1 /\ Abs(b.their_king[2] - s[2]) <= 1
  \/ GetRookAttacks(s, Occupied(b)) \cap b.their_pieces \cap b.rooks # {}
  \/ GetBishopAttacks(s, Occupied(b)) \cap b.their_pieces \cap b.bishops # {}
  \/ PawnAttacks[s] \cap b.their_pieces \cap b.pawns # {}
  \/ KnightAttacks[s] \cap (b.their_pieces \ ({b.their_king} \cup b.rooks \cup b.bishops \cup Pawns(b)))
       # {}
IsUnderCheck(b) == IsUnderAttack(b, b.our_king)
-----------------------------------------------------------------------------
(* Moves: castling is the king's move to its rook. *)

Promotions == {"queen", "rook", "bishop", "knight"}
Move(f, t) == [from |-> f, to |-> t, promotion |-> "none"]
PawnMove(f, t) ==
  IF t[1] # 7 THEN {Move(f, t)}
  ELSE {[from |-> f, to |-> t, promotion |-> p] : p \in Promotions}

Least(i, j) == IF i < j THEN i ELSE j
Greatest(i, j) == IF i < j THEN j ELSE i
WalkFree(b, from, to, rook, king) ==
  \A c \in (from .. to) \ {rook, king} : <<0, c>> \notin Occupied(b)
\* The last square is not looked at, unless it is the first.
RangeAttacked(b, from, to) ==
  \E c \in IF from < to THEN from .. to - 1 ELSE IF from = to THEN {to} ELSE to + 1 .. from :
    IsUnderAttack(b, <<0, c>>)

KingPseudolegal(b) ==
  LET source == b.our_king
      king == source[2]
      qrook == b.castlings.our_queenside_rook
      krook == b.castlings.our_kingside_rook
  IN  {Move(source, t) : t \in {t \in {Offset(source, d, 1) : d \in KingMoves} \cap Square :
                                  t \notin b.our_pieces /\ ~IsUnderAttack(b, t)}}
      \cup {m \in {Move(source, <<0, qrook>>)} :
              /\ b.castlings.we_can_000
              /\ WalkFree(b, Least(2, qrook), Greatest(3, king), qrook, king)
              /\ ~RangeAttacked(b, king, 2)}
      \cup {m \in {Move(source, <<0, krook>>)} :
              /\ b.castlings.we_can_00
              /\ WalkFree(b, Least(5, king), Greatest(6, krook), krook, king)
              /\ ~RangeAttacked(b, king, 6)}

PawnPseudolegal(b, s) ==
  LET one == <<s[1] + 1, s[2]>>
      two == <<s[1] + 2, s[2]>>
  IN  (IF one \in Occupied(b) THEN {} ELSE PawnMove(s, one))
      \cup {m \in {Move(s, two)} : one[1] = 2 /\ {one, two} \cap Occupied(b) = {}}
      \cup UNION {PawnMove(s, t) :
             t \in {t \in {<<s[1] + 1, s[2] - 1>>, <<s[1] + 1, s[2] + 1>>} \cap Square :
                      t \in b.their_pieces \/ (t[1] = 5 /\ <<7, t[2]>> \in b.pawns)}}

PiecePseudolegal(b, s) ==
  IF s = b.our_king THEN KingPseudolegal(b)
  ELSE IF s \in b.rooks \cup b.bishops
  THEN {Move(s, t) : t \in ((IF s \in b.rooks THEN GetRookAttacks(s, Occupied(b)) ELSE {})
                            \cup (IF s \in b.bishops THEN GetBishopAttacks(s, Occupied(b)) ELSE {}))
                           \ b.our_pieces}
  ELSE IF s \in Pawns(b) THEN PawnPseudolegal(b, s)
  ELSE {Move(s, t) : t \in KnightAttacks[s] \ b.our_pieces}

GeneratePseudolegalMoves(b) == UNION {PiecePseudolegal(b, s) : s \in b.our_pieces}
-----------------------------------------------------------------------------
(* ApplyMove: the board after the move, not mirrored, and whether the move *)
(* sets the fifty-move counter back.                                       *)

Applied(b, zeroing) == [board |-> b, zeroing |-> zeroing]

DoCastling(b, king_dst, rook_src, rook_dst) ==
  [b EXCEPT !.our_pieces = (@ \ {b.our_king, <<0, rook_src>>}) \cup {<<0, king_dst>>, <<0, rook_dst>>},
            !.rooks = (@ \ {<<0, rook_src>>}) \cup {<<0, rook_dst>>},
            !.pawns = @ \cap PawnMask,
            !.our_king = <<0, king_dst>>,
            !.castlings.we_can_00 = FALSE, !.castlings.we_can_000 = FALSE]

\* Mutant of Displace: a rook that is taken keeps its castling.
DisplaceOnly(b, from, to) ==
  [b EXCEPT !.our_pieces = (@ \ {from}) \cup {to}, !.their_pieces = @ \ {to},
            !.rooks = @ \ {to}, !.bishops = @ \ {to}, !.pawns = (@ \cap PawnMask) \ {to}]

\* What every move but castling does first: move, take, also en passant.
Displace(b, from, to) ==
  LET passed == {s \in {<<4, to[2]>>} :
                   /\ from[1] = 4 /\ from \in b.pawns /\ from[2] # to[2]
                   /\ <<7, to[2]>> \in b.pawns \ {to}}
  IN  [b EXCEPT
         !.our_pieces = (@ \ {from}) \cup {to}, !.their_pieces = @ \ ({to} \cup passed),
         !.rooks = @ \ {to}, !.bishops = @ \ {to},
         !.pawns = (@ \cap PawnMask) \ ({to} \cup passed),
         !.castlings.they_can_00 = @ /\ to # <<7, b.castlings.their_kingside_rook>>,
         !.castlings.they_can_000 = @ /\ to # <<7, b.castlings.their_queenside_rook>>]

MoveKing(b, to) ==
  [b EXCEPT !.our_king = to, !.castlings.we_can_00 = FALSE, !.castlings.we_can_000 = FALSE]

Promote(b, from, to, promotion) ==
  [b EXCEPT !.pawns = @ \ {from},
            !.rooks = @ \cup {s \in {to} : promotion \in {"rook", "queen"}},
            !.bishops = @ \cup {s \in {to} : promotion \in {"bishop", "queen"}}]

Along(S, from, to) == IF from \in S THEN (S \ {from}) \cup {to} ELSE S
MovePiece(b, from, to) ==
  [b EXCEPT
     !.rooks = Along(@, from, to), !.bishops = Along(@, from, to),
     !.pawns = Along(@, from, to)
               \cup {s \in {<<0, to[2]>>} :
                       /\ to[1] - from[1] = 2 /\ from \in b.pawns
                       /\ PawnAttacks[<<to[1] - 1, to[2]>>] \cap b.their_pieces \cap b.pawns # {}},
     !.castlings.we_can_00 =
       @ /\ ~(from \in b.rooks /\ from = <<0, b.castlings.our_kingside_rook>>),
     !.castlings.we_can_000 =
       @ /\ ~(from \in b.rooks /\ from = <<0, b.castlings.our_queenside_rook>>)]

ApplyMove(b, m) ==
  LET from == m.from
      to == m.to
      displaced == Displace(b, from, to)
      zeroing == to \in b.their_pieces \/ from \in displaced.pawns
      castling == from = b.our_king /\ from[1] = 0 /\ to[1] = 0
  IN  IF castling /\ to \in (b.rooks \ b.bishops) \cap b.our_pieces
      THEN Applied(IF to[2] > from[2] THEN DoCastling(b, 6, to[2], 5)
                   ELSE DoCastling(b, 2, to[2], 3), FALSE)
      \* e1g1 and e1c1, as most users write it.
      ELSE IF castling /\ from[2] = 4 /\ to[2] = 6 THEN Applied(DoCastling(b, 6, 7, 5), FALSE)
      ELSE IF castling /\ from[2] = 4 /\ to[2] = 2 THEN Applied(DoCastling(b, 2, 0, 3), FALSE)
      ELSE IF from = b.our_king THEN Applied(MoveKing(displaced, to), zeroing)
      ELSE IF to[1] = 7 /\ from \in displaced.pawns
      THEN Applied(Promote(displaced, from, to, m.promotion), TRUE)
      ELSE Applied(MovePiece(displaced, from, to), zeroing)

\* The notations of castling.
Legacy == [s \in {<<0, 7>>, <<0, 0>>} |-> IF s[2] = 7 THEN <<0, 6>> ELSE <<0, 2>>]
GetLegacyMove(b, m) ==
  IF /\ b.our_king = m.from /\ m.to \in b.our_pieces
     /\ m.from = <<0, 4>> /\ m.to \in DOMAIN Legacy
  THEN Move(m.from, Legacy[m.to]) ELSE m
GetModernMove(b, m) ==
  IF /\ b.our_king = <<0, 4>> /\ m.from = <<0, 4>>
     /\ m.to \notin b.our_pieces /\ \E s \in DOMAIN Legacy : Legacy[s] = m.to
  THEN Move(m.from, CHOOSE s \in DOMAIN Legacy : Legacy[s] = m.to) ELSE m
-----------------------------------------------------------------------------
(* Legal moves. *)

\* What stands on a line from our king: their first piece, and how many of our
\* pieces are in between.
LineAttack(b, d, sliders) ==
  LET ray == Ray[b.our_king][d]
      theirs == {n \in DOMAIN ray : ray[n] \in b.their_pieces}
      first == CHOOSE n \in theirs : \A k \in theirs : n <= k
      shields == {n \in 1 .. first - 1 : ray[n] \in b.our_pieces}
      none == [attack |-> {}, pinned |-> {}]
  IN  IF theirs = {} THEN none
      ELSE IF ray[first] \notin sliders THEN none
      ELSE IF shields = {} THEN [none EXCEPT !.attack = {ray[n] : n \in 1 .. first}]
      ELSE [none EXCEPT !.pinned = {ray[n] : n \in {n \in shields : shields = {n}}}]

GenerateKingAttackInfo(b) ==
  LET lines == {LineAttack(b, d, b.rooks) : d \in RookDirections}
               \cup {LineAttack(b, d, b.bishops) : d \in BishopDirections}
      pawns == PawnAttacks[b.our_king] \cap b.their_pieces \cap b.pawns
      knights == KnightAttacks[b.our_king]
                   \cap (b.their_pieces \ ({b.their_king} \cup b.rooks \cup b.bishops \cup Pawns(b)))
      attacks == {line.attack : line \in lines} \ {{}}
  IN  [attack_lines |-> UNION attacks \cup pawns \cup knights,
       pinned_pieces |-> UNION {line.pinned : line \in lines},
       \* No two pawns, and no two knights, give check at once.
       double_check |-> Cardinality(attacks) + (IF pawns # {} THEN 1 ELSE 0)
                          + (IF knights # {} THEN 1 ELSE 0) = 2]

SafeAfter(b, m) == ~IsUnderCheck(ApplyMove(b, m).board)

\* Of a pinned piece: it stays on its line to the king.
StaysOnLine(b, m) ==
  LET dy_from == m.from[1] - b.our_king[1]
      dx_from == m.from[2] - b.our_king[2]
      dy_to == m.to[1] - b.our_king[1]
      dx_to == m.to[2] - b.our_king[2]
  IN  IF dx_from = 0 \/ dx_to = 0 THEN dx_from = dx_to ELSE dx_from * dy_to = dx_to * dy_from

\* Mutant of IsLegalMove: taking in passing is a move like any other.
IsLegalOtherMove(b, m, info) ==
  IF info.attack_lines # {}
  THEN IF m.from = b.our_king THEN SafeAfter(b, m)
       ELSE /\ m.from \notin info.pinned_pieces /\ ~info.double_check
            /\ m.to \in info.attack_lines
  ELSE m.from \notin info.pinned_pieces \/ StaysOnLine(b, m)

IsLegalMove(b, m, info) ==
  IF /\ m.from[1] = 4 /\ m.from \in b.pawns
     /\ m.from[2] # m.to[2] /\ <<7, m.to[2]>> \in b.pawns
  THEN SafeAfter(b, m)
  ELSE IF info.attack_lines # {}
  THEN IF m.from = b.our_king THEN SafeAfter(b, m)
       ELSE /\ m.from \notin info.pinned_pieces /\ ~info.double_check
            /\ m.to \in info.attack_lines
  ELSE IF m.from = b.our_king
  THEN \/ m.from[1] # 0 \/ m.to[1] # 0
       \/ Abs(m.from[2] - m.to[2]) = 1 /\ m.to \notin b.our_pieces
       \/ SafeAfter(b, m)
  ELSE m.from \notin info.pinned_pieces \/ StaysOnLine(b, m)

GenerateLegalMoves(b) ==
  LET info == GenerateKingAttackInfo(b) IN
  {m \in GeneratePseudolegalMoves(b) : IsLegalMove(b, m, info)}

\* Mutant: the colors of the squares of bishops are not compared.
HasMatingCount(b) ==
  b.rooks # {} \/ b.pawns # {} \/ Cardinality(Occupied(b)) >= 4

HasMatingMaterial(b) ==
  \/ b.rooks # {} \/ b.pawns # {}
  \/ /\ Cardinality(Occupied(b)) >= 4
     /\ \/ Knights(b) # {}
        \/ {(s[1] + s[2]) % 2 : s \in b.bishops} = {0, 1}
-----------------------------------------------------------------------------
(* Descriptions of positions. *)

\* The rook that a castling of a description is with.
FindRook(b, c) ==
  LET row == IF c.black THEN 7 ELSE 0
      king == IF c.black THEN b.their_king[2] ELSE b.our_king[2]
      pieces == IF c.black THEN b.their_pieces ELSE b.our_pieces
      rooks == {f \in 0 .. 7 : <<row, f>> \in pieces \cap (b.rooks \ b.bishops)}
  IN  CASE c.side = "K"    -> CHOOSE f \in rooks : f > king /\ \A g \in rooks : g <= f
        [] c.side = "Q"    -> CHOOSE f \in rooks : f < king /\ \A g \in rooks : f <= g
        [] c.side = "file" -> c.file

SetFromFen(fen) ==
  LET of(kinds) == {s \in DOMAIN fen.men : fen.men[s].kind \in kinds}
      colored(color) == {s \in DOMAIN fen.men : fen.men[s].color = color}
      none == [we_can_00 |-> FALSE, we_can_000 |-> FALSE, they_can_00 |-> FALSE,
               they_can_000 |-> FALSE, our_kingside_rook |-> 0, our_queenside_rook |-> 0,
               their_kingside_rook |-> 0, their_queenside_rook |-> 0]
      b == [our_pieces |-> colored("white"), their_pieces |-> colored("black"),
            rooks |-> of({"rook", "queen"}), bishops |-> of({"bishop", "queen"}),
            pawns |-> of({"pawn"}) \cup {<<IF s[1] = 2 THEN 0 ELSE 7, s[2]>> : s \in fen.passed},
            our_king |-> CHOOSE s \in colored("white") : fen.men[s].kind = "king",
            their_king |-> CHOOSE s \in colored("black") : fen.men[s].kind = "king",
            castlings |-> none, flipped |-> FALSE]
      \* The files of the rooks on one side of a king.
      files(black, kingside) ==
        LET king == IF black THEN b.their_king[2] ELSE b.our_king[2] IN
        {FindRook(b, c) : c \in {c \in fen.castlings : c.black = black}}
          \cap (IF kingside THEN king + 1 .. 7 ELSE 0 .. king - 1)
      \* Without any castling the board stays cleared.
      rook(black, kingside, default) ==
        IF fen.castlings = {} THEN 0
        ELSE IF files(black, kingside) = {} THEN default
        ELSE CHOOSE f \in files(black, kingside) : TRUE
      board == [b EXCEPT !.castlings =
                  [we_can_00 |-> files(FALSE, TRUE) # {}, we_can_000 |-> files(FALSE, FALSE) # {},
                   they_can_00 |-> files(TRUE, TRUE) # {}, they_can_000 |-> files(TRUE, FALSE) # {},
                   our_kingside_rook |-> rook(FALSE, TRUE, 7),
                   our_queenside_rook |-> rook(FALSE, FALSE, 0),
                   their_kingside_rook |-> rook(TRUE, TRUE, 7),
                   their_queenside_rook |-> rook(TRUE, FALSE, 0)]]
  IN  IF fen.turn = "black" THEN Mirror(board) ELSE board

GetPieceAt(b, s) ==
  [color |-> IF s \in b.their_pieces THEN "black" ELSE "white",
   kind |-> CASE s \in Pawns(b) -> "pawn"
              [] s \in Kings(b) -> "king"
              [] s \in b.bishops \ b.rooks -> "bishop"
              [] s \in b.bishops \cap b.rooks -> "queen"
              [] s \in b.rooks \ b.bishops -> "rook"
              [] OTHER -> "knight"]

\* Mutant of CastlingsAsString: by side, wherever the rooks are.
CastlingsBySide(c) ==
  LET entry(right, black, side) == {[black |-> black, side |-> s, file |-> 7] : s \in {s \in {side} : right}}
  IN  entry(c.we_can_00, FALSE, "K") \cup entry(c.we_can_000, FALSE, "Q")
      \cup entry(c.they_can_00, TRUE, "K") \cup entry(c.they_can_000, TRUE, "Q")

\* The castlings of a board: by side when the rooks are at home, else by file.
CastlingsAsString(c) ==
  LET home == /\ c.our_queenside_rook = 0 /\ c.our_kingside_rook = 7
              /\ c.their_queenside_rook = 0 /\ c.their_kingside_rook = 7
      entry(right, black, side, file) ==
        {[black |-> black, side |-> IF home THEN side ELSE "file", file |-> f] :
           f \in {f \in {file} : right}}
  IN  entry(c.we_can_00, FALSE, "K", c.our_kingside_rook)
      \cup entry(c.we_can_000, FALSE, "Q", c.our_queenside_rook)
      \cup entry(c.they_can_00, TRUE, "K", c.their_kingside_rook)
      \cup entry(c.they_can_000, TRUE, "Q", c.their_queenside_rook)

\* Of a board seen from White's side.
GetFen(white, black_to_move) ==
  [men |-> [s \in Occupied(white) |-> GetPieceAt(white, s)],
   turn |-> IF black_to_move THEN "black" ELSE "white",
   castlings |-> CastlingsAsString(white.castlings),
   passed |-> {<<IF black_to_move THEN 2 ELSE 5, s[2]>> : s \in white.pawns \ PawnMask}]
=============================================================================
