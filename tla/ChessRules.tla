----------------------------- MODULE ChessRules -----------------------------
(***************************************************************************)
(* Chess by its laws, Chess960 included: what module ChessBoard has to     *)
(* compute with its sets of squares.  A game has men on squares, a side to *)
(* move, the rooks that may still castle, and the square behind a pawn     *)
(* that may be taken en passant.                                           *)
(*                                                                         *)
(* Whether a square is attacked is asked of the attackers, a move is legal *)
(* when the king is safe once it is made, and sides are not exchanged:     *)
(* none of this is how the code goes about it.                             *)
(***************************************************************************)
EXTENDS Integers

CONSTANT Starts     \* descriptions of positions, see Parse
VARIABLE game

Squares == (0 .. 7) \X (0 .. 7)     \* <<row, column>>, from White's first row
Other(color) == IF color = "white" THEN "black" ELSE "white"
Ahead(color) == IF color = "white" THEN 1 ELSE -1
Row(color, n) == IF color = "white" THEN n ELSE 7 - n

Straight == {<<0, 1>>, <<0, -1>>, <<1, 0>>, <<-1, 0>>}
Diagonal == {<<1, 1>>, <<1, -1>>, <<-1, 1>>, <<-1, -1>>}
Jumps == {<<a, b>> \in {-2, -1, 1, 2} \X {-2, -1, 1, 2} : a * a # b * b}
Step(s, d, n) == <<s[1] + n * d[1], s[2] + n * d[2]>>

\* As far as the squares in between are empty.
Slides(men, s, directions) ==
  UNION {{Step(s, d, n) : n \in
           {n \in 1 .. 7 : \A k \in 1 .. n - 1 : Step(s, d, k) \in Squares \ DOMAIN men}} :
         d \in directions} \cap Squares
Steps(s, directions) == {Step(s, d, 1) : d \in directions} \cap Squares

Controls(men, s) ==
  CASE men[s].kind = "king"   -> Steps(s, Straight \cup Diagonal)
    [] men[s].kind = "queen"  -> Slides(men, s, Straight \cup Diagonal)
    [] men[s].kind = "rook"   -> Slides(men, s, Straight)
    [] men[s].kind = "bishop" -> Slides(men, s, Diagonal)
    [] men[s].kind = "knight" -> Steps(s, Jumps)
    [] men[s].kind = "pawn"   ->
         Steps(s, {<<Ahead(men[s].color), 1>>, <<Ahead(men[s].color), -1>>})

Of(men, color) == {s \in DOMAIN men : men[s].color = color}
Attacked(men, s, color) == \E f \in Of(men, color) : s \in Controls(men, f)
King(men, color) == CHOOSE s \in Of(men, color) : men[s].kind = "king"
InCheck(men, color) == Attacked(men, King(men, color), Other(color))

Put(men, gone, new) ==
  [s \in (DOMAIN men \ gone) \cup DOMAIN new |-> IF s \in DOMAIN new THEN new[s] ELSE men[s]]
-----------------------------------------------------------------------------
Ranks == {"queen", "rook", "bishop", "knight"}
Move(f, t) == [from |-> f, to |-> t, promotion |-> "none"]

\* Where a pawn may go: ahead, twice from its home, or to take.
PawnTargets(g, s) ==
  LET one == Step(s, <<Ahead(g.turn), 0>>, 1)
      two == Step(s, <<Ahead(g.turn), 0>>, 2)
  IN  (IF one \in DOMAIN g.men THEN {} ELSE {one})
      \cup (IF s[1] = Row(g.turn, 1) /\ {one, two} \cap DOMAIN g.men = {} THEN {two} ELSE {})
      \cup (Controls(g.men, s) \cap (Of(g.men, Other(g.turn)) \cup g.passed))

Candidates(g) ==
  UNION {IF g.men[s].kind # "pawn"
         THEN {Move(s, t) : t \in Controls(g.men, s) \ Of(g.men, g.turn)}
         ELSE UNION {IF t[1] # Row(g.turn, 7) THEN {Move(s, t)}
                     ELSE {[Move(s, t) EXCEPT !.promotion = p] : p \in Ranks} :
                     t \in PawnTargets(g, s)} :
         s \in Of(g.men, g.turn)}

\* Castling is written as the king taking its rook.
Castles(g, m) == m.to \in Of(g.men, g.turn)
KingGoes(m) == <<m.from[1], IF m.to[2] > m.from[2] THEN 6 ELSE 2>>
RookGoes(m) == <<m.from[1], IF m.to[2] > m.from[2] THEN 5 ELSE 3>>
Between(a, b) == {<<a[1], c>> : c \in a[2] .. b[2] \cup b[2] .. a[2]}

After(g, m) ==
  LET man == g.men[m.from]
      two == Step(m.from, <<Ahead(g.turn), 0>>, 2)
      behind == Step(m.from, <<Ahead(g.turn), 0>>, 1)
      taken == IF man.kind = "pawn" /\ m.to \in g.passed THEN {<<m.from[1], m.to[2]>>} ELSE {}
      men == IF Castles(g, m)
             THEN Put(g.men, {m.from, m.to},
                      [s \in {KingGoes(m), RookGoes(m)} |->
                         IF s = KingGoes(m) THEN man ELSE g.men[m.to]])
             ELSE Put(g.men, {m.from} \cup taken,
                      [s \in {m.to} |->
                         IF m.promotion = "none" THEN man ELSE [man EXCEPT !.kind = m.promotion]])
  IN  [men |-> men, turn |-> Other(g.turn),
       rights |-> {r \in g.rights : /\ r.rook \notin {m.from, m.to}
                                    /\ man.kind = "king" => r.color # g.turn},
       passed |-> {s \in {behind} :
                     /\ man.kind = "pawn" /\ m.to = two
                     /\ \E f \in Of(men, Other(g.turn)) :
                          men[f].kind = "pawn" /\ s \in Controls(men, f)}]

\* The way must be free, and the king neither leaves nor crosses nor enters a
\* square that is attacked.
Castlings(g) ==
  {m \in {Move(King(g.men, g.turn), r.rook) : r \in {r \in g.rights : r.color = g.turn}} :
     /\ (Between(m.from, KingGoes(m)) \cup Between(m.to, RookGoes(m))) \cap DOMAIN g.men
          \subseteq {m.from, m.to}
     /\ \A s \in Between(m.from, KingGoes(m)) : ~Attacked(g.men, s, Other(g.turn))}

LegalMoves(g) ==
  {m \in Candidates(g) \cup Castlings(g) : ~InCheck(After(g, m).men, g.turn)}
-----------------------------------------------------------------------------
\* A description gives the men, the side to move, the castlings as a side or the
\* file of the rook, and the square that was passed.
Castler(d, c) ==
  LET color == IF c.black THEN "black" ELSE "white"
      king == King(d.men, color)
      rooks == {s \in Of(d.men, color) : /\ d.men[s].kind = "rook" /\ s[1] = king[1]
                                         /\ IF c.side = "K" THEN s[2] > king[2]
                                            ELSE s[2] < king[2]}
  IN  [color |-> color,
       rook |-> IF c.side = "file" THEN <<king[1], c.file>>
                ELSE CHOOSE s \in rooks :
                       \A t \in rooks : IF c.side = "K" THEN t[2] <= s[2] ELSE s[2] <= t[2]]

Parse(d) == [men |-> d.men, turn |-> d.turn, passed |-> d.passed,
             rights |-> {Castler(d, c) : c \in d.castlings}]

Init == \E d \in Starts : game = Parse(d)
Next == \E m \in LegalMoves(game) : game' = After(game, m)
Spec == Init /\ [][Next]_game
=============================================================================
