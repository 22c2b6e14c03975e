-------------------------- MODULE Tournament_proofs --------------------------
(***************************************************************************)
(* Safety of a tournament, for any number of workers and games and any     *)
(* length of a game.                                                       *)
(*                                                                         *)
(* That an abort reaches every search is inductive as it stands.  That     *)
(* only a complete tournament is reported as finished needs the account of *)
(* the games (Counted) and to know when every worker is gone (Ended).      *)
(***************************************************************************)
EXTENDS Tournament, TLAPS, FiniteSetTheorems

\* A game of any length.
AnyGame == [plies : Int, abort : BOOLEAN, decided : BOOLEAN,
            search : {"none", "running", "hanging", "aborted"}]

Typed ==
  /\ worker \in [Workers -> Place] /\ game \in [Workers -> AnyGame]
  /\ kTotalGames \in Nat /\ games_count_ \in Nat /\ givenUp \in Nat
  /\ info \in [counted : Nat, finished : Nat]
  /\ abort_ \in BOOLEAN
  /\ games_ \subseteq Workers /\ threads_ \subseteq Workers

\* A game that was entered is one that somebody plays.
InPlay == {"play", "begin", "search", "choose", "keep", "reset", "move", "report",
           "leave"}
GamesArePlayed == \A w \in games_ : worker[w] \in InPlay

\* A game is told to stop, and a command waits, only after abort_ was set.
AbortedFirst ==
  /\ uci # "ready" => abort_
  /\ \A w \in Workers : game[w].abort => abort_

\* The workers whose number was taken and whose game is neither counted nor
\* given up.
OpenPlaces == {"enter", "play", "begin", "search", "choose", "keep", "reset", "move",
               "report"}
Open == {w \in Workers : worker[w] \in OpenPlaces}

\* Until it is aborted a tournament loses no game.
Counted ==
  ~abort_ =>
    /\ info.counted + givenUp + Cardinality(Open) = games_count_
    /\ games_count_ <= kTotalGames
    /\ (\E w \in Workers : worker[w] = "gone") => games_count_ = kTotalGames

AllGone ==
  /\ \A w \in Workers : worker[w] \in {"gone", "not started"}
  /\ \E w \in Workers : worker[w] = "gone"

TheWorker == CHOOSE w \in Workers : TRUE

\* Where the runner is tells which workers may still play.
Ended ==
  /\ runner = "start" => \A w \in Workers : worker[w] = "not started"
  /\ runner = "work" => \A w \in Workers : w # TheWorker => worker[w] = "not started"
  /\ runner \in {"wait", "join"} => \A w \in Workers \ threads_ : worker[w] = "gone"
  /\ runner \in {"finish", "done"} => AllGone
  /\ runner # "done" => info.finished = 0
  /\ info.finished <= 1

Final == info.finished > 0 => games_count_ = kTotalGames /\ info.counted + givenUp = kTotalGames

IInv == Typed /\ GamesArePlayed /\ AbortedFirst /\ Counted /\ Ended /\ Final

USE WorkersAssumption, GamesAssumption DEF parameters

LEMMA ZeroIsNotPositive == \A n : n = 0 => ~(n > 0) OBVIOUS
LEMMA Squeezed == \A a, b \in Nat : a <= b /\ b <= a => a = b OBVIOUS

LEMMA SomeWorker == Workers # {} /\ TheWorker \in Workers
<1>1. Workers # {} BY FS_EmptySet
<1> QED BY <1>1 DEF TheWorker

LEMMA OpenFinite == IsFiniteSet(Open) /\ Cardinality(Open) \in Nat
<1>1. Open \in SUBSET Workers BY DEF Open
<1>2. IsFiniteSet(Open) BY <1>1, FS_Subset
<1> QED BY <1>2, FS_CardinalityType

\* What a step of w does to the number of open games.
LEMMA OpenMoves ==
  ASSUME Typed, NEW w \in Workers, NEW place \in Place, Go(w, place)
  PROVE  /\ worker' \in [Workers -> Place] /\ worker'[w] = place
         /\ \A v \in Workers : v # w => worker'[v] = worker[v]
         /\ Cardinality(Open)' =
              IF place \in OpenPlaces
              THEN IF worker[w] \in OpenPlaces THEN Cardinality(Open) ELSE Cardinality(Open) + 1
              ELSE IF worker[w] \in OpenPlaces THEN Cardinality(Open) - 1 ELSE Cardinality(Open)
<1>1. /\ worker' \in [Workers -> Place] /\ worker'[w] = place
      /\ \A v \in Workers : v # w => worker'[v] = worker[v]
  BY DEF Typed, Go
<1>2. w \in Open <=> worker[w] \in OpenPlaces BY DEF Open
<1>3. CASE place \in OpenPlaces
  <2>1. Open' = Open \cup {w} BY <1>1, <1>3 DEF Open
  <2> QED BY <1>1, <1>2, <1>3, <2>1, OpenFinite, FS_AddElement
<1>4. CASE place \notin OpenPlaces
  <2>1. Open' = Open \ {w} BY <1>1, <1>4 DEF Open
  <2> QED BY <1>1, <1>2, <1>4, <2>1, OpenFinite, FS_RemoveElement
<1> QED BY <1>3, <1>4

\* The part of the argument that the steps of a worker have in common.
LEMMA MoveInv ==
  ASSUME IInv, NEW w \in Workers, NEW place \in Place, Go(w, place),
         worker[w] \notin {"gone", "not started"},
         UNCHANGED <<kTotalGames, abort_, threadVars>>,
         game' \in [Workers -> AnyGame], games_' \subseteq Workers,
         games_count_' \in Nat, givenUp' \in Nat, info' \in [counted : Nat, finished : Nat],
         info'.finished = info.finished,
         \A v \in Workers : game'[v].abort => game[v].abort,
         \A v \in games_' : v # w => v \in games_, w \in games_' => place \in InPlay,
         ~abort_ => /\ info'.counted + givenUp' + Cardinality(Open)' = games_count_'
                    /\ games_count_ <= games_count_' /\ games_count_' <= kTotalGames
                    /\ place = "gone" => games_count_' = kTotalGames
  PROVE  IInv'
<1> USE DEF IInv
<1>a. /\ worker' \in [Workers -> Place] /\ worker'[w] = place
      /\ \A v \in Workers : v # w => worker'[v] = worker[v]
  BY OpenMoves
<1>b. UNCHANGED <<threads_, threads_mutex_, runner, uci>> BY DEF threadVars
<1>1. Typed' BY <1>a, <1>b DEF Typed
<1>2. GamesArePlayed' BY <1>a DEF GamesArePlayed, Typed
<1>3. AbortedFirst' BY <1>b DEF AbortedFirst
<1>4. Counted'
  <2> SUFFICES ASSUME ~abort_
               PROVE  (\E v \in Workers : worker'[v] = "gone") => games_count_' = kTotalGames
    BY DEF Counted
  <2> SUFFICES ASSUME NEW v \in Workers, worker'[v] = "gone" PROVE games_count_' = kTotalGames
    OBVIOUS
  <2>1. CASE v = w BY <2>1, <1>a
  <2>2. CASE v # w
    <3>1. games_count_ = kTotalGames BY <2>2, <1>a DEF Counted
    <3>2. games_count_ <= games_count_' /\ games_count_' <= kTotalGames OBVIOUS
    <3>3. games_count_ \in Nat /\ games_count_' \in Nat BY DEF Typed
    <3>4. kTotalGames <= games_count_' BY <3>1, <3>2
    <3>5. kTotalGames \in Nat BY DEF Typed
    <3> QED BY <3>2, <3>3, <3>4, <3>5, Squeezed, Zenon
  <2> QED BY <2>1, <2>2
<1>5. runner \notin {"start", "finish", "done"} /\ info.finished = 0
  BY DEF Ended, AllGone
<1>6. Ended' BY <1>a, <1>b, <1>5, SomeWorker DEF Ended, TheWorker
<1>7. Final'
  <2>1. info'.finished = 0 BY <1>5
  <2>2. ~(info'.finished > 0) BY <2>1, ZeroIsNotPositive, Zenon
  <2> QED BY <2>2, Zenon DEF Final
<1> QED BY <1>1, <1>2, <1>3, <1>4, <1>6, <1>7

LEMMA NewGameIs == NewGame \in AnyGame /\ ~NewGame.abort BY DEF NewGame, AnyGame

LEMMA NextGameInv == ASSUME IInv, NEW w \in Workers, NextGame(w) PROVE IInv'
<1> USE DEF IInv
<1>0. /\ worker[w] = "next"
      /\ UNCHANGED <<kTotalGames, abort_, threadVars, game, games_, info, givenUp>>
  BY DEF NextGame, Locked
<1>1. CASE abort_ \/ games_count_ >= kTotalGames
  <2>1. Go(w, "gone") /\ UNCHANGED games_count_ BY <1>1 DEF NextGame
  <2>2. Cardinality(Open)' = Cardinality(Open) BY <1>0, <2>1, OpenMoves DEF OpenPlaces, Place
  <2>3. ~abort_ => /\ info'.counted + givenUp' + Cardinality(Open)' = games_count_'
                   /\ games_count_ <= games_count_' /\ games_count_' <= kTotalGames
                   /\ games_count_' = kTotalGames
    BY <1>0, <1>1, <2>1, <2>2 DEF Counted, Typed
  <2>4. \A v \in games_' : v # w /\ v \in games_ BY <1>0 DEF GamesArePlayed, InPlay
  <2> QED BY <1>0, <2>1, <2>3, <2>4, MoveInv DEF Typed, Place
<1>2. CASE ~(abort_ \/ games_count_ >= kTotalGames)
  <2>1. Go(w, "enter") /\ games_count_' = games_count_ + 1 BY <1>2 DEF NextGame
  <2>2. Cardinality(Open)' = Cardinality(Open) + 1
    BY <1>0, <2>1, OpenMoves DEF OpenPlaces, Place
  <2>3. ~abort_ => /\ info'.counted + givenUp' + Cardinality(Open)' = games_count_'
                   /\ games_count_ <= games_count_' /\ games_count_' <= kTotalGames
    BY <1>0, <1>2, <2>1, <2>2, OpenFinite DEF Counted, Typed
  <2>4. \A v \in games_' : v # w /\ v \in games_ BY <1>0 DEF GamesArePlayed, InPlay
  <2>5. /\ game' \in [Workers -> AnyGame] /\ games_' \subseteq Workers /\ games_count_' \in Nat
        /\ givenUp' \in Nat /\ info' \in [counted : Nat, finished : Nat]
        /\ info'.finished = info.finished
        /\ \A v \in Workers : game'[v].abort => game[v].abort
    BY <1>0, <2>1 DEF Typed
  <2> QED BY <1>0, <2>1, <2>3, <2>4, <2>5, MoveInv DEF Place
<1> QED BY <1>1, <1>2

LEMMA EnterGameInv == ASSUME IInv, NEW w \in Workers, EnterGame(w) PROVE IInv'
<1> USE DEF IInv
<1>0. /\ worker[w] = "enter" /\ Go(w, "play") /\ games_' = games_ \cup {w}
      /\ game' = [game EXCEPT ![w] = NewGame]
      /\ UNCHANGED <<kTotalGames, abort_, threadVars, games_count_, info, givenUp>>
  BY DEF EnterGame, Locked
<1>1. Cardinality(Open)' = Cardinality(Open) BY <1>0, OpenMoves DEF OpenPlaces, Place
<1>2. game' \in [Workers -> AnyGame] /\ \A v \in Workers : game'[v].abort => game[v].abort
  BY <1>0, NewGameIs DEF Typed
<1>3. ~abort_ => /\ info'.counted + givenUp' + Cardinality(Open)' = games_count_'
                 /\ games_count_ <= games_count_' /\ games_count_' <= kTotalGames
  BY <1>0, <1>1 DEF Counted, Typed
<1>4. \A v \in games_' : v # w => v \in games_ BY <1>0
<1>5. /\ games_' \subseteq Workers /\ games_count_' \in Nat
      /\ givenUp' \in Nat /\ info' \in [counted : Nat, finished : Nat]
      /\ info'.finished = info.finished
  BY <1>0 DEF Typed
<1>6. /\ worker[w] \notin {"gone", "not started"}
      /\ "play" \in Place /\ "play" \in InPlay /\ "play" # "gone"
      /\ UNCHANGED <<kTotalGames, abort_, threadVars>>
  BY <1>0 DEF InPlay, Place
<1>7. Go(w, "play") BY <1>0
<1> QED BY <1>2, <1>3, <1>5, <1>4, <1>6, <1>7, MoveInv

LEMMA ReportInv == ASSUME IInv, NEW w \in Workers, Report(w) PROVE IInv'
<1> USE DEF IInv
<1>0. /\ worker[w] = "report" /\ Go(w, "leave")
      /\ info' = [info EXCEPT !.counted = @ + 1]
      /\ UNCHANGED <<kTotalGames, abort_, threadVars, game, games_, games_count_, givenUp>>
  BY DEF Report, Locked
<1>1. Cardinality(Open)' = Cardinality(Open) - 1 BY <1>0, OpenMoves DEF OpenPlaces, Place
<1>2. /\ info' \in [counted : Nat, finished : Nat]
      /\ info'.counted = info.counted + 1 /\ info'.finished = info.finished
  BY <1>0 DEF Typed
<1>3. ~abort_ => /\ info'.counted + givenUp' + Cardinality(Open)' = games_count_'
                 /\ games_count_ <= games_count_' /\ games_count_' <= kTotalGames
  BY <1>0, <1>1, <1>2, OpenFinite DEF Counted, Typed
<1>4. \A v \in games_' : v # w => v \in games_ BY <1>0
<1> QED BY <1>0, <1>2, <1>3, <1>4, MoveInv DEF Typed, InPlay, Place

LEMMA LeaveGameInv == ASSUME IInv, NEW w \in Workers, LeaveGame(w) PROVE IInv'
<1> USE DEF IInv
<1>0. /\ worker[w] = "leave" /\ Go(w, "next") /\ games_' = games_ \ {w}
      /\ game' = [game EXCEPT ![w] = NewGame]
      /\ UNCHANGED <<kTotalGames, abort_, threadVars, games_count_, info, givenUp>>
  BY DEF LeaveGame, Locked
<1>1. Cardinality(Open)' = Cardinality(Open) BY <1>0, OpenMoves DEF OpenPlaces, Place
<1>2. game' \in [Workers -> AnyGame] /\ \A v \in Workers : game'[v].abort => game[v].abort
  BY <1>0, NewGameIs DEF Typed
<1>3. ~abort_ => /\ info'.counted + givenUp' + Cardinality(Open)' = games_count_'
                 /\ games_count_ <= games_count_' /\ games_count_' <= kTotalGames
  BY <1>0, <1>1 DEF Counted, Typed
<1>4. \A v \in games_' : v # w /\ v \in games_ BY <1>0
<1> QED BY <1>0, <1>2, <1>3, <1>4, MoveInv DEF Typed, Place

\* A step in a game that ends it after an abort, or not at all.
LEMMA InGameInv ==
  ASSUME IInv, NEW w \in Workers, NEW place \in InPlay, Go(w, place), InGame,
         UNCHANGED givenUp,
         worker[w] \in {"play", "begin", "search", "choose", "keep", "reset", "move"},
         place = "leave" => abort_,
         game' \in [Workers -> AnyGame],
         \A v \in Workers : game'[v].abort => game[v].abort
  PROVE  IInv'
<1> USE DEF IInv
<1>0. /\ UNCHANGED <<kTotalGames, abort_, threadVars, games_, games_count_, info>>
      /\ place \in Place /\ worker[w] \notin {"gone", "not started"} /\ place # "gone"
  BY DEF InGame, InPlay, Place
<1>1. ~abort_ => Cardinality(Open)' = Cardinality(Open)
  BY <1>0, OpenMoves DEF OpenPlaces, InPlay
<1>2. ~abort_ => /\ info'.counted + givenUp' + Cardinality(Open)' = games_count_'
                 /\ games_count_ <= games_count_' /\ games_count_' <= kTotalGames
  <2> SUFFICES ASSUME ~abort_
               PROVE  /\ info'.counted + givenUp' + Cardinality(Open)' = games_count_'
                      /\ games_count_ <= games_count_' /\ games_count_' <= kTotalGames
    OBVIOUS
  <2>1. Cardinality(Open)' = Cardinality(Open) BY <1>1
  <2>2. /\ info.counted + givenUp + Cardinality(Open) = games_count_
        /\ games_count_ <= kTotalGames /\ games_count_ \in Nat
    BY DEF Counted, Typed
  <2>3. info' = info /\ givenUp' = givenUp /\ games_count_' = games_count_ BY <1>0
  <2> QED BY <2>1, <2>2, <2>3
<1>3. \A v \in games_' : v # w => v \in games_ BY <1>0
<1> QED BY <1>0, <1>2, <1>3, MoveInv DEF Typed

LEMMA PlayInv == ASSUME IInv, NEW w \in Workers, Play(w) PROVE IInv'
<1> USE DEF IInv
<1>0. worker[w] = "play" /\ InGame BY DEF Play
<1>1. CASE game[w].abort /\ Go(w, "leave") /\ UNCHANGED <<game, givenUp>>
  BY <1>0, <1>1, InGameInv DEF InPlay, AbortedFirst, Typed
<1>2. CASE ~game[w].abort /\ game' = [game EXCEPT ![w].decided = TRUE]
           /\ Go(w, "report") /\ UNCHANGED givenUp
  <2>1. game' \in [Workers -> AnyGame] /\ \A v \in Workers : game'[v].abort => game[v].abort
    BY <1>2 DEF Typed, AnyGame
  <2> QED BY <1>0, <1>2, <2>1, InGameInv DEF InPlay
<1>3. CASE Go(w, "leave") /\ givenUp' = givenUp + 1 /\ UNCHANGED game
  <2>1. Cardinality(Open)' = Cardinality(Open) - 1
    BY <1>0, <1>3, OpenMoves DEF OpenPlaces, Place
  <2>2. UNCHANGED <<kTotalGames, abort_, threadVars, games_, games_count_, info>>
    BY <1>0 DEF InGame
  <2>3. ~abort_ => /\ info'.counted + givenUp' + Cardinality(Open)' = games_count_'
                   /\ games_count_ <= games_count_' /\ games_count_' <= kTotalGames
    BY <1>3, <2>1, <2>2, OpenFinite DEF Counted, Typed
  <2>4. \A v \in games_' : v # w => v \in games_ BY <2>2
  <2>5. /\ game' \in [Workers -> AnyGame] /\ games_' \subseteq Workers /\ games_count_' \in Nat
        /\ givenUp' \in Nat /\ info' \in [counted : Nat, finished : Nat]
        /\ info'.finished = info.finished
        /\ \A v \in Workers : game'[v].abort => game[v].abort
    BY <1>3, <2>2 DEF Typed
  <2> QED BY <1>0, <1>3, <2>2, <2>3, <2>4, <2>5, MoveInv DEF InPlay, Place
<1>4. CASE Go(w, "begin") /\ UNCHANGED <<game, givenUp>>
  BY <1>0, <1>4, InGameInv DEF InPlay, Typed
<1> QED BY <1>1, <1>2, <1>3, <1>4 DEF Play

LEMMA BeginSearchInv == ASSUME IInv, NEW w \in Workers, BeginSearch(w) PROVE IInv'
<1> USE DEF IInv
<1>0. worker[w] = "begin" /\ InGame /\ UNCHANGED givenUp BY DEF BeginSearch
<1>1. CASE game[w].abort
  <2>1. Go(w, "leave") /\ UNCHANGED game BY <1>1 DEF BeginSearch
  <2> QED BY <1>0, <1>1, <2>1, InGameInv DEF InPlay, AbortedFirst, Typed
<1>2. CASE ~game[w].abort
  <2>1. Go(w, "search") /\ game' = [game EXCEPT ![w].search = "running"]
    BY <1>2 DEF BeginSearch
  <2>2. game' \in [Workers -> AnyGame] /\ \A v \in Workers : game'[v].abort => game[v].abort
    BY <2>1 DEF Typed, AnyGame
  <2> QED BY <1>0, <2>1, <2>2, InGameInv DEF InPlay
<1> QED BY <1>1, <1>2

LEMMA SearchHangsInv == ASSUME IInv, NEW w \in Workers, SearchHangs(w) PROVE IInv'
<1> USE DEF IInv
<1>0. /\ worker[w] = "search" /\ InGame /\ UNCHANGED <<worker, givenUp>>
      /\ game' = [game EXCEPT ![w].search = "hanging"]
  BY DEF SearchHangs
<1>1. Go(w, "search") BY <1>0 DEF Go, Typed
<1>2. game' \in [Workers -> AnyGame] /\ \A v \in Workers : game'[v].abort => game[v].abort
  BY <1>0 DEF Typed, AnyGame
<1> QED BY <1>0, <1>1, <1>2, InGameInv DEF InPlay

LEMMA EndSearchInv == ASSUME IInv, NEW w \in Workers, EndSearch(w) PROVE IInv'
<1> USE DEF IInv
<1>0. worker[w] = "search" /\ InGame /\ UNCHANGED givenUp BY DEF EndSearch
<1>1. CASE game[w].abort /\ Go(w, "leave") /\ UNCHANGED game
  BY <1>0, <1>1, InGameInv DEF InPlay, AbortedFirst, Typed
<1>2. CASE game' = [game EXCEPT ![w].decided = TRUE] /\ Go(w, "report")
  <2>1. game' \in [Workers -> AnyGame] /\ \A v \in Workers : game'[v].abort => game[v].abort
    BY <1>2 DEF Typed, AnyGame
  <2> QED BY <1>0, <1>2, <2>1, InGameInv DEF InPlay
<1>3. CASE Go(w, "choose") /\ UNCHANGED game BY <1>0, <1>3, InGameInv DEF InPlay, Typed
<1> QED BY <1>1, <1>2, <1>3 DEF EndSearch

LEMMA ChooseMoveInv ==
  ASSUME IInv, NEW w \in Workers, ChooseMove(w) \/ DiscardMove(w) PROVE IInv'
<1> USE DEF IInv
<1>0. /\ worker[w] \in {"choose", "keep", "reset"}
      /\ InGame /\ UNCHANGED <<game, givenUp>>
  BY DEF ChooseMove, DiscardMove
<1>1. PICK place \in {"choose", "keep", "reset", "move"} : Go(w, place)
  BY DEF ChooseMove, DiscardMove
<1> QED BY <1>0, <1>1, InGameInv DEF InPlay, Typed

LEMMA MoveStepInv == ASSUME IInv, NEW w \in Workers, Move(w) PROVE IInv'
<1> USE DEF IInv
<1>0. /\ worker[w] = "move" /\ InGame /\ UNCHANGED givenUp /\ Go(w, "play")
      /\ game' = [game EXCEPT ![w] = [game[w] EXCEPT !.search = "none",
                                                     !.plies = game[w].plies + 1]]
  BY DEF Move
<1>1. PICK g : g = [game[w] EXCEPT !.search = "none", !.plies = game[w].plies + 1] OBVIOUS
<1>2. g \in AnyGame /\ g.abort = game[w].abort
  <2>1. game[w] \in AnyGame BY DEF Typed
  <2>2. PICK plies \in Int : plies = game[w].plies + 1 BY <2>1 DEF AnyGame
  <2>3. g = [game[w] EXCEPT !.search = "none", !.plies = plies] BY <1>1, <2>2
  <2> QED BY <2>1, <2>3 DEF AnyGame
<1>3. game' \in [Workers -> AnyGame] /\ \A v \in Workers : game'[v].abort => game[v].abort
  BY <1>0, <1>1, <1>2 DEF Typed
<1> QED BY <1>0, <1>3, InGameInv DEF InPlay
-----------------------------------------------------------------------------
(* The runner and the loop. *)

\* A step of the runner or the loop that is none of a game.
LEMMA ElsewhereInv ==
  ASSUME IInv, UNCHANGED <<kTotalGames, worker, games_, games_count_, info, givenUp>>,
         game' \in [Workers -> AnyGame], threads_' \subseteq Workers, abort_' \in BOOLEAN,
         abort_ => abort_', uci' # "ready" => abort_',
         \A w \in Workers : game'[w].abort => abort_',
         Ended'
  PROVE  IInv'
<1> USE DEF IInv
<1>1. Typed' BY DEF Typed
<1>2. GamesArePlayed' BY DEF GamesArePlayed
<1>3. AbortedFirst' BY DEF AbortedFirst
<1>4. Counted' BY DEF Counted, Open
<1>5. Final' BY DEF Final
<1> QED BY <1>1, <1>2, <1>3, <1>4, <1>5

LEMMA RunBlockingInv == ASSUME IInv, RunBlocking PROVE IInv'
<1> USE DEF IInv
<1> DEFINE started == IF kParallelism = 1 THEN {TheWorker} ELSE Workers
<1>0. /\ runner = "start"
      /\ worker' = [w \in Workers |-> IF w \in started THEN "next" ELSE worker[w]]
      /\ threads_' = IF kParallelism = 1 THEN {} ELSE started
      /\ runner' = IF kParallelism = 1 THEN "work" ELSE "wait"
      /\ UNCHANGED <<kTotalGames, game, games_, games_count_, givenUp, abort_, info, uci>>
  BY DEF RunBlocking, UnchangedGames, TheWorker
<1>1. /\ \A w \in Workers : worker[w] = "not started"
      /\ \A w \in Workers : worker'[w] = IF w \in started THEN "next" ELSE "not started"
      /\ worker' \in [Workers -> Place]
  BY <1>0 DEF Ended, Place
<1>2. Typed' BY <1>0, <1>1 DEF Typed
<1>3. GamesArePlayed' BY <1>0, <1>1 DEF GamesArePlayed, Typed, InPlay
<1>4. AbortedFirst' BY <1>0 DEF AbortedFirst
<1>5. Counted'
  <2>1. Open' = Open BY <1>1 DEF Open, OpenPlaces
  <2>2. \A w \in Workers : worker'[w] # "gone" BY <1>1
  <2> QED BY <1>0, <2>1, <2>2 DEF Counted
<1>6. Ended' BY <1>0, <1>1 DEF Ended, TheWorker
<1>7. Final' BY <1>0 DEF Final
<1> QED BY <1>2, <1>3, <1>4, <1>5, <1>6, <1>7

LEMMA WorkedInv == ASSUME IInv, Worked PROVE IInv'
<1> USE DEF IInv
<1>0. /\ runner = "work" /\ worker[TheWorker] = "gone" /\ runner' = "finish"
      /\ UNCHANGED <<kTotalGames, worker, game, games_, games_count_, info, givenUp,
                     abort_, threads_, uci>>
  BY DEF Worked, UnchangedGames, TheWorker
<1>1. AllGone BY <1>0, SomeWorker DEF Ended, AllGone, TheWorker
<1>2. Ended' BY <1>0, <1>1 DEF Ended, AllGone
<1> QED BY <1>0, <1>2, ElsewhereInv DEF Typed, AbortedFirst

\* BeginWait and Join, whoever waits: threads_ loses workers that are gone.
LEMMA WaitKeeps ==
  ASSUME IInv, NEW me, BeginWait(me) \/ Join(me)
  PROVE  /\ threads_' \subseteq Workers
         /\ runner \in {"wait", "join"} => \A w \in Workers \ threads_' : worker[w] = "gone"
  BY DEF IInv, BeginWait, Join, Ended, Typed

\* Nothing is missing when the runner reports.
LEMMA FinishIsFinal ==
  ASSUME IInv, AllGone, info.finished = 0, Finish
  PROVE  /\ info' \in [counted : Nat, finished : Nat]
         /\ info'.counted = info.counted /\ info'.finished <= 1
         /\ info'.finished > 0 => /\ ~abort_ /\ games_count_ = kTotalGames
                                 /\ info.counted + givenUp = kTotalGames
<1> USE DEF IInv
<1>1. CASE abort_ BY <1>1 DEF Finish, Typed
<1>2. CASE ~abort_
  <2>1. info' = [info EXCEPT !.finished = info.finished + 1] BY <1>2 DEF Finish
  <2>2. Open = {} BY DEF AllGone, Open, OpenPlaces
  <2>3. Cardinality(Open) = 0 BY <2>2, FS_EmptySet
  <2>4. games_count_ = kTotalGames BY <1>2, Zenon DEF Counted, AllGone
  <2>5. info.counted + givenUp + 0 = games_count_ BY <1>2, <2>3 DEF Counted
  <2> QED BY <1>2, <2>1, <2>4, <2>5 DEF Typed
<1> QED BY <1>1, <1>2

LEMMA RunnerWaitsInv == ASSUME IInv, RunnerWaits PROVE IInv'
<1> USE DEF IInv
<1>0. UNCHANGED <<kTotalGames, worker, game, games_, games_count_, givenUp, abort_, uci>>
  BY DEF RunnerWaits, UnchangedGames
<1>1. CASE runner = "wait" /\ runner' = "join" /\ BeginWait("runner") /\ UNCHANGED info
  <2>1. Ended' BY <1>0, <1>1, WaitKeeps DEF Ended
  <2> QED BY <1>0, <1>1, <2>1, WaitKeeps, ElsewhereInv DEF Typed, AbortedFirst
<1>2. CASE runner = "join" /\ runner' = "finish" /\ Join("runner") /\ UNCHANGED info
  <2>1. \A w \in Workers : worker[w] = "gone" BY <1>2 DEF Ended, Join
  <2>2. AllGone BY <2>1, SomeWorker DEF AllGone
  <2>3. Ended' BY <1>0, <1>2, <2>2 DEF Ended, AllGone
  <2> QED BY <1>0, <1>2, <2>3, WaitKeeps, ElsewhereInv DEF Typed, AbortedFirst
<1>3. CASE runner = "finish" /\ runner' = "done" /\ Finish /\ UNCHANGED <<threads_, threads_mutex_>>
  <2>1. AllGone /\ info.finished = 0 BY <1>3 DEF Ended
  <2>2. /\ info' \in [counted : Nat, finished : Nat]
        /\ info'.counted = info.counted /\ info'.finished <= 1
        /\ info'.finished > 0 => /\ games_count_ = kTotalGames
                                /\ info.counted + givenUp = kTotalGames
    BY <1>3, <2>1, FinishIsFinal
  <2>3. Typed' BY <1>0, <1>3, <2>2 DEF Typed
  <2>4. GamesArePlayed' BY <1>0 DEF GamesArePlayed
  <2>5. AbortedFirst' BY <1>0 DEF AbortedFirst
  <2>6. Counted' BY <1>0, <2>2 DEF Counted, Open
  <2>7. Ended' BY <1>0, <1>3, <2>1, <2>2 DEF Ended, AllGone
  <2>8. Final' BY <1>0, <2>2 DEF Final
  <2> QED BY <2>3, <2>4, <2>5, <2>6, <2>7, <2>8
<1> QED BY <1>1, <1>2, <1>3 DEF RunnerWaits

LEMMA CmdStopInv == ASSUME IInv, CmdStop PROVE IInv'
<1> USE DEF IInv
<1>0. /\ abort_' = TRUE
      /\ UNCHANGED <<kTotalGames, worker, game, games_, games_count_, info, givenUp,
                     threads_, runner>>
  BY DEF CmdStop, UnchangedGames
<1>1. Ended' BY <1>0 DEF Ended, AllGone
<1> QED BY <1>0, <1>1, ElsewhereInv DEF Typed

LEMMA StopWaitsInv == ASSUME IInv, StopWaits PROVE IInv'
<1> USE DEF IInv
<1>0. /\ UNCHANGED <<kTotalGames, worker, game, games_, games_count_, givenUp, abort_, runner>>
      /\ abort_ = TRUE
  BY DEF StopWaits, UnchangedGames, AbortedFirst, Typed
<1>1. /\ UNCHANGED info /\ threads_' \subseteq Workers
      /\ runner \in {"wait", "join"} => \A w \in Workers \ threads_' : worker[w] = "gone"
  <2>1. CASE BeginWait("uci") /\ UNCHANGED info BY <2>1, WaitKeeps
  <2>2. CASE Join("uci") /\ UNCHANGED info BY <2>2, WaitKeeps
  <2>3. CASE Finish /\ UNCHANGED <<threads_, threads_mutex_>>
    BY <2>3, <1>0 DEF Finish, Typed, Ended
  <2> QED BY <2>1, <2>2, <2>3 DEF StopWaits
<1>2. Ended' BY <1>0, <1>1 DEF Ended, AllGone
<1> QED BY <1>0, <1>1, <1>2, ElsewhereInv DEF Typed

LEMMA QuitInv == ASSUME IInv, Quit PROVE IInv'
<1> USE DEF IInv
<1>0. /\ abort_' = TRUE
      /\ UNCHANGED <<kTotalGames, worker, game, games_, games_count_, info, givenUp,
                     threads_, runner>>
  BY DEF Quit, UnchangedGames
<1>1. Ended' BY <1>0 DEF Ended, AllGone
<1> QED BY <1>0, <1>1, ElsewhereInv DEF Typed

LEMMA AbortGameInv == ASSUME IInv, NEW w \in Workers, AbortGame(w) PROVE IInv'
<1> USE DEF IInv
<1>0. /\ UNCHANGED <<kTotalGames, worker, games_, games_count_, info, givenUp, abort_,
                     threads_, runner, uci>>
      /\ game' = [game EXCEPT ![w] =
           [game[w] EXCEPT !.abort = TRUE,
                           !.search = IF game[w].search = "running" THEN "aborted"
                                                                  ELSE game[w].search]]
      /\ abort_ = TRUE
  BY DEF AbortGame, threadVars, AbortedFirst, Typed
<1>1. [game[w] EXCEPT !.abort = TRUE,
                      !.search = IF game[w].search = "running" THEN "aborted"
                                                             ELSE game[w].search] \in AnyGame
  BY DEF Typed, AnyGame
<1>2. game' \in [Workers -> AnyGame] BY <1>0, <1>1 DEF Typed
<1>3. Ended' BY <1>0 DEF Ended, AllGone
<1> QED BY <1>0, <1>2, <1>3, ElsewhereInv DEF Typed

LEMMA LoopEndsInv == ASSUME IInv, Aborted \/ Destroyed PROVE IInv'
<1> USE DEF IInv
<1>0. /\ UNCHANGED <<kTotalGames, worker, game, games_, games_count_, info, givenUp, abort_,
                     threads_, runner>>
      /\ abort_ = TRUE
  BY DEF Aborted, Destroyed, UnchangedGames, AbortedFirst, Typed
<1>1. Ended' BY <1>0 DEF Ended, AllGone
<1> QED BY <1>0, <1>1, ElsewhereInv DEF Typed
-----------------------------------------------------------------------------
LEMMA InitInv == Init => IInv
<1> SUFFICES ASSUME Init PROVE IInv OBVIOUS
<1>1. /\ worker = [w \in Workers |-> "not started"] /\ game = [w \in Workers |-> NewGame]
      /\ kTotalGames \in Nat /\ games_ = {} /\ games_count_ = 0 /\ abort_ = FALSE
      /\ info = [counted |-> 0, finished |-> 0] /\ givenUp = 0 /\ threads_ = {}
      /\ runner = "start" /\ uci = "ready"
  BY DEF Init
<1>2. Typed BY <1>1, NewGameIs DEF Typed, Place
<1>a. info.counted = 0 /\ info.finished = 0 BY <1>1
<1>b. ~(info.finished > 0) BY <1>a, ZeroIsNotPositive, Zenon
<1>3. GamesArePlayed BY <1>1 DEF GamesArePlayed
<1>4. AbortedFirst BY <1>1, NewGameIs DEF AbortedFirst
<1>5. Counted
  <2>1. Open = {} BY <1>1 DEF Open, OpenPlaces
  <2>2. Cardinality(Open) = 0 BY <2>1, FS_EmptySet
  <2>3. \A w \in Workers : worker[w] # "gone" BY <1>1
  <2>4. info.counted + givenUp + Cardinality(Open) = games_count_
    <3>1. info.counted = 0 /\ givenUp = 0 /\ games_count_ = 0 BY <1>1, <1>a
    <3> QED BY <2>2, <3>1
  <2>5. games_count_ <= kTotalGames
    <3>1. games_count_ = 0 BY <1>1
    <3>2. kTotalGames \in Nat BY <1>1
    <3> QED BY <3>1, <3>2
  <2> QED BY <2>3, <2>4, <2>5, Zenon DEF Counted
<1>6. Ended
  <2>1. \A w \in Workers : worker[w] = "not started" BY <1>1
  <2>2. info.finished <= 1 BY <1>a
  <2> QED BY <1>1, <1>a, <2>1, <2>2 DEF Ended
<1>7. Final BY <1>b, Zenon DEF Final
<1> QED BY <1>2, <1>3, <1>4, <1>5, <1>6, <1>7 DEF IInv

LEMMA StutterInv == ASSUME IInv, UNCHANGED vars PROVE IInv'
<1> USE DEF IInv, vars, workerVars, threadVars
<1>1. Typed' BY DEF Typed
<1>2. GamesArePlayed' BY DEF GamesArePlayed
<1>3. AbortedFirst' BY DEF AbortedFirst
<1>4. Counted' BY DEF Counted, Open
<1>5. Ended' BY DEF Ended, AllGone
<1>6. Final' BY DEF Final
<1> QED BY <1>1, <1>2, <1>3, <1>4, <1>5, <1>6

LEMMA NextInv == ASSUME IInv, [Next]_vars PROVE IInv'
<1>1. ASSUME NEW w \in Workers, WorkerStep(w) PROVE IInv'
  BY <1>1, NextGameInv, EnterGameInv, ReportInv, LeaveGameInv, PlayInv, BeginSearchInv,
     SearchHangsInv, EndSearchInv, ChooseMoveInv, MoveStepInv DEF WorkerStep
<1>2. CASE RunnerStep
  BY <1>2, RunBlockingInv, WorkedInv, RunnerWaitsInv DEF RunnerStep
<1>3. CASE LoopStep
  BY <1>3, StopWaitsInv, AbortGameInv, LoopEndsInv DEF LoopStep
<1>4. CASE CmdStop BY <1>4, CmdStopInv
<1>5. CASE Quit BY <1>5, QuitInv
<1>6. CASE UNCHANGED vars BY <1>6, StutterInv
<1> QED BY <1>1, <1>2, <1>3, <1>4, <1>5, <1>6 DEF Next

LEMMA InvAlways == Spec => []IInv
<1> QED BY InitInv, NextInv, PTL DEF Spec

\* A tournament is reported as finished once at most, although two threads may
\* be in Wait, and only when each of its games was played to its end and
\* counted, or given up for its length (tournament.cc:427-452).
THEOREM FinalReport == Spec => []FinalIsComplete
<1>1. IInv => FinalIsComplete
  <2> SUFFICES ASSUME IInv, info.finished > 0
               PROVE  /\ info.finished = 1 /\ games_ = {} /\ games_count_ = kTotalGames
                      /\ info.counted + givenUp = kTotalGames
    BY DEF FinalIsComplete
  <2>1. info.finished = 1
    <3>1. info.finished \in Nat BY DEF IInv, Typed
    <3>2. info.finished <= 1 BY DEF IInv, Ended
    <3> QED BY <3>1, <3>2
  <2>2. runner = "done" BY ZeroIsNotPositive, Zenon DEF IInv, Ended
  <2>3. games_ = {} BY <2>2 DEF IInv, Ended, AllGone, GamesArePlayed, InPlay, Typed
  <2> QED BY <2>1, <2>3 DEF IInv, Final
<1> QED BY <1>1, InvAlways, PTL
-----------------------------------------------------------------------------
LEMMA AbortReachesNext ==
  ASSUME IInv, AbortReachesSearch, [Next]_vars
  PROVE  AbortReachesSearch'
<1> USE DEF AbortReachesSearch
<1>0. game \in [Workers -> AnyGame] BY DEF IInv, Typed
<1>1. ASSUME NEW w \in Workers, WorkerStep(w) PROVE AbortReachesSearch'
  <2>1. CASE UNCHANGED game BY <2>1
  <2>2. CASE game' = [game EXCEPT ![w] = NewGame] BY <1>0, <2>2, NewGameIs
  <2>3. CASE game' = [game EXCEPT ![w].decided = TRUE] BY <1>0, <2>3 DEF AnyGame
  <2>4. CASE game' = [game EXCEPT ![w].search = "running"] /\ ~game[w].abort
    BY <1>0, <2>4 DEF AnyGame
  <2>5. CASE Move(w)
    <3>1. PICK plies : game' = [game EXCEPT ![w] =
                                  [game[w] EXCEPT !.search = "none", !.plies = plies]]
      BY <2>5 DEF Move
    <3> QED BY <1>0, <3>1 DEF AnyGame
  <2>6. CASE game' = [game EXCEPT ![w].search = "hanging"] BY <1>0, <2>6 DEF AnyGame
  <2> QED BY <1>1, <2>1, <2>2, <2>3, <2>4, <2>5, <2>6
        DEF WorkerStep, NextGame, EnterGame, Report, LeaveGame, Play, BeginSearch,
            SearchHangs, EndSearch, ChooseMove, DiscardMove
<1>2. ASSUME NEW w \in Workers, AbortGame(w) PROVE AbortReachesSearch'
  <2>1. PICK search \in {"none", "hanging", "aborted"} :
          game' = [game EXCEPT ![w] = [game[w] EXCEPT !.abort = TRUE, !.search = search]]
    BY <1>0, <1>2 DEF AbortGame, AnyGame
  <2> QED BY <1>0, <2>1 DEF AnyGame
<1>3. CASE RunnerStep \/ StopWaits \/ Aborted \/ Destroyed \/ CmdStop \/ Quit
  <2>1. UNCHANGED game
    BY <1>3 DEF RunnerStep, RunBlocking, Worked, RunnerWaits, StopWaits, Aborted, Destroyed,
                CmdStop, Quit, UnchangedGames
  <2> QED BY <2>1
<1>4. CASE UNCHANGED vars BY <1>4 DEF vars, workerVars
<1> QED BY <1>1, <1>2, <1>3, <1>4 DEF Next, LoopStep

\* Whenever `quit` comes, the search of a game that was told to stop is told
\* too, and none begins in that game afterwards (game.cc:166-187, 343-347).
THEOREM AbortsReach == Spec => []AbortReachesSearch
<1>1. Init => AbortReachesSearch BY NewGameIs DEF Init, AbortReachesSearch
<1> QED BY <1>1, AbortReachesNext, InvAlways, PTL DEF Spec
=============================================================================
