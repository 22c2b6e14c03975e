----------------------------- MODULE Tournament -----------------------------
(***************************************************************************)
(* A self-play tournament (src/src/selfplay/): workers that take numbers   *)
(* of games, play them move by move, each move with a search of its own,   *)
(* and report them; the thread that runs the tournament and waits for the  *)
(* workers; and the loop that reads `stop` and `quit` meanwhile.           *)
(*                                                                         *)
(* Abstracted: positions and moves (a game is over when it says so, or by  *)
(* MaxPlies), openings, what is reported but for how often, kTotalGames    *)
(* below 0 (no end, or as many as there are openings), and the search,     *)
(* which is module SearchLifecycle: it ends once it is aborted, and at its *)
(* limits if the thread that finds the answer due may lock again the       *)
(* mutexes it holds (ownerMayRelock there, locksNest here).                *)
(* The game's search_ is reset by its worker without the game's mutex_,    *)
(* under which Abort reads it: undefined when the two coincide, and here   *)
(* one happens before the other.                                           *)
(***************************************************************************)
EXTENDS Integers, FiniteSets

CONSTANTS
  Workers,       \* kParallelism threads; one of them when kParallelism is 1
  Totals,        \* values of kTotalGames
  MaxPlies,      \* a game as long as this is given up (450 in the code)
  RelockOutcomes, \* what may become of a lock of a mutex one holds
  Nobody

ASSUME WorkersAssumption == IsFiniteSet(Workers) /\ Cardinality(Workers) > 1
ASSUME GamesAssumption == Totals \subseteq Nat /\ MaxPlies \in Nat
ASSUME RelockAssumption == RelockOutcomes \subseteq BOOLEAN

VARIABLES
  kTotalGames,
  kParallelism,  \* 1 or all workers
  mayDiscard,    \* kMinimumAllowedVists > 0: a move may be chosen again
  locksNest,     \* TRUE: a thread may lock again a mutex it holds
  worker,        \* [Workers -> Place]
  game,          \* [Workers -> the SelfPlayGame that a worker plays]
  games_,        \* workers whose game is in games_
  games_count_,
  abort_,
  info,          \* tournament_info_: games counted, times reported as finished
  givenUp,       \* number of games given up for their length
  threads_,      \* started and not joined
  threads_mutex_,
  mutex_,        \* held over several steps by the loop while it aborts games
  runner,        \* where RunBlocking is
  uci            \* where the loop is

parameters == <<kTotalGames, kParallelism, mayDiscard, locksNest>>
workerVars == <<worker, game>>
threadVars == <<threads_, threads_mutex_, runner, uci>>
vars == <<parameters, workerVars, games_, games_count_, abort_,
          info, givenUp, threadVars, mutex_>>

Place == {"not started", "next", "enter", "play", "begin", "search", "choose",
          "keep", "reset", "move", "report", "leave", "gone"}
\* search: no Search, one that runs, one that hangs with its mutexes held, or one
\* that was told to stop by Abort.
Game == [plies : 0 .. MaxPlies, abort : BOOLEAN, decided : BOOLEAN,
         search : {"none", "running", "hanging", "aborted"}]
NewGame == [plies |-> 0, abort |-> FALSE, decided |-> FALSE, search |-> "none"]

Go(w, place) == worker' = [worker EXCEPT ![w] = place]
\* A step of worker w in its game, or with the tournament's mutex_.
InGame == UNCHANGED <<parameters, games_, games_count_, abort_, info,
                      threadVars, mutex_>>
Locked == mutex_ = Nobody /\ UNCHANGED <<parameters, threadVars, mutex_>>
-----------------------------------------------------------------------------
(* SelfPlayTournament::Worker and PlayOneGame. *)

NextGame(w) ==
  /\ worker[w] = "next" /\ Locked
  /\ IF abort_ \/ games_count_ >= kTotalGames
     THEN Go(w, "gone") /\ UNCHANGED games_count_
     ELSE Go(w, "enter") /\ games_count_' = games_count_ + 1
  /\ UNCHANGED <<game, games_, abort_, info, givenUp>>

EnterGame(w) ==
  /\ worker[w] = "enter" /\ Locked
  /\ games_' = games_ \cup {w}
  /\ game' = [game EXCEPT ![w] = NewGame]
  /\ Go(w, "play")
  /\ UNCHANGED <<games_count_, abort_, info, givenUp>>

\* The callbacks come before the lock; nothing here depends on them.
Report(w) ==
  /\ worker[w] = "report" /\ Locked
  /\ info' = [info EXCEPT !.counted = @ + 1]
  /\ Go(w, "leave")
  /\ UNCHANGED <<game, games_, games_count_, abort_, givenUp>>

\* The game, and a search that it still has, are destroyed.
LeaveGame(w) ==
  /\ worker[w] = "leave" /\ Locked
  /\ games_' = games_ \ {w}
  /\ game' = [game EXCEPT ![w] = NewGame]
  /\ Go(w, "next")
  /\ UNCHANGED <<games_count_, abort_, info, givenUp>>
-----------------------------------------------------------------------------
(* SelfPlayGame::Play. *)

\* The head of the loop: aborted, decided, too long, or one more move.
Play(w) ==
  /\ worker[w] = "play" /\ InGame
  /\ \/ game[w].abort /\ Go(w, "leave") /\ UNCHANGED <<game, givenUp>>
     \/ /\ ~game[w].abort
        /\ game' = [game EXCEPT ![w].decided = TRUE]
        /\ Go(w, "report") /\ UNCHANGED givenUp
     \/ /\ ~game[w].abort /\ game[w].plies = MaxPlies
        /\ Go(w, "leave") /\ givenUp' = givenUp + 1 /\ UNCHANGED game
     \/ /\ ~game[w].abort /\ game[w].plies < MaxPlies
        /\ Go(w, "begin") /\ UNCHANGED <<game, givenUp>>

\* Mutant of BeginSearch: abort_ is not looked at again under the lock.
BeginSearchAnyway(w) ==
  /\ worker[w] = "begin" /\ InGame
  /\ game' = [game EXCEPT ![w].search = "running"] /\ Go(w, "search")
  /\ UNCHANGED givenUp

\* Under the game's mutex_, which Abort takes too.
BeginSearch(w) ==
  /\ worker[w] = "begin" /\ InGame
  /\ IF game[w].abort THEN Go(w, "leave") /\ UNCHANGED game
     ELSE game' = [game EXCEPT ![w].search = "running"] /\ Go(w, "search")
  /\ UNCHANGED givenUp

\* The search reaches its limits, and the thread that finds the answer due waits
\* for a mutex that it holds.  Where the library throws instead and the process
\* ends, the behaviour goes no further.
SearchHangs(w) ==
  /\ worker[w] = "search" /\ InGame
  /\ game[w].search = "running" /\ ~locksNest
  /\ game' = [game EXCEPT ![w].search = "hanging"]
  /\ UNCHANGED <<worker, givenUp>>

\* RunBlocking returns; unless aborted the side to move resigns or moves.
EndSearch(w) ==
  /\ worker[w] = "search" /\ InGame
  /\ locksNest \/ game[w].search = "aborted"
  /\ \/ game[w].abort /\ Go(w, "leave") /\ UNCHANGED game
     \/ /\ ~game[w].abort
        /\ game' = [game EXCEPT ![w].decided = TRUE]
        /\ Go(w, "report")
     \/ ~game[w].abort /\ Go(w, "choose") /\ UNCHANGED game
  /\ UNCHANGED givenUp

\* A move with too few visits is discarded.
ChooseMove(w) ==
  /\ worker[w] = "choose" /\ InGame
  /\ \/ Go(w, "move")
     \/ mayDiscard /\ (Go(w, "keep") \/ Go(w, "reset"))
  /\ UNCHANGED <<game, givenUp>>

\* discarded_callback, not called if the move decides the game, puts the line
\* on discard_pile_ under mutex_, if kDiscardedStartChance asks for it.  Then
\* ResetBestMove; abort_ is not looked at.
DiscardMove(w) ==
  /\ InGame
  /\ \/ worker[w] = "keep" /\ mutex_ = Nobody /\ Go(w, "reset")
     \/ worker[w] = "reset" /\ Go(w, "choose")
  /\ UNCHANGED <<game, givenUp>>

\* search_.reset() and MakeMove.
Move(w) ==
  /\ worker[w] = "move" /\ InGame
  /\ game' = [game EXCEPT ![w].search = "none", ![w].plies = @ + 1]
  /\ Go(w, "play")
  /\ UNCHANGED givenUp
-----------------------------------------------------------------------------
(* RunBlocking, which starts the workers and waits, or is the worker itself. *)

UnchangedGames ==
  UNCHANGED <<parameters, game, games_, games_count_, givenUp>>

RunBlocking ==
  /\ runner = "start" /\ threads_mutex_ = Nobody
  /\ LET started == IF kParallelism = 1 THEN {CHOOSE w \in Workers : TRUE} ELSE Workers IN
     /\ worker' = [w \in Workers |-> IF w \in started THEN "next" ELSE worker[w]]
     /\ threads_' = IF kParallelism = 1 THEN {} ELSE started
     /\ runner' = IF kParallelism = 1 THEN "work" ELSE "wait"
  /\ UnchangedGames /\ UNCHANGED <<abort_, info, threads_mutex_, uci, mutex_>>

\* The runner's own Worker() returns.
Worked ==
  /\ runner = "work"
  /\ worker[CHOOSE w \in Workers : TRUE] = "gone"
  /\ runner' = "finish"
  /\ UnchangedGames
  /\ UNCHANGED <<worker, abort_, info, threads_, threads_mutex_, uci, mutex_>>

\* Wait holds threads_mutex_ until it has joined every thread.
BeginWait(me) == threads_mutex_ = Nobody /\ threads_mutex_' = me /\ UNCHANGED threads_
Join(me) ==
  /\ threads_mutex_ = me
  /\ \A w \in threads_ : worker[w] = "gone"
  /\ threads_' = {} /\ threads_mutex_' = Nobody
\* Mutant of Finish: reports the end of an aborted tournament.
FinishAnyway == mutex_ = Nobody /\ info' = [info EXCEPT !.finished = @ + 1]

Finish ==
  /\ mutex_ = Nobody
  /\ info' = IF abort_ THEN info ELSE [info EXCEPT !.finished = @ + 1]

RunnerWaits ==
  /\ \/ runner = "wait" /\ runner' = "join" /\ BeginWait("runner") /\ UNCHANGED info
     \/ runner = "join" /\ runner' = "finish" /\ Join("runner") /\ UNCHANGED info
     \/ /\ runner = "finish" /\ runner' = "done" /\ Finish
        /\ UNCHANGED <<threads_, threads_mutex_>>
  /\ UnchangedGames /\ UNCHANGED <<worker, abort_, uci, mutex_>>
-----------------------------------------------------------------------------
(* SelfPlayLoop, after `start`. *)

\* Stop(), then Wait().
CmdStop ==
  /\ uci = "ready" /\ mutex_ = Nobody
  /\ uci' = "wait" /\ abort_' = TRUE
  /\ UnchangedGames
  /\ UNCHANGED <<worker, info, threads_, threads_mutex_, runner, mutex_>>

StopWaits ==
  /\ \/ uci = "wait" /\ uci' = "join" /\ BeginWait("uci") /\ UNCHANGED info
     \/ uci = "join" /\ uci' = "finish" /\ Join("uci") /\ UNCHANGED info
     \/ /\ uci = "finish" /\ uci' = "ready" /\ Finish
        /\ UNCHANGED <<threads_, threads_mutex_>>
  /\ UnchangedGames /\ UNCHANGED <<worker, abort_, runner, mutex_>>

\* `quit`: Abort takes mutex_, and the mutex_ of one game after the other.
\* Search::Abort waits for nodes_mutex_, for ever if the search hangs.
Quit ==
  /\ uci = "ready" /\ mutex_ = Nobody
  /\ uci' = "abort" /\ abort_' = TRUE /\ mutex_' = "uci"
  /\ UnchangedGames
  /\ UNCHANGED <<worker, info, threads_, threads_mutex_, runner>>

InAbortForEver == \E w \in games_ : game[w].abort /\ game[w].search = "hanging"

AbortGame(w) ==
  /\ uci = "abort" /\ ~InAbortForEver /\ w \in games_ /\ ~game[w].abort
  /\ game' = [game EXCEPT ![w].abort = TRUE,
                          ![w].search = IF @ = "running" THEN "aborted" ELSE @]
  /\ UNCHANGED <<parameters, worker, games_, games_count_, abort_,
                 info, givenUp, threadVars, mutex_>>

\* Mutant of Aborted: Abort waits for the games to end, with mutex_ held.
AbortedWhenGone ==
  /\ uci = "abort" /\ games_ = {}
  /\ uci' = "quit" /\ mutex_' = Nobody
  /\ UnchangedGames
  /\ UNCHANGED <<worker, abort_, info, threads_, threads_mutex_, runner>>

Aborted ==
  /\ uci = "abort" /\ ~InAbortForEver /\ \A w \in games_ : game[w].abort
  /\ uci' = "quit" /\ mutex_' = Nobody
  /\ UnchangedGames
  /\ UNCHANGED <<worker, abort_, info, threads_, threads_mutex_, runner>>

\* thread_->join(); ~SelfPlayTournament has nothing left to abort or to join.
Destroyed ==
  /\ uci = "quit" /\ runner = "done"
  /\ uci' = "gone"
  /\ UnchangedGames
  /\ UNCHANGED <<worker, abort_, info, threads_, threads_mutex_, runner, mutex_>>
-----------------------------------------------------------------------------
Init ==
  /\ kTotalGames \in Totals /\ kParallelism \in {1, Cardinality(Workers)}
  /\ mayDiscard \in BOOLEAN /\ locksNest \in RelockOutcomes
  /\ worker = [w \in Workers |-> "not started"]
  /\ game = [w \in Workers |-> NewGame]
  /\ games_ = {} /\ games_count_ = 0 /\ abort_ = FALSE
  /\ info = [counted |-> 0, finished |-> 0] /\ givenUp = 0
  /\ threads_ = {} /\ threads_mutex_ = Nobody /\ mutex_ = Nobody
  /\ runner = "start" /\ uci = "ready"

WorkerStep(w) ==
  \/ NextGame(w) \/ EnterGame(w) \/ Report(w) \/ LeaveGame(w)
  \/ Play(w) \/ BeginSearch(w) \/ SearchHangs(w) \/ EndSearch(w)
  \/ ChooseMove(w) \/ DiscardMove(w) \/ Move(w)
RunnerStep == RunBlocking \/ Worked \/ RunnerWaits
LoopStep == StopWaits \/ (\E w \in Workers : AbortGame(w)) \/ Aborted \/ Destroyed

Next ==
  \/ \E w \in Workers : WorkerStep(w)
  \/ RunnerStep \/ LoopStep
  \/ CmdStop \/ Quit

Spec == Init /\ [][Next]_vars

\* Threads run, the limits that every search of a tournament has
\* (tournament.cc:212-214) are reached, and whoever waits for a mutex that is
\* freed again and again gets it.  A search that reaches its limits ends where
\* locks nest; elsewhere it hangs, and fairness of the worker does not help it.
\* Nor does it end the choice of a move that is discarded time and again.  No
\* command has to come.
FairSpec ==
  /\ Spec
  /\ \A w \in Workers : SF_vars(WorkerStep(w))
  /\ SF_vars(RunnerStep) /\ SF_vars(LoopStep)
-----------------------------------------------------------------------------
\* Abort reaches the search of every game it tells to stop, and none begins
\* afterwards: the worker looks at abort_ without the lock (game.cc:151), and
\* begins a search under it.  It cannot help a search that hangs already.
AbortReachesSearch ==
  \A w \in Workers : game[w].abort => game[w].search # "running"

\* The tournament is reported as finished once at most, when every game of it
\* is over and was counted, unless it was given up for its length, and none was
\* cut short by `quit` (tournament.cc:427, 447: two threads may be in Wait).
FinalIsComplete ==
  info.finished > 0 =>
    /\ info.finished = 1
    /\ games_ = {} /\ games_count_ = kTotalGames
    /\ info.counted + givenUp = kTotalGames

\* If locks nest and no move is discarded, which is the default of
\* kMinimumAllowedVists: RunBlocking returns whether or not someone stops it,
\* `stop` is answered, and `quit` ends the program.
TournamentEnds ==
  LET orderly == locksNest /\ ~mayDiscard IN
  /\ orderly => <>(runner = "done")
  /\ orderly /\ uci = "wait" ~> uci = "ready"
  /\ orderly /\ uci = "abort" ~> uci = "gone"
=============================================================================
