-------------------------- MODULE SearchLifecycle --------------------------
(***************************************************************************)
(* One object of class Search (src/src/mcts/search.cc) from StartThreads   *)
(* to the end of ~Search: the watchdog thread, the search workers, and the *)
(* owner, which calls Stop, Abort, GetBestMove, ResetBestMove and the      *)
(* destructor.  What they share is the protocol that decides who sends the *)
(* one bestmove, when the threads leave, and how many of them may gather a *)
(* minibatch at the same time.                                             *)
(*                                                                         *)
(* A critical section that neither waits nor calls out is one action whose *)
(* guard says that its mutexes are free.  The one critical section that    *)
(* does call out, the answer in MaybeTriggerStop, is an action of its own: *)
(* it calls SendUciInfo, SendMovesStats and GetVerboseStats, which lock    *)
(* nodes_mutex_ and counters_mutex_ again, in the thread that holds them.  *)
(* ownerMayRelock says what such a lock does.                              *)
(*                                                                         *)
(* Abstracted: the tree is reduced to the moves of the root and whether it *)
(* has a visit, the stopper to a free choice (it may never fire: `go       *)
(* infinite`), a minibatch to "holds the first visit of the root",         *)
(* MaybeOutputInfo to nothing: it needs current_best_edge_, which only     *)
(* lines guarded by itself set.                                            *)
(***************************************************************************)
EXTENDS Integers, FiniteSets

CONSTANTS
  Workers,         \* the search threads StartThreads creates
  Watchdog,        \* the watchdog thread
  Nobody,          \* no thread: a free mutex, an unvisited root nobody visits
  Moves,           \* moves
  NoMove,          \* Move::NO_MOVE, the initial final_bestmove_
  Roots,           \* roots a search may have: edges, and those allowed to it
  SearcherLimits,  \* values of the option MaxConcurrentSearchers; 0: no limit
  RelockOutcomes   \* what may become of a lock of a mutex one holds

ASSUME ThreadsAssumption ==
  /\ IsFiniteSet(Workers) /\ Workers # {}
  /\ Watchdog \notin Workers /\ Nobody \notin Workers \cup {Watchdog}
ASSUME MovesAssumption == Moves # {} /\ NoMove \notin Moves
ASSUME RootsAssumption ==
  \A r \in Roots : r.allowed \subseteq r.edges /\ r.edges \subseteq Moves
ASSUME LimitsAssumption == SearcherLimits \subseteq Nat
ASSUME RelockAssumption == RelockOutcomes \subseteq BOOLEAN

VARIABLES
  rootMoves,           \* the moves of root_node_, once it is visited, and those
                       \* root_move_filter_ admits (all, if it is empty)
  stop_, ok_to_respond_bestmove_, bestmove_is_sent_, final_bestmove_,
  visited,             \* total_playouts_ + initial_visits_ > 0
  rootVisitor,         \* the worker whose minibatch holds the root's first visit
  limit,               \* params_.GetMaxConcurrentSearchers()
  pending_searchers_,
  available,           \* [Workers -> Nat] the local of ExecuteOneIteration
  mutexOwner,          \* who holds both nodes_mutex_ and counters_mutex_
  pc,                  \* [Threads -> label]
  owner,               \* "running", "joining" (in ~Search), "gone"
  ownerMayRelock,      \* TRUE: a thread may lock again a mutex it holds
  terminated,          \* the process ended on an uncaught exception
  answers, answered,   \* history: bestmoves sent, and the last of them
  silenced, reset      \* history: an Abort took effect; ResetBestMove was called

flags == <<stop_, ok_to_respond_bestmove_, bestmove_is_sent_>>
permits == <<limit, pending_searchers_, available>>
root == <<rootMoves, visited, rootVisitor>>
history == <<answers, answered, silenced, reset>>
vars == <<flags, final_bestmove_, root, permits, mutexOwner, pc, owner,
          ownerMayRelock, terminated, history>>

Threads == Workers \cup {Watchdog}
MutexesFree == mutexOwner = Nobody
Alive == ~terminated /\ owner # "gone"
Goto(t, label) == pc' = [pc EXCEPT ![t] = label]

\* Workers between the two updates of pending_searchers_.
Holding == {w \in Workers : pc[w] \in {"gather", "collect", "release"}}

Init ==
  /\ stop_ = FALSE /\ bestmove_is_sent_ = FALSE
  /\ ok_to_respond_bestmove_ \in BOOLEAN
  /\ final_bestmove_ = NoMove
  /\ rootMoves \in Roots /\ visited \in BOOLEAN /\ rootVisitor = Nobody
  /\ limit \in SearcherLimits /\ pending_searchers_ = limit
  /\ available = [w \in Workers |-> 0]
  /\ mutexOwner = Nobody
  /\ pc = [t \in Threads |-> IF t = Watchdog THEN "trigger" ELSE "enter"]
  /\ owner = "running" /\ terminated = FALSE
  /\ ownerMayRelock \in RelockOutcomes
  /\ answers = 0 /\ answered = NoMove /\ silenced = FALSE /\ reset = FALSE

-----------------------------------------------------------------------------
(* The search workers: RunBlocking and ExecuteOneIteration.                *)

BeginUnlimited(w) ==
  /\ pc[w] = "enter" /\ limit = 0
  /\ Goto(w, "gather")
  /\ UNCHANGED <<flags, final_bestmove_, root, permits, mutexOwner, owner,
                 terminated, history>>

\* Mutant: a stop alone lets the worker leave.
LeaveWhenStopped(w) ==
  /\ pc[w] = "enter" /\ limit # 0
  /\ stop_ /\ MutexesFree
  /\ Goto(w, "loop")
  /\ UNCHANGED <<flags, final_bestmove_, root, permits, mutexOwner, owner,
                 terminated, history>>

\* `return` in the permit loop; GetTotalPlayouts locks nodes_mutex_.
LeaveWithoutPermit(w) ==
  /\ pc[w] = "enter" /\ limit # 0
  /\ stop_ /\ MutexesFree /\ visited
  /\ Goto(w, "loop")
  /\ UNCHANGED <<flags, final_bestmove_, root, permits, mutexOwner, owner,
                 terminated, history>>

ReadPermits(w) ==
  /\ pc[w] = "enter" /\ limit # 0
  /\ stop_ => MutexesFree /\ ~visited
  /\ pending_searchers_ # 0
  /\ available' = [available EXCEPT ![w] = pending_searchers_]
  /\ Goto(w, "exchange")
  /\ UNCHANGED <<flags, final_bestmove_, root, limit, pending_searchers_,
                 mutexOwner, owner, terminated, history>>

\* Mutant: a store instead of the exchange.
StorePermits(w) ==
  /\ pc[w] = "exchange"
  /\ pending_searchers_' = available[w] - 1 /\ Goto(w, "gather")
  /\ UNCHANGED <<flags, final_bestmove_, root, limit, available, mutexOwner,
                 owner, terminated, history>>

\* compare_exchange_weak: back to the loop when another worker was faster.
ExchangePermits(w) ==
  /\ pc[w] = "exchange"
  /\ IF pending_searchers_ = available[w]
       THEN pending_searchers_' = available[w] - 1 /\ Goto(w, "gather")
       ELSE Goto(w, "enter") /\ UNCHANGED pending_searchers_
  /\ UNCHANGED <<flags, final_bestmove_, root, limit, available, mutexOwner,
                 owner, terminated, history>>

\* Nobody else can start the first visit of the root while it is in flight
\* (Node::TryStartScoreUpdate): the others collide.  A visit that needs no
\* evaluation is backed up at once, out of order.
GatherMinibatch(w) ==
  /\ pc[w] = "gather" /\ MutexesFree
  /\ IF visited \/ rootVisitor # Nobody
       THEN UNCHANGED <<visited, rootVisitor>>
       ELSE \/ rootVisitor' = w /\ UNCHANGED visited
            \/ visited' = TRUE /\ UNCHANGED rootVisitor
  /\ Goto(w, "collect")
  /\ UNCHANGED <<flags, final_bestmove_, rootMoves, permits, mutexOwner, owner,
                 terminated, history>>

CollectCollisions(w) ==
  /\ pc[w] = "collect" /\ MutexesFree
  /\ Goto(w, IF limit # 0 THEN "release" ELSE "compute")
  /\ UNCHANGED <<flags, final_bestmove_, root, permits, mutexOwner, owner,
                 terminated, history>>

ReleasePermit(w) ==
  /\ pc[w] = "release"
  /\ pending_searchers_' = pending_searchers_ + 1
  /\ Goto(w, "compute")
  /\ UNCHANGED <<flags, final_bestmove_, root, limit, available, mutexOwner,
                 owner, terminated, history>>

\* RunNNComputation, which shares nothing, then FetchMinibatchResults and
\* DoBackupUpdate.
BackupUpdate(w) ==
  /\ pc[w] = "compute" /\ MutexesFree
  /\ IF rootVisitor = w
       THEN visited' = TRUE /\ rootVisitor' = Nobody
       ELSE UNCHANGED <<visited, rootVisitor>>
  /\ Goto(w, "trigger")
  /\ UNCHANGED <<flags, final_bestmove_, rootMoves, permits, mutexOwner, owner,
                 terminated, history>>

\* while (search_->IsSearchActive())
LoopWhileActive(w) ==
  /\ pc[w] = "loop"
  /\ Goto(w, IF stop_ THEN "done" ELSE "enter")
  /\ UNCHANGED <<flags, final_bestmove_, root, permits, mutexOwner, owner,
                 terminated, history>>

-----------------------------------------------------------------------------
(* MaybeTriggerStop, which every worker runs once per iteration and the    *)
(* watchdog once per round.                                                *)

AfterTrigger(t) == IF t = Watchdog THEN "check" ELSE "loop"

\* What EnsureBestMoveKnown does while nothing was sent: nothing for a root
\* that has no visit or, in mate and stalemate, no edges; NO_MOVE where the
\* filter leaves none.  With a temperature each call may choose another move.
ChooseBestMove ==
  IF ~visited \/ rootMoves.edges = {} THEN UNCHANGED final_bestmove_
  ELSE IF rootMoves.allowed = {} THEN final_bestmove_' = NoMove
  ELSE final_bestmove_' \in rootMoves.allowed

EnsureBestMoveKnown ==
  IF bestmove_is_sent_ THEN UNCHANGED final_bestmove_ ELSE ChooseBestMove

MaybeTriggerStopReturns(t) ==
  /\ pc[t] = "trigger" /\ MutexesFree
  /\ bestmove_is_sent_ \/ ~visited
  /\ Goto(t, AfterTrigger(t))
  /\ UNCHANGED <<flags, final_bestmove_, root, permits, mutexOwner, owner,
                 terminated, history>>

\* Mutant: the answer does not wait for permission.
TriggerUnasked(t) ==
  /\ pc[t] = "trigger" /\ MutexesFree
  /\ ~bestmove_is_sent_ /\ visited
  /\ \E shouldStop \in BOOLEAN :
       /\ stop_' = (stop_ \/ shouldStop)
       /\ IF stop_' THEN mutexOwner' = t /\ Goto(t, "answer")
                    ELSE Goto(t, AfterTrigger(t)) /\ UNCHANGED mutexOwner
  /\ UNCHANGED <<ok_to_respond_bestmove_, bestmove_is_sent_, final_bestmove_,
                 root, permits, owner, terminated, history>>

\* The stopper may fire.  If the answer is due, the thread goes on to give
\* it with both mutexes held; otherwise, while the search is active, an
\* update of the root beam chooses the best move anew.
MaybeTriggerStop(t) ==
  /\ pc[t] = "trigger" /\ MutexesFree
  /\ ~bestmove_is_sent_ /\ visited
  /\ \E shouldStop, beamUpdated \in BOOLEAN :
       /\ stop_' = (stop_ \/ shouldStop)
       /\ IF stop_' /\ ok_to_respond_bestmove_
            THEN /\ mutexOwner' = t /\ Goto(t, "answer")
                 /\ UNCHANGED final_bestmove_
            ELSE /\ IF beamUpdated /\ ~stop_'
                      THEN EnsureBestMoveKnown ELSE UNCHANGED final_bestmove_
                 /\ Goto(t, AfterTrigger(t)) /\ UNCHANGED mutexOwner
  /\ UNCHANGED <<ok_to_respond_bestmove_, bestmove_is_sent_, root, permits,
                 owner, terminated, history>>

\* Mutant: nobody records that the move was sent.
SendWithoutRecord(t) ==
  /\ pc[t] = "answer" /\ ownerMayRelock /\ answers < 2
  /\ EnsureBestMoveKnown
  /\ answers' = answers + 1 /\ answered' = final_bestmove_'
  /\ mutexOwner' = Nobody
  /\ Goto(t, AfterTrigger(t))
  /\ UNCHANGED <<flags, root, permits, owner, terminated, silenced, reset>>

\* SendUciInfo, EnsureBestMoveKnown, SendMovesStats, OutputBestMove.
SendBestMove(t) ==
  /\ pc[t] = "answer" /\ ownerMayRelock
  /\ EnsureBestMoveKnown
  /\ answers' = answers + 1 /\ answered' = final_bestmove_'
  /\ bestmove_is_sent_' = TRUE
  /\ mutexOwner' = Nobody
  /\ Goto(t, AfterTrigger(t))
  /\ UNCHANGED <<stop_, ok_to_respond_bestmove_, root, permits, owner,
                 terminated, silenced, reset>>

\* The lock in SendUciInfo is undefined behaviour for std::shared_timed_mutex.
\* The thread hangs (it stays at "answer") or, where the library detects the
\* deadlock, the lock throws: RunBlocking catches that and calls abort(), the
\* watchdog does not catch it.
RelockThrows(t) ==
  /\ pc[t] = "answer" /\ ~ownerMayRelock
  /\ terminated' = TRUE
  /\ UNCHANGED <<flags, final_bestmove_, root, permits, mutexOwner, pc, owner,
                 ownerMayRelock, history>>

-----------------------------------------------------------------------------
(* WatchdogThread: the rest of its loop.                                   *)

WatchdogCheck ==
  /\ pc[Watchdog] = "check" /\ MutexesFree
  /\ Goto(Watchdog, IF bestmove_is_sent_ THEN "done" ELSE "wait")
  /\ UNCHANGED <<flags, final_bestmove_, root, permits, mutexOwner, owner,
                 terminated, history>>

\* wait_for returns after at most 100 ms, notified or not.
WatchdogWake ==
  /\ pc[Watchdog] = "wait" /\ MutexesFree
  /\ Goto(Watchdog, "trigger")
  /\ UNCHANGED <<flags, final_bestmove_, root, permits, mutexOwner, owner,
                 terminated, history>>

-----------------------------------------------------------------------------
(* The owner.                                                              *)

Stop ==
  /\ owner = "running" /\ MutexesFree
  /\ ok_to_respond_bestmove_' = TRUE /\ stop_' = TRUE
  /\ UNCHANGED <<bestmove_is_sent_, final_bestmove_, root, permits, mutexOwner,
                 pc, owner, terminated, history>>

\* Mutant: an answer that is due is cancelled as well.
AbortUnlessSent ==
  /\ MutexesFree
  /\ IF ~bestmove_is_sent_
       THEN bestmove_is_sent_' = TRUE /\ stop_' = TRUE /\ silenced' = TRUE
       ELSE UNCHANGED <<bestmove_is_sent_, stop_, silenced>>
  /\ UNCHANGED <<ok_to_respond_bestmove_, final_bestmove_, root, permits,
                 mutexOwner, pc, terminated, answers, answered, reset>>

\* Mutant: a search that is stopped already is left alone.
AbortUnlessStopped ==
  /\ MutexesFree
  /\ IF ~stop_
       THEN bestmove_is_sent_' = TRUE /\ stop_' = TRUE /\ silenced' = TRUE
       ELSE UNCHANGED <<bestmove_is_sent_, stop_, silenced>>
  /\ UNCHANGED <<ok_to_respond_bestmove_, final_bestmove_, root, permits,
                 mutexOwner, pc, terminated, answers, answered, reset>>

\* The body of Search::Abort.
AbortSearch ==
  /\ MutexesFree
  /\ IF ~stop_ \/ (~bestmove_is_sent_ /\ ~ok_to_respond_bestmove_)
       THEN bestmove_is_sent_' = TRUE /\ stop_' = TRUE /\ silenced' = TRUE
       ELSE UNCHANGED <<bestmove_is_sent_, stop_, silenced>>
  /\ UNCHANGED <<ok_to_respond_bestmove_, final_bestmove_, root, permits,
                 mutexOwner, pc, terminated, answers, answered, reset>>

Abort == owner = "running" /\ AbortSearch /\ UNCHANGED owner

GetBestMove ==
  /\ owner = "running" /\ MutexesFree
  /\ EnsureBestMoveKnown
  /\ UNCHANGED <<flags, root, permits, mutexOwner, pc, owner, terminated,
                 history>>

\* bestmove_is_sent_ is lowered only while both mutexes are held.
ResetBestMove ==
  /\ owner = "running" /\ MutexesFree
  /\ ChooseBestMove
  /\ reset' = TRUE
  /\ UNCHANGED <<flags, root, permits, mutexOwner, pc, owner, terminated,
                 answers, answered, silenced>>

\* ~Search: Abort, then Wait, then the clean-up under nodes_mutex_.
Destroy == owner = "running" /\ AbortSearch /\ owner' = "joining"

JoinThreads ==
  /\ owner = "joining" /\ MutexesFree
  /\ \A t \in Threads : pc[t] = "done"
  /\ owner' = "gone"
  /\ UNCHANGED <<flags, final_bestmove_, root, permits, mutexOwner, pc,
                 ownerMayRelock, terminated, history>>

-----------------------------------------------------------------------------
WorkerStep(w) ==
  \/ BeginUnlimited(w) \/ LeaveWithoutPermit(w) \/ ReadPermits(w)
  \/ ExchangePermits(w) \/ GatherMinibatch(w) \/ CollectCollisions(w)
  \/ ReleasePermit(w) \/ BackupUpdate(w) \/ LoopWhileActive(w)

TriggerStep(t) ==
  MaybeTriggerStopReturns(t) \/ MaybeTriggerStop(t) \/ SendBestMove(t)

ThreadStep(t) ==
  /\ Alive /\ UNCHANGED ownerMayRelock
  /\ \/ TriggerStep(t)
     \/ t \in Workers /\ WorkerStep(t)
     \/ t = Watchdog /\ (WatchdogCheck \/ WatchdogWake)

OwnerStep ==
  /\ Alive /\ UNCHANGED ownerMayRelock
  /\ Stop \/ Abort \/ GetBestMove \/ ResetBestMove \/ Destroy

Next ==
  \/ \E t \in Threads : ThreadStep(t)
  \/ \E t \in Threads : Alive /\ RelockThrows(t)
  \/ OwnerStep
  \/ Alive /\ JoinThreads
  \/ ~Alive /\ UNCHANGED vars

\* Every thread that can go on is scheduled, and the join returns.  The owner
\* need not do anything, the stopper need not fire.
Fairness ==
  /\ \A t \in Threads : WF_vars(ThreadStep(t))
  /\ WF_vars(Alive /\ JoinThreads)

Spec == Init /\ [][Next]_vars /\ Fairness

-----------------------------------------------------------------------------
(* Properties.                                                             *)

\* Types; in particular pending_searchers_ stays between 0 and the option.
TypeOK ==
  /\ stop_ \in BOOLEAN /\ ok_to_respond_bestmove_ \in BOOLEAN
  /\ bestmove_is_sent_ \in BOOLEAN
  /\ final_bestmove_ \in Moves \cup {NoMove}
  /\ rootMoves \in Roots
  /\ visited \in BOOLEAN /\ rootVisitor \in Workers \cup {Nobody}
  /\ limit \in SearcherLimits /\ pending_searchers_ \in 0..limit
  /\ available \in [Workers -> 0..limit]
  /\ mutexOwner \in Threads \cup {Nobody}
  /\ pc \in [Threads -> {"enter", "exchange", "gather", "collect", "release",
                         "compute", "trigger", "answer", "loop", "check",
                         "wait", "done"}]
  /\ owner \in {"running", "joining", "gone"} /\ terminated \in BOOLEAN
  /\ answers \in Nat /\ answered \in Moves \cup {NoMove}
  /\ silenced \in BOOLEAN /\ reset \in BOOLEAN

\* A search has one outcome: a single bestmove, or silence after an Abort that
\* took effect, never both and never two bestmoves, although every worker and
\* the watchdog may find the answer due at the same time.
OneOutcome == answers + (IF silenced THEN 1 ELSE 0) <= 1

\* A bestmove is sent only once the search has stopped, only when responding
\* is allowed (not while pondering or in `go infinite`), and only from a root
\* that has a visit.  It is a move the search was asked to consider; NO_MOVE
\* (search.cc:571 with 638 or 670) is sent only when there is no such move, as
\* in mate and stalemate, never because the answer came too early.
AnswerWasDue ==
  answers > 0 => /\ stop_ /\ ok_to_respond_bestmove_ /\ visited
                 /\ IF rootMoves.allowed = {} THEN answered = NoMove
                                             ELSE answered \in rootMoves.allowed

\* After the answer GetBestMove goes on returning the move that was sent, also
\* with a temperature, until ResetBestMove is called.
AnswerIsKept == answers > 0 /\ ~reset => final_bestmove_ = answered

\* The workers never all leave a search whose root has no visit, however early
\* the stop comes: without a visit nobody would ever answer.
FirstVisitIsMade == (\A w \in Workers : pc[w] = "done") => visited

\* Permits are neither lost nor duplicated: with a limit, at most that many
\* workers gather at a time.
PermitsConserved ==
  limit # 0 => pending_searchers_ + Cardinality(Holding) = limit

Due == stop_ /\ ok_to_respond_bestmove_ /\ ~bestmove_is_sent_
\* A stop that may be answered is answered: after `stop`, or once a limit is
\* reached in a normal search, the bestmove is sent, even if Abort or the
\* destructor comes in between.
StopIsAnswered == Due ~> (answers > 0)

\* The same with locks that nest.
StopIsAnsweredIfLocksNest == (ownerMayRelock /\ Due) ~> (answers > 0)

\* The destructor returns if locks nest: all threads leave and are joined,
\* whatever state the search was in, also a pondering search that reached its
\* limits long ago.
DestructorReturns == (ownerMayRelock /\ owner = "joining") ~> (owner = "gone")
=============================================================================
