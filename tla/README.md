# TLA+ models of the lc0 search

This directory models lc0, the UCI chess engine of this repository: the search
threads and the structures they share, what happens to the game tree between
searches, the backends that merge and split network evaluations, self-play
tournaments, and the rules of chess as the bitboards play them. Line numbers are
those of `src/src/...`. The specification modules are checked by TLC on small
instances; the `*_proofs` modules hold theorems about them, for every value of
their constants, that TLAPS checks.

This tree is a fork in the middle of an edit: `search.cc` does not match
`search.h` (members of the root beam are used and not declared, the
constructor, destructor and loop of `SearchWorker` are defined in both). Where
they differ the models follow the text of `search.cc`.

## 1. The system

| Component | State | Operations | Talks to | What is hard | What makes it correct |
|---|---|---|---|---|---|
| Search lifecycle (`mcts/search.cc`) | `stop_`, `ok_to_respond_bestmove_`, `bestmove_is_sent_`, best move, playout counters, `pending_searchers_`, threads | `StartThreads`, `Stop`, `Abort`, `Wait`, `GetBestMove`, `ResetBestMove`, destructor; `MaybeTriggerStop` in every thread, `WatchdogThread` | engine or self-play game (owner), stoppers, responder callback | a stop before the first playout, stop against abort, many threads finding the answer due, locks taken twice | one answer or none, every due stop answered, threads joined |
| Task queue of a `SearchWorker` (`mcts/search.cc`) | four atomics, `picking_tasks_`, a mutex, a condition variable | publish, take, complete, wait, destroy | task threads | atomics reset while others read them, tasks that publish tasks, lost wakeups | each task once, the barrier opens when all are done |
| NN cache (`utils/cache.h`, `neural/cache.cc`) | hash table, order of insertion, evicted list, pins, capacity | insert, look up and pin, unpin, set capacity, clear | every worker, the engine | eviction of pinned entries, closing of probe holes, capacity read without the lock | ideal FIFO cache whose locks stay valid |
| Virtual loss and backup (`mcts/search.cc`, `mcts/node.cc`) | `n_in_flight`, `shared_collisions_`, minibatch | gather, collect collisions, backup, cancel | tree, workers | three paths that cancel, unsigned counters, the root beam's early exit | every visit in flight ends once |
| Sibling lists (`mcts/node.h`) | chain of `atomic_unique_ptr` | `GetOrSpawnNode`, iteration | task threads | lock-free insertion, retry after a failed exchange, iterators that remember a place | sorted, nothing lost, nothing freed twice |
| Node tree and its collection (`mcts/node.cc`) | `tt_`, `non_tt_`, `gc_queue_`, parent counts, head | `MakeMove`, `TrimTreeAtHead`, `ResetToPosition`, `TTMaintenance`, `TTClear` | search (between searches) | shared descendants of a DAG, nodes found again while queued, twins, reuse of addresses | nothing that is referred to is freed, damaged nodes are not reused |
| Multiplexing backend (`neural/network_mux.cc`) | request queue, abort flag | enqueue, merge, compute, notify, destroy | search workers, a backend | merging, requests left behind by the batch limit, wakeups of one worker | each request answered once from its own part |
| Demultiplexing, round-robin (`neural/network_demux.cc`, `network_rr.cc`) | queue, `dataready_`, `parents_`, counter | split, compute, notify | the same | parts finishing in any order | readers find their part |
| Self-play (`selfplay/`) | games, counters, `abort_` | worker, play, abort, stop, wait | searches | abort against creation and destruction of a search, waiting twice | each game counted once, abort ends everything |
| Chess rules (`chess/board.cc`, `position.cc`) | bitboards, castlings, counters, history | generate, test and apply moves, FEN, repetitions, result | search, self-play, UCI | everything is seen from the side to move; pins and attack lines found once for all moves; Chess960 castling | the moves are the legal ones |
| Engine and UCI loop (`engine.cc`, `chess/uciloop.cc`) | search, tree, position, `busy_mutex_` | `NewGame`, `SetPosition`, `Go`, `PonderHit`, `Stop` | search, cache | the cache that outlives the network | no answer of an old search after a new command |
| Stoppers (`mcts/stoppers/`) | hints, a few counters | `ShouldStop`, `OnSearchDone` | search | estimates at their limits | hints only shrink |
| Mutex wrappers (`utils/mutex.h`) | reader count | lock, lock shared | engine | a recursive shared lock | readers preferred |
| Network backends, training data, tablebases, options, tools | - | - | - | numerical or I/O | - |

`PROJECT.json` lists each component with its status, and every hazard at its
line with the properties that cover it or the reason why none does.

How the parts meet: workers (`SearchLifecycle`) gather with the help of task
threads (`PickTasks`), which walk and extend sibling lists (`SiblingList`) and
put visits in flight (`VirtualLoss`); positions are looked up in the cache
(`NNCache`), whose misses go to the backends (`NetworkStack`). Between searches
the tree moves its head and collects (`NodeTree`). A self-play game owns one
search after another (`Tournament`). `NodeTree` relies on what `SiblingList`
shows, that an edge has one node; `NNCache` relies on a blocking computation that
`Evaluation` states; `Tournament` relies on a search that ends when aborted or when
it reaches its limits, which is `DestructorReturns` and `StopIsAnsweredIfLocksNest` of
`SearchLifecycle`. Those hold where locks nest, which the mutexes of this code do not,
and so does `TournamentEnds`: a search of `Tournament` hangs otherwise.

## 2. Modules

| Module | What it is |
|---|---|
| `TaskBarrier` | abstract: a set of tasks, each taken once, and a barrier that opens when all are done |
| `PickTasks` | the task queue, one step per access to a shared variable; implements `TaskBarrier` |
| `PickTasks_proofs` | proofs, including the refinement |
| `PinnedCache` | abstract: a FIFO of evaluations and locks that hold on to theirs |
| `NNCache` | the hash table and the computations that use it; implements `PinnedCache` |
| `NNCache_proofs` | proofs, including the refinement, and of the ideal cache's own property |
| `SearchLifecycle` | the life of one `Search`: watchdog, workers, owner |
| `SearchLifecycle_proofs` | proofs of its safety properties |
| `VirtualLoss` | picking, collisions, backup and what they do to `n_in_flight_` in a DAG |
| `VirtualLoss_proofs` | proofs of its properties |
| `ChildMap` | abstract: a map from edges to nodes that only grows |
| `SiblingList` | the lock-free list of children; implements `ChildMap` |
| `SiblingList_proofs` | proofs, including the refinement |
| `NodeTree` | nodes, low nodes, who owns and who refers to them, between and during searches |
| `NodeTree_proofs` | proofs of its properties |
| `Evaluation` | abstract: a blocking computation that returns the evaluations of its positions |
| `NetworkMux` | the multiplexing backend over an `Evaluation`; implements `Evaluation` |
| `NetworkDemux` | the demultiplexing backend; implements `Evaluation` |
| `NetworkStack` | composition: a mux over a demux |
| `NetworkStack_proofs` | proofs that the mux, the demux and the composition implement `Evaluation` |
| `Tournament` | workers, games, the runner and the loop that stops or aborts them |
| `Tournament_proofs` | proofs of its safety properties |
| `ChessRules` | abstract: the laws of chess, on a board that nobody mirrors |
| `ChessBoard` | the board as the code has it: sets of squares seen by the side to move (no state) |
| `PositionHistory` | the positions of a game; implements `ChessRules` |
| `MC*` | instances for TLC |

Operators marked "Mutant" are not part of the models. Each is a plausible wrong
version of the operator that follows it; putting it in that operator's place
makes TLC refute the property that `PROJECT.json` names, which shows that the
property depends on that piece of code.

### Task queue: `PickTasks`

The variables are the members of `SearchWorker` with the same names, the
holder of `picking_tasks_mutex_`, the threads blocked in `task_added_.wait`,
the locals that are live across steps, and a program counter per thread. Every
load, store, `fetch_add` and `compare_exchange` is one action; a section under
the mutex is split where another thread can look in without it (`SpawnPublish`
and `SpawnCount`: the vector grows before the count). All accesses are acquire
or release on single variables and each property relates values that the same
thread ordered, so steps are interleaved sequentially consistently. A task
threads' work is reduced to "may publish more tasks", a batch to its type.
`SpuriousWakeup` is there because `wait` has no predicate (line 1442).

### NN cache: `NNCache`

`table` is what the spin mutex guards and one action is one section under it.
The unlocked test of `capacity_` (cache.h:67) is a step of its own, as is each
insertion and each release of `ComputeBlocking`, so other computations come in
between. Hashing, probing, closing the hole left by an eviction, the evicted
list and `Unpin` are the code's algorithms. Keys are integers because only
their remainders matter; values are addresses, and a freed address can be used
again, which is how a stale `Unpin` would show.

### Search lifecycle: `SearchLifecycle`

A critical section that neither waits nor calls out is one action whose guard
is that the mutexes are free. The answer in `MaybeTriggerStop` is an action of
its own because it calls functions that lock the same mutexes again. The tree
is reduced to `visited`, whether the root has a visit, `rootVisitor`, the
worker whose minibatch holds the first visit, and `rootMoves`, the edges the root has
once it is visited and those that `root_move_filter_` admits, which no step of a
search changes; the stopper may fire at any time or never; every choice of the best
move may differ, as with a temperature. A mated or stalemated root has no edges: its
first visit makes it terminal, `EnsureBestMoveKnown` returns (search.cc:638), and the
answer is `NO_MOVE`. So would it be if the filter left no edge (search.cc:670), which
the theorem allows and the run does not contain, because a filter that is not
empty holds legal moves. The
owner may call `Stop`, `Abort`, `GetBestMove`, `ResetBestMove` and the
destructor in any order; before the destructor the calls can come from
different threads, as in self-play. What a second lock of a mutex by its owner
does is drawn in `Init` from `RelockOutcomes` and kept in `ownerMayRelock`: TRUE
is the locking that the comment at search.h:125 describes, FALSE is what the
standard mutexes do. `MaybeOutputInfo` has no action: it needs
`current_best_edge_`, and the only assignment of a real edge to it
(search.cc:1833-1839) is guarded by `current_best_edge_` itself. `answers`,
`answered`, `silenced` and `reset` are history variables.

### Virtual loss: `VirtualLoss`

`Nodes` are the `Node` objects; `Edges` gives the children that a node's low
node offers, each edge a node of its own (`SiblingList`); two nodes may offer the
same ones, as transpositions do.
`stacks[w]` holds the calls of `PickNodesToExtendTask` that make up worker `w`'s
pick: the first belongs to the worker, the others are the tasks it handed over.
Their frames are `full_path` with `visits_to_perform` of each level, and tasks
step in any order. The worker holds `nodes_mutex_` from `PickNodesToExtend` to
`EndPick`; all other actions are one critical section each. The selection
formula is left free: any child, for any number of visits. `halting` is chosen
anew for each pick, for a node and not for a path: within one pick a node that
is a repetition on one path and not on another counts as one or the other.
`stray` is a history variable for the visits that two places of the code add to
`n_in_flight_` and never take back (search.cc:1662 and 1704); everything else
has to balance. The order of `DoBackupUpdate` before the next iteration's
`minibatch_.clear()` is not told apart, since nothing reads the minibatch in
between. `PickTasks` is the detail of how tasks are taken and awaited.

### Sibling lists: `SiblingList`

A place holds an `atomic_unique_ptr`: `child_` of the low node (`First`) or
`sibling_` of a node. One action is one access to such a pointer; the loop of
`Actualize` reads one pointer per step, and `GetOrSpawnNode` (node.h:886) borrows
the sibling, compares and exchanges, releases, and looks again. `Discard` destroys
what the new node owns at that moment, which is nothing only because `Retry`
released the borrowed sibling. Addresses of destroyed nodes are handed out
again, so an exchange may meet an address from another life. `linked` is a
history variable, the nodes that an exchange made part of the list. Lists are cut
only between searches, in `NodeTree`.

### Node tree: `NodeTree`

An operator takes the heap and returns the next one, in the order of the code's
statements where that shows: `num_parents_` is lowered as nodes die, `Enqueue`
looks at it before they do. One action is one call of the code, but
`ResetToPosition` has one per move of the line. A search is a sequence of visits,
each of which extends one node through `TTGetOrCreate`, with a clone in
`non_tt_` for a noisy root, and a twin when bucketing is on. A node that `MakeMove`
gave a low node before any visit keeps it (`IsExtendable`, search.h:305), so that a
search from there sees only the move of the game. A collection is a fold over
`non_tt_` or `gc_queue_`: `NonTTMaintenance` first releases the children of the
parentless and then erases those that are parentless at their turn. `mode` says who uses
the tree: the engine moves it by `ResetToPosition`; self-play by `MakeMove` after
each search, with `TrimTreeAtHead` and `TTClear` before the next. `MakeMove`
gives a leaf, or a head with other edges, the low node of its position from the
table, or a new one with one edge in `non_tt_`, as `FindLowNode` does.

### Backends: `Evaluation`, `NetworkMux`, `NetworkDemux`, `NetworkStack`

`calls` belongs to `Evaluation`: a caller is idle, has asked, or has been answered
with the evaluations of its own positions. The mux is written over a variable
`inner` of the same kind, which is the network below and has the mux's workers for
callers; the mux promises the one and takes the other for granted. The demux
computes the parts itself. `NetworkStack` puts the demux in the place of `inner`.
Both keep who is in which section: the worker of the mux holds `mutex_` while it
gathers (one step per computation), a caller of the demux holds its own while it
enqueues itself once for each part, and parts are taken, computed and reported
one step at a time. `notify_one` wakes any one of the sleepers, or nobody.
Readers are modelled by what they do with `idx_in_parent_` and `partial_size_`.

### Self-play: `Tournament`

Each worker has a `Place`; sections under the tournament's `mutex_` need it free,
and `Abort` holds it over several steps while it aborts one game after another.
A game has its plies, its `abort_`, and its search, which runs, hangs or was told to
stop. It hangs (`SearchHangs`) when it reaches its limits and `locksNest` is FALSE, which is
what `SearchLifecycle` shows of the standard mutexes; its worker then never leaves it, and
an `Abort` that comes to it waits for `nodes_mutex_` with the tournament's `mutex_` held. After
the search the worker chooses a move and, if `kMinimumAllowedVists` is not 0
(`mayDiscard`), may discard it and choose again any number of times, without a look at
`abort_`. `runner` is `RunBlocking`, `uci` the loop that reads `stop` and `quit`: both
may be in `Wait` at once, and join the same threads under `threads_mutex_`. With
`kParallelism` 1 the runner is the worker and `threads_` is empty.

### Chess: `ChessRules`, `ChessBoard`, `PositionHistory`

`ChessRules` states the laws on coloured men: a man controls squares, a move is
legal if the king is safe afterwards, the rooks that may castle are named.
`ChessBoard` is the code: rooks and queens in one set, bishops and queens in
another, pawns in the first or last row for the right to take en passant, moves
up the board only, a mirror after each move, attack lines and pins found once
per position, castling as the king taking its rook. `PositionHistory` adds the
counters and repetitions. `GameOf` is the refinement mapping: it undoes the
mirror and reads the men off the sets. Descriptions (FEN) are records; how they
name castlings (`K`, `Q` or a file) is kept, digits and slashes are not.

## 3. Runs

| Run | Instance | Shows |
|---|---|---|
| `pick_tasks` | 2 task threads, room for 3 tasks; about 27 thousand states | tasks run once, the barrier is sound, no reallocation, no sleeper, no lost join; `PickTasks` implements `TaskBarrier` |
| `nn_cache` | 2 computations of up to 2 lookups, 3 keys, 4 values, capacities 0, 1, 2; about 260 thousand states up to symmetry | the table is the ideal FIFO cache, pins hold values, nothing leaks, every probe ends |
| `search_lifecycle` | 2 workers, a root with 3 moves of which 2 are allowed and one with none, limits 0, 1, 2, locks that nest and locks that do not; about 390 thousand states | one outcome, never early, `NO_MOVE` only without a move, kept, first visit made, permits conserved; where locks nest every due stop is answered and the destructor returns |
| `search_no_answer` | the same, standard mutexes only | expected to fail: a stop is never answered (see below) |
| `virtual_loss` | 2 workers, 2 picks, a root whose two children transpose into one node, a task thread, a beam; about 670 thousand states up to symmetry | virtual loss balances, no node is extended twice, a pick stays within its limit, `collisions_left` does not wrap |
| `virtual_loss_strays` | the same without the beam, the shared node a terminal | expected to fail: virtual loss is left when the search is destroyed (see below) |
| `sibling_list` | 2 threads, 3 edges, 4 addresses; about 310 thousand states | the list stays ordered and whole, implements `ChildMap`, every call returns |
| `node_tree` | a game of 5 positions with a transposition, engine and self-play with and without noise, 10 addresses of each kind; about 140 thousand states | nothing dangles, parent counts are exact, the moves lead to the head, damaged low nodes leave the table |
| `node_tree_twins` | the same with rule-50 bucketing | expected to fail: a damaged twin stays in the table (see below) |
| `network_stack` | 2 callers, mux with 2 workers and limit 3, demux with 2 workers and parts of at least 2, batches of 1, 2 and 4; about 86 thousand states | mux and demux each implement `Evaluation`, every call and the destructors return |
| `tournament` | up to 2 workers, 1 to 3 games of up to 2 plies, moves that may be discarded or not, locks that nest and locks that do not; about 170 thousand states | no search escapes an abort, a final report is complete; where locks nest and no move is discarded, everybody returns |
| `chess` | 18 positions followed for 2 to 10 plies; about 10 thousand states | the bitboards play chess, generate the legal moves, count repetitions, end games lawfully, survive a FEN |

Why the bounds are enough. Two task threads are what a race between takers
needs, and with the search thread there are three participants; three tasks let
a batch fill up while a running task publishes. Keys 3, 7 and 4 in tables of 1,
2 and 4 slots collide, form probe runs and wrap around the end; capacities 0 to
2 include the empty cache and the eviction at every insertion; four values are
as many as two computations and two entries hold at once. Two workers and the
watchdog give three threads that may answer at once; limit 1 makes the workers
compete for a permit, limit 2 makes the exchange fail without exhausting the
permits, limit 0 skips the permits. For virtual loss, two visits per pick are the
least that can meet in one node, by one worker through two parents or twice
through one; two picks let a worker collide with the other's visit, leave the
collision to it, or pick again after a backup; the shared child below two parents
is where task threads meet; and the tree may start with any visited part, as an
earlier search leaves it.

Three edges let a node be inserted before, between and behind others; two
threads and four addresses let each of them fail, discard and be given the
other's old address. In the node tree, two moves lead to positions that
differ in the fifty-move count alone, and both of them to one position by a
capture, which is a transposition whose low node has two parents, one of which
may be damaged by a move; the last position is terminal; the lines of moves go
back to the start, repeat it, and leave the searched part. No line of moves comes
back to a position, repetitions being part of its hash (`GraphAssumption`). Two callers of the mux
fill a batch, exceed it, or leave a request behind for the other worker; a
merged batch of up to six positions is split into two equal or unequal parts, or
not at all. Two workers and three games let one be idle, one play and one be
begun; two plies are the shortest game in which a search follows another one.
Each chess position holds one difficulty: castling on both sides past attacked
squares, rooks that are taken, Chess960 castlings where the king stays, king and
rook cross or the rook's going uncovers the king, en passant that uncovers the
king on a row or a diagonal, pins and double checks, promotions, mates on the
hundredth ply, insufficient material, and kings that walk to and fro for ten plies,
which is what a third occurrence needs. The proofs remove the bounds for the
task queue, virtual loss, the NN cache, the sibling list and the backends, and for the safety of the lifecycle and
the tournament.

Bounds by name: `MAX_TASKS` is the code's constant; `MaxBatch` of `NNCache` limits
the lookups of one computation, that of `NetworkMux` is the code's `max_batch`; the
sets `Keys`, `Values`, `Capacities`, `Moves`, `SearcherLimits`, `Batches` and
`Totals` are the finite instances above. In `VirtualLoss` `MaxPicks` bounds the calls
of `PickNodesToExtend`; `CollisionsLeft` and `MAX_TASKS` stand for the parameters of
those names. In `NodeTree` a visit needs room for its node below `SearchNodes` and for
its low nodes below `SearchLowNodes` (a noisy root takes two); `MaxNodes` and
`MaxLowNodes` are the addresses, and a move needs one of each to be free
(`RoomToMove`), which here it always has. `MaxPlies` of
`Tournament` is the code's 450; `MaxPlies` of `PositionHistory` says how many moves of
a game are followed. Nothing else is cut off.

### What the code does not keep

`search_no_answer`: `MaybeTriggerStop` locks `nodes_mutex_` and
`counters_mutex_` (search.cc:542-543) and, when the answer is due, calls
`SendUciInfo`, which locks both again (379-380). search.h:125 says that
`SendUciInfo` requires the lock to be held, and search.h:71 that at the end of
a stop the bestmove is returned. With `std::shared_timed_mutex` the second lock
is undefined behaviour; the model takes both outcomes that libraries give, a
thread that hangs with the mutexes held, or an exception that ends the process.
In either the bestmove is never sent. `SendMovesStats` (1144) and
`GetVerboseStats` (1056) repeat the mistake.

`virtual_loss_strays`: a pick may assign visits to a child twice, or find it being
extended by another worker. `TryStartScoreUpdate` then fails, and the else
branch (search.cc:1704) adds the visits to the child. The visits end as a
collision at that child, and cancelling a collision starts at its parent
(search.cc:973, 1322), so the child keeps them, also after the destructor has
cancelled everything, where it asserts `ZeroNInFlight` (search.cc:365). The
visits dropped at a node without an eligible edge (search.cc:1662) stay in
flight as well, on the whole path. `VirtualLossAccounted` says that these two
are the only places.

`node_tree_twins`: with rule-50 bucketing a new low node may be a copy of its twin.
It is entered in `tt_`, but the copying constructor clears `is_tt_` (node.h:525), so
that `MakeMove` does not take it out of the table although a comment there says
that damaged nodes are moved to avoid their reuse (node.cc:793), and the collector
never queues it. It is then handed out again as the node of its position, with
one edge left. The passing run `node_tree` is therefore without bucketing. With it
and self-play's steps `NoDangling` fails on the same positions too, since `TTClear` frees the
low node of the head.

Smaller things, which the models contain and no property forbids. `TTGCSome` erases
a low node without queueing its children, so that descendants stay in `tt_`
(node.cc:937); it returns true when nothing is left, where node.h:1092 says "if there
is more to release", and nobody reads it. `ResetToPosition` recognises the old
head by its address, which may have been reused (node.cc:834). A game that enters
`games_` after `Abort` went through it is not aborted, and `quit` waits for it
(tournament.cc:338). `Wait` with `kParallelism` 1 returns at once, although
tournament.h:59 says that it blocks. Games of 450 plies have no result, and are
taken for aborted ones (game.cc:156): `FinalIsComplete` counts them apart. The loop
that discards moves (game.cc:244-280) does not look at `abort_`; without a temperature
`ResetBestMove` finds the same move again, so that a best move with too few visits
and not the most, say a mate found late, keeps it going for ever.

`Abort` of a search is declared as "does not return bestmove" (search.h:74). The code
keeps a narrower promise, and `OneOutcome` with `StopIsAnsweredIfLocksNest` states it: an
Abort that takes effect silences the search; one that comes when an answer is
already due does nothing, and the answer is sent.

## 4. Fairness

`PickTasks`: weak fairness of every thread, since the operating system
schedules threads that can run. Strong fairness of the steps that take
`picking_tasks_mutex_`, `MainProgress` and `WorkerProgress`: a thread that
competes for the mutex again and again obtains it. Spurious wakeups are not
fair. `SearchLifecycle`: weak fairness of every thread and of the join. A
mutex is free between actions unless a thread is answering, so weak fairness
means that a thread waiting for a free mutex gets it; the backend's computation
returns. Nothing is assumed of the owner, and the stopper need not fire.
`SiblingList`: weak fairness of the steps inside a call (`Step`); nobody has to go on
iterating. `NetworkStack`: weak fairness of the threads of both backends and of the
destructor of the inner one, which the outer destructor runs into; strong fairness
of a caller, which waits for a mutex that workers take and release; nobody has to
call. A worker of the mux that never gets `mutex_` because another one always gathers
loses nothing: the other one serves the queue. `Tournament`: strong fairness of the
workers, the runner and the loop, for the same mutexes; no command has to come.
That a search reaches its limits is part of a worker's fairness: every player must have a
limit of visits, playouts or time (tournament.cc:210-216). That it then ends is not: it
ends where locks nest and hangs elsewhere, and `TournamentEnds` speaks of the first
case alone, like `StopIsAnsweredIfLocksNest` and `DestructorReturns`. Nor does fairness end
the choice among moves that are discarded: `TournamentEnds` is about `kMinimumAllowedVists`
0, the default.
`NNCache`, `NodeTree` and `PositionHistory` have no liveness property; the first
has loops that end by `ProbesReach` and, where a hole is closed, by `HoleCloses` (section 5);
the others are sequential. `VirtualLoss`
has none either: it is cut off after `MaxPicks` picks.

## 5. Proofs

`PickTasks_proofs`, from `ThreadsAssumption` and `CapacityAssumption` (no more
task threads than `MAX_TASKS`, without which `NoReallocation` is false: the
processing tasks are published without a test). The safety properties are not
inductive: a task thread that read the counters of an old batch is harmless only
because it reads them again under the spin flag. The inductive invariant
relates the counters to the threads: `task_count_` is the size of the vector
up to the tasks being published, `completed_tasks_` plus the threads that own a
task is `tasks_taken_`, indices are owned once, one thread at a time holds the
spin flag, and no thread is asleep while a batch is open. From it follow type
correctness, `NoTaskTwice`, `BarrierHolds`, `NoReallocation`, `NoSleeperInBatch`
and `Refinement`: each step of the atomics is a step of `TaskBarrier` or a
stutter.

`NNCache_proofs`, for any number of computations, any hashes, addresses and
capacities, from `ValuesAssumption`, `KeysAssumption` and `CapacitiesAssumption`. That probes reach their
entries is not inductive while a hole is open, so the proof is first about tables and
then about steps. Slots are compared by their distance around the table (`Dist`,
`Before`). A table is `Sound` when no unused slot lies between the slot that a key
hashes to and the key's entry. A turn of the loop that closes a hole (`ShiftBack`) keeps
`Closing`: the table is sound but for the hole, and no entry that the loop went past
needs it. The loop therefore leaves a sound table once it ends, and it ends because another
slot is unused, or because there are two slots at most (`HoleCloses`, `TwoSlots`): with
capacity 0 or 1 an insertion fills the table before the oldest entry is evicted, the one
case where no other slot is unused. The recursions of `Rehash`,
`EvictToCapacity` and `Misses` go by induction over the naturals as sets. `IsCache` then says of what the
mutex guards that the order of insertion lists the keys of the table, that the
counters are right, and that no two entries, evicted ones included, are at one
address. `Matched` adds that the pins of an entry are the locks on it and every lock
is on an entry, which is why `Unpin` never fails to find what it looks for. `ClientInv` and
`FreshInv` say what a computation is about to insert, and that its address is its own.
From these follow `Accounting`, `ProbesReach`, `LocksHoldValues`, and the refinement: each step is
a step of `PinnedCache` or a stutter. `Ideal!OneEvaluation` then holds of the hash table:
a position is cached at most once, and the evaluation locked for one position is
never that of another. The last part proves the same of the ideal cache by itself,
whatever the sequence of entries.

`SearchLifecycle_proofs`, for every number of workers, every set of limits and
both values of `ownerMayRelock`. The invariant adds to the properties that the
mutexes are held exactly by the answering thread, and while it answers the
answer stays due (`AnswerInv`); that `bestmove_is_sent_` records any outcome, and the best
move is one allowed at the root or `NO_MOVE` (`OutcomeInv`), for which `RootsAssumption` says
that a root's allowed moves are among its edges; that from the first gathering on the root's first visit is made
or held by one worker before its backup (`VisitInv`), which is why not all
workers can have left an unvisited root; and that the permits left and the
workers between the two updates add up to the limit (`PermitInv`).

`VirtualLoss_proofs`, for every DAG, any number of workers, any collision limit and
any number of tasks and picks, from `GraphAssumption` and `LimitsAssumption`. The
properties are sums over stacks of frames, so the first part is about sums: what
`SumFunctionOnSet` gives for a set with one element more or with two parts, and from
that what concatenation, replacing an element, or selecting some of them
(`Subsequence`) does to the total of a sequence. None of the properties is inductive alone. The
invariant `IInv` adds that one worker at a time picks, and only it has tasks (`OnePick`);
that a frame arrives with visits left and none placed, and descends with none left,
and that only the worker's own call starts at the root (`FramesInv`); that a pick's limit is within
`collisions_left`, and a collision that may grow took all of it, and is therefore the
only one (`LimitInv`, `FreshInv`), without which growing it could overdraw
`collisions_left`; and that only collisions are shared (`SharedInv`). The step lemmas
follow the account of `VirtualLossAccounted`. A step of a pick moves weight between a
frame and what takes its place, for every node of the DAG at once: for `SplitTasks` from a
frame to the new tasks, for `Descend` to the frame below. Every other step leaves the
sum over the other workers alone (`WorkerStepInv`). `ExtendedOnce` follows from the account: a visit that extends a node
holds it in flight (`Extending(x) <= Held(x)`), and another is started only when
`n_in_flight` is 0; backups that make a node visited take all of its visits along.
`TypeCorrect` follows too: what `Settled` takes off a node is
part of what is held on it. `OnlyStraysAreLeft` adds
that a parked worker has no minibatch (`Parked`): once all are destroyed the account is
the strays alone, so `ZeroNInFlight` fails exactly where `virtual_loss_strays` shows it.

`SiblingList_proofs`, for any number of threads, edges and addresses, from
`EdgesAssumption` and `PlacesAssumption`. `ListIntact` says nothing of a node that is
not yet in the list, and so is not inductive. The invariant adds that an iterator
stands on a place that is in the list and not behind its edge (`IteratorOK`),
and that a new node belongs to one thread, is not linked, and while an exchange is
tried points at what the thread read, a node of a later edge (`NewNodeOK`). An
exchange that succeeds then puts it between its neighbours: the place, whose edge
is earlier, still points at that node, and an address cannot have been reused
meanwhile, because a node in the list is never destroyed. `ListImplementsMap` is the
refinement: `Insert` is the exchange, `Answer` the read that settles.

`NodeTree_proofs`, for any acyclic game of finitely many positions, any lines, any numbers of
addresses, the engine with or without noise and self-play, from `GraphAssumption`,
`BoundsAssumption` and `ModesAssumption`; the hypothesis `NoBucketing` of each theorem is the
condition under which the passing run checks the properties. A heap is `Sane` when
every node is owned once, as a child or as `gamebegin_node_`, a low node counts the nodes
that refer to it and is of the position that their moves lead to (`Tree`), and `tt_` and
`non_tt_` own each low node once (`Table`, `NonTT`). That is inductive for one heap, but
it does not say that releasing a low node stops short of the head. So the invariant adds the
`Line`: the moves of the game lead from `gamebegin_node_` to the head through low nodes
that are outside the table and have one child. Positions of a game do not come
back (`Later`), and so a search below the head never reaches that line. In self-play
`TTClear` takes the whole table away and nothing of the line, because only the line and
the head refer to low nodes outside the table (`OwnLine`). The folds over `non_tt_`
and `gc_queue_` are followed turn by turn: each turn keeps what the pass needs
(`ReleasedUpTo`, `ErasedUpTo`, `CollectTurn`), by induction over sets of naturals.
`NoDangling`, `ParentsCounted`, `HeadIsOnLine` and `DamagedLeftTable` follow, and
`GamesLeaveNothing`, which no run checks: whatever was played, `DeallocateTree` leaves the
empty heap.

`NetworkStack_proofs` begins with the mux, for any number of callers, workers and any
`max_batch`, from `MuxAssumption`. The invariant (`CompInv`, `QueueInv`,
`ChildInv`, `GatherInv`) says that a caller that has enqueued is in one place only,
the queue, the children of one worker, or notified; and that the positions at
`idx_in_parent_` of a parent are the caller's own, while it is gathered, asked
below, and answered. `MuxEvaluates` concludes that `NetworkMux!Spec`, whose network below
is an `Evaluation` by its definition, implements `Evaluation`.

The demux follows in the same module, for any number of callers and workers, any batch
that is not empty and any `minimum-split-size`, from `DemuxAssumption`. That a caller wakes only
when all its positions are evaluated is not inductive: `dataready_` says nothing of
where the parts are. The invariant is an account of them (`DemuxCallInv`): a part is still to
be enqueued, in `queue_`, with a worker that has not begun it, or one of
`parents_`, and these add up to the number of parts; those not yet reported add up to
`dataready_`. `DemuxPartInv` adds that the k-th of `parents_` has the k-th range of the
positions and is evaluated or with a worker, and `DemuxWorkerInv` that a worker reports
only to a computation that exists. When `dataready_` is 0 there are then as many
`parents_` as parts, and the division by `partial_size_` finds each sample in its
range (`InItsPart`). `DemuxEvaluates` is the refinement.

The last part composes the two: a step of the stack is a step of
`NetworkMux`, with the demux's `Return` as the answer of the network below, and a
step of `NetworkDemux`, or a stutter of one of them (`StepsAre`). Each needs
something of the other, and so their invariants are proved together
(`StackInv`): the demux is never asked for an empty batch, because a worker of the mux
that gathers has a child and callers ask for something, and never after it was
destroyed, because the mux joins its workers first. `StackEvaluates` concludes that
both are `Evaluation`s; it assumes `MergesAll`, that every batch the mux can make is
allowed below, where the run allows those that its bounds can produce.

`Tournament_proofs`, for any number of workers, games and plies. `Counted` relates
the games begun to those that are being played, counted, given up or cut short;
`Ended` says that a runner or a loop that joined finds no worker left, which
`Final` needs of both of them; `AbortedFirst` that a game is aborted only after
`abort_`. `FinalReport` follows, and `AbortsReach`, which needs the second look at `abort_`
in `BeginSearch` alone.

Type invariants are parts of the inductive invariants and proved (`TypeCorrect`) for
`PickTasks`, `SearchLifecycle`, `VirtualLoss`, `NNCache`, `SiblingList`, `NetworkMux` and
`NetworkDemux` (there `DemuxTypeCorrect`); that of `NodeTree` is the first part of `Tree`. TLC
evaluates the one of `VirtualLoss`, whose ranges are asserts of the code.

Only model-checked: everything about liveness (`BarrierOpens`, `ThreadsJoin`,
`StopIsAnsweredIfLocksNest`, `DestructorReturns`, `SpawnReturns`, `CallsReturn`, `TournamentEnds`),
since the prover has no support for fairness and `ENABLED`; and chess. Even
`RepetitionsCounted` needs that no king is ever taken, and so all of `IsLegalMove`, which
is right only in positions that play can reach (`double_check` counts the knights that
give check as one): `FensAssumption` says less than that, and an assumption as strong
as reachability would assume much of the result. With bucketing the properties of
`NodeTree` have no theorem because they are false there, as `node_tree_twins` shows.

## 6. Not modelled

What the modelled components leave out:

- Search: the NPS limit, the progress output, and the choice of nodes and moves,
  which is floating-point arithmetic over the tree and free in the models. The
  destruction of a search in the middle of a call of another thread has no
  defined outcome and is not an action.
- Node tree: the passing run is without bucketing (above) and, for the engine,
  without noise, which only self-play uses by default (the theorems cover it); visit counts, bounds, the
  correction history and solid edges are left out; addresses are reused lowest
  first. `DeallocateTree` is looked at when it is done, and not between `tt_.clear()`
  and `non_tt_.clear()`, when a chain of low nodes that two passes did not collect may
  still have children that name low nodes of the table.
- Backends: the worker's unlocked look at `abort_` is one with the locked one;
  `Abort` comes when no call is pending, since networks outlive searches (requests
  left at destruction would have a null parent, network_mux.cc:154); which idle
  backend takes a part, and with it `counter_` and the round-robin backend, is free.
- Self-play: openings, players, training data, resignation thresholds,
  `kTotalGames` below 0, and the undefined outcome of `Abort` that meets
  `search_.reset()` (game.cc:304).
- Chess: magic numbers and hashes (attacks are functions of the occupied squares;
  equal positions are equal boards), `Pop` and `Trim`, descriptions that are
  rejected, move indices for the network, and the PGN reader.

Components without a module: the engine and the UCI loop issue commands from one
thread, and what they call is in `SearchLifecycle` (the owner) and `NodeTree`
(`SetupPosition`); the parsing is sequential. The stoppers and time managers are
sequential tests over statistics, mostly floating-point; `SearchLifecycle` lets them
fire at any time. The root beam ranks moves by floating-point values. The mutex
wrappers are thin, and `RpSharedMutex` has one user, `busy_mutex_`, locked by the UCI
thread alone. Network backends, training data, tablebases, options and tools are
numerical code, file formats and command lines without a protocol.

## 7. Plan

1. `VirtualLoss` over several searches of one `NodeTree`, where stray virtual loss on a
   terminal that becomes the root (node.cc:344) would keep it from ever being
   visited.
2. The engine over an abstract search that `SearchLifecycle` implements, with the cache
   that outlives the network (engine.cc:156).
3. The integer hints of the stoppers as operators over bounded integers.
4. Proofs of what can be said of a single position: `Mirror` is its own inverse, rights
   to castle are backed by rooks.
