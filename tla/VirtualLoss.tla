---------------------------- MODULE VirtualLoss ----------------------------
(***************************************************************************)
(* Virtual loss (Node::n_in_flight_): how the search workers of one Search *)
(* add it while they pick nodes to extend, and take it back when a visit   *)
(* is backed up or a collision is cancelled (src/src/mcts/search.cc and    *)
(* node.cc).  Everything that touches n_in_flight_ runs under an exclusive *)
(* nodes_mutex_; a pick hands subtrees to task threads, which share that   *)
(* lock and step in any order.  One step is one child a visit count is     *)
(* assigned to (whether a visit starts is decided by one atomic operation, *)
(* what it adds afterwards commutes), or one critical section of           *)
(* GatherMinibatch and what follows it.  Which child is best, and for how  *)
(* many visits, is a choice.                                               *)
(***************************************************************************)
EXTENDS Integers, Sequences, FiniteSets, SequencesExt, Functions

CONSTANTS
    Workers,        \* the SearchWorkers
    Nodes,          \* nodes of the DAG: two low nodes may offer the same one
    Root,           \* root_node_
    Edges,          \* the child nodes of each node's low node, by index
    Terminals,      \* positions that end the game
    BeamActive,     \* IsBeamActive(): the root may be restricted to a beam
    CollisionsLeft, \* CalculateCollisionsLeft(...)
    MAX_TASKS,      \* how many subtrees a pick may hand over
    MaxPicks        \* bound on calls of PickNodesToExtend in a behaviour

\* The root is nobody's child, a terminal has none, and each edge of a low node
\* has a child node of its own.
ASSUME GraphAssumption ==
    /\ IsFiniteSet(Nodes) /\ IsFiniteSet(Workers)
    /\ Root \in Nodes
    /\ Edges \in [Nodes -> Seq(Nodes \ {Root})]
    /\ \A x \in Nodes : IsInjective(Edges[x])
    /\ \A x \in Terminals : x \in Nodes /\ Edges[x] = <<>>

ASSUME LimitsAssumption ==
    /\ BeamActive \in BOOLEAN
    /\ CollisionsLeft \in Nat \ {0} /\ MAX_TASKS \in Nat /\ MaxPicks \in Nat

VARIABLES
    visited,            \* the nodes with n_ > 0
    n_in_flight,        \* n_in_flight_ of each node
    stray,              \* history: virtual loss added to a node for visits
                        \* that nothing will ever be done about
    halting,            \* the visited nodes whose values make a pick stop there
    phase,              \* where each worker is in ExecuteOneIteration
    stacks,             \* each worker's PickNodesToExtendTask calls, its own first
    minibatch,          \* minibatch_
    new_start,          \* GatherMinibatch's new_start
    collisions_left,    \* GatherMinibatch's collisions_left
    shared_collisions,  \* shared_collisions_
    picks               \* how often PickNodesToExtend was called

vars == <<visited, n_in_flight, stray, halting, phase, stacks, minibatch,
          new_start, collisions_left, shared_collisions, picks>>

-----------------------------------------------------------------------------
(* Nodes to process.                                                         *)

\* NodeToProcess::Visit
Visit(path) ==
    [path |-> path, multivisit |-> 1, is_collision |-> FALSE, maxvisit |-> FALSE]

\* NodeToProcess::Collision; grows says that max_count exceeds the count.
Collision(path, count, grows) ==
    [path |-> path, multivisit |-> count, is_collision |-> TRUE, maxvisit |-> grows]

IsCollision(item) == item.is_collision
IsVisit(item) == ~item.is_collision
Leaf(item) == Last(item.path)

\* How often x is on path.
Occurrences(x, path) == Cardinality({k \in DOMAIN path : path[k] = x})

\* The elements of s at the indices in K, in their order.
Subsequence(s, K) ==
    LET upTo[n \in 0..Len(s)] ==
            IF n = 0 THEN <<>>
            ELSE IF n \in K THEN Append(upTo[n - 1], s[n]) ELSE upTo[n - 1]
    IN upTo[Len(s)]

\* Where among items the visits are, and the collisions.
VisitsAt(items) == {k \in DOMAIN items : IsVisit(items[k])}
CollisionsAt(items) == {k \in DOMAIN items : IsCollision(items[k])}
Visits(items) == Subsequence(items, VisitsAt(items))
Collisions(items) == Subsequence(items, CollisionsAt(items))

\* FinalizeScoreUpdate walks the path from its end, CancelScoreUpdate from the
\* node before.
FinalizeScoreUpdate(item) == [x \in Nodes |-> item.multivisit * Occurrences(x, item.path)]
CancelScoreUpdate(item) == [x \in Nodes |-> item.multivisit * Occurrences(x, Front(item.path))]

\* What remains in flight when a sequence of visits and one of collisions end.
Settled(visits, collisions) ==
    [x \in Nodes |->
        n_in_flight[x]
          - SumFunction([i \in DOMAIN visits |-> FinalizeScoreUpdate(visits[i])[x]])
          - SumFunction([i \in DOMAIN collisions |-> CancelScoreUpdate(collisions[i])[x]])]

LeavesOf(items) == {Leaf(items[i]) : i \in DOMAIN items}

\* IncrementNInFlight on every node of path.
Raise(f, path, count) == [x \in Nodes |-> f[x] + count * Occurrences(x, path)]

-----------------------------------------------------------------------------
(* One PickNodesToExtendTask: its stack has a frame for each node of         *)
(* full_path, which first arrives, then shares its visits among its          *)
(* children, then descends into them.                                        *)

Frame(path, limit) ==
    [path |-> path, step |-> "arrive", left |-> limit,
     visits_to_perform |-> [x \in Nodes |-> 0]]

Task(path, limit) ==
    [collision_limit |-> limit, frames |-> <<Frame(path, limit)>>, receiver |-> <<>>]

\* ShouldStopPickingHere: a node never visited, or one that is halting, which
\* is a terminal or, below the root, a repetition or a transposition whose
\* values differ from its low node's.  nodes_mutex_ keeps the values as they are
\* during a pick.
ShouldStopPickingHere(x) == x \notin visited \/ x \in halting

\* Mutant: one visit in flight does not keep another from being started.
CanStartSecond(x) == x \in visited \/ n_in_flight[x] <= 1

\* Node::TryStartScoreUpdate
CanStartScoreUpdate(x) == x \in visited \/ n_in_flight[x] = 0

\* Nobody holds nodes_mutex_; only a pick holds it across steps.
NodesMutexFree == \A w \in Workers : phase[w] # "pick"

Goto(w, l) == phase' = [phase EXCEPT ![w] = l]

\* PickNodesToExtend starts at the root.  The limit is the least of what is
\* left of the collisions, the minibatch and the out of order evaluations.
PickNodesToExtend(w) ==
    /\ phase[w] = "gather"
    /\ NodesMutexFree
    /\ picks < MaxPicks
    /\ \E limit \in 1..collisions_left[w] :
          stacks' = [stacks EXCEPT ![w] = <<Task(<<Root>>, limit)>>]
    /\ \E H \in SUBSET visited : halting' = H \cup (Terminals \cap visited)
    /\ new_start' = [new_start EXCEPT ![w] = Len(minibatch[w])]
    /\ picks' = picks + 1
    /\ Goto(w, "pick")
    /\ UNCHANGED <<visited, n_in_flight, stray, minibatch, collisions_left,
                   shared_collisions>>

\* Task i of worker w, whose current node is frame f, goes on with frames and
\* adds items to its receiver.
Proceed(w, i, frames, items) ==
    stacks' = [stacks EXCEPT ![w][i].frames = frames,
                             ![w][i].receiver = @ \o items]

Pop(w, i) == Front(stacks[w][i].frames)
Replace(w, i, f) == Append(Pop(w, i), f)

PickUnchanged == UNCHANGED <<visited, halting, phase, minibatch, new_start,
                             collisions_left, shared_collisions, picks>>

\* The root is not to be searched below: one visit is tried, what is left of
\* the limit collides.
StopAtRoot(w, i, f) ==
    /\ f.step = "arrive"
    /\ f.path = <<Root>>
    /\ ShouldStopPickingHere(Root)
    /\ LET started == CanStartScoreUpdate(Root)
           count == IF started THEN f.left - 1 ELSE f.left
           grows == count = stacks[w][i].collision_limit
           visit == IF started THEN <<Visit(f.path)>> ELSE <<>>
           rest == IF count > 0 THEN <<Collision(f.path, count, grows)>> ELSE <<>>
       IN /\ n_in_flight' = [n_in_flight EXCEPT ![Root] = IF started THEN @ + 1 ELSE @]
          /\ Proceed(w, i, Pop(w, i), visit \o rest)
    /\ UNCHANGED stray
    /\ PickUnchanged

\* A node below the root is not to be searched below: its visits collide.
\* Only the pick that started at the root lets a collision grow, and only if
\* all of its limit went there.
StopBelowRoot(w, i, f) ==
    /\ f.step = "arrive"
    /\ f.path # <<Root>>
    /\ ShouldStopPickingHere(Last(f.path))
    /\ Proceed(w, i, Pop(w, i),
               <<Collision(f.path, f.left,
                           i = 1 /\ f.left = stacks[w][i].collision_limit)>>)
    /\ UNCHANGED <<n_in_flight, stray>>
    /\ PickUnchanged

\* Otherwise its visits are shared out; the root's are in flight from here on,
\* another node's since its parent shared them out.
StartSharing(w, i, f) ==
    /\ f.step = "arrive"
    /\ ~ShouldStopPickingHere(Last(f.path))
    /\ n_in_flight' = IF f.path = <<Root>>
                      THEN [n_in_flight EXCEPT ![Root] = @ + f.left] ELSE n_in_flight
    /\ Proceed(w, i, Replace(w, i, [f EXCEPT !.step = "share"]), <<>>)
    /\ UNCHANGED stray
    /\ PickUnchanged

\* The best child c gets new_visits.
AssignVisits(w, i, f, c, new_visits, assigned, items) ==
    Proceed(w, i,
            Replace(w, i, [f EXCEPT !.left = @ - new_visits,
                                    !.visits_to_perform[c] = @ + assigned]),
            items)

\* Mutant: the visit that was started is also left to be performed.
ShareAllWithVisit(w, i, f) ==
    /\ f.step = "share"
    /\ \E c \in Range(Edges[Last(f.path)]), new_visits \in 1..f.left :
          /\ CanStartScoreUpdate(c)
          /\ ShouldStopPickingHere(c)
          /\ n_in_flight' = [n_in_flight EXCEPT ![c] = @ + 1]
          /\ AssignVisits(w, i, f, c, new_visits, new_visits,
                          <<Visit(Append(f.path, c))>>)
    /\ UNCHANGED stray
    /\ PickUnchanged

\* The child's first visit is started and it is not to be searched below: one
\* visit to process, the others will collide.
ShareWithVisit(w, i, f) ==
    /\ f.step = "share"
    /\ \E c \in Range(Edges[Last(f.path)]), new_visits \in 1..f.left :
          /\ CanStartScoreUpdate(c)
          /\ ShouldStopPickingHere(c)
          /\ n_in_flight' = [n_in_flight EXCEPT ![c] = @ + 1]
          /\ AssignVisits(w, i, f, c, new_visits, new_visits - 1,
                          <<Visit(Append(f.path, c))>>)
    /\ UNCHANGED stray
    /\ PickUnchanged

\* The child is searched below: all of its visits are in flight.
ShareBelow(w, i, f) ==
    /\ f.step = "share"
    /\ \E c \in Range(Edges[Last(f.path)]), new_visits \in 1..f.left :
          /\ CanStartScoreUpdate(c)
          /\ ~ShouldStopPickingHere(c)
          /\ n_in_flight' = [n_in_flight EXCEPT ![c] = @ + new_visits]
          /\ AssignVisits(w, i, f, c, new_visits, new_visits, <<>>)
    /\ UNCHANGED stray
    /\ PickUnchanged

\* Another visit is extending the child.  Its visits will collide there, yet
\* the else branch adds them to the child itself, which no collision takes back.
ShareWithBusy(w, i, f) ==
    /\ f.step = "share"
    /\ \E c \in Range(Edges[Last(f.path)]), new_visits \in 1..f.left :
          /\ ~CanStartScoreUpdate(c)
          /\ n_in_flight' = [n_in_flight EXCEPT ![c] = @ + new_visits]
          /\ stray' = [stray EXCEPT ![c] = @ + new_visits]
          /\ AssignVisits(w, i, f, c, new_visits, new_visits, <<>>)
    /\ PickUnchanged

\* best_idx is -1: a repetition draw reached along a path without repetitions
\* has no edges, and at the root the beam and the pruning of moves that cannot
\* become best may leave none.  The visits are dropped, but all of the path
\* has them in flight.
DropVisits(w, i, f) ==
    /\ f.step = "share"
    /\ f.left > 0
    /\ \/ Edges[Last(f.path)] = <<>>
       \/ BeamActive /\ f.path = <<Root>> /\ f.left = stacks[w][i].collision_limit
    /\ stray' = Raise(stray, f.path, f.left)
    /\ Proceed(w, i, Replace(w, i, [f EXCEPT !.left = 0]), <<>>)
    /\ UNCHANGED n_in_flight
    /\ PickUnchanged

\* All visits are shared out: children that are searched below may become
\* tasks of their own.
SplitTasks(w, i, f) ==
    /\ f.step = "share"
    /\ f.left = 0
    /\ LET children == Edges[Last(f.path)]
           MayPass(c) == f.visits_to_perform[c] > 0 /\ ~ShouldStopPickingHere(c)
       IN \E D \in SUBSET {k \in DOMAIN children : MayPass(children[k])} :
            LET passed == Subsequence(children, D)
                tasks == [k \in DOMAIN passed |->
                            Task(Append(f.path, passed[k]), f.visits_to_perform[passed[k]])]
                rest == [c \in Nodes |-> IF \E k \in D : children[k] = c THEN 0
                                         ELSE f.visits_to_perform[c]]
                own == [stacks[w] EXCEPT
                          ![i].frames = Replace(w, i, [f EXCEPT
                              !.step = "descend", !.visits_to_perform = rest])]
            IN /\ Len(stacks[w]) - 1 + Len(passed) <= MAX_TASKS
               /\ stacks' = [stacks EXCEPT ![w] = own \o tasks]
    /\ UNCHANGED <<n_in_flight, stray>>
    /\ PickUnchanged

\* Down into the next child that has visits to perform.
Descend(w, i, f) ==
    /\ f.step = "descend"
    /\ \E k \in DOMAIN Edges[Last(f.path)] :
          LET c == Edges[Last(f.path)][k]
          IN /\ f.visits_to_perform[c] > 0
             /\ \A j \in 1..(k - 1) : f.visits_to_perform[Edges[Last(f.path)][j]] = 0
             /\ Proceed(w, i, Append(Replace(w, i, [f EXCEPT !.visits_to_perform[c] = 0]),
                                     Frame(Append(f.path, c), f.visits_to_perform[c])),
                        <<>>)
    /\ UNCHANGED <<n_in_flight, stray>>
    /\ PickUnchanged

\* No child is left: back to the parent.
Backtrack(w, i, f) ==
    /\ f.step = "descend"
    /\ \A c \in Nodes : f.visits_to_perform[c] = 0
    /\ Proceed(w, i, Pop(w, i), <<>>)
    /\ UNCHANGED <<n_in_flight, stray>>
    /\ PickUnchanged

\* WaitForTasks, after which the tasks' results join the minibatch.
EndPick(w) ==
    /\ phase[w] = "pick"
    /\ \A i \in DOMAIN stacks[w] : stacks[w][i].frames = <<>>
    /\ minibatch' = [minibatch EXCEPT
          ![w] = @ \o FlattenSeq([i \in DOMAIN stacks[w] |-> stacks[w][i].receiver])]
    /\ stacks' = [stacks EXCEPT ![w] = <<>>]
    /\ halting' = {}
    /\ Goto(w, "process")
    /\ UNCHANGED <<visited, n_in_flight, stray, new_start, collisions_left,
                   shared_collisions, picks>>

\* A step of the calls of PickNodesToExtendTask that worker w's pick consists of.
PickStep(w) ==
    /\ phase[w] = "pick"
    /\ \E i \in DOMAIN stacks[w] :
          /\ stacks[w][i].frames # <<>>
          /\ LET f == Last(stacks[w][i].frames)
             IN \/ StopAtRoot(w, i, f) \/ StopBelowRoot(w, i, f) \/ StartSharing(w, i, f)
                \/ ShareWithVisit(w, i, f) \/ ShareBelow(w, i, f) \/ ShareWithBusy(w, i, f)
                \/ DropVisits(w, i, f) \/ SplitTasks(w, i, f)
                \/ Descend(w, i, f) \/ Backtrack(w, i, f)

-----------------------------------------------------------------------------
(* What GatherMinibatch does after a pick, and what follows it.              *)

\* What the last pick added to the minibatch.
Fresh(w) == (new_start[w] + 1)..Len(minibatch[w])

\* ProcessPickedTask finds the visits whose result is at hand.  If there are
\* any they are backed up, and the collisions of this pick are cancelled.
OutOfOrder(w) ==
    /\ phase[w] = "process"
    /\ NodesMutexFree
    /\ LET items == minibatch[w]
           visits == VisitsAt(items) \cap Fresh(w)
           collisions == CollisionsAt(items) \cap Fresh(w)
       IN \E ready \in SUBSET {Leaf(items[k]) : k \in visits} :
            LET completed == {k \in visits : Leaf(items[k]) \in ready}
                kept == DOMAIN items \ (completed \cup collisions)
            IN IF ready = {}
               THEN UNCHANGED <<visited, n_in_flight, minibatch>>
               ELSE /\ n_in_flight' = Settled(Subsequence(items, completed),
                                              Subsequence(items, collisions))
                    /\ visited' = visited \cup ready
                    /\ minibatch' = [minibatch EXCEPT ![w] = Subsequence(items, kept)]
    /\ Goto(w, "grow")
    /\ UNCHANGED <<stray, halting, stacks, new_start, collisions_left,
                   shared_collisions, picks>>

\* Mutant: the collision grows whatever is left of the collisions.
GrowUncapped(w, j, extra) ==
    LET item == minibatch[w][j]
    IN /\ item.is_collision /\ item.maxvisit
       /\ n_in_flight' = Raise(n_in_flight, Front(item.path), extra)
       /\ minibatch' = [minibatch EXCEPT ![w][j].multivisit = @ + extra]

\* A collision that takes all of the pick may be counted for as many visits as
\* would end there again, within what is left.
GrowCollision(w, j, extra) ==
    LET item == minibatch[w][j]
    IN /\ item.is_collision /\ item.maxvisit
       /\ collisions_left[w] > item.multivisit
       /\ extra \in 1..(collisions_left[w] - item.multivisit)
       /\ n_in_flight' = Raise(n_in_flight, Front(item.path), extra)
       /\ minibatch' = [minibatch EXCEPT ![w][j].multivisit = @ + extra]

\* How many visits each of items stands for as a collision.
CollisionVisits(items) ==
    [i \in DOMAIN items |-> IF IsCollision(items[i]) THEN items[i].multivisit ELSE 0]

\* The collisions of this pick are taken off what is left.  When nothing is
\* left the gathering ends, otherwise it may go on, end because the minibatch
\* is full or has waited long enough, or end because of a stop.
CountCollisions(w) ==
    /\ phase[w] = "grow"
    /\ NodesMutexFree
    /\ \/ UNCHANGED <<n_in_flight, minibatch>>
       \/ \E j \in Fresh(w), extra \in 1..CollisionsLeft : GrowCollision(w, j, extra)
    /\ LET left == collisions_left[w]
                     - SumFunctionOnSet(CollisionVisits(minibatch'[w]), Fresh(w))
       IN /\ collisions_left' = [collisions_left EXCEPT ![w] = left]
          /\ \/ left > 0 /\ Goto(w, "gather")
             \/ Goto(w, "collect")
    /\ UNCHANGED <<visited, stray, halting, stacks, new_start, shared_collisions, picks>>

\* The collisions of the minibatch are left to whoever backs up next.
CollectCollisions(w) ==
    /\ phase[w] = "collect"
    /\ NodesMutexFree
    /\ shared_collisions' = shared_collisions \o Collisions(minibatch[w])
    /\ new_start' = [new_start EXCEPT ![w] = 0]
    /\ collisions_left' = [collisions_left EXCEPT ![w] = 0]
    /\ Goto(w, "compute")
    /\ UNCHANGED <<visited, n_in_flight, stray, halting, stacks, minibatch, picks>>

\* Mutant: the worker cancels its own collisions, but clears the shared list.
BackupOwnCollisions(w) ==
    /\ phase[w] = "compute"
    /\ NodesMutexFree
    /\ n_in_flight' = Settled(Visits(minibatch[w]), Collisions(minibatch[w]))
    /\ visited' = visited \cup LeavesOf(Visits(minibatch[w]))
    /\ shared_collisions' = <<>>
    /\ minibatch' = [minibatch EXCEPT ![w] = <<>>]
    /\ Goto(w, "iterate")
    /\ UNCHANGED <<stray, halting, stacks, new_start, collisions_left, picks>>

\* The network has answered: the minibatch is backed up, and every worker's
\* shared collisions are cancelled.
DoBackupUpdate(w) ==
    /\ phase[w] = "compute"
    /\ NodesMutexFree
    /\ n_in_flight' = Settled(Visits(minibatch[w]), shared_collisions)
    /\ visited' = visited \cup LeavesOf(Visits(minibatch[w]))
    /\ shared_collisions' = <<>>
    /\ minibatch' = [minibatch EXCEPT ![w] = <<>>]
    /\ Goto(w, "iterate")
    /\ UNCHANGED <<stray, halting, stacks, new_start, collisions_left, picks>>

\* ExecuteOneIteration starts with an empty minibatch.
StartIteration(w) ==
    /\ phase[w] = "iterate"
    /\ collisions_left' = [collisions_left EXCEPT ![w] = CollisionsLeft]
    /\ Goto(w, "gather")
    /\ UNCHANGED <<visited, n_in_flight, stray, halting, stacks, minibatch, new_start,
                   shared_collisions, picks>>

\* Or the search has stopped and RunBlocking returns.
StopWorker(w) ==
    /\ phase[w] = "iterate"
    /\ Goto(w, "done")
    /\ UNCHANGED <<visited, n_in_flight, stray, halting, stacks, minibatch, new_start,
                   collisions_left, shared_collisions, picks>>

\* The destructor has joined the workers and cancels what is left.
DestroySearch ==
    /\ \A w \in Workers : phase[w] = "done"
    /\ n_in_flight' = Settled(<<>>, shared_collisions)
    /\ shared_collisions' = <<>>
    /\ phase' = [w \in Workers |-> "destroyed"]
    /\ UNCHANGED <<visited, stray, halting, stacks, minibatch, new_start,
                   collisions_left, picks>>

\* A search starts on a fresh tree or on one that earlier searches left.
ReusedTree(S) == \A y \in S \ {Root} : \E x \in S : y \in Range(Edges[x])

Init ==
    /\ visited \in {S \in SUBSET Nodes : ReusedTree(S)}
    /\ n_in_flight = [x \in Nodes |-> 0]
    /\ stray = [x \in Nodes |-> 0]
    /\ halting = {}
    /\ phase = [w \in Workers |-> "iterate"]
    /\ stacks = [w \in Workers |-> <<>>]
    /\ minibatch = [w \in Workers |-> <<>>]
    /\ new_start = [w \in Workers |-> 0]
    /\ collisions_left = [w \in Workers |-> 0]
    /\ shared_collisions = <<>>
    /\ picks = 0

Next ==
    \/ \E w \in Workers :
          \/ StartIteration(w) \/ StopWorker(w)
          \/ PickNodesToExtend(w) \/ PickStep(w) \/ EndPick(w)
          \/ OutOfOrder(w) \/ CountCollisions(w)
          \/ CollectCollisions(w) \/ DoBackupUpdate(w)
    \/ DestroySearch

Spec == Init /\ [][Next]_vars

-----------------------------------------------------------------------------
(* Properties.                                                               *)

Steps == {"arrive", "share", "descend"}
Phases == {"iterate", "gather", "pick", "process", "grow", "collect", "compute",
           "done", "destroyed"}
Paths == {p \in Seq(Nodes) : p # <<>> /\ p[1] = Root}

Items == [path : Paths, multivisit : Nat \ {0}, is_collision : BOOLEAN, maxvisit : BOOLEAN]
Frames == [path : Paths, step : Steps, left : Nat, visits_to_perform : [Nodes -> Nat]]
Tasks == [collision_limit : Nat \ {0}, frames : Seq(Frames), receiver : Seq(Items)]

\* Every count is a natural number: the asserts of CancelScoreUpdate and
\* FinalizeScoreUpdate hold, and collisions_left, which is unsigned, never
\* wraps below zero.
TypeOK ==
    /\ visited \subseteq Nodes /\ halting \subseteq visited
    /\ n_in_flight \in [Nodes -> Nat] /\ stray \in [Nodes -> Nat]
    /\ phase \in [Workers -> Phases]
    /\ stacks \in [Workers -> Seq(Tasks)]
    /\ minibatch \in [Workers -> Seq(Items)]
    /\ new_start \in [Workers -> Nat]
    /\ collisions_left \in [Workers -> 0..CollisionsLeft]
    /\ shared_collisions \in Seq(Items)
    /\ picks \in 0..MaxPicks

SumOver(items, Op(_)) == SumFunction([i \in DOMAIN items |-> Op(items[i])])

\* How often a node to process is in flight on x: a visit on all of its path, a
\* collision everywhere but where it collided.
Holds(x, item) ==
    item.multivisit *
        IF IsVisit(item) THEN Occurrences(x, item.path) ELSE Occurrences(x, Front(item.path))

\* How often visits on their way to the end of path are in flight on x: the end
\* has them too if they go on below it.
HeldOnTheWay(x, path, count) ==
    count * Occurrences(x, IF ShouldStopPickingHere(Last(path)) THEN Front(path) ELSE path)

\* How often the visits a frame has still to place are in flight on x.
HeldByFrame(x, f) ==
    IF f.step = "arrive"
    THEN IF f.path = <<Root>> THEN 0 ELSE HeldOnTheWay(x, f.path, f.left)
    ELSE f.left * Occurrences(x, f.path)
           + SumFunction([c \in Nodes |->
                HeldOnTheWay(x, Append(f.path, c), f.visits_to_perform[c])])

\* How often x is in flight for what the workers are doing; while a worker
\* computes, its collisions are among the shared ones.
Held(x) ==
    SumOver(shared_collisions, LAMBDA item : Holds(x, item))
      + SumFunction([w \in Workers |->
            SumOver(minibatch[w], LAMBDA item :
                IF phase[w] = "compute" /\ IsCollision(item) THEN 0 ELSE Holds(x, item))
            + SumOver(stacks[w], LAMBDA t :
                SumOver(t.receiver, LAMBDA item : Holds(x, item))
                  + SumOver(t.frames, LAMBDA f : HeldByFrame(x, f)))])

\* Virtual loss is kept account of: what is in flight on a node is what the
\* visits and collisions of all workers hold on it, and what went astray.
\* PickNodesToExtendTask adds it one level at a time, task threads and other
\* workers in between, while backups, cancellations and grown collisions take
\* it back along whole paths.
VirtualLossAccounted == \A x \in Nodes : n_in_flight[x] = Held(x) + stray[x]

Extends(x, item) == IF IsVisit(item) /\ Leaf(item) = x THEN 1 ELSE 0

\* How many visits of all workers, picked or being picked, extend x.
Extending(x) ==
    SumFunction([w \in Workers |->
        SumOver(minibatch[w], LAMBDA item : Extends(x, item))
          + SumOver(stacks[w], LAMBDA t : SumOver(t.receiver, LAMBDA item : Extends(x, item)))])

\* A node that was never visited is extended by one visit at a time (the
\* comment on TryStartScoreUpdate), whichever worker or task thread, and
\* whichever of its parents in the DAG, gets there.
ExtendedOnce == \A x \in Nodes \ visited : Extending(x) <= 1

\* A pick places as many visits as it was asked to: those processed, those that
\* collide, those that it has still to place, and those dropped at a node without
\* an eligible edge add up to the limit.  The collisions of a pick therefore
\* never exceed what is left of them.
Placed(w) ==
    SumOver(stacks[w], LAMBDA t :
        SumOver(t.receiver, LAMBDA item : item.multivisit)
          + SumOver(t.frames, LAMBDA f : f.left + SumFunction(f.visits_to_perform)))
PickWithinLimit ==
    \A w \in Workers :
        phase[w] = "pick" => Placed(w) <= stacks[w][1].collision_limit

\* ~Search asserts ZeroNInFlight once the last collisions are cancelled.
ZeroNInFlight ==
    (\A w \in Workers : phase[w] = "destroyed") => \A x \in Nodes : n_in_flight[x] = 0
=============================================================================
