------------------------------ MODULE NodeTree ------------------------------
(***************************************************************************)
(* The graph of a game and who owns what in it (src/src/mcts/node.cc).  A  *)
(* Node is an edge that was visited; the node owns nothing but its         *)
(* siblings, and refers to the LowNode of the position it leads to by a    *)
(* raw pointer that num_parents_ counts.  A low node owns its child nodes, *)
(* and is owned by the transposition table tt_ or by non_tt_.  Nothing     *)
(* checks a pointer: that whatever is freed is no longer referred to       *)
(* depends on the order in which MakeMove, ResetToPosition, the garbage    *)
(* collector and the search that runs in between work.                     *)
(*                                                                         *)
(* Addresses are reused, lowest first.  A destroyed object is Dead; one    *)
(* that refers to a Dead object dangles.                                   *)
(*                                                                         *)
(* Abstracted: a position is its hash, its legal moves lead down Succ; the *)
(* order of siblings (module SiblingList) and of tt_ is dropped, and so is *)
(* the order of gc_queue_, of which TTMaintenance takes everything while   *)
(* erasing puts nothing in; a search is a sequence of visits, each of      *)
(* which extends one node and is backed up at once.                        *)
(***************************************************************************)
EXTENDS Integers, Sequences, FiniteSets, SequencesExt

CONSTANTS
  Start,            \* the position a game starts from
  Succ,             \* [Positions -> [legal moves -> Positions]]
  Bucket(_, _),     \* two positions that differ in the fifty-move count alone
  Lines,            \* the move lists of `position` commands
  Modes,            \* options and user: see Mode
  MaxNodes,         \* bound: addresses of nodes
  MaxLowNodes,      \* bound: addresses of low nodes
  SearchNodes,      \* bound: a search spawns no more nodes than this
  SearchLowNodes    \* bound: nor low nodes

Positions == DOMAIN Succ
Moves == UNION {DOMAIN Succ[p] : p \in Positions}
Nodes == 1 .. MaxNodes
LowNodes == 1 .. MaxLowNodes
None == 0           \* nullptr
NoMove == "no move" \* the edge of gamebegin_node_

\* user: "engine" calls ResetToPosition, "selfplay" calls MakeMove after each
\* search and, with tree reuse off, TrimTreeAtHead and TTClear before it.
Mode == [user : {"engine", "selfplay"}, bucketing : BOOLEAN, noise : BOOLEAN]
ASSUME ModesAssumption == Modes \subseteq Mode

\* The position that a line leads to, and whether all its moves are legal.
PositionAfter(line) ==
  LET after[i \in 0 .. Len(line)] ==
        IF i = 0 THEN Start ELSE Succ[after[i - 1]][line[i]]
  IN  after[Len(line)]
Legal(line) ==
  \A i \in 1 .. Len(line) :
    line[i] \in DOMAIN Succ[PositionAfter(SubSeq(line, 1, i - 1))]

\* No moves lead back to a position: its repetitions are part of the hash, and
\* the third occurrence ends a game.
Acyclic ==
  \E rank \in [Positions -> 1 .. Cardinality(Positions)] :
    \A p \in Positions : \A m \in DOMAIN Succ[p] : rank[p] < rank[Succ[p][m]]

ASSUME GraphAssumption ==
  /\ IsFiniteSet(Positions) /\ Start \in Positions /\ NoMove \notin Moves
  /\ \A p \in Positions : \A m \in DOMAIN Succ[p] : Succ[p][m] \in Positions
  /\ Acyclic
  /\ \A line \in Lines : line \in Seq(Moves) /\ Legal(line)
ASSUME BoundsAssumption ==
  /\ {MaxNodes, MaxLowNodes, SearchNodes, SearchLowNodes} \subseteq Nat
  /\ 1 <= MaxNodes /\ SearchNodes <= MaxNodes /\ SearchLowNodes <= MaxLowNodes

VARIABLES
  heap,          \* the objects and what owns them, see Heap
  current_head_,
  moves_,        \* the moves from gamebegin_node_ to current_head_
  mode,
  searching,     \* a Search exists
  reset          \* a ResetToPosition under way: moves to make, the old head, seen

vars == <<heap, current_head_, moves_, mode, searching, reset>>

DeadNode == [dead |-> TRUE]
DeadLow == [dead |-> TRUE]
NodeRec == [dead : {FALSE}, move : Moves \cup {NoMove}, low : {None} \cup LowNodes,
            visited : BOOLEAN]
LowRec == [dead : {FALSE}, hash : Positions, edges : SUBSET Moves,
           children : SUBSET Nodes, parents : Nat, is_tt : BOOLEAN,
           visited : BOOLEAN]
Heap ==
  [node : [Nodes -> NodeRec \cup {DeadNode}],
   low : [LowNodes -> LowRec \cup {DeadLow}],
   gamebegin : Nodes \cup {None},
   tt : [Positions -> LowNodes \cup {None}],
   nonTT : Seq(LowNodes),
   gcQueue : SUBSET Positions]

NoReset == [active |-> FALSE]

LiveNodes(h) == {n \in Nodes : ~h.node[n].dead}
LiveLow(h) == {l \in LowNodes : ~h.low[l].dead}
Lowest(S) == CHOOSE x \in S : \A y \in S : x <= y
FreeNode(h) == Lowest(Nodes \ LiveNodes(h))
FreeLow(h) == Lowest(LowNodes \ LiveLow(h))
-----------------------------------------------------------------------------
(* Nodes and low nodes.  An operator takes a heap and returns the next. *)

NewNode(h, n, m) ==
  [h EXCEPT !.node[n] = [dead |-> FALSE, move |-> m, low |-> None, visited |-> FALSE]]

\* UnsetLowNode: num_parents_ of a freed low node is nobody's any more.
LoseParents(h, S) ==
  [h EXCEPT !.low = [l \in LowNodes |->
     LET low == h.low[l] IN
     IF low.dead THEN DeadLow
     ELSE [low EXCEPT !.parents = @ - Cardinality({n \in S : h.node[n].low = l})]]]

UnsetLowNode(h, n) == [LoseParents(h, {n}) EXCEPT !.node[n].low = None]

SetLowNode(h, n, l) ==
  [h EXCEPT !.node[n].low = l, !.low[l].parents = @ + 1]

\* ~Node of every node of S.
DestroyNodes(h, S) ==
  [LoseParents(h, S) EXCEPT
     !.node = [n \in Nodes |-> IF n \in S THEN DeadNode ELSE h.node[n]]]

\* TTGCEnqueue for the nodes of S, none of which has been destroyed yet.
Enqueue(h, S) ==
  LET last == {l \in {h.node[n].low : n \in S} \ {None} :
                 h.low[l].is_tt /\ h.low[l].parents = 1}
  IN  [h EXCEPT !.gcQueue = @ \cup {h.low[l].hash : l \in last}]

\* The low nodes of L keep those of their children that are in S.
KeepChildren(h, L, S) ==
  LET g == DestroyNodes(h, (UNION {h.low[l].children : l \in L}) \ S)
  IN  [g EXCEPT !.low = [l \in LowNodes |->
         LET low == g.low[l] IN
         IF l \in L THEN [low EXCEPT !.children = @ \cap S] ELSE low]]

ReleaseChildren(h, l) == KeepChildren(Enqueue(h, h.low[l].children), {l}, {})

\* Mutant of ReleaseChildrenExceptOne: the siblings behind the saved node live.
ReleaseOnlyBefore(h, l, n) ==
  LET behind == {c \in h.low[l].children : h.node[c].move # h.node[n].move /\ c > n}
  IN  KeepChildren(Enqueue(h, h.low[l].children \ {n}), {l}, {n} \cup behind)

ReleaseChildrenExceptOne(h, l, n) ==
  KeepChildren(Enqueue(h, h.low[l].children \ {n}), {l}, {n})

\* ~LowNode destroys the child nodes, and queues nothing.
DestroyLows(h, L) ==
  LET g == KeepChildren(h, L, {})
  IN  [g EXCEPT !.low = [l \in LowNodes |-> IF l \in L THEN DeadLow ELSE g.low[l]]]

NewLow(h, l, p, moves, isTT) ==
  [h EXCEPT !.low[l] =
     [dead |-> FALSE, hash |-> p, edges |-> moves, children |-> {},
      parents |-> 0, is_tt |-> isTT, visited |-> FALSE]]

\* A low node that non_tt_ owns, with the edges of these moves.
NonTTAdd(h, l, p, moves) ==
  [NewLow(h, l, p, moves, FALSE) EXCEPT !.nonTT = Append(@, l)]

ChildFor(h, l, m) == {n \in h.low[l].children : h.node[n].move = m}

\* GetOrSpawnNode of the edge m.
Spawn(h, l, m) ==
  IF ChildFor(h, l, m) # {} THEN h
  ELSE LET n == FreeNode(h)
       IN  [NewNode(h, n, m) EXCEPT !.low[l].children = @ \cup {n}]

\* Trim: as good as new, but for its edge.
Trim(h, n) == [UnsetLowNode(Enqueue(h, {n}), n) EXCEPT !.node[n].visited = FALSE]
-----------------------------------------------------------------------------
(* Collection. *)

Parentless(h, l) == h.low[l].parents = 0

\* The first pass of NonTTMaintenance: children of parentless nodes are released,
ReleaseParentless(h) ==
  LET n == Len(h.nonTT)
      turn[i \in 0 .. n] ==
        IF i = 0 THEN h
        ELSE LET g == turn[i - 1]
                 l == h.nonTT[i]
             IN  IF Parentless(g, l) THEN ReleaseChildren(g, l) ELSE g
  IN  turn[n]

\* and the second: those who are parentless at their turn are erased.
EraseParentless(h) ==
  LET n == Len(h.nonTT)
      turn[i \in 0 .. n] ==
        IF i = 0 THEN [h EXCEPT !.nonTT = <<>>]
        ELSE LET g == turn[i - 1]
                 l == h.nonTT[i]
             IN  IF Parentless(g, l) THEN DestroyLows(g, {l})
                 ELSE [g EXCEPT !.nonTT = Append(@, l)]
  IN  turn[n]

NonTTMaintenance(h) == EraseParentless(ReleaseParentless(h))

EraseFromTable(h, p) == [DestroyLows(h, {h.tt[p]}) EXCEPT !.tt[p] = None]

\* Mutant of CollectAt: evicts what was found again after it was queued.
CollectFound(h, p) == IF h.tt[p] # None THEN EraseFromTable(h, p) ELSE h

CollectAt(h, p) ==
  IF h.tt[p] # None /\ Parentless(h, h.tt[p]) THEN EraseFromTable(h, p) ELSE h

\* TTGCSome(0).  Called twice by ~Search; the second call finds nothing.
TTMaintenance(h) ==
  LET queue == SetToSeq(h.gcQueue)
      turn[i \in 0 .. Len(queue)] ==
        IF i = 0 THEN [h EXCEPT !.gcQueue = {}] ELSE CollectAt(turn[i - 1], queue[i])
  IN  turn[Len(queue)]

InTable(h) == {h.tt[p] : p \in Positions} \ {None}
InNonTT(h) == {h.nonTT[i] : i \in DOMAIN h.nonTT}

TTClear(h) ==
  LET swept == NonTTMaintenance(KeepChildren(h, InTable(h), {}))
  IN  [DestroyLows(swept, InTable(swept)) EXCEPT
         !.tt = [p \in Positions |-> None], !.gcQueue = {}]

\* ~NodeTree, and a game that starts from another position.
DeallocateTree(h) ==
  LET begun == IF h.gamebegin = None THEN h
               ELSE [DestroyNodes(h, {h.gamebegin}) EXCEPT !.gamebegin = None]
      cleared == TTClear(NonTTMaintenance(begun))
  IN  [DestroyLows(cleared, InNonTT(cleared)) EXCEPT !.nonTT = <<>>]

EnsureGameBegin(h) ==
  IF h.gamebegin # None THEN h
  ELSE LET n == FreeNode(h) IN [NewNode(h, n, NoMove) EXCEPT !.gamebegin = n]
-----------------------------------------------------------------------------
(* Moving the head. *)

HeadPosition == PositionAfter(moves_)

\* Mutant of FindLowNode: the head keeps counting as a parent of its old one.
FindKeepingOld(h, head, p, m) ==
  IF h.tt[p] # None THEN SetLowNode(h, head, h.tt[p])
  ELSE LET l == FreeLow(h) IN SetLowNode(NonTTAdd(h, l, p, {m}), head, l)

\* The head has no edge for the move: it was never searched, or what it has
\* was made for another move.  Look in the table, or make a low node with this
\* edge alone.
FindLowNode(h, head, p, m) ==
  LET g == UnsetLowNode(h, head) IN
  IF g.tt[p] # None THEN SetLowNode(g, head, g.tt[p])
  ELSE LET l == FreeLow(g) IN SetLowNode(NonTTAdd(g, l, p, {m}), head, l)

HasEdge(h, n, m) == h.node[n].low # None /\ m \in h.low[h.node[n].low].edges

\* Mutant of LeaveTable: one with other parents stays.
LeaveTableIfSole(h, l) ==
  IF ~h.low[l].is_tt \/ h.low[l].parents > 1 THEN h
  ELSE [h EXCEPT !.low[l].is_tt = FALSE, !.tt[h.low[l].hash] = None,
                 !.nonTT = Append(@, l)]

\* A damaged low node leaves the table: ClearTT.
LeaveTable(h, l) ==
  IF ~h.low[l].is_tt THEN h
  ELSE [h EXCEPT !.low[l].is_tt = FALSE, !.tt[h.low[l].hash] = None,
                 !.nonTT = Append(@, l)]

\* A terminal child must be searched like any other when it becomes the head.
MakeNotTerminal(h, n) ==
  IF h.node[n].low = None THEN [h EXCEPT !.node[n].visited = FALSE] ELSE h

AfterMove(h, head, p, m) ==
  LET found == IF HasEdge(h, head, m) THEN h ELSE FindLowNode(h, head, p, m)
      l == found.node[head].low
      grown == Spawn(found, l, m)
      child == CHOOSE n \in ChildFor(grown, l, m) : TRUE
  IN  LeaveTable(ReleaseChildrenExceptOne(MakeNotTerminal(grown, child), l, child), l)

\* Bound: there are addresses left.
RoomToMove(h) == LiveNodes(h) # Nodes /\ LiveLow(h) # LowNodes

MakeMove(m) ==
  /\ RoomToMove(heap)
  /\ heap' = AfterMove(heap, current_head_, HeadPosition, m)
  /\ \E n \in heap'.low[heap'.node[current_head_].low].children : current_head_' = n
  /\ moves_' = Append(moves_, m)

TrimTreeAtHead(h, head) == NonTTMaintenance(Trim(h, head))
-----------------------------------------------------------------------------
(* ResetToPosition, one action per move. *)

\* The moves of a line, from the start of the same or of another game.
ResetToPosition(line, another) ==
  /\ mode.user = "engine" /\ ~searching /\ ~reset.active
  /\ LET h == IF another THEN DeallocateTree(heap) ELSE heap
         old == IF another THEN None ELSE current_head_
     IN  /\ heap' = EnsureGameBegin(h)
         /\ current_head_' = heap'.gamebegin
         /\ reset' = [active |-> TRUE, todo |-> line, oldHead |-> old,
                      seen |-> heap'.gamebegin = old]
  /\ moves_' = <<>>
  /\ UNCHANGED <<mode, searching>>

ResetMove ==
  /\ reset.active /\ reset.todo # <<>>
  /\ MakeMove(Head(reset.todo))
  /\ reset' = [reset EXCEPT !.todo = Tail(@),
                            !.seen = @ \/ current_head_' = reset.oldHead]
  /\ UNCHANGED <<mode, searching>>

EndReset ==
  /\ reset.active /\ reset.todo = <<>>
  /\ LET h == NonTTMaintenance(heap)
     IN  heap' = IF reset.seen THEN h ELSE TrimTreeAtHead(h, current_head_)
  /\ reset' = NoReset
  /\ UNCHANGED <<current_head_, moves_, mode, searching>>
-----------------------------------------------------------------------------
(* A search below the head. *)

StartSearch ==
  /\ ~searching /\ ~reset.active
  /\ mode.user = "selfplay" => DOMAIN Succ[HeadPosition] # {}
  /\ searching' = TRUE
  /\ heap' = IF mode.user = "selfplay"
               THEN TTClear(TrimTreeAtHead(heap, current_head_)) ELSE heap
  /\ UNCHANGED <<current_head_, moves_, mode, reset>>

\* With bucketing a position that is not in the table takes a copy of one that
\* differs in the fifty-move count, its twin.
Twins(h, p) ==
  {q \in Positions : Bucket(p, q) /\ h.tt[q] # None /\ h.low[h.tt[q]].visited}

\* A twin is entered in tt_, but as a low node that is not of the table: the
\* copying constructors clear is_tt_.
TTGetOrCreate(h, p) ==
  IF h.tt[p] # None THEN h
  ELSE LET l == FreeLow(h)
           twin == mode.bucketing /\ Twins(h, p) # {}
       IN  [NewLow(h, l, p, DOMAIN Succ[p], ~twin) EXCEPT !.tt[p] = l]

NonTTAddClone(h, l, p) == NonTTAdd(h, l, p, DOMAIN Succ[p])

\* ExtendNode and FetchSingleNodeResult: the low node for a node that leads to
\* position p.  A terminal node has none, and one that MakeMove has given a low
\* node before any visit keeps it.
ExtendNode(h, n, p) ==
  IF h.node[n].low # None
  THEN [h EXCEPT !.node[n].visited = TRUE, !.low[h.node[n].low].visited = TRUE]
  ELSE IF DOMAIN Succ[p] = {} THEN [h EXCEPT !.node[n].visited = TRUE]
  ELSE LET g == TTGetOrCreate(h, p)
           noisy == mode.noise /\ n = current_head_
           l == IF noisy THEN FreeLow(g) ELSE g.tt[p]
           k == IF noisy THEN NonTTAddClone(g, l, p) ELSE g
       IN  [SetLowNode(k, n, l) EXCEPT !.node[n].visited = TRUE,
                                       !.low[l].visited = TRUE]

RoomForNode(h) == Cardinality(LiveNodes(h)) < SearchNodes
\* A noisy root takes two.
RoomForLow(h) ==
  Cardinality(LiveLow(h)) + (IF mode.noise THEN 2 ELSE 1) <= SearchLowNodes

VisitRoot ==
  /\ searching /\ ~heap.node[current_head_].visited
  /\ RoomForLow(heap)
  /\ heap' = ExtendNode(heap, current_head_, HeadPosition)
  /\ UNCHANGED <<current_head_, moves_, mode, searching, reset>>

\* Visited nodes that a search can reach from the head.
Reachable[k \in 0 .. Cardinality(Positions)] ==
  IF k = 0 THEN {current_head_} \cap {n \in LiveNodes(heap) : heap.node[n].visited}
  ELSE LET R == Reachable[k - 1]
           below == UNION {heap.low[heap.node[n].low].children :
                             n \in {r \in R : heap.node[r].low # None}}
       IN  R \cup {n \in below : heap.node[n].visited}

\* Spawn the node of an edge, unless it is there, and extend it.
Visit ==
  /\ searching
  /\ RoomForLow(heap)
  /\ \E n \in Reachable[Cardinality(Positions)] :
       LET l == heap.node[n].low IN
       \E m \in IF l = None THEN {} ELSE heap.low[l].edges :
         /\ ChildFor(heap, l, m) # {} \/ RoomForNode(heap)
         /\ LET h == Spawn(heap, l, m) IN
           \E c \in ChildFor(h, l, m) :
             /\ ~h.node[c].visited
             /\ heap' = ExtendNode(h, c, Succ[heap.low[l].hash][m])
  /\ UNCHANGED <<current_head_, moves_, mode, searching, reset>>

\* ~Search.
EndSearch ==
  /\ searching
  /\ heap' = TTMaintenance(heap)
  /\ searching' = FALSE
  /\ UNCHANGED <<current_head_, moves_, mode, reset>>

\* Self-play makes the best move, and on a tree of its own the opponent's too.
PlayMove ==
  /\ mode.user = "selfplay" /\ ~searching
  /\ \E m \in DOMAIN Succ[HeadPosition] : MakeMove(m)
  /\ UNCHANGED <<mode, searching, reset>>

\* ~NodeTree, and the tree of the next game.
NextGame ==
  /\ mode.user = "selfplay" /\ ~searching
  /\ heap' = EnsureGameBegin(DeallocateTree(heap))
  /\ current_head_' = heap'.gamebegin
  /\ moves_' = <<>>
  /\ UNCHANGED <<mode, searching, reset>>
-----------------------------------------------------------------------------
EmptyHeap ==
  [node |-> [n \in Nodes |-> DeadNode], low |-> [l \in LowNodes |-> DeadLow],
   gamebegin |-> None, tt |-> [p \in Positions |-> None], nonTT |-> <<>>,
   gcQueue |-> {}]

\* After the first ResetToPosition, to the start of a game.
Init ==
  /\ heap = EnsureGameBegin(EmptyHeap)
  /\ current_head_ = heap.gamebegin
  /\ moves_ = <<>>
  /\ mode \in Modes
  /\ searching = FALSE
  /\ reset = NoReset

Next ==
  \/ \E line \in Lines, another \in BOOLEAN : ResetToPosition(line, another)
  \/ ResetMove \/ EndReset
  \/ StartSearch \/ VisitRoot \/ Visit \/ EndSearch
  \/ PlayMove \/ NextGame

Spec == Init /\ [][Next]_vars
-----------------------------------------------------------------------------
\* The nodes that something owns: gamebegin_node_ and the children of low nodes.
Owned == {heap.gamebegin} \cup UNION {heap.low[l].children : l \in LiveLow(heap)}
OwnedLow == InTable(heap) \cup InNonTT(heap)

\* No pointer of the graph leads to freed memory, and nothing is owned twice or
\* by nobody: gamebegin_node_, current_head_ and every child are nodes that
\* live, the low node of a live node lives, tt_ and non_tt_ own each live low
\* node once.  MakeMove, the collector and TTClear free low nodes on the word
\* of num_parents_ alone (node.cc:806, 912, 937).
NoDangling ==
  /\ heap.gamebegin \in LiveNodes(heap) /\ current_head_ \in LiveNodes(heap)
  /\ Owned = LiveNodes(heap) /\ OwnedLow = LiveLow(heap)
  /\ \A n \in LiveNodes(heap) : heap.node[n].low \in LiveLow(heap) \cup {None}
  /\ \A k, l \in LiveLow(heap) : k # l => heap.low[k].children \cap heap.low[l].children = {}
  /\ Cardinality(LiveLow(heap)) = Cardinality(InTable(heap)) + Len(heap.nonTT)

\* num_parents_ of a low node counts the live nodes that refer to it; a node
\* given a second low node would break the count for ever (the assertion in
\* SetLowNode, node.cc:523).
ParentsCounted ==
  \A l \in LiveLow(heap) :
    heap.low[l].parents = Cardinality({n \in LiveNodes(heap) : heap.node[n].low = l})

\* The node that a move list leads to, along the tree.
NodeAfter[i \in 0 .. Len(moves_)] ==
  IF i = 0 THEN heap.gamebegin
  ELSE LET l == heap.node[NodeAfter[i - 1]].low
       IN  CHOOSE n \in heap.low[l].children : TRUE

\* The moves of the game lead from gamebegin_node_ to current_head_, through
\* low nodes of the positions of the game that have this one child: "MakeMove
\* guarantees that no siblings exist" (node.cc:845), and a search takes the
\* history of its root from moves_.
HeadIsOnLine ==
  /\ NodeAfter[Len(moves_)] = current_head_
  /\ \A i \in 1 .. Len(moves_) :
       LET l == heap.node[NodeAfter[i - 1]].low IN
       /\ heap.low[l].hash = PositionAfter(SubSeq(moves_, 1, i - 1))
       /\ {heap.node[n].move : n \in heap.low[l].children} = {moves_[i]}
       /\ Cardinality(heap.low[l].children) = 1

\* A low node that lost children to MakeMove has left the table, "to avoid
\* reuse" (node.cc:793): its count of visits no longer agrees with its children,
\* and those it keeps have low nodes without having been visited.
DamagedLeftTable ==
  \A i \in 1 .. Len(moves_) : heap.node[NodeAfter[i - 1]].low \notin InTable(heap)
=============================================================================
