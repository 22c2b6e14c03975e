--------------------------- MODULE NodeTree_proofs ---------------------------
(***************************************************************************)
(* Whatever a game does to the tree, nothing in it dangles, low nodes      *)
(* count their parents, the moves lead to the head and the low nodes that  *)
(* MakeMove damaged are not found again; for any positions, moves,         *)
(* addresses and lines of moves, as long as nobody plays with buckets      *)
(* (NoBucketing): with them the table may own two low nodes of one         *)
(* position, and NodeTreeTwins shows what comes of it.                     *)
(*                                                                         *)
(* The argument: a heap is Sane.  Every node is owned once, by the low     *)
(* node whose child it is or as gamebegin_node_, and a low node counts     *)
(* exactly the nodes that refer to it (Tree); the table and non_tt_ own    *)
(* each low node once (Table, NonTT); the low node of a child is of the    *)
(* position that its move leads to.  The moves of the game lead from       *)
(* gamebegin_node_ to the head through low nodes that have one child and   *)
(* are outside the table (Line), and, because the positions of a game do   *)
(* not come back, a search below the head never reaches that line.  In     *)
(* self-play nothing but the line and the head refers to low nodes outside *)
(* the table (OwnLine), so emptying the table frees nothing of the line.   *)
(*                                                                         *)
(* What collection removes is shown turn by turn: the passes over non_tt_  *)
(* and over gc_queue_ are folds, and each turn keeps what the passes need  *)
(* (ReleasedUpTo, ErasedUpTo, CollectTurn), by induction on sets of turns. *)
(***************************************************************************)
EXTENDS NodeTree, FiniteSetTheorems, FunctionTheorems, SequenceTheorems,
        WellFoundedInduction, TLAPS
-----------------------------------------------------------------------------
(* Induction on sets of natural numbers, and their least elements. *)

\* A set of natural numbers that is not empty has a least element.
LEMMA NatMin ==
  ASSUME NEW S, S \subseteq Nat, S # {}
  PROVE  \E n \in S : \A m \in S : n <= m
<1> DEFINE R == OpToRel(<, Nat)
<1>1. IsWellFoundedOn(R, Nat) BY NatLessThanWellFounded, Zenon
<1>2. \A m, n \in Nat : m < n => <<m, n>> \in R BY DEF OpToRel
<1> HIDE DEF R
<1>3. PICK n \in S : \A m \in S : ~ (<<m, n>> \in R) BY <1>1, WFMin, Zenon
<1>4. \A m \in S : ~ (m < n) BY <1>2, <1>3
<1>5. \A m \in S : m \in Nat BY Zenon
<1> QED BY <1>4, <1>5

\* The set form of induction on the natural numbers.
LEMMA NatSet ==
  ASSUME NEW Z, 0 \in Z, \A n \in Nat : n \in Z => n + 1 \in Z
  PROVE  Nat \subseteq Z
<1> SUFFICES ASSUME Nat \ Z # {} PROVE FALSE
  OBVIOUS
<1>1. PICK n \in Nat \ Z : \A m \in Nat \ Z : n <= m BY NatMin
<1>2. n # 0 /\ n - 1 \in Nat /\ ~ (n <= n - 1) BY <1>1
<1>3. n - 1 \in Z BY <1>1, <1>2
<1> QED BY <1>1, <1>2, <1>3

\* The lowest free address is free.
LEMMA LowestIs ==
  ASSUME NEW S, S \subseteq Nat, S # {}
  PROVE  Lowest(S) \in S
<1>1. \E x \in S : \A y \in S : x <= y BY NatMin
<1> QED BY <1>1 DEF Lowest

-----------------------------------------------------------------------------
(* What a heap is. *)

\* The nodes that refer to a low node.
Refs(h, l) == {n \in LiveNodes(h) : h.node[n].low = l}

\* The low node of n, if it has one, is of position p.
LeadsTo(h, n, p) == h.node[n].low # None => h.low[h.node[n].low].hash = p

\* The children of a low node, which nobody else owns.
Family(h, l) ==
  /\ h.low[l].children \subseteq LiveNodes(h) \ {h.gamebegin}
  /\ \A c \in h.low[l].children :
       /\ h.node[c].move \in DOMAIN Succ[h.low[l].hash]
       /\ LeadsTo(h, c, Succ[h.low[l].hash][h.node[c].move])
  /\ \A c, d \in h.low[l].children : h.node[c].move = h.node[d].move => c = d

\* Nodes are owned once, and low nodes count the nodes that refer to them.
Tree(h) ==
  /\ h \in Heap
  /\ h.gamebegin \in LiveNodes(h) \cup {None}
  /\ h.gamebegin # None => LeadsTo(h, h.gamebegin, Start)
  /\ \A n \in LiveNodes(h) : h.node[n].low \in LiveLow(h) \cup {None}
  /\ \A n \in LiveNodes(h) \ {h.gamebegin} : \E l \in LiveLow(h) : n \in h.low[l].children
  /\ \A l \in LiveLow(h) : Family(h, l) /\ h.low[l].parents = Cardinality(Refs(h, l))
  /\ \A k, l \in LiveLow(h), c \in Nodes :
       c \in h.low[k].children /\ c \in h.low[l].children => k = l

\* The transposition table owns the low nodes that say so, and they are complete.
Table(h) ==
  /\ \A p \in Positions : h.tt[p] # None =>
       h.tt[p] \in LiveLow(h) /\ h.low[h.tt[p]].hash = p /\ h.low[h.tt[p]].is_tt
  /\ \A l \in LiveLow(h) :
       /\ h.low[l].edges \subseteq DOMAIN Succ[h.low[l].hash]
       /\ h.low[l].is_tt => h.tt[h.low[l].hash] = l
       /\ h.low[l].is_tt => h.low[l].edges = DOMAIN Succ[h.low[l].hash]

\* non_tt_ owns the others, each of them once.
NonTT(h) ==
  /\ \A i \in DOMAIN h.nonTT : h.nonTT[i] \in LiveLow(h) /\ ~ h.low[h.nonTT[i]].is_tt
  /\ \A i, j \in DOMAIN h.nonTT : h.nonTT[i] = h.nonTT[j] => i = j
  /\ \A l \in LiveLow(h) : ~ h.low[l].is_tt => \E i \in DOMAIN h.nonTT : h.nonTT[i] = l

Sane(h) == Tree(h) /\ Table(h) /\ NonTT(h)

\* What is left of a heap from which nodes and low nodes were only removed.
Shrunk(h, g) ==
  /\ g.gamebegin = h.gamebegin
  /\ LiveNodes(g) \subseteq LiveNodes(h) /\ LiveLow(g) \subseteq LiveLow(h)
  /\ \A n \in LiveNodes(g) : g.node[n] = h.node[n]
  /\ \A l \in LiveLow(g) :
       /\ g.low[l].hash = h.low[l].hash /\ g.low[l].edges = h.low[l].edges
       /\ g.low[l].is_tt = h.low[l].is_tt /\ g.low[l].children \subseteq h.low[l].children

\* The fields of a heap.
LEMMA HeapFields ==
  ASSUME NEW h, h \in Heap
  PROVE  /\ h.node \in [Nodes -> NodeRec \cup {DeadNode}]
         /\ h.low \in [LowNodes -> LowRec \cup {DeadLow}]
         /\ h.gamebegin \in Nodes \cup {None}
         /\ h.tt \in [Positions -> LowNodes \cup {None}]
         /\ h.nonTT \in Seq(LowNodes) /\ h.gcQueue \in SUBSET Positions
         /\ h = [node |-> h.node, low |-> h.low, gamebegin |-> h.gamebegin, tt |-> h.tt,
                 nonTT |-> h.nonTT, gcQueue |-> h.gcQueue]
BY DEF Heap

\* The fields of a node and of a low node, and of those that were destroyed.
LEMMA LiveFields ==
  ASSUME NEW h, h \in Heap
  PROVE  /\ \A n \in LiveNodes(h) : n \in Nodes /\ h.node[n] \in NodeRec
         /\ \A l \in LiveLow(h) : l \in LowNodes /\ h.low[l] \in LowRec
         /\ \A n \in Nodes \ LiveNodes(h) : h.node[n] = DeadNode
         /\ \A l \in LowNodes \ LiveLow(h) : h.low[l] = DeadLow
<1>1. \A r \in NodeRec : r.dead = FALSE BY DEF NodeRec
<1>2. \A r \in LowRec : r.dead = FALSE BY DEF LowRec
<1>3. DeadNode.dead = TRUE /\ DeadLow.dead = TRUE BY DEF DeadNode, DeadLow
<1>4. \A n \in Nodes : h.node[n] \in NodeRec \/ h.node[n] = DeadNode BY HeapFields
<1>5. \A l \in LowNodes : h.low[l] \in LowRec \/ h.low[l] = DeadLow BY HeapFields
<1>6. \A n \in Nodes : n \in LiveNodes(h) <=> ~ h.node[n].dead BY DEF LiveNodes
<1>7. \A l \in LowNodes : l \in LiveLow(h) <=> ~ h.low[l].dead BY DEF LiveLow
<1>8. LiveNodes(h) \subseteq Nodes /\ LiveLow(h) \subseteq LowNodes BY DEF LiveNodes, LiveLow
<1> QED BY <1>1, <1>2, <1>3, <1>4, <1>5, <1>6, <1>7, <1>8

\* Addresses are finitely many natural numbers, and none is nullptr.
LEMMA Addresses ==
  /\ Nodes \subseteq Nat /\ LowNodes \subseteq Nat /\ None \notin Nodes /\ None \notin LowNodes
  /\ IsFiniteSet(Nodes) /\ IsFiniteSet(LowNodes)
  /\ Cardinality(Nodes) = MaxNodes /\ Cardinality(LowNodes) = MaxLowNodes
<1>1. MaxNodes \in Nat /\ MaxLowNodes \in Nat BY BoundsAssumption
<1>2. /\ IsFiniteSet(1..MaxNodes) /\ Cardinality(1..MaxNodes) = MaxNodes
      /\ IsFiniteSet(1..MaxLowNodes) /\ Cardinality(1..MaxLowNodes) = MaxLowNodes
  BY <1>1, FS_Interval
<1> QED BY <1>1, <1>2 DEF Nodes, LowNodes, None

\* The nodes that refer to a low node are counted by a natural number.
LEMMA RefsFinite ==
  ASSUME NEW h, NEW l
  PROVE  /\ IsFiniteSet(LiveNodes(h)) /\ IsFiniteSet(Refs(h, l))
         /\ Cardinality(Refs(h, l)) \in Nat
         /\ Cardinality(Refs(h, l)) = 0 <=> Refs(h, l) = {}
<1>1. LiveNodes(h) \subseteq Nodes /\ Refs(h, l) \subseteq Nodes BY DEF LiveNodes, Refs
<1>2. IsFiniteSet(LiveNodes(h)) /\ IsFiniteSet(Refs(h, l)) BY <1>1, Addresses, FS_Subset
<1> QED BY <1>2, FS_CardinalityType, FS_EmptySet
-----------------------------------------------------------------------------
(* What the operators on a heap do. *)

\* Nodes are records of these fields, and so are low nodes.
LEMMA Fields ==
  /\ \A r \in NodeRec :
       /\ r = [dead |-> r.dead, move |-> r.move, low |-> r.low, visited |-> r.visited]
       /\ r.dead = FALSE /\ r.move \in Moves \cup {NoMove} /\ r.low \in {None} \cup LowNodes
       /\ r.visited \in BOOLEAN
  /\ \A r \in LowRec :
       /\ r = [dead |-> r.dead, hash |-> r.hash, edges |-> r.edges, children |-> r.children,
               parents |-> r.parents, is_tt |-> r.is_tt, visited |-> r.visited]
       /\ r.dead = FALSE /\ r.hash \in Positions /\ r.edges \in SUBSET Moves
       /\ r.children \in SUBSET Nodes /\ r.parents \in Nat
       /\ r.is_tt \in BOOLEAN /\ r.visited \in BOOLEAN
<1>1. ASSUME NEW r \in NodeRec
      PROVE  /\ r = [dead |-> r.dead, move |-> r.move, low |-> r.low, visited |-> r.visited]
             /\ r.dead = FALSE /\ r.move \in Moves \cup {NoMove} /\ r.low \in {None} \cup LowNodes
             /\ r.visited \in BOOLEAN
  BY DEF NodeRec
<1>2. ASSUME NEW r \in LowRec
      PROVE  /\ r = [dead |-> r.dead, hash |-> r.hash, edges |-> r.edges, children |-> r.children,
                      parents |-> r.parents, is_tt |-> r.is_tt, visited |-> r.visited]
             /\ r.dead = FALSE /\ r.hash \in Positions /\ r.edges \in SUBSET Moves
             /\ r.children \in SUBSET Nodes /\ r.parents \in Nat
             /\ r.is_tt \in BOOLEAN /\ r.visited \in BOOLEAN
  BY DEF LowRec
<1> QED BY <1>1, <1>2

\* A record of these fields, with these values, is a low node.
LEMMA LowRecIs ==
  ASSUME NEW r,
         r = [dead |-> r.dead, hash |-> r.hash, edges |-> r.edges, children |-> r.children,
              parents |-> r.parents, is_tt |-> r.is_tt, visited |-> r.visited],
         r.dead = FALSE, r.hash \in Positions, r.edges \in SUBSET Moves,
         r.children \in SUBSET Nodes, r.parents \in Nat, r.is_tt \in BOOLEAN,
         r.visited \in BOOLEAN
  PROVE  r \in LowRec
<1> DEFINE d == r.dead  p == r.hash  e == r.edges  k == r.children  c == r.parents
           t == r.is_tt  v == r.visited
<1>1. d \in {FALSE} /\ p \in Positions /\ e \in SUBSET Moves /\ k \in SUBSET Nodes
      /\ c \in Nat /\ t \in BOOLEAN /\ v \in BOOLEAN
  OBVIOUS
<1>2. r = [dead |-> d, hash |-> p, edges |-> e, children |-> k, parents |-> c, is_tt |-> t,
           visited |-> v]
  BY Zenon
<1> HIDE DEF d, p, e, k, c, t, v
<1>3. [dead |-> d, hash |-> p, edges |-> e, children |-> k, parents |-> c, is_tt |-> t,
       visited |-> v] \in LowRec
  BY <1>1 DEF LowRec
<1> QED BY <1>2, <1>3, Zenon

\* What l loses as a parent when the nodes of S go.
Losses(h, S, l) == Cardinality({n \in S : h.node[n].low = l})

\* A low node that loses that many parents.
Loser(h, S, l) ==
  IF h.low[l].dead THEN DeadLow
  ELSE [h.low[l] EXCEPT !.parents = @ - Losses(h, S, l)]

\* The children that KeepChildren destroys.
Orphans(h, L, S) == (UNION {h.low[l].children : l \in L}) \ S

\* LoseParents changes the low nodes, each by what its fate is, and nothing else.
LEMMA LoseParentsIs ==
  ASSUME NEW h, h \in Heap, NEW S
  PROVE  LoseParents(h, S) =
           [node |-> h.node, low |-> [l \in LowNodes |-> Loser(h, S, l)],
            gamebegin |-> h.gamebegin, tt |-> h.tt, nonTT |-> h.nonTT, gcQueue |-> h.gcQueue]
<1> DEFINE lows == [l \in LowNodes |-> Loser(h, S, l)]
<1>1. LoseParents(h, S) = [h EXCEPT !.low = lows] BY DEF LoseParents, Loser, Losses
<1> HIDE DEF lows
<1>2. [h EXCEPT !.low = lows] =
           [node |-> h.node, low |-> lows,
            gamebegin |-> h.gamebegin, tt |-> h.tt, nonTT |-> h.nonTT, gcQueue |-> h.gcQueue]
  BY HeapFields
<1> QED BY <1>1, <1>2 DEF lows

\* DestroyNodes frees those nodes, takes their parents counts, and changes nothing else.
LEMMA DestroyNodesIs ==
  ASSUME NEW h, h \in Heap, NEW S
  PROVE  DestroyNodes(h, S) =
           [node |-> [n \in Nodes |-> IF n \in S THEN DeadNode ELSE h.node[n]],
            low |-> LoseParents(h, S).low,
            gamebegin |-> h.gamebegin, tt |-> h.tt, nonTT |-> h.nonTT, gcQueue |-> h.gcQueue]
<1> DEFINE nodes == [n \in Nodes |-> IF n \in S THEN DeadNode ELSE h.node[n]]
<1>1. DestroyNodes(h, S) = [LoseParents(h, S) EXCEPT !.node = nodes] BY DEF DestroyNodes
<1> HIDE DEF nodes
<1>2. LoseParents(h, S) =
           [node |-> h.node, low |-> LoseParents(h, S).low,
            gamebegin |-> h.gamebegin, tt |-> h.tt, nonTT |-> h.nonTT, gcQueue |-> h.gcQueue]
  BY LoseParentsIs
<1> QED BY <1>1, <1>2 DEF nodes

\* What becomes of a node, and of a low node, when those of L keep the children in S.
KeptNode(h, L, S, n) == IF n \in Orphans(h, L, S) THEN DeadNode ELSE h.node[n]
KeptChildren(h, L, S, l) ==
  IF l \in L THEN h.low[l].children \cap S ELSE h.low[l].children
KeptLow(h, L, S, l) ==
  [dead |-> h.low[l].dead, hash |-> h.low[l].hash, edges |-> h.low[l].edges,
   children |-> KeptChildren(h, L, S, l),
   parents |-> h.low[l].parents - Losses(h, Orphans(h, L, S), l),
   is_tt |-> h.low[l].is_tt, visited |-> h.low[l].visited]

FateOfLow(h, L, S, l) == IF l \in LiveLow(h) THEN KeptLow(h, L, S, l) ELSE DeadLow

\* What KeepChildren leaves of a low node, field by field.
LEMMA KeptFields ==
  ASSUME NEW h, NEW L, NEW S, NEW l
  PROVE  /\ LET r == KeptLow(h, L, S, l) IN
            r = [dead |-> r.dead, hash |-> r.hash, edges |-> r.edges, children |-> r.children,
                 parents |-> r.parents, is_tt |-> r.is_tt, visited |-> r.visited]
         /\ KeptLow(h, L, S, l).dead = h.low[l].dead /\ KeptLow(h, L, S, l).hash = h.low[l].hash
         /\ KeptLow(h, L, S, l).edges = h.low[l].edges
         /\ KeptLow(h, L, S, l).children = KeptChildren(h, L, S, l)
         /\ KeptLow(h, L, S, l).parents = h.low[l].parents - Losses(h, Orphans(h, L, S), l)
         /\ KeptLow(h, L, S, l).is_tt = h.low[l].is_tt
         /\ KeptLow(h, L, S, l).visited = h.low[l].visited
BY DEF KeptLow

\* KeepChildren changes nodes and low nodes, each by what its fate is.
LEMMA KeepChildrenIs ==
  ASSUME NEW h, h \in Heap, NEW L, L \subseteq LiveLow(h), NEW S
  PROVE  KeepChildren(h, L, S) =
           [node |-> [n \in Nodes |-> KeptNode(h, L, S, n)],
            low |-> [l \in LowNodes |-> FateOfLow(h, L, S, l)],
            gamebegin |-> h.gamebegin, tt |-> h.tt, nonTT |-> h.nonTT, gcQueue |-> h.gcQueue]
<1> DEFINE X == Orphans(h, L, S)
           g == DestroyNodes(h, X)
           lows == [l \in LowNodes |->
                      LET low == g.low[l] IN
                      IF l \in L THEN [low EXCEPT !.children = @ \cap S] ELSE low]
           want == [l \in LowNodes |-> FateOfLow(h, L, S, l)]
<1>1. KeepChildren(h, L, S) = [g EXCEPT !.low = lows]
  BY DEF KeepChildren, Orphans
<1>2. ASSUME NEW l \in LowNodes PROVE lows[l] = want[l]
  <2>1. g.low[l] = Loser(h, X, l)
    <3>1. g.low = LoseParents(h, X).low BY DestroyNodesIs
    <3> HIDE DEF g, X
    <3> QED BY <3>1, LoseParentsIs
  <2>2. h.low[l].dead <=> l \notin LiveLow(h) BY DEF LiveLow
  <2>3. CASE l \notin LiveLow(h)
    <3>1. g.low[l] = DeadLow BY <2>1, <2>2, <2>3 DEF Loser
    <3>2. l \notin L BY <2>3
    <3> HIDE DEF g, X
    <3> QED BY <2>3, <3>1, <3>2 DEF FateOfLow
  <2>4. CASE l \in LiveLow(h)
    <3> DEFINE c == Losses(h, X, l)
               r == h.low[l]
               k == KeptChildren(h, L, S, l)
    <3>1. g.low[l] = [r EXCEPT !.parents = @ - c] BY <2>1, <2>2, <2>4 DEF Loser
    <3>2. want[l] = [dead |-> r.dead, hash |-> r.hash, edges |-> r.edges, children |-> k,
                     parents |-> r.parents - c, is_tt |-> r.is_tt, visited |-> r.visited]
      BY <2>4 DEF KeptLow, FateOfLow
    <3>3. lows[l] = IF l \in L THEN [g.low[l] EXCEPT !.children = @ \cap S] ELSE g.low[l]
      OBVIOUS
    <3>4. r \in LowRec BY <2>4, LiveFields
    <3> HIDE DEF want, lows, g, c, r, X
    <3>5. r = [dead |-> r.dead, hash |-> r.hash, edges |-> r.edges, children |-> r.children,
               parents |-> r.parents, is_tt |-> r.is_tt, visited |-> r.visited]
      BY <3>4, Fields
    <3>6. CASE l \in L
      <4>1. k = r.children \cap S BY <3>6 DEF KeptChildren, r
      <4>2. lows[l] = [g.low[l] EXCEPT !.children = @ \cap S] BY <3>3, <3>6
      <4>3. g.low[l] = [dead |-> r.dead, hash |-> r.hash, edges |-> r.edges,
                        children |-> r.children, parents |-> r.parents - c,
                        is_tt |-> r.is_tt, visited |-> r.visited]
        BY <3>1, <3>5
      <4>4. lows[l] = [dead |-> r.dead, hash |-> r.hash, edges |-> r.edges,
                        children |-> r.children \cap S, parents |-> r.parents - c,
                        is_tt |-> r.is_tt, visited |-> r.visited]
        <5> DEFINE pc == r.parents - c
                   u == g.low[l]
        <5>1. u = [dead |-> r.dead, hash |-> r.hash, edges |-> r.edges,
                        children |-> r.children, parents |-> pc,
                        is_tt |-> r.is_tt, visited |-> r.visited]
          BY <4>3
        <5>2. lows[l] = [u EXCEPT !.children = @ \cap S] BY <4>2
        <5> HIDE DEF pc, u
        <5>3. lows[l] = [dead |-> r.dead, hash |-> r.hash, edges |-> r.edges,
                        children |-> r.children \cap S, parents |-> pc,
                        is_tt |-> r.is_tt, visited |-> r.visited]
          BY <5>1, <5>2
        <5> QED BY <5>3 DEF pc
      <4> HIDE DEF k
      <4> QED BY <3>2, <4>1, <4>4, Zenon
    <3>7. CASE l \notin L
      <4>1. k = r.children BY <3>7 DEF KeptChildren, r
      <4>2. lows[l] = g.low[l] BY <3>3, <3>7
      <4>3. g.low[l] = [dead |-> r.dead, hash |-> r.hash, edges |-> r.edges,
                        children |-> r.children, parents |-> r.parents - c,
                        is_tt |-> r.is_tt, visited |-> r.visited]
        BY <3>1, <3>5
      <4> HIDE DEF k
      <4> QED BY <3>2, <4>1, <4>2, <4>3, Zenon
    <3> QED BY <3>6, <3>7
  <2> QED BY <2>3, <2>4
<1>3. lows = want BY <1>2
<1>4. g = [node |-> [n \in Nodes |-> KeptNode(h, L, S, n)], low |-> g.low,
            gamebegin |-> h.gamebegin, tt |-> h.tt, nonTT |-> h.nonTT, gcQueue |-> h.gcQueue]
  BY DestroyNodesIs DEF KeptNode
<1> HIDE DEF g, lows, X
<1>5. KeepChildren(h, L, S) =
        [node |-> [n \in Nodes |-> KeptNode(h, L, S, n)], low |-> lows,
            gamebegin |-> h.gamebegin, tt |-> h.tt, nonTT |-> h.nonTT, gcQueue |-> h.gcQueue]
  BY <1>1, <1>4
<1> QED BY <1>3, <1>5
-----------------------------------------------------------------------------
(* Children are released. *)

\* Only the children of L that are not in S die.
Thinned(h, L, S, g) ==
         /\ g = [node |-> g.node, low |-> g.low, gamebegin |-> h.gamebegin, tt |-> h.tt,
                 nonTT |-> h.nonTT, gcQueue |-> h.gcQueue]
         /\ g.gamebegin = h.gamebegin /\ g.tt = h.tt /\ g.nonTT = h.nonTT
         /\ g.gcQueue = h.gcQueue
         /\ g.node \in [Nodes -> NodeRec \cup {DeadNode}]
         /\ LiveNodes(g) = LiveNodes(h) \ Orphans(h, L, S)
         /\ \A n \in LiveNodes(g) : g.node[n] = h.node[n]
         /\ LiveLow(g) = LiveLow(h)
         /\ g.low = [l \in LowNodes |-> FateOfLow(h, L, S, l)]
         /\ \A l \in LiveLow(h) : g.low[l] = KeptLow(h, L, S, l)

\* What KeepChildren does is what Thinned says.
LEMMA KeepChildrenFields ==
  ASSUME NEW h, h \in Heap, NEW L, L \subseteq LiveLow(h), NEW S
  PROVE  Thinned(h, L, S, KeepChildren(h, L, S))
<1> DEFINE g == KeepChildren(h, L, S)
<1> DEFINE nodes == [n \in Nodes |-> KeptNode(h, L, S, n)]
           lows == [l \in LowNodes |-> FateOfLow(h, L, S, l)]
<1>1. g = [node |-> nodes, low |-> lows, gamebegin |-> h.gamebegin, tt |-> h.tt,
           nonTT |-> h.nonTT, gcQueue |-> h.gcQueue]
  BY KeepChildrenIs
<1>2. \A n \in Nodes : nodes[n] = KeptNode(h, L, S, n) OBVIOUS
<1>3. nodes \in [Nodes -> NodeRec \cup {DeadNode}] BY HeapFields DEF KeptNode
<1>4. \A l \in LowNodes : lows[l] = IF l \in LiveLow(h) THEN KeptLow(h, L, S, l) ELSE DeadLow
  BY DEF FateOfLow
<1>5. LiveLow(h) \subseteq LowNodes BY DEF LiveLow
<1>6. \A l \in LiveLow(h) : lows[l] = KeptLow(h, L, S, l) BY <1>4, <1>5
<1>7. lows = [l \in LowNodes |-> FateOfLow(h, L, S, l)]
  OBVIOUS
<1> HIDE DEF nodes, lows, g
<1>8. g.node = nodes /\ g.low = lows BY <1>1
<1>9. LiveNodes(g) = LiveNodes(h) \ Orphans(h, L, S)
  <2>1. \A n \in Nodes : n \in Orphans(h, L, S) => g.node[n].dead
    BY <1>2, <1>8 DEF DeadNode, KeptNode
  <2>2. \A n \in Nodes : n \notin Orphans(h, L, S) => g.node[n] = h.node[n]
    BY <1>2, <1>8 DEF KeptNode
  <2> QED BY <2>1, <2>2 DEF LiveNodes
<1>10. LiveLow(g) = LiveLow(h)
  <2>1. \A l \in LiveLow(h) : ~ lows[l].dead
    BY <1>6, KeptFields DEF LiveLow
  <2>2. \A l \in LowNodes \ LiveLow(h) : lows[l].dead = TRUE BY <1>4 DEF DeadLow
  <2> QED BY <1>5, <1>8, <2>1, <2>2 DEF LiveLow
<1>11. \A n \in LiveNodes(g) : g.node[n] = h.node[n]
  BY <1>2, <1>8, <1>9 DEF LiveNodes, KeptNode
<1>12. Thinned(h, L, S, g)
  BY <1>1, <1>3, <1>6, <1>7, <1>8, <1>9, <1>10, <1>11 DEF Thinned
<1> QED BY <1>12 DEF g

\* A heap is what has these fields.
LEMMA HeapIs ==
  ASSUME NEW g,
         g = [node |-> g.node, low |-> g.low, gamebegin |-> g.gamebegin, tt |-> g.tt,
              nonTT |-> g.nonTT, gcQueue |-> g.gcQueue],
         g.node \in [Nodes -> NodeRec \cup {DeadNode}],
         g.low \in [LowNodes -> LowRec \cup {DeadLow}],
         g.gamebegin \in Nodes \cup {None}, g.tt \in [Positions -> LowNodes \cup {None}],
         g.nonTT \in Seq(LowNodes), g.gcQueue \in SUBSET Positions
  PROVE  g \in Heap
BY DEF Heap

\* A low node that still counts the nodes that refer to it.
LEMMA LossesAre ==
  ASSUME NEW h, Tree(h), NEW X, NEW l \in LiveLow(h), X \subseteq LiveNodes(h)
  PROVE  /\ h.low[l].parents - Losses(h, X, l) = Cardinality(Refs(h, l) \ X)
         /\ Cardinality(Refs(h, l) \ X) \in Nat
<1>1. {n \in X : h.node[n].low = l} = Refs(h, l) \cap X BY DEF Refs
<1>2. Losses(h, X, l) = Cardinality(Refs(h, l) \cap X) BY <1>1, Zenon DEF Losses
<1>3. IsFiniteSet(Refs(h, l)) BY RefsFinite
<1>4. Cardinality(Refs(h, l) \ X) = Cardinality(Refs(h, l)) - Cardinality(Refs(h, l) \cap X)
      /\ IsFiniteSet(Refs(h, l) \ X)
  BY <1>3, FS_Difference
<1>5. h.low[l].parents = Cardinality(Refs(h, l)) BY DEF Tree
<1>6. Cardinality(Refs(h, l) \ X) \in Nat BY <1>4, FS_CardinalityType
<1> QED BY <1>2, <1>4, <1>5, <1>6

\* The children of the low nodes of L are nobody else's.
LEMMA OrphansAre ==
  ASSUME NEW h, Tree(h), NEW L, L \subseteq LiveLow(h), NEW S
  PROVE  /\ Orphans(h, L, S) \subseteq LiveNodes(h) \ {h.gamebegin}
         /\ \A l \in LiveLow(h) \ L : h.low[l].children \cap Orphans(h, L, S) = {}
         /\ \A l \in L : h.low[l].children \ Orphans(h, L, S) = h.low[l].children \cap S
<1>1. \A l \in LiveLow(h) : h.low[l].children \subseteq LiveNodes(h) \ {h.gamebegin}
  BY DEF Tree, Family
<1>2. \A k, l \in LiveLow(h), c \in Nodes :
        c \in h.low[k].children /\ c \in h.low[l].children => k = l
  BY DEF Tree
<1>3. LiveNodes(h) \subseteq Nodes BY DEF LiveNodes
<1>4. Orphans(h, L, S) \subseteq LiveNodes(h) \ {h.gamebegin} BY <1>1 DEF Orphans
<1>5. \A l \in LiveLow(h) \ L : h.low[l].children \cap Orphans(h, L, S) = {}
  BY <1>1, <1>2, <1>3 DEF Orphans
<1>6. \A l \in L : h.low[l].children \ Orphans(h, L, S) = h.low[l].children \cap S
  <2>1. ASSUME NEW l \in L, NEW c \in h.low[l].children
        PROVE  c \in Orphans(h, L, S) <=> c \notin S
    <3> DEFINE U == UNION {h.low[k].children : k \in L}
    <3>1. c \in U OBVIOUS
    <3>2. Orphans(h, L, S) = U \ S BY DEF Orphans
    <3> HIDE DEF U
    <3> QED BY <3>1, <3>2
  <2> QED BY <2>1
<1> QED BY <1>4, <1>5, <1>6
-----------------------------------------------------------------------------
(* Removing nodes and low nodes keeps a heap sane. *)

\* A tree whose low nodes of L keep the children in S is a tree.
LEMMA KeepChildrenTree ==
  ASSUME NEW h, Tree(h), NEW L, L \subseteq LiveLow(h), NEW S,
         NEW g, g = KeepChildren(h, L, S)
  PROVE  /\ Tree(g)
         /\ \A l \in LowNodes : Refs(g, l) = Refs(h, l) \ Orphans(h, L, S)
<1> DEFINE X == Orphans(h, L, S)
<1>h. h \in Heap BY DEF Tree
<1>1. /\ g = [node |-> g.node, low |-> g.low, gamebegin |-> h.gamebegin, tt |-> h.tt,
              nonTT |-> h.nonTT, gcQueue |-> h.gcQueue]
      /\ g.gamebegin = h.gamebegin /\ g.tt = h.tt /\ g.nonTT = h.nonTT
      /\ g.gcQueue = h.gcQueue
      /\ g.node \in [Nodes -> NodeRec \cup {DeadNode}]
      /\ LiveNodes(g) = LiveNodes(h) \ X
      /\ \A n \in LiveNodes(g) : g.node[n] = h.node[n]
      /\ LiveLow(g) = LiveLow(h)
      /\ g.low = [l \in LowNodes |-> FateOfLow(h, L, S, l)]
      /\ \A l \in LiveLow(h) : g.low[l] = KeptLow(h, L, S, l)
  BY <1>h, KeepChildrenFields DEF Thinned
<1>2. /\ X \subseteq LiveNodes(h) \ {h.gamebegin}
      /\ \A l \in LiveLow(h) \ L : h.low[l].children \cap X = {}
      /\ \A l \in L : h.low[l].children \ X = h.low[l].children \cap S
  BY OrphansAre
<1>3. \A l \in LiveLow(h) : KeptChildren(h, L, S, l) = h.low[l].children \ X
  BY <1>2 DEF KeptChildren
<1>4. ASSUME NEW l \in LiveLow(h)
      PROVE  /\ g.low[l].hash = h.low[l].hash /\ g.low[l].children = h.low[l].children \ X
             /\ g.low[l].parents = Cardinality(Refs(h, l) \ X)
             /\ g.low[l].is_tt = h.low[l].is_tt /\ g.low[l].edges = h.low[l].edges
             /\ KeptLow(h, L, S, l) \in LowRec
  <2>1. KeptLow(h, L, S, l).parents = Cardinality(Refs(h, l) \ X)
        /\ Cardinality(Refs(h, l) \ X) \in Nat
    BY <1>2, KeptFields, LossesAre
  <2>2. h.low[l] \in LowRec BY <1>h, LiveFields
  <2>3. KeptChildren(h, L, S, l) = h.low[l].children \ X BY <1>3
  <2>4. KeptLow(h, L, S, l) \in LowRec
    <3> DEFINE r == KeptLow(h, L, S, l)
    <3>1. r.children \in SUBSET Nodes BY <2>2, <2>3, Fields, KeptFields
    <3>2. r.dead = FALSE /\ r.hash \in Positions /\ r.edges \in SUBSET Moves
          /\ r.is_tt \in BOOLEAN /\ r.visited \in BOOLEAN
      BY <2>2, Fields, KeptFields
    <3>3. r = [dead |-> r.dead, hash |-> r.hash, edges |-> r.edges, children |-> r.children,
               parents |-> r.parents, is_tt |-> r.is_tt, visited |-> r.visited]
      BY KeptFields
    <3>4. r.parents \in Nat BY <2>1
    <3> HIDE DEF r
    <3>5. r \in LowRec BY <3>1, <3>2, <3>3, <3>4, LowRecIs
    <3> QED BY <3>5 DEF r
  <2> QED BY <1>1, <2>1, <2>3, <2>4, KeptFields
<1>5. g.low \in [LowNodes -> LowRec \cup {DeadLow}]
  <2>1. \A l \in LowNodes : FateOfLow(h, L, S, l) \in LowRec \cup {DeadLow}
    BY <1>4 DEF FateOfLow
  <2> QED BY <1>1, <2>1
<1>6. g \in Heap
  <2>1. /\ h.gamebegin \in Nodes \cup {None}
         /\ h.tt \in [Positions -> LowNodes \cup {None}]
         /\ h.nonTT \in Seq(LowNodes) /\ h.gcQueue \in SUBSET Positions
    BY <1>h, HeapFields
  <2> QED BY <1>1, <1>5, <2>1, HeapIs
<1> HIDE DEF X
<1>7. \A l \in LowNodes : Refs(g, l) = Refs(h, l) \ X BY <1>1 DEF Refs
<1>8. g.gamebegin \in LiveNodes(g) \cup {None} BY <1>1, <1>2 DEF Tree
<1>9. \A n \in LiveNodes(g) : g.node[n].low \in LiveLow(g) \cup {None} BY <1>1 DEF Tree
<1>10. ASSUME NEW n \in LiveNodes(g), NEW p, LeadsTo(h, n, p) PROVE LeadsTo(g, n, p)
  <2>1. g.node[n] = h.node[n] BY <1>1
  <2>2. g.node[n].low # None => g.node[n].low \in LiveLow(h) BY <1>1, <1>9
  <2> QED BY <1>4, <1>10, <2>1, <2>2 DEF LeadsTo
<1>11. g.gamebegin # None => LeadsTo(g, g.gamebegin, Start)
  BY <1>1, <1>8, <1>10 DEF Tree
<1>12. ASSUME NEW n \in LiveNodes(g) \ {g.gamebegin}
       PROVE  \E l \in LiveLow(g) : n \in g.low[l].children
  <2>1. PICK l \in LiveLow(h) : n \in h.low[l].children BY <1>1 DEF Tree
  <2> QED BY <1>1, <1>4, <2>1
<1>13. ASSUME NEW l \in LiveLow(g)
       PROVE  Family(g, l) /\ g.low[l].parents = Cardinality(Refs(g, l))
  <2>1. l \in LiveLow(h) /\ l \in LowNodes BY <1>1 DEF LiveLow
  <2>2. Family(h, l) BY <2>1 DEF Tree
  <2>3. g.low[l].children = h.low[l].children \ X /\ g.low[l].hash = h.low[l].hash
    BY <1>4, <2>1
  <2>4. g.low[l].children \subseteq LiveNodes(g) \ {g.gamebegin}
    BY <1>1, <2>2, <2>3 DEF Family
  <2>5. \A c \in g.low[l].children : g.node[c] = h.node[c] BY <1>1, <2>4
  <2>6. ASSUME NEW c \in g.low[l].children
        PROVE  /\ g.node[c].move \in DOMAIN Succ[g.low[l].hash]
               /\ LeadsTo(g, c, Succ[g.low[l].hash][g.node[c].move])
    <3>1. h.node[c].move \in DOMAIN Succ[h.low[l].hash]
          /\ LeadsTo(h, c, Succ[h.low[l].hash][h.node[c].move])
      BY <2>2, <2>3 DEF Family
    <3> QED BY <1>10, <2>3, <2>4, <2>5, <3>1
  <2>7. \A c, d \in g.low[l].children : g.node[c].move = g.node[d].move => c = d
    <3>1. \A c, d \in h.low[l].children : h.node[c].move = h.node[d].move => c = d
      BY <2>2 DEF Family
    <3> QED BY <2>3, <2>5, <3>1
  <2>8. Family(g, l) BY <2>4, <2>6, <2>7 DEF Family
  <2> QED BY <1>4, <1>7, <2>1, <2>8
<1>14. \A k, l \in LiveLow(g), c \in Nodes :
         c \in g.low[k].children /\ c \in g.low[l].children => k = l
  <2>1. \A k, l \in LiveLow(h), c \in Nodes :
          c \in h.low[k].children /\ c \in h.low[l].children => k = l
    BY DEF Tree
  <2>2. \A l \in LiveLow(g) : l \in LiveLow(h) /\ g.low[l].children \subseteq h.low[l].children
    BY <1>1, <1>4
  <2> QED BY <2>1, <2>2
<1>15. Tree(g) BY <1>6, <1>8, <1>9, <1>11, <1>12, <1>13, <1>14 DEF Tree
<1> QED BY <1>7, <1>15 DEF X

\* Low nodes of which nothing but the children changed, or the count of parents.
SameLow(h, g, l) ==
  /\ g.low[l].hash = h.low[l].hash /\ g.low[l].edges = h.low[l].edges
  /\ g.low[l].is_tt = h.low[l].is_tt /\ g.low[l].visited = h.low[l].visited

\* The table, when low nodes are destroyed.
LEMMA TableKept ==
  ASSUME NEW h, NEW g, h \in Heap, Table(h), LiveLow(g) \subseteq LiveLow(h),
         \A l \in LiveLow(g) : SameLow(h, g, l),
         \A p \in Positions : g.tt[p] # None => g.tt[p] = h.tt[p] /\ g.tt[p] \in LiveLow(g),
         \A p \in Positions : h.tt[p] \in LiveLow(g) => g.tt[p] = h.tt[p]
  PROVE  Table(g)
<1>1. ASSUME NEW p \in Positions, g.tt[p] # None
      PROVE  g.tt[p] \in LiveLow(g) /\ g.low[g.tt[p]].hash = p /\ g.low[g.tt[p]].is_tt
  <2>1. g.tt[p] = h.tt[p] /\ g.tt[p] \in LiveLow(g) BY <1>1
  <2>2. h.low[g.tt[p]].hash = p /\ h.low[g.tt[p]].is_tt BY <1>1, <2>1 DEF Table
  <2> QED BY <2>1, <2>2 DEF SameLow
<1>2. ASSUME NEW l \in LiveLow(g)
      PROVE  /\ g.low[l].edges \subseteq DOMAIN Succ[g.low[l].hash]
             /\ g.low[l].is_tt => g.tt[g.low[l].hash] = l
             /\ g.low[l].is_tt => g.low[l].edges = DOMAIN Succ[g.low[l].hash]
  <2>1. l \in LiveLow(h) /\ SameLow(h, g, l) OBVIOUS
  <2>2. h.low[l].hash \in Positions BY <2>1, LiveFields, Fields
  <2>3. /\ h.low[l].edges \subseteq DOMAIN Succ[h.low[l].hash]
        /\ h.low[l].is_tt => h.tt[h.low[l].hash] = l
        /\ h.low[l].is_tt => h.low[l].edges = DOMAIN Succ[h.low[l].hash]
    BY <2>1 DEF Table
  <2> QED BY <2>1, <2>2, <2>3 DEF SameLow
<1> QED BY <1>1, <1>2 DEF Table

\* non_tt_, when no low node is destroyed.
LEMMA NonTTKept ==
  ASSUME NEW h, NEW g, NonTT(h), LiveLow(g) = LiveLow(h),
         \A l \in LiveLow(g) : SameLow(h, g, l), g.nonTT = h.nonTT
  PROVE  NonTT(g)
BY DEF NonTT, SameLow

\* Nodes die, and low nodes lose children.
ThinnedTree(h, L, S, g) ==
         /\ Tree(g) /\ (Table(h) => Table(g)) /\ (NonTT(h) => NonTT(g))
         /\ LiveNodes(g) = LiveNodes(h) \ Orphans(h, L, S) /\ LiveLow(g) = LiveLow(h)
         /\ \A n \in LiveNodes(g) : g.node[n] = h.node[n]
         /\ \A l \in LiveLow(g) : SameLow(h, g, l)
         /\ \A l \in LiveLow(g) : g.low[l].children = KeptChildren(h, L, S, l)
         /\ g.gamebegin = h.gamebegin /\ g.tt = h.tt /\ g.nonTT = h.nonTT
         /\ g.gcQueue = h.gcQueue
         /\ \A l \in LowNodes : Refs(g, l) = Refs(h, l) \ Orphans(h, L, S)

\* Releasing children, all or but some, leaves a tree: what their loss takes from the
\* counts of parents is what refers no longer.
LEMMA KeepChildrenSane ==
  ASSUME NEW h, Tree(h), NEW L, L \subseteq LiveLow(h), NEW S
  PROVE  ThinnedTree(h, L, S, KeepChildren(h, L, S))
<1> DEFINE g == KeepChildren(h, L, S)
<1>h. h \in Heap BY DEF Tree
<1>t. Thinned(h, L, S, g) BY <1>h, KeepChildrenFields
<1>2. Tree(g) /\ \A l \in LowNodes : Refs(g, l) = Refs(h, l) \ Orphans(h, L, S)
  BY KeepChildrenTree
<1> HIDE DEF g
<1>1. /\ g.gamebegin = h.gamebegin /\ g.tt = h.tt /\ g.nonTT = h.nonTT
      /\ g.gcQueue = h.gcQueue
      /\ LiveNodes(g) = LiveNodes(h) \ Orphans(h, L, S)
      /\ \A n \in LiveNodes(g) : g.node[n] = h.node[n]
      /\ LiveLow(g) = LiveLow(h)
      /\ \A l \in LiveLow(h) : g.low[l] = KeptLow(h, L, S, l)
  BY <1>t, Zenon DEF Thinned
<1>3. \A l \in LiveLow(g) : SameLow(h, g, l) /\ g.low[l].children = KeptChildren(h, L, S, l)
  BY <1>1, KeptFields DEF SameLow
<1>4. Table(h) => Table(g)
  <2>1. ASSUME Table(h) PROVE \A p \in Positions : g.tt[p] # None => g.tt[p] \in LiveLow(g)
    BY <1>1, <2>1 DEF Table
  <2> QED BY <1>h, <1>1, <1>3, <2>1, TableKept
<1>5. NonTT(h) => NonTT(g) BY <1>1, <1>3, NonTTKept
<1>6. ThinnedTree(h, L, S, g) BY <1>1, <1>2, <1>3, <1>4, <1>5 DEF ThinnedTree
<1> QED BY <1>6 DEF g

\* A heap in which the low nodes of L are no more.
Buried(g, L, l) == IF l \in L THEN DeadLow ELSE g.low[l]

Destroyed(h, L, k) ==
         LET g == KeepChildren(h, L, {}) IN
         /\ k = [node |-> g.node, low |-> [l \in LowNodes |-> Buried(g, L, l)],
                 gamebegin |-> h.gamebegin, tt |-> h.tt, nonTT |-> h.nonTT,
                 gcQueue |-> h.gcQueue]
         /\ k.gamebegin = h.gamebegin /\ k.tt = h.tt /\ k.nonTT = h.nonTT
         /\ k.gcQueue = h.gcQueue
         /\ LiveNodes(k) = LiveNodes(h) \ Orphans(h, L, {})
         /\ LiveLow(k) = LiveLow(h) \ L
         /\ \A n \in LiveNodes(k) : k.node[n] = h.node[n]
         /\ k.node = g.node
         /\ \A l \in LiveLow(k) : k.low[l] = KeptLow(h, L, {}, l)
         /\ \A l \in LiveLow(k) : SameLow(h, k, l) /\ k.low[l].children = h.low[l].children

\* DestroyLows frees those low nodes, and their children with them.
LEMMA DestroyLowsFields ==
  ASSUME NEW h, h \in Heap, NEW L, L \subseteq LiveLow(h)
  PROVE  Destroyed(h, L, DestroyLows(h, L))
<1> DEFINE k == DestroyLows(h, L)
           g == KeepChildren(h, L, {})
           lows == [l \in LowNodes |-> Buried(g, L, l)]
<1>t. Thinned(h, L, {}, g) BY KeepChildrenFields
<1>2. k = [g EXCEPT !.low = lows] BY DEF DestroyLows, Buried
<1>3. \A l \in LowNodes : lows[l] = Buried(g, L, l) OBVIOUS
<1> HIDE DEF g, lows, k
<1>1. /\ g = [node |-> g.node, low |-> g.low, gamebegin |-> h.gamebegin, tt |-> h.tt,
                 nonTT |-> h.nonTT, gcQueue |-> h.gcQueue]
      /\ LiveNodes(g) = LiveNodes(h) \ Orphans(h, L, {})
      /\ \A n \in LiveNodes(g) : g.node[n] = h.node[n]
      /\ LiveLow(g) = LiveLow(h)
      /\ \A l \in LiveLow(h) : g.low[l] = KeptLow(h, L, {}, l)
  BY <1>t, Zenon DEF Thinned
<1>4. k = [node |-> g.node, low |-> lows, gamebegin |-> h.gamebegin, tt |-> h.tt,
           nonTT |-> h.nonTT, gcQueue |-> h.gcQueue]
  BY <1>1, <1>2
<1>5. k.node = g.node /\ k.low = lows BY <1>4
<1>6. LiveNodes(k) = LiveNodes(g) BY <1>5 DEF LiveNodes
<1>7. LiveLow(k) = LiveLow(h) \ L
  <2>1. LiveLow(k) = LiveLow(g) \ L
    <3>1. \A l \in LowNodes : l \in L => k.low[l].dead BY <1>3, <1>5 DEF Buried, DeadLow
    <3>2. \A l \in LowNodes : l \notin L => k.low[l] = g.low[l] BY <1>3, <1>5 DEF Buried
    <3> QED BY <3>1, <3>2 DEF LiveLow
  <2> QED BY <1>1, <2>1
<1>8. ASSUME NEW l \in LiveLow(k)
      PROVE  /\ k.low[l] = KeptLow(h, L, {}, l)
             /\ SameLow(h, k, l) /\ k.low[l].children = h.low[l].children
  <2>1. l \in LowNodes /\ l \in LiveLow(h) /\ l \notin L BY <1>7 DEF LiveLow
  <2>2. k.low[l] = KeptLow(h, L, {}, l) BY <1>1, <1>3, <1>5, <2>1 DEF Buried
  <2>3. KeptChildren(h, L, {}, l) = h.low[l].children BY <2>1 DEF KeptChildren
  <2> QED BY <2>2, <2>3, KeptFields DEF SameLow
<1>9. Destroyed(h, L, k) BY <1>1, <1>4, <1>5, <1>6, <1>7, <1>8 DEF g, lows, Destroyed
<1> QED BY <1>9 DEF k

\* Low nodes that nobody refers to are destroyed.
LEMMA DestroyLowsTree ==
  ASSUME NEW h, Tree(h), NEW L, L \subseteq LiveLow(h), \A l \in L : Refs(h, l) = {},
         NEW k, k = DestroyLows(h, L)
  PROVE  Tree(k) /\ \A l \in LowNodes : Refs(k, l) = Refs(h, l) \ Orphans(h, L, {})
<1> DEFINE g == KeepChildren(h, L, {})
           lows == [l \in LowNodes |-> Buried(g, L, l)]
<1>h. h \in Heap BY DEF Tree
<1>t. ThinnedTree(h, L, {}, g) BY KeepChildrenSane
<1>u. Destroyed(h, L, k) BY <1>h, DestroyLowsFields
<1>1. /\ k = [node |-> g.node, low |-> lows,
                 gamebegin |-> h.gamebegin, tt |-> h.tt, nonTT |-> h.nonTT,
                 gcQueue |-> h.gcQueue]
      /\ k.gamebegin = h.gamebegin /\ k.tt = h.tt /\ k.nonTT = h.nonTT
      /\ k.gcQueue = h.gcQueue
      /\ LiveNodes(k) = LiveNodes(h) \ Orphans(h, L, {})
      /\ LiveLow(k) = LiveLow(h) \ L
      /\ k.node = g.node
      /\ \A l \in LiveLow(k) : k.low[l] = KeptLow(h, L, {}, l)
  BY <1>u, Zenon DEF Destroyed
<1> HIDE DEF g
<1>2. /\ Tree(g) /\ LiveNodes(g) = LiveNodes(h) \ Orphans(h, L, {}) /\ LiveLow(g) = LiveLow(h)
      /\ \A l \in LiveLow(g) : g.low[l].children = KeptChildren(h, L, {}, l)
      /\ g.gamebegin = h.gamebegin /\ g.tt = h.tt /\ g.nonTT = h.nonTT
      /\ g.gcQueue = h.gcQueue
      /\ \A l \in LowNodes : Refs(g, l) = Refs(h, l) \ Orphans(h, L, {})
  BY <1>t, Zenon DEF ThinnedTree
<1>3. \A l \in L : g.low[l].children = {} /\ Refs(g, l) = {}
  BY <1>2 DEF KeptChildren, LiveLow
<1>4. \A l \in LowNodes : lows[l] = Buried(g, L, l) OBVIOUS
<1>5. lows \in [LowNodes -> LowRec \cup {DeadLow}]
  <2>1. g.low \in [LowNodes -> LowRec \cup {DeadLow}] BY <1>2, HeapFields DEF Tree
  <2>2. \A l \in LowNodes : Buried(g, L, l) \in LowRec \cup {DeadLow} BY <2>1 DEF Buried
  <2> QED BY <2>2
<1> HIDE DEF g, lows
<1>6. k.low = lows /\ k.node = g.node BY <1>1
<1>7. k \in Heap
  <2>1. /\ h.gamebegin \in Nodes \cup {None}
         /\ h.tt \in [Positions -> LowNodes \cup {None}]
         /\ h.nonTT \in Seq(LowNodes) /\ h.gcQueue \in SUBSET Positions
    BY <1>h, HeapFields
  <2>2. g.node \in [Nodes -> NodeRec \cup {DeadNode}] BY <1>2, HeapFields DEF Tree
  <2> QED BY <1>1, <1>5, <1>6, <2>1, <2>2, HeapIs
<1>8. LiveNodes(k) = LiveNodes(g) /\ LiveLow(k) = LiveLow(g) \ L BY <1>1, <1>2
<1>9. \A l \in LiveLow(k) : k.low[l] = g.low[l]
  BY <1>4, <1>6, <1>8 DEF Buried, LiveLow
<1>10. \A l \in LowNodes : Refs(k, l) = Refs(g, l) BY <1>6, <1>8 DEF Refs
<1>11. ASSUME NEW n \in LiveNodes(k) PROVE k.node[n].low \in LiveLow(k) \cup {None}
  <2>1. g.node[n].low \in LiveLow(g) \cup {None} BY <1>2, <1>8 DEF Tree
  <2>2. g.node[n].low \notin L
    <3>1. SUFFICES ASSUME g.node[n].low \in L PROVE FALSE OBVIOUS
    <3>2. n \in Refs(g, g.node[n].low) BY <1>8 DEF Refs
    <3> QED BY <1>3, <3>1, <3>2
  <2> QED BY <1>6, <1>8, <2>1, <2>2
<1>12. ASSUME NEW n \in LiveNodes(k), NEW p, LeadsTo(g, n, p) PROVE LeadsTo(k, n, p)
  BY <1>6, <1>9, <1>11, <1>12 DEF LeadsTo
<1>13. k.gamebegin \in LiveNodes(k) \cup {None} BY <1>1, <1>2, <1>8 DEF Tree
<1>14. k.gamebegin # None => LeadsTo(k, k.gamebegin, Start)
  BY <1>1, <1>2, <1>12, <1>13 DEF Tree
<1>15. ASSUME NEW n \in LiveNodes(k) \ {k.gamebegin}
       PROVE  \E l \in LiveLow(k) : n \in k.low[l].children
  <2>1. PICK l \in LiveLow(g) : n \in g.low[l].children BY <1>1, <1>2, <1>8 DEF Tree
  <2>2. l \notin L BY <1>3, <2>1
  <2> QED BY <1>8, <1>9, <2>1, <2>2
<1>16. ASSUME NEW l \in LiveLow(k)
       PROVE  Family(k, l) /\ k.low[l].parents = Cardinality(Refs(k, l))
  <2>1. l \in LiveLow(g) /\ l \in LowNodes /\ k.low[l] = g.low[l] BY <1>8, <1>9 DEF LiveLow
  <2>2. Family(g, l) /\ g.low[l].parents = Cardinality(Refs(g, l)) BY <1>2, <2>1 DEF Tree
  <2>3. k.low[l].children \subseteq LiveNodes(k) \ {k.gamebegin}
    BY <1>1, <1>2, <1>8, <2>1, <2>2 DEF Family
  <2>4. ASSUME NEW c \in k.low[l].children
        PROVE  /\ k.node[c].move \in DOMAIN Succ[k.low[l].hash]
               /\ LeadsTo(k, c, Succ[k.low[l].hash][k.node[c].move])
    BY <1>6, <1>12, <2>1, <2>2, <2>3 DEF Family
  <2>5. \A c, d \in k.low[l].children : k.node[c].move = k.node[d].move => c = d
    BY <1>6, <2>1, <2>2 DEF Family
  <2>6. Family(k, l) BY <2>3, <2>4, <2>5 DEF Family
  <2> QED BY <1>10, <2>1, <2>2, <2>6
<1>17. \A j, l \in LiveLow(k), c \in Nodes :
         c \in k.low[j].children /\ c \in k.low[l].children => j = l
  <2>1. \A j, l \in LiveLow(g), c \in Nodes :
          c \in g.low[j].children /\ c \in g.low[l].children => j = l
    BY <1>2 DEF Tree
  <2> QED BY <1>8, <1>9, <2>1
<1>18. Tree(k) BY <1>7, <1>11, <1>13, <1>14, <1>15, <1>16, <1>17 DEF Tree
<1> QED BY <1>2, <1>10, <1>18
-----------------------------------------------------------------------------
(* The line of the game, and heaps that differ in nothing that matters. *)

\* The i-th link of a line: a low node of the line's position that has the
\* next node as its one child.
Link(h, path, line, i) ==
  LET l == h.node[path[i - 1]].low IN
  /\ l \in LiveLow(h) /\ h.low[l].hash = PositionAfter(SubSeq(line, 1, i - 1))
  /\ ~ h.low[l].is_tt /\ h.low[l].children = {path[i]}
  /\ h.node[path[i]].move = line[i]

\* The nodes of path lead from gamebegin_node_ to the head by the moves of line.
Line(h, path, line, head) ==
  /\ path \in [0 .. Len(line) -> LiveNodes(h)]
  /\ path[0] = h.gamebegin /\ path[Len(line)] = head
  /\ \A i \in 1 .. Len(line) : Link(h, path, line, i)

LineLow(h, path, i) == h.node[path[i - 1]].low

\* What a line needs to be kept.
LEMMA LineKept ==
  ASSUME NEW h, NEW g, NEW path, NEW line, Len(line) \in Nat, NEW head,
         Line(h, path, line, head), g.gamebegin = h.gamebegin,
         \A i \in 0 .. Len(line) :
           path[i] \in LiveNodes(g) /\ g.node[path[i]].move = h.node[path[i]].move,
         \A i \in 1 .. Len(line) :
           LET l == LineLow(h, path, i) IN
           /\ LineLow(g, path, i) = l /\ l \in LiveLow(g)
           /\ g.low[l].hash = h.low[l].hash /\ g.low[l].is_tt = h.low[l].is_tt
           /\ g.low[l].children = h.low[l].children
  PROVE  Line(g, path, line, head)
<1>1. path \in [0 .. Len(line) -> LiveNodes(g)] BY DEF Line
<1>2. ASSUME NEW i \in 1 .. Len(line) PROVE Link(g, path, line, i)
  <2>1. Link(h, path, line, i) BY DEF Line
  <2>2. i \in 0 .. Len(line) OBVIOUS
  <2> QED BY <2>1, <2>2 DEF Link, LineLow
<1> QED BY <1>1, <1>2 DEF Line

\* The nodes of a line, and its low nodes.
LEMMA LineNodes ==
  ASSUME NEW h, NEW path, NEW line, Len(line) \in Nat, NEW head, Line(h, path, line, head)
  PROVE  /\ \A i \in 0 .. Len(line) : path[i] \in LiveNodes(h)
         /\ path[0] = h.gamebegin /\ head \in LiveNodes(h) /\ h.gamebegin \in LiveNodes(h)
         /\ \A i \in 1 .. Len(line) :
              /\ LineLow(h, path, i) \in LiveLow(h)
              /\ path[i - 1] \in Refs(h, LineLow(h, path, i))
              /\ path[i] \in h.low[LineLow(h, path, i)].children
              /\ ~ h.low[LineLow(h, path, i)].is_tt
<1>1. \A i \in 0 .. Len(line) : path[i] \in LiveNodes(h) BY DEF Line
<1>2. ASSUME NEW i \in 1 .. Len(line)
      PROVE  /\ LineLow(h, path, i) \in LiveLow(h)
             /\ path[i - 1] \in Refs(h, LineLow(h, path, i))
             /\ path[i] \in h.low[LineLow(h, path, i)].children
             /\ ~ h.low[LineLow(h, path, i)].is_tt
  <2>1. i - 1 \in 0 .. Len(line) OBVIOUS
  <2>2. Link(h, path, line, i) BY DEF Line
  <2> QED BY <1>1, <2>1, <2>2 DEF Link, LineLow, Refs
<1>3. 0 \in 0 .. Len(line) /\ Len(line) \in 0 .. Len(line) OBVIOUS
<1> QED BY <1>1, <1>2, <1>3 DEF Line

\* A heap that differs in visited flags and in gc_queue_.
Alike(h, e) ==
  /\ e \in Heap /\ e.gamebegin = h.gamebegin /\ e.tt = h.tt /\ e.nonTT = h.nonTT
  /\ LiveNodes(e) = LiveNodes(h) /\ LiveLow(e) = LiveLow(h)
  /\ \A n \in LiveNodes(h) : e.node[n].move = h.node[n].move /\ e.node[n].low = h.node[n].low
  /\ \A l \in LiveLow(h) :
       /\ e.low[l].hash = h.low[l].hash /\ e.low[l].edges = h.low[l].edges
       /\ e.low[l].children = h.low[l].children /\ e.low[l].parents = h.low[l].parents
       /\ e.low[l].is_tt = h.low[l].is_tt

\* The invariant looks at nothing in which such heaps differ.
LEMMA AlikeSane ==
  ASSUME NEW h, NEW e, Alike(h, e), Tree(h)
  PROVE  /\ Tree(e) /\ (Table(h) => Table(e)) /\ (NonTT(h) => NonTT(e))
         /\ \A l : Refs(e, l) = Refs(h, l)
         /\ \A n \in LiveNodes(h) : \A p : LeadsTo(h, n, p) => LeadsTo(e, n, p)
<1>1. \A l : Refs(e, l) = Refs(h, l) BY DEF Refs, Alike
<1>2. \A n \in LiveNodes(e) : e.node[n].low \in LiveLow(e) \cup {None} BY DEF Tree, Alike
<1>3. ASSUME NEW n \in LiveNodes(h), NEW p, LeadsTo(h, n, p) PROVE LeadsTo(e, n, p)
  BY <1>2, <1>3 DEF LeadsTo, Alike
<1>4. e \in Heap /\ e.gamebegin \in LiveNodes(e) \cup {None} BY DEF Tree, Alike
<1>5. e.gamebegin # None => LeadsTo(e, e.gamebegin, Start)
  BY <1>3, <1>4 DEF Tree, Alike
<1>6. \A n \in LiveNodes(e) \ {e.gamebegin} : \E l \in LiveLow(e) : n \in e.low[l].children
  BY DEF Tree, Alike
<1>7. ASSUME NEW l \in LiveLow(e)
      PROVE  Family(e, l) /\ e.low[l].parents = Cardinality(Refs(e, l))
  <2>1. l \in LiveLow(h) BY DEF Alike
  <2>2. Family(h, l) /\ h.low[l].parents = Cardinality(Refs(h, l)) BY <2>1 DEF Tree
  <2>3. e.low[l].children = h.low[l].children /\ e.low[l].hash = h.low[l].hash
        /\ e.low[l].parents = h.low[l].parents
    BY <2>1 DEF Alike
  <2>4. \A c \in e.low[l].children : c \in LiveNodes(h) /\ e.node[c].move = h.node[c].move
    BY <2>2, <2>3 DEF Family, Alike
  <2>5. e.low[l].children \subseteq LiveNodes(e) \ {e.gamebegin}
    BY <2>2, <2>3 DEF Family, Alike
  <2>6. \A c \in e.low[l].children :
          /\ e.node[c].move \in DOMAIN Succ[e.low[l].hash]
          /\ LeadsTo(e, c, Succ[e.low[l].hash][e.node[c].move])
    BY <1>3, <2>2, <2>3, <2>4 DEF Family
  <2>7. \A c, d \in e.low[l].children : e.node[c].move = e.node[d].move => c = d
    BY <2>2, <2>3, <2>4 DEF Family
  <2>8. Family(e, l) BY <2>5, <2>6, <2>7 DEF Family
  <2> QED BY <1>1, <2>2, <2>3, <2>8
<1>8. \A k, l \in LiveLow(e), c \in Nodes :
         c \in e.low[k].children /\ c \in e.low[l].children => k = l
  <2>1. \A k, l \in LiveLow(h), c \in Nodes :
          c \in h.low[k].children /\ c \in h.low[l].children => k = l
    BY DEF Tree
  <2> QED BY <2>1 DEF Alike
<1>9. Tree(e) BY <1>2, <1>4, <1>5, <1>6, <1>7, <1>8 DEF Tree
<1>10. ASSUME Table(h) PROVE Table(e)
  <2>1. ASSUME NEW p \in Positions, e.tt[p] # None
        PROVE  e.tt[p] \in LiveLow(e) /\ e.low[e.tt[p]].hash = p /\ e.low[e.tt[p]].is_tt
    BY <1>10, <2>1 DEF Table, Alike
  <2>2. ASSUME NEW l \in LiveLow(e)
        PROVE  /\ e.low[l].edges \subseteq DOMAIN Succ[e.low[l].hash]
               /\ e.low[l].is_tt => e.tt[e.low[l].hash] = l
               /\ e.low[l].is_tt => e.low[l].edges = DOMAIN Succ[e.low[l].hash]
    BY <1>10 DEF Table, Alike
  <2> QED BY <2>1, <2>2 DEF Table
<1>11. NonTT(h) => NonTT(e) BY DEF NonTT, Alike
<1> QED BY <1>1, <1>3, <1>9, <1>10, <1>11

\* Nor does the line of the game.
LEMMA AlikeLine ==
  ASSUME NEW h, NEW e, Alike(h, e), NEW path, NEW line, Len(line) \in Nat, NEW head,
         Line(h, path, line, head)
  PROVE  Line(e, path, line, head)
<1>1. \A i \in 0 .. Len(line) : path[i] \in LiveNodes(h) BY DEF Line
<1>2. \A i \in 1 .. Len(line) : i - 1 \in 0 .. Len(line) OBVIOUS
<1>3. \A i \in 1 .. Len(line) : LineLow(h, path, i) \in LiveLow(h) BY LineNodes
<1>4. \A i \in 0 .. Len(line) :
        path[i] \in LiveNodes(e) /\ e.node[path[i]].move = h.node[path[i]].move
  BY <1>1 DEF Alike
<1>5. ASSUME NEW i \in 1 .. Len(line)
      PROVE LET l == LineLow(h, path, i) IN
           /\ LineLow(e, path, i) = l /\ l \in LiveLow(e)
           /\ e.low[l].hash = h.low[l].hash /\ e.low[l].is_tt = h.low[l].is_tt
           /\ e.low[l].children = h.low[l].children
  BY <1>1, <1>2, <1>3 DEF Alike, LineLow
<1>6. e.gamebegin = h.gamebegin BY DEF Alike
<1> QED BY <1>4, <1>5, <1>6, LineKept

\* Queueing hashes.
LEMMA EnqueueAlike ==
  ASSUME NEW h, Tree(h), NEW S, S \subseteq LiveNodes(h)
  PROVE  Alike(h, Enqueue(h, S)) /\ Enqueue(h, S).low = h.low /\ Enqueue(h, S).node = h.node
<1> DEFINE e == Enqueue(h, S)
           last == {l \in {h.node[n].low : n \in S} \ {None} :
                      h.low[l].is_tt /\ h.low[l].parents = 1}
           q == h.gcQueue \cup {h.low[l].hash : l \in last}
<1>h. h \in Heap BY DEF Tree
<1>1. e = [h EXCEPT !.gcQueue = q] BY DEF Enqueue
<1>2. q \in SUBSET Positions
  <2>1. \A n \in S : h.node[n].low \in LiveLow(h) \cup {None} BY DEF Tree
  <2>2. \A l \in last : l \in LiveLow(h) BY <2>1
  <2>3. \A l \in LiveLow(h) : h.low[l].hash \in Positions BY <1>h, LiveFields, Fields
  <2>4. h.gcQueue \in SUBSET Positions BY <1>h, HeapFields
  <2> HIDE DEF last
  <2> QED BY <2>2, <2>3, <2>4
<1> HIDE DEF q, e
<1>3. e = [node |-> h.node, low |-> h.low, gamebegin |-> h.gamebegin, tt |-> h.tt,
           nonTT |-> h.nonTT, gcQueue |-> q]
  BY <1>h, <1>1, HeapFields
<1>4. e.node = h.node /\ e.low = h.low /\ e.gamebegin = h.gamebegin /\ e.tt = h.tt
      /\ e.nonTT = h.nonTT /\ e.gcQueue = q
  BY <1>3
<1>5. e \in Heap
  <2>1. e = [node |-> e.node, low |-> e.low, gamebegin |-> e.gamebegin, tt |-> e.tt,
             nonTT |-> e.nonTT, gcQueue |-> e.gcQueue]
    BY <1>3
  <2> QED BY <1>h, <1>2, <1>4, <2>1, HeapFields, HeapIs
<1>6. LiveNodes(e) = LiveNodes(h) /\ LiveLow(e) = LiveLow(h) BY <1>4 DEF LiveNodes, LiveLow
<1>7. Alike(h, e) BY <1>4, <1>5, <1>6 DEF Alike
<1> QED BY <1>4, <1>7 DEF e
-----------------------------------------------------------------------------
(* What collection removes. *)

\* Nodes and low nodes were only removed, and children only lost.
Pruned(h, g) ==
  /\ g.gamebegin = h.gamebegin
  /\ LiveNodes(g) \subseteq LiveNodes(h) /\ LiveLow(g) \subseteq LiveLow(h)
  /\ \A n \in LiveNodes(g) : g.node[n] = h.node[n]
  /\ \A l \in LiveLow(g) : SameLow(h, g, l) /\ g.low[l].children \subseteq h.low[l].children

\* No line of moves was broken.
LinesKept(h, g) ==
  \A path, line, head :
    Len(line) \in Nat /\ Line(h, path, line, head) => Line(g, path, line, head)

\* What is pruned twice is pruned.
LEMMA PrunedTrans ==
  ASSUME NEW f, NEW g, NEW h, Pruned(f, g), Pruned(g, h), LinesKept(f, g), LinesKept(g, h)
  PROVE  Pruned(f, h) /\ LinesKept(f, h)
<1>1. Pruned(f, h) BY DEF Pruned, SameLow
<1>2. LinesKept(f, h) BY DEF LinesKept
<1> QED BY <1>1, <1>2

\* Pruning gives a low node no new parent.
LEMMA PrunedRefs ==
  ASSUME NEW h, NEW g, Pruned(h, g), NEW l
  PROVE  Refs(g, l) \subseteq Refs(h, l)
BY DEF Pruned, Refs

\* Nothing at all is a pruning too.
LEMMA PrunedSame == ASSUME NEW h PROVE Pruned(h, h) /\ LinesKept(h, h)
BY DEF Pruned, LinesKept, SameLow

\* So is a change of gc_queue_ alone.
LEMMA AlikePruned ==
  ASSUME NEW h, NEW e, Alike(h, e), e.node = h.node, e.low = h.low
  PROVE  Pruned(h, e) /\ LinesKept(h, e)
<1>1. Pruned(h, e) BY DEF Pruned, Alike, SameLow
<1>2. LinesKept(h, e) BY AlikeLine DEF LinesKept
<1> QED BY <1>1, <1>2

\* A low node counts nobody when nobody refers to it.
LEMMA ParentlessIs ==
  ASSUME NEW h, Tree(h), NEW l \in LiveLow(h)
  PROVE  Parentless(h, l) <=> Refs(h, l) = {}
<1>1. h.low[l].parents = Cardinality(Refs(h, l)) BY DEF Tree
<1> QED BY <1>1, RefsFinite DEF Parentless

\* Low nodes that are not of the line may lose their children, or die.
LEMMA PruneLine ==
  ASSUME NEW h, Tree(h), NEW g, NEW L, L \subseteq LiveLow(h),
         g.gamebegin = h.gamebegin, LiveNodes(g) = LiveNodes(h) \ Orphans(h, L, {}),
         \A n \in LiveNodes(g) : g.node[n] = h.node[n],
         \A l \in LiveLow(h) \ L :
           l \in LiveLow(g) /\ SameLow(h, g, l) /\ g.low[l].children = h.low[l].children,
         NEW path, NEW line, Len(line) \in Nat, NEW head, Line(h, path, line, head),
         \A i \in 1 .. Len(line) : LineLow(h, path, i) \notin L
  PROVE  Line(g, path, line, head)
<1>1. /\ \A i \in 0 .. Len(line) : path[i] \in LiveNodes(h)
      /\ path[0] = h.gamebegin
      /\ \A i \in 1 .. Len(line) :
           /\ LineLow(h, path, i) \in LiveLow(h)
           /\ path[i] \in h.low[LineLow(h, path, i)].children
  BY LineNodes
<1>2. /\ h.gamebegin \notin Orphans(h, L, {})
      /\ \A l \in LiveLow(h) \ L : h.low[l].children \cap Orphans(h, L, {}) = {}
  BY OrphansAre
<1>3. ASSUME NEW i \in 0 .. Len(line) PROVE path[i] \in LiveNodes(g)
  <2>1. CASE i = 0 BY <1>1, <1>2, <2>1
  <2>2. CASE i # 0
    <3>1. i \in 1 .. Len(line) BY <2>2
    <3>2. LineLow(h, path, i) \in LiveLow(h) \ L BY <1>1, <3>1
    <3>3. path[i] \in h.low[LineLow(h, path, i)].children BY <1>1, <3>1
    <3> QED BY <1>1, <1>2, <3>2, <3>3
  <2> QED BY <2>1, <2>2
<1>4. \A i \in 0 .. Len(line) : g.node[path[i]] = h.node[path[i]] BY <1>3
<1>5. ASSUME NEW i \in 1 .. Len(line)
      PROVE LET l == LineLow(h, path, i) IN
            /\ LineLow(g, path, i) = l /\ l \in LiveLow(g)
            /\ g.low[l].hash = h.low[l].hash /\ g.low[l].is_tt = h.low[l].is_tt
            /\ g.low[l].children = h.low[l].children
  <2>1. i - 1 \in 0 .. Len(line) OBVIOUS
  <2>2. LineLow(g, path, i) = LineLow(h, path, i) BY <1>4, <2>1 DEF LineLow
  <2>3. LineLow(h, path, i) \in LiveLow(h) \ L BY <1>1
  <2> QED BY <2>2, <2>3 DEF SameLow
<1> QED BY <1>3, <1>4, <1>5, LineKept

\* The low nodes L lost their children, and themselves perhaps, and nothing else is new.
Bereft(h, g, L) ==
  /\ L \subseteq LiveLow(h) /\ g.gamebegin = h.gamebegin
  /\ LiveNodes(g) = LiveNodes(h) \ Orphans(h, L, {})
  /\ \A n \in LiveNodes(g) : g.node[n] = h.node[n]
  /\ \A l \in LiveLow(h) \ L :
       l \in LiveLow(g) /\ SameLow(h, g, l) /\ g.low[l].children = h.low[l].children

\* Low nodes that nobody refers to are of no line.
LEMMA PruneLines ==
  ASSUME NEW h, Tree(h), NEW g, NEW L, Bereft(h, g, L), \A l \in L : Refs(h, l) = {}
  PROVE  LinesKept(h, g)
<1> SUFFICES ASSUME NEW path, NEW line, NEW head, Len(line) \in Nat, Line(h, path, line, head)
             PROVE  Line(g, path, line, head)
  BY DEF LinesKept
<1>1. \A i \in 1 .. Len(line) : path[i - 1] \in Refs(h, LineLow(h, path, i)) BY LineNodes
<1>2. \A i \in 1 .. Len(line) : LineLow(h, path, i) \notin L BY <1>1
<1> QED BY <1>2, PruneLine DEF Bereft

\* One low node that nobody refers to releases its children.
LEMMA ReleaseOne ==
  ASSUME NEW h, Sane(h), NEW l \in LiveLow(h), Refs(h, l) = {},
         NEW g, g = ReleaseChildren(h, l)
  PROVE  /\ Sane(g) /\ Pruned(h, g) /\ LinesKept(h, g) /\ LiveLow(g) = LiveLow(h)
         /\ g.tt = h.tt /\ g.nonTT = h.nonTT
<1> DEFINE e == Enqueue(h, h.low[l].children)
<1>1. h.low[l].children \subseteq LiveNodes(h) BY DEF Sane, Tree, Family
<1>2. Alike(h, e) /\ e.low = h.low /\ e.node = h.node BY <1>1, EnqueueAlike DEF Sane
<1>3. g = KeepChildren(e, {l}, {}) BY DEF ReleaseChildren
<1> HIDE DEF e
<1>4. Tree(e) /\ Table(e) /\ NonTT(e) /\ Refs(e, l) = {} BY <1>2, AlikeSane DEF Sane
<1>5. l \in LiveLow(e) BY <1>2 DEF Alike
<1>6. ThinnedTree(e, {l}, {}, g) BY <1>3, <1>4, <1>5, KeepChildrenSane
<1>7. /\ Tree(g) /\ Table(g) /\ NonTT(g)
      /\ LiveNodes(g) = LiveNodes(e) \ Orphans(e, {l}, {}) /\ LiveLow(g) = LiveLow(e)
      /\ \A n \in LiveNodes(g) : g.node[n] = e.node[n]
      /\ \A k \in LiveLow(g) : SameLow(e, g, k)
      /\ \A k \in LiveLow(g) : g.low[k].children = KeptChildren(e, {l}, {}, k)
      /\ g.gamebegin = e.gamebegin /\ g.tt = e.tt /\ g.nonTT = e.nonTT
  BY <1>4, <1>6 DEF ThinnedTree
<1>8. Pruned(e, g) BY <1>7 DEF Pruned, KeptChildren
<1>9. LinesKept(e, g)
  <2>1. \A k \in LiveLow(e) \ {l} :
          k \in LiveLow(g) /\ SameLow(e, g, k) /\ g.low[k].children = e.low[k].children
    BY <1>7 DEF KeptChildren
  <2>2. Bereft(e, g, {l}) BY <1>5, <1>7, <2>1 DEF Bereft
  <2> QED BY <1>4, <2>2, PruneLines
<1>10. Pruned(h, e) /\ LinesKept(h, e) BY <1>2, AlikePruned
<1>11. Pruned(h, g) /\ LinesKept(h, g) BY <1>8, <1>9, <1>10, PrunedTrans
<1> QED BY <1>2, <1>7, <1>11 DEF Alike, Sane

\* One low node of non_tt_ that nobody refers to dies.
LEMMA DestroyOne ==
  ASSUME NEW h, Tree(h), NEW l \in LiveLow(h), Refs(h, l) = {},
         NEW g, g = DestroyLows(h, {l})
  PROVE  /\ Tree(g) /\ Pruned(h, g) /\ LinesKept(h, g) /\ LiveLow(g) = LiveLow(h) \ {l}
         /\ g.tt = h.tt /\ g.nonTT = h.nonTT /\ g.gcQueue = h.gcQueue
         /\ g = [node |-> g.node, low |-> g.low, gamebegin |-> g.gamebegin, tt |-> g.tt,
                 nonTT |-> g.nonTT, gcQueue |-> g.gcQueue]
<1>h. h \in Heap BY DEF Tree
<1>1. Destroyed(h, {l}, g) BY <1>h, DestroyLowsFields
<1>2. Tree(g) BY DestroyLowsTree
<1>3. /\ g.gamebegin = h.gamebegin /\ g.tt = h.tt /\ g.nonTT = h.nonTT
      /\ g.gcQueue = h.gcQueue
      /\ LiveNodes(g) = LiveNodes(h) \ Orphans(h, {l}, {})
      /\ LiveLow(g) = LiveLow(h) \ {l}
      /\ \A n \in LiveNodes(g) : g.node[n] = h.node[n]
      /\ \A k \in LiveLow(g) : SameLow(h, g, k) /\ g.low[k].children = h.low[k].children
  BY <1>1, Zenon DEF Destroyed
<1>4. Pruned(h, g) BY <1>3 DEF Pruned
<1>5. LinesKept(h, g)
  <2>1. \A k \in LiveLow(h) \ {l} :
          k \in LiveLow(g) /\ SameLow(h, g, k) /\ g.low[k].children = h.low[k].children
    BY <1>3
  <2>2. Bereft(h, g, {l}) BY <1>3, <2>1 DEF Bereft
  <2> QED BY <2>2, PruneLines
<1>6. g \in Heap BY <1>2 DEF Tree
<1> QED BY <1>2, <1>3, <1>4, <1>5, <1>6, HeapFields
-----------------------------------------------------------------------------
(* The two passes of NonTTMaintenance. *)

ReleaseTurn(h, turn, i) ==
  IF i = 0 THEN h
  ELSE LET g == turn[i - 1]
           l == h.nonTT[i]
       IN  IF Parentless(g, l) THEN ReleaseChildren(g, l) ELSE g

\* The first pass of NonTTMaintenance: the fold over non_tt_ is a function on 0..m.
LEMMA ReleaseTurnsExist ==
  ASSUME NEW h, NEW m \in Nat
  PROVE  \E f : f = [i \in 0..m |-> ReleaseTurn(h, f, i)]
<1> DEFINE N == {j \in Nat : \E f : f = [i \in 0..j |-> ReleaseTurn(h, f, i)]}
<1>1. 0 \in N
  <2> DEFINE f == [i \in 0..0 |-> h]
  <2>1. \A i \in 0..0 : ReleaseTurn(h, f, i) = h BY DEF ReleaseTurn
  <2>2. f = [i \in 0..0 |-> ReleaseTurn(h, f, i)] BY <2>1, Zenon
  <2> QED BY <2>2
<1>2. ASSUME NEW j \in Nat, j \in N PROVE j + 1 \in N
  <2>1. PICK f : f = [i \in 0..j |-> ReleaseTurn(h, f, i)] BY <1>2
  <2> DEFINE k == [i \in 0..(j + 1) |-> ReleaseTurn(h, f, i)]
  <2>2. ASSUME NEW i \in 0..(j + 1) PROVE ReleaseTurn(h, k, i) = ReleaseTurn(h, f, i)
    <3>1. CASE i = 0 BY <3>1 DEF ReleaseTurn
    <3>2. CASE i # 0
      <4>1. i - 1 \in 0..j /\ i - 1 \in 0..(j + 1) BY <3>2
      <4>2. f[i - 1] = ReleaseTurn(h, f, i - 1) BY <2>1, <4>1, Zenon
      <4>3. k[i - 1] = ReleaseTurn(h, f, i - 1) BY <4>1
      <4>4. k[i - 1] = f[i - 1] BY <4>2, <4>3, Zenon
      <4> HIDE DEF k
      <4> QED BY <3>2, <4>4, Zenon DEF ReleaseTurn
    <3> QED BY <3>1, <3>2
  <2>3. k = [i \in 0..(j + 1) |-> ReleaseTurn(h, k, i)] BY <2>2, Zenon
  <2> HIDE DEF k
  <2> QED BY <2>3
<1> HIDE DEF N
<1>3. m \in N BY <1>1, <1>2, NatSet
<1> QED BY <1>3 DEF N

\* Low nodes that were parentless at their turn have no children any more.
Released(h, g) ==
  /\ Sane(g) /\ Pruned(h, g) /\ LinesKept(h, g) /\ LiveLow(g) = LiveLow(h)
  /\ g.tt = h.tt /\ g.nonTT = h.nonTT

\* The first pass keeps a heap sane and frees no low node.
LEMMA ReleaseParentlessIs ==
  ASSUME NEW h, Sane(h)
  PROVE  Released(h, ReleaseParentless(h))
<1> DEFINE n == Len(h.nonTT)
           f == CHOOSE f : f = [i \in 0..n |-> ReleaseTurn(h, f, i)]
<1>h. h \in Heap /\ h.nonTT \in Seq(LowNodes) BY HeapFields DEF Sane, Tree
<1>1. n \in Nat /\ DOMAIN h.nonTT = 1..n BY <1>h
<1>2. f = [i \in 0..n |-> ReleaseTurn(h, f, i)]
  <2>1. \E k : k = [i \in 0..n |-> ReleaseTurn(h, k, i)] BY <1>1, ReleaseTurnsExist, Zenon
  <2> QED BY <2>1, Zenon
<1>3. ReleaseParentless(h) = f[n] BY Zenon DEF ReleaseParentless, ReleaseTurn
<1> HIDE DEF f
<1>4. \A i \in 0..n : f[i] = ReleaseTurn(h, f, i) BY <1>2, Zenon
<1> HIDE DEF n
<1> DEFINE Z == {i \in Nat : i <= n => Released(h, f[i])}
<1>5. 0 \in Z
  <2>1. f[0] = h BY <1>1, <1>4 DEF ReleaseTurn
  <2>2. Released(h, h) BY PrunedSame DEF Released
  <2> QED BY <2>1, <2>2
<1>6. ASSUME NEW j \in Nat, j \in Z PROVE j + 1 \in Z
  <2> SUFFICES ASSUME j + 1 <= n PROVE Released(h, f[j + 1])
    OBVIOUS
  <2> DEFINE g == f[j]
             l == h.nonTT[j + 1]
  <2>1. j + 1 \in 0..n /\ j + 1 # 0 /\ (j + 1) - 1 = j /\ j <= n /\ j + 1 \in 1..n BY <1>1
  <2>2. f[j + 1] = IF Parentless(g, l) THEN ReleaseChildren(g, l) ELSE g
    BY <1>4, <2>1 DEF ReleaseTurn
  <2>3. Released(h, g) BY <1>6, <2>1
  <2>4. l \in LiveLow(h) BY <1>1, <2>1 DEF Sane, NonTT
  <2> HIDE DEF Z, g, l
  <2>5. Sane(g) /\ l \in LiveLow(g) BY <2>3, <2>4 DEF Released
  <2>6. CASE Parentless(g, l)
    <3> DEFINE k == ReleaseChildren(g, l)
    <3>1. Refs(g, l) = {} BY <2>5, <2>6, ParentlessIs DEF Sane
    <3>2. /\ Sane(k) /\ Pruned(g, k) /\ LinesKept(g, k) /\ LiveLow(k) = LiveLow(g)
          /\ k.tt = g.tt /\ k.nonTT = g.nonTT
      BY <2>5, <3>1, ReleaseOne
    <3>3. f[j + 1] = k BY <2>2, <2>6
    <3> HIDE DEF k
    <3>4. Released(h, k) BY <2>3, <3>2, PrunedTrans DEF Released
    <3> QED BY <3>3, <3>4
  <2>7. CASE ~ Parentless(g, l) BY <2>2, <2>3, <2>7
  <2> QED BY <2>6, <2>7
<1> HIDE DEF Z
<1>7. n \in Z BY <1>1, <1>5, <1>6, NatSet
<1> QED BY <1>1, <1>3, <1>7 DEF Z

EraseTurn(h, turn, i) ==
  IF i = 0 THEN [h EXCEPT !.nonTT = <<>>]
  ELSE LET g == turn[i - 1]
           l == h.nonTT[i]
       IN  IF Parentless(g, l) THEN DestroyLows(g, {l})
           ELSE [g EXCEPT !.nonTT = Append(@, l)]

\* The second pass: the fold over non_tt_ is a function on 0..m.
LEMMA EraseTurnsExist ==
  ASSUME NEW h, NEW m \in Nat
  PROVE  \E f : f = [i \in 0..m |-> EraseTurn(h, f, i)]
<1> DEFINE N == {j \in Nat : \E f : f = [i \in 0..j |-> EraseTurn(h, f, i)]}
<1>1. 0 \in N
  <2> DEFINE f == [i \in 0..0 |-> [h EXCEPT !.nonTT = <<>>]]
  <2>1. \A i \in 0..0 : EraseTurn(h, f, i) = [h EXCEPT !.nonTT = <<>>] BY DEF EraseTurn
  <2>2. f = [i \in 0..0 |-> EraseTurn(h, f, i)] BY <2>1, Zenon
  <2> QED BY <2>2
<1>2. ASSUME NEW j \in Nat, j \in N PROVE j + 1 \in N
  <2>1. PICK f : f = [i \in 0..j |-> EraseTurn(h, f, i)] BY <1>2
  <2> DEFINE k == [i \in 0..(j + 1) |-> EraseTurn(h, f, i)]
  <2>2. ASSUME NEW i \in 0..(j + 1) PROVE EraseTurn(h, k, i) = EraseTurn(h, f, i)
    <3>1. CASE i = 0 BY <3>1 DEF EraseTurn
    <3>2. CASE i # 0
      <4>1. i - 1 \in 0..j /\ i - 1 \in 0..(j + 1) BY <3>2
      <4>2. f[i - 1] = EraseTurn(h, f, i - 1) BY <2>1, <4>1, Zenon
      <4>3. k[i - 1] = EraseTurn(h, f, i - 1) BY <4>1
      <4>4. k[i - 1] = f[i - 1] BY <4>2, <4>3, Zenon
      <4> HIDE DEF k
      <4> QED BY <3>2, <4>4, Zenon DEF EraseTurn
    <3> QED BY <3>1, <3>2
  <2>3. k = [i \in 0..(j + 1) |-> EraseTurn(h, k, i)] BY <2>2, Zenon
  <2> HIDE DEF k
  <2> QED BY <2>3
<1> HIDE DEF N
<1>3. m \in N BY <1>1, <1>2, NatSet
<1> QED BY <1>3 DEF N

\* The owners of low nodes are none of the tree's business.
Reowned(g, k) ==
  /\ Tree(k) /\ Pruned(g, k) /\ LinesKept(g, k)
  /\ LiveNodes(k) = LiveNodes(g) /\ LiveLow(k) = LiveLow(g)
  /\ k.node = g.node /\ k.low = g.low /\ k.gamebegin = g.gamebegin
  /\ \A l : Refs(k, l) = Refs(g, l)

\* A tree whose table, non_tt_ and queue are replaced is that tree.
LEMMA ReownedIs ==
  ASSUME NEW g, Tree(g), NEW T, NEW N, NEW Q,
         T \in [Positions -> LowNodes \cup {None}], N \in Seq(LowNodes), Q \in SUBSET Positions,
         NEW k, k = [node |-> g.node, low |-> g.low, gamebegin |-> g.gamebegin, tt |-> T,
                     nonTT |-> N, gcQueue |-> Q]
  PROVE  Reowned(g, k) /\ k.tt = T /\ k.nonTT = N /\ k.gcQueue = Q
<1>1. /\ k.node = g.node /\ k.low = g.low /\ k.gamebegin = g.gamebegin /\ k.tt = T
      /\ k.nonTT = N /\ k.gcQueue = Q
  OBVIOUS
<1>2. LiveNodes(k) = LiveNodes(g) /\ LiveLow(k) = LiveLow(g) BY <1>1 DEF LiveNodes, LiveLow
<1>3. \A l : Refs(k, l) = Refs(g, l) BY <1>1, <1>2 DEF Refs
<1>4. k \in Heap
  <2>1. g \in Heap BY DEF Tree
  <2>2. k = [node |-> k.node, low |-> k.low, gamebegin |-> k.gamebegin, tt |-> k.tt,
             nonTT |-> k.nonTT, gcQueue |-> k.gcQueue]
    BY <1>1
  <2> QED BY <1>1, <2>1, <2>2, HeapFields, HeapIs
<1>5. \A l \in LiveLow(g) : Family(g, l) => Family(k, l)
  BY <1>1, <1>2 DEF Family, LeadsTo
<1>6. Tree(k)
  <2>1. \A l \in LiveLow(k) : Family(k, l) /\ k.low[l].parents = Cardinality(Refs(k, l))
    BY <1>1, <1>2, <1>3, <1>5 DEF Tree
  <2>2. k.gamebegin # None => LeadsTo(k, k.gamebegin, Start) BY <1>1 DEF Tree, LeadsTo
  <2>3. \A n \in LiveNodes(k) : k.node[n].low \in LiveLow(k) \cup {None} BY <1>1, <1>2 DEF Tree
  <2>4. \A n \in LiveNodes(k) \ {k.gamebegin} : \E l \in LiveLow(k) : n \in k.low[l].children
    BY <1>1, <1>2 DEF Tree
  <2>5. \A j, l \in LiveLow(k), c \in Nodes :
           c \in k.low[j].children /\ c \in k.low[l].children => j = l
    BY <1>1, <1>2 DEF Tree
  <2>6. k.gamebegin \in LiveNodes(k) \cup {None} BY <1>1, <1>2 DEF Tree
  <2> QED BY <1>4, <2>1, <2>2, <2>3, <2>4, <2>5, <2>6 DEF Tree
<1>7. Pruned(g, k) BY <1>1, <1>2 DEF Pruned, SameLow
<1>8. LinesKept(g, k)
  <2>1. \A path, line, i : Link(g, path, line, i) => Link(k, path, line, i)
    BY <1>1, <1>2, Zenon DEF Link
  <2>2. \A path, line, head : Line(g, path, line, head) => Line(k, path, line, head)
    BY <1>1, <1>2, <2>1, Zenon DEF Line
  <2> QED BY <2>2 DEF LinesKept
<1> QED BY <1>1, <1>2, <1>3, <1>6, <1>7, <1>8 DEF Reowned

\* After the first i of non_tt_ had their turn.
ErasedUpTo(h, g, i) ==
  /\ Tree(g) /\ Table(g) /\ Pruned(h, g) /\ LinesKept(h, g) /\ g.tt = h.tt
  /\ \A l \in LiveLow(h) : h.low[l].is_tt => l \in LiveLow(g)
  /\ \A k \in DOMAIN h.nonTT : k > i => h.nonTT[k] \in LiveLow(g)
  /\ \A j \in DOMAIN g.nonTT :
       g.nonTT[j] \in LiveLow(g) /\ \E k \in DOMAIN h.nonTT : k <= i /\ g.nonTT[j] = h.nonTT[k]
  /\ \A j, k \in DOMAIN g.nonTT : g.nonTT[j] = g.nonTT[k] => j = k
  /\ \A k \in DOMAIN h.nonTT :
       k <= i /\ h.nonTT[k] \in LiveLow(g) => \E j \in DOMAIN g.nonTT : g.nonTT[j] = h.nonTT[k]
  /\ \A k \in DOMAIN h.nonTT : k <= i /\ Refs(h, h.nonTT[k]) = {} => h.nonTT[k] \notin LiveLow(g)

\* Before its first turn the second pass has erased nothing.
LEMMA EraseFirst ==
  ASSUME NEW h, Sane(h), NEW g, g = [h EXCEPT !.nonTT = <<>>]
  PROVE  ErasedUpTo(h, g, 0)
<1>h. h \in Heap BY DEF Sane, Tree
<1>1. g = [node |-> h.node, low |-> h.low, gamebegin |-> h.gamebegin, tt |-> h.tt,
           nonTT |-> <<>>, gcQueue |-> h.gcQueue]
  BY <1>h, HeapFields
<1>2. Reowned(h, g) /\ g.tt = h.tt /\ g.nonTT = <<>>
  <2>1. <<>> \in Seq(LowNodes) OBVIOUS
  <2>2. Tree(h) BY DEF Sane
  <2>3. h.tt \in [Positions -> LowNodes \cup {None}] /\ h.gcQueue \in SUBSET Positions
    BY <1>h, HeapFields
  <2> DEFINE N == <<>>
  <2>4. N \in Seq(LowNodes) /\ g = [node |-> h.node, low |-> h.low, gamebegin |-> h.gamebegin,
                                   tt |-> h.tt, nonTT |-> N, gcQueue |-> h.gcQueue]
    BY <1>1, <2>1
  <2>5. N = <<>> OBVIOUS
  <2> HIDE DEF N
  <2>6. Reowned(h, g) /\ g.tt = h.tt /\ g.nonTT = N BY ONLY <2>2, <2>3, <2>4, ReownedIs
  <2> QED BY <2>5, <2>6
<1>3. Table(g)
  <2>1. \A l \in LiveLow(g) : SameLow(h, g, l) BY <1>2 DEF SameLow, Reowned
  <2>2. LiveLow(g) \subseteq LiveLow(h) BY <1>2 DEF Reowned
  <2>3. \A p \in Positions : g.tt[p] # None => g.tt[p] = h.tt[p] /\ g.tt[p] \in LiveLow(g)
    BY <1>2 DEF Sane, Table, Reowned
  <2>4. \A p \in Positions : h.tt[p] \in LiveLow(g) => g.tt[p] = h.tt[p] BY <1>2
  <2>5. Table(h) BY DEF Sane
  <2> QED BY <1>h, <2>1, <2>2, <2>3, <2>4, <2>5, TableKept
<1>4. DOMAIN g.nonTT = {} BY <1>2
<1>5. h.nonTT \in Seq(LowNodes) BY <1>h, HeapFields
<1>6. \A k \in DOMAIN h.nonTT : ~ (k <= 0) BY <1>5
<1>7. \A k \in DOMAIN h.nonTT : h.nonTT[k] \in LiveLow(g) BY <1>2 DEF Sane, NonTT, Reowned
<1> QED BY <1>2, <1>3, <1>4, <1>6, <1>7 DEF ErasedUpTo, Reowned

\* One more has its turn and dies,
LEMMA EraseDead ==
  ASSUME NEW h, Sane(h), NEW g, NEW i \in Nat, i + 1 \in DOMAIN h.nonTT, ErasedUpTo(h, g, i),
         Parentless(g, h.nonTT[i + 1]), NEW f, f = DestroyLows(g, {h.nonTT[i + 1]})
  PROVE  ErasedUpTo(h, f, i + 1)
<1> DEFINE l == h.nonTT[i + 1]
<1>h. h.nonTT \in Seq(LowNodes) BY HeapFields DEF Sane, Tree
<1>1. /\ Tree(g) /\ Table(g) /\ Pruned(h, g) /\ LinesKept(h, g) /\ g.tt = h.tt
      /\ \A k \in LiveLow(h) : h.low[k].is_tt => k \in LiveLow(g)
      /\ \A k \in DOMAIN h.nonTT : k > i => h.nonTT[k] \in LiveLow(g)
      /\ \A j \in DOMAIN g.nonTT :
           g.nonTT[j] \in LiveLow(g) /\ \E k \in DOMAIN h.nonTT : k <= i /\ g.nonTT[j] = h.nonTT[k]
      /\ \A j, k \in DOMAIN g.nonTT : g.nonTT[j] = g.nonTT[k] => j = k
      /\ \A k \in DOMAIN h.nonTT :
           k <= i /\ h.nonTT[k] \in LiveLow(g) => \E j \in DOMAIN g.nonTT : g.nonTT[j] = h.nonTT[k]
      /\ \A k \in DOMAIN h.nonTT :
           k <= i /\ Refs(h, h.nonTT[k]) = {} => h.nonTT[k] \notin LiveLow(g)
  BY DEF ErasedUpTo
<1>2. \A j, k \in DOMAIN h.nonTT : h.nonTT[j] = h.nonTT[k] => j = k BY DEF Sane, NonTT
<1>3. l \in LiveLow(h) /\ ~ h.low[l].is_tt BY DEF Sane, NonTT
<1>4. l \in LiveLow(g) BY <1>1
<1>5. Refs(g, l) = {} BY <1>1, <1>4, ParentlessIs
<1> HIDE DEF l
<1>6. /\ Tree(f) /\ Pruned(g, f) /\ LinesKept(g, f) /\ LiveLow(f) = LiveLow(g) \ {l}
      /\ f.tt = g.tt /\ f.nonTT = g.nonTT
  BY <1>1, <1>4, <1>5, DestroyOne DEF l
<1>7. Pruned(h, f) /\ LinesKept(h, f) BY <1>1, <1>6, PrunedTrans
<1>8. Table(f)
  <2>1. g \in Heap BY <1>1 DEF Tree
  <2>2. ~ g.low[l].is_tt BY <1>1, <1>3, <1>4 DEF Pruned, SameLow
  <2>3. \A p \in Positions : g.tt[p] # None => g.tt[p] # l /\ g.tt[p] \in LiveLow(g)
    BY <1>1, <2>2 DEF Table
  <2>4. \A p \in Positions : f.tt[p] # None => f.tt[p] = g.tt[p] /\ f.tt[p] \in LiveLow(f)
    BY <1>6, <2>3
  <2>5. \A p \in Positions : g.tt[p] \in LiveLow(f) => f.tt[p] = g.tt[p] BY <1>6
  <2>6. LiveLow(f) \subseteq LiveLow(g) BY <1>6
  <2>7. \A k \in LiveLow(f) : SameLow(g, f, k) BY <1>6 DEF Pruned
  <2>8. Table(g) BY <1>1
  <2> QED BY <2>1, <2>4, <2>5, <2>6, <2>7, <2>8, TableKept
<1>9. \A k \in DOMAIN h.nonTT : k \in Nat BY <1>h
<1>10. ASSUME NEW k \in DOMAIN h.nonTT, k > i + 1 PROVE h.nonTT[k] \in LiveLow(f)
  <2>1. k \in Nat /\ k > i /\ k # i + 1 BY <1>9, <1>10
  <2>2. h.nonTT[k] # l BY <1>2, <2>1 DEF l
  <2>3. h.nonTT[k] \in LiveLow(g) BY <1>1, <2>1
  <2> QED BY <1>6, <2>2, <2>3
<1>11. \A j \in DOMAIN f.nonTT :
         f.nonTT[j] \in LiveLow(f) /\ \E k \in DOMAIN h.nonTT : k <= i + 1 /\ f.nonTT[j] = h.nonTT[k]
  <2> SUFFICES ASSUME NEW j \in DOMAIN f.nonTT
               PROVE  /\ f.nonTT[j] \in LiveLow(f)
                      /\ \E k \in DOMAIN h.nonTT : k <= i + 1 /\ f.nonTT[j] = h.nonTT[k]
    OBVIOUS
  <2>1. PICK k \in DOMAIN h.nonTT : k <= i /\ f.nonTT[j] = h.nonTT[k] BY <1>1, <1>6
  <2>2. f.nonTT[j] # l BY <1>2, <1>9, <2>1 DEF l
  <2>3. k <= i + 1 BY <1>9, <2>1
  <2> QED BY <1>1, <1>6, <2>1, <2>2, <2>3
<1>12. \A k \in DOMAIN h.nonTT : k <= i + 1 => k <= i \/ h.nonTT[k] = l BY <1>9 DEF l
<1>13. \A k \in DOMAIN h.nonTT :
         k <= i + 1 /\ h.nonTT[k] \in LiveLow(f) => \E j \in DOMAIN f.nonTT : f.nonTT[j] = h.nonTT[k]
  <2> SUFFICES ASSUME NEW k \in DOMAIN h.nonTT, k <= i + 1, h.nonTT[k] \in LiveLow(f)
               PROVE  \E j \in DOMAIN f.nonTT : f.nonTT[j] = h.nonTT[k]
    OBVIOUS
  <2>1. k <= i /\ h.nonTT[k] \in LiveLow(g) BY <1>6, <1>12
  <2> QED BY <1>1, <1>6, <2>1
<1>14. \A k \in DOMAIN h.nonTT :
         k <= i + 1 /\ Refs(h, h.nonTT[k]) = {} => h.nonTT[k] \notin LiveLow(f)
  <2> SUFFICES ASSUME NEW k \in DOMAIN h.nonTT, k <= i + 1, Refs(h, h.nonTT[k]) = {},
                      h.nonTT[k] \in LiveLow(f)
               PROVE  FALSE
    OBVIOUS
  <2>1. k <= i BY <1>6, <1>12
  <2> QED BY <1>1, <1>6, <2>1
<1>15. \A k \in LiveLow(h) : h.low[k].is_tt => k \in LiveLow(f) BY <1>1, <1>3, <1>6
<1>16. \A j, k \in DOMAIN f.nonTT : f.nonTT[j] = f.nonTT[k] => j = k BY <1>1, <1>6
<1>17. Tree(f) /\ f.tt = h.tt BY <1>1, <1>6
<1> QED BY <1>17, <1>7, <1>8, <1>10, <1>11, <1>13, <1>14, <1>15, <1>16, Zenon DEF ErasedUpTo

\* or stays.
LEMMA EraseStays ==
  ASSUME NEW h, Sane(h), NEW g, NEW i \in Nat, i + 1 \in DOMAIN h.nonTT, ErasedUpTo(h, g, i),
         ~ Parentless(g, h.nonTT[i + 1]),
         NEW f, f = [g EXCEPT !.nonTT = Append(@, h.nonTT[i + 1])]
  PROVE  ErasedUpTo(h, f, i + 1)
<1> DEFINE l == h.nonTT[i + 1]
<1>h. h.nonTT \in Seq(LowNodes) BY HeapFields DEF Sane, Tree
<1>1. /\ Tree(g) /\ Table(g) /\ Pruned(h, g) /\ LinesKept(h, g) /\ g.tt = h.tt
      /\ \A k \in LiveLow(h) : h.low[k].is_tt => k \in LiveLow(g)
      /\ \A k \in DOMAIN h.nonTT : k > i => h.nonTT[k] \in LiveLow(g)
      /\ \A j \in DOMAIN g.nonTT :
           g.nonTT[j] \in LiveLow(g) /\ \E k \in DOMAIN h.nonTT : k <= i /\ g.nonTT[j] = h.nonTT[k]
      /\ \A j, k \in DOMAIN g.nonTT : g.nonTT[j] = g.nonTT[k] => j = k
      /\ \A k \in DOMAIN h.nonTT :
           k <= i /\ h.nonTT[k] \in LiveLow(g) => \E j \in DOMAIN g.nonTT : g.nonTT[j] = h.nonTT[k]
      /\ \A k \in DOMAIN h.nonTT :
           k <= i /\ Refs(h, h.nonTT[k]) = {} => h.nonTT[k] \notin LiveLow(g)
  BY DEF ErasedUpTo
<1>2. \A j, k \in DOMAIN h.nonTT : h.nonTT[j] = h.nonTT[k] => j = k BY DEF Sane, NonTT
<1>4. l \in LiveLow(g) /\ l \in LowNodes BY <1>1 DEF LiveLow
<1>5. Refs(g, l) # {} BY <1>1, <1>4, ParentlessIs
<1>6. Refs(h, l) # {} BY <1>1, <1>5, PrunedRefs
<1>g. g \in Heap BY <1>1 DEF Tree
<1>7. g.nonTT \in Seq(LowNodes) BY <1>g, HeapFields
<1>f. f = [g EXCEPT !.nonTT = Append(@, l)] OBVIOUS
<1>k. i + 1 \in DOMAIN h.nonTT /\ h.nonTT[i + 1] = l OBVIOUS
<1> HIDE DEF l
<1> DEFINE N == Append(g.nonTT, l)
           m == Len(g.nonTT)
<1>8. N \in Seq(LowNodes) /\ DOMAIN N = 1..(m + 1) /\ m \in Nat /\ DOMAIN g.nonTT = 1..m
      /\ \A j \in 1..m : N[j] = g.nonTT[j] /\ N[m + 1] = l
  BY <1>4, <1>7
<1>9. Reowned(g, f) /\ f.tt = g.tt /\ f.nonTT = N
  <2>1. f = [node |-> g.node, low |-> g.low, gamebegin |-> g.gamebegin, tt |-> g.tt,
             nonTT |-> N, gcQueue |-> g.gcQueue]
    BY <1>g, <1>f, HeapFields
  <2> HIDE DEF N
  <2>2. g.tt \in [Positions -> LowNodes \cup {None}] /\ g.gcQueue \in SUBSET Positions
    BY <1>g, HeapFields
  <2>3. Tree(g) /\ N \in Seq(LowNodes) BY <1>1, <1>8
  <2> QED BY ONLY <2>1, <2>2, <2>3, ReownedIs
<1>m. N[m + 1] = l BY <1>7, <1>4
<1> HIDE DEF N, m
<1>10. Pruned(h, f) /\ LinesKept(h, f) BY <1>1, <1>9, PrunedTrans DEF Reowned
<1>11. Table(f)
  <2>1. \A k \in LiveLow(f) : SameLow(g, f, k) BY <1>9 DEF SameLow, Reowned
  <2>2. \A p \in Positions : f.tt[p] # None => f.tt[p] = g.tt[p] /\ f.tt[p] \in LiveLow(f)
    BY <1>1, <1>9 DEF Table, Reowned
  <2>3. \A p \in Positions : g.tt[p] \in LiveLow(f) => f.tt[p] = g.tt[p] BY <1>9
  <2>4. LiveLow(f) \subseteq LiveLow(g) BY <1>9 DEF Reowned
  <2>5. Table(g) BY <1>1
  <2> QED BY <1>g, <2>1, <2>2, <2>3, <2>4, <2>5, TableKept
<1>12. \A k \in DOMAIN h.nonTT : k \in Nat BY <1>h
<1>13. LiveLow(f) = LiveLow(g) BY <1>9 DEF Reowned
<1>14. ASSUME NEW j \in 1..m PROVE N[j] # l
  <2>1. PICK k \in DOMAIN h.nonTT : k <= i /\ N[j] = h.nonTT[k] BY <1>1, <1>8
  <2> QED BY <1>2, <1>12, <1>k, <2>1
<1>15. \A j \in DOMAIN f.nonTT :
         f.nonTT[j] \in LiveLow(f) /\ \E k \in DOMAIN h.nonTT : k <= i + 1 /\ f.nonTT[j] = h.nonTT[k]
  <2> SUFFICES ASSUME NEW j \in 1..(m + 1)
               PROVE  /\ N[j] \in LiveLow(g)
                      /\ \E k \in DOMAIN h.nonTT : k <= i + 1 /\ N[j] = h.nonTT[k]
    BY <1>8, <1>9, <1>13
  <2>1. CASE j = m + 1 BY <1>4, <1>k, <1>m, <2>1
  <2>2. CASE j # m + 1
    <3>1. j \in 1..m BY <1>8, <2>2
    <3>2. PICK k \in DOMAIN h.nonTT : k <= i /\ N[j] = h.nonTT[k] BY <1>1, <1>8, <3>1
    <3>3. k <= i + 1 BY <1>12, <3>2
    <3> QED BY <1>1, <1>8, <3>1, <3>2, <3>3
  <2> QED BY <2>1, <2>2
<1>16. \A j, k \in DOMAIN f.nonTT : f.nonTT[j] = f.nonTT[k] => j = k
  <2> SUFFICES ASSUME NEW j \in 1..(m + 1), NEW k \in 1..(m + 1), N[j] = N[k] PROVE j = k
    BY <1>8, <1>9
  <2>1. CASE j \in 1..m /\ k \in 1..m BY <1>1, <1>8, <2>1
  <2>2. CASE j \in 1..m /\ k = m + 1 BY <1>14, <1>m, <2>2
  <2>3. CASE k \in 1..m /\ j = m + 1 BY <1>14, <1>m, <2>3
  <2>4. \A x \in 1..(m + 1) : x \in 1..m \/ x = m + 1 BY <1>8
  <2> QED BY <2>1, <2>2, <2>3, <2>4
<1>17. \A k \in DOMAIN h.nonTT : k <= i + 1 => k <= i \/ h.nonTT[k] = l
  <2>1. \A k \in DOMAIN h.nonTT : k <= i + 1 => k <= i \/ k = i + 1 BY <1>12
  <2> QED BY <1>k, <2>1
<1>18. \A k \in DOMAIN h.nonTT :
         k <= i + 1 /\ h.nonTT[k] \in LiveLow(f) => \E j \in DOMAIN f.nonTT : f.nonTT[j] = h.nonTT[k]
  <2> SUFFICES ASSUME NEW k \in DOMAIN h.nonTT, k <= i + 1, h.nonTT[k] \in LiveLow(g)
               PROVE  \E j \in 1..(m + 1) : N[j] = h.nonTT[k]
    BY <1>8, <1>9, <1>13
  <2>1. CASE h.nonTT[k] = l
    <3>1. m + 1 \in 1..(m + 1) BY <1>8
    <3> QED BY <1>m, <2>1, <3>1
  <2>2. CASE k <= i
    <3>1. PICK j \in 1..m : g.nonTT[j] = h.nonTT[k] BY <1>1, <1>8, <2>2
    <3>2. j \in 1..(m + 1) BY <1>8
    <3> QED BY <1>8, <3>1, <3>2
  <2> QED BY <1>17, <2>1, <2>2
<1>19. \A k \in DOMAIN h.nonTT :
         k <= i + 1 /\ Refs(h, h.nonTT[k]) = {} => h.nonTT[k] \notin LiveLow(f)
  BY <1>1, <1>6, <1>13, <1>17
<1>20. \A k \in DOMAIN h.nonTT : k > i + 1 => h.nonTT[k] \in LiveLow(f)
  <2>1. \A k \in DOMAIN h.nonTT : k > i + 1 => k > i BY <1>12
  <2> QED BY <1>1, <1>13, <2>1
<1> QED BY <1>1, <1>9, <1>10, <1>11, <1>13, <1>15, <1>16, <1>18, <1>19, <1>20
        DEF ErasedUpTo, Reowned

\* What NonTTMaintenance leaves: nothing of the table dies, and whoever had no parent does.
Swept(h, g) ==
  /\ Sane(g) /\ Pruned(h, g) /\ LinesKept(h, g) /\ g.tt = h.tt
  /\ \A l \in LiveLow(h) : h.low[l].is_tt => l \in LiveLow(g)
  /\ \A l \in LiveLow(h) : ~ h.low[l].is_tt /\ Refs(h, l) = {} => l \notin LiveLow(g)

\* When all had their turn, non_tt_ owns those that are left.
LEMMA ErasedAll ==
  ASSUME NEW h, Sane(h), NEW g, ErasedUpTo(h, g, Len(h.nonTT))
  PROVE  Swept(h, g)
<1> DEFINE n == Len(h.nonTT)
<1>h. h.nonTT \in Seq(LowNodes) BY HeapFields DEF Sane, Tree
<1>1. n \in Nat /\ \A k \in DOMAIN h.nonTT : k <= n /\ ~ (k > n) BY <1>h
<1>2. /\ Tree(g) /\ Table(g) /\ Pruned(h, g) /\ LinesKept(h, g) /\ g.tt = h.tt
      /\ \A l \in LiveLow(h) : h.low[l].is_tt => l \in LiveLow(g)
      /\ \A j \in DOMAIN g.nonTT :
           g.nonTT[j] \in LiveLow(g) /\ \E k \in DOMAIN h.nonTT : k <= n /\ g.nonTT[j] = h.nonTT[k]
      /\ \A j, k \in DOMAIN g.nonTT : g.nonTT[j] = g.nonTT[k] => j = k
      /\ \A k \in DOMAIN h.nonTT :
           k <= n /\ h.nonTT[k] \in LiveLow(g) => \E j \in DOMAIN g.nonTT : g.nonTT[j] = h.nonTT[k]
      /\ \A k \in DOMAIN h.nonTT : k <= n /\ Refs(h, h.nonTT[k]) = {} => h.nonTT[k] \notin LiveLow(g)
  BY DEF ErasedUpTo
<1>3. /\ \A k \in DOMAIN h.nonTT : ~ h.low[h.nonTT[k]].is_tt
      /\ \A l \in LiveLow(h) : ~ h.low[l].is_tt => \E k \in DOMAIN h.nonTT : h.nonTT[k] = l
  BY DEF Sane, NonTT
<1>4. \A l \in LiveLow(g) : l \in LiveLow(h) /\ g.low[l].is_tt = h.low[l].is_tt
  BY <1>2 DEF Pruned, SameLow
<1> HIDE DEF n
<1>5. NonTT(g)
  <2>1. \A j \in DOMAIN g.nonTT : g.nonTT[j] \in LiveLow(g) /\ ~ g.low[g.nonTT[j]].is_tt
    BY <1>2, <1>3, <1>4
  <2>2. ASSUME NEW l \in LiveLow(g), ~ g.low[l].is_tt
        PROVE  \E j \in DOMAIN g.nonTT : g.nonTT[j] = l
    <3>1. PICK k \in DOMAIN h.nonTT : h.nonTT[k] = l BY <1>3, <1>4, <2>2
    <3> QED BY <1>1, <1>2, <3>1
  <2> QED BY <1>2, <2>1, <2>2 DEF NonTT
<1>6. ASSUME NEW l \in LiveLow(h), ~ h.low[l].is_tt, Refs(h, l) = {}
      PROVE  l \notin LiveLow(g)
  <2>1. PICK k \in DOMAIN h.nonTT : h.nonTT[k] = l BY <1>3, <1>6
  <2> QED BY <1>1, <1>2, <1>6, <2>1
<1> QED BY <1>2, <1>5, <1>6 DEF Swept, Sane

\* The second pass frees the low nodes that had no parent, and nothing of the table.
LEMMA EraseParentlessIs ==
  ASSUME NEW h, Sane(h)
  PROVE  Swept(h, EraseParentless(h))
<1> DEFINE n == Len(h.nonTT)
           f == CHOOSE f : f = [i \in 0..n |-> EraseTurn(h, f, i)]
<1>h. h \in Heap /\ h.nonTT \in Seq(LowNodes) BY HeapFields DEF Sane, Tree
<1>1. n \in Nat /\ DOMAIN h.nonTT = 1..n BY <1>h
<1>2. f = [i \in 0..n |-> EraseTurn(h, f, i)]
  <2>1. \E k : k = [i \in 0..n |-> EraseTurn(h, k, i)] BY <1>1, EraseTurnsExist, Zenon
  <2> QED BY <2>1, Zenon
<1>3. EraseParentless(h) = f[n] BY Zenon DEF EraseParentless, EraseTurn
<1>n. n = Len(h.nonTT) OBVIOUS
<1> HIDE DEF f
<1>4. \A i \in 0..n : f[i] = EraseTurn(h, f, i) BY <1>2, Zenon
<1> HIDE DEF n
<1> DEFINE Z == {i \in Nat : i <= n => ErasedUpTo(h, f[i], i)}
<1>5. 0 \in Z
  <2>1. 0 \in 0..n BY <1>1
  <2>2. f[0] = [h EXCEPT !.nonTT = <<>>] BY <1>4, <2>1 DEF EraseTurn
  <2> HIDE DEF Z
  <2>3. ErasedUpTo(h, f[0], 0) BY <2>2, EraseFirst
  <2> QED BY <2>3 DEF Z
<1>6. ASSUME NEW j \in Nat, j \in Z PROVE j + 1 \in Z
  <2> SUFFICES ASSUME j + 1 <= n PROVE ErasedUpTo(h, f[j + 1], j + 1)
    OBVIOUS
  <2> DEFINE g == f[j]
             l == h.nonTT[j + 1]
  <2>1. j + 1 \in 0..n /\ j + 1 # 0 /\ (j + 1) - 1 = j /\ j <= n /\ j + 1 \in 1..n BY <1>1
  <2>2. f[j + 1] = IF Parentless(g, l) THEN DestroyLows(g, {l})
                   ELSE [g EXCEPT !.nonTT = Append(@, l)]
    BY <1>4, <2>1, Zenon DEF EraseTurn
  <2>3. ErasedUpTo(h, g, j) BY <1>6, <2>1
  <2>4. j + 1 \in DOMAIN h.nonTT BY <1>1, <2>1
  <2> HIDE DEF Z, g
  <2>5. CASE Parentless(g, l)
    <3>1. f[j + 1] = DestroyLows(g, {l}) BY <2>2, <2>5
    <3> QED BY <2>3, <2>4, <2>5, <3>1, EraseDead
  <2>6. CASE ~ Parentless(g, l)
    <3>1. f[j + 1] = [g EXCEPT !.nonTT = Append(@, l)] BY <2>2, <2>6
    <3> QED BY <2>3, <2>4, <2>6, <3>1, EraseStays
  <2> QED BY <2>5, <2>6
<1> HIDE DEF Z
<1>7. n \in Z BY <1>1, <1>5, <1>6, NatSet
<1>8. ErasedUpTo(h, f[n], n) BY <1>1, <1>7 DEF Z
<1> QED BY <1>3, <1>8, <1>n, ErasedAll

\* So do both passes together.
LEMMA NonTTMaintenanceIs ==
  ASSUME NEW h, Sane(h)
  PROVE  Swept(h, NonTTMaintenance(h))
<1> DEFINE g == ReleaseParentless(h)
           f == EraseParentless(g)
<1>1. Released(h, g) BY ReleaseParentlessIs
<1>2. NonTTMaintenance(h) = f BY DEF NonTTMaintenance
<1> HIDE DEF g
<1>3. Swept(g, f) BY <1>1, EraseParentlessIs DEF Released
<1> HIDE DEF f
<1>4. \A l \in LiveLow(h) : l \in LiveLow(g) /\ h.low[l].is_tt = g.low[l].is_tt
  BY <1>1 DEF Released, Pruned, SameLow
<1>5. Pruned(h, f) /\ LinesKept(h, f) BY <1>1, <1>3, PrunedTrans DEF Released, Swept
<1>6. \A l : Refs(h, l) = {} => Refs(g, l) = {} BY <1>1, PrunedRefs DEF Released
<1>7. \A l \in LiveLow(h) : h.low[l].is_tt => l \in LiveLow(f) BY <1>3, <1>4 DEF Swept
<1>8. \A l \in LiveLow(h) : ~ h.low[l].is_tt /\ Refs(h, l) = {} => l \notin LiveLow(f)
  BY <1>3, <1>4, <1>6 DEF Swept
<1>9. Sane(f) /\ f.tt = h.tt BY <1>1, <1>3 DEF Released, Swept
<1>10. Swept(h, f) BY <1>5, <1>7, <1>8, <1>9 DEF Swept
<1> QED BY <1>2, <1>10
-----------------------------------------------------------------------------
(* TTMaintenance. *)

\* What a collection leaves is sane, and part of what was there.
Collected(h, g) == Sane(g) /\ Pruned(h, g) /\ LinesKept(h, g)

\* Collecting twice is collecting.
LEMMA CollectedTrans ==
  ASSUME NEW f, NEW g, NEW h, Collected(f, g), Collected(g, h)
  PROVE  Collected(f, h)
BY PrunedTrans DEF Collected

\* A parentless low node leaves the table and dies.
LEMMA EraseFromTableIs ==
  ASSUME NEW h, Sane(h), NEW p \in Positions, h.tt[p] # None, Parentless(h, h.tt[p]),
         NEW g, g = EraseFromTable(h, p)
  PROVE  Collected(h, g)
<1> DEFINE l == h.tt[p]
           f == DestroyLows(h, {l})
<1>1. l \in LiveLow(h) /\ h.low[l].is_tt /\ h.low[l].hash = p BY DEF Sane, Table
<1>2. Refs(h, l) = {} BY <1>1, ParentlessIs DEF Sane
<1>l. h.tt[p] = l OBVIOUS
<1>g. g = [f EXCEPT !.tt[p] = None] BY DEF EraseFromTable
<1> HIDE DEF l
<1>3. /\ Tree(f) /\ Pruned(h, f) /\ LinesKept(h, f) /\ LiveLow(f) = LiveLow(h) \ {l}
      /\ f.tt = h.tt /\ f.nonTT = h.nonTT
  BY <1>1, <1>2, DestroyOne DEF Sane
<1> HIDE DEF f
<1> DEFINE T == [f.tt EXCEPT ![p] = None]
<1>4. f \in Heap BY <1>3 DEF Tree
<1>5. T \in [Positions -> LowNodes \cup {None}] BY <1>4, HeapFields
<1>6. /\ \A q \in Positions : q # p => T[q] = h.tt[q]
      /\ T[p] = None
  BY <1>3, <1>4, HeapFields
<1>7. g = [node |-> f.node, low |-> f.low, gamebegin |-> f.gamebegin, tt |-> T,
           nonTT |-> f.nonTT, gcQueue |-> f.gcQueue]
  BY <1>g, <1>4, HeapFields
<1>8. f.nonTT \in Seq(LowNodes) /\ f.gcQueue \in SUBSET Positions BY <1>4, HeapFields
<1> HIDE DEF T
<1>9. Reowned(f, g) /\ g.tt = T /\ g.nonTT = f.nonTT
  <2> DEFINE N == f.nonTT
             Q == f.gcQueue
  <2>1. Tree(f) BY <1>3
  <2>2. N \in Seq(LowNodes) /\ Q \in SUBSET Positions BY <1>8
  <2>3. g = [node |-> f.node, low |-> f.low, gamebegin |-> f.gamebegin, tt |-> T,
             nonTT |-> N, gcQueue |-> Q]
    BY <1>7
  <2>4. N = f.nonTT OBVIOUS
  <2> HIDE DEF N, Q
  <2>5. Reowned(f, g) /\ g.tt = T /\ g.nonTT = N BY ONLY <2>1, <1>5, <2>2, <2>3, ReownedIs
  <2> QED BY <2>4, <2>5
<1>10. Tree(g) /\ LiveLow(g) = LiveLow(h) \ {l} BY <1>3, <1>9 DEF Reowned
<1>11. Pruned(h, g) /\ LinesKept(h, g) BY <1>3, <1>9, PrunedTrans DEF Reowned
<1>12. Table(g)
  <2>1. h \in Heap /\ Table(h) BY DEF Sane, Tree
  <2>2. LiveLow(g) \subseteq LiveLow(h) BY <1>10
  <2>3. \A k \in LiveLow(g) : SameLow(h, g, k) BY <1>11 DEF Pruned
  <2>4. \A q \in Positions : g.tt[q] # None => g.tt[q] = h.tt[q] /\ g.tt[q] \in LiveLow(g)
    <3> SUFFICES ASSUME NEW q \in Positions, g.tt[q] # None
                 PROVE  g.tt[q] = h.tt[q] /\ g.tt[q] \in LiveLow(g)
      OBVIOUS
    <3>1. q # p /\ g.tt[q] = h.tt[q] BY <1>6, <1>9
    <3>2. h.tt[q] \in LiveLow(h) /\ h.low[h.tt[q]].hash = q BY <2>1, <3>1 DEF Table
    <3>3. h.tt[q] # l BY <1>1, <3>1, <3>2
    <3> QED BY <1>10, <3>1, <3>2, <3>3
  <2>5. \A q \in Positions : h.tt[q] \in LiveLow(g) => g.tt[q] = h.tt[q]
    BY <1>6, <1>9, <1>10, <1>l
  <2> QED BY <2>1, <2>2, <2>3, <2>4, <2>5, TableKept
<1>13. NonTT(g)
  <2>1. g.nonTT = h.nonTT BY <1>3, <1>9
  <2>2. NonTT(h) BY DEF Sane
  <2>3. \A k \in LiveLow(g) : k \in LiveLow(h) /\ g.low[k].is_tt = h.low[k].is_tt
    BY <1>11 DEF Pruned, SameLow
  <2>4. \A i \in DOMAIN h.nonTT : h.nonTT[i] \in LiveLow(g)
    BY <1>1, <1>10, <2>2 DEF NonTT
  <2> QED BY <2>1, <2>2, <2>3, <2>4 DEF NonTT
<1> QED BY <1>10, <1>11, <1>12, <1>13 DEF Collected, Sane

\* One position of gc_queue_ is collected.
LEMMA CollectAtIs ==
  ASSUME NEW h, Sane(h), NEW p \in Positions
  PROVE  Collected(h, CollectAt(h, p))
<1>1. CASE h.tt[p] # None /\ Parentless(h, h.tt[p])
  BY <1>1, EraseFromTableIs DEF CollectAt
<1>2. CASE ~ (h.tt[p] # None /\ Parentless(h, h.tt[p]))
  <2>1. CollectAt(h, p) = h BY <1>2 DEF CollectAt
  <2> QED BY <2>1, PrunedSame DEF Collected
<1> QED BY <1>1, <1>2

CollectTurn(h, queue, turn, i) ==
  IF i = 0 THEN [h EXCEPT !.gcQueue = {}] ELSE CollectAt(turn[i - 1], queue[i])

\* TTMaintenance: the fold over gc_queue_ is a function on 0..m.
LEMMA CollectTurnsExist ==
  ASSUME NEW h, NEW queue, NEW m \in Nat
  PROVE  \E f : f = [i \in 0..m |-> CollectTurn(h, queue, f, i)]
<1> DEFINE N == {j \in Nat : \E f : f = [i \in 0..j |-> CollectTurn(h, queue, f, i)]}
<1>1. 0 \in N
  <2> DEFINE f == [i \in 0..0 |-> [h EXCEPT !.gcQueue = {}]]
  <2>1. \A i \in 0..0 : CollectTurn(h, queue, f, i) = [h EXCEPT !.gcQueue = {}]
    BY DEF CollectTurn
  <2>2. f = [i \in 0..0 |-> CollectTurn(h, queue, f, i)] BY <2>1, Zenon
  <2> QED BY <2>2
<1>2. ASSUME NEW j \in Nat, j \in N PROVE j + 1 \in N
  <2>1. PICK f : f = [i \in 0..j |-> CollectTurn(h, queue, f, i)] BY <1>2
  <2> DEFINE k == [i \in 0..(j + 1) |-> CollectTurn(h, queue, f, i)]
  <2>2. ASSUME NEW i \in 0..(j + 1)
        PROVE  CollectTurn(h, queue, k, i) = CollectTurn(h, queue, f, i)
    <3>1. CASE i = 0 BY <3>1 DEF CollectTurn
    <3>2. CASE i # 0
      <4>1. i - 1 \in 0..j /\ i - 1 \in 0..(j + 1) BY <3>2
      <4>2. f[i - 1] = CollectTurn(h, queue, f, i - 1) BY <2>1, <4>1, Zenon
      <4>3. k[i - 1] = CollectTurn(h, queue, f, i - 1) BY <4>1
      <4>4. k[i - 1] = f[i - 1] BY <4>2, <4>3, Zenon
      <4> HIDE DEF k
      <4> QED BY <3>2, <4>4, Zenon DEF CollectTurn
    <3> QED BY <3>1, <3>2
  <2>3. k = [i \in 0..(j + 1) |-> CollectTurn(h, queue, k, i)] BY <2>2, Zenon
  <2> HIDE DEF k
  <2> QED BY <2>3
<1> HIDE DEF N
<1>3. m \in N BY <1>1, <1>2, NatSet
<1> QED BY <1>3 DEF N

\* SetToSeq lists the elements of a set of positions.
LEMMA QueueIs ==
  ASSUME NEW S, S \subseteq Positions
  PROVE  Len(SetToSeq(S)) \in Nat /\ \A i \in 1..Len(SetToSeq(S)) : SetToSeq(S)[i] \in S
<1> DEFINE n == Cardinality(S)
<1>1. IsFiniteSet(S) BY FS_Subset, GraphAssumption
<1>2. n \in Nat /\ ExistsBijection(1..n, S) BY <1>1, FS_CardinalityType
<1>3. \E f \in [1..n -> S] : IsInjective(f)
  BY <1>2 DEF ExistsBijection, Bijection, Injection
<1>4. SetToSeq(S) \in [1..n -> S] BY <1>3, Zenon DEF SetToSeq
<1>5. SetToSeq(S) \in Seq(S) BY <1>2, <1>4
<1> QED BY <1>5

\* All of gc_queue_ is collected, and what is left is sane.
LEMMA TTMaintenanceIs ==
  ASSUME NEW h, Sane(h)
  PROVE  Collected(h, TTMaintenance(h))
<1> DEFINE q == SetToSeq(h.gcQueue)
           n == Len(q)
           f == CHOOSE f : f = [i \in 0..n |-> CollectTurn(h, q, f, i)]
<1>h. h \in Heap BY DEF Sane, Tree
<1>1. n \in Nat /\ \A i \in 1..n : q[i] \in Positions BY <1>h, HeapFields, QueueIs
<1>2. f = [i \in 0..n |-> CollectTurn(h, q, f, i)]
  <2>1. \E k : k = [i \in 0..n |-> CollectTurn(h, q, k, i)] BY <1>1, CollectTurnsExist, Zenon
  <2> QED BY <2>1, Zenon
<1>3. TTMaintenance(h) = f[n] BY Zenon DEF TTMaintenance, CollectTurn
<1> HIDE DEF f
<1>4. \A i \in 0..n : f[i] = CollectTurn(h, q, f, i) BY <1>2, Zenon
<1> HIDE DEF n, q
<1> DEFINE Z == {i \in Nat : i <= n => Collected(h, f[i])}
<1>5. 0 \in Z
  <2>1. 0 \in 0..n BY <1>1
  <2>2. f[0] = [h EXCEPT !.gcQueue = {}] BY <1>4, <2>1 DEF CollectTurn
  <2> DEFINE g == f[0]
  <2>3. g = [node |-> h.node, low |-> h.low, gamebegin |-> h.gamebegin, tt |-> h.tt,
             nonTT |-> h.nonTT, gcQueue |-> {}]
    BY <1>h, <2>2, HeapFields
  <2> HIDE DEF g
  <2>4. /\ g \in Heap /\ g.node = h.node /\ g.low = h.low /\ g.gamebegin = h.gamebegin
        /\ g.tt = h.tt /\ g.nonTT = h.nonTT
    BY <1>h, <2>3, HeapFields DEF Heap
  <2>5. Alike(h, g) BY <2>4 DEF Alike, LiveNodes, LiveLow
  <2>6. Collected(h, g) BY <2>4, <2>5, AlikeSane, AlikePruned DEF Collected, Sane
  <2> QED BY <2>6 DEF g
<1>6. ASSUME NEW j \in Nat, j \in Z PROVE j + 1 \in Z
  <2> SUFFICES ASSUME j + 1 <= n PROVE Collected(h, f[j + 1])
    OBVIOUS
  <2> DEFINE g == f[j]
  <2>1. j + 1 \in 0..n /\ j + 1 # 0 /\ (j + 1) - 1 = j /\ j <= n /\ j + 1 \in 1..n BY <1>1
  <2>2. f[j + 1] = CollectAt(g, q[j + 1]) BY <1>4, <2>1, Zenon DEF CollectTurn
  <2>3. Collected(h, g) BY <1>6, <2>1
  <2>4. q[j + 1] \in Positions BY <1>1, <2>1
  <2> HIDE DEF Z, g
  <2>5. Collected(g, f[j + 1]) BY <2>2, <2>3, <2>4, CollectAtIs DEF Collected
  <2> QED BY <2>3, <2>5, CollectedTrans
<1> HIDE DEF Z
<1>7. n \in Z BY <1>1, <1>5, <1>6, NatSet
<1> QED BY <1>1, <1>3, <1>7 DEF Z
-----------------------------------------------------------------------------
(* The positions of a game. *)

PositionTurn(line, after, i) == IF i = 0 THEN Start ELSE Succ[after[i - 1]][line[i]]

\* The fold of PositionAfter over the moves is a function on 0..m.
LEMMA PositionTurnsExist ==
  ASSUME NEW line, NEW m \in Nat
  PROVE  \E f : f = [i \in 0..m |-> PositionTurn(line, f, i)]
<1> DEFINE N == {j \in Nat : \E f : f = [i \in 0..j |-> PositionTurn(line, f, i)]}
<1>1. 0 \in N
  <2> DEFINE f == [i \in 0..0 |-> Start]
  <2>1. \A i \in 0..0 : PositionTurn(line, f, i) = Start BY DEF PositionTurn
  <2>2. f = [i \in 0..0 |-> PositionTurn(line, f, i)] BY <2>1, Zenon
  <2> QED BY <2>2
<1>2. ASSUME NEW j \in Nat, j \in N PROVE j + 1 \in N
  <2>1. PICK f : f = [i \in 0..j |-> PositionTurn(line, f, i)] BY <1>2
  <2> DEFINE k == [i \in 0..(j + 1) |-> PositionTurn(line, f, i)]
  <2>2. ASSUME NEW i \in 0..(j + 1) PROVE PositionTurn(line, k, i) = PositionTurn(line, f, i)
    <3>1. CASE i = 0 BY <3>1 DEF PositionTurn
    <3>2. CASE i # 0
      <4>1. i - 1 \in 0..j /\ i - 1 \in 0..(j + 1) BY <3>2
      <4>2. f[i - 1] = PositionTurn(line, f, i - 1) BY <2>1, <4>1, Zenon
      <4>3. k[i - 1] = PositionTurn(line, f, i - 1) BY <4>1
      <4>4. k[i - 1] = f[i - 1] BY <4>2, <4>3, Zenon
      <4> HIDE DEF k
      <4> QED BY <3>2, <4>4, Zenon DEF PositionTurn
    <3> QED BY <3>1, <3>2
  <2>3. k = [i \in 0..(j + 1) |-> PositionTurn(line, k, i)] BY <2>2, Zenon
  <2> HIDE DEF k
  <2> QED BY <2>3
<1> HIDE DEF N
<1>3. m \in N BY <1>1, <1>2, NatSet
<1> QED BY <1>3 DEF N

\* The positions that the moves of a line lead through, one after the other.
Through(line, k, f) ==
  f[0] = Start /\ \A i \in 1..k : f[i] = Succ[f[i - 1]][line[i]]

\* PositionAfter is the last position that the moves lead through.
LEMMA PositionsThrough ==
  ASSUME NEW line, Len(line) \in Nat
  PROVE  \E f : Through(line, Len(line), f) /\ PositionAfter(line) = f[Len(line)]
<1> DEFINE n == Len(line)
           f == CHOOSE f : f = [i \in 0..n |-> PositionTurn(line, f, i)]
<1>1. f = [i \in 0..n |-> PositionTurn(line, f, i)]
  <2>1. \E k : k = [i \in 0..n |-> PositionTurn(line, k, i)] BY PositionTurnsExist, Zenon
  <2> QED BY <2>1, Zenon
<1>2. PositionAfter(line) = f[n] BY Zenon DEF PositionAfter, PositionTurn
<1> HIDE DEF f
<1>3. \A i \in 0..n : f[i] = PositionTurn(line, f, i) BY <1>1, Zenon
<1>4. Through(line, n, f) BY <1>3 DEF Through, PositionTurn
<1> QED BY <1>2, <1>4

\* Lines that begin alike lead through the same positions.
LEMMA ThroughAlike ==
  ASSUME NEW s, NEW t, NEW k \in Nat, \A i \in 1..k : s[i] = t[i],
         NEW f, NEW g, Through(s, k, f), Through(t, k, g)
  PROVE  f[k] = g[k]
<1> DEFINE Z == {i \in Nat : i <= k => f[i] = g[i]}
<1>1. 0 \in Z BY DEF Through
<1>2. ASSUME NEW j \in Nat, j \in Z PROVE j + 1 \in Z
  <2> SUFFICES ASSUME j + 1 <= k PROVE f[j + 1] = g[j + 1]
    OBVIOUS
  <2>1. j + 1 \in 1..k /\ (j + 1) - 1 = j /\ f[j] = g[j] BY <1>2
  <2>2. f[j + 1] = Succ[f[j]][s[j + 1]] /\ g[j + 1] = Succ[g[j]][t[j + 1]]
    BY <2>1 DEF Through
  <2> QED BY <2>1, <2>2
<1> HIDE DEF Z
<1>3. k \in Z BY <1>1, <1>2, NatSet
<1> QED BY <1>3 DEF Z

\* After no moves the position is Start.
LEMMA PositionAfterNothing == PositionAfter(<<>>) = Start
<1>1. Len(<<>>) = 0 OBVIOUS
<1>2. PICK f : Through(<<>>, Len(<<>>), f) /\ PositionAfter(<<>>) = f[Len(<<>>)]
  BY <1>1, PositionsThrough
<1> QED BY <1>1, <1>2 DEF Through

\* The position after i moves of a line.
At(line, i) == PositionAfter(SubSeq(line, 1, i))

\* The positions after fewer moves are those that the line leads through.
LEMMA AtIs ==
  ASSUME NEW line \in Seq(Moves), NEW f, Through(line, Len(line), f)
  PROVE  \A i \in 0..Len(line) : At(line, i) = f[i]
<1> SUFFICES ASSUME NEW i \in 0..Len(line) PROVE At(line, i) = f[i]
  OBVIOUS
<1> DEFINE s == SubSeq(line, 1, i)
<1>1. i \in Nat /\ Len(s) = i /\ \A j \in 1..i : s[j] = line[j] OBVIOUS
<1>2. PICK g : Through(s, Len(s), g) /\ PositionAfter(s) = g[Len(s)]
  BY <1>1, PositionsThrough
<1> HIDE DEF s
<1>3. Through(line, i, f) BY DEF Through
<1>4. f[i] = g[i] BY <1>1, <1>2, <1>3, ThroughAlike
<1> QED BY <1>1, <1>2, <1>4 DEF At, s

\* Each of them succeeds the one before by the next move.
LEMMA AtNext ==
  ASSUME NEW line \in Seq(Moves)
  PROVE  /\ At(line, 0) = Start /\ At(line, Len(line)) = PositionAfter(line)
         /\ \A i \in 1..Len(line) : At(line, i) = Succ[At(line, i - 1)][line[i]]
<1>1. Len(line) \in Nat OBVIOUS
<1>2. PICK f : Through(line, Len(line), f) /\ PositionAfter(line) = f[Len(line)]
  BY <1>1, PositionsThrough
<1>3. \A i \in 0..Len(line) : At(line, i) = f[i] BY <1>2, AtIs
<1> QED BY <1>1, <1>2, <1>3 DEF Through

\* One move more leads one position further.
LEMMA AtAppend ==
  ASSUME NEW line \in Seq(Moves), NEW m \in Moves
  PROVE  /\ \A i \in 0..Len(line) : At(Append(line, m), i) = At(line, i)
         /\ PositionAfter(Append(line, m)) = Succ[PositionAfter(line)][m]
<1> DEFINE t == Append(line, m)
<1>1. t \in Seq(Moves) /\ Len(t) = Len(line) + 1 /\ Len(line) \in Nat /\ t[Len(line) + 1] = m
      /\ \A i \in 1..Len(line) : t[i] = line[i]
  OBVIOUS
<1> HIDE DEF t
<1>2. PICK f : Through(t, Len(t), f) /\ PositionAfter(t) = f[Len(t)]
  BY <1>1, PositionsThrough
<1>3. \A i \in 0..Len(t) : At(t, i) = f[i] BY <1>1, <1>2, AtIs
<1>4. Through(line, Len(line), f) BY <1>1, <1>2 DEF Through
<1>5. \A i \in 0..Len(line) : At(line, i) = f[i] BY <1>4, AtIs
<1>6. PositionAfter(line) = f[Len(line)] BY <1>1, <1>5, AtNext
<1>7. f[Len(t)] = Succ[f[Len(line)]][m] BY <1>1, <1>2 DEF Through
<1> QED BY <1>1, <1>2, <1>3, <1>5, <1>6, <1>7 DEF t

\* A legal line leads through positions, each of which it does not come back to.
Later(p, q) ==
  \A rank \in [Positions -> 1 .. Cardinality(Positions)] :
    (\A r \in Positions : \A m \in DOMAIN Succ[r] : rank[r] < rank[Succ[r][m]])
      => rank[p] < rank[q]

\* No position comes later than itself: the game has no cycle (GraphAssumption).
LEMMA LaterIs ==
  /\ \A p \in Positions : \A m \in DOMAIN Succ[p] : Later(p, Succ[p][m])
  /\ \A p, q, r \in Positions : Later(p, q) /\ Later(q, r) => Later(p, r)
  /\ \A p \in Positions : ~ Later(p, p)
<1>1. Cardinality(Positions) \in Nat BY GraphAssumption, FS_CardinalityType
<1>2. \A p \in Positions : \A m \in DOMAIN Succ[p] : Later(p, Succ[p][m]) BY DEF Later
<1>3. ASSUME NEW p \in Positions, NEW q \in Positions, NEW r \in Positions, Later(p, q), Later(q, r)
      PROVE  Later(p, r)
  <2> SUFFICES ASSUME NEW rank \in [Positions -> 1 .. Cardinality(Positions)],
                      \A x \in Positions : \A m \in DOMAIN Succ[x] : rank[x] < rank[Succ[x][m]]
               PROVE  rank[p] < rank[r]
    BY DEF Later
  <2>1. rank[p] < rank[q] /\ rank[q] < rank[r] BY <1>3 DEF Later
  <2>2. rank[p] \in Int /\ rank[q] \in Int /\ rank[r] \in Int BY <1>1
  <2> QED BY <2>1, <2>2
<1>4. ASSUME NEW p \in Positions PROVE ~ Later(p, p)
  <2>1. PICK rank \in [Positions -> 1 .. Cardinality(Positions)] :
          \A x \in Positions : \A m \in DOMAIN Succ[x] : rank[x] < rank[Succ[x][m]]
    BY GraphAssumption DEF Acyclic
  <2>2. rank[p] \in Int BY <1>1
  <2>3. ~ (rank[p] < rank[p]) BY <2>2
  <2> QED BY <2>1, <2>3 DEF Later
<1> QED BY <1>2, <1>3, <1>4

\* A legal line leads through positions only, by moves that are legal there.
LEMMA LegalPositions ==
  ASSUME NEW line \in Seq(Moves), Legal(line)
  PROVE  /\ \A i \in 0..Len(line) : At(line, i) \in Positions
         /\ PositionAfter(line) \in Positions
         /\ \A i \in 1..Len(line) : line[i] \in DOMAIN Succ[At(line, i - 1)]
<1> DEFINE n == Len(line)
           Z == {i \in Nat : i <= n => At(line, i) \in Positions}
<1>n. n \in Nat OBVIOUS
<1>1. \A i \in 1..n : line[i] \in DOMAIN Succ[At(line, i - 1)] BY DEF Legal, At
<1>2. At(line, 0) = Start /\ At(line, n) = PositionAfter(line)
      /\ \A i \in 1..n : At(line, i) = Succ[At(line, i - 1)][line[i]]
  BY AtNext
<1> HIDE DEF n
<1>3. 0 \in Z BY <1>2, GraphAssumption
<1>4. ASSUME NEW i \in Nat, i \in Z PROVE i + 1 \in Z
  <2> SUFFICES ASSUME i + 1 <= n PROVE At(line, i + 1) \in Positions
    OBVIOUS
  <2>1. i + 1 \in 1..n /\ (i + 1) - 1 = i /\ i <= n BY <1>n
  <2>2. At(line, i) \in Positions BY <1>4, <2>1
  <2>3. line[i + 1] \in DOMAIN Succ[At(line, i)] /\ At(line, i + 1) = Succ[At(line, i)][line[i + 1]]
    BY <1>1, <1>2, <2>1
  <2> QED BY <2>2, <2>3, GraphAssumption
<1> HIDE DEF Z
<1>5. Nat \subseteq Z BY <1>3, <1>4, NatSet
<1>6. \A i \in 0..n : At(line, i) \in Positions
  <2> SUFFICES ASSUME NEW i \in 0..n PROVE At(line, i) \in Positions
    OBVIOUS
  <2>1. i \in Nat /\ i <= n BY <1>n
  <2> QED BY <1>5, <2>1 DEF Z
<1> QED BY <1>1, <1>2, <1>6, <1>n DEF n

\* The last position of a legal line is later than the others.
LEMMA LegalLater ==
  ASSUME NEW line \in Seq(Moves), Legal(line), NEW i \in 0..Len(line), i # Len(line)
  PROVE  Later(At(line, i), PositionAfter(line))
<1> DEFINE n == Len(line)
           Z == {k \in Nat : i + 1 + k <= n => Later(At(line, i), At(line, i + 1 + k))}
<1>n. n \in Nat /\ i \in Nat /\ i + 1 <= n OBVIOUS
<1>1. /\ \A k \in 0..n : At(line, k) \in Positions
      /\ \A k \in 1..n : line[k] \in DOMAIN Succ[At(line, k - 1)]
  BY LegalPositions
<1>2. At(line, n) = PositionAfter(line)
      /\ \A k \in 1..n : At(line, k) = Succ[At(line, k - 1)][line[k]]
  BY AtNext
<1> HIDE DEF n
<1>3. \A k \in 1..n : Later(At(line, k - 1), At(line, k))
  <2> SUFFICES ASSUME NEW k \in 1..n PROVE Later(At(line, k - 1), At(line, k))
    OBVIOUS
  <2>1. k - 1 \in 0..n BY <1>n
  <2> QED BY <1>1, <1>2, <2>1, LaterIs
<1>4. 0 \in Z
  <2>1. i + 1 + 0 \in 1..n /\ (i + 1 + 0) - 1 = i BY <1>n
  <2> QED BY <1>3, <2>1
<1>5. ASSUME NEW k \in Nat, k \in Z PROVE k + 1 \in Z
  <2> SUFFICES ASSUME i + 1 + (k + 1) <= n PROVE Later(At(line, i), At(line, i + 1 + (k + 1)))
    OBVIOUS
  <2> DEFINE j == i + 1 + k
  <2>1. j <= n /\ j + 1 = i + 1 + (k + 1) /\ j + 1 \in 1..n /\ (j + 1) - 1 = j /\ j \in 0..n
        /\ j + 1 \in 0..n /\ i \in 0..n
    BY <1>n
  <2>2. Later(At(line, i), At(line, j)) BY <1>5, <2>1
  <2> HIDE DEF j, Z
  <2>3. Later(At(line, j), At(line, j + 1)) BY <1>3, <2>1
  <2>4. At(line, i) \in Positions /\ At(line, j) \in Positions /\ At(line, j + 1) \in Positions
    BY <1>1, <2>1
  <2>5. Later(At(line, i), At(line, j + 1)) BY <2>2, <2>3, <2>4, LaterIs
  <2> QED BY <2>1, <2>5
<1> HIDE DEF Z
<1>6. Nat \subseteq Z BY <1>4, <1>5, NatSet
<1>7. n - i - 1 \in Nat /\ i + 1 + (n - i - 1) = n BY <1>n
<1>8. n - i - 1 \in Z BY <1>6, <1>7
<1>9. Later(At(line, i), At(line, n)) BY <1>7, <1>8, <1>n DEF Z
<1> QED BY <1>2, <1>9

\* A legal move makes a legal line longer.
LEMMA LegalAppend ==
  ASSUME NEW line \in Seq(Moves), Legal(line), NEW m \in DOMAIN Succ[PositionAfter(line)]
  PROVE  m \in Moves /\ Append(line, m) \in Seq(Moves) /\ Legal(Append(line, m))
<1> DEFINE t == Append(line, m)
<1>1. PositionAfter(line) \in Positions BY LegalPositions
<1>2. m \in Moves BY <1>1 DEF Moves
<1>3. t \in Seq(Moves) /\ Len(t) = Len(line) + 1 /\ Len(line) \in Nat /\ t[Len(line) + 1] = m
      /\ \A i \in 1..Len(line) : t[i] = line[i]
  BY <1>2
<1>4. \A i \in 0..Len(line) : At(t, i) = At(line, i) BY <1>2, AtAppend
<1>5. At(line, Len(line)) = PositionAfter(line) BY AtNext
<1> HIDE DEF t
<1>6. ASSUME NEW i \in 1..Len(t) PROVE t[i] \in DOMAIN Succ[At(t, i - 1)]
  <2>1. CASE i = Len(line) + 1
    <3>1. i - 1 = Len(line) /\ i - 1 \in 0..Len(line) BY <1>3, <2>1
    <3>2. At(t, i - 1) = PositionAfter(line) BY <1>4, <1>5, <3>1
    <3> QED BY <1>3, <2>1, <3>2
  <2>2. CASE i # Len(line) + 1
    <3>1. i \in 1..Len(line) /\ i - 1 \in 0..Len(line) BY <1>3, <2>2
    <3>2. line[i] \in DOMAIN Succ[At(line, i - 1)] BY <3>1, LegalPositions
    <3> QED BY <1>3, <1>4, <3>1, <3>2
  <2> QED BY <2>1, <2>2
<1>7. Legal(t) BY <1>6 DEF Legal, At
<1> QED BY <1>2, <1>3, <1>7 DEF t
-----------------------------------------------------------------------------
(* Changes of one node or low node. *)

\* A node with another low node or flag.
NodeLow(r, l) == [r EXCEPT !.low = l]
NodeFlag(r, b) == [r EXCEPT !.visited = b]

\* A node with another low node.
LEMMA NodeWithLow ==
  ASSUME NEW r \in NodeRec, NEW l \in {None} \cup LowNodes
  PROVE  /\ NodeLow(r, l).dead = FALSE /\ NodeLow(r, l).move = r.move /\ NodeLow(r, l).low = l
         /\ NodeLow(r, l).visited = r.visited /\ NodeLow(r, l) \in NodeRec
BY DEF NodeRec, NodeLow

\* A node with another visited flag.
LEMMA NodeWithFlag ==
  ASSUME NEW r \in NodeRec, NEW b \in BOOLEAN
  PROVE  /\ NodeFlag(r, b).dead = FALSE /\ NodeFlag(r, b).move = r.move
         /\ NodeFlag(r, b).low = r.low
         /\ NodeFlag(r, b).visited = b /\ NodeFlag(r, b) \in NodeRec
BY DEF NodeRec, NodeFlag

\* A low node that differs in what a move or a visit changes.
LowParents(r, c) == [r EXCEPT !.parents = c]
LowChildren(r, c) == [r EXCEPT !.children = c]
LowTable(r, c) == [r EXCEPT !.is_tt = c]
LowFlag(r, c) == [r EXCEPT !.visited = c]

AllBut(r, s) ==
  /\ s = [dead |-> s.dead, hash |-> s.hash, edges |-> s.edges, children |-> s.children,
          parents |-> s.parents, is_tt |-> s.is_tt, visited |-> s.visited]
  /\ s.dead = FALSE /\ s.hash = r.hash /\ s.edges = r.edges

\* A low node with another count of parents.
LEMMA LowWithParents ==
  ASSUME NEW r \in LowRec, NEW c
  PROVE  LET s == LowParents(r, c) IN
         /\ AllBut(r, s)
         /\ s.children = r.children /\ s.parents = c /\ s.is_tt = r.is_tt /\ s.visited = r.visited
<1>1. r.dead = FALSE BY Fields
<1>2. r = [dead |-> r.dead, hash |-> r.hash, edges |-> r.edges, children |-> r.children,
           parents |-> r.parents, is_tt |-> r.is_tt, visited |-> r.visited]
  BY Fields
<1> QED BY <1>1, <1>2 DEF AllBut, LowParents

\* A low node with other children.
LEMMA LowWithChildren ==
  ASSUME NEW r \in LowRec, NEW c
  PROVE  LET s == LowChildren(r, c) IN
         /\ AllBut(r, s)
         /\ s.children = c /\ s.parents = r.parents /\ s.is_tt = r.is_tt /\ s.visited = r.visited
<1>1. r.dead = FALSE BY Fields
<1>2. r = [dead |-> r.dead, hash |-> r.hash, edges |-> r.edges, children |-> r.children,
           parents |-> r.parents, is_tt |-> r.is_tt, visited |-> r.visited]
  BY Fields
<1> QED BY <1>1, <1>2 DEF AllBut, LowChildren

\* A low node with another is_tt.
LEMMA LowWithTable ==
  ASSUME NEW r \in LowRec, NEW c
  PROVE  LET s == LowTable(r, c) IN
         /\ AllBut(r, s)
         /\ s.children = r.children /\ s.parents = r.parents /\ s.is_tt = c /\ s.visited = r.visited
<1>1. r.dead = FALSE BY Fields
<1>2. r = [dead |-> r.dead, hash |-> r.hash, edges |-> r.edges, children |-> r.children,
           parents |-> r.parents, is_tt |-> r.is_tt, visited |-> r.visited]
  BY Fields
<1> QED BY <1>1, <1>2 DEF AllBut, LowTable

\* A low node with another visited flag.
LEMMA LowWithFlag ==
  ASSUME NEW r \in LowRec, NEW c
  PROVE  LET s == LowFlag(r, c) IN
         /\ AllBut(r, s)
         /\ s.children = r.children /\ s.parents = r.parents /\ s.is_tt = r.is_tt /\ s.visited = c
<1>1. r.dead = FALSE BY Fields
<1>2. r = [dead |-> r.dead, hash |-> r.hash, edges |-> r.edges, children |-> r.children,
           parents |-> r.parents, is_tt |-> r.is_tt, visited |-> r.visited]
  BY Fields
<1> QED BY <1>1, <1>2 DEF AllBut, LowFlag

\* Such low nodes are low nodes.
LEMMA AllButLow ==
  ASSUME NEW r \in LowRec, NEW s, AllBut(r, s), s.children \in SUBSET Nodes, s.parents \in Nat,
         s.is_tt \in BOOLEAN, s.visited \in BOOLEAN
  PROVE  s \in LowRec
BY LowRecIs, Fields DEF AllBut

\* What lives, when one node or low node is another.
LEMMA LivePut ==
  ASSUME NEW h, h \in Heap, NEW g, NEW n \in Nodes, NEW l \in LowNodes
  PROVE  /\ \A s : s.dead = FALSE /\ g.node = [h.node EXCEPT ![n] = s] =>
              /\ LiveNodes(g) = LiveNodes(h) \cup {n} /\ g.node[n] = s
              /\ \A k \in LiveNodes(h) : k # n => g.node[k] = h.node[k]
         /\ \A s : s.dead = FALSE /\ g.low = [h.low EXCEPT ![l] = s] =>
              /\ LiveLow(g) = LiveLow(h) \cup {l} /\ g.low[l] = s
              /\ \A k \in LiveLow(h) : k # l => g.low[k] = h.low[k]
         /\ g.node = h.node => LiveNodes(g) = LiveNodes(h)
         /\ g.low = h.low => LiveLow(g) = LiveLow(h)
<1>h. /\ h.node \in [Nodes -> NodeRec \cup {DeadNode}]
      /\ h.low \in [LowNodes -> LowRec \cup {DeadLow}]
  BY HeapFields
<1>1. ASSUME NEW s, s.dead = FALSE, g.node = [h.node EXCEPT ![n] = s]
      PROVE  /\ LiveNodes(g) = LiveNodes(h) \cup {n} /\ g.node[n] = s
             /\ \A k \in LiveNodes(h) : k # n => g.node[k] = h.node[k]
  BY <1>h, <1>1 DEF LiveNodes
<1>2. ASSUME NEW s, s.dead = FALSE, g.low = [h.low EXCEPT ![l] = s]
      PROVE  /\ LiveLow(g) = LiveLow(h) \cup {l} /\ g.low[l] = s
             /\ \A k \in LiveLow(h) : k # l => g.low[k] = h.low[k]
  BY <1>h, <1>2 DEF LiveLow
<1> QED BY <1>1, <1>2 DEF LiveNodes, LiveLow

\* A node that was visited, or was not, is as good for the tree.
LEMMA VisitedAlike ==
  ASSUME NEW h, h \in Heap, NEW n \in LiveNodes(h), NEW b \in BOOLEAN,
         NEW g, g = [h EXCEPT !.node[n].visited = b]
  PROVE  Alike(h, g)
<1> DEFINE s == NodeFlag(h.node[n], b)
           N == [h.node EXCEPT ![n] = s]
<1>1. n \in Nodes /\ h.node[n] \in NodeRec BY LiveFields
<1>e. g = [h EXCEPT !.node = N] BY DEF NodeFlag
<1>n. N = [h.node EXCEPT ![n] = s] OBVIOUS
<1>3. s.dead = FALSE /\ s.move = h.node[n].move /\ s.low = h.node[n].low /\ s \in NodeRec
  BY <1>1, NodeWithFlag
<1> HIDE DEF s
<1>4. N \in [Nodes -> NodeRec \cup {DeadNode}] BY <1>1, <1>3, HeapFields
<1> HIDE DEF N
<1>2. g = [node |-> N, low |-> h.low, gamebegin |-> h.gamebegin, tt |-> h.tt,
           nonTT |-> h.nonTT, gcQueue |-> h.gcQueue]
  BY <1>e, HeapFields
<1>5. g \in Heap /\ g.node = N /\ g.low = h.low /\ g.gamebegin = h.gamebegin /\ g.tt = h.tt
      /\ g.nonTT = h.nonTT
  <2>1. g.node = N /\ g.low = h.low /\ g.gamebegin = h.gamebegin /\ g.tt = h.tt
        /\ g.nonTT = h.nonTT /\ g.gcQueue = h.gcQueue
    BY <1>2
  <2>2. g = [node |-> g.node, low |-> g.low, gamebegin |-> g.gamebegin, tt |-> g.tt,
             nonTT |-> g.nonTT, gcQueue |-> g.gcQueue]
    BY <1>2, <2>1
  <2> QED BY <1>4, <2>1, <2>2, HeapFields, HeapIs
<1>8. /\ LiveNodes(g) = LiveNodes(h) \cup {n} /\ g.node[n] = s
      /\ \A k \in LiveNodes(h) : k # n => g.node[k] = h.node[k]
  BY <1>1, <1>3, <1>5, <1>n, HeapFields DEF LiveNodes
<1>9. LiveLow(g) = LiveLow(h) BY <1>5 DEF LiveLow
<1> QED BY <1>3, <1>5, <1>8, <1>9 DEF Alike
-----------------------------------------------------------------------------
(* Nodes that lose or are given a low node. *)

\* A heap with other nodes and low nodes.
LEMMA HeapWith ==
  ASSUME NEW h, h \in Heap, NEW N, NEW W
  PROVE  [[h EXCEPT !.node = N] EXCEPT !.low = W] =
           [node |-> N, low |-> W, gamebegin |-> h.gamebegin, tt |-> h.tt,
            nonTT |-> h.nonTT, gcQueue |-> h.gcQueue]
<1> DEFINE e == [h EXCEPT !.node = N]
<1>1. e = [node |-> N, low |-> h.low, gamebegin |-> h.gamebegin, tt |-> h.tt,
           nonTT |-> h.nonTT, gcQueue |-> h.gcQueue]
  BY HeapFields
<1> HIDE DEF e
<1>2. [e EXCEPT !.low = W] =
           [node |-> N, low |-> W, gamebegin |-> h.gamebegin, tt |-> h.tt,
            nonTT |-> h.nonTT, gcQueue |-> h.gcQueue]
  BY <1>1
<1> QED BY <1>2 DEF e

\* A heap with other nodes and low nodes.
LEMMA HeapPut ==
  ASSUME NEW h, h \in Heap, NEW N \in [Nodes -> NodeRec \cup {DeadNode}],
         NEW W \in [LowNodes -> LowRec \cup {DeadLow}],
         NEW g, g = [node |-> N, low |-> W, gamebegin |-> h.gamebegin, tt |-> h.tt,
                     nonTT |-> h.nonTT, gcQueue |-> h.gcQueue]
  PROVE  /\ g \in Heap /\ g.node = N /\ g.low = W /\ g.gamebegin = h.gamebegin /\ g.tt = h.tt
         /\ g.nonTT = h.nonTT /\ g.gcQueue = h.gcQueue
<1>1. /\ g.node = N /\ g.low = W /\ g.gamebegin = h.gamebegin /\ g.tt = h.tt
      /\ g.nonTT = h.nonTT /\ g.gcQueue = h.gcQueue
  OBVIOUS
<1>2. g = [node |-> g.node, low |-> g.low, gamebegin |-> g.gamebegin, tt |-> g.tt,
           nonTT |-> g.nonTT, gcQueue |-> g.gcQueue]
  BY <1>1
<1> QED BY <1>1, <1>2, HeapIs, HeapFields

\* Node n was given l for its low node, or none.
Relinked(h, g, n, l) ==
  /\ g \in Heap /\ g.gamebegin = h.gamebegin /\ g.tt = h.tt /\ g.nonTT = h.nonTT
  /\ LiveNodes(g) = LiveNodes(h) /\ LiveLow(g) = LiveLow(h)
  /\ \A k \in LiveNodes(h) : g.node[k].move = h.node[k].move
                             /\ g.node[k].visited = h.node[k].visited
  /\ \A k \in LiveNodes(h) : k # n => g.node[k].low = h.node[k].low
  /\ g.node[n].low = l
  /\ \A k \in LiveLow(h) :
       /\ SameLow(h, g, k) /\ g.low[k].children = h.low[k].children
       /\ g.low[k].parents = Cardinality(Refs(g, k))

\* What leads to n leads to position p.
CanLead(h, n, p) ==
  /\ n = h.gamebegin => p = Start
  /\ \A l \in LiveLow(h) : n \in h.low[l].children => p = Succ[h.low[l].hash][h.node[n].move]

\* The low node that n got has one parent more, the one it had one less.
LEMMA RelinkedRefs ==
  ASSUME NEW h, NEW g, NEW n, NEW l, Relinked(h, g, n, l), n \in LiveNodes(h)
  PROVE  \A k : Refs(g, k) = IF k = l THEN Refs(h, k) \cup {n} ELSE Refs(h, k) \ {n}
BY DEF Relinked, Refs

\* A tree stays one if n could lead to the position of its new low node.
LEMMA RelinkedTree ==
  ASSUME NEW h, Tree(h), NEW n \in LiveNodes(h), NEW l \in LiveLow(h) \cup {None}, NEW g,
         Relinked(h, g, n, l), l # None => CanLead(h, n, h.low[l].hash)
  PROVE  Tree(g)
<1>r. /\ g \in Heap /\ g.gamebegin = h.gamebegin
      /\ LiveNodes(g) = LiveNodes(h) /\ LiveLow(g) = LiveLow(h)
      /\ \A k \in LiveNodes(h) : g.node[k].move = h.node[k].move
      /\ \A k \in LiveNodes(h) : k # n => g.node[k].low = h.node[k].low
      /\ g.node[n].low = l
      /\ \A k \in LiveLow(h) :
           /\ SameLow(h, g, k) /\ g.low[k].children = h.low[k].children
           /\ g.low[k].parents = Cardinality(Refs(g, k))
  BY DEF Relinked
<1>h. /\ h.gamebegin \in LiveNodes(h) \cup {None}
      /\ h.gamebegin # None => LeadsTo(h, h.gamebegin, Start)
      /\ \A k \in LiveNodes(h) : h.node[k].low \in LiveLow(h) \cup {None}
      /\ \A k \in LiveNodes(h) \ {h.gamebegin} : \E j \in LiveLow(h) : k \in h.low[j].children
      /\ \A k \in LiveLow(h) : Family(h, k)
      /\ \A k, j \in LiveLow(h), c \in Nodes :
           c \in h.low[k].children /\ c \in h.low[j].children => k = j
  BY DEF Tree
<1>1. \A k \in LiveNodes(g) : g.node[k].low \in LiveLow(g) \cup {None} BY <1>r, <1>h
<1>2. \A k \in LiveLow(h) : g.low[k].hash = h.low[k].hash BY <1>r DEF SameLow
<1>3. ASSUME NEW k \in LiveNodes(h), NEW p, LeadsTo(h, k, p), k = n /\ l # None => p = h.low[l].hash
      PROVE  LeadsTo(g, k, p)
  BY <1>1, <1>2, <1>3, <1>r, <1>h DEF LeadsTo
<1>4. g.gamebegin # None => LeadsTo(g, g.gamebegin, Start)
  BY <1>3, <1>r, <1>h DEF CanLead
<1>5. ASSUME NEW k \in LiveLow(g) PROVE Family(g, k)
  <2>1. k \in LiveLow(h) /\ Family(h, k) BY <1>r, <1>h
  <2>2. g.low[k].children = h.low[k].children /\ g.low[k].hash = h.low[k].hash
    BY <1>r, <1>2, <2>1
  <2>3. g.low[k].children \subseteq LiveNodes(g) \ {g.gamebegin}
    BY <1>r, <2>1, <2>2 DEF Family
  <2>4. \A c \in g.low[k].children : c \in LiveNodes(h) /\ g.node[c].move = h.node[c].move
    BY <1>r, <2>3
  <2>5. ASSUME NEW c \in g.low[k].children
        PROVE  /\ g.node[c].move \in DOMAIN Succ[g.low[k].hash]
               /\ LeadsTo(g, c, Succ[g.low[k].hash][g.node[c].move])
    <3>1. /\ h.node[c].move \in DOMAIN Succ[h.low[k].hash]
          /\ LeadsTo(h, c, Succ[h.low[k].hash][h.node[c].move])
      BY <2>1, <2>2 DEF Family
    <3>2. c = n /\ l # None => Succ[h.low[k].hash][h.node[c].move] = h.low[l].hash
      BY <2>1, <2>2 DEF CanLead
    <3> QED BY <1>3, <2>2, <2>4, <3>1, <3>2
  <2>6. \A c, d \in g.low[k].children : g.node[c].move = g.node[d].move => c = d
    BY <2>1, <2>2, <2>4 DEF Family
  <2> QED BY <2>3, <2>5, <2>6 DEF Family
<1>6. \A k \in LiveNodes(g) \ {g.gamebegin} : \E j \in LiveLow(g) : k \in g.low[j].children
  BY <1>r, <1>h
<1>7. \A k, j \in LiveLow(g), c \in Nodes :
        c \in g.low[k].children /\ c \in g.low[j].children => k = j
  BY <1>r, <1>h
<1>8. \A k \in LiveLow(g) : g.low[k].parents = Cardinality(Refs(g, k)) BY <1>r
<1>9. g.gamebegin \in LiveNodes(g) \cup {None} BY <1>r, <1>h
<1> QED BY <1>r, <1>1, <1>4, <1>5, <1>6, <1>7, <1>8, <1>9 DEF Tree

\* And so does a sane heap.
LEMMA RelinkedSane ==
  ASSUME NEW h, Sane(h), NEW n \in LiveNodes(h), NEW l \in LiveLow(h) \cup {None}, NEW g,
         Relinked(h, g, n, l), l # None => CanLead(h, n, h.low[l].hash)
  PROVE  Sane(g)
<1>1. Tree(g) BY RelinkedTree DEF Sane
<1>2. Table(g)
  <2>1. h \in Heap /\ Table(h) BY DEF Sane, Tree
  <2>2. LiveLow(g) \subseteq LiveLow(h) BY DEF Relinked
  <2>3. \A k \in LiveLow(g) : SameLow(h, g, k) BY DEF Relinked
  <2>4. \A q \in Positions : g.tt[q] # None => g.tt[q] = h.tt[q] /\ g.tt[q] \in LiveLow(g)
    BY <2>1 DEF Table, Relinked
  <2>5. \A q \in Positions : h.tt[q] \in LiveLow(g) => g.tt[q] = h.tt[q] BY DEF Relinked
  <2> QED BY <2>1, <2>2, <2>3, <2>4, <2>5, TableKept
<1>3. NonTT(g)
  <2>1. \A k \in LiveLow(g) : SameLow(h, g, k) BY DEF Relinked
  <2>2. NonTT(h) /\ LiveLow(g) = LiveLow(h) /\ g.nonTT = h.nonTT BY DEF Sane, Relinked
  <2> QED BY <2>1, <2>2, NonTTKept
<1> QED BY <1>1, <1>2, <1>3 DEF Sane
-----------------------------------------------------------------------------
\* What SetLowNode does (src/src/mcts/node.cc:521).
LEMMA SetLowNodeIs ==
  ASSUME NEW h, Tree(h), NEW n \in LiveNodes(h), h.node[n].low = None, NEW l \in LiveLow(h),
         NEW g, g = SetLowNode(h, n, l)
  PROVE  Relinked(h, g, n, l)
<1> DEFINE s == NodeLow(h.node[n], l)
           r == LowParents(h.low[l], h.low[l].parents + 1)
           N == [h.node EXCEPT ![n] = s]
           W == [h.low EXCEPT ![l] = r]
<1>h. h \in Heap BY DEF Tree
<1>1. n \in Nodes /\ h.node[n] \in NodeRec /\ l \in LowNodes /\ h.low[l] \in LowRec
  BY <1>h, LiveFields
<1>2. g = [[h EXCEPT !.node = N] EXCEPT !.low = W] BY DEF SetLowNode, NodeLow, LowParents
<1>3. /\ s.dead = FALSE /\ s.move = h.node[n].move /\ s.low = l
      /\ s.visited = h.node[n].visited /\ s \in NodeRec
  BY <1>1, NodeWithLow
<1>4. /\ AllBut(h.low[l], r) /\ r.children = h.low[l].children
      /\ r.parents = h.low[l].parents + 1 /\ r.is_tt = h.low[l].is_tt
      /\ r.visited = h.low[l].visited
  BY <1>1, LowWithParents
<1>n. N = [h.node EXCEPT ![n] = s] /\ W = [h.low EXCEPT ![l] = r] OBVIOUS
<1> HIDE DEF s, r
<1>5. r \in LowRec BY <1>1, <1>4, AllButLow, Fields
<1>6. N \in [Nodes -> NodeRec \cup {DeadNode}] /\ W \in [LowNodes -> LowRec \cup {DeadLow}]
  BY <1>h, <1>1, <1>3, <1>5, HeapFields
<1> HIDE DEF N, W
<1>7. g = [node |-> N, low |-> W, gamebegin |-> h.gamebegin, tt |-> h.tt,
           nonTT |-> h.nonTT, gcQueue |-> h.gcQueue]
  BY <1>h, <1>2, HeapWith
<1>8. /\ g \in Heap /\ g.node = N /\ g.low = W /\ g.gamebegin = h.gamebegin /\ g.tt = h.tt
      /\ g.nonTT = h.nonTT
  BY ONLY <1>h, <1>6, <1>7, HeapPut
<1>9. r.dead = FALSE /\ r.hash = h.low[l].hash /\ r.edges = h.low[l].edges
  BY <1>4, Zenon DEF AllBut
<1>10. /\ LiveNodes(g) = LiveNodes(h) /\ g.node[n] = s
       /\ \A k \in LiveNodes(h) : k # n => g.node[k] = h.node[k]
  BY <1>h, <1>1, <1>3, <1>8, <1>n, HeapFields DEF LiveNodes
<1>11. /\ LiveLow(g) = LiveLow(h) /\ g.low[l] = r
       /\ \A k \in LiveLow(h) : k # l => g.low[k] = h.low[k]
  BY <1>h, <1>1, <1>9, <1>8, <1>n, HeapFields DEF LiveLow
<1>12. \A k \in LiveLow(h) : SameLow(h, g, k) /\ g.low[k].children = h.low[k].children
  BY <1>4, <1>9, <1>11 DEF SameLow
<1>13. ASSUME NEW k \in LiveLow(h) PROVE g.low[k].parents = Cardinality(Refs(g, k))
  <2>1. h.low[k].parents = Cardinality(Refs(h, k)) BY DEF Tree
  <2>2. k # None BY <1>h, LiveFields, Addresses
  <2>3. CASE k = l
    <3>1. Refs(g, k) = Refs(h, k) \cup {n} BY <1>3, <1>10, <2>3 DEF Refs
    <3>2. n \notin Refs(h, k) BY <2>2 DEF Refs
    <3>3. Cardinality(Refs(g, k)) = Cardinality(Refs(h, k)) + 1
      BY <3>1, <3>2, RefsFinite, FS_AddElement
    <3> QED BY <1>4, <1>11, <2>1, <2>3, <3>3
  <2>4. CASE k # l
    <3>1. Refs(g, k) = Refs(h, k) BY <1>3, <1>10, <2>2, <2>4 DEF Refs
    <3> QED BY <1>11, <2>1, <2>4, <3>1
  <2> QED BY <2>3, <2>4
<1>14. /\ \A k \in LiveNodes(h) : g.node[k].move = h.node[k].move
                                  /\ g.node[k].visited = h.node[k].visited
       /\ \A k \in LiveNodes(h) : k # n => g.node[k].low = h.node[k].low
       /\ g.node[n].low = l
  BY <1>3, <1>10
<1> QED BY <1>8, <1>10, <1>11, <1>12, <1>13, <1>14 DEF Relinked

\* What UnsetLowNode does: the node leads nowhere, its low node has one parent less.
LEMMA UnsetLowNodeIs ==
  ASSUME NEW h, Tree(h), NEW n \in LiveNodes(h), NEW g, g = UnsetLowNode(h, n)
  PROVE  Relinked(h, g, n, None)
<1> DEFINE s == NodeLow(h.node[n], None)
           f == LoseParents(h, {n})
           N == [h.node EXCEPT ![n] = s]
           W == [k \in LowNodes |-> Loser(h, {n}, k)]
<1>h. h \in Heap BY DEF Tree
<1>1. n \in Nodes /\ h.node[n] \in NodeRec BY <1>h, LiveFields
<1>2. f = [node |-> h.node, low |-> W, gamebegin |-> h.gamebegin, tt |-> h.tt,
           nonTT |-> h.nonTT, gcQueue |-> h.gcQueue]
  BY <1>h, LoseParentsIs
<1>w. \A k \in LowNodes : W[k] = Loser(h, {n}, k) OBVIOUS
<1>d. W = [k \in LowNodes |-> W[k]] OBVIOUS
<1> HIDE DEF W
<1>3. g = [f EXCEPT !.node[n].low = None] BY DEF UnsetLowNode
<1> HIDE DEF f
<1>4. f.node = h.node BY <1>2
<1>5. g = [f EXCEPT !.node = N] BY <1>3, <1>4 DEF NodeLow
<1>6. /\ s.dead = FALSE /\ s.move = h.node[n].move /\ s.low = None
      /\ s.visited = h.node[n].visited /\ s \in NodeRec
  BY <1>1, NodeWithLow
<1>n. N = [h.node EXCEPT ![n] = s] OBVIOUS
<1> HIDE DEF s
<1>7. N \in [Nodes -> NodeRec \cup {DeadNode}] BY <1>h, <1>1, <1>6, HeapFields
<1> HIDE DEF N
<1>8. g = [node |-> N, low |-> W, gamebegin |-> h.gamebegin, tt |-> h.tt,
           nonTT |-> h.nonTT, gcQueue |-> h.gcQueue]
  BY <1>2, <1>5
<1>9. ASSUME NEW k \in LowNodes \ LiveLow(h) PROVE W[k] = DeadLow
  BY <1>w DEF Loser, LiveLow
<1>10. ASSUME NEW k \in LiveLow(h)
       PROVE  /\ W[k] \in LowRec /\ W[k].dead = FALSE /\ W[k].hash = h.low[k].hash
              /\ W[k].edges = h.low[k].edges /\ W[k].children = h.low[k].children
              /\ W[k].is_tt = h.low[k].is_tt /\ W[k].visited = h.low[k].visited
              /\ W[k].parents = Cardinality(Refs(h, k) \ {n})
  <2> DEFINE c == h.low[k].parents - Losses(h, {n}, k)
             r == LowParents(h.low[k], c)
  <2>1. k \in LowNodes /\ h.low[k] \in LowRec BY <1>h, LiveFields
  <2>2. ~ h.low[k].dead BY DEF LiveLow
  <2>3. W[k] = r BY <1>w, <2>1, <2>2 DEF Loser, LowParents
  <2>4. c = Cardinality(Refs(h, k) \ {n}) /\ c \in Nat
    <3>1. {n} \subseteq LiveNodes(h) OBVIOUS
    <3> QED BY <3>1, LossesAre
  <2> HIDE DEF c
  <2>5. /\ AllBut(h.low[k], r) /\ r.children = h.low[k].children /\ r.parents = c
        /\ r.is_tt = h.low[k].is_tt /\ r.visited = h.low[k].visited
    BY <2>1, LowWithParents
  <2> HIDE DEF r
  <2>6. r \in LowRec BY <2>1, <2>4, <2>5, AllButLow, Fields
  <2>7. r.dead = FALSE /\ r.hash = h.low[k].hash /\ r.edges = h.low[k].edges
    BY <2>5, Zenon DEF AllBut
  <2> QED BY <2>3, <2>4, <2>5, <2>6, <2>7
<1>11. W \in [LowNodes -> LowRec \cup {DeadLow}]
  <2>1. \A k \in LowNodes : W[k] \in LowRec \cup {DeadLow} BY <1>9, <1>10
  <2> QED BY <1>d, <2>1
<1>12. /\ g \in Heap /\ g.node = N /\ g.low = W /\ g.gamebegin = h.gamebegin /\ g.tt = h.tt
       /\ g.nonTT = h.nonTT
  BY ONLY <1>h, <1>7, <1>8, <1>11, HeapPut
<1>13. /\ LiveNodes(g) = LiveNodes(h) /\ g.node[n] = s
       /\ \A k \in LiveNodes(h) : k # n => g.node[k] = h.node[k]
  BY <1>h, <1>1, <1>6, <1>12, <1>n, HeapFields DEF LiveNodes
<1>14. LiveLow(g) = LiveLow(h)
  <2>1. DeadLow.dead BY DEF DeadLow
  <2>2. \A k \in LowNodes \ LiveLow(h) : g.low[k].dead BY <1>9, <1>12, <2>1
  <2>3. \A k \in LiveLow(h) : k \in LowNodes /\ ~ g.low[k].dead BY <1>10, <1>12 DEF LiveLow
  <2> QED BY <2>2, <2>3 DEF LiveLow
<1>15. /\ \A k \in LiveNodes(h) : g.node[k].move = h.node[k].move
                                  /\ g.node[k].visited = h.node[k].visited
       /\ \A k \in LiveNodes(h) : k # n => g.node[k].low = h.node[k].low
       /\ g.node[n].low = None
  BY <1>6, <1>13
<1>16. ASSUME NEW k \in LiveLow(h) PROVE Refs(g, k) = Refs(h, k) \ {n}
  <2>1. k # None BY <1>h, LiveFields, Addresses
  <2> QED BY <1>13, <1>15, <2>1 DEF Refs
<1>17. \A k \in LiveLow(h) :
       /\ SameLow(h, g, k) /\ g.low[k].children = h.low[k].children
       /\ g.low[k].parents = Cardinality(Refs(g, k))
  BY <1>10, <1>12, <1>16 DEF SameLow
<1> QED BY <1>12, <1>13, <1>14, <1>15, <1>17 DEF Relinked
-----------------------------------------------------------------------------
(* New low nodes. *)

\* A low node l of position p that nobody refers to yet.
FreshLow(p, moves, isTT) ==
  [dead |-> FALSE, hash |-> p, edges |-> moves, children |-> {}, parents |-> 0, is_tt |-> isTT,
   visited |-> FALSE]

Added(h, g, l, p, moves, isTT) ==
  /\ g \in Heap /\ g.node = h.node /\ g.gamebegin = h.gamebegin
  /\ LiveNodes(g) = LiveNodes(h) /\ LiveLow(g) = LiveLow(h) \cup {l}
  /\ \A k \in LiveLow(h) : g.low[k] = h.low[k]
  /\ g.low[l].hash = p /\ g.low[l].edges = moves /\ g.low[l].children = {}
  /\ g.low[l].parents = 0 /\ g.low[l].is_tt = isTT

\* The fields of a low node as it is allocated.
LEMMA FreshLowIs ==
  ASSUME NEW p \in Positions, NEW moves \in SUBSET Moves, NEW b \in BOOLEAN
  PROVE  /\ FreshLow(p, moves, b).hash = p /\ FreshLow(p, moves, b).edges = moves
         /\ FreshLow(p, moves, b).children = {} /\ FreshLow(p, moves, b).parents = 0
         /\ FreshLow(p, moves, b).is_tt = b
BY DEF FreshLow

\* A low node as it is allocated is alive.
LEMMA FreshLowLives ==
  ASSUME NEW p \in Positions, NEW moves \in SUBSET Moves, NEW b \in BOOLEAN
  PROVE  FreshLow(p, moves, b) \in LowRec /\ FreshLow(p, moves, b).dead = FALSE
BY DEF FreshLow, LowRec

\* There is an address for a new low node while not all are taken.
LEMMA FreeLowIs ==
  ASSUME NEW h, LiveLow(h) # LowNodes
  PROVE  FreeLow(h) \in LowNodes /\ FreeLow(h) \notin LiveLow(h)
<1> DEFINE S == LowNodes \ LiveLow(h)
<1>1. S \subseteq Nat BY Addresses
<1>2. S # {} BY DEF LiveLow
<1>3. FreeLow(h) = Lowest(S) BY DEF FreeLow
<1> HIDE DEF S
<1>4. FreeLow(h) \in S BY <1>1, <1>2, <1>3, LowestIs
<1> QED BY <1>4 DEF S

\* There is an address for a new node while not all are taken.
LEMMA FreeNodeIs ==
  ASSUME NEW h, LiveNodes(h) # Nodes
  PROVE  FreeNode(h) \in Nodes /\ FreeNode(h) \notin LiveNodes(h)
<1> DEFINE S == Nodes \ LiveNodes(h)
<1>1. S \subseteq Nat BY Addresses
<1>2. S # {} BY DEF LiveNodes
<1>3. FreeNode(h) = Lowest(S) BY DEF FreeNode
<1> HIDE DEF S
<1>4. FreeNode(h) \in S BY <1>1, <1>2, <1>3, LowestIs
<1> QED BY <1>4 DEF S

\* The legal moves of a position are moves.
LEMMA MovesOf ==
  ASSUME NEW p \in Positions
  PROVE  DOMAIN Succ[p] \in SUBSET Moves
BY DEF Moves

\* The heap with the low node, before anybody owns it.
LEMMA NewLowIs ==
  ASSUME NEW h, h \in Heap, NEW l \in LowNodes, NEW p \in Positions,
         l \notin LiveLow(h),
         NEW moves \in SUBSET Moves, NEW b \in BOOLEAN, NEW g, g = NewLow(h, l, p, moves, b)
  PROVE  /\ Added(h, g, l, p, moves, b) /\ g.tt = h.tt /\ g.nonTT = h.nonTT
         /\ g.gcQueue = h.gcQueue
<1> DEFINE r == FreshLow(p, moves, b)
           W == [h.low EXCEPT ![l] = r]
<1>1. g = [h EXCEPT !.low = W] BY DEF NewLow, FreshLow
<1>2. /\ r \in LowRec /\ r.dead = FALSE /\ r.hash = p /\ r.edges = moves /\ r.children = {}
      /\ r.parents = 0 /\ r.is_tt = b
  <2>1. /\ r.hash = p /\ r.edges = moves /\ r.children = {} /\ r.parents = 0 /\ r.is_tt = b
    BY FreshLowIs
  <2>2. r \in LowRec /\ r.dead = FALSE BY FreshLowLives
  <2> QED BY <2>1, <2>2
<1> HIDE DEF r
<1>3. /\ W \in [LowNodes -> LowRec \cup {DeadLow}] /\ W[l] = r
      /\ \A k \in LowNodes : k # l => W[k] = h.low[k]
  BY <1>2, HeapFields
<1> HIDE DEF W
<1>4. g = [node |-> h.node, low |-> W, gamebegin |-> h.gamebegin, tt |-> h.tt,
           nonTT |-> h.nonTT, gcQueue |-> h.gcQueue]
  BY <1>1, HeapFields
<1>5. h.node \in [Nodes -> NodeRec \cup {DeadNode}] BY HeapFields
<1>6. /\ g \in Heap /\ g.node = h.node /\ g.low = W /\ g.gamebegin = h.gamebegin /\ g.tt = h.tt
      /\ g.nonTT = h.nonTT /\ g.gcQueue = h.gcQueue
  BY <1>3, <1>4, <1>5, HeapPut
<1>7. LiveNodes(g) = LiveNodes(h) BY <1>6 DEF LiveNodes
<1>8. LiveLow(g) = LiveLow(h) \cup {l} BY <1>2, <1>3, <1>6 DEF LiveLow
<1>9. \A k \in LiveLow(h) : k # l => g.low[k] = h.low[k] BY <1>3, <1>6 DEF LiveLow
<1> QED BY <1>2, <1>3, <1>6, <1>7, <1>8, <1>9 DEF Added

\* A new low node that nobody refers to yet keeps a tree one.
LEMMA AddedTree ==
  ASSUME NEW h, Tree(h), NEW l \in LowNodes, l \notin LiveLow(h), NEW p \in Positions, NEW moves,
         NEW b, NEW g, Added(h, g, l, p, moves, b)
  PROVE  Tree(g) /\ Refs(g, l) = {} /\ (\A k : Refs(g, k) = Refs(h, k)) /\ LinesKept(h, g)
<1>a. /\ g \in Heap /\ g.node = h.node /\ g.gamebegin = h.gamebegin
      /\ LiveNodes(g) = LiveNodes(h) /\ LiveLow(g) = LiveLow(h) \cup {l}
      /\ \A k \in LiveLow(h) : g.low[k] = h.low[k]
      /\ g.low[l].children = {} /\ g.low[l].parents = 0
  BY DEF Added
<1>h. /\ h.gamebegin \in LiveNodes(h) \cup {None}
      /\ h.gamebegin # None => LeadsTo(h, h.gamebegin, Start)
      /\ \A k \in LiveNodes(h) : h.node[k].low \in LiveLow(h) \cup {None}
      /\ \A k \in LiveNodes(h) \ {h.gamebegin} : \E j \in LiveLow(h) : k \in h.low[j].children
      /\ \A k \in LiveLow(h) : Family(h, k) /\ h.low[k].parents = Cardinality(Refs(h, k))
      /\ \A k, j \in LiveLow(h), c \in Nodes :
           c \in h.low[k].children /\ c \in h.low[j].children => k = j
  BY DEF Tree
<1>1. \A k : Refs(g, k) = Refs(h, k) BY <1>a DEF Refs
<1>2. l # None BY Addresses
<1>3. Refs(h, l) = {} BY <1>2, <1>h DEF Refs
<1>4. \A n \in LiveNodes(h) : \A q : LeadsTo(h, n, q) => LeadsTo(g, n, q) BY <1>a, <1>h DEF LeadsTo
<1>5. g.gamebegin # None => LeadsTo(g, g.gamebegin, Start) BY <1>4, <1>a, <1>h
<1>6. ASSUME NEW k \in LiveLow(g)
      PROVE  Family(g, k) /\ g.low[k].parents = Cardinality(Refs(g, k))
  <2>1. CASE k = l
    <3>1. Family(g, k) BY <1>a, <2>1 DEF Family
    <3> QED BY <1>1, <1>3, <1>a, <2>1, <3>1, FS_EmptySet
  <2>2. CASE k \in LiveLow(h)
    <3>1. g.low[k] = h.low[k] /\ Family(h, k) BY <1>a, <1>h, <2>2
    <3>2. h.low[k].children \subseteq LiveNodes(h) BY <3>1 DEF Family
    <3>3. Family(g, k) BY <1>4, <1>a, <3>1, <3>2 DEF Family
    <3> QED BY <1>1, <1>h, <2>2, <3>1, <3>3
  <2> QED BY <1>a, <2>1, <2>2
<1>7. \A k \in LiveNodes(g) \ {g.gamebegin} : \E j \in LiveLow(g) : k \in g.low[j].children
  BY <1>a, <1>h
<1>8. \A k, j \in LiveLow(g), c \in Nodes :
        c \in g.low[k].children /\ c \in g.low[j].children => k = j
  BY <1>a, <1>h
<1>9. \A k \in LiveNodes(g) : g.node[k].low \in LiveLow(g) \cup {None} BY <1>a, <1>h
<1>10. Tree(g) BY <1>a, <1>h, <1>5, <1>6, <1>7, <1>8, <1>9 DEF Tree
<1>11. LinesKept(h, g)
  <2> SUFFICES ASSUME NEW path, NEW line, NEW head, Len(line) \in Nat, Line(h, path, line, head)
               PROVE  Line(g, path, line, head)
    BY DEF LinesKept
  <2>1. /\ \A i \in 0 .. Len(line) : path[i] \in LiveNodes(h)
        /\ \A i \in 1 .. Len(line) : LineLow(h, path, i) \in LiveLow(h)
    BY LineNodes
  <2>2. \A i \in 0 .. Len(line) :
          path[i] \in LiveNodes(g) /\ g.node[path[i]].move = h.node[path[i]].move
    BY <1>a, <2>1
  <2>3. \A i \in 1 .. Len(line) :
           LET k == LineLow(h, path, i) IN
           /\ LineLow(g, path, i) = k /\ k \in LiveLow(g)
           /\ g.low[k].hash = h.low[k].hash /\ g.low[k].is_tt = h.low[k].is_tt
           /\ g.low[k].children = h.low[k].children
    BY <1>a, <2>1 DEF LineLow
  <2> QED BY <1>a, <2>2, <2>3, LineKept
<1> QED BY <1>1, <1>3, <1>10, <1>11

\* What NonTTAdd and TTGetOrCreate have in common.
Grown(h, g, l, p, moves, isTT) ==
  /\ Sane(g) /\ LinesKept(h, g) /\ Added(h, g, l, p, moves, isTT)
  /\ Refs(g, l) = {} /\ \A k : Refs(g, k) = Refs(h, k)

\* NonTTAddClone puts the new low node into non_tt_, which owns it.
LEMMA NonTTAddIs ==
  ASSUME NEW h, Sane(h), NEW l \in LowNodes, l \notin LiveLow(h), NEW p \in Positions,
         NEW moves, moves \subseteq DOMAIN Succ[p], NEW g, g = NonTTAdd(h, l, p, moves)
  PROVE  Grown(h, g, l, p, moves, FALSE) /\ g.tt = h.tt
<1> DEFINE f == NewLow(h, l, p, moves, FALSE)
           S == Append(f.nonTT, l)
<1>h. h \in Heap BY DEF Sane, Tree
<1>1. moves \in SUBSET Moves /\ FALSE \in BOOLEAN BY MovesOf
<1>2. Added(h, f, l, p, moves, FALSE) /\ f.tt = h.tt /\ f.nonTT = h.nonTT /\ f.gcQueue = h.gcQueue
  <2> DEFINE b == FALSE
  <2>1. b \in BOOLEAN /\ f = NewLow(h, l, p, moves, b) OBVIOUS
  <2>2. b = FALSE OBVIOUS
  <2> HIDE DEF b, f
  <2>3. Added(h, f, l, p, moves, b) /\ f.tt = h.tt /\ f.nonTT = h.nonTT /\ f.gcQueue = h.gcQueue
    BY <1>h, <1>1, <2>1, NewLowIs
  <2> QED BY <2>2, <2>3, Zenon
<1>3. g = [f EXCEPT !.nonTT = S] BY DEF NonTTAdd
<1> HIDE DEF f
<1>4. Tree(f) /\ Refs(f, l) = {} /\ (\A k : Refs(f, k) = Refs(h, k)) /\ LinesKept(h, f)
  BY <1>2, AddedTree DEF Sane
<1>5. f \in Heap /\ f.nonTT \in Seq(LowNodes) BY <1>4, HeapFields DEF Tree
<1> DEFINE m == Len(h.nonTT)
<1>6. S \in Seq(LowNodes) /\ DOMAIN S = 1..(m + 1) /\ m \in Nat /\ DOMAIN h.nonTT = 1..m
      /\ (\A j \in 1..m : S[j] = h.nonTT[j]) /\ S[m + 1] = l
  BY <1>2, <1>5
<1> HIDE DEF S, m
<1> DEFINE T == f.tt
           Q == f.gcQueue
<1>7. g = [node |-> f.node, low |-> f.low, gamebegin |-> f.gamebegin, tt |-> T,
           nonTT |-> S, gcQueue |-> Q]
  BY <1>3, <1>5, HeapFields
<1>8. T \in [Positions -> LowNodes \cup {None}] /\ Q \in SUBSET Positions BY <1>5, HeapFields
<1>t. T = f.tt OBVIOUS
<1> HIDE DEF T, Q
<1>9. Reowned(f, g) /\ g.tt = T /\ g.nonTT = S BY ONLY <1>4, <1>6, <1>7, <1>8, ReownedIs
<1>10. /\ LiveLow(f) = LiveLow(h) \cup {l} /\ (\A k \in LiveLow(h) : f.low[k] = h.low[k])
       /\ f.low[l].hash = p /\ f.low[l].edges = moves /\ f.low[l].is_tt = FALSE
       /\ f.low[l].children = {} /\ f.low[l].parents = 0
       /\ LiveNodes(f) = LiveNodes(h) /\ f.node = h.node /\ f.gamebegin = h.gamebegin
  BY <1>2 DEF Added
<1>11. Added(h, g, l, p, moves, FALSE) BY <1>9, <1>10 DEF Added, Reowned, Tree
<1>12. /\ LiveLow(g) = LiveLow(h) \cup {l} /\ (\A k \in LiveLow(h) : g.low[k] = h.low[k])
       /\ g.low[l].hash = p /\ g.low[l].edges = moves /\ ~ g.low[l].is_tt
  BY <1>9, <1>10 DEF Reowned
<1>13. Table(g)
  <2>1. Table(h) BY DEF Sane
  <2>2. g.tt = h.tt BY <1>2, <1>9, <1>t
  <2>3. \A q \in Positions : g.tt[q] # None =>
          g.tt[q] \in LiveLow(g) /\ g.low[g.tt[q]].hash = q /\ g.low[g.tt[q]].is_tt
    BY <1>12, <2>1, <2>2 DEF Table
  <2>4. \A k \in LiveLow(g) :
          /\ g.low[k].edges \subseteq DOMAIN Succ[g.low[k].hash]
          /\ g.low[k].is_tt => g.tt[g.low[k].hash] = k
          /\ g.low[k].is_tt => g.low[k].edges = DOMAIN Succ[g.low[k].hash]
    BY <1>12, <2>1, <2>2 DEF Table
  <2> QED BY <2>3, <2>4 DEF Table
<1>14. NonTT(g)
  <2>1. NonTT(h) BY DEF Sane
  <2>2. \A j \in 1..(m + 1) : j \in 1..m \/ j = m + 1 BY <1>6
  <2>3. \A j \in 1..m : h.nonTT[j] \in LiveLow(h) /\ ~ h.low[h.nonTT[j]].is_tt /\ h.nonTT[j] # l
    BY <1>6, <2>1 DEF NonTT
  <2>4. \A i \in DOMAIN g.nonTT : g.nonTT[i] \in LiveLow(g) /\ ~ g.low[g.nonTT[i]].is_tt
    BY <1>6, <1>9, <1>12, <2>2, <2>3
  <2>5. \A i, j \in DOMAIN g.nonTT : g.nonTT[i] = g.nonTT[j] => i = j
    <3>1. \A i, j \in 1..m : h.nonTT[i] = h.nonTT[j] => i = j BY <1>6, <2>1 DEF NonTT
    <3> QED BY <1>6, <1>9, <2>2, <2>3, <3>1
  <2>6. ASSUME NEW k \in LiveLow(g), ~ g.low[k].is_tt PROVE \E i \in DOMAIN g.nonTT : g.nonTT[i] = k
    <3>1. CASE k = l
      <4>1. m + 1 \in 1..(m + 1) BY <1>6
      <4> QED BY <1>6, <1>9, <3>1, <4>1
    <3>2. CASE k \in LiveLow(h)
      <4>1. PICK i \in 1..m : h.nonTT[i] = k BY <1>6, <1>12, <2>1, <2>6, <3>2 DEF NonTT
      <4>2. i \in 1..(m + 1) BY <1>6
      <4> QED BY <1>6, <1>9, <4>1, <4>2
    <3> QED BY <1>12, <3>1, <3>2
  <2> QED BY <2>4, <2>5, <2>6 DEF NonTT
<1>15. LinesKept(h, g) BY <1>4, <1>9 DEF Reowned, LinesKept
<1>16. Refs(g, l) = {} /\ \A k : Refs(g, k) = Refs(h, k) BY <1>4, <1>9 DEF Reowned
<1>17. Tree(g) /\ g.tt = h.tt BY <1>2, <1>9, <1>t DEF Reowned
<1> QED BY <1>11, <1>13, <1>14, <1>15, <1>16, <1>17 DEF Grown, Sane

\* Heaps with the same nodes and children, and of which one is a tree.
SameShape(h, g) ==
  /\ g \in Heap /\ g.gamebegin = h.gamebegin /\ g.node = h.node
  /\ LiveNodes(g) = LiveNodes(h) /\ LiveLow(g) = LiveLow(h)
  /\ \A l \in LiveLow(h) :
       /\ g.low[l].hash = h.low[l].hash /\ g.low[l].children = h.low[l].children
       /\ g.low[l].parents = h.low[l].parents

\* Whether a heap is a tree is up to that shape.
LEMMA SameShapeTree ==
  ASSUME NEW h, Tree(h), NEW g, SameShape(h, g)
  PROVE  Tree(g) /\ \A l : Refs(g, l) = Refs(h, l)
<1>a. /\ g \in Heap /\ g.gamebegin = h.gamebegin /\ g.node = h.node
      /\ LiveNodes(g) = LiveNodes(h) /\ LiveLow(g) = LiveLow(h)
      /\ \A l \in LiveLow(h) :
           /\ g.low[l].hash = h.low[l].hash /\ g.low[l].children = h.low[l].children
           /\ g.low[l].parents = h.low[l].parents
  BY DEF SameShape
<1>h. /\ h.gamebegin \in LiveNodes(h) \cup {None}
      /\ h.gamebegin # None => LeadsTo(h, h.gamebegin, Start)
      /\ \A k \in LiveNodes(h) : h.node[k].low \in LiveLow(h) \cup {None}
      /\ \A k \in LiveNodes(h) \ {h.gamebegin} : \E j \in LiveLow(h) : k \in h.low[j].children
      /\ \A k \in LiveLow(h) : Family(h, k) /\ h.low[k].parents = Cardinality(Refs(h, k))
      /\ \A k, j \in LiveLow(h), c \in Nodes :
           c \in h.low[k].children /\ c \in h.low[j].children => k = j
  BY DEF Tree
<1>1. \A l : Refs(g, l) = Refs(h, l) BY <1>a DEF Refs
<1>4. \A n \in LiveNodes(h) : \A q : LeadsTo(h, n, q) => LeadsTo(g, n, q) BY <1>a, <1>h DEF LeadsTo
<1>5. g.gamebegin # None => LeadsTo(g, g.gamebegin, Start) BY <1>4, <1>a, <1>h
<1>6. ASSUME NEW k \in LiveLow(g)
      PROVE  Family(g, k) /\ g.low[k].parents = Cardinality(Refs(g, k))
  <2>1. Family(h, k) /\ h.low[k].parents = Cardinality(Refs(h, k)) BY <1>a, <1>h
  <2>2. h.low[k].children \subseteq LiveNodes(h) BY <2>1 DEF Family
  <2>3. Family(g, k) BY <1>4, <1>a, <2>1, <2>2 DEF Family
  <2> QED BY <1>1, <1>a, <2>1, <2>3
<1>7. \A k \in LiveNodes(g) \ {g.gamebegin} : \E j \in LiveLow(g) : k \in g.low[j].children
  BY <1>a, <1>h
<1>8. \A k, j \in LiveLow(g), c \in Nodes :
        c \in g.low[k].children /\ c \in g.low[j].children => k = j
  BY <1>a, <1>h
<1>9. \A k \in LiveNodes(g) : g.node[k].low \in LiveLow(g) \cup {None} BY <1>a, <1>h
<1> QED BY <1>a, <1>h, <1>1, <1>5, <1>6, <1>7, <1>8, <1>9 DEF Tree

\* A new low node that the table owns is complete.
TabledLow(h, l, p) == [NewLow(h, l, p, DOMAIN Succ[p], TRUE) EXCEPT !.tt[p] = l]

TTAdded(h, g, l, p) ==
  /\ Sane(g) /\ LinesKept(h, g) /\ g.node = h.node /\ g.gamebegin = h.gamebegin
  /\ LiveNodes(g) = LiveNodes(h) /\ LiveLow(g) = LiveLow(h) \cup {l}
  /\ (\A k \in LiveLow(h) : g.low[k] = h.low[k])
  /\ g.low[l].hash = p /\ g.low[l].is_tt /\ g.low[l].children = {} /\ g.tt[p] = l
  /\ (\A k : Refs(g, k) = Refs(h, k))

\* TTGetOrCreate adds a position to a sane graph.
LEMMA TTAddIs ==
  ASSUME NEW h, Sane(h), NEW l \in LowNodes, l \notin LiveLow(h), NEW p \in Positions,
         h.tt[p] = None, NEW g, g = TabledLow(h, l, p)
  PROVE  TTAdded(h, g, l, p)
<1> DEFINE b == TRUE
<1> DEFINE f == NewLow(h, l, p, DOMAIN Succ[p], b)
           T == [f.tt EXCEPT ![p] = l]
<1>b. b = TRUE OBVIOUS
<1>g. g = [f EXCEPT !.tt = T] BY DEF TabledLow
<1> HIDE DEF b
<1>h. h \in Heap BY DEF Sane, Tree
<1>2. Added(h, f, l, p, DOMAIN Succ[p], b) /\ f.tt = h.tt /\ f.nonTT = h.nonTT
      /\ f.gcQueue = h.gcQueue
  <2> DEFINE moves == DOMAIN Succ[p]
  <2>1. moves \in SUBSET Moves /\ b \in BOOLEAN /\ f = NewLow(h, l, p, moves, b) BY <1>b, MovesOf
  <2> HIDE DEF moves, f
  <2>2. Added(h, f, l, p, moves, b) /\ f.tt = h.tt /\ f.nonTT = h.nonTT /\ f.gcQueue = h.gcQueue
    <3>1. l \in LowNodes /\ l \notin LiveLow(h) /\ p \in Positions OBVIOUS
    <3> QED BY ONLY <1>h, <2>1, <3>1, NewLowIs
  <2> QED BY <2>2 DEF moves
<1>3. g = [f EXCEPT !.tt = T] BY <1>g
<1> HIDE DEF f
<1>4. Tree(f) /\ Refs(f, l) = {} /\ (\A k : Refs(f, k) = Refs(h, k)) /\ LinesKept(h, f)
  BY <1>2, AddedTree DEF Sane
<1>5. f \in Heap BY <1>4 DEF Tree
<1>6. /\ T \in [Positions -> LowNodes \cup {None}] /\ T[p] = l
      /\ \A q \in Positions : q # p => T[q] = h.tt[q]
  BY <1>2, <1>5, HeapFields
<1> HIDE DEF T
<1> DEFINE S == f.nonTT
           Q == f.gcQueue
<1>7. g = [node |-> f.node, low |-> f.low, gamebegin |-> f.gamebegin, tt |-> T,
           nonTT |-> S, gcQueue |-> Q]
  BY <1>3, <1>5, HeapFields
<1>8. S \in Seq(LowNodes) /\ Q \in SUBSET Positions BY <1>5, HeapFields
<1>s. S = h.nonTT BY <1>2
<1> HIDE DEF S, Q
<1>9. Reowned(f, g) /\ g.tt = T /\ g.nonTT = S BY ONLY <1>4, <1>6, <1>7, <1>8, ReownedIs
<1>10. /\ LiveLow(f) = LiveLow(h) \cup {l} /\ (\A k \in LiveLow(h) : f.low[k] = h.low[k])
       /\ f.low[l].hash = p /\ f.low[l].edges = DOMAIN Succ[p] /\ f.low[l].is_tt = b
       /\ f.low[l].children = {} /\ f.low[l].parents = 0
       /\ LiveNodes(f) = LiveNodes(h) /\ f.node = h.node /\ f.gamebegin = h.gamebegin
  BY <1>2 DEF Added
<1>11. /\ g.node = h.node /\ g.gamebegin = h.gamebegin /\ LiveNodes(g) = LiveNodes(h)
       /\ g.low[l].children = {}
  BY <1>9, <1>10 DEF Reowned
<1>12. /\ LiveLow(g) = LiveLow(h) \cup {l} /\ (\A k \in LiveLow(h) : g.low[k] = h.low[k])
       /\ g.low[l].hash = p /\ g.low[l].edges = DOMAIN Succ[p] /\ g.low[l].is_tt
  BY <1>9, <1>10, <1>b DEF Reowned
<1>13. Table(g)
  <2>1. Table(h) BY DEF Sane
  <2>2. ASSUME NEW q \in Positions, g.tt[q] # None
        PROVE  g.tt[q] \in LiveLow(g) /\ g.low[g.tt[q]].hash = q /\ g.low[g.tt[q]].is_tt
    <3>1. CASE q = p BY <1>6, <1>9, <1>12, <3>1
    <3>2. CASE q # p
      <4>1. g.tt[q] = h.tt[q] BY <1>6, <1>9, <3>2
      <4>2. h.tt[q] \in LiveLow(h) /\ h.low[h.tt[q]].hash = q /\ h.low[h.tt[q]].is_tt
        BY <2>1, <2>2, <4>1 DEF Table
      <4> QED BY <1>12, <4>1, <4>2
    <3> QED BY <3>1, <3>2
  <2>3. ASSUME NEW k \in LiveLow(g)
        PROVE  /\ g.low[k].edges \subseteq DOMAIN Succ[g.low[k].hash]
               /\ g.low[k].is_tt => g.tt[g.low[k].hash] = k
               /\ g.low[k].is_tt => g.low[k].edges = DOMAIN Succ[g.low[k].hash]
    <3>1. CASE k = l BY <1>6, <1>9, <1>12, <3>1
    <3>2. CASE k \in LiveLow(h)
      <4>1. /\ h.low[k].edges \subseteq DOMAIN Succ[h.low[k].hash]
            /\ h.low[k].is_tt => h.tt[h.low[k].hash] = k
            /\ h.low[k].is_tt => h.low[k].edges = DOMAIN Succ[h.low[k].hash]
        BY <2>1, <3>2 DEF Table
      <4>2. h.low[k].hash \in Positions /\ k # None BY <1>h, <3>2, LiveFields, Fields, Addresses
      <4>3. g.low[k] = h.low[k] BY <1>12, <3>2
      <4>4. h.low[k].is_tt => h.low[k].hash # p BY <4>1, <4>2
      <4>5. h.low[k].is_tt => g.tt[h.low[k].hash] = k BY <1>6, <1>9, <4>1, <4>2, <4>4
      <4> QED BY <4>1, <4>3, <4>5
    <3> QED BY <1>12, <3>1, <3>2
  <2> QED BY <2>2, <2>3 DEF Table
<1>14. NonTT(g)
  <2>1. NonTT(h) BY DEF Sane
  <2>2. g.nonTT = h.nonTT BY <1>9, <1>s
  <2>3. \A i \in DOMAIN h.nonTT : h.nonTT[i] \in LiveLow(g) /\ ~ g.low[h.nonTT[i]].is_tt
    BY <1>12, <2>1 DEF NonTT
  <2>4. \A k \in LiveLow(g) : ~ g.low[k].is_tt => \E i \in DOMAIN h.nonTT : h.nonTT[i] = k
    BY <1>12, <2>1 DEF NonTT
  <2>5. \A i, j \in DOMAIN h.nonTT : h.nonTT[i] = h.nonTT[j] => i = j BY <2>1 DEF NonTT
  <2>6. \A i \in DOMAIN g.nonTT : g.nonTT[i] \in LiveLow(g) /\ ~ g.low[g.nonTT[i]].is_tt
    BY <2>2, <2>3
  <2>7. \A k \in LiveLow(g) : ~ g.low[k].is_tt => \E i \in DOMAIN g.nonTT : g.nonTT[i] = k
    BY <2>2, <2>4
  <2>8. \A i, j \in DOMAIN g.nonTT : g.nonTT[i] = g.nonTT[j] => i = j BY <2>2, <2>5
  <2> QED BY <2>6, <2>7, <2>8, Zenon DEF NonTT
<1>15. LinesKept(h, g) BY <1>4, <1>9 DEF Reowned, LinesKept
<1>16. Refs(g, l) = {} /\ \A k : Refs(g, k) = Refs(h, k) BY <1>4, <1>9 DEF Reowned
<1>17. Tree(g) /\ g.tt[p] = l BY <1>6, <1>9 DEF Reowned
<1>18. Sane(g) BY <1>13, <1>14, <1>17 DEF Sane
<1> QED BY <1>11, <1>12, <1>15, <1>16, <1>17, <1>18 DEF TTAdded

\* What LeaveTable changes: l is of the table no more.
Left(h, g, l) ==
  /\ Sane(g) /\ g.gamebegin = h.gamebegin /\ g.node = h.node
  /\ LiveNodes(g) = LiveNodes(h) /\ LiveLow(g) = LiveLow(h)
  /\ ~ g.low[l].is_tt /\ g.low[l].hash = h.low[l].hash
  /\ g.low[l].children = h.low[l].children
  /\ (\A k \in LiveLow(h) : k # l => g.low[k] = h.low[k])
  /\ \A k : Refs(g, k) = Refs(h, k)

\* A heap with other low nodes, another table and another non_tt_.
LEMMA HeapWithTable ==
  ASSUME NEW h, h \in Heap, NEW W, NEW T, NEW S
  PROVE  [[[h EXCEPT !.low = W] EXCEPT !.tt = T] EXCEPT !.nonTT = S] =
           [node |-> h.node, low |-> W, gamebegin |-> h.gamebegin, tt |-> T,
            nonTT |-> S, gcQueue |-> h.gcQueue]
<1> DEFINE e == [h EXCEPT !.low = W]
           f == [e EXCEPT !.tt = T]
<1>1. e = [node |-> h.node, low |-> W, gamebegin |-> h.gamebegin, tt |-> h.tt,
           nonTT |-> h.nonTT, gcQueue |-> h.gcQueue]
  BY HeapFields
<1> HIDE DEF e
<1>2. f = [node |-> h.node, low |-> W, gamebegin |-> h.gamebegin, tt |-> T,
           nonTT |-> h.nonTT, gcQueue |-> h.gcQueue]
  BY <1>1
<1> HIDE DEF f
<1>3. [f EXCEPT !.nonTT = S] =
        [node |-> h.node, low |-> W, gamebegin |-> h.gamebegin, tt |-> T, nonTT |-> S,
         gcQueue |-> h.gcQueue]
  BY <1>2
<1> QED BY <1>3 DEF e, f

\* The heap after LeaveTable, field by field.
LEMMA LeaveTableFields ==
  ASSUME NEW h, h \in Heap, NEW l \in LiveLow(h), h.low[l].is_tt,
         NEW g, g = LeaveTable(h, l)
  PROVE  /\ g \in Heap /\ g.node = h.node /\ g.gamebegin = h.gamebegin
         /\ g.tt = [h.tt EXCEPT ![h.low[l].hash] = None] /\ g.nonTT = Append(h.nonTT, l)
         /\ LiveLow(g) = LiveLow(h) /\ (\A k \in LiveLow(h) : k # l => g.low[k] = h.low[k])
         /\ AllBut(h.low[l], g.low[l]) /\ g.low[l].children = h.low[l].children
         /\ g.low[l].parents = h.low[l].parents /\ ~ g.low[l].is_tt
<1> DEFINE b == FALSE
           r == LowTable(h.low[l], b)
           W == [h.low EXCEPT ![l] = r]
           T == [h.tt EXCEPT ![h.low[l].hash] = None]
           S == Append(h.nonTT, l)
<1>1. l \in LowNodes /\ h.low[l] \in LowRec BY LiveFields
<1>2. g = [[[h EXCEPT !.low = W] EXCEPT !.tt = T] EXCEPT !.nonTT = S]
  BY DEF LeaveTable, LowTable
<1>b. b \in BOOLEAN /\ ~ b OBVIOUS
<1> HIDE DEF b
<1>3. /\ AllBut(h.low[l], r) /\ r.children = h.low[l].children
      /\ r.parents = h.low[l].parents /\ r.is_tt = b /\ r.visited = h.low[l].visited
  BY <1>1, LowWithTable
<1>w. W = [h.low EXCEPT ![l] = r] OBVIOUS
<1> HIDE DEF r
<1>4. r \in LowRec BY <1>1, <1>3, <1>b, AllButLow, Fields
<1>5. W \in [LowNodes -> LowRec \cup {DeadLow}] BY <1>1, <1>4, HeapFields
<1>6. T \in [Positions -> LowNodes \cup {None}] /\ S \in Seq(LowNodes)
  <2>1. h.low[l].hash \in Positions BY <1>1, Fields
  <2>2. h.tt \in [Positions -> LowNodes \cup {None}] /\ h.nonTT \in Seq(LowNodes) BY HeapFields
  <2>3. T \in [Positions -> LowNodes \cup {None}] BY <2>1, <2>2
  <2>4. S \in Seq(LowNodes) BY <1>1, <2>2
  <2> QED BY <2>3, <2>4
<1>t. T = [h.tt EXCEPT ![h.low[l].hash] = None] /\ S = Append(h.nonTT, l) OBVIOUS
<1> HIDE DEF W, T, S
<1>7. g = [node |-> h.node, low |-> W, gamebegin |-> h.gamebegin, tt |-> T, nonTT |-> S,
           gcQueue |-> h.gcQueue]
  BY <1>2, HeapWithTable
<1>8. g.node = h.node /\ g.low = W /\ g.gamebegin = h.gamebegin /\ g.tt = T /\ g.nonTT = S
      /\ g.gcQueue = h.gcQueue
  BY <1>7
<1>9. g = [node |-> g.node, low |-> g.low, gamebegin |-> g.gamebegin, tt |-> g.tt,
           nonTT |-> g.nonTT, gcQueue |-> g.gcQueue]
  BY <1>7, <1>8
<1>10. g \in Heap
  <2>1. /\ g.node \in [Nodes -> NodeRec \cup {DeadNode}]
        /\ g.low \in [LowNodes -> LowRec \cup {DeadLow}]
        /\ g.gamebegin \in Nodes \cup {None} /\ g.tt \in [Positions -> LowNodes \cup {None}]
        /\ g.nonTT \in Seq(LowNodes) /\ g.gcQueue \in SUBSET Positions
    BY <1>5, <1>6, <1>8, HeapFields
  <2> QED BY ONLY <1>9, <2>1, HeapIs
<1>11. r.dead = FALSE BY <1>3, Zenon DEF AllBut
<1>12. /\ LiveLow(g) = LiveLow(h) /\ g.low[l] = r
       /\ \A k \in LiveLow(h) : k # l => g.low[k] = h.low[k]
  BY <1>1, <1>8, <1>11, <1>w, HeapFields DEF LiveLow
<1> QED BY <1>3, <1>8, <1>10, <1>12, <1>t, <1>b

\* A low node that leaves the table.
LEMMA LeaveTableIs ==
  ASSUME NEW h, Sane(h), NEW l \in LiveLow(h), NEW g, g = LeaveTable(h, l)
  PROVE  Left(h, g, l)
<1>h. h \in Heap /\ Tree(h) /\ Table(h) /\ NonTT(h) BY DEF Sane, Tree
<1>1. CASE ~ h.low[l].is_tt
  <2>1. g = h BY <1>1 DEF LeaveTable
  <2> QED BY <1>1, <2>1 DEF Left
<1>2. CASE h.low[l].is_tt
  <2> DEFINE p == h.low[l].hash
             m == Len(h.nonTT)
  <2>1. /\ g \in Heap /\ g.node = h.node /\ g.gamebegin = h.gamebegin
        /\ g.tt = [h.tt EXCEPT ![p] = None] /\ g.nonTT = Append(h.nonTT, l)
        /\ LiveLow(g) = LiveLow(h) /\ (\A k \in LiveLow(h) : k # l => g.low[k] = h.low[k])
        /\ AllBut(h.low[l], g.low[l]) /\ g.low[l].children = h.low[l].children
        /\ g.low[l].parents = h.low[l].parents /\ ~ g.low[l].is_tt
    BY <1>h, <1>2, LeaveTableFields
  <2>2. g.low[l].hash = p /\ g.low[l].edges = h.low[l].edges BY <2>1, Zenon DEF AllBut
  <2>3. LiveNodes(g) = LiveNodes(h) BY <2>1 DEF LiveNodes
  <2>4. SameShape(h, g) BY <2>1, <2>2, <2>3 DEF SameShape
  <2>5. Tree(g) /\ \A k : Refs(g, k) = Refs(h, k) BY <1>h, <2>4, SameShapeTree
  <2>6. l \in LowNodes /\ p \in Positions /\ h.tt \in [Positions -> LowNodes \cup {None}]
        /\ h.nonTT \in Seq(LowNodes) /\ h.tt[p] = l
    BY <1>h, <1>2, LiveFields, Fields, HeapFields DEF Table
  <2> HIDE DEF p
  <2>7. g.tt[p] = None /\ \A q \in Positions : q # p => g.tt[q] = h.tt[q] BY <2>1, <2>6
  <2>8. Table(g)
    <3>1. ASSUME NEW q \in Positions, g.tt[q] # None
          PROVE  g.tt[q] \in LiveLow(g) /\ g.low[g.tt[q]].hash = q /\ g.low[g.tt[q]].is_tt
      <4>1. q # p /\ g.tt[q] = h.tt[q] BY <2>7, <3>1
      <4>2. h.tt[q] \in LiveLow(h) /\ h.low[h.tt[q]].hash = q /\ h.low[h.tt[q]].is_tt
        BY <1>h, <3>1, <4>1 DEF Table
      <4>3. h.tt[q] # l BY <4>1, <4>2 DEF p
      <4> QED BY <2>1, <4>1, <4>2, <4>3
    <3>2. ASSUME NEW k \in LiveLow(g)
          PROVE  /\ g.low[k].edges \subseteq DOMAIN Succ[g.low[k].hash]
                 /\ g.low[k].is_tt => g.tt[g.low[k].hash] = k
                 /\ g.low[k].is_tt => g.low[k].edges = DOMAIN Succ[g.low[k].hash]
      <4>0. /\ h.low[k].edges \subseteq DOMAIN Succ[h.low[k].hash]
            /\ h.low[k].is_tt => h.tt[h.low[k].hash] = k
            /\ h.low[k].is_tt => h.low[k].edges = DOMAIN Succ[h.low[k].hash]
        BY <1>h, <2>1 DEF Table
      <4>1. CASE k = l
        <5>1. h.low[l].hash = g.low[l].hash /\ ~ g.low[k].is_tt
          BY <2>1, <2>2, <4>1 DEF p
        <5> QED BY <2>2, <4>0, <4>1, <5>1
      <4>2. CASE k # l
        <5>1. g.low[k] = h.low[k] BY <2>1, <4>2
        <5>2. h.low[k].hash \in Positions BY <1>h, <2>1, LiveFields, Fields
        <5>3. h.low[k].is_tt => h.low[k].hash # p BY <2>6, <4>0, <4>2
        <5> QED BY <2>7, <4>0, <5>1, <5>2, <5>3
      <4> QED BY <4>1, <4>2
    <3> QED BY <3>1, <3>2 DEF Table
  <2>9. NonTT(g)
    <3>1. m \in Nat /\ DOMAIN h.nonTT = 1..m /\ DOMAIN g.nonTT = 1..(m + 1)
          /\ (\A j \in 1..m : g.nonTT[j] = h.nonTT[j]) /\ g.nonTT[m + 1] = l
      BY <2>1, <2>6
    <3> HIDE DEF m
    <3>2. \A j \in 1..(m + 1) : j \in 1..m \/ j = m + 1 BY <3>1
    <3>3. \A j \in 1..m : h.nonTT[j] \in LiveLow(h) /\ ~ h.low[h.nonTT[j]].is_tt /\ h.nonTT[j] # l
      BY <1>h, <1>2, <3>1 DEF NonTT
    <3>4. \A i \in DOMAIN g.nonTT : g.nonTT[i] \in LiveLow(g) /\ ~ g.low[g.nonTT[i]].is_tt
      BY <2>1, <3>1, <3>2, <3>3
    <3>5. \A i, j \in 1..m : h.nonTT[i] = h.nonTT[j] => i = j BY <1>h, <3>1 DEF NonTT
    <3>6. \A i, j \in DOMAIN g.nonTT : g.nonTT[i] = g.nonTT[j] => i = j
      BY <3>1, <3>2, <3>3, <3>5
    <3>7. ASSUME NEW k \in LiveLow(g), ~ g.low[k].is_tt
          PROVE  \E i \in DOMAIN g.nonTT : g.nonTT[i] = k
      <4>1. CASE k = l
        <5>1. m + 1 \in 1..(m + 1) BY <3>1
        <5> QED BY <3>1, <4>1, <5>1
      <4>2. CASE k # l
        <5>1. ~ h.low[k].is_tt /\ k \in LiveLow(h) BY <2>1, <3>7, <4>2
        <5>2. PICK i \in 1..m : h.nonTT[i] = k BY <1>h, <3>1, <5>1 DEF NonTT
        <5>3. i \in 1..(m + 1) BY <3>1
        <5> QED BY <3>1, <5>2, <5>3
      <4> QED BY <4>1, <4>2
    <3> QED BY <3>4, <3>6, <3>7 DEF NonTT
  <2>10. Sane(g) BY <2>5, <2>8, <2>9 DEF Sane
  <2>11. g.low[l].hash = h.low[l].hash BY <2>2 DEF p
  <2>12. /\ g.gamebegin = h.gamebegin /\ g.node = h.node
         /\ LiveNodes(g) = LiveNodes(h) /\ LiveLow(g) = LiveLow(h)
         /\ ~ g.low[l].is_tt /\ g.low[l].children = h.low[l].children
    BY <2>1, <2>3
  <2>13. \A k \in LiveLow(h) : k # l => g.low[k] = h.low[k] BY <2>1
  <2>14. \A k : Refs(g, k) = Refs(h, k) BY <2>5
  <2> QED BY <2>10, <2>11, <2>12, <2>13, <2>14 DEF Left
<1> QED BY <1>1, <1>2
-----------------------------------------------------------------------------
(* The head of a line. *)

\* A line of a tree, of legal moves.
HeadOf(h, path, line, head) ==
  /\ Tree(h) /\ line \in Seq(Moves) /\ Legal(line) /\ Line(h, path, line, head)

\* What a line leads to is of the position after its moves.
LEMMA HeadLeads ==
  ASSUME NEW h, NEW path, NEW line, NEW head, HeadOf(h, path, line, head)
  PROVE  /\ CanLead(h, head, PositionAfter(line)) /\ LeadsTo(h, head, PositionAfter(line))
         /\ head \in LiveNodes(h)
<1> DEFINE m == Len(line)
<1>h. Tree(h) /\ line \in Seq(Moves) /\ Legal(line) /\ Line(h, path, line, head) BY DEF HeadOf
<1>0. m \in Nat BY <1>h
<1>t. /\ h \in Heap
      /\ h.gamebegin # None => LeadsTo(h, h.gamebegin, Start)
      /\ \A l \in LiveLow(h) : Family(h, l)
      /\ \A k, l \in LiveLow(h), c \in Nodes :
           c \in h.low[k].children /\ c \in h.low[l].children => k = l
  BY <1>h DEF Tree
<1>p. At(line, 0) = Start /\ At(line, m) = PositionAfter(line)
      /\ \A i \in 1..m : At(line, i) = Succ[At(line, i - 1)][line[i]]
  BY <1>h, AtNext
<1>n. path[0] = h.gamebegin /\ path[m] = head /\ (\A i \in 1..m : Link(h, path, line, i))
      /\ head \in LiveNodes(h) /\ h.gamebegin \in LiveNodes(h)
  <2>1. head \in LiveNodes(h) /\ h.gamebegin \in LiveNodes(h) BY <1>h, <1>0, LineNodes
  <2> QED BY <1>h, <2>1 DEF Line
<1> HIDE DEF m
<1>b. h.gamebegin # None BY <1>t, <1>n, LiveFields, Addresses
<1>1. CASE m = 0
  <2>1. head = h.gamebegin /\ PositionAfter(line) = Start BY <1>1, <1>n, <1>p
  <2>2. \A l \in LiveLow(h) : head \notin h.low[l].children BY <1>t, <2>1 DEF Family
  <2> QED BY <1>b, <1>n, <1>t, <2>1, <2>2 DEF CanLead
<1>2. CASE m # 0
  <2>1. m \in 1..m BY <1>0, <1>2
  <2> DEFINE k == h.node[path[m - 1]].low
  <2>2. /\ k \in LiveLow(h) /\ h.low[k].hash = At(line, m - 1) /\ h.low[k].children = {head}
        /\ h.node[head].move = line[m]
    BY <1>n, <2>1 DEF Link, At
  <2> HIDE DEF k
  <2>3. Succ[h.low[k].hash][h.node[head].move] = PositionAfter(line) BY <1>p, <2>1, <2>2
  <2>4. head # h.gamebegin /\ LeadsTo(h, head, Succ[h.low[k].hash][h.node[head].move])
    <3>1. Family(h, k) BY <1>t, <2>2
    <3> QED BY <2>2, <3>1 DEF Family
  <2>5. ASSUME NEW l \in LiveLow(h), head \in h.low[l].children PROVE l = k
    <3>1. head \in Nodes BY <1>t, <1>n, LiveFields
    <3> QED BY <1>t, <2>2, <2>5, <3>1
  <2> QED BY <1>n, <2>3, <2>4, <2>5 DEF CanLead
<1> QED BY <1>1, <1>2

\* The low node of the head is none of the line.
LEMMA HeadOffLine ==
  ASSUME NEW h, NEW path, NEW line, NEW head, HeadOf(h, path, line, head),
         NEW i \in 1..Len(line)
  PROVE  LineLow(h, path, i) # h.node[head].low /\ path[i - 1] # head
<1> DEFINE l == h.node[head].low
<1>h. Tree(h) /\ line \in Seq(Moves) /\ Legal(line) /\ Line(h, path, line, head) BY DEF HeadOf
<1>1. LeadsTo(h, head, PositionAfter(line)) BY HeadLeads
<1>2. LineLow(h, path, i) \in LiveLow(h) /\ h.low[LineLow(h, path, i)].hash = At(line, i - 1)
  BY <1>h DEF Line, Link, LineLow, At
<1>3. i - 1 \in 0..Len(line) /\ i - 1 # Len(line) BY <1>h
<1>4. Later(At(line, i - 1), PositionAfter(line)) BY <1>h, <1>3, LegalLater
<1>5. PositionAfter(line) \in Positions BY <1>h, LegalPositions
<1>6. At(line, i - 1) # PositionAfter(line) BY <1>4, <1>5, LaterIs
<1>7. LineLow(h, path, i) # None BY <1>2, <1>h, LiveFields, Addresses DEF Tree
<1>8. LineLow(h, path, i) # l
  BY <1>1, <1>2, <1>6, <1>7 DEF LeadsTo
<1> QED BY <1>8 DEF LineLow

\* A node that has no low node is on a line only as its head.
LEMMA LowlessOffLine ==
  ASSUME NEW h, NEW path, NEW line, NEW head, HeadOf(h, path, line, head), NEW n,
         h.node[n].low = None, NEW i \in 1..Len(line)
  PROVE  path[i - 1] # n
<1>1. Tree(h) /\ line \in Seq(Moves) /\ Line(h, path, line, head) BY DEF HeadOf
<1>2. LineLow(h, path, i) \in LiveLow(h) BY <1>1 DEF Line, Link, LineLow
<1>3. LineLow(h, path, i) # None BY <1>1, <1>2, LiveFields, Addresses DEF Tree
<1> QED BY <1>3 DEF LineLow

\* A line stays when its head, or a node off the line, has another low node.
LEMMA LineRelinked ==
  ASSUME NEW h, NEW path, NEW line, NEW head, HeadOf(h, path, line, head), NEW g, NEW n, NEW l,
         Relinked(h, g, n, l), \A i \in 1..Len(line) : path[i - 1] # n
  PROVE  Line(g, path, line, head)
<1>h. Tree(h) /\ line \in Seq(Moves) /\ Legal(line) /\ Line(h, path, line, head) BY DEF HeadOf
<1>0. Len(line) \in Nat BY <1>h
<1>n. /\ \A i \in 0..Len(line) : path[i] \in LiveNodes(h)
      /\ \A i \in 1..Len(line) : LineLow(h, path, i) \in LiveLow(h)
  BY <1>h, <1>0, LineNodes
<1>r. /\ g.gamebegin = h.gamebegin /\ LiveNodes(g) = LiveNodes(h) /\ LiveLow(g) = LiveLow(h)
      /\ \A k \in LiveNodes(h) : g.node[k].move = h.node[k].move
      /\ \A k \in LiveNodes(h) : k # n => g.node[k].low = h.node[k].low
      /\ \A k \in LiveLow(h) : SameLow(h, g, k) /\ g.low[k].children = h.low[k].children
  BY DEF Relinked
<1>1. \A i \in 0..Len(line) : path[i] \in LiveNodes(g) /\ g.node[path[i]].move = h.node[path[i]].move
  BY <1>n, <1>r
<1>2. ASSUME NEW i \in 1..Len(line)
      PROVE  LET k == LineLow(h, path, i) IN
             /\ LineLow(g, path, i) = k /\ k \in LiveLow(g)
             /\ g.low[k].hash = h.low[k].hash /\ g.low[k].is_tt = h.low[k].is_tt
             /\ g.low[k].children = h.low[k].children
  <2>1. i - 1 \in 0..Len(line) BY <1>0
  <2>2. path[i - 1] # n /\ path[i - 1] \in LiveNodes(h) BY <1>n, <2>1
  <2>3. LineLow(g, path, i) = LineLow(h, path, i) BY <1>r, <2>2 DEF LineLow
  <2> QED BY <1>n, <1>r, <2>3 DEF SameLow
<1> QED BY <1>0, <1>1, <1>2, <1>h, <1>r, LineKept

\* Low nodes outside the table that are not l are old ones, the head being none
\* of the nodes that refer to them.
Others(h, g, head, l) ==
  \A k \in LiveLow(g) :
    k # l /\ ~ g.low[k].is_tt =>
      k \in LiveLow(h) /\ ~ h.low[k].is_tt /\ Refs(g, k) \subseteq Refs(h, k) \ {head}

\* Only the head refers to another low node.
LowsStay(h, g, head) ==
  \A n \in LiveNodes(h) : n \in LiveNodes(g) /\ n # head => g.node[n].low = h.node[n].low

\* The head has the low node l of its position.
FoundAt(h, g, path, line, head, l) ==
  /\ Sane(g) /\ Line(g, path, line, head) /\ LiveNodes(g) = LiveNodes(h)
  /\ l \in LiveLow(g) /\ g.node[head].low = l /\ g.low[l].hash = PositionAfter(line)
  /\ Others(h, g, head, l) /\ LowsStay(h, g, head)

\* What FindLowNode finds or makes.
LEMMA FindLowNodeIs ==
  ASSUME NEW h, Sane(h), NEW path, NEW line, NEW head, HeadOf(h, path, line, head),
         NEW p, p = PositionAfter(line), NEW m \in DOMAIN Succ[p], LiveLow(h) # LowNodes,
         NEW g, g = FindLowNode(h, head, p, m)
  PROVE  \E l : FoundAt(h, g, path, line, head, l)
<1> DEFINE f == UnsetLowNode(h, head)
<1>h. Tree(h) /\ line \in Seq(Moves) /\ Legal(line) /\ Line(h, path, line, head) BY DEF HeadOf
<1>p. p \in Positions BY <1>h, LegalPositions
<1>1. head \in LiveNodes(h) /\ CanLead(h, head, p) BY HeadLeads
<1>2. Relinked(h, f, head, None) BY <1>h, <1>1, UnsetLowNodeIs
<1>g. g = IF f.tt[p] # None THEN SetLowNode(f, head, f.tt[p])
          ELSE LET l == FreeLow(f) IN SetLowNode(NonTTAdd(f, l, p, {m}), head, l)
  BY DEF FindLowNode
<1> HIDE DEF f
<1>3. Sane(f) BY <1>1, <1>2, RelinkedSane
<1>4. \A i \in 1..Len(line) : path[i - 1] # head BY HeadOffLine
<1>5. Line(f, path, line, head) BY <1>2, <1>4, LineRelinked
<1>6. LiveNodes(f) = LiveNodes(h) /\ LiveLow(f) = LiveLow(h) /\ f.node[head].low = None
      /\ f.gamebegin = h.gamebegin /\ Tree(f) /\ Table(f) /\ f \in Heap
      /\ (\A k \in LiveLow(h) : SameLow(h, f, k))
  BY <1>2, <1>3 DEF Relinked, Sane, Tree
<1>7. HeadOf(f, path, line, head) BY <1>5, <1>6, <1>h DEF HeadOf
<1>8. CanLead(f, head, p) BY <1>7, HeadLeads
<1>9. \A k : Refs(f, k) \subseteq Refs(h, k) \cup (IF k = None THEN {head} ELSE {})
  BY <1>1, <1>2, RelinkedRefs
<1>n. None \notin LiveLow(f) BY <1>6, LiveFields, Addresses
<1>10. \A k \in LiveLow(f) : Refs(f, k) \subseteq Refs(h, k) BY <1>9, <1>n
<1>11. CASE f.tt[p] # None
  <2> DEFINE l == f.tt[p]
  <2>1. l \in LiveLow(f) /\ f.low[l].hash = p BY <1>6, <1>11, <1>p DEF Table
  <2>2. g = SetLowNode(f, head, l) BY <1>11, <1>g
  <2> HIDE DEF l
  <2>3. Relinked(f, g, head, l) BY <1>1, <1>6, <2>1, <2>2, SetLowNodeIs
  <2>4. Sane(g) BY <1>1, <1>3, <1>6, <1>8, <2>1, <2>3, RelinkedSane
  <2>5. Line(g, path, line, head) BY <1>4, <1>7, <2>3, LineRelinked
  <2>6. LiveNodes(g) = LiveNodes(h) /\ l \in LiveLow(g) /\ g.node[head].low = l
        /\ g.low[l].hash = p
    BY <1>6, <2>1, <2>3 DEF Relinked, SameLow
  <2>7. ASSUME NEW k \in LiveLow(g), k # l, ~ g.low[k].is_tt
        PROVE  k \in LiveLow(h) /\ ~ h.low[k].is_tt /\ Refs(g, k) \subseteq Refs(h, k) \ {head}
    <3>1. k \in LiveLow(f) /\ ~ f.low[k].is_tt BY <2>3, <2>7 DEF Relinked, SameLow
    <3>2. Refs(g, k) = Refs(f, k) \ {head} BY <1>1, <1>6, <2>3, <2>7, RelinkedRefs
    <3> QED BY <1>6, <1>10, <3>1, <3>2 DEF SameLow
  <2>8. Others(h, g, head, l) BY <2>7 DEF Others
  <2>9. LowsStay(h, g, head) BY <1>2, <1>6, <2>3 DEF Relinked, LowsStay
  <2> QED BY <2>4, <2>5, <2>6, <2>8, <2>9 DEF FoundAt
<1>12. CASE f.tt[p] = None
  <2> DEFINE l == FreeLow(f)
             moves == {m}
             e == NonTTAdd(f, l, p, moves)
  <2>1. l \in LowNodes /\ l \notin LiveLow(f) BY <1>6, FreeLowIs
  <2>2. moves \subseteq DOMAIN Succ[p] OBVIOUS
  <2>3. g = SetLowNode(e, head, l) BY <1>12, <1>g
  <2>e. e = NonTTAdd(f, l, p, moves) OBVIOUS
  <2> HIDE DEF l, moves, e
  <2>4. Grown(f, e, l, p, moves, FALSE) BY <1>3, <1>p, <2>1, <2>2, <2>e, NonTTAddIs
  <2>5. Sane(e) /\ LinesKept(f, e) /\ Added(f, e, l, p, moves, FALSE)
        /\ \A k : Refs(e, k) = Refs(f, k)
    BY <2>4 DEF Grown
  <2>6. /\ e.node = f.node /\ e.gamebegin = f.gamebegin /\ LiveNodes(e) = LiveNodes(f)
        /\ LiveLow(e) = LiveLow(f) \cup {l} /\ (\A k \in LiveLow(f) : e.low[k] = f.low[k])
        /\ e.low[l].hash = p
    BY <2>5 DEF Added
  <2>7. Line(e, path, line, head) BY <1>5, <1>h, <2>5 DEF LinesKept
  <2>8. HeadOf(e, path, line, head) /\ Tree(e) BY <1>h, <2>5, <2>7 DEF HeadOf, Sane
  <2>9. CanLead(e, head, p) BY <2>8, HeadLeads
  <2>10. head \in LiveNodes(e) /\ e.node[head].low = None /\ l \in LiveLow(e) BY <1>1, <1>6, <2>6
  <2>11. Relinked(e, g, head, l) BY <2>3, <2>8, <2>10, SetLowNodeIs
  <2>12. Sane(g) BY <2>5, <2>6, <2>9, <2>10, <2>11, RelinkedSane
  <2>13. Line(g, path, line, head) BY <1>4, <2>8, <2>11, LineRelinked
  <2>14. LiveNodes(g) = LiveNodes(h) /\ l \in LiveLow(g) /\ g.node[head].low = l
         /\ g.low[l].hash = p
    BY <1>6, <2>6, <2>11 DEF Relinked, SameLow
  <2>15. ASSUME NEW k \in LiveLow(g), k # l, ~ g.low[k].is_tt
         PROVE  k \in LiveLow(h) /\ ~ h.low[k].is_tt /\ Refs(g, k) \subseteq Refs(h, k) \ {head}
    <3>1. k \in LiveLow(e) /\ ~ e.low[k].is_tt BY <2>11, <2>15 DEF Relinked, SameLow
    <3>2. k \in LiveLow(f) /\ ~ f.low[k].is_tt BY <2>6, <2>15, <3>1
    <3>3. Refs(g, k) = Refs(e, k) \ {head} BY <2>10, <2>11, <2>15, RelinkedRefs
    <3> QED BY <1>6, <1>10, <2>5, <3>2, <3>3 DEF SameLow
  <2>16. Others(h, g, head, l) BY <2>15 DEF Others
  <2>17. LowsStay(h, g, head) BY <1>2, <1>6, <2>6, <2>11 DEF Relinked, LowsStay
  <2> QED BY <2>12, <2>13, <2>14, <2>16, <2>17 DEF FoundAt
<1> QED BY <1>11, <1>12

\* The low node of the head, before the move.
LEMMA FoundIs ==
  ASSUME NEW h, Sane(h), NEW path, NEW line, NEW head, HeadOf(h, path, line, head),
         NEW p, p = PositionAfter(line), NEW m \in DOMAIN Succ[p], LiveLow(h) # LowNodes,
         NEW g, g = IF HasEdge(h, head, m) THEN h ELSE FindLowNode(h, head, p, m)
  PROVE  \E l : FoundAt(h, g, path, line, head, l)
<1>1. CASE HasEdge(h, head, m)
  <2> DEFINE l == h.node[head].low
  <2>1. l # None /\ g = h BY <1>1 DEF HasEdge
  <2>2. LeadsTo(h, head, p) /\ head \in LiveNodes(h) BY HeadLeads
  <2>3. l \in LiveLow(h) /\ h.low[l].hash = p BY <2>1, <2>2 DEF Sane, Tree, LeadsTo
  <2>4. \A k \in LiveLow(h) : k # l => head \notin Refs(h, k) BY DEF Refs
  <2>5. Others(h, g, head, l) BY <2>1, <2>4 DEF Others
  <2>6. LowsStay(h, g, head) BY <2>1 DEF LowsStay
  <2> QED BY <2>1, <2>3, <2>5, <2>6 DEF FoundAt, HeadOf
<1>2. CASE ~ HasEdge(h, head, m)
  <2>1. g = FindLowNode(h, head, p, m) BY <1>2
  <2> QED BY <2>1, FindLowNodeIs
<1> QED BY <1>1, <1>2

FreshNode(m) == [dead |-> FALSE, move |-> m, low |-> None, visited |-> FALSE]

\* A new node, of an edge.
LEMMA FreshNodeIs ==
  ASSUME NEW m \in Moves \cup {NoMove}
  PROVE  /\ FreshNode(m) \in NodeRec /\ FreshNode(m).dead = FALSE
         /\ FreshNode(m).move = m /\ FreshNode(m).low = None
BY DEF FreshNode, NodeRec

\* What a new child, or none, changes.
Spawned(h, g, l) ==
  /\ g \in Heap /\ g.gamebegin = h.gamebegin /\ g.tt = h.tt /\ g.nonTT = h.nonTT
  /\ LiveLow(g) = LiveLow(h) /\ LiveNodes(h) \subseteq LiveNodes(g)
  /\ (\A n \in LiveNodes(h) : g.node[n] = h.node[n])
  /\ (\A n \in LiveNodes(g) \ LiveNodes(h) : g.node[n].low = None)
  /\ (\A k \in LiveLow(h) : SameLow(h, g, k) /\ g.low[k].parents = h.low[k].parents
                            /\ h.low[k].children \subseteq g.low[k].children)
  /\ (\A k \in LiveLow(h) : k # l => g.low[k].children = h.low[k].children)
  /\ (\A k \in LiveLow(h) : Refs(g, k) = Refs(h, k))

\* No new child changes nothing.
LEMMA SpawnedSame ==
  ASSUME NEW h, h \in Heap, NEW l
  PROVE  Spawned(h, h, l)
BY DEF Spawned, SameLow

\* A new node n with the edge m, given to l.
Given(h, g, l, n, m) ==
  /\ g.node[n].move = m /\ g.low[l].children = h.low[l].children \cup {n}
  /\ LiveNodes(g) = LiveNodes(h) \cup {n}

\* The heap after GetOrSpawnNode of a node that was not there, field by field.
LEMMA SpawnFields ==
  ASSUME NEW h, h \in Heap, NEW l \in LiveLow(h), NEW m \in Moves, NEW n \in Nodes,
         n \notin LiveNodes(h),
         NEW g, g = [NewNode(h, n, m) EXCEPT !.low[l].children = @ \cup {n}]
  PROVE  Spawned(h, g, l) /\ Given(h, g, l, n, m)
<1> DEFINE s == FreshNode(m)
           c == h.low[l].children \cup {n}
           r == LowChildren(h.low[l], c)
           N == [h.node EXCEPT ![n] = s]
           W == [h.low EXCEPT ![l] = r]
           e == NewNode(h, n, m)
<1>1. l \in LowNodes /\ h.low[l] \in LowRec BY LiveFields
<1>e. e = [h EXCEPT !.node = N] BY DEF NewNode, FreshNode
<1>g. g = [e EXCEPT !.low[l].children = @ \cup {n}] OBVIOUS
<1> HIDE DEF e
<1>w. e.low = h.low BY <1>e, HeapFields
<1>2. g = [[h EXCEPT !.node = N] EXCEPT !.low = W] BY <1>e, <1>g, <1>w DEF LowChildren
<1>3. s \in NodeRec /\ s.dead = FALSE /\ s.move = m /\ s.low = None BY FreshNodeIs
<1>c. c \in SUBSET Nodes /\ c = h.low[l].children \cup {n} BY <1>1, Fields
<1> HIDE DEF c
<1>4. /\ AllBut(h.low[l], r) /\ r.children = c /\ r.parents = h.low[l].parents
      /\ r.is_tt = h.low[l].is_tt /\ r.visited = h.low[l].visited
  BY <1>1, LowWithChildren
<1>n. N = [h.node EXCEPT ![n] = s] /\ W = [h.low EXCEPT ![l] = r] OBVIOUS
<1> HIDE DEF s, r
<1>5. r \in LowRec BY <1>1, <1>4, <1>c, AllButLow, Fields
<1>6. N \in [Nodes -> NodeRec \cup {DeadNode}] /\ W \in [LowNodes -> LowRec \cup {DeadLow}]
  BY <1>1, <1>3, <1>5, HeapFields
<1> HIDE DEF N, W
<1>7. g = [node |-> N, low |-> W, gamebegin |-> h.gamebegin, tt |-> h.tt,
           nonTT |-> h.nonTT, gcQueue |-> h.gcQueue]
  BY <1>2, HeapWith
<1>8. /\ g \in Heap /\ g.node = N /\ g.low = W /\ g.gamebegin = h.gamebegin /\ g.tt = h.tt
      /\ g.nonTT = h.nonTT
  <2>1. h \in Heap OBVIOUS
  <2> QED BY ONLY <2>1, <1>6, <1>7, HeapPut
<1>9. r.dead = FALSE /\ r.hash = h.low[l].hash /\ r.edges = h.low[l].edges
  BY <1>4, Zenon DEF AllBut
<1>10. /\ LiveNodes(g) = LiveNodes(h) \cup {n} /\ g.node[n] = s
       /\ \A k \in LiveNodes(h) : g.node[k] = h.node[k]
  BY <1>3, <1>8, <1>n, HeapFields DEF LiveNodes
<1>11. /\ LiveLow(g) = LiveLow(h) /\ g.low[l] = r
       /\ \A k \in LiveLow(h) : k # l => g.low[k] = h.low[k]
  <2>1. h.low \in [LowNodes -> LowRec \cup {DeadLow}] /\ g.low = [h.low EXCEPT ![l] = r]
        /\ r.dead = FALSE /\ l \in LowNodes /\ ~ h.low[l].dead
    BY <1>1, <1>8, <1>9, <1>n, HeapFields DEF LiveLow
  <2>2. g.low[l] = r /\ \A k \in LowNodes : k # l => g.low[k] = h.low[k] BY <2>1
  <2> QED BY <2>1, <2>2 DEF LiveLow
<1>12. \A k \in LiveLow(h) : SameLow(h, g, k) /\ g.low[k].parents = h.low[k].parents
                             /\ h.low[k].children \subseteq g.low[k].children
  BY <1>4, <1>9, <1>11, <1>c DEF SameLow
<1>13. \A k \in LiveLow(h) : Refs(g, k) = Refs(h, k)
  <2>1. \A k \in LiveLow(h) : k # None BY LiveFields, Addresses
  <2> QED BY <1>3, <1>10, <2>1 DEF Refs
<1>14. /\ LiveNodes(h) \subseteq LiveNodes(g)
       /\ \A k \in LiveNodes(g) \ LiveNodes(h) : g.node[k].low = None
  BY <1>3, <1>10
<1>15. Spawned(h, g, l) BY <1>8, <1>10, <1>11, <1>12, <1>13, <1>14 DEF Spawned
<1>16. Given(h, g, l, n, m) BY <1>3, <1>4, <1>10, <1>11, <1>c DEF Given
<1> QED BY <1>15, <1>16

\* The tree with the new child.
LEMMA SpawnedTree ==
  ASSUME NEW h, Tree(h), NEW l \in LiveLow(h), NEW m \in DOMAIN Succ[h.low[l].hash],
         NEW n \in Nodes, n \notin LiveNodes(h), ChildFor(h, l, m) = {}, NEW g,
         Spawned(h, g, l), Given(h, g, l, n, m)
  PROVE  Tree(g)
<1>h. /\ h \in Heap /\ h.gamebegin \in LiveNodes(h) \cup {None}
      /\ h.gamebegin # None => LeadsTo(h, h.gamebegin, Start)
      /\ \A k \in LiveNodes(h) : h.node[k].low \in LiveLow(h) \cup {None}
      /\ \A k \in LiveNodes(h) \ {h.gamebegin} : \E j \in LiveLow(h) : k \in h.low[j].children
      /\ \A k \in LiveLow(h) : Family(h, k) /\ h.low[k].parents = Cardinality(Refs(h, k))
      /\ \A k, j \in LiveLow(h), c \in Nodes :
           c \in h.low[k].children /\ c \in h.low[j].children => k = j
  BY DEF Tree
<1>s. /\ g \in Heap /\ g.gamebegin = h.gamebegin /\ LiveLow(g) = LiveLow(h)
      /\ (\A k \in LiveNodes(h) : g.node[k] = h.node[k])
      /\ (\A k \in LiveNodes(g) \ LiveNodes(h) : g.node[k].low = None)
      /\ (\A k \in LiveLow(h) : SameLow(h, g, k) /\ g.low[k].parents = h.low[k].parents)
      /\ (\A k \in LiveLow(h) : k # l => g.low[k].children = h.low[k].children)
      /\ (\A k \in LiveLow(h) : Refs(g, k) = Refs(h, k))
  BY DEF Spawned
<1>g. g.node[n].move = m /\ g.low[l].children = h.low[l].children \cup {n}
      /\ LiveNodes(g) = LiveNodes(h) \cup {n} /\ g.node[n].low = None
  BY <1>s DEF Given
<1>a. n # None /\ n # h.gamebegin BY <1>h, Addresses
<1>b. \A k \in LiveLow(h) : g.low[k].hash = h.low[k].hash BY <1>s DEF SameLow
<1>1. \A k \in LiveNodes(g) : g.node[k].low \in LiveLow(g) \cup {None} BY <1>h, <1>s, <1>g
<1>2. \A k \in LiveNodes(h) : \A q : LeadsTo(h, k, q) => LeadsTo(g, k, q)
  BY <1>h, <1>s, <1>b DEF LeadsTo
<1>3. g.gamebegin # None => LeadsTo(g, g.gamebegin, Start) BY <1>2, <1>h, <1>s
<1>4. ASSUME NEW k \in LiveNodes(g) \ {g.gamebegin} PROVE \E j \in LiveLow(g) : k \in g.low[j].children
  <2>1. CASE k = n BY <1>g, <1>s, <2>1
  <2>2. CASE k # n
    <3>1. PICK j \in LiveLow(h) : k \in h.low[j].children BY <1>g, <1>h, <1>s, <2>2
    <3> QED BY <1>g, <1>s, <3>1
  <2> QED BY <2>1, <2>2
<1>5. ASSUME NEW k \in LiveLow(h) PROVE Family(g, k)
  <2>0. /\ h.low[k].children \subseteq LiveNodes(h) \ {h.gamebegin}
        /\ \A c \in h.low[k].children :
             /\ h.node[c].move \in DOMAIN Succ[h.low[k].hash]
             /\ LeadsTo(h, c, Succ[h.low[k].hash][h.node[c].move])
        /\ \A c, d \in h.low[k].children : h.node[c].move = h.node[d].move => c = d
    BY <1>h DEF Family
  <2>1. CASE k # l
    <3>1. g.low[k].children = h.low[k].children BY <1>s, <2>1
    <3>2. g.low[k].children \subseteq LiveNodes(g) \ {g.gamebegin} BY <1>g, <1>s, <2>0, <3>1
    <3>3. \A c \in g.low[k].children : c \in LiveNodes(h) /\ g.node[c] = h.node[c]
      BY <1>s, <2>0, <3>1
    <3>4. \A c \in g.low[k].children :
             /\ g.node[c].move \in DOMAIN Succ[g.low[k].hash]
             /\ LeadsTo(g, c, Succ[g.low[k].hash][g.node[c].move])
      BY <1>2, <1>b, <2>0, <3>1, <3>3
    <3>5. \A c, d \in g.low[k].children : g.node[c].move = g.node[d].move => c = d
      BY <2>0, <3>1, <3>3
    <3> QED BY <3>2, <3>4, <3>5 DEF Family
  <2>2. CASE k = l
    <3>2. g.low[k].children \subseteq LiveNodes(g) \ {g.gamebegin} BY <1>a, <1>g, <1>s, <2>0, <2>2
    <3>3. \A c \in h.low[k].children : c \in LiveNodes(h) /\ g.node[c] = h.node[c] /\ c # n
      BY <1>s, <2>0
    <3>n. LeadsTo(g, n, Succ[g.low[k].hash][g.node[n].move]) BY <1>g DEF LeadsTo
    <3>4. \A c \in g.low[k].children :
             /\ g.node[c].move \in DOMAIN Succ[g.low[k].hash]
             /\ LeadsTo(g, c, Succ[g.low[k].hash][g.node[c].move])
      BY <1>2, <1>b, <1>g, <2>0, <2>2, <3>3, <3>n
    <3>m. \A c \in h.low[k].children : g.node[c].move # m
      BY <2>2, <3>3 DEF ChildFor
    <3>5. \A c, d \in g.low[k].children : g.node[c].move = g.node[d].move => c = d
      BY <1>g, <2>0, <2>2, <3>3, <3>m
    <3> QED BY <3>2, <3>4, <3>5 DEF Family
  <2> QED BY <2>1, <2>2
<1>6. \A k \in LiveLow(g) : g.low[k].parents = Cardinality(Refs(g, k)) BY <1>h, <1>s
<1>7. ASSUME NEW k \in LiveLow(g), NEW j \in LiveLow(g), NEW c \in Nodes,
             c \in g.low[k].children, c \in g.low[j].children
      PROVE  k = j
  <2>1. \A i \in LiveLow(h) : n \notin h.low[i].children BY <1>h DEF Family
  <2>2. CASE c = n BY <1>g, <1>s, <1>7, <2>1, <2>2
  <2>3. CASE c # n
    <3>1. c \in h.low[k].children /\ c \in h.low[j].children BY <1>g, <1>s, <1>7, <2>3
    <3> QED BY <1>h, <1>s, <3>1
  <2> QED BY <2>2, <2>3
<1>8. g.gamebegin \in LiveNodes(g) \cup {None} BY <1>g, <1>h, <1>s
<1> QED BY <1>1, <1>3, <1>4, <1>5, <1>6, <1>7, <1>8, <1>s DEF Tree

\* The table, when low nodes keep what the table needs.
LEMMA TableSame ==
  ASSUME NEW h, h \in Heap, Table(h), NEW g, LiveLow(g) = LiveLow(h), g.tt = h.tt,
         \A k \in LiveLow(h) : SameLow(h, g, k)
  PROVE  Table(g)
<1>1. LiveLow(g) \subseteq LiveLow(h) /\ (\A l \in LiveLow(g) : SameLow(h, g, l)) OBVIOUS
<1>2. \A p \in Positions : g.tt[p] # None => g.tt[p] = h.tt[p] /\ g.tt[p] \in LiveLow(g) BY DEF Table
<1>3. \A p \in Positions : h.tt[p] \in LiveLow(g) => g.tt[p] = h.tt[p] OBVIOUS
<1> QED BY <1>1, <1>2, <1>3, TableKept

\* GetOrSpawnNode.
LEMMA SpawnIs ==
  ASSUME NEW h, Sane(h), NEW l \in LiveLow(h), NEW m \in DOMAIN Succ[h.low[l].hash],
         ChildFor(h, l, m) # {} \/ LiveNodes(h) # Nodes, NEW g, g = Spawn(h, l, m)
  PROVE  Sane(g) /\ Spawned(h, g, l) /\ ChildFor(g, l, m) # {}
<1>h. h \in Heap /\ Tree(h) /\ Table(h) /\ NonTT(h) BY DEF Sane, Tree
<1>1. CASE ChildFor(h, l, m) # {}
  <2>1. g = h BY <1>1 DEF Spawn
  <2> QED BY <1>1, <1>h, <2>1, SpawnedSame
<1>2. CASE ChildFor(h, l, m) = {}
  <2> DEFINE n == FreeNode(h)
  <2>1. g = [NewNode(h, n, m) EXCEPT !.low[l].children = @ \cup {n}] BY <1>2 DEF Spawn
  <2>2. n \in Nodes /\ n \notin LiveNodes(h) BY <1>2, FreeNodeIs
  <2> HIDE DEF n
  <2>3. h.low[l].hash \in Positions BY <1>h, LiveFields, Fields
  <2>4. m \in Moves BY <2>3, MovesOf
  <2>5. Spawned(h, g, l) /\ Given(h, g, l, n, m) BY <1>h, <2>1, <2>2, <2>4, SpawnFields
  <2>6. Tree(g) BY <1>h, <1>2, <2>2, <2>5, SpawnedTree
  <2>7. LiveLow(g) = LiveLow(h) /\ g.tt = h.tt /\ g.nonTT = h.nonTT
        /\ \A k \in LiveLow(h) : SameLow(h, g, k)
    BY <2>5 DEF Spawned
  <2>8. Table(g) BY <1>h, <2>7, TableSame
  <2>9. NonTT(g) BY <1>h, <2>7, NonTTKept
  <2>10. n \in ChildFor(g, l, m) BY <2>5 DEF Given, ChildFor
  <2> QED BY <2>5, <2>6, <2>8, <2>9, <2>10 DEF Sane
<1> QED BY <1>1, <1>2

\* A line stays when a low node off the line is given a child.
LEMMA LineSpawned ==
  ASSUME NEW h, Tree(h), NEW g, NEW l, Spawned(h, g, l), NEW path, NEW line, Len(line) \in Nat,
         NEW head, Line(h, path, line, head), \A i \in 1..Len(line) : LineLow(h, path, i) # l
  PROVE  Line(g, path, line, head)
<1>n. /\ \A i \in 0..Len(line) : path[i] \in LiveNodes(h)
      /\ \A i \in 1..Len(line) : LineLow(h, path, i) \in LiveLow(h)
  BY LineNodes
<1>s. /\ g.gamebegin = h.gamebegin /\ LiveLow(g) = LiveLow(h) /\ LiveNodes(h) \subseteq LiveNodes(g)
      /\ (\A n \in LiveNodes(h) : g.node[n] = h.node[n])
      /\ (\A k \in LiveLow(h) : SameLow(h, g, k))
      /\ (\A k \in LiveLow(h) : k # l => g.low[k].children = h.low[k].children)
  BY DEF Spawned
<1>1. \A i \in 0..Len(line) : path[i] \in LiveNodes(g) /\ g.node[path[i]].move = h.node[path[i]].move
  BY <1>n, <1>s
<1>2. ASSUME NEW i \in 1..Len(line)
      PROVE  LET k == LineLow(h, path, i) IN
             /\ LineLow(g, path, i) = k /\ k \in LiveLow(g)
             /\ g.low[k].hash = h.low[k].hash /\ g.low[k].is_tt = h.low[k].is_tt
             /\ g.low[k].children = h.low[k].children
  <2>1. i - 1 \in 0..Len(line) OBVIOUS
  <2>2. LineLow(g, path, i) = LineLow(h, path, i) BY <1>n, <1>s, <2>1 DEF LineLow
  <2> QED BY <1>n, <1>s, <2>2 DEF SameLow
<1> QED BY <1>1, <1>2, <1>s, LineKept

\* MakeNotTerminal changes visited flags only.
LEMMA MakeNotTerminalAlike ==
  ASSUME NEW h, h \in Heap, NEW n \in LiveNodes(h)
  PROVE  Alike(h, MakeNotTerminal(h, n))
<1> DEFINE b == FALSE
           e == [h EXCEPT !.node[n].visited = b]
<1>1. MakeNotTerminal(h, n) = e \/ MakeNotTerminal(h, n) = h BY DEF MakeNotTerminal
<1>2. Alike(h, h) BY DEF Alike
<1>3. b \in BOOLEAN /\ e = [h EXCEPT !.node[n].visited = b] OBVIOUS
<1> HIDE DEF e, b
<1>4. Alike(h, e) BY <1>3, VisitedAlike
<1> QED BY <1>1, <1>2, <1>4

\* A low node that kept one child.
KeptOne(h, g, l, n) ==
  /\ Sane(g) /\ g.gamebegin = h.gamebegin /\ LiveLow(g) = LiveLow(h)
  /\ LiveNodes(g) = LiveNodes(h) \ (h.low[l].children \ {n})
  /\ (\A k \in LiveNodes(g) : g.node[k] = h.node[k])
  /\ (\A k \in LiveLow(h) : SameLow(h, g, k))
  /\ g.low[l].children = {n}
  /\ (\A k \in LiveLow(h) : k # l => g.low[k].children = h.low[k].children)
  /\ (\A k \in LiveLow(h) : Refs(g, k) \subseteq Refs(h, k))

\* ReleaseChildrenExceptOne leaves the low node with that child alone.
LEMMA ReleaseExceptIs ==
  ASSUME NEW h, Sane(h), NEW l \in LiveLow(h), NEW n \in h.low[l].children,
         NEW g, g = ReleaseChildrenExceptOne(h, l, n)
  PROVE  KeptOne(h, g, l, n)
<1> DEFINE C == h.low[l].children
           e == Enqueue(h, C \ {n})
           L == {l}
           S == {n}
<1>h. Tree(h) /\ h \in Heap BY DEF Sane, Tree
<1>1. C \subseteq LiveNodes(h) BY <1>h DEF Tree, Family
<1>2. Alike(h, e) /\ e.low = h.low /\ e.node = h.node
  <2>1. C \ {n} \subseteq LiveNodes(h) BY <1>1
  <2> QED BY <1>h, <2>1, EnqueueAlike
<1>3. g = KeepChildren(e, L, S) BY DEF ReleaseChildrenExceptOne
<1> HIDE DEF e
<1>4. Tree(e) /\ Table(e) /\ NonTT(e) /\ (\A k : Refs(e, k) = Refs(h, k))
  BY <1>2, <1>h, AlikeSane DEF Sane
<1>5. LiveNodes(e) = LiveNodes(h) /\ LiveLow(e) = LiveLow(h) /\ e.gamebegin = h.gamebegin
  BY <1>2 DEF Alike
<1>6. L \subseteq LiveLow(e) BY <1>5
<1>7. ThinnedTree(e, L, S, g) BY <1>3, <1>4, <1>6, KeepChildrenSane
<1>8. Orphans(e, L, S) = C \ {n} BY <1>2 DEF Orphans
<1>9. (\A k \in LiveLow(h) : k # l => KeptChildren(e, L, S, k) = h.low[k].children)
      /\ KeptChildren(e, L, S, l) = {n}
  BY <1>2 DEF KeptChildren
<1> HIDE DEF L, S
<1>10. Sane(g) BY <1>4, <1>7 DEF ThinnedTree, Sane
<1>11. \A k \in LiveLow(h) : SameLow(h, g, k) BY <1>2, <1>5, <1>7 DEF ThinnedTree, SameLow
<1>12. /\ g.gamebegin = h.gamebegin /\ LiveLow(g) = LiveLow(h)
       /\ LiveNodes(g) = LiveNodes(h) \ (C \ {n})
       /\ (\A k \in LiveNodes(g) : g.node[k] = h.node[k])
  BY <1>2, <1>5, <1>7, <1>8 DEF ThinnedTree
<1>13. \A k \in LiveLow(h) : g.low[k].children = KeptChildren(e, L, S, k)
  BY <1>5, <1>7 DEF ThinnedTree
<1>14. \A k \in LiveLow(h) : k \in LowNodes BY <1>h, LiveFields
<1>15. \A k \in LiveLow(h) : Refs(g, k) \subseteq Refs(h, k)
  BY <1>4, <1>7, <1>14 DEF ThinnedTree
<1> QED BY <1>9, <1>10, <1>11, <1>12, <1>13, <1>15 DEF KeptOne

\* A line stays when a low node off the line loses children.
LEMMA LineKeptOne ==
  ASSUME NEW h, Tree(h), NEW g, NEW l \in LiveLow(h), NEW n, KeptOne(h, g, l, n), NEW path,
         NEW line, Len(line) \in Nat, NEW head, Line(h, path, line, head),
         \A i \in 1..Len(line) : LineLow(h, path, i) # l
  PROVE  Line(g, path, line, head)
<1>n. /\ \A i \in 0..Len(line) : path[i] \in LiveNodes(h)
      /\ path[0] = h.gamebegin
      /\ \A i \in 1..Len(line) : LineLow(h, path, i) \in LiveLow(h)
      /\ \A i \in 1..Len(line) : path[i] \in h.low[LineLow(h, path, i)].children
  BY LineNodes
<1>s. /\ g.gamebegin = h.gamebegin /\ LiveLow(g) = LiveLow(h)
      /\ LiveNodes(g) = LiveNodes(h) \ (h.low[l].children \ {n})
      /\ (\A k \in LiveNodes(g) : g.node[k] = h.node[k])
      /\ (\A k \in LiveLow(h) : SameLow(h, g, k))
      /\ (\A k \in LiveLow(h) : k # l => g.low[k].children = h.low[k].children)
  BY DEF KeptOne
<1>0. ASSUME NEW i \in 0..Len(line) PROVE path[i] \in LiveNodes(g)
  <2>1. CASE i = 0
    <3>1. h.gamebegin \notin h.low[l].children BY DEF Tree, Family
    <3>2. path[0] \in LiveNodes(h) BY <1>n
    <3> QED BY <1>n, <1>s, <2>1, <3>1, <3>2
  <2>2. CASE i # 0
    <3>1. i \in 1..Len(line) BY <2>2
    <3>2. path[i] \in h.low[LineLow(h, path, i)].children /\ LineLow(h, path, i) \in LiveLow(h)
          /\ LineLow(h, path, i) # l /\ path[i] \in LiveNodes(h)
      BY <1>n, <3>1
    <3>3. path[i] \in Nodes BY <3>2, LiveFields DEF Tree
    <3>4. path[i] \notin h.low[l].children BY <3>2, <3>3 DEF Tree
    <3> QED BY <1>s, <3>2, <3>4
  <2> QED BY <2>1, <2>2
<1>1. \A i \in 0..Len(line) : path[i] \in LiveNodes(g) /\ g.node[path[i]].move = h.node[path[i]].move
  BY <1>0, <1>s
<1>2. ASSUME NEW i \in 1..Len(line)
      PROVE  LET k == LineLow(h, path, i) IN
             /\ LineLow(g, path, i) = k /\ k \in LiveLow(g)
             /\ g.low[k].hash = h.low[k].hash /\ g.low[k].is_tt = h.low[k].is_tt
             /\ g.low[k].children = h.low[k].children
  <2>1. i - 1 \in 0..Len(line) OBVIOUS
  <2>2. LineLow(g, path, i) = LineLow(h, path, i) BY <1>0, <1>s, <2>1 DEF LineLow
  <2> QED BY <1>n, <1>s, <2>2 DEF SameLow
<1> QED BY <1>1, <1>2, <1>s, LineKept

\* A line that does not go through that low node is not broken.
LEMMA LineLeft ==
  ASSUME NEW h, Tree(h), NEW g, NEW l, Left(h, g, l), NEW path,
         NEW line, Len(line) \in Nat, NEW head, Line(h, path, line, head),
         \A i \in 1..Len(line) : LineLow(h, path, i) # l
  PROVE  Line(g, path, line, head)
<1>n. /\ \A i \in 0..Len(line) : path[i] \in LiveNodes(h)
      /\ \A i \in 1..Len(line) : LineLow(h, path, i) \in LiveLow(h)
  BY LineNodes
<1>s. /\ g.gamebegin = h.gamebegin /\ LiveLow(g) = LiveLow(h) /\ LiveNodes(g) = LiveNodes(h)
      /\ g.node = h.node /\ (\A k \in LiveLow(h) : k # l => g.low[k] = h.low[k])
  BY DEF Left
<1>1. \A i \in 0..Len(line) : path[i] \in LiveNodes(g) /\ g.node[path[i]].move = h.node[path[i]].move
  BY <1>n, <1>s
<1>2. \A i \in 1..Len(line) :
        LET k == LineLow(h, path, i) IN
        /\ LineLow(g, path, i) = k /\ k \in LiveLow(g)
        /\ g.low[k].hash = h.low[k].hash /\ g.low[k].is_tt = h.low[k].is_tt
        /\ g.low[k].children = h.low[k].children
  BY <1>n, <1>s DEF LineLow
<1> QED BY <1>1, <1>2, <1>s, LineKept

\* After a move: the low node of the old head has one child, the new head.
Moved(h, g, path, line, head, m, l, child) ==
  /\ Sane(g) /\ Line(g, path, line, head) /\ l \in LiveLow(g) /\ g.node[head].low = l
  /\ g.low[l].hash = PositionAfter(line) /\ ~ g.low[l].is_tt /\ g.low[l].children = {child}
  /\ g.node[child].move = m /\ child \in LiveNodes(g) /\ head \in LiveNodes(g)
  /\ Others(h, g, head, l) /\ LowsStay(h, g, head)

\* Low nodes that lose references are still others.
LEMMA OthersKept ==
  ASSUME NEW h, NEW f, NEW head, NEW l, Others(h, f, head, l), NEW g, LiveLow(g) = LiveLow(f),
         \A k \in LiveLow(f) : k # l => g.low[k].is_tt = f.low[k].is_tt,
         \A k \in LiveLow(f) : Refs(g, k) \subseteq Refs(f, k)
  PROVE  Others(h, g, head, l)
<1>1. ASSUME NEW k \in LiveLow(g), k # l, ~ g.low[k].is_tt
      PROVE  k \in LiveLow(h) /\ ~ h.low[k].is_tt /\ Refs(g, k) \subseteq Refs(h, k) \ {head}
  <2>1. k \in LiveLow(f) /\ ~ f.low[k].is_tt BY <1>1
  <2>2. k \in LiveLow(h) /\ ~ h.low[k].is_tt /\ Refs(f, k) \subseteq Refs(h, k) \ {head}
    BY <1>1, <2>1 DEF Others
  <2>3. Refs(g, k) \subseteq Refs(f, k) BY <2>1
  <2> QED BY <2>2, <2>3
<1> QED BY <1>1 DEF Others

\* What MakeMove does: the line of the game is one move longer (src/src/mcts/node.cc:751).
LEMMA AfterMoveIs ==
  ASSUME NEW h, Sane(h), NEW path, NEW line, NEW head, HeadOf(h, path, line, head),
         NEW p, p = PositionAfter(line), NEW m \in DOMAIN Succ[p], RoomToMove(h),
         NEW g, g = AfterMove(h, head, p, m)
  PROVE  \E l, child : Moved(h, g, path, line, head, m, l, child)
<1> DEFINE found == IF HasEdge(h, head, m) THEN h ELSE FindLowNode(h, head, p, m)
           l == found.node[head].low
           grown == Spawn(found, l, m)
           child == CHOOSE n \in ChildFor(grown, l, m) : TRUE
           quiet == MakeNotTerminal(grown, child)
           kept == ReleaseChildrenExceptOne(quiet, l, child)
<1>g. g = LeaveTable(kept, l) BY DEF AfterMove
<1>h. Tree(h) /\ line \in Seq(Moves) /\ Legal(line) /\ Line(h, path, line, head)
      /\ Len(line) \in Nat
  BY DEF HeadOf
<1>r. LiveNodes(h) # Nodes /\ LiveLow(h) # LowNodes BY DEF RoomToMove
<1>f. PICK k : FoundAt(h, found, path, line, head, k)
  <2> HIDE DEF found
  <2>1. found = IF HasEdge(h, head, m) THEN h ELSE FindLowNode(h, head, p, m) BY DEF found
  <2> QED BY <1>r, <2>1, FoundIs
<1> HIDE DEF found
<1>1. k = l BY <1>f DEF FoundAt
<1>2. /\ Sane(found) /\ Line(found, path, line, head) /\ LiveNodes(found) = LiveNodes(h)
      /\ l \in LiveLow(found) /\ found.node[head].low = l /\ found.low[l].hash = p
      /\ Others(h, found, head, l) /\ LowsStay(h, found, head)
  BY <1>1, <1>f DEF FoundAt
<1>3. HeadOf(found, path, line, head) /\ Tree(found) BY <1>2, <1>h DEF HeadOf, Sane
<1>o. \A i \in 1..Len(line) : LineLow(found, path, i) # l
  BY <1>3, HeadOffLine
<1>gr. grown = Spawn(found, l, m) OBVIOUS
<1> HIDE DEF l
<1>c. child \in ChildFor(grown, l, m) /\ Sane(grown) /\ Spawned(found, grown, l)
  <2> HIDE DEF grown
  <2>1. Sane(grown) /\ Spawned(found, grown, l) /\ ChildFor(grown, l, m) # {}
    BY <1>2, <1>r, <1>gr, SpawnIs
  <2> QED BY <2>1
<1> HIDE DEF grown
<1>4. child \in grown.low[l].children /\ grown.node[child].move = m BY <1>c DEF ChildFor
<1>q. quiet = MakeNotTerminal(grown, child) OBVIOUS
<1> HIDE DEF child
<1>5. Line(grown, path, line, head) BY <1>2, <1>3, <1>c, <1>h, <1>o, LineSpawned
<1>6. l \in LiveLow(grown) /\ grown.low[l].hash = p /\ head \in LiveNodes(found)
      /\ grown.node[head] = found.node[head] /\ LiveLow(grown) = LiveLow(found)
      /\ head \in LiveNodes(grown)
  <2>1. head \in LiveNodes(found) BY <1>3, HeadLeads
  <2> QED BY <1>2, <1>c, <2>1 DEF Spawned, SameLow
<1>7. Tree(grown) /\ grown \in Heap /\ child \in LiveNodes(grown)
  <2>1. Tree(grown) /\ grown \in Heap BY <1>c DEF Sane, Tree
  <2>2. Family(grown, l) BY <1>6, <2>1 DEF Tree
  <2> QED BY <1>4, <2>1, <2>2 DEF Family
<1>8. Alike(grown, quiet) BY <1>7, <1>q, MakeNotTerminalAlike
<1>k. kept = ReleaseChildrenExceptOne(quiet, l, child) OBVIOUS
<1> HIDE DEF quiet, kept
<1>9. Sane(quiet) /\ Tree(quiet) /\ (\A j : Refs(quiet, j) = Refs(grown, j))
  BY <1>7, <1>8, <1>c, AlikeSane DEF Sane
<1>10. Line(quiet, path, line, head) BY <1>5, <1>8, <1>h, AlikeLine
<1>11. /\ LiveNodes(quiet) = LiveNodes(grown) /\ LiveLow(quiet) = LiveLow(grown)
       /\ (\A n \in LiveNodes(grown) : quiet.node[n].move = grown.node[n].move
                                       /\ quiet.node[n].low = grown.node[n].low)
       /\ (\A j \in LiveLow(grown) :
             quiet.low[j].hash = grown.low[j].hash /\ quiet.low[j].is_tt = grown.low[j].is_tt
             /\ quiet.low[j].children = grown.low[j].children)
  BY <1>8 DEF Alike
<1>12. l \in LiveLow(quiet) /\ child \in quiet.low[l].children BY <1>4, <1>6, <1>11
<1>13. KeptOne(quiet, kept, l, child) BY <1>9, <1>12, <1>k, ReleaseExceptIs
<1>14. HeadOf(quiet, path, line, head) BY <1>9, <1>10, <1>h DEF HeadOf
<1>15. quiet.node[head].low = l BY <1>2, <1>6, <1>11
<1>16. \A i \in 1..Len(line) : LineLow(quiet, path, i) # l BY <1>14, <1>15, HeadOffLine
<1>17. Line(kept, path, line, head) BY <1>9, <1>10, <1>12, <1>13, <1>16, <1>h, LineKeptOne
<1>18. /\ Sane(kept) /\ LiveLow(kept) = LiveLow(quiet)
       /\ LiveNodes(kept) = LiveNodes(quiet) \ (quiet.low[l].children \ {child})
       /\ (\A n \in LiveNodes(kept) : kept.node[n] = quiet.node[n])
       /\ (\A j \in LiveLow(quiet) : SameLow(quiet, kept, j)
                                     /\ Refs(kept, j) \subseteq Refs(quiet, j))
       /\ kept.low[l].children = {child}
  BY <1>13 DEF KeptOne
<1>19. head \in LiveNodes(kept) BY <1>17, <1>h, LineNodes
<1>20. child \in LiveNodes(kept) BY <1>7, <1>11, <1>18
<1>21. Tree(kept) /\ HeadOf(kept, path, line, head) BY <1>17, <1>18, <1>h DEF HeadOf, Sane
<1>22. kept.node[head].low = l BY <1>15, <1>18, <1>19
<1>23. \A i \in 1..Len(line) : LineLow(kept, path, i) # l BY <1>21, <1>22, HeadOffLine
<1>24. l \in LiveLow(kept) BY <1>12, <1>18
<1>25. Left(kept, g, l) BY <1>18, <1>24, <1>g, LeaveTableIs
<1>26. Line(g, path, line, head) BY <1>17, <1>21, <1>23, <1>25, <1>h, LineLeft
<1>27. /\ Sane(g) /\ g.node = kept.node /\ LiveNodes(g) = LiveNodes(kept)
       /\ LiveLow(g) = LiveLow(kept) /\ ~ g.low[l].is_tt /\ g.low[l].hash = kept.low[l].hash
       /\ g.low[l].children = kept.low[l].children
       /\ (\A j \in LiveLow(kept) : j # l => g.low[j] = kept.low[j])
       /\ (\A j : Refs(g, j) = Refs(kept, j))
  BY <1>25 DEF Left
<1>28. Others(h, g, head, l)
  <2>1. LiveLow(g) = LiveLow(found) BY <1>6, <1>11, <1>18, <1>27
  <2>2. \A j \in LiveLow(found) : grown.low[j].is_tt = found.low[j].is_tt
                                  /\ Refs(grown, j) = Refs(found, j)
    BY <1>c DEF Spawned, SameLow
  <2>3. \A j \in LiveLow(found) : kept.low[j].is_tt = found.low[j].is_tt
    BY <1>6, <1>11, <1>18, <2>2 DEF SameLow
  <2>4. \A j \in LiveLow(found) : Refs(g, j) \subseteq Refs(found, j)
    BY <1>6, <1>9, <1>11, <1>18, <1>27, <2>2
  <2>5. \A j \in LiveLow(found) : j # l => g.low[j].is_tt = found.low[j].is_tt
    BY <1>6, <1>11, <1>18, <1>27, <2>3
  <2> QED BY <1>2, <2>1, <2>4, <2>5, OthersKept
<1>29. g.low[l].hash = p
  <2>1. quiet.low[l].hash = p BY <1>6, <1>11
  <2>2. kept.low[l].hash = p BY <1>12, <1>18, <2>1 DEF SameLow
  <2> QED BY <1>27, <2>2
<1>30. g.node[child].move = m BY <1>4, <1>7, <1>11, <1>18, <1>20, <1>27
<1>32. LowsStay(h, g, head)
  <2>1. \A n \in LiveNodes(found) : grown.node[n] = found.node[n] /\ n \in LiveNodes(grown)
    BY <1>c DEF Spawned
  <2>2. \A n \in LiveNodes(g) : g.node[n].low = quiet.node[n].low BY <1>18, <1>27
  <2> QED BY <1>2, <1>11, <2>1, <2>2 DEF LowsStay
<1>31. Moved(h, g, path, line, head, m, l, child)
  <2>1. l \in LiveLow(g) /\ g.node[head].low = l /\ g.low[l].children = {child}
        /\ child \in LiveNodes(g) /\ head \in LiveNodes(g)
    BY <1>18, <1>19, <1>20, <1>22, <1>24, <1>27
  <2> QED BY <1>26, <1>27, <1>28, <1>29, <1>30, <1>32, <2>1 DEF Moved
<1> QED BY <1>31

\* Low nodes outside the table are those of the line, or of the head alone.
OwnLine(h, path, line, head) ==
  \A l \in LiveLow(h) :
    ~ h.low[l].is_tt => Refs(h, l) \subseteq {head} \/ \E i \in 1..Len(line) : LineLow(h, path, i) = l

Extended(path, line, child) ==
  [i \in 0..(Len(line) + 1) |-> IF i = Len(line) + 1 THEN child ELSE path[i]]

\* A move extends the line.
LEMMA LineGrows ==
  ASSUME NEW h, NEW g, NEW path, NEW line \in Seq(Moves), NEW head, NEW m \in Moves, NEW l,
         NEW child, Moved(h, g, path, line, head, m, l, child),
         NEW path2, path2 = Extended(path, line, child)
  PROVE  /\ Line(g, path2, Append(line, m), child)
         /\ \A i \in 1..Len(line) : LineLow(g, path2, i) = LineLow(g, path, i)
         /\ LineLow(g, path2, Len(line) + 1) = l
<1> DEFINE n == Len(line)
           line2 == Append(line, m)
<1>m. /\ Line(g, path, line, head) /\ l \in LiveLow(g) /\ g.node[head].low = l
      /\ g.low[l].hash = PositionAfter(line) /\ ~ g.low[l].is_tt /\ g.low[l].children = {child}
      /\ g.node[child].move = m /\ child \in LiveNodes(g)
  BY DEF Moved
<1>l. /\ path \in [0..n -> LiveNodes(g)] /\ path[0] = g.gamebegin /\ path[n] = head
      /\ \A i \in 1..n : Link(g, path, line, i)
  BY <1>m DEF Line
<1>s. n \in Nat /\ Len(line2) = n + 1 /\ line2[n + 1] = m /\ \A i \in 1..n : line2[i] = line[i]
  OBVIOUS
<1>a. /\ At(line, n) = PositionAfter(line) /\ \A i \in 0..n : At(line2, i) = At(line, i)
  BY AtNext, AtAppend
<1>p. /\ path2 \in [0..(n + 1) -> LiveNodes(g)] /\ path2[n + 1] = child
      /\ \A i \in 0..n : path2[i] = path[i]
  BY <1>l, <1>m, <1>s DEF Extended
<1>q. \A i \in 1..(n + 1) : i - 1 \in 0..n /\ (i \in 1..n \/ i = n + 1) BY <1>s
<1>z. 0 \in 0..n /\ n \in 0..n BY <1>s
<1> HIDE DEF line2, n
<1>1. ASSUME NEW i \in 1..(n + 1) PROVE Link(g, path2, line2, i)
  <2>0. path2[i - 1] = path[i - 1] BY <1>p, <1>q
  <2>1. CASE i \in 1..n
    <3>1. /\ g.node[path[i - 1]].low \in LiveLow(g)
          /\ g.low[g.node[path[i - 1]].low].hash = At(line, i - 1)
          /\ ~ g.low[g.node[path[i - 1]].low].is_tt
          /\ g.low[g.node[path[i - 1]].low].children = {path[i]}
          /\ g.node[path[i]].move = line[i]
      BY <1>l, <2>1 DEF Link, At
    <3>2. i \in 0..n BY <2>1, <1>s
    <3>3. path2[i] = path[i] /\ line2[i] = line[i] /\ At(line2, i - 1) = At(line, i - 1)
      BY <1>a, <1>p, <1>q, <1>s, <2>1, <3>2
    <3> QED BY <2>0, <3>1, <3>3 DEF Link, At
  <2>2. CASE i = n + 1
    <3>1. i - 1 = n BY <1>s, <2>2
    <3>2. path2[i - 1] = head /\ path2[i] = child /\ line2[i] = m BY <1>l, <1>p, <1>s, <2>0, <2>2, <3>1
    <3>3. At(line2, i - 1) = PositionAfter(line) BY <1>a, <1>z, <3>1
    <3> QED BY <1>m, <3>2, <3>3 DEF Link, At
  <2> QED BY <1>q, <2>1, <2>2
<1>2. path2[0] = g.gamebegin /\ path2[Len(line2)] = child BY <1>l, <1>p, <1>s, <1>z
<1>3. Line(g, path2, line2, child) BY <1>1, <1>2, <1>p, <1>s DEF Line
<1>4. \A i \in 1..n : LineLow(g, path2, i) = LineLow(g, path, i)
  <2>1. \A i \in 1..n : i - 1 \in 0..n BY <1>s
  <2> QED BY <1>p, <2>1 DEF LineLow
<1>5. LineLow(g, path2, n + 1) = l
  <2>1. n + 1 - 1 = n BY <1>s
  <2> QED BY <1>l, <1>m, <1>p, <1>z, <2>1 DEF LineLow
<1> QED BY <1>3, <1>4, <1>5 DEF line2, n

\* The move m leads on, from the head to its only child.
NextOn(h, g, path, line, head, m, path2, child) ==
  /\ Sane(g) /\ HeadOf(g, path2, Append(line, m), child)
  /\ g.low[g.node[head].low].children = {child}
  /\ OwnLine(h, path, line, head) => OwnLine(g, path2, Append(line, m), child)

\* All that a move leaves.
LEMMA MoveIs ==
  ASSUME NEW h, Sane(h), NEW path, NEW line, NEW head, HeadOf(h, path, line, head),
         NEW m \in DOMAIN Succ[PositionAfter(line)], RoomToMove(h),
         NEW g, g = AfterMove(h, head, PositionAfter(line), m)
  PROVE  \E path2, child : NextOn(h, g, path, line, head, m, path2, child)
<1> DEFINE line2 == Append(line, m)
           n == Len(line)
<1>h. Tree(h) /\ line \in Seq(Moves) /\ Legal(line) /\ Line(h, path, line, head) BY DEF HeadOf
<1>1. PICK l, child : Moved(h, g, path, line, head, m, l, child) BY AfterMoveIs
<1>2. m \in Moves /\ line2 \in Seq(Moves) /\ Legal(line2) BY <1>h, LegalAppend
<1> DEFINE path2 == Extended(path, line, child)
<1>p. path2 = Extended(path, line, child) OBVIOUS
<1> HIDE DEF path2
<1>3. /\ Line(g, path2, line2, child)
      /\ \A i \in 1..n : LineLow(g, path2, i) = LineLow(g, path, i)
      /\ LineLow(g, path2, n + 1) = l
  BY <1>1, <1>2, <1>h, <1>p, LineGrows
<1>4. Len(line2) = n + 1 /\ n \in Nat BY <1>2, <1>h
<1>5. Sane(g) /\ Tree(g) /\ g.node[head].low = l /\ g.low[l].children = {child}
      /\ Line(g, path, line, head) /\ Others(h, g, head, l)
  BY <1>1 DEF Moved, Sane
<1>8. \A i \in 1..n : LineLow(g, path, i) = LineLow(h, path, i)
  <2>1. \A i \in 0..n : path[i] \in LiveNodes(h) BY <1>4, <1>h, LineNodes
  <2>2. \A i \in 0..n : path[i] \in LiveNodes(g) BY <1>4, <1>5, LineNodes
  <2>3. \A i \in 1..n : path[i - 1] # head BY HeadOffLine
  <2>4. \A i \in 1..n : i - 1 \in 0..n BY <1>4
  <2>5. LowsStay(h, g, head) BY <1>1 DEF Moved
  <2> QED BY <2>1, <2>2, <2>3, <2>4, <2>5 DEF LineLow, LowsStay
<1> HIDE DEF line2, n
<1>6. HeadOf(g, path2, line2, child) BY <1>2, <1>3, <1>5 DEF HeadOf
<1>7. ASSUME OwnLine(h, path, line, head) PROVE OwnLine(g, path2, line2, child)
  <2>1. ASSUME NEW k \in LiveLow(g), ~ g.low[k].is_tt
        PROVE  Refs(g, k) \subseteq {child} \/ \E i \in 1..Len(line2) : LineLow(g, path2, i) = k
    <3>1. CASE k = l
      <4>1. n + 1 \in 1..Len(line2) BY <1>4
      <4> QED BY <1>3, <3>1, <4>1
    <3>2. CASE k # l
      <4>1. k \in LiveLow(h) /\ ~ h.low[k].is_tt /\ Refs(g, k) \subseteq Refs(h, k) \ {head}
        BY <1>5, <2>1, <3>2 DEF Others
      <4>2. CASE Refs(h, k) \subseteq {head} BY <4>1, <4>2
      <4>3. CASE \E i \in 1..n : LineLow(h, path, i) = k
        <5>1. PICK i \in 1..n : LineLow(h, path, i) = k BY <4>3
        <5>2. LineLow(g, path, i) = k BY <1>8, <5>1
        <5>3. i \in 1..Len(line2) BY <1>4
        <5> QED BY <1>3, <5>2, <5>3
      <4> QED BY <1>7, <4>1, <4>2, <4>3 DEF OwnLine, n
    <3> QED BY <3>1, <3>2
  <2> QED BY <2>1 DEF OwnLine
<1> QED BY <1>5, <1>6, <1>7 DEF line2, NextOn
-----------------------------------------------------------------------------
(* A head as good as new, and the table of self-play emptied above it. *)

\* The head has nothing below it.
Bare(h, path, line, head) ==
  Sane(h) /\ HeadOf(h, path, line, head) /\ h.node[head].low = None

\* What TrimTreeAtHead does: the head leads nowhere, and is as good as new.
LEMMA TrimIs ==
  ASSUME NEW h, Sane(h), NEW path, NEW line, NEW head, HeadOf(h, path, line, head),
         NEW g, g = Trim(h, head)
  PROVE  /\ Bare(g, path, line, head) /\ LiveLow(g) = LiveLow(h)
         /\ \A k \in LiveLow(h) : g.low[k].is_tt = h.low[k].is_tt
                                  /\ Refs(g, k) = Refs(h, k) \ {head}
         /\ \A i \in 1..Len(line) : LineLow(g, path, i) = LineLow(h, path, i)
<1> DEFINE e == Enqueue(h, {head})
           f == UnsetLowNode(e, head)
           b == FALSE
<1>h. Tree(h) /\ line \in Seq(Moves) /\ Legal(line) /\ Line(h, path, line, head)
      /\ Len(line) \in Nat
  BY DEF HeadOf
<1>1. head \in LiveNodes(h) BY HeadLeads
<1>2. Alike(h, e) /\ e.node = h.node
  <2>1. {head} \subseteq LiveNodes(h) BY <1>1
  <2> QED BY <1>h, <2>1, EnqueueAlike
<1>f. f = UnsetLowNode(e, head) OBVIOUS
<1>g. g = [f EXCEPT !.node[head].visited = b] BY DEF Trim
<1>b. b \in BOOLEAN OBVIOUS
<1> HIDE DEF e, f, b
<1>3. Sane(e) /\ Tree(e) /\ (\A k : Refs(e, k) = Refs(h, k)) BY <1>2, <1>h, AlikeSane DEF Sane
<1>4. Line(e, path, line, head) BY <1>2, <1>h, AlikeLine
<1>5. HeadOf(e, path, line, head) BY <1>3, <1>4, <1>h DEF HeadOf
<1>6. head \in LiveNodes(e) BY <1>5, HeadLeads
<1>7. Relinked(e, f, head, None) BY <1>3, <1>6, <1>f, UnsetLowNodeIs
<1>8. Sane(f) BY <1>3, <1>6, <1>7, RelinkedSane
<1>9. \A i \in 1..Len(line) : path[i - 1] # head BY <1>5, HeadOffLine
<1>10. Line(f, path, line, head) BY <1>5, <1>7, <1>9, LineRelinked
<1>11. /\ f.node[head].low = None /\ head \in LiveNodes(f) /\ LiveNodes(f) = LiveNodes(e)
       /\ LiveLow(f) = LiveLow(e) /\ (\A k \in LiveLow(e) : SameLow(e, f, k))
       /\ (\A k \in LiveNodes(e) : k # head => f.node[k].low = e.node[k].low)
  BY <1>6, <1>7 DEF Relinked
<1>12. Tree(f) /\ f \in Heap BY <1>8 DEF Sane, Tree
<1>13. Alike(f, g) BY <1>11, <1>12, <1>b, <1>g, VisitedAlike
<1>14. Sane(g) /\ Tree(g) /\ (\A k : Refs(g, k) = Refs(f, k)) BY <1>8, <1>12, <1>13, AlikeSane DEF Sane
<1>15. Line(g, path, line, head) BY <1>10, <1>13, <1>h, AlikeLine
<1>16. /\ LiveLow(g) = LiveLow(f) /\ LiveNodes(g) = LiveNodes(f)
       /\ (\A k \in LiveNodes(f) : g.node[k].low = f.node[k].low)
       /\ (\A k \in LiveLow(f) : g.low[k].is_tt = f.low[k].is_tt)
  BY <1>13 DEF Alike
<1>17. Bare(g, path, line, head)
  <2>1. g.node[head].low = None BY <1>11, <1>16
  <2> QED BY <1>14, <1>15, <1>h, <2>1 DEF Bare, HeadOf
<1>18. /\ LiveLow(e) = LiveLow(h) /\ LiveNodes(e) = LiveNodes(h)
       /\ (\A k \in LiveLow(h) : e.low[k].is_tt = h.low[k].is_tt)
  BY <1>2 DEF Alike
<1>19. ASSUME NEW k \in LiveLow(h)
       PROVE  g.low[k].is_tt = h.low[k].is_tt /\ Refs(g, k) = Refs(h, k) \ {head}
  <2>1. k # None BY <1>h, LiveFields, Addresses DEF Tree
  <2>2. Refs(f, k) = Refs(e, k) \ {head} BY <1>6, <1>7, <2>1, RelinkedRefs
  <2>3. g.low[k].is_tt = h.low[k].is_tt BY <1>11, <1>16, <1>18 DEF SameLow
  <2> QED BY <1>3, <1>14, <2>2, <2>3
<1>20. ASSUME NEW i \in 1..Len(line) PROVE LineLow(g, path, i) = LineLow(h, path, i)
  <2>1. i - 1 \in 0..Len(line) BY <1>h
  <2>2. path[i - 1] \in LiveNodes(h) /\ path[i - 1] # head BY <1>9, <1>h, <2>1, LineNodes
  <2> QED BY <1>2, <1>11, <1>16, <1>18, <2>2 DEF LineLow
<1>21. LiveLow(g) = LiveLow(h) BY <1>11, <1>16, <1>18
<1> QED BY <1>17, <1>19, <1>20, <1>21

\* The line owns what is not of the table.
LineOwns(h, path, line) ==
  \A l \in LiveLow(h) : ~ h.low[l].is_tt => \E i \in 1..Len(line) : LineLow(h, path, i) = l

\* Collecting what is not of the table keeps the line.
LEMMA SweptLine ==
  ASSUME NEW h, NEW g, Swept(h, g), NEW path, NEW line, NEW head, HeadOf(h, path, line, head)
  PROVE  /\ HeadOf(g, path, line, head)
         /\ \A i \in 0..Len(line) : path[i] \in LiveNodes(g) /\ g.node[path[i]] = h.node[path[i]]
         /\ \A i \in 1..Len(line) : LineLow(g, path, i) = LineLow(h, path, i)
<1>h. line \in Seq(Moves) /\ Legal(line) /\ Line(h, path, line, head) /\ Len(line) \in Nat
  BY DEF HeadOf
<1>1. Sane(g) /\ LinesKept(h, g) /\ Pruned(h, g) BY DEF Swept
<1>2. Line(g, path, line, head) BY <1>1, <1>h DEF LinesKept
<1>3. HeadOf(g, path, line, head) BY <1>1, <1>2, <1>h DEF HeadOf, Sane
<1>4. \A i \in 0..Len(line) : path[i] \in LiveNodes(g) BY <1>2, <1>h, LineNodes
<1>5. \A i \in 0..Len(line) : g.node[path[i]] = h.node[path[i]] BY <1>1, <1>4 DEF Pruned
<1>6. ASSUME NEW i \in 1..Len(line) PROVE LineLow(g, path, i) = LineLow(h, path, i)
  <2>1. i - 1 \in 0..Len(line) BY <1>h
  <2> QED BY <1>5, <2>1 DEF LineLow
<1> QED BY <1>3, <1>4, <1>5, <1>6

\* TrimTreeAtHead.
LEMMA TrimTreeIs ==
  ASSUME NEW h, Sane(h), NEW path, NEW line, NEW head, HeadOf(h, path, line, head),
         NEW g, g = TrimTreeAtHead(h, head)
  PROVE  /\ Bare(g, path, line, head)
         /\ OwnLine(h, path, line, head) => LineOwns(g, path, line)
<1> DEFINE f == Trim(h, head)
<1>h. line \in Seq(Moves) /\ Len(line) \in Nat BY DEF HeadOf
<1>1. /\ Bare(f, path, line, head) /\ LiveLow(f) = LiveLow(h)
      /\ \A k \in LiveLow(h) : f.low[k].is_tt = h.low[k].is_tt
                                  /\ Refs(f, k) = Refs(h, k) \ {head}
      /\ \A i \in 1..Len(line) : LineLow(f, path, i) = LineLow(h, path, i)
  BY TrimIs
<1>2. g = NonTTMaintenance(f) BY DEF TrimTreeAtHead
<1> HIDE DEF f
<1>3. Sane(f) /\ HeadOf(f, path, line, head) /\ f.node[head].low = None BY <1>1 DEF Bare
<1>4. Swept(f, g) BY <1>2, <1>3, NonTTMaintenanceIs
<1>5. /\ HeadOf(g, path, line, head)
      /\ \A i \in 0..Len(line) : path[i] \in LiveNodes(g) /\ g.node[path[i]] = f.node[path[i]]
      /\ \A i \in 1..Len(line) : LineLow(g, path, i) = LineLow(f, path, i)
  BY <1>3, <1>4, SweptLine
<1>6. Bare(g, path, line, head)
  <2>1. path[Len(line)] = head BY <1>3 DEF HeadOf, Line
  <2>2. Len(line) \in 0..Len(line) BY <1>h
  <2> QED BY <1>3, <1>4, <1>5, <2>1, <2>2 DEF Bare, Swept
<1>7. ASSUME OwnLine(h, path, line, head) PROVE LineOwns(g, path, line)
  <2>1. ASSUME NEW l \in LiveLow(g), ~ g.low[l].is_tt
        PROVE  \E i \in 1..Len(line) : LineLow(g, path, i) = l
    <3>1. l \in LiveLow(f) /\ ~ f.low[l].is_tt BY <1>4, <2>1 DEF Swept, Pruned, SameLow
    <3>2. Refs(f, l) # {} BY <1>4, <2>1, <3>1 DEF Swept
    <3>3. l \in LiveLow(h) /\ ~ h.low[l].is_tt /\ Refs(f, l) = Refs(h, l) \ {head} BY <1>1, <3>1
    <3>4. ~ (Refs(h, l) \subseteq {head}) BY <3>2, <3>3
    <3>5. PICK i \in 1..Len(line) : LineLow(h, path, i) = l BY <1>7, <3>3, <3>4 DEF OwnLine
    <3> QED BY <1>1, <1>5, <3>5
  <2> QED BY <2>1 DEF LineOwns
<1> QED BY <1>6, <1>7

\* The low nodes of the table are those that say so.
LEMMA InTableIs ==
  ASSUME NEW h, Sane(h)
  PROVE  /\ InTable(h) = {l \in LiveLow(h) : h.low[l].is_tt} /\ InTable(h) \subseteq LiveLow(h)
         /\ InNonTT(h) = {l \in LiveLow(h) : ~ h.low[l].is_tt} /\ InNonTT(h) \subseteq LiveLow(h)
<1>h. Table(h) /\ NonTT(h) /\ h \in Heap BY DEF Sane, Tree
<1>1. \A l \in InTable(h) : l \in LiveLow(h) /\ h.low[l].is_tt BY <1>h DEF Table, InTable
<1>2. ASSUME NEW l \in LiveLow(h), h.low[l].is_tt PROVE l \in InTable(h)
  <2>1. h.low[l].hash \in Positions /\ l # None BY <1>h, LiveFields, Fields, Addresses
  <2> QED BY <1>h, <1>2, <2>1 DEF Table, InTable
<1>3. \A l \in InNonTT(h) : l \in LiveLow(h) /\ ~ h.low[l].is_tt BY <1>h DEF NonTT, InNonTT
<1>4. \A l \in LiveLow(h) : ~ h.low[l].is_tt => l \in InNonTT(h) BY <1>h DEF NonTT, InNonTT
<1> QED BY <1>1, <1>2, <1>3, <1>4

\* TTClear starts by taking the children of the table's low nodes.
Cleared(h) == NonTTMaintenance(KeepChildren(h, InTable(h), {}))

\* Only what is outside the table may die of that, and no line of moves is broken.
LEMMA ClearedIs ==
  ASSUME NEW h, Sane(h), NEW s, s = Cleared(h)
  PROVE  /\ Sane(s) /\ s.gamebegin = h.gamebegin /\ InTable(s) = InTable(h)
         /\ LiveNodes(s) \subseteq LiveNodes(h) /\ LiveLow(s) \subseteq LiveLow(h)
         /\ (\A n \in LiveNodes(s) : s.node[n] = h.node[n])
         /\ (\A l \in LiveLow(s) : SameLow(h, s, l) /\ s.low[l].children \subseteq h.low[l].children)
         /\ (\A l \in InTable(h) : s.low[l].children = {})
         /\ \A path, line, head :
              HeadOf(h, path, line, head) => HeadOf(s, path, line, head)
<1> DEFINE L == InTable(h)
           S == {}
           k == KeepChildren(h, L, S)
<1>h. Tree(h) /\ Table(h) /\ NonTT(h) /\ L \subseteq LiveLow(h)
      /\ (\A l \in L : h.low[l].is_tt)
  BY InTableIs DEF Sane
<1>s. s = NonTTMaintenance(k) BY DEF Cleared
<1>k. k = KeepChildren(h, L, S) /\ S = {} OBVIOUS
<1> HIDE DEF L, S, k
<1>1. ThinnedTree(h, L, S, k) BY <1>h, <1>k, KeepChildrenSane
<1>2. Sane(k) BY <1>1, <1>h DEF ThinnedTree, Sane
<1>3. Swept(k, s) BY <1>2, <1>s, NonTTMaintenanceIs
<1>4. /\ LiveNodes(k) = LiveNodes(h) \ Orphans(h, L, S) /\ LiveLow(k) = LiveLow(h)
      /\ (\A n \in LiveNodes(k) : k.node[n] = h.node[n])
      /\ (\A l \in LiveLow(k) : SameLow(h, k, l))
      /\ (\A l \in LiveLow(k) : k.low[l].children = KeptChildren(h, L, S, l))
      /\ k.gamebegin = h.gamebegin /\ k.tt = h.tt
  BY <1>1 DEF ThinnedTree
<1>5. /\ (\A l \in L : k.low[l].children = {})
      /\ (\A l \in LiveLow(k) : k.low[l].children \subseteq h.low[l].children)
      /\ (\A l \in LiveLow(k) \ L : k.low[l].children = h.low[l].children)
  BY <1>4, <1>h, <1>k DEF KeptChildren
<1>6. /\ Sane(s) /\ s.tt = k.tt /\ s.gamebegin = k.gamebegin
      /\ LiveNodes(s) \subseteq LiveNodes(k) /\ LiveLow(s) \subseteq LiveLow(k)
      /\ (\A n \in LiveNodes(s) : s.node[n] = k.node[n])
      /\ (\A l \in LiveLow(s) : SameLow(k, s, l) /\ s.low[l].children \subseteq k.low[l].children)
      /\ (\A l \in LiveLow(k) : k.low[l].is_tt => l \in LiveLow(s))
  BY <1>3 DEF Swept, Pruned
<1>7. InTable(s) = L BY <1>4, <1>6 DEF InTable, L
<1>8. \A l \in L : s.low[l].children = {}
  <2>1. \A l \in L : l \in LiveLow(s) BY <1>7, <1>6, InTableIs
  <2> QED BY <1>5, <1>6, <2>1
<1>9. ASSUME NEW path, NEW line, NEW head, HeadOf(h, path, line, head)
      PROVE  HeadOf(s, path, line, head)
  <2>1. line \in Seq(Moves) /\ Legal(line) /\ Line(h, path, line, head) /\ Len(line) \in Nat
    BY <1>9 DEF HeadOf
  <2>2. \A i \in 1..Len(line) : ~ h.low[LineLow(h, path, i)].is_tt BY <2>1, LineNodes
  <2>3. \A i \in 1..Len(line) : LineLow(h, path, i) \notin L BY <1>h, <2>2
  <2>4. \A l \in LiveLow(h) \ L :
          l \in LiveLow(k) /\ SameLow(h, k, l) /\ k.low[l].children = h.low[l].children
    BY <1>4, <1>5
  <2>5. /\ k.gamebegin = h.gamebegin /\ LiveNodes(k) = LiveNodes(h) \ Orphans(h, L, {})
        /\ \A n \in LiveNodes(k) : k.node[n] = h.node[n]
    BY <1>4, <1>k
  <2>6. Line(k, path, line, head) BY <1>h, <2>1, <2>3, <2>4, <2>5, PruneLine
  <2>7. HeadOf(k, path, line, head) BY <1>2, <2>1, <2>6 DEF HeadOf, Sane
  <2> QED BY <1>3, <2>7, SweptLine
<1>10. \A l \in LiveLow(s) : SameLow(h, s, l) /\ s.low[l].children \subseteq h.low[l].children
  BY <1>4, <1>5, <1>6 DEF SameLow
<1>11. /\ s.gamebegin = h.gamebegin /\ LiveNodes(s) \subseteq LiveNodes(h)
       /\ LiveLow(s) \subseteq LiveLow(h) /\ (\A n \in LiveNodes(s) : s.node[n] = h.node[n])
  BY <1>4, <1>6
<1>12. InTable(s) = InTable(h) BY <1>7 DEF L
<1>13. \A l \in InTable(h) : s.low[l].children = {} BY <1>8 DEF L
<1> QED BY <1>6, <1>9, <1>10, <1>11, <1>12, <1>13

\* Nothing refers to the table any more when the line owns the rest.
LEMMA TableUnreferenced ==
  ASSUME NEW h, NEW path, NEW line, NEW head, Bare(h, path, line, head), LineOwns(h, path, line),
         NEW s, s = Cleared(h)
  PROVE  \A l \in InTable(s) : Refs(s, l) = {}
<1>h. /\ Sane(h) /\ HeadOf(h, path, line, head) /\ h.node[head].low = None /\ Tree(h)
      /\ line \in Seq(Moves) /\ Len(line) \in Nat /\ Line(h, path, line, head)
  BY DEF Bare, HeadOf
<1>s. /\ Sane(s) /\ s.gamebegin = h.gamebegin /\ InTable(s) = InTable(h)
      /\ LiveNodes(s) \subseteq LiveNodes(h) /\ LiveLow(s) \subseteq LiveLow(h)
      /\ (\A n \in LiveNodes(s) : s.node[n] = h.node[n])
      /\ (\A l \in LiveLow(s) : SameLow(h, s, l) /\ s.low[l].children \subseteq h.low[l].children)
      /\ (\A l \in InTable(h) : s.low[l].children = {})
  BY <1>h, ClearedIs
<1>l. /\ path[0] = h.gamebegin /\ path[Len(line)] = head
      /\ \A i \in 1..Len(line) : Link(h, path, line, i)
  BY <1>h DEF Line
<1>1. ASSUME NEW n \in LiveNodes(s) PROVE \E i \in 0..Len(line) : path[i] = n
  <2>1. CASE n = s.gamebegin
    <3>1. 0 \in 0..Len(line) BY <1>h
    <3> QED BY <1>l, <1>s, <2>1, <3>1
  <2>2. CASE n # s.gamebegin
    <3>1. PICK j \in LiveLow(s) : n \in s.low[j].children BY <1>s, <2>2 DEF Sane, Tree
    <3>2. j \notin InTable(h) /\ j \in LiveLow(h) /\ n \in h.low[j].children BY <1>s, <3>1
    <3>3. ~ h.low[j].is_tt BY <1>h, <3>2, InTableIs
    <3>4. PICK i \in 1..Len(line) : LineLow(h, path, i) = j BY <3>2, <3>3 DEF LineOwns
    <3>5. h.low[j].children = {path[i]} BY <1>l, <3>4 DEF Link, LineLow
    <3>6. i \in 0..Len(line) BY <1>h
    <3> QED BY <3>2, <3>5, <3>6
  <2> QED BY <2>1, <2>2
<1>2. ASSUME NEW n \in LiveNodes(s) PROVE s.node[n].low \notin InTable(s)
  <2>1. PICK i \in 0..Len(line) : path[i] = n BY <1>1
  <2>2. s.node[n].low = h.node[n].low BY <1>s
  <2>3. None \notin InTable(h) BY DEF InTable
  <2>4. CASE i = Len(line) BY <1>h, <1>l, <1>s, <2>1, <2>2, <2>3, <2>4
  <2>5. CASE i # Len(line)
    <3>1. i + 1 \in 1..Len(line) /\ (i + 1) - 1 = i BY <1>h, <2>5
    <3>2. LineLow(h, path, i + 1) = h.node[n].low BY <2>1, <3>1 DEF LineLow
    <3>3. ~ h.low[LineLow(h, path, i + 1)].is_tt BY <1>h, <3>1, LineNodes
    <3> QED BY <1>h, <1>s, <2>2, <3>2, <3>3, InTableIs
  <2> QED BY <2>4, <2>5
<1> QED BY <1>2 DEF Refs

Emptied(d) == [d EXCEPT !.tt = [p \in Positions |-> None], !.gcQueue = {}]

\* The low nodes of the table are destroyed, and the table is empty.
LEMMA TableDestroyed ==
  ASSUME NEW s, Sane(s), \A l \in InTable(s) : Refs(s, l) = {},
         NEW d, d = DestroyLows(s, InTable(s)),
         NEW g, g = Emptied(d),
         NEW path, NEW line, NEW head, HeadOf(s, path, line, head)
  PROVE  /\ Sane(g) /\ HeadOf(g, path, line, head)
         /\ LiveLow(g) \subseteq LiveLow(s) /\ g.node = d.node
         /\ LiveNodes(g) \subseteq LiveNodes(s)
         /\ (\A n \in LiveNodes(g) : g.node[n] = s.node[n])
         /\ (\A l \in LiveLow(g) : ~ s.low[l].is_tt)
<1> DEFINE L == InTable(s)
           T == [p \in Positions |-> None]
           N == d.nonTT
           Q == {}
<1>h. Tree(s) /\ NonTT(s) /\ Table(s) /\ s \in Heap /\ L \subseteq LiveLow(s)
      /\ L = {l \in LiveLow(s) : s.low[l].is_tt}
  BY InTableIs DEF Sane, Tree
<1>l. line \in Seq(Moves) /\ Legal(line) /\ Line(s, path, line, head) /\ Len(line) \in Nat
  BY DEF HeadOf
<1>d. d = DestroyLows(s, L) /\ \A l \in L : Refs(s, l) = {} OBVIOUS
<1> HIDE DEF L
<1>1. Tree(d) /\ Destroyed(s, L, d) BY <1>d, <1>h, DestroyLowsTree, DestroyLowsFields
<1>2. /\ d.gamebegin = s.gamebegin /\ d.tt = s.tt /\ d.nonTT = s.nonTT
      /\ LiveNodes(d) = LiveNodes(s) \ Orphans(s, L, {}) /\ LiveLow(d) = LiveLow(s) \ L
      /\ (\A n \in LiveNodes(d) : d.node[n] = s.node[n])
      /\ \A l \in LiveLow(d) : SameLow(s, d, l) /\ d.low[l].children = s.low[l].children
  BY <1>1 DEF Destroyed
<1>3. \A i \in 1..Len(line) : LineLow(s, path, i) \notin L BY <1>h, <1>l, LineNodes
<1>4. Line(d, path, line, head)
  <2>1. \A l \in LiveLow(s) \ L :
          l \in LiveLow(d) /\ SameLow(s, d, l) /\ d.low[l].children = s.low[l].children
    BY <1>2
  <2> QED BY <1>2, <1>3, <1>h, <1>l, <2>1, PruneLine
<1>5. d \in Heap /\ N \in Seq(LowNodes) BY <1>1, HeapFields DEF Tree
<1>6. T \in [Positions -> LowNodes \cup {None}] /\ Q \in SUBSET Positions OBVIOUS
<1>t. \A p \in Positions : T[p] = None OBVIOUS
<1>n. N = s.nonTT BY <1>2
<1>g. g = [[d EXCEPT !.tt = T] EXCEPT !.gcQueue = Q] BY DEF Emptied
<1> HIDE DEF T, N, Q
<1>7. g = [node |-> d.node, low |-> d.low, gamebegin |-> d.gamebegin, tt |-> T, nonTT |-> N,
           gcQueue |-> Q]
  <2> DEFINE e == [d EXCEPT !.tt = T]
  <2>1. e = [node |-> d.node, low |-> d.low, gamebegin |-> d.gamebegin, tt |-> T,
             nonTT |-> N, gcQueue |-> d.gcQueue]
    BY <1>5, HeapFields DEF N
  <2>2. g = [e EXCEPT !.gcQueue = Q] BY <1>g
  <2> HIDE DEF e
  <2> QED BY <2>1, <2>2
<1>8. Reowned(d, g) /\ g.tt = T /\ g.nonTT = N BY ONLY <1>1, <1>5, <1>6, <1>7, ReownedIs
<1>9. /\ Tree(g) /\ LinesKept(d, g) /\ LiveNodes(g) = LiveNodes(d) /\ LiveLow(g) = LiveLow(d)
      /\ g.node = d.node /\ g.low = d.low
  BY <1>8 DEF Reowned
<1>10. \A l \in LiveLow(g) : ~ s.low[l].is_tt /\ SameLow(s, g, l) /\ l \in LiveLow(s)
  BY <1>2, <1>9, <1>h DEF SameLow
<1>11. Table(g)
  <2>1. \A l \in LiveLow(g) :
          g.low[l].edges \subseteq DOMAIN Succ[g.low[l].hash] /\ ~ g.low[l].is_tt
    BY <1>10, <1>h DEF SameLow, Table
  <2> QED BY <1>8, <1>t, <2>1 DEF Table
<1>12. NonTT(g)
  <2>1. \A i \in DOMAIN s.nonTT : s.nonTT[i] \in LiveLow(g)
    BY <1>2, <1>9, <1>h DEF NonTT
  <2>2. \A i \in DOMAIN g.nonTT : g.nonTT[i] \in LiveLow(g) /\ ~ g.low[g.nonTT[i]].is_tt
    BY <1>8, <1>10, <1>n, <2>1 DEF SameLow
  <2>3. \A i, j \in DOMAIN g.nonTT : g.nonTT[i] = g.nonTT[j] => i = j BY <1>8, <1>h, <1>n DEF NonTT
  <2>4. \A l \in LiveLow(g) : \E i \in DOMAIN g.nonTT : g.nonTT[i] = l
    BY <1>8, <1>10, <1>h, <1>n DEF NonTT
  <2> QED BY <2>2, <2>3, <2>4 DEF NonTT
<1>13. Line(g, path, line, head) BY <1>4, <1>9, <1>l DEF LinesKept
<1>14. HeadOf(g, path, line, head) BY <1>9, <1>13, <1>l DEF HeadOf
<1>15. Sane(g) BY <1>9, <1>11, <1>12 DEF Sane
<1>16. /\ LiveLow(g) \subseteq LiveLow(s) /\ g.node = d.node /\ LiveNodes(g) \subseteq LiveNodes(s)
       /\ (\A n \in LiveNodes(g) : g.node[n] = s.node[n])
       /\ (\A l \in LiveLow(g) : ~ s.low[l].is_tt)
  BY <1>2, <1>9, <1>10
<1> QED BY <1>14, <1>15, <1>16

\* TTClear, as self-play calls it.
LEMMA TTClearIs ==
  ASSUME NEW h, NEW path, NEW line, NEW head, Bare(h, path, line, head), LineOwns(h, path, line),
         NEW g, g = TTClear(h)
  PROVE  Sane(g) /\ HeadOf(g, path, line, head) /\ OwnLine(g, path, line, head)
<1> DEFINE s == Cleared(h)
           d == DestroyLows(s, InTable(s))
<1>h. Sane(h) /\ HeadOf(h, path, line, head) /\ Len(line) \in Nat BY DEF Bare, HeadOf
<1>g. g = Emptied(d) BY DEF TTClear, Cleared, Emptied
<1>s. s = Cleared(h) /\ d = DestroyLows(s, InTable(s)) OBVIOUS
<1> HIDE DEF s, d
<1>1. /\ Sane(s) /\ LiveNodes(s) \subseteq LiveNodes(h) /\ LiveLow(s) \subseteq LiveLow(h)
      /\ (\A n \in LiveNodes(s) : s.node[n] = h.node[n])
      /\ (\A l \in LiveLow(s) : SameLow(h, s, l))
      /\ HeadOf(s, path, line, head)
  BY <1>h, <1>s, ClearedIs
<1>2. \A l \in InTable(s) : Refs(s, l) = {} BY <1>s, TableUnreferenced
<1>3. /\ Sane(g) /\ HeadOf(g, path, line, head)
      /\ LiveLow(g) \subseteq LiveLow(s)
      /\ LiveNodes(g) \subseteq LiveNodes(s)
      /\ (\A n \in LiveNodes(g) : g.node[n] = s.node[n])
      /\ (\A l \in LiveLow(g) : ~ s.low[l].is_tt)
  <2>1. Sane(s) /\ HeadOf(s, path, line, head) BY <1>1
  <2>2. d = DestroyLows(s, InTable(s)) BY <1>s
  <2> QED BY ONLY <2>1, <1>2, <1>g, <2>2, TableDestroyed
<1>4. Line(g, path, line, head) BY <1>3 DEF HeadOf
<1>5. ASSUME NEW i \in 1..Len(line) PROVE LineLow(g, path, i) = LineLow(h, path, i)
  <2>1. i - 1 \in 0..Len(line) BY <1>h
  <2>2. path[i - 1] \in LiveNodes(g) BY <1>4, <1>h, <2>1, LineNodes
  <2> QED BY <1>1, <1>3, <2>2 DEF LineLow
<1>6. ASSUME NEW l \in LiveLow(g) PROVE \E i \in 1..Len(line) : LineLow(g, path, i) = l
  <2>1. l \in LiveLow(h) /\ ~ h.low[l].is_tt BY <1>1, <1>3 DEF SameLow
  <2>2. PICK i \in 1..Len(line) : LineLow(h, path, i) = l BY <2>1 DEF LineOwns
  <2> QED BY <1>5, <2>2
<1>7. OwnLine(g, path, line, head) BY <1>6 DEF OwnLine
<1> QED BY <1>3, <1>7

\* gamebegin_node_ is destroyed first.
Begun(h) == [DestroyNodes(h, {h.gamebegin}) EXCEPT !.gamebegin = None]

\* Freeing gamebegin_node_ leaves a sane heap that has none.
LEMMA BegunIs ==
  ASSUME NEW h, Sane(h), h.gamebegin # None, NEW g, g = Begun(h)
  PROVE  Sane(g) /\ g.gamebegin = None
<1> DEFINE n == h.gamebegin
           X == {n}
           N == [k \in Nodes |-> IF k \in X THEN DeadNode ELSE h.node[k]]
           W == [k \in LowNodes |-> Loser(h, X, k)]
           f == DestroyNodes(h, X)
           B == None
           T == h.tt
           S == h.nonTT
           Q == h.gcQueue
<1>h. /\ h \in Heap /\ Tree(h) /\ Table(h) /\ NonTT(h)
      /\ n \in LiveNodes(h) /\ X \subseteq LiveNodes(h)
  BY DEF Sane, Tree
<1>1. f = [node |-> N, low |-> W, gamebegin |-> h.gamebegin, tt |-> T, nonTT |-> S,
           gcQueue |-> Q]
  <2>1. f = [node |-> N, low |-> LoseParents(h, X).low, gamebegin |-> h.gamebegin, tt |-> T,
             nonTT |-> S, gcQueue |-> Q]
    BY <1>h, DestroyNodesIs
  <2>2. LoseParents(h, X).low = W
    <3>1. LoseParents(h, X) =
            [node |-> h.node, low |-> W, gamebegin |-> h.gamebegin, tt |-> h.tt,
             nonTT |-> h.nonTT, gcQueue |-> h.gcQueue]
      BY <1>h, LoseParentsIs
    <3> HIDE DEF W
    <3> QED BY <3>1
  <2> QED BY <2>1, <2>2
<1>g. g = [f EXCEPT !.gamebegin = B] BY DEF Begun
<1>w. \A k \in LowNodes : W[k] = Loser(h, X, k) OBVIOUS
<1>d. W = [k \in LowNodes |-> W[k]] OBVIOUS
<1>n. \A k \in Nodes : N[k] = IF k \in X THEN DeadNode ELSE h.node[k] OBVIOUS
<1>e. N = [k \in Nodes |-> N[k]] OBVIOUS
<1>b. B = None /\ B \in Nodes \cup {None} OBVIOUS
<1>t. /\ T \in [Positions -> LowNodes \cup {None}] /\ S \in Seq(LowNodes)
      /\ Q \in SUBSET Positions
  BY <1>h, HeapFields
<1>s. T = h.tt /\ S = h.nonTT /\ X = {n} /\ n = h.gamebegin OBVIOUS
<1> HIDE DEF f, N, W, B, T, S, Q, X, n
<1>2. g = [node |-> N, low |-> W, gamebegin |-> B, tt |-> T, nonTT |-> S, gcQueue |-> Q]
  BY <1>1, <1>g
<1>3. N \in [Nodes -> NodeRec \cup {DeadNode}]
  <2>1. \A k \in Nodes : N[k] \in NodeRec \cup {DeadNode} BY <1>h, <1>n, HeapFields
  <2> QED BY <1>e, <2>1
<1>9. ASSUME NEW k \in LowNodes \ LiveLow(h) PROVE W[k] = DeadLow
  BY <1>w DEF Loser, LiveLow
<1>10. ASSUME NEW k \in LiveLow(h)
       PROVE  /\ W[k] \in LowRec /\ W[k].dead = FALSE /\ W[k].hash = h.low[k].hash
              /\ W[k].edges = h.low[k].edges /\ W[k].children = h.low[k].children
              /\ W[k].is_tt = h.low[k].is_tt /\ W[k].visited = h.low[k].visited
              /\ W[k].parents = Cardinality(Refs(h, k) \ X)
  <2> DEFINE c == h.low[k].parents - Losses(h, X, k)
             r == LowParents(h.low[k], c)
  <2>1. k \in LowNodes /\ h.low[k] \in LowRec BY <1>h, LiveFields
  <2>2. ~ h.low[k].dead BY DEF LiveLow
  <2>3. W[k] = r BY <1>w, <2>1, <2>2 DEF Loser, LowParents
  <2>4. c = Cardinality(Refs(h, k) \ X) /\ c \in Nat
    <3>1. Tree(h) /\ X \subseteq LiveNodes(h) BY <1>h
    <3>2. /\ h.low[k].parents - Losses(h, X, k) = Cardinality(Refs(h, k) \ X)
          /\ Cardinality(Refs(h, k) \ X) \in Nat
      BY <3>1, LossesAre, Zenon
    <3> QED BY <3>2
  <2> HIDE DEF c
  <2>5. /\ AllBut(h.low[k], r) /\ r.children = h.low[k].children /\ r.parents = c
        /\ r.is_tt = h.low[k].is_tt /\ r.visited = h.low[k].visited
    BY <2>1, LowWithParents
  <2> HIDE DEF r
  <2>6. r \in LowRec BY <2>1, <2>4, <2>5, AllButLow, Fields
  <2>7. r.dead = FALSE /\ r.hash = h.low[k].hash /\ r.edges = h.low[k].edges
    BY <2>5, Zenon DEF AllBut
  <2> QED BY <2>3, <2>4, <2>5, <2>6, <2>7
<1>11. W \in [LowNodes -> LowRec \cup {DeadLow}]
  <2>1. \A k \in LowNodes : W[k] \in LowRec \cup {DeadLow} BY <1>9, <1>10
  <2> QED BY <1>d, <2>1
<1>12. g.node = N /\ g.low = W /\ g.gamebegin = B /\ g.tt = T /\ g.nonTT = S /\ g.gcQueue = Q
  BY <1>2
<1>13. g \in Heap
  <2>1. g = [node |-> g.node, low |-> g.low, gamebegin |-> g.gamebegin, tt |-> g.tt,
             nonTT |-> g.nonTT, gcQueue |-> g.gcQueue]
    BY <1>2, <1>12
  <2>2. /\ g.node \in [Nodes -> NodeRec \cup {DeadNode}]
        /\ g.low \in [LowNodes -> LowRec \cup {DeadLow}]
        /\ g.gamebegin \in Nodes \cup {None} /\ g.tt \in [Positions -> LowNodes \cup {None}]
        /\ g.nonTT \in Seq(LowNodes) /\ g.gcQueue \in SUBSET Positions
    BY <1>3, <1>11, <1>12, <1>b, <1>t
  <2> QED BY ONLY <2>1, <2>2, HeapIs
<1>14. LiveLow(g) = LiveLow(h)
  <2>1. DeadLow.dead BY DEF DeadLow
  <2>2. \A k \in LowNodes \ LiveLow(h) : g.low[k].dead BY <1>9, <1>12, <2>1
  <2>3. \A k \in LiveLow(h) : k \in LowNodes /\ ~ g.low[k].dead BY <1>10, <1>12 DEF LiveLow
  <2> QED BY <2>2, <2>3 DEF LiveLow
<1>15. LiveNodes(g) = LiveNodes(h) \ X /\ \A k \in LiveNodes(g) : g.node[k] = h.node[k]
  <2>1. DeadNode.dead BY DEF DeadNode
  <2> QED BY <1>12, <1>n, <2>1 DEF LiveNodes
<1>16. \A k : Refs(g, k) = Refs(h, k) \ X BY <1>15 DEF Refs
<1>17. \A k \in LiveLow(g) :
       /\ SameLow(h, g, k) /\ g.low[k].children = h.low[k].children
       /\ g.low[k].parents = Cardinality(Refs(g, k))
  BY <1>10, <1>12, <1>14, <1>16 DEF SameLow
<1>18. Tree(g)
  <2>h. /\ \A k \in LiveNodes(h) : h.node[k].low \in LiveLow(h) \cup {None}
        /\ \A k \in LiveNodes(h) \ {n} : \E j \in LiveLow(h) : k \in h.low[j].children
        /\ \A k \in LiveLow(h) : Family(h, k)
        /\ \A k, j \in LiveLow(h), c \in Nodes :
             c \in h.low[k].children /\ c \in h.low[j].children => k = j
    BY <1>h, <1>s DEF Tree
  <2>1. g.gamebegin = None BY <1>12, <1>b
  <2>2. \A k \in LiveNodes(g) : g.node[k].low \in LiveLow(g) \cup {None} BY <1>14, <1>15, <2>h
  <2>3. \A k \in LiveNodes(g) \ {g.gamebegin} : \E j \in LiveLow(g) : k \in g.low[j].children
    BY <1>14, <1>15, <1>17, <1>s, <2>h
  <2>4. ASSUME NEW k \in LiveLow(g) PROVE Family(g, k)
    <3>0. /\ h.low[k].children \subseteq LiveNodes(h) \ {n}
          /\ \A c \in h.low[k].children :
               /\ h.node[c].move \in DOMAIN Succ[h.low[k].hash]
               /\ LeadsTo(h, c, Succ[h.low[k].hash][h.node[c].move])
          /\ \A c, d \in h.low[k].children : h.node[c].move = h.node[d].move => c = d
      BY <1>14, <1>s, <2>h DEF Family
    <3>1. g.low[k].children = h.low[k].children /\ g.low[k].hash = h.low[k].hash
      BY <1>17 DEF SameLow
    <3>2. \A c \in g.low[k].children : c \in LiveNodes(g) /\ g.node[c] = h.node[c]
                                       /\ c # None /\ c \in LiveNodes(h)
      BY <1>15, <1>s, <1>h, <3>0, <3>1, LiveFields, Addresses
    <3>3. \A c \in LiveNodes(g) : \A q : LeadsTo(h, c, q) => LeadsTo(g, c, q)
      BY <1>14, <1>15, <1>17, <2>h DEF LeadsTo, SameLow
    <3>4. g.low[k].children \subseteq LiveNodes(g) \ {g.gamebegin} BY <2>1, <3>2
    <3>5. \A c \in g.low[k].children :
             /\ g.node[c].move \in DOMAIN Succ[g.low[k].hash]
             /\ LeadsTo(g, c, Succ[g.low[k].hash][g.node[c].move])
      BY <3>0, <3>1, <3>2, <3>3
    <3>6. \A c, d \in g.low[k].children : g.node[c].move = g.node[d].move => c = d
      BY <3>0, <3>1, <3>2
    <3> QED BY <3>4, <3>5, <3>6 DEF Family
  <2>5. \A k, j \in LiveLow(g), c \in Nodes :
             c \in g.low[k].children /\ c \in g.low[j].children => k = j
    BY <1>14, <1>17, <2>h
  <2> QED BY <1>13, <1>17, <2>1, <2>2, <2>3, <2>4, <2>5 DEF Tree
<1>19. Table(g)
  <2>1. g.tt = h.tt /\ \A k \in LiveLow(h) : SameLow(h, g, k) BY <1>12, <1>14, <1>17, <1>s
  <2> QED BY <1>14, <1>h, <2>1, TableSame
<1>20. NonTT(g)
  <2>1. g.nonTT = h.nonTT /\ \A k \in LiveLow(g) : SameLow(h, g, k) BY <1>12, <1>17, <1>s
  <2> QED BY <1>14, <1>h, <2>1, NonTTKept
<1> QED BY <1>12, <1>18, <1>19, <1>20, <1>b DEF Sane

\* Without the table's low nodes, a heap whose game has no beginning keeps the
\* low nodes that non_tt_ owns, and their children.
LEMMA TableBuried ==
  ASSUME NEW s, Sane(s), s.gamebegin = None, NEW d, d = DestroyLows(s, InTable(s)),
         NEW e, e = Emptied(d)
  PROVE  /\ e \in Heap /\ e.gamebegin = None /\ e.tt = [p \in Positions |-> None]
         /\ e.gcQueue = {} /\ InNonTT(e) = LiveLow(e)
         /\ \A n \in LiveNodes(e) : \E l \in LiveLow(e) : n \in e.low[l].children
<1> DEFINE L == InTable(s)
           k == KeepChildren(s, L, {})
           W == [l \in LowNodes |-> Buried(k, L, l)]
           T == [p \in Positions |-> None]
           Q == {}
<1>s. /\ Tree(s) /\ s \in Heap /\ L \subseteq LiveLow(s) /\ InNonTT(s) = LiveLow(s) \ L
  BY InTableIs DEF Sane, Tree
<1>d. d = DestroyLows(s, L) OBVIOUS
<1>1. Destroyed(s, L, d) BY <1>d, <1>s, DestroyLowsFields
<1>2. Tree(k) /\ k \in Heap
  <2> DEFINE S == {}
  <2>1. k = KeepChildren(s, L, S) OBVIOUS
  <2> HIDE DEF S, k, L
  <2>2. Tree(k) BY <1>s, <2>1, KeepChildrenTree
  <2> QED BY <2>2 DEF Tree
<1>3. /\ d = [node |-> k.node, low |-> W, gamebegin |-> s.gamebegin, tt |-> s.tt,
              nonTT |-> s.nonTT, gcQueue |-> s.gcQueue]
      /\ d.node = k.node /\ d.gamebegin = s.gamebegin /\ d.tt = s.tt /\ d.nonTT = s.nonTT
      /\ LiveNodes(d) = LiveNodes(s) \ Orphans(s, L, {}) /\ LiveLow(d) = LiveLow(s) \ L
      /\ \A l \in LiveLow(d) : d.low[l].children = s.low[l].children
  BY <1>1 DEF Destroyed
<1>w. \A l \in LowNodes : W[l] = Buried(k, L, l) OBVIOUS
<1>x. W = [l \in LowNodes |-> W[l]] OBVIOUS
<1>t. T \in [Positions -> LowNodes \cup {None}] /\ Q \in SUBSET Positions OBVIOUS
<1>e. e = [[d EXCEPT !.tt = T] EXCEPT !.gcQueue = Q] BY DEF Emptied
<1>o. Orphans(s, L, {}) = UNION {s.low[l].children : l \in L} BY DEF Orphans
<1>z. T = [p \in Positions |-> None] /\ Q = {} OBVIOUS
<1> HIDE DEF W, k, L, T, Q
<1>4. W \in [LowNodes -> LowRec \cup {DeadLow}]
  <2>1. \A l \in LowNodes : k.low[l] \in LowRec \cup {DeadLow} BY <1>2, HeapFields
  <2>2. \A l \in LowNodes : W[l] \in LowRec \cup {DeadLow} BY <1>w, <2>1 DEF Buried
  <2> QED BY <1>x, <2>2
<1>5. e = [node |-> k.node, low |-> W, gamebegin |-> s.gamebegin, tt |-> T,
           nonTT |-> s.nonTT, gcQueue |-> Q]
  <2> DEFINE f == [d EXCEPT !.tt = T]
  <2>1. f = [node |-> k.node, low |-> W, gamebegin |-> s.gamebegin, tt |-> T,
             nonTT |-> s.nonTT, gcQueue |-> s.gcQueue]
    BY <1>3
  <2>2. e = [f EXCEPT !.gcQueue = Q] BY <1>e
  <2> HIDE DEF f
  <2> QED BY <2>1, <2>2
<1>6. e.node = k.node /\ e.low = W /\ e.gamebegin = s.gamebegin /\ e.tt = T
      /\ e.nonTT = s.nonTT /\ e.gcQueue = Q
  BY <1>5
<1>7. e \in Heap
  <2>1. e = [node |-> e.node, low |-> e.low, gamebegin |-> e.gamebegin, tt |-> e.tt,
             nonTT |-> e.nonTT, gcQueue |-> e.gcQueue]
    BY <1>5, <1>6
  <2>2. /\ e.node \in [Nodes -> NodeRec \cup {DeadNode}]
        /\ e.low \in [LowNodes -> LowRec \cup {DeadLow}]
        /\ e.gamebegin \in Nodes \cup {None} /\ e.tt \in [Positions -> LowNodes \cup {None}]
        /\ e.nonTT \in Seq(LowNodes) /\ e.gcQueue \in SUBSET Positions
    BY <1>2, <1>4, <1>6, <1>s, <1>t, HeapFields
  <2> QED BY ONLY <2>1, <2>2, HeapIs
<1>8. d.low = W BY <1>3
<1>9. LiveLow(e) = LiveLow(s) \ L /\ LiveNodes(e) = LiveNodes(s) \ Orphans(s, L, {})
      /\ \A l \in LiveLow(e) : e.low[l].children = s.low[l].children
  <2>1. LiveLow(e) = LiveLow(d) BY <1>6, <1>8 DEF LiveLow
  <2>2. LiveNodes(e) = LiveNodes(d) BY <1>3, <1>6 DEF LiveNodes
  <2> QED BY <1>3, <1>6, <1>8, <2>1, <2>2
<1>10. InNonTT(e) = LiveLow(e)
  <2>1. InNonTT(e) = InNonTT(s) BY <1>6 DEF InNonTT
  <2> QED BY <1>9, <1>s, <2>1
<1>11. ASSUME NEW n \in LiveNodes(e) PROVE \E l \in LiveLow(e) : n \in e.low[l].children
  <2>1. n \in LiveNodes(s) /\ n \notin Orphans(s, L, {}) BY <1>9
  <2>2. n # None BY <1>s, <2>1, LiveFields, Addresses
  <2>3. PICK l \in LiveLow(s) : n \in s.low[l].children BY <1>s, <2>1, <2>2 DEF Tree
  <2>4. l \notin L BY <1>o, <2>1, <2>3
  <2> QED BY <1>9, <2>3, <2>4
<1> QED BY <1>6, <1>7, <1>10, <1>11, <1>z

\* What is left is destroyed with non_tt_.
LEMMA RestBuried ==
  ASSUME NEW e, e \in Heap, e.gamebegin = None, e.tt = [p \in Positions |-> None],
         e.gcQueue = {}, InNonTT(e) = LiveLow(e),
         \A n \in LiveNodes(e) : \E l \in LiveLow(e) : n \in e.low[l].children
  PROVE  [DestroyLows(e, InNonTT(e)) EXCEPT !.nonTT = <<>>] = EmptyHeap
<1> DEFINE L == LiveLow(e)
           f == DestroyLows(e, L)
           k == KeepChildren(e, L, {})
           W == [l \in LowNodes |-> Buried(k, L, l)]
           N == k.node
           B == e.gamebegin
           T == e.tt
           S == e.nonTT
           Q == e.gcQueue
           Z == <<>>
<1>1. Destroyed(e, L, f)
  <2>1. L \subseteq LiveLow(e) OBVIOUS
  <2> HIDE DEF L
  <2> QED BY <2>1, DestroyLowsFields
<1>2. Thinned(e, L, {}, k)
  <2>1. L \subseteq LiveLow(e) OBVIOUS
  <2> HIDE DEF L
  <2> QED BY <2>1, KeepChildrenFields
<1>3. f = [node |-> N, low |-> W, gamebegin |-> B, tt |-> T, nonTT |-> S, gcQueue |-> Q]
  BY <1>1 DEF Destroyed
<1>4. f.node = N /\ f.low = W /\ LiveNodes(f) = LiveNodes(e) \ Orphans(e, L, {}) /\ LiveLow(f) = {}
  BY <1>1 DEF Destroyed
<1>5. \A l \in LowNodes : W[l] = DeadLow
  <2>1. \A l \in LowNodes : W[l] = Buried(k, L, l) OBVIOUS
  <2>2. k.low = [l \in LowNodes |-> FateOfLow(e, L, {}, l)] BY <1>2 DEF Thinned
  <2>3. \A l \in LowNodes : k.low[l] = FateOfLow(e, L, {}, l) BY <2>2
  <2> HIDE DEF W, k
  <2> QED BY <2>1, <2>3 DEF Buried, FateOfLow
<1>6. N \in [Nodes -> NodeRec \cup {DeadNode}] BY <1>2 DEF Thinned
<1>7. \A n \in Nodes : N[n].dead
  <2>1. \A n \in LiveNodes(e) : n \in Orphans(e, L, {}) BY DEF Orphans
  <2> QED BY <1>4, <2>1 DEF LiveNodes
<1>w. W = [l \in LowNodes |-> W[l]] OBVIOUS
<1>z. Z = <<>> OBVIOUS
<1>f. DestroyLows(e, InNonTT(e)) = f OBVIOUS
<1> HIDE DEF W, k, N, B, T, S, Q, f, Z
<1>8. W = [l \in LowNodes |-> DeadLow] BY <1>5, <1>w
<1>9. N = [n \in Nodes |-> DeadNode]
  <2>1. \A n \in Nodes : N[n] \notin NodeRec BY <1>7, Fields
  <2>2. \A n \in Nodes : N[n] = DeadNode BY <1>6, <2>1
  <2> QED BY <1>6, <2>2
<1>10. [f EXCEPT !.nonTT = Z] =
         [node |-> N, low |-> W, gamebegin |-> B, tt |-> T, nonTT |-> Z, gcQueue |-> Q]
  BY <1>3
<1>11. B = None /\ T = [p \in Positions |-> None] /\ Q = {} BY DEF B, T, Q
<1>12. EmptyHeap = [node |-> N, low |-> W, gamebegin |-> B, tt |-> T, nonTT |-> Z, gcQueue |-> Q]
  BY <1>8, <1>9, <1>11, <1>z DEF EmptyHeap
<1> QED BY <1>10, <1>12, <1>f, <1>z

\* ~NodeTree leaves nothing.
LEMMA DeallocateTreeIs ==
  ASSUME NEW h, Sane(h)
  PROVE  DeallocateTree(h) = EmptyHeap
<1> DEFINE begun == IF h.gamebegin = None THEN h ELSE Begun(h)
           swept == NonTTMaintenance(begun)
           s == Cleared(swept)
           d == DestroyLows(s, InTable(s))
           e == Emptied(d)
<1>1. DeallocateTree(h) = [DestroyLows(e, InNonTT(e)) EXCEPT !.nonTT = <<>>]
  BY DEF DeallocateTree, TTClear, Cleared, Emptied, Begun
<1>2. Sane(begun) /\ begun.gamebegin = None BY BegunIs
<1>3. Swept(begun, swept) BY <1>2, NonTTMaintenanceIs
<1>4. Sane(swept) /\ swept.gamebegin = None BY <1>2, <1>3 DEF Swept, Pruned
<1>5. Sane(s) /\ s.gamebegin = None
  <2>1. s = Cleared(swept) OBVIOUS
  <2> HIDE DEF s, swept
  <2> QED BY <1>4, <2>1, ClearedIs
<1>6. d = DestroyLows(s, InTable(s)) /\ e = Emptied(d) OBVIOUS
<1> HIDE DEF begun, swept, s, d, e
<1>7. /\ e \in Heap /\ e.gamebegin = None /\ e.tt = [p \in Positions |-> None]
      /\ e.gcQueue = {} /\ InNonTT(e) = LiveLow(e)
      /\ \A n \in LiveNodes(e) : \E l \in LiveLow(e) : n \in e.low[l].children
  BY <1>5, <1>6, TableBuried
<1> QED BY <1>1, <1>7, RestBuried
-----------------------------------------------------------------------------
(* The start of a game. *)

Fresh(h) == h = EnsureGameBegin(EmptyHeap)

\* A heap with nothing in it but gamebegin_node_.
LEMMA FreshFields ==
  ASSUME NEW h, Fresh(h)
  PROVE  /\ h \in Heap /\ h.gamebegin \in Nodes /\ LiveNodes(h) = {h.gamebegin}
         /\ h.node[h.gamebegin].low = None /\ LiveLow(h) = {}
         /\ (\A p \in Positions : h.tt[p] = None) /\ h.nonTT = <<>>
<1> DEFINE N0 == [k \in Nodes |-> DeadNode]
           W == [l \in LowNodes |-> DeadLow]
           B0 == None
           T == [p \in Positions |-> None]
           S == <<>>
           Q == {}
           n == FreeNode(EmptyHeap)
           s == FreshNode(NoMove)
           N == [N0 EXCEPT ![n] = s]
           e == NewNode(EmptyHeap, n, NoMove)
<1>1. EmptyHeap = [node |-> N0, low |-> W, gamebegin |-> B0, tt |-> T, nonTT |-> S, gcQueue |-> Q]
  BY DEF EmptyHeap
<1>2. /\ EmptyHeap.node = N0 /\ EmptyHeap.low = W /\ EmptyHeap.gamebegin = None BY <1>1
<1>3. LiveNodes(EmptyHeap) = {}
  <2>1. \A k \in Nodes : EmptyHeap.node[k].dead BY <1>2 DEF DeadNode
  <2> QED BY <2>1 DEF LiveNodes
<1>4. n \in Nodes
  <2>1. 1 \in Nodes BY BoundsAssumption DEF Nodes
  <2>2. LiveNodes(EmptyHeap) # Nodes BY <1>3, <2>1
  <2> QED BY <2>2, FreeNodeIs
<1>5. h = [e EXCEPT !.gamebegin = n] BY <1>2 DEF Fresh, EnsureGameBegin
<1>6. e = [EmptyHeap EXCEPT !.node = N] BY <1>2 DEF NewNode, FreshNode
<1>7. s \in NodeRec /\ s.dead = FALSE /\ s.low = None BY FreshNodeIs
<1>w. \A l \in LowNodes : W[l] = DeadLow OBVIOUS
<1>x. W \in [LowNodes -> LowRec \cup {DeadLow}] OBVIOUS
<1>n. N0 \in [Nodes -> NodeRec \cup {DeadNode}] /\ \A k \in Nodes : N0[k] = DeadNode OBVIOUS
<1>N. N = [N0 EXCEPT ![n] = s] OBVIOUS
<1>t. /\ T \in [Positions -> LowNodes \cup {None}] /\ S \in Seq(LowNodes) /\ Q \in SUBSET Positions
      /\ (\A p \in Positions : T[p] = None) /\ S = <<>>
  OBVIOUS
<1> HIDE DEF n, s, e, N, N0, W, T, S, Q, B0
<1>8. h = [node |-> N, low |-> W, gamebegin |-> n, tt |-> T, nonTT |-> S, gcQueue |-> Q]
  <2>1. e = [node |-> N, low |-> W, gamebegin |-> B0, tt |-> T, nonTT |-> S, gcQueue |-> Q]
    BY <1>1, <1>6
  <2> QED BY <1>5, <2>1
<1>9. h.node = N /\ h.low = W /\ h.gamebegin = n /\ h.tt = T /\ h.nonTT = S /\ h.gcQueue = Q
  BY <1>8
<1>10. N \in [Nodes -> NodeRec \cup {DeadNode}] BY <1>4, <1>7, <1>n, <1>N
<1>11. h \in Heap
  <2>1. h = [node |-> h.node, low |-> h.low, gamebegin |-> h.gamebegin, tt |-> h.tt,
             nonTT |-> h.nonTT, gcQueue |-> h.gcQueue]
    BY <1>8, <1>9
  <2>2. /\ h.node \in [Nodes -> NodeRec \cup {DeadNode}]
        /\ h.low \in [LowNodes -> LowRec \cup {DeadLow}]
        /\ h.gamebegin \in Nodes \cup {None} /\ h.tt \in [Positions -> LowNodes \cup {None}]
        /\ h.nonTT \in Seq(LowNodes) /\ h.gcQueue \in SUBSET Positions
    BY <1>4, <1>9, <1>10, <1>t, <1>x
  <2> QED BY ONLY <2>1, <2>2, HeapIs
<1>12. LiveLow(h) = {}
  <2>1. \A l \in LowNodes : h.low[l].dead BY <1>9, <1>w DEF DeadLow
  <2> QED BY <2>1 DEF LiveLow
<1>13. N[n] = s /\ \A k \in Nodes : k # n => N[k] = DeadNode BY <1>4, <1>n, <1>N
<1>14. LiveNodes(h) = {n}
  <2>1. \A k \in Nodes : k # n => h.node[k].dead BY <1>9, <1>13 DEF DeadNode
  <2>2. ~ h.node[n].dead BY <1>7, <1>9, <1>13
  <2> QED BY <1>4, <2>1, <2>2 DEF LiveNodes
<1> QED BY <1>4, <1>7, <1>9, <1>11, <1>12, <1>13, <1>14, <1>t

\* The tree of a new game: gamebegin_node_ is its head, and nothing else refers to anything.
LEMMA FreshIs ==
  ASSUME NEW h, Fresh(h)
  PROVE  /\ Sane(h) /\ h.gamebegin # None /\ \E path : HeadOf(h, path, <<>>, h.gamebegin)
         /\ \A path, line, head : OwnLine(h, path, line, head)
<1>1. /\ h \in Heap /\ h.gamebegin \in Nodes /\ LiveNodes(h) = {h.gamebegin}
      /\ h.node[h.gamebegin].low = None /\ LiveLow(h) = {}
      /\ (\A p \in Positions : h.tt[p] = None) /\ h.nonTT = <<>>
  BY FreshFields
<1>2. Tree(h) BY <1>1 DEF Tree, LeadsTo
<1>3. Table(h) BY <1>1 DEF Table
<1>4. NonTT(h) BY <1>1 DEF NonTT
<1>5. h.gamebegin # None BY <1>1, Addresses
<1>6. Sane(h) BY <1>2, <1>3, <1>4 DEF Sane
<1> DEFINE path == [i \in 0..0 |-> h.gamebegin]
           line == <<>>
<1>7. line \in Seq(Moves) /\ Len(line) = 0 OBVIOUS
<1>8. Legal(line) BY <1>7 DEF Legal
<1>9. Line(h, path, line, h.gamebegin)
  <2>1. path \in [0..0 -> LiveNodes(h)] /\ path[0] = h.gamebegin BY <1>1
  <2>2. 1..0 = {} OBVIOUS
  <2> HIDE DEF path, line
  <2> QED BY <1>7, <2>1, <2>2 DEF Line
<1>10. HeadOf(h, path, line, h.gamebegin) BY <1>2, <1>7, <1>8, <1>9 DEF HeadOf
<1>11. \A p, t, head : OwnLine(h, p, t, head) BY <1>1 DEF OwnLine
<1> QED BY <1>5, <1>6, <1>10, <1>11

\* The game that goes on, from its beginning.
LEMMA BeginIs ==
  ASSUME NEW h, Sane(h), h.gamebegin # None
  PROVE  EnsureGameBegin(h) = h /\ \E path : HeadOf(h, path, <<>>, h.gamebegin)
<1> DEFINE path == [i \in 0..0 |-> h.gamebegin]
           line == <<>>
<1>1. Tree(h) /\ h.gamebegin \in LiveNodes(h) BY DEF Sane, Tree
<1>7. line \in Seq(Moves) /\ Len(line) = 0 OBVIOUS
<1>8. Legal(line) BY <1>7 DEF Legal
<1>9. Line(h, path, line, h.gamebegin)
  <2>1. path \in [0..0 -> LiveNodes(h)] /\ path[0] = h.gamebegin BY <1>1
  <2>2. 1..0 = {} OBVIOUS
  <2> HIDE DEF path, line
  <2> QED BY <1>7, <2>1, <2>2 DEF Line
<1>10. HeadOf(h, path, line, h.gamebegin) BY <1>1, <1>7, <1>8, <1>9 DEF HeadOf
<1> QED BY <1>10 DEF EnsureGameBegin
-----------------------------------------------------------------------------
(* A visit. *)

\* Being alike is transitive.
LEMMA AlikeTrans ==
  ASSUME NEW f, NEW g, NEW h, Alike(f, g), Alike(g, h)
  PROVE  Alike(f, h)
BY DEF Alike

\* A visited flag makes heaps alike.
LEMMA LowVisitedAlike ==
  ASSUME NEW h, h \in Heap, NEW l \in LiveLow(h), NEW b \in BOOLEAN,
         NEW g, g = [h EXCEPT !.low[l].visited = b]
  PROVE  Alike(h, g)
<1> DEFINE r == LowFlag(h.low[l], b)
           W == [h.low EXCEPT ![l] = r]
           N == h.node
<1>1. l \in LowNodes /\ h.low[l] \in LowRec BY LiveFields
<1>e. g = [h EXCEPT !.low = W] BY DEF LowFlag
<1>n. W = [h.low EXCEPT ![l] = r] OBVIOUS
<1>3. /\ AllBut(h.low[l], r) /\ r.children = h.low[l].children /\ r.parents = h.low[l].parents
      /\ r.is_tt = h.low[l].is_tt /\ r.visited = b
  BY <1>1, LowWithFlag
<1> HIDE DEF r
<1>4. r \in LowRec BY <1>1, <1>3, AllButLow, Fields
<1>5. W \in [LowNodes -> LowRec \cup {DeadLow}] BY <1>1, <1>4, HeapFields
<1> HIDE DEF W
<1>2. g = [node |-> h.node, low |-> W, gamebegin |-> h.gamebegin, tt |-> h.tt,
           nonTT |-> h.nonTT, gcQueue |-> h.gcQueue]
  BY <1>e, HeapFields
<1>6. N \in [Nodes -> NodeRec \cup {DeadNode}] /\ N = h.node BY HeapFields
<1> HIDE DEF N
<1>7. g = [node |-> N, low |-> W, gamebegin |-> h.gamebegin, tt |-> h.tt,
           nonTT |-> h.nonTT, gcQueue |-> h.gcQueue]
  BY <1>2, <1>6
<1>8. /\ g \in Heap /\ g.node = N /\ g.low = W /\ g.gamebegin = h.gamebegin /\ g.tt = h.tt
      /\ g.nonTT = h.nonTT
  <2>1. h \in Heap OBVIOUS
  <2> QED BY ONLY <2>1, <1>5, <1>6, <1>7, HeapPut
<1>9. r.dead = FALSE /\ r.hash = h.low[l].hash /\ r.edges = h.low[l].edges
  BY <1>3, Zenon DEF AllBut
<1>10. /\ LiveLow(g) = LiveLow(h) /\ g.low[l] = r
       /\ \A k \in LiveLow(h) : k # l => g.low[k] = h.low[k]
  <2>1. h.low \in [LowNodes -> LowRec \cup {DeadLow}] /\ g.low = [h.low EXCEPT ![l] = r]
        /\ r.dead = FALSE /\ l \in LowNodes /\ ~ h.low[l].dead
    BY <1>1, <1>8, <1>9, <1>n, HeapFields DEF LiveLow
  <2>2. g.low[l] = r /\ \A k \in LowNodes : k # l => g.low[k] = h.low[k] BY <2>1
  <2> QED BY <2>1, <2>2 DEF LiveLow
<1>11. LiveNodes(g) = LiveNodes(h) /\ g.node = h.node BY <1>6, <1>8 DEF LiveNodes
<1> QED BY <1>3, <1>8, <1>9, <1>10, <1>11 DEF Alike

\* What a visit does for the invariant.
VisitedFrom(h, g) ==
  /\ Sane(g) /\ g.gamebegin = h.gamebegin
  /\ (\A path, line, head : HeadOf(h, path, line, head) => HeadOf(g, path, line, head))
  /\ (\A path, line :
        HeadOf(h, path, line, current_head_) /\ OwnLine(h, path, line, current_head_)
          => OwnLine(g, path, line, current_head_))

\* A heap that is alike can be what a visit makes of one.
LEMMA AlikeVisited ==
  ASSUME NEW h, Sane(h), NEW g, Alike(h, g)
  PROVE  VisitedFrom(h, g)
<1>1. Sane(g) /\ Tree(g) /\ (\A l : Refs(g, l) = Refs(h, l)) BY AlikeSane DEF Sane
<1>2. /\ g.gamebegin = h.gamebegin /\ LiveNodes(g) = LiveNodes(h) /\ LiveLow(g) = LiveLow(h)
      /\ (\A n \in LiveNodes(h) : g.node[n].low = h.node[n].low)
      /\ (\A l \in LiveLow(h) : g.low[l].is_tt = h.low[l].is_tt)
  BY DEF Alike
<1>3. ASSUME NEW path, NEW line, NEW head, HeadOf(h, path, line, head)
      PROVE  HeadOf(g, path, line, head)
  <2>1. line \in Seq(Moves) /\ Legal(line) /\ Line(h, path, line, head) BY <1>3 DEF HeadOf
  <2>2. Len(line) \in Nat BY <2>1
  <2>3. Line(g, path, line, head) BY <2>1, <2>2, AlikeLine
  <2> QED BY <1>1, <2>1, <2>3 DEF HeadOf
<1>4. ASSUME NEW path, NEW line, HeadOf(h, path, line, current_head_),
             OwnLine(h, path, line, current_head_)
      PROVE  OwnLine(g, path, line, current_head_)
  <2>1. line \in Seq(Moves) /\ Line(h, path, line, current_head_) /\ Len(line) \in Nat
    BY <1>4 DEF HeadOf
  <2>2. \A i \in 1..Len(line) : path[i - 1] \in LiveNodes(h)
    <3>1. \A i \in 1..Len(line) : i - 1 \in 0..Len(line) BY <2>1
    <3> QED BY <2>1, <3>1, LineNodes
  <2>3. \A i \in 1..Len(line) : LineLow(g, path, i) = LineLow(h, path, i)
    BY <1>2, <2>2 DEF LineLow
  <2> QED BY <1>1, <1>2, <1>4, <2>3 DEF OwnLine
<1> QED BY <1>1, <1>2, <1>3, <1>4 DEF VisitedFrom

\* A low node l of position p is there for n.
Supplied(h, k, n, l, p) ==
  /\ Sane(k) /\ LinesKept(h, k) /\ k.node = h.node /\ k.gamebegin = h.gamebegin
  /\ LiveNodes(k) = LiveNodes(h) /\ LiveLow(h) \subseteq LiveLow(k)
  /\ l \in LiveLow(k) /\ k.low[l].hash = p /\ CanLead(k, n, p)
  /\ (k.low[l].is_tt \/ (n = current_head_ /\ Refs(k, l) = {}))
  /\ (\A x \in LiveLow(k) : x # l /\ ~ k.low[x].is_tt => x \in LiveLow(h) /\ ~ h.low[x].is_tt)
  /\ (\A x : Refs(k, x) = Refs(h, x))

\* The node is given the low node.
LEMMA SuppliedVisited ==
  ASSUME NEW h, Sane(h), NEW n \in LiveNodes(h), h.node[n].low = None, NEW p, NEW l, NEW k,
         Supplied(h, k, n, l, p), NEW g, g = SetLowNode(k, n, l)
  PROVE  VisitedFrom(h, g) /\ n \in LiveNodes(g) /\ l \in LiveLow(g)
<1>k. /\ Sane(k) /\ LinesKept(h, k) /\ k.node = h.node /\ k.gamebegin = h.gamebegin
      /\ LiveNodes(k) = LiveNodes(h) /\ LiveLow(h) \subseteq LiveLow(k)
      /\ l \in LiveLow(k) /\ k.low[l].hash = p /\ CanLead(k, n, p)
      /\ (k.low[l].is_tt \/ (n = current_head_ /\ Refs(k, l) = {}))
      /\ (\A x \in LiveLow(k) : x # l /\ ~ k.low[x].is_tt => x \in LiveLow(h) /\ ~ h.low[x].is_tt)
      /\ (\A x : Refs(k, x) = Refs(h, x))
  BY DEF Supplied
<1>1. Tree(k) /\ n \in LiveNodes(k) /\ k.node[n].low = None BY <1>k DEF Sane
<1>2. Relinked(k, g, n, l) BY <1>1, <1>k, SetLowNodeIs
<1>3. Sane(g) BY <1>1, <1>2, <1>k, RelinkedSane
<1>4. /\ g.gamebegin = k.gamebegin /\ LiveNodes(g) = LiveNodes(k) /\ LiveLow(g) = LiveLow(k)
      /\ (\A x \in LiveNodes(k) : x # n => g.node[x].low = k.node[x].low)
      /\ (\A x \in LiveLow(k) : SameLow(k, g, x))
  BY <1>2 DEF Relinked
<1>5. ASSUME NEW path, NEW line, NEW head, HeadOf(h, path, line, head)
      PROVE  /\ HeadOf(g, path, line, head)
             /\ \A i \in 1..Len(line) : LineLow(g, path, i) = LineLow(h, path, i)
  <2>1. line \in Seq(Moves) /\ Legal(line) /\ Line(h, path, line, head) /\ Len(line) \in Nat
    BY <1>5 DEF HeadOf
  <2>2. Line(k, path, line, head) BY <1>k, <2>1 DEF LinesKept
  <2>3. HeadOf(k, path, line, head) BY <1>1, <2>1, <2>2 DEF HeadOf
  <2>4. \A i \in 1..Len(line) : path[i - 1] # n BY <1>1, <2>3, LowlessOffLine
  <2>5. Line(g, path, line, head) BY <1>2, <2>3, <2>4, LineRelinked
  <2>6. HeadOf(g, path, line, head) BY <1>3, <2>1, <2>5 DEF HeadOf, Sane
  <2>7. \A i \in 1..Len(line) : path[i - 1] \in LiveNodes(k)
    <3>1. \A i \in 1..Len(line) : i - 1 \in 0..Len(line) BY <2>1
    <3> QED BY <2>1, <2>2, <3>1, LineNodes
  <2>8. \A i \in 1..Len(line) : LineLow(g, path, i) = LineLow(h, path, i)
    BY <1>4, <1>k, <2>4, <2>7 DEF LineLow
  <2> QED BY <2>6, <2>8
<1>6. ASSUME NEW path, NEW line, HeadOf(h, path, line, current_head_),
             OwnLine(h, path, line, current_head_)
      PROVE  OwnLine(g, path, line, current_head_)
  <2>1. ASSUME NEW x \in LiveLow(g), ~ g.low[x].is_tt
        PROVE  \/ Refs(g, x) \subseteq {current_head_}
               \/ \E i \in 1..Len(line) : LineLow(g, path, i) = x
    <3>1. x \in LiveLow(k) /\ ~ k.low[x].is_tt BY <1>4, <2>1 DEF SameLow
    <3>2. CASE x = l
      <4>1. n = current_head_ /\ Refs(k, l) = {} BY <1>k, <3>1, <3>2
      <4>2. Refs(g, x) = Refs(k, x) \cup {n} BY <1>1, <1>2, <3>2, RelinkedRefs
      <4> QED BY <3>2, <4>1, <4>2
    <3>3. CASE x # l
      <4>1. x \in LiveLow(h) /\ ~ h.low[x].is_tt BY <1>k, <3>1, <3>3
      <4>2. Refs(g, x) \subseteq Refs(h, x)
        <5>1. Refs(g, x) = Refs(k, x) \ {n} BY <1>1, <1>2, <3>3, RelinkedRefs
        <5> QED BY <1>k, <5>1
      <4>3. \/ Refs(h, x) \subseteq {current_head_}
            \/ \E i \in 1..Len(line) : LineLow(h, path, i) = x
        BY <1>6, <4>1 DEF OwnLine
      <4>4. \A i \in 1..Len(line) : LineLow(g, path, i) = LineLow(h, path, i) BY <1>5, <1>6
      <4> QED BY <4>2, <4>3, <4>4
    <3> QED BY <3>2, <3>3
  <2> QED BY <2>1 DEF OwnLine
<1>7. \A path, line, head : HeadOf(h, path, line, head) => HeadOf(g, path, line, head)
  BY <1>5
<1>8. VisitedFrom(h, g) BY <1>3, <1>4, <1>k, <1>6, <1>7 DEF VisitedFrom
<1> QED BY <1>1, <1>4, <1>8, <1>k

\* What one visit keeps, the next one keeps too.
LEMMA VisitedTrans ==
  ASSUME NEW f, NEW g, NEW h, VisitedFrom(f, g), VisitedFrom(g, h)
  PROVE  VisitedFrom(f, h)
<1>1. Sane(h) /\ h.gamebegin = f.gamebegin BY DEF VisitedFrom
<1>2. \A path, line, head : HeadOf(f, path, line, head) => HeadOf(h, path, line, head)
  BY DEF VisitedFrom
<1>3. ASSUME NEW path, NEW line, HeadOf(f, path, line, current_head_),
             OwnLine(f, path, line, current_head_)
      PROVE  OwnLine(h, path, line, current_head_)
  <2>1. HeadOf(g, path, line, current_head_) /\ OwnLine(g, path, line, current_head_)
    BY <1>3 DEF VisitedFrom
  <2> QED BY <2>1 DEF VisitedFrom
<1> QED BY <1>1, <1>2, <1>3 DEF VisitedFrom

\* The bound on low nodes leaves an address, and a second one for a noisy root.
LEMMA RoomIs ==
  ASSUME NEW h, RoomForLow(h)
  PROVE  /\ LiveLow(h) # LowNodes
         /\ mode.noise => \A l \in LowNodes \ LiveLow(h) : LiveLow(h) \cup {l} # LowNodes
<1>1. LiveLow(h) \subseteq LowNodes BY DEF LiveLow
<1>2. IsFiniteSet(LiveLow(h)) BY <1>1, Addresses, FS_Subset
<1>3. Cardinality(LiveLow(h)) \in Nat BY <1>2, FS_CardinalityType
<1>4. SearchLowNodes \in Nat /\ MaxLowNodes \in Nat /\ SearchLowNodes <= MaxLowNodes
  BY BoundsAssumption
<1>5. Cardinality(LiveLow(h)) + 1 <= MaxLowNodes BY <1>3, <1>4 DEF RoomForLow
<1>6. LiveLow(h) # LowNodes BY <1>3, <1>4, <1>5, Addresses
<1>7. ASSUME mode.noise, NEW l \in LowNodes \ LiveLow(h) PROVE LiveLow(h) \cup {l} # LowNodes
  <2>1. Cardinality(LiveLow(h)) + 2 <= MaxLowNodes BY <1>3, <1>4, <1>7 DEF RoomForLow
  <2>2. Cardinality(LiveLow(h) \cup {l}) = Cardinality(LiveLow(h)) + 1
    BY <1>2, <1>7, FS_AddElement
  <2> DEFINE c == Cardinality(LiveLow(h) \cup {l})
             d == Cardinality(LowNodes)
  <2>3. d = MaxLowNodes /\ c + 1 <= MaxLowNodes /\ c \in Nat BY <1>3, <2>1, <2>2, Addresses
  <2> HIDE DEF c, d
  <2>4. c # d BY <1>4, <2>3
  <2> QED BY <2>4, Zenon DEF c, d
<1> QED BY <1>6, <1>7

\* The low node of p in the table, which may be new.
Provided(h, g, p) ==
  /\ Sane(g) /\ LinesKept(h, g) /\ g.node = h.node /\ g.gamebegin = h.gamebegin
  /\ LiveNodes(g) = LiveNodes(h) /\ LiveLow(h) \subseteq LiveLow(g)
  /\ g.tt[p] \in LiveLow(g) /\ g.low[g.tt[p]].hash = p /\ g.low[g.tt[p]].is_tt
  /\ (LiveLow(g) = LiveLow(h) \/ LiveLow(g) = LiveLow(h) \cup {FreeLow(h)})
  /\ (\A x \in LiveLow(h) : g.low[x] = h.low[x])
  /\ (\A x \in LiveLow(g) \ LiveLow(h) : g.low[x].children = {} /\ g.low[x].is_tt)
  /\ (\A x : Refs(g, x) = Refs(h, x))

\* Without buckets the table makes complete low nodes of its own.
LEMMA TTGetOrCreateIs ==
  ASSUME NEW h, Sane(h), NEW p \in Positions, ~ mode.bucketing, LiveLow(h) # LowNodes,
         NEW g, g = TTGetOrCreate(h, p)
  PROVE  Provided(h, g, p)
<1>1. CASE h.tt[p] # None
  <2>1. g = h BY <1>1 DEF TTGetOrCreate
  <2>2. h.tt[p] \in LiveLow(h) /\ h.low[h.tt[p]].hash = p /\ h.low[h.tt[p]].is_tt
    BY <1>1 DEF Sane, Table
  <2>3. LinesKept(h, h) BY PrunedSame
  <2> QED BY <2>1, <2>2, <2>3 DEF Provided
<1>2. CASE h.tt[p] = None
  <2> DEFINE l == FreeLow(h)
  <2>1. g = TabledLow(h, l, p)
    <3>1. ~ (mode.bucketing /\ Twins(h, p) # {}) OBVIOUS
    <3> QED BY <1>2, <3>1 DEF TTGetOrCreate, TabledLow
  <2>2. l \in LowNodes /\ l \notin LiveLow(h) /\ l = FreeLow(h) BY FreeLowIs
  <2> HIDE DEF l
  <2>3. TTAdded(h, g, l, p) BY <1>2, <2>1, <2>2, TTAddIs
  <2> QED BY <2>2, <2>3 DEF Provided, TTAdded
<1> QED BY <1>1, <1>2

\* A low node of the table is there for n.
LEMMA ProvidedSupplied ==
  ASSUME NEW h, NEW g, NEW p, Provided(h, g, p), NEW n, CanLead(h, n, p)
  PROVE  Supplied(h, g, n, g.tt[p], p)
<1>1. /\ Sane(g) /\ LinesKept(h, g) /\ g.node = h.node /\ g.gamebegin = h.gamebegin
      /\ LiveNodes(g) = LiveNodes(h) /\ LiveLow(h) \subseteq LiveLow(g)
      /\ g.tt[p] \in LiveLow(g) /\ g.low[g.tt[p]].hash = p /\ g.low[g.tt[p]].is_tt
      /\ (\A x \in LiveLow(h) : g.low[x] = h.low[x])
      /\ (\A x \in LiveLow(g) \ LiveLow(h) : g.low[x].children = {} /\ g.low[x].is_tt)
      /\ (\A x : Refs(g, x) = Refs(h, x))
  BY DEF Provided
<1>2. CanLead(g, n, p) BY <1>1 DEF CanLead
<1> QED BY <1>1, <1>2 DEF Supplied

\* A copy for the root, outside the table, is there for the root.
LEMMA CloneSupplied ==
  ASSUME NEW h, NEW g, NEW p \in Positions, Provided(h, g, p), CanLead(h, current_head_, p),
         NEW l \in LowNodes, l \notin LiveLow(g), NEW k, k = NonTTAddClone(g, l, p)
  PROVE  Supplied(h, k, current_head_, l, p)
<1>1. /\ Sane(g) /\ LinesKept(h, g) /\ g.node = h.node /\ g.gamebegin = h.gamebegin
      /\ LiveNodes(g) = LiveNodes(h) /\ LiveLow(h) \subseteq LiveLow(g)
      /\ (\A x \in LiveLow(h) : g.low[x] = h.low[x])
      /\ (\A x \in LiveLow(g) \ LiveLow(h) : g.low[x].children = {} /\ g.low[x].is_tt)
      /\ (\A x : Refs(g, x) = Refs(h, x))
  BY DEF Provided
<1> DEFINE moves == DOMAIN Succ[p]
           b == FALSE
<1>2. moves \subseteq DOMAIN Succ[p] /\ k = NonTTAdd(g, l, p, moves) BY DEF NonTTAddClone
<1>b. b = FALSE OBVIOUS
<1> HIDE DEF moves
<1>3. Grown(g, k, l, p, moves, b) BY <1>1, <1>2, NonTTAddIs
<1> HIDE DEF b
<1>4. /\ Sane(k) /\ LinesKept(g, k) /\ Added(g, k, l, p, moves, b)
      /\ Refs(k, l) = {} /\ \A x : Refs(k, x) = Refs(g, x)
  BY <1>3 DEF Grown
<1>5. /\ k.node = g.node /\ k.gamebegin = g.gamebegin
      /\ LiveNodes(k) = LiveNodes(g) /\ LiveLow(k) = LiveLow(g) \cup {l}
      /\ (\A x \in LiveLow(g) : k.low[x] = g.low[x])
      /\ k.low[l].hash = p /\ k.low[l].children = {}
  BY <1>4 DEF Added
<1>6. LinesKept(h, k) BY <1>1, <1>4 DEF LinesKept
<1>7. CanLead(k, current_head_, p)
  <2>1. current_head_ = k.gamebegin => p = Start BY <1>1, <1>5 DEF CanLead
  <2>2. ASSUME NEW x \in LiveLow(k), current_head_ \in k.low[x].children
        PROVE  p = Succ[k.low[x].hash][k.node[current_head_].move]
    <3>1. x \in LiveLow(h) BY <1>1, <1>5, <2>2
    <3>2. k.low[x] = h.low[x] BY <1>1, <1>5, <3>1
    <3> QED BY <1>1, <1>5, <2>2, <3>1, <3>2 DEF CanLead
  <2> QED BY <2>1, <2>2 DEF CanLead
<1>8. ASSUME NEW x \in LiveLow(k), x # l, ~ k.low[x].is_tt
      PROVE  x \in LiveLow(h) /\ ~ h.low[x].is_tt
  <2>1. x \in LiveLow(g) /\ k.low[x] = g.low[x] BY <1>5, <1>8
  <2>2. x \in LiveLow(h) BY <1>1, <1>8, <2>1
  <2> QED BY <1>1, <1>8, <2>1, <2>2
<1>9. /\ k.node = h.node /\ k.gamebegin = h.gamebegin /\ LiveNodes(k) = LiveNodes(h)
      /\ LiveLow(h) \subseteq LiveLow(k) /\ l \in LiveLow(k)
  BY <1>1, <1>5
<1>10. \A x : Refs(k, x) = Refs(h, x) BY <1>1, <1>4
<1> QED BY <1>4, <1>5, <1>6, <1>7, <1>8, <1>9, <1>10 DEF Supplied

\* The flags that a visit sets.
BothVisited(h, n, l) == [h EXCEPT !.node[n].visited = TRUE, !.low[l].visited = TRUE]

\* A visit that only counts can.
LEMMA BothVisitedIs ==
  ASSUME NEW h, Sane(h), NEW n \in LiveNodes(h), NEW l \in LiveLow(h)
  PROVE  VisitedFrom(h, BothVisited(h, n, l))
<1> DEFINE b == TRUE
           e == [h EXCEPT !.node[n].visited = b]
           g == [e EXCEPT !.low[l].visited = b]
<1>1. g = BothVisited(h, n, l) BY DEF BothVisited
<1>b. b \in BOOLEAN OBVIOUS
<1>e. e = [h EXCEPT !.node[n].visited = b] OBVIOUS
<1>g. g = [e EXCEPT !.low[l].visited = b] OBVIOUS
<1>h. h \in Heap BY DEF Sane, Tree
<1> HIDE DEF b, e, g
<1>2. Alike(h, e) BY <1>b, <1>e, <1>h, VisitedAlike
<1>3. e \in Heap /\ l \in LiveLow(e) BY <1>2 DEF Alike
<1>4. Alike(e, g) BY <1>b, <1>g, <1>3, LowVisitedAlike
<1>5. Alike(h, g) BY <1>2, <1>4, AlikeTrans
<1>6. VisitedFrom(h, g) BY <1>5, AlikeVisited
<1> QED BY <1>1, <1>6

\* ExtendNode keeps the graph sane and the line of the game in it.
LEMMA ExtendNodeIs ==
  ASSUME NEW h, Sane(h), NEW n \in LiveNodes(h), NEW p \in Positions, CanLead(h, n, p),
         ~ mode.bucketing, RoomForLow(h), NEW g, g = ExtendNode(h, n, p)
  PROVE  VisitedFrom(h, g)
<1>h. h \in Heap /\ h.node[n].low \in LiveLow(h) \cup {None} BY DEF Sane, Tree
<1>1. CASE h.node[n].low # None
  <2> DEFINE l == h.node[n].low
  <2>1. l \in LiveLow(h) BY <1>1, <1>h
  <2>2. g = BothVisited(h, n, l) BY <1>1 DEF ExtendNode, BothVisited
  <2> HIDE DEF l
  <2> QED BY <2>1, <2>2, BothVisitedIs
<1>2. CASE h.node[n].low = None /\ DOMAIN Succ[p] = {}
  <2> DEFINE b == TRUE
  <2>1. g = [h EXCEPT !.node[n].visited = b] BY <1>2 DEF ExtendNode
  <2>2. b \in BOOLEAN OBVIOUS
  <2> HIDE DEF b
  <2>3. Alike(h, g) BY <1>h, <2>1, <2>2, VisitedAlike
  <2> QED BY <2>3, AlikeVisited
<1>3. CASE h.node[n].low = None /\ DOMAIN Succ[p] # {}
  <2> DEFINE t == TTGetOrCreate(h, p)
             noisy == mode.noise /\ n = current_head_
             l == IF noisy THEN FreeLow(t) ELSE t.tt[p]
             k == IF noisy THEN NonTTAddClone(t, l, p) ELSE t
             s == SetLowNode(k, n, l)
  <2>g. g = BothVisited(s, n, l) BY <1>3 DEF ExtendNode, BothVisited
  <2>s. s = SetLowNode(k, n, l) OBVIOUS
  <2>l. IF noisy THEN l = FreeLow(t) /\ k = NonTTAddClone(t, l, p) ELSE l = t.tt[p] /\ k = t
    OBVIOUS
  <2>t. t = TTGetOrCreate(h, p) OBVIOUS
  <2>n. noisy => mode.noise /\ n = current_head_ OBVIOUS
  <2> HIDE DEF t, l, k, s, noisy
  <2>1. /\ LiveLow(h) # LowNodes
        /\ mode.noise => \A x \in LowNodes \ LiveLow(h) : LiveLow(h) \cup {x} # LowNodes
    BY RoomIs
  <2>2. Provided(h, t, p) BY <2>1, <2>t, TTGetOrCreateIs
  <2>3. Supplied(h, k, n, l, p)
    <3>1. CASE noisy
      <4>1. l = FreeLow(t) /\ k = NonTTAddClone(t, l, p) /\ mode.noise /\ n = current_head_
        BY <2>l, <2>n, <3>1
      <4>2. LiveLow(t) # LowNodes
        <5>1. LiveLow(t) = LiveLow(h) \/ LiveLow(t) = LiveLow(h) \cup {FreeLow(h)}
          BY <2>2 DEF Provided
        <5>2. FreeLow(h) \in LowNodes \ LiveLow(h) BY <2>1, FreeLowIs
        <5> QED BY <2>1, <4>1, <5>1, <5>2
      <4>3. l \in LowNodes /\ l \notin LiveLow(t) BY <4>1, <4>2, FreeLowIs
      <4>4. CanLead(h, current_head_, p) BY <4>1
      <4>5. Supplied(h, k, current_head_, l, p) BY <2>2, <4>1, <4>3, <4>4, CloneSupplied
      <4> QED BY <4>1, <4>5
    <3>2. CASE ~ noisy BY <2>2, <2>l, <3>2, ProvidedSupplied
    <3> QED BY <3>1, <3>2
  <2>4. VisitedFrom(h, s) /\ n \in LiveNodes(s) /\ l \in LiveLow(s)
    BY <1>3, <2>3, <2>s, SuppliedVisited
  <2>5. VisitedFrom(s, g)
    <3>1. Sane(s) BY <2>4 DEF VisitedFrom
    <3> QED BY <2>4, <2>g, <3>1, BothVisitedIs
  <2> QED BY <2>4, <2>5, VisitedTrans
<1> QED BY <1>1, <1>2, <1>3
-----------------------------------------------------------------------------
(* What a search reaches. *)

ReachTurn(reach, k) ==
  IF k = 0 THEN {current_head_} \cap {n \in LiveNodes(heap) : heap.node[n].visited}
  ELSE LET R == reach[k - 1]
           below == UNION {heap.low[heap.node[n].low].children :
                             n \in {r \in R : heap.node[r].low # None}}
       IN  R \cup {n \in below : heap.node[n].visited}

\* The recursive definition of what a search reaches defines a function.
LEMMA ReachTurnsExist ==
  ASSUME NEW m \in Nat
  PROVE  \E f : f = [i \in 0..m |-> ReachTurn(f, i)]
<1> DEFINE N == {j \in Nat : \E f : f = [i \in 0..j |-> ReachTurn(f, i)]}
<1>1. 0 \in N
  <2> DEFINE f == [i \in 0..0 |-> {current_head_} \cap {n \in LiveNodes(heap) : heap.node[n].visited}]
  <2>1. \A i \in 0..0 :
          ReachTurn(f, i) = {current_head_} \cap {n \in LiveNodes(heap) : heap.node[n].visited}
    BY DEF ReachTurn
  <2>2. f = [i \in 0..0 |-> ReachTurn(f, i)] BY <2>1, Zenon
  <2> QED BY <2>2
<1>2. ASSUME NEW j \in Nat, j \in N PROVE j + 1 \in N
  <2>1. PICK f : f = [i \in 0..j |-> ReachTurn(f, i)] BY <1>2
  <2> DEFINE k == [i \in 0..(j + 1) |-> ReachTurn(f, i)]
  <2>2. ASSUME NEW i \in 0..(j + 1) PROVE ReachTurn(k, i) = ReachTurn(f, i)
    <3>1. CASE i = 0 BY <3>1, Zenon DEF ReachTurn
    <3>2. CASE i # 0
      <4>1. i - 1 \in 0..j /\ i - 1 \in 0..(j + 1) BY <3>2
      <4>2. f[i - 1] = ReachTurn(f, i - 1) BY <2>1, <4>1, Zenon
      <4>3. k[i - 1] = ReachTurn(f, i - 1) BY <4>1
      <4>4. k[i - 1] = f[i - 1] BY <4>2, <4>3, Zenon
      <4> HIDE DEF k
      <4> QED BY <3>2, <4>4, Zenon DEF ReachTurn
    <3> QED BY <3>1, <3>2
  <2>3. k = [i \in 0..(j + 1) |-> ReachTurn(k, i)] BY <2>2, Zenon
  <2> HIDE DEF k
  <2> QED BY <2>3
<1> HIDE DEF N
<1>3. m \in N BY <1>1, <1>2, NatSet
<1> QED BY <1>3 DEF N

\* What a search reaches, move by move.
LEMMA ReachableTurns ==
  /\ Cardinality(Positions) \in Nat
  /\ \A k \in 0 .. Cardinality(Positions) : Reachable[k] = ReachTurn(Reachable, k)
<1> DEFINE m == Cardinality(Positions)
           f == CHOOSE f : f = [i \in 0..m |-> ReachTurn(f, i)]
<1>1. m \in Nat BY GraphAssumption, FS_CardinalityType
<1>2. f = [i \in 0..m |-> ReachTurn(f, i)]
  <2>1. \E k : k = [i \in 0..m |-> ReachTurn(k, i)] BY <1>1, ReachTurnsExist, Zenon
  <2> QED BY <2>1, Zenon
<1>3. Reachable = f BY Zenon DEF Reachable, ReachTurn
<1> HIDE DEF f
<1>4. \A k \in 0..m : f[k] = ReachTurn(f, k) BY <1>2, Zenon
<1> QED BY <1>1, <1>3, <1>4

\* A node that leads to the position of the head, or to a later one.
Below(h, n, p) ==
  /\ n \in LiveNodes(h)
  /\ \E q \in Positions : (q = p \/ Later(p, q)) /\ LeadsTo(h, n, q)

\* A search stays at or below the head.
LEMMA ReachableBelow ==
  ASSUME Sane(heap), NEW path, HeadOf(heap, path, moves_, current_head_),
         NEW n \in Reachable[Cardinality(Positions)]
  PROVE  Below(heap, n, HeadPosition)
<1> DEFINE p == PositionAfter(moves_)
           m == Cardinality(Positions)
           Z == {k \in Nat : k <= m => \A x \in Reachable[k] : Below(heap, x, p)}
<1>t. /\ heap \in Heap
      /\ \A x \in LiveNodes(heap) : heap.node[x].low \in LiveLow(heap) \cup {None}
      /\ \A l \in LiveLow(heap) : Family(heap, l)
  BY DEF Sane, Tree
<1>p. p \in Positions /\ LeadsTo(heap, current_head_, p) /\ current_head_ \in LiveNodes(heap)
  BY LegalPositions, HeadLeads DEF HeadOf
<1>m. m \in Nat /\ \A k \in 0..m : Reachable[k] = ReachTurn(Reachable, k) BY ReachableTurns
<1>q. HeadPosition = p BY DEF HeadPosition
<1> HIDE DEF p, m
<1>1. 0 \in Z
  <2>0. 0 \in 0..m BY <1>m
  <2>1. Reachable[0] \subseteq {current_head_}
    <3>1. Reachable[0] = ReachTurn(Reachable, 0) BY <1>m, <2>0
    <3> QED BY <3>1 DEF ReachTurn
  <2>2. Below(heap, current_head_, p) BY <1>p DEF Below
  <2> QED BY <2>1, <2>2
<1>2. ASSUME NEW k \in Nat, k \in Z PROVE k + 1 \in Z
  <2> SUFFICES ASSUME k + 1 <= m, NEW x \in Reachable[k + 1] PROVE Below(heap, x, p)
    OBVIOUS
  <2>1. k + 1 \in 0..m /\ k + 1 # 0 /\ (k + 1) - 1 = k /\ k <= m BY <1>m
  <2>2. \A y \in Reachable[k] : Below(heap, y, p) BY <1>2, <2>1
  <2>3. \/ x \in Reachable[k]
        \/ \E y \in Reachable[k] :
             heap.node[y].low # None /\ x \in heap.low[heap.node[y].low].children
    <3>1. Reachable[k + 1] = ReachTurn(Reachable, k + 1) BY <1>m, <2>1
    <3>2. x \in ReachTurn(Reachable, k + 1) BY <3>1
    <3> QED BY <2>1, <3>2 DEF ReachTurn
  <2> HIDE DEF Z
  <2>4. CASE x \in Reachable[k] BY <2>2, <2>4
  <2>5. ASSUME NEW y \in Reachable[k], heap.node[y].low # None,
               x \in heap.low[heap.node[y].low].children
        PROVE  Below(heap, x, p)
    <3> DEFINE l == heap.node[y].low
    <3>1. Below(heap, y, p) BY <2>2
    <3>2. y \in LiveNodes(heap) BY <3>1 DEF Below
    <3>3. PICK q \in Positions : (q = p \/ Later(p, q)) /\ LeadsTo(heap, y, q) BY <3>1 DEF Below
    <3>4. l \in LiveLow(heap) /\ heap.low[l].hash = q BY <1>t, <2>5, <3>2, <3>3 DEF LeadsTo
    <3>5. /\ x \in LiveNodes(heap) /\ heap.node[x].move \in DOMAIN Succ[q]
          /\ LeadsTo(heap, x, Succ[q][heap.node[x].move])
      BY <1>t, <2>5, <3>4 DEF Family
    <3> DEFINE r == Succ[q][heap.node[x].move]
    <3>6. r \in Positions /\ Later(q, r) BY <3>5, GraphAssumption, LaterIs
    <3> HIDE DEF r
    <3>7. Later(p, r) BY <1>p, <3>3, <3>6, LaterIs
    <3>8. LeadsTo(heap, x, r) BY <3>5 DEF r
    <3> QED BY <3>5, <3>6, <3>7, <3>8 DEF Below
  <2> QED BY <2>3, <2>4, <2>5
<1> HIDE DEF Z
<1>3. m \in Z BY <1>1, <1>2, <1>m, NatSet
<1>4. m <= m BY <1>m
<1>5. \A x \in Reachable[m] : Below(heap, x, p) BY <1>3, <1>4 DEF Z
<1> QED BY <1>5, <1>q DEF m

\* What lies at or below the head is not of the line that leads to it.
LEMMA BelowOffLine ==
  ASSUME NEW h, Sane(h), NEW path, NEW line, NEW head, HeadOf(h, path, line, head), NEW n,
         Below(h, n, PositionAfter(line)), h.node[n].low # None
  PROVE  \A i \in 1..Len(line) : LineLow(h, path, i) # h.node[n].low
<1>1. /\ line \in Seq(Moves) /\ Legal(line) /\ Len(line) \in Nat
      /\ \A i \in 1..Len(line) : Link(h, path, line, i)
  BY DEF HeadOf, Line
<1> DEFINE p == PositionAfter(line)
<1>2. PICK q \in Positions : (q = p \/ Later(p, q)) /\ LeadsTo(h, n, q) BY DEF Below
<1>3. h.low[h.node[n].low].hash = q BY <1>2 DEF LeadsTo
<1>4. p \in Positions /\ \A i \in 0..Len(line) : At(line, i) \in Positions
  BY <1>1, LegalPositions
<1> HIDE DEF p
<1> SUFFICES ASSUME NEW i \in 1..Len(line), LineLow(h, path, i) = h.node[n].low PROVE FALSE
  OBVIOUS
<1>5. i - 1 \in 0..Len(line) /\ i - 1 # Len(line) BY <1>1
<1>6. h.low[LineLow(h, path, i)].hash = At(line, i - 1) BY <1>1 DEF Link, LineLow, At
<1>7. Later(At(line, i - 1), p) BY <1>1, <1>5, LegalLater DEF p
<1>8. At(line, i - 1) = q BY <1>3, <1>6
<1>9. q \in Positions BY <1>2
<1>10. Later(q, p) BY <1>7, <1>8
<1>11. Later(q, q) BY <1>2, <1>4, <1>9, <1>10, LaterIs
<1> QED BY <1>9, <1>11, LaterIs

\* The child for a legal move leads to the position after the move.
LEMMA ChildLeads ==
  ASSUME NEW h, Tree(h), NEW l \in LiveLow(h), NEW m, NEW c \in ChildFor(h, l, m)
  PROVE  c \in LiveNodes(h) /\ CanLead(h, c, Succ[h.low[l].hash][m])
<1>1. c \in h.low[l].children /\ h.node[c].move = m BY DEF ChildFor
<1>2. c \in LiveNodes(h) /\ c # h.gamebegin BY <1>1 DEF Tree, Family
<1>3. c \in Nodes BY <1>2 DEF LiveNodes
<1>4. \A k \in LiveLow(h) : c \in h.low[k].children => k = l BY <1>1, <1>3 DEF Tree
<1> QED BY <1>1, <1>2, <1>4 DEF CanLead

\* The bound on nodes leaves an address.
LEMMA RoomForOne ==
  ASSUME NEW h, RoomForNode(h)
  PROVE  LiveNodes(h) # Nodes
<1>1. Cardinality(Nodes) = MaxNodes BY Addresses
<1>2. Cardinality(LiveNodes(h)) \in Nat BY RefsFinite, FS_CardinalityType
<1>3. SearchNodes \in Nat /\ MaxNodes \in Nat /\ SearchNodes <= MaxNodes BY BoundsAssumption
<1>4. Cardinality(LiveNodes(h)) < SearchNodes BY DEF RoomForNode
<1> DEFINE c == Cardinality(LiveNodes(h))
           d == Cardinality(Nodes)
<1>5. d = MaxNodes /\ c < SearchNodes /\ c \in Nat BY <1>1, <1>2, <1>4
<1> HIDE DEF c, d
<1>6. c # d BY <1>3, <1>5
<1> QED BY <1>6, Zenon DEF c, d

\* What a search does to the line of the game: nothing.
Searched(h, g, path) ==
  /\ Sane(g) /\ g.gamebegin = h.gamebegin /\ HeadOf(g, path, moves_, current_head_)
  /\ OwnLine(h, path, moves_, current_head_) => OwnLine(g, path, moves_, current_head_)

\* A new child refers to nothing, so nothing new refers to the line.
LEMMA SpawnedOwnLine ==
  ASSUME NEW h, NEW g, NEW l, Spawned(h, g, l), NEW path, NEW line, NEW head,
         HeadOf(h, path, line, head), OwnLine(h, path, line, head)
  PROVE  OwnLine(g, path, line, head)
<1>1. Line(h, path, line, head) /\ Len(line) \in Nat BY DEF HeadOf
<1>2. \A i \in 1..Len(line) : path[i - 1] \in LiveNodes(h)
  <2>1. \A i \in 1..Len(line) : i - 1 \in 0..Len(line) BY <1>1
  <2> QED BY <1>1, <2>1, LineNodes
<1>3. \A i \in 1..Len(line) : LineLow(g, path, i) = LineLow(h, path, i)
  BY <1>2 DEF Spawned, LineLow
<1>4. /\ LiveLow(g) = LiveLow(h)
      /\ (\A k \in LiveLow(h) : g.low[k].is_tt = h.low[k].is_tt /\ Refs(g, k) = Refs(h, k))
  BY DEF Spawned, SameLow
<1> QED BY <1>3, <1>4 DEF OwnLine

\* A search may extend the head, and it may extend what it reaches.
LEMMA VisitIs ==
  ASSUME Sane(heap), NEW path, HeadOf(heap, path, moves_, current_head_), ~ mode.bucketing,
         RoomForLow(heap), NEW n \in Reachable[Cardinality(Positions)],
         NEW l, l = heap.node[n].low, l # None, NEW m \in heap.low[l].edges,
         ChildFor(heap, l, m) # {} \/ RoomForNode(heap), NEW h, h = Spawn(heap, l, m),
         NEW c \in ChildFor(h, l, m), NEW g, g = ExtendNode(h, c, Succ[heap.low[l].hash][m])
  PROVE  Searched(heap, g, path)
<1>1. Below(heap, n, PositionAfter(moves_)) BY ReachableBelow DEF HeadPosition
<1>2. n \in LiveNodes(heap) BY <1>1 DEF Below
<1>3. Tree(heap) /\ heap \in Heap /\ l \in LiveLow(heap) BY <1>2 DEF Sane, Tree
<1>4. heap.low[l].hash \in Positions BY <1>3, LiveFields, Fields
<1>5. m \in DOMAIN Succ[heap.low[l].hash] BY <1>3 DEF Sane, Table
<1>6. ChildFor(heap, l, m) # {} \/ LiveNodes(heap) # Nodes BY RoomForOne
<1>7. Sane(h) /\ Spawned(heap, h, l) BY <1>3, <1>5, <1>6, SpawnIs
<1>8. moves_ \in Seq(Moves) /\ Legal(moves_) /\ Line(heap, path, moves_, current_head_)
      /\ Len(moves_) \in Nat
  <2>1. moves_ \in Seq(Moves) /\ Legal(moves_) /\ Line(heap, path, moves_, current_head_)
    BY DEF HeadOf
  <2>2. Len(moves_) \in Nat BY ONLY <2>1
  <2> QED BY <2>1, <2>2
<1>9. \A i \in 1..Len(moves_) : LineLow(heap, path, i) # l BY <1>1, BelowOffLine
<1>10. Line(h, path, moves_, current_head_) BY <1>3, <1>7, <1>8, <1>9, LineSpawned
<1>11. HeadOf(h, path, moves_, current_head_) BY <1>7, <1>8, <1>10 DEF HeadOf, Sane
<1>12. /\ h.gamebegin = heap.gamebegin /\ LiveLow(h) = LiveLow(heap)
       /\ h.low[l].hash = heap.low[l].hash
  BY <1>3, <1>7 DEF Spawned, SameLow
<1>13. c \in LiveNodes(h) /\ CanLead(h, c, Succ[heap.low[l].hash][m])
  <2>1. Tree(h) /\ l \in LiveLow(h) BY <1>3, <1>7, <1>12 DEF Sane
  <2>2. c \in LiveNodes(h) /\ CanLead(h, c, Succ[h.low[l].hash][m]) BY <2>1, ChildLeads
  <2> QED BY <1>12, <2>2
<1>14. Succ[heap.low[l].hash][m] \in Positions BY <1>4, <1>5, GraphAssumption
<1>15. RoomForLow(h) BY <1>12 DEF RoomForLow
<1> DEFINE p == Succ[heap.low[l].hash][m]
<1>16. p \in Positions /\ CanLead(h, c, p) /\ g = ExtendNode(h, c, p) BY <1>13, <1>14
<1> HIDE DEF p
<1>17. VisitedFrom(h, g) BY <1>7, <1>13, <1>15, <1>16, ExtendNodeIs
<1>18. Sane(g) /\ g.gamebegin = heap.gamebegin /\ HeadOf(g, path, moves_, current_head_)
  BY <1>11, <1>12, <1>17 DEF VisitedFrom
<1>19. ASSUME OwnLine(heap, path, moves_, current_head_)
       PROVE  OwnLine(g, path, moves_, current_head_)
  <2>1. OwnLine(h, path, moves_, current_head_) BY <1>7, <1>19, SpawnedOwnLine
  <2> QED BY <1>11, <1>17, <2>1 DEF VisitedFrom
<1> QED BY <1>18, <1>19 DEF Searched

\* The first visit is to the head.
LEMMA VisitRootIs ==
  ASSUME Sane(heap), NEW path, HeadOf(heap, path, moves_, current_head_), ~ mode.bucketing,
         RoomForLow(heap), NEW g, g = ExtendNode(heap, current_head_, HeadPosition)
  PROVE  Searched(heap, g, path)
<1>1. PositionAfter(moves_) \in Positions BY LegalPositions DEF HeadOf
<1>2. CanLead(heap, current_head_, PositionAfter(moves_)) /\ current_head_ \in LiveNodes(heap)
  BY HeadLeads
<1> DEFINE p == PositionAfter(moves_)
<1>3. p \in Positions /\ CanLead(heap, current_head_, p) /\ g = ExtendNode(heap, current_head_, p)
  BY <1>1, <1>2 DEF HeadPosition
<1> HIDE DEF p
<1>4. VisitedFrom(heap, g) BY <1>2, <1>3, ExtendNodeIs
<1> QED BY <1>4 DEF VisitedFrom, Searched
-----------------------------------------------------------------------------
(* The inductive invariant. *)

\* The options under which every low node in the table says that it is there.
NoBucketing == \A m \in Modes : ~ m.bucketing

\* The head lies on a line that the moves of the game lead along; in self-play
\* nothing but that line and the head refers to a low node outside the table.
Playing(h, line, head) ==
  \E path : /\ HeadOf(h, path, line, head)
            /\ mode.user = "selfplay" => OwnLine(h, path, line, head)

\* A ResetToPosition under way has legal moves left.
Resetting ==
  reset.active =>
    /\ reset = [active |-> reset.active, todo |-> reset.todo, oldHead |-> reset.oldHead,
                seen |-> reset.seen]
    /\ mode.user = "engine" /\ reset.todo \in Seq(Moves) /\ Legal(moves_ \o reset.todo)

IInv ==
  /\ Sane(heap) /\ mode \in Modes /\ Resetting
  /\ Playing(heap, moves_, current_head_)

\* The first of the moves to make is legal, and the others are after it.
LEMMA LegalHead ==
  ASSUME NEW s \in Seq(Moves), NEW t \in Seq(Moves), t # <<>>, Legal(s \o t)
  PROVE  /\ Head(t) \in DOMAIN Succ[PositionAfter(s)] /\ Tail(t) \in Seq(Moves)
         /\ Append(s, Head(t)) \o Tail(t) = s \o t
<1> DEFINE u == s \o t
           k == Len(s) + 1
<1>1. /\ u \in Seq(Moves) /\ Len(u) = Len(s) + Len(t) /\ Len(s) \in Nat /\ Len(t) \in Nat
      /\ Len(t) >= 1 /\ t[1] = Head(t) /\ Tail(t) \in Seq(Moves)
  OBVIOUS
<1>2. k \in 1..Len(u) /\ u[k] = Head(t) BY <1>1
<1>3. SubSeq(u, 1, k - 1) = s
  <2>1. k - 1 = Len(s) /\ Len(s) <= Len(u) BY <1>1
  <2>2. \A i \in 1..Len(s) : u[i] = s[i] BY <1>1
  <2> HIDE DEF u, k
  <2> QED BY <1>1, <2>1, <2>2
<1>4. u[k] \in DOMAIN Succ[PositionAfter(SubSeq(u, 1, k - 1))] BY <1>2 DEF Legal
<1>5. Append(s, Head(t)) \o Tail(t) = s \o t BY <1>1
<1> QED BY <1>1, <1>2, <1>3, <1>4, <1>5

\* Nothing is left of a reset when none is under way.
LEMMA NotResetting == ASSUME reset = NoReset PROVE ~ reset.active
BY DEF NoReset

\* MakeMove keeps the tree sane and the head on the line.
LEMMA MakeMoveIs ==
  ASSUME Sane(heap), Playing(heap, moves_, current_head_),
         NEW m \in DOMAIN Succ[HeadPosition], MakeMove(m), mode' = mode
  PROVE  /\ Sane(heap') /\ moves_' = Append(moves_, m)
         /\ Playing(heap, moves_, current_head_)'
<1>1. PICK path : /\ HeadOf(heap, path, moves_, current_head_)
                  /\ mode.user = "selfplay" => OwnLine(heap, path, moves_, current_head_)
  BY DEF Playing
<1>2. /\ RoomToMove(heap) /\ moves_' = Append(moves_, m)
      /\ heap' = AfterMove(heap, current_head_, PositionAfter(moves_), m)
      /\ current_head_' \in heap'.low[heap'.node[current_head_].low].children
  BY DEF MakeMove, HeadPosition
<1> DEFINE g == heap'
           head == current_head_
           new == current_head_'
<1>3. m \in DOMAIN Succ[PositionAfter(moves_)] BY DEF HeadPosition
<1>4. g = AfterMove(heap, head, PositionAfter(moves_), m)
      /\ new \in g.low[g.node[head].low].children
  BY <1>2
<1>5. HeadOf(heap, path, moves_, head) BY <1>1
<1> HIDE DEF g, head, new
<1>a. \E path2, child : NextOn(heap, g, path, moves_, head, m, path2, child)
  BY <1>2, <1>3, <1>4, <1>5, MoveIs
<1>6. PICK path2, child :
        /\ Sane(g) /\ HeadOf(g, path2, Append(moves_, m), child)
        /\ g.low[g.node[head].low].children = {child}
        /\ OwnLine(heap, path, moves_, head) => OwnLine(g, path2, Append(moves_, m), child)
  BY <1>a DEF NextOn
<1>7. new = child BY <1>4, <1>6
<1>8. \E p : /\ HeadOf(g, p, Append(moves_, m), new)
             /\ mode.user = "selfplay" => OwnLine(g, p, Append(moves_, m), new)
  BY <1>1, <1>6, <1>7 DEF head
<1>9. \E p : /\ HeadOf(heap', p, moves_', current_head_')
             /\ mode'.user = "selfplay" => OwnLine(heap', p, moves_', current_head_')
  BY <1>2, <1>8 DEF g, new
<1>10. Playing(heap, moves_, current_head_)' BY <1>9 DEF Playing
<1> QED BY <1>2, <1>6, <1>10 DEF g

\* A game that has begun is one whose head is gamebegin_node_.
LEMMA FreshPlaying ==
  ASSUME NEW h, Fresh(h)
  PROVE  Sane(h) /\ Playing(h, <<>>, h.gamebegin)
BY FreshIs DEF Playing

\* A game starts sane.
LEMMA InitIInv == Init => IInv
<1> SUFFICES ASSUME Init PROVE IInv
  OBVIOUS
<1>1. /\ Fresh(heap) /\ current_head_ = heap.gamebegin /\ moves_ = <<>> /\ mode \in Modes
      /\ reset = NoReset
  BY DEF Init, Fresh
<1>2. Sane(heap) /\ Playing(heap, <<>>, heap.gamebegin) BY <1>1, FreshPlaying
<1>3. Resetting BY <1>1, NotResetting DEF Resetting
<1> QED BY <1>1, <1>2, <1>3 DEF IInv

-----------------------------------------------------------------------------
(* One step for each action. *)

\* NodeTree::ResetToPosition, up to the first of its moves.
LEMMA ResetToPositionKeeps ==
  ASSUME IInv, NEW line \in Lines, NEW another \in BOOLEAN, ResetToPosition(line, another)
  PROVE  IInv'
<1>i. Sane(heap) /\ mode \in Modes /\ Playing(heap, moves_, current_head_) BY DEF IInv
<1>1. /\ mode.user = "engine" /\ mode' = mode /\ moves_' = <<>>
      /\ current_head_' = heap'.gamebegin
  BY DEF ResetToPosition
<1>2. reset'.active /\ reset'.todo = line
      /\ reset' = [active |-> reset'.active, todo |-> reset'.todo, oldHead |-> reset'.oldHead,
                   seen |-> reset'.seen]
  BY DEF ResetToPosition
<1>3. Sane(heap') /\ \E path : HeadOf(heap', path, <<>>, heap'.gamebegin)
  <2>1. CASE another
    <3>1. heap' = EnsureGameBegin(DeallocateTree(heap)) BY <2>1 DEF ResetToPosition
    <3>2. heap' = EnsureGameBegin(EmptyHeap) BY <1>i, <3>1, DeallocateTreeIs
    <3>3. Fresh(heap') BY <3>2 DEF Fresh
    <3> QED BY <3>3, FreshIs
  <2>2. CASE ~ another
    <3>1. heap' = EnsureGameBegin(heap) BY <2>2 DEF ResetToPosition
    <3>2. heap.gamebegin # None
      <4>1. PICK path : HeadOf(heap, path, moves_, current_head_) BY <1>i DEF Playing
      <4>2. Line(heap, path, moves_, current_head_) /\ Len(moves_) \in Nat BY <4>1 DEF HeadOf
      <4>3. heap.gamebegin \in LiveNodes(heap) BY <4>2, LineNodes
      <4> QED BY <4>3, Addresses DEF LiveNodes
    <3>3. heap' = heap /\ \E path : HeadOf(heap, path, <<>>, heap.gamebegin)
      BY <1>i, <3>1, <3>2, BeginIs
    <3> QED BY <1>i, <3>3
  <2> QED BY <2>1, <2>2
<1>4. Playing(heap, moves_, current_head_)' BY <1>1, <1>3 DEF Playing
<1>5. Resetting'
  <2>1. line \in Seq(Moves) /\ Legal(line) BY GraphAssumption
  <2>2. <<>> \o line = line BY <2>1
  <2> QED BY <1>1, <1>2, <2>1, <2>2 DEF Resetting
<1> QED BY <1>1, <1>i, <1>3, <1>4, <1>5 DEF IInv

\* One MakeMove of ResetToPosition.
LEMMA ResetMoveKeeps ==
  ASSUME IInv, ResetMove
  PROVE  IInv'
<1>i. Sane(heap) /\ mode \in Modes /\ Resetting /\ Playing(heap, moves_, current_head_)
  BY DEF IInv
<1>1. /\ reset.active /\ reset.todo # <<>> /\ MakeMove(Head(reset.todo)) /\ mode' = mode
  BY DEF ResetMove
<1> DEFINE r == reset
           b == r.seen \/ current_head_' = r.oldHead
<1>2. /\ r = [active |-> r.active, todo |-> r.todo, oldHead |-> r.oldHead, seen |-> r.seen]
      /\ mode.user = "engine" /\ r.todo \in Seq(Moves) /\ Legal(moves_ \o r.todo)
  BY <1>i, <1>1 DEF Resetting
<1>3. moves_ \in Seq(Moves) BY <1>i DEF Playing, HeadOf
<1>4. /\ Head(r.todo) \in DOMAIN Succ[PositionAfter(moves_)] /\ Tail(r.todo) \in Seq(Moves)
      /\ Append(moves_, Head(r.todo)) \o Tail(r.todo) = moves_ \o r.todo
  BY <1>1, <1>2, <1>3, LegalHead
<1>5. /\ Sane(heap') /\ moves_' = Append(moves_, Head(r.todo))
      /\ Playing(heap, moves_, current_head_)'
  BY <1>i, <1>1, <1>4, MakeMoveIs DEF HeadPosition
<1>6. reset' = [r EXCEPT !.todo = Tail(r.todo), !.seen = b] BY DEF ResetMove
<1> HIDE DEF r, b
<1>7. reset' = [active |-> r.active, todo |-> Tail(r.todo), oldHead |-> r.oldHead, seen |-> b]
  <2> DEFINE t == Tail(r.todo)
             a == r.active
             d == r.todo
             o == r.oldHead
             z == r.seen
             e == [r EXCEPT !.todo = t]
  <2>1. reset' = [e EXCEPT !.seen = b] BY <1>6
  <2>2. r = [active |-> a, todo |-> d, oldHead |-> o, seen |-> z] BY <1>2
  <2>3. e = [r EXCEPT !.todo = t] OBVIOUS
  <2>4. reset' = [active |-> a, todo |-> t, oldHead |-> o, seen |-> b]
    <3> HIDE DEF t, a, d, o, z, e
    <3>1. e = [active |-> a, todo |-> t, oldHead |-> o, seen |-> z] BY ONLY <2>2, <2>3
    <3> QED BY ONLY <2>1, <3>1
  <2> QED BY <2>4
<1>8. /\ reset'.todo = Tail(r.todo)
      /\ reset' = [active |-> reset'.active, todo |-> reset'.todo, oldHead |-> reset'.oldHead,
                   seen |-> reset'.seen]
  BY <1>7
<1>9. Resetting' BY <1>1, <1>2, <1>4, <1>5, <1>8 DEF Resetting
<1> QED BY <1>i, <1>1, <1>5, <1>9 DEF IInv

\* The end of ResetToPosition: the head is trimmed unless it, or one on the way, was the old.
LEMMA EndResetKeeps ==
  ASSUME IInv, EndReset
  PROVE  IInv'
<1>i. Sane(heap) /\ mode \in Modes /\ Resetting /\ Playing(heap, moves_, current_head_)
  BY DEF IInv
<1>1. /\ reset.active /\ reset' = NoReset /\ mode' = mode /\ moves_' = moves_
      /\ current_head_' = current_head_
  BY DEF EndReset
<1>2. mode.user = "engine" BY <1>i, <1>1 DEF Resetting
<1>3. PICK path : HeadOf(heap, path, moves_, current_head_) BY <1>i DEF Playing
<1> DEFINE h == NonTTMaintenance(heap)
<1>4. Swept(heap, h) BY <1>i, NonTTMaintenanceIs
<1>5. heap' = h \/ heap' = TrimTreeAtHead(h, current_head_) BY DEF EndReset
<1> HIDE DEF h
<1>6. Sane(h) /\ HeadOf(h, path, moves_, current_head_) BY <1>3, <1>4, SweptLine DEF Swept
<1>7. Sane(heap') /\ HeadOf(heap', path, moves_, current_head_)
  <2>1. CASE heap' = h BY <1>6, <2>1
  <2>2. CASE heap' = TrimTreeAtHead(h, current_head_)
    <3>1. Bare(heap', path, moves_, current_head_) BY <1>6, <2>2, TrimTreeIs
    <3> QED BY <3>1 DEF Bare
  <2> QED BY <1>5, <2>1, <2>2
<1>8. Playing(heap, moves_, current_head_)' BY <1>1, <1>2, <1>7 DEF Playing
<1>9. Resetting'
  <2>1. ~ reset'.active BY <1>1 DEF NoReset
  <2> QED BY <2>1 DEF Resetting
<1> QED BY <1>i, <1>1, <1>7, <1>8, <1>9 DEF IInv

\* A search starts: the constructor trims, or clears the table, as its user asks.
LEMMA StartSearchKeeps ==
  ASSUME IInv, StartSearch
  PROVE  IInv'
<1>i. Sane(heap) /\ mode \in Modes /\ Resetting /\ Playing(heap, moves_, current_head_)
  BY DEF IInv
<1>1. /\ reset' = reset /\ mode' = mode /\ moves_' = moves_ /\ current_head_' = current_head_
  BY DEF StartSearch
<1>9. Resetting' BY <1>i, <1>1 DEF Resetting
<1>2. PICK path : /\ HeadOf(heap, path, moves_, current_head_)
                  /\ mode.user = "selfplay" => OwnLine(heap, path, moves_, current_head_)
  BY <1>i DEF Playing
<1>3. CASE mode.user = "selfplay"
  <2> DEFINE h == TrimTreeAtHead(heap, current_head_)
  <2>1. heap' = TTClear(h) BY <1>3 DEF StartSearch
  <2>2. Bare(h, path, moves_, current_head_) /\ LineOwns(h, path, moves_)
    BY <1>i, <1>2, <1>3, TrimTreeIs
  <2> HIDE DEF h
  <2>3. /\ Sane(heap') /\ HeadOf(heap', path, moves_, current_head_)
        /\ OwnLine(heap', path, moves_, current_head_)
    BY <2>1, <2>2, TTClearIs
  <2>4. Playing(heap, moves_, current_head_)' BY <1>1, <2>3 DEF Playing
  <2> QED BY <1>i, <1>1, <1>9, <2>3, <2>4 DEF IInv
<1>4. CASE mode.user # "selfplay"
  <2>1. heap' = heap BY <1>4 DEF StartSearch
  <2>2. Playing(heap, moves_, current_head_)' BY <1>i, <1>1, <2>1 DEF Playing
  <2> QED BY <1>i, <1>1, <1>9, <2>1, <2>2 DEF IInv
<1> QED BY <1>3, <1>4

\* What a search does, for the invariant.
LEMMA SearchedKeeps ==
  ASSUME IInv, NEW path, HeadOf(heap, path, moves_, current_head_),
         mode.user = "selfplay" => OwnLine(heap, path, moves_, current_head_),
         Searched(heap, heap', path),
         reset' = reset, mode' = mode, moves_' = moves_, current_head_' = current_head_
  PROVE  IInv'
<1>1. Sane(heap') /\ Playing(heap', moves_, current_head_) BY DEF Searched, Playing
<1>2. Playing(heap, moves_, current_head_)' BY <1>1 DEF Playing
<1>3. Resetting' BY DEF IInv, Resetting
<1> QED BY <1>1, <1>2, <1>3 DEF IInv

\* The root is extended and visited.
LEMMA VisitRootKeeps ==
  ASSUME IInv, NoBucketing, VisitRoot
  PROVE  IInv'
<1>i. Sane(heap) /\ mode \in Modes /\ Playing(heap, moves_, current_head_) BY DEF IInv
<1>1. /\ reset' = reset /\ mode' = mode /\ moves_' = moves_ /\ current_head_' = current_head_
      /\ RoomForLow(heap) /\ heap' = ExtendNode(heap, current_head_, HeadPosition)
  BY DEF VisitRoot
<1>2. PICK path : /\ HeadOf(heap, path, moves_, current_head_)
                  /\ mode.user = "selfplay" => OwnLine(heap, path, moves_, current_head_)
  BY <1>i DEF Playing
<1>3. ~ mode.bucketing BY <1>i DEF NoBucketing
<1>4. Searched(heap, heap', path) BY <1>i, <1>1, <1>2, <1>3, VisitRootIs
<1> QED BY <1>1, <1>2, <1>4, SearchedKeeps

\* A node below the root is extended and visited.
LEMMA VisitKeeps ==
  ASSUME IInv, NoBucketing, Visit
  PROVE  IInv'
<1>i. Sane(heap) /\ mode \in Modes /\ Playing(heap, moves_, current_head_) BY DEF IInv
<1>1. /\ reset' = reset /\ mode' = mode /\ moves_' = moves_ /\ current_head_' = current_head_
      /\ RoomForLow(heap)
  BY DEF Visit
<1>2. PICK path : /\ HeadOf(heap, path, moves_, current_head_)
                  /\ mode.user = "selfplay" => OwnLine(heap, path, moves_, current_head_)
  BY <1>i DEF Playing
<1>3. ~ mode.bucketing BY <1>i DEF NoBucketing
<1>4. PICK n \in Reachable[Cardinality(Positions)] :
        LET l == heap.node[n].low IN
        \E m \in IF l = None THEN {} ELSE heap.low[l].edges :
          /\ ChildFor(heap, l, m) # {} \/ RoomForNode(heap)
          /\ LET h == Spawn(heap, l, m) IN
             \E c \in ChildFor(h, l, m) :
               /\ ~h.node[c].visited
               /\ heap' = ExtendNode(h, c, Succ[heap.low[l].hash][m])
  BY DEF Visit
<1> DEFINE l == heap.node[n].low
<1>5. PICK m \in IF l = None THEN {} ELSE heap.low[l].edges :
          /\ ChildFor(heap, l, m) # {} \/ RoomForNode(heap)
          /\ \E c \in ChildFor(Spawn(heap, l, m), l, m) :
               heap' = ExtendNode(Spawn(heap, l, m), c, Succ[heap.low[l].hash][m])
  BY <1>4
<1> DEFINE h == Spawn(heap, l, m)
<1>6. PICK c \in ChildFor(h, l, m) : heap' = ExtendNode(h, c, Succ[heap.low[l].hash][m])
  BY <1>5
<1>7. /\ l = heap.node[n].low /\ l # None /\ m \in heap.low[l].edges /\ h = Spawn(heap, l, m)
      /\ (ChildFor(heap, l, m) # {} \/ RoomForNode(heap))
  BY <1>5
<1> HIDE DEF l, h
<1>8. Searched(heap, heap', path) BY <1>i, <1>1, <1>2, <1>3, <1>6, <1>7, VisitIs
<1> QED BY <1>1, <1>2, <1>8, SearchedKeeps

\* Collecting neither breaks the line of the game nor adds a parent to it.
LEMMA CollectedOwnLine ==
  ASSUME NEW h, NEW g, Collected(h, g), NEW path, NEW line, NEW head,
         HeadOf(h, path, line, head)
  PROVE  HeadOf(g, path, line, head) /\ (OwnLine(h, path, line, head) => OwnLine(g, path, line, head))
<1>1. line \in Seq(Moves) /\ Legal(line) /\ Line(h, path, line, head) /\ Len(line) \in Nat
  BY DEF HeadOf
<1>2. Sane(g) /\ Pruned(h, g) /\ Line(g, path, line, head) BY <1>1 DEF Collected, LinesKept
<1>3. HeadOf(g, path, line, head) BY <1>1, <1>2 DEF HeadOf, Sane
<1>4. \A i \in 1..Len(line) : path[i - 1] \in LiveNodes(g)
  <2>1. \A i \in 1..Len(line) : i - 1 \in 0..Len(line) BY <1>1
  <2> QED BY <1>1, <1>2, <2>1, LineNodes
<1>5. \A i \in 1..Len(line) : LineLow(g, path, i) = LineLow(h, path, i)
  BY <1>2, <1>4 DEF Pruned, LineLow
<1>6. ASSUME OwnLine(h, path, line, head) PROVE OwnLine(g, path, line, head)
  <2>1. LiveLow(g) \subseteq LiveLow(h) /\ \A l \in LiveLow(g) : g.low[l].is_tt = h.low[l].is_tt
    BY <1>2 DEF Pruned, SameLow
  <2>2. \A l : Refs(g, l) \subseteq Refs(h, l) BY <1>2, PrunedRefs
  <2> QED BY <1>5, <1>6, <2>1, <2>2 DEF OwnLine
<1> QED BY <1>3, <1>6

\* A search ends, and collects.
LEMMA EndSearchKeeps ==
  ASSUME IInv, EndSearch
  PROVE  IInv'
<1>i. Sane(heap) /\ mode \in Modes /\ Playing(heap, moves_, current_head_) BY DEF IInv
<1>1. /\ reset' = reset /\ mode' = mode /\ moves_' = moves_ /\ current_head_' = current_head_
      /\ heap' = TTMaintenance(heap)
  BY DEF EndSearch
<1>2. PICK path : /\ HeadOf(heap, path, moves_, current_head_)
                  /\ mode.user = "selfplay" => OwnLine(heap, path, moves_, current_head_)
  BY <1>i DEF Playing
<1>3. Collected(heap, heap') BY <1>i, <1>1, TTMaintenanceIs
<1>4. /\ HeadOf(heap', path, moves_, current_head_)
      /\ OwnLine(heap, path, moves_, current_head_) => OwnLine(heap', path, moves_, current_head_)
  BY <1>2, <1>3, CollectedOwnLine
<1>5. Sane(heap') /\ Playing(heap', moves_, current_head_)
  BY <1>2, <1>3, <1>4 DEF Collected, Playing
<1>6. Playing(heap, moves_, current_head_)' BY <1>1, <1>5 DEF Playing
<1>7. Resetting' BY <1>1 DEF IInv, Resetting
<1> QED BY <1>i, <1>1, <1>5, <1>6, <1>7 DEF IInv

\* MakeMove between two searches of a game.
LEMMA PlayMoveKeeps ==
  ASSUME IInv, PlayMove
  PROVE  IInv'
<1>i. Sane(heap) /\ mode \in Modes /\ Resetting /\ Playing(heap, moves_, current_head_)
  BY DEF IInv
<1>1. /\ mode.user = "selfplay" /\ reset' = reset /\ mode' = mode BY DEF PlayMove
<1>2. PICK m \in DOMAIN Succ[HeadPosition] : MakeMove(m) BY DEF PlayMove
<1>3. Sane(heap') /\ Playing(heap, moves_, current_head_)' BY <1>i, <1>1, <1>2, MakeMoveIs
<1>4. ~ reset'.active BY <1>i, <1>1 DEF Resetting
<1>5. Resetting' BY <1>4 DEF Resetting
<1> QED BY <1>i, <1>1, <1>3, <1>5 DEF IInv

\* The tree of the next game.
LEMMA NextGameKeeps ==
  ASSUME IInv, NextGame
  PROVE  IInv'
<1>i. Sane(heap) /\ mode \in Modes /\ Resetting BY DEF IInv
<1>1. /\ mode.user = "selfplay" /\ reset' = reset /\ mode' = mode /\ moves_' = <<>>
      /\ current_head_' = heap'.gamebegin /\ heap' = EnsureGameBegin(DeallocateTree(heap))
  BY DEF NextGame
<1>2. heap' = EnsureGameBegin(EmptyHeap) BY <1>i, <1>1, DeallocateTreeIs
<1>3. Fresh(heap') BY <1>2 DEF Fresh
<1>4. Sane(heap') /\ Playing(heap', <<>>, heap'.gamebegin) BY <1>3, FreshPlaying
<1>5. Playing(heap, moves_, current_head_)' BY <1>1, <1>4 DEF Playing
<1>6. ~ reset'.active BY <1>i, <1>1 DEF Resetting
<1>7. Resetting' BY <1>6 DEF Resetting
<1> QED BY <1>i, <1>1, <1>4, <1>5, <1>7 DEF IInv

\* Every step keeps the invariant.
LEMMA NextIInv ==
  ASSUME NoBucketing, IInv, [Next]_vars
  PROVE  IInv'
<1>1. CASE \E line \in Lines, another \in BOOLEAN : ResetToPosition(line, another)
  BY <1>1, ResetToPositionKeeps
<1>2. CASE ResetMove BY <1>2, ResetMoveKeeps
<1>3. CASE EndReset BY <1>3, EndResetKeeps
<1>4. CASE StartSearch BY <1>4, StartSearchKeeps
<1>5. CASE VisitRoot BY <1>5, VisitRootKeeps
<1>6. CASE Visit BY <1>6, VisitKeeps
<1>7. CASE EndSearch BY <1>7, EndSearchKeeps
<1>8. CASE PlayMove BY <1>8, PlayMoveKeeps
<1>9. CASE NextGame BY <1>9, NextGameKeeps
<1>10. CASE UNCHANGED vars BY <1>10 DEF vars, IInv, Playing, Resetting
<1> QED BY <1>1, <1>2, <1>3, <1>4, <1>5, <1>6, <1>7, <1>8, <1>9, <1>10 DEF Next
-----------------------------------------------------------------------------
(* The properties. *)

\* The inductive invariant of a game without buckets.
THEOREM TreeAlwaysSane ==
  ASSUME NoBucketing PROVE Spec => []IInv
<1>1. Init => IInv BY InitIInv
<1>2. IInv /\ [Next]_vars => IInv' BY NextIInv
<1> QED BY <1>1, <1>2, PTL DEF Spec

\* non_tt_ is as long as there are low nodes outside the table.
LEMMA NonTTCounted ==
  ASSUME NEW h, Sane(h)
  PROVE  Cardinality(LiveLow(h)) = Cardinality(InTable(h)) + Len(h.nonTT)
<1> DEFINE S == h.nonTT
           n == Len(h.nonTT)
           I == InTable(h)
           N == InNonTT(h)
<1>1. S \in Seq(LowNodes) /\ h \in Heap
  <2>1. h \in Heap BY DEF Sane, Tree
  <2> QED BY <2>1, HeapFields
<1>2. n \in Nat /\ DOMAIN S = 1..n BY <1>1
<1>3. \A i, j \in 1..n : S[i] = S[j] => i = j BY <1>2 DEF Sane, NonTT
<1>4. N = {S[i] : i \in 1..n} BY <1>2 DEF InNonTT
<1>5. /\ I = {l \in LiveLow(h) : h.low[l].is_tt} /\ N = {l \in LiveLow(h) : ~ h.low[l].is_tt}
  BY InTableIs
<1>6. LiveLow(h) = I \cup N /\ I \cap N = {} BY <1>5
<1>7. IsFiniteSet(I) /\ IsFiniteSet(N)
  <2>1. I \subseteq LowNodes /\ N \subseteq LowNodes BY <1>5 DEF LiveLow
  <2> QED BY <2>1, Addresses, FS_Subset
<1>l. Len(h.nonTT) = n /\ InTable(h) = I OBVIOUS
<1> HIDE DEF S, n, I, N
<1>8. Cardinality(N) = n
  <2> DEFINE f == [i \in 1..n |-> S[i]]
  <2>1. f \in [1..n -> N] BY <1>4
  <2>2. \A i, j \in 1..n : f[i] = f[j] => i = j BY <1>3
  <2>3. \A l \in N : \E i \in 1..n : f[i] = l BY <1>4
  <2> HIDE DEF f
  <2>4. f \in Bijection(1..n, N) BY <2>1, <2>2, <2>3, Fun_IsBij
  <2>5. IsFiniteSet(1..n) /\ Cardinality(1..n) = n
    <3>1. 1 \in Int /\ n \in Int /\ (n - 1 + 1 = n) /\ (1 > n => n = 0) BY <1>2
    <3>2. IsFiniteSet(1..n) /\ Cardinality(1..n) = IF 1 > n THEN 0 ELSE n - 1 + 1
      BY <3>1, FS_Interval
    <3> QED BY <3>1, <3>2
  <2> QED BY <2>4, <2>5, FS_Bijection DEF ExistsBijection
<1>9. Cardinality(I \cup N) = Cardinality(I) + Cardinality(N) - Cardinality(I \cap N)
  BY <1>7, FS_Union
<1>10. Cardinality(I \cap N) = 0 BY <1>6, FS_EmptySet
<1>11. Cardinality(I) \in Nat BY <1>7, FS_CardinalityType
<1> QED BY <1>2, <1>6, <1>8, <1>9, <1>10, <1>11, <1>l

\* The nodes of a sane graph are owned.
LEMMA OwnedAre ==
  ASSUME Tree(heap), heap.gamebegin \in LiveNodes(heap)
  PROVE  Owned = LiveNodes(heap)
<1>1. \A l \in LiveLow(heap) : heap.low[l].children \subseteq LiveNodes(heap)
  BY DEF Tree, Family
<1>2. \A n \in LiveNodes(heap) \ {heap.gamebegin} : \E l \in LiveLow(heap) : n \in heap.low[l].children
  BY DEF Tree
<1> QED BY <1>1, <1>2 DEF Owned

\* No pointer of the graph dangles, and everything is owned once.
THEOREM NothingEverDangles ==
  ASSUME NoBucketing PROVE Spec => []NoDangling
<1>1. ASSUME IInv PROVE NoDangling
  <2>1. Sane(heap) /\ Tree(heap) BY <1>1 DEF IInv, Sane
  <2>2. PICK path : HeadOf(heap, path, moves_, current_head_) BY <1>1 DEF IInv, Playing
  <2>3. heap.gamebegin \in LiveNodes(heap) /\ current_head_ \in LiveNodes(heap)
    <3>1. Line(heap, path, moves_, current_head_) /\ Len(moves_) \in Nat BY <2>2 DEF HeadOf
    <3> QED BY <3>1, LineNodes
  <2>4. Owned = LiveNodes(heap) BY <2>1, <2>3, OwnedAre
  <2>5. OwnedLow = LiveLow(heap) BY <2>1, InTableIs DEF OwnedLow
  <2>6. \A n \in LiveNodes(heap) : heap.node[n].low \in LiveLow(heap) \cup {None}
    BY <2>1 DEF Tree
  <2>7. \A k, l \in LiveLow(heap) : k # l => heap.low[k].children \cap heap.low[l].children = {}
    <3>1. \A l \in LiveLow(heap) : heap.low[l].children \subseteq Nodes
      BY <2>1 DEF Tree, Family, LiveNodes
    <3>2. \A k, l \in LiveLow(heap), c \in Nodes :
            c \in heap.low[k].children /\ c \in heap.low[l].children => k = l
      BY <2>1 DEF Tree
    <3> QED BY <3>1, <3>2
  <2>8. Cardinality(LiveLow(heap)) = Cardinality(InTable(heap)) + Len(heap.nonTT)
    BY <2>1, NonTTCounted
  <2> QED BY <2>3, <2>4, <2>5, <2>6, <2>7, <2>8 DEF NoDangling
<1> QED BY <1>1, TreeAlwaysSane, PTL

\* num_parents_ counts the nodes that refer to a low node.
THEOREM ParentsAlwaysCounted ==
  ASSUME NoBucketing PROVE Spec => []ParentsCounted
<1>1. ASSUME IInv PROVE ParentsCounted
  <2>1. \A l \in LiveLow(heap) : heap.low[l].parents = Cardinality(Refs(heap, l))
    BY <1>1 DEF IInv, Sane, Tree
  <2> QED BY <2>1 DEF Refs, ParentsCounted
<1> QED BY <1>1, TreeAlwaysSane, PTL

NodeTurn(after, i) ==
  IF i = 0 THEN heap.gamebegin
  ELSE LET l == heap.node[after[i - 1]].low
       IN  CHOOSE n \in heap.low[l].children : TRUE

\* NodeAfter is the path of the line, which is the only one.
LEMMA NodeAfterIs ==
  ASSUME NEW path, HeadOf(heap, path, moves_, current_head_)
  PROVE  \A i \in 0..Len(moves_) : NodeAfter[i] = path[i]
<1> DEFINE m == Len(moves_)
           f == CHOOSE f : f = [i \in 0..m |-> NodeTurn(f, i)]
           Z == {i \in Nat : i <= m => f[i] = path[i]}
<1>1. /\ m \in Nat /\ path \in [0..m -> LiveNodes(heap)] /\ path[0] = heap.gamebegin
      /\ \A i \in 1..m : Link(heap, path, moves_, i)
  BY DEF HeadOf, Line
<1>2. \A i \in 1..m : heap.low[heap.node[path[i - 1]].low].children = {path[i]}
  BY <1>1 DEF Link
<1>n. NodeAfter = f BY Zenon DEF NodeAfter, NodeTurn
<1>f. f = CHOOSE g : g = [i \in 0..m |-> NodeTurn(g, i)] OBVIOUS
<1>m. Len(moves_) = m OBVIOUS
<1> HIDE DEF m, f
<1>3. \A i \in 0..m : path[i] = NodeTurn(path, i)
  <2> SUFFICES ASSUME NEW i \in 0..m PROVE path[i] = NodeTurn(path, i)
    OBVIOUS
  <2>1. CASE i = 0 BY <1>1, <2>1 DEF NodeTurn
  <2>2. CASE i # 0
    <3>1. i \in 1..m BY <1>1, <2>2
    <3>2. heap.low[heap.node[path[i - 1]].low].children = {path[i]} BY <1>2, <3>1
    <3>3. NodeTurn(path, i) = CHOOSE n \in {path[i]} : TRUE BY <2>2, <3>2 DEF NodeTurn
    <3> QED BY <3>3
  <2> QED BY <2>1, <2>2
<1>4. path = [i \in 0..m |-> path[i]] BY <1>1
<1>5. path = [i \in 0..m |-> NodeTurn(path, i)] BY <1>3, <1>4, Zenon
<1>6. f = [i \in 0..m |-> NodeTurn(f, i)] BY <1>5, <1>f, Zenon
<1>7. \A i \in 0..m : f[i] = NodeTurn(f, i) BY <1>6, Zenon
<1>8. 0 \in Z
  <2>1. 0 \in 0..m BY <1>1
  <2>2. f[0] = heap.gamebegin BY <1>7, <2>1 DEF NodeTurn
  <2> QED BY <1>1, <2>2
<1>9. ASSUME NEW i \in Nat, i \in Z PROVE i + 1 \in Z
  <2> SUFFICES ASSUME i + 1 <= m PROVE f[i + 1] = path[i + 1]
    OBVIOUS
  <2>1. i <= m /\ i + 1 \in 0..m /\ i + 1 \in 1..m /\ (i + 1) - 1 = i /\ i + 1 # 0 BY <1>1
  <2>2. f[i] = path[i] BY <1>9, <2>1
  <2> HIDE DEF Z
  <2>3. f[i + 1] = NodeTurn(f, i + 1) BY <1>7, <2>1
  <2>4. heap.low[heap.node[f[i]].low].children = {path[i + 1]} BY <1>2, <2>1, <2>2
  <2>5. NodeTurn(f, i + 1) = CHOOSE n \in {path[i + 1]} : TRUE BY <2>1, <2>4 DEF NodeTurn
  <2> QED BY <2>3, <2>5
<1> HIDE DEF Z
<1>10. Nat \subseteq Z BY <1>8, <1>9, NatSet
<1>11. \A i \in 0..m : f[i] = path[i]
  <2> SUFFICES ASSUME NEW i \in 0..m PROVE f[i] = path[i]
    OBVIOUS
  <2>1. i \in Nat /\ i <= m BY <1>1
  <2> QED BY <1>10, <2>1 DEF Z
<1> QED BY <1>11, <1>m, <1>n

\* The moves of the game lead along the tree to the head, and nowhere else.
THEOREM HeadAlwaysOnLine ==
  ASSUME NoBucketing PROVE Spec => []HeadIsOnLine
<1>1. ASSUME IInv PROVE HeadIsOnLine
  <2>1. PICK path : HeadOf(heap, path, moves_, current_head_) BY <1>1 DEF IInv, Playing
  <2>2. \A i \in 0..Len(moves_) : NodeAfter[i] = path[i] BY <2>1, NodeAfterIs
  <2>3. /\ Len(moves_) \in Nat /\ path[Len(moves_)] = current_head_
        /\ \A i \in 1..Len(moves_) : Link(heap, path, moves_, i)
    BY <2>1 DEF HeadOf, Line
  <2>4. NodeAfter[Len(moves_)] = current_head_
    <3>1. Len(moves_) \in 0..Len(moves_) BY <2>3
    <3> QED BY <2>2, <2>3, <3>1
  <2>5. ASSUME NEW i \in 1..Len(moves_), NEW l, l = heap.node[NodeAfter[i - 1]].low
        PROVE  /\ heap.low[l].hash = PositionAfter(SubSeq(moves_, 1, i - 1))
               /\ {heap.node[n].move : n \in heap.low[l].children} = {moves_[i]}
               /\ Cardinality(heap.low[l].children) = 1
    <3>1. i - 1 \in 0..Len(moves_) BY <2>3
    <3>2. l = heap.node[path[i - 1]].low BY <2>2, <2>5, <3>1
    <3>3. /\ heap.low[l].hash = PositionAfter(SubSeq(moves_, 1, i - 1))
          /\ heap.low[l].children = {path[i]} /\ heap.node[path[i]].move = moves_[i]
      BY <2>3, <3>2 DEF Link
    <3>4. Cardinality(heap.low[l].children) = 1 BY <3>3, FS_Singleton
    <3>5. {heap.node[n].move : n \in heap.low[l].children} = {moves_[i]} BY <3>3
    <3> QED BY <3>3, <3>4, <3>5
  <2> QED BY <2>4, <2>5 DEF HeadIsOnLine
<1> QED BY <1>1, TreeAlwaysSane, PTL

\* The low nodes that MakeMove damaged are not found in the table again.
THEOREM DamagedAlwaysLeft ==
  ASSUME NoBucketing PROVE Spec => []DamagedLeftTable
<1>1. ASSUME IInv PROVE DamagedLeftTable
  <2>1. PICK path : HeadOf(heap, path, moves_, current_head_) BY <1>1 DEF IInv, Playing
  <2>2. \A i \in 0..Len(moves_) : NodeAfter[i] = path[i] BY <2>1, NodeAfterIs
  <2>3. Len(moves_) \in Nat /\ \A i \in 1..Len(moves_) : Link(heap, path, moves_, i)
    BY <2>1 DEF HeadOf, Line
  <2>4. InTable(heap) = {l \in LiveLow(heap) : heap.low[l].is_tt} BY <1>1, InTableIs DEF IInv
  <2>5. ASSUME NEW i \in 1..Len(moves_)
        PROVE  heap.node[NodeAfter[i - 1]].low \notin InTable(heap)
    <3>1. i - 1 \in 0..Len(moves_) BY <2>3
    <3>2. NodeAfter[i - 1] = path[i - 1] BY <2>2, <3>1
    <3>3. ~ heap.low[heap.node[path[i - 1]].low].is_tt BY <2>3 DEF Link
    <3> QED BY <2>4, <3>2, <3>3
  <2> QED BY <2>5 DEF DamagedLeftTable
<1> QED BY <1>1, TreeAlwaysSane, PTL

\* Nothing leaks: however a game went, DeallocateTree (src/src/mcts/node.cc:855)
\* leaves no node, no low node and no entry behind.
THEOREM GamesLeaveNothing ==
  ASSUME NoBucketing PROVE Spec => [](DeallocateTree(heap) = EmptyHeap)
<1>1. IInv => DeallocateTree(heap) = EmptyHeap BY DeallocateTreeIs DEF IInv
<1> QED BY <1>1, TreeAlwaysSane, PTL
=============================================================================
