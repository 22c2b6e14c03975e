------------------------- MODULE SiblingList_proofs -------------------------
(***************************************************************************)
(* Proofs about SiblingList, for any number of threads, edges and          *)
(* addresses.                                                              *)
(*                                                                         *)
(* ListIntact is not inductive: that an exchange puts the new node at its  *)
(* place needs to know where the iterator stands and what it last read     *)
(* (IteratorOK), and that the new node is nobody else's and owns nothing   *)
(* (NewNodeOK).                                                            *)
(***************************************************************************)
EXTENDS SiblingList, TLAPS

\* The iterator stands before its edge, or on the node of its edge; what it
\* last read from the list lies behind the edge.
IteratorOK(t) ==
  /\ node_ptr_[t] \in InList
  /\ pc[t] \in {"seek", "look", "cas", "release"}
       => Rank(node_ptr_[t]) < current_idx_[t]
  /\ pc[t] \in {"at", "test"} /\ node_[t] = NoNode
       => Rank(node_ptr_[t]) < current_idx_[t]
  /\ pc[t] \in {"at", "test"} /\ node_[t] # NoNode
       => /\ node_[t] \in linked /\ index[node_[t]] = current_idx_[t]
          /\ node_ptr_[t] = node_[t]
  /\ pc[t] = "cas" \/ (pc[t] = "test" /\ node_[t] = NoNode)
       => \/ node[t] = NoNode
          \/ node[t] \in linked /\ current_idx_[t] < index[node[t]]

\* The prepared node: private until the exchange, and owner of nothing except
\* while an exchange is tried.
NewNodeOK(t) ==
  /\ pc[t] \in {"idle", "seek", "at"} => new_node[t] = NoNode
  /\ pc[t] \in {"test", "cas", "release"} => new_node[t] # NoNode
  /\ new_node[t] # NoNode => index[new_node[t]] = current_idx_[t]
  /\ pc[t] = "release" => new_node[t] \in linked
  /\ pc[t] # "release" => new_node[t] \notin linked
  /\ pc[t] \in {"look", "test"} /\ new_node[t] # NoNode
       => pointer[new_node[t]] = NoNode
  /\ pc[t] = "cas" => pointer[new_node[t]] = node[t]
  /\ pc[t] = "look" /\ new_node[t] = NoNode
       => \E m \in linked : index[m] = current_idx_[t]

NoSharedNewNode ==
  \A t, u \in Threads : t # u /\ new_node[t] # NoNode => new_node[t] # new_node[u]

IInv ==
  /\ TypeOK /\ LinksInOrder /\ OneNodePerEdge /\ NoSharedNewNode
  /\ \A t \in Threads : IteratorOK(t) /\ NewNodeOK(t)

USE EdgesAssumption, PlacesAssumption

LEMMA RankType == ASSUME TypeOK, NEW p \in Places PROVE Rank(p) \in Int
  BY DEF TypeOK, Rank, Places, Indices

LEMMA InvImpliesIntact == IInv => ListIntact
  BY DEF IInv, ListIntact, IteratorsAlive, IteratorOK

LEMMA InitInv == Init => IInv
<1> SUFFICES ASSUME Init PROVE IInv OBVIOUS
<1>1. TypeOK BY DEF Init, TypeOK, Indices, Places, MaybeNode, Labels
<1> QED BY <1>1 DEF IInv, Init, LinksInOrder, OneNodePerEdge, NoSharedNewNode,
     IteratorOK, NewNodeOK, InList, Places, Rank

\* A thread that the step does not touch keeps its part of the invariant, as
\* long as the step keeps the nodes that are alive, and their indices, and the
\* pointer of the node that the thread has prepared.
LEMMA Untouched ==
  ASSUME IInv, NEW u \in Threads,
         UNCHANGED <<node_ptr_[u], current_idx_[u], node_[u], node[u],
                     new_node[u], pc[u]>>,
         linked \subseteq linked',
         \A n \in linked \cup {new_node[u]} : index'[n] = index[n],
         new_node[u] # NoNode =>
           /\ pointer'[new_node[u]] = pointer[new_node[u]] \/ pc[u] = "release"
           /\ new_node[u] \notin linked' \ linked,
         NoNode \notin linked'
  PROVE  (IteratorOK(u) /\ NewNodeOK(u))'
<1>1. IteratorOK(u) /\ NewNodeOK(u) BY DEF IInv
<1>2. Rank(node_ptr_[u])' = Rank(node_ptr_[u])
  BY <1>1 DEF Rank, IteratorOK, InList
<1>3. IteratorOK(u)'
  BY <1>1, <1>2 DEF IteratorOK, InList
<1>4. NewNodeOK(u)'
  BY <1>1 DEF NewNodeOK
<1> QED BY <1>3, <1>4

\* Steps of t that change no node and no pointer preserve the invariant when
\* they preserve t's own part of it.
LEMMA LocalStep ==
  ASSUME IInv, TypeOK', NEW t \in Threads,
         UNCHANGED <<pointer, index, linked>>,
         \A u \in Threads \ {t} :
           UNCHANGED <<node_ptr_[u], current_idx_[u], node_[u], node[u], pc[u]>>,
         \A u \in Threads : new_node'[u] \in {new_node[u], NoNode},
         \A u \in Threads \ {t} : UNCHANGED new_node[u],
         (IteratorOK(t) /\ NewNodeOK(t))'
  PROVE  IInv'
<1>1. LinksInOrder' /\ OneNodePerEdge'
  BY DEF IInv, LinksInOrder, OneNodePerEdge, InList, Rank
<1>2. NoSharedNewNode' BY DEF IInv, NoSharedNewNode
<1>3. ASSUME NEW u \in Threads \ {t} PROVE (IteratorOK(u) /\ NewNodeOK(u))'
  <2>1. NoNode \notin linked BY DEF IInv, TypeOK
  <2> QED BY <2>1, Untouched
<1> QED BY <1>1, <1>2, <1>3 DEF IInv

LEMMA BeginInv == ASSUME IInv, NEW t \in Threads, Begin(t) PROVE IInv'
<1>1. TypeOK' BY DEF IInv, TypeOK, Begin, Goto, Labels, Indices, Places, MaybeNode
<1>2. (IteratorOK(t) /\ NewNodeOK(t))'
  BY DEF IInv, TypeOK, Begin, Goto, IteratorOK, NewNodeOK, InList, Rank
<1> QED BY <1>1, <1>2, LocalStep DEF IInv, TypeOK, Begin, Goto

LEMMA AdvanceInv == ASSUME IInv, NEW t \in Threads, Advance(t) PROVE IInv'
<1>1. TypeOK' BY DEF IInv, TypeOK, Advance, Goto, Labels, Indices
<1>2. (IteratorOK(t) /\ NewNodeOK(t))'
  BY DEF IInv, TypeOK, Advance, Goto, IteratorOK, NewNodeOK, InList, Rank,
     Indices, Places
<1> QED BY <1>1, <1>2, LocalStep DEF IInv, TypeOK, Advance, Goto

LEMMA DropInv == ASSUME IInv, NEW t \in Threads, Drop(t) PROVE IInv'
<1>1. TypeOK' BY DEF IInv, TypeOK, Drop, Goto, Labels, iterator
<1>2. (IteratorOK(t) /\ NewNodeOK(t))'
  BY DEF IInv, TypeOK, Drop, Goto, iterator, IteratorOK, NewNodeOK, InList, Rank
<1> QED BY <1>1, <1>2, LocalStep DEF IInv, TypeOK, Drop, Goto, iterator

\* What a read of *node_ptr_ can find.
LEMMA ReadFinds ==
  ASSUME IInv, NEW t \in Threads, Rank(node_ptr_[t]) < current_idx_[t],
         NEW n, n = pointer[node_ptr_[t]]
  PROVE  /\ n \in linked \cup {NoNode}
         /\ n # NoNode => index[n] \in Int
         /\ current_idx_[t] \in Int
         /\ \A m \in linked :
              index[m] >= current_idx_[t] => n # NoNode /\ index[n] <= index[m]
<1>1. node_ptr_[t] \in InList /\ node_ptr_[t] \in Places
  BY DEF IInv, IteratorOK, TypeOK
<1>2. Rank(node_ptr_[t]) \in Int BY <1>1, RankType DEF IInv
<1>3. current_idx_[t] \in Int /\ \A m \in linked : index[m] \in Int
  BY DEF IInv, TypeOK, Indices
<1>4. /\ n # NoNode => n \in linked
      /\ \A m \in linked :
           Rank(node_ptr_[t]) < index[m] => n # NoNode /\ index[n] <= index[m]
  BY <1>1 DEF IInv, LinksInOrder
<1>5. \A m \in linked : index[m] >= current_idx_[t] => Rank(node_ptr_[t]) < index[m]
  BY <1>2, <1>3
<1> QED BY <1>3, <1>4, <1>5

LEMMA ActualizeInv == ASSUME IInv, NEW t \in Threads, Actualize(t) PROVE IInv'
<1> DEFINE n == pointer[node_ptr_[t]]
<1>1. /\ IteratorOK(t) /\ NewNodeOK(t) /\ TypeOK
      /\ Rank(node_ptr_[t]) < current_idx_[t]
  BY DEF IInv, Actualize, IteratorOK
<1>2. /\ n \in linked \cup {NoNode} /\ linked \subseteq Nodes
      /\ n # NoNode => index[n] \in Int
      /\ current_idx_[t] \in Int
      /\ \A m \in linked :
            index[m] >= current_idx_[t] => n # NoNode /\ index[n] <= index[m]
  BY <1>1, ReadFinds DEF TypeOK
<1>3. CASE StepOver(t, n)
  <2>1. TypeOK' BY <1>2, <1>3 DEF IInv, TypeOK, StepOver, Behind, Places
  <2>2. IteratorOK(t)'
    BY <1>1, <1>2, <1>3 DEF TypeOK, StepOver, Behind, IteratorOK, InList, Rank, Actualize
  <2>3. NewNodeOK(t)'
    BY <1>1, <1>3 DEF StepOver, NewNodeOK
  <2> QED BY <1>3, <2>1, <2>2, <2>3, LocalStep DEF IInv, TypeOK, StepOver
<1>4. CASE Settle(t, n)
  <2>1. TypeOK'
    BY <1>2, <1>4 DEF IInv, TypeOK, Settle, Goto, AtTarget, Places, MaybeNode, Labels
  <2>2. IteratorOK(t)'
    BY <1>1, <1>2, <1>4 DEF TypeOK, Settle, Goto, Behind, AtTarget, IteratorOK,
       InList, Rank
  <2>3. NewNodeOK(t)'
    BY <1>1, <1>2, <1>4 DEF TypeOK, Settle, Goto, Behind, AtTarget, NewNodeOK,
       Actualize
  <2> QED BY <1>4, <2>1, <2>2, <2>3, LocalStep DEF IInv, TypeOK, Settle, Goto
<1> QED BY <1>3, <1>4 DEF Actualize

LEMMA DiscardInv == ASSUME IInv, NEW t \in Threads, Discard(t) PROVE IInv'
<1>1. OwnedBy(new_node[t]) = {} BY DEF IInv, Discard, NewNodeOK, OwnedBy
<1>2. UNCHANGED linked BY <1>1 DEF Discard
<1>3. TypeOK' BY <1>2 DEF IInv, TypeOK, Discard, Goto, Labels, MaybeNode, iterator
<1>4. (IteratorOK(t) /\ NewNodeOK(t))'
  BY <1>2 DEF IInv, TypeOK, Discard, Goto, iterator, IteratorOK, NewNodeOK, InList, Rank
<1> QED BY <1>2, <1>3, <1>4, LocalStep DEF IInv, TypeOK, Discard, Goto, iterator

LEMMA ReleaseInv == ASSUME IInv, NEW t \in Threads, Release(t) PROVE IInv'
<1>1. TypeOK' BY DEF IInv, TypeOK, Release, Goto, Labels, MaybeNode, iterator
<1>2. (IteratorOK(t) /\ NewNodeOK(t))'
  BY DEF IInv, TypeOK, Release, Goto, iterator, IteratorOK, NewNodeOK, InList, Rank
<1> QED BY <1>1, <1>2, LocalStep DEF IInv, TypeOK, Release, Goto, iterator

\* The list does not see a change of nodes that are not in it.
LEMMA ListKept ==
  ASSUME IInv, UNCHANGED linked,
         \A p \in InList : pointer'[p] = pointer[p],
         \A m \in linked : index'[m] = index[m]
  PROVE  LinksInOrder' /\ OneNodePerEdge'
  BY DEF IInv, LinksInOrder, OneNodePerEdge, InList, Rank

LEMMA SpawnInv == ASSUME IInv, NEW t \in Threads, Spawn(t) PROVE IInv'
<1>1. PICK n \in Nodes \ Live :
        /\ new_node' = [new_node EXCEPT ![t] = n]
        /\ index' = [index EXCEPT ![n] = current_idx_[t]]
        /\ pointer' = [pointer EXCEPT ![n] = NoNode]
  BY DEF Spawn
<1>2. /\ n \notin linked /\ n \in Nodes /\ n # First /\ n # NoNode
      /\ \A u \in Threads : new_node[u] # n
  BY <1>1 DEF Live
<1>3. TypeOK'
  BY <1>1, <1>2 DEF IInv, TypeOK, Spawn, Goto, Labels, MaybeNode, iterator
<1>4. LinksInOrder' /\ OneNodePerEdge'
  <2>1. \A p \in InList : pointer'[p] = pointer[p]
    BY <1>1, <1>2 DEF IInv, TypeOK, InList
  <2>2. \A m \in linked : index'[m] = index[m]
    BY <1>1, <1>2 DEF IInv, TypeOK
  <2> QED BY <2>1, <2>2, ListKept DEF Spawn
<1>5. NoSharedNewNode'
  BY <1>1, <1>2 DEF IInv, TypeOK, NoSharedNewNode
<1>6. (IteratorOK(t) /\ NewNodeOK(t))'
  <2>1. Rank(node_ptr_[t])' = Rank(node_ptr_[t])
    BY <1>1, <1>2 DEF IInv, TypeOK, Spawn, iterator, Rank, IteratorOK, InList
  <2>2. IteratorOK(t)'
    BY <2>1 DEF IInv, TypeOK, Spawn, Goto, iterator, IteratorOK, InList
  <2>3. NewNodeOK(t)'
    BY <1>1, <1>2 DEF IInv, TypeOK, Spawn, Goto, iterator, NewNodeOK, Places
  <2> QED BY <2>2, <2>3
<1>7. ASSUME NEW u \in Threads \ {t} PROVE (IteratorOK(u) /\ NewNodeOK(u))'
  <2>1. \A m \in linked \cup {new_node[u]} : index'[m] = index[m]
    BY <1>1, <1>2 DEF IInv, TypeOK
  <2>2. new_node[u] # NoNode => pointer'[new_node[u]] = pointer[new_node[u]]
    BY <1>1, <1>2 DEF IInv, TypeOK, MaybeNode, Places
  <2>3. UNCHANGED <<node_ptr_[u], current_idx_[u], node_[u], node[u],
                    new_node[u], pc[u]>> /\ UNCHANGED linked
    BY <1>1 DEF IInv, TypeOK, Spawn, Goto, iterator
  <2>4. NoNode \notin linked' BY <2>3 DEF IInv, TypeOK
  <2> QED BY <2>1, <2>2, <2>3, <2>4, Untouched
<1> QED BY <1>3, <1>4, <1>5, <1>6, <1>7 DEF IInv

\* Steps that change only the sibling_ of the node t has prepared.
LEMMA SiblingStep ==
  ASSUME IInv, TypeOK', NEW t \in Threads, NEW n \in MaybeNode,
         pc[t] \in {"test", "cas"},
         pointer' = [pointer EXCEPT ![new_node[t]] = n],
         UNCHANGED <<index, iterator, node, new_node, linked>>,
         \A u \in Threads \ {t} : UNCHANGED pc[u],
         (IteratorOK(t) /\ NewNodeOK(t))'
  PROVE  IInv'
<1>1. new_node[t] \notin linked /\ new_node[t] \in Nodes
  BY DEF IInv, NewNodeOK, TypeOK, MaybeNode
<1>2. LinksInOrder' /\ OneNodePerEdge'
  <2>1. \A p \in InList : pointer'[p] = pointer[p]
    BY <1>1 DEF IInv, TypeOK, InList
  <2> QED BY <2>1, ListKept
<1>3. NoSharedNewNode' BY DEF IInv, NoSharedNewNode
<1>4. ASSUME NEW u \in Threads \ {t} PROVE (IteratorOK(u) /\ NewNodeOK(u))'
  <2>1. new_node[u] # NoNode => new_node[u] # new_node[t]
    BY DEF IInv, NoSharedNewNode
  <2>2. new_node[u] # NoNode => pointer'[new_node[u]] = pointer[new_node[u]]
    BY <2>1 DEF IInv, TypeOK, MaybeNode, Places
  <2>3. NoNode \notin linked' BY DEF IInv, TypeOK
  <2> QED BY <2>2, <2>3, Untouched DEF iterator
<1> QED BY <1>2, <1>3, <1>4 DEF IInv

LEMMA SetSiblingInv == ASSUME IInv, NEW t \in Threads, SetSibling(t) PROVE IInv'
<1>1. new_node[t] \in Nodes /\ new_node[t] \notin linked
  BY DEF IInv, SetSibling, NewNodeOK, TypeOK, MaybeNode
<1>2. TypeOK'
  BY <1>1 DEF IInv, TypeOK, SetSibling, Goto, Labels, MaybeNode, iterator, Places
<1>3. IteratorOK(t)'
  BY <1>1 DEF IInv, TypeOK, SetSibling, Goto, iterator, IteratorOK, InList, Rank
<1>4. NewNodeOK(t)'
  BY <1>1 DEF IInv, TypeOK, SetSibling, Goto, iterator, NewNodeOK, Places
<1> QED
  BY <1>2, <1>3, <1>4, SiblingStep DEF SetSibling, Goto, IInv, TypeOK

LEMMA RetryInv ==
  ASSUME IInv, NEW t \in Threads, pc[t] = "cas", Retry(t) PROVE IInv'
<1>1. new_node[t] \in Nodes /\ new_node[t] \notin linked
  BY DEF IInv, NewNodeOK, TypeOK, MaybeNode
<1>2. TypeOK'
  BY <1>1 DEF IInv, TypeOK, Retry, Goto, Labels, MaybeNode, iterator, Places
<1>3. IteratorOK(t)'
  BY <1>1 DEF IInv, TypeOK, Retry, Goto, iterator, IteratorOK, InList, Rank
<1>4. NewNodeOK(t)'
  BY <1>1 DEF IInv, TypeOK, Retry, Goto, iterator, NewNodeOK, Places
<1> QED
  BY <1>2, <1>3, <1>4, SiblingStep DEF Retry, Goto, IInv, TypeOK, MaybeNode

\* The exchange finds the place between what is before the edge and what is
\* behind it, and nothing has come in between since Actualize read it.
LEMMA ExchangeInv ==
  ASSUME IInv, NEW t \in Threads, pc[t] = "cas", Exchange(t) PROVE IInv'
<1> DEFINE p == node_ptr_[t]  new == new_node[t]  i == current_idx_[t]
<1>1. /\ new \in Nodes /\ new \notin linked /\ new # NoNode /\ new # First
      /\ index[new] = i /\ pointer[new] = node[t]
  BY DEF IInv, NewNodeOK, TypeOK, MaybeNode
<1>2. p \in InList /\ p \in Places /\ Rank(p) < i /\ p # new
  BY <1>1 DEF IInv, IteratorOK, TypeOK, InList
<1>3. /\ \A m \in Nodes : index[m] \in Int
      /\ \A q \in Places : Rank(q) \in Int
      /\ i \in Int /\ linked \subseteq Nodes /\ pc \in [Threads -> Labels]
      /\ TypeOK
  BY RankType DEF IInv, TypeOK, Indices
<1>4. /\ node[t] = NoNode \/ (node[t] \in linked /\ i < index[node[t]])
      /\ node[t] = pointer[p]
  BY DEF IInv, IteratorOK, Exchange
<1>5. /\ pointer' = [pointer EXCEPT ![p] = new]
      /\ linked' = linked \cup {new} /\ InList' = InList \cup {new}
      /\ \A q \in Places : Rank(q)' = Rank(q)
      /\ UNCHANGED <<index, iterator, node, new_node>>
  BY DEF Exchange, InList, Rank
<1>6. TypeOK'
  BY <1>1, <1>2, <1>5 DEF IInv, TypeOK, Exchange, Goto, Labels, MaybeNode, iterator, Places
<1>7. \A m \in linked : Rank(p) < index[m] => node[t] # NoNode /\ index[node[t]] <= index[m]
  BY <1>2, <1>4 DEF IInv, LinksInOrder
<1>8. \A m \in linked : index[m] # i
  BY <1>2, <1>3, <1>4, <1>7
<1>9. OneNodePerEdge'
  BY <1>1, <1>5, <1>8 DEF IInv, OneNodePerEdge
<1>10. LinksInOrder'
  <2> SUFFICES ASSUME NEW q \in InList \cup {new}
               PROVE  /\ pointer'[q] # NoNode
                           => pointer'[q] \in linked \cup {new} /\ Rank(q) < index[pointer'[q]]
                      /\ \A m \in linked \cup {new} : Rank(q) < index[m]
                           => pointer'[q] # NoNode /\ index[pointer'[q]] <= index[m]
    BY <1>1, <1>3, <1>5 DEF LinksInOrder, InList, Places
  <2>1. CASE q = p
    <3>1. pointer'[p] = new BY <1>2, <1>3, <1>5 DEF TypeOK
    <3>2. \A m \in linked : Rank(p) < index[m] => i <= index[m]
      BY <1>3, <1>4, <1>7
    <3> QED BY <1>1, <1>2, <1>3, <2>1, <3>1, <3>2
  <2>2. CASE q = new
    <3>1. pointer'[new] = node[t] /\ Rank(new) = i
      BY <1>1, <1>2, <1>3, <1>5 DEF TypeOK, Rank, Places
    <3>2. \A m \in linked : i < index[m] => node[t] # NoNode /\ index[node[t]] <= index[m]
      BY <1>2, <1>3, <1>7
    <3> QED BY <1>1, <1>3, <1>4, <2>2, <3>1, <3>2
  <2>3. CASE q # p /\ q # new
    <3>1. q \in InList /\ q \in Places BY <1>3, <2>3 DEF InList, Places
    <3>2. pointer'[q] = pointer[q] BY <1>2, <1>3, <1>5, <2>3, <3>1 DEF TypeOK
    <3>3. /\ pointer[q] # NoNode => pointer[q] \in linked /\ Rank(q) < index[pointer[q]]
          /\ \A m \in linked :
               Rank(q) < index[m] => pointer[q] # NoNode /\ index[pointer[q]] <= index[m]
      BY <3>1 DEF IInv, LinksInOrder
    <3>4. ASSUME Rank(q) < i
          PROVE  pointer[q] # NoNode /\ index[pointer[q]] <= i
      <4>1. CASE p \in linked /\ Rank(q) < index[p]
        <5>1. index[p] = Rank(p) BY <1>3, <4>1 DEF Rank
        <5> QED BY <1>2, <1>3, <3>3, <4>1, <5>1
      <4>2. CASE p = First \/ ~(Rank(q) < index[p])
        <5>1. Rank(p) <= Rank(q)
          BY <1>2, <1>3, <3>1, <4>2 DEF Rank, InList, TypeOK, Indices
        <5>2. Rank(p) < Rank(q)
          BY <1>2, <1>3, <2>3, <3>1, <5>1
             DEF IInv, OneNodePerEdge, InList, Rank, TypeOK, Indices
        <5>3. q \in linked /\ Rank(q) = index[q]
          BY <3>1, <5>2, <1>2, <1>3 DEF InList, Rank, TypeOK, Indices
        <5> QED BY <1>3, <1>4, <1>7, <3>4, <5>2, <5>3
      <4> QED BY <1>2, <4>1, <4>2 DEF InList
    <3> QED BY <1>1, <1>3, <3>1, <3>2, <3>3, <3>4
  <2> QED BY <2>1, <2>2, <2>3
<1>11. NoSharedNewNode' BY <1>5 DEF IInv, NoSharedNewNode
<1>12. (IteratorOK(t) /\ NewNodeOK(t))'
  <2>1. pc'[t] = "release" BY <1>3 DEF Exchange, Goto
  <2>2. IteratorOK(t)'
    BY <1>2, <1>5, <2>1 DEF IteratorOK, iterator
  <2>3. NewNodeOK(t)'
    BY <1>1, <1>5, <2>1 DEF NewNodeOK, iterator
  <2> QED BY <2>2, <2>3
<1>13. ASSUME NEW u \in Threads \ {t} PROVE (IteratorOK(u) /\ NewNodeOK(u))'
  <2>1. UNCHANGED pc[u] BY <1>3 DEF Exchange, Goto
  <2>2. new_node[u] # NoNode => new_node[u] # new
    BY DEF IInv, NoSharedNewNode
  <2>3. new_node[u] # NoNode /\ pc[u] # "release" => pointer'[new_node[u]] = pointer[new_node[u]]
    <3>1. new_node[u] # NoNode /\ pc[u] # "release" => new_node[u] # p /\ new_node[u] \in Nodes
      BY <1>2 DEF IInv, NewNodeOK, InList, TypeOK, MaybeNode
    <3> QED BY <1>2, <1>3, <1>5, <3>1 DEF TypeOK, Places
  <2>4. NoNode \notin linked' BY <1>6 DEF TypeOK
  <2> QED BY <1>1, <1>5, <2>1, <2>2, <2>3, <2>4, Untouched DEF iterator
<1> QED BY <1>6, <1>9, <1>10, <1>11, <1>12, <1>13 DEF IInv

LEMMA NextInv == IInv /\ [Next]_vars => IInv'
<1> SUFFICES ASSUME IInv, [Next]_vars PROVE IInv' OBVIOUS
<1>1. CASE UNCHANGED vars
  BY <1>1 DEF vars, iterator, IInv, TypeOK, LinksInOrder, OneNodePerEdge,
     NoSharedNewNode, IteratorOK, NewNodeOK, InList, Rank
<1>2. CASE Next
  <2>1. PICK t \in Threads : Begin(t) \/ Advance(t) \/ Drop(t) \/ Spawn(t) \/ Step(t)
    BY <1>2 DEF Next
  <2> QED
    BY <2>1, BeginInv, AdvanceInv, DropInv, SpawnInv, ActualizeInv, DiscardInv,
       SetSiblingInv, ExchangeInv, RetryInv, ReleaseInv DEF Step, CompareExchange
<1> QED BY <1>1, <1>2

LEMMA InvAlways == Spec => []IInv
  BY InitInv, NextInv, PTL DEF Spec

\* The variables keep their types: no iterator leaves the edges, no pointer
\* leads to something that is not a node.
THEOREM TypeCorrect == Spec => []TypeOK
<1>1. IInv => TypeOK BY DEF IInv
<1> QED BY <1>1, InvAlways, PTL

\* For any number of threads and edges, and however the allocator reuses
\* addresses, insertions that race leave a list that is in order, has one node
\* for an edge and has lost none (GetOrSpawnNode, node.h:886).
THEOREM ListStaysIntact == Spec => []ListIntact
  BY InvImpliesIntact, InvAlways, PTL
-----------------------------------------------------------------------------
(* The list implements the map from edges to nodes. *)

LEMMA ChildIs ==
  ASSUME OneNodePerEdge, NEW n \in linked PROVE ChildOf(index[n]) = n
  BY DEF OneNodePerEdge, ChildOf

LEMMA NoChild ==
  ASSUME NEW i, \A m \in linked : index[m] # i PROVE ChildOf(i) = NoNode
  BY DEF ChildOf

LEMMA SameChildren ==
  ASSUME IInv, UNCHANGED linked, \A m \in linked : index'[m] = index[m]
  PROVE  \A i \in Indices : ChildOf(i)' = ChildOf(i)
<1> SUFFICES ASSUME NEW i \in Indices PROVE ChildOf(i)' = ChildOf(i) OBVIOUS
<1>1. CASE \E n \in linked : index[n] = i
  <2>1. PICK n \in linked : index[n] = i BY <1>1
  <2>2. ChildOf(i) = n BY <2>1, ChildIs DEF IInv
  <2>3. (OneNodePerEdge)' BY DEF IInv, OneNodePerEdge
  <2>4. ChildOf(i)' = n BY <2>1, <2>3 DEF ChildOf, OneNodePerEdge
  <2> QED BY <2>2, <2>4
<1>2. CASE \A n \in linked : index[n] # i
  BY <1>2 DEF ChildOf
<1> QED BY <1>1, <1>2

\* The abstract state.
Asked(t) == IF pc[t] \in Spawning THEN current_idx_[t] ELSE NumEdges
Given(t) == IF pc[t] = "at" THEN node_[t] ELSE NoNode

LEMMA AskedNothing ==
  ASSUME TypeOK, NEW t \in Threads PROVE Asked(t) = NumEdges <=> pc[t] \notin Spawning
  BY DEF TypeOK, Asked, Indices

\* A step of t changes the abstract request and answer of t alone.
LEMMA OnlyOwn ==
  ASSUME TypeOK, NEW t \in Threads,
         \A u \in Threads \ {t} : UNCHANGED <<pc[u], current_idx_[u], node_[u]>>
  PROVE  /\ [u \in Threads |-> Asked(u)]' = [[u \in Threads |-> Asked(u)] EXCEPT ![t] = Asked(t)']
         /\ [u \in Threads |-> Given(u)]' = [[u \in Threads |-> Given(u)] EXCEPT ![t] = Given(t)']
  BY DEF Asked, Given

LEMMA MapInit == Init => Map!Init
  BY DEF Init, Map!Init, Map!Indices, Indices, ChildOf, Spawning

LEMMA MapNext == IInv /\ [Next]_vars => [Map!Next]_Map!vars
<1> SUFFICES ASSUME IInv, [Next]_vars PROVE [Map!Next]_Map!vars OBVIOUS
<1> DEFINE child == [i \in Indices |-> ChildOf(i)]
           asked == [u \in Threads |-> Asked(u)]
           answer == [u \in Threads |-> Given(u)]
<1>1. CASE UNCHANGED vars
  BY <1>1 DEF vars, iterator, Map!vars, ChildOf
<1>2. ASSUME NEW t \in Threads,
             Begin(t) \/ Advance(t) \/ Drop(t) \/ Spawn(t) \/ Step(t)
      PROVE  [Map!Next]_Map!vars
  <2>1. TypeOK /\ IteratorOK(t) /\ NewNodeOK(t) /\ OneNodePerEdge /\ linked \subseteq Nodes
    BY DEF IInv, TypeOK
  <2>2. asked' = [asked EXCEPT ![t] = Asked(t)'] /\ answer' = [answer EXCEPT ![t] = Given(t)']
    <3>1. \A u \in Threads \ {t} : UNCHANGED <<pc[u], current_idx_[u], node_[u]>>
      BY <1>2, <2>1 DEF TypeOK, Begin, Advance, Drop, Spawn, Step, Actualize, StepOver,
         Settle, Discard, SetSibling, CompareExchange, Exchange, Retry, Release, Goto,
         iterator
    <3> QED BY <2>1, <3>1, OnlyOwn
  <2>3. ASSUME UNCHANGED <<linked, index>> PROVE child' = child
    BY <2>3, SameChildren
  <2>4. asked[t] = Asked(t) /\ answer[t] = Given(t) /\ current_idx_[t] \in Indices
    BY <2>1 DEF TypeOK
  <2>5. ASSUME child' = child, Asked(t) = NumEdges, Asked(t)' = NumEdges,
               \/ Given(t)' = NoNode
               \/ \E i \in Indices : Given(t)' = ChildOf(i)
        PROVE  [Map!Next]_Map!vars
    <3>1. asked' = asked BY <2>2, <2>4, <2>5
    <3>2. CASE Given(t)' = NoNode
      BY <2>2, <2>4, <2>5, <3>1, <3>2 DEF Map!Next, Map!Forget, Asked, Given
    <3>3. CASE \E i \in Indices : Given(t)' = ChildOf(i)
      <4>1. PICK i \in Indices : Given(t)' = ChildOf(i) BY <3>3
      <4>2. Map!Look(t, i)
        BY <2>2, <2>4, <2>5, <3>1, <4>1 DEF Map!Look, Asked, Given
      <4> QED BY <4>2 DEF Map!Next, Map!Indices, Indices
    <3> QED BY <2>5, <3>2, <3>3
  <2>6. ASSUME child' = child, Asked(t)' = Asked(t), Given(t)' = Given(t)
        PROVE  [Map!Next]_Map!vars
    <3>1. asked' = asked /\ answer' = answer BY <2>2, <2>4, <2>6
    <3> QED BY <2>6, <3>1 DEF Map!vars, Asked, Given
  <2>7. ASSUME child' = child, Asked(t) \in Indices, Asked(t)' = NumEdges,
               Given(t)' = ChildOf(Asked(t)), ChildOf(Asked(t)) # NoNode
        PROVE  [Map!Next]_Map!vars
    <3>1. Map!Answer(t)
      BY <2>2, <2>4, <2>7 DEF Map!Answer, Map!Indices, Indices, Asked, Given
    <3> QED BY <3>1 DEF Map!Next
  <2>8. CASE Begin(t)
    BY <2>1, <2>3, <2>5, <2>8 DEF Begin, Goto, TypeOK, Asked, Given, Spawning
  <2>9. CASE Advance(t)
    BY <2>1, <2>3, <2>5, <2>9 DEF Advance, Goto, TypeOK, Asked, Given, Spawning
  <2>10. CASE Drop(t)
    BY <2>1, <2>3, <2>5, <2>10 DEF Drop, Goto, TypeOK, Asked, Given, Spawning
  <2>11. CASE Spawn(t)
    <3>1. child' = child
      <4>1. \A m \in linked : index'[m] = index[m]
        BY <2>1, <2>11 DEF Spawn, Live, TypeOK
      <4> QED BY <2>11, <4>1, SameChildren DEF Spawn
    <3>2. /\ Asked(t) = NumEdges /\ Asked(t)' = current_idx_[t]
          /\ Given(t) = NoNode /\ Given(t)' = NoNode
      BY <2>1, <2>11 DEF Spawn, Goto, iterator, TypeOK, Asked, Given, Spawning
    <3>3. answer' = answer BY <2>2, <2>4, <3>2
    <3>4. PICK i \in Indices : i = current_idx_[t] BY <2>4
    <3>5. Map!Ask(t, i)
      BY <2>2, <2>4, <3>1, <3>2, <3>3, <3>4 DEF Map!Ask, Asked, Given
    <3> QED BY <3>5 DEF Map!Next, Map!Indices, Indices
  <2>12. CASE Actualize(t)
    <3> DEFINE n == pointer[node_ptr_[t]]
    <3>1. child' = child BY <2>3, <2>12 DEF Actualize, StepOver, Settle
    <3>2. /\ n \in linked \cup {NoNode}
          /\ n # NoNode => index[n] \in Int
          /\ current_idx_[t] \in Int
          /\ \A m \in linked :
               index[m] >= current_idx_[t] => n # NoNode /\ index[n] <= index[m]
      BY <2>1, <2>12, ReadFinds DEF Actualize, IteratorOK
    <3>3. CASE StepOver(t, n)
      BY <2>6, <2>12, <3>1, <3>3 DEF StepOver, Actualize, Asked, Given
    <3>4. CASE Settle(t, n) /\ pc[t] = "look" /\ new_node[t] # NoNode
      BY <2>1, <2>6, <3>1, <3>4 DEF Settle, Goto, TypeOK, Asked, Given, Spawning
    <3>5. CASE Settle(t, n) /\ AtTarget(t, n) /\ ~(pc[t] = "look" /\ new_node[t] # NoNode)
      <4>1. /\ pc'[t] = "at" /\ node_'[t] = n /\ n # NoNode /\ index[n] = current_idx_[t]
        BY <2>1, <3>5 DEF Settle, Goto, TypeOK, AtTarget
      <4>2. ChildOf(current_idx_[t]) = n BY <2>1, <3>2, <4>1, ChildIs
      <4>3. CASE pc[t] = "seek"
        <5>1. Asked(t) = NumEdges /\ Asked(t)' = NumEdges /\ Given(t)' = n
          BY <2>1, <4>1, <4>3 DEF Asked, Given, Spawning
        <5> QED BY <2>4, <2>5, <3>1, <4>2, <5>1
      <4>4. CASE pc[t] = "look"
        <5>1. Asked(t) = current_idx_[t] /\ Asked(t)' = NumEdges /\ Given(t)' = n
          BY <2>1, <4>1, <4>4 DEF Asked, Given, Spawning
        <5> QED BY <2>4, <2>7, <3>1, <4>1, <4>2, <5>1
      <4> QED BY <2>12, <4>3, <4>4 DEF Actualize
    <3>6. CASE Settle(t, n) /\ ~AtTarget(t, n) /\ ~(pc[t] = "look" /\ new_node[t] # NoNode)
      <4>1. \A m \in linked : index[m] # current_idx_[t]
        BY <2>1, <3>2, <3>6 DEF Settle, Behind, AtTarget, TypeOK, Indices
      <4>2. pc[t] = "seek"
        BY <2>1, <2>12, <3>6, <4>1 DEF NewNodeOK, Actualize
      <4>3. Asked(t) = NumEdges /\ Asked(t)' = NumEdges /\ Given(t)' = NoNode
        BY <2>1, <3>6, <4>2 DEF Settle, Goto, TypeOK, Asked, Given, Spawning
      <4> QED BY <2>5, <3>1, <4>3
    <3> QED BY <2>12, <3>3, <3>4, <3>5, <3>6 DEF Actualize
  <2>13. CASE Discard(t)
    <3>1. UNCHANGED <<linked, index>> BY <2>1, <2>13 DEF Discard, NewNodeOK, OwnedBy
    <3>2. /\ Asked(t) = current_idx_[t] /\ Asked(t)' = NumEdges
          /\ Given(t)' = node_[t] /\ node_[t] # NoNode
      BY <2>1, <2>13 DEF Discard, Goto, iterator, TypeOK, Asked, Given, Spawning
    <3>3. ChildOf(current_idx_[t]) = node_[t]
      BY <2>1, <2>13, ChildIs DEF Discard, IteratorOK
    <3> QED BY <2>3, <2>4, <2>7, <3>1, <3>2, <3>3
  <2>14. CASE SetSibling(t)
    BY <2>1, <2>3, <2>6, <2>14 DEF SetSibling, Goto, iterator, TypeOK, Asked, Given, Spawning
  <2>15. CASE pc[t] = "cas" /\ Retry(t)
    BY <2>1, <2>3, <2>6, <2>15 DEF Retry, Goto, iterator, TypeOK, Asked, Given, Spawning
  <2>16. CASE Release(t)
    BY <2>1, <2>3, <2>6, <2>16 DEF Release, Goto, iterator, TypeOK, Asked, Given, Spawning
  <2>17. CASE pc[t] = "cas" /\ Exchange(t)
    <3> DEFINE new == new_node[t]  at == current_idx_[t]
    <3>1. new \in Nodes /\ new \notin linked /\ new # NoNode /\ index[new] = at
      BY <2>1, <2>17 DEF NewNodeOK, TypeOK, MaybeNode
    <3>2. IInv' BY <2>17, ExchangeInv
    <3>3. linked' = linked \cup {new} /\ index' = index BY <2>17 DEF Exchange
    <3>4. OneNodePerEdge' BY <3>2 DEF IInv
    <3>5. \A m \in linked : index[m] # at BY <3>1, <3>3, <3>4 DEF OneNodePerEdge
    <3>6. ChildOf(at) = NoNode BY <3>5, NoChild
    <3>7. \A i \in Indices : ChildOf(i)' = IF i = at THEN new ELSE ChildOf(i)
      <4> SUFFICES ASSUME NEW i \in Indices
                   PROVE  ChildOf(i)' = IF i = at THEN new ELSE ChildOf(i)
        OBVIOUS
      <4>1. CASE i = at
        <5>1. new \in linked' /\ index'[new] = i BY <3>1, <3>3, <4>1
        <5>2. \A m \in linked' : index'[m] = i => m = new
          BY <3>4, <5>1 DEF OneNodePerEdge
        <5> QED BY <4>1, <5>1, <5>2 DEF ChildOf
      <4>2. CASE i # at /\ \E m \in linked : index[m] = i
        <5>1. PICK m \in linked : index[m] = i BY <4>2
        <5>2. ChildOf(i) = m BY <2>1, <5>1, ChildIs
        <5>3. ChildOf(i)' = m BY <3>3, <3>4, <5>1 DEF ChildOf, OneNodePerEdge
        <5> QED BY <4>2, <5>2, <5>3
      <4>3. CASE i # at /\ \A m \in linked : index[m] # i
        BY <3>1, <3>3, <4>3 DEF ChildOf
      <4> QED BY <4>1, <4>2, <4>3
    <3>8. \A i \in Indices : ChildOf(i) # new
      <4>1. \A i \in Indices : ChildOf(i) \in linked \cup {NoNode}
        BY DEF ChildOf
      <4> QED BY <3>1, <4>1
    <3>9. child' = [child EXCEPT ![at] = new] BY <3>7
    <3>10. Asked(t) = at /\ Asked(t)' = Asked(t) /\ Given(t)' = Given(t)
      BY <2>1, <2>17 DEF Exchange, Goto, iterator, TypeOK, Asked, Given, Spawning
    <3>11. asked' = asked /\ answer' = answer BY <2>2, <3>10
    <3>12. Map!Insert(t, new)
      BY <2>4, <3>6, <3>8, <3>9, <3>10, <3>11 DEF Map!Insert, Map!Indices, Indices, Asked, Given
    <3> QED BY <3>1, <3>12 DEF Map!Next
  <2> QED
    BY <1>2, <2>8, <2>9, <2>10, <2>11, <2>12, <2>13, <2>14, <2>15, <2>16, <2>17
       DEF Step, CompareExchange
<1> QED BY <1>1, <1>2 DEF Next

\* The lock-free list keeps the promise of a map that only grows: a look at an
\* edge is exact at the moment of the read, an edge gets one node, and every
\* call of GetOrSpawnNode (node.h:886) returns the node of its edge.
THEOREM ListImplementsMap == Spec => ImplementsChildMap
<1>1. Init /\ [][Next]_vars /\ []IInv => Map!Spec
  BY MapInit, MapNext, PTL DEF Map!Spec
<1> QED BY <1>1, InvAlways, PTL DEF Spec, ImplementsChildMap
=============================================================================
