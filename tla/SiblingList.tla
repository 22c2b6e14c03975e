---------------------------- MODULE SiblingList ----------------------------
(***************************************************************************)
(* The children of one low node, as the threads of a search insert them    *)
(* (src/src/mcts/node.h): a list in the order of Index(), linked through   *)
(* atomic pointers that own what they point at, walked and extended by     *)
(* Edge_Iterator without a lock.  One action per access to a shared        *)
(* pointer.                                                                *)
(*                                                                         *)
(* A place is something that holds such a pointer: child_ of the low node  *)
(* (First) or sibling_ of a node, named by the node.  Addresses are given  *)
(* back to the allocator when a node is destroyed and handed out again, so *)
(* a compare-exchange may meet an address it has seen in another life.     *)
(*                                                                         *)
(* Left out: what a node and an edge contain.  The list is never cut while *)
(* a search runs; MakeMove and the garbage collector cut it when no search *)
(* does (module NodeTree).                                                 *)
(***************************************************************************)
EXTENDS Integers

CONSTANTS
  Threads,    \* threads that walk the list
  NumEdges,   \* num_edges_ of the low node
  Nodes,      \* addresses of nodes
  NoNode,     \* nullptr
  First       \* the place child_ of the low node

ASSUME EdgesAssumption == NumEdges \in Nat \ {0}
ASSUME PlacesAssumption == NoNode \notin Nodes /\ First \notin Nodes \cup {NoNode}

VARIABLES
  pointer,      \* [Places -> Nodes \cup {NoNode}] child_ and every sibling_
  index,        \* [Nodes -> Indices] Index() of a node
  node_ptr_,    \* [Threads -> Places] the iterator's
  current_idx_, \* [Threads -> Indices] the iterator's
  node_,        \* [Threads -> Nodes \cup {NoNode}] the iterator's
  node,         \* [Threads -> Nodes \cup {NoNode}] what Actualize returned
  new_node,     \* [Threads -> Nodes \cup {NoNode}] local of GetOrSpawnNode
  pc,           \* [Threads -> label]
  linked        \* history: nodes a compare_exchange put in the list, alive

iterator == <<node_ptr_, current_idx_, node_>>
vars == <<pointer, index, iterator, node, new_node, pc, linked>>

Indices == 0 .. NumEdges - 1
Places == {First} \cup Nodes
MaybeNode == Nodes \cup {NoNode}

\* The labels.  "seek" and "look" are the loop of Actualize, called while the
\* iterator moves and while it spawns.
Labels == {"idle", "seek", "at", "look", "test", "cas", "release"}
Spawning == {"look", "test", "cas", "release"}
Goto(t, label) == pc' = [pc EXCEPT ![t] = label]

\* Addresses that hold a node; the allocator may hand out the others.
Live == linked \cup {new_node[t] : t \in Threads}

Init ==
  /\ pointer = [p \in Places |-> NoNode]
  /\ index = [n \in Nodes |-> 0]
  /\ node_ptr_ = [t \in Threads |-> First]
  /\ current_idx_ = [t \in Threads |-> 0]
  /\ node_ = [t \in Threads |-> NoNode]
  /\ node = [t \in Threads |-> NoNode]
  /\ new_node = [t \in Threads |-> NoNode]
  /\ pc = [t \in Threads |-> "idle"]
  /\ linked = {}
-----------------------------------------------------------------------------
(* The iterator. *)

\* Edge_Iterator(LowNode*): at edge 0, at the head of the list.
Begin(t) ==
  /\ pc[t] = "idle"
  /\ node_ptr_' = [node_ptr_ EXCEPT ![t] = First]
  /\ current_idx_' = [current_idx_ EXCEPT ![t] = 0]
  /\ node_' = [node_ EXCEPT ![t] = NoNode]
  /\ Goto(t, "seek")
  /\ UNCHANGED <<pointer, index, node, new_node, linked>>

\* operator++ before the last edge.
Advance(t) ==
  /\ pc[t] = "at" /\ current_idx_[t] + 1 < NumEdges
  /\ current_idx_' = [current_idx_ EXCEPT ![t] = @ + 1]
  /\ Goto(t, "seek")
  /\ UNCHANGED <<pointer, index, node_ptr_, node_, node, new_node, linked>>

\* The iterator is dropped, by the loop over the edges that breaks or ends.
Drop(t) ==
  /\ pc[t] = "at"
  /\ Goto(t, "idle")
  /\ UNCHANGED <<pointer, index, iterator, node, new_node, linked>>

\* Actualize: one read of *node_ptr_.  n is what it reads.
Behind(t, n) == n # NoNode /\ index[n] < current_idx_[t]

StepOver(t, n) ==
  /\ Behind(t, n)
  /\ node_ptr_' = [node_ptr_ EXCEPT ![t] = n]
  /\ UNCHANGED <<pointer, index, current_idx_, node_, node, new_node, pc, linked>>

AtTarget(t, n) == n # NoNode /\ index[n] = current_idx_[t]

Settle(t, n) ==
  /\ ~Behind(t, n)
  /\ IF AtTarget(t, n)
       THEN /\ node_' = [node_ EXCEPT ![t] = n]
            /\ node_ptr_' = [node_ptr_ EXCEPT ![t] = n]
       ELSE /\ node_' = [node_ EXCEPT ![t] = NoNode]
            /\ UNCHANGED node_ptr_
  /\ node' = [node EXCEPT ![t] = n]
  /\ Goto(t, IF pc[t] = "look" /\ new_node[t] # NoNode THEN "test" ELSE "at")
  /\ UNCHANGED <<pointer, index, current_idx_, new_node, linked>>

Actualize(t) ==
  /\ pc[t] \in {"seek", "look"}
  /\ LET n == pointer[node_ptr_[t]]
     IN  StepOver(t, n) \/ Settle(t, n)
-----------------------------------------------------------------------------
(* GetOrSpawnNode. *)

\* The edge has no node yet as far as the iterator knows: prepare one.
Spawn(t) ==
  /\ pc[t] = "at" /\ node_[t] = NoNode
  /\ \E n \in Nodes \ Live :
       /\ new_node' = [new_node EXCEPT ![t] = n]
       /\ index' = [index EXCEPT ![n] = current_idx_[t]]
       /\ pointer' = [pointer EXCEPT ![n] = NoNode]
  /\ Goto(t, "look")
  /\ UNCHANGED <<iterator, node, linked>>

\* Destroying a node destroys the list that its sibling_ owns.
OwnedBy(n) ==
  {m \in linked : pointer[n] # NoNode /\ index[pointer[n]] <= index[m]}

\* Another thread was faster: return its node and destroy the new one.
Discard(t) ==
  /\ pc[t] = "test" /\ node_[t] # NoNode
  /\ new_node' = [new_node EXCEPT ![t] = NoNode]
  /\ linked' = linked \ OwnedBy(new_node[t])
  /\ Goto(t, "at")
  /\ UNCHANGED <<pointer, index, iterator, node>>

\* new_sibling->set(node), for the time being a second owner of that node.
SetSibling(t) ==
  /\ pc[t] = "test" /\ node_[t] = NoNode
  /\ pointer' = [pointer EXCEPT ![new_node[t]] = node[t]]
  /\ Goto(t, "cas")
  /\ UNCHANGED <<index, iterator, node, new_node, linked>>

\* Mutant of Exchange: an exchange that does not compare.
ExchangeBlindly(t) ==
  /\ pointer' = [pointer EXCEPT ![node_ptr_[t]] = new_node[t]]
  /\ linked' = linked \cup {new_node[t]}
  /\ Goto(t, "release")
  /\ UNCHANGED <<index, iterator, node, new_node>>

Exchange(t) ==
  /\ pointer[node_ptr_[t]] = node[t]
  /\ pointer' = [pointer EXCEPT ![node_ptr_[t]] = new_node[t]]
  /\ linked' = linked \cup {new_node[t]}
  /\ Goto(t, "release")
  /\ UNCHANGED <<index, iterator, node, new_node>>

\* Mutant of Retry: the borrowed sibling is not released.
RetryAsOwner(t) ==
  /\ pointer[node_ptr_[t]] # node[t]
  /\ Goto(t, "look")
  /\ UNCHANGED <<pointer, index, iterator, node, new_node, linked>>

\* Mutant of Retry: tries again with the sibling it read the first time.
RetryStale(t) ==
  /\ pointer[node_ptr_[t]] # node[t]
  /\ pointer' = [pointer EXCEPT ![new_node[t]] = NoNode]
  /\ Goto(t, "test")
  /\ UNCHANGED <<index, iterator, node, new_node, linked>>

\* A failed exchange: release the sibling that is not ours and try again.
Retry(t) ==
  /\ pointer[node_ptr_[t]] # node[t]
  /\ pointer' = [pointer EXCEPT ![new_node[t]] = NoNode]
  /\ Goto(t, "look")
  /\ UNCHANGED <<index, iterator, node, new_node, linked>>

CompareExchange(t) == pc[t] = "cas" /\ (Exchange(t) \/ Retry(t))

\* source.release() after the exchange, then Actualize once more.
Release(t) ==
  /\ pc[t] = "release"
  /\ new_node' = [new_node EXCEPT ![t] = NoNode]
  /\ Goto(t, "look")
  /\ UNCHANGED <<pointer, index, iterator, node, linked>>

\* What a call does once it has begun: the steps that the scheduler owes it.
Step(t) ==
  Actualize(t) \/ Discard(t) \/ SetSibling(t) \/ CompareExchange(t) \/ Release(t)

Next == \E t \in Threads : Begin(t) \/ Advance(t) \/ Drop(t) \/ Spawn(t) \/ Step(t)

Spec == Init /\ [][Next]_vars
\* The operating system runs every thread.
FairSpec == Spec /\ \A t \in Threads : WF_vars(Step(t))
-----------------------------------------------------------------------------
TypeOK ==
  /\ pointer \in [Places -> MaybeNode]
  /\ index \in [Nodes -> Indices]
  /\ node_ptr_ \in [Threads -> Places]
  /\ current_idx_ \in [Threads -> Indices]
  /\ node_ \in [Threads -> MaybeNode]
  /\ node \in [Threads -> MaybeNode]
  /\ new_node \in [Threads -> MaybeNode]
  /\ pc \in [Threads -> Labels]
  /\ linked \in SUBSET Nodes

\* The position of a place in the order of the list.
Rank(p) == IF p = First THEN -1 ELSE index[p]
InList == {First} \cup linked

LinksInOrder ==
  \A p \in InList : LET n == pointer[p] IN
    /\ n # NoNode => n \in linked /\ Rank(p) < index[n]
    /\ \A m \in linked :
         Rank(p) < index[m] => n # NoNode /\ index[n] <= index[m]
OneNodePerEdge == \A m, n \in linked : index[m] = index[n] => m = n
IteratorsAlive ==
  \A t \in Threads :
    /\ node_ptr_[t] \in InList
    /\ pc[t] = "at" => node_[t] \in linked \cup {NoNode}

\* The list is in the order of the edges, holds one node for an edge, leads
\* only to nodes that are alive, and steps over none that was inserted; what
\* an iterator stands on or returned is alive too.  Insertions that race, and
\* the destruction of a node that came too late, must leave it so
\* (GetOrSpawnNode, node.h:886).
ListIntact == LinksInOrder /\ OneNodePerEdge /\ IteratorsAlive

\* To its callers the list is a map from edges to nodes that only grows: an
\* iterator at an edge sees the entry as it is at that moment, and
\* GetOrSpawnNode returns the one node that the edge has for every thread.
ChildOf(i) == IF \E n \in linked : index[n] = i
                THEN CHOOSE n \in linked : index[n] = i ELSE NoNode
Map == INSTANCE ChildMap WITH
  child <- [i \in Indices |-> ChildOf(i)],
  asked <- [t \in Threads |->
              IF pc[t] \in Spawning THEN current_idx_[t] ELSE NumEdges],
  answer <- [t \in Threads |-> IF pc[t] = "at" THEN node_[t] ELSE NoNode]
ImplementsChildMap == Map!Spec

\* A call of GetOrSpawnNode returns, however the other threads insert: each
\* exchange that fails has let another edge get its node (the loop at
\* node.h:892 has no other bound).
SpawnReturns == \A t \in Threads : pc[t] \in Spawning ~> pc[t] = "at"
=============================================================================
