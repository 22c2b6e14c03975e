------------------------------ MODULE ChildMap ------------------------------
(***************************************************************************)
(* What the list of the children of a position promises to the threads of  *)
(* a search: a map from edge to node in which an entry is only ever added, *)
(* and a thread that asks for the node of an edge is given the entry.      *)
(***************************************************************************)
EXTENDS Naturals

CONSTANTS Threads, NumEdges, Nodes, NoNode

Indices == 0 .. NumEdges - 1

VARIABLES
  child,     \* [Indices -> Nodes \cup {NoNode}]
  asked,     \* [Threads -> Indices \cup {NumEdges}] NumEdges: asks for nothing
  answer     \* [Threads -> Nodes \cup {NoNode}] what the last request returned

vars == <<child, asked, answer>>

Init ==
  /\ child = [i \in Indices |-> NoNode]
  /\ asked = [t \in Threads |-> NumEdges]
  /\ answer = [t \in Threads |-> NoNode]

\* A thread looks at an edge and sees what is there.
Look(t, i) ==
  /\ asked[t] = NumEdges
  /\ answer' = [answer EXCEPT ![t] = child[i]]
  /\ UNCHANGED <<child, asked>>

\* ... turns to another edge, or to none,
Forget(t) ==
  /\ asked[t] = NumEdges
  /\ answer' = [answer EXCEPT ![t] = NoNode]
  /\ UNCHANGED <<child, asked>>

\* ... or having seen no node asks for one,
Ask(t, i) ==
  /\ asked[t] = NumEdges /\ answer[t] = NoNode
  /\ asked' = [asked EXCEPT ![t] = i]
  /\ UNCHANGED <<child, answer>>

\* A node enters the map under an edge that has none, and under that edge only.
Insert(t, n) ==
  /\ asked[t] \in Indices /\ child[asked[t]] = NoNode
  /\ \A i \in Indices : child[i] # n
  /\ child' = [child EXCEPT ![asked[t]] = n]
  /\ UNCHANGED <<asked, answer>>

\* ... and is given the entry, which is there by then.
Answer(t) ==
  /\ asked[t] \in Indices /\ child[asked[t]] # NoNode
  /\ answer' = [answer EXCEPT ![t] = child[asked[t]]]
  /\ asked' = [asked EXCEPT ![t] = NumEdges]
  /\ UNCHANGED child

Next ==
  \E t \in Threads :
    \/ \E i \in Indices : Look(t, i) \/ Ask(t, i)
    \/ Forget(t)
    \/ \E n \in Nodes : Insert(t, n)
    \/ Answer(t)

Spec == Init /\ [][Next]_vars
=============================================================================
