----------------------------- MODULE NetworkMux -----------------------------
(***************************************************************************)
(* The multiplexing backend (src/src/neural/network_mux.cc).  Computations *)
(* of several callers wait in queue_; a worker gathers some of them into   *)
(* one computation of the network it serves, has that computed, and wakes  *)
(* the callers, each of which reads its samples in the common computation, *)
(* from an offset.                                                         *)
(*                                                                         *)
(* The network below is an Evaluation whose callers are the workers.  The  *)
(* backend is itself an Evaluation, for the threads of the search.         *)
(***************************************************************************)
EXTENDS Integers, Sequences

CONSTANTS
  Callers,     \* threads that call ComputeBlocking
  Workers,     \* threads_ of the MuxingNetwork
  MaxBatch,    \* max_batch
  Inputs, Eval,
  Batches,     \* what one caller asks for at a time, never nothing (cache.cc:100)
  None         \* nobody

ASSUME MuxAssumption ==
  /\ MaxBatch \in Nat /\ None \notin Workers
  /\ Batches \subseteq Seq(Inputs) \ {<<>>}

VARIABLES
  calls,      \* the callers' computations: Outer
  inner,      \* the workers' computations of the network below: Inner
  queue_,     \* callers whose computation waits to be gathered
  mutex_,     \* the worker that holds it over several steps, or None
  comp,       \* [Callers -> the MuxingComputation], see Comp
  worker,     \* [Workers -> where a worker is], see Worker
  abort_

muxVars == <<queue_, mutex_, comp, worker, abort_>>
vars == <<calls, inner, muxVars>>

Outer == INSTANCE Evaluation
Inner == INSTANCE Evaluation
           WITH calls <- inner, Callers <- Workers,
                Batches <- Seq(Inputs) \ {<<>>}

\* enqueued: ComputeBlocking has put it in queue_; parent: the samples of the
\* computation it was gathered into, once there are any; idx: idx_in_parent_.
Comp == [enqueued : BOOLEAN, idx : Nat, parent : Seq(Outer!Outputs),
         dataready : BOOLEAN]
NewComp == [enqueued |-> FALSE, idx |-> 0, parent |-> <<>>, dataready |-> FALSE]

\* planes: what the worker puts into its parent; children: whom the parent serves.
Worker == [at : {"loop", "asleep", "gather", "compute", "notify", "gone"},
           planes : Seq(Inputs), children : Seq(Callers)]
At(w, place) == worker[w].at = place
Go(w, place) == worker' = [worker EXCEPT ![w].at = place]

\* cv_.notify_one: one of the workers that wait on cv_, if any.
WakeOne(W) ==
  LET asleep == {w \in Workers : W[w].at = "asleep"} IN
  IF asleep = {} THEN {W} ELSE {[W EXCEPT ![w].at = "loop"] : w \in asleep}
WakeAll(W) ==
  [w \in Workers |-> IF W[w].at = "asleep" THEN [W[w] EXCEPT !.at = "loop"] ELSE W[w]]
-----------------------------------------------------------------------------
(* A caller. *)

\* AddInput for every position, then ComputeBlocking.
Ask(c, planes) ==
  /\ ~abort_
  /\ Outer!Ask(c, planes)
  /\ UNCHANGED <<inner, muxVars>>

Enqueue(c) ==
  /\ calls[c].state = "asked" /\ ~comp[c].enqueued
  /\ mutex_ = None
  /\ queue_' = Append(queue_, c)
  /\ comp' = [comp EXCEPT ![c].enqueued = TRUE]
  /\ worker' \in WakeOne(worker)
  /\ UNCHANGED <<calls, inner, mutex_, abort_>>

\* Sample s of a caller is sample s + idx_in_parent_ of the parent.
Sample(c, s) == comp[c].parent[s + comp[c].idx]

Return(c) ==
  /\ comp[c].dataready
  /\ calls' = [calls EXCEPT ![c] =
       Outer!Answered([s \in 1 .. Len(calls[c].planes) |-> Sample(c, s)])]
  /\ comp' = [comp EXCEPT ![c] = NewComp]
  /\ UNCHANGED <<inner, queue_, mutex_, worker, abort_>>

\* The samples were read and the computation is destroyed.
Take(c) ==
  /\ Outer!Take(c)
  /\ UNCHANGED <<inner, muxVars>>
-----------------------------------------------------------------------------
(* A worker. *)

\* The loop: a new parent, mutex_, and wait until there is work.  The look at
\* abort_ without mutex_ on the way decides nothing that this one does not.
Loop(w) ==
  /\ At(w, "loop") /\ mutex_ = None
  /\ IF abort_ THEN Go(w, "gone") /\ UNCHANGED mutex_
     ELSE IF queue_ = <<>> THEN Go(w, "asleep") /\ UNCHANGED mutex_
     ELSE /\ worker' = [worker EXCEPT ![w] =
                          [at |-> "gather", planes |-> <<>>, children |-> <<>>]]
          /\ mutex_' = w
  /\ UNCHANGED <<calls, inner, queue_, comp, abort_>>

\* A computation larger than the limit is taken alone.
TakesNext(w) ==
  /\ queue_ # <<>>
  /\ \/ worker[w].planes = <<>>
     \/ Len(worker[w].planes) + Len(calls[Head(queue_)].planes) <= MaxBatch

\* Mutant of IdxInParent: the number of computations, not of their inputs.
CountChildren(w) == Len(worker[w].children)

\* The place of a computation in its parent, before its inputs go there.
IdxInParent(w) == Len(worker[w].planes)

PopulateToParent(w) ==
  /\ At(w, "gather") /\ TakesNext(w)
  /\ LET c == Head(queue_) IN
     /\ comp' = [comp EXCEPT ![c].idx = IdxInParent(w)]
     /\ worker' = [worker EXCEPT ![w].planes = @ \o calls[c].planes,
                                 ![w].children = Append(@, c)]
  /\ queue_' = Tail(queue_)
  /\ UNCHANGED <<calls, inner, mutex_, abort_>>

\* Release mutex_ and call ComputeBlocking of the network below.
Compute(w) ==
  /\ At(w, "gather") /\ ~TakesNext(w)
  /\ mutex_' = None
  /\ Inner!Ask(w, worker[w].planes)
  /\ worker' = [worker EXCEPT ![w].at = "compute", ![w].planes = <<>>]
  /\ UNCHANGED <<calls, queue_, comp, abort_>>

Gathered(w) == {worker[w].children[i] : i \in DOMAIN worker[w].children}

Computed(w) ==
  /\ At(w, "compute")
  /\ inner[w].state = "answered"
  /\ comp' = [c \in Callers |->
       IF c \in Gathered(w) THEN [comp[c] EXCEPT !.parent = inner[w].out] ELSE comp[c]]
  /\ Inner!Take(w)
  /\ Go(w, "notify")
  /\ UNCHANGED <<calls, queue_, mutex_, abort_>>

\* Mutant of Remaining: only the first computation of a batch is told.
RemainingNone(w) == [worker[w] EXCEPT !.children = <<>>, !.at = "loop"]

\* What is left to wake, and where the worker goes.
Remaining(w) ==
  LET rest == Tail(worker[w].children) IN
  [worker[w] EXCEPT !.children = rest, !.at = IF rest = <<>> THEN "loop" ELSE "notify"]

NotifyReady(w) ==
  /\ At(w, "notify")
  /\ comp' = [comp EXCEPT ![Head(worker[w].children)].dataready = TRUE]
  /\ worker' = [worker EXCEPT ![w] = Remaining(w)]
  /\ UNCHANGED <<calls, inner, queue_, mutex_, abort_>>
-----------------------------------------------------------------------------
\* ~MuxingNetwork: a network outlives the searches that call it.
Abort ==
  /\ ~abort_ /\ mutex_ = None
  /\ \A c \in Callers : calls[c] = Outer!Idle
  /\ abort_' = TRUE
  /\ worker' = WakeAll(worker)
  /\ UNCHANGED <<calls, inner, queue_, mutex_, comp>>

\* Wait has joined all threads_.
Joined == \A w \in Workers : At(w, "gone")

Init ==
  /\ Outer!Init /\ Inner!Init
  /\ queue_ = <<>> /\ mutex_ = None
  /\ comp = [c \in Callers |-> NewComp]
  /\ worker = [w \in Workers |-> [at |-> "loop", planes |-> <<>>, children |-> <<>>]]
  /\ abort_ = FALSE

CallerStep(c) == Enqueue(c) \/ Return(c)

WorkerStep(w) ==
  \/ Loop(w) \/ PopulateToParent(w) \/ Compute(w)
  \/ Computed(w) \/ NotifyReady(w)

\* The network below answers.
InnerStep(w) == Inner!Answer(w) /\ UNCHANGED <<calls, muxVars>>

Next ==
  \/ \E c \in Callers :
       \/ \E planes \in Batches : Ask(c, planes)
       \/ CallerStep(c) \/ Take(c)
  \/ \E w \in Workers : WorkerStep(w) \/ InnerStep(w)
  \/ Abort

Spec == Init /\ [][Next]_vars
-----------------------------------------------------------------------------
TypeOK ==
  /\ calls \in [Callers -> Outer!Computation]
  /\ inner \in [Workers -> Inner!Computation]
  /\ queue_ \in Seq(Callers) /\ mutex_ \in Workers \cup {None}
  /\ comp \in [Callers -> Comp]
  /\ worker \in [Workers -> Worker]
  /\ abort_ \in BOOLEAN

\* The muxing network is the network that its callers take it for: whoever is
\* gathered with whom, a caller is woken once, when all its positions are
\* evaluated, and finds the evaluations of its own (MuxingComputation, lines 49
\* to 80 of network_mux.cc).
MuxImplementsEvaluation == Outer!Spec
=============================================================================
