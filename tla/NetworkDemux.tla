---------------------------- MODULE NetworkDemux ----------------------------
(***************************************************************************)
(* The demultiplexing backend (src/src/neural/network_demux.cc).  A        *)
(* computation is split into parts of partial_size_ inputs; each part is   *)
(* one entry of queue_, and a worker that takes an entry has the next part *)
(* of that computation computed.  Which worker took which part is not      *)
(* recorded: the readers rely on the order of parents_ alone.              *)
(*                                                                         *)
(* Abstracted: which of networks_ computes a part (counter_ picks them in  *)
(* turn, from an arbitrary start); they evaluate alike.                    *)
(***************************************************************************)
EXTENDS Integers, Sequences, FiniteSets

CONSTANTS
  Callers,          \* threads that call ComputeBlocking
  Workers,          \* threads_ of the DemuxingNetwork
  MinimumSplitSize, \* minimum-split-size
  Inputs, Eval,
  Batches,          \* what one caller asks for at a time, never nothing
  None              \* nobody

DemuxAssumption ==
  /\ MinimumSplitSize \in Nat
  /\ None \notin Callers
  /\ IsFiniteSet(Workers) /\ Workers # {}
  /\ Batches \subseteq Seq(Inputs) \ {<<>>}

VARIABLES
  calls,      \* the callers' computations: Outer
  queue_,     \* callers, one entry for each part that no worker took
  comp,       \* [Callers -> the DemuxingComputation], see Comp
  worker,     \* [Workers -> where a worker is], see Worker
  abort_

demuxVars == <<queue_, comp, worker, abort_>>
vars == <<calls, demuxVars>>

Outer == INSTANCE Evaluation

\* parents_ are the computations of the parts, in the order they were made.
Parent == [planes : Seq(Inputs), out : Seq(Outer!Outputs)]
\* toEnqueue: the caller holds mutex_ until it has enqueued itself that often.
Comp == [split : BOOLEAN, toEnqueue : Nat, dataready : Nat, partial_size : Nat,
         parents : Seq(Parent)]
NewComp == [split |-> FALSE, toEnqueue |-> 0, dataready |-> 0, partial_size |-> 0,
            parents |-> <<>>]

\* caller, part: what a worker computes, the part as an index of parents_.
Worker == [at : {"loop", "asleep", "pop", "add", "compute", "notify", "gone"},
           caller : Callers \cup {None}, part : Nat]
Free(place) == [at |-> place, caller |-> None, part |-> 0]
At(w, place) == worker[w].at = place
Go(w, place) == worker' = [worker EXCEPT ![w].at = place]

\* cv_.notify_one: one of the workers that wait on cv_, if any.
WakeOne(W) ==
  LET asleep == {w \in Workers : W[w].at = "asleep"} IN
  IF asleep = {} THEN {W} ELSE {[W EXCEPT ![w].at = "loop"] : w \in asleep}
WakeAll(W) ==
  [w \in Workers |-> IF W[w].at = "asleep" THEN [W[w] EXCEPT !.at = "loop"] ELSE W[w]]
-----------------------------------------------------------------------------
(* A caller. *)

Minimum(a, b) == IF a < b THEN a ELSE b
RoundUp(n, d) == (n + d - 1) \div d
BatchSize(c) == Len(calls[c].planes)

PartialSize(c) ==
  LET even == RoundUp(BatchSize(c), Cardinality(Workers)) IN
  IF even < MinimumSplitSize THEN Minimum(BatchSize(c), MinimumSplitSize) ELSE even

Splits(c) == RoundUp(BatchSize(c), PartialSize(c))

\* AddInput for every position, then ComputeBlocking.
Ask(c, planes) ==
  /\ ~abort_
  /\ Outer!Ask(c, planes)
  /\ UNCHANGED demuxVars

Split(c) ==
  /\ calls[c].state = "asked" /\ ~comp[c].split
  /\ comp' = [comp EXCEPT ![c] =
       [split |-> TRUE, toEnqueue |-> Splits(c), dataready |-> Splits(c),
        partial_size |-> PartialSize(c), parents |-> <<>>]]
  /\ UNCHANGED <<calls, queue_, worker, abort_>>

\* Other callers may enqueue, and workers take parts, in between.
Enqueue(c) ==
  /\ comp[c].toEnqueue > 0
  /\ comp' = [comp EXCEPT ![c].toEnqueue = @ - 1]
  /\ queue_' = Append(queue_, c)
  /\ worker' \in WakeOne(worker)
  /\ UNCHANGED <<calls, abort_>>

\* The caller waits on dataready_cv_, and has released the computation's mutex_.
Waits(c) == comp[c].split /\ comp[c].toEnqueue = 0

Sample(c, s) ==
  comp[c].parents[(s \div comp[c].partial_size) + 1].out[(s % comp[c].partial_size) + 1]

Return(c) ==
  /\ Waits(c) /\ comp[c].dataready = 0
  /\ calls' = [calls EXCEPT ![c] =
       Outer!Answered([s \in 1 .. BatchSize(c) |-> Sample(c, s - 1)])]
  /\ comp' = [comp EXCEPT ![c] = NewComp]
  /\ UNCHANGED <<queue_, worker, abort_>>

\* The samples were read and the computation is destroyed.
Take(c) ==
  /\ Outer!Take(c)
  /\ UNCHANGED demuxVars
-----------------------------------------------------------------------------
(* A worker. *)

\* Take mutex_ and wait until there is work.  The look at abort_ without mutex_
\* that comes before decides nothing that this one does not.
Loop(w) ==
  /\ At(w, "loop")
  /\ Go(w, IF abort_ THEN "gone" ELSE IF queue_ = <<>> THEN "asleep" ELSE "pop")
  /\ UNCHANGED <<calls, queue_, comp, abort_>>

\* Once it has work a worker goes on until there is none, abort_ or not.
Pop(w) ==
  /\ At(w, "pop")
  /\ IF queue_ = <<>> THEN Go(w, "loop") /\ UNCHANGED queue_
     ELSE /\ worker' = [worker EXCEPT ![w].at = "add", ![w].caller = Head(queue_)]
          /\ queue_' = Tail(queue_)
  /\ UNCHANGED <<calls, comp, abort_>>

\* Mutant of NextPart: every worker takes the first part.
AlwaysFirstPart(c) ==
  SubSeq(calls[c].planes, 1, Minimum(BatchSize(c), comp[c].partial_size))

\* The inputs of the part behind those that are being computed.
NextPart(c) ==
  LET cur_idx == Len(comp[c].parents) * comp[c].partial_size IN
  SubSeq(calls[c].planes, cur_idx + 1,
         Minimum(BatchSize(c), cur_idx + comp[c].partial_size))

AddParentFromNetwork(w) ==
  LET c == worker[w].caller IN
  /\ At(w, "add") /\ Waits(c)
  /\ comp' = [comp EXCEPT ![c].parents =
                Append(@, [planes |-> NextPart(c), out |-> <<>>])]
  /\ worker' = [worker EXCEPT ![w].at = "compute", ![w].part = Len(comp[c].parents) + 1]
  /\ UNCHANGED <<calls, queue_, abort_>>

\* The network that computes the part, outside of every lock.
Compute(w) ==
  LET c == worker[w].caller
      k == worker[w].part IN
  /\ At(w, "compute")
  /\ comp' = [comp EXCEPT ![c].parents[k].out = Outer!EvalAll(comp[c].parents[k].planes)]
  /\ Go(w, "notify")
  /\ UNCHANGED <<calls, queue_, abort_>>

NotifyComplete(w) ==
  LET c == worker[w].caller IN
  /\ At(w, "notify") /\ Waits(c)
  /\ comp' = [comp EXCEPT ![c].dataready = @ - 1]
  /\ worker' = [worker EXCEPT ![w] = Free("pop")]
  /\ UNCHANGED <<calls, queue_, abort_>>
-----------------------------------------------------------------------------
\* ~DemuxingNetwork: a network outlives those that call it.
Abort ==
  /\ ~abort_
  /\ \A c \in Callers : calls[c] = Outer!Idle
  /\ abort_' = TRUE
  /\ worker' = WakeAll(worker)
  /\ UNCHANGED <<calls, queue_, comp>>

\* Wait has joined all threads_.
Joined == \A w \in Workers : At(w, "gone")

Init ==
  /\ Outer!Init
  /\ queue_ = <<>>
  /\ comp = [c \in Callers |-> NewComp]
  /\ worker = [w \in Workers |-> Free("loop")]
  /\ abort_ = FALSE

CallerStep(c) == Split(c) \/ Enqueue(c) \/ Return(c)

WorkerStep(w) ==
  \/ Loop(w) \/ Pop(w)
  \/ AddParentFromNetwork(w) \/ Compute(w) \/ NotifyComplete(w)

Next ==
  \/ \E c \in Callers :
       \/ \E planes \in Batches : Ask(c, planes)
       \/ CallerStep(c) \/ Take(c)
  \/ \E w \in Workers : WorkerStep(w)
  \/ Abort

Spec == Init /\ [][Next]_vars
-----------------------------------------------------------------------------
TypeOK ==
  /\ calls \in [Callers -> Outer!Computation]
  /\ queue_ \in Seq(Callers)
  /\ comp \in [Callers -> Comp]
  /\ worker \in [Workers -> Worker]
  /\ abort_ \in BOOLEAN

\* The demuxing network is the network that its callers take it for: however
\* the parts are taken and finish, a caller is woken once, when all of them are
\* evaluated, and position s is found in part s / partial_size_ (readers of
\* DemuxingComputation, lines 49 to 77 of network_demux.cc).
DemuxImplementsEvaluation == Outer!Spec
=============================================================================
