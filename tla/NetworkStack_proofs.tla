------------------------ MODULE NetworkStack_proofs ------------------------
(***************************************************************************)
(* First, the muxing network implements Evaluation, for any number of      *)
(* callers, workers and positions, and any limit of a batch.               *)
(*                                                                         *)
(* The argument: between Enqueue and NotifyReady a computation is in one   *)
(* place, queue_ or the children of one worker, and from the moment it is  *)
(* gathered its samples are those of its parent from idx_in_parent_ on.    *)
(*                                                                         *)
(* Second, the demuxing network implements it, for any number of callers   *)
(* and workers, and any size of the parts.                                 *)
(*                                                                         *)
(* The argument: a part of a computation still has to be enqueued, is in   *)
(* queue_, is with a worker, or is reported, and dataready_ counts those   *)
(* that are not reported; so when it is 0 there are as many parents_ as    *)
(* parts, and each of them is computed.  The k-th of parents_ has the k-th *)
(* part, whoever computes it.                                              *)
(*                                                                         *)
(* Then, a mux over a demux implements Evaluation.                         *)
(*                                                                         *)
(* The argument: a step of the stack is a step of NetworkMux, whose network*)
(* below answers when the demuxing network does, and of NetworkDemux, or a *)
(* stutter of one of them; so the invariants of both hold.  Of one another *)
(* they need this: a worker of the mux never asks for nothing, and none    *)
(* asks a demuxing network that was destroyed.                             *)
(***************************************************************************)
EXTENDS NetworkStack, TLAPS, SequenceTheorems, FiniteSetTheorems, FunctionTheorems

\* ComputeBlocking of c was called and nobody has told it that data is ready.
Waiting(c) == calls[c].state = "asked" /\ comp[c].enqueued /\ ~comp[c].dataready

\* The samples of c, read from a parent with these outputs, are its own.
Reads(c, out) ==
  \A s \in 1 .. Len(calls[c].planes) :
    /\ s + comp[c].idx \in 1 .. Len(out)
    /\ out[s + comp[c].idx] = Eval[calls[c].planes[s]]

\* What the computation that w gathers, or has computed, holds or will hold.
Served(w, c) ==
  /\ At(w, "gather") => Reads(c, Outer!EvalAll(worker[w].planes))
  /\ At(w, "compute") /\ inner[w].state = "asked" =>
       Reads(c, Outer!EvalAll(inner[w].planes))
  /\ At(w, "compute") /\ inner[w].state = "answered" => Reads(c, inner[w].out)
  /\ At(w, "notify") => Reads(c, comp[c].parent)

Places(w) == DOMAIN worker[w].children
Child(w, i) == worker[w].children[i]

\* Only computations that were asked for are in the queue, and so on.
CompInv ==
  \A c \in Callers :
    /\ comp[c].enqueued => calls[c].state = "asked"
    /\ comp[c].dataready => comp[c].enqueued /\ Reads(c, comp[c].parent)

QueueInv ==
  \A i \in DOMAIN queue_ :
    /\ Waiting(queue_[i])
    /\ \A j \in DOMAIN queue_ : i # j => queue_[i] # queue_[j]
    /\ \A w \in Workers : \A j \in Places(w) : Child(w, j) # queue_[i]

ChildInv ==
  \A w \in Workers : \A i \in Places(w) :
    /\ Waiting(Child(w, i)) /\ Served(w, Child(w, i))
    /\ \A v \in Workers : \A j \in Places(v) :
         <<v, j>> # <<w, i>> => Child(v, j) # Child(w, i)

\* The worker that gathers holds mutex_, and it never gathers nothing.
GatherInv ==
  \A w \in Workers :
    /\ At(w, "gather") => mutex_ = w
    /\ At(w, "gather") /\ worker[w].children = <<>> =>
         worker[w].planes = <<>> /\ queue_ # <<>>
    /\ At(w, "compute") \/ At(w, "notify") => worker[w].children # <<>>

IInv == TypeOK /\ CompInv /\ QueueInv /\ ChildInv /\ GatherInv

USE MuxAssumption

\* The next three only unfold definitions that every proof below needs.
LEMMA Types ==
  ASSUME TypeOK
  PROVE  /\ queue_ \in Seq(Callers)
         /\ mutex_ \in Workers \cup {None}
         /\ \A c \in Callers :
              /\ calls[c].state = "asked" => calls[c].planes \in Seq(Inputs)
              /\ calls[c] \in Outer!Computation
              /\ comp[c] \in Comp
         /\ \A w \in Workers :
              /\ inner[w] \in Inner!Computation
              /\ worker[w] \in Worker
  BY DEF TypeOK, Outer!Computation, Outer!Idle

LEMMA EvalAllIs ==
  ASSUME NEW planes \in Seq(Inputs)
  PROVE  /\ Outer!EvalAll(planes) \in Seq(Outer!Outputs)
         /\ Len(Outer!EvalAll(planes)) = Len(planes)
         /\ \A s \in 1 .. Len(planes) : Outer!EvalAll(planes)[s] = Eval[planes[s]]
  BY DEF Outer!EvalAll, Outer!Outputs

LEMMA EvalAllAppend ==
  ASSUME NEW p \in Seq(Inputs), NEW q \in Seq(Inputs)
  PROVE  /\ \A k \in 1 .. Len(Outer!EvalAll(p)) :
              /\ k \in 1 .. Len(Outer!EvalAll(p \o q))
              /\ Outer!EvalAll(p \o q)[k] = Outer!EvalAll(p)[k]
         /\ \A s \in 1 .. Len(q) :
              /\ s + Len(p) \in 1 .. Len(Outer!EvalAll(p \o q))
              /\ Outer!EvalAll(p \o q)[s + Len(p)] = Eval[q[s]]
<1>1. p \o q \in Seq(Inputs) /\ Len(p \o q) = Len(p) + Len(q) OBVIOUS
<1>2. \A k \in 1 .. Len(p) : (p \o q)[k] = p[k] OBVIOUS
<1>3. \A s \in 1 .. Len(q) : (p \o q)[s + Len(p)] = q[s] OBVIOUS
<1>4. Len(p) \in Nat /\ Len(q) \in Nat OBVIOUS
<1>5. /\ Len(Outer!EvalAll(p)) = Len(p)
      /\ \A k \in 1 .. Len(p) : Outer!EvalAll(p)[k] = Eval[p[k]]
  BY EvalAllIs
<1>6. /\ Len(Outer!EvalAll(p \o q)) = Len(p \o q)
      /\ \A k \in 1 .. Len(p \o q) : Outer!EvalAll(p \o q)[k] = Eval[(p \o q)[k]]
  BY <1>1, EvalAllIs
<1>7. \A s \in 1 .. Len(q) : s + Len(p) \in 1 .. Len(p) + Len(q) BY <1>4
<1>8. \A k \in 1 .. Len(p) : k \in 1 .. Len(p) + Len(q) BY <1>4
<1> QED BY <1>1, <1>2, <1>3, <1>5, <1>6, <1>7, <1>8

LEMMA SameEvaluation ==
  /\ \A planes : Inner!EvalAll(planes) = Outer!EvalAll(planes)
  /\ Inner!Outputs = Outer!Outputs
  BY DEF Outer!EvalAll, Inner!EvalAll, Outer!Outputs, Inner!Outputs

\* A child that the step does not touch, of a worker that it does not touch.
LEMMA ChildKept ==
  ASSUME NEW w \in Workers, NEW i \in Places(w),
         Waiting(Child(w, i)), Served(w, Child(w, i)),
         UNCHANGED <<worker[w], inner[w], calls[Child(w, i)], comp[Child(w, i)]>>
  PROVE  (Waiting(Child(w, i)) /\ Served(w, Child(w, i)))'
  BY DEF Waiting, Served, Child, Reads, At

LEMMA InitInv == Init => IInv
<1> SUFFICES ASSUME Init PROVE IInv OBVIOUS
<1>1. TypeOK
  <2>1. calls \in [Callers -> Outer!Computation] /\ inner \in [Workers -> Inner!Computation]
    BY DEF Init, Outer!Init, Inner!Init, Outer!Computation, Inner!Computation
  <2>2. comp \in [Callers -> Comp] BY DEF Init, Comp, NewComp
  <2>3. worker \in [Workers -> Worker] BY DEF Init, Worker
  <2>4. queue_ \in Seq(Callers) /\ mutex_ \in Workers \cup {None}
    <3>1. queue_ = <<>> /\ mutex_ = None BY DEF Init
    <3> QED BY <3>1
  <2>5. abort_ \in BOOLEAN BY DEF Init
  <2> QED BY <2>1, <2>2, <2>3, <2>4, <2>5 DEF TypeOK
<1>2. CompInv BY DEF Init, CompInv, NewComp
<1>3. QueueInv BY DEF Init, QueueInv
<1>4. ChildInv BY DEF Init, ChildInv, Places
<1>5. GatherInv BY DEF Init, GatherInv, At
<1> QED BY <1>1, <1>2, <1>3, <1>4, <1>5 DEF IInv
-----------------------------------------------------------------------------
(* The steps of a caller. *)

LEMMA AskInv ==
  ASSUME IInv, NEW c \in Callers, NEW planes \in Batches, Ask(c, planes)
  PROVE  IInv'
<1> USE DEF IInv
<1>0. /\ calls[c] = Outer!Idle /\ calls' = [calls EXCEPT ![c] = Outer!Asked(planes)]
      /\ UNCHANGED <<inner, queue_, mutex_, comp, worker, abort_>>
      /\ calls[c].state # "asked"
  BY DEF Ask, Outer!Ask, muxVars, Outer!Idle
<1>1. TypeOK' BY <1>0 DEF TypeOK, Outer!Computation, Outer!Asked
<1>2. CompInv'
  BY <1>0 DEF CompInv, Reads, TypeOK, Outer!Asked
<1>3. QueueInv'
  BY <1>0 DEF QueueInv, Waiting, Places, Child, TypeOK
<1>4. ChildInv'
  <2> SUFFICES ASSUME NEW w \in Workers, NEW i \in Places(w)
               PROVE  (Waiting(Child(w, i)) /\ Served(w, Child(w, i)))'
    BY <1>0 DEF ChildInv, Places, Child
  <2>1. Waiting(Child(w, i)) /\ Served(w, Child(w, i)) BY DEF ChildInv
  <2>2. Child(w, i) # c BY <2>1, <1>0 DEF Waiting
  <2>3. UNCHANGED <<worker[w], inner[w], calls[Child(w, i)], comp[Child(w, i)]>>
    BY <1>0, <2>2 DEF Child, TypeOK
  <2> QED BY <2>1, <2>3, ChildKept
<1>5. GatherInv' BY <1>0 DEF GatherInv, At
<1> QED BY <1>1, <1>2, <1>3, <1>4, <1>5

LEMMA TakeInv == ASSUME IInv, NEW c \in Callers, Take(c) PROVE IInv'
<1> USE DEF IInv
<1>0. /\ calls[c].state = "answered" /\ calls' = [calls EXCEPT ![c] = Outer!Idle]
      /\ UNCHANGED <<inner, queue_, mutex_, comp, worker, abort_>>
  BY DEF Take, Outer!Take, muxVars
<1>1. TypeOK' BY <1>0 DEF TypeOK, Outer!Computation, Outer!Idle
<1>2. CompInv' BY <1>0 DEF CompInv, Reads, TypeOK
<1>3. QueueInv' BY <1>0 DEF QueueInv, Waiting, Places, Child, TypeOK
<1>4. ChildInv'
  <2> SUFFICES ASSUME NEW w \in Workers, NEW i \in Places(w)
               PROVE  (Waiting(Child(w, i)) /\ Served(w, Child(w, i)))'
    BY <1>0 DEF ChildInv, Places, Child
  <2>1. Waiting(Child(w, i)) /\ Served(w, Child(w, i)) BY DEF ChildInv
  <2>2. UNCHANGED <<worker[w], inner[w], calls[Child(w, i)], comp[Child(w, i)]>>
    BY <1>0, <2>1 DEF Child, TypeOK, Waiting
  <2> QED BY <2>1, <2>2, ChildKept
<1>5. GatherInv' BY <1>0 DEF GatherInv, At
<1> QED BY <1>1, <1>2, <1>3, <1>4, <1>5

LEMMA GoIs ==
  ASSUME TypeOK, NEW w \in Workers,
         NEW place \in {"loop", "asleep", "gather", "compute", "notify", "gone"},
         Go(w, place)
  PROVE  /\ worker' \in [Workers -> Worker] /\ worker'[w].at = place
         /\ worker'[w].planes = worker[w].planes
         /\ worker'[w].children = worker[w].children
         /\ \A v \in Workers : v # w => worker'[v] = worker[v]
<1>1. [worker[w] EXCEPT !.at = place] \in Worker BY DEF TypeOK, Worker
<1>2. worker' = [worker EXCEPT ![w] = [worker[w] EXCEPT !.at = place]] BY DEF Go
<1>3. worker'[w] = [worker[w] EXCEPT !.at = place] BY <1>2 DEF TypeOK
<1> QED BY <1>1, <1>2, <1>3 DEF TypeOK, Worker

\* cv_.notify_one and notify_all change nothing but who is asleep.
LEMMA WakeIs ==
  ASSUME TypeOK, worker' \in WakeOne(worker) \/ worker' = WakeAll(worker)
  PROVE  /\ worker' \in [Workers -> Worker]
         /\ \A w \in Workers :
              /\ worker'[w].planes = worker[w].planes
              /\ worker'[w].children = worker[w].children
              /\ worker'[w] # worker[w] => At(w, "asleep") /\ worker'[w].at = "loop"
<1>1. CASE worker' \in WakeOne(worker)
  <2>1. \/ worker' = worker
        \/ \E u \in Workers : At(u, "asleep") /\ Go(u, "loop")
    BY <1>1 DEF WakeOne, At, Go
  <2>2. CASE worker' = worker BY <2>2 DEF TypeOK
  <2>3. ASSUME NEW u \in Workers, At(u, "asleep"), Go(u, "loop")
        PROVE  /\ worker' \in [Workers -> Worker]
               /\ \A w \in Workers :
                    /\ worker'[w].planes = worker[w].planes
                    /\ worker'[w].children = worker[w].children
                    /\ worker'[w] # worker[w] => At(w, "asleep") /\ worker'[w].at = "loop"
    BY <2>3, GoIs
  <2> QED BY <2>1, <2>2, <2>3
<1>2. CASE worker' = WakeAll(worker)
  <2>1. \A w \in Workers :
          worker'[w] = IF worker[w].at = "asleep" THEN [worker[w] EXCEPT !.at = "loop"]
                       ELSE worker[w]
    BY <1>2 DEF WakeAll
  <2>2. worker' = [w \in Workers |-> worker'[w]] BY <1>2, Zenon DEF WakeAll
  <2>3. \A w \in Workers :
          /\ worker'[w] \in Worker
          /\ worker'[w].planes = worker[w].planes
          /\ worker'[w].children = worker[w].children
          /\ worker'[w] # worker[w] => At(w, "asleep") /\ worker'[w].at = "loop"
    BY <2>1 DEF TypeOK, Worker, At
  <2> QED BY <2>2, <2>3
<1> QED BY <1>1, <1>2

\* A child of a worker that was at most woken up.
LEMMA ChildOfWoken ==
  ASSUME TypeOK, worker' \in WakeOne(worker) \/ worker' = WakeAll(worker),
         NEW w \in Workers, NEW i \in Places(w),
         Waiting(Child(w, i)), Served(w, Child(w, i)),
         UNCHANGED <<inner[w], calls[Child(w, i)], comp[Child(w, i)]>>
  PROVE  (Waiting(Child(w, i)) /\ Served(w, Child(w, i)))'
<1>1. CASE worker'[w] = worker[w] BY <1>1, ChildKept
<1>2. CASE worker'[w] # worker[w]
  <2>1. ~At(w, "gather")' /\ ~At(w, "compute")' /\ ~At(w, "notify")'
    BY <1>2, WakeIs DEF At
  <2>2. Waiting(Child(w, i))' BY WakeIs DEF Waiting, Child
  <2> QED BY <2>1, <2>2 DEF Served
<1> QED BY <1>1, <1>2

LEMMA EnqueueInv == ASSUME IInv, NEW c \in Callers, Enqueue(c) PROVE IInv'
<1> USE DEF IInv
<1>0. /\ calls[c].state = "asked" /\ ~comp[c].enqueued /\ queue_' = Append(queue_, c)
      /\ comp' = [comp EXCEPT ![c].enqueued = TRUE]
      /\ worker' \in WakeOne(worker)
      /\ mutex_ = None /\ UNCHANGED <<calls, inner, mutex_, abort_>>
  BY DEF Enqueue
<1>a. /\ comp'[c].enqueued /\ comp'[c].idx = comp[c].idx
      /\ comp'[c].parent = comp[c].parent /\ comp'[c].dataready = comp[c].dataready
      /\ \A d \in Callers : d # c => comp'[d] = comp[d]
      /\ comp' \in [Callers -> Comp]
  BY <1>0 DEF TypeOK, Comp
<1>b. ~comp[c].dataready BY <1>0 DEF CompInv
<1>c. /\ DOMAIN queue_' = DOMAIN queue_ \cup {Len(queue_) + 1}
      /\ queue_'[Len(queue_) + 1] = c
      /\ \A i \in DOMAIN queue_ : queue_'[i] = queue_[i]
      /\ queue_' \in Seq(Callers) /\ queue_' # <<>>
  BY <1>0 DEF TypeOK
<1>d. \A w \in Workers : Places(w)' = Places(w)
        /\ \A i \in Places(w) : Child(w, i)' = Child(w, i)
  BY <1>0, WakeIs DEF Places, Child
<1>e. \A w \in Workers : \A i \in Places(w) : Child(w, i) # c
  BY <1>0 DEF ChildInv, Waiting
<1>f. \A i \in DOMAIN queue_ : queue_[i] # c /\ queue_[i] \in Callers
  BY <1>0 DEF QueueInv, Waiting, TypeOK
<1>1. TypeOK' BY <1>0, <1>a, <1>c, WakeIs DEF TypeOK
<1>2. CompInv' BY <1>0, <1>a, <1>b DEF CompInv, Reads
<1>3. QueueInv'
  <2>1. \A i \in DOMAIN queue_' : Waiting(queue_[i])'
    <3> SUFFICES ASSUME NEW i \in DOMAIN queue_' PROVE Waiting(queue_[i])' OBVIOUS
    <3>1. CASE i \in DOMAIN queue_
      BY <3>1, <1>0, <1>a, <1>c, <1>f DEF QueueInv, Waiting
    <3>2. CASE i = Len(queue_) + 1 BY <3>2, <1>0, <1>a, <1>b, <1>c DEF Waiting
    <3> QED BY <3>1, <3>2, <1>c
  <2>2. \A i, j \in DOMAIN queue_' : i # j => queue_'[i] # queue_'[j]
    BY <1>c, <1>f DEF QueueInv
  <2>3. \A i \in DOMAIN queue_' : \A w \in Workers : \A j \in Places(w) :
          Child(w, j) # queue_'[i]
    BY <1>c, <1>e DEF QueueInv
  <2> QED BY <2>1, <2>2, <2>3, <1>d DEF QueueInv
<1>4. ChildInv'
  <2>1. \A w \in Workers : \A i \in Places(w) :
          (Waiting(Child(w, i)) /\ Served(w, Child(w, i)))'
    <3> SUFFICES ASSUME NEW w \in Workers, NEW i \in Places(w)
                 PROVE  (Waiting(Child(w, i)) /\ Served(w, Child(w, i)))'
      OBVIOUS
    <3>1. Waiting(Child(w, i)) /\ Served(w, Child(w, i)) BY DEF ChildInv
    <3>2. Child(w, i) \in Callers BY Types DEF Child, Places, Worker
    <3>3. UNCHANGED <<inner[w], calls[Child(w, i)], comp[Child(w, i)]>>
      BY <1>0, <1>a, <1>e, <3>2, <1>d
    <3> QED BY <3>1, <3>3, <1>0, ChildOfWoken
  <2> QED BY <2>1, <1>d DEF ChildInv
<1>5. GatherInv' BY <1>0, <1>c, WakeIs DEF GatherInv, At
<1> QED BY <1>1, <1>2, <1>3, <1>4, <1>5

LEMMA ReturnInv == ASSUME IInv, NEW c \in Callers, Return(c) PROVE IInv'
<1> USE DEF IInv
<1>0. /\ comp[c].dataready /\ comp[c].enqueued /\ calls[c].state = "asked"
      /\ Reads(c, comp[c].parent)
      /\ comp' = [comp EXCEPT ![c] = NewComp]
      /\ UNCHANGED <<inner, queue_, mutex_, worker, abort_>>
  BY DEF Return, CompInv
<1>a. /\ calls' = [calls EXCEPT ![c] = Outer!Answered(Outer!EvalAll(calls[c].planes))]
      /\ calls[c].planes \in Seq(Inputs)
  <2>1. calls[c].planes \in Seq(Inputs) BY <1>0, Types
  <2>2. [s \in 1 .. Len(calls[c].planes) |-> Sample(c, s)] = Outer!EvalAll(calls[c].planes)
    BY <1>0 DEF Reads, Sample, Outer!EvalAll
  <2> QED BY <2>1, <2>2 DEF Return
<1>b. /\ comp'[c] = NewComp /\ comp' \in [Callers -> Comp]
      /\ \A d \in Callers : d # c => calls'[d] = calls[d] /\ comp'[d] = comp[d]
  BY <1>0, <1>a DEF TypeOK, Comp, NewComp
<1>1. TypeOK'
  <2>1. Outer!EvalAll(calls[c].planes) \in Seq(Outer!Outputs) BY <1>a, EvalAllIs
  <2>2. calls' \in [Callers -> Outer!Computation]
    BY <1>a, <2>1 DEF TypeOK, Outer!Computation, Outer!Answered
  <2> QED BY <2>2, <1>0, <1>b DEF TypeOK
<1>2. CompInv' BY <1>0, <1>b DEF CompInv, Reads, NewComp
<1>3. QueueInv'
  <2>1. \A i \in DOMAIN queue_ : queue_[i] \in Callers /\ queue_[i] # c
    BY <1>0 DEF TypeOK, QueueInv, Waiting
  <2> QED BY <2>1, <1>0, <1>b DEF QueueInv, Waiting, Places, Child
<1>4. ChildInv'
  <2> SUFFICES ASSUME NEW w \in Workers, NEW i \in Places(w)
               PROVE  (Waiting(Child(w, i)) /\ Served(w, Child(w, i)))'
    BY <1>0 DEF ChildInv, Places, Child
  <2>1. Waiting(Child(w, i)) /\ Served(w, Child(w, i)) BY DEF ChildInv
  <2>2. Child(w, i) \in Callers BY Types DEF Child, Places, Worker
  <2>3. UNCHANGED <<worker[w], inner[w], calls[Child(w, i)], comp[Child(w, i)]>>
    BY <1>0, <1>b, <2>1, <2>2 DEF Child, Waiting
  <2> QED BY <2>1, <2>3, ChildKept
<1>5. GatherInv' BY <1>0 DEF GatherInv, At
<1> QED BY <1>1, <1>2, <1>3, <1>4, <1>5
-----------------------------------------------------------------------------
(* The steps of a worker. *)

\* A child of another worker than the one that steps.
LEMMA OthersKept ==
  ASSUME IInv, NEW w \in Workers, NEW v \in Workers, NEW i \in Places(v), v # w,
         UNCHANGED <<calls, worker[v], inner[v], comp[Child(v, i)]>>
  PROVE  (Waiting(Child(v, i)) /\ Served(v, Child(v, i)))'
<1>1. Waiting(Child(v, i)) /\ Served(v, Child(v, i)) BY DEF IInv, ChildInv
<1>2. UNCHANGED calls[Child(v, i)] BY DEF Child
<1> QED BY <1>1, <1>2, ChildKept

LEMMA LoopInv == ASSUME IInv, NEW w \in Workers, Loop(w) PROVE IInv'
<1> USE DEF IInv
<1>0. At(w, "loop") /\ mutex_ = None /\ UNCHANGED <<calls, inner, queue_, comp, abort_>>
  BY DEF Loop
<1>a. /\ worker' \in [Workers -> Worker] /\ mutex_' \in Workers \cup {None}
      /\ \A v \in Workers : v # w => worker'[v] = worker[v]
      /\ \/ /\ worker'[w].children = worker[w].children /\ mutex_' = mutex_
            /\ ~At(w, "gather")' /\ ~At(w, "compute")' /\ ~At(w, "notify")'
         \/ /\ worker'[w].children = <<>> /\ worker'[w].planes = <<>> /\ queue_ # <<>>
            /\ mutex_' = w /\ ~At(w, "compute")' /\ ~At(w, "notify")'
  <2>1. CASE abort_ BY <2>1, GoIs DEF Loop, At, TypeOK
  <2>2. CASE ~abort_ /\ queue_ = <<>> BY <2>2, GoIs DEF Loop, At, TypeOK
  <2>3. CASE ~abort_ /\ queue_ # <<>>
    <3>1. /\ worker' = [worker EXCEPT ![w] =
                          [at |-> "gather", planes |-> <<>>, children |-> <<>>]]
          /\ mutex_' = w
      BY <2>3 DEF Loop
    <3>2. [at |-> "gather", planes |-> <<>>, children |-> <<>>] \in Worker BY DEF Worker
    <3> QED BY <3>1, <3>2, <2>3 DEF TypeOK, At
  <2> QED BY <2>1, <2>2, <2>3
<1>b. \A v \in Workers : \A i \in Places(v)' :
        i \in Places(v) /\ Child(v, i)' = Child(v, i)
  BY <1>a DEF Places, Child
<1>1. TypeOK' BY <1>0, <1>a DEF TypeOK
<1>2. CompInv' BY <1>0 DEF CompInv, Reads
<1>3. QueueInv' BY <1>0, <1>b DEF QueueInv, Waiting
<1>4. ChildInv'
  <2>1. ASSUME NEW v \in Workers, NEW i \in Places(v)'
        PROVE  (Waiting(Child(v, i)) /\ Served(v, Child(v, i)))'
    <3>1. CASE v # w BY <3>1, <1>0, <1>a, <1>b, OthersKept
    <3>2. CASE v = w
      <4>1. Waiting(Child(v, i))' BY <1>0, <1>b, <2>1 DEF ChildInv, Waiting
      <4>2. CASE ~At(w, "gather")' BY <4>1, <4>2, <3>2, <1>a DEF Served
      <4>3. CASE At(w, "gather")' BY <4>3, <3>2, <1>a, <2>1 DEF Places
      <4> QED BY <4>2, <4>3
    <3> QED BY <3>1, <3>2
  <2> QED BY <2>1, <1>b DEF ChildInv
<1>5. GatherInv' BY <1>0, <1>a DEF GatherInv, At
<1> QED BY <1>1, <1>2, <1>3, <1>4, <1>5

LEMMA PopulateInv == ASSUME IInv, NEW w \in Workers, PopulateToParent(w) PROVE IInv'
<1> USE DEF IInv
<1>d. PICK c \in Callers, planes \in Seq(Inputs), children \in Seq(Callers), last \in Nat :
        /\ c = Head(queue_) /\ planes = worker[w].planes
        /\ children = worker[w].children /\ last = Len(children) + 1
  <2>1. queue_ \in Seq(Callers) /\ queue_ # <<>> BY Types DEF PopulateToParent, TakesNext
  <2>2. Head(queue_) \in Callers BY <2>1
  <2>3. worker[w].planes \in Seq(Inputs) /\ worker[w].children \in Seq(Callers)
    BY Types DEF Worker
  <2>4. Len(worker[w].children) + 1 \in Nat BY <2>3
  <2> QED BY <2>2, <2>3, <2>4
<1>0. /\ At(w, "gather") /\ queue_ # <<>>
      /\ comp' = [comp EXCEPT ![c].idx = Len(planes)]
      /\ worker' = [worker EXCEPT ![w].planes = planes \o calls[c].planes,
                                  ![w].children = Append(children, c)]
      /\ queue_' = Tail(queue_)
      /\ UNCHANGED <<calls, inner, mutex_, abort_>>
  BY <1>d DEF PopulateToParent, TakesNext, IdxInParent
<1>t. queue_ \in Seq(Callers) /\ Len(planes) \in Nat BY Types
<1>q. /\ 1 \in DOMAIN queue_ /\ queue_[1] = c /\ queue_' \in Seq(Callers)
      /\ \A i \in DOMAIN queue_' : i + 1 \in DOMAIN queue_ /\ i + 1 # 1
                                   /\ queue_'[i] = queue_[i + 1]
  BY <1>0, <1>t, <1>d
<1>c. /\ Waiting(c) /\ \A i \in DOMAIN queue_' : queue_'[i] # c
      /\ \A v \in Workers : \A i \in Places(v) : Child(v, i) # c
  BY <1>q DEF QueueInv
<1>p. calls[c].planes \in Seq(Inputs) /\ calls[c].state = "asked"
  BY <1>c, <1>t, Types DEF Waiting
<1>a. /\ comp' \in [Callers -> Comp]
      /\ comp'[c].idx = Len(planes) /\ comp'[c].enqueued = comp[c].enqueued
      /\ comp'[c].dataready = comp[c].dataready
      /\ \A d \in Callers : d # c => comp'[d] = comp[d]
  BY <1>0, <1>t DEF TypeOK, Comp
<1>w. /\ worker' \in [Workers -> Worker]
      /\ worker'[w].at = "gather" /\ worker'[w].planes = planes \o calls[c].planes
      /\ worker'[w].children = Append(children, c)
      /\ \A v \in Workers : v # w => worker'[v] = worker[v]
  <2>1. worker' = [worker EXCEPT ![w] =
                    [worker[w] EXCEPT !.planes = planes \o calls[c].planes,
                                      !.children = Append(children, c)]]
    BY <1>0
  <2>2. planes \o calls[c].planes \in Seq(Inputs) /\ Append(children, c) \in Seq(Callers)
    BY <1>t, <1>p
  <2>3. [worker[w] EXCEPT !.planes = planes \o calls[c].planes,
                          !.children = Append(children, c)] \in Worker
    BY <2>2 DEF TypeOK, Worker
  <2>4. worker'[w] = [worker[w] EXCEPT !.planes = planes \o calls[c].planes,
                                       !.children = Append(children, c)]
    BY <2>1 DEF TypeOK
  <2>5. \A v \in Workers : v # w => worker'[v] = worker[v] BY <2>1 DEF TypeOK
  <2>6. worker' \in [Workers -> Worker] BY <2>1, <2>3 DEF TypeOK
  <2>7. /\ worker'[w].at = "gather" /\ worker'[w].planes = planes \o calls[c].planes
        /\ worker'[w].children = Append(children, c)
    BY <2>4, <1>0, Types DEF Worker, At
  <2> QED BY <2>5, <2>6, <2>7
<1>k. /\ \A v \in Workers : v # w =>
           Places(v)' = Places(v) /\ \A i \in Places(v) : Child(v, i)' = Child(v, i)
      /\ Places(w)' = Places(w) \cup {last}
      /\ \A i \in Places(w) : Child(w, i)' = Child(w, i)
      /\ Child(w, last)' = c /\ last \notin Places(w)
  <2>1. \A v \in Workers : v # w =>
           Places(v)' = Places(v) /\ \A i \in Places(v) : Child(v, i)' = Child(v, i)
    BY <1>w DEF Places, Child
  <2>2. /\ DOMAIN Append(children, c) = DOMAIN children \cup {last}
        /\ \A i \in DOMAIN children : Append(children, c)[i] = children[i]
        /\ Append(children, c)[last] = c /\ last \notin DOMAIN children
    BY <1>d
  <2> QED BY <2>1, <2>2, <1>w, <1>d DEF Places, Child
<1>1. TypeOK' BY <1>0, <1>a, <1>w, <1>q DEF TypeOK
<1>2. CompInv' BY <1>0, <1>a, <1>c DEF CompInv, Reads, Waiting
<1>3. QueueInv'
  <2>1. \A i \in DOMAIN queue_' : Waiting(queue_[i])'
    BY <1>0, <1>a, <1>q, <1>c DEF QueueInv, Waiting, TypeOK
  <2>2. \A i, j \in DOMAIN queue_' : i # j => queue_'[i] # queue_'[j]
    <3> SUFFICES ASSUME NEW i \in DOMAIN queue_', NEW j \in DOMAIN queue_', i # j
                 PROVE  queue_'[i] # queue_'[j]
      OBVIOUS
    <3>1. i + 1 # j + 1 BY <1>q, <1>t
    <3> QED BY <3>1, <1>q DEF QueueInv
  <2>3. \A i \in DOMAIN queue_' : \A v \in Workers : \A j \in Places(v)' :
          Child(v, j)' # queue_'[i]
    BY <1>q, <1>c, <1>k DEF QueueInv
  <2> QED BY <2>1, <2>2, <2>3 DEF QueueInv
<1>4. ChildInv'
  <2>1. ASSUME NEW v \in Workers, NEW i \in Places(v)'
        PROVE  (Waiting(Child(v, i)) /\ Served(v, Child(v, i)))'
    <3>1. CASE v # w
      <4>1. i \in Places(v) /\ Child(v, i) # c /\ Child(v, i)' = Child(v, i)
        BY <3>1, <1>k, <1>c, <2>1
      <4>2. Child(v, i) \in Callers BY <4>1, Types DEF Child, Places, Worker
      <4> QED BY <3>1, <4>1, <4>2, <1>0, <1>a, <1>w, OthersKept
    <3>2. CASE v = w /\ i \in Places(w)
      <4>1. /\ Waiting(Child(w, i)) /\ Served(w, Child(w, i)) /\ Child(w, i) # c
            /\ Child(w, i)' = Child(w, i) /\ Child(w, i) \in Callers
        BY <3>2, <1>c, <1>k, Types DEF ChildInv, Child, Places, Worker
      <4>2. Waiting(Child(w, i))' BY <4>1, <1>0, <1>a DEF Waiting
      <4>3. Reads(Child(w, i), Outer!EvalAll(planes)) BY <4>1, <1>0, <1>d DEF Served
      <4>4. calls[Child(w, i)].planes \in Seq(Inputs) /\ comp[Child(w, i)].idx \in Nat
        BY <4>1, Types DEF Waiting, Comp
      <4>5. Reads(Child(w, i), Outer!EvalAll(worker[w].planes))'
        <5>1. /\ calls'[Child(w, i)'] = calls[Child(w, i)]
              /\ comp'[Child(w, i)'].idx = comp[Child(w, i)].idx
          BY <4>1, <1>0, <1>a
        <5>2. \A k \in 1 .. Len(Outer!EvalAll(planes)) :
                /\ k \in 1 .. Len(Outer!EvalAll(planes \o calls[c].planes))
                /\ Outer!EvalAll(planes \o calls[c].planes)[k] = Outer!EvalAll(planes)[k]
          BY <1>p, EvalAllAppend
        <5> QED BY <4>3, <5>1, <5>2, <1>w DEF Reads
      <4> QED BY <4>2, <4>5, <3>2, <1>w DEF Served, At
    <3>3. CASE v = w /\ i = last
      <4>1. Child(v, i)' = c BY <3>3, <1>k
      <4>2. Waiting(Child(v, i))' BY <4>1, <1>0, <1>a, <1>c DEF Waiting
      <4>3. Reads(Child(v, i), Outer!EvalAll(worker[w].planes))'
        <5>1. calls'[Child(v, i)'] = calls[c] /\ comp'[Child(v, i)'].idx = Len(planes)
          BY <4>1, <1>0, <1>a
        <5>2. \A s \in 1 .. Len(calls[c].planes) :
                /\ s + Len(planes) \in 1 .. Len(Outer!EvalAll(planes \o calls[c].planes))
                /\ Outer!EvalAll(planes \o calls[c].planes)[s + Len(planes)]
                     = Eval[calls[c].planes[s]]
          BY <1>p, EvalAllAppend
        <5> QED BY <5>1, <5>2, <1>w DEF Reads
      <4> QED BY <4>2, <4>3, <3>3, <1>w DEF Served, At
    <3> QED BY <3>1, <3>2, <3>3, <1>k, <2>1
  <2>2. \A v \in Workers : \A i \in Places(v)' :
          \A u \in Workers : \A j \in Places(u)' :
            <<u, j>> # <<v, i>> => Child(u, j)' # Child(v, i)'
    BY <1>k, <1>c DEF ChildInv
  <2> QED BY <2>1, <2>2 DEF ChildInv
<1>5. GatherInv'
  <2>1. \A v \in Workers : At(v, "gather") => v = w BY <1>0 DEF GatherInv
  <2>2. worker'[w].children # <<>>
    <3>1. Append(children, c)[last] = c /\ last \in DOMAIN Append(children, c) BY <1>d
    <3>2. DOMAIN <<>> = {} OBVIOUS
    <3> QED BY <3>1, <3>2, <1>w
  <2> QED BY <2>1, <2>2, <1>0, <1>w DEF GatherInv, At
<1> QED BY <1>1, <1>2, <1>3, <1>4, <1>5

LEMMA ComputeInv == ASSUME IInv, NEW w \in Workers, Compute(w) PROVE IInv'
<1> USE DEF IInv
<1>0. /\ At(w, "gather") /\ ~TakesNext(w) /\ mutex_' = None
      /\ inner' = [inner EXCEPT ![w] = Inner!Asked(worker[w].planes)]
      /\ worker' = [worker EXCEPT ![w].at = "compute", ![w].planes = <<>>]
      /\ UNCHANGED <<calls, queue_, comp, abort_>>
  BY DEF Compute, Inner!Ask
<1>t. worker[w] \in Worker /\ worker[w].planes \in Seq(Inputs) BY Types DEF Worker
<1>w. /\ worker' \in [Workers -> Worker] /\ worker'[w].at = "compute"
      /\ worker'[w].children = worker[w].children
      /\ \A v \in Workers : v # w => worker'[v] = worker[v]
  <2>1. [worker[w] EXCEPT !.at = "compute", !.planes = <<>>] \in Worker
    <3>1. <<>> \in Seq(Inputs) OBVIOUS
    <3> QED BY <1>t, <3>1 DEF Worker
  <2>2. worker'[w] = [worker[w] EXCEPT !.at = "compute", !.planes = <<>>]
    BY <1>0 DEF TypeOK
  <2>3. worker' = [worker EXCEPT ![w] = [worker[w] EXCEPT !.at = "compute", !.planes = <<>>]]
    BY <1>0
  <2> QED BY <1>t, <2>1, <2>2, <2>3 DEF TypeOK, Worker
<1>i. /\ inner' \in [Workers -> Inner!Computation]
      /\ inner'[w].state = "asked" /\ inner'[w].planes = worker[w].planes
      /\ \A v \in Workers : v # w => inner'[v] = inner[v]
  <2>1. Inner!Asked(worker[w].planes) \in Inner!Computation
    BY <1>t DEF Inner!Asked, Inner!Computation
  <2> QED BY <1>0, <2>1 DEF TypeOK, Inner!Asked
<1>k. \A v \in Workers : Places(v)' = Places(v)
        /\ \A i \in Places(v) : Child(v, i)' = Child(v, i)
  BY <1>w DEF Places, Child
<1>1. TypeOK' BY <1>0, <1>i, <1>w DEF TypeOK
<1>2. CompInv' BY <1>0 DEF CompInv, Reads
<1>3. QueueInv' BY <1>0, <1>k DEF QueueInv, Waiting
<1>4. ChildInv'
  <2>1. ASSUME NEW v \in Workers, NEW i \in Places(v)
        PROVE  (Waiting(Child(v, i)) /\ Served(v, Child(v, i)))'
    <3>1. CASE v # w BY <3>1, <1>0, <1>i, <1>w, <1>k, OthersKept
    <3>2. CASE v = w
      <4>1. Waiting(Child(w, i)) /\ Reads(Child(w, i), Outer!EvalAll(worker[w].planes))
        BY <3>2, <1>0 DEF ChildInv, Served
      <4>2. Waiting(Child(w, i))' BY <4>1, <3>2, <1>0, <1>k DEF Waiting
      <4>3. Reads(Child(w, i), Outer!EvalAll(inner[w].planes))'
        BY <4>1, <3>2, <1>0, <1>i, <1>k DEF Reads
      <4> QED BY <4>2, <4>3, <3>2, <1>w, <1>i DEF Served, At
    <3> QED BY <3>1, <3>2
  <2> QED BY <2>1, <1>k DEF ChildInv
<1>5. GatherInv'
  <2>1. worker[w].children # <<>> BY <1>0 DEF GatherInv, TakesNext
  <2>2. \A v \in Workers : At(v, "gather") => v = w BY <1>0 DEF GatherInv
  <2> QED BY <2>1, <2>2, <1>0, <1>w DEF GatherInv, At
<1> QED BY <1>1, <1>2, <1>3, <1>4, <1>5

LEMMA ComputedInv == ASSUME IInv, NEW w \in Workers, Computed(w) PROVE IInv'
<1> USE DEF IInv
<1>0. /\ At(w, "compute") /\ inner[w].state = "answered"
      /\ comp' = [c \in Callers |->
           IF c \in Gathered(w) THEN [comp[c] EXCEPT !.parent = inner[w].out] ELSE comp[c]]
      /\ inner' = [inner EXCEPT ![w] = Inner!Idle]
      /\ Go(w, "notify")
      /\ UNCHANGED <<calls, queue_, mutex_, abort_>>
  BY DEF Computed, Inner!Take
<1>w. /\ worker' \in [Workers -> Worker] /\ worker'[w].at = "notify"
      /\ worker'[w].children = worker[w].children
      /\ \A v \in Workers : v # w => worker'[v] = worker[v]
  BY <1>0, GoIs
<1>i. /\ inner' \in [Workers -> Inner!Computation]
      /\ \A v \in Workers : v # w => inner'[v] = inner[v]
  BY <1>0 DEF TypeOK, Inner!Computation
<1>o. inner[w].out \in Seq(Outer!Outputs)
  BY <1>0, Types, SameEvaluation DEF Inner!Computation, Inner!Idle
<1>c. /\ comp' \in [Callers -> Comp]
      /\ \A c \in Callers :
           /\ comp'[c].enqueued = comp[c].enqueued
           /\ comp'[c].dataready = comp[c].dataready
           /\ comp'[c].idx = comp[c].idx
           /\ c \in Gathered(w) => comp'[c].parent = inner[w].out
           /\ c \notin Gathered(w) => comp'[c] = comp[c]
  <2>1. \A c \in Callers :
          comp'[c] = IF c \in Gathered(w) THEN [comp[c] EXCEPT !.parent = inner[w].out]
                     ELSE comp[c]
    BY <1>0
  <2>2. \A c \in Callers : comp[c] \in Comp BY DEF TypeOK
  <2>3. \A c \in Callers :
          /\ comp'[c] \in Comp
          /\ comp'[c].enqueued = comp[c].enqueued
          /\ comp'[c].dataready = comp[c].dataready
          /\ comp'[c].idx = comp[c].idx
          /\ c \in Gathered(w) => comp'[c].parent = inner[w].out
          /\ c \notin Gathered(w) => comp'[c] = comp[c]
    BY <2>1, <2>2, <1>o DEF Comp
  <2>4. comp' = [c \in Callers |-> comp'[c]] BY <1>0, Zenon
  <2> QED BY <2>3, <2>4
<1>g. \A c \in Gathered(w) : ~comp[c].dataready
  BY DEF Gathered, ChildInv, Waiting, Places, Child
<1>k. \A v \in Workers : Places(v)' = Places(v)
        /\ \A i \in Places(v) : Child(v, i)' = Child(v, i)
  BY <1>w DEF Places, Child
<1>1. TypeOK' BY <1>0, <1>i, <1>w, <1>c DEF TypeOK
<1>2. CompInv'
  <2>1. ASSUME NEW c \in Callers, comp'[c].dataready
        PROVE  comp'[c].enqueued /\ Reads(c, comp[c].parent)'
    <3>1. comp[c].dataready BY <1>c, <2>1
    <3>2. comp'[c] = comp[c] BY <1>c, <1>g, <3>1
    <3>3. comp[c].enqueued /\ Reads(c, comp[c].parent) BY <3>1 DEF CompInv
    <3> QED BY <1>0, <3>2, <3>3 DEF Reads
  <2>2. \A c \in Callers : comp'[c].enqueued => calls'[c].state = "asked"
    BY <1>0, <1>c DEF CompInv
  <2> QED BY <2>1, <2>2 DEF CompInv, Reads
<1>3. QueueInv'
  <2>1. \A i \in DOMAIN queue_ : queue_[i] \in Callers BY Types
  <2> QED BY <2>1, <1>0, <1>c, <1>k DEF QueueInv, Waiting
<1>4. ChildInv'
  <2>1. ASSUME NEW v \in Workers, NEW i \in Places(v)
        PROVE  (Waiting(Child(v, i)) /\ Served(v, Child(v, i)))'
    <3>0. Waiting(Child(v, i)) /\ Served(v, Child(v, i)) BY DEF ChildInv
    <3>t. Child(v, i) \in Callers BY Types DEF Child, Places, Worker
    <3>1. CASE v # w
      <4>1. Child(v, i) \notin Gathered(w)
        BY <3>1 DEF ChildInv, Gathered, Places, Child
      <4> QED BY <3>1, <3>t, <4>1, <1>0, <1>i, <1>w, <1>c, <1>k, OthersKept
    <3>2. CASE v = w
      <4>1. Child(w, i) \in Gathered(w) BY <3>2 DEF Gathered, Child, Places
      <4>2. Reads(Child(w, i), inner[w].out) BY <3>0, <3>2, <1>0 DEF Served
      <4>3. Waiting(Child(w, i))' BY <3>0, <3>2, <3>t, <1>0, <1>c, <1>k DEF Waiting
      <4>4. Reads(Child(w, i), comp[Child(w, i)].parent)'
        BY <4>1, <4>2, <3>2, <3>t, <1>0, <1>c, <1>k DEF Reads
      <4> QED BY <4>3, <4>4, <3>2, <1>w DEF Served, At
    <3> QED BY <3>1, <3>2
  <2> QED BY <2>1, <1>k DEF ChildInv
<1>5. GatherInv' BY <1>0, <1>w DEF GatherInv, At
<1> QED BY <1>1, <1>2, <1>3, <1>4, <1>5

LEMMA NotifyInv == ASSUME IInv, NEW w \in Workers, NotifyReady(w) PROVE IInv'
<1> USE DEF IInv
<1>d. PICK h \in Callers, children \in Seq(Callers) :
        children = worker[w].children /\ children # <<>> /\ h = Head(children)
  <2>1. worker[w].children \in Seq(Callers) /\ worker[w].children # <<>>
    BY Types DEF NotifyReady, GatherInv, Worker
  <2>2. Head(worker[w].children) \in Callers BY <2>1
  <2> QED BY <2>1, <2>2
<1>0. /\ At(w, "notify")
      /\ comp' = [comp EXCEPT ![h].dataready = TRUE]
      /\ worker' = [worker EXCEPT ![w] =
           [worker[w] EXCEPT !.children = Tail(children),
                             !.at = IF Tail(children) = <<>> THEN "loop" ELSE "notify"]]
      /\ UNCHANGED <<calls, inner, queue_, mutex_, abort_>>
  BY <1>d DEF NotifyReady, Remaining
<1>w. /\ worker' \in [Workers -> Worker]
      /\ worker'[w].at = IF Tail(children) = <<>> THEN "loop" ELSE "notify"
      /\ worker'[w].children = Tail(children)
      /\ \A v \in Workers : v # w => worker'[v] = worker[v]
  <2>1. Tail(children) \in Seq(Callers) BY <1>d
  <2>2. worker[w] \in Worker BY Types
  <2>3. PICK r : r = [worker[w] EXCEPT !.children = Tail(children),
                       !.at = IF Tail(children) = <<>> THEN "loop" ELSE "notify"]
    OBVIOUS
  <2>4. /\ r \in Worker /\ r.children = Tail(children)
        /\ r.at = IF Tail(children) = <<>> THEN "loop" ELSE "notify"
    BY <2>1, <2>2, <2>3 DEF Worker
  <2>5. worker' = [worker EXCEPT ![w] = r] BY <1>0, <2>3
  <2> QED BY <2>4, <2>5 DEF TypeOK
<1>c. /\ comp' \in [Callers -> Comp]
      /\ comp'[h].enqueued = comp[h].enqueued /\ comp'[h].idx = comp[h].idx
      /\ comp'[h].parent = comp[h].parent /\ comp'[h].dataready
      /\ \A c \in Callers : c # h => comp'[c] = comp[c]
  BY <1>0 DEF TypeOK, Comp
<1>h. /\ 1 \in Places(w) /\ Child(w, 1) = h
      /\ Waiting(h) /\ Reads(h, comp[h].parent)
  <2>1. 1 \in Places(w) /\ Child(w, 1) = h BY <1>d DEF Places, Child
  <2> QED BY <2>1, <1>0 DEF ChildInv, Served
<1>k. /\ \A v \in Workers : v # w =>
           Places(v)' = Places(v) /\ \A i \in Places(v) : Child(v, i)' = Child(v, i)
      /\ \A i \in Places(w)' : /\ i + 1 \in Places(w) /\ i + 1 # 1 /\ i \in Int
                               /\ Child(w, i)' = Child(w, i + 1)
  <2>1. \A v \in Workers : v # w =>
           Places(v)' = Places(v) /\ \A i \in Places(v) : Child(v, i)' = Child(v, i)
    BY <1>w DEF Places, Child
  <2>2. \A i \in DOMAIN Tail(children) :
          /\ i + 1 \in DOMAIN children /\ i + 1 # 1 /\ i \in Int
          /\ Tail(children)[i] = children[i + 1]
    BY <1>d
  <2> QED BY <2>1, <2>2, <1>w, <1>d DEF Places, Child
<1>n. /\ \A v \in Workers : \A i \in Places(v)' : Child(v, i)' # h
      /\ \A i \in DOMAIN queue_ : queue_[i] # h
  <2>1. ASSUME NEW v \in Workers, NEW i \in Places(v)', v # w PROVE Child(v, i)' # h
    BY <2>1, <1>k, <1>h DEF ChildInv
  <2>2. ASSUME NEW i \in Places(w)' PROVE Child(w, i)' # h
    <3>1. <<w, i + 1>> # <<w, 1>> BY <2>2, <1>k
    <3> QED BY <3>1, <2>2, <1>k, <1>h DEF ChildInv
  <2>3. \A i \in DOMAIN queue_ : queue_[i] # h BY <1>h DEF QueueInv
  <2> QED BY <2>1, <2>2, <2>3
<1>1. TypeOK' BY <1>0, <1>w, <1>c DEF TypeOK
<1>2. CompInv' BY <1>0, <1>c, <1>h DEF CompInv, Reads, Waiting
<1>3. QueueInv'
  <2>1. \A i \in DOMAIN queue_ : queue_[i] \in Callers BY Types
  <2>2. \A i \in DOMAIN queue_ : Waiting(queue_[i])'
    BY <2>1, <1>0, <1>c, <1>n DEF QueueInv, Waiting
  <2>3. \A i \in DOMAIN queue_ : \A v \in Workers : \A j \in Places(v)' :
          Child(v, j)' # queue_[i]
    BY <1>k DEF QueueInv
  <2> QED BY <2>2, <2>3, <1>0 DEF QueueInv
<1>4. ChildInv'
  <2>1. ASSUME NEW v \in Workers, NEW i \in Places(v)'
        PROVE  (Waiting(Child(v, i)) /\ Served(v, Child(v, i)))'
    <3>1. CASE v # w
      <4>1. i \in Places(v) /\ Child(v, i)' = Child(v, i) /\ Child(v, i) # h
        BY <3>1, <2>1, <1>k, <1>n
      <4>2. Child(v, i) \in Callers BY <4>1, Types DEF Child, Places, Worker
      <4> QED BY <3>1, <4>1, <4>2, <1>0, <1>w, <1>c, OthersKept
    <3>2. CASE v = w
      <4>1. PICK c \in Callers : c = Child(w, i + 1) /\ Child(w, i)' = c /\ c # h
                                /\ Waiting(c) /\ Served(w, c)
        <5>1. i + 1 \in Places(w) /\ Child(w, i)' = Child(w, i + 1) /\ Child(w, i)' # h
          BY <2>1, <3>2, <1>k, <1>n
        <5>2. Child(w, i + 1) \in Callers BY <5>1, Types DEF Child, Places, Worker
        <5> QED BY <5>1, <5>2 DEF ChildInv
      <4>2. calls'[c] = calls[c] /\ comp'[c] = comp[c] BY <4>1, <1>0, <1>c
      <4>3. Waiting(Child(v, i))' BY <4>1, <4>2, <3>2 DEF Waiting
      <4>4. Reads(c, comp[c].parent) BY <4>1, <1>0 DEF Served
      <4>5. Reads(Child(v, i), comp[Child(v, i)].parent)'
        BY <4>1, <4>2, <4>4, <3>2 DEF Reads
      <4> QED BY <4>3, <4>5, <3>2, <1>w DEF Served, At
    <3> QED BY <3>1, <3>2
  <2>2. ASSUME NEW v \in Workers, NEW i \in Places(v)',
               NEW u \in Workers, NEW j \in Places(u)', <<u, j>> # <<v, i>>
        PROVE  Child(u, j)' # Child(v, i)'
    <3> DEFINE o(x, k) == IF x = w THEN k + 1 ELSE k
    <3>1. /\ o(v, i) \in Places(v) /\ Child(v, i)' = Child(v, o(v, i))
          /\ o(u, j) \in Places(u) /\ Child(u, j)' = Child(u, o(u, j))
      BY <2>2, <1>k
    <3>2. <<u, o(u, j)>> # <<v, o(v, i)>>
      <4>1. CASE u # v BY <4>1
      <4>2. CASE u = v /\ u # w BY <4>2, <2>2
      <4>3. CASE u = v /\ u = w
        <5>1. i \in Int /\ j \in Int /\ i # j BY <4>3, <2>2, <1>k
        <5> QED BY <5>1, <4>3
      <4> QED BY <4>1, <4>2, <4>3
    <3> QED BY <3>1, <3>2 DEF ChildInv
  <2> QED BY <2>1, <2>2 DEF ChildInv
<1>5. GatherInv' BY <1>0, <1>w DEF GatherInv, At
<1> QED BY <1>1, <1>2, <1>3, <1>4, <1>5
-----------------------------------------------------------------------------
(* The network below, and the destructor. *)

LEMMA InnerInv == ASSUME IInv, NEW w \in Workers, InnerStep(w) PROVE IInv'
<1> USE DEF IInv
<1>0. /\ inner[w].state = "asked"
      /\ inner' = [inner EXCEPT ![w] = Inner!Answered(Outer!EvalAll(inner[w].planes))]
      /\ UNCHANGED <<calls, queue_, mutex_, comp, worker, abort_>>
  BY SameEvaluation DEF InnerStep, Inner!Answer, muxVars
<1>i. /\ inner' \in [Workers -> Inner!Computation]
      /\ inner'[w].state = "answered" /\ inner'[w].out = Outer!EvalAll(inner[w].planes)
      /\ \A v \in Workers : v # w => inner'[v] = inner[v]
  <2>1. inner[w].planes \in Seq(Inputs)
    BY <1>0, Types DEF Inner!Computation, Inner!Idle
  <2>2. Outer!EvalAll(inner[w].planes) \in Seq(Inner!Outputs)
    BY <2>1, EvalAllIs, SameEvaluation
  <2>3. Inner!Answered(Outer!EvalAll(inner[w].planes)) \in Inner!Computation
    BY <2>2 DEF Inner!Answered, Inner!Computation
  <2> QED BY <1>0, <2>3 DEF TypeOK, Inner!Answered
<1>k. \A v \in Workers : Places(v)' = Places(v)
        /\ \A i \in Places(v) : Child(v, i)' = Child(v, i)
  BY <1>0 DEF Places, Child
<1>1. TypeOK' BY <1>0, <1>i DEF TypeOK
<1>2. CompInv' BY <1>0 DEF CompInv, Reads
<1>3. QueueInv' BY <1>0, <1>k DEF QueueInv, Waiting
<1>4. ChildInv'
  <2>1. ASSUME NEW v \in Workers, NEW i \in Places(v)
        PROVE  (Waiting(Child(v, i)) /\ Served(v, Child(v, i)))'
    <3>1. CASE v # w BY <3>1, <1>0, <1>i, <1>k, OthersKept
    <3>2. CASE v = w
      <4>0. Waiting(Child(v, i)) /\ Served(v, Child(v, i)) BY DEF ChildInv
      <4>1. Waiting(Child(v, i))' BY <4>0, <1>0, <1>k DEF Waiting
      <4>2. At(w, "gather") => Reads(Child(v, i), Outer!EvalAll(worker[w].planes))'
        BY <4>0, <3>2, <1>0, <1>k DEF Served, Reads
      <4>3. At(w, "compute") => Reads(Child(v, i), inner[w].out)'
        BY <4>0, <3>2, <1>0, <1>i, <1>k DEF Served, Reads
      <4>4. At(w, "notify") => Reads(Child(v, i), comp[Child(v, i)].parent)'
        BY <4>0, <3>2, <1>0, <1>k DEF Served, Reads
      <4> QED BY <4>1, <4>2, <4>3, <4>4, <3>2, <1>0, <1>i DEF Served, At
    <3> QED BY <3>1, <3>2
  <2> QED BY <2>1, <1>k DEF ChildInv
<1>5. GatherInv' BY <1>0 DEF GatherInv, At
<1> QED BY <1>1, <1>2, <1>3, <1>4, <1>5

LEMMA AbortInv == ASSUME IInv, Abort PROVE IInv'
<1> USE DEF IInv
<1>0. worker' = WakeAll(worker) /\ abort_' = TRUE
      /\ UNCHANGED <<calls, inner, queue_, mutex_, comp>>
  BY DEF Abort
<1>k. \A w \in Workers : Places(w)' = Places(w)
        /\ \A i \in Places(w) : Child(w, i)' = Child(w, i)
  BY <1>0, WakeIs DEF Places, Child
<1>1. TypeOK' BY <1>0, WakeIs DEF TypeOK
<1>2. CompInv' BY <1>0 DEF CompInv, Reads
<1>3. QueueInv' BY <1>0, <1>k DEF QueueInv, Waiting
<1>4. ChildInv'
  <2>1. ASSUME NEW w \in Workers, NEW i \in Places(w)
        PROVE  (Waiting(Child(w, i)) /\ Served(w, Child(w, i)))'
    <3>1. Waiting(Child(w, i)) /\ Served(w, Child(w, i)) BY DEF ChildInv
    <3>2. UNCHANGED <<inner[w], calls[Child(w, i)], comp[Child(w, i)]>> BY <1>0, <1>k
    <3> QED BY <3>1, <3>2, <1>0, ChildOfWoken
  <2> QED BY <2>1, <1>k DEF ChildInv
<1>5. GatherInv' BY <1>0, WakeIs DEF GatherInv, At
<1> QED BY <1>1, <1>2, <1>3, <1>4, <1>5

LEMMA StutterInv == ASSUME IInv, UNCHANGED vars PROVE IInv'
<1> USE DEF IInv
<1>0. UNCHANGED <<calls, inner, queue_, mutex_, comp, worker, abort_>> BY DEF vars, muxVars
<1>1. TypeOK' BY <1>0 DEF TypeOK
<1>2. CompInv' BY <1>0 DEF CompInv, Reads
<1>3. QueueInv' BY <1>0 DEF QueueInv, Waiting, Places, Child
<1>4. ChildInv'
  <2> SUFFICES ASSUME NEW w \in Workers, NEW i \in Places(w)
               PROVE  (Waiting(Child(w, i)) /\ Served(w, Child(w, i)))'
    BY <1>0 DEF ChildInv, Places, Child
  <2> QED BY <1>0, ChildKept DEF ChildInv, Child
<1>5. GatherInv' BY <1>0 DEF GatherInv, At
<1> QED BY <1>1, <1>2, <1>3, <1>4, <1>5

LEMMA NextInv == IInv /\ [Next]_vars => IInv'
<1> SUFFICES ASSUME IInv, [Next]_vars PROVE IInv' OBVIOUS
<1>1. ASSUME NEW c \in Callers, NEW planes \in Batches, Ask(c, planes) PROVE IInv'
  BY <1>1, AskInv
<1>2. ASSUME NEW c \in Callers, CallerStep(c) PROVE IInv'
  BY <1>2, EnqueueInv, ReturnInv DEF CallerStep
<1>3. ASSUME NEW c \in Callers, Take(c) PROVE IInv' BY <1>3, TakeInv
<1>4. ASSUME NEW w \in Workers, WorkerStep(w) PROVE IInv'
  BY <1>4, LoopInv, PopulateInv, ComputeInv, ComputedInv, NotifyInv DEF WorkerStep
<1>5. ASSUME NEW w \in Workers, InnerStep(w) PROVE IInv' BY <1>5, InnerInv
<1> QED BY <1>1, <1>2, <1>3, <1>4, <1>5, AbortInv, StutterInv DEF Next

LEMMA InvAlways == Spec => []IInv
BY InitInv, NextInv, PTL DEF Spec
-----------------------------------------------------------------------------
\* Every variable has the values that its declaration promises: so the offset
\* and the samples that a caller reads are numbers and lists of evaluations.
THEOREM TypeCorrect == Spec => []TypeOK
<1>1. IInv => TypeOK BY DEF IInv
<1> QED BY <1>1, InvAlways, PTL

\* Only Return answers a call, and it answers with the caller's own evaluations.
LEMMA AnswersOwn ==
  ASSUME IInv, NEW c \in Callers, Return(c)
  PROVE  Outer!Answer(c)
<1>1. comp[c].enqueued /\ calls[c].state = "asked" /\ Reads(c, comp[c].parent)
  BY DEF Return, IInv, CompInv
<1>2. [s \in 1 .. Len(calls[c].planes) |-> Sample(c, s)] = Outer!EvalAll(calls[c].planes)
  BY <1>1 DEF Reads, Sample, Outer!EvalAll
<1> QED BY <1>1, <1>2 DEF Return, Outer!Answer

LEMMA EvaluationNext == IInv /\ [Next]_vars => [Outer!Next]_calls
<1> SUFFICES ASSUME IInv, [Next]_vars PROVE Outer!Next \/ UNCHANGED calls OBVIOUS
<1>1. ASSUME NEW c \in Callers, NEW planes \in Batches, Ask(c, planes) PROVE Outer!Next
  BY <1>1 DEF Ask, Outer!Next
<1>2. ASSUME NEW c \in Callers, CallerStep(c) PROVE Outer!Next \/ UNCHANGED calls
  <2>1. CASE Enqueue(c) BY <2>1 DEF Enqueue
  <2>2. CASE Return(c) BY <2>2, AnswersOwn DEF Outer!Next
  <2> QED BY <1>2, <2>1, <2>2 DEF CallerStep
<1>3. ASSUME NEW c \in Callers, Take(c) PROVE Outer!Next BY <1>3 DEF Take, Outer!Next
<1>4. ASSUME NEW w \in Workers, WorkerStep(w) PROVE UNCHANGED calls
  BY <1>4 DEF WorkerStep, Loop, PopulateToParent, Compute, Computed, NotifyReady
<1>5. ASSUME NEW w \in Workers, InnerStep(w) PROVE UNCHANGED calls
  BY <1>5 DEF InnerStep
<1>6. CASE Abort BY <1>6 DEF Abort
<1>7. CASE UNCHANGED vars BY <1>7 DEF vars
<1> QED BY <1>1, <1>2, <1>3, <1>4, <1>5, <1>6, <1>7 DEF Next

\* The muxing network is the network that its callers take it for, however many
\* callers and workers there are and whatever the limit of a batch: each call
\* is answered once, with the evaluations of the caller's own positions
\* (MuxingComputation, network_mux.cc:49-80).
THEOREM MuxEvaluates == Spec => MuxImplementsEvaluation
<1>1. Init => Outer!Init BY DEF Init
<1> QED
  BY <1>1, EvaluationNext, InvAlways, PTL DEF Spec, MuxImplementsEvaluation, Outer!Spec
-----------------------------------------------------------------------------
(* The demuxing network, whose callers are the workers of the mux. *)

HIDE MuxAssumption

\* The places of c in a list of callers.
PlacesIn(q, c) == {i \in DOMAIN q : q[i] = c}
Queued(c) == PlacesIn(demuxQueue, c)

\* The workers that took a part of c and have not begun it, or not reported it.
Busy(w) == Demux!At(w, "add") \/ Demux!At(w, "compute") \/ Demux!At(w, "notify")
Adding(c) == {w \in DemuxWorkers : Demux!At(w, "add") /\ demuxWorker[w].caller = c}
Serving(c) == {w \in DemuxWorkers : Busy(w) /\ demuxWorker[w].caller = c}

\* The account of the parts of c.
DemuxCallInv(c) ==
  /\ inner[c].state = "asked" => inner[c].planes # <<>>
  /\ demuxComp[c].split =>
       /\ inner[c].state = "asked" /\ demuxComp[c].partial_size > 0
       /\ demuxComp[c].toEnqueue + Cardinality(Queued(c)) + Cardinality(Adding(c))
            + Len(demuxComp[c].parents) =
                Demux!RoundUp(Demux!BatchSize(c), demuxComp[c].partial_size)
  /\ ~demuxComp[c].split => demuxComp[c] = Demux!NewComp
  /\ demuxComp[c].dataready =
       demuxComp[c].toEnqueue + Cardinality(Queued(c)) + Cardinality(Serving(c))

\* Part k of c, and where it is computed.
Part(c, k) ==
  LET first == (k - 1) * demuxComp[c].partial_size IN
  SubSeq(inner[c].planes, first + 1, Demux!Minimum(Demux!BatchSize(c), first + demuxComp[c].partial_size))
ComputesPart(w, c, k) == Demux!At(w, "compute") /\ demuxWorker[w].caller = c /\ demuxWorker[w].part = k

DemuxPartInv(c) ==
  \A k \in DOMAIN demuxComp[c].parents :
    /\ demuxComp[c].parents[k].planes = Part(c, k)
    /\ \/ demuxComp[c].parents[k].out = Demux!Outer!EvalAll(demuxComp[c].parents[k].planes)
       \/ \E w \in DemuxWorkers : ComputesPart(w, c, k)

DemuxWorkerInv(w) ==
  /\ Busy(w) => demuxWorker[w].caller \in Workers
  /\ Demux!At(w, "compute") \/ Demux!At(w, "notify") =>
       demuxWorker[w].part \in DOMAIN demuxComp[demuxWorker[w].caller].parents

DemuxIInv ==
  /\ Demux!TypeOK
  /\ \A c \in Workers : DemuxCallInv(c) /\ DemuxPartInv(c)
  /\ \A w \in DemuxWorkers : DemuxWorkerInv(w)
-----------------------------------------------------------------------------
(* Lists and numbers. *)

LEMMA PlacesFinite ==
  ASSUME NEW q, Len(q) \in Nat, DOMAIN q = 1 .. Len(q), NEW c
  PROVE  IsFiniteSet(PlacesIn(q, c)) /\ Cardinality(PlacesIn(q, c)) \in Nat
<1>1. IsFiniteSet(1 .. Len(q)) BY FS_Interval
<1>2. PlacesIn(q, c) \in SUBSET (1 .. Len(q)) BY DEF PlacesIn
<1>3. IsFiniteSet(PlacesIn(q, c)) BY <1>1, <1>2, FS_Subset
<1> QED BY <1>3, FS_CardinalityType

LEMMA PlacesAppend ==
  ASSUME NEW S, NEW q \in Seq(S), NEW x \in S, NEW c
  PROVE  Cardinality(PlacesIn(Append(q, x), c)) =
           Cardinality(PlacesIn(q, c)) + (IF x = c THEN 1 ELSE 0)
<1>1. /\ DOMAIN Append(q, x) = 1 .. Len(q) + 1 /\ Append(q, x)[Len(q) + 1] = x
      /\ \A i \in 1 .. Len(q) : Append(q, x)[i] = q[i]
      /\ Len(q) \in Nat /\ DOMAIN q = 1 .. Len(q)
  OBVIOUS
<1>2. CASE x # c
  <2>1. PlacesIn(Append(q, x), c) = PlacesIn(q, c) BY <1>1, <1>2 DEF PlacesIn
  <2>2. Cardinality(PlacesIn(q, c)) \in Nat BY <1>1, PlacesFinite
  <2> QED BY <2>1, <2>2, <1>2
<1>3. CASE x = c
  <2>1. PlacesIn(Append(q, x), c) = PlacesIn(q, c) \cup {Len(q) + 1}
    BY <1>1, <1>3 DEF PlacesIn
  <2>2. Len(q) + 1 \notin PlacesIn(q, c) BY <1>1 DEF PlacesIn
  <2>3. IsFiniteSet(PlacesIn(q, c)) BY <1>1, PlacesFinite
  <2> QED BY <2>1, <2>2, <2>3, <1>3, FS_AddElement
<1> QED BY <1>2, <1>3

LEMMA PlacesTail ==
  ASSUME NEW S, NEW q \in Seq(S), q # <<>>, NEW c
  PROVE  Cardinality(PlacesIn(q, c)) =
           Cardinality(PlacesIn(Tail(q), c)) + (IF Head(q) = c THEN 1 ELSE 0)
<1> DEFINE rest == PlacesIn(q, c) \ {1}
           shift == [i \in PlacesIn(Tail(q), c) |-> i + 1]
<1>1. /\ Len(q) \in Nat /\ DOMAIN q = 1 .. Len(q) /\ Len(q) > 0
      /\ DOMAIN Tail(q) = 1 .. Len(q) - 1 /\ Len(Tail(q)) = Len(q) - 1
      /\ \A i \in 1 .. Len(q) - 1 : Tail(q)[i] = q[i + 1]
      /\ Head(q) = q[1]
  OBVIOUS
<1>2. IsFiniteSet(PlacesIn(q, c)) /\ IsFiniteSet(PlacesIn(Tail(q), c))
  BY <1>1, PlacesFinite
<1>3. shift \in Bijection(PlacesIn(Tail(q), c), rest)
  <2>1. shift \in [PlacesIn(Tail(q), c) -> rest] BY <1>1 DEF PlacesIn
  <2>2. \A i, j \in PlacesIn(Tail(q), c) : shift[i] = shift[j] => i = j
    BY <1>1 DEF PlacesIn
  <2>3. \A k \in rest : \E i \in PlacesIn(Tail(q), c) : shift[i] = k
    <3> SUFFICES ASSUME NEW k \in rest PROVE \E i \in PlacesIn(Tail(q), c) : shift[i] = k
      OBVIOUS
    <3>1. k \in 1 .. Len(q) /\ k # 1 /\ q[k] = c BY <1>1 DEF PlacesIn
    <3>2. k - 1 \in 1 .. Len(q) - 1 /\ (k - 1) + 1 = k BY <3>1, <1>1
    <3>3. k - 1 \in PlacesIn(Tail(q), c) BY <3>1, <3>2, <1>1 DEF PlacesIn
    <3> QED BY <3>2, <3>3
  <2> QED BY <2>1, <2>2, <2>3, Fun_IsBij
<1>4. Cardinality(rest) = Cardinality(PlacesIn(Tail(q), c))
  BY <1>2, <1>3, FS_Bijection DEF ExistsBijection
<1>5. Cardinality(rest) = IF 1 \in PlacesIn(q, c) THEN Cardinality(PlacesIn(q, c)) - 1
                          ELSE Cardinality(PlacesIn(q, c))
  BY <1>2, FS_RemoveElement
<1>6. 1 \in PlacesIn(q, c) <=> Head(q) = c BY <1>1 DEF PlacesIn
<1>7. Cardinality(PlacesIn(q, c)) \in Nat BY <1>2, FS_CardinalityType
<1> QED BY <1>4, <1>5, <1>6, <1>7

LEMMA Divide ==
  ASSUME NEW n \in Nat, NEW d \in Nat, d > 0
  PROVE  /\ n \div d \in Nat /\ n % d \in 0 .. d - 1
         /\ n = (n \div d) * d + (n % d)
  OBVIOUS

LEMMA TimesMonotone ==
  ASSUME NEW a \in Nat, NEW b \in Nat, NEW d \in Nat, a <= b
  PROVE  a * d <= b * d
  OBVIOUS

\* There are enough parts for n samples, and none of them is empty.
LEMMA RoundUpIs ==
  ASSUME NEW n \in Nat, n > 0, NEW d \in Nat, d > 0
  PROVE  /\ Demux!RoundUp(n, d) \in Nat /\ Demux!RoundUp(n, d) > 0
         /\ \A s \in 0 .. n - 1 : s \div d < Demux!RoundUp(n, d)
<1>0. n + d - 1 \in Nat OBVIOUS
<1>1. /\ Demux!RoundUp(n, d) \in Nat /\ (n + d - 1) % d \in 0 .. d - 1
      /\ n + d - 1 = Demux!RoundUp(n, d) * d + ((n + d - 1) % d)
  BY <1>0, Divide DEF Demux!RoundUp
<1>2. n <= Demux!RoundUp(n, d) * d BY <1>1
<1>3. Demux!RoundUp(n, d) > 0 
  <2> SUFFICES ASSUME Demux!RoundUp(n, d) = 0 PROVE FALSE BY <1>1
  <2> QED BY <1>2
<1>4. ASSUME NEW s \in 0 .. n - 1 PROVE s \div d < Demux!RoundUp(n, d)
  <2>1. s \div d \in Nat /\ s = (s \div d) * d + (s % d) /\ s % d \in 0 .. d - 1
    BY Divide
  <2>2. (s \div d) * d <= s BY <2>1
  <2>3. CASE s \div d >= Demux!RoundUp(n, d)
    <3>1. Demux!RoundUp(n, d) * d <= (s \div d) * d BY <2>3, <2>1, <1>1, TimesMonotone
    <3> QED BY <3>1, <2>1, <2>2, <1>1, <1>2
  <2> QED BY <2>1, <2>3, <1>1
<1> QED BY <1>1, <1>3, <1>4
-----------------------------------------------------------------------------
(* What every step needs. *)

\* The threads are some and finitely many, in the words of NetworkDemux too.
LEMMA ThreadsAre ==
  /\ IsFiniteSet(DemuxWorkers) /\ DemuxWorkers # {}
  /\ Demux!Cardinality(DemuxWorkers) = Cardinality(DemuxWorkers)
BY StackAssumption
DEF Demux!DemuxAssumption, Demux!IsFiniteSet, IsFiniteSet, Demux!Cardinality, Cardinality

LEMMA DemuxTypes ==
  ASSUME Demux!TypeOK
  PROVE  /\ demuxQueue \in Seq(Workers) /\ Len(demuxQueue) \in Nat
         /\ DOMAIN demuxQueue = 1 .. Len(demuxQueue)
         /\ \A c \in Workers :
              /\ inner[c].state = "asked" => inner[c].planes \in Seq(Inputs)
              /\ inner[c] \in Demux!Outer!Computation
              /\ demuxComp[c] \in Demux!Comp /\ demuxComp[c].parents \in Seq(Demux!Parent)
              /\ demuxComp[c].split \in BOOLEAN /\ demuxComp[c].toEnqueue \in Nat
              /\ demuxComp[c].dataready \in Nat /\ demuxComp[c].partial_size \in Nat
         /\ \A w \in DemuxWorkers : demuxWorker[w] \in Demux!Worker
  BY DEF Demux!TypeOK, Demux!Comp, Demux!Outer!Computation, Demux!Outer!Idle

LEMMA DemuxCountsAre ==
  ASSUME Demux!TypeOK, NEW c \in Workers
  PROVE  /\ Cardinality(Queued(c)) \in Nat
         /\ IsFiniteSet(Adding(c)) /\ Cardinality(Adding(c)) \in Nat
         /\ IsFiniteSet(Serving(c)) /\ Cardinality(Serving(c)) \in Nat
<1>1. Adding(c) \in SUBSET DemuxWorkers /\ Serving(c) \in SUBSET DemuxWorkers
  BY DEF Adding, Serving
<1>2. IsFiniteSet(DemuxWorkers) BY ThreadsAre
<1>3. IsFiniteSet(Adding(c)) /\ IsFiniteSet(Serving(c)) BY <1>1, <1>2, FS_Subset
<1> QED BY <1>3, DemuxTypes, PlacesFinite, FS_CardinalityType DEF Queued

\* Somebody has a part of c only while c is split.
LEMMA Involved ==
  ASSUME Demux!TypeOK, NEW c \in Workers, DemuxCallInv(c),
         demuxComp[c].toEnqueue > 0 \/ Queued(c) # {} \/ Serving(c) # {}
  PROVE  demuxComp[c].split /\ demuxComp[c].dataready > 0
<1>1. demuxComp[c].toEnqueue \in Nat /\ demuxComp[c].split \in BOOLEAN BY DemuxTypes
<1>2. Queued(c) # {} => Cardinality(Queued(c)) # 0
  BY DemuxTypes, PlacesFinite, FS_EmptySet DEF Queued
<1>3. Serving(c) # {} => Cardinality(Serving(c)) # 0 BY DemuxCountsAre, FS_EmptySet
<1>4. demuxComp[c].dataready > 0 BY <1>1, <1>2, <1>3, DemuxCountsAre DEF DemuxCallInv
<1>5. Demux!NewComp.dataready = 0 BY DEF Demux!NewComp
<1> QED BY <1>1, <1>4, <1>5 DEF DemuxCallInv

LEMMA Nobody ==
  ASSUME Demux!TypeOK, NEW c \in Workers, DemuxCallInv(c), demuxComp[c].dataready = 0
  PROVE  demuxComp[c].toEnqueue = 0 /\ Queued(c) = {} /\ Serving(c) = {} /\ Adding(c) = {}
<1>1. demuxComp[c].toEnqueue = 0 /\ Queued(c) = {} /\ Serving(c) = {}
  BY Involved, DemuxTypes
<1>2. Adding(c) \subseteq Serving(c) BY DEF Adding, Serving, Busy
<1> QED BY <1>1, <1>2

\* A caller that the step does not touch.
LEMMA DemuxCallKept ==
  ASSUME NEW c \in Workers, DemuxCallInv(c), UNCHANGED <<inner[c], demuxComp[c]>>,
         Cardinality(Queued(c))' = Cardinality(Queued(c)),
         UNCHANGED <<Adding(c), Serving(c)>>
  PROVE  DemuxCallInv(c)'
  BY DEF DemuxCallInv, Demux!BatchSize

LEMMA DemuxPartKept ==
  ASSUME NEW c \in Workers, DemuxPartInv(c), UNCHANGED <<inner[c], demuxComp[c]>>,
         \A w \in DemuxWorkers, k \in Nat : ComputesPart(w, c, k) => ComputesPart(w, c, k)',
         demuxComp[c].parents \in Seq(Demux!Parent)
  PROVE  DemuxPartInv(c)'
<1>1. \A k : Part(c, k)' = Part(c, k) BY DEF Part, Demux!BatchSize
<1>2. \A k \in DOMAIN demuxComp[c].parents : k \in Nat OBVIOUS
<1> QED BY <1>1, <1>2 DEF DemuxPartInv

\* One worker goes from place to place with the same part in hand.
LEMMA DemuxGoIs ==
  ASSUME Demux!TypeOK, NEW w \in DemuxWorkers,
         NEW place \in {"loop", "asleep", "pop", "add", "compute", "notify", "gone"},
         Demux!Go(w, place)
  PROVE  /\ demuxWorker' \in [DemuxWorkers -> Demux!Worker] /\ demuxWorker'[w].at = place
         /\ demuxWorker'[w].caller = demuxWorker[w].caller
         /\ demuxWorker'[w].part = demuxWorker[w].part
         /\ \A v \in DemuxWorkers : v # w => demuxWorker'[v] = demuxWorker[v]
<1>1. [demuxWorker[w] EXCEPT !.at = place] \in Demux!Worker
  BY DEF Demux!TypeOK, Demux!Worker
<1>2. demuxWorker' = [demuxWorker EXCEPT ![w] = [demuxWorker[w] EXCEPT !.at = place]]
  BY DEF Demux!Go
<1>3. demuxWorker'[w] = [demuxWorker[w] EXCEPT !.at = place] BY <1>2 DEF Demux!TypeOK
<1> QED BY <1>1, <1>2, <1>3 DEF Demux!TypeOK, Demux!Worker

\* Steps of workers that have nothing in hand, before and after.
LEMMA IdleMoves ==
  ASSUME demuxWorker' \in [DemuxWorkers -> Demux!Worker],
         \A w \in DemuxWorkers : demuxWorker'[w] # demuxWorker[w] => ~Busy(w) /\ ~Busy(w)'
  PROVE  /\ \A c : UNCHANGED <<Adding(c), Serving(c)>>
         /\ \A w \in DemuxWorkers : \A c, k : ComputesPart(w, c, k)
                => ComputesPart(w, c, k)'
         /\ \A w \in DemuxWorkers : Busy(w)' => Busy(w) /\ demuxWorker'[w] = demuxWorker[w]
<1>1. \A w \in DemuxWorkers : (Demux!At(w, "add") => Busy(w)) /\ (Demux!At(w, "compute") => Busy(w))
  BY DEF Busy
<1>2. \A w \in DemuxWorkers : (Demux!At(w, "add")' => Busy(w)') /\ (Demux!At(w, "compute")' => Busy(w)')
  BY DEF Busy
<1>3. \A w \in DemuxWorkers : demuxWorker'[w] = demuxWorker[w] =>
        /\ Busy(w)' <=> Busy(w)
        /\ Demux!At(w, "add")' <=> Demux!At(w, "add")
        /\ Demux!At(w, "compute")' <=> Demux!At(w, "compute")
  BY DEF Busy, Demux!At
<1>4. \A w \in DemuxWorkers : \A c :
        /\ (Demux!At(w, "add") /\ demuxWorker[w].caller = c)' <=> (Demux!At(w, "add") /\ demuxWorker[w].caller = c)
        /\ (Busy(w) /\ demuxWorker[w].caller = c)' <=> (Busy(w) /\ demuxWorker[w].caller = c)
  BY <1>1, <1>2, <1>3
<1>5. \A c : UNCHANGED <<Adding(c), Serving(c)>> BY <1>4 DEF Adding, Serving
<1>6. \A w \in DemuxWorkers : \A c, k : ComputesPart(w, c, k) => ComputesPart(w, c, k)'
  BY <1>1, <1>2, <1>3 DEF ComputesPart
<1>7. \A w \in DemuxWorkers : Busy(w)' => Busy(w) /\ demuxWorker'[w] = demuxWorker[w]
  BY <1>1, <1>2, <1>3
<1> QED BY <1>5, <1>6, <1>7

LEMMA DemuxWakeIs ==
  ASSUME Demux!TypeOK,
         demuxWorker' \in Demux!WakeOne(demuxWorker) \/ demuxWorker' = Demux!WakeAll(demuxWorker)
  PROVE  /\ demuxWorker' \in [DemuxWorkers -> Demux!Worker]
         /\ \A w \in DemuxWorkers : demuxWorker'[w] # demuxWorker[w]
                => ~Busy(w) /\ ~Busy(w)'
<1>1. CASE demuxWorker' \in Demux!WakeOne(demuxWorker)
  <2>1. \/ demuxWorker' = demuxWorker
        \/ \E u \in DemuxWorkers : Demux!At(u, "asleep") /\ Demux!Go(u, "loop")
    BY <1>1 DEF Demux!WakeOne, Demux!At, Demux!Go
  <2>2. CASE demuxWorker' = demuxWorker BY <2>2 DEF Demux!TypeOK
  <2>3. ASSUME NEW u \in DemuxWorkers, Demux!At(u, "asleep"), Demux!Go(u, "loop")
        PROVE  /\ demuxWorker' \in [DemuxWorkers -> Demux!Worker]
               /\ \A w \in DemuxWorkers : demuxWorker'[w] # demuxWorker[w]
                      => ~Busy(w) /\ ~Busy(w)'
    BY <2>3, DemuxGoIs DEF Busy, Demux!At
  <2> QED BY <2>1, <2>2, <2>3
<1>2. CASE demuxWorker' = Demux!WakeAll(demuxWorker)
  <2>1. \A w \in DemuxWorkers :
          demuxWorker'[w] = IF demuxWorker[w].at = "asleep" THEN [demuxWorker[w] EXCEPT !.at = "loop"]
                       ELSE demuxWorker[w]
    BY <1>2 DEF Demux!WakeAll
  <2>2. demuxWorker' = [w \in DemuxWorkers |-> demuxWorker'[w]]
    BY <1>2, Zenon DEF Demux!WakeAll
  <2>3. \A w \in DemuxWorkers :
          /\ demuxWorker'[w] \in Demux!Worker
          /\ demuxWorker'[w] # demuxWorker[w] => ~Busy(w) /\ ~Busy(w)'
    BY <2>1 DEF Demux!TypeOK, Demux!Worker, Busy, Demux!At
  <2> QED BY <2>2, <2>3
<1> QED BY <1>1, <1>2

\* Such steps, when nothing else changes, keep the invariant.
LEMMA DemuxIdleStepInv ==
  ASSUME DemuxIInv, UNCHANGED <<inner, demuxQueue, demuxComp>>, demuxAbort' \in BOOLEAN,
         demuxWorker' \in [DemuxWorkers -> Demux!Worker],
         \A w \in DemuxWorkers : demuxWorker'[w] # demuxWorker[w] => ~Busy(w) /\ ~Busy(w)'
  PROVE  DemuxIInv'
<1>1. Demux!TypeOK' BY DEF DemuxIInv, Demux!TypeOK
<1>2. \A c \in Workers : DemuxCallInv(c)' BY IdleMoves, DemuxCallKept DEF DemuxIInv, Queued
<1>3. \A c \in Workers : DemuxPartInv(c)'
  BY IdleMoves, DemuxPartKept, DemuxTypes DEF DemuxIInv
<1>4. \A w \in DemuxWorkers : DemuxWorkerInv(w)'
  <2> SUFFICES ASSUME NEW w \in DemuxWorkers PROVE DemuxWorkerInv(w)' OBVIOUS
  <2>1. CASE ~Busy(w)' BY <2>1 DEF DemuxWorkerInv, Busy
  <2>2. CASE Busy(w)'
    <3>1. Busy(w) /\ demuxWorker'[w] = demuxWorker[w] BY <2>2, IdleMoves
    <3> QED BY <3>1 DEF DemuxWorkerInv, Busy, Demux!At, DemuxIInv
  <2> QED BY <2>1, <2>2
<1> QED BY <1>1, <1>2, <1>3, <1>4 DEF DemuxIInv

LEMMA DemuxInitInv == ASSUME Demux!Init PROVE DemuxIInv
<1>1. Demux!TypeOK
  <2>1. inner \in [Workers -> Demux!Outer!Computation]
    BY DEF Demux!Init, Demux!Outer!Init, Demux!Outer!Computation
  <2>2. demuxComp \in [Workers -> Demux!Comp] BY DEF Demux!Init, Demux!Comp, Demux!NewComp
  <2>3. demuxWorker \in [DemuxWorkers -> Demux!Worker]
    BY DEF Demux!Init, Demux!Worker, Demux!Free
  <2>4. demuxQueue \in Seq(Workers) 
    <3>1. demuxQueue = <<>> BY DEF Demux!Init
    <3> QED BY <3>1
  <2>5. demuxAbort \in BOOLEAN BY DEF Demux!Init
  <2> QED BY <2>1, <2>2, <2>3, <2>4, <2>5 DEF Demux!TypeOK
<1>2. \A w \in DemuxWorkers : ~Busy(w) BY DEF Demux!Init, Demux!Free, Busy, Demux!At
<1>3. ASSUME NEW c \in Workers PROVE DemuxCallInv(c)
  <2>1. demuxComp[c] = Demux!NewComp BY DEF Demux!Init
  <2>2. Queued(c) = {} /\ Serving(c) = {} BY <1>2 DEF Demux!Init, Queued, PlacesIn, Serving
  <2>3. Cardinality(Queued(c)) = 0 /\ Cardinality(Serving(c)) = 0 BY <2>2, FS_EmptySet
  <2>4. inner[c].state # "asked" BY DEF Demux!Init, Demux!Outer!Init, Demux!Outer!Idle
  <2> QED BY <2>1, <2>3, <2>4 DEF DemuxCallInv, Demux!NewComp
<1>4. \A c \in Workers : DemuxPartInv(c) BY DEF Demux!Init, DemuxPartInv, Demux!NewComp
<1>5. \A w \in DemuxWorkers : DemuxWorkerInv(w) BY <1>2 DEF DemuxWorkerInv, Busy
<1> QED BY <1>1, <1>3, <1>4, <1>5 DEF DemuxIInv
-----------------------------------------------------------------------------
(* The steps of a caller. *)

\* What is left to show when only c's calls and comp change.
LEMMA DemuxCallerStepInv ==
  ASSUME DemuxIInv, NEW c \in Workers,
         UNCHANGED <<demuxQueue, demuxWorker, demuxAbort>>,
         inner' \in [Workers -> Demux!Outer!Computation], demuxComp' \in [Workers -> Demux!Comp],
         \A d \in Workers : d # c => inner'[d] = inner[d] /\ demuxComp'[d] = demuxComp[d],
         DemuxCallInv(c)', DemuxPartInv(c)',
         demuxComp'[c].parents = demuxComp[c].parents \/ Serving(c) = {}
  PROVE  DemuxIInv'
<1> USE DEF DemuxIInv
<1>1. Demux!TypeOK' BY DEF Demux!TypeOK
<1>2. \A d : UNCHANGED <<Queued(d), Adding(d), Serving(d)>>
  BY DEF Queued, Adding, Serving, Busy, Demux!At
<1>3. \A w \in DemuxWorkers : \A d, k : ComputesPart(w, d, k) => ComputesPart(w, d, k)'
  BY DEF ComputesPart, Demux!At
<1>4. ASSUME NEW d \in Workers PROVE DemuxCallInv(d)' /\ DemuxPartInv(d)'
  <2>1. CASE d = c BY <2>1
  <2>2. CASE d # c
    <3>1. /\ UNCHANGED <<inner[d], demuxComp[d]>>
          /\ Cardinality(Queued(d))' = Cardinality(Queued(d))
      BY <2>2, <1>2
    <3>2. DemuxCallInv(d)' BY <3>1, <1>2, DemuxCallKept
    <3>3. DemuxPartInv(d)' BY <3>1, <1>3, DemuxPartKept, DemuxTypes
    <3> QED BY <3>2, <3>3
  <2> QED BY <2>1, <2>2
<1>5. ASSUME NEW w \in DemuxWorkers PROVE DemuxWorkerInv(w)'
  <2>1. DemuxWorkerInv(w) /\ (Busy(w)' <=> Busy(w)) BY DEF Busy, Demux!At
  <2>2. CASE ~Busy(w) BY <2>1, <2>2 DEF DemuxWorkerInv, Busy
  <2>3. CASE Busy(w)
    <3>1. demuxWorker[w].caller \in Workers BY <2>1, <2>3 DEF DemuxWorkerInv
    <3>2. demuxWorker[w].caller = c => w \in Serving(c) BY <2>3 DEF Serving
    <3>3. demuxComp'[demuxWorker[w].caller].parents =
              demuxComp[demuxWorker[w].caller].parents
      BY <3>1, <3>2
    <3> QED BY <2>1, <2>3, <3>1, <3>3 DEF DemuxWorkerInv, Busy, Demux!At
  <2> QED BY <2>2, <2>3
<1> QED BY <1>1, <1>4, <1>5

\* While c is not in ComputeBlocking nothing of comp[c] matters.
LEMMA NotSplit ==
  ASSUME DemuxIInv, NEW c \in Workers, ~demuxComp[c].split,
         UNCHANGED <<demuxComp, demuxQueue, demuxWorker, demuxAbort>>,
         inner' \in [Workers -> Demux!Outer!Computation],
         inner'[c].state = "asked" => inner'[c].planes # <<>>,
         \A d \in Workers : d # c => inner'[d] = inner[d]
  PROVE  DemuxIInv'
<1>1. demuxComp[c] = Demux!NewComp /\ demuxComp'[c] = Demux!NewComp
  BY DEF DemuxIInv, DemuxCallInv
<1>2. DemuxCallInv(c)'
  <2>1. UNCHANGED <<Queued(c), Serving(c)>> BY DEF Queued, Serving, Busy, Demux!At
  <2> QED BY <1>1, <2>1 DEF DemuxIInv, DemuxCallInv, Demux!NewComp
<1>3. DemuxPartInv(c)' BY <1>1 DEF DemuxPartInv, Demux!NewComp
<1>4. demuxComp' \in [Workers -> Demux!Comp] BY DEF DemuxIInv, Demux!TypeOK
<1> QED BY <1>2, <1>3, <1>4, DemuxCallerStepInv

LEMMA DemuxAskInv ==
  ASSUME DemuxIInv, NEW c \in Workers, NEW planes \in Merged, Demux!Ask(c, planes)
  PROVE  DemuxIInv'
<1>1. /\ inner[c] = Demux!Outer!Idle
      /\ inner' = [inner EXCEPT ![c] = Demux!Outer!Asked(planes)]
      /\ UNCHANGED <<demuxComp, demuxQueue, demuxWorker, demuxAbort>>
      /\ inner[c].state # "asked"
  BY DEF Demux!Ask, Demux!Outer!Ask, Demux!demuxVars, Demux!Outer!Idle
<1>2. planes \in Seq(Inputs) /\ planes # <<>> BY StackAssumption DEF Demux!DemuxAssumption
<1>3. inner' \in [Workers -> Demux!Outer!Computation]
  BY <1>1, <1>2 DEF DemuxIInv, Demux!TypeOK, Demux!Outer!Computation, Demux!Outer!Asked
<1>4. ~demuxComp[c].split BY <1>1 DEF DemuxIInv, DemuxCallInv
<1>5. \A d \in Workers : d # c => inner'[d] = inner[d] BY <1>1 DEF DemuxIInv, Demux!TypeOK
<1>6. inner'[c].planes # <<>> BY <1>1, <1>2 DEF DemuxIInv, Demux!TypeOK, Demux!Outer!Asked
<1> QED BY <1>1, <1>3, <1>4, <1>5, <1>6, NotSplit

LEMMA DemuxTakeInv == ASSUME DemuxIInv, NEW c \in Workers, Demux!Take(c) PROVE DemuxIInv'
<1>1. /\ inner[c].state = "answered" /\ inner' = [inner EXCEPT ![c] = Demux!Outer!Idle]
      /\ UNCHANGED <<demuxComp, demuxQueue, demuxWorker, demuxAbort>>
  BY DEF Demux!Take, Demux!Outer!Take, Demux!demuxVars
<1>2. inner' \in [Workers -> Demux!Outer!Computation]
  BY <1>1 DEF DemuxIInv, Demux!TypeOK, Demux!Outer!Computation
<1>3. ~demuxComp[c].split BY <1>1 DEF DemuxIInv, DemuxCallInv
<1>4. \A d \in Workers : d # c => inner'[d] = inner[d] BY <1>1 DEF DemuxIInv, Demux!TypeOK
<1>5. inner'[c].state # "asked" BY <1>1 DEF DemuxIInv, Demux!TypeOK, Demux!Outer!Idle
<1> QED BY <1>1, <1>2, <1>3, <1>4, <1>5, NotSplit

LEMMA PartialIs ==
  ASSUME NEW c \in Workers,
         inner[c].planes \in Seq(Inputs), inner[c].planes # <<>>
  PROVE  /\ Demux!BatchSize(c) \in Nat /\ Demux!BatchSize(c) > 0
         /\ Demux!PartialSize(c) \in Nat /\ Demux!PartialSize(c) > 0
         /\ Demux!Splits(c) \in Nat
<1>1. Demux!BatchSize(c) \in Nat /\ Demux!BatchSize(c) > 0 BY DEF Demux!BatchSize
<1>2. Cardinality(DemuxWorkers) \in Nat /\ Cardinality(DemuxWorkers) > 0
  BY ThreadsAre, FS_CardinalityType, FS_EmptySet
<1>3. /\ Demux!RoundUp(Demux!BatchSize(c), Cardinality(DemuxWorkers)) \in Nat
      /\ Demux!RoundUp(Demux!BatchSize(c), Cardinality(DemuxWorkers)) > 0
  BY <1>1, <1>2, RoundUpIs
<1>4. MinimumSplitSize \in Nat BY StackAssumption DEF Demux!DemuxAssumption
<1>5. Demux!PartialSize(c) \in Nat /\ Demux!PartialSize(c) > 0
  BY <1>1, <1>3, <1>4, ThreadsAre DEF Demux!PartialSize, Demux!Minimum
<1> QED BY <1>1, <1>5, RoundUpIs DEF Demux!Splits

LEMMA DemuxSplitInv == ASSUME DemuxIInv, NEW c \in Workers, Demux!Split(c) PROVE DemuxIInv'
<1>1. /\ inner[c].state = "asked" /\ ~demuxComp[c].split
      /\ UNCHANGED <<inner, demuxQueue, demuxWorker, demuxAbort>>
  BY DEF Demux!Split
<1>2. demuxComp' = [demuxComp EXCEPT ![c] =
        [split |-> TRUE, toEnqueue |-> Demux!Splits(c), dataready |-> Demux!Splits(c),
         partial_size |-> Demux!PartialSize(c), parents |-> <<>>]]
  BY DEF Demux!Split
<1>3. inner[c].planes \in Seq(Inputs) /\ inner[c].planes # <<>>
  BY <1>1, DemuxTypes DEF DemuxIInv, DemuxCallInv
<1>4. Demux!PartialSize(c) \in Nat /\ Demux!PartialSize(c) > 0 /\ Demux!Splits(c) \in Nat
  BY <1>3, PartialIs
<1>5. /\ demuxComp' \in [Workers -> Demux!Comp]
      /\ \A d \in Workers : d # c => demuxComp'[d] = demuxComp[d]
      /\ demuxComp'[c].split /\ demuxComp'[c].toEnqueue = Demux!Splits(c)
      /\ demuxComp'[c].dataready = Demux!Splits(c)
      /\ demuxComp'[c].partial_size = Demux!PartialSize(c) /\ demuxComp'[c].parents = <<>>
  BY <1>2, <1>4 DEF DemuxIInv, Demux!TypeOK, Demux!Comp
<1>6. Queued(c) = {} /\ Serving(c) = {} /\ Adding(c) = {}
  BY <1>1, Nobody DEF DemuxIInv, DemuxCallInv, Demux!NewComp
<1>7. Queued(c)' = {} /\ Serving(c)' = {} /\ Adding(c)' = {}
  BY <1>1, <1>6 DEF Queued, Serving, Adding, Busy, Demux!At
<1>8. DemuxCallInv(c)'
  <2>1. Cardinality(Queued(c)') = 0 /\ Cardinality(Serving(c)') = 0 /\ Cardinality(Adding(c)') = 0
    BY <1>7, FS_EmptySet
  <2>2. Demux!RoundUp(Demux!BatchSize(c), demuxComp'[c].partial_size) = Demux!Splits(c)
    BY <1>5 DEF Demux!Splits
  <2>3. Demux!BatchSize(c)' = Demux!BatchSize(c) BY <1>1 DEF Demux!BatchSize
  <2> QED BY <1>1, <1>3, <1>4, <1>5, <2>1, <2>2, <2>3 DEF DemuxCallInv
<1>9. DemuxPartInv(c)' BY <1>5 DEF DemuxPartInv
<1>10. inner' \in [Workers -> Demux!Outer!Computation] BY <1>1 DEF DemuxIInv, Demux!TypeOK
<1> QED BY <1>1, <1>5, <1>6, <1>8, <1>9, <1>10, DemuxCallerStepInv

LEMMA DemuxEnqueueInv ==
  ASSUME DemuxIInv, NEW c \in Workers, Demux!Enqueue(c)
  PROVE DemuxIInv'
<1> USE DEF DemuxIInv
<1>1. /\ demuxComp[c].toEnqueue > 0
      /\ demuxComp' = [demuxComp EXCEPT ![c].toEnqueue = @ - 1]
      /\ demuxQueue' = Append(demuxQueue, c) /\ demuxWorker' \in Demux!WakeOne(demuxWorker)
      /\ UNCHANGED <<inner, demuxAbort>>
  BY DEF Demux!Enqueue
<1>2. demuxComp[c].split BY <1>1, Involved
<1>3. /\ demuxComp' \in [Workers -> Demux!Comp]
      /\ \A d \in Workers : d # c => demuxComp'[d] = demuxComp[d]
      /\ demuxComp'[c].toEnqueue = demuxComp[c].toEnqueue - 1 /\ demuxComp'[c].split
      /\ demuxComp'[c].dataready = demuxComp[c].dataready
      /\ demuxComp'[c].partial_size = demuxComp[c].partial_size
      /\ demuxComp'[c].parents = demuxComp[c].parents
  <2>1. demuxComp[c].toEnqueue \in Nat /\ demuxComp[c].toEnqueue - 1 \in Nat
    BY <1>1, DemuxTypes
  <2>2. [demuxComp[c] EXCEPT !.toEnqueue = @ - 1] \in Demux!Comp
    BY <2>1 DEF Demux!TypeOK, Demux!Comp
  <2>3. demuxComp' = [demuxComp EXCEPT ![c] = [demuxComp[c] EXCEPT !.toEnqueue = @ - 1]]
    BY <1>1
  <2>4. demuxComp'[c] = [demuxComp[c] EXCEPT !.toEnqueue = @ - 1] BY <2>3 DEF Demux!TypeOK
  <2> QED BY <2>2, <2>3, <2>4, <1>2 DEF Demux!TypeOK, Demux!Comp
<1>4. /\ demuxWorker' \in [DemuxWorkers -> Demux!Worker]
      /\ \A w \in DemuxWorkers : demuxWorker'[w] # demuxWorker[w] => ~Busy(w) /\ ~Busy(w)'
  BY <1>1, DemuxWakeIs
<1>5. /\ \A d : UNCHANGED <<Adding(d), Serving(d)>>
      /\ \A w \in DemuxWorkers : \A d, k : ComputesPart(w, d, k) => ComputesPart(w, d, k)'
      /\ \A w \in DemuxWorkers : Busy(w)' => Busy(w) /\ demuxWorker'[w] = demuxWorker[w]
  BY <1>4, IdleMoves
<1>6. \A d \in Workers :
        Cardinality(Queued(d))' = Cardinality(Queued(d)) + (IF c = d THEN 1 ELSE 0)
  BY <1>1, DemuxTypes, PlacesAppend DEF Queued
<1>7. Demux!TypeOK' BY <1>1, <1>3, <1>4, DemuxTypes DEF Demux!TypeOK
<1>8. ASSUME NEW d \in Workers PROVE DemuxCallInv(d)' /\ DemuxPartInv(d)'
  <2>1. CASE d # c
    <3>1. /\ UNCHANGED <<inner[d], demuxComp[d]>>
          /\ Cardinality(Queued(d))' = Cardinality(Queued(d))
      BY <2>1, <1>1, <1>3, <1>6, DemuxCountsAre
    <3> QED BY <3>1, <1>5, DemuxCallKept, DemuxPartKept, DemuxTypes
  <2>2. CASE d = c
    <3>1. Demux!BatchSize(c)' = Demux!BatchSize(c) /\ \A k : Part(c, k)' = Part(c, k)
      BY <1>1, <1>3 DEF Demux!BatchSize, Part
    <3>2. Cardinality(Queued(c))' = Cardinality(Queued(c)) + 1 BY <1>6
    <3>3. /\ Cardinality(Adding(c))' = Cardinality(Adding(c))
          /\ Cardinality(Serving(c))' = Cardinality(Serving(c))
      BY <1>5
    <3>4. DemuxCallInv(c)'
      <4>1. PICK q \in Nat : q = Cardinality(Queued(c)) /\ Cardinality(Queued(c))' = q + 1
        BY <3>2, DemuxCountsAre
      <4>2. PICK a \in Nat : a = Cardinality(Adding(c)) /\ Cardinality(Adding(c))' = a
        BY <3>3, DemuxCountsAre
      <4>3. PICK v \in Nat : v = Cardinality(Serving(c)) /\ Cardinality(Serving(c))' = v
        BY <3>3, DemuxCountsAre
      <4>4. PICK t \in Nat, l \in Nat : t = demuxComp[c].toEnqueue /\ l = Len(demuxComp[c].parents)
        BY DemuxTypes
      <4>5. /\ inner[c].state = "asked" /\ inner[c].planes # <<>>
            /\ demuxComp[c].partial_size > 0
            /\ t + q + a + l = Demux!RoundUp(Demux!BatchSize(c), demuxComp[c].partial_size)
            /\ demuxComp[c].dataready = t + q + v
        BY <1>2, <4>1, <4>2, <4>3, <4>4 DEF DemuxCallInv
      <4>6. t + q + a + l = (t - 1) + (q + 1) + a + l /\ t + q + v = (t - 1) + (q + 1) + v
        OBVIOUS
      <4>7. demuxComp'[c].toEnqueue = t - 1 /\ Len(demuxComp'[c].parents) = l
        BY <1>3, <4>4
      <4>8. /\ (t - 1) + (q + 1) + a + l = Demux!RoundUp(Demux!BatchSize(c), demuxComp[c].partial_size)
            /\ demuxComp[c].dataready = (t - 1) + (q + 1) + v
        BY <4>5, <4>6
      <4> QED
        BY <1>1, <1>3, <3>1, <4>1, <4>2, <4>3, <4>5, <4>7, <4>8 DEF DemuxCallInv
    <3>5. DemuxPartInv(c)'
      <4>1. \A k \in DOMAIN demuxComp[c].parents : k \in Nat BY DemuxTypes
      <4> QED BY <1>3, <1>5, <3>1, <4>1 DEF DemuxPartInv
    <3> QED BY <2>2, <3>4, <3>5
  <2> QED BY <2>1, <2>2
<1>9. ASSUME NEW w \in DemuxWorkers PROVE DemuxWorkerInv(w)'
  <2>1. CASE ~Busy(w)' BY <2>1 DEF DemuxWorkerInv, Busy
  <2>2. CASE Busy(w)'
    <3>1. Busy(w) /\ demuxWorker'[w] = demuxWorker[w] BY <2>2, <1>5
    <3>2. demuxWorker[w].caller \in Workers BY <3>1 DEF DemuxWorkerInv
    <3>3. demuxComp'[demuxWorker[w].caller].parents =
              demuxComp[demuxWorker[w].caller].parents
      BY <1>3, <3>2
    <3> QED BY <3>1, <3>2, <3>3 DEF DemuxWorkerInv, Busy, Demux!At
  <2> QED BY <2>1, <2>2
<1> QED BY <1>7, <1>8, <1>9

LEMMA DemuxEvalAllIs ==
  ASSUME NEW planes \in Seq(Inputs)
  PROVE  /\ Demux!Outer!EvalAll(planes) \in Seq(Demux!Outer!Outputs)
         /\ \A s \in 1 .. Len(planes) : Demux!Outer!EvalAll(planes)[s] = Eval[planes[s]]
  BY DEF Demux!Outer!EvalAll, Demux!Outer!Outputs

\* Where the readers look for sample s: entry s % p of part s \div p.
LEMMA Locate ==
  ASSUME NEW n \in Nat, NEW s \in Nat, s < n, NEW p \in Nat, p > 0
  PROVE  \E first, last \in Nat :
           /\ first = (s \div p) * p /\ last = Demux!Minimum(n, first + p)
           /\ s = first + (s % p) /\ last <= n /\ first + 1 <= last
           /\ (s % p) + 1 \in 1 .. last - first
<1> DEFINE k == s \div p
           i == s % p
<1>1. k \in Nat /\ i \in 0 .. p - 1 /\ s = (k * p) + i BY Divide
<1> HIDE DEF k, i
<1>2. k * p \in Nat BY <1>1
<1>3. PICK first \in Nat : first = k * p BY <1>2
<1>4. s = first + i BY <1>1, <1>3
<1>5. PICK last \in Nat : last = Demux!Minimum(n, first + p) BY DEF Demux!Minimum
<1>6. last <= n /\ first + 1 <= last /\ i + 1 \in 1 .. last - first
  BY <1>1, <1>4, <1>5 DEF Demux!Minimum
<1> QED BY <1>3, <1>4, <1>5, <1>6 DEF k, i

LEMMA Between ==
  ASSUME NEW S, NEW q \in Seq(S), NEW first \in Nat, NEW last \in Nat,
         first + 1 <= last, last <= Len(q)
  PROVE  /\ SubSeq(q, first + 1, last) \in Seq(S)
         /\ Len(SubSeq(q, first + 1, last)) = last - first
         /\ \A j \in 1 .. last - first : SubSeq(q, first + 1, last)[j] = q[first + j]
<1>1. PICK m \in Nat : m = first + 1 OBVIOUS
<1>2. \A j \in m .. last : q[j] \in S
  <2>1. \A j \in m .. last : j \in 1 .. Len(q) BY <1>1
  <2> QED BY <2>1
<1>3. m \in Int /\ last \in Int OBVIOUS
<1>4. /\ SubSeq(q, m, last) \in Seq(S)
      /\ Len(SubSeq(q, m, last)) = IF m <= last THEN last - m + 1 ELSE 0
      /\ \A j \in 1 .. last - m + 1 : SubSeq(q, m, last)[j] = q[m + j - 1]
  BY <1>2, <1>3, SubSeqProperties
<1>5. m <= last /\ last - m + 1 = last - first
      /\ \A j \in 1 .. last - first : m + j - 1 = first + j
  BY <1>1
<1> QED BY <1>1, <1>4, <1>5

\* A position is in the part where the readers look for it, at that place.
LEMMA InItsPart ==
  ASSUME NEW c \in Workers, inner[c].planes \in Seq(Inputs),
         demuxComp[c].partial_size \in Nat, demuxComp[c].partial_size > 0,
         NEW s \in 0 .. Demux!BatchSize(c) - 1,
         NEW k, k = (s \div demuxComp[c].partial_size) + 1,
         NEW i, i = (s % demuxComp[c].partial_size) + 1
  PROVE  /\ Part(c, k) \in Seq(Inputs)
         /\ i \in 1 .. Len(Part(c, k))
         /\ Part(c, k)[i] = inner[c].planes[s + 1]
<1> DEFINE p == demuxComp[c].partial_size
<1>0. p \in Nat /\ p > 0 /\ k = (s \div p) + 1 /\ i = (s % p) + 1 OBVIOUS
<1>1. Demux!BatchSize(c) \in Nat /\ Demux!BatchSize(c) = Len(inner[c].planes)
  BY DEF Demux!BatchSize
<1>2. s \in Nat /\ s < Demux!BatchSize(c) BY <1>1
<1>3. PICK first, last \in Nat :
        /\ first = (s \div p) * p /\ last = Demux!Minimum(Demux!BatchSize(c), first + p)
        /\ s = first + (s % p) /\ last <= Demux!BatchSize(c) /\ first + 1 <= last
        /\ (s % p) + 1 \in 1 .. last - first
  BY <1>0, <1>1, <1>2, Locate
<1>4. Part(c, k) = SubSeq(inner[c].planes, first + 1, last)
  <2>1. s \div p \in Nat BY <1>0, <1>2, Divide
  <2>2. k - 1 = s \div p BY <1>0, <2>1
  <2> QED BY <2>2, <1>3 DEF Part
<1>6. /\ SubSeq(inner[c].planes, first + 1, last) \in Seq(Inputs)
      /\ Len(SubSeq(inner[c].planes, first + 1, last)) = last - first
      /\ \A j \in 1 .. last - first :
           SubSeq(inner[c].planes, first + 1, last)[j] = inner[c].planes[first + j]
  <2>1. first + 1 <= last /\ last <= Len(inner[c].planes) BY <1>1, <1>3
  <2> QED BY <2>1, Between
<1>7. i \in 1 .. last - first /\ first + i = s + 1
  <2>1. s % p \in Nat /\ i = (s % p) + 1 BY <1>0, <1>2, Divide
  <2> DEFINE rest == s % p
  <2>2. rest \in Nat /\ i = rest + 1 /\ s = first + rest /\ rest + 1 \in 1 .. last - first
    BY <2>1, <1>3
  <2> HIDE DEF rest
  <2> QED BY <2>2, <1>2
<1> QED BY <1>4, <1>6, <1>7

\* Nothing is left to do: the readers find the evaluations of c's own positions.
LEMMA DemuxAnswersOwn ==
  ASSUME DemuxIInv, NEW c \in Workers, demuxComp[c].split, demuxComp[c].dataready = 0
  PROVE  /\ inner[c].state = "asked" /\ Serving(c) = {}
         /\ [s \in 1 .. Demux!BatchSize(c) |-> Demux!Sample(c, s - 1)] = Demux!Outer!EvalAll(inner[c].planes)
         /\ Demux!Outer!EvalAll(inner[c].planes) \in Seq(Demux!Outer!Outputs)
<1>1. demuxComp[c].toEnqueue = 0 /\ Queued(c) = {} /\ Serving(c) = {} /\ Adding(c) = {}
  BY Nobody DEF DemuxIInv
<1>2. inner[c].state = "asked" /\ inner[c].planes # <<>> /\ demuxComp[c].partial_size > 0
  BY DEF DemuxIInv, DemuxCallInv
<1>3. /\ inner[c].planes \in Seq(Inputs) /\ demuxComp[c].partial_size \in Nat
      /\ demuxComp[c].parents \in Seq(Demux!Parent)
  BY <1>2, DemuxTypes DEF DemuxIInv
<1>4. PICK p \in Nat : p = demuxComp[c].partial_size /\ p > 0 BY <1>2, <1>3
<1>5. Demux!BatchSize(c) \in Nat /\ Demux!BatchSize(c) > 0 /\ Demux!BatchSize(c) = Len(inner[c].planes)
  BY <1>2, <1>3 DEF Demux!BatchSize
<1>6. Len(demuxComp[c].parents) = Demux!RoundUp(Demux!BatchSize(c), p)
  <2>1. Cardinality(Queued(c)) = 0 /\ Cardinality(Adding(c)) = 0 BY <1>1, FS_EmptySet
  <2>2. 0 + 0 + 0 + Len(demuxComp[c].parents) = Demux!RoundUp(Demux!BatchSize(c), p)
    BY <1>1, <1>4, <2>1 DEF DemuxIInv, DemuxCallInv
  <2> QED BY <2>2, <1>3
<1>7. \A w \in DemuxWorkers : \A k : ~ComputesPart(w, c, k)
  BY <1>1 DEF ComputesPart, Serving, Busy
<1>8. ASSUME NEW s \in 0 .. Demux!BatchSize(c) - 1
      PROVE  Demux!Sample(c, s) = Eval[inner[c].planes[s + 1]]
  <2>1. PICK k : k = (s \div p) + 1 OBVIOUS
  <2>2. PICK i : i = (s % p) + 1 OBVIOUS
  <2>3. /\ Part(c, k) \in Seq(Inputs) /\ i \in 1 .. Len(Part(c, k))
        /\ Part(c, k)[i] = inner[c].planes[s + 1]
    BY <1>3, <1>4, <2>1, <2>2, InItsPart
  <2>4. k \in DOMAIN demuxComp[c].parents
    <3>0. s \in Nat BY <1>5
    <3>1. s \div p \in Nat BY <3>0, <1>4, Divide
    <3>2. /\ s \div p < Demux!RoundUp(Demux!BatchSize(c), p)
          /\ Demux!RoundUp(Demux!BatchSize(c), p) \in Nat
      BY <1>4, <1>5, RoundUpIs
    <3>3. k \in 1 .. Demux!RoundUp(Demux!BatchSize(c), p) BY <2>1, <3>1, <3>2
    <3> QED BY <3>3, <1>6, <1>3
  <2>5. demuxComp[c].parents[k].out = Demux!Outer!EvalAll(Part(c, k))
    BY <2>4, <1>7 DEF DemuxIInv, DemuxPartInv
  <2>6. Demux!Sample(c, s) = demuxComp[c].parents[k].out[i]
    BY <1>4, <2>1, <2>2 DEF Demux!Sample
  <2>7. Demux!Outer!EvalAll(Part(c, k))[i] = Eval[Part(c, k)[i]] BY <2>3, DemuxEvalAllIs
  <2> QED BY <2>3, <2>5, <2>6, <2>7
<1>9. \A s \in 1 .. Demux!BatchSize(c) :
        /\ s - 1 \in 0 .. Demux!BatchSize(c) - 1 /\ (s - 1) + 1 = s
  BY <1>5
<1>10. \A s \in 1 .. Demux!BatchSize(c) : Demux!Sample(c, s - 1) = Eval[inner[c].planes[s]]
  BY <1>8, <1>9
<1>11. [s \in 1 .. Demux!BatchSize(c) |-> Demux!Sample(c, s - 1)] =
           Demux!Outer!EvalAll(inner[c].planes)
  BY <1>5, <1>10 DEF Demux!Outer!EvalAll
<1> QED BY <1>1, <1>2, <1>3, <1>11, DemuxEvalAllIs

LEMMA DemuxReturnInv ==
  ASSUME DemuxIInv, NEW c \in Workers, Demux!Return(c)
  PROVE DemuxIInv'
<1>1. /\ demuxComp[c].split /\ demuxComp[c].dataready = 0
      /\ demuxComp' = [demuxComp EXCEPT ![c] = Demux!NewComp]
      /\ UNCHANGED <<demuxQueue, demuxWorker, demuxAbort>>
  BY DEF Demux!Return, Demux!Waits
<1>2. /\ inner' = [inner EXCEPT ![c] = Demux!Outer!Answered(Demux!Outer!EvalAll(inner[c].planes))]
      /\ Serving(c) = {}
      /\ Demux!Outer!EvalAll(inner[c].planes) \in Seq(Demux!Outer!Outputs)
  BY <1>1, DemuxAnswersOwn DEF Demux!Return
<1>3. Demux!NewComp \in Demux!Comp BY DEF Demux!NewComp, Demux!Comp
<1>4. /\ inner' \in [Workers -> Demux!Outer!Computation]
      /\ demuxComp' \in [Workers -> Demux!Comp]
  BY <1>1, <1>2, <1>3
  DEF DemuxIInv, Demux!TypeOK, Demux!Outer!Computation, Demux!Outer!Answered
<1>5. \A d \in Workers : d # c => inner'[d] = inner[d] /\ demuxComp'[d] = demuxComp[d]
  BY <1>1, <1>2 DEF DemuxIInv, Demux!TypeOK
<1>6. demuxComp'[c] = Demux!NewComp /\ inner'[c].state # "asked"
  BY <1>1, <1>2 DEF DemuxIInv, Demux!TypeOK, Demux!Outer!Answered
<1>7. DemuxCallInv(c)'
  <2>1. Queued(c) = {} BY <1>1, Nobody DEF DemuxIInv
  <2>2. Queued(c)' = {} /\ Serving(c)' = {}
    BY <1>1, <1>2, <2>1 DEF Queued, Serving, Busy, Demux!At
  <2>3. Cardinality(Queued(c)') = 0 /\ Cardinality(Serving(c)') = 0 BY <2>2, FS_EmptySet
  <2> QED BY <1>6, <2>3 DEF DemuxCallInv, Demux!NewComp
<1>8. DemuxPartInv(c)' BY <1>6 DEF DemuxPartInv, Demux!NewComp
<1> QED BY <1>1, <1>2, <1>4, <1>5, <1>7, <1>8, DemuxCallerStepInv
-----------------------------------------------------------------------------
(* The steps of a worker. *)

LEMMA CountOf ==
  ASSUME NEW S, IsFiniteSet(S), NEW w, NEW T,
         T = S \/ T = S \cup {w} \/ T = S \ {w}
  PROVE  Cardinality(T) = Cardinality(S) + (IF w \in T THEN 1 ELSE 0)
                                         - (IF w \in S THEN 1 ELSE 0)
<1>1. Cardinality(S) \in Nat BY FS_CardinalityType
<1>2. CASE w \in S <=> w \in T
  <2>1. T = S BY <1>2
  <2> QED BY <1>1, <1>2, <2>1
<1>3. CASE w \notin S /\ w \in T BY <1>1, <1>3, FS_AddElement
<1>4. CASE w \in S /\ w \notin T BY <1>1, <1>4, FS_RemoveElement
<1> QED BY <1>2, <1>3, <1>4

\* The accounts of d when w changes to r.
Recounted(w, r, d) ==
  /\ Cardinality(Serving(d))' = Cardinality(Serving(d))
       + (IF Busy(w)' /\ r.caller = d THEN 1 ELSE 0)
       - (IF Busy(w) /\ demuxWorker[w].caller = d THEN 1 ELSE 0)
  /\ Cardinality(Adding(d))' = Cardinality(Adding(d))
       + (IF Demux!At(w, "add")' /\ r.caller = d THEN 1 ELSE 0)
       - (IF Demux!At(w, "add") /\ demuxWorker[w].caller = d THEN 1 ELSE 0)

\* One worker changes: who has a part in hand afterwards.
LEMMA DemuxMoves ==
  ASSUME Demux!TypeOK, NEW w \in DemuxWorkers, NEW r \in Demux!Worker,
         demuxWorker' = [demuxWorker EXCEPT ![w] = r]
  PROVE  /\ demuxWorker' \in [DemuxWorkers -> Demux!Worker] /\ demuxWorker'[w] = r
         /\ \A v \in DemuxWorkers : v # w =>
              /\ demuxWorker'[v] = demuxWorker[v] /\ (Busy(v)' <=> Busy(v))
              /\ \A place : Demux!At(v, place)' <=> Demux!At(v, place)
         /\ \A d \in Workers : Recounted(w, r, d)
<1>1. /\ demuxWorker' \in [DemuxWorkers -> Demux!Worker] /\ demuxWorker'[w] = r
      /\ \A v \in DemuxWorkers : v # w => demuxWorker'[v] = demuxWorker[v]
  BY DEF Demux!TypeOK
<1>2. \A v \in DemuxWorkers : v # w =>
        /\ Busy(v)' <=> Busy(v)
        /\ \A place : Demux!At(v, place)' <=> Demux!At(v, place)
  BY <1>1 DEF Busy, Demux!At
<1>3. ASSUME NEW d \in Workers
      PROVE  Cardinality(Serving(d))' = Cardinality(Serving(d))
                   + (IF Busy(w)' /\ r.caller = d THEN 1 ELSE 0)
                   - (IF Busy(w) /\ demuxWorker[w].caller = d THEN 1 ELSE 0)
  <2>1. w \in Serving(d) <=> Busy(w) /\ demuxWorker[w].caller = d BY DEF Serving
  <2>2. w \in Serving(d)' <=> Busy(w)' /\ r.caller = d BY <1>1 DEF Serving
  <2>3. \A v : v # w => (v \in Serving(d)' <=> v \in Serving(d))
    BY <1>1, <1>2 DEF Serving
  <2>4. \/ Serving(d)' = Serving(d) \/ Serving(d)' = Serving(d) \cup {w}
        \/ Serving(d)' = Serving(d) \ {w}
    BY <2>3
  <2>5. Cardinality(Serving(d)') = Cardinality(Serving(d))
          + (IF w \in Serving(d)' THEN 1 ELSE 0) - (IF w \in Serving(d) THEN 1 ELSE 0)
    BY <2>4, DemuxCountsAre, CountOf
  <2> QED BY <2>1, <2>2, <2>5
<1>4. ASSUME NEW d \in Workers
      PROVE  Cardinality(Adding(d))' = Cardinality(Adding(d))
                   + (IF Demux!At(w, "add")' /\ r.caller = d THEN 1 ELSE 0)
                   - (IF Demux!At(w, "add") /\ demuxWorker[w].caller = d THEN 1 ELSE 0)
  <2>1. w \in Adding(d) <=> Demux!At(w, "add") /\ demuxWorker[w].caller = d BY DEF Adding
  <2>2. w \in Adding(d)' <=> Demux!At(w, "add")' /\ r.caller = d BY <1>1 DEF Adding
  <2>3. \A v : v # w => (v \in Adding(d)' <=> v \in Adding(d))
    BY <1>1, <1>2 DEF Adding
  <2>4. \/ Adding(d)' = Adding(d) \/ Adding(d)' = Adding(d) \cup {w}
        \/ Adding(d)' = Adding(d) \ {w}
    BY <2>3
  <2>5. Cardinality(Adding(d)') = Cardinality(Adding(d))
          + (IF w \in Adding(d)' THEN 1 ELSE 0) - (IF w \in Adding(d) THEN 1 ELSE 0)
    BY <2>4, DemuxCountsAre, CountOf
  <2> QED BY <2>1, <2>2, <2>5
<1> QED BY <1>1, <1>2, <1>3, <1>4 DEF Recounted

\* What is left to show when w changes, and of comp only what it serves.
LEMMA DemuxWorkerStepInv ==
  ASSUME DemuxIInv, NEW w \in DemuxWorkers, NEW r \in Demux!Worker,
         demuxWorker' = [demuxWorker EXCEPT ![w] = r], UNCHANGED <<inner, demuxAbort>>,
         NEW c \in Workers,
         Busy(w) => demuxWorker[w].caller = c, Busy(w)' => r.caller = c,
         demuxQueue' \in Seq(Workers), demuxComp' \in [Workers -> Demux!Comp],
         \A d \in Workers : d # c =>
           demuxComp'[d] = demuxComp[d] /\ Cardinality(Queued(d))' = Cardinality(Queued(d)),
         DOMAIN demuxComp[c].parents \subseteq DOMAIN demuxComp'[c].parents,
         DemuxCallInv(c)', DemuxPartInv(c)', DemuxWorkerInv(w)'
  PROVE  DemuxIInv'
<1> USE DEF DemuxIInv
<1>1. /\ demuxWorker' \in [DemuxWorkers -> Demux!Worker] /\ demuxWorker'[w] = r
      /\ \A v \in DemuxWorkers : v # w =>
           /\ demuxWorker'[v] = demuxWorker[v] /\ (Busy(v)' <=> Busy(v))
           /\ \A place : Demux!At(v, place)' <=> Demux!At(v, place)
  BY DemuxMoves
<1>2. Demux!TypeOK' BY <1>1 DEF Demux!TypeOK
<1>3. ASSUME NEW d \in Workers, d # c PROVE DemuxCallInv(d)' /\ DemuxPartInv(d)'
  <2>1. ~(Busy(w) /\ demuxWorker[w].caller = d) /\ ~(Busy(w)' /\ r.caller = d) BY <1>3
  <2>2. /\ ~(Demux!At(w, "add") /\ demuxWorker[w].caller = d)
        /\ ~(Demux!At(w, "compute") /\ demuxWorker[w].caller = d)
    BY <2>1 DEF Busy
  <2>3. ~(Demux!At(w, "add")' /\ r.caller = d) BY <2>1 DEF Busy
  <2>4. Serving(d)' = Serving(d) BY <1>1, <2>1 DEF Serving
  <2>5. Adding(d)' = Adding(d) BY <1>1, <2>2, <2>3 DEF Adding
  <2>6. \A v \in DemuxWorkers : \A k : ComputesPart(v, d, k) => ComputesPart(v, d, k)'
    BY <1>1, <2>2 DEF ComputesPart
  <2>7. UNCHANGED <<inner[d], demuxComp[d]>> BY <1>3
  <2>8. DemuxCallInv(d)' BY <1>3, <2>4, <2>5, <2>7, DemuxCallKept
  <2>9. DemuxPartInv(d)' BY <2>6, <2>7, DemuxPartKept, DemuxTypes
  <2> QED BY <2>8, <2>9
<1>4. ASSUME NEW v \in DemuxWorkers, v # w PROVE DemuxWorkerInv(v)'
  <2>1. DemuxWorkerInv(v) /\ demuxWorker'[v] = demuxWorker[v] BY <1>1, <1>4
  <2>2. CASE ~Busy(v) BY <2>2, <1>1, <1>4 DEF DemuxWorkerInv, Busy
  <2>3. CASE Busy(v)
    <3>1. demuxWorker[v].caller \in Workers BY <2>1, <2>3 DEF DemuxWorkerInv
    <3>2. DOMAIN demuxComp[demuxWorker[v].caller].parents \subseteq DOMAIN demuxComp'[demuxWorker[v].caller].parents
      BY <3>1
    <3> QED BY <2>1, <2>3, <3>1, <3>2 DEF DemuxWorkerInv, Busy, Demux!At
  <2> QED BY <2>2, <2>3
<1> QED BY <1>2, <1>3, <1>4

LEMMA DemuxLoopInv ==
  ASSUME DemuxIInv, NEW w \in DemuxWorkers, Demux!Loop(w)
  PROVE DemuxIInv'
<1>1. PICK place \in {"gone", "asleep", "pop"} : Demux!Go(w, place) BY DEF Demux!Loop
<1>2. Demux!At(w, "loop") /\ UNCHANGED <<inner, demuxQueue, demuxComp, demuxAbort>>
  BY DEF Demux!Loop
<1>3. /\ demuxWorker' \in [DemuxWorkers -> Demux!Worker] /\ demuxWorker'[w].at = place
      /\ \A v \in DemuxWorkers : v # w => demuxWorker'[v] = demuxWorker[v]
  BY <1>1, DemuxGoIs DEF DemuxIInv
<1>4. ~Busy(w) /\ ~Busy(w)' BY <1>2, <1>3 DEF Busy, Demux!At
<1>5. demuxAbort' \in BOOLEAN BY <1>2 DEF DemuxIInv, Demux!TypeOK
<1> QED BY <1>2, <1>3, <1>4, <1>5, DemuxIdleStepInv

LEMMA DemuxPopInv == ASSUME DemuxIInv, NEW w \in DemuxWorkers, Demux!Pop(w) PROVE DemuxIInv'
<1>1. Demux!At(w, "pop") /\ ~Busy(w) /\ UNCHANGED <<inner, demuxComp, demuxAbort>>
  BY DEF Demux!Pop, Busy, Demux!At
<1>2. CASE demuxQueue = <<>>
  <2>1. Demux!Go(w, "loop") /\ UNCHANGED demuxQueue BY <1>2 DEF Demux!Pop
  <2>2. /\ demuxWorker' \in [DemuxWorkers -> Demux!Worker] /\ demuxWorker'[w].at = "loop"
        /\ \A v \in DemuxWorkers : v # w => demuxWorker'[v] = demuxWorker[v]
    BY <2>1, DemuxGoIs DEF DemuxIInv
  <2>3. ~Busy(w)' BY <2>2 DEF Busy, Demux!At
  <2>4. demuxAbort' \in BOOLEAN BY <1>1 DEF DemuxIInv, Demux!TypeOK
  <2> QED BY <1>1, <2>1, <2>2, <2>3, <2>4, DemuxIdleStepInv
<1>3. CASE demuxQueue # <<>>
  <2>1. demuxQueue \in Seq(Workers) /\ demuxQueue' = Tail(demuxQueue)
    BY <1>3 DEF Demux!Pop, DemuxIInv, Demux!TypeOK
  <2>2. PICK c \in Workers : c = Head(demuxQueue) BY <2>1, <1>3
  <2>3. PICK r \in Demux!Worker :
          demuxWorker' = [demuxWorker EXCEPT ![w] = r] /\ r.at = "add" /\ r.caller = c
    <3>1. demuxWorker[w] \in Demux!Worker BY DEF DemuxIInv, Demux!TypeOK
    <3>2. [demuxWorker[w] EXCEPT !.at = "add", !.caller = c] \in Demux!Worker
      BY <3>1 DEF Demux!Worker
    <3>3. demuxWorker' =
              [demuxWorker EXCEPT ![w] = [demuxWorker[w] EXCEPT !.at = "add", !.caller = c]]
      BY <1>3, <2>2 DEF Demux!Pop
    <3> QED BY <3>1, <3>2, <3>3 DEF Demux!Worker
  <2>4. /\ demuxWorker'[w] = r
        /\ \A v \in DemuxWorkers : v # w =>
             /\ demuxWorker'[v] = demuxWorker[v]
             /\ \A place : Demux!At(v, place)' <=> Demux!At(v, place)
        /\ \A d \in Workers : Recounted(w, r, d)
    BY <2>3, DemuxMoves DEF DemuxIInv
  <2>5. Demux!At(w, "add")' /\ Busy(w)' /\ ~Demux!At(w, "add") /\ ~Demux!At(w, "compute")
    BY <1>1, <2>3, <2>4 DEF Busy, Demux!At
  <2>6. \A d \in Workers :
          Cardinality(Queued(d)) = Cardinality(Queued(d))' + (IF c = d THEN 1 ELSE 0)
    BY <2>1, <2>2, <1>3, PlacesTail DEF Queued
  <2>7. \A d \in Workers : Cardinality(Queued(d)) \in Nat /\ Cardinality(Queued(d))' \in Nat
    <3>1. Len(demuxQueue)' \in Nat /\ DOMAIN demuxQueue' = 1 .. Len(demuxQueue)'
      BY <2>1, <1>3
    <3>2. \A d : Cardinality(Queued(d))' \in Nat BY <3>1, PlacesFinite DEF Queued
    <3> QED BY <3>2, DemuxCountsAre DEF DemuxIInv
  <2>8. \A d \in Workers : d # c => Cardinality(Queued(d))' = Cardinality(Queued(d))
    BY <2>6, <2>7
  <2>9. DemuxCallInv(c)'
    <3>1. PICK q \in Nat : Cardinality(Queued(c))' = q /\ Cardinality(Queued(c)) = q + 1
      BY <2>2, <2>6, <2>7
    <3>2. PICK a \in Nat : Cardinality(Adding(c)) = a /\ Cardinality(Adding(c))' = a + 1
      BY <2>3, <2>4, <2>5, DemuxCountsAre DEF DemuxIInv, Recounted
    <3>3. PICK v \in Nat : Cardinality(Serving(c)) = v /\ Cardinality(Serving(c))' = v + 1
      BY <1>1, <2>3, <2>4, <2>5, DemuxCountsAre DEF DemuxIInv, Recounted
    <3>4. PICK t \in Nat, l \in Nat : t = demuxComp[c].toEnqueue /\ l = Len(demuxComp[c].parents)
      BY <2>2, DemuxTypes DEF DemuxIInv
    <3>5. /\ t + (q + 1) + a + l = t + q + (a + 1) + l
          /\ t + (q + 1) + v = t + q + (v + 1)
      OBVIOUS
    <3>6. DemuxCallInv(c) BY <2>2 DEF DemuxIInv
    <3>7. demuxComp[c].split
      <4>1. Cardinality(Queued(c)) # 0 BY <3>1
      <4>2. Queued(c) # {} BY <4>1, FS_EmptySet
      <4> QED BY <2>2, <3>6, <4>2, Involved DEF DemuxIInv
    <3>8. Demux!BatchSize(c)' = Demux!BatchSize(c) BY <1>1 DEF Demux!BatchSize
    <3> QED BY <1>1, <3>1, <3>2, <3>3, <3>4, <3>5, <3>6, <3>7, <3>8 DEF DemuxCallInv
  <2>10. DemuxPartInv(c)'
    <3>1. \A v \in DemuxWorkers, k \in Nat : ComputesPart(v, c, k) => ComputesPart(v, c, k)'
      BY <2>4, <2>5 DEF ComputesPart
    <3> QED BY <1>1, <2>2, <3>1, DemuxPartKept, DemuxTypes DEF DemuxIInv
  <2>11. DemuxWorkerInv(w)'
    BY <2>2, <2>3, <2>4 DEF DemuxWorkerInv, Demux!At
  <2>12. demuxComp' \in [Workers -> Demux!Comp] BY <1>1 DEF DemuxIInv, Demux!TypeOK
  <2>13. demuxQueue' \in Seq(Workers) BY <2>1, <1>3
  <2> QED BY <1>1, <2>3, <2>8, <2>9, <2>10, <2>11, <2>12, <2>13, DemuxWorkerStepInv
<1> QED BY <1>2, <1>3

\* What the worker w has in hand is a part of a caller in ComputeBlocking.
LEMMA InHand ==
  ASSUME DemuxIInv, NEW w \in DemuxWorkers, Busy(w),
         NEW c, c = demuxWorker[w].caller
  PROVE  /\ c \in Workers /\ demuxComp[c].split /\ demuxComp[c].dataready > 0
         /\ inner[c].planes \in Seq(Inputs)
<1>1. c \in Workers BY DEF DemuxIInv, DemuxWorkerInv
<1>2. w \in Serving(c) BY DEF Serving
<1>3. demuxComp[c].split /\ demuxComp[c].dataready > 0 BY <1>1, <1>2, Involved DEF DemuxIInv
<1>4. inner[c].state = "asked" BY <1>1, <1>3 DEF DemuxIInv, DemuxCallInv
<1> QED BY <1>1, <1>3, <1>4, DemuxTypes DEF DemuxIInv

LEMMA NextPartIs ==
  ASSUME Demux!TypeOK, NEW c \in Workers, inner[c].planes \in Seq(Inputs)
  PROVE  /\ Demux!NextPart(c) = Part(c, Len(demuxComp[c].parents) + 1)
         /\ Demux!NextPart(c) \in Seq(Inputs)
<1>1. PICK l \in Nat : l = Len(demuxComp[c].parents) BY DemuxTypes
<1>2. PICK p \in Nat : p = demuxComp[c].partial_size BY DemuxTypes
<1>3. PICK first \in Nat : first = l * p
  <2>1. l * p \in Nat OBVIOUS
  <2> QED BY <2>1
<1>4. (l + 1) - 1 = l OBVIOUS
<1>5. PICK last \in Nat : last = Demux!Minimum(Demux!BatchSize(c), first + p) /\ last <= Demux!BatchSize(c)
  BY DEF Demux!Minimum, Demux!BatchSize
<1>6. Demux!NextPart(c) = SubSeq(inner[c].planes, first + 1, last)
  BY <1>1, <1>2, <1>3, <1>5 DEF Demux!NextPart
<1>7. Part(c, l + 1) = Demux!NextPart(c) BY <1>1, <1>2, <1>3, <1>4, <1>5, <1>6 DEF Part
<1>8. SubSeq(inner[c].planes, first + 1, last) \in Seq(Inputs)
  <2>1. \A j \in first + 1 .. last : inner[c].planes[j] \in Inputs
    <3>1. \A j \in first + 1 .. last : j \in 1 .. Len(inner[c].planes)
      BY <1>5 DEF Demux!BatchSize
    <3> QED BY <3>1
  <2>2. first + 1 \in Int /\ last \in Int OBVIOUS
  <2> QED BY <2>1, <2>2, SubSeqProperties
<1> QED BY <1>1, <1>6, <1>7, <1>8

LEMMA DemuxAddParentInv ==
  ASSUME DemuxIInv, NEW w \in DemuxWorkers, Demux!AddParentFromNetwork(w)
  PROVE  DemuxIInv'
<1>1. PICK c : c = demuxWorker[w].caller OBVIOUS
<1>2. Demux!At(w, "add") /\ Busy(w) /\ Demux!Waits(c) /\ UNCHANGED <<inner, demuxQueue, demuxAbort>>
  BY <1>1 DEF Demux!AddParentFromNetwork, Busy
<1>3. /\ c \in Workers /\ demuxComp[c].split /\ demuxComp[c].dataready > 0
      /\ inner[c].planes \in Seq(Inputs)
  BY <1>1, <1>2, InHand
<1>4. PICK l \in Nat : l = Len(demuxComp[c].parents)
  <2>1. demuxComp[c].parents \in Seq(Demux!Parent) BY <1>3, DemuxTypes DEF DemuxIInv
  <2>2. Len(demuxComp[c].parents) \in Nat BY ONLY <2>1
  <2> QED BY ONLY <2>2
<1>5. PICK p : p = [planes |-> Demux!NextPart(c), out |-> <<>>] OBVIOUS
<1>6. p \in Demux!Parent /\ p.planes = Part(c, l + 1)
  BY <1>3, <1>4, <1>5, NextPartIs DEF DemuxIInv, Demux!Parent
<1>7. demuxComp' = [demuxComp EXCEPT ![c].parents = Append(@, p)]
  BY <1>1, <1>5 DEF Demux!AddParentFromNetwork
<1>8. /\ demuxComp' \in [Workers -> Demux!Comp]
      /\ \A d \in Workers : d # c => demuxComp'[d] = demuxComp[d]
      /\ demuxComp'[c].toEnqueue = demuxComp[c].toEnqueue
      /\ demuxComp'[c].split = demuxComp[c].split
      /\ demuxComp'[c].dataready = demuxComp[c].dataready
      /\ demuxComp'[c].partial_size = demuxComp[c].partial_size
      /\ demuxComp'[c].parents = Append(demuxComp[c].parents, p)
  <2>1. Append(demuxComp[c].parents, p) \in Seq(Demux!Parent)
    BY <1>3, <1>6, DemuxTypes DEF DemuxIInv
  <2>2. [demuxComp[c] EXCEPT !.parents = Append(@, p)] \in Demux!Comp
    BY <1>3, <2>1 DEF DemuxIInv, Demux!TypeOK, Demux!Comp
  <2>3. demuxComp' =
            [demuxComp EXCEPT ![c] = [demuxComp[c] EXCEPT !.parents = Append(@, p)]]
    BY <1>7
  <2>4. demuxComp'[c] = [demuxComp[c] EXCEPT !.parents = Append(@, p)]
    BY <1>3, <2>3 DEF DemuxIInv, Demux!TypeOK
  <2>5. demuxComp[c] \in Demux!Comp BY <1>3 DEF DemuxIInv, Demux!TypeOK
  <2> QED BY <1>3, <2>2, <2>3, <2>4, <2>5 DEF DemuxIInv, Demux!TypeOK, Demux!Comp
<1>9. /\ demuxComp[c].parents \in Seq(Demux!Parent) /\ Len(demuxComp'[c].parents) = l + 1
      /\ DOMAIN demuxComp[c].parents = 1 .. l /\ DOMAIN demuxComp'[c].parents = 1 .. l + 1
      /\ \A k \in 1 .. l : demuxComp'[c].parents[k] = demuxComp[c].parents[k]
      /\ demuxComp'[c].parents[l + 1] = p
  BY <1>3, <1>4, <1>6, <1>8, DemuxTypes DEF DemuxIInv
<1>10. PICK r \in Demux!Worker :
         /\ demuxWorker' = [demuxWorker EXCEPT ![w] = r]
         /\ r.at = "compute" /\ r.caller = c /\ r.part = l + 1
  <2>1. demuxWorker[w] \in Demux!Worker BY DEF DemuxIInv, Demux!TypeOK
  <2>2. [demuxWorker[w] EXCEPT !.at = "compute", !.part = l + 1] \in Demux!Worker
    <3>1. l + 1 \in Nat OBVIOUS
    <3> QED BY <2>1, <3>1 DEF Demux!Worker
  <2>3. demuxWorker' = [demuxWorker EXCEPT ![w] =
                     [demuxWorker[w] EXCEPT !.at = "compute", !.part = l + 1]]
    BY <1>1, <1>4 DEF Demux!AddParentFromNetwork
  <2> QED BY <1>1, <2>1, <2>2, <2>3 DEF Demux!Worker
<1>11. /\ demuxWorker'[w] = r
       /\ \A v \in DemuxWorkers : v # w =>
            /\ demuxWorker'[v] = demuxWorker[v]
            /\ \A place : Demux!At(v, place)' <=> Demux!At(v, place)
       /\ \A d \in Workers : Recounted(w, r, d)
  BY <1>10, DemuxMoves DEF DemuxIInv
<1>12. Demux!At(w, "compute")' /\ Busy(w)' /\ ~Demux!At(w, "add")' /\ ~Demux!At(w, "compute")
  BY <1>2, <1>10, <1>11 DEF Busy, Demux!At
<1>13. \A d : Queued(d)' = Queued(d) BY <1>2 DEF Queued
<1>14. DemuxCallInv(c)'
  <2>1. PICK q \in Nat : Cardinality(Queued(c)) = q /\ Cardinality(Queued(c))' = q
    BY <1>3, <1>13, DemuxCountsAre DEF DemuxIInv
  <2>2. /\ Cardinality(Adding(c)) \in Nat
        /\ Cardinality(Adding(c)) = Cardinality(Adding(c))' + 1
    BY <1>1, <1>2, <1>3, <1>10, <1>11, <1>12, DemuxCountsAre DEF DemuxIInv, Recounted
  <2>3. w \in Adding(c) BY <1>1, <1>2 DEF Adding
  <2>4. Cardinality(Adding(c)) # 0 BY <1>3, <2>3, DemuxCountsAre, FS_EmptySet DEF DemuxIInv
  <2>5. PICK a \in Nat : Cardinality(Adding(c))' = a /\ Cardinality(Adding(c)) = a + 1
    <3>1. Cardinality(Adding(c)) - 1 \in Nat BY <2>2, <2>4
    <3>2. Cardinality(Adding(c))' = Cardinality(Adding(c)) - 1
      BY <1>1, <1>2, <1>3, <1>10, <1>11, <1>12, <2>2 DEF Recounted
    <3> QED BY <2>2, <3>1, <3>2
  <2>6. PICK v \in Nat : Cardinality(Serving(c)) = v /\ Cardinality(Serving(c))' = v
    BY <1>1, <1>2, <1>3, <1>10, <1>11, <1>12, DemuxCountsAre DEF DemuxIInv, Recounted
  <2>7. PICK t \in Nat : t = demuxComp[c].toEnqueue BY <1>3, DemuxTypes DEF DemuxIInv
  <2>8. t + q + (a + 1) + l = t + q + a + (l + 1) OBVIOUS
  <2>9. DemuxCallInv(c) BY <1>3 DEF DemuxIInv
  <2>10. Demux!BatchSize(c)' = Demux!BatchSize(c) BY <1>2 DEF Demux!BatchSize
  <2> QED BY <1>2, <1>3, <1>4, <1>8, <1>9, <2>1, <2>5, <2>6, <2>7, <2>8, <2>9, <2>10
          DEF DemuxCallInv
<1>15. DemuxPartInv(c)'
  <2> SUFFICES ASSUME NEW k \in 1 .. l + 1
               PROVE  /\ demuxComp'[c].parents[k].planes = Part(c, k)'
                      /\ \/ demuxComp'[c].parents[k].out =
                              Demux!Outer!EvalAll(demuxComp'[c].parents[k].planes)
                         \/ \E v \in DemuxWorkers : ComputesPart(v, c, k)'
    BY <1>9 DEF DemuxPartInv
  <2>1. Part(c, k)' = Part(c, k) BY <1>2, <1>8 DEF Part, Demux!BatchSize
  <2>2. CASE k = l + 1
    <3>1. ComputesPart(w, c, k)' BY <1>10, <1>11, <1>12, <2>2 DEF ComputesPart
    <3> QED BY <1>6, <1>9, <2>1, <2>2, <3>1
  <2>3. CASE k # l + 1
    <3>1. k \in 1 .. l BY <2>3
    <3>2. /\ demuxComp[c].parents[k].planes = Part(c, k)
          /\ \/ demuxComp[c].parents[k].out = Demux!Outer!EvalAll(demuxComp[c].parents[k].planes)
             \/ \E v \in DemuxWorkers : ComputesPart(v, c, k)
      BY <1>3, <1>9, <3>1 DEF DemuxIInv, DemuxPartInv
    <3>3. \A v \in DemuxWorkers : ComputesPart(v, c, k) => ComputesPart(v, c, k)'
      BY <1>11, <1>12 DEF ComputesPart
    <3> QED BY <1>9, <2>1, <3>1, <3>2, <3>3
  <2> QED BY <2>2, <2>3
<1>16. DemuxWorkerInv(w)' BY <1>3, <1>9, <1>10, <1>11 DEF DemuxWorkerInv
<1>17. demuxQueue' \in Seq(Workers) BY <1>2 DEF DemuxIInv, Demux!TypeOK
<1>18. DOMAIN demuxComp[c].parents \subseteq DOMAIN demuxComp'[c].parents BY <1>9
<1> QED BY <1>1, <1>2, <1>3, <1>8, <1>10, <1>13, <1>14, <1>15, <1>16, <1>17, <1>18,
           DemuxWorkerStepInv

LEMMA DemuxComputeInv ==
  ASSUME DemuxIInv, NEW w \in DemuxWorkers, Demux!Compute(w)
  PROVE DemuxIInv'
<1>1. PICK c : c = demuxWorker[w].caller OBVIOUS
<1>2. Demux!At(w, "compute") /\ Busy(w) /\ UNCHANGED <<inner, demuxQueue, demuxAbort>>
  BY DEF Demux!Compute, Busy
<1>3. /\ c \in Workers /\ demuxComp[c].split /\ demuxComp[c].dataready > 0
      /\ inner[c].planes \in Seq(Inputs)
  BY <1>1, <1>2, InHand
<1>4. PICK k \in DOMAIN demuxComp[c].parents : k = demuxWorker[w].part
  BY <1>1, <1>2 DEF DemuxIInv, DemuxWorkerInv
<1>5. demuxComp[c].parents \in Seq(Demux!Parent) /\ demuxComp[c].parents[k] \in Demux!Parent
  BY <1>3, <1>4, DemuxTypes DEF DemuxIInv
<1>6. PICK out \in Seq(Demux!Outer!Outputs) :
        out = Demux!Outer!EvalAll(demuxComp[c].parents[k].planes)
  BY <1>5, DemuxEvalAllIs DEF Demux!Parent
<1>7. PICK p \in Demux!Parent : p = [demuxComp[c].parents[k] EXCEPT !.out = out]
  BY <1>5, <1>6 DEF Demux!Parent
<1>8. PICK parents \in Seq(Demux!Parent) :
        /\ parents = [demuxComp[c].parents EXCEPT ![k] = p]
        /\ DOMAIN parents = DOMAIN demuxComp[c].parents
        /\ Len(parents) = Len(demuxComp[c].parents)
        /\ parents[k] = p
        /\ \A j \in DOMAIN demuxComp[c].parents : j # k
               => parents[j] = demuxComp[c].parents[j]
  <2>1. [demuxComp[c].parents EXCEPT ![k] = p] \in Seq(Demux!Parent) BY <1>4, <1>5
  <2>2. Len([demuxComp[c].parents EXCEPT ![k] = p]) = Len(demuxComp[c].parents)
    BY <1>5, <2>1
  <2> QED BY <1>4, <1>5, <2>1, <2>2
<1>9. demuxComp' = [demuxComp EXCEPT ![c] = [demuxComp[c] EXCEPT !.parents = parents]]
  BY <1>1, <1>4, <1>6, <1>7, <1>8 DEF Demux!Compute
<1>10. /\ demuxComp' \in [Workers -> Demux!Comp]
       /\ \A d \in Workers : d # c => demuxComp'[d] = demuxComp[d]
       /\ demuxComp'[c].toEnqueue = demuxComp[c].toEnqueue
       /\ demuxComp'[c].split = demuxComp[c].split
       /\ demuxComp'[c].dataready = demuxComp[c].dataready
       /\ demuxComp'[c].partial_size = demuxComp[c].partial_size
       /\ demuxComp'[c].parents = parents
  <2>1. demuxComp[c] \in Demux!Comp BY <1>3 DEF DemuxIInv, Demux!TypeOK
  <2>2. [demuxComp[c] EXCEPT !.parents = parents] \in Demux!Comp BY <2>1 DEF Demux!Comp
  <2>3. demuxComp'[c] = [demuxComp[c] EXCEPT !.parents = parents]
    BY <1>3, <1>9 DEF DemuxIInv, Demux!TypeOK
  <2> QED BY <1>3, <1>9, <2>1, <2>2, <2>3 DEF DemuxIInv, Demux!TypeOK, Demux!Comp
<1>11. PICK r \in Demux!Worker :
         /\ demuxWorker' = [demuxWorker EXCEPT ![w] = r]
         /\ r.at = "notify" /\ r.caller = c /\ r.part = k
  <2>1. demuxWorker[w] \in Demux!Worker BY DEF DemuxIInv, Demux!TypeOK
  <2>2. [demuxWorker[w] EXCEPT !.at = "notify"] \in Demux!Worker BY <2>1 DEF Demux!Worker
  <2>3. demuxWorker' = [demuxWorker EXCEPT ![w] = [demuxWorker[w] EXCEPT !.at = "notify"]]
    BY DEF Demux!Compute, Demux!Go
  <2> QED BY <1>1, <1>4, <2>1, <2>2, <2>3 DEF Demux!Worker
<1>12. /\ demuxWorker'[w] = r
       /\ \A v \in DemuxWorkers : v # w =>
            /\ demuxWorker'[v] = demuxWorker[v]
            /\ \A place : Demux!At(v, place)' <=> Demux!At(v, place)
       /\ \A d \in Workers : Recounted(w, r, d)
  BY <1>11, DemuxMoves DEF DemuxIInv
<1>13. Busy(w)' /\ ~Demux!At(w, "add")' /\ ~Demux!At(w, "add")
  BY <1>2, <1>11, <1>12 DEF Busy, Demux!At
<1>14. \A d : Queued(d)' = Queued(d) BY <1>2 DEF Queued
<1>15. DemuxCallInv(c)'
  <2>1. /\ Cardinality(Serving(c))' = Cardinality(Serving(c))
        /\ Cardinality(Adding(c))' = Cardinality(Adding(c))
    BY <1>1, <1>2, <1>3, <1>11, <1>12, <1>13, DemuxCountsAre DEF DemuxIInv, Recounted
  <2>2. DemuxCallInv(c) BY <1>3 DEF DemuxIInv
  <2>3. Demux!BatchSize(c)' = Demux!BatchSize(c) BY <1>2 DEF Demux!BatchSize
  <2> QED BY <1>2, <1>3, <1>8, <1>10, <1>14, <2>1, <2>2, <2>3 DEF DemuxCallInv
<1>16. DemuxPartInv(c)'
  <2> SUFFICES ASSUME NEW j \in DOMAIN demuxComp[c].parents
               PROVE  /\ parents[j].planes = Part(c, j)'
                      /\ \/ parents[j].out = Demux!Outer!EvalAll(parents[j].planes)
                         \/ \E v \in DemuxWorkers : ComputesPart(v, c, j)'
    BY <1>8, <1>10 DEF DemuxPartInv
  <2>1. Part(c, j)' = Part(c, j) BY <1>2, <1>10 DEF Part, Demux!BatchSize
  <2>2. /\ demuxComp[c].parents[j].planes = Part(c, j)
        /\ \/ demuxComp[c].parents[j].out = Demux!Outer!EvalAll(demuxComp[c].parents[j].planes)
           \/ \E v \in DemuxWorkers : ComputesPart(v, c, j)
    BY <1>3 DEF DemuxIInv, DemuxPartInv
  <2>3. CASE j = k
    <3>1. p.planes = demuxComp[c].parents[k].planes /\ p.out = out
      BY <1>5, <1>7 DEF Demux!Parent
    <3> QED BY <1>6, <1>8, <2>1, <2>2, <2>3, <3>1
  <2>4. CASE j # k
    <3>1. \A v \in DemuxWorkers : ComputesPart(v, c, j) => ComputesPart(v, c, j)'
      BY <1>4, <1>12, <2>4 DEF ComputesPart
    <3> QED BY <1>8, <2>1, <2>2, <2>4, <3>1
  <2> QED BY <2>3, <2>4
<1>17. DemuxWorkerInv(w)' BY <1>3, <1>8, <1>10, <1>11, <1>12 DEF DemuxWorkerInv
<1>18. demuxQueue' \in Seq(Workers) BY <1>2 DEF DemuxIInv, Demux!TypeOK
<1>19. DOMAIN demuxComp[c].parents \subseteq DOMAIN demuxComp'[c].parents BY <1>8, <1>10
<1> QED BY <1>1, <1>2, <1>3, <1>10, <1>11, <1>14, <1>15, <1>16, <1>17, <1>18, <1>19,
           DemuxWorkerStepInv

LEMMA DemuxNotifyInv ==
  ASSUME DemuxIInv, NEW w \in DemuxWorkers, Demux!NotifyComplete(w)
  PROVE  DemuxIInv'
<1>1. PICK c : c = demuxWorker[w].caller OBVIOUS
<1>2. Demux!At(w, "notify") /\ Busy(w) /\ UNCHANGED <<inner, demuxQueue, demuxAbort>>
  BY DEF Demux!NotifyComplete, Busy
<1>3. c \in Workers /\ demuxComp[c].split /\ demuxComp[c].dataready > 0
  BY <1>1, <1>2, InHand
<1>4. demuxComp' = [demuxComp EXCEPT ![c].dataready = @ - 1]
  BY <1>1 DEF Demux!NotifyComplete
<1>5. PICK n \in Nat : demuxComp[c].dataready = n + 1
  <2>1. demuxComp[c].dataready \in Nat BY <1>3, DemuxTypes DEF DemuxIInv
  <2>2. /\ demuxComp[c].dataready - 1 \in Nat
        /\ (demuxComp[c].dataready - 1) + 1 = demuxComp[c].dataready
    BY <1>3, <2>1
  <2> QED BY <2>2
<1>6. /\ demuxComp' \in [Workers -> Demux!Comp]
      /\ \A d \in Workers : d # c => demuxComp'[d] = demuxComp[d]
      /\ demuxComp'[c].toEnqueue = demuxComp[c].toEnqueue
      /\ demuxComp'[c].split = demuxComp[c].split
      /\ demuxComp'[c].dataready = n
      /\ demuxComp'[c].partial_size = demuxComp[c].partial_size
      /\ demuxComp'[c].parents = demuxComp[c].parents
  <2>1. demuxComp[c] \in Demux!Comp BY <1>3 DEF DemuxIInv, Demux!TypeOK
  <2>2. demuxComp[c].dataready - 1 = n BY <1>5
  <2>3. [demuxComp[c] EXCEPT !.dataready = n] \in Demux!Comp BY <2>1 DEF Demux!Comp
  <2>4. demuxComp' = [demuxComp EXCEPT ![c] = [demuxComp[c] EXCEPT !.dataready = n]]
    BY <1>4, <2>2
  <2>5. demuxComp'[c] = [demuxComp[c] EXCEPT !.dataready = n]
    BY <1>3, <2>4 DEF DemuxIInv, Demux!TypeOK
  <2> QED BY <1>3, <2>1, <2>3, <2>4, <2>5 DEF DemuxIInv, Demux!TypeOK, Demux!Comp
<1>7. PICK r \in Demux!Worker : demuxWorker' = [demuxWorker EXCEPT ![w] = r] /\ r.at = "pop"
  <2>1. Demux!Free("pop") \in Demux!Worker /\ Demux!Free("pop").at = "pop"
    BY DEF Demux!Free, Demux!Worker
  <2> QED BY <2>1 DEF Demux!NotifyComplete
<1>8. /\ demuxWorker'[w] = r
      /\ \A v \in DemuxWorkers : v # w =>
           /\ demuxWorker'[v] = demuxWorker[v]
           /\ \A place : Demux!At(v, place)' <=> Demux!At(v, place)
      /\ \A d \in Workers : Recounted(w, r, d)
  BY <1>7, DemuxMoves DEF DemuxIInv
<1>9. ~Busy(w)' /\ ~Demux!At(w, "add")' /\ ~Demux!At(w, "add") /\ ~Demux!At(w, "compute")
  BY <1>2, <1>7, <1>8 DEF Busy, Demux!At
<1>10. \A d : Queued(d)' = Queued(d) BY <1>2 DEF Queued
<1>11. DemuxCallInv(c)'
  <2>1. Cardinality(Adding(c))' = Cardinality(Adding(c))
    BY <1>3, <1>8, <1>9, DemuxCountsAre DEF DemuxIInv, Recounted
  <2>2. Cardinality(Serving(c))' = Cardinality(Serving(c)) - 1
    BY <1>1, <1>2, <1>3, <1>8, <1>9, DemuxCountsAre DEF DemuxIInv, Recounted
  <2>3. PICK q \in Nat : Cardinality(Queued(c)) = q /\ Cardinality(Queued(c))' = q
    BY <1>3, <1>10, DemuxCountsAre DEF DemuxIInv
  <2>4. PICK v \in Nat : Cardinality(Serving(c)) = v /\ Cardinality(Serving(c))' = v - 1
    BY <1>3, <2>2, DemuxCountsAre DEF DemuxIInv
  <2>5. PICK t \in Nat : t = demuxComp[c].toEnqueue BY <1>3, DemuxTypes DEF DemuxIInv
  <2>6. DemuxCallInv(c) BY <1>3 DEF DemuxIInv
  <2>7. n + 1 = t + q + v BY <1>5, <2>3, <2>4, <2>5, <2>6 DEF DemuxCallInv
  <2>8. n = t + q + (v - 1) BY <2>7
  <2>9. Demux!BatchSize(c)' = Demux!BatchSize(c) BY <1>2 DEF Demux!BatchSize
  <2> QED BY <1>2, <1>3, <1>6, <2>1, <2>3, <2>4, <2>5, <2>6, <2>8, <2>9 DEF DemuxCallInv
<1>12. DemuxPartInv(c)'
  <2>1. \A k : Part(c, k)' = Part(c, k) BY <1>2, <1>6 DEF Part, Demux!BatchSize
  <2>2. \A v \in DemuxWorkers : \A k : ComputesPart(v, c, k) => ComputesPart(v, c, k)'
    BY <1>8, <1>9 DEF ComputesPart
  <2> QED BY <1>3, <1>6, <2>1, <2>2 DEF DemuxIInv, DemuxPartInv
<1>13. DemuxWorkerInv(w)' BY <1>9, <1>7, <1>8 DEF DemuxWorkerInv, Busy
<1>14. demuxQueue' \in Seq(Workers) BY <1>2 DEF DemuxIInv, Demux!TypeOK
<1>15. DOMAIN demuxComp[c].parents \subseteq DOMAIN demuxComp'[c].parents BY <1>6
<1> QED BY <1>1, <1>2, <1>3, <1>6, <1>7, <1>9, <1>10, <1>11, <1>12, <1>13, <1>14, <1>15,
           DemuxWorkerStepInv

LEMMA DemuxAbortInv == ASSUME DemuxIInv, Demux!Abort PROVE DemuxIInv'
<1>1. demuxWorker' = Demux!WakeAll(demuxWorker) /\ demuxAbort' \in BOOLEAN /\ UNCHANGED <<inner, demuxQueue, demuxComp>>
  BY DEF Demux!Abort
<1>2. /\ demuxWorker' \in [DemuxWorkers -> Demux!Worker]
      /\ \A w \in DemuxWorkers : demuxWorker'[w] # demuxWorker[w] => ~Busy(w) /\ ~Busy(w)'
  BY <1>1, DemuxWakeIs DEF DemuxIInv
<1> QED BY <1>1, <1>2, DemuxIdleStepInv

LEMMA DemuxStutterInv == ASSUME DemuxIInv, UNCHANGED Demux!vars PROVE DemuxIInv'
<1>1. UNCHANGED <<inner, demuxQueue, demuxComp, demuxWorker, demuxAbort>>
  BY DEF Demux!vars, Demux!demuxVars
<1>2. demuxWorker' \in [DemuxWorkers -> Demux!Worker] /\ demuxAbort' \in BOOLEAN
  BY <1>1 DEF DemuxIInv, Demux!TypeOK
<1> QED BY <1>1, <1>2, DemuxIdleStepInv
-----------------------------------------------------------------------------
LEMMA DemuxNextInv == ASSUME DemuxIInv, [Demux!Next]_(Demux!vars) PROVE DemuxIInv'
<1>1. ASSUME NEW c \in Workers, NEW planes \in Merged, Demux!Ask(c, planes) PROVE DemuxIInv'
  BY <1>1, DemuxAskInv
<1>2. ASSUME NEW c \in Workers, Demux!CallerStep(c) \/ Demux!Take(c) PROVE DemuxIInv'
  BY <1>2, DemuxSplitInv, DemuxEnqueueInv, DemuxReturnInv, DemuxTakeInv DEF Demux!CallerStep
<1>3. ASSUME NEW w \in DemuxWorkers, Demux!WorkerStep(w) PROVE DemuxIInv'
  BY <1>3, DemuxLoopInv, DemuxPopInv, DemuxAddParentInv, DemuxComputeInv, DemuxNotifyInv
  DEF Demux!WorkerStep
<1> QED BY <1>1, <1>2, <1>3, DemuxAbortInv, DemuxStutterInv DEF Demux!Next

LEMMA DemuxInvAlways == Demux!Spec => []DemuxIInv
<1>1. Demux!Init => DemuxIInv BY DemuxInitInv
<1>2. DemuxIInv /\ [Demux!Next]_(Demux!vars) => DemuxIInv' BY DemuxNextInv
<1> QED BY <1>1, <1>2, PTL DEF Demux!Spec

\* The counts of parts stay natural numbers, and a worker that reports has a part
\* to report (PartialSize, Enqueue and NotifyComplete of network_demux.cc).
THEOREM DemuxTypeCorrect == Demux!Spec => []Demux!TypeOK
<1>1. DemuxIInv => Demux!TypeOK BY DEF DemuxIInv
<1> QED BY <1>1, DemuxInvAlways, PTL

\* A step of the demuxing network is a step of Evaluation, or none: Return is
\* its Answer.
LEMMA DemuxEvaluationNext ==
  ASSUME DemuxIInv, [Demux!Next]_(Demux!vars) PROVE [Demux!Outer!Next]_inner
<1>1. ASSUME NEW c \in Workers, NEW planes \in Merged, Demux!Ask(c, planes)
      PROVE Demux!Outer!Next
  BY <1>1 DEF Demux!Ask, Demux!Outer!Next
<1>2. ASSUME NEW c \in Workers, Demux!Take(c) PROVE Demux!Outer!Next
  BY <1>2 DEF Demux!Take, Demux!Outer!Next
<1>3. ASSUME NEW c \in Workers, Demux!Return(c) PROVE Demux!Outer!Next
  <2>1. demuxComp[c].split /\ demuxComp[c].dataready = 0
    BY <1>3 DEF Demux!Return, Demux!Waits
  <2>2. Demux!Outer!Answer(c)
    BY <1>3, <2>1, DemuxAnswersOwn DEF Demux!Return, Demux!Outer!Answer
  <2> QED BY <2>2 DEF Demux!Outer!Next
<1>4. ASSUME NEW c \in Workers, Demux!Split(c) \/ Demux!Enqueue(c) PROVE UNCHANGED inner
  BY <1>4 DEF Demux!Split, Demux!Enqueue
<1>5. ASSUME NEW w \in DemuxWorkers, Demux!WorkerStep(w) PROVE UNCHANGED inner
  BY <1>5 DEF Demux!WorkerStep, Demux!Loop, Demux!Pop, Demux!AddParentFromNetwork,
     Demux!Compute, Demux!NotifyComplete
<1>6. ASSUME Demux!Abort PROVE UNCHANGED inner BY <1>6 DEF Demux!Abort
<1>7. ASSUME UNCHANGED Demux!vars PROVE UNCHANGED inner BY <1>7 DEF Demux!vars
<1> QED BY <1>1, <1>2, <1>3, <1>4, <1>5, <1>6, <1>7 DEF Demux!Next, Demux!CallerStep

\* A caller of the demuxing network, whatever the number of workers and the
\* sizes of the batches and of the parts, is woken when all its positions are
\* evaluated, and finds at sample s the evaluation of its own position s,
\* though nothing but the order of parents_ says which worker took which part
\* (network_demux.cc, lines 49 to 77 and 87 to 96).
THEOREM DemuxEvaluates ==
  Demux!Spec => Demux!DemuxImplementsEvaluation
<1>1. Demux!Init => Demux!Outer!Init BY DEF Demux!Init
<1>2. DemuxIInv /\ [Demux!Next]_(Demux!vars) => [Demux!Outer!Next]_inner
  BY DemuxEvaluationNext
<1> QED
  BY <1>1, <1>2, DemuxInvAlways, PTL
  DEF Demux!Spec, Demux!DemuxImplementsEvaluation, Demux!Outer!Spec
-----------------------------------------------------------------------------
(* The mux over a demux. *)

USE MuxAssumption

\* Merged leaves out nothing that the mux may make of the batches.
MergesAll == Seq(Inputs) \ {<<>>} \subseteq Merged

SomethingAsked == \A c \in Callers : calls[c].state = "asked" => calls[c].planes # <<>>

StackInv ==
  /\ IInv /\ DemuxIInv
  /\ SomethingAsked
  /\ demuxAbort => Joined
-----------------------------------------------------------------------------
(* What one network must know of the other. *)

\* A worker of the mux that calls the network below has gathered something.
LEMMA GatheredSomething ==
  ASSUME IInv, SomethingAsked, NEW w \in Workers, Compute(w)
  PROVE  worker[w].planes \in Seq(Inputs) /\ worker[w].planes # <<>>
<1>1. At(w, "gather") /\ ~TakesNext(w) BY DEF Compute
<1>2. worker[w].planes \in Seq(Inputs) /\ worker[w].children \in Seq(Callers)
  BY Types DEF IInv, Worker
<1>3. worker[w].children # <<>> BY <1>1 DEF IInv, GatherInv, TakesNext
<1>4. PICK c \in Callers : Waiting(c) /\ Served(w, c)
  <2>1. 1 \in DOMAIN worker[w].children /\ worker[w].children[1] \in Callers
    BY <1>2, <1>3
  <2> QED BY <2>1 DEF IInv, ChildInv, Places, Child
<1>5. calls[c].planes \in Seq(Inputs) /\ calls[c].planes # <<>>
  BY <1>4, Types DEF IInv, Waiting, SomethingAsked
<1>6. 1 \in 1 .. Len(calls[c].planes) BY <1>5
<1>7. 1 + comp[c].idx \in 1 .. Len(Outer!EvalAll(worker[w].planes))
  BY <1>1, <1>4, <1>6 DEF Served, Reads
<1>8. Len(Outer!EvalAll(worker[w].planes)) = Len(worker[w].planes)
  BY <1>2, EvalAllIs
<1>9. Len(worker[w].planes) # 0 BY <1>2, <1>7, <1>8
<1> QED BY <1>2, <1>9

LEMMA SomethingAskedKept ==
  ASSUME TypeOK, SomethingAsked, [Outer!Next]_calls PROVE SomethingAsked'
<1>1. calls \in [Callers -> Outer!Computation] BY DEF TypeOK
<1>2. ASSUME NEW c \in Callers, NEW planes \in Batches, Outer!Ask(c, planes)
      PROVE  SomethingAsked'
  <2>1. planes # <<>> BY MuxAssumption
  <2> QED BY <1>1, <1>2, <2>1 DEF Outer!Ask, Outer!Asked, SomethingAsked
<1>3. ASSUME NEW c \in Callers, Outer!Answer(c) PROVE SomethingAsked'
  BY <1>1, <1>3 DEF Outer!Answer, Outer!Answered, SomethingAsked
<1>4. ASSUME NEW c \in Callers, Outer!Take(c) PROVE SomethingAsked'
  BY <1>1, <1>4 DEF Outer!Take, Outer!Idle, SomethingAsked
<1>5. ASSUME UNCHANGED calls PROVE SomethingAsked' BY <1>5 DEF SomethingAsked
<1> QED BY <1>2, <1>3, <1>4, <1>5 DEF Outer!Next

\* Nobody of the mux comes back after it was joined.
LEMMA JoinedKept == ASSUME TypeOK, Joined, [Next]_vars PROVE Joined'
<1>1. \A w \in Workers : worker[w].at = "gone" BY DEF Joined, At
<1>2. CASE UNCHANGED worker BY <1>1, <1>2 DEF Joined, At
<1>3. ASSUME NEW c \in Callers, Enqueue(c) PROVE Joined'
  <2>1. worker' = worker BY <1>1, <1>3 DEF Enqueue, WakeOne
  <2> QED BY <1>2, <2>1
<1>4. ASSUME NEW w \in Workers, WorkerStep(w) PROVE FALSE
  BY <1>1, <1>4 DEF WorkerStep, Loop, PopulateToParent, Compute, Computed, NotifyReady, At
<1>5. ASSUME Abort PROVE Joined'
  <2>1. \A w \in Workers : worker'[w] = worker[w] BY <1>1, <1>5 DEF Abort, WakeAll
  <2> QED BY <1>1, <2>1 DEF Joined, At
<1>6. ASSUME NEW c \in Callers, NEW planes \in Batches, Ask(c, planes)
      PROVE UNCHANGED worker
  BY <1>6 DEF Ask, muxVars
<1>7. ASSUME NEW c \in Callers, Return(c) \/ Take(c) PROVE UNCHANGED worker
  BY <1>7 DEF Return, Take, muxVars
<1>8. ASSUME NEW w \in Workers, InnerStep(w) PROVE UNCHANGED worker
  BY <1>8 DEF InnerStep, muxVars
<1>9. ASSUME UNCHANGED vars PROVE UNCHANGED worker BY <1>9 DEF vars, muxVars
<1> QED BY <1>2, <1>3, <1>4, <1>5, <1>6, <1>7, <1>8, <1>9 DEF Next, CallerStep
-----------------------------------------------------------------------------
(* A step of the stack. *)

\* What a step of the stack is for each of the two networks.
LEMMA StepsAre ==
  ASSUME MergesAll, StackInv, StackNext \/ UNCHANGED stackVars
  PROVE  [Next]_vars /\ [Demux!Next]_(Demux!vars)
<1> USE DEF StackInv
<1> DEFINE DemuxStutters == UNCHANGED <<inner, demuxVars>>
<1>1. DemuxStutters => UNCHANGED Demux!vars BY DEF demuxVars, Demux!vars, Demux!demuxVars
<1>2. ASSUME NEW c \in Callers, CallerAsks(c) \/ CallerThread(c) \/ CallerTakes(c)
      PROVE  Next /\ DemuxStutters
  <2>1. CASE CallerAsks(c) BY <2>1 DEF CallerAsks, Ask, Next
  <2>2. CASE CallerThread(c) BY <2>2 DEF CallerThread, CallerStep, Enqueue, Return, Next
  <2>3. CASE CallerTakes(c) BY <2>3 DEF CallerTakes, Take, Next
  <2> QED BY <1>2, <2>1, <2>2, <2>3
<1>3. ASSUME NEW w \in Workers, WorkerStep(w), UNCHANGED demuxVars
      PROVE  Next /\ (DemuxStutters \/ Demux!Next)
  <2>1. Next BY <1>3 DEF Next
  <2>2. CASE Loop(w) \/ PopulateToParent(w) \/ NotifyReady(w)
    BY <1>3, <2>1, <2>2 DEF Loop, PopulateToParent, NotifyReady
  <2>3. CASE Compute(w)
    <3>1. worker[w].planes \in Merged BY <2>3, GatheredSomething DEF MergesAll
    <3>2. ~demuxAbort BY <2>3 DEF Compute, Joined, At
    <3>3. Inner!Ask(w, worker[w].planes) BY <2>3 DEF Compute
    <3>4. Demux!Ask(w, worker[w].planes)
      BY <1>3, <3>2, <3>3
      DEF Demux!Ask, Demux!Outer!Ask, Inner!Ask, Demux!Outer!Idle, Inner!Idle,
          Demux!Outer!Asked, Inner!Asked, Demux!demuxVars, demuxVars
    <3> QED BY <2>1, <3>1, <3>4 DEF Demux!Next
  <2>4. CASE Computed(w)
    <3>1. Demux!Take(w)
      BY <1>3, <2>4
      DEF Computed, Demux!Take, Demux!Outer!Take, Inner!Take, Demux!Outer!Idle, Inner!Idle,
          Demux!demuxVars, demuxVars
    <3> QED BY <2>1, <3>1 DEF Demux!Next
  <2> QED BY <1>3, <2>2, <2>3, <2>4 DEF WorkerStep
<1>4. ASSUME NEW w \in Workers, Demux!CallerStep(w), UNCHANGED <<calls, muxVars>>
      PROVE  [Next]_vars /\ Demux!Next
  <2>1. CASE Demux!Split(w) \/ Demux!Enqueue(w)
    <3>1. UNCHANGED inner BY <2>1 DEF Demux!Split, Demux!Enqueue
    <3>2. Demux!Next BY <2>1 DEF Demux!Next, Demux!CallerStep
    <3> QED BY <1>4, <3>1, <3>2 DEF vars
  <2>2. CASE Demux!Return(w)
    <3>2. Demux!Next BY <2>2 DEF Demux!Next, Demux!CallerStep
    <3>3. demuxComp[w].split /\ demuxComp[w].dataready = 0
      BY <2>2 DEF Demux!Return, Demux!Waits
    <3>4. Demux!Outer!Answer(w)
      BY <2>2, <3>3, DemuxAnswersOwn DEF Demux!Return, Demux!Outer!Answer
    <3>5. Inner!Answer(w)
      BY <3>4 DEF Inner!Answer, Demux!Outer!Answer, Inner!Answered, Demux!Outer!Answered,
                  Inner!EvalAll, Demux!Outer!EvalAll
    <3> QED BY <1>4, <3>2, <3>5 DEF Next, InnerStep
  <2> QED BY <1>4, <2>1, <2>2 DEF Demux!CallerStep
<1>5. ASSUME NEW w \in DemuxWorkers, DemuxThread(w)
      PROVE  UNCHANGED vars /\ Demux!Next
  <2>1. Demux!WorkerStep(w) /\ UNCHANGED <<calls, muxVars>> BY <1>5 DEF DemuxThread
  <2>2. UNCHANGED inner
    BY <2>1 DEF Demux!WorkerStep, Demux!Loop, Demux!Pop, Demux!AddParentFromNetwork,
                Demux!Compute, Demux!NotifyComplete
  <2> QED BY <2>1, <2>2 DEF vars, Demux!Next
<1>6. ASSUME MuxDestroyed PROVE Next /\ DemuxStutters
  BY <1>6 DEF MuxDestroyed, Abort, Next
<1>7. ASSUME DemuxDestroyed PROVE UNCHANGED vars /\ Demux!Next
  BY <1>7 DEF DemuxDestroyed, Demux!Abort, vars, Demux!Next
<1>8. ASSUME UNCHANGED stackVars PROVE UNCHANGED vars /\ DemuxStutters
  BY <1>8 DEF stackVars, vars
<1> HIDE DEF DemuxStutters, StackInv
<1>9. CASE StackNext
  <2>1. CASE \E c \in Callers : CallerAsks(c) \/ CallerThread(c) \/ CallerTakes(c)
    BY <2>1, <1>1, <1>2
  <2>2. CASE \E w \in Workers : MuxThread(w) BY <2>2, <1>1, <1>3, <1>4 DEF MuxThread
  <2>3. CASE \E w \in DemuxWorkers : DemuxThread(w) BY <2>3, <1>5
  <2>4. CASE MuxDestroyed BY <2>4, <1>1, <1>6
  <2>5. CASE DemuxDestroyed BY <2>5, <1>7
  <2> QED BY <1>9, <2>1, <2>2, <2>3, <2>4, <2>5 DEF StackNext
<1> QED BY <1>1, <1>8, <1>9

LEMMA StackInvKept ==
  ASSUME MergesAll, StackInv, StackNext \/ UNCHANGED stackVars
  PROVE  StackInv'
<1>1. [Next]_vars /\ [Demux!Next]_(Demux!vars) BY StepsAre
<1>2. IInv' BY <1>1, NextInv DEF StackInv
<1>3. DemuxIInv' BY <1>1, DemuxNextInv DEF StackInv
<1>4. SomethingAsked' BY <1>1, EvaluationNext, SomethingAskedKept DEF StackInv, IInv
<1>5. (demuxAbort => Joined)'
  <2>1. CASE demuxAbort BY <2>1, <1>1, JoinedKept DEF StackInv, IInv
  <2>2. CASE ~demuxAbort /\ demuxAbort'
    <3>1. DemuxDestroyed
      BY <2>2 DEF StackNext, CallerAsks, CallerThread, CallerTakes, MuxThread, DemuxThread,
                  MuxDestroyed, demuxVars, stackVars, Demux!CallerStep, Demux!Split,
                  Demux!Enqueue, Demux!Return, Demux!WorkerStep, Demux!Loop, Demux!Pop,
                  Demux!AddParentFromNetwork, Demux!Compute, Demux!NotifyComplete
    <3>2. Joined /\ UNCHANGED worker BY <3>1 DEF DemuxDestroyed, muxVars
    <3> QED BY <3>2 DEF Joined, At
  <2>3. CASE ~demuxAbort' BY <2>3
  <2> QED BY <2>1, <2>2, <2>3
<1> QED BY <1>2, <1>3, <1>4, <1>5 DEF StackInv

LEMMA StackInvInit == ASSUME StackInit PROVE StackInv
<1>1. IInv BY InitInv DEF StackInit
<1>2. DemuxIInv BY DemuxInitInv DEF StackInit
<1>3. SomethingAsked
  BY DEF StackInit, Init, Outer!Init, Outer!Idle, SomethingAsked
<1>4. ~demuxAbort BY DEF StackInit, Demux!Init
<1> QED BY <1>1, <1>2, <1>3, <1>4 DEF StackInv

\* The stack is one network for the threads of the search, and its lower part
\* is one for the upper: though requests are merged, and the merged batches
\* split again, every caller gets the evaluations of its own positions, for any
\* number of callers and workers and any limits of the batches and of the parts
\* (Worker of network_mux.cc, lines 160 to 196, over that of network_demux.cc,
\* lines 171 to 199).
THEOREM StackEvaluates ==
  ASSUME MergesAll
  PROVE  StackSpec => MuxImplementsEvaluation /\ DemuxImplementsEvaluation
<1>1. StackInit => StackInv BY StackInvInit
<1>2. StackInv /\ [StackNext]_stackVars => StackInv' BY StackInvKept
<1>3. StackInit => Outer!Init /\ Demux!Outer!Init
  BY DEF StackInit, Init, Demux!Init
<1>4. StackInv /\ [StackNext]_stackVars => [Outer!Next]_calls
  BY StepsAre, EvaluationNext DEF StackInv
<1>5. StackInv /\ [StackNext]_stackVars => [Demux!Outer!Next]_inner
  <2> SUFFICES ASSUME StackInv, StackNext \/ UNCHANGED stackVars
               PROVE  [Demux!Outer!Next]_inner
    OBVIOUS
  <2>1. [Demux!Next]_(Demux!vars) /\ DemuxIInv BY StepsAre DEF StackInv
  <2> QED BY <2>1, DemuxEvaluationNext
<1> QED BY <1>1, <1>2, <1>3, <1>4, <1>5, PTL
        DEF StackSpec, MuxImplementsEvaluation, DemuxImplementsEvaluation,
            Demux!DemuxImplementsEvaluation, Outer!Spec, Demux!Outer!Spec
=============================================================================
