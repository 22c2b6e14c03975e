---------------------- MODULE SearchLifecycle_proofs ----------------------
(***************************************************************************)
(* Proofs about the life of a Search, for every number of workers, every   *)
(* value of MaxConcurrentSearchers, and both behaviours of a lock that its *)
(* own thread takes again.                                                 *)
(***************************************************************************)
EXTENDS SearchLifecycle, FiniteSetTheorems, TLAPS

\* The mutexes are held across actions by the answering thread and by nobody
\* else, and while it answers, the answer stays due.
AnswerInv ==
  \A t \in Threads :
    /\ pc[t] = "answer" <=> mutexOwner = t
    /\ pc[t] = "answer" => /\ stop_ /\ ok_to_respond_bestmove_ /\ visited
                           /\ ~bestmove_is_sent_

\* bestmove_is_sent_ records the outcome, whichever it is, and the best move is
\* one of those allowed, if any.
OutcomeInv ==
  /\ final_bestmove_ \in rootMoves.allowed \cup {NoMove}
  /\ answers > 0 \/ silenced => bestmove_is_sent_
  /\ OneOutcome /\ AnswerWasDue /\ AnswerIsKept

\* The first visit of the root is in flight in one minibatch, or made, from
\* the moment a worker has gathered.
VisitInv ==
  /\ rootVisitor # Nobody => /\ ~visited
                             /\ pc[rootVisitor] \in {"collect", "release", "compute"}
  /\ \A w \in Workers :
       pc[w] \in {"collect", "release", "compute", "trigger", "loop", "done"}
         => visited \/ rootVisitor # Nobody

\* Only with a limit are permits taken, and only a permit that was there.
PermitInv ==
  /\ PermitsConserved
  /\ \A w \in Workers : /\ pc[w] \in {"exchange", "release"} => limit # 0
                        /\ pc[w] = "exchange" => available[w] >= 1

IInv == TypeOK /\ AnswerInv /\ OutcomeInv /\ VisitInv /\ PermitInv

-----------------------------------------------------------------------------
\* The workers that hold a permit are finitely many.
LEMMA HoldingIsFinite == IsFiniteSet(Holding) /\ Cardinality(Holding) \in Nat
<1>1. Holding \in SUBSET Workers
  BY DEF Holding
<1> QED
  BY <1>1, ThreadsAssumption, FS_Subset, FS_CardinalityType

\* A step that neither enters nor leaves the section between the two updates
\* of pending_searchers_ leaves the holders alone.
LEMMA SameHolders ==
  ASSUME TypeOK, NEW t \in Threads, NEW l, Goto(t, l),
         t \in Workers => (t \in Holding <=> l \in {"gather", "collect", "release"})
  PROVE  Holding' = Holding
BY DEF Goto, Holding, TypeOK, Threads

\* A worker that goes to "gather" from outside joins the holders.
LEMMA OneMoreHolder ==
  ASSUME TypeOK, NEW w \in Workers, w \notin Holding, Goto(w, "gather")
  PROVE  Cardinality(Holding') = Cardinality(Holding) + 1
<1>1. Holding' = Holding \cup {w}
  BY DEF Goto, Holding, TypeOK, Threads
<1>2. IsFiniteSet(Holding)
  BY HoldingIsFinite
<1>3. Cardinality(Holding \cup {w}) = Cardinality(Holding) + 1
  BY <1>2, FS_AddElement, SMTT(30)
<1> QED
  BY <1>1, <1>3

\* A worker that goes on to compute leaves the holders.
LEMMA OneHolderLess ==
  ASSUME TypeOK, NEW w \in Workers, w \in Holding, Goto(w, "compute")
  PROVE  /\ Cardinality(Holding') = Cardinality(Holding) - 1
         /\ Cardinality(Holding) >= 1
<1>1. Holding' = Holding \ {w}
  BY DEF Goto, Holding, TypeOK, Threads
<1>2. IsFiniteSet(Holding) /\ Cardinality(Holding) \in Nat
  BY HoldingIsFinite
<1>3. Cardinality(Holding) # 0
  BY <1>2, FS_EmptySet, SMTT(30)
<1>4. Cardinality(Holding \ {w}) = Cardinality(Holding) - 1
  BY <1>2, FS_RemoveElement, SMTT(30)
<1> QED
  BY <1>1, <1>2, <1>3, <1>4

\* While nobody answers the mutexes are free, and conversely.
LEMMA FreeMutexes ==
  ASSUME TypeOK, AnswerInv, MutexesFree
  PROVE  \A t \in Threads : pc[t] # "answer"
BY ThreadsAssumption DEF AnswerInv, MutexesFree, Threads

-----------------------------------------------------------------------------
\* Initially the invariant holds.
LEMMA InitInv == Init => IInv
<1> SUFFICES ASSUME Init PROVE IInv
  OBVIOUS
<1>1. TypeOK
  <2>1. limit \in Nat /\ 0 \in 0..limit
    BY LimitsAssumption DEF Init
  <2>2. available \in [Workers -> 0..limit]
    BY <2>1 DEF Init
  <2>3. pc \in [Threads -> {"enter", "exchange", "gather", "collect", "release",
                           "compute", "trigger", "answer", "loop", "check",
                           "wait", "done"}]
    BY DEF Init
  <2>4. limit \in SearcherLimits /\ pending_searchers_ \in 0..limit /\ answers \in Nat
    BY <2>1 DEF Init
  <2>5. /\ stop_ \in BOOLEAN /\ ok_to_respond_bestmove_ \in BOOLEAN
        /\ bestmove_is_sent_ \in BOOLEAN /\ visited \in BOOLEAN
        /\ terminated \in BOOLEAN /\ silenced \in BOOLEAN /\ reset \in BOOLEAN
    BY DEF Init
  <2>6. /\ final_bestmove_ = NoMove /\ answered = NoMove
        /\ rootMoves \in Roots
        /\ rootVisitor = Nobody /\ mutexOwner = Nobody /\ owner = "running"
    BY DEF Init
  <2> QED
    BY <2>2, <2>3, <2>4, <2>5, <2>6 DEF TypeOK
<1>2. AnswerInv
  BY ThreadsAssumption DEF Init, AnswerInv, Threads
<1>3. OutcomeInv
  BY DEF Init, OutcomeInv, OneOutcome, AnswerWasDue, AnswerIsKept
<1>4. VisitInv
  BY ThreadsAssumption DEF Init, VisitInv, Threads
<1>5. Holding = {}
  BY ThreadsAssumption DEF Init, Holding, Threads
<1>6. PermitInv
  BY <1>5, LimitsAssumption, ThreadsAssumption, FS_EmptySet
     DEF Init, PermitInv, PermitsConserved, Threads
<1> QED
  BY <1>1, <1>2, <1>3, <1>4, <1>6 DEF IInv

\* Without a limit a worker gathers at once: no permit is involved.
LEMMA BeginUnlimitedInv ==
  ASSUME IInv, NEW w \in Workers, BeginUnlimited(w)
  PROVE  IInv'
<1> USE DEF IInv
<1>1. PermitInv'
  BY DEF BeginUnlimited, permits, PermitInv, PermitsConserved, Goto, TypeOK, Threads
<1>2. TypeOK'
  BY ThreadsAssumption
     DEF BeginUnlimited, Goto, TypeOK, Threads, flags, root, permits, history
<1>3. AnswerInv'
  BY ThreadsAssumption
     DEF BeginUnlimited, Goto, AnswerInv, TypeOK, Threads, flags, root
<1>4. OutcomeInv'
  BY MovesAssumption, RootsAssumption
     DEF BeginUnlimited, OutcomeInv, OneOutcome, AnswerWasDue, AnswerIsKept,
         AnswerInv, TypeOK,
         flags, root, history
<1>5. VisitInv'
  BY ThreadsAssumption
     DEF BeginUnlimited, Goto, VisitInv, TypeOK, Threads, root
<1> QED
  BY <1>1, <1>2, <1>3, <1>4, <1>5

\* A worker returns from the permit loop only when the root is visited.
LEMMA LeaveWithoutPermitInv ==
  ASSUME IInv, NEW w \in Workers, LeaveWithoutPermit(w)
  PROVE  IInv'
<1> USE DEF IInv
<1>1. \A s \in Threads : pc[s] # "answer"
  BY FreeMutexes DEF LeaveWithoutPermit
<1>2. Holding' = Holding
  BY SameHolders, ThreadsAssumption DEF LeaveWithoutPermit, Holding, Threads
<1>3. PermitInv'
  BY <1>2, ThreadsAssumption
     DEF LeaveWithoutPermit, permits, PermitInv, PermitsConserved, Goto, TypeOK, Threads
<1>4. TypeOK'
  BY ThreadsAssumption
     DEF LeaveWithoutPermit, Goto, TypeOK, Threads, flags, root, permits, history
<1>5. AnswerInv'
  BY <1>1, ThreadsAssumption
     DEF LeaveWithoutPermit, Goto, AnswerInv, TypeOK, Threads, flags, root, MutexesFree
<1>6. OutcomeInv'
  BY <1>1, MovesAssumption, RootsAssumption
     DEF LeaveWithoutPermit, OutcomeInv, OneOutcome, AnswerWasDue, AnswerIsKept,
         AnswerInv, TypeOK,
         flags, root, history
<1>7. VisitInv'
  BY ThreadsAssumption
     DEF LeaveWithoutPermit, Goto, VisitInv, TypeOK, Threads, root
<1> QED
  BY <1>3, <1>4, <1>5, <1>6, <1>7

\* What a worker reads is at least one.
LEMMA ReadPermitsInv ==
  ASSUME IInv, NEW w \in Workers, ReadPermits(w)
  PROVE  IInv'
<1> USE DEF IInv
<1>1. Holding' = Holding
  BY SameHolders, ThreadsAssumption DEF ReadPermits, Holding, Threads
<1>2. PermitInv'
  BY <1>1, ThreadsAssumption
     DEF ReadPermits, permits, PermitInv, PermitsConserved, Goto, TypeOK, Threads
<1>3. TypeOK'
  BY ThreadsAssumption, LimitsAssumption
     DEF ReadPermits, Goto, TypeOK, Threads, flags, root, permits, history
<1>4. AnswerInv'
  BY ThreadsAssumption
     DEF ReadPermits, Goto, AnswerInv, TypeOK, Threads, flags, root
<1>5. OutcomeInv'
  BY MovesAssumption, RootsAssumption
     DEF ReadPermits, OutcomeInv, OneOutcome, AnswerWasDue, AnswerIsKept, AnswerInv,
         TypeOK,
         flags, root, history
<1>6. VisitInv'
  BY ThreadsAssumption
     DEF ReadPermits, Goto, VisitInv, TypeOK, Threads, root
<1> QED
  BY <1>2, <1>3, <1>4, <1>5, <1>6

\* The exchange takes a permit that is still there.
LEMMA ExchangePermitsInv ==
  ASSUME IInv, NEW w \in Workers, ExchangePermits(w)
  PROVE  IInv'
<1> USE DEF IInv
<1>1. Cardinality(Holding) \in Nat
  BY HoldingIsFinite
<1>2. ASSUME pending_searchers_ = available[w]
      PROVE  PermitInv' /\ pending_searchers_' \in 0..limit
  <2>1. Cardinality(Holding') = Cardinality(Holding) + 1
    BY <1>2, OneMoreHolder DEF ExchangePermits, Holding
  <2>2. PermitInv'
    BY <1>2, <2>1, <1>1, LimitsAssumption
       DEF ExchangePermits, PermitInv, PermitsConserved, Goto, TypeOK, Threads
  <2>3. pending_searchers_' \in 0..limit
    BY <1>2, LimitsAssumption DEF ExchangePermits, PermitInv, TypeOK
  <2> QED
    BY <2>2, <2>3
<1>3. ASSUME pending_searchers_ # available[w]
      PROVE  PermitInv' /\ pending_searchers_' \in 0..limit
  <2>1. Holding' = Holding
    BY <1>3, SameHolders DEF ExchangePermits, Holding, Threads
  <2> QED
    BY <1>3, <2>1
       DEF ExchangePermits, PermitInv, PermitsConserved, Goto, TypeOK, Threads
<1>4. PermitInv' /\ pending_searchers_' \in 0..limit
  BY <1>2, <1>3
<1>5. TypeOK'
  BY <1>4, ThreadsAssumption
     DEF ExchangePermits, Goto, TypeOK, Threads, flags, root, permits, history
<1>6. AnswerInv'
  BY ThreadsAssumption
     DEF ExchangePermits, Goto, AnswerInv, TypeOK, Threads, flags, root
<1>7. OutcomeInv'
  BY MovesAssumption, RootsAssumption
     DEF ExchangePermits, OutcomeInv, OneOutcome, AnswerWasDue, AnswerIsKept,
         AnswerInv, TypeOK,
         flags, root, history
<1>8. VisitInv'
  BY ThreadsAssumption
     DEF ExchangePermits, Goto, VisitInv, TypeOK, Threads, root
<1> QED
  BY <1>4, <1>5, <1>6, <1>7, <1>8

\* The first to gather takes the first visit of the root.
LEMMA GatherMinibatchInv ==
  ASSUME IInv, NEW w \in Workers, GatherMinibatch(w)
  PROVE  IInv'
<1> USE DEF IInv
<1>1. \A s \in Threads : pc[s] # "answer"
  BY FreeMutexes DEF GatherMinibatch
<1>2. Holding' = Holding
  BY SameHolders, ThreadsAssumption DEF GatherMinibatch, Holding, Threads
<1>3. PermitInv'
  BY <1>2, ThreadsAssumption
     DEF GatherMinibatch, permits, PermitInv, PermitsConserved, Goto, TypeOK, Threads
<1>4. visited' \in BOOLEAN /\ rootVisitor' \in Workers \cup {Nobody}
  BY DEF GatherMinibatch, root, TypeOK
<1>5. TypeOK'
  BY <1>4, ThreadsAssumption
     DEF GatherMinibatch, Goto, TypeOK, Threads, flags, root, permits, history
<1>6. AnswerInv'
  BY <1>1, ThreadsAssumption
     DEF GatherMinibatch, Goto, AnswerInv, TypeOK, Threads, flags, root, MutexesFree
<1>7. OutcomeInv'
  BY <1>1, MovesAssumption, RootsAssumption
     DEF GatherMinibatch, OutcomeInv, OneOutcome, AnswerWasDue, AnswerIsKept,
         AnswerInv, TypeOK,
         flags, root, history
<1>8. VisitInv'
  BY ThreadsAssumption
     DEF GatherMinibatch, Goto, VisitInv, TypeOK, Threads, root
<1> QED
  BY <1>3, <1>5, <1>6, <1>7, <1>8

\* Collecting keeps the permit.
LEMMA CollectCollisionsInv ==
  ASSUME IInv, NEW w \in Workers, CollectCollisions(w)
  PROVE  IInv'
<1> USE DEF IInv
<1>1. \A s \in Threads : pc[s] # "answer"
  BY FreeMutexes DEF CollectCollisions
<1>2. ASSUME limit = 0 PROVE PermitInv'
  BY <1>2
     DEF CollectCollisions, permits, PermitInv, PermitsConserved, Goto, TypeOK,
         Threads
<1>3. ASSUME limit # 0 PROVE PermitInv'
  <2>1. Holding' = Holding
    BY <1>3, SameHolders DEF CollectCollisions, Holding, Threads
  <2> QED
    BY <1>3, <2>1
       DEF CollectCollisions, permits, PermitInv, PermitsConserved, Goto, TypeOK,
           Threads
<1>4. PermitInv'
  BY <1>2, <1>3
<1>5. TypeOK'
  BY ThreadsAssumption
     DEF CollectCollisions, Goto, TypeOK, Threads, flags, root, permits, history
<1>6. AnswerInv'
  BY <1>1, ThreadsAssumption
     DEF CollectCollisions, Goto, AnswerInv, TypeOK, Threads, flags, root, MutexesFree
<1>7. OutcomeInv'
  BY <1>1, MovesAssumption, RootsAssumption
     DEF CollectCollisions, OutcomeInv, OneOutcome, AnswerWasDue, AnswerIsKept,
         AnswerInv, TypeOK,
         flags, root, history
<1>8. VisitInv'
  BY ThreadsAssumption
     DEF CollectCollisions, Goto, VisitInv, TypeOK, Threads, root
<1> QED
  BY <1>4, <1>5, <1>6, <1>7, <1>8

\* The permit that is returned was held, so the limit is not exceeded.
LEMMA ReleasePermitInv ==
  ASSUME IInv, NEW w \in Workers, ReleasePermit(w)
  PROVE  IInv'
<1> USE DEF IInv
<1>1. /\ Cardinality(Holding') = Cardinality(Holding) - 1
      /\ Cardinality(Holding) >= 1 /\ Cardinality(Holding) \in Nat
  BY OneHolderLess, HoldingIsFinite DEF ReleasePermit, Holding
<1>2. PermitInv' /\ pending_searchers_' \in 0..limit
  BY <1>1, LimitsAssumption
     DEF ReleasePermit, PermitInv, PermitsConserved, Goto, TypeOK, Threads
<1>3. TypeOK'
  BY <1>2, ThreadsAssumption
     DEF ReleasePermit, Goto, TypeOK, Threads, flags, root, permits, history
<1>4. AnswerInv'
  BY ThreadsAssumption
     DEF ReleasePermit, Goto, AnswerInv, TypeOK, Threads, flags, root
<1>5. OutcomeInv'
  BY MovesAssumption, RootsAssumption
     DEF ReleasePermit, OutcomeInv, OneOutcome, AnswerWasDue, AnswerIsKept, AnswerInv,
         TypeOK,
         flags, root, history
<1>6. VisitInv'
  BY ThreadsAssumption
     DEF ReleasePermit, Goto, VisitInv, TypeOK, Threads, root
<1> QED
  BY <1>2, <1>3, <1>4, <1>5, <1>6

\* Backing up the first visit makes the root visited.
LEMMA BackupUpdateInv ==
  ASSUME IInv, NEW w \in Workers, BackupUpdate(w)
  PROVE  IInv'
<1> USE DEF IInv
<1>1. \A s \in Threads : pc[s] # "answer"
  BY FreeMutexes DEF BackupUpdate
<1>2. Holding' = Holding
  BY SameHolders, ThreadsAssumption DEF BackupUpdate, Holding, Threads
<1>3. PermitInv'
  BY <1>2, ThreadsAssumption
     DEF BackupUpdate, permits, PermitInv, PermitsConserved, Goto, TypeOK, Threads
<1>4. visited' \in BOOLEAN /\ rootVisitor' \in Workers \cup {Nobody}
  BY DEF BackupUpdate, root, TypeOK
<1>5. TypeOK'
  BY <1>4, ThreadsAssumption
     DEF BackupUpdate, Goto, TypeOK, Threads, flags, root, permits, history
<1>6. AnswerInv'
  BY <1>1, ThreadsAssumption
     DEF BackupUpdate, Goto, AnswerInv, TypeOK, Threads, flags, root, MutexesFree
<1>7. OutcomeInv'
  BY <1>1, MovesAssumption, RootsAssumption
     DEF BackupUpdate, OutcomeInv, OneOutcome, AnswerWasDue, AnswerIsKept, AnswerInv,
         TypeOK,
         flags, root, history
<1>8. VisitInv'
  BY ThreadsAssumption
     DEF BackupUpdate, Goto, VisitInv, TypeOK, Threads, root
<1> QED
  BY <1>3, <1>5, <1>6, <1>7, <1>8

\* The loop test changes no shared state.
LEMMA LoopWhileActiveInv ==
  ASSUME IInv, NEW w \in Workers, LoopWhileActive(w)
  PROVE  IInv'
<1> USE DEF IInv
<1>1. Holding' = Holding
  BY SameHolders, ThreadsAssumption DEF LoopWhileActive, Holding, Threads
<1>2. PermitInv'
  BY <1>1, ThreadsAssumption
     DEF LoopWhileActive, permits, PermitInv, PermitsConserved, Goto, TypeOK, Threads
<1>3. TypeOK'
  BY ThreadsAssumption
     DEF LoopWhileActive, Goto, TypeOK, Threads, flags, root, permits, history
<1>4. AnswerInv'
  BY ThreadsAssumption
     DEF LoopWhileActive, Goto, AnswerInv, TypeOK, Threads, flags, root
<1>5. OutcomeInv'
  BY MovesAssumption, RootsAssumption
     DEF LoopWhileActive, OutcomeInv, OneOutcome, AnswerWasDue, AnswerIsKept,
         AnswerInv, TypeOK,
         flags, root, history
<1>6. VisitInv'
  BY ThreadsAssumption
     DEF LoopWhileActive, Goto, VisitInv, TypeOK, Threads, root
<1> QED
  BY <1>2, <1>3, <1>4, <1>5, <1>6

\* The early returns change no shared state.
LEMMA MaybeTriggerStopReturnsInv ==
  ASSUME IInv, NEW t \in Threads, MaybeTriggerStopReturns(t)
  PROVE  IInv'
<1> USE DEF IInv
<1>1. \A s \in Threads : pc[s] # "answer"
  BY FreeMutexes DEF MaybeTriggerStopReturns, AfterTrigger
<1>2. Holding' = Holding
  BY SameHolders, ThreadsAssumption
     DEF MaybeTriggerStopReturns, AfterTrigger, Holding, Threads
<1>3. PermitInv'
  BY <1>2, ThreadsAssumption
     DEF MaybeTriggerStopReturns, AfterTrigger, permits, PermitInv, PermitsConserved,
         Goto, TypeOK, Threads
<1>4. TypeOK'
  BY ThreadsAssumption
     DEF MaybeTriggerStopReturns, AfterTrigger, Goto, TypeOK, Threads, flags, root,
         permits, history
<1>5. AnswerInv'
  BY <1>1, ThreadsAssumption
     DEF MaybeTriggerStopReturns, AfterTrigger, Goto, AnswerInv, TypeOK, Threads,
         flags, root, MutexesFree
<1>6. OutcomeInv'
  BY <1>1, MovesAssumption, RootsAssumption
     DEF MaybeTriggerStopReturns, AfterTrigger, OutcomeInv, OneOutcome, AnswerWasDue,
         AnswerIsKept, AnswerInv, TypeOK,
         flags, root, history
<1>7. VisitInv'
  BY ThreadsAssumption
     DEF MaybeTriggerStopReturns, AfterTrigger, Goto, VisitInv, TypeOK, Threads, root
<1> QED
  BY <1>3, <1>4, <1>5, <1>6, <1>7

\* The thread that goes on to answer holds the mutexes and finds the answer due.
LEMMA MaybeTriggerStopInv ==
  ASSUME IInv, NEW t \in Threads, MaybeTriggerStop(t)
  PROVE  IInv'
<1> USE DEF IInv
<1>1. \A s \in Threads : pc[s] # "answer"
  BY FreeMutexes DEF MaybeTriggerStop, AfterTrigger, EnsureBestMoveKnown, ChooseBestMove
<1>2. Holding' = Holding
  BY SameHolders, ThreadsAssumption
     DEF MaybeTriggerStop, AfterTrigger, EnsureBestMoveKnown, ChooseBestMove, Holding, Threads
<1>3. PermitInv'
  BY <1>2, ThreadsAssumption
     DEF MaybeTriggerStop, AfterTrigger, EnsureBestMoveKnown, ChooseBestMove, permits, PermitInv,
         PermitsConserved, Goto, TypeOK, Threads
<1>4. TypeOK'
  BY ThreadsAssumption, RootsAssumption
     DEF MaybeTriggerStop, AfterTrigger, EnsureBestMoveKnown, ChooseBestMove, Goto, TypeOK, Threads,
         flags, root, permits, history
<1>5. AnswerInv'
  BY <1>1, ThreadsAssumption
     DEF MaybeTriggerStop, AfterTrigger, EnsureBestMoveKnown, ChooseBestMove, Goto, AnswerInv, TypeOK,
         Threads, flags, root, MutexesFree
<1>6. OutcomeInv'
  BY <1>1, MovesAssumption, RootsAssumption
     DEF MaybeTriggerStop, AfterTrigger, EnsureBestMoveKnown, ChooseBestMove, OutcomeInv, OneOutcome,
         AnswerWasDue, AnswerIsKept, AnswerInv, TypeOK,
         flags, root, history
<1>7. VisitInv'
  BY ThreadsAssumption
     DEF MaybeTriggerStop, AfterTrigger, EnsureBestMoveKnown, ChooseBestMove, Goto, VisitInv, TypeOK,
         Threads, root
<1> QED
  BY <1>3, <1>4, <1>5, <1>6, <1>7

\* The answer is the first outcome and is recorded.
LEMMA SendBestMoveInv ==
  ASSUME IInv, NEW t \in Threads, SendBestMove(t)
  PROVE  IInv'
<1> USE DEF IInv
<1>1. Holding' = Holding
  BY SameHolders, ThreadsAssumption
     DEF SendBestMove, AfterTrigger, EnsureBestMoveKnown, ChooseBestMove, Holding, Threads
<1>2. PermitInv'
  BY <1>1, ThreadsAssumption
     DEF SendBestMove, AfterTrigger, EnsureBestMoveKnown, ChooseBestMove, permits, PermitInv,
         PermitsConserved, Goto, TypeOK, Threads
<1>3. TypeOK'
  BY ThreadsAssumption, RootsAssumption
     DEF SendBestMove, AfterTrigger, EnsureBestMoveKnown, ChooseBestMove, Goto, TypeOK, Threads,
         flags, root, permits, history
<1>4. AnswerInv'
  BY ThreadsAssumption
     DEF SendBestMove, AfterTrigger, EnsureBestMoveKnown, ChooseBestMove, Goto, AnswerInv, TypeOK,
         Threads, flags, root
<1>5. OutcomeInv'
  BY MovesAssumption, RootsAssumption
     DEF SendBestMove, AfterTrigger, EnsureBestMoveKnown, ChooseBestMove, OutcomeInv, OneOutcome,
         AnswerWasDue, AnswerIsKept, AnswerInv, TypeOK,
         flags, root, history
<1>6. VisitInv'
  BY ThreadsAssumption
     DEF SendBestMove, AfterTrigger, EnsureBestMoveKnown, ChooseBestMove, Goto, AnswerInv, VisitInv,
         TypeOK, Threads, root
<1> QED
  BY <1>2, <1>3, <1>4, <1>5, <1>6

\* The end of the process changes no state of the search.
LEMMA RelockThrowsInv ==
  ASSUME IInv, NEW t \in Threads, RelockThrows(t)
  PROVE  IInv'
<1> USE DEF IInv
<1>1. Holding' = Holding
  BY DEF RelockThrows, Holding
<1>2. PermitInv'
  BY <1>1 DEF RelockThrows, permits, PermitInv, PermitsConserved
<1>3. TypeOK'
  BY ThreadsAssumption
     DEF RelockThrows, TypeOK, Threads, flags, root, permits, history
<1>4. AnswerInv'
  BY ThreadsAssumption
     DEF RelockThrows, AnswerInv, TypeOK, Threads, flags, root
<1>5. OutcomeInv'
  BY MovesAssumption, RootsAssumption
     DEF RelockThrows, OutcomeInv, OneOutcome, AnswerWasDue, AnswerIsKept, AnswerInv,
         TypeOK,
         flags, root, history
<1>6. VisitInv'
  BY ThreadsAssumption
     DEF RelockThrows, VisitInv, TypeOK, Threads, root
<1> QED
  BY <1>2, <1>3, <1>4, <1>5, <1>6

\* The watchdog only looks.
LEMMA WatchdogCheckInv ==
  ASSUME IInv, WatchdogCheck
  PROVE  IInv'
<1> USE DEF IInv
<1>1. \A s \in Threads : pc[s] # "answer"
  BY FreeMutexes DEF WatchdogCheck
<1>2. Holding' = Holding
  BY SameHolders, ThreadsAssumption DEF WatchdogCheck, Holding, Threads
<1>3. PermitInv'
  BY <1>2, ThreadsAssumption
     DEF WatchdogCheck, permits, PermitInv, PermitsConserved, Goto, TypeOK, Threads
<1>4. TypeOK'
  BY ThreadsAssumption
     DEF WatchdogCheck, Goto, TypeOK, Threads, flags, root, permits, history
<1>5. AnswerInv'
  BY <1>1, ThreadsAssumption
     DEF WatchdogCheck, Goto, AnswerInv, TypeOK, Threads, flags, root, MutexesFree
<1>6. OutcomeInv'
  BY <1>1, MovesAssumption, RootsAssumption
     DEF WatchdogCheck, OutcomeInv, OneOutcome, AnswerWasDue, AnswerIsKept, AnswerInv,
         TypeOK,
         flags, root, history
<1>7. VisitInv'
  BY ThreadsAssumption
     DEF WatchdogCheck, Goto, VisitInv, TypeOK, Threads, root
<1> QED
  BY <1>3, <1>4, <1>5, <1>6, <1>7

\* The watchdog only waits.
LEMMA WatchdogWakeInv ==
  ASSUME IInv, WatchdogWake
  PROVE  IInv'
<1> USE DEF IInv
<1>1. \A s \in Threads : pc[s] # "answer"
  BY FreeMutexes DEF WatchdogWake
<1>2. Holding' = Holding
  BY SameHolders, ThreadsAssumption DEF WatchdogWake, Holding, Threads
<1>3. PermitInv'
  BY <1>2, ThreadsAssumption
     DEF WatchdogWake, permits, PermitInv, PermitsConserved, Goto, TypeOK, Threads
<1>4. TypeOK'
  BY ThreadsAssumption
     DEF WatchdogWake, Goto, TypeOK, Threads, flags, root, permits, history
<1>5. AnswerInv'
  BY <1>1, ThreadsAssumption
     DEF WatchdogWake, Goto, AnswerInv, TypeOK, Threads, flags, root, MutexesFree
<1>6. OutcomeInv'
  BY <1>1, MovesAssumption, RootsAssumption
     DEF WatchdogWake, OutcomeInv, OneOutcome, AnswerWasDue, AnswerIsKept, AnswerInv,
         TypeOK,
         flags, root, history
<1>7. VisitInv'
  BY ThreadsAssumption
     DEF WatchdogWake, Goto, VisitInv, TypeOK, Threads, root
<1> QED
  BY <1>3, <1>4, <1>5, <1>6, <1>7

\* Stop permits the answer, and gives none.
LEMMA StopInv ==
  ASSUME IInv, Stop
  PROVE  IInv'
<1> USE DEF IInv
<1>1. \A s \in Threads : pc[s] # "answer"
  BY FreeMutexes DEF Stop
<1>2. Holding' = Holding
  BY DEF Stop, Holding
<1>3. PermitInv'
  BY <1>2 DEF Stop, permits, PermitInv, PermitsConserved
<1>4. TypeOK'
  BY ThreadsAssumption
     DEF Stop, TypeOK, Threads, flags, root, permits, history
<1>5. AnswerInv'
  BY <1>1, ThreadsAssumption
     DEF Stop, AnswerInv, TypeOK, Threads, flags, root, MutexesFree
<1>6. OutcomeInv'
  BY <1>1, MovesAssumption, RootsAssumption
     DEF Stop, OutcomeInv, OneOutcome, AnswerWasDue, AnswerIsKept, AnswerInv, TypeOK,
         flags, root, history
<1>7. VisitInv'
  BY ThreadsAssumption
     DEF Stop, VisitInv, TypeOK, Threads, root
<1> QED
  BY <1>3, <1>4, <1>5, <1>6, <1>7

\* An Abort takes effect only on a search without outcome.
LEMMA AbortInv ==
  ASSUME IInv, Abort
  PROVE  IInv'
<1> USE DEF IInv
<1>1. \A s \in Threads : pc[s] # "answer"
  BY FreeMutexes DEF Abort, AbortSearch
<1>2. Holding' = Holding
  BY DEF Abort, AbortSearch, Holding
<1>3. PermitInv'
  BY <1>2 DEF Abort, AbortSearch, permits, PermitInv, PermitsConserved
<1>4. TypeOK'
  BY ThreadsAssumption
     DEF Abort, AbortSearch, TypeOK, Threads, flags, root, permits, history
<1>5. AnswerInv'
  BY <1>1, ThreadsAssumption
     DEF Abort, AbortSearch, AnswerInv, TypeOK, Threads, flags, root, MutexesFree
<1>6. OutcomeInv'
  BY <1>1, MovesAssumption, RootsAssumption
     DEF Abort, AbortSearch, OutcomeInv, OneOutcome, AnswerWasDue, AnswerIsKept,
         AnswerInv, TypeOK,
         flags, root, history
<1>7. VisitInv'
  BY ThreadsAssumption
     DEF Abort, AbortSearch, VisitInv, TypeOK, Threads, root
<1> QED
  BY <1>3, <1>4, <1>5, <1>6, <1>7

\* GetBestMove chooses only while nothing was sent.
LEMMA GetBestMoveInv ==
  ASSUME IInv, GetBestMove
  PROVE  IInv'
<1> USE DEF IInv
<1>1. \A s \in Threads : pc[s] # "answer"
  BY FreeMutexes DEF GetBestMove, EnsureBestMoveKnown, ChooseBestMove
<1>2. Holding' = Holding
  BY DEF GetBestMove, EnsureBestMoveKnown, ChooseBestMove, Holding
<1>3. PermitInv'
  BY <1>2 DEF GetBestMove, EnsureBestMoveKnown, ChooseBestMove, permits, PermitInv, PermitsConserved
<1>4. TypeOK'
  BY ThreadsAssumption, RootsAssumption
     DEF GetBestMove, EnsureBestMoveKnown, ChooseBestMove, TypeOK, Threads, flags, root, permits,
         history
<1>5. AnswerInv'
  BY <1>1, ThreadsAssumption
     DEF GetBestMove, EnsureBestMoveKnown, ChooseBestMove, AnswerInv, TypeOK, Threads, flags, root,
         MutexesFree
<1>6. OutcomeInv'
  BY <1>1, MovesAssumption, RootsAssumption
     DEF GetBestMove, EnsureBestMoveKnown, ChooseBestMove, OutcomeInv, OneOutcome, AnswerWasDue,
         AnswerIsKept, AnswerInv, TypeOK,
         flags, root, history
<1>7. VisitInv'
  BY ThreadsAssumption
     DEF GetBestMove, EnsureBestMoveKnown, ChooseBestMove, VisitInv, TypeOK, Threads, root
<1> QED
  BY <1>3, <1>4, <1>5, <1>6, <1>7

\* ResetBestMove records that the move may change.
LEMMA ResetBestMoveInv ==
  ASSUME IInv, ResetBestMove
  PROVE  IInv'
<1> USE DEF IInv
<1>1. \A s \in Threads : pc[s] # "answer"
  BY FreeMutexes DEF ResetBestMove, ChooseBestMove
<1>2. Holding' = Holding
  BY DEF ResetBestMove, ChooseBestMove, Holding
<1>3. PermitInv'
  BY <1>2 DEF ResetBestMove, ChooseBestMove, permits, PermitInv, PermitsConserved
<1>4. TypeOK'
  BY ThreadsAssumption, RootsAssumption
     DEF ResetBestMove, ChooseBestMove, TypeOK, Threads, flags, root, permits, history
<1>5. AnswerInv'
  BY <1>1, ThreadsAssumption
     DEF ResetBestMove, ChooseBestMove, AnswerInv, TypeOK, Threads, flags, root, MutexesFree
<1>6. OutcomeInv'
  BY <1>1, MovesAssumption, RootsAssumption
     DEF ResetBestMove, ChooseBestMove, OutcomeInv, OneOutcome, AnswerWasDue, AnswerIsKept, AnswerInv,
         TypeOK,
         flags, root, history
<1>7. VisitInv'
  BY ThreadsAssumption
     DEF ResetBestMove, ChooseBestMove, VisitInv, TypeOK, Threads, root
<1> QED
  BY <1>3, <1>4, <1>5, <1>6, <1>7

\* The Abort of the destructor takes effect only on a search without outcome.
LEMMA DestroyInv ==
  ASSUME IInv, Destroy
  PROVE  IInv'
<1> USE DEF IInv
<1>1. \A s \in Threads : pc[s] # "answer"
  BY FreeMutexes DEF Destroy, AbortSearch
<1>2. Holding' = Holding
  BY DEF Destroy, AbortSearch, Holding
<1>3. PermitInv'
  BY <1>2 DEF Destroy, AbortSearch, permits, PermitInv, PermitsConserved
<1>4. TypeOK'
  BY ThreadsAssumption
     DEF Destroy, AbortSearch, TypeOK, Threads, flags, root, permits, history
<1>5. AnswerInv'
  BY <1>1, ThreadsAssumption
     DEF Destroy, AbortSearch, AnswerInv, TypeOK, Threads, flags, root, MutexesFree
<1>6. OutcomeInv'
  BY <1>1, MovesAssumption, RootsAssumption
     DEF Destroy, AbortSearch, OutcomeInv, OneOutcome, AnswerWasDue, AnswerIsKept,
         AnswerInv, TypeOK,
         flags, root, history
<1>7. VisitInv'
  BY ThreadsAssumption
     DEF Destroy, AbortSearch, VisitInv, TypeOK, Threads, root
<1> QED
  BY <1>3, <1>4, <1>5, <1>6, <1>7

\* The join changes no state of the search.
LEMMA JoinThreadsInv ==
  ASSUME IInv, JoinThreads
  PROVE  IInv'
<1> USE DEF IInv
<1>1. \A s \in Threads : pc[s] # "answer"
  BY FreeMutexes DEF JoinThreads
<1>2. Holding' = Holding
  BY DEF JoinThreads, Holding
<1>3. PermitInv'
  BY <1>2 DEF JoinThreads, permits, PermitInv, PermitsConserved
<1>4. TypeOK'
  BY ThreadsAssumption
     DEF JoinThreads, TypeOK, Threads, flags, root, permits, history
<1>5. AnswerInv'
  BY <1>1, ThreadsAssumption
     DEF JoinThreads, AnswerInv, TypeOK, Threads, flags, root, MutexesFree
<1>6. OutcomeInv'
  BY <1>1, MovesAssumption, RootsAssumption
     DEF JoinThreads, OutcomeInv, OneOutcome, AnswerWasDue, AnswerIsKept, AnswerInv,
         TypeOK,
         flags, root, history
<1>7. VisitInv'
  BY ThreadsAssumption
     DEF JoinThreads, VisitInv, TypeOK, Threads, root
<1> QED
  BY <1>3, <1>4, <1>5, <1>6, <1>7

-----------------------------------------------------------------------------
\* Every step keeps the invariant.
LEMMA NextInv == IInv /\ [Next]_vars => IInv'
<1> SUFFICES ASSUME IInv, [Next]_vars PROVE IInv'
  OBVIOUS
<1>1. ASSUME NEW t \in Threads, ThreadStep(t) PROVE IInv'
  <2>1. CASE TriggerStep(t)
    BY <2>1, MaybeTriggerStopReturnsInv, MaybeTriggerStopInv, SendBestMoveInv
       DEF TriggerStep
  <2>2. CASE t \in Workers /\ WorkerStep(t)
    BY <2>2, BeginUnlimitedInv, LeaveWithoutPermitInv, ReadPermitsInv,
       ExchangePermitsInv,
       GatherMinibatchInv, CollectCollisionsInv, ReleasePermitInv, BackupUpdateInv,
       LoopWhileActiveInv DEF WorkerStep
  <2>3. CASE WatchdogCheck \/ WatchdogWake
    BY <2>3, WatchdogCheckInv, WatchdogWakeInv
  <2> QED
    BY <1>1, <2>1, <2>2, <2>3 DEF ThreadStep
<1>2. CASE OwnerStep
  BY <1>2, StopInv, AbortInv, GetBestMoveInv, ResetBestMoveInv, DestroyInv DEF OwnerStep
<1>3. CASE UNCHANGED vars
  <2>1. Holding' = Holding
    BY <1>3 DEF vars, Holding
  <2>2. TypeOK' /\ AnswerInv' /\ VisitInv'
    BY <1>3 DEF IInv, vars, flags, root, permits, history, TypeOK, AnswerInv, VisitInv
  <2>3. OutcomeInv'
    BY <1>3 DEF IInv, vars, flags, root, history, OutcomeInv, OneOutcome, AnswerWasDue,
                AnswerIsKept
  <2>4. PermitInv'
    BY <1>3, <2>1 DEF IInv, vars, permits, PermitInv, PermitsConserved
  <2> QED
    BY <2>2, <2>3, <2>4 DEF IInv
<1> QED
  BY <1>1, <1>2, <1>3, RelockThrowsInv, JoinThreadsInv DEF Next

\* The inductive invariant holds throughout every behaviour.
THEOREM Invariance == Spec => []IInv
BY InitInv, NextInv, PTL DEF Spec

\* Types hold for every number of workers and every limit; in particular
\* pending_searchers_ never leaves 0..MaxConcurrentSearchers.
THEOREM TypeCorrect == Spec => []TypeOK
<1>1. IInv => TypeOK
  BY DEF IInv
<1> QED
  BY <1>1, Invariance, PTL

\* A search sends one bestmove or, once an Abort took effect, none.
THEOREM OutcomeIsUnique == Spec => []OneOutcome
<1>1. IInv => OneOutcome
  BY DEF IInv, OutcomeInv
<1> QED
  BY <1>1, Invariance, PTL

\* A bestmove is sent only when it is due and from a visited root, and it is
\* NO_MOVE only where the root has no move that the search may choose, whatever
\* root, filter and temperature.
THEOREM NoEarlyAnswer == Spec => []AnswerWasDue
<1>1. IInv => AnswerWasDue
  BY DEF IInv, OutcomeInv
<1> QED
  BY <1>1, Invariance, PTL

\* The move that was sent stays the best move until it is reset.
THEOREM AnswerStays == Spec => []AnswerIsKept
<1>1. IInv => AnswerIsKept
  BY DEF IInv, OutcomeInv
<1> QED
  BY <1>1, Invariance, PTL

\* The workers never all leave an unvisited root, however many they are and
\* however early the stop comes.
THEOREM SomebodyVisits == Spec => []FirstVisitIsMade
<1>1. IInv => FirstVisitIsMade
  <2> SUFFICES ASSUME IInv, \A w \in Workers : pc[w] = "done" PROVE visited
    BY DEF FirstVisitIsMade
  <2>1. PICK w \in Workers : TRUE
    BY ThreadsAssumption
  <2>2. visited \/ rootVisitor # Nobody
    BY <2>1 DEF IInv, VisitInv
  <2>3. rootVisitor = Nobody
    BY DEF IInv, VisitInv, TypeOK
  <2> QED
    BY <2>2, <2>3
<1> QED
  BY <1>1, Invariance, PTL

\* Permits are conserved for every limit and every number of workers.
THEOREM PermitsAreConserved == Spec => []PermitsConserved
<1>1. IInv => PermitsConserved
  BY DEF IInv, PermitInv
<1> QED
  BY <1>1, Invariance, PTL
=============================================================================
