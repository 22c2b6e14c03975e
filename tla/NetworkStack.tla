---------------------------- MODULE NetworkStack ----------------------------
(***************************************************************************)
(* A multiplexing backend over a demultiplexing one, as nested backend     *)
(* options make them: the threads of the search call the first, its        *)
(* workers call the second, whose workers call the networks.  What is the  *)
(* network below for NetworkMux is the DemuxingNetwork here.               *)
(***************************************************************************)
EXTENDS NetworkMux

CONSTANTS
  DemuxWorkers,
  MinimumSplitSize,
  Merged              \* what the mux makes of the batches

VARIABLES demuxQueue, demuxComp, demuxWorker, demuxAbort

demuxVars == <<demuxQueue, demuxComp, demuxWorker, demuxAbort>>
stackVars == <<calls, inner, muxVars, demuxVars>>

Demux == INSTANCE NetworkDemux
           WITH Callers <- Workers, Workers <- DemuxWorkers, calls <- inner,
                Batches <- Merged, queue_ <- demuxQueue, comp <- demuxComp,
                worker <- demuxWorker, abort_ <- demuxAbort

ASSUME StackAssumption == Demux!DemuxAssumption

StackInit == Init /\ Demux!Init

\* Searches call the mux, and the mux does its own work.
CallerAsks(c) == \E planes \in Batches : Ask(c, planes) /\ UNCHANGED demuxVars
CallerTakes(c) == Take(c) /\ UNCHANGED demuxVars
CallerThread(c) == CallerStep(c) /\ UNCHANGED demuxVars

\* A worker of the mux is in its own code or in ComputeBlocking of the demux.
MuxThread(w) ==
  \/ WorkerStep(w) /\ UNCHANGED demuxVars
  \/ Demux!CallerStep(w) /\ UNCHANGED <<calls, muxVars>>

DemuxThread(w) == Demux!WorkerStep(w) /\ UNCHANGED <<calls, muxVars>>

\* ~MuxingNetwork joins its workers before it destroys the networks it owns.
MuxDestroyed == Abort /\ UNCHANGED demuxVars
DemuxDestroyed == abort_ /\ Joined /\ Demux!Abort /\ UNCHANGED <<calls, muxVars>>

StackNext ==
  \/ \E c \in Callers : CallerAsks(c) \/ CallerThread(c) \/ CallerTakes(c)
  \/ \E w \in Workers : MuxThread(w)
  \/ \E w \in DemuxWorkers : DemuxThread(w)
  \/ MuxDestroyed \/ DemuxDestroyed

StackSpec == StackInit /\ [][StackNext]_stackVars

\* Threads run, and who waits for a mutex that is released again and again gets
\* it; nobody has to call, or to destroy the network.
Fairness ==
  /\ \A c \in Callers : SF_stackVars(CallerThread(c))
  /\ \A w \in Workers : WF_stackVars(MuxThread(w))
  /\ \A w \in DemuxWorkers : WF_stackVars(DemuxThread(w))
  /\ WF_stackVars(DemuxDestroyed)

FairSpec == StackSpec /\ Fairness
-----------------------------------------------------------------------------
\* The demuxing network under the mux keeps the promise that NetworkMux takes
\* for granted of the network below: see NetworkDemux.
DemuxImplementsEvaluation == Demux!DemuxImplementsEvaluation

\* Every ComputeBlocking returns, although notify_one wakes one worker for each
\* request and a batch limit leaves requests behind (network_mux.cc:147, 181);
\* and so do the destructors, which join the workers.
CallsReturn ==
  /\ \A c \in Callers : calls[c].state = "asked" ~> calls[c].state = "answered"
  /\ abort_ ~> Joined /\ Demux!Joined
=============================================================================
