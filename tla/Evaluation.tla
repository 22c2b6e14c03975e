----------------------------- MODULE Evaluation -----------------------------
(***************************************************************************)
(* What a neural network backend promises to the threads that call it      *)
(* (src/src/neural/network.h): a computation is given positions,           *)
(* ComputeBlocking returns when all are evaluated, and sample s is then    *)
(* the evaluation of the s-th position of this computation.                *)
(***************************************************************************)
EXTENDS Naturals, Sequences

CONSTANTS
  Callers,    \* threads that call, each with one computation at a time
  Inputs,     \* positions
  Batches,    \* the positions that one computation may be asked for
  Eval        \* [Inputs -> what the network says of a position]

VARIABLE calls   \* [Callers -> a computation], see Computation

\* A caller that is in no call, one in ComputeBlocking, and one that can read.
Idle == [state |-> "idle"]
Asked(planes) == [state |-> "asked", planes |-> planes]
Answered(out) == [state |-> "answered", out |-> out]

Outputs == {Eval[x] : x \in Inputs}
Computation ==
  {Idle} \cup [state : {"asked"}, planes : Seq(Inputs)]
         \cup [state : {"answered"}, out : Seq(Outputs)]

EvalAll(planes) == [s \in 1 .. Len(planes) |-> Eval[planes[s]]]

Init == calls = [c \in Callers |-> Idle]

Ask(c, planes) ==
  /\ calls[c] = Idle
  /\ calls' = [calls EXCEPT ![c] = Asked(planes)]

Answer(c) ==
  /\ calls[c].state = "asked"
  /\ calls' = [calls EXCEPT ![c] = Answered(EvalAll(calls[c].planes))]

\* The computation is destroyed.
Take(c) ==
  /\ calls[c].state = "answered"
  /\ calls' = [calls EXCEPT ![c] = Idle]

Next ==
  \E c \in Callers :
    \/ \E planes \in Batches : Ask(c, planes)
    \/ Answer(c)
    \/ Take(c)

Spec == Init /\ [][Next]_calls
=============================================================================
