SPECIFICATION FairSpec
CONSTANTS
  Callers = {c1, c2}
  Workers = {m1, m2}
  DemuxWorkers = {d1, d2}
  MaxBatch = 3
  MinimumSplitSize = 2
  Inputs = {1, 2, 3}
  Eval <- MCEval
  Batches <- MCBatches
  Merged <- MCMerged
  None = None
PROPERTY MuxImplementsEvaluation
PROPERTY DemuxImplementsEvaluation
PROPERTY CallsReturn
CHECK_DEADLOCK FALSE
