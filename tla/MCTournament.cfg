SPECIFICATION FairSpec
CONSTANTS
  Workers = {w1, w2}
  Totals <- MCTotals
  MaxPlies = 2
  RelockOutcomes = {TRUE, FALSE}
  Nobody = "nobody"
INVARIANT AbortReachesSearch
INVARIANT FinalIsComplete
PROPERTY TournamentEnds
CHECK_DEADLOCK FALSE
