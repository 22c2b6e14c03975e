\* Locks as std::mutex and std::shared_timed_mutex are.
SPECIFICATION Spec
CONSTANTS
  Workers = {w1, w2}
  Watchdog = wd
  Nobody = nobody
  Moves = {m1, m2, m3}
  NoMove = none
  Roots <- SomeRoots
  SearcherLimits <- FewPermits
  RelockOutcomes = {FALSE}
PROPERTY StopIsAnswered
