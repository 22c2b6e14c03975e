\* Locks that nest, as the comments of search.h have it, and those of the library.
SPECIFICATION Spec
CONSTANTS
  Workers = {w1, w2}
  Watchdog = wd
  Nobody = nobody
  Moves = {m1, m2, m3}
  NoMove = none
  Roots <- SomeRoots
  SearcherLimits <- FewPermits
  RelockOutcomes = {TRUE, FALSE}
INVARIANTS OneOutcome AnswerWasDue AnswerIsKept FirstVisitIsMade PermitsConserved
PROPERTIES StopIsAnsweredIfLocksNest DestructorReturns
