SPECIFICATION Spec
CONSTANTS
  Fens <- AllFens
  MaxPlies <- Plies
INVARIANTS MovesAreTheLegalOnes RepetitionsCounted ResultIsLawful FenLeadsBack
PROPERTY ImplementsChess
\* A game ends with mate and stalemate, and at the bound.
CHECK_DEADLOCK FALSE
