SPECIFICATION FairSpec
CONSTANTS
  Addr    <- MCAddr
  Bcast   <- MCBcast
  InitNum <- MCInitNum
  MaxNum  <- MCMaxNum
INVARIANTS
  TypeOK
  Sorted
  SearchCorrect
PROPERTIES
  ImplementsSet
  CallReturns
