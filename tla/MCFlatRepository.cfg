SPECIFICATION FairSpec
CONSTANTS
  Callers = {w1, w2, w3}
  Flats = {f1}
  Houses = {h1}
INVARIANTS
  IInv
  AtMostOneWinner
  ShownStaysApproved
  FlatHasHouse
PROPERTIES
  ImplementsLifecycle
  EveryCallReturns
