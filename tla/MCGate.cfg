SPECIFICATION FairGateSpec
CONSTANTS
  c1 = c1
  c2 = c2
  c3 = c3
  c4 = c4
  Callers <- FourCallers
  MaxConcurrency = 2
INVARIANTS
  GateTypeOK
  SlotsAccounted
  WorkConserving
  ListIsTheBlocked
PROPERTIES
  FirstComeFirstServed
  EveryCallEnds
  ImplementsBoundedCalls
