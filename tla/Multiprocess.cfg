SPECIFICATION FairSpec
CONSTANTS
  Workers = 2
  MaxProcs = 5
  MaxSignals = 2
  MaxFaults = 1
  MaxPings = 2
INVARIANTS
  TypeOK
  NoOrphans
  RetiredOnlyWhenReplaced
PROPERTIES
  HungIsReplaced
  TermStops
