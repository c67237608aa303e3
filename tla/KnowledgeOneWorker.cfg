\* One server process, crashing more often than a document is tried.
CONSTANTS
  Docs = {d1}
  Workers = {w1}
  NoDoc = NoDoc
  MaxAttempts = 2
  MaxStops = 3
  MaxFaults = 1
SPECIFICATION FairSpec
INVARIANTS
  TypeOK
  StartsBounded
PROPERTIES
  EveryDocumentSettles
