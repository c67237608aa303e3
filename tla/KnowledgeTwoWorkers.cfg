\* Two server processes that list the same document.
CONSTANTS
  Docs = {d1}
  Workers = {w1, w2}
  NoDoc = NoDoc
  MaxAttempts = 2
  MaxStops = 0
  MaxFaults = 1
SPECIFICATION Spec
INVARIANTS
  ReadyIsIndexed
  DeletionSticks
PROPERTIES
  OnlyContestedVanish
