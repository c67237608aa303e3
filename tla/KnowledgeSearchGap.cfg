\* Two server processes, no failure and no shutdown: the overlap alone.
CONSTANTS
  Docs = {d1}
  Workers = {w1, w2}
  NoDoc = NoDoc
  MaxAttempts = 2
  MaxStops = 0
  MaxFaults = 0
SPECIFICATION FairSpec
PROPERTIES
  NoSearchGap
