\* The event stream and its end: one call per turn with two citations, a channel
\* of two, so that it fills up and is abandoned, one database call that fails.
CONSTANTS
  ChanCap = 2
  MaxToolIterations = 2
  MaxCalls = 1
  MaxDeltas = 1
  MaxCitations = 2
  MaxFaults = 1
SPECIFICATION FairSpec
INVARIANTS
  TypeOK
  SeqWithoutHoles
  OutcomeAgrees
  ItemsBackEvents
  ClientSeesOneOutcome
  BothOutcomesOnlyIfCutOrUnheard
PROPERTIES
  RefinesEventStream
  RunSettles
  StreamCloses
\* A response ends; nothing happens after it.
CHECK_DEADLOCK FALSE
