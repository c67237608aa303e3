\* A request cut between the Append and the push of response.completed.
CONSTANTS
  ChanCap = 2
  MaxToolIterations = 1
  MaxCalls = 1
  MaxDeltas = 1
  MaxCitations = 1
  MaxFaults = 0
SPECIFICATION Spec
INVARIANTS
  OneOutcome
\* A response ends; nothing happens after it.
CHECK_DEADLOCK FALSE
