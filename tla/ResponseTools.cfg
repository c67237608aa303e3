\* The tool loop: two turns of up to two calls, one database call that fails.
CONSTANTS
  ChanCap = 1
  MaxToolIterations = 2
  MaxCalls = 2
  MaxDeltas = 0
  MaxCitations = 1
  MaxFaults = 1
SPECIFICATION Spec
INVARIANTS
  IntentOnRecord
  ToolEventsNested
  CompletionIsWhole
  BooksBalance
\* A response ends; nothing happens after it.
CHECK_DEADLOCK FALSE
