\* Two tool calls of one turn, in up to two pieces of arguments each.
CONSTANTS
  CallNames = {"f", "g"}
  Styles = {"side by side", "one by one"}
  MaxSent = 2
  MaxArgs = 2
SPECIFICATION StreamSpec
INVARIANTS
  PiecesByNumber
CHECK_DEADLOCK FALSE
