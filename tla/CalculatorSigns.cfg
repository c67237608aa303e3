\* Expressions with a minus behind an operator, before operands of up to three nodes;
\* nothing but the calculator is asked for.
CONSTANTS
  Registered = {"calculator"}
  Asked = {"calculator"}
  MaxNodes = 3
  Inputs <- SignedInputs
  Phrases <- SmallPhrases
  Urls = {"page"}
  Malformed = {}
  Ips = {"public", "private"}
  Private = {"private"}
  MaxRedirects = 1
  MaxBodyBytes = 1
  LongestBody = 1
  CharLimits <- SmallLimits
  CharsAsked = {0}
  Bases = {"kb1", "kb2"}
  Project = {"kb1", "kb2"}
  ListLimit = 1
  Corpora <- SmallCorpora
  TopKs = {2}
SPECIFICATION Spec
INVARIANT MinusNegatesItsOperand
CHECK_DEADLOCK FALSE
