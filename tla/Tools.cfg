\* Expressions of up to five nodes; two redirects, pages up to two bytes over the
\* limit; three chunks in two bases of the project, one more base that is asked for.
\* An execution comes to its end, so that it is no deadlock.
CONSTANTS
  Registered = {"calculator", "web_fetch", "knowledge_search", "other"}
  Asked = {"calculator", "web_fetch", "knowledge_search", "other", "unknown"}
  MaxNodes = 5
  Inputs <- SmallInputs
  Phrases <- SmallPhrases
  Urls = {"page", "next", "wrong"}
  Malformed = {"wrong"}
  Ips = {"public", "private"}
  Private = {"private"}
  MaxRedirects = 3
  MaxBodyBytes = 5
  LongestBody = 7
  CharLimits <- SmallLimits
  CharsAsked = {0, 1, 3, 9}
  Bases = {"kb1", "kb2", "kb3"}
  Project = {"kb1", "kb2"}
  ListLimit = 1
  Corpora <- SmallCorpora
  TopKs = {2}
SPECIFICATION Spec
INVARIANTS
  EvaluatesAsMeant
  NothingCutSilently
  
PROPERTIES
  NothingStaysBehind
CHECK_DEADLOCK FALSE
