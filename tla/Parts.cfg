\* Texts of up to five characters, some of eight, sizes up to five, overlaps to be
\* clamped, requests of two texts, statements of three rows; three parallel tool calls
\* in up to three pieces each; two responses of one conversation that show three of its
\* four messages; three requests of two addresses in a minute of two ticks and the first
\* tick of the next; two patches and one more project; four rows in three instants, a
\* page is one or two; two clients of one address, one organization, tokens of one hour;
\* one file and three requests to delete it; an organization's creator and one more user,
\* two requests.  Every part comes to its end, so that it is no deadlock.
CONSTANTS
  MaxText = 5
  Documents <- SmallDocuments
  Configs <- SmallConfigs
  EmbedBatch = 2
  InsertBatch = 3
  StoreDim = 3
  Dims = {3, 4}
  CallNames = {"", "f", "g"}
  Styles = {"side by side", "one by one"}
  MaxSent = 3
  MaxArgs = 2
  Turns = {t1, t2}
  Limit = 3
  Requests = {r1, r2, r3}
  Users = {v1}
  Addresses = {a1, a2}
  PerUser = 1
  PerIP = 1
  Window = 2
  Slowest = 1
  LastTick = 2
  Patches = {p1, p2}
  Creations = {c1}
  Names = {"first", "second"}
  Ids = {i1, i2, i3, i4}
  Instants = {1, 2, 3}
  PageLimits <- SmallPages
  Clients = {k1, k2}
  Emails = {e1}
  Orgs = {o1}
  Lifetime = 1
  LastHour = 1
  Files = {f1}
  Deleters = {q1, q2, q3}
  NoFile = NoFile
  OrgUsers = {u0, u1}
  Creator = u0
  Changes = {h1, h2}
  NoTarget = NoTarget
SPECIFICATION PartsSpec
INVARIANTS
  ChunksCoverText
  RowsAreWhole
  CallsAsSent
  HistoryIsFaithful
  WindowsAreFair
  PatchesSurvive
  PagesAreWhole
  AccountsAreSound
  FilesTypeOK
  UploadedIsDownloadable
  DeletionSticks
  NoStrayObject
  OneOwner
  NoOwnerlessOrg
  RemovalSticks
PROPERTIES
  RefinesRegister
  OwnersAreNotRemoved
CHECK_DEADLOCK FALSE
