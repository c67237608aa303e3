# xiaozhao in TLA+

A verification development of the xiaozhao backend: a Go monolith that answers
`POST /v1/responses` with an agent (a model that may call tools), keeps
conversations, files and knowledge bases per organization and project, and
stores everything in PostgreSQL, Redis and an S3 object store.

Paths below are relative to `src/`. Modules are checked with TLC
(`tlc -config X.cfg M`) and proved with TLAPS (`tlapm M.tla`).

## 1. The system

### Components, their state and their operations

| component | code | state | operations | correct when |
| --- | --- | --- | --- | --- |
| response run | `internal/app/agent/orchestrator.go`, `internal/api/v1/response_handler.go` | rows `messages`, `message_items`, `response_events`, `tool_calls`, `tool_results`, `model_invocations`, `usage_records`, `audit_logs`; a goroutine per response; a channel of 32 events; the request context | `Run`, `run`, `callModel`, `executeTool`, `emitEvent`, `ResponseHandler.Create` / `ListEvents` | events are persisted before they are shown, shown in order, complete unless the request is cut; log, message, items and stream agree on the outcome; the run ends |
| conversation context | `internal/app/agent/conversation.go`, `buildModelMessages`, `message_repo.go`, `conversation_repo.go` | `conversations`, `messages` | `EnsureConversation`, `ListByConversation` | the model sees the user's current input and the most recent history |
| tool registry | `internal/app/tool/registry.go` | the table of tools, one goroutine per execution | `Register`, `Execute` | exactly one outcome per call, no goroutine left behind by a late result |
| tools | `internal/app/tool/{calculator,current_time,web_search,web_fetch,knowledge_search}.go` | none | `Execute` | the calculator computes; a knowledge search stays in the scope of the request |
| model providers | `internal/infra/model/*` | a stream per call | `Stream`, `Recv` | the deltas of a tool call add up to the call the model made |
| knowledge ingestion | `internal/app/knowledge/service.go`, `knowledge_repo.go` | `knowledge_bases`, `documents` (status, attempts, chunk count), `document_chunks`; a worker per process | `AddDocument`, `DeleteDocument`, `ProcessPending`, `ProcessDocument`, `Search` | what is searchable is what was indexed and not deleted; a pending document is eventually ready or failed |
| chunker | `internal/app/knowledge/chunker.go` | none | `Split` | it ends, loses no text and keeps to the size |
| files | `internal/app/file/service.go`, `file_repo.go`, `internal/infra/storage` | `files`, `file_objects`, the object store | `Upload`, `Download`, `Delete`, `List` | a file shown as uploaded can be downloaded; a deleted file stays deleted; no object without a row |
| organizations | `internal/app/org/service.go`, `internal/app/rbac`, `org_member_repo.go` | `organizations`, `org_members` | `Create`, `InviteOrUpdateMember`, `RemoveMember` | an active organization has an owner; nobody acts above their role |
| projects | `internal/app/project/service.go`, `project_repo.go` | `projects` | `Create`, `Update`, `Delete`, `List` | a patch changes what it asks for and nothing else; names are unique |
| authentication | `internal/app/auth/service.go`, `internal/pkg/{jwt,password}`, `internal/gateway/middleware/{auth,tenant}.go` | `users`, signed tokens | `Register`, `Login`, `GetUser`, `SwitchOrg`, `Auth`, `Tenant` | one account per address; nobody enters an organization they left before they asked |
| rate limit | `internal/gateway/middleware/ratelimit.go` | Redis counters | `exceed` | at most N requests per window and owner; who is refused can come back; fails open |
| tracing | `internal/observability/tracer.go` | spans | `Start`, `End` | nothing depends on it |
| web fetch | `internal/infra/webfetch/fetcher.go` | none | `Fetch` | each request follows a check of its address, what was cut is flagged |
| embeddings | `internal/infra/embedding/*` | none | `Embed` | each text gets its own vector |
| parsers, web search | `internal/infra/{parser,websearch}` | none | calls | external services and text extraction |
| server | `cmd/server/main.go`, router, migration, config | processes | start, shut down | wiring |

### How they interact

* The handler calls `Run`, which writes the conversation and the two messages
  synchronously, then starts the goroutine `run` and hands back a channel. The
  handler drains the channel into SSE. The two share only the channel and the
  request's context: net/http cancels it when the client goes away **and** when
  the handler returns.
* `run` calls the model provider and the tool registry; each tool runs in a
  goroutine of its own with a timeout. Every step writes rows of its own, there
  is no transaction around a response.
* `knowledge_search` calls the knowledge service, which reads what the worker
  wrote. The worker reads the files which the file service wrote. They
  coordinate through the `status` columns only; no row is ever locked.
* All services ask `rbac.Checker` first, and act on its answer after it.

### What is hard

The list with its places is `hazards` in `PROJECT.json`. In short: the request
context races the channel; some writes of a response fail and others do not; the
process dies in the middle; whole rows are written back from what was read
earlier (documents, files, organizations); two workers take the same document;
checks are separated from the writes they permit.

## 2. The plan

Order: the most important behaviour first.

1. `EventStream`, `ResponseRun` with its properties, proofs and refinement:
   **done**.
2. `KnowledgeIngest`: documents, their workers, deletion and search, with
   proofs of its safety properties: **done**.
3. `FileLifecycle`, `FileRegister`: upload, download and delete over two tables
   and a store, with proofs of its safety properties and the refinement: **done**.
4. `OrgMembership`: creation, roles, invitations and removals of an organization,
   with proofs of its safety properties: **done**.
5. `ToolExec` with the tools it runs, `Calculator`, `WebFetch` and
   `KnowledgeSearch`, composed in `Tools`: **done**.
6. `ModelStream`: provider deltas to calls, against the numbers the provider gives
   them: **done**.
7. `IndexDocument`: the inside of one indexing, chunker, embeddings and the
   transaction around the rows, with proofs of its safety properties: **done**.
8. `Conversation`, `RateLimit`, `Projects`, `Paging`, `Accounts`: the smaller parts:
   **done**.

Abstract specifications: `EventStream` and `FileRegister` (done). Every safety
property of the runs is a theorem (sections 3 to 8), and so is what liveness rests on in
the response run and in the tools: nobody waits in vain, and every step leaves less to do.
Liveness itself is TLC's. Left to model: the creation of a conversation and who may
continue it, the text a parser extracts from a file.

Sections 3 to 6 are the four subsystems with a state machine of their own,
sections 7 and 8 the parts around them.

## 3. The response run

### Modules

| module | holds |
| --- | --- |
| `EventStream` | the abstract promise: a log, a view of it, a cut |
| `ResponseRun` | the detailed specification: rows, goroutine, channel, handler, context, faults and crash |
| `ResponseProperties` | the properties, and the inductive invariants |
| `MCResponseRun` | the instances for TLC |
| `ResponseProofs` | type correctness, the sequence numbers, the channel against the log, that `ResponseRun` implements `EventStream`, and who waits for whom |
| `ResponseToolProofs` | tool calls, the outcome, the books, and that the loop ends |

### State and actions against the code

`pc` is the place of the goroutine in `Run`, `run`, `callModel` and
`executeTool`; each of its values but `push` is one call that changes state or may
fail. `log`, `items`, `calls`, `results`, `user`, `status` and `books` are
tables; `sent` is every envelope ever put into the channel and `taken` how many the
handler took out, so that the channel's content is the difference and
`Room == Len(sent) - taken < ChanCap` is "a send does not block". `ctx` is the request
context.

`emitEvent` is two steps, because everything interesting happens between them:
`Emit` (count `seq`, `Append` the row) and `Push` (the `select` of the send and
`ctx.Done()`). With room in the channel and the context done, Go chooses
either branch: so does `Push`. `SendFinal` is the plain send of the last
envelope, which does not look at the context.

Database calls made with the request's context (`Run`, `buildModelMessages`)
also fail once it is done (`CtxFault`); those made with
`context.Background()`, as `run` does, only for reasons of their own (`Fault`).
Every write that returns an error may have taken effect (its answer was lost):
the row is there or not, by choice, in `Emit`, `AddItem` and each other write whose error
is handled. Where the error is dropped a row that is there without an answer is
like any other, so that `Book` and the writes of `fail` have no such choice.
`unheard` is a history variable: the logged events whose `Append` returned an error.
They are in the log and are never pushed.
Which errors are handled and which are dropped is as in the code: `AddItem`
takes the place to go when the write fails, `Book` always goes on.

Abstracted: the text of messages (whether there is any, and how many deltas), the
arguments and results of tools, token counts, which tool is called, error codes,
tracing spans. `RecvEOF` chooses the number of calls of the turn, or a
malformed one; `ExecuteTool` chooses the outcome of the tool and its number of
citations.

### Runs

All have `CHECK_DEADLOCK FALSE`: a response ends and nothing happens after it.
Constants in the order ChanCap, MaxToolIterations, MaxCalls, MaxDeltas,
MaxCitations, MaxFaults.

| run | constants | shows |
| --- | --- | --- |
| `response_stream` | 2, 2, 1, 1, 2, 1 | the stream: refinement of `EventStream`, `TypeOK`, `SeqWithoutHoles`, `OutcomeAgrees`, `ItemsBackEvents`, `ClientSeesOneOutcome`, `BothOutcomesOnlyIfCutOrUnheard`; its end under `FairSpec`: `RunSettles`, `StreamCloses` |
| `response_tools` | 1, 2, 2, 0, 1, 1 | the tool loop: `IntentOnRecord`, `ToolEventsNested`, `CompletionIsWhole`, `BooksBalance` |
| `response_one_outcome` | 2, 1, 1, 1, 1, 0 | a counterexample to `OneOutcome` |

Why the bounds are enough: two turns are a turn with tools and one after it, or the
limit reached with tools pending; two calls per turn are a call
after a call; two citations a citation after a citation; a channel of one or
two fills up within any response, which has at least three events. One
failed database call is enough to reach every error path, and since every
error path leads to `fail`, whose own writes are tolerated, a second one
only drops rows, or answers, there; the proofs below put no bound on any of these.

Fairness (`FairSpec`): the goroutine goes on (database calls return, model and
tool calls have timeouts), the handler goes on (a write to the client returns or
fails at the server's write timeout), and net/http cancels the context of a request
whose handler has returned. Nothing makes a client disconnect or a process die.

### What it found

* `OneOutcome`: `response.completed` is persisted, then the context may win the
  `select`; `run` then fails the whole response, so that message and log end as
  failed after the log said completed (`orchestrator.go:285`).
  `BothOutcomesOnlyIfCutOrUnheard` shows that two things do this only: the cut, and an
  `Append` of `response.completed` that took effect and returned an error, after which
  `run` fails the response with no cut at all. `ClientSeesOneOutcome` shows that the client
  never sees both.
* `RefinesEventStream` needs its exception `unheard`: an event whose `Append` took effect and
  returned an error is in every replay, and no client that was connected has seen it.
* A failed tool fails the response: `executeTool` returns the error to `run`, which
  calls `fail` (`orchestrator.go:239-242`). The model is never told of it.
* `BooksBalance` is about completed responses only: a turn that ends with a call
  without a name, or whose delta could not be emitted, fails the response and
  leaves no `model_invocations` row (`orchestrator.go:351-355`, 390-391).
* `RunSettles` needs the exception `Abandoned`: a handler that gave up on a
  full channel leaves the goroutine blocked on the last send for good.
* A failed `Append` without effect leaves a hole in `seq`; `SeqWithoutHoles` shows that the only
  event that can follow a hole is `response.failed`.

### What is proved

Thirteen theorems, for all values of the constants that satisfy
`ConstantsAssumption` (all are naturals, the channel and the iteration limit
positive):

* `TypeCorrect`: `Spec => []TypeOK`. `TypeOK` alone is not inductive: `todo - 1` and
  `calls[Current]` need `ControlInv` (there is a call to make at `toolCall`, a
  current call inside `executeTool`). Together they are `TypeInv`.
* `LogIsDense`: `Spec => []SeqWithoutHoles`. `SeqInv` adds what a failure does: while
  the run has not failed, `seq = Len(log)`; in the failure path `seq` may be
  ahead; `response.failed` is logged once, last.
* `IntentIsOnRecord`: `Spec => []IntentOnRecord`. `IntentInv` adds that at
  `callItem` and `execute` the created event of the current call is logged.
* `ImplementsEventStream`: `Spec => RefinesEventStream`. `view` is what the
  handler wrote, a prefix of `sent`. `SentInv` says what every envelope is
  (`Entry`: the event in its own place of the log; after a cut, the log's last
  one, `response.failed`; or the end), how far the channel lags behind the
  log (`Lag`), and that while the request lives every logged event was sent, is about to be, or
  was not heard of, and that nothing of the latter is ever sent (`HeardInv`). From it, a write of the handler is a `Show` or a `Close`, an
  `Emit` a `Persist`, a cancellation a `Cut`, everything else a stutter.

* `OutcomeIsAgreed`, `OnlyCutOrUnheardLogsBoth`: `Spec => []OutcomeAgrees` and
  `[]BothOutcomesOnlyIfCutOrUnheard`, from `OutcomeInv`: the success is logged by a run whose
  message is completed, and a run that goes to the error path after that was cut, or was told
  that the success is not in. While the
  channel holds all of the log (`Lag`) a push can only be skipped by a done context,
  which is where the stream's invariant is needed.
* `ClientIsToldOneOutcome`: `Spec => []ClientSeesOneOutcome`, from `ToldInv` and `SentInv`:
  once the success is in the channel the run is past its error path.
* `CompletedIsWhole`: `Spec => []CompletionIsWhole`, from `WholeInv`, which lists what is
  stored at each place of the loop: between two calls all are settled, inside one all others
  are, and a row is written only when the one before it was not refused.
* `CompletedIsBooked`: `Spec => []BooksBalance`, from `BooksInv`, which says the same of
  the books as long as no call of the database failed.
* `ToolEventsAreNested`: `Spec => []ToolEventsNested`, from `NestedInv`: outside of a call
  every creation of the log is closed by a completion behind it, inside one every other
  call's is, and nothing ends the current one yet.
* `ItemsStandBehindEvents`: `Spec => []ItemsBackEvents`, from `OrderInv` and
  `CitationInv`: per call the events of citations are never more than its items, and one less
  before an event. `Cardinality` is handled by lemmas on an entry added to a sequence.
* `OnlyTheLastSendHangs`: `Spec => []NobodyWaitsInVain`. The goroutine finds the channel full
  only while its handler still reads, or has given up, in which case its context is canceled
  and frees every send but the last one (`Abandoned`). The handler finds it empty only while
  the goroutine has an envelope to send. From `HandlerInv` (a handler that is gone left after
  the end or because its client did) and `SentInv`.
* `TheLoopEnds`: `Spec => LoopAdvances /\ [](Left \in Nat)`. `Left` counts what the goroutine
  may still do: `TurnsLeft` for the turns, `CallsLeft` for the calls of this one, a place
  within the call (`LeftInCall`), then the way to the end (`LeftToClose`), a push, and
  the deltas to come. Each step lowers it, so that a response takes no more steps
  than `MaxToolIterations`, `MaxCalls`, `MaxCitations` and `MaxDeltas` allow. The last three
  bound what a model or a tool answers, and stand for any number of them. The
  proof needs `TypeInv` (the counters are numbers) and `NestedInv` and the sequence numbers
  for the class of steps that append to the log.

To keep the proofs in proportion to the argument, the actions are sorted into
classes: those that emit, the push, and those that leave log, channel and
sequence alone; an invariant is shown once per class. `At`, the place where the
goroutine is or will be after the push under way, lets an invariant speak of `Emit` and
its `Push` as one.

Only model-checked: liveness (`RunSettles`, `StreamCloses`), because what fairness adds, and
`ENABLED`, are out of the prover's reach. The two theorems above are its safety part: a run can
only stop short of its end by not being scheduled, or where `RunSettles` says so.

## 4. Knowledge ingestion

### Modules

| module | holds |
| --- | --- |
| `KnowledgeIngest` | requests, workers, processes and the clock over the three tables |
| `KnowledgeProperties` | the properties, and the inductive invariants |
| `MCKnowledge` | the instances for TLC |
| `KnowledgeProofs` | type correctness; ready means indexed; a deletion is final |
| `IndexDocument`, `IndexProperties`, `IndexProofs` | what happens inside `Work` and `ReplaceChunks` (below) |

### State and actions against the code

`row` is the table `documents` (status and attempts), `chunks` says which
documents have rows in `document_chunks`, `kb` is the status of the one
knowledge base. `stale` holds the rows whose `processing_updated_at` is more than
15 minutes old: time passes in `Expire`, at any moment after the row was written,
so that a slow worker and its successor may overlap.

Every database call is a step. A request to delete a document is three:
`DeleteDocument` reads the row, `MarkDeleted` writes **all** of it back,
`DeleteChunks` deletes the chunks. A worker is a tick (`ListPending`), then for each
document of the list `GetDocument` (or `SkipDocument`), `Begin`, `Work` (fetch, parse,
split and embed, none of which touches the tables), `ReplaceChunks`, `Finish`, and
`Fail` from every error. `copy` is the row the worker has read and will write back
whole: this is where two actors overwrite each other.

A call may fail (`Fault`), and all calls of the worker but the one in `Fail` may
fail once its process is shutting down (`Broken`), because they use the worker's
context. A write that returns an error may have taken effect all the same: its answer
was lost, or the context ended while it committed. `MarkDeleted`, `DeleteChunks`, `BeginError`,
`ReplaceError` and `FinishError` leave the tables with or without the write, by choice; a
request that ends with `CreateDocument`, and the last updates of `GiveUp` and `Fail`, whose
answer nobody looks at, need no such choice. `Fail` uses `context.Background()`. Therefore a document that is in work
at a shutdown usually ends up `failed`, and a failed document is never listed
again.

Abstracted: contents, number and ranking of chunks; the limit (10) and the order of
the list: there are fewer documents than the limit, and a worker takes them in any
order; usage and audit rows, which nothing reads; deleting the base is one step, and a request that passed its check before is
one that came before. One request at a time works on a document. `starts`, `marked`,
`removed`, `raced` and `contested` are history variables: no guard reads them.

### Runs

Constants: workers, MaxAttempts, MaxStops, MaxFaults; always one document.

| run | constants | shows |
| --- | --- | --- |
| `knowledge_one_worker` | 1, 2, 3, 1 | `TypeOK`, `StartsBounded`; `EveryDocumentSettles` under `FairSpec` |
| `knowledge_two_workers` | 2, 2, 0, 1 | `ReadyIsIndexed`, `DeletionSticks`, `OnlyContestedVanish` |
| `knowledge_search_gap` | 2, 2, 0, 0 | a counterexample to `NoSearchGap`, with no failure and no shutdown |

Why the bounds are enough: documents share nothing but the worker that takes them
one after the other, so that one document meets every interleaving; two
workers are two that hold the same row, and their crashes are in the proofs of the
three properties this run checks; with one worker, more stops than attempts let the attempts run
out by crashes alone; one failing call reaches every error path. The proofs put
no bound on any of these.

Fairness (`FairSpec`, of the run with one worker): a worker goes on (its calls return, its ticker ticks), a
process that is stopping exits and one that is down is started again, time passes.
Nothing makes anybody add or delete a document, and no process has to stop.

### What it found

* `NoSearchGap` fails. The comment at `service.go:396` gives the absence of a gap as the
  reason for the transaction around the chunks; the gap comes from the status instead. A
  worker that read the row before another one finished writes `processing` over `ready`
  (the run), and `failed` after it if its attempt fails. One worker is enough when the update
  to `ready` takes effect and returns an error, as it may at a shutdown: `fail` writes
  `failed` over it, and the document is not listed again.
* `OnlyContestedVanish` says that these are all: what is found vanishes only when it or its
  base is deleted, or when a worker still had it in its hands at the moment it was written
  ready (`contested`).
* `DeletionSticks` needs its exception `raced`: a worker that holds the row when
  the deletion is written brings the document back, with its chunks.
* `StartsBounded` holds for one worker only: two workers count the same attempt once.

### What is proved

Five theorems, for any set of documents and all bounds (`IngestAssumption`), and for
any set of workers but the fourth, which is about one (`OneWorker`: any two
workers are the same), because with two it fails, as just said:

* `KnowledgeTypeCorrect`: `Spec => []TypeOK`, in which no row counts more than
  `MaxAttempts` attempts. `WorkerInv` is added: a busy worker holds a document, and at
  `start` its copy has an attempt left.
* `ReadyMeansIndexed`: `Spec => []ReadyIsIndexed`. `IndexInv` adds that a worker about
  to write `ready` has put the chunks in, and that only the deletion of a marked
  document takes chunks out. Every other step is `Harmless`, shown once.
* `DeletionIsFinal`: `Spec => []DeletionSticks`. `DeletionInv` adds that no worker
  holds, and no request creates, a document whose deletion met no worker. Every
  step that deletes nothing is `Aloof` of such documents.

* `AttemptsAreBounded`: `Spec => []StartsBounded`. `StartsInv` adds that what was
  started is counted in the row, and in the copy of the worker that holds it; a
  deletion may write an older count back, but nobody takes a deleted row up. Its
  inner lemmas say what a request, a write of the copy and `Begin` do to the counts.
* `OnlyContestedDocumentsVanish`: `Spec => OnlyContestedVanish`, the action property.
  `ContestInv` says that a document that is ready and in a worker's hands is contested: it
  was when the row was written, because nobody takes a ready document up. With `FreshInv`
  (no row is created over another) and `IndexInv` (chunks go only after the mark) every step
  that is not a deletion, nor a worker's write of what it contests, leaves what searches find.

Only model-checked: `EveryDocumentSettles`, a liveness property.

### Inside one indexing

`KnowledgeIngest` takes the work on a document for two steps, `Work` and
`ReplaceChunks`; `IndexDocument` has the steps inside. `doc` is the parsed document,
the sequence of the normalized texts of its parts. A text is a sequence of characters, of
which the separators and blanks are told apart; one sentence mark and one comma stand
for the ten of the code.

`CutPiece` is one round of the loop of `splitText`, with `PieceEnd` and
`BestSplitOffset` as in the code, and of the loop of `Split` that trims the
piece and drops a blank one. `size` and `overlap` are what `NewChunker` makes of its
arguments. `EmbedSome` is one request to the embeddings endpoint: `Answers` is
whatever JSON may hold, in any order, with texts left out, repeated or
unknown, and in another dimension; `VectorsOf` files each vector under its `index`, and
`Fits` is the check of the dimension, which a text left out fails.
`BeginTx`, `InsertSome`, `Commit` and `Rollback` are `ReplaceByDocument`; `stored` is
what others see. A `Commit` whose answer is lost, or whose context ends while it is on its way,
leaves the new rows behind and the document failed; `Rollback` is every error before it took
effect.

`ChunksCoverText` says that the chunker advances with every piece, leaves no gap
and loses nothing that is not blank. `RowsAreWhole` says that the stored rows are
all of the old ones until the transaction commits and all of the new ones, each with its own
vector in the column's dimension, once the document is reported indexed; after a `COMMIT`
without an answer they are either, never a mixture. Both are checked by the run `parts` (section 8) for every normal
text of up to five characters and some longer ones, sizes up to five and overlaps
that are clamped or not, requests of two texts and statements of three rows, so that
batches end in the middle of each other.

Both are proved in `IndexProofs` for texts of any length, all sizes, overlaps, batches
and dimensions (`IndexAssumption`), with `IndexTypeOK`. The search for a split
lands in the second half of the window (`SplitBounds`, from the least-number
principle), and the overlap is at most half of the size (`Clamped`): so a piece ends
by more than the overlap behind its start (`PieceBounds`) and the next one
starts further right. `CutInv` adds where the chunker stands behind its last piece;
`RowInv` that the vectors and the rows of the transaction belong, number by number, to
the chunks.

## 5. Files

### Modules

| module | holds |
| --- | --- |
| `FileRegister` | the abstract promise: what can be downloaded, and when it stops |
| `FileLifecycle` | uploads and deletions over two tables and the object store |
| `FileProperties` | the properties, and the inductive invariant |
| `MCParts` | the instance for TLC, with the parts of section 8 |
| `FileProofs` | the safety properties and the refinement |

### State and actions against the code

`row` is the status in the table `files`, `objects` the files with a row in
`file_objects`, `store` those whose object is in the bucket. `up[f]` is the place
of the one request that uploads `f` (its id is new), `deleter[q]` that of a request to
delete the file `fileOf[q]`, `found` says whether its lookup gave it an object to delete.

Every database and storage call is a step and there is no transaction. A call that
fails may have taken effect (`MaybePut`, `TryDrop`, the choices of
`PutObjectError` and `CreateObjectError`): the answer of a database or an object
store can be lost, and `Upload` undoes its work by hand on the assumption that it
was not. Which failures end the request (158, 172, 239) and which are dropped (152,
174, 175, 237, 244) is as in the code. `FileRepo.Update` sets the status by id,
unconditionally (`Put`): this is where an upload and a deletion overwrite each other.
A process may die between any two steps; nothing takes up its work.

Checks that change nothing (size, name, purpose, role) are the guard of the first
step or leave the request where it is. Abstracted: contents, names, hashes, audit rows.
`lossyFiles`, `raced`, `askedFiles`, `removed` and `published` are history variables: no
guard reads them.

### Runs

| run | constants | shows |
| --- | --- | --- |
| `parts` | 1 file, 3 deletions | `FilesTypeOK`, `UploadedIsDownloadable`, `DeletionSticks`, `NoStrayObject`, `RefinesRegister` |

There are no bounds but the sets: every file is uploaded once, a deletion may be
repeated for ever, and any number of calls may fail. Files share nothing, so one
file with three requests against its upload is every interleaving of up to four
actors. A file that was deleted, or whose upload never created a row, has no further steps.
`CrashUpload` and `CrashDelete` are in the run; what they leave in the store is found by its
row in `files` (`FilesTypeOK`), but nobody looks for it.

### What it found

* A file is listed and can be deleted while it is still being
  uploaded. `Upload` then writes `uploaded` (or `failed`) over `deleted`: a deletion
  that was answered as done is undone.
* In the same race a deletion may find no object to delete,
  and the upload adds it afterwards: it stays in the store although nothing failed.
* `UploadedIsDownloadable`, `DeletionSticks` and `NoStrayObject` hold outside these
  races, `UploadedIsDownloadable` even inside them: the later write always
  belongs to somebody who leaves the object where it is.
* A file whose upload fails may be downloadable for a moment: a `CreateObject` that
  failed after it took effect. `FileRegister` allows it to disappear then, once.

### What is proved

Five theorems, for any sets of files and requests. All follow from one inductive
invariant, `FileInv`, shown once per action: `StageInv` says what the place of an
upload tells of row, object row and object (an upload past its put has its
object in the store; one that ended badly and left its object is in `lossyFiles`),
`DeleteInv` what a deletion knows of its file (whoever is about to delete an
object has written `deleted`, and an upload that was not met has come to its end),
`RemovedInv` that a deletion that met no upload is not overwritten,
`PublishedInv` that nothing is downloadable that was not published.

* `FileTypeCorrect`, `UploadedMeansDownloadable` and `FileDeletionIsFinal` are consequences;
  `NoObjectIsLeftBehind` is carried along as an invariant of its own.
* `ImplementsRegister`: `FilesSpec => RefinesRegister`. A step that leaves what can be
  downloaded alone stutters (`RegisterStutters`); one that takes a file away is a
  `Withdraw` (`RegisterLoses`), allowed because the file was asked for
  deletion or its upload has not been reported; only `CreateObject` and
  `CreateObjectError` publish.

## 6. Organizations and members

### Modules

| module | holds |
| --- | --- |
| `OrgMembership` | the creation of an organization and the requests to change it |
| `OrgProperties` | the properties, and the inductive invariant |
| `MCParts` | the instance for TLC, with the parts of section 8; `org_owner_is_kept` runs on `OrgProperties` |
| `OrgProofs` | the safety properties |

### State and actions against the code

One organization: `org` is its status, `role` the table `org_members` (a missing row
is `"none"`; nothing ever disables a member). `create` is the place of `Create`,
`at[q]` that of any other request, with its `target` and the role it `wanted`.

Every database call is a step, may fail, and may have taken effect when it fails. A
request begins with `Require`: the actor's role is read there and never again.
`RemoveMember` then reads its target (`GetMember`) and deletes the row by its key
(`Remove`); `InviteOrUpdateMember` overwrites the row (`UpsertMember`); `Rename` reads
the organization and writes it back with the status it read (`RenameOrg`). `CleanUp`
is the best-effort removal of an organization whose owner could not be enrolled. A
process may die between two steps.

Abstracted: names and plans; users, of whom no operation deletes any; lists, which
only read; the projects (section 8).
`lossy`, `demoted` and `out` are history variables.

### Runs

| run | constants | shows |
| --- | --- | --- |
| `parts` | 2 users, 2 requests | `OneOwner`, `NoOwnerlessOrg`, `RemovalSticks`, `OwnersAreNotRemoved` |
| `org_owner_is_kept` | 2 users, 1 request | a counterexample to `OwnerIsKept` |

There are no bounds but the sets: requests are repeated for ever and any number of calls
may fail. Two requests are all the pairs that overlap. With two users one of them is the
creator and the other one acts, or is acted upon, and either may act on themselves; an actor and
a target who are both not the creator need three, and are left to the theorems, which are for
any number. `CHECK_DEADLOCK FALSE`: an organization whose creation failed has nobody who could
do anything.

### What it found

* `OwnerIsKept`: `RemoveMember` protects the owner, `InviteOrUpdateMember` does not. Any
  admin can make the owner a viewer and then remove them; the role of owner is never
  given, so that nobody gets it back.
* `OwnersAreNotRemoved` holds although the check and the deletion are steps apart, for the
  reason that nobody becomes an owner after the creation (`OneOwner`).
* `RemovalSticks` exempts invitations that were under way: their sender's role was
  checked before, and may be gone.
* An organization whose creation was reported as failed may have an owner, and may
  be active again: an enrolment that failed after it took effect, and a rename that had read
  the row before the clean-up.

### What is proved

Five theorems, for any sets of users and requests, from one inductive invariant,
`OrgInv`. `CreateInv` says that before the enrolment nobody can do anything
(`Untouched`), and that afterwards the creator is the owner or was demoted;
`RequestInv` that an invitation under way gives no ownership and invites nobody who
is out, and that the target of a removal under way is no owner. `OrgTypeCorrect`,
`CreatorIsOnlyOwner`, `RemovalIsFinal` and `OrgHasOwner` are consequences;
`NoStepRemovesAnOwner` is shown with the preservation of the invariant.

## 7. Tools

### Modules

| module | holds |
| --- | --- |
| `ToolExec` | `Registry.Execute`: caller, goroutine, channel of capacity one, context |
| `Calculator` | the calculator: tokenizer, shunting-yard parser, evaluator |
| `WebFetch` | `web_fetch`: redirects, limits, what is flagged as cut |
| `KnowledgeSearch` | `knowledge_search` and `Service.Search` with its two statements |
| `Tools` | the composition: the goroutine takes the steps of the tool asked for; how much an execution has left to do |
| `MCTools` | the instances for TLC |
| `ToolsProofs` | each tool by itself, then all of them in `Registry.Execute` |

### State and actions against the code

`Execute` starts a goroutine and waits in a `select` for its answer or for the end of its
context, which is the tool's timeout or the request's cancellation (`ContextEnds`).
`TakeAnswer` and `Leave` are the two branches; when both are ready either is taken.
The goroutine sends into a channel of capacity one (`SendTo`). A panic is
turned into an error in the goroutine.

* The calculator reads its input character by character (`Tokenize`), with
  `prevIsValue` as in the code, parses token by token onto `opStack` and `rpn`, and
  evaluates. A value is the tree it was computed from, so that no arithmetic is
  needed to say that an expression was computed as it is meant.
  What a text means is said by a grammar: a **phrase** is a text with its tree and how
  strongly it binds (`Number`, `Grouped`, `Called`, `Joined`, `Signed`, `Plussed`), and `Joins`
  are the usual rules of precedence and associativity. A minus at the start or behind a
  parenthesis (`Signed`) negates the term behind it, which is what `0 - X` comes to there. A
  minus behind an operator belongs to the operand it stands before (`MeansSigned`): `2*-1` is
  `2*(-1)`, whatever the tokenizer makes of it. For the proof a phrase also says which tokens
  and which postfix form are to come of it; what it means does not depend on them.
  `CalculatorAssumption` asks of the constants that each member of `Phrases` is a phrase put
  together from others, and that each of `Inputs` means its tree, or, with no tree,
  nothing, being empty or of unmatched parentheses. `MCTools` writes texts and phrases from
  trees, separately, so that TLC compares the two when it evaluates the assumption.
* `WebFetch`: `Valid` and `MayFollow` are the checks of an address and of a redirect's
  target. Each check looks the host up by itself and is given any set of addresses (`ips`), so
  that two checks of one host may differ; `checks` is a history of those that were passed. The
  transport looks the host up once more to dial (`fetcher.go:111`): that lookup is outside of
  the model, and no property speaks of it. The body arrives in pieces of any size (`ReadSome`) and is read up to
  `ReadLimit`, one byte more than is kept.
* `KnowledgeSearch`: `Wanted` is the intersection of the bases the model asks for and
  those the request allows; with none wanted, `ListByProject` gives at most `ListLimit` (100 in
  the code) of the project's. `VectorQuery` and `KeywordQuery` are the two statements,
  between which bases may be deleted (`BaseDeleted`). The index of the first is approximate,
  and its rows are filtered after the scan (`004_knowledge.sql:79-80`): the statement returns any
  at most `TopK` of the visible chunks, by distance, and the threshold takes some of these out.
  The keyword statement returns any of its matches in any order (`Listings`).

Left out: what numbers compute to, the text of pages and chunks, `web_search` and
`current_time` but for how they may end.

### Runs

| run | bounds | shows |
| --- | --- | --- |
| `tools` | expressions of up to five nodes, with signs and parentheses added and taken away; two redirects, addresses looked up as any set of a public and a private one, a limit of five bytes, pages of up to seven; three chunks in two bases, lists of one base | `NothingStaysBehind`, `EvaluatesAsMeant`, `NothingCutSilently`, `ShortAnswerHasAllMatches` |
| `calculator_signs` | a minus behind an operator, operands of up to three nodes | a counterexample to `MinusNegatesItsOperand` |

Why the bounds are enough: five nodes hold two binary operators of every pair of
precedences on either side, a sign and a function around or inside them; seven
bytes are the limit, one and two more; with a limit of two, three chunks are one
more than fits, in either statement or both; a list of one base leaves one of the
project's two out. `CHECK_DEADLOCK FALSE`: an execution
comes to its end.

Fairness: weak fairness of `Work` and `Hand`, which is the scheduler running the caller
and the goroutine. No fairness of the timeout is needed: every tool
ends by itself or by the timeout of its own HTTP client or database.

### What it found

* `MinusNegatesItsOperand` fails: the tokenizer puts the `0` of `0 - X` in front of a minus
  wherever it stands, so that the operator before it takes the `0` for its operand. `2*-1` is
  computed as `(2*0)-1`, `2^-1` as `(2^0)-1` and `2--1` as `(2-0)-1`, although the comments
  (`calculator.go:14`, 100) say that the unary minus works. `EvaluatesAsMeant` is about all other
  expressions.
* For the same reason `2 3 +` is accepted.
* A request that was canceled is reported as `TOOL_TIMEOUT` (`ErrCode`): the registry
  words the end of its context alike in both cases.
* If the bases the model asks for and those the request allows have none in common, nothing is
  wanted and the search goes over the bases of the project (`Wanted`, `ChooseScope`), against
  the comment at `orchestrator.go:419-420`. `ShortAnswerHasAllMatches` says of that case only
  that this is what is searched.
* Because near chunks may be missing from any answer, the first statement promises nothing
  about completeness; what an answer of fewer than `TopK` chunks is sure to have is every
  keyword match.
* `MaxRedirects = n` allows `n` requests, that is `n - 1` redirects.
* The citations of `knowledge_search` are inside its `items`, where
  `extractCitations` does not look for them.

### What is proved

Seven theorems in `ToolsProofs`, for all values of the constants that satisfy the assumptions
named in the modules. All but the first two are about `Spec`, the tools in
`Registry.Execute`, and rest on one inductive invariant, `ToolsInv`: `ExecInv` for caller,
goroutine and channel, `EndedInv` (a goroutine that sends a result has a tool that is
done), and the invariants of the tools, `CalcInv`, `FetchInv` and `SearchInv`.

* `WhatIsCutIsFlagged`: `FetchSpec => []NothingCutSilently`. `FetchInv` says that a request goes
  out only with requests left and right behind a check of its own address (`Checked`), and that
  the flag is right wherever the answer stands. `FetchedPagesAreFlagged` says the same of `Spec`.
* `ShortAnswersHaveAllMatches`: `SearchSpec => []ShortAnswerHasAllMatches`. `SearchInv` says that
  whatever was found is in scope, once (`FoundSound`), that the scope is what was wanted
  (`Scoped`), and that behind the second statement no match is missing from a short answer. The
  limit of the keyword statement is the interesting case: when it comes back with fewer rows
  than `TopK` in total, its rows lie in the answer, so they are fewer than its limit, and so
  they are all its matches. `SearchesHaveAllMatches` says the same of `Spec`.
* `ComputedAsWritten`: `Spec => []EvaluatesAsMeant`, for texts and phrases of any length
  without a minus behind an operator.
  The argument is an induction over phrases, as a shortest counterexample
  (`PhraseInduction`; parts of a phrase are shorter than it). For the parser: wherever a phrase
  stands in the tokens, a run over it leaves the stack below untouched, puts the
  phrase's postfix form out but for operators it leaves on top, all of which bind at least as
  strongly as the phrase (`CompleteLeaves`, `Binding`), and the next operator or parenthesis
  takes those down (`OperatorTakesDown`, `ClosingTakesDown`), provided that the operator under
  the phrase does not go first (`Spared`). For the evaluator: a phrase's postfix
  form adds its tree to the values, and nothing else (`Computes`). For refusals: the stack
  holds one parenthesis for each that is open (`OpeningStep`), so that what is refused is
  not matched. `CalcInv` places the program in such a run: tokens read so far are those
  of the text read so far, stack and output are those of the parser's run at its place, and the
  values those of the evaluator's. Runs are functions from positions to
  configurations, which keeps the module free of recursive operators.
* `EachExecutionIsAnswered`: `Spec => [](AnswerIsTheTools /\ ChannelHoldsNobody)`. What `Execute`
  returns is a refusal, the end of its context or what the tool came to; a result is
  only ever that of finished work, the calculator's the value of what was written. The
  goroutine finds room for its answer whether or not the caller is still there, and a caller
  that waits finds the answer when the goroutine is done.
* `ExecutionsEnd`: `Spec => ExecutionAdvances /\ [](StepsLeft \in Nat)`. What is left to do
  is a number that every step of caller or goroutine lowers: a character of an expression is worth
  seven steps, a token three, an entry of the parser's stack two, one of the postfix form
  one; a fetch has its redirects and its unread bytes; a search its statements. Deletions of
  bases by other requests and the end of the context leave it as it is. TLC has checked the
  property on the instance of the run as well.

Only model-checked: `NothingStaysBehind`, which adds fairness to the last two theorems.

## 8. The smaller parts

### Modules

Each of these is a state machine that shares no state with the others. `MCParts`
puts them into one specification, of which `PartsInit` picks one
(`picked`); the others stay where they start. Files (section 5) and organizations (section 6)
are two more of them. The run `parts` is therefore the sum of
nine small runs, and its states, about 0.9 million, are theirs added up. `CHECK_DEADLOCK FALSE`: each part
comes to its end.

| module | code | state and steps | property |
| --- | --- | --- | --- |
| `IndexDocument` | `chunker.go`, `openai.go` (embedding), `service.go`, `knowledge_repo.go` | see section 4 | `ChunksCoverText`, `RowsAreWhole` |
| `ModelStream` | `openai_compat.go`, `callModel` | the request and its errors, chunks with the pieces of tool calls, the calls assembled from them | `CallsAsSent` |
| `Conversation` | `buildModelMessages`, `message_repo.go` | the rows of `messages` that overlapping responses write; the list and the texts each reads | `HistoryIsFaithful` |
| `RateLimit` | `ratelimit.go`, the order of the middlewares | Redis keys with value and expiry, the clock, requests between taking their window and being counted | `WindowsAreFair` |
| `Projects` | `project/service.go`, `project_repo.go` | rows; patches between reading a row and writing it back whole; creations, deletion | `PatchesSurvive` |
| `Paging` | lists of `knowledge_repo.go`, `trimPage` | the table, a client's walk with its cursor, rows added and deleted meanwhile | `PagesAreWhole` |
| `Accounts` | `auth/service.go`, `auth.go`, `tenant.go` | users, tokens with their expiry, memberships, requests between their lookup and their answer | `AccountsAreSound` |

### Bounds

* `ModelStream`: three calls of a turn with up to two pieces of arguments, sent by two
  kinds of provider: all calls in every chunk, or a piece per chunk and a
  call after the other. Three calls tell a number from a position on either side.
* `Conversation`: two responses, one after the other or overlapping, are four messages,
  of which three are loaded: the border falls into a response and between two. More
  responses, with any limit, are covered by the theorem below.
* `RateLimit`: three requests of two addresses, a limit of one, a minute of two ticks and
  a clock that goes one tick into the next: a request may be counted after its minute is
  over, and a key expire while others count.
* `Projects`: two patches of two fields and one creation: one patch between the
  reading and the writing of the other, or after it.
* `Paging`: four rows in three instants, pages of one and two: two rows of the same
  instant on one page, on a border, behind it.
* `Accounts`: two clients that want one address, one organization, tokens that
  live for an hour, a clock of one: tokens that are valid and tokens that have expired.

No fairness is assumed: all of this is safety.

| run | shows |
| --- | --- |
| `parts` | the eight invariants of the table, and the properties of sections 5 and 6 |
| `model_parallel_calls` | a counterexample to `PiecesByNumber` |
| `rate_user_limit` | a counterexample to `UserLimitHolds` |

### What it found

* `PiecesByNumber`: `Recv` numbers the calls of a chunk by their position in it and drops
  the index the provider gives them. A provider that sends the pieces of parallel
  calls one per chunk gets them all merged into the first call. `CallsAsSent` holds for
  a single call and for providers that list all calls in every chunk.
* `UserLimitHolds`: `RateLimit` is installed in front of `Auth`, so that there is no user in
  its context yet: users are never counted.
* `WindowsAreFair` leaves out requests that are counted after their minute has ended:
  the key of their window may have expired already, and starts again from zero.
* `HistoryIsFaithful` holds within the first `Limit` messages. `ListByConversation` loads
  the **oldest** ones: from the 51st on, a conversation goes on without the user's
  question. `docs/MVP需求与技术实现方案.md:559` wants the most recent dialogue kept.
* `PatchesSurvive` exempts patches that overlap: the later one writes back what
  the earlier one has changed.
* `PagesAreWhole` exempts rows created in the same instant: the cursor is
  `created_at` alone, and the next page begins behind all rows of that instant.
* `AccountsAreSound` lets a client be told that its own address is taken: an insertion
  that failed after it took effect. The account is there, and its password works.
* The comment at `openai_compat.go:221` says that a chunk that cannot be decoded does not
  end the stream; the `Recv` below it returns an error, which does (`RecvFails`).

### What is proved

`PartsProofs` proves the safety property of each part of this section, for all values of the
constants that satisfy the assumptions named in the modules (`IndexProofs`, section 4, does so
for `IndexDocument`). Each module states its own
inductive invariant, checked with TLC on the instances above before it was proved:

| theorem | states | from |
| --- | --- | --- |
| `PatchesAreKept` | `ProjectSpec => []PatchesSurvive` | `ProjectsInv`: names are unique among rows (`Named`), and a patch that has read the row knows which fields others have patched since (`CopiesTell`): those are the only ones its copy may hold an old value of |
| `CallsArePutTogether` | `StreamSpec => []CallsAsSent` | `StreamInv`: while chunks list all calls, or there is one call, what is put together equals what was sent so far (`InStep`) |
| `AnswersAreSound` | `AccountsSpec => []AccountsAreSound` | `AccountsInv`: one row per address, whoever was welcomed has their account (`WelcomedStay`), and each place of a request says what it has found out (`VisitSound`) |
| `ModelSeesHistory` | `ConvSpec => []HistoryIsFaithful` | `ConvInv`: while a response reads, what it has to show is shown or still listed, in order (`ReadsAll`), although others write |
| `LimitsAreKept` | `RateSpec => []WindowsAreFair` | `RateInv`: a key lives until its minute is over, counts at least the requests it let through and at most those that asked (`KeySound`); a refused one knows of as many others as the limit (`RequestSound`) |
| `PagesMissNothing` | `PagingSpec => []PagesAreWhole` | `PagingInv`: what was listed lies before the cursor, each row once (`InOrder`), and what lies before the cursor was listed (`NothingPassed`) |

Where the invariant counts (`KeySound`, pages), the proofs rest on lemmas about
the number of elements of finite sets: the set of requests that passed, of rows behind a
cursor, of rows listed once.

`PartsProofs` proves the parts each by itself. `MCParts` puts several of them into one
specification of which one runs at a time; the actions and invariants are the same.

## 9. Not modelled

* Tracing: spans, on which nothing depends.
* The text that the parsers extract from PDF, DOCX, HTML and spreadsheets, and the
  ranking of PostgreSQL's full-text search and of `pgvector`: text and numbers, whose
  outcome is a parameter (`Documents`, `Corpora`).
* The arithmetic of the calculator: floating-point numbers.
* `web_search` and `current_time`: one request to an external service, one formatted
  clock; neither keeps anything.
* The mock providers, and the choice of a provider at the start of the process.
* Titles of conversations, and the check of who may continue one; password hashing
  and the signatures of tokens, which are library calls.
* Usage and audit rows outside of a response, which nothing reads.
* Wiring, migrations and the reading of the configuration, but for the order of the
  middlewares and the unique indices the models rely on.
