# A TLA+ model of the core solution services (GENIE)

The repository is a set of FastAPI microservices over one Firestore database
(accessed through FireO models, `components/common/src/common/models`), with
Kubernetes jobs for long work, Cloud Storage for documents, a vector store
(Vertex Matching Engine or PGVector) for retrieval and language models behind
HTTP.  There are no transactions anywhere: every handler reads documents, works
on the copies, often across awaits or calls to other services, and writes whole
documents back.  What can go wrong, and what a unit test with a mocked Firestore
hardly reaches, is therefore nearly always of one kind: two pieces of state that
must agree are written by separate calls, and somebody else, or a failure, comes
between them.  The modules here follow that line.

Paths below are relative to `src/`; `c/` stands for `components/`.

## 1. Inventory

| part | state | operations | hard | must hold |
|---|---|---|---|---|
| batch jobs: `c/common/.../utils/batch_jobs.py`, `kf_job_app.py`, `c/llm_service/src/run_batch_job.py`, `c/jobs_service` | one `batch_jobs` document and one Kubernetes job per uuid | launch; pod run; PUT (remove, mark aborted); DELETE | launcher, pod and clients write the same document; pods are killed; replies are lost | an outcome reported is true, and stays |
| query engine build: `query_service.py`, `query_ranking.py`, `vector_store.py`, `data_source.py` | engines, documents, chunks (Firestore); rows (vector store) | build, index a document, delete, rename, clean up after failure | three stores agree by convention only; builds run side by side; every call may fail | every index resolves to the chunk embedded under it |
| web scraping: `c/webscraper/main.go`, `web_datasource_job.py`, `web_datasource.py` | job document, bucket, in-memory list of scraped documents | start, poll, time out, crawl, report, download | goroutines share a list; the builder polls a document it did not write | success means complete, a file holds the page it names |
| users, groups, permissions, applications: `c/user_management` | each relation stored in the lists of two documents | create, update, add, remove, activate, delete | both sides written one by one, failure between them | the sides agree |
| chat: `c/llm_service/src/routes/chat.py`, `models/llm.py` | one document with the whole history | generate, stream, summarise, PUT, DELETE | the copy is read before awaits and saved whole after them | an answer stands where it belongs |
| queries: `routes/query.py`, `query_service.py` (`query_generate`, `retrieve_references`, ranking) | `user_queries`, results, references | ask, continue, rate | as chat; references from the index | references resolve, history in order |
| vector stores: `vector_store.py` | index directories, deployed endpoints, PGVector tables | index, deploy, search, delete | batches of embeddings uploaded by directory | every batch reaches the index |
| embeddings: `embeddings.py` | none | split into batches, embed each in a thread, put together | a batch may come back with gaps | one vector per chunk, in order, or the document is reported |
| data sources: `data_source.py`, `sharepoint_datasource.py`, `gcs_helper.py` | temporary directories, buckets | list, download, convert | base names clash | a path holds the file it was read for |
| Vertex search: `vertex_search.py` | Discovery Engine data stores, documents | build, import, search, delete | long-running operations; a search creates documents it does not find | one document per link, no orphan data store |
| language models: `llm_generate.py`, `model_config.py`, `langchain_service.py` | configuration, secrets | generate, stream, choose a model | context length, providers differ | a request reaches the model asked for |
| agents: `agent_service.py`, `routing_agent.py`, `agents.py`, `agent_tools.py`, `db_agent.py` | plans and plan steps, tools; the chats they write to | run, dispatch, at once or in a batch job, plan, execute | the job reads the chat a second time, later; plan and steps saved one by one | an answer stands where it belongs; a plan lists its steps |
| authentication: `c/authentication`, `common/utils/auth_service.py`, `cache_service.py` | token cache (Redis), Firebase | sign in, sign up, validate, refresh | cached tokens outlive revocation | an inactive user is refused |
| association groups, staff, sessions, user events, Inspace: `c/user_management` | further documents of the same database | CRUD | two writes per creation | uuid present |
| rules engine: `c/rules_engine` | rules, rule sets | CRUD, import, evaluate | - | evaluation follows the stored rules |
| tools service: `c/tools_service` | none | e-mail, sheets, database lookup | external APIs | - |
| new frontend: `c/frontend_newreact/webapp` | the page's list of engines, the selector's list | load, poll, delete, offer sources | two services' answers of different moments; requests overtake each other | rows settle on what is true; nothing unfinished is offered |
| other frontends: `c/frontend_react` and the rest of `c/frontend_newreact` | browser state | chat, query, job polling | views of single answers | - |
| metrics, logging, middleware: `common/monitoring` | counters | observe | - | - |
| deployment: `terraform`, `ingress`, `setup`, `utils`, `tools`, `c/redis`, `c/common_ml`, `experimental` | - | - | - | - |

How they interact.  The llm service and the jobs service call
`kube_create_job` (a library in `common`), which starts a pod running
`run_batch_job.py` or the scraper's binary; both report through the job document.
A build reads documents from a data source, has them embedded, and writes
Firestore and the vector store; a search reads the vector store by the engine's
*name* and Firestore by its *id*.  Chat and query handlers call search and the
language models while they hold a copy of the chat.  Every service asks
authentication to validate a token, which consults Redis, Firebase and the users
of user management.

The two views of the new frontend that combine answers (the Sources page and the
source selector) ask the llm service for engines and the jobs service for builds,
and nothing keeps those two consistent.

`PROJECT.json` lists these parts with what is modelled, and under "hazards"
every place where the code is exposed, with the properties that guard it or the
reason why none does.

## 2. Modules

`X.tla` is a component, `MCX.tla` and `MCX_run.cfg` instantiate it for TLC,
`XProofs.tla` holds its theorems.  Definitions marked `(mutant)` are plausible
bugs, used by `PROJECT.json` to show that a property can fail; no specification
uses them.

Common assumptions, on code that is not in the repository: FireO's `save()` writes
the whole document, `save(merge=True)` creates it or updates every field the copy
has, `update()` writes the fields read and fails if the document is gone (fireo
1.7.0 with `ignore_none_field = False`); a single Firestore write is atomic; the pod
of a deleted job runs on until its grace period ends; a job has no retries
(kf_job_app.py:226) and expires a day after it finished (:228); colly's check of
visited pages is atomic.

### BatchJobs

One document, one Kubernetes job, one launch and one pod per uuid; any number of
clients of the jobs service.  One action per call to Firestore or Kubernetes:
`SavePending, SaveInput, CreateKubeJob, SaveActive` are `kube_create_job`,
`LaunchRaises`/`LauncherDies` its except branch and its death; `PodStarts ...
PodReports` are `run_batch_job.main`, the handler reduced to whether it ended
and how it stores its result (`MergeJobs`); `PutFinds, PutRemovesJob, PutUpdates`
and `DeleteModel` are the jobs service.  `CONSTANT Faults` selects the failures.

*Interesting interleaving:* `SaveActive` is a full overwrite with the
launcher's copy after the pod exists, so it may erase an outcome and a result.
`OnlyTheseReopen` and `ResultsKept` say exactly which steps do that.

### EngineBuild

`query_engine_build` and what it calls (`build_doc_index`, `process_documents`,
`index_document`), the clean-up of a failed build, `delete_engine` and
`update_query_engine`, over three stores: Firestore documents with index ranges,
Firestore chunks, and vector rows, a collection per engine *name*.  A build is a
program counter with the file, the index base and the number of saved chunks;
two builds and a client interleave at every store call.  Local files are modelled
by what a path of the temporary directory holds, so that files of one base name
overwrite one another as they do in the code.

`index_document` may raise when its rows are already committed (`LoseAnswer`,
vector_store.py:507): the file is noted as not processed, the index base stays, and
the next file takes the same indexes.  A deletion is five calls: documents, chunks,
references, results, engine, by a client (`Delete...`) or by the clean-up of a build
(`Fail...`); the two in the middle change nothing here and are given their effect
by UserQueries.  `Download` writes the engine back, which fails if its document is
gone but succeeds if it is only marked deleted, so that a build may go on either way.

### WebScrape

The build (`WebDataSourceJob`) and the scraper it starts (`main.go`), one action
per handler step of each page: request, store, read the shared list, append to
it, follow links.  `Kind` is the content type, `Links` the site, `Limit` the size
of a Firestore document after which results are truncated.  Pages that are not of
the site's domain are not in `Pages`.

A page of `Pages` is a URL that is requested, and `Final[p]` is where that request
ends: the crawler stores and lists the response under the last URL of a redirect
(main.go:272, 295), so that two requests can list one page and write one file.
The crawler process does not: Scrapy's middleware asks for the new URL as a request
of its own, which its filter of duplicates drops (`Redirected`).  A launch may fail
before or after the Kubernetes job exists (`LaunchFails`): the document is deleted,
the scraper, if there is one, runs without it.  A bucket that cannot be emptied may
have been emptied in part (`InitializeBucketFails`).

A build may get its pages another way (`way`): Vertex search engines, a
`depth_limit` of 0 and a URL given to a chat use `WebDataSource`, which runs a
Scrapy crawler in a process of its own, joins it and only then reads its list from
a queue.  The crawler has one thread, so that saving a page, listing it and
following its links is one action (`Parse`); it starts one level below the URL
(`StartRequests`: a `CrawlSpider` only follows the links of its first page) and
may be closed by a time limit.  `Pipe` is how many documents the queue's pipe holds:
a process with more to put never exits, which its builder waits for (`Hung`).

### AccessControl

The requests of `user_management` that touch a relation, each as its sequence of
single-document writes: `req.first` and `req.then` hold the pending writes of the
handler's loops, in any order (the code's order is that of a list), then the last
write of the handler's own document.  `CutShort` ends a request between two
writes, as a call that raises does; `torn` remembers the documents concerned.
The existence of immutable and predefined groups, the types of users and the
actions of permissions are there because the code branches on them.  Requests
are served one at a time, and lists are sets.

### ChatHistory

One chat and the requests on it.  Every request has its copy `mem[r]`, read once by
`Read`; each save stores the copy whole.  `seen[r]` is what the model was given;
`alone` is a history variable: no request has read the chat while another was under
way.  Agents write to chats as well: a run with a chat's history (`SaveOutput`,
`SaveAgentTurn`), a dispatch that saves the prompt, the route and the answer
(`SavePrompt` to `Reply`, each followed by the second save of `SaveAgain`), whose
batch job reads the chat anew and notes itself (`PickUp`, `NoteJob`), and the
execution of a plan.  An entry is a tag and its request.  A run in which the second
save of an agent's output fails is `Fail` at "ran".  A stream that has not been
started by the server (`Fail` at "asked") leaves nothing; one that has been, ends in
`EndStream` whatever happens. Tools do not use the history; for them `seen` is what
they would have been given.

### UserQueries (composes with EngineBuild)

Queries on the engines that EngineBuild builds, renames and deletes.  A request
reads the engine (`Ask`) or the query it continues (`AskAgain`) once, searches the
vector store under the *name* it read (`Search`), looks each match up among the
chunks of the *id* (`LookUp`, which saves the reference at once), asks the model,
saves a result (`SaveResult`), then creates a query and saves its history
(`CreateQuery`, `FillQuery`: two saves).  `EngineStep` is any step of EngineBuild;
the steps of `delete_engine` at the references and at the results, of a client or of
a failed build, remove them, each in a step of its own.  Between the first of them
and the last, the engine and its results are there and the references are not
(`BeingRemoved`); for a build that died there, they stay so.  What the code does and a
reader might not expect: a continuation saves its copy of the query twice, and
`update_user_query`, called without the query, then creates a second one;
the answer is inserted *before the last entry* of the history, whatever that is; a
batch query can never run, because `batch_query_generate` passes its arguments one
place too far to the left.  `early` is a history variable: queries read between
the two saves of their creation.

### AbstractIndex, VectorIndex

`AbstractIndex` is what the build of an engine may rely on of a store, whichever
it is: each chunk gets its own index, counted on; a document is in the store or it
is not; a search finds nothing but what was stored.  Two exceptions are part of
the promise because the code makes them: a document longer than one round
(`Process`) may be there in part, and a call whose answer is lost leaves entries
(`Orphan`).  `VectorIndex` is the build as far as it fills and publishes the
store, for PGVector and for Matching Engine: batches of chunks embedded by threads
that end in any order (`BatchEnds`), results put together (`Numbered`), rows added
in one call, or rounds written to directories, the last one uploaded, then index,
endpoint and deployment.  `Index == INSTANCE AbstractIndex WITH ...` maps rows or
bucket to `stored`, `index_base` to `next`, the query documents to `accepted` and
what a search can return to `searchable`; `ImplementsIndex` is checked and proved.

The store takes a document in one call (`AddRows`, `Upload`) and the build records it
in a later one (`Record`).  In between its rows can be found and belong to no document
on record, and if the save fails the build ends and they stay (`FailBuild`); an
engine is removed in steps, its documents first and itself last (`DropDocuments`,
`DropEngine`), while its rows can still be searched.  "Accepted" is therefore said of
a document that has been recorded, after `index_document` returned.  EngineBuild
keeps its own, coarser store of PGVector's kind, in which the rows of a document arrive
in one step, as they do here whatever threads and batches come before.

### SourcesPage (composes with BatchJobs)

Every job of BatchJobs is the build of one engine, and what the views know of this
is the name.  A job keeps the name as it was typed (`asked`: AddSource.tsx:259,
query.py:506), the build strips it (`Strip`, query_service.py:859), and a client may
rename the engine (`RenameSource`, query.py:396): `called` is what the engine goes by,
and both views join engines with jobs by comparing `called` with `asked`.
`BuildSteps`, `BuildFaults` and `BuildRaises` conjoin BatchJobs' actions with what
they do to the engine's document, all of its faults and the expiry of finished
Kubernetes jobs included; `PutSteps` and `JobDeleted` are the clients that stop a job
or delete its document while the build runs on (`stopped` remembers them).
`calls` fixes at the start which kinds of requests clients make in a behaviour,
`screen` which view is open: parameters, through which the theorems hold for all
of them at once and a run can take them apart.

The page's loads (`EnginesAnswered` and `JobsAnswered` in either order, then
`LoadEnds`), its polls and the selector's two requests (`SelectorLoads`) are actions of
their own.  The page's effect
runs once per mount, so the list `updateJobStatuses` looks finished jobs up in is
the empty one of the first rendering: it never calls `loadSources`
(Sources.tsx), and a failed build's row is corrected by the next load only.
The list of jobs fails as a whole while one document has no `input_data` to parse
(`JobsListed`).  Removal and renaming are by whoever has a page open, this one or
another.

### VertexSearch

Engines of the Vertex search type.  Discovery Engine's data stores and search
engines are kept by id, with who created them; ids come from names
(`datastore_id_from_engine`) and two names can give one.  A build creates the store,
imports, creates the search engine, saves `index_id` and one document model per
file; a failed build and a client each run `delete_engine` (`removal`, one counter
per engine and caller).  A taken id is refused by the call or by the operation it
starts.  `wait_for_operation` (vertex_search.py:446-452) asks for the result, and so
for the error, of an operation only if it is not done yet: a creation that has
failed by then goes unseen (`CreationFailsUnseen`, remembered in `unseen`).  The
build then imports into whatever data store has the id, an earlier engine's perhaps,
or fails at the import if none has; or it returns without its search engine.
`DeleteVertexSearch` changes nothing: it asks for both assets under names the
service does not know them by, and swallows the refusal.  A query saves documents it
does not find.

## 3. Runs

| run | checks | instance and why it is enough |
|---|---|---|
| `jobs_races` | `TypeOK`, `SucceededWasHandled`, `AbortedIsRemoved`, `OnlyTheseReopen`, `ResultsKept` | a job of either kind of handler, one PUT that may be repeated, DELETE, every fault.  Jobs share nothing, so a second one of a kind adds no interleaving; a second PUT finds what a repeated one finds |
| `jobs_tracked` | `TrackedJobEnds` fails | one job, no fault at all |
| `engine_faults` | `TypeOK`, `ChunkPerIndex`, `FailedLeavesNothing`, `EveryFileReported`, `SearchSound` | two builds of one name, three files each, of 0, 1 and 2 chunks, two of which share a local path; a client deleting and renaming; every fault.  `SearchSound` speaks of an engine that alone has used its name: here the build that found the name free, after the other was refused or before it began; it excepts rows of files reported as not processed (`Leftover`), and shows there are no other |
| `queries` | `QueriesTypeOK`, `ReferencesGrounded`, `TurnsTogether`, `FirstTurnKept`, `ShownCoverUsed`, `ResultsResolve` | two engines of different names, built, one with answers of the vector store lost, and deleted by one client; two requests of any kind, so that one can continue the other or both a third's turn; one PUT, DELETE |
| `index` | `FoundResolve`, `ImplementsIndex` | both stores; documents of 5, 3 and 1 chunks, rounds of 4, batches of 2: two rounds of which the first has two batches, a document of two batches in one round, one of a single item; searches between the commit of the rows and the record of the document; every fault, that of the record included |
| `index_chunks` | `EachChunkIndexed` fails | a document of two rounds, Matching Engine, no fault |
| `scrape_crawl` | `TypeOK`, `CrawlSound`, `SuccessIsFinal`, `LoadedIsItsPage`, `TreeCrawlComplete`, `BuildEnds` | a site with cycles, a PDF, an image and two pages whose URLs differ in a character that file names do not keep, and a tree one link deeper than the limit; one request on each that ends at another page, which is linked as well; the scraper job or a crawler process, with and without a depth; a launch that fails at each of its calls; two documents fit into a result, and into a pipe; every fault |
| `scrape_lost` | `EveryStoredPageListed` fails | no fault, all fits |
| `access_requests` | `TypeOK`, `ListedAreMembers`, `GrantsMutual`, `GrantsWithinApplications`, `ImmutableHoldsItsType` | three initial worlds: users and groups; groups, permissions and applications; one of each.  Two groups, one of them immutable and of one user's type; two permissions of one application, one of another; one request cut short anywhere |
| `chat_overlap` | `TypeOK`, `AnsweredInContext`, `EntriesOnce`, `ServedAreKept` | a whole answer, a streamed one and a summary; an answer and an agent's run; a dispatch and one in batch mode with its job; a run and the execution of a plan; each with one PUT and one DELETE, in every order.  What the parts of `Together` leave out are more requests of the same shape: a save overwrites, whoever's it is |
| `sources_page` | `OfferedIsBuilt`, `SettledJobEnds`, `PageConverges` | one build whose name is typed with or without a blank behind it; a load and a poll that overtake each other, or the selector; clients that stop the job, or that delete its document and its engine, or that rename the engine; every fault of BatchJobs (a lost reply leaves what a failed last save leaves).  Rows of different engines touch each other through a job list that fails as a whole, which one job without input shows, and through names they share, which `PageConverges` excepts; more loads at once are in `RowsSound` |
| `vertex_build` | `TypeOK`, `OwnStore`, `FinishedIsComplete`, `ReferencesResolve` | two engines whose names give one id, two files of which one is common, both deletions, one query, calls that raise before or after they took effect, creations that fail unseen, partial imports |

Bounds: documents, clients, builders and requests are the finite constants of the
cfg; `MaxTorn` bounds the requests cut short, `MaxPuts` the PUTs on a chat,
`Together` the requests that are made in one behaviour; `MayEdit` allows one PUT of
a query and DELETEs up to its end; `Limit`, `Depth`, `Process`, `Items`,
`NumMatches` and `MinReferences` are parameters of the code.  No counter of the code
is cut off: index bases are bounded by the listings.

`queries` has two state constraints.  `OneDisturbance`: at most one engine is deleted,
and no behaviour has two of a deletion, an edit of a query and a file passed over, which
write no common document.  `OneBuild`: the build of one file, which loses no answer, is
over before that of two begins, for what builds do to each other is in `engine_faults`,
and names differ here.  The run uses symmetry over the requests, which no action or
property tells apart, and checks invariants only.

`vertex_build` has `TwoDisturbances`: of creations that fail unseen
and deletions by clients together at most two, for the sake of the run's time.
`UserQueriesProofs` and `VertexSearchProofs` have none of these bounds.

Deadlock is not checked: in every model each job, build or request runs once and
then nothing is left to do.

The type invariants of `VectorIndex` and `SourcesPage` are proved and not run.

### Fairness

`jobs_tracked` assumes that a launcher that has begun its call goes on (a thread of
an API process that is not killed), that Kubernetes schedules the pod of an active
job and that a pod that runs goes on.  Neither clients nor faults are ever forced to
happen.  `sources_page` assumes the same of a build (`Goes`), and that the timers of
a page that stays open fire and its requests are answered, with an error perhaps
(`PageFairness`); nobody need open the selector or delete anything.  `scrape_crawl`
assumes that the build's thread and the scraper's goroutines go on and that the
build's patience, a timer (`web_datasource_job.py`), ends; `BuildEnds` excepts the
two states of a crawler process for which the builder has no timer (`Hung`).  These
are the guarantees of the operating system, the browser and Kubernetes; all fairness
is weak, for no lock or queue of the code needs more.

`SettledJobEnds` starts from a launch that has returned before its pod started, with
clients that stop the job and delete its document, and excepts two jobs whose document
stays active for good: one whose pod is killed, and one whose Kubernetes job is
removed before it has a pod and whose PUT then fails to say so.  Nothing
in the code compares documents with Kubernetes.  `PageConverges` excepts a job list
that fails for good, see below.

### What the failing runs show

- `jobs_tracked`: "Please use the job_name to track the job status"
  (`batch_jobs.py`) - but the launcher's last `save()` (kf_job_app.py:391) writes
  `active` over the outcome a fast pod has already stored; the job is then
  reported active for ever.
- `index_chunks`: "each chunk gets its own index" (vector_store.py:91) - but a new
  temporary directory is made in every round (:254) and only the last is uploaded
  (:301); of a document of more than one round all earlier chunks are recorded in
  Firestore and never reach the index.
- `scrape_lost`: two handlers append to `scrapedDocs` without a lock; a page is
  in the bucket and missing from the result.

## 4. Theorems

Proved with TLAPS for all values of the constants, under the `ASSUME`s of the
modules (types of the constants; TLC evaluates them on every run).

**SourcesPageProofs, on jobs.** The properties of BatchJobs speak of documents, and
each of them is broken by some step from a state where it holds: nothing in it stops
a pod at "succeed" whose handler never ran.  `IInv` adds where the parties stand:
`LaunchInv` (the Kubernetes job exists exactly from the launcher's third call on,
and until then the document is at most pending), `PodInv` (a pod past its handler is
in `handled`; before it has stored its result the document has none) and `PutInv` (a
PUT past its second call has seen the Kubernetes job go).  From it: `TypeCorrect`,
`SucceededSound`, `AbortedSound`, and two action properties: `ReopenSound`, only two
writes take an outcome back, and `ResultsSound`, a stored result is lost only with
its document or to the launcher's save. `StuckSound` says what the loss shown by
`jobs_tracked` is at most: a pod that has exited leaves its document finished, or
exactly as the launcher's last save wrote it.  `SettledSound` is the other side:
where the launcher was the faster, the document of a pod that has exited tells its
outcome, whatever clients did since.

**EngineBuildProofs.** `RangesSound`, `IndexSound` and `FailureSound` rest on an
invariant per build, `BuildInv`: all documents of the build end at or below its
index base (`DocsBelow`); all its chunks lie below what it has saved
(`ChunksBelow`), where "saved" counts from the start of the document in progress;
a build in its loop has a file and a text (`InLoop`); a build in its clean-up has
already removed what its step says (`CleanedUp`).  It is per build because a
build writes its own engine's documents only; clients only remove them.

`ReportSound` and `SearchingSound` are about engines that stay, and rest on
`KeptInv`: the files a build has passed are indexed or reported (`Accounted`), and
the rows under its name are those of its chunks, of the chunks whose embeddings
are stored and which it has still to save, and those a lost answer has left of files it
reported (`RowsAgree`), as long as it is the only one that used the name.  A left row
has an index that a later document may take: `SearchSound` says of it only that its
text is of such a file.  `RequestInv` is where `NoComeback` is needed: what a
client holds to rename is an engine that stands, or one whose build failed.
`DeletionSound` is of a DELETE that finds its engine built: when the engine is gone,
so are its documents and chunks (`CleanlyGoing`, which follows the five calls of
every client on that engine).  What a DELETE leaves behind, see 5., it therefore
leaves of engines whose build is still under way.

**ChatHistoryProofs.** `ContextSound` and `OnceSound`, for any number of requests of
any kind.  A save stores a copy made long before, so the invariant is claimed of the
stored history and of every copy in flight (`Good`).  It becomes inductive with
`Later`, what a request at each step cannot have added to anybody's copy yet,
`AskedWithCopy`, an asked request still holds the history its model was given, and
`EndingInv`, the copy of a dispatch, or of its job, ends with the entry the next one
must stand behind.  The lemmas `PrefixGood` and `ExtendGood` carry it over a PUT
that takes entries off and over the saves.  `ServedSound`, of requests that do not
overlap, adds `CalmInv`: at most one request is under way, its copy is the stored
history, and every prompt served is in it.

**VectorIndexProofs.** `Refinement` is that both kinds of store implement
`AbstractIndex` for any documents, batch and round sizes, order of the threads and
faults.  The arithmetic is in `NumberedRound`: however a round is cut into batches,
the vectors put together are exactly chunks `first + 1 .. first + Taken`, numbered
from `base + first`.  `DocumentInv` (where a round stands), `FilesInv` (the
directory holds chunks of the current document, and all of them when one round takes
it) and `DeployInv` (what index and endpoint imply) are what a step has to know to
be an abstract one.  `ResolveSound` is then proved of the abstract index (`Apart`,
accepted documents' ranges do not meet; `Known`, what is stored belongs to one of
them or to the document the build is about to record) and carried over.  It claims
nothing once entries have been left behind, by a lost answer, by a document that
could not be recorded or by the deletion of the engine.  What a store keeps of a
recorded document is said exactly: the vectors of its last round (`StoredSound`),
which a search finds once the index is deployed (`FoundSound`).  The invariant
follows a document's rounds (`LastRoundStored`, `RoundsInv`): what the round in hand
overwrites is what the rounds before it left.  It is the loss that `index_chunks`
exhibits, and all that is lost; a document of one round is whole, and so is every
document of PGVector, which takes no rounds (`WholeSound`).

**SourcesPageProofs, on the page.** `StepsAreJobs`: every step of the composition is
a step of BatchJobs or leaves its variables alone; hence `PageImplementsJobs`, and
the theorems on jobs hold of the page's builds.  `OfferedSound`, for any number of
builds, names and loads, rests on `BuildOK` (an engine that is being built has a pod
in its handler, or one that was killed there, and a document that says active,
unless its launch raised or a client stopped it) and `SelectorInv` (the selector
knows only engines that have been saved, none of which will ever begin to be built).
It is of an engine that goes by the name its job has: that name is then active when
the jobs are asked for, and filters it. `RowsSound`, an action property, is about
answers that arrive late: a row that shows a success, or is gone with its engine,
can only be made wrong by an answer that was given before that was so and is still
on its way.

**VertexSearchProofs.** `OwnStoreSound`, for any number of engines, ids and queries:
`HoldersOwn` (a build past its creation owns the store of its id, unless that
creation failed unseen), `IndexOwn` (an engine with an `index_id` has its own id
there, and created the store of it or did not see that creation fail), `FilesOwn` (a
store holds files of the sources of such engines only) and `QueryOK`, the types of a
query under way.
`FinishedSound` rests on `BuildOwes`, a build that has gone past its search engine
owns it or did not see its creation fail, and owes each file a document or has it
still to do; `ReferencesSound` on `RefsInv`, which follows a document from the query
that found it to the reference that names it, as long as no deletion has got past
the documents.

**UserQueriesProofs.** `QueriesKeepBuilds`: the composition implements EngineBuild,
so that `TypeCorrect` and the other theorems of EngineBuildProofs hold while queries
run.  `TurnsSound`, for any number of requests and overlapping continuations, is not
inductive over stored histories: the invariant claims `InTurns` of every copy that
will be built upon (a request's before the model is asked, the PUT's), and
`CallFits` says what makes "before the last entry" the right place for the answer: a
request whose model is being asked holds a history in turns followed by exactly its
own prompt and references.  The sequence lemmas `PromptAppended`, `AnswerInserted`
and `KeepsTurns` carry it over the three writes. `ResultsSound` rests on
`EnginesStayGone` (an engine once created and deleted does not come back) and on
`Kept`, claimed of every result and of what every request holds: references are of
one engine, and saved as long as that engine exists and no deletion has reached its
references (`BeingRemoved`). `GroundedSound` needs the rows of a build in progress:
`TextInv` says that rows lie below the index base, are of the document in hand or of
a file reported as not processed (`Leftover`), and that of all but the last a row
and a chunk of one index have one text, also while the engine is deleted.
`FirstTurnSound` claims of every copy still to be stored what it wants of the stored
history (`CopyOpens`): whoever read a query before its first turn was saved is in
`early`, and all other copies begin with it.  `ReferencesShown` needs only the set
of a history's entries: an entry of references covers what its request has found
from then on (`Covers`), since a prompt too long only drops some, and therefore the
result it saves; a copy read earlier by somebody else stays covered, for the request
it shows has long stopped retrieving.  That the query of an answer shows exactly
what its result lists (`Exact`) holds of all copies but those in `early`, by
`FirstInv`.

**WebScrapeProofs.** `CrawlCorrect`, `SuccessSound` and `LoadedSound`, for any
sites, builds, buckets and faults.  `Crawled` says what a handler may have left to
do: links of its own page only, and only above the maximum depth; the depth of a page
is written once, when it is first requested.  `StoredInv` says of every page in a
bucket, and of every page read, that a scrape into that bucket requested it and
that it goes by the name it lies under.  The crawler process keeps the same
invariant: it requests what it extracts, which is linked, and stores what it
requested.  `TreeCorrect` states `TreeCrawlComplete`: `Followed` says that a page whose
handler is done has had each of its links requested, unless it lies at the maximum
depth; the induction over the distance from the start is a least counterexample, which
the library's theorem on well-founded orders supplies, and the recursive function
`Near` is shown to exist by building its iterates (`Iteration`).

`HandInv` follows the list of documents: no request is in it twice, and each has been
handled (`Listing`); what a build reads is what its scrape reported, in that order
(`Reads`); a crawler process, one thread, has listed all it is done with
(`OneThread`); and of a bucket that no other build uses, all that is listed lies in it
(`StoredHeld`).  Hence no request's document is downloaded twice or left out, and one
page is downloaded twice only where two requests of the scraper job ended there, never
by a crawler process, whose redirects are filtered (`LoadedOnceSound`);
one is missing only where two builds share a bucket (`MissingSound`); a crawler
process hands over the page where each of its requests ended (`CrawlerSound`).
`OutcomeSound` is of the job's document: an outcome once reported is taken back only by
the launcher's last write, by a scrape that goes on after a failure, or with the
document, when the launch fails.  `WorkSound` bounds a scrape
by the pages and links there are: each of its steps takes a page to its next stage or
uses up one of its links, and no step gives either back, whatever cycles the links
make and however the handlers are interleaved (`MoveUses`, `SteppedLess`).

**AccessControlProofs.** All of AccessControl's properties, for any number of
documents and of requests cut short.  While a request is served the two sides of
its relation differ, by what it still has to write: the invariants claim nothing
of the request's own document (`Moving`, `Regranting`) except what its plan says
of the writes left - `MembersPlan`, `GroupsPlan`, `DeletePlan` for memberships,
`GrantsPlan`, `DeletePermissionPlan`, `DeleteApplicationPlan` for grants.  A
request cut short then leaves its document out for good and loses nothing that
was claimed of the others.  Memberships (`MembershipInv`) and grants (`GrantInv`)
are proved apart, for they share no list; `FormInv` is what both know of a
request.  `GrantsSound` and `WithinSound` need one another: removing an
application finds the groups through its permissions and takes its permissions
only from groups that list it, which is all of them because no group has a
permission for an application it does not list.
`ToldSound` is the converse of `ListedAreMembers`, of one user: a group lists only
users that exist and list it, as long as no PUT is called on that user while
inactive, see 5.  It needs no more than that (`ToldInv`, with `TellMember`,
`TellGroups` and `LeaveAll` for the writes left), so that this handler is the only
one of them to separate the two sides.

Only model-checked: liveness (`SettledJobEnds`, `BuildEnds`, `PageConverges`), which is
out of the prover's reach.  A safety half of each is proved: what `SettledJobEnds`
promises has happened whenever the pod is gone (`SettledSound`), a row that
`PageConverges` has brought about stays (`RowsSound`), and the scrape that `BuildEnds`
waits for has only so many steps to take (`WorkSound`).  No module declares a
RECURSIVE operator.

## 5. Disagreements met and not run

Read in the code while modelling; the models contain the behaviour where they
contain the part, and no property claims its opposite.

- batch_jobs.py:135 - a PUT on a *pending* job deletes the Kubernetes job and
  leaves the document pending.
- jobs.py:80 (jobs service) - one document without `input_data`, left by a
  launcher that died before its second save, makes the list of jobs of its type
  fail for everybody until the document is deleted.
- query_service.py:1106 - a build still under way saves documents and chunks of an
  engine that was deleted meanwhile; :863 - two builds of one name both pass the
  check of names; query.py:396 - renaming an engine cuts it off from its rows, which
  stay under the old name, and a PUT that read an engine before its DELETE writes it
  back without its documents (hence `NoComeback` in `EveryFileReported` and
  `SearchSound`); query_service.py:1093-1097 with vector_store.py:507 - rows whose
  answer was lost keep the indexes that the next document takes, so that a search
  that hits one is answered with a chunk of another document (`Leftover`);
  :1349-1358 - while an engine is deleted its results are there without their
  references; :1334, vector_store.py:399 - the rows of a deleted engine stay in
  PGVector, whose `delete()` raises.
- data_source.py:153 - documents with one base name overwrite one another in the
  temporary directory, and the later is indexed under both URLs.
- query_service.py:202 - "insert the response before the just added references":
  with no references the answer stands before its own prompt;
  `batch_query_generate` passes its arguments shifted by one, so that every batch
  query fails; a continuation creates a second query beside the one it continues;
  :400 - for the children of an integrated engine the query filter is passed in
  the place of `rank_sentences`; :957 - children are given their parent one by one.
- vertex_search.py:472 - `delete_vertex_search` names neither asset as the service
  does and deletes nothing, where the caller (about :270) means to "delete any
  vertex search assets that were created"; a second build under the name then fails
  on them; vertex_search.py:446-452 - a creation that has failed before it is waited
  for goes unseen: a build returns without its search engine, or imports into and
  records the data store of the engine that has the id (hence `unseen` in
  `OwnStore`, `FinishedIsComplete` and `ReferencesResolve`).  `inventory_gcs_files`
  lists the whole bucket although the URL may name a folder, and an import that left
  files out reports all as processed.
- main.go:319 follows one link more than `webscraper/README.md:129` says;
  main.go:334 - the depth of a page is that of its first visit, not the shortest
  (a crawl with cycles may miss pages within the limit, hence
  `TreeCrawlComplete` for trees only); main.go:461 - engines whose names differ
  in characters replaced share a bucket, which a second scrape empties (:498);
  main.go:417 - pages whose URLs so differ share a file, and one is indexed under the
  URL of the other; main.go:272, 295 - two requests redirected to one URL list it twice,
  and it is indexed twice;
  main.go:193 - a job that failed may be reported succeeded by a later write;
  web_datasource_job.py:105 - the wait does not know an aborted scraper;
  web_datasource.py:279 - `join` before the queue is read: a list larger than the
  pipe is waited for for ever, as is that of a process that died (:280).
- user.py:435 - PUT on an inactive user empties the user's list and leaves the
  groups', so that its deletion (collection_handler.py:161) finds no group to
  leave; application.py:259 - a deleted application stays in groups that had none
  of its permissions (a TODO at 256 asks for it); user_group.py:389 - a repeated
  `add_users` lists the group twice; user_group.py:536 - a removal repeated after
  a failure keeps the permission.
- chat.py:637 - of two generations that overlap, the one saved last drops the
  turn of the other; llm.py:146 - a chat deleted during a generation is created
  again by its save (chat.py:332); chat.py:844 - a title set meanwhile is
  overwritten; agent.py:382 - an agent's output is recorded twice, by `run_agent`
  before the prompt and by its caller behind it (the test, with `run_agent` mocked,
  asserts two new entries, agent_test.py:177), and what is recorded second is the
  response that holds the chat itself, history included (agent_service.py:191);
  agent_service.py:227 parses the pair that `run_agent` returns as if it
  were the text, and raises before a plan is made; chat.py:298 - the initial
  prompt of a chat created empty is taken from its second entry.
- QueryEngineJobs.tsx polls while a status is "running", which no job ever has;
  the Sources page finds a job by the engine's name and may show an older, failed
  build of it.
- SourceSelector.tsx:91-97 compares the engine's name with its job's: an engine
  whose name was typed with a blank around it (query.py:506 keeps it,
  query_service.py:859 strips it), or that was renamed (query.py:396), is offered
  while it is built; batch_jobs.py:98-137 - so is one whose job a client aborted or
  deleted, for the document stops saying active and the build need not stop;
  kf_job_app.py:395 - a launch that raised with its job created leaves the same
  (hence the exceptions of `OfferedIsBuilt`).
- validation_service.py:75 - a decoded token is served from the cache after it was
  revoked; agent_service.py:248 - a plan is saved before its steps and lists them
  after the last; routing_agent passes the model's type in the place of the user.

## 6. Plan

The order follows what is most exposed in the code.

1. Done: BatchJobs, EngineBuild, WebScrape, AccessControl, ChatHistory;
   AbstractIndex and VectorIndex, UserQueries over EngineBuild, SourcesPage over
   BatchJobs, VertexSearch.
2. Open: *TokenAuth* - the token cache beside Firebase and the users of AccessControl;
   *AgentPlan* - plans and steps, once `agent_plan` makes any; integrated engines
   (children's `parent_engine_id`); requests of AccessControl side by side.

The number of runs is kept small; a run that asks nothing its neighbour does not
ask is merged with it.

## 7. Not modelled

- Inside a component: the duplicate check of jobs (no caller asks for it) and the
  housekeeping helpers; multimodal chunks and integrated engines; soft
  against hard deletion of engines (every read filters both); reranking, query
  filters and the chat a query may open; the validation of a Vertex search URL and
  the import of the web pages downloaded for it; the agent and the prompt stored
  with a chat; POST of a chat with a first prompt, and an agent's run or dispatch
  without one, single requests that share their document with nobody; the
  documents of plans and the database agent.
- Association groups are only created and listed by this repository, with their
  lists empty; staff and sessions are single documents.
- Whole components: see `PROJECT.json`.  Language models, embeddings' values,
  prompts, parsing of model output and the frontends' other views carry no state
  that must agree with another; notebooks, generated clients, terraform, ingress
  and the scripts are configuration or samples, and are most of the repository's
  lines.
