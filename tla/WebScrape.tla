------------------------------ MODULE WebScrape ------------------------------
(***************************************************************************)
(* Scraping a web site for a query engine: the build (WebDataSourceJob of  *)
(* the llm_service) starts a scraper pod (the Go program of webscraper/)   *)
(* and polls the job document until the scraper reports an outcome; then   *)
(* it downloads what the outcome lists from a bucket.                      *)
(*                                                                         *)
(* The scraper's collector is asynchronous: every page is fetched and      *)
(* handled by a goroutine of its own.  A handler stores the page, appends  *)
(* to a list all handlers share without a lock, and requests the links.    *)
(* The collector refuses a page that was requested before; that check is   *)
(* taken to be atomic.  Pages outside the site's domain are no pages here. *)
(* A request may be redirected, and its page is then stored and listed     *)
(* under the URL it ended at, of which the collector takes no note: two    *)
(* requests can end at one page.  A document is named here by the request  *)
(* that it came of.                                                        *)
(*                                                                         *)
(* Vertex search engines and builds of a single page use WebDataSource     *)
(* instead, as does a URL given to a chat: a Scrapy crawler in a process   *)
(* of its own, which hands its list of documents back through a pipe.  The *)
(* crawler has one thread, and a redirect is a request of its own there.   *)
(***************************************************************************)
EXTENDS Naturals, Sequences

CONSTANTS
  Builds,         \* builds of query engines from web sites
  Pages, Urls,    \* the pages, and those a build may be asked for
  Final,          \* the page where the request for a page ends
  Links, Kind,    \* what the response links to, and its content type
  Files, File,    \* the sanitized URL a page is stored under
  Buckets, Bucket,\* the bucket made from the name of each build's engine
  Depth,          \* the builds' depth_limit, if it is not 0
  Limit,          \* how many documents fit into a job document
  Pipe,           \* how many fit into the pipe of a crawler process
  Faults,         \* which of FaultKinds may happen
  NoPage

FaultKinds == {"launch",  \* kube_create_job, or what is before it, raises
               "bucket",  \* the bucket cannot be initialised
               "fetch",   \* a page cannot be had
               "write",   \* a page cannot be stored
               "update",  \* the scraper cannot read or write the document
               "pod",     \* the scraper's pod, or the crawler process, dies
               "slow"}    \* patience ends before the scraper does: the build's,
                          \* or that of a crawler process with itself

ASSUME ScrapeAssumption ==
  /\ Urls \subseteq Pages
  /\ Links \in [Pages -> SUBSET Pages]
  /\ Kind \in [Pages -> {"html", "pdf", "other"}]
  /\ Final \in [Pages -> Pages]
  /\ \A p \in Pages : /\ Final[Final[p]] = Final[p]
                      /\ Links[Final[p]] = Links[p] /\ Kind[Final[p]] = Kind[p]
  /\ File \in [Pages -> Files]
  /\ Bucket \in [Builds -> Buckets]
  /\ Depth \in Nat \ {0} /\ Limit \in Nat /\ Pipe \in Nat
  /\ Buckets \cap Builds = {}
  /\ Faults \subseteq FaultKinds
  /\ NoPage \notin Pages

VARIABLES
  build,    \* where each build stands
  url,      \* its doc_url
  way,      \* its source: WebDataSourceJob ("job"), or WebDataSource with a
            \* depth_limit ("crawl") or with 0 ("page")
  loaded,   \* the documents it has downloaded: the page asked for and got
  status,   \* the job document: its status, or "gone"
  result,   \* ... and result_data.scraped_documents
  scraper,  \* where each scraper stands
  docs,     \* its scrapedDocs, which all its handlers share
  at,       \* where the handler of a page stands
  depth,    \* the depth in the context of the request for a page
  todo,     \* the links of a page its handler has not followed
  seen,     \* scrapedDocs as the handler of a page has read it
  bucket    \* Cloud Storage: the page under each name of a bucket; and the
            \* temporary directory of each build that runs a crawler process,
            \* which is also uploaded to a bucket of a unique name

vars == <<build, url, way, loaded, status, result, scraper, docs, at, depth, todo,
          seen, bucket>>
pages == <<at, depth, todo, seen>>
builder == <<build, url, way, loaded>>
document == <<status, result>>

\* "depth limit for scraper is GENIE depth+1"; DEPTH_LIMIT is the limit itself.
MaxDepth(b) ==
  CASE way[b] = "job" -> Depth + 1 [] way[b] = "crawl" -> Depth [] way[b] = "page" -> 0

\* Where the pages of a build are stored, and read from.
Place(b) == IF way[b] = "job" THEN Bucket[b] ELSE b

\* The name that the response to a request is stored under.
Name(p) == File[Final[p]]

Init ==
  /\ build = [b \in Builds |-> "start"]
  /\ url \in [Builds -> Urls]
  /\ way \in [Builds -> {"job", "crawl", "page"}]
  /\ loaded = [b \in Builds |-> <<>>]
  /\ status = [b \in Builds |-> "pending"]
  /\ result = [b \in Builds |-> <<>>]
  /\ scraper = [b \in Builds |-> "none"]
  /\ docs = [b \in Builds |-> <<>>]
  /\ at = [b \in Builds |-> [p \in Pages |-> "unseen"]]
  /\ depth = [b \in Builds |-> [p \in Pages |-> 0]]
  /\ todo = [b \in Builds |-> [p \in Pages |-> {}]]
  /\ seen = [b \in Builds |-> [p \in Pages |-> <<>>]]
  /\ bucket = [u \in Buckets \cup Builds |-> [f \in Files |-> NoPage]]

-----------------------------------------------------------------------------
(* The build: WebDataSourceJob.download_documents *)

\* The document is saved and the Kubernetes job created; its pod may start.
StartJob(b) ==
  /\ build[b] = "start" /\ way[b] = "job"
  /\ build' = [build EXCEPT ![b] = "created"]
  /\ scraper' = [scraper EXCEPT ![b] = "start"]
  /\ UNCHANGED <<url, way, loaded, document, docs, pages, bucket>>

\* The last call of kube_create_job saves the whole document as it knows it.
MarkActive(b) ==
  /\ build[b] = "created"
  /\ build' = [build EXCEPT ![b] = "waiting"]
  /\ status' = [status EXCEPT ![b] = "active"]
  /\ result' = [result EXCEPT ![b] = <<>>]
  /\ UNCHANGED <<url, way, loaded, scraper, docs, pages, bucket>>

\* There is no image, or kube_create_job raises: it deletes the document, but not
\* a Kubernetes job that it has created, known to it or not.
LaunchFails(b) ==
  /\ "launch" \in Faults /\ way[b] = "job" /\ build[b] \in {"start", "created"}
  /\ build' = [build EXCEPT ![b] = "raised"]
  /\ \/ build[b] = "start" /\ UNCHANGED <<status, scraper>>
     \/ /\ status' = [status EXCEPT ![b] = "gone"]
        /\ \/ UNCHANGED scraper
           \/ build[b] = "start" /\ scraper' = [scraper EXCEPT ![b] = "start"]
  /\ UNCHANGED <<url, way, loaded, result, docs, pages, bucket>>

HasOutcome(b) == status[b] \in {"succeeded", "failed"}

\* wait_for_job
Poll(b) ==
  /\ build[b] = "waiting" /\ HasOutcome(b)
  /\ build' = [build EXCEPT ![b] = "ended"]
  /\ UNCHANGED <<url, way, loaded, document, scraper, docs, pages, bucket>>

\* (mutant) The wait has no time limit.
TimeOutNever(b) ==
  /\ build[b] = "waiting" /\ HasOutcome(b)
  /\ build' = [build EXCEPT ![b] = "raised"]
  /\ UNCHANGED <<url, way, loaded, document, scraper, docs, pages, bucket>>

TimeOut(b) ==
  /\ build[b] = "waiting"
  /\ \/ "slow" \in Faults
     \/ scraper[b] \in {"exit", "dead"} /\ ~HasOutcome(b)
  /\ build' = [build EXCEPT ![b] = "raised"]
  /\ UNCHANGED <<url, way, loaded, document, scraper, docs, pages, bucket>>

\* The document is read once more, and this time for its outcome.
ReadOutcome(b) ==
  /\ build[b] = "ended"
  /\ build' = [build EXCEPT ![b] = IF status[b] = "succeeded" THEN "loading"
                                                              ELSE "raised"]
  /\ UNCHANGED <<url, way, loaded, document, scraper, docs, pages, bucket>>

\* The next document of the result is downloaded, or missing in the bucket.
Load(b) ==
  /\ build[b] = "loading" /\ Len(loaded[b]) < Len(result[b])
  /\ LET page == Final[result[b][Len(loaded[b]) + 1]]
         got == bucket[Place(b)][File[page]]
     IN IF got = NoPage
        THEN build' = [build EXCEPT ![b] = "missing"] /\ UNCHANGED loaded
        ELSE /\ loaded' = [loaded EXCEPT ![b] =
                             Append(@, [url |-> page, got |-> got])]
             /\ UNCHANGED build
  /\ UNCHANGED <<url, way, document, scraper, docs, pages, bucket>>

Loaded(b) ==
  /\ build[b] = "loading" /\ Len(loaded[b]) = Len(result[b])
  /\ build' = [build EXCEPT ![b] = "loaded"]
  /\ UNCHANGED <<url, way, loaded, document, scraper, docs, pages, bucket>>

-----------------------------------------------------------------------------
(* The scraper *)

Visited(b) == {p \in Pages : at[b][p] # "unseen"}

\* collector.Visit: the context of the first request has no depth.
VisitRoot(b) ==
  /\ at' = [at EXCEPT ![b][url[b]] = "requested"]
  /\ scraper' = [scraper EXCEPT ![b] = "crawl"]
  /\ UNCHANGED <<depth, todo, seen>>

\* initializeBucket empties the bucket.
InitializeBucket(b) ==
  /\ scraper[b] = "start" /\ way[b] = "job"
  /\ bucket' = [bucket EXCEPT ![Place(b)] = [f \in Files |-> NoPage]]
  /\ VisitRoot(b)
  /\ UNCHANGED <<builder, document, docs>>

\* The document cannot be read or written, or is gone.
NoDocument(b) == "update" \in Faults \/ status[b] = "gone"

\* updateJobError: what it cannot write it only logs.
UpdateJobError(b) ==
  \/ status[b] # "gone" /\ status' = [status EXCEPT ![b] = "failed"]
  \/ NoDocument(b) /\ UNCHANGED status

\* Without the job document the pod panics.
FetchJobDocumentFails(b) ==
  /\ scraper[b] = "start" /\ way[b] = "job" /\ NoDocument(b)
  /\ scraper' = [scraper EXCEPT ![b] = "dead"]
  /\ UpdateJobError(b)
  /\ UNCHANGED <<builder, result, docs, pages, bucket>>

\* Some objects may have been deleted.  The error is written to the document, and
\* the scrape goes on.
InitializeBucketFails(b) ==
  /\ scraper[b] = "start" /\ way[b] = "job" /\ "bucket" \in Faults
  /\ \E gone \in SUBSET {f \in Files : bucket[Place(b)][f] # NoPage} :
       bucket' = [bucket EXCEPT ![Place(b)] =
                    [f \in Files |-> IF f \in gone THEN NoPage ELSE @[f]]]
  /\ UpdateJobError(b)
  /\ VisitRoot(b)
  /\ UNCHANGED <<builder, result, docs>>

Handler(b, p, step) == scraper[b] = "crawl" /\ at[b][p] = step
\* A response is there for handleResponse.
Response(b, p) == Handler(b, p, "requested") /\ way[b] = "job"
Goto(b, p, step) == at' = [at EXCEPT ![b][p] = step]

\* (mutant) One level too many.
FollowTooFar(b, p) ==
  /\ Goto(b, p, "links")
  /\ todo' = [todo EXCEPT ![b][p] =
       IF Kind[p] = "html" /\ depth[b][p] <= MaxDepth(b) THEN Links[p] ELSE {}]

\* (mutant) One level too few.
FollowTooNear(b, p) ==
  /\ Goto(b, p, "links")
  /\ todo' = [todo EXCEPT ![b][p] =
       IF Kind[p] = "html" /\ depth[b][p] + 1 < MaxDepth(b) THEN Links[p] ELSE {}]

\* The handler turns to the links, unless the maximum depth is reached.
Follow(b, p) ==
  /\ Goto(b, p, "links")
  /\ todo' = [todo EXCEPT ![b][p] =
       IF Kind[p] = "html" /\ depth[b][p] < MaxDepth(b) THEN Links[p] ELSE {}]

FetchFails(b, p) ==
  /\ Handler(b, p, "requested") /\ "fetch" \in Faults
  /\ Goto(b, p, "failed")
  /\ UNCHANGED <<builder, document, scraper, docs, depth, todo, seen, bucket>>

\* handleResponse ignores what is neither HTML nor PDF.
Ignore(b, p) ==
  /\ Response(b, p) /\ Kind[p] = "other"
  /\ Follow(b, p)
  /\ UNCHANGED <<builder, document, scraper, docs, depth, seen, bucket>>

\* (mutant) The file name is the one of the first page.
StoreAsRoot(b, p) ==
  /\ Response(b, p) /\ Kind[p] # "other"
  /\ bucket' = [bucket EXCEPT ![Place(b)][Name(url[b])] = Final[p]]
  /\ Goto(b, p, "stored")
  /\ UNCHANGED <<builder, document, scraper, docs, depth, todo, seen>>

\* handleResponse stores the page under the URL the request ended at ...
Store(b, p) ==
  /\ Response(b, p) /\ Kind[p] # "other"
  /\ bucket' = [bucket EXCEPT ![Place(b)][Name(p)] = Final[p]]
  /\ Goto(b, p, "stored")
  /\ UNCHANGED <<builder, document, scraper, docs, depth, todo, seen>>

\* ... or passes on, ...
StoreFails(b, p) ==
  /\ Response(b, p) /\ Kind[p] # "other" /\ "write" \in Faults
  /\ Follow(b, p)
  /\ UNCHANGED <<builder, document, scraper, docs, depth, seen, bucket>>

\* ... and appends it, with that URL, to scrapedDocs: a read and a write, no lock.
ReadDocs(b, p) ==
  /\ Handler(b, p, "stored")
  /\ seen' = [seen EXCEPT ![b][p] = docs[b]]
  /\ Goto(b, p, "read")
  /\ UNCHANGED <<builder, document, scraper, docs, depth, todo, bucket>>

AppendDocs(b, p) ==
  /\ Handler(b, p, "read")
  /\ docs' = [docs EXCEPT ![b] = Append(seen[b][p], p)]
  /\ Follow(b, p)
  /\ seen' = [seen EXCEPT ![b][p] = <<>>]
  /\ UNCHANGED <<builder, document, scraper, depth, bucket>>

\* handleHTML: a page not requested before is requested one level deeper.
VisitLink(b, p, q) ==
  /\ Handler(b, p, "links") /\ q \in todo[b][p]
  /\ todo' = [todo EXCEPT ![b][p] = @ \ {q}]
  /\ IF at[b][q] = "unseen"
     THEN /\ Goto(b, q, "requested")
          /\ depth' = [depth EXCEPT ![b][q] = depth[b][p] + 1]
     ELSE UNCHANGED <<at, depth>>
  /\ UNCHANGED <<builder, document, scraper, docs, seen, bucket>>

Handle(b, p) ==
  \/ Ignore(b, p) \/ Store(b, p) \/ ReadDocs(b, p) \/ AppendDocs(b, p)
  \/ \E q \in Pages : VisitLink(b, p, q)

\* collector.Wait returns when every handler has.
Quiet(b) ==
  \A p \in Visited(b) : at[b][p] \in {"links", "failed"} /\ todo[b][p] = {}

\* What fits into the document.
Truncated(s) == IF Len(s) <= Limit THEN s ELSE SubSeq(s, 1, Limit)

Report(b) ==
  /\ status' = [status EXCEPT ![b] = "succeeded"]
  /\ scraper' = [scraper EXCEPT ![b] = "exit"]

\* (mutant) saveResults does not wait for the handlers.
SaveResultsEarly(b) ==
  /\ scraper[b] = "crawl" /\ way[b] = "job" /\ status[b] # "gone"
  /\ result' = [result EXCEPT ![b] = Truncated(docs[b])]
  /\ Report(b)
  /\ UNCHANGED <<builder, docs, pages, bucket>>

SaveResults(b) ==
  /\ scraper[b] = "crawl" /\ way[b] = "job" /\ Quiet(b) /\ status[b] # "gone"
  /\ result' = [result EXCEPT ![b] = Truncated(docs[b])]
  /\ Report(b)
  /\ UNCHANGED <<builder, docs, pages, bucket>>

\* The update fails, and the document says so, if it can be written at all.
SaveResultsFails(b) ==
  /\ scraper[b] = "crawl" /\ way[b] = "job" /\ Quiet(b) /\ NoDocument(b)
  /\ UpdateJobError(b)
  /\ scraper' = [scraper EXCEPT ![b] = "exit"]
  /\ UNCHANGED <<builder, result, docs, pages, bucket>>

PodDies(b) ==
  /\ "pod" \in Faults /\ scraper[b] \in {"start", "crawl"}
  /\ scraper' = [scraper EXCEPT ![b] = "dead"]
  /\ UNCHANGED <<builder, document, docs, pages, bucket>>

-----------------------------------------------------------------------------
(* The crawler process: WebDataSource.download_documents and run_crawler *)

\* create_bucket makes the bucket of unique name, or raises.
StartCrawler(b) ==
  /\ build[b] = "start" /\ way[b] # "job"
  /\ build' = [build EXCEPT ![b] = "joining"]
  /\ scraper' = [scraper EXCEPT ![b] = "start"]
  /\ UNCHANGED <<url, way, loaded, document, docs, pages, bucket>>

StartCrawlerFails(b) ==
  /\ build[b] = "start" /\ way[b] # "job" /\ "bucket" \in Faults
  /\ build' = [build EXCEPT ![b] = "raised"]
  /\ UNCHANGED <<url, way, loaded, document, scraper, docs, pages, bucket>>

\* What a LinkExtractor takes from a page: it leaves out the links whose URL shows
\* another type than HTML, which that of a redirect may do as well.
Extracts(p) ==
  IF Kind[p] # "html" THEN {{}}
  ELSE {links \in SUBSET Links[p] :
          {q \in Links[p] : Kind[q] = "html" /\ Final[q] = q} \subseteq links}

\* Links not requested before are requested, at depth d; p is done.
Handled(b, p, links, d) ==
  LET new == {q \in links : at[b][q] = "unseen"} IN
  /\ at' = [at EXCEPT ![b] = [q \in Pages |->
              IF q \in new THEN "requested" ELSE IF q = p THEN "links" ELSE @[q]]]
  /\ depth' = [depth EXCEPT ![b] = [q \in Pages |-> IF q \in new THEN d ELSE @[q]]]

\* A WebDataSourcePageSpider asks for the page.  A CrawlSpider fetches it and
\* only follows its links, and its request does not count as one made before.
StartRequests(b) ==
  /\ scraper[b] = "start" /\ way[b] # "job"
  /\ scraper' = [scraper EXCEPT ![b] = "crawl"]
  /\ \/ way[b] = "page" /\ Handled(b, NoPage, {url[b]}, 0)
     \/ way[b] = "crawl" /\ \E links \in Extracts(url[b]) : Handled(b, NoPage, links, 1)
     \/ way[b] = "crawl" /\ "fetch" \in Faults /\ UNCHANGED <<at, depth>>
  /\ UNCHANGED <<builder, document, docs, todo, seen, bucket>>

Crawling(b, p) == scraper[b] = "crawl" /\ way[b] # "job" /\ at[b][p] = "requested"

\* The page where a request is redirected to is requested at the same depth,
\* unless it was requested before.
Redirected(b, p) ==
  /\ Crawling(b, p) /\ Final[p] # p
  /\ Handled(b, p, {Final[p]}, depth[b][p])
  /\ UNCHANGED <<builder, document, scraper, docs, todo, seen, bucket>>

\* parse saves HTML and PDF, _item_scraped lists it, and the rule of a
\* CrawlSpider follows the links: one thread does it all.
Parse(b, p) ==
  /\ Crawling(b, p) /\ Final[p] = p
  /\ IF Kind[p] = "other" THEN UNCHANGED <<bucket, docs>>
     ELSE /\ bucket' = [bucket EXCEPT ![Place(b)][File[p]] = p]
          /\ docs' = [docs EXCEPT ![b] = Append(@, p)]
  /\ \E links \in IF way[b] = "crawl" /\ depth[b][p] < MaxDepth(b) THEN Extracts(p) ELSE {{}} :
       Handled(b, p, links, depth[b][p] + 1)
  /\ UNCHANGED <<builder, document, scraper, todo, seen>>

\* Saving the page raises, or its upload: it is neither listed nor followed.
ParseFails(b, p) ==
  /\ Crawling(b, p) /\ Final[p] = p /\ Kind[p] # "other" /\ "write" \in Faults
  /\ UNCHANGED bucket \/ bucket' = [bucket EXCEPT ![Place(b)][File[p]] = p]
  /\ Goto(b, p, "failed")
  /\ UNCHANGED <<builder, document, scraper, docs, depth, todo, seen>>

\* CLOSESPIDER_TIMEOUT: what was requested is given up.
CloseSpider(b) ==
  /\ scraper[b] = "crawl" /\ way[b] # "job" /\ "slow" \in Faults
  /\ at' = [at EXCEPT ![b] = [p \in Pages |-> IF @[p] = "requested" THEN "failed" ELSE @[p]]]
  /\ UNCHANGED <<builder, document, scraper, docs, depth, todo, seen, bucket>>

\* queue.put: the process ends when its list is in the pipe.
PutDocs(b) ==
  /\ scraper[b] = "crawl" /\ way[b] # "job" /\ Quiet(b)
  /\ scraper' = [scraper EXCEPT ![b] = IF Len(docs[b]) <= Pipe THEN "exit" ELSE "blocked"]
  /\ UNCHANGED <<builder, document, docs, pages, bucket>>

\* p.join() comes before queue.get().
Join(b) ==
  /\ build[b] = "joining" /\ scraper[b] \in {"exit", "dead"}
  /\ build' = [build EXCEPT ![b] = "getting"]
  /\ UNCHANGED <<url, way, loaded, document, scraper, docs, pages, bucket>>

GetDocs(b) ==
  /\ build[b] = "getting" /\ scraper[b] = "exit"
  /\ build' = [build EXCEPT ![b] = "loading"]
  /\ result' = [result EXCEPT ![b] = docs[b]]
  /\ UNCHANGED <<url, way, loaded, status, scraper, docs, pages, bucket>>

-----------------------------------------------------------------------------

Wait(b) == \/ StartJob(b) \/ MarkActive(b) \/ Poll(b) \/ ReadOutcome(b)
           \/ Load(b) \/ Loaded(b)
           \/ StartCrawler(b) \/ Join(b) \/ GetDocs(b)

Scrape(b) == \/ InitializeBucket(b)
             \/ \E p \in Pages : Handle(b, p)
             \/ SaveResults(b)
             \/ StartRequests(b) \/ PutDocs(b)
             \/ \E p \in Pages : Parse(b, p) \/ Redirected(b, p)

Fails(b) == \/ FetchJobDocumentFails(b) \/ InitializeBucketFails(b)
            \/ SaveResultsFails(b) \/ PodDies(b)
            \/ LaunchFails(b) \/ StartCrawlerFails(b) \/ CloseSpider(b)
            \/ \E p \in Pages : FetchFails(b, p) \/ StoreFails(b, p) \/ ParseFails(b, p)

Next == \E b \in Builds : Wait(b) \/ TimeOut(b) \/ Scrape(b) \/ Fails(b)

Spec == Init /\ [][Next]_vars

\* The build's thread and the scraper's goroutines run on, and patience ends.
Fairness == \A b \in Builds : /\ WF_vars(Wait(b)) /\ WF_vars(TimeOut(b))
                              /\ WF_vars(Scrape(b))

FairSpec == Spec /\ Fairness

-----------------------------------------------------------------------------
(* Properties *)

TypeOK ==
  /\ build \in [Builds -> {"start", "created", "waiting", "ended", "loading",
                           "loaded", "missing", "raised", "joining", "getting"}]
  /\ url \in [Builds -> Urls]
  /\ way \in [Builds -> {"job", "crawl", "page"}]
  /\ loaded \in [Builds -> Seq([url : Pages, got : Pages])]
  /\ status \in [Builds -> {"pending", "active", "succeeded", "failed", "gone"}]
  /\ result \in [Builds -> Seq(Pages)]
  /\ scraper \in [Builds -> {"none", "start", "crawl", "exit", "dead", "blocked"}]
  /\ docs \in [Builds -> Seq(Pages)]
  /\ at \in [Builds -> [Pages -> {"unseen", "requested", "stored", "read",
                                  "links", "failed"}]]
  /\ depth \in [Builds -> [Pages -> 0 .. Depth + 1]]
  /\ todo \in [Builds -> [Pages -> SUBSET Pages]]
  /\ seen \in [Builds -> [Pages -> Seq(Pages)]]
  /\ bucket \in [Buckets \cup Builds -> [Files -> Pages \cup {NoPage}]]

\* Every page a scrape requests is at the end of a path of links from the URL,
\* through pages it has requested before, and no longer than MaxDepth; or it is
\* where a crawler process was redirected to from such a page.
CrawlSound ==
  \A b \in Builds : \A p \in Visited(b) :
    \/ p = url[b] /\ depth[b][p] = 0
    \/ /\ depth[b][p] <= MaxDepth(b)
       /\ \/ depth[b][p] = 1 /\ Kind[url[b]] = "html" /\ p \in Links[url[b]]
          \/ \E q \in Visited(b) :
               Kind[q] = "html" /\ p \in Links[q] /\ depth[b][p] = depth[b][q] + 1
          \/ way[b] # "job" /\ \E q \in Visited(b) \ {p} :
               Final[q] = p /\ depth[b][p] = depth[b][q]

\* A build is told of success only when its scrape is over: a result says all
\* it will ever say.
SuccessIsFinal ==
  \A b \in Builds : status[b] = "succeeded" =>
    Quiet(b) /\ result[b] = Truncated(docs[b])

\* A build gets, for every URL listed, the page at that URL, unless a scrape into
\* its bucket has requested one that ended at another page of the same name: the
\* file names, the buckets, the redirects and the list of results agree.
Shares(b, p) ==
  \E c \in Builds : Place(c) = Place(b) /\
    \E q \in Visited(c) : Final[q] # p /\ Name(q) = File[p]

LoadedIsItsPage ==
  \A b \in Builds : \A i \in DOMAIN loaded[b] :
    loaded[b][i].got = loaded[b][i].url \/ Shares(b, loaded[b][i].url)

\* The pages at most MaxDepth links away from the URL of b, through pages that
\* could be had.
Near(b) ==
  LET near[d \in Nat] ==
        IF d = 0 THEN {url[b]}
        ELSE near[d - 1] \cup
             UNION {Links[p] : p \in {q \in near[d - 1] :
                                       Kind[q] = "html" /\ at[b][q] # "failed"}}
  IN near[MaxDepth(b)]

\* Where every page is linked from one page only, a scrape by the job that ends
\* has requested every page that is near enough.
TreeCrawlComplete ==
  \A b \in Builds :
    /\ way[b] = "job" /\ scraper[b] = "exit"
    /\ \A q, r \in Near(b) : q # r => Links[q] \cap Links[r] \cap Near(b) = {}
    => Near(b) \subseteq Visited(b)

\* A build is over in the end, whatever becomes of its scraper; but not if it
\* waits for a crawler process that has more to put than the pipe holds, while
\* nobody reads, or for the list of one that died.
Hung(b) == way[b] # "job" /\ scraper[b] \in {"blocked", "dead"}

BuildEnds ==
  \A b \in Builds : <>(build[b] \in {"loaded", "missing", "raised"} \/ Hung(b))

-----------------------------------------------------------------------------
(* What the repository says and the code does not do *)

\* "Records metadata about scraped documents in Firestore"
\* (webscraper/README.md): every page that was stored is listed.
EveryStoredPageListed ==
  \A b \in Builds : status[b] = "succeeded" =>
    \A p \in Visited(b) : bucket[Place(b)][Name(p)] = Final[p] =>
      \E i \in DOMAIN result[b] : Final[result[b][i]] = Final[p]
=============================================================================
