--------------------------- MODULE WebScrapeProofs ---------------------------
(***************************************************************************)
(* The safety properties of WebScrape, for any sites, builds and faults.   *)
(*                                                                         *)
(* That every page requested is linked from another is kept by a handler   *)
(* that follows links only (Crawled), and by the depth of a page, which is *)
(* written once.  The crawler process is part of the same invariant, for a *)
(* build never changes its way of getting pages (WayKept).  What a build   *)
(* reads from the bucket was put there by some handler, and its name is    *)
(* that of the page read (StoredInv).  That a crawl of a tree misses no    *)
(* page follows from what handlers have done so far (Followed), by a least *)
(* counterexample in the distance from the start; that no document is lost *)
(* or read twice, from where the list of documents has been (HandInv).     *)
(* That a scrape ends, as far as it is safety: no step gives back the      *)
(* stage of a page, or the link, that an earlier one used up (WorkShrinks).*)
(***************************************************************************)
EXTENDS WebScrape, WellFoundedInduction, TLAPS

\* What a handler may have left to do.
Crawled(b) ==
  /\ build[b] = "start" => scraper[b] = "none" /\ status[b] = "pending"
  /\ build[b] = "created" => way[b] = "job"
  /\ build[b] \in {"joining", "getting"} => way[b] # "job"
  /\ way[b] # "job" => status[b] = "pending"
  /\ scraper[b] \in {"none", "start"} => \A p \in Pages : at[b][p] = "unseen"
  /\ \A p \in Pages :
       /\ at[b][p] = "unseen" => depth[b][p] = 0
       /\ at[b][p] # "links" => todo[b][p] = {}
       /\ todo[b][p] # {} =>
            todo[b][p] \subseteq Links[p] /\ Kind[p] = "html" /\ depth[b][p] < MaxDepth(b)

\* What brings a page to be requested at depth d.
Reason(b, p, d) ==
  \/ p = url[b] /\ d = 0
  \/ /\ d <= MaxDepth(b)
     /\ \/ d = 1 /\ Kind[url[b]] = "html" /\ p \in Links[url[b]]
        \/ \E q \in Visited(b) : Kind[q] = "html" /\ p \in Links[q] /\ d = depth[b][q] + 1
        \/ /\ way[b] # "job"
           /\ \E q \in Visited(b) \ {p} : Final[q] = p /\ d = depth[b][q]

\* CrawlSound and SuccessIsFinal, of one build.
Reached(b) == \A p \in Visited(b) : Reason(b, p, depth[b][p])

Reported(b) ==
  status[b] = "succeeded" =>
    scraper[b] = "exit" /\ Quiet(b) /\ result[b] = Truncated(docs[b])

BuildInv(b) == Crawled(b) /\ Reached(b) /\ Reported(b)

\* A request of a scrape into bucket u ended at the page q, to be stored as f.
Requested(u, f, q) ==
  \E c \in Builds : Place(c) = u /\ \E p \in Visited(c) : Final[p] = q /\ File[q] = f

StoredInv ==
  /\ \A u \in Buckets \cup Builds, f \in Files :
       bucket[u][f] = NoPage \/ Requested(u, f, bucket[u][f])
  /\ \A b \in Builds : \A i \in DOMAIN loaded[b] :
       Requested(Place(b), File[loaded[b][i].url], loaded[b][i].got)

IInv == TypeOK /\ (\A b \in Builds : BuildInv(b)) /\ StoredInv

\* What a scrape by the job knows of the pages it has requested: the URL is at
\* depth 0, every other page has the page it was first found on, whose handler
\* is at its links, and of those it has requested all it has left behind.
Followed(b) ==
  way[b] = "job" =>
    /\ scraper[b] \in {"crawl", "exit"} => url[b] \in Visited(b) /\ depth[b][url[b]] = 0
    /\ \A p \in Visited(b) : p = url[b] \/
         \E q \in Visited(b) :
           /\ at[b][q] = "links" /\ Kind[q] = "html"
           /\ p \in Links[q] /\ depth[b][p] = depth[b][q] + 1
    /\ \A q \in Pages : at[b][q] = "links" /\ Kind[q] = "html" /\ depth[b][q] < MaxDepth(b) =>
         Links[q] \subseteq Visited(b) \cup todo[b][q]
    /\ scraper[b] = "exit" => Quiet(b)

FollowInv == \A b \in Builds : Followed(b)

\* What a crawler process does with a response.
Answered(b, p) == Parse(b, p) \/ Redirected(b, p)

\* The actions of one build.
Step(b) == Wait(b) \/ TimeOut(b) \/ Scrape(b) \/ Fails(b)

LEMMA InitIInv == Init => IInv
<1> SUFFICES ASSUME Init PROVE IInv
  OBVIOUS
<1>1. TypeOK
  BY ScrapeAssumption DEF Init, TypeOK, MaxDepth
<1>2. StoredInv
  BY DEF Init, StoredInv
<1>3. ASSUME NEW b \in Builds PROVE BuildInv(b)
  BY DEF Init, BuildInv, Crawled, Reached, Reported, Visited
<1> QED BY <1>1, <1>2, <1>3 DEF IInv

-----------------------------------------------------------------------------
(* Types *)

LEMMA Updated ==
  ASSUME NEW D, NEW R, NEW S, NEW f \in [D -> [R -> S]], NEW d \in D, NEW r \in R, NEW x \in S
  PROVE  /\ [f EXCEPT ![d][r] = x] \in [D -> [R -> S]]
         /\ [f EXCEPT ![d][r] = x][d][r] = x
         /\ \A q \in R \ {r} : [f EXCEPT ![d][r] = x][d][q] = f[d][q]
         /\ \A c \in D \ {d} : [f EXCEPT ![d][r] = x][c] = f[c]
OBVIOUS

LEMMA WayType ==
  ASSUME TypeOK, NEW b \in Builds
  PROVE  /\ Place(b) \in Buckets \cup Builds
         /\ MaxDepth(b) \in 0 .. Depth + 1
         /\ way[b] = "crawl" => MaxDepth(b) = Depth
BY ScrapeAssumption DEF TypeOK, Place, MaxDepth

LEMMA WaitType ==
  ASSUME TypeOK, NEW b \in Builds, Wait(b) \/ TimeOut(b) \/ StartCrawlerFails(b) \/ LaunchFails(b)
  PROVE  TypeOK'
<1>1. CASE Load(b)
  <2>1. CASE UNCHANGED loaded
    BY <1>1, <2>1 DEF Load, TypeOK, document, pages
  <2>2. CASE ~UNCHANGED loaded
    <3> DEFINE page == Final[result[b][Len(loaded[b]) + 1]]
               got == bucket[Place(b)][File[page]]
    <3>1. /\ Len(loaded[b]) < Len(result[b]) /\ got # NoPage
          /\ loaded' = [loaded EXCEPT ![b] = Append(@, [url |-> page, got |-> got])]
          /\ UNCHANGED <<build, url, way, document, scraper, docs, pages, bucket>>
      BY <1>1, <2>2 DEF Load
    <3>2. result[b] \in Seq(Pages) /\ loaded[b] \in Seq([url : Pages, got : Pages])
      BY DEF TypeOK
    <3>3. page \in Pages
      <4>1. result[b][Len(loaded[b]) + 1] \in Pages
        BY <3>1, <3>2
      <4> QED BY <4>1, ScrapeAssumption
    <3> HIDE DEF page
    <3>4. got \in Pages
      <4>1. File[page] \in Files /\ Place(b) \in Buckets \cup Builds
        BY <3>3, WayType, ScrapeAssumption
      <4> QED BY <3>1, <4>1 DEF TypeOK
    <3> HIDE DEF got
    <3>5. Append(loaded[b], [url |-> page, got |-> got]) \in Seq([url : Pages, got : Pages])
      BY <3>2, <3>3, <3>4
    <3> QED BY <3>1, <3>5 DEF TypeOK, document, pages
  <2> QED BY <2>1, <2>2
<1>2. CASE \/ StartJob(b) \/ MarkActive(b) \/ Poll(b) \/ ReadOutcome(b) \/ Loaded(b)
           \/ StartCrawler(b) \/ Join(b) \/ GetDocs(b) \/ TimeOut(b)
           \/ StartCrawlerFails(b) \/ LaunchFails(b)
  <2>1. CASE StartJob(b) \/ StartCrawler(b)
    BY <2>1 DEF StartJob, StartCrawler, TypeOK, document, pages
  <2>2. CASE MarkActive(b)
    <3>1. <<>> \in Seq(Pages)
      OBVIOUS
    <3>2. result' \in [Builds -> Seq(Pages)]
      BY <2>2, <3>1 DEF MarkActive, TypeOK
    <3> QED BY <2>2, <3>2 DEF MarkActive, TypeOK, pages
  <2>3. CASE ReadOutcome(b)
    BY <2>3 DEF ReadOutcome, TypeOK, document, pages
  <2>4. CASE Poll(b) \/ Loaded(b) \/ TimeOut(b)
    BY <2>4 DEF Poll, Loaded, TimeOut, TypeOK, document, pages
  <2>5. CASE Join(b) \/ StartCrawlerFails(b)
    BY <2>5 DEF Join, StartCrawlerFails, TypeOK, document, pages
  <2>7. CASE LaunchFails(b)
    BY <2>7 DEF LaunchFails, TypeOK, document, pages
  <2>6. CASE GetDocs(b)
    <3>1. result' \in [Builds -> Seq(Pages)]
      BY <2>6 DEF GetDocs, TypeOK
    <3> QED BY <2>6, <3>1 DEF GetDocs, TypeOK, pages
  <2> QED BY <1>2, <2>1, <2>2, <2>3, <2>4, <2>5, <2>6, <2>7
<1> QED BY <1>1, <1>2 DEF Wait

LEMMA TruncatedType ==
  ASSUME NEW s \in Seq(Pages)
  PROVE  Truncated(s) \in Seq(Pages)
BY ScrapeAssumption DEF Truncated

Steps == {"unseen", "requested", "stored", "read", "links", "failed"}

LEMMA GotoType ==
  ASSUME TypeOK, NEW b \in Builds, NEW p \in Pages, NEW step \in Steps, Goto(b, p, step)
  PROVE  /\ at' \in [Builds -> [Pages -> Steps]] /\ at'[b][p] = step
         /\ \A q \in Pages \ {p} : at'[b][q] = at[b][q]
         /\ \A c \in Builds \ {b} : at'[c] = at[c]
<1>1. at \in [Builds -> [Pages -> Steps]] /\ at' = [at EXCEPT ![b][p] = step]
  BY DEF Goto, TypeOK, Steps
<1> QED BY <1>1, Updated

LEMMA FollowType ==
  ASSUME TypeOK, NEW b \in Builds, NEW p \in Pages, Follow(b, p)
  PROVE  /\ Goto(b, p, "links")
         /\ todo' \in [Builds -> [Pages -> SUBSET Pages]]
         /\ todo'[b][p] = IF Kind[p] = "html" /\ depth[b][p] < MaxDepth(b) THEN Links[p] ELSE {}
         /\ \A q \in Pages \ {p} : todo'[b][q] = todo[b][q]
         /\ \A c \in Builds \ {b} : todo'[c] = todo[c]
<1> DEFINE links == IF Kind[p] = "html" /\ depth[b][p] < MaxDepth(b) THEN Links[p] ELSE {}
<1>1. links \in SUBSET Pages /\ todo \in [Builds -> [Pages -> SUBSET Pages]]
  BY ScrapeAssumption DEF TypeOK
<1>2. todo' = [todo EXCEPT ![b][p] = links] /\ Goto(b, p, "links")
  BY DEF Follow
<1> HIDE DEF links
<1>3. /\ todo' \in [Builds -> [Pages -> SUBSET Pages]] /\ todo'[b][p] = links
      /\ \A q \in Pages \ {p} : todo'[b][q] = todo[b][q]
      /\ \A c \in Builds \ {b} : todo'[c] = todo[c]
  BY <1>1, <1>2, Updated
<1> QED BY <1>2, <1>3 DEF links

LEMMA PageType ==
  ASSUME TypeOK, NEW b \in Builds, Crawled(b), NEW p \in Pages,
         Handle(b, p) \/ FetchFails(b, p) \/ StoreFails(b, p)
  PROVE  TypeOK'
<1>1. CASE Ignore(b, p) \/ StoreFails(b, p)
  <2>1. /\ Follow(b, p)
        /\ UNCHANGED <<build, url, way, loaded, status, result, scraper, docs, depth, seen, bucket>>
    BY <1>1 DEF Ignore, StoreFails, builder, document
  <2> QED BY <2>1, FollowType, GotoType DEF TypeOK, Steps
<1>2. CASE FetchFails(b, p)
  <2>1. /\ Goto(b, p, "failed")
        /\ UNCHANGED <<build, url, way, loaded, status, result, scraper, docs, depth, todo>>
        /\ UNCHANGED <<seen, bucket>>
    BY <1>2 DEF FetchFails, builder, document
  <2> QED BY <2>1, GotoType DEF TypeOK, Steps
<1>3. CASE Store(b, p)
  <2>1. /\ Goto(b, p, "stored") /\ bucket' = [bucket EXCEPT ![Place(b)][Name(p)] = Final[p]]
        /\ UNCHANGED <<build, url, way, loaded, status, result, scraper, docs, depth, todo, seen>>
    BY <1>3 DEF Store, builder, document
  <2>2. Place(b) \in Buckets \cup Builds /\ Name(p) \in Files /\ Final[p] \in Pages
    BY WayType, ScrapeAssumption DEF Name
  <2>3. bucket' \in [Buckets \cup Builds -> [Files -> Pages \cup {NoPage}]]
    BY <2>1, <2>2, Updated DEF TypeOK
  <2> QED BY <2>1, <2>3, GotoType DEF TypeOK, Steps
<1>4. CASE ReadDocs(b, p)
  <2>1. /\ Goto(b, p, "read") /\ seen' = [seen EXCEPT ![b][p] = docs[b]]
        /\ UNCHANGED <<build, url, way, loaded, status, result, scraper, docs, depth, todo, bucket>>
    BY <1>4 DEF ReadDocs, builder, document
  <2>2. seen' \in [Builds -> [Pages -> Seq(Pages)]]
    BY <2>1, Updated DEF TypeOK
  <2> QED BY <2>1, <2>2, GotoType DEF TypeOK, Steps
<1>5. CASE AppendDocs(b, p)
  <2>1. /\ Follow(b, p) /\ docs' = [docs EXCEPT ![b] = Append(seen[b][p], p)]
        /\ seen' = [seen EXCEPT ![b][p] = <<>>]
        /\ UNCHANGED <<build, url, way, loaded, status, result, scraper, depth, bucket>>
    BY <1>5 DEF AppendDocs, builder, document
  <2>2. Append(seen[b][p], p) \in Seq(Pages) /\ <<>> \in Seq(Pages)
    BY DEF TypeOK
  <2>3. docs' \in [Builds -> Seq(Pages)]
    BY <2>1, <2>2 DEF TypeOK
  <2>4. seen' \in [Builds -> [Pages -> Seq(Pages)]]
    BY <2>1, <2>2, Updated DEF TypeOK
  <2> QED BY <2>1, <2>3, <2>4, FollowType, GotoType DEF TypeOK, Steps
<1>6. ASSUME NEW q \in Pages, VisitLink(b, p, q)
      PROVE  TypeOK'
  <2>1. /\ depth[b][p] \in 0 .. Depth + 1 /\ MaxDepth(b) \in 0 .. Depth + 1
        /\ depth[b][p] < MaxDepth(b)
    BY <1>6, WayType DEF VisitLink, Crawled, TypeOK
  <2>2. depth[b][p] + 1 \in 0 .. Depth + 1
    BY <2>1, ScrapeAssumption
  <2>3. /\ todo' = [todo EXCEPT ![b][p] = @ \ {q}]
        /\ \/ Goto(b, q, "requested") /\ depth' = [depth EXCEPT ![b][q] = depth[b][p] + 1]
           \/ UNCHANGED <<at, depth>>
        /\ UNCHANGED <<build, url, way, loaded, status, result, scraper, docs, seen, bucket>>
    BY <1>6 DEF VisitLink, builder, document
  <2>4. todo' \in [Builds -> [Pages -> SUBSET Pages]]
    BY <2>3 DEF TypeOK
  <2>5. depth' \in [Builds -> [Pages -> 0 .. Depth + 1]]
    <3>1. depth \in [Builds -> [Pages -> 0 .. Depth + 1]]
      BY DEF TypeOK
    <3>2. CASE depth' = [depth EXCEPT ![b][q] = depth[b][p] + 1]
      <4> DEFINE n == depth[b][p] + 1
      <4> HIDE DEF n
      <4>1. n \in 0 .. Depth + 1 /\ depth' = [depth EXCEPT ![b][q] = n]
        BY <2>2, <3>2 DEF n
      <4> QED BY <3>1, <4>1, Updated
    <3> QED BY <2>3, <3>1, <3>2
  <2>6. at' \in [Builds -> [Pages -> Steps]]
    BY <2>3, GotoType DEF TypeOK, Steps
  <2> QED BY <2>3, <2>4, <2>5, <2>6 DEF TypeOK, Steps
<1> QED BY <1>1, <1>2, <1>3, <1>4, <1>5, <1>6 DEF Handle

\* What is cleared of a bucket is some of what is in it, or all.
LEMMA Cleared ==
  ASSUME TypeOK, NEW b \in Builds, InitializeBucket(b) \/ InitializeBucketFails(b)
  PROVE  /\ bucket' \in [Buckets \cup Builds -> [Files -> Pages \cup {NoPage}]]
         /\ \A u \in Buckets \cup Builds, f \in Files :
              bucket'[u][f] # bucket[u][f] => bucket'[u][f] = NoPage /\ u = Place(b)
<1>1. /\ Place(b) \in Buckets \cup Builds
      /\ bucket \in [Buckets \cup Builds -> [Files -> Pages \cup {NoPage}]]
  BY WayType DEF TypeOK
<1>2. PICK some \in [Files -> Pages \cup {NoPage}] :
        /\ bucket' = [bucket EXCEPT ![Place(b)] = some]
        /\ \A f \in Files : some[f] \in {bucket[Place(b)][f], NoPage}
  <2>1. CASE InitializeBucket(b)
    <3> DEFINE none == [f \in Files |-> NoPage]
    <3>1. /\ none \in [Files -> Pages \cup {NoPage}] /\ \A f \in Files : none[f] = NoPage
          /\ bucket' = [bucket EXCEPT ![Place(b)] = none]
      BY <2>1 DEF InitializeBucket
    <3> HIDE DEF none
    <3> QED BY <3>1
  <2>2. CASE InitializeBucketFails(b)
    <3>1. PICK gone \in SUBSET {f \in Files : bucket[Place(b)][f] # NoPage} :
            bucket' = [bucket EXCEPT ![Place(b)] =
                         [f \in Files |-> IF f \in gone THEN NoPage ELSE @[f]]]
      BY <2>2 DEF InitializeBucketFails
    <3> DEFINE left == [f \in Files |-> IF f \in gone THEN NoPage ELSE bucket[Place(b)][f]]
    <3>2. left \in [Files -> Pages \cup {NoPage}]
      BY <1>1
    <3>3. \A f \in Files : left[f] \in {bucket[Place(b)][f], NoPage}
      OBVIOUS
    <3>4. bucket' = [bucket EXCEPT ![Place(b)] = left]
      BY <3>1
    <3> HIDE DEF left
    <3> QED BY <3>2, <3>3, <3>4
  <2> QED BY <2>1, <2>2
<1>3. bucket' \in [Buckets \cup Builds -> [Files -> Pages \cup {NoPage}]]
  BY <1>1, <1>2
<1>4. /\ bucket'[Place(b)] = some
      /\ \A u \in Buckets \cup Builds : u # Place(b) => bucket'[u] = bucket[u]
  BY <1>1, <1>2
<1> QED BY <1>2, <1>3, <1>4

LEMMA ScraperType ==
  ASSUME TypeOK, NEW b \in Builds,
         \/ InitializeBucket(b) \/ InitializeBucketFails(b) \/ SaveResults(b)
         \/ SaveResultsFails(b) \/ PodDies(b) \/ FetchJobDocumentFails(b)
  PROVE  TypeOK'
<1>1. CASE InitializeBucket(b) \/ InitializeBucketFails(b)
  <2>1. url[b] \in Pages /\ Place(b) \in Buckets \cup Builds
    BY WayType, ScrapeAssumption DEF TypeOK
  <2>2. /\ at' = [at EXCEPT ![b][url[b]] = "requested"]
        /\ scraper' = [scraper EXCEPT ![b] = "crawl"]
        /\ UNCHANGED <<build, url, way, loaded, result, docs, depth, todo, seen>>
        /\ status' \in {status, [status EXCEPT ![b] = "failed"]}
    BY <1>1 DEF InitializeBucket, InitializeBucketFails, UpdateJobError, VisitRoot, builder,
                document
  <2>3. at' \in [Builds -> [Pages -> Steps]]
    BY <2>1, <2>2, Updated DEF TypeOK, Steps
  <2>4. bucket' \in [Buckets \cup Builds -> [Files -> Pages \cup {NoPage}]]
    BY <1>1, Cleared
  <2>5. status' \in [Builds -> {"pending", "active", "succeeded", "failed", "gone"}]
    BY <2>2 DEF TypeOK
  <2> QED BY <2>2, <2>3, <2>4, <2>5 DEF TypeOK, Steps
<1>2. CASE SaveResults(b)
  <2>1. Truncated(docs[b]) \in Seq(Pages)
    BY TruncatedType DEF TypeOK
  <2> QED BY <1>2, <2>1 DEF SaveResults, Report, TypeOK, builder, pages
<1>3. CASE SaveResultsFails(b) \/ PodDies(b) \/ FetchJobDocumentFails(b)
  BY <1>3 DEF SaveResultsFails, PodDies, FetchJobDocumentFails, UpdateJobError, Report, TypeOK,
              builder, document, pages
<1> QED BY <1>1, <1>2, <1>3

\* What Handled does, in terms of each page.
LEMMA HandledType ==
  ASSUME TypeOK, NEW b \in Builds, NEW p, NEW links \in SUBSET Pages, NEW d \in Nat,
         links # {} => d \in 0 .. Depth + 1, Handled(b, p, links, d)
  PROVE  /\ at' \in [Builds -> [Pages -> Steps]]
         /\ depth' \in [Builds -> [Pages -> 0 .. Depth + 1]]
         /\ \A q \in Pages : q \in links /\ at[b][q] = "unseen" =>
              at'[b][q] = "requested" /\ depth'[b][q] = d
         /\ \A q \in Pages : ~(q \in links /\ at[b][q] = "unseen") =>
              /\ at'[b][q] = IF q = p THEN "links" ELSE at[b][q]
              /\ depth'[b][q] = depth[b][q]
         /\ \A c \in Builds \ {b} : at'[c] = at[c] /\ depth'[c] = depth[c]
<1> DEFINE new == {q \in links : at[b][q] = "unseen"}
           a == [q \in Pages |-> IF q \in new THEN "requested"
                                 ELSE IF q = p THEN "links" ELSE at[b][q]]
           e == [q \in Pages |-> IF q \in new THEN d ELSE depth[b][q]]
<1>1. at' = [at EXCEPT ![b] = a] /\ depth' = [depth EXCEPT ![b] = e]
  BY DEF Handled
<1>2. at \in [Builds -> [Pages -> Steps]] /\ depth \in [Builds -> [Pages -> 0 .. Depth + 1]]
  BY DEF TypeOK, Steps
<1>3. a \in [Pages -> Steps]
  BY <1>2 DEF Steps
<1>4. e \in [Pages -> 0 .. Depth + 1]
  BY <1>2
<1>5. \A q \in Pages :
        /\ a[q] = IF q \in new THEN "requested" ELSE IF q = p THEN "links" ELSE at[b][q]
        /\ e[q] = IF q \in new THEN d ELSE depth[b][q]
  OBVIOUS
<1> HIDE DEF a, e
<1>6. at' \in [Builds -> [Pages -> Steps]] /\ depth' \in [Builds -> [Pages -> 0 .. Depth + 1]]
  BY <1>1, <1>2, <1>3, <1>4
<1>7. /\ at'[b] = a /\ depth'[b] = e
      /\ \A c \in Builds \ {b} : at'[c] = at[c] /\ depth'[c] = depth[c]
  BY <1>1, <1>2
<1> QED BY <1>5, <1>6, <1>7

\* What a crawler process extracts, or is redirected to, it may request.
LEMMA ParseLinks ==
  ASSUME TypeOK, NEW b \in Builds, NEW p \in Pages, Answered(b, p)
  PROVE  \E links \in SUBSET Pages, d \in Nat :
           /\ Handled(b, p, links, d)
           /\ links # {} => d \in 0 .. Depth + 1
           /\ \/ links = {}
              \/ /\ Kind[p] = "html" /\ links \subseteq Links[p]
                 /\ d = depth[b][p] + 1 /\ d <= MaxDepth(b)
              \/ /\ links = {Final[p]} /\ Final[p] # p
                 /\ d = depth[b][p] /\ way[b] # "job"
<1>0. depth[b][p] \in 0 .. Depth + 1 /\ MaxDepth(b) \in 0 .. Depth + 1 /\ Depth \in Nat
  <2>1. depth[b][p] \in 0 .. Depth + 1
    BY DEF TypeOK
  <2> QED BY <2>1, WayType, ScrapeAssumption
<1>1. CASE Parse(b, p)
  <2>1. PICK links \in IF way[b] = "crawl" /\ depth[b][p] < MaxDepth(b)
                       THEN Extracts(p) ELSE {{}} :
          Handled(b, p, links, depth[b][p] + 1)
    BY <1>1 DEF Parse
  <2>2. links # {} => /\ Kind[p] = "html" /\ links \subseteq Links[p]
                      /\ depth[b][p] < MaxDepth(b)
    BY <2>1 DEF Extracts
  <2>3. links \in SUBSET Pages
    BY <2>2, ScrapeAssumption
  <2>4. /\ depth[b][p] + 1 \in Nat
        /\ links # {} => depth[b][p] + 1 <= MaxDepth(b) /\ depth[b][p] + 1 \in 0 .. Depth + 1
    BY <1>0, <2>2
  <2> QED BY <2>1, <2>2, <2>3, <2>4
<1>2. CASE Redirected(b, p)
  <2>1. {Final[p]} \in SUBSET Pages /\ depth[b][p] \in Nat
    BY <1>0, ScrapeAssumption
  <2>2. Handled(b, p, {Final[p]}, depth[b][p]) /\ Final[p] # p /\ way[b] # "job"
    BY <1>2 DEF Redirected, Crawling
  <2> QED BY <1>0, <2>1, <2>2
<1> QED BY <1>1, <1>2 DEF Answered

LEMMA FirstRequests ==
  ASSUME TypeOK, NEW b \in Builds, StartRequests(b)
  PROVE  \/ UNCHANGED <<at, depth>>
         \/ Handled(b, NoPage, {url[b]}, 0)
         \/ \E links \in SUBSET Pages :
              /\ Handled(b, NoPage, links, 1)
              /\ links # {} => Kind[url[b]] = "html" /\ links \subseteq Links[url[b]]
              /\ 1 <= MaxDepth(b)
<1>1. CASE way[b] = "crawl" /\ \E links \in Extracts(url[b]) : Handled(b, NoPage, links, 1)
  <2>1. PICK links \in Extracts(url[b]) : Handled(b, NoPage, links, 1)
    BY <1>1
  <2>2. links # {} => Kind[url[b]] = "html" /\ links \subseteq Links[url[b]]
    BY <2>1 DEF Extracts
  <2>3. url[b] \in Pages /\ 1 <= MaxDepth(b)
    <3>1. url[b] \in Pages
      BY ScrapeAssumption DEF TypeOK
    <3>2. MaxDepth(b) = Depth /\ Depth \in Nat \ {0}
      BY <1>1, WayType, ScrapeAssumption
    <3> QED BY <3>1, <3>2
  <2>4. links \in SUBSET Pages
    BY <2>2, <2>3, ScrapeAssumption
  <2> QED BY <2>1, <2>2, <2>3, <2>4
<1> QED BY <1>1 DEF StartRequests

LEMMA CrawlerType ==
  ASSUME TypeOK, NEW b \in Builds,
         \/ StartRequests(b) \/ PutDocs(b) \/ CloseSpider(b)
         \/ \E p \in Pages : Answered(b, p) \/ ParseFails(b, p)
  PROVE  TypeOK'
<1>1. CASE StartRequests(b)
  <2>1. /\ scraper' = [scraper EXCEPT ![b] = "crawl"]
        /\ UNCHANGED <<build, url, way, loaded, status, result, docs, todo, seen, bucket>>
    BY <1>1 DEF StartRequests, builder, document
  <2>2. at' \in [Builds -> [Pages -> Steps]] /\ depth' \in [Builds -> [Pages -> 0 .. Depth + 1]]
    <3>1. {url[b]} \in SUBSET Pages /\ 0 \in 0 .. Depth + 1 /\ 1 \in 0 .. Depth + 1
      BY ScrapeAssumption DEF TypeOK
    <3>2. CASE UNCHANGED <<at, depth>>
      BY <3>2 DEF TypeOK, Steps
    <3>3. CASE ~UNCHANGED <<at, depth>>
      BY <1>1, <3>1, <3>3, FirstRequests, HandledType
    <3> QED BY <3>2, <3>3
  <2> QED BY <2>1, <2>2 DEF TypeOK, Steps
<1>2. ASSUME NEW p \in Pages, Answered(b, p)
      PROVE  TypeOK'
  <2>1. UNCHANGED <<build, url, way, loaded, status, result, scraper, todo, seen>>
    BY <1>2 DEF Parse, Answered, Redirected, builder, document
  <2>2. at' \in [Builds -> [Pages -> Steps]] /\ depth' \in [Builds -> [Pages -> 0 .. Depth + 1]]
    <3>1. PICK links \in SUBSET Pages, d \in Nat :
            Handled(b, p, links, d) /\ (links # {} => d \in 0 .. Depth + 1)
      BY <1>2, ParseLinks
    <3> QED BY <3>1, HandledType
  <2>3. docs' \in [Builds -> Seq(Pages)]
    <3>1. Append(docs[b], p) \in Seq(Pages)
      BY DEF TypeOK
    <3>2. docs' = docs \/ docs' = [docs EXCEPT ![b] = Append(docs[b], p)]
      BY <1>2 DEF Answered, Redirected, Parse
    <3> QED BY <3>1, <3>2 DEF TypeOK
  <2>4. bucket' \in [Buckets \cup Builds -> [Files -> Pages \cup {NoPage}]]
    <3>1. bucket' = bucket \/ bucket' = [bucket EXCEPT ![Place(b)][File[p]] = p]
      BY <1>2 DEF Answered, Redirected, Parse
    <3>2. /\ Place(b) \in Buckets \cup Builds /\ File[p] \in Files
          /\ bucket \in [Buckets \cup Builds -> [Files -> Pages \cup {NoPage}]]
      BY WayType, ScrapeAssumption DEF TypeOK
    <3> QED BY <3>1, <3>2, Updated
  <2> QED BY <2>1, <2>2, <2>3, <2>4 DEF TypeOK, Steps
<1>3. ASSUME NEW p \in Pages, ParseFails(b, p)
      PROVE  TypeOK'
  <2>1. /\ Goto(b, p, "failed")
        /\ UNCHANGED <<build, url, way, loaded, status, result, scraper, docs, depth, todo, seen>>
    BY <1>3 DEF ParseFails, builder, document
  <2>2. bucket' \in [Buckets \cup Builds -> [Files -> Pages \cup {NoPage}]]
    <3>1. bucket' = bucket \/ bucket' = [bucket EXCEPT ![Place(b)][File[p]] = p]
      BY <1>3 DEF ParseFails
    <3>2. /\ Place(b) \in Buckets \cup Builds /\ File[p] \in Files
          /\ bucket \in [Buckets \cup Builds -> [Files -> Pages \cup {NoPage}]]
      BY WayType, ScrapeAssumption DEF TypeOK
    <3> QED BY <3>1, <3>2, Updated
  <2> QED BY <2>1, <2>2, GotoType DEF TypeOK, Steps
<1>4. CASE CloseSpider(b)
  <2>1. at' \in [Builds -> [Pages -> Steps]]
    BY <1>4 DEF CloseSpider, TypeOK, Steps
  <2> QED BY <1>4, <2>1 DEF CloseSpider, TypeOK, Steps, builder, document
<1>5. CASE PutDocs(b)
  BY <1>5 DEF PutDocs, TypeOK, builder, document, pages
<1> QED BY <1>1, <1>2, <1>3, <1>4, <1>5

LEMMA StepType ==
  ASSUME IInv, NEW b \in Builds, Step(b)
  PROVE  TypeOK'
<1>1. TypeOK /\ Crawled(b)
  BY DEF IInv, BuildInv
<1> QED BY <1>1, WaitType, PageType, ScraperType, CrawlerType
  DEF Step, Scrape, Fails, Answered

-----------------------------------------------------------------------------
(* The crawl and its report *)

\* Where a build gets its pages from, and where they are, never changes.
LEMMA WayKept ==
  ASSUME NEW b \in Builds, Step(b)
  PROVE  /\ way' = way
         /\ \A c \in Builds : Place(c)' = Place(c) /\ MaxDepth(c)' = MaxDepth(c)
<1>1. way' = way
  <2>1. CASE Wait(b) \/ TimeOut(b) \/ StartCrawlerFails(b) \/ LaunchFails(b)
    BY <2>1 DEF Wait, StartJob, MarkActive, Poll, ReadOutcome, Load, Loaded, TimeOut,
                StartCrawler, StartCrawlerFails, LaunchFails, Join, GetDocs
  <2>2. CASE ~(Wait(b) \/ TimeOut(b) \/ StartCrawlerFails(b) \/ LaunchFails(b))
    BY <2>2 DEF Step, Scrape, Fails, Handle, InitializeBucket, InitializeBucketFails, Ignore,
                Store, StoreFails, ReadDocs, AppendDocs, VisitLink, FetchFails, SaveResults,
                SaveResultsFails, PodDies, FetchJobDocumentFails, UpdateJobError,
                StartRequests, Parse, Answered, Redirected, ParseFails, CloseSpider,
                PutDocs, builder
  <2> QED BY <2>1, <2>2
<1> QED BY <1>1 DEF Place, MaxDepth

Untouched(c) ==
  /\ build'[c] = build[c] /\ url'[c] = url[c] /\ way'[c] = way[c]
  /\ status'[c] = status[c] /\ result'[c] = result[c]
  /\ scraper'[c] = scraper[c] /\ docs'[c] = docs[c]
  /\ at'[c] = at[c] /\ depth'[c] = depth[c] /\ todo'[c] = todo[c]
  /\ seen'[c] = seen[c] /\ loaded'[c] = loaded[c]

\* A build and its scraper write what is theirs.
LEMMA Alone ==
  ASSUME TypeOK, NEW b \in Builds, Step(b), NEW c \in Builds \ {b}
  PROVE  Untouched(c)
<1>1. CASE Wait(b) \/ TimeOut(b) \/ StartCrawlerFails(b) \/ LaunchFails(b)
  BY <1>1 DEF Untouched, Wait, StartJob, MarkActive, Poll, ReadOutcome, Load, Loaded,
              TimeOut, StartCrawler, StartCrawlerFails, LaunchFails, Join, GetDocs, builder,
              document, pages, TypeOK
<1>2. CASE \/ InitializeBucket(b) \/ InitializeBucketFails(b) \/ SaveResults(b)
           \/ SaveResultsFails(b) \/ PodDies(b) \/ FetchJobDocumentFails(b)
  BY <1>2 DEF Untouched, InitializeBucket, InitializeBucketFails, VisitRoot, SaveResults,
              SaveResultsFails, PodDies, FetchJobDocumentFails, UpdateJobError, Report,
              builder, document, pages, TypeOK
<1>3. ASSUME NEW p \in Pages, Handle(b, p) \/ FetchFails(b, p) \/ StoreFails(b, p)
      PROVE  Untouched(c)
  BY <1>3 DEF Untouched, Handle, Ignore, Store, ReadDocs, AppendDocs, VisitLink, FetchFails,
              StoreFails, Follow, Goto, builder, document, TypeOK
<1>4. CASE \/ StartRequests(b) \/ PutDocs(b) \/ CloseSpider(b)
           \/ \E p \in Pages : Answered(b, p) \/ ParseFails(b, p)
  BY <1>4 DEF Untouched, StartRequests, PutDocs, CloseSpider, Parse, Answered, Redirected,
              ParseFails, Handled, Goto, builder, document, pages, TypeOK
<1> QED BY <1>1, <1>2, <1>3, <1>4 DEF Step, Scrape, Fails, Answered

LEMMA Others ==
  ASSUME TypeOK, NEW b \in Builds, Step(b), NEW c \in Builds \ {b}, BuildInv(c)
  PROVE  BuildInv(c)'
<1>1. Untouched(c)
  BY Alone
<1>2. MaxDepth(c)' = MaxDepth(c)
  BY WayKept
<1>3. Visited(c)' = Visited(c)
  BY <1>1 DEF Untouched, Visited
<1>4. Crawled(c)'
  BY <1>1, <1>2 DEF Untouched, BuildInv, Crawled
<1>5. Reached(c)'
  BY <1>1, <1>2, <1>3 DEF Untouched, BuildInv, Reached, Reason
<1>6. Reported(c)'
  BY <1>1, <1>3 DEF Untouched, BuildInv, Reported, Quiet, Truncated
<1> QED BY <1>4, <1>5, <1>6 DEF BuildInv

\* A reason lasts while pages are requested.
LEMMA ReasonStays ==
  ASSUME NEW b \in Builds, NEW p, NEW d, Reason(b, p, d),
         UNCHANGED <<url, way>>,
         \A q \in Visited(b) : q \in Visited(b)' /\ depth'[b][q] = depth[b][q]
  PROVE  Reason(b, p, d)'
<1>1. MaxDepth(b)' = MaxDepth(b)
  BY DEF MaxDepth
<1> QED BY <1>1 DEF Reason

\* The build's own steps, and the end of its scrape.
LEMMA QuietStep ==
  ASSUME TypeOK, NEW b \in Builds, BuildInv(b),
         \/ Wait(b) \/ TimeOut(b) \/ StartCrawlerFails(b) \/ LaunchFails(b) \/ PutDocs(b)
         \/ SaveResults(b) \/ SaveResultsFails(b) \/ PodDies(b) \/ FetchJobDocumentFails(b)
  PROVE  BuildInv(b)'
<1>1. UNCHANGED <<url, way, docs, at, depth, todo>>
  BY DEF Wait, StartJob, MarkActive, Poll, ReadOutcome, Load, Loaded, TimeOut,
         StartCrawler, StartCrawlerFails, LaunchFails, Join, GetDocs, PutDocs,
         SaveResults, SaveResultsFails, PodDies, FetchJobDocumentFails, UpdateJobError,
         builder, pages
<1>2. Reached(b)'
  BY <1>1 DEF BuildInv, Reached, Reason, Visited, MaxDepth
<1>3. Crawled(b)'
  BY <1>1 DEF BuildInv, Crawled, Wait, StartJob, MarkActive, Poll, ReadOutcome, Load,
              Loaded, TimeOut, StartCrawler, StartCrawlerFails, LaunchFails, Join, GetDocs,
              PutDocs, SaveResults, SaveResultsFails, PodDies, FetchJobDocumentFails,
              UpdateJobError, Report, builder, document, MaxDepth,
              TypeOK
<1>4. Reported(b)'
  <2>1. CASE SaveResults(b)
    <3>1. /\ Quiet(b)' /\ scraper'[b] = "exit"
          /\ result'[b] = Truncated(docs[b])
      BY <1>1, <2>1 DEF SaveResults, Report, Quiet, Visited, TypeOK
    <3> QED BY <1>1, <3>1 DEF Reported, Truncated
  <2>2. CASE ~SaveResults(b)
    <3>1. status'[b] = "succeeded" =>
            /\ status[b] = "succeeded" /\ result'[b] = result[b]
            /\ scraper[b] = "exit" => scraper'[b] = "exit"
      <4>1. CASE StartJob(b)
        BY <4>1 DEF StartJob, BuildInv, Crawled, Reported, document
      <4>2. CASE \/ MarkActive(b) \/ Poll(b) \/ ReadOutcome(b) \/ Load(b) \/ Loaded(b) \/ Join(b)
                 \/ TimeOut(b) \/ StartCrawlerFails(b) \/ LaunchFails(b) \/ SaveResultsFails(b)
                 \/ PodDies(b) \/ FetchJobDocumentFails(b) \/ PutDocs(b)
        BY <4>2 DEF MarkActive, Poll, ReadOutcome, Load, Loaded, Join, TimeOut,
                    StartCrawlerFails, LaunchFails, SaveResultsFails, PodDies,
                    FetchJobDocumentFails, UpdateJobError, PutDocs, Report, document,
                    TypeOK
      <4>3. CASE StartCrawler(b) \/ GetDocs(b)
        <5>1. status'[b] = "pending"
          <6>1. way[b] # "job" /\ status' = status
            <7>1. CASE StartCrawler(b)
              BY <7>1 DEF StartCrawler, document
            <7>2. CASE GetDocs(b)
              BY <7>2 DEF GetDocs, BuildInv, Crawled
            <7> QED BY <4>3, <7>1, <7>2
          <6> QED BY <6>1 DEF BuildInv, Crawled
        <5> QED BY <5>1
      <4> QED BY <2>2, <4>1, <4>2, <4>3 DEF Wait
    <3> QED BY <1>1, <3>1 DEF BuildInv, Reported, Quiet, Visited, Truncated
  <2> QED BY <2>1, <2>2
<1> QED BY <1>2, <1>3, <1>4 DEF BuildInv

\* The first request.
LEMMA RootStep ==
  ASSUME TypeOK, NEW b \in Builds, BuildInv(b),
         InitializeBucket(b) \/ InitializeBucketFails(b)
  PROVE  BuildInv(b)'
<1>1. /\ scraper[b] = "start" /\ scraper'[b] = "crawl" /\ build' = build
      /\ at' = [at EXCEPT ![b][url[b]] = "requested"]
      /\ UNCHANGED <<url, way, depth, todo>>
      /\ status'[b] \in {status[b], "failed"}
  BY DEF InitializeBucket, InitializeBucketFails, UpdateJobError, VisitRoot, builder, document,
         TypeOK
<1>7. way[b] = "job"
  BY DEF InitializeBucket, InitializeBucketFails
<1>2. url[b] \in Pages
  BY ScrapeAssumption DEF TypeOK
<1>3. /\ at'[b][url[b]] = "requested"
      /\ \A p \in Pages \ {url[b]} : at'[b][p] = at[b][p]
  BY <1>1, <1>2 DEF TypeOK
<1>4. Crawled(b)'
  BY <1>1, <1>2, <1>3, <1>7 DEF BuildInv, Crawled, MaxDepth
<1>5. Reached(b)'
  BY <1>1, <1>2, <1>3 DEF BuildInv, Crawled, Reached, Reason, Visited
<1>6. Reported(b)'
  BY <1>1 DEF BuildInv, Reported
<1> QED BY <1>4, <1>5, <1>6 DEF BuildInv

\* A handler goes on with its page.
LEMMA PageStep ==
  ASSUME TypeOK, NEW b \in Builds, BuildInv(b), NEW p \in Pages,
         \/ Ignore(b, p) \/ Store(b, p) \/ ReadDocs(b, p) \/ AppendDocs(b, p)
         \/ FetchFails(b, p) \/ StoreFails(b, p) \/ ParseFails(b, p)
  PROVE  BuildInv(b)'
<1>1. /\ scraper[b] = "crawl" /\ UNCHANGED <<build, url, way, status, scraper, depth>>
      /\ at[b][p] \in {"requested", "stored", "read"}
  BY DEF Ignore, Store, ReadDocs, AppendDocs, FetchFails, StoreFails, ParseFails, Handler,
         Response, Crawling, builder, document
<1>6. MaxDepth(b)' = MaxDepth(b)
  BY <1>1 DEF MaxDepth
<1>2. /\ at'[b][p] \in {"stored", "read", "links", "failed"}
      /\ \A q \in Pages \ {p} : at'[b][q] = at[b][q] /\ todo'[b][q] = todo[b][q]
      /\ \/ todo'[b][p] = todo[b][p]
         \/ /\ at'[b][p] = "links"
            /\ todo'[b][p] = IF Kind[p] = "html" /\ depth[b][p] < MaxDepth(b)
                             THEN Links[p] ELSE {}
  <2>1. CASE Ignore(b, p) \/ StoreFails(b, p) \/ AppendDocs(b, p)
    <3>1. Follow(b, p)
      BY <2>1 DEF Ignore, StoreFails, AppendDocs
    <3> QED BY <3>1, FollowType, GotoType DEF Steps
  <2>2. CASE Store(b, p) \/ ReadDocs(b, p) \/ FetchFails(b, p) \/ ParseFails(b, p)
    <3>1. /\ todo' = todo
          /\ Goto(b, p, "stored") \/ Goto(b, p, "read") \/ Goto(b, p, "failed")
      BY <2>2 DEF Store, ReadDocs, FetchFails, ParseFails
    <3> QED BY <3>1, GotoType DEF Steps
  <2> QED BY <2>1, <2>2
<1>3. Crawled(b)'
  BY <1>1, <1>2, <1>6 DEF BuildInv, Crawled
<1>4. Reached(b)'
  <2>1. Visited(b)' = Visited(b)
    BY <1>1, <1>2 DEF Visited
  <2> QED BY <1>1, <1>6, <2>1 DEF BuildInv, Reached, Reason
<1>5. Reported(b)'
  BY <1>1 DEF BuildInv, Reported
<1> QED BY <1>3, <1>4, <1>5 DEF BuildInv

\* A link is followed to a page one level deeper.
LEMMA LinkStep ==
  ASSUME TypeOK, NEW b \in Builds, BuildInv(b), NEW p \in Pages, NEW q \in Pages,
         VisitLink(b, p, q)
  PROVE  BuildInv(b)'
<1>1. /\ scraper[b] = "crawl" /\ UNCHANGED <<build, url, way, status, scraper>>
      /\ at[b][p] = "links" /\ q \in todo[b][p]
      /\ todo' = [todo EXCEPT ![b][p] = @ \ {q}]
  BY DEF VisitLink, Handler, builder, document
<1>2. q \in Links[p] /\ Kind[p] = "html" /\ depth[b][p] < MaxDepth(b)
  BY <1>1 DEF BuildInv, Crawled
<1>3. /\ todo'[b][p] = todo[b][p] \ {q}
      /\ \A r \in Pages \ {p} : todo'[b][r] = todo[b][r]
  BY <1>1 DEF TypeOK
<1>4. Reported(b)'
  BY <1>1 DEF BuildInv, Reported
<1>7. MaxDepth(b)' = MaxDepth(b)
  BY <1>1 DEF MaxDepth
<1>5. CASE at[b][q] # "unseen"
  <2>1. UNCHANGED <<at, depth>>
    BY <1>5 DEF VisitLink
  <2>2. Crawled(b)' /\ Reached(b)'
    BY <1>1, <1>3, <1>7, <2>1 DEF BuildInv, Crawled, Reached, Reason, Visited
  <2> QED BY <1>4, <2>2 DEF BuildInv
<1>6. CASE at[b][q] = "unseen"
  <2>1. /\ at'[b][q] = "requested" /\ depth'[b][q] = depth[b][p] + 1
        /\ \A r \in Pages \ {q} : at'[b][r] = at[b][r] /\ depth'[b][r] = depth[b][r]
    BY <1>6 DEF VisitLink, Goto, TypeOK
  <2>2. p # q
    BY <1>1, <1>6
  <2>3. Crawled(b)'
    BY <1>1, <1>3, <1>6, <1>7, <2>1, <2>2 DEF BuildInv, Crawled
  <2>4. depth[b][p] + 1 <= MaxDepth(b)
    BY <1>2, ScrapeAssumption DEF TypeOK, MaxDepth
  <2>5. ASSUME NEW r \in Visited(b)'
        PROVE  Reason(b, r, depth[b][r])'
    <3>1. p \in Visited(b)' /\ Visited(b) \subseteq Visited(b)'
      BY <1>1, <2>1, <2>2 DEF Visited
    <3>2. CASE r = q
      BY <1>2, <1>7, <2>1, <2>2, <2>4, <3>1, <3>2 DEF Reason
    <3>3. CASE r # q
      <4>1. r \in Visited(b) /\ depth'[b][r] = depth[b][r]
        BY <2>1, <3>3 DEF Visited
      <4>2. q \notin Visited(b) /\ \A s \in Visited(b) : depth'[b][s] = depth[b][s]
        BY <1>6, <2>1 DEF Visited
      <4>3. PICK d : d = depth[b][r] /\ Reason(b, r, d)
        BY <4>1 DEF BuildInv, Reached
      <4>4. Reason(b, r, d)'
        BY <1>1, <3>1, <4>2, <4>3, ReasonStays
      <4> QED BY <4>1, <4>3, <4>4
    <3> QED BY <3>2, <3>3
  <2>6. Reached(b)'
    BY <1>7, <2>5 DEF Reached
  <2> QED BY <1>4, <2>3, <2>6 DEF BuildInv
<1> QED BY <1>5, <1>6

\* A crawler process requests pages, or gives them up.
LEMMA CrawlerStep ==
  ASSUME TypeOK, NEW b \in Builds, BuildInv(b),
         \/ StartRequests(b) \/ CloseSpider(b)
         \/ \E p \in Pages : Answered(b, p)
  PROVE  BuildInv(b)'
<1>1. /\ scraper[b] \in {"start", "crawl"} /\ scraper'[b] = "crawl"
      /\ UNCHANGED <<build, url, way, status, todo>>
  BY DEF StartRequests, CloseSpider, Parse, Answered, Redirected, Crawling, builder, document,
         TypeOK
<1>2. MaxDepth(b)' = MaxDepth(b)
  BY <1>1 DEF MaxDepth
<1>3. Reported(b)'
  BY <1>1 DEF BuildInv, Reported
<1>4. CASE CloseSpider(b)
  <2>1. /\ depth' = depth
        /\ \A p \in Pages : at'[b][p] = IF at[b][p] = "requested" THEN "failed" ELSE at[b][p]
    BY <1>4 DEF CloseSpider, TypeOK
  <2>2. Visited(b)' = Visited(b)
    BY <2>1 DEF Visited
  <2>3. Crawled(b)'
    BY <1>1, <1>2, <2>1 DEF BuildInv, Crawled
  <2>4. Reached(b)'
    BY <1>1, <1>2, <2>1, <2>2 DEF BuildInv, Reached, Reason
  <2> QED BY <1>3, <2>3, <2>4 DEF BuildInv
<1>5. ASSUME NEW p, NEW links \in SUBSET Pages, NEW d \in Nat,
             links # {} => d \in 0 .. Depth + 1,
             Handled(b, p, links, d),
             \A r \in links : Reason(b, r, d),
             p \in Pages => at[b][p] # "unseen"
      PROVE  BuildInv(b)'
  <2>1. /\ \A q \in Pages : q \in links /\ at[b][q] = "unseen" =>
             at'[b][q] = "requested" /\ depth'[b][q] = d
        /\ \A q \in Pages : ~(q \in links /\ at[b][q] = "unseen") =>
             /\ at'[b][q] = IF q = p THEN "links" ELSE at[b][q]
             /\ depth'[b][q] = depth[b][q]
    <3>1. links # {} => d \in 0 .. Depth + 1
      BY <1>5
    <3>2. Handled(b, p, links, d)
      BY <1>5
    <3> QED BY <3>1, <3>2, HandledType
  <2>2. Crawled(b)'
    BY <1>1, <1>2, <1>5, <2>1 DEF BuildInv, Crawled
  <2>3. /\ Visited(b) \subseteq Visited(b)'
        /\ \A q \in Visited(b) : depth'[b][q] = depth[b][q]
    BY <1>5, <2>1 DEF Visited
  <2>4. ASSUME NEW r \in Visited(b)'
        PROVE  Reason(b, r, depth[b][r])'
    <3>1. PICK x : x = depth'[b][r] /\ Reason(b, r, x)
      <4>1. CASE r \in Visited(b)
        BY <2>3, <4>1 DEF BuildInv, Reached
      <4>2. CASE r \notin Visited(b)
        <5>1. r \in links /\ depth'[b][r] = d
          BY <1>5, <2>1, <4>2 DEF Visited
        <5> QED BY <1>5, <5>1
      <4> QED BY <4>1, <4>2
    <3>2. Reason(b, r, x)'
      BY <1>1, <2>3, <3>1, ReasonStays
    <3> QED BY <3>1, <3>2
  <2>5. Reached(b)'
    BY <2>4 DEF Reached
  <2> QED BY <1>3, <2>2, <2>5 DEF BuildInv
<1>6. CASE StartRequests(b)
  <2>1. CASE UNCHANGED <<at, depth>>
    <3>1. Crawled(b)' /\ Reached(b)'
      BY <1>1, <1>2, <2>1, <1>6 DEF BuildInv, Crawled, Reached, Reason, Visited, StartRequests
    <3> QED BY <1>3, <3>1 DEF BuildInv
  <2>2. CASE Handled(b, NoPage, {url[b]}, 0)
    <3>1. {url[b]} \in SUBSET Pages /\ 0 \in 0 .. Depth + 1 /\ NoPage \notin Pages
      BY ScrapeAssumption DEF TypeOK
    <3>2. Reason(b, url[b], 0)
      BY DEF Reason
    <3> QED BY <1>5, <2>2, <3>1, <3>2
  <2>3. CASE ~UNCHANGED <<at, depth>> /\ ~Handled(b, NoPage, {url[b]}, 0)
    <3>1. PICK links \in SUBSET Pages :
            /\ Handled(b, NoPage, links, 1)
            /\ links # {} => Kind[url[b]] = "html" /\ links \subseteq Links[url[b]]
            /\ 1 <= MaxDepth(b)
      BY <1>6, <2>3, FirstRequests
    <3>2. 1 \in 0 .. Depth + 1 /\ NoPage \notin Pages
      BY ScrapeAssumption
    <3>3. \A r \in links : Reason(b, r, 1)
      BY <3>1 DEF Reason
    <3> QED BY <1>5, <3>1, <3>2, <3>3
  <2> QED BY <2>1, <2>2, <2>3
<1>7. ASSUME NEW p \in Pages, Answered(b, p)
      PROVE  BuildInv(b)'
  <2>1. PICK links \in SUBSET Pages, d \in Nat :
          /\ Handled(b, p, links, d)
          /\ links # {} => d \in 0 .. Depth + 1
          /\ \/ links = {}
             \/ /\ Kind[p] = "html" /\ links \subseteq Links[p]
                /\ d = depth[b][p] + 1 /\ d <= MaxDepth(b)
             \/ /\ links = {Final[p]} /\ Final[p] # p
                /\ d = depth[b][p] /\ way[b] # "job"
    BY <1>7, ParseLinks
  <2>2. at[b][p] # "unseen" /\ p \in Visited(b)
    BY <1>7 DEF Parse, Answered, Redirected, Crawling, Visited
  <2>3. depth[b][p] <= MaxDepth(b)
    <3>1. Reason(b, p, depth[b][p]) /\ MaxDepth(b) \in Nat
      BY <2>2, WayType, ScrapeAssumption DEF BuildInv, Reached
    <3> QED BY <3>1 DEF Reason
  <2>4. \A r \in links : Reason(b, r, d)
    BY <2>1, <2>2, <2>3 DEF Reason
  <2> QED BY <1>5, <2>1, <2>2, <2>4
<1> QED BY <1>4, <1>6, <1>7

LEMMA StepBuilds ==
  ASSUME IInv, NEW b \in Builds, Step(b)
  PROVE  \A c \in Builds : BuildInv(c)'
<1>1. TypeOK /\ \A c \in Builds : BuildInv(c)
  BY DEF IInv
<1>2. BuildInv(b)'
  BY <1>1, QuietStep, RootStep, PageStep, LinkStep, CrawlerStep
  DEF Step, Scrape, Fails, Handle, Answered
<1> QED BY <1>1, <1>2, Others

-----------------------------------------------------------------------------
(* What is in the buckets, and what has been read from them *)

\* No page is ever forgotten.
LEMMA StillRequested ==
  ASSUME TypeOK, NEW b \in Builds, Step(b), NEW u, NEW f, NEW q, Requested(u, f, q)
  PROVE  Requested(u, f, q)'
<1>1. \/ at' = at
      \/ \E p \in Pages, step \in Steps \ {"unseen"} : Goto(b, p, step)
      \/ StartRequests(b) \/ CloseSpider(b) \/ \E p \in Pages : Answered(b, p)
  <2>1. CASE Wait(b) \/ TimeOut(b) \/ StartCrawlerFails(b) \/ LaunchFails(b) \/ PutDocs(b)
    BY <2>1 DEF Wait, StartJob, MarkActive, Poll, ReadOutcome, Load, Loaded, TimeOut,
                StartCrawler, StartCrawlerFails, LaunchFails, Join, GetDocs, PutDocs, pages
  <2>2. CASE InitializeBucket(b) \/ InitializeBucketFails(b)
    <3>1. Goto(b, url[b], "requested") /\ url[b] \in Pages
      BY <2>2, ScrapeAssumption
      DEF InitializeBucket, InitializeBucketFails, UpdateJobError, VisitRoot, Goto, TypeOK
    <3> QED BY <3>1 DEF Steps
  <2>3. CASE SaveResults(b) \/ SaveResultsFails(b) \/ PodDies(b) \/ FetchJobDocumentFails(b)
    BY <2>3 DEF SaveResults, SaveResultsFails, PodDies, FetchJobDocumentFails, UpdateJobError,
                pages
  <2>4. ASSUME NEW p \in Pages,
               Handle(b, p) \/ FetchFails(b, p) \/ StoreFails(b, p) \/ ParseFails(b, p)
        PROVE  \/ at' = at
               \/ \E x \in Pages, step \in Steps \ {"unseen"} : Goto(b, x, step)
    BY <2>4 DEF Handle, Ignore, Store, ReadDocs, AppendDocs, VisitLink, FetchFails,
                StoreFails, ParseFails, Follow, Steps
  <2> QED BY <2>1, <2>2, <2>3, <2>4 DEF Step, Scrape, Fails, Answered
<1>2. ASSUME NEW c \in Builds, NEW p \in Pages, at[c][p] # "unseen"
      PROVE  at'[c][p] # "unseen"
  <2>1. CASE StartRequests(b)
    <3>1. {url[b]} \in SUBSET Pages /\ 0 \in 0 .. Depth + 1 /\ 1 \in 0 .. Depth + 1
      BY ScrapeAssumption DEF TypeOK
    <3>2. CASE UNCHANGED <<at, depth>>
      BY <1>2, <3>2
    <3>3. CASE ~UNCHANGED <<at, depth>>
      <4>1. PICK links \in SUBSET Pages, d \in {0, 1} : Handled(b, NoPage, links, d)
        BY <2>1, <3>1, <3>3, FirstRequests
      <4> QED BY <1>2, <3>1, <4>1, HandledType
    <3> QED BY <3>2, <3>3
  <2>2. ASSUME NEW r \in Pages, Answered(b, r)
        PROVE  at'[c][p] # "unseen"
    <3>1. PICK links \in SUBSET Pages, d \in Nat :
            Handled(b, r, links, d) /\ (links # {} => d \in 0 .. Depth + 1)
      BY <2>2, ParseLinks
    <3> QED BY <1>2, <3>1, HandledType
  <2>3. CASE CloseSpider(b)
    BY <1>2, <2>3 DEF CloseSpider, TypeOK
  <2>4. CASE at' = at \/ \E x \in Pages, step \in Steps \ {"unseen"} : Goto(b, x, step)
    BY <1>2, <2>4, GotoType
  <2> QED BY <1>1, <2>1, <2>2, <2>3, <2>4
<1> QED BY <1>2, WayKept DEF Requested, Visited

LEMMA StepStored ==
  ASSUME IInv, NEW b \in Builds, Step(b)
  PROVE  StoredInv'
<1>1. TypeOK /\ StoredInv
  BY DEF IInv
<1>2. ASSUME NEW u \in Buckets \cup Builds, NEW f \in Files
      PROVE  (bucket[u][f] = NoPage \/ Requested(u, f, bucket[u][f]))'
  <2>1. PICK old : old = bucket[u][f]
    OBVIOUS
  <2>2. CASE bucket'[u][f] \in {bucket[u][f], NoPage}
    BY <1>1, <2>1, <2>2, StillRequested DEF StoredInv
  <2>3. CASE bucket'[u][f] \notin {bucket[u][f], NoPage}
    <3>1. bucket' # bucket
      BY <2>3
    <3>2. \/ InitializeBucket(b) \/ InitializeBucketFails(b)
          \/ \E p \in Pages : Store(b, p) \/ Answered(b, p) \/ ParseFails(b, p)
      <4>1. ~(Wait(b) \/ TimeOut(b) \/ StartCrawlerFails(b) \/ LaunchFails(b))
        BY <3>1 DEF Wait, StartJob, MarkActive, Poll, ReadOutcome, Load, Loaded, TimeOut,
                    StartCrawler, StartCrawlerFails, LaunchFails, Join, GetDocs
      <4> QED BY <3>1, <4>1
      DEF Step, Scrape, SaveResults, Handle, Ignore, ReadDocs, AppendDocs,
          VisitLink, Fails, SaveResultsFails, PodDies, FetchJobDocumentFails, UpdateJobError,
          FetchFails, StoreFails, StartRequests, CloseSpider, PutDocs, Answered
    <3>3. ~(InitializeBucket(b) \/ InitializeBucketFails(b))
      BY <1>1, <2>3, Cleared
    <3>4. PICK p \in Pages : Store(b, p) \/ Answered(b, p) \/ ParseFails(b, p)
      BY <3>2, <3>3
    <3>5. u = Place(b) /\ f = Name(p) /\ bucket'[u][f] = Final[p]
      <4>1. /\ \/ bucket' = bucket
               \/ bucket' = [bucket EXCEPT ![Place(b)][Name(p)] = Final[p]]
            /\ Place(b) \in Buckets \cup Builds /\ Name(p) \in Files
            /\ bucket \in [Buckets \cup Builds -> [Files -> Pages \cup {NoPage}]]
        BY <1>1, <3>4, WayType, ScrapeAssumption
        DEF Store, Parse, Answered, Redirected, ParseFails, Name, TypeOK
      <4> QED BY <2>3, <4>1
    <3>6. at[b][p] # "unseen" /\ File[Final[p]] = f
      BY <3>4, <3>5
      DEF Store, Response, Handler, Parse, Answered, Redirected, ParseFails, Crawling, Name
    <3>7. Requested(u, f, Final[p])
      BY <3>5, <3>6 DEF Requested, Visited
    <3>8. Requested(u, f, Final[p])'
      BY <1>1, <3>7, StillRequested
    <3> QED BY <3>5, <3>8
  <2> QED BY <2>2, <2>3
<1>3. ASSUME NEW c \in Builds, NEW i \in DOMAIN loaded'[c]
      PROVE  Requested(Place(c), File[loaded[c][i].url], loaded[c][i].got)'
  <2>1. CASE i \in DOMAIN loaded[c] /\ loaded'[c][i] = loaded[c][i]
    <3>1. PICK u, x : u = Place(c) /\ x = loaded[c][i]
      OBVIOUS
    <3>2. Requested(u, File[x.url], x.got)
      BY <1>1, <2>1, <3>1 DEF StoredInv
    <3>3. Requested(u, File[x.url], x.got)'
      BY <1>1, <3>2, StillRequested
    <3>4. Place(c)' = u
      BY <3>1, WayKept
    <3> QED BY <2>1, <3>1, <3>3, <3>4
  <2>2. CASE ~(i \in DOMAIN loaded[c] /\ loaded'[c][i] = loaded[c][i])
    <3>1. loaded' # loaded
      BY <2>2
    <3>2. Load(b)
      BY <3>1
      DEF Step, Wait, StartJob, MarkActive, Poll, ReadOutcome, Loaded, TimeOut,
          Scrape, InitializeBucket, SaveResults, Handle, Ignore, Store, ReadDocs, AppendDocs,
          VisitLink, Fails, InitializeBucketFails, SaveResultsFails, PodDies,
          FetchJobDocumentFails, UpdateJobError, FetchFails, StoreFails, StartCrawler,
          StartCrawlerFails, LaunchFails, Join, GetDocs, StartRequests, Parse, Answered,
          Redirected, ParseFails, CloseSpider, PutDocs, builder
    <3> DEFINE page == Final[result[b][Len(loaded[b]) + 1]]
               got == bucket[Place(b)][File[page]]
               x == [url |-> page, got |-> got]
    <3>3. /\ Len(loaded[b]) < Len(result[b]) /\ got # NoPage
          /\ loaded' = [loaded EXCEPT ![b] = Append(@, x)]
          /\ UNCHANGED <<bucket, at>>
      BY <3>1, <3>2 DEF Load, pages
    <3>4. page \in Pages
      <4>1. result[b][Len(loaded[b]) + 1] \in Pages
        BY <1>1, <3>3 DEF TypeOK
      <4> QED BY <4>1, ScrapeAssumption
    <3>5. Requested(Place(b), File[page], got)
      BY <1>1, <3>3, <3>4, WayType, ScrapeAssumption DEF StoredInv
    <3>6. x.url = page /\ x.got = got
      OBVIOUS
    <3>7. loaded[c] \in Seq([url : Pages, got : Pages])
      BY <1>1 DEF TypeOK
    <3> HIDE DEF x
    <3>8. c = b /\ loaded'[c][i] = x
      <4>1. loaded'[c] = IF c = b THEN Append(loaded[b], x) ELSE loaded[c]
        BY <1>1, <3>3 DEF TypeOK
      <4> QED BY <2>2, <3>7, <4>1
    <3>9. loaded'[c][i].url = page /\ loaded'[c][i].got = got
      BY <3>6, <3>8
    <3> HIDE DEF page, got
    <3>10. PICK g, h, u : g = got /\ h = page /\ u = Place(b)
      OBVIOUS
    <3>11. Requested(u, File[h], g)'
      BY <1>1, <3>5, <3>10, StillRequested
    <3>12. Place(c)' = u
      BY <3>8, <3>10, WayKept
    <3> QED BY <3>8, <3>9, <3>10, <3>11, <3>12
  <2> QED BY <2>1, <2>2
<1> QED BY <1>2, <1>3 DEF StoredInv

-----------------------------------------------------------------------------
(* The pages a scrape by the job has requested *)

LEMMA FollowedAlone ==
  ASSUME NEW c \in Builds, Untouched(c), Followed(c)
  PROVE  Followed(c)'
<1>1. /\ url'[c] = url[c] /\ way'[c] = way[c] /\ scraper'[c] = scraper[c]
      /\ at'[c] = at[c] /\ depth'[c] = depth[c] /\ todo'[c] = todo[c]
  BY DEF Untouched
<1>2. Visited(c)' = Visited(c) /\ MaxDepth(c)' = MaxDepth(c)
  BY <1>1 DEF Visited, MaxDepth
<1>3. Quiet(c)' = Quiet(c)
  BY <1>1, <1>2 DEF Quiet
<1> QED BY <1>1, <1>2, <1>3 DEF Followed

\* The build's own steps, and the end of its scrape.
LEMMA FollowedQuiet ==
  ASSUME TypeOK, NEW b \in Builds, Followed(b), way[b] = "job",
         \/ Wait(b) \/ TimeOut(b) \/ StartCrawlerFails(b) \/ LaunchFails(b)
         \/ SaveResults(b) \/ SaveResultsFails(b) \/ PodDies(b) \/ FetchJobDocumentFails(b)
  PROVE  Followed(b)'
<1>1. UNCHANGED <<url, way, at, depth, todo>>
  BY DEF Wait, StartJob, MarkActive, Poll, ReadOutcome, Load, Loaded, TimeOut,
         StartCrawler, StartCrawlerFails, LaunchFails, Join, GetDocs,
         SaveResults, SaveResultsFails, PodDies, FetchJobDocumentFails, UpdateJobError,
         builder, pages
<1>2. \/ scraper'[b] \in {scraper[b], "start", "dead"}
      \/ scraper[b] = "crawl" /\ scraper'[b] = "exit" /\ Quiet(b)
  <2>1. scraper \in [Builds -> {"none", "start", "crawl", "exit", "dead", "blocked"}]
    BY DEF TypeOK
  <2>2. CASE Wait(b) \/ TimeOut(b) \/ StartCrawlerFails(b) \/ LaunchFails(b)
    <3>1. UNCHANGED scraper \/ scraper' = [scraper EXCEPT ![b] = "start"]
      BY <2>2 DEF Wait, StartJob, MarkActive, Poll, ReadOutcome, Load, Loaded, TimeOut,
                  StartCrawler, StartCrawlerFails, LaunchFails, Join, GetDocs
    <3> QED BY <2>1, <3>1
  <2>3. CASE PodDies(b) \/ FetchJobDocumentFails(b)
    <3>1. scraper' = [scraper EXCEPT ![b] = "dead"]
      BY <2>3 DEF PodDies, FetchJobDocumentFails
    <3> QED BY <2>1, <3>1
  <2>4. CASE SaveResults(b) \/ SaveResultsFails(b)
    <3>1. /\ scraper' = [scraper EXCEPT ![b] = "exit"]
          /\ scraper[b] = "crawl" /\ Quiet(b)
      BY <2>4 DEF SaveResults, SaveResultsFails, Report
    <3> QED BY <2>1, <3>1
  <2> QED BY <2>2, <2>3, <2>4
<1>3. Visited(b)' = Visited(b) /\ MaxDepth(b)' = MaxDepth(b)
  BY <1>1 DEF Visited, MaxDepth
<1>4. Quiet(b)' = Quiet(b)
  BY <1>1, <1>3 DEF Quiet
<1> QED BY <1>1, <1>2, <1>3, <1>4 DEF Followed

\* The first request.
LEMMA FollowedRoot ==
  ASSUME TypeOK, NEW b \in Builds, Crawled(b), way[b] = "job",
         InitializeBucket(b) \/ InitializeBucketFails(b)
  PROVE  Followed(b)'
<1>1. /\ scraper[b] = "start" /\ scraper'[b] = "crawl"
      /\ at' = [at EXCEPT ![b][url[b]] = "requested"]
      /\ UNCHANGED <<url, way, depth, todo>>
  BY DEF InitializeBucket, InitializeBucketFails, VisitRoot, builder, TypeOK
<1>2. url[b] \in Pages
  BY ScrapeAssumption DEF TypeOK
<1>3. /\ at'[b][url[b]] = "requested"
      /\ \A p \in Pages \ {url[b]} : at'[b][p] = "unseen"
      /\ depth[b][url[b]] = 0
  BY <1>1, <1>2 DEF TypeOK, Crawled
<1> QED BY <1>1, <1>2, <1>3 DEF Followed, Visited

\* A handler goes on with its page: it follows the links at the very end.
LEMMA FollowedPage ==
  ASSUME TypeOK, NEW b \in Builds, Followed(b), way[b] = "job", NEW p \in Pages,
         \/ Ignore(b, p) \/ Store(b, p) \/ ReadDocs(b, p) \/ AppendDocs(b, p)
         \/ FetchFails(b, p) \/ StoreFails(b, p)
  PROVE  Followed(b)'
<1>1. /\ scraper[b] = "crawl" /\ UNCHANGED <<url, way, scraper, depth>>
      /\ at[b][p] \in {"requested", "stored", "read"}
  BY DEF Ignore, Store, ReadDocs, AppendDocs, FetchFails, StoreFails, Handler,
         Response, builder
<1>2. /\ at'[b][p] \in {"stored", "read", "links", "failed"}
      /\ \A q \in Pages \ {p} : at'[b][q] = at[b][q] /\ todo'[b][q] = todo[b][q]
      /\ at'[b][p] = "links" /\ Kind[p] = "html" /\ depth[b][p] < MaxDepth(b) =>
           todo'[b][p] = Links[p]
  <2>1. CASE Ignore(b, p) \/ StoreFails(b, p) \/ AppendDocs(b, p)
    <3>1. Follow(b, p)
      BY <2>1 DEF Ignore, StoreFails, AppendDocs
    <3> QED BY <3>1, FollowType, GotoType DEF Steps
  <2>2. CASE Store(b, p) \/ ReadDocs(b, p) \/ FetchFails(b, p)
    <3>1. /\ todo' = todo
          /\ Goto(b, p, "stored") \/ Goto(b, p, "read") \/ Goto(b, p, "failed")
      BY <2>2 DEF Store, ReadDocs, FetchFails
    <3> QED BY <3>1, GotoType DEF Steps
  <2> QED BY <2>1, <2>2
<1>3. Visited(b)' = Visited(b) /\ MaxDepth(b)' = MaxDepth(b)
  BY <1>1, <1>2 DEF Visited, MaxDepth
<1>4. ASSUME NEW q \in Visited(b), q # url[b]
      PROVE  \E r \in Visited(b) :
               /\ at'[b][r] = "links" /\ Kind[r] = "html"
               /\ q \in Links[r] /\ depth[b][q] = depth[b][r] + 1
  <2>1. PICK r \in Visited(b) :
          /\ at[b][r] = "links" /\ Kind[r] = "html"
          /\ q \in Links[r] /\ depth[b][q] = depth[b][r] + 1
    BY <1>4 DEF Followed
  <2>2. r # p /\ r \in Pages
    BY <1>1, <2>1 DEF Visited
  <2> QED BY <1>2, <2>1, <2>2
<1>5. ASSUME NEW q \in Pages, at'[b][q] = "links", Kind[q] = "html", depth[b][q] < MaxDepth(b)
      PROVE  Links[q] \subseteq Visited(b) \cup todo'[b][q]
  BY <1>2, <1>5 DEF Followed
<1> QED BY <1>1, <1>3, <1>4, <1>5 DEF Followed

\* A link is followed to a page one level deeper.
LEMMA FollowedLink ==
  ASSUME TypeOK, NEW b \in Builds, Crawled(b), Followed(b), way[b] = "job",
         NEW p \in Pages, NEW q \in Pages, VisitLink(b, p, q)
  PROVE  Followed(b)'
<1>1. /\ scraper[b] = "crawl" /\ UNCHANGED <<url, way, scraper>>
      /\ at[b][p] = "links" /\ q \in todo[b][p]
      /\ todo' = [todo EXCEPT ![b][p] = @ \ {q}]
  BY DEF VisitLink, Handler, builder
<1>2. q \in Links[p] /\ Kind[p] = "html"
  BY <1>1 DEF Crawled
<1>3. /\ todo'[b][p] = todo[b][p] \ {q}
      /\ \A r \in Pages \ {p} : todo'[b][r] = todo[b][r]
  BY <1>1 DEF TypeOK
<1>4. /\ MaxDepth(b)' = MaxDepth(b)
      /\ at[b][q] # "unseen" => UNCHANGED <<at, depth>>
      /\ at[b][q] = "unseen" =>
           /\ at'[b][q] = "requested" /\ depth'[b][q] = depth[b][p] + 1
           /\ \A r \in Pages \ {q} : at'[b][r] = at[b][r] /\ depth'[b][r] = depth[b][r]
  BY <1>1 DEF MaxDepth, VisitLink, Goto, TypeOK
<1>5. /\ Visited(b)' = Visited(b) \cup {q}
      /\ \A r \in Visited(b) : at'[b][r] = at[b][r] /\ depth'[b][r] = depth[b][r]
      /\ \A r \in Pages : at'[b][r] = "links" => r \in Visited(b)
  BY <1>4 DEF Visited
<1>6. url[b] \in Visited(b) /\ depth[b][url[b]] = 0
  BY <1>1 DEF Followed
<1>7. ASSUME NEW r \in Visited(b)', r # url[b]
      PROVE  \E s \in Visited(b)' :
               /\ at'[b][s] = "links" /\ Kind[s] = "html"
               /\ r \in Links[s] /\ depth'[b][r] = depth'[b][s] + 1
  <2>1. CASE r \in Visited(b)
    <3>1. PICK s \in Visited(b) :
            /\ at[b][s] = "links" /\ Kind[s] = "html"
            /\ r \in Links[s] /\ depth[b][r] = depth[b][s] + 1
      BY <1>7, <2>1 DEF Followed
    <3> QED BY <1>5, <2>1, <3>1
  <2>2. CASE r \notin Visited(b)
    <3>1. r = q /\ at[b][q] = "unseen"
      BY <1>5, <2>2 DEF Visited
    <3>2. p \in Visited(b) /\ p \in Visited(b)'
      BY <1>1, <1>5 DEF Visited
    <3> QED BY <1>1, <1>2, <1>4, <1>5, <3>1, <3>2
  <2> QED BY <2>1, <2>2
<1>8. ASSUME NEW r \in Pages, at'[b][r] = "links", Kind[r] = "html", depth'[b][r] < MaxDepth(b)
      PROVE  Links[r] \subseteq Visited(b)' \cup todo'[b][r]
  <2>1. Links[r] \subseteq Visited(b) \cup todo[b][r]
    BY <1>5, <1>8 DEF Followed
  <2> QED BY <1>3, <1>5, <2>1
<1> QED BY <1>1, <1>4, <1>5, <1>6, <1>7, <1>8 DEF Followed

LEMMA StepFollowed ==
  ASSUME IInv, FollowInv, NEW b \in Builds, Step(b)
  PROVE  FollowInv'
<1>1. TypeOK /\ Crawled(b) /\ Followed(b)
  BY DEF IInv, BuildInv, FollowInv
<1>2. Followed(b)'
  <2>1. CASE way[b] # "job"
    BY <2>1, WayKept DEF Followed
  <2>2. CASE way[b] = "job"
    <3>1. \/ Wait(b) \/ TimeOut(b) \/ StartCrawlerFails(b) \/ LaunchFails(b)
          \/ SaveResults(b) \/ SaveResultsFails(b) \/ PodDies(b) \/ FetchJobDocumentFails(b)
          \/ InitializeBucket(b) \/ InitializeBucketFails(b)
          \/ \E p \in Pages :
               \/ Ignore(b, p) \/ Store(b, p) \/ ReadDocs(b, p) \/ AppendDocs(b, p)
               \/ FetchFails(b, p) \/ StoreFails(b, p)
               \/ \E q \in Pages : VisitLink(b, p, q)
      BY <2>2 DEF Step, Scrape, Fails, Handle, StartRequests, PutDocs, CloseSpider,
                  Parse, Answered, Redirected, ParseFails, Crawling
    <3> QED BY <1>1, <2>2, <3>1, FollowedQuiet, FollowedRoot, FollowedPage, FollowedLink
  <2> QED BY <2>1, <2>2
<1>3. \A c \in Builds \ {b} : Followed(c)'
  BY <1>1, Alone, FollowedAlone DEF FollowInv
<1> QED BY <1>2, <1>3 DEF FollowInv

-----------------------------------------------------------------------------
(* The pages near the URL *)

\* Induction: the least counterexample to a claim does not exist.
LEMMA LeastNat ==
  ASSUME NEW T \in SUBSET Nat, NEW m \in T
  PROVE  \E n \in T : \A k \in T : n <= k
<1>1. IsWellFoundedOn(OpToRel(<, Nat), Nat)
  BY NatLessThanWellFounded
<1>2. PICK n \in T : \A k \in T : <<k, n>> \notin OpToRel(<, Nat)
  BY <1>1, WFMin
<1>3. ASSUME NEW k \in T
      PROVE  n <= k
  <2>1. ~(k < n)
    BY <1>2 DEF OpToRel
  <2> QED BY <2>1
<1> QED BY <1>3

\* A function can be iterated: what a recursive function of the naturals is.
LEMMA Iteration ==
  ASSUME NEW S, NEW x0 \in S, NEW F \in [S -> S]
  PROVE  \E g \in [Nat -> S] : g[0] = x0 /\ \A n \in Nat : g[n + 1] = F[g[n]]
<1> DEFINE Ok(n, g) == /\ g \in [0 .. n -> S] /\ g[0] = x0
                       /\ \A i \in Nat : i < n => g[i + 1] = F[g[i]]
<1>1. ASSUME NEW n \in Nat
      PROVE  \E g : Ok(n, g)
  <2> DEFINE T == {k \in Nat : ~\E g : Ok(k, g)}
  <2> SUFFICES ASSUME n \in T PROVE FALSE
    OBVIOUS
  <2>1. PICK m \in T : \A k \in T : m <= k
    <3> HIDE DEF T
    <3>1. T \in SUBSET Nat
      BY DEF T
    <3> QED BY <3>1, LeastNat
  <2>2. m \in Nat /\ ~\E g : Ok(m, g)
    OBVIOUS
  <2>3. m # 0
    <3>1. SUFFICES ASSUME m = 0 PROVE FALSE
      OBVIOUS
    <3>2. Ok(0, [i \in 0 .. 0 |-> x0])
      OBVIOUS
    <3> QED BY <2>2, <3>1, <3>2
  <2>4. m - 1 \in Nat /\ \E g : Ok(m - 1, g)
    <3>1. m - 1 \in Nat /\ ~(m <= m - 1)
      BY <2>2, <2>3
    <3>2. m - 1 \notin T
      <4> HIDE DEF T
      <4> QED BY <2>1, <3>1
    <3> HIDE DEF Ok
    <3> QED BY <3>1, <3>2
  <2>5. PICK g : Ok(m - 1, g)
    <3> HIDE DEF Ok
    <3> QED BY <2>4
  <2> DEFINE h == [i \in 0 .. m |-> IF i = m THEN F[g[m - 1]] ELSE g[i]]
  <2>6. /\ \A i \in 0 .. m - 1 : h[i] = g[i] /\ g[i] \in S
        /\ h[m] = F[g[m - 1]] /\ h[m] \in S
    BY <2>2, <2>3, <2>4, <2>5
  <2>7. h \in [0 .. m -> S]
    <3>1. F[g[m - 1]] \in S /\ \A i \in 0 .. m : i # m => g[i] \in S
      BY <2>2, <2>4, <2>5
    <3> QED BY <3>1
  <2>8. h[0] = x0
    BY <2>2, <2>3, <2>5, <2>6
  <2> HIDE DEF h
  <2>9. ASSUME NEW i \in Nat, i < m
        PROVE  h[i + 1] = F[h[i]]
    <3>1. i \in 0 .. m - 1 /\ h[i] = g[i]
      BY <2>2, <2>6, <2>9
    <3>2. CASE i = m - 1
      <4>1. i + 1 = m
        BY <2>2, <3>2
      <4> QED BY <2>6, <3>1, <3>2, <4>1
    <3>3. CASE i < m - 1
      <4>1. i + 1 \in 0 .. m - 1 /\ g[i + 1] = F[g[i]]
        BY <2>2, <2>5, <3>3
      <4> QED BY <2>6, <3>1, <4>1
    <3> QED BY <2>2, <2>9, <3>2, <3>3
  <2> QED BY <2>2, <2>7, <2>8, <2>9
<1>2. ASSUME NEW n \in Nat, NEW g, Ok(n, g), NEW m \in Nat, NEW h, Ok(m, h),
             NEW i \in Nat, i <= n, i <= m
      PROVE  g[i] = h[i]
  <2> DEFINE T == {k \in Nat : k <= n /\ k <= m /\ g[k] # h[k]}
  <2> SUFFICES ASSUME i \in T PROVE FALSE
    BY <1>2
  <2>1. PICK k \in T : \A j \in T : k <= j
    <3> HIDE DEF T
    <3>1. T \in SUBSET Nat
      BY DEF T
    <3> QED BY <3>1, LeastNat
  <2>2. k \in Nat /\ k <= n /\ k <= m /\ g[k] # h[k]
    OBVIOUS
  <2>3. k # 0
    BY <1>2, <2>2
  <2>4. k - 1 \in Nat /\ k - 1 \notin T /\ k - 1 < n /\ k - 1 < m /\ (k - 1) + 1 = k
    BY <2>1, <2>2, <2>3
  <2>5. g[k - 1] = h[k - 1]
    BY <2>4
  <2>6. g[(k - 1) + 1] = F[g[k - 1]] /\ h[(k - 1) + 1] = F[h[k - 1]]
    BY <1>2, <2>4
  <2> QED BY <2>2, <2>4, <2>5, <2>6
<1> DEFINE G(n) == CHOOSE g : Ok(n, g)
           f == [n \in Nat |-> G(n)[n]]
<1>3. \A n \in Nat : Ok(n, G(n))
  <2> HIDE DEF Ok
  <2> QED BY <1>1
<1>4. f \in [Nat -> S]
  <2>1. \A n \in Nat : G(n)[n] \in S
    <3> HIDE DEF G
    <3> QED BY <1>3
  <2> HIDE DEF G
  <2> QED BY <2>1
<1>5. \A n \in Nat : f[n] = G(n)[n]
  OBVIOUS
<1> HIDE DEF f, G
<1>6. f[0] = x0
  BY <1>3, <1>5
<1>7. ASSUME NEW n \in Nat
      PROVE  f[n + 1] = F[f[n]]
  <2>1. PICK g, h : g = G(n) /\ h = G(n + 1) /\ Ok(n, g) /\ Ok(n + 1, h)
    BY <1>3
  <2>2. g[n] = h[n]
    <3> HIDE DEF Ok
    <3>1. n <= n + 1 /\ n <= n /\ n + 1 \in Nat
      OBVIOUS
    <3> QED BY <1>2, <2>1, <3>1
  <2>3. h[n + 1] = F[h[n]]
    BY <2>1
  <2> QED BY <1>5, <2>1, <2>2, <2>3
<1> QED BY <1>4, <1>6, <1>7

\* What one more level of links adds to the pages near a URL.
Further(b, X) ==
  X \cup UNION {Links[p] : p \in {q \in X : Kind[q] = "html" /\ at[b][q] # "failed"}}

\* The recursive function in Near is what its definition says.
LEMMA NearLevels ==
  ASSUME TypeOK, NEW b \in Builds
  PROVE  \E near :
           /\ near[0] = {url[b]}
           /\ \A d \in Nat : near[d + 1] = Further(b, near[d])
           /\ Near(b) = near[MaxDepth(b)]
<1> DEFINE F == [X \in SUBSET Pages |-> Further(b, X)]
           Is(f) == f = [d \in Nat |->
             IF d = 0 THEN {url[b]}
             ELSE f[d - 1] \cup
                  UNION {Links[p] : p \in {q \in f[d - 1] :
                                            Kind[q] = "html" /\ at[b][q] # "failed"}}]
           near == CHOOSE f : Is(f)
<1>1. F \in [SUBSET Pages -> SUBSET Pages]
  <2>1. ASSUME NEW X \in SUBSET Pages
        PROVE  Further(b, X) \in SUBSET Pages
    BY ScrapeAssumption DEF Further
  <2> QED BY <2>1
<1>2. PICK g \in [Nat -> SUBSET Pages] :
        g[0] = {url[b]} /\ \A n \in Nat : g[n + 1] = F[g[n]]
  <2>1. {url[b]} \in SUBSET Pages
    BY ScrapeAssumption DEF TypeOK
  <2> DEFINE S == SUBSET Pages
             x0 == {url[b]}
  <2>2. x0 \in S /\ F \in [S -> S]
    BY <1>1, <2>1
  <2> HIDE DEF F, S, x0
  <2>3. \E g \in [Nat -> S] : g[0] = x0 /\ \A n \in Nat : g[n + 1] = F[g[n]]
    BY <2>2, Iteration
  <2> QED BY <2>3 DEF S, x0
<1>3. Is(g)
  <2>1. ASSUME NEW d \in Nat
        PROVE  g[d] = IF d = 0 THEN {url[b]} ELSE Further(b, g[d - 1])
    <3>1. CASE d # 0
      <4>1. d - 1 \in Nat /\ (d - 1) + 1 = d
        BY <3>1
      <4>2. g[(d - 1) + 1] = F[g[d - 1]] /\ g[d - 1] \in SUBSET Pages
        BY <1>2, <4>1
      <4> QED BY <3>1, <4>1, <4>2
    <3> QED BY <1>2, <3>1
  <2>2. g = [d \in Nat |-> IF d = 0 THEN {url[b]} ELSE Further(b, g[d - 1])]
    BY <1>2, <2>1
  <2> QED BY <2>2 DEF Further
<1>4. Is(near)
  <2> HIDE DEF Is
  <2> QED BY <1>3
<1>5. near = [d \in Nat |-> IF d = 0 THEN {url[b]} ELSE Further(b, near[d - 1])]
  BY <1>4 DEF Further
<1>6. Near(b) = near[MaxDepth(b)]
  BY DEF Near
<1> HIDE DEF near
<1>7. near[0] = {url[b]}
  BY <1>5
<1>8. ASSUME NEW d \in Nat
      PROVE  near[d + 1] = Further(b, near[d])
  <2>1. d + 1 \in Nat /\ d + 1 # 0 /\ (d + 1) - 1 = d
    OBVIOUS
  <2>2. near[d + 1] = Further(b, near[(d + 1) - 1])
    BY <1>5, <2>1
  <2> QED BY <2>1, <2>2
<1> QED BY <1>6, <1>7, <1>8

\* Every page that was requested is as near as its depth says.
LEMMA VisitedNear ==
  ASSUME TypeOK, NEW b \in Builds, Followed(b), way[b] = "job", scraper[b] = "exit",
         NEW near, near[0] = {url[b]},
         \A d \in Nat : near[d + 1] = Further(b, near[d])
  PROVE  \A j \in Nat : \A p \in Visited(b) : depth[b][p] <= j => p \in near[j]
<1> DEFINE T == {j \in Nat : \E p \in Visited(b) : depth[b][p] <= j /\ p \notin near[j]}
<1>1. \A p \in Visited(b) : depth[b][p] \in Nat
  BY ScrapeAssumption DEF TypeOK, Visited
<1>2. depth[b][url[b]] = 0
  BY DEF Followed
<1>3. ASSUME NEW j \in T, \A k \in T : j <= k
      PROVE  FALSE
  <2>1. PICK p \in Visited(b) : j \in Nat /\ depth[b][p] <= j /\ p \notin near[j]
    OBVIOUS
  <2>2. CASE p = url[b] /\ j = 0
    BY <2>1, <2>2
  <2>3. CASE j # 0 /\ depth[b][p] < j
    <3>1. j - 1 \in Nat /\ ~(j <= j - 1) /\ (j - 1) + 1 = j /\ depth[b][p] <= j - 1
      BY <1>1, <2>1, <2>3
    <3>2. j - 1 \notin T
      <4> HIDE DEF T
      <4> QED BY <1>3, <3>1
    <3>3. p \in near[j - 1]
      BY <2>1, <3>1, <3>2
    <3>4. near[(j - 1) + 1] = Further(b, near[j - 1])
      BY <3>1
    <3> QED BY <2>1, <3>1, <3>3, <3>4 DEF Further
  <2>4. CASE p # url[b] /\ depth[b][p] = j
    <3>1. PICK q \in Visited(b) :
            /\ at[b][q] = "links" /\ Kind[q] = "html"
            /\ p \in Links[q] /\ depth[b][p] = depth[b][q] + 1
      BY <2>4 DEF Followed
    <3>2. /\ j - 1 \in Nat /\ ~(j <= j - 1) /\ (j - 1) + 1 = j
          /\ depth[b][q] <= j - 1
      BY <1>1, <2>1, <2>4, <3>1
    <3>3. j - 1 \notin T
      <4> HIDE DEF T
      <4> QED BY <1>3, <3>2
    <3>4. q \in near[j - 1]
      BY <3>2, <3>3
    <3>5. near[(j - 1) + 1] = Further(b, near[j - 1])
      BY <3>2
    <3>6. p \in Further(b, near[j - 1])
      BY <3>1, <3>4 DEF Further
    <3> QED BY <2>1, <3>2, <3>5, <3>6
  <2> QED BY <1>1, <1>2, <2>1, <2>2, <2>3, <2>4
<1>4. T = {}
  <2>1. T \in SUBSET Nat
    OBVIOUS
  <2> HIDE DEF T
  <2> QED BY <1>3, <2>1, LeastNat
<1> QED BY <1>4

\* On a tree, every page that is near was requested, and is at its depth.
LEMMA NearVisited ==
  ASSUME TypeOK, NEW b \in Builds, Followed(b), Reached(b),
         way[b] = "job", scraper[b] = "exit",
         NEW near, near[0] = {url[b]},
         \A d \in Nat : near[d + 1] = Further(b, near[d]),
         NEW M, M = MaxDepth(b),
         \A q, r \in near[M] : q # r => Links[q] \cap Links[r] \cap near[M] = {}
  PROVE  \A d \in Nat : d <= M => \A p \in near[d] : p \in Visited(b) /\ depth[b][p] <= d
<1> DEFINE T == {d \in Nat : d <= M /\ \E p \in near[d] : ~(p \in Visited(b) /\ depth[b][p] <= d)}
<1>1. \A p \in Visited(b) : depth[b][p] \in Nat
  BY ScrapeAssumption DEF TypeOK, Visited
<1>2. url[b] \in Visited(b) /\ depth[b][url[b]] = 0 /\ Quiet(b)
  BY DEF Followed
<1>3. M \in Nat
  BY WayType, ScrapeAssumption
<1>4. \A p \in Visited(b) : depth[b][p] <= M /\ p \in near[M]
  <2>1. \A p \in Visited(b) : depth[b][p] <= M
    BY <1>3 DEF Reached, Reason
  <2> QED BY <1>3, <2>1, VisitedNear
<1>5. ASSUME NEW d \in T, \A k \in T : d <= k
      PROVE  FALSE
  <2>1. PICK p \in near[d] : d \in Nat /\ d <= M /\ ~(p \in Visited(b) /\ depth[b][p] <= d)
    OBVIOUS
  <2>2. d # 0
    BY <1>2, <2>1
  <2>3. /\ d - 1 \in Nat /\ ~(d <= d - 1) /\ (d - 1) + 1 = d
        /\ d - 1 <= M /\ d - 1 < M
    BY <1>3, <2>1, <2>2
  <2>4. d - 1 \notin T
    <3> HIDE DEF T
    <3> QED BY <1>5, <2>3
  <2>5. \A q \in near[d - 1] : q \in Visited(b) /\ depth[b][q] <= d - 1
    BY <2>3, <2>4
  <2>6. p \notin near[d - 1]
    BY <1>1, <2>1, <2>3, <2>5
  <2>7. p \in Further(b, near[d - 1])
    <3>1. near[(d - 1) + 1] = Further(b, near[d - 1])
      BY <2>3
    <3> QED BY <2>1, <2>3, <3>1
  <2>8. PICK q \in near[d - 1] : Kind[q] = "html" /\ at[b][q] # "failed" /\ p \in Links[q]
    BY <2>6, <2>7 DEF Further
  <2>9. /\ q \in Visited(b) /\ q \in Pages /\ depth[b][q] \in Nat /\ depth[b][q] <= d - 1
        /\ at[b][q] = "links" /\ todo[b][q] = {}
    BY <1>1, <1>2, <2>5, <2>8 DEF Quiet, Visited
  <2>10. p \in Visited(b)
    <3>1. depth[b][q] < MaxDepth(b)
      BY <1>3, <2>3, <2>9
    <3> QED BY <2>8, <2>9, <3>1 DEF Followed
  <2>11. p # url[b]
    BY <1>2, <2>1, <2>10
  <2>12. PICK r \in Visited(b) : p \in Links[r] /\ depth[b][p] = depth[b][r] + 1
    BY <2>10, <2>11 DEF Followed
  <2>13. r = q
    BY <1>4, <2>8, <2>9, <2>10, <2>12
  <2> QED BY <1>1, <2>1, <2>3, <2>9, <2>10, <2>12, <2>13
<1>6. T = {}
  <2>1. T \in SUBSET Nat
    OBVIOUS
  <2> HIDE DEF T
  <2> QED BY <1>5, <2>1, LeastNat
<1> QED BY <1>6

-----------------------------------------------------------------------------
(* The lists of documents *)

\* The pages in a list differ, and their handlers have followed their links.
Listed(s, a) ==
  /\ \A i, j \in DOMAIN s : s[i] = s[j] => i = j
  /\ \A i \in DOMAIN s : a[s[i]] = "links" /\ Kind[s[i]] # "other"

\* No handler goes back from its links.
Stays(a, e) == \A p \in Pages : a[p] = "links" => e[p] = "links"

\* Every list in play - the scraper's, the copies its handlers have read, the
\* result - is one of different pages that were handled.
Listing(b) ==
  /\ Listed(docs[b], at[b]) /\ Listed(result[b], at[b])
  /\ \A p \in Pages : Listed(seen[b][p], at[b])
  /\ \A p \in Pages : at[b][p] \in {"stored", "read"} => Kind[p] # "other"

\* A list outlives what other handlers do, and the cut.
LEMMA ListedStays ==
  ASSUME NEW s \in Seq(Pages), NEW a, NEW e, Listed(s, a), Stays(a, e)
  PROVE  Listed(s, e) /\ Listed(Truncated(s), e)
<1>1. \A i \in DOMAIN s : s[i] \in Pages
  OBVIOUS
<1>2. Listed(s, e)
  BY <1>1 DEF Listed, Stays
<1>3. Listed(Truncated(s), e)
  <2>1. CASE Len(s) <= Limit
    BY <1>2, <2>1 DEF Truncated
  <2>2. CASE ~(Len(s) <= Limit)
    <3> DEFINE t == SubSeq(s, 1, Limit)
    <3>1. Truncated(s) = t /\ Limit \in Nat /\ Limit < Len(s)
      BY <2>2, ScrapeAssumption DEF Truncated
    <3>2. DOMAIN t = 1 .. Limit /\ DOMAIN t \subseteq DOMAIN s /\ \A i \in DOMAIN t : t[i] = s[i]
      BY <3>1
    <3> HIDE DEF t
    <3> QED BY <1>2, <3>1, <3>2 DEF Listed
  <2> QED BY <2>1, <2>2
<1> QED BY <1>2, <1>3

\* A handler appends its page once, to a list that cannot have it yet.
LEMMA ListedAppend ==
  ASSUME NEW s \in Seq(Pages), NEW a, NEW e, NEW p \in Pages, Listed(s, a), Stays(a, e),
         a[p] # "links", e[p] = "links", Kind[p] # "other"
  PROVE  Listed(Append(s, p), e)
<1> DEFINE t == Append(s, p)
<1>1. /\ DOMAIN t = 1 .. Len(s) + 1 /\ DOMAIN s = 1 .. Len(s)
      /\ t[Len(s) + 1] = p /\ \A i \in 1 .. Len(s) : t[i] = s[i] /\ s[i] \in Pages
  OBVIOUS
<1> HIDE DEF t
<1>2. \A i \in 1 .. Len(s) : t[i] # p
  BY <1>1 DEF Listed
<1>3. \A i \in DOMAIN t : i \in 1 .. Len(s) \/ i = Len(s) + 1
  BY <1>1
<1>4. \A i \in DOMAIN t : e[t[i]] = "links" /\ Kind[t[i]] # "other"
  BY <1>1, <1>3 DEF Listed, Stays
<1>5. \A i, j \in DOMAIN t : t[i] = t[j] => i = j
  BY <1>1, <1>2, <1>3 DEF Listed
<1> QED BY <1>4, <1>5 DEF Listed, t

LEMMA LinksStay ==
  ASSUME TypeOK, NEW b \in Builds, Crawled(b), Step(b)
  PROVE  \A p \in Pages : at[b][p] = "links" => at'[b][p] = "links"
<1>1. CASE \/ Wait(b) \/ TimeOut(b) \/ StartCrawlerFails(b) \/ LaunchFails(b) \/ PutDocs(b)
           \/ SaveResults(b) \/ SaveResultsFails(b) \/ PodDies(b) \/ FetchJobDocumentFails(b)
  BY <1>1 DEF Wait, StartJob, MarkActive, Poll, ReadOutcome, Load, Loaded, TimeOut,
              StartCrawler, StartCrawlerFails, LaunchFails, Join, GetDocs, PutDocs, SaveResults,
              SaveResultsFails, PodDies, FetchJobDocumentFails, UpdateJobError, pages
<1>2. CASE InitializeBucket(b) \/ InitializeBucketFails(b)
  <2>1. scraper[b] = "start"
    BY <1>2 DEF InitializeBucket, InitializeBucketFails
  <2> QED BY <2>1 DEF Crawled
<1>3. ASSUME NEW q \in Pages, NEW step \in Steps, Goto(b, q, step), at[b][q] # "links"
      PROVE  \A p \in Pages : at[b][p] = "links" => at'[b][p] = "links"
  BY <1>3, GotoType
<1>4. ASSUME NEW q \in Pages,
             Handle(b, q) \/ FetchFails(b, q) \/ StoreFails(b, q) \/ ParseFails(b, q)
      PROVE  \A p \in Pages : at[b][p] = "links" => at'[b][p] = "links"
  <2>1. CASE ~\E r \in Pages : VisitLink(b, q, r)
    <3>1. \E step \in Steps : Goto(b, q, step)
      BY <1>4, <2>1 DEF Handle, Ignore, Store, ReadDocs, AppendDocs, FetchFails, StoreFails,
                        ParseFails, Follow, Steps
    <3>2. at[b][q] # "links"
      BY <1>4, <2>1 DEF Handle, Ignore, Store, ReadDocs, AppendDocs, FetchFails, StoreFails,
                        ParseFails, Handler, Response, Crawling
    <3> QED BY <1>3, <3>1, <3>2
  <2>2. ASSUME NEW r \in Pages, VisitLink(b, q, r)
        PROVE  \A p \in Pages : at[b][p] = "links" => at'[b][p] = "links"
    <3>1. CASE at[b][r] = "unseen"
      <4>1. Goto(b, r, "requested")
        BY <2>2, <3>1 DEF VisitLink
      <4> QED BY <1>3, <3>1, <4>1 DEF Steps
    <3>2. CASE at[b][r] # "unseen"
      BY <2>2, <3>2 DEF VisitLink
    <3> QED BY <3>1, <3>2
  <2> QED BY <2>1, <2>2
<1>5. CASE StartRequests(b)
  <2>1. scraper[b] = "start"
    BY <1>5 DEF StartRequests
  <2> QED BY <2>1 DEF Crawled
<1>6. CASE CloseSpider(b)
  BY <1>6 DEF CloseSpider, TypeOK
<1>7. ASSUME NEW r \in Pages, Answered(b, r)
      PROVE  \A p \in Pages : at[b][p] = "links" => at'[b][p] = "links"
  <2>1. PICK links \in SUBSET Pages, d \in Nat :
          Handled(b, r, links, d) /\ (links # {} => d \in 0 .. Depth + 1)
    BY <1>7, ParseLinks
  <2> QED BY <2>1, HandledType
<1> QED BY <1>1, <1>2, <1>4, <1>5, <1>6, <1>7 DEF Step, Scrape, Fails, Answered

LEMMA ListingAfter ==
  ASSUME NEW b \in Builds,
         Listed(docs'[b], at'[b]), Listed(result'[b], at'[b]),
         \A p \in Pages : Listed(seen'[b][p], at'[b]),
         \A p \in Pages : at'[b][p] \in {"stored", "read"} => Kind[p] # "other"
  PROVE  Listing(b)'
BY DEF Listing, Listed

\* The steps that append to no list.
LEMMA ListingQuiet ==
  ASSUME TypeOK, NEW b \in Builds, Crawled(b), Step(b), Listing(b),
         UNCHANGED <<docs, seen>>,
         result'[b] \in {result[b], <<>>, docs[b], Truncated(docs[b])},
         \A p \in Pages : at'[b][p] \in {"stored", "read"} =>
           at[b][p] = at'[b][p] \/ Kind[p] # "other"
  PROVE  Listing(b)'
<1>1. /\ docs[b] \in Seq(Pages) /\ result[b] \in Seq(Pages)
      /\ \A p \in Pages : seen[b][p] \in Seq(Pages)
  BY DEF TypeOK
<1>2. \A p \in Pages : at[b][p] = "links" => at'[b][p] = "links"
  BY LinksStay
<1>3. PICK a, e : a = at[b] /\ e = at'[b] /\ Stays(a, e)
  BY <1>2 DEF Stays
<1>4. Listed(docs[b], e) /\ Listed(Truncated(docs[b]), e) /\ Listed(result[b], e)
  BY <1>1, <1>3, ListedStays DEF Listing
<1>5. \A p \in Pages : Listed(seen[b][p], e)
  BY <1>1, <1>3, ListedStays DEF Listing
<1>6. Listed(<<>>, e)
  BY DEF Listed
<1>7. Listed(result'[b], e)
  BY <1>4, <1>6
<1>8. \A p \in Pages : at'[b][p] \in {"stored", "read"} => Kind[p] # "other"
  BY DEF Listing
<1> QED BY <1>3, <1>4, <1>5, <1>7, <1>8, ListingAfter

\* What a step does to the lists of its build.
LEMMA ListSteps ==
  ASSUME TypeOK, NEW b \in Builds, Step(b)
  PROVE  \/ /\ UNCHANGED <<docs, seen>>
            /\ result'[b] \in {result[b], <<>>, docs[b], Truncated(docs[b])}
            /\ \A q \in Pages : at'[b][q] \in {"stored", "read"} =>
                 at[b][q] = at'[b][q] \/ Store(b, q)
         \/ \E p \in Pages : ReadDocs(b, p) \/ AppendDocs(b, p) \/ Answered(b, p)
<1>1. CASE \/ Wait(b) \/ TimeOut(b) \/ StartCrawlerFails(b) \/ LaunchFails(b) \/ PutDocs(b)
           \/ SaveResults(b) \/ SaveResultsFails(b) \/ PodDies(b) \/ FetchJobDocumentFails(b)
  <2>1. UNCHANGED <<docs, seen, at>>
    BY <1>1 DEF Wait, StartJob, MarkActive, Poll, ReadOutcome, Load, Loaded, TimeOut,
                StartCrawler, StartCrawlerFails, LaunchFails, Join, GetDocs, PutDocs, SaveResults,
                SaveResultsFails, PodDies, FetchJobDocumentFails, UpdateJobError, pages
  <2>2. result'[b] \in {result[b], <<>>, docs[b], Truncated(docs[b])}
    <3>1. CASE MarkActive(b) \/ GetDocs(b) \/ SaveResults(b)
      BY <3>1 DEF MarkActive, GetDocs, SaveResults, TypeOK
    <3>2. CASE ~(MarkActive(b) \/ GetDocs(b) \/ SaveResults(b))
      BY <1>1, <3>2
      DEF Wait, StartJob, Poll, ReadOutcome, Load, Loaded, TimeOut, StartCrawler,
          StartCrawlerFails, LaunchFails, Join, PutDocs, SaveResultsFails, PodDies,
          FetchJobDocumentFails, UpdateJobError, document
    <3> QED BY <3>1, <3>2
  <2> QED BY <2>1, <2>2
<1>2. CASE InitializeBucket(b) \/ InitializeBucketFails(b) \/ StartRequests(b) \/ CloseSpider(b)
  <2>1. UNCHANGED <<docs, seen, result>>
    BY <1>2 DEF InitializeBucket, InitializeBucketFails, VisitRoot, StartRequests, CloseSpider,
                document
  <2>2. \A q \in Pages : at'[b][q] \in {"stored", "read"} => at[b][q] = at'[b][q]
    <3>1. CASE InitializeBucket(b) \/ InitializeBucketFails(b)
      BY <3>1 DEF InitializeBucket, InitializeBucketFails, VisitRoot, TypeOK
    <3>2. CASE StartRequests(b)
      <4>1. CASE UNCHANGED <<at, depth>>
        BY <4>1
      <4>2. CASE ~UNCHANGED <<at, depth>>
        <5>1. {url[b]} \in SUBSET Pages /\ 0 \in 0 .. Depth + 1 /\ 1 \in 0 .. Depth + 1
          BY ScrapeAssumption DEF TypeOK
        <5>2. PICK links \in SUBSET Pages, d \in {0, 1} : Handled(b, NoPage, links, d)
          BY <3>2, <4>2, <5>1, FirstRequests
        <5> QED BY <5>1, <5>2, HandledType
      <4> QED BY <4>1, <4>2
    <3>3. CASE CloseSpider(b)
      BY <3>3 DEF CloseSpider, TypeOK
    <3> QED BY <1>2, <3>1, <3>2, <3>3
  <2> QED BY <2>1, <2>2
<1>3. ASSUME NEW p \in Pages,
             \/ Ignore(b, p) \/ Store(b, p) \/ FetchFails(b, p) \/ StoreFails(b, p)
             \/ ParseFails(b, p) \/ \E q \in Pages : VisitLink(b, p, q)
      PROVE  /\ UNCHANGED <<docs, seen, result>>
             /\ \A q \in Pages : at'[b][q] \in {"stored", "read"} =>
                  at[b][q] = at'[b][q] \/ Store(b, q)
  <2>1. UNCHANGED <<docs, seen, result>>
    BY <1>3 DEF Ignore, Store, FetchFails, StoreFails, ParseFails, VisitLink, document
  <2>2. CASE Store(b, p)
    <3>1. Goto(b, p, "stored")
      BY <2>2 DEF Store
    <3> QED BY <2>1, <2>2, <3>1, GotoType DEF Steps
  <2>3. CASE ~Store(b, p)
    <3>1. \/ at' = at
          \/ \E q \in Pages, step \in {"links", "failed", "requested"} : Goto(b, q, step)
      BY <1>3, <2>3 DEF Ignore, FetchFails, StoreFails, ParseFails, VisitLink, Follow
    <3> QED BY <2>1, <3>1, GotoType DEF Steps
  <2> QED BY <2>2, <2>3
<1> QED BY <1>1, <1>2, <1>3 DEF Step, Scrape, Fails, Handle, Answered

LEMMA ListingStep ==
  ASSUME TypeOK, NEW b \in Builds, Crawled(b), Step(b), Listing(b)
  PROVE  Listing(b)'
<1>1. CASE /\ UNCHANGED <<docs, seen>>
           /\ result'[b] \in {result[b], <<>>, docs[b], Truncated(docs[b])}
           /\ \A q \in Pages : at'[b][q] \in {"stored", "read"} =>
                at[b][q] = at'[b][q] \/ Store(b, q)
  <2>1. \A q \in Pages : Store(b, q) => Kind[q] # "other"
    BY DEF Store
  <2> QED BY <1>1, <2>1, ListingQuiet
<1>4. ASSUME NEW p \in Pages, ReadDocs(b, p)
      PROVE  Listing(b)'
  <2>1. /\ at[b][p] = "stored" /\ Goto(b, p, "read") /\ UNCHANGED <<docs, result>>
        /\ seen' = [seen EXCEPT ![b][p] = docs[b]]
    BY <1>4 DEF ReadDocs, Handler, document
  <2>2. /\ at'[b][p] = "read" /\ \A q \in Pages \ {p} : at'[b][q] = at[b][q]
        /\ seen'[b][p] = docs[b] /\ \A q \in Pages \ {p} : seen'[b][q] = seen[b][q]
    <3>1. docs[b] \in Seq(Pages) /\ seen \in [Builds -> [Pages -> Seq(Pages)]]
      BY DEF TypeOK
    <3> QED BY <2>1, <3>1, GotoType, Updated DEF Steps
  <2>3. /\ docs[b] \in Seq(Pages) /\ result[b] \in Seq(Pages)
        /\ \A q \in Pages : seen[b][q] \in Seq(Pages)
    BY DEF TypeOK
  <2>4. \A q \in Pages : at[b][q] = "links" => at'[b][q] = "links"
    BY <2>1, <2>2
  <2>5. PICK a, e : a = at[b] /\ e = at'[b] /\ Stays(a, e)
    BY <2>4 DEF Stays
  <2>6. Listed(docs[b], e) /\ Listed(result[b], e) /\ \A q \in Pages : Listed(seen[b][q], e)
    BY <2>3, <2>5, ListedStays DEF Listing
  <2>7. \A q \in Pages : Listed(seen'[b][q], e)
    BY <2>2, <2>6
  <2>8. \A q \in Pages : at'[b][q] \in {"stored", "read"} => Kind[q] # "other"
    BY <2>1, <2>2 DEF Listing
  <2> QED BY <2>1, <2>5, <2>6, <2>7, <2>8, ListingAfter
<1>5. ASSUME NEW p \in Pages, AppendDocs(b, p)
      PROVE  Listing(b)'
  <2>1. /\ at[b][p] = "read" /\ Goto(b, p, "links") /\ UNCHANGED result
        /\ docs' = [docs EXCEPT ![b] = Append(seen[b][p], p)]
        /\ seen' = [seen EXCEPT ![b][p] = <<>>]
    BY <1>5 DEF AppendDocs, Follow, Handler, document
  <2>2. /\ at'[b][p] = "links" /\ \A q \in Pages \ {p} : at'[b][q] = at[b][q]
        /\ docs'[b] = Append(seen[b][p], p)
        /\ seen'[b][p] = <<>> /\ \A q \in Pages \ {p} : seen'[b][q] = seen[b][q]
    <3>1. /\ docs \in [Builds -> Seq(Pages)] /\ seen \in [Builds -> [Pages -> Seq(Pages)]]
          /\ <<>> \in Seq(Pages)
      BY DEF TypeOK
    <3>2. docs'[b] = Append(seen[b][p], p)
      BY <2>1, <3>1
    <3>3. seen'[b][p] = <<>> /\ \A q \in Pages \ {p} : seen'[b][q] = seen[b][q]
      BY <2>1, <3>1, Updated
    <3> QED BY <2>1, <3>2, <3>3, GotoType DEF Steps
  <2>3. /\ docs[b] \in Seq(Pages) /\ result[b] \in Seq(Pages)
        /\ \A q \in Pages : seen[b][q] \in Seq(Pages)
    BY DEF TypeOK
  <2>4. \A q \in Pages : at[b][q] = "links" => at'[b][q] = "links"
    BY <2>1, <2>2
  <2>5. PICK a, e : a = at[b] /\ e = at'[b] /\ Stays(a, e)
    BY <2>4 DEF Stays
  <2>6. Listed(result[b], e) /\ \A q \in Pages : Listed(seen[b][q], e)
    BY <2>3, <2>5, ListedStays DEF Listing
  <2>7. Listed(<<>>, e)
    BY DEF Listed
  <2>8. Listed(docs'[b], e)
    <3>1. a[p] # "links" /\ e[p] = "links" /\ Kind[p] # "other" /\ Listed(seen[b][p], a)
      BY <2>1, <2>2, <2>5 DEF Listing
    <3> QED BY <2>2, <2>3, <2>5, <3>1, ListedAppend
  <2>9. \A q \in Pages : Listed(seen'[b][q], e)
    BY <2>2, <2>6, <2>7
  <2>10. \A q \in Pages : at'[b][q] \in {"stored", "read"} => Kind[q] # "other"
    BY <2>2 DEF Listing
  <2> QED BY <2>1, <2>5, <2>6, <2>8, <2>9, <2>10, ListingAfter
<1>6. ASSUME NEW p \in Pages, Answered(b, p)
      PROVE  Listing(b)'
  <2>1. /\ at[b][p] = "requested" /\ UNCHANGED <<result, seen>>
        /\ \/ docs' = docs
           \/ Kind[p] # "other" /\ docs' = [docs EXCEPT ![b] = Append(docs[b], p)]
    BY <1>6 DEF Parse, Answered, Redirected, Crawling, document
  <2>2. /\ at'[b][p] = "links"
        /\ \A q \in Pages : at'[b][q] \in {"stored", "read"} => at[b][q] = at'[b][q]
    <3>1. PICK links \in SUBSET Pages, d \in Nat :
            Handled(b, p, links, d) /\ (links # {} => d \in 0 .. Depth + 1)
      BY <1>6, ParseLinks
    <3>3. /\ \A q \in Pages : q \in links /\ at[b][q] = "unseen" =>
               at'[b][q] = "requested" /\ depth'[b][q] = d
          /\ \A q \in Pages : ~(q \in links /\ at[b][q] = "unseen") =>
               /\ at'[b][q] = IF q = p THEN "links" ELSE at[b][q]
               /\ depth'[b][q] = depth[b][q]
      BY <3>1, HandledType
    <3> QED BY <2>1, <3>3
  <2>3. CASE docs' = docs
    BY <2>1, <2>2, <2>3, ListingQuiet
  <2>4. CASE Kind[p] # "other" /\ docs' = [docs EXCEPT ![b] = Append(docs[b], p)]
    <3>1. /\ docs[b] \in Seq(Pages) /\ result[b] \in Seq(Pages)
          /\ \A q \in Pages : seen[b][q] \in Seq(Pages)
          /\ docs'[b] = Append(docs[b], p)
      BY <2>4 DEF TypeOK
    <3>2. \A q \in Pages : at[b][q] = "links" => at'[b][q] = "links"
      BY LinksStay
    <3>3. PICK a, e : a = at[b] /\ e = at'[b] /\ Stays(a, e)
      BY <3>2 DEF Stays
    <3>4. Listed(result[b], e) /\ \A q \in Pages : Listed(seen[b][q], e)
      BY <3>1, <3>3, ListedStays DEF Listing
    <3>5. Listed(docs'[b], e)
      <4>1. a[p] # "links" /\ e[p] = "links" /\ Listed(docs[b], a)
        BY <2>1, <2>2, <3>3 DEF Listing
      <4> QED BY <2>4, <3>1, <3>3, <4>1, ListedAppend
    <3>6. \A q \in Pages : at'[b][q] \in {"stored", "read"} => Kind[q] # "other"
      BY <2>2 DEF Listing
    <3> QED BY <2>1, <3>3, <3>4, <3>5, <3>6, ListingAfter
  <2> QED BY <2>1, <2>3, <2>4
<1> QED BY <1>1, <1>4, <1>5, <1>6, ListSteps

Reading == {"loading", "loaded", "missing"}

\* A build reads one list, from its beginning, and nobody writes it meanwhile.
Reads(b) ==
  /\ build[b] \notin Reading => loaded[b] = <<>>
  /\ build[b] \in Reading =>
       /\ scraper[b] = "exit"
       /\ Len(loaded[b]) <= Len(result[b])
       /\ \A i \in DOMAIN loaded[b] : loaded[b][i].url = Final[result[b][i]]
       /\ way[b] # "job" => result[b] = docs[b]
       /\ build[b] = "loaded" => Len(loaded[b]) = Len(result[b])

\* A crawler process has one thread: what it has handled is on its list, and
\* where it was redirected to it has requested.
Handed(b, p) ==
  /\ at[b][p] \in {"unseen", "requested", "links", "failed"} /\ todo[b][p] = {}
  /\ at[b][p] = "links" => at[b][Final[p]] # "unseen"
  /\ at[b][p] = "links" /\ Final[p] = p /\ Kind[p] # "other" =>
       \E i \in DOMAIN docs[b] : docs[b][i] = p

OneThread(b) ==
  way[b] # "job" =>
    /\ \A p \in Pages : Handed(b, p)
    /\ \A i \in DOMAIN docs[b] : Final[docs[b][i]] = docs[b][i]
    /\ scraper[b] \in {"exit", "blocked"} =>
         \A p \in Pages : at[b][p] \in {"unseen", "links", "failed"}

LEMMA ReadsStep ==
  ASSUME TypeOK, NEW b \in Builds, BuildInv(b), Reads(b), Step(b)
  PROVE  Reads(b)'
<1>1. CASE Scrape(b) \/ (Fails(b) /\ ~StartCrawlerFails(b) /\ ~LaunchFails(b))
  <2>1. scraper[b] \in {"start", "crawl"} /\ UNCHANGED <<build, loaded>>
    BY <1>1 DEF Scrape, Fails, Handle, InitializeBucket, InitializeBucketFails, Ignore, Store,
                StoreFails, ReadDocs, AppendDocs, VisitLink, FetchFails, SaveResults,
                SaveResultsFails, PodDies, FetchJobDocumentFails, StartRequests, Parse,
                Redirected, ParseFails, CloseSpider, PutDocs, Handler, Response, Crawling,
                builder
  <2> QED BY <2>1 DEF Reads
<1>2. CASE \/ StartJob(b) \/ MarkActive(b) \/ Poll(b) \/ StartCrawler(b) \/ Join(b)
           \/ TimeOut(b) \/ StartCrawlerFails(b) \/ LaunchFails(b)
  <2>1. build'[b] \notin Reading /\ build[b] \notin Reading /\ loaded' = loaded
    BY <1>2 DEF StartJob, MarkActive, Poll, StartCrawler, Join, TimeOut, StartCrawlerFails,
                LaunchFails, Reading, TypeOK
  <2> QED BY <2>1 DEF Reads
<1>3. CASE ReadOutcome(b)
  <2>1. /\ build[b] \notin Reading /\ UNCHANGED <<loaded, result, scraper, docs, way, status>>
        /\ build'[b] = IF status[b] = "succeeded" THEN "loading" ELSE "raised"
    BY <1>3 DEF ReadOutcome, Reading, TypeOK, document
  <2>2. loaded[b] = <<>> /\ result[b] \in Seq(Pages)
    BY <2>1 DEF Reads, TypeOK
  <2>3. CASE status[b] = "succeeded"
    BY <2>1, <2>2, <2>3 DEF BuildInv, Reported, Crawled, Reads, Reading
  <2>4. CASE status[b] # "succeeded"
    BY <2>1, <2>2, <2>4 DEF Reads, Reading
  <2> QED BY <2>3, <2>4
<1>4. CASE GetDocs(b)
  <2>1. /\ build[b] \notin Reading /\ build'[b] = "loading" /\ scraper[b] = "exit"
        /\ result'[b] = docs[b] /\ UNCHANGED <<loaded, scraper, docs, way>>
    BY <1>4 DEF GetDocs, Reading, TypeOK, pages
  <2>2. loaded[b] = <<>> /\ docs[b] \in Seq(Pages)
    BY <2>1 DEF Reads, TypeOK
  <2> QED BY <2>1, <2>2 DEF Reads, Reading
<1>5. CASE Loaded(b)
  <2>1. /\ build[b] \in Reading /\ build'[b] = "loaded" /\ Len(loaded[b]) = Len(result[b])
        /\ UNCHANGED <<loaded, result, scraper, docs, way>>
    BY <1>5 DEF Loaded, Reading, TypeOK, document
  <2> QED BY <2>1 DEF Reads, Reading
<1>6. CASE Load(b)
  <2> DEFINE page == Final[result[b][Len(loaded[b]) + 1]]
             got == bucket[Place(b)][File[page]]
             x == [url |-> page, got |-> got]
  <2>1. /\ build[b] = "loading" /\ Len(loaded[b]) < Len(result[b])
        /\ \/ build' = [build EXCEPT ![b] = "missing"] /\ UNCHANGED loaded
           \/ loaded' = [loaded EXCEPT ![b] = Append(@, x)] /\ UNCHANGED build
        /\ UNCHANGED <<result, scraper, docs, way>>
    BY <1>6 DEF Load, document
  <2>2. /\ loaded[b] \in Seq([url : Pages, got : Pages]) /\ result[b] \in Seq(Pages)
        /\ build \in [Builds -> {"start", "created", "waiting", "ended", "loading",
                                 "loaded", "missing", "raised", "joining", "getting"}]
        /\ loaded \in [Builds -> Seq([url : Pages, got : Pages])]
    BY DEF TypeOK
  <2>3. x.url = page
    OBVIOUS
  <2> HIDE DEF x
  <2>4. CASE build' = [build EXCEPT ![b] = "missing"] /\ UNCHANGED loaded
    BY <2>1, <2>2, <2>4 DEF Reads, Reading
  <2>5. CASE loaded' = [loaded EXCEPT ![b] = Append(@, x)] /\ UNCHANGED build
    <3>1. loaded'[b] = Append(loaded[b], x)
      BY <2>2, <2>5
    <3> DEFINE s == loaded[b]
               t == Append(s, x)
    <3>2. /\ Len(s) \in Nat /\ Len(t) = Len(s) + 1 /\ DOMAIN t = 1 .. Len(s) + 1
          /\ DOMAIN s = 1 .. Len(s)
          /\ t[Len(s) + 1] = x /\ \A i \in 1 .. Len(s) : t[i] = s[i]
      BY <2>2
    <3>3. \A i \in DOMAIN s : s[i].url = Final[result[b][i]]
      BY <2>1 DEF Reads, Reading
    <3>4. Len(result[b]) \in Nat /\ Len(s) < Len(result[b])
      BY <2>1, <2>2
    <3>5. t[Len(s) + 1].url = Final[result[b][Len(s) + 1]]
      BY <2>3, <3>2
    <3> HIDE DEF s, t
    <3>6. \A i \in DOMAIN t : t[i].url = Final[result[b][i]]
      BY <3>2, <3>3, <3>5
    <3>7. Len(t) <= Len(result[b])
      BY <3>2, <3>4
    <3>8. loaded'[b] = t
      BY <3>1 DEF s, t
    <3> QED BY <2>1, <2>5, <3>6, <3>7, <3>8 DEF Reads, Reading
  <2> QED BY <2>1, <2>4, <2>5
<1> QED BY <1>1, <1>2, <1>3, <1>4, <1>5, <1>6 DEF Step, Wait

LEMMA OneThreadStep ==
  ASSUME TypeOK, NEW b \in Builds, Crawled(b), OneThread(b), Step(b)
  PROVE  OneThread(b)'
<1> SUFFICES ASSUME way[b] # "job" PROVE OneThread(b)'
  BY WayKept DEF OneThread
<1>1. /\ \A p \in Pages : Handed(b, p) /\ Final[p] \in Pages
      /\ \A i \in DOMAIN docs[b] : Final[docs[b][i]] = docs[b][i]
  BY ScrapeAssumption DEF OneThread
<1>2. CASE Wait(b) \/ TimeOut(b) \/ StartCrawlerFails(b) \/ LaunchFails(b) \/ PodDies(b)
  <2>1. UNCHANGED <<docs, at, todo>>
    BY <1>2 DEF Wait, StartJob, MarkActive, Poll, ReadOutcome, Load, Loaded, TimeOut,
                StartCrawler, StartCrawlerFails, LaunchFails, Join, GetDocs, PodDies, pages
  <2>2. scraper' = scraper \/ scraper'[b] \in {"start", "dead"}
    <3>1. \/ scraper' = scraper \/ scraper' = [scraper EXCEPT ![b] = "start"]
          \/ scraper' = [scraper EXCEPT ![b] = "dead"]
      BY <1>2 DEF Wait, StartJob, MarkActive, Poll, ReadOutcome, Load, Loaded, TimeOut,
                  StartCrawler, StartCrawlerFails, LaunchFails, Join, GetDocs, PodDies
    <3> QED BY <3>1 DEF TypeOK
  <2> QED BY <2>1, <2>2 DEF OneThread, Handed
<1>3. CASE PutDocs(b)
  <2>1. UNCHANGED <<docs, at, todo>> /\ Quiet(b)
    BY <1>3 DEF PutDocs, pages
  <2> QED BY <2>1 DEF OneThread, Handed, Quiet, Visited
<1>4. ASSUME NEW p \in Pages, FetchFails(b, p) \/ ParseFails(b, p)
      PROVE  OneThread(b)'
  <2>1. Goto(b, p, "failed") /\ UNCHANGED <<scraper, docs, todo>> /\ scraper[b] = "crawl"
    BY <1>4 DEF FetchFails, ParseFails, Handler, Crawling
  <2>2. at'[b][p] = "failed" /\ \A q \in Pages \ {p} : at'[b][q] = at[b][q]
    BY <2>1, GotoType DEF Steps
  <2> QED BY <1>1, <2>1, <2>2 DEF OneThread, Handed
<1>5. CASE CloseSpider(b)
  <2>1. /\ UNCHANGED <<scraper, docs, todo>> /\ scraper[b] = "crawl"
        /\ \A q \in Pages : at'[b][q] = IF at[b][q] = "requested" THEN "failed" ELSE at[b][q]
    BY <1>5 DEF CloseSpider, TypeOK
  <2> QED BY <1>1, <2>1 DEF OneThread, Handed
<1>6. CASE StartRequests(b)
  <2>1. /\ UNCHANGED <<docs, todo>> /\ scraper'[b] = "crawl"
        /\ \A q \in Pages : at[b][q] = "unseen"
    BY <1>6 DEF StartRequests, TypeOK, Crawled
  <2>2. \A q \in Pages : at'[b][q] \in {"unseen", "requested"}
    <3>1. CASE UNCHANGED <<at, depth>>
      BY <2>1, <3>1
    <3>2. CASE ~UNCHANGED <<at, depth>>
      <4>1. {url[b]} \in SUBSET Pages /\ 0 \in 0 .. Depth + 1 /\ 1 \in 0 .. Depth + 1
        BY ScrapeAssumption DEF TypeOK
      <4>2. PICK links \in SUBSET Pages, d \in Nat :
              Handled(b, NoPage, links, d) /\ (links # {} => d \in 0 .. Depth + 1)
        <5>1. \E links \in SUBSET Pages, d \in {0, 1} : Handled(b, NoPage, links, d)
          BY <1>6, <3>2, <4>1, FirstRequests
        <5> QED BY <4>1, <5>1
      <4>3. NoPage \notin Pages
        BY ScrapeAssumption
      <4>4. /\ \A q \in Pages : q \in links /\ at[b][q] = "unseen" =>
                 at'[b][q] = "requested" /\ depth'[b][q] = d
            /\ \A q \in Pages : ~(q \in links /\ at[b][q] = "unseen") =>
                 /\ at'[b][q] = IF q = NoPage THEN "links" ELSE at[b][q]
                 /\ depth'[b][q] = depth[b][q]
        BY <4>2, HandledType
      <4> QED BY <2>1, <4>3, <4>4
    <3> QED BY <3>1, <3>2
  <2> QED BY <1>1, <2>1, <2>2 DEF OneThread, Handed
<1>7. ASSUME NEW p \in Pages, Answered(b, p)
      PROVE  OneThread(b)'
  <2>1. /\ at[b][p] = "requested" /\ scraper[b] = "crawl" /\ UNCHANGED <<scraper, todo>>
        /\ \/ docs' = docs /\ (Final[p] # p \/ Kind[p] = "other")
           \/ docs' = [docs EXCEPT ![b] = Append(docs[b], p)] /\ Final[p] = p
    BY <1>7 DEF Parse, Answered, Redirected, Crawling
  <2>2. /\ \A q \in Pages : /\ at'[b][q] \in {at[b][q], "requested", "links"}
                            /\ at'[b][q] = "links" => at[b][q] = "links" \/ q = p
                            /\ at[b][q] # "unseen" => at'[b][q] # "unseen"
        /\ at'[b][Final[p]] # "unseen"
    <3>1. PICK links \in SUBSET Pages, d \in Nat :
            /\ Handled(b, p, links, d) /\ (links # {} => d \in 0 .. Depth + 1)
            /\ Final[p] = p \/ Final[p] \in links
      <4>1. CASE Parse(b, p)
        <5>1. Final[p] = p
          BY <4>1 DEF Parse
        <5> QED BY <1>7, <5>1, ParseLinks
      <4>2. CASE Redirected(b, p)
        <5>1. Handled(b, p, {Final[p]}, depth[b][p])
          BY <4>2 DEF Redirected
        <5>2. depth[b][p] \in 0 .. Depth + 1 /\ depth[b][p] \in Nat
          BY DEF TypeOK
        <5> QED BY <1>1, <5>1, <5>2
      <4> QED BY <1>7, <4>1, <4>2 DEF Answered
    <3>3. /\ \A q \in Pages : q \in links /\ at[b][q] = "unseen" =>
               at'[b][q] = "requested" /\ depth'[b][q] = d
          /\ \A q \in Pages : ~(q \in links /\ at[b][q] = "unseen") =>
               /\ at'[b][q] = IF q = p THEN "links" ELSE at[b][q]
               /\ depth'[b][q] = depth[b][q]
      BY <3>1, HandledType
    <3> QED BY <1>1, <2>1, <3>1, <3>3
  <2>3. ASSUME NEW q \in Pages, at'[b][q] = "links", Final[q] = q, Kind[q] # "other"
        PROVE  \E i \in DOMAIN docs'[b] : docs'[b][i] = q
    <3> DEFINE s == docs[b]
               t == Append(s, p)
    <3>1. s \in Seq(Pages) /\ docs \in [Builds -> Seq(Pages)]
      BY DEF TypeOK
    <3>2. /\ DOMAIN t = 1 .. Len(s) + 1 /\ DOMAIN s = 1 .. Len(s) /\ Len(s) \in Nat
          /\ t[Len(s) + 1] = p /\ \A i \in 1 .. Len(s) : t[i] = s[i]
      BY <3>1
    <3>3. docs'[b] = t \/ (docs'[b] = s /\ (Final[p] # p \/ Kind[p] = "other"))
      BY <2>1, <3>1
    <3>4. CASE q = p
      <4>1. docs'[b] = t
        BY <2>3, <3>3, <3>4
      <4> HIDE DEF t, s
      <4>2. Len(s) + 1 \in DOMAIN t
        BY <3>2
      <4> QED BY <3>2, <3>4, <4>1, <4>2
    <3>5. CASE q # p
      <4>1. PICK i \in DOMAIN s : s[i] = q
        BY <1>1, <2>2, <2>3, <3>5 DEF Handed
      <4> HIDE DEF t, s
      <4>2. i \in DOMAIN t /\ t[i] = q
        BY <3>2, <4>1
      <4> QED BY <3>3, <4>1, <4>2
    <3> QED BY <3>4, <3>5
  <2>4. \A q \in Pages : Handed(b, q)'
    <3> SUFFICES ASSUME NEW q \in Pages PROVE Handed(b, q)'
      OBVIOUS
    <3>1. /\ at'[b][q] \in {"unseen", "requested", "links", "failed"} /\ todo'[b][q] = {}
          /\ at'[b][q] = "links" => at'[b][Final[q]] # "unseen"
      BY <1>1, <2>1, <2>2 DEF Handed
    <3> QED BY <2>3, <3>1 DEF Handed
  <2>5. \A i \in DOMAIN docs'[b] : Final[docs'[b][i]] = docs'[b][i]
    <3>1. docs[b] \in Seq(Pages) /\ docs \in [Builds -> Seq(Pages)]
      BY DEF TypeOK
    <3>2. CASE docs' = docs
      BY <1>1, <3>2
    <3>3. CASE docs'[b] = Append(docs[b], p) /\ Final[p] = p
      <4> DEFINE s == docs[b]
                 t == Append(s, p)
      <4>1. /\ DOMAIN t = 1 .. Len(s) + 1 /\ DOMAIN s = 1 .. Len(s) /\ Len(s) \in Nat
            /\ t[Len(s) + 1] = p /\ \A i \in 1 .. Len(s) : t[i] = s[i]
        BY <3>1
      <4>2. docs'[b] = t /\ \A i \in DOMAIN s : Final[s[i]] = s[i]
        BY <1>1, <3>3
      <4> HIDE DEF s, t
      <4> QED BY <3>3, <4>1, <4>2
    <3> QED BY <2>1, <3>1, <3>2, <3>3
  <2> QED BY <2>1, <2>4, <2>5 DEF OneThread
<1>8. ~(\E p \in Pages : Handle(b, p) \/ StoreFails(b, p))
  BY <1>1 DEF Handed, Handle, StoreFails, Ignore, Store, ReadDocs, AppendDocs, VisitLink, Handler,
              Response
<1> QED BY <1>2, <1>3, <1>4, <1>5, <1>6, <1>7, <1>8
DEF Step, Scrape, Fails, Answered, InitializeBucket, InitializeBucketFails, SaveResults,
    SaveResultsFails, FetchJobDocumentFails

-----------------------------------------------------------------------------
(* What is on a list was stored *)

Of(s) == {s[i] : i \in DOMAIN s}

\* The pages a scrape has stored, and not forgotten.
Held(b) == {p \in Pages : at[b][p] \in {"stored", "read"}}
           \cup Of(docs[b]) \cup Of(result[b]) \cup UNION {Of(seen[b][q]) : q \in Pages}

\* Nobody else's job empties the bucket of the build.
Own(b) == \A c \in Builds \ {b} : way[c] = "job" => Place(c) # Place(b)

StoredHeld(b) ==
  Own(b) =>
    /\ \A p \in Held(b) : bucket[Place(b)][Name(p)] # NoPage
    /\ build[b] # "missing"

LEMMA HeldPages ==
  ASSUME TypeOK', NEW b \in Builds
  PROVE  Held(b)' \subseteq Pages
<1>1. /\ docs'[b] \in Seq(Pages) /\ result'[b] \in Seq(Pages)
      /\ \A p \in Pages : seen'[b][p] \in Seq(Pages)
  BY DEF TypeOK
<1>2. \A s \in Seq(Pages) : Of(s) \subseteq Pages
  BY DEF Of
<1> QED BY <1>1, <1>2 DEF Held, Of

LEMMA OfAppend ==
  ASSUME NEW s \in Seq(Pages), NEW p \in Pages
  PROVE  Of(Append(s, p)) \subseteq Of(s) \cup {p}
<1> DEFINE t == Append(s, p)
<1>1. /\ DOMAIN t = 1 .. Len(s) + 1 /\ DOMAIN s = 1 .. Len(s) /\ Len(s) \in Nat
      /\ t[Len(s) + 1] = p /\ \A i \in 1 .. Len(s) : t[i] = s[i]
  OBVIOUS
<1> HIDE DEF t
<1>2. \A i \in DOMAIN t : t[i] \in Of(s) \cup {p}
  BY <1>1 DEF Of
<1> QED BY <1>2 DEF Of, t

LEMMA OfTruncated ==
  ASSUME NEW s \in Seq(Pages)
  PROVE  Of(Truncated(s)) \subseteq Of(s)
<1>1. CASE Len(s) <= Limit
  BY <1>1 DEF Truncated
<1>2. CASE ~(Len(s) <= Limit)
  <2> DEFINE t == SubSeq(s, 1, Limit)
  <2>1. Truncated(s) = t /\ Limit \in Nat /\ Limit < Len(s)
    BY <1>2, ScrapeAssumption DEF Truncated
  <2>2. DOMAIN t = 1 .. Limit /\ DOMAIN t \subseteq DOMAIN s /\ \A i \in DOMAIN t : t[i] = s[i]
    BY <2>1
  <2> HIDE DEF t
  <2> QED BY <2>1, <2>2 DEF Of
<1> QED BY <1>1, <1>2

\* What a build holds, it held before, or it has just stored it.
LEMMA HeldStep ==
  ASSUME TypeOK, NEW b \in Builds, Step(b), NEW p, p \in Held(b)'
  PROVE  p \in Held(b) \/ bucket'[Place(b)][Name(p)] = Final[p]
<1>1. /\ docs[b] \in Seq(Pages) /\ result[b] \in Seq(Pages)
      /\ seen \in [Builds -> [Pages -> Seq(Pages)]] /\ docs \in [Builds -> Seq(Pages)]
      /\ \A q \in Pages : seen[b][q] \in Seq(Pages)
      /\ bucket \in [Buckets \cup Builds -> [Files -> Pages \cup {NoPage}]]
      /\ Place(b) \in Buckets \cup Builds
      /\ \A q \in Pages : File[q] \in Files /\ Name(q) \in Files
      /\ <<>> \in Seq(Pages)
  <2>1. Place(b) \in Buckets \cup Builds /\ <<>> \in Seq(Pages)
    BY WayType
  <2>2. /\ docs \in [Builds -> Seq(Pages)] /\ result \in [Builds -> Seq(Pages)]
        /\ seen \in [Builds -> [Pages -> Seq(Pages)]]
        /\ bucket \in [Buckets \cup Builds -> [Files -> Pages \cup {NoPage}]]
    BY DEF TypeOK
  <2> QED BY <2>1, <2>2, ScrapeAssumption DEF Name
<1>2. \/ p \in Pages /\ at'[b][p] \in {"stored", "read"}
      \/ p \in Of(docs'[b]) \/ p \in Of(result'[b]) \/ \E q \in Pages : p \in Of(seen'[b][q])
  BY DEF Held, Of
<1>3. CASE /\ UNCHANGED <<docs, seen>>
           /\ result'[b] \in {result[b], <<>>, docs[b], Truncated(docs[b])}
           /\ \A q \in Pages : at'[b][q] \in {"stored", "read"} =>
                at[b][q] = at'[b][q] \/ Store(b, q)
  <2>1. Of(result'[b]) \subseteq Of(result[b]) \cup Of(docs[b])
    <3>1. Of(<<>>) = {}
      BY DEF Of
    <3> QED BY <1>1, <1>3, <3>1, OfTruncated
  <2>2. ASSUME p \in Pages, Store(b, p)
        PROVE  bucket'[Place(b)][Name(p)] = Final[p]
    BY <1>1, <2>2 DEF Store
  <2> QED BY <1>2, <1>3, <2>1, <2>2 DEF Held
<1>4. ASSUME NEW q \in Pages, ReadDocs(b, q)
      PROVE  p \in Held(b)
  <2>1. /\ at[b][q] = "stored" /\ Goto(b, q, "read") /\ UNCHANGED <<docs, result>>
        /\ seen' = [seen EXCEPT ![b][q] = docs[b]]
    BY <1>4 DEF ReadDocs, Handler, document
  <2>2. /\ \A r \in Pages \ {q} : at'[b][r] = at[b][r]
        /\ seen'[b][q] = docs[b] /\ \A r \in Pages \ {q} : seen'[b][r] = seen[b][r]
    BY <1>1, <2>1, GotoType, Updated DEF Steps
  <2> QED BY <1>2, <2>1, <2>2 DEF Held
<1>5. ASSUME NEW q \in Pages, AppendDocs(b, q)
      PROVE  p \in Held(b)
  <2>1. /\ at[b][q] = "read" /\ Goto(b, q, "links") /\ UNCHANGED result
        /\ docs' = [docs EXCEPT ![b] = Append(seen[b][q], q)]
        /\ seen' = [seen EXCEPT ![b][q] = <<>>]
    BY <1>5 DEF AppendDocs, Follow, Handler, document
  <2>2. seen'[b][q] = <<>> /\ \A r \in Pages \ {q} : seen'[b][r] = seen[b][r]
    BY <1>1, <2>1, Updated
  <2>3. /\ at'[b][q] = "links" /\ \A r \in Pages \ {q} : at'[b][r] = at[b][r]
        /\ docs'[b] = Append(seen[b][q], q)
    BY <1>1, <2>1, GotoType DEF Steps
  <2>4. Of(docs'[b]) \subseteq Of(seen[b][q]) \cup {q} /\ Of(<<>>) = {}
    <3>1. Of(<<>>) = {}
      BY DEF Of
    <3> QED BY <1>1, <2>3, <3>1, OfAppend
  <2> QED BY <1>2, <2>1, <2>2, <2>3, <2>4 DEF Held
<1>6. ASSUME NEW q \in Pages, Answered(b, q)
      PROVE  p \in Held(b) \/ bucket'[Place(b)][Name(p)] = Final[p]
  <2>1. /\ at[b][q] = "requested" /\ UNCHANGED <<result, seen>>
        /\ \/ docs' = docs
           \/ /\ docs' = [docs EXCEPT ![b] = Append(docs[b], q)] /\ Final[q] = q
              /\ bucket' = [bucket EXCEPT ![Place(b)][File[q]] = q]
    BY <1>6 DEF Parse, Answered, Redirected, Crawling, document
  <2>2. \A r \in Pages : at'[b][r] \in {"stored", "read"} => at[b][r] = at'[b][r]
    <3>1. PICK links \in SUBSET Pages, d \in Nat :
            Handled(b, q, links, d) /\ (links # {} => d \in 0 .. Depth + 1)
      BY <1>6, ParseLinks
    <3> QED BY <2>1, <3>1, HandledType
  <2>3. CASE docs' = docs
    BY <1>2, <2>1, <2>2, <2>3 DEF Held
  <2>4. CASE /\ docs' = [docs EXCEPT ![b] = Append(docs[b], q)] /\ Final[q] = q
             /\ bucket' = [bucket EXCEPT ![Place(b)][File[q]] = q]
    <3>1. bucket'[Place(b)][Name(q)] = Final[q]
      BY <1>1, <2>4 DEF Name
    <3>2. docs'[b] = Append(docs[b], q) /\ Of(docs'[b]) \subseteq Of(docs[b]) \cup {q}
      BY <1>1, <2>4, OfAppend
    <3> QED BY <1>2, <2>1, <2>2, <3>1, <3>2 DEF Held
  <2> QED BY <2>1, <2>3, <2>4
<1> QED BY <1>3, <1>4, <1>5, <1>6, ListSteps

\* Only the job of a build empties its bucket.
LEMMA BucketKeeps ==
  ASSUME TypeOK, NEW b \in Builds, Step(b), NEW u \in Buckets \cup Builds, NEW f \in Files,
         bucket[u][f] # NoPage, bucket'[u][f] = NoPage
  PROVE  (InitializeBucket(b) \/ InitializeBucketFails(b)) /\ u = Place(b)
<1>1. bucket' # bucket
  OBVIOUS
<1>2. \/ InitializeBucket(b) \/ InitializeBucketFails(b)
      \/ \E p, q \in Pages : bucket' = [bucket EXCEPT ![Place(b)][File[q]] = p]
  <2>1. ~(Wait(b) \/ TimeOut(b) \/ StartCrawlerFails(b) \/ LaunchFails(b))
    BY <1>1 DEF Wait, StartJob, MarkActive, Poll, ReadOutcome, Load, Loaded, TimeOut,
                StartCrawler, StartCrawlerFails, LaunchFails, Join, GetDocs
  <2>2. CASE \E p \in Pages : Store(b, p)
    BY <2>2, ScrapeAssumption DEF Store, Name
  <2>3. CASE ~\E p \in Pages : Store(b, p)
    BY <1>1, <2>1, <2>3
    DEF Step, Scrape, SaveResults, Handle, Ignore, ReadDocs, AppendDocs,
        VisitLink, Fails, SaveResultsFails, PodDies, FetchJobDocumentFails, UpdateJobError,
        FetchFails, StoreFails, StartRequests, Parse, Redirected, ParseFails, CloseSpider,
        PutDocs
  <2> QED BY <2>2, <2>3
<1>3. /\ bucket \in [Buckets \cup Builds -> [Files -> Pages \cup {NoPage}]]
      /\ Place(b) \in Buckets \cup Builds
  BY WayType DEF TypeOK
<1>4. ASSUME NEW p \in Pages, NEW q \in Pages,
             bucket' = [bucket EXCEPT ![Place(b)][File[q]] = p]
      PROVE  FALSE
  BY <1>3, <1>4, ScrapeAssumption
<1>5. InitializeBucket(b) \/ InitializeBucketFails(b)
  BY <1>2, <1>4
<1> QED BY <1>5, Cleared

LEMMA OwnKept ==
  ASSUME NEW b \in Builds, Step(b), NEW c \in Builds
  PROVE  Own(c)' <=> Own(c)
BY WayKept DEF Own

LEMMA StoredHeldStep ==
  ASSUME TypeOK, TypeOK', NEW b \in Builds, Crawled(b), Listing(b), StoredHeld(b), Step(b)
  PROVE  StoredHeld(b)'
<1> SUFFICES ASSUME Own(b) PROVE StoredHeld(b)'
  BY OwnKept DEF StoredHeld
<1>1. /\ \A p \in Held(b) : bucket[Place(b)][Name(p)] # NoPage
      /\ build[b] # "missing" /\ Place(b) \in Buckets \cup Builds
  BY WayType DEF StoredHeld
<1>2. ASSUME NEW p, p \in Held(b)'
      PROVE  bucket'[Place(b)][Name(p)] # NoPage
  <2>1. Final[p] # NoPage /\ Name(p) \in Files
    <3>1. Held(b)' \subseteq Pages
      BY HeldPages
    <3> QED BY <1>2, <3>1, ScrapeAssumption DEF Name
  <2>2. CASE p \in Held(b)
    <3>1. ~(InitializeBucket(b) \/ InitializeBucketFails(b))
      <4>1. ASSUME InitializeBucket(b) \/ InitializeBucketFails(b)
            PROVE  FALSE
        <5>1. \A q \in Pages : at[b][q] = "unseen"
          BY <4>1 DEF InitializeBucket, InitializeBucketFails, Crawled
        <5>2. \A s \in Seq(Pages) : Listed(s, at[b]) => Of(s) = {}
          BY <5>1 DEF Listed, Of
        <5>3. /\ docs[b] \in Seq(Pages) /\ result[b] \in Seq(Pages)
              /\ \A q \in Pages : seen[b][q] \in Seq(Pages)
          BY DEF TypeOK
        <5> QED BY <2>2, <5>1, <5>2, <5>3 DEF Held, Listing
      <4> QED BY <4>1
    <3> QED BY <1>1, <2>1, <2>2, <3>1, BucketKeeps
  <2>3. CASE p \notin Held(b)
    BY <1>2, <2>1, <2>3, HeldStep
  <2> QED BY <2>2, <2>3
<1>3. build'[b] # "missing"
  <2>1. CASE Load(b)
    <3> DEFINE page == result[b][Len(loaded[b]) + 1]
    <3>1. Len(loaded[b]) < Len(result[b]) /\ loaded[b] \in Seq([url : Pages, got : Pages])
                 /\ result[b] \in Seq(Pages)
      BY <2>1 DEF Load, TypeOK
    <3>2. page \in Of(result[b])
      BY <3>1 DEF Of
    <3>3. bucket[Place(b)][File[Final[page]]] # NoPage
      BY <1>1, <3>2 DEF Held, Name
    <3> HIDE DEF page
    <3>4. UNCHANGED build
      BY <2>1, <3>3 DEF Load, page
    <3> QED BY <1>1, <3>4
  <2>2. CASE Scrape(b) \/ (Fails(b) /\ ~StartCrawlerFails(b) /\ ~LaunchFails(b))
    <3>1. UNCHANGED build
      BY <2>2 DEF Scrape, Fails, Handle, InitializeBucket, InitializeBucketFails, Ignore, Store,
                  StoreFails, ReadDocs, AppendDocs, VisitLink, FetchFails, SaveResults,
                  SaveResultsFails, PodDies, FetchJobDocumentFails, StartRequests, Parse,
                  Redirected, ParseFails, CloseSpider, PutDocs, builder
    <3> QED BY <1>1, <3>1
  <2>3. CASE \/ StartJob(b) \/ MarkActive(b) \/ Poll(b) \/ StartCrawler(b) \/ Join(b)
             \/ TimeOut(b) \/ StartCrawlerFails(b) \/ LaunchFails(b) \/ ReadOutcome(b)
             \/ GetDocs(b) \/ Loaded(b)
    BY <1>1, <2>3 DEF StartJob, MarkActive, Poll, StartCrawler, Join, TimeOut, ReadOutcome,
                      GetDocs, Loaded, StartCrawlerFails, LaunchFails, TypeOK
  <2> QED BY <2>1, <2>2, <2>3 DEF Step, Wait
<1>4. Place(b)' = Place(b)
  BY WayKept
<1> QED BY <1>2, <1>3, <1>4 DEF StoredHeld

\* How a build's list is made, read and kept, beside what BuildInv says.
HandInv == \A b \in Builds : Listing(b) /\ Reads(b) /\ OneThread(b) /\ StoredHeld(b)

LEMMA HandAlone ==
  ASSUME TypeOK, NEW b \in Builds, Step(b), NEW c \in Builds \ {b},
         Listing(c), Reads(c), OneThread(c), StoredHeld(c)
  PROVE  Listing(c)' /\ Reads(c)' /\ OneThread(c)' /\ StoredHeld(c)'
<1>1. Untouched(c)
  BY Alone
<1>2. Listing(c)' /\ Reads(c)' /\ OneThread(c)'
  <2>1. Listing(c)'
    BY <1>1, ListingAfter DEF Untouched, Listing
  <2>2. Reads(c)'
    BY <1>1 DEF Untouched, Reads
  <2>3. OneThread(c)'
    BY <1>1 DEF Untouched, OneThread, Handed
  <2> QED BY <2>1, <2>2, <2>3
<1>3. StoredHeld(c)'
  <2> SUFFICES ASSUME Own(c) PROVE StoredHeld(c)'
    BY OwnKept DEF StoredHeld
  <2>1. Held(c)' = Held(c)
    BY <1>1 DEF Untouched, Held, Of
  <2>2. ~((InitializeBucket(b) \/ InitializeBucketFails(b)) /\ Place(c) = Place(b))
    BY DEF InitializeBucket, InitializeBucketFails, Own
  <2>3. /\ \A p \in Held(c) : bucket[Place(c)][Name(p)] # NoPage
        /\ build[c] # "missing" /\ Place(c) \in Buckets \cup Builds
    BY WayType DEF StoredHeld
  <2>4. \A p \in Held(c) : Name(p) \in Files
    <3>1. /\ docs[c] \in Seq(Pages) /\ result[c] \in Seq(Pages)
          /\ \A q \in Pages : seen[c][q] \in Seq(Pages)
      BY DEF TypeOK
    <3>2. \A s \in Seq(Pages) : Of(s) \subseteq Pages
      BY DEF Of
    <3>3. Held(c) \subseteq Pages
      BY <3>1, <3>2 DEF Held
    <3> QED BY <3>3, ScrapeAssumption DEF Name
  <2>5. \A p \in Held(c) : bucket'[Place(c)][Name(p)] # NoPage
    BY <2>2, <2>3, <2>4, BucketKeeps
  <2>6. Place(c)' = Place(c) /\ build'[c] = build[c]
    BY <1>1, WayKept DEF Untouched
  <2> QED BY <2>1, <2>3, <2>5, <2>6 DEF StoredHeld
<1> QED BY <1>2, <1>3

-----------------------------------------------------------------------------
(* Theorems *)

THEOREM Invariance == Spec => []IInv
<1>1. IInv /\ [Next]_vars => IInv'
  <2> SUFFICES ASSUME IInv, [Next]_vars PROVE IInv'
    OBVIOUS
  <2>1. CASE UNCHANGED vars
    <3>1. /\ UNCHANGED <<build, url, way, loaded, status, result, scraper>>
          /\ UNCHANGED <<docs, at, depth, todo, seen, bucket>>
      BY <2>1 DEF vars
    <3>2. TypeOK' /\ StoredInv'
      <4>1. TypeOK'
        BY <3>1 DEF IInv, TypeOK
      <4>2. StoredInv'
        BY <3>1 DEF IInv, StoredInv, Requested, Visited, Place
      <4> QED BY <4>1, <4>2
    <3>3. \A b \in Builds : BuildInv(b)'
      <4>1. \A b \in Builds : MaxDepth(b)' = MaxDepth(b) /\ Visited(b)' = Visited(b)
        BY <3>1 DEF MaxDepth, Visited
      <4>2. \A b \in Builds : Crawled(b)' /\ Reached(b)'
        BY <3>1, <4>1 DEF IInv, BuildInv, Crawled, Reached, Reason
      <4>3. \A b \in Builds : Reported(b)'
        BY <3>1, <4>1 DEF IInv, BuildInv, Reported, Quiet, Truncated
      <4> QED BY <4>2, <4>3 DEF BuildInv
    <3> QED BY <3>2, <3>3 DEF IInv
  <2>2. ASSUME NEW b \in Builds, Step(b)
        PROVE  IInv'
    BY <2>2, StepType, StepBuilds, StepStored DEF IInv
  <2> QED BY <2>1, <2>2 DEF Next, Step
<1> QED BY <1>1, InitIInv, PTL DEF Spec

LEMMA FollowInvariance == Spec => []FollowInv
<1>1. Init => FollowInv
  BY DEF Init, FollowInv, Followed, Visited
<1>2. IInv /\ FollowInv /\ [Next]_vars => FollowInv'
  <2> SUFFICES ASSUME IInv, FollowInv, [Next]_vars PROVE FollowInv'
    OBVIOUS
  <2>1. CASE UNCHANGED vars
    <3>1. \A c \in Builds : Untouched(c)
      BY <2>1 DEF vars, Untouched
    <3> QED BY <3>1, FollowedAlone DEF FollowInv
  <2>2. ASSUME NEW b \in Builds, Step(b)
        PROVE  FollowInv'
    BY <2>2, StepFollowed
  <2> QED BY <2>1, <2>2 DEF Next, Step
<1> QED BY <1>1, <1>2, Invariance, PTL DEF Spec

\* Builds, job documents, scrapers, pages and buckets keep their types.
THEOREM TypeCorrect == Spec => []TypeOK
<1>1. IInv => TypeOK
  BY DEF IInv
<1> QED BY <1>1, Invariance, PTL

\* However the handlers are interleaved and whatever fails, a page is requested
\* only from a page that links to it, one level deeper, and never too deep; a
\* crawler process requests where it was redirected to, at the same depth.
THEOREM CrawlCorrect == Spec => []CrawlSound
<1>1. IInv => CrawlSound
  BY DEF IInv, BuildInv, Reached, Reason, CrawlSound
<1> QED BY <1>1, Invariance, PTL

\* Success is reported of a scrape that is over, and stays what was reported.
THEOREM SuccessSound == Spec => []SuccessIsFinal
<1>1. IInv => SuccessIsFinal
  BY DEF IInv, BuildInv, Reported, SuccessIsFinal
<1> QED BY <1>1, Invariance, PTL

\* For every URL listed a build reads the page at that URL, unless requests into
\* one bucket ended at two pages of one name.
THEOREM LoadedSound == Spec => []LoadedIsItsPage
<1>1. IInv => LoadedIsItsPage
  BY DEF IInv, StoredInv, Requested, LoadedIsItsPage, Shares, Name
<1> QED BY <1>1, Invariance, PTL

\* Where no page near the URL is linked from two of them, nothing is missed by a
\* scrape that ends, in whatever order the pages come: the depth a page gets
\* from the first link to it is then the number of links it is away.
THEOREM TreeCorrect == Spec => []TreeCrawlComplete
<1>1. IInv /\ FollowInv => TreeCrawlComplete
  <2> SUFFICES ASSUME IInv, FollowInv, NEW b \in Builds,
                      way[b] = "job", scraper[b] = "exit",
                      \A q, r \in Near(b) : q # r => Links[q] \cap Links[r] \cap Near(b) = {}
               PROVE  Near(b) \subseteq Visited(b)
    BY DEF TreeCrawlComplete
  <2>1. TypeOK /\ Followed(b) /\ Reached(b)
    BY DEF IInv, BuildInv, FollowInv
  <2>2. PICK near : /\ near[0] = {url[b]}
                    /\ \A d \in Nat : near[d + 1] = Further(b, near[d])
                    /\ Near(b) = near[MaxDepth(b)]
    BY <2>1, NearLevels
  <2>3. PICK M : M = MaxDepth(b) /\ M \in Nat
    BY <2>1, WayType, ScrapeAssumption
  <2>4. \A p \in near[M] : p \in Visited(b)
    BY <2>1, <2>2, <2>3, NearVisited
  <2> QED BY <2>2, <2>3, <2>4
<1> QED BY <1>1, Invariance, FollowInvariance, PTL

LEMMA HandInvariance == Spec => []HandInv
<1>1. Init => HandInv
  <2> SUFFICES ASSUME Init, NEW b \in Builds
               PROVE  Listing(b) /\ Reads(b) /\ OneThread(b) /\ StoredHeld(b)
    BY DEF HandInv
  <2>1. /\ docs[b] = <<>> /\ result[b] = <<>> /\ loaded[b] = <<>> /\ build[b] = "start"
        /\ \A p \in Pages : seen[b][p] = <<>> /\ at[b][p] = "unseen" /\ todo[b][p] = {}
        /\ scraper[b] = "none"
    BY DEF Init
  <2>2. Listing(b)
    BY <2>1 DEF Listing, Listed
  <2>3. Reads(b) /\ OneThread(b)
    BY <2>1 DEF Reads, Reading, OneThread, Handed
  <2>4. Held(b) = {}
    <3>1. Of(<<>>) = {}
      BY DEF Of
    <3> QED BY <2>1, <3>1 DEF Held
  <2> QED BY <2>1, <2>2, <2>3, <2>4 DEF StoredHeld
<1>2. IInv /\ IInv' /\ HandInv /\ [Next]_vars => HandInv'
  <2> SUFFICES ASSUME IInv, IInv', HandInv, [Next]_vars PROVE HandInv'
    OBVIOUS
  <2>1. CASE UNCHANGED vars
    <3>1. /\ UNCHANGED <<build, url, way, loaded, status, result, scraper>>
          /\ UNCHANGED <<docs, at, depth, todo, seen, bucket>>
      BY <2>1 DEF vars
    <3> SUFFICES ASSUME NEW b \in Builds
                 PROVE  (Listing(b) /\ Reads(b) /\ OneThread(b) /\ StoredHeld(b))'
      BY DEF HandInv
    <3>2. Listing(b) /\ Reads(b) /\ OneThread(b) /\ StoredHeld(b)
      BY DEF HandInv
    <3>3. Listing(b)'
      BY <3>1, <3>2, ListingAfter DEF Listing
    <3>4. Reads(b)' /\ OneThread(b)'
      BY <3>1, <3>2 DEF Reads, OneThread, Handed
    <3>5. StoredHeld(b)'
      BY <3>1, <3>2 DEF StoredHeld, Own, Held, Of, Place, Name
    <3> QED BY <3>3, <3>4, <3>5
  <2>2. ASSUME NEW b \in Builds, Step(b)
        PROVE  HandInv'
    <3>1. /\ TypeOK /\ TypeOK' /\ BuildInv(b) /\ Crawled(b)
          /\ Listing(b) /\ Reads(b) /\ OneThread(b) /\ StoredHeld(b)
      BY DEF IInv, BuildInv, HandInv
    <3>2. Listing(b)' /\ Reads(b)' /\ OneThread(b)' /\ StoredHeld(b)'
      BY <2>2, <3>1, ListingStep, ReadsStep, OneThreadStep, StoredHeldStep
    <3>3. \A c \in Builds \ {b} : Listing(c)' /\ Reads(c)' /\ OneThread(c)' /\ StoredHeld(c)'
      BY <2>2, <3>1, HandAlone DEF HandInv
    <3> QED BY <3>2, <3>3 DEF HandInv
  <2> QED BY <2>1, <2>2 DEF Next, Step
<1> QED BY <1>1, <1>2, Invariance, PTL DEF Spec

\* What a build downloads are the documents of the result, in their order, and all
\* of them if it gets to the end: the result it reads step by step is not written
\* meanwhile.  However handlers lose each other's entries, no request is listed
\* twice; a page is only if the job made two requests that ended at it, which a
\* crawler process does not.
LoadedOnce ==
  \A b \in Builds :
    /\ \A i \in DOMAIN loaded[b] : loaded[b][i].url = Final[result[b][i]]
    /\ \A i, j \in DOMAIN loaded[b] :
         loaded[b][i].url = loaded[b][j].url /\ i # j =>
           way[b] = "job" /\ result[b][i] # result[b][j]
    /\ build[b] = "loaded" => Len(loaded[b]) = Len(result[b])

\* No document of a result is left out or taken from a later list, and none is
\* downloaded twice for one request.
THEOREM LoadedOnceSound == Spec => []LoadedOnce
<1>1. IInv /\ HandInv => LoadedOnce
  <2> SUFFICES ASSUME IInv, HandInv, NEW b \in Builds
               PROVE  /\ \A i \in DOMAIN loaded[b] : loaded[b][i].url = Final[result[b][i]]
                      /\ \A i, j \in DOMAIN loaded[b] :
                           loaded[b][i].url = loaded[b][j].url /\ i # j =>
                             way[b] = "job" /\ result[b][i] # result[b][j]
                      /\ build[b] = "loaded" => Len(loaded[b]) = Len(result[b])
    BY DEF LoadedOnce
  <2>1. /\ Reads(b) /\ Listed(result[b], at[b]) /\ result[b] \in Seq(Pages)
        /\ loaded[b] \in Seq([url : Pages, got : Pages]) /\ OneThread(b)
    BY DEF HandInv, Listing, IInv, TypeOK
  <2>2. CASE build[b] \in Reading
    <3>1. /\ Len(loaded[b]) <= Len(result[b])
          /\ \A i \in DOMAIN loaded[b] : loaded[b][i].url = Final[result[b][i]]
          /\ build[b] = "loaded" => Len(loaded[b]) = Len(result[b])
          /\ way[b] # "job" => result[b] = docs[b]
      BY <2>1, <2>2 DEF Reads
    <3>2. DOMAIN loaded[b] \subseteq DOMAIN result[b]
      BY <2>1, <3>1
    <3>3. \A i, j \in DOMAIN result[b] : i # j => result[b][i] # result[b][j]
      BY <2>1 DEF Listed
    <3>4. way[b] # "job" => \A i \in DOMAIN result[b] : Final[result[b][i]] = result[b][i]
      BY <2>1, <3>1 DEF OneThread
    <3> QED BY <3>1, <3>2, <3>3, <3>4
  <2>3. CASE build[b] \notin Reading
    BY <2>1, <2>3 DEF Reads, Reading
  <2> QED BY <2>2, <2>3
<1> QED BY <1>1, Invariance, HandInvariance, PTL

\* A build misses a listed document in the bucket only if another job was given
\* the same bucket, and has emptied it.
MissingIsShared ==
  \A b \in Builds : build[b] = "missing" =>
    /\ way[b] = "job"
    /\ \E c \in Builds \ {b} : way[c] = "job" /\ Bucket[c] = Bucket[b]

\* In a bucket of one's own every listed document is found, whatever fails.
THEOREM MissingSound == Spec => []MissingIsShared
<1>1. HandInv => MissingIsShared
  <2> SUFFICES ASSUME HandInv, NEW b \in Builds, build[b] = "missing"
               PROVE  /\ way[b] = "job"
                      /\ \E c \in Builds \ {b} : way[c] = "job" /\ Bucket[c] = Bucket[b]
    BY DEF MissingIsShared
  <2>1. PICK c \in Builds \ {b} : way[c] = "job" /\ Place(c) = Place(b)
    BY DEF HandInv, StoredHeld, Own
  <2>2. Bucket[c] \in Buckets /\ Buckets \cap Builds = {}
    BY ScrapeAssumption
  <2> QED BY <2>1, <2>2 DEF Place
<1> QED BY <1>1, HandInvariance, PTL

\* What the scraper's README claims, and EveryStoredPageListed shows not to hold of
\* the asynchronous scraper, holds of a crawler process: a build that has loaded its
\* documents has, for every page that was requested, the one where the request
\* ended, if it is HTML or PDF and was not given up.
CrawlerListsAll ==
  \A b \in Builds : build[b] = "loaded" /\ way[b] # "job" =>
    \A p \in Visited(b) : \/ Kind[p] = "other" \/ "failed" \in {at[b][p], at[b][Final[p]]}
                          \/ \E i \in DOMAIN loaded[b] : loaded[b][i].url = Final[p]

\* A crawler process hands over everything it has handled.
THEOREM CrawlerSound == Spec => []CrawlerListsAll
<1>1. IInv /\ HandInv => CrawlerListsAll
  <2> SUFFICES ASSUME IInv, HandInv, NEW b \in Builds, build[b] = "loaded", way[b] # "job",
                      NEW p \in Visited(b), Kind[p] # "other",
                      at[b][p] # "failed", at[b][Final[p]] # "failed"
               PROVE  \E i \in DOMAIN loaded[b] : loaded[b][i].url = Final[p]
    BY DEF CrawlerListsAll
  <2>1. /\ Reads(b) /\ OneThread(b) /\ docs[b] \in Seq(Pages)
        /\ loaded[b] \in Seq([url : Pages, got : Pages])
    BY DEF HandInv, IInv, TypeOK
  <2>2. /\ scraper[b] = "exit" /\ result[b] = docs[b] /\ Len(loaded[b]) = Len(result[b])
        /\ \A i \in DOMAIN loaded[b] : loaded[b][i].url = Final[result[b][i]]
    BY <2>1 DEF Reads, Reading
  <2>3. p \in Pages /\ at[b][p] = "links" /\ at[b][Final[p]] # "unseen"
    BY <2>1, <2>2 DEF OneThread, Handed, Visited
  <2>4. /\ Final[p] \in Pages /\ Final[Final[p]] = Final[p] /\ Kind[Final[p]] # "other"
    BY <2>3, ScrapeAssumption
  <2>5. at[b][Final[p]] = "links"
    BY <2>1, <2>2, <2>3, <2>4 DEF OneThread
  <2>6. PICK i \in DOMAIN docs[b] : docs[b][i] = Final[p]
    BY <2>1, <2>4, <2>5 DEF OneThread, Handed
  <2>7. i \in DOMAIN loaded[b]
    BY <2>1, <2>2, <2>6
  <2> QED BY <2>2, <2>4, <2>6, <2>7
<1> QED BY <1>1, Invariance, HandInvariance, PTL

\* An outcome in the job document is written over only by the last save of the
\* launch, or gone with the document if the launch fails there, or, where it was the
\* failure to initialise the bucket, written over by the end of the scrape that goes
\* on all the same.
OutcomeKept ==
  [][\A b \in Builds : HasOutcome(b) /\ status'[b] # status[b] =>
       \/ build[b] = "created" /\ build'[b] = "waiting" /\ status'[b] = "active"
       \/ build[b] = "created" /\ build'[b] = "raised" /\ status'[b] = "gone"
       \/ status[b] = "failed" /\ scraper[b] = "crawl" /\ scraper'[b] = "exit"]_vars

\* Once the launch has returned, a reported success stays.
THEOREM OutcomeSound == Spec => OutcomeKept
<1>1. IInv /\ [Next]_vars =>
        [\A b \in Builds : HasOutcome(b) /\ status'[b] # status[b] =>
           \/ build[b] = "created" /\ build'[b] = "waiting" /\ status'[b] = "active"
           \/ build[b] = "created" /\ build'[b] = "raised" /\ status'[b] = "gone"
           \/ status[b] = "failed" /\ scraper[b] = "crawl" /\ scraper'[b] = "exit"]_vars
  <2> SUFFICES ASSUME IInv, NEW c \in Builds, Step(c), NEW b \in Builds,
                      HasOutcome(b), status'[b] # status[b]
               PROVE  \/ build[b] = "created" /\ build'[b] = "waiting" /\ status'[b] = "active"
                      \/ build[b] = "created" /\ build'[b] = "raised" /\ status'[b] = "gone"
                      \/ /\ status[b] = "failed" /\ scraper[b] = "crawl"
                         /\ scraper'[b] = "exit"
    BY DEF Next, Step
  <2>1. TypeOK /\ BuildInv(b)
    BY DEF IInv
  <2>2. b = c
    BY <2>1, Alone DEF Untouched
  <2>3. \/ MarkActive(b) \/ SaveResults(b) \/ LaunchFails(b)
        \/ /\ InitializeBucketFails(b) \/ SaveResultsFails(b) \/ FetchJobDocumentFails(b)
           /\ UpdateJobError(b)
    <3>1. CASE Wait(b) \/ TimeOut(b) \/ StartCrawlerFails(b) \/ LaunchFails(b)
      BY <3>1 DEF Wait, StartJob, Poll, ReadOutcome, Load, Loaded, TimeOut, StartCrawler,
                  StartCrawlerFails, Join, GetDocs, document
    <3>2. CASE Scrape(b) \/ (Fails(b) /\ ~StartCrawlerFails(b) /\ ~LaunchFails(b))
      BY <3>2 DEF Scrape, Fails, Handle, InitializeBucket, InitializeBucketFails, Ignore,
                  Store, StoreFails, ReadDocs, AppendDocs, VisitLink, FetchFails, SaveResults,
                  SaveResultsFails, PodDies, FetchJobDocumentFails, StartRequests, Parse,
                  Redirected, ParseFails, CloseSpider, PutDocs, document
    <3> QED BY <2>2, <3>1, <3>2 DEF Step
  <2>4. CASE MarkActive(b)
    BY <2>1, <2>4 DEF MarkActive, TypeOK
  <2>5. CASE SaveResults(b)
    <3>1. scraper[b] = "crawl" /\ scraper'[b] = "exit" /\ status'[b] = "succeeded"
      BY <2>1, <2>5 DEF SaveResults, Report, TypeOK
    <3> QED BY <2>1, <3>1 DEF HasOutcome
  <2>6. CASE /\ InitializeBucketFails(b) \/ SaveResultsFails(b) \/ FetchJobDocumentFails(b)
             /\ UpdateJobError(b)
    <3>1. scraper[b] # "exit" /\ (status' = status \/ status'[b] = "failed")
      BY <2>1, <2>6 DEF InitializeBucketFails, SaveResultsFails, FetchJobDocumentFails,
                        UpdateJobError, TypeOK
    <3> QED BY <2>1, <3>1 DEF HasOutcome, BuildInv, Reported
  <2>7. CASE LaunchFails(b)
    <3>1. build[b] = "created"
      BY <2>1, <2>7 DEF LaunchFails, HasOutcome, BuildInv, Crawled, Reported, TypeOK
    <3> QED BY <2>1, <2>7, <3>1 DEF LaunchFails, TypeOK
  <2> QED BY <2>3, <2>4, <2>5, <2>6, <2>7
<1> QED BY <1>1, Invariance, PTL DEF Spec, OutcomeKept

-----------------------------------------------------------------------------
(* A scrape does a bounded amount of work *)

\* The stages a page has still to go through.
Ahead(a) ==
  {s \in {"requested", "stored", "read", "over"} :
     \/ a = "unseen"
     \/ a = "requested" /\ s # "requested"
     \/ a = "stored" /\ s \in {"read", "over"}
     \/ a = "read" /\ s = "over"}

\* The links of a page that may still be followed.
LinksAhead(b, p) ==
  {q \in Links[p] : at[b][p] \notin {"links", "failed"} \/ q \in todo[b][p]}

LessToDo(b) ==
  /\ \A p \in Pages : /\ Ahead(at'[b][p]) \subseteq Ahead(at[b][p])
                      /\ LinksAhead(b, p)' \subseteq LinksAhead(b, p)
  /\ \E p \in Pages : \/ Ahead(at'[b][p]) # Ahead(at[b][p])
                      \/ LinksAhead(b, p)' # LinksAhead(b, p)

\* Whatever cycles the links make and however the handlers are interleaved, each
\* step of a scrape uses up a stage of some page or one of its links.
WorkShrinks ==
  [][\A b \in Builds :
       (at[b] # at'[b] \/ depth[b] # depth'[b] \/ todo[b] # todo'[b] \/ seen[b] # seen'[b]) =>
         LessToDo(b)]_vars

\* A handler's next step.
Moves == {<<"unseen", "requested">>, <<"requested", "stored">>, <<"stored", "read">>,
          <<"read", "links">>, <<"requested", "links">>, <<"requested", "failed">>}

Moved(b, p) == <<at[b][p], at'[b][p]>> \in Moves

\* Each of them uses up a stage of the page.
LEMMA MoveUses ==
  ASSUME NEW m \in Moves
  PROVE  /\ Ahead(m[2]) \subseteq Ahead(m[1]) /\ Ahead(m[2]) # Ahead(m[1])
         /\ m[1] \notin {"links", "failed"}
<1>1. CASE m = <<"unseen", "requested">>
  <2>1. "requested" \in Ahead(m[1]) /\ "requested" \notin Ahead(m[2])
    BY <1>1 DEF Ahead
  <2> QED BY <1>1, <2>1 DEF Ahead
<1>2. CASE m = <<"requested", "stored">>
  <2>1. "stored" \in Ahead(m[1]) /\ "stored" \notin Ahead(m[2])
    BY <1>2 DEF Ahead
  <2> QED BY <1>2, <2>1 DEF Ahead
<1>3. CASE m = <<"stored", "read">>
  <2>1. "read" \in Ahead(m[1]) /\ "read" \notin Ahead(m[2])
    BY <1>3 DEF Ahead
  <2> QED BY <1>3, <2>1 DEF Ahead
<1>4. CASE m \in {<<"read", "links">>, <<"requested", "links">>, <<"requested", "failed">>}
  <2>1. "over" \in Ahead(m[1]) /\ Ahead(m[2]) = {}
    BY <1>4 DEF Ahead
  <2> QED BY <1>4, <2>1
<1> QED BY <1>1, <1>2, <1>3, <1>4 DEF Moves

\* What a step has to be, page by page, to leave less to do.
Stepped(b) ==
  /\ \A p \in Pages : \/ at'[b][p] = at[b][p] /\ todo'[b][p] \subseteq todo[b][p]
                      \/ Moved(b, p)
  /\ \E p \in Pages : \/ Moved(b, p)
                      \/ /\ at[b][p] = "links" /\ at'[b][p] = "links"
                         /\ \E q \in Links[p] : q \in todo[b][p] /\ q \notin todo'[b][p]

\* It is enough: the stages and the links of a page only shrink, and one did.
LEMMA SteppedLess ==
  ASSUME NEW b \in Builds, Stepped(b)
  PROVE  LessToDo(b)
<1>1. ASSUME NEW p \in Pages, Moved(b, p)
      PROVE  /\ Ahead(at'[b][p]) \subseteq Ahead(at[b][p])
             /\ Ahead(at'[b][p]) # Ahead(at[b][p])
             /\ LinksAhead(b, p)' \subseteq LinksAhead(b, p)
  <2>1. PICK m \in Moves : at[b][p] = m[1] /\ at'[b][p] = m[2]
    BY <1>1 DEF Moved
  <2>2. at[b][p] \notin {"links", "failed"}
    BY <2>1, MoveUses
  <2> QED BY <2>1, <2>2, MoveUses DEF LinksAhead
<1>2. ASSUME NEW p \in Pages, at'[b][p] = at[b][p], todo'[b][p] \subseteq todo[b][p]
      PROVE  LinksAhead(b, p)' \subseteq LinksAhead(b, p)
  BY <1>2 DEF LinksAhead
<1>3. ASSUME NEW p \in Pages, NEW q \in Links[p], at[b][p] = "links", at'[b][p] = "links",
             q \in todo[b][p], q \notin todo'[b][p]
      PROVE  LinksAhead(b, p)' # LinksAhead(b, p)
  <2>1. q \in LinksAhead(b, p)
    BY <1>3 DEF LinksAhead
  <2>2. q \notin LinksAhead(b, p)'
    BY <1>3 DEF LinksAhead
  <2> QED BY <2>1, <2>2
<1> QED BY <1>1, <1>2, <1>3 DEF Stepped, LessToDo

\* A handler that goes on with its page, and leaves the others alone.
LEMMA OnePageStepped ==
  ASSUME TypeOK, NEW b \in Builds, NEW p \in Pages, NEW step \in Steps, Goto(b, p, step),
         <<at[b][p], step>> \in Moves,
         \A q \in Pages \ {p} : todo'[b][q] = todo[b][q]
  PROVE  Stepped(b)
<1>1. at'[b][p] = step /\ \A q \in Pages \ {p} : at'[b][q] = at[b][q]
  BY GotoType
<1> QED BY <1>1 DEF Stepped, Moved

\* Every step of a handler, its following of one link and its failures included.
LEMMA HandlerStepped ==
  ASSUME TypeOK, NEW b \in Builds, Crawled(b), NEW p \in Pages,
         Handle(b, p) \/ FetchFails(b, p) \/ StoreFails(b, p) \/ ParseFails(b, p)
  PROVE  Stepped(b)
<1>1. CASE FetchFails(b, p) \/ ParseFails(b, p)
  <2>1. Goto(b, p, "failed") /\ at[b][p] = "requested" /\ UNCHANGED todo
    BY <1>1 DEF FetchFails, ParseFails, Handler, Crawling
  <2> QED BY <2>1, OnePageStepped DEF Moves, Steps
<1>2. CASE Ignore(b, p) \/ StoreFails(b, p) \/ AppendDocs(b, p)
  <2>1. Follow(b, p) /\ at[b][p] \in {"requested", "read"}
    BY <1>2 DEF Ignore, StoreFails, AppendDocs, Response, Handler
  <2>2. Goto(b, p, "links") /\ \A q \in Pages \ {p} : todo'[b][q] = todo[b][q]
    BY <2>1, FollowType
  <2> QED BY <2>1, <2>2, OnePageStepped DEF Moves, Steps
<1>3. CASE Store(b, p)
  <2>1. Goto(b, p, "stored") /\ at[b][p] = "requested" /\ UNCHANGED todo
    BY <1>3 DEF Store, Response, Handler
  <2> QED BY <2>1, OnePageStepped DEF Moves, Steps
<1>4. CASE ReadDocs(b, p)
  <2>1. Goto(b, p, "read") /\ at[b][p] = "stored" /\ UNCHANGED todo
    BY <1>4 DEF ReadDocs, Handler
  <2> QED BY <2>1, OnePageStepped DEF Moves, Steps
<1>5. ASSUME NEW q \in Pages, VisitLink(b, p, q) PROVE Stepped(b)
  <2>1. /\ at[b][p] = "links" /\ q \in todo[b][p] /\ q \in Links[p]
        /\ todo' = [todo EXCEPT ![b][p] = todo[b][p] \ {q}]
    BY <1>5 DEF VisitLink, Handler, Crawled
  <2>2. /\ todo'[b][p] = todo[b][p] \ {q}
        /\ \A r \in Pages \ {p} : todo'[b][r] = todo[b][r]
    <3>1. todo \in [Builds -> [Pages -> SUBSET Pages]] /\ todo[b][p] \ {q} \in SUBSET Pages
      BY DEF TypeOK
    <3> QED BY <2>1, <3>1, Updated
  <2>3. /\ at'[b][p] = "links"
        /\ \A r \in Pages : at'[b][r] = at[b][r] \/ Moved(b, r)
    <3>1. CASE at[b][q] = "unseen"
      <4>1. Goto(b, q, "requested") /\ q # p
        BY <1>5, <2>1, <3>1 DEF VisitLink
      <4>2. at'[b][q] = "requested" /\ \A r \in Pages \ {q} : at'[b][r] = at[b][r]
        BY <4>1, GotoType DEF Steps
      <4> QED BY <2>1, <3>1, <4>1, <4>2 DEF Moved, Moves
    <3>2. CASE at[b][q] # "unseen"
      BY <1>5, <2>1, <3>2 DEF VisitLink
    <3> QED BY <3>1, <3>2
  <2> QED BY <2>1, <2>2, <2>3 DEF Stepped
<1> QED BY <1>1, <1>2, <1>3, <1>4, <1>5 DEF Handle

\* The first request, and a crawler process.
LEMMA ProcessStepped ==
  ASSUME TypeOK, NEW b \in Builds, Crawled(b),
         \/ InitializeBucket(b) \/ InitializeBucketFails(b) \/ StartRequests(b)
         \/ CloseSpider(b) \/ \E p \in Pages : Answered(b, p),
         ~(at'[b] = at[b] /\ depth'[b] = depth[b] /\ todo'[b] = todo[b] /\ seen'[b] = seen[b])
  PROVE  Stepped(b)
<1>1. CASE InitializeBucket(b) \/ InitializeBucketFails(b)
  <2>1. /\ Goto(b, url[b], "requested") /\ url[b] \in Pages /\ at[b][url[b]] = "unseen"
        /\ UNCHANGED todo
    BY <1>1, ScrapeAssumption
    DEF InitializeBucket, InitializeBucketFails, VisitRoot, Goto, TypeOK, Crawled
  <2> QED BY <2>1, OnePageStepped DEF Moves, Steps
<1>2. ASSUME NEW p \in Pages \cup {NoPage}, NEW links \in SUBSET Pages, NEW d \in Nat,
             links # {} => d \in 0 .. Depth + 1, Handled(b, p, links, d), UNCHANGED todo,
             p \in Pages => at[b][p] = "requested",
             p \in Pages \/ at'[b] # at[b]
      PROVE  Stepped(b)
  <2>1. /\ \A q \in Pages : q \in links /\ at[b][q] = "unseen" => at'[b][q] = "requested"
        /\ \A q \in Pages : ~(q \in links /\ at[b][q] = "unseen") =>
             /\ q = p => at'[b][q] = "links"
             /\ q # p => at'[b][q] = at[b][q]
        /\ at' \in [Builds -> [Pages -> Steps]]
    <3>1. /\ links # {} => d \in 0 .. Depth + 1
          /\ Handled(b, p, links, d)
      BY <1>2
    <3>2. at' \in [Builds -> [Pages -> Steps]]
      BY <3>1, HandledType
    <3>3. /\ \A q \in Pages : q \in links /\ at[b][q] = "unseen" =>
               at'[b][q] = "requested" /\ depth'[b][q] = d
          /\ \A q \in Pages : ~(q \in links /\ at[b][q] = "unseen") =>
               /\ at'[b][q] = IF q = p THEN "links" ELSE at[b][q]
               /\ depth'[b][q] = depth[b][q]
      BY <3>1, HandledType
    <3> QED BY <3>2, <3>3
  <2>2. \A q \in Pages : at'[b][q] = at[b][q] \/ Moved(b, q)
    BY <1>2, <2>1 DEF Moved, Moves
  <2>3. CASE p \in Pages
    <3>1. Moved(b, p)
      BY <1>2, <2>1, <2>3 DEF Moved, Moves
    <3> QED BY <1>2, <2>2, <2>3, <3>1 DEF Stepped
  <2>4. CASE p \notin Pages
    <3>1. PICK q \in Pages : at'[b][q] # at[b][q]
      BY <1>2, <2>1, <2>4 DEF TypeOK
    <3> QED BY <1>2, <2>2, <3>1 DEF Stepped
  <2> QED BY <2>3, <2>4
<1>3. CASE StartRequests(b)
  <2>1. UNCHANGED <<todo, seen>> /\ NoPage \notin Pages
    BY <1>3, ScrapeAssumption DEF StartRequests
  <2>2. {url[b]} \in SUBSET Pages /\ 0 \in 0 .. Depth + 1 /\ 1 \in 0 .. Depth + 1
    BY ScrapeAssumption DEF TypeOK
  <2>3. ~UNCHANGED <<at, depth>>
    BY <2>1
  <2>4. PICK links \in SUBSET Pages, d \in {0, 1} : Handled(b, NoPage, links, d)
    BY <1>3, <2>2, <2>3, FirstRequests
  <2>5. at'[b] # at[b]
    <3>1. SUFFICES ASSUME at'[b] = at[b] PROVE FALSE
      OBVIOUS
    <3>2. /\ \A q \in Pages : q \in links /\ at[b][q] = "unseen" => at'[b][q] = "requested"
          /\ \A q \in Pages : ~(q \in links /\ at[b][q] = "unseen") =>
               depth'[b][q] = depth[b][q]
          /\ depth' \in [Builds -> [Pages -> 0 .. Depth + 1]]
      <4>1. d \in Nat /\ d \in 0 .. Depth + 1
        BY <2>2
      <4> QED BY <2>4, <4>1, HandledType
    <3>3. \A q \in Pages : depth'[b][q] = depth[b][q]
      BY <3>1, <3>2
    <3>4. depth'[b] = depth[b]
      BY <3>2, <3>3 DEF TypeOK
    <3> QED BY <2>1, <3>1, <3>4
  <2> QED BY <1>2, <2>1, <2>2, <2>4, <2>5
<1>4. CASE CloseSpider(b)
  <2>1. /\ at'[b] = [p \in Pages |-> IF at[b][p] = "requested" THEN "failed" ELSE at[b][p]]
        /\ UNCHANGED <<depth, todo, seen>>
    BY <1>4 DEF CloseSpider, TypeOK
  <2>2. PICK q \in Pages : at'[b][q] # at[b][q]
    BY <2>1 DEF TypeOK
  <2>3. \A p \in Pages : at'[b][p] = at[b][p] \/ Moved(b, p)
    BY <2>1 DEF Moved, Moves
  <2> QED BY <2>1, <2>2, <2>3 DEF Stepped
<1>5. ASSUME NEW r \in Pages, Answered(b, r) PROVE Stepped(b)
  <2>1. PICK links \in SUBSET Pages, d \in Nat :
          Handled(b, r, links, d) /\ (links # {} => d \in 0 .. Depth + 1)
    BY <1>5, ParseLinks
  <2>2. at[b][r] = "requested" /\ UNCHANGED todo
    BY <1>5 DEF Parse, Answered, Redirected, Crawling
  <2> QED BY <1>2, <2>1, <2>2
<1> QED BY <1>1, <1>3, <1>4, <1>5

\* A scrape ends once its handlers are scheduled: there are only so many pages,
\* stages and links to use up.
THEOREM WorkSound == Spec => WorkShrinks
<1>1. ASSUME IInv, [Next]_vars
      PROVE  [\A b \in Builds :
                (at[b] # at'[b] \/ depth[b] # depth'[b] \/ todo[b] # todo'[b] \/ seen[b] # seen'[b])
                  => LessToDo(b)]_vars
  <2> SUFFICES ASSUME NEW c \in Builds, Step(c), NEW b \in Builds,
                      at[b] # at'[b] \/ depth[b] # depth'[b] \/ todo[b] # todo'[b]
                        \/ seen[b] # seen'[b]
               PROVE  LessToDo(b)
    BY <1>1 DEF Next, Step
  <2>0. TypeOK /\ Crawled(b)
    BY <1>1 DEF IInv, BuildInv
  <2>1. c = b
    BY <2>0, Alone DEF Untouched
  <2>2. ~(Wait(b) \/ TimeOut(b) \/ StartCrawlerFails(b) \/ LaunchFails(b) \/ PutDocs(b)
          \/ SaveResults(b) \/ SaveResultsFails(b) \/ PodDies(b) \/ FetchJobDocumentFails(b))
    BY DEF Wait, StartJob, MarkActive, Poll, ReadOutcome, Load, Loaded, TimeOut,
           StartCrawler, StartCrawlerFails, LaunchFails, Join, GetDocs, PutDocs, SaveResults,
           SaveResultsFails, PodDies, FetchJobDocumentFails, pages
  <2>3. CASE \/ InitializeBucket(b) \/ InitializeBucketFails(b) \/ StartRequests(b)
             \/ CloseSpider(b) \/ \E p \in Pages : Answered(b, p)
    BY <2>0, <2>3, ProcessStepped, SteppedLess
  <2>4. CASE \E p \in Pages :
               Handle(b, p) \/ FetchFails(b, p) \/ StoreFails(b, p) \/ ParseFails(b, p)
    BY <2>0, <2>4, HandlerStepped, SteppedLess
  <2> QED BY <2>1, <2>2, <2>3, <2>4 DEF Step, Scrape, Fails, Answered
<1> QED BY <1>1, Invariance, PTL DEF Spec, WorkShrinks

=============================================================================
