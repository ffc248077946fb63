----------------------------- MODULE YouTubeVideos -----------------------------
(***************************************************************************)
(* Videos of the YouTube channel and their rows in youtube_video_cache     *)
(* (usecase/youtube_usecase.go over persistence/youtube_repository.go, the *)
(* cache repository and the API client).  One action per call to YouTube   *)
(* or to the database, by concurrent requests.                             *)
(*                                                                         *)
(* YouTube and the table are shared; nothing orders a request that read a  *)
(* video before another request changed it and stores what it read after.  *)
(*                                                                         *)
(* Not modelled: what a video says beyond the fields an update changes,    *)
(* searching and other calls that only read from YouTube, and the mock     *)
(* list of a client that knows no channel, which is never stored.          *)
(***************************************************************************)
EXTENDS Integers, Sequences, FiniteSets, SequencesExt

CONSTANTS
    Worker,      \* requests in progress
    Video,       \* videos, numbered in the order of their publication
    PublishedAt, \* when each was published; several may be at once
    Foreign,     \* those of other channels
    Field,       \* what an update may change: title, privacy, ...
    Request,     \* what clients may ask for
    Uploaded,    \* how many videos there are at first
    PageSize,    \* maxResults of a list call
    MaxPages,    \* the hard stop of a full sync (1000 in the code)
    ListSize,    \* rows on a page of the cached list (100)
    ListPages,   \* pages the dashboard reads (5)
    MaxRequests, \* bound on requests
    Elsewhere,   \* videos that are also changed outside of this service
    MaxTrouble   \* bound on such changes, failing and unanswered calls

ASSUME VideosAssumption ==
    /\ IsFiniteSet(Video) /\ Video = 1..Cardinality(Video)
    /\ PublishedAt \in [Video -> Nat]
    /\ \A u, v \in Video : u <= v => PublishedAt[u] <= PublishedAt[v]
    /\ Foreign \cup Elsewhere \subseteq Video
    /\ IsFiniteSet(Worker)
    /\ Request \subseteq [op : {"details", "force", "update", "sync", "list",
                               "summary", "upload"},
                         video : Video, field : Field, all : BOOLEAN, newest : BOOLEAN]
    /\ Uploaded \in 0..Cardinality(Video)
    /\ {PageSize, MaxPages, ListSize, ListPages} \subseteq Nat \ {0}
    /\ {MaxRequests, MaxTrouble} \subseteq Nat

VARIABLES
    videos,    \* on YouTube: what the fields of each video say, as the number
               \* of the change that wrote them
    cache,     \* rows: what was stored, and whether it has not expired
    call,      \* what each request is doing
    born,      \* videos published so far
    clock,     \* number of the last change on YouTube
    acked,     \* the last change of each field a request was told it made
    raced,     \* videos that two requests were updating at once
    outdated,  \* videos changed while a request was about to store them
    steady,    \* requests whose list did not change under their pages, and
               \* none of whose calls failed
    requests, edits, faults

tables  == <<videos, cache>>
numbers == <<born, clock>>
history == <<acked, raced, outdated>>
bounds  == <<requests, edits, faults>>
vars    == <<tables, numbers, call, history, steady, bounds>>

Copy == [Field -> Nat]
NoRows == <<>>

Idle == [pc |-> "idle", op |-> "none", video |-> 0, field |-> "none",
         all |-> FALSE, newest |-> TRUE, copy |-> NoRows, page |-> NoRows,
         staged |-> NoRows, token |-> 0, pages |-> 0, total |-> 0,
         seen |-> NoRows, ok |-> TRUE]

Init ==
    /\ videos = [v \in {u \in Video : u <= Uploaded} |-> [f \in Field |-> 0]]
    /\ cache = NoRows
    /\ call = [w \in Worker |-> Idle]
    /\ born = Uploaded
    /\ clock = 0
    /\ acked = [v \in Video |-> [f \in Field |-> 0]]
    /\ raced = {}
    /\ outdated = {}
    /\ steady = [w \in Worker |-> TRUE]
    /\ requests = 0 /\ edits = 0 /\ faults = 0

(* The rows an open transaction of another request has locked.             *)
Locked(w, v) == \E x \in Worker \ {w} : v \in DOMAIN call[x].staged

Existing == DOMAIN videos
Own      == Existing \ Foreign
Fresh    == {v \in DOMAIN cache : cache[v].fresh}

(* The i-th newest is the one that i videos are not older than.            *)
NewestFirst(S) == [i \in 1..Cardinality(S) |->
                      CHOOSE v \in S : Cardinality({u \in S : u >= v}) = i]
Ordered(S, newest) == IF newest THEN NewestFirst(S) ELSE Reverse(NewestFirst(S))

(* Items from+1 to from+n of s.                                            *)
PageOf(s, from, n) == SubSeq(s, from + 1, IF from + n < Len(s) THEN from + n ELSE Len(s))

-------------------------------------------------------------------------------
(* Requests.                                                               *)

(* A request starts with a first call: GetVideoDetailsWithSync asks the    *)
(* cache first, unless the caller forces a sync; UpdateVideo has the client*)
(* read the video; SyncMyVideos gets a page, or all (newest or oldest      *)
(* first); ListVideosFromDB reads one page of the cache, DashboardSummary  *)
(* up to ListPages.                                                        *)
FirstCall == [details |-> "lookup", force |-> "fetch", update |-> "existing",
              sync |-> "search", list |-> "count", summary |-> "count",
              upload |-> "insert"]

(* There is a number left for every video on its way (bound).              *)
HasRoom(r) ==
    r.op = "upload" =>
        born + Cardinality({x \in Worker : call[x].op = "upload"}) < Cardinality(Video)

Accept(w, r) ==
    /\ call[w].pc = "idle"
    /\ requests < MaxRequests
    /\ HasRoom(r)
    /\ requests' = requests + 1
    /\ call' = [call EXCEPT ![w] = [Idle EXCEPT !.op = r.op, !.pc = FirstCall[r.op],
                    !.video = r.video, !.field = r.field, !.all = r.all,
                    !.newest = r.newest]]
    /\ UNCHANGED <<tables, numbers, history, edits, faults>>

Goto(w, next) == call' = [call EXCEPT ![w].pc = next]
Fail(w)       == call' = [call EXCEPT ![w].pc = "answer", ![w].ok = FALSE]

(* Variant: a transaction nobody ended stays open after its request.       *)
AnswerDetached(w) ==
    /\ call[w].pc = "answer"
    /\ call' = [call EXCEPT ![w] = [Idle EXCEPT !.staged = call[w].staged]]
    /\ UNCHANGED <<tables, numbers, history, bounds>>

(* The handler answers.  The end of the request cancels its context, and   *)
(* with it a transaction that UpsertVideos has left open.                  *)
Answer(w) ==
    /\ call[w].pc = "answer"
    /\ call' = [call EXCEPT ![w] = Idle]
    /\ UNCHANGED <<tables, numbers, history, bounds>>

-------------------------------------------------------------------------------
(* One video: GetVideoDetails, FetchAndUpdateFromYouTube, UpdateVideo.     *)

(* An expired row, or none, is a miss.                                     *)
Lookup(w) ==
    /\ call[w].pc = "lookup"
    /\ Goto(w, IF call[w].video \in Fresh THEN "answer" ELSE "fetch")
    /\ UNCHANGED <<tables, numbers, history, bounds>>

Fetch(w) ==
    /\ call[w].pc = "fetch"
    /\ LET v == call[w].video
       IN  IF v \in Existing
           THEN call' = [call EXCEPT ![w].pc = "store", ![w].copy = videos[v]]
           ELSE Fail(w)
    /\ UNCHANGED <<tables, numbers, history, bounds>>

(* UpdateVideo answers with what it has written and stored.                *)
Acknowledge(w) ==
    acked' = IF call[w].op = "update"
             THEN [acked EXCEPT ![call[w].video][call[w].field] = call[w].total]
             ELSE acked

(* After the store: a forced sync stores once more, in the use case.       *)
AfterStore(w) == IF call[w].op = "force" /\ call[w].pc = "store"
                 THEN "again" ELSE "answer"

(* INSERT ... ON CONFLICT DO UPDATE: rows replace those with their key.    *)
Upsert(table, rows) == [v \in DOMAIN table \cup DOMAIN rows |->
                           IF v \in DOMAIN rows THEN rows[v] ELSE table[v]]

Fetched(w) == [v \in {call[w].video} |-> [data |-> call[w].copy, fresh |-> TRUE]]

(* Variant: what was fetched after an update is not stored.                *)
StoreUnlessUpdate(w) ==
    /\ call[w].pc \in {"store", "again"}
    /\ ~Locked(w, call[w].video)
    /\ cache' = IF call[w].op = "update" THEN cache
                ELSE Upsert(cache, Fetched(w))
    /\ Goto(w, AfterStore(w))
    /\ Acknowledge(w)
    /\ UNCHANGED <<videos, numbers, raced, outdated, bounds>>

(* UpsertVideo: the row as fetched, whatever is stored there by now.       *)
Store(w) ==
    /\ call[w].pc \in {"store", "again"}
    /\ ~Locked(w, call[w].video)
    /\ cache' = Upsert(cache, Fetched(w))
    /\ Goto(w, AfterStore(w))
    /\ Acknowledge(w)
    /\ UNCHANGED <<videos, numbers, raced, outdated, bounds>>

(* The client reads the whole video and checks whose it is.                *)
FetchExisting(w) ==
    /\ call[w].pc = "existing"
    /\ LET v == call[w].video
       IN  IF v \in Own
           THEN call' = [call EXCEPT ![w].pc = "write", ![w].copy = videos[v]]
           ELSE Fail(w)
    /\ UNCHANGED <<tables, numbers, history, bounds>>

(* w is about to store what it has read of v.                              *)
Holds(w, v) ==
    \/ call[w].pc \in {"store", "again"} /\ call[w].video = v
    \/ call[w].pc = "row" /\ \E i \in DOMAIN call[w].page : call[w].page[i].id = v
    \/ v \in DOMAIN call[w].staged

(* Variant: only the changed field is sent, the rest is reset.             *)
AppliedAlone(w) == [f \in Field |-> IF f = call[w].field THEN clock' ELSE 0]

(* What was read, with the field changed; the number of the change is kept *)
(* for the answer.                                                         *)
Applied(w) == [call[w].copy EXCEPT ![call[w].field] = clock']

(* videos.update overwrites all fields.                                    *)
Overwrite(w) ==
    LET v == call[w].video
    IN  /\ v \in Existing
        /\ clock' = clock + 1
        /\ videos' = [videos EXCEPT ![v] = Applied(w)]
        /\ raced' = IF \E x \in Worker \ {w} : call[x].pc = "write" /\ call[x].video = v
                    THEN raced \cup {v} ELSE raced
        /\ outdated' = IF \E x \in Worker \ {w} : Holds(x, v)
                       THEN outdated \cup {v} ELSE outdated

Write(w) ==
    /\ call[w].pc = "write"
    /\ Overwrite(w)
    /\ call' = [call EXCEPT ![w].pc = "fetch", ![w].copy = NoRows, ![w].total = clock']
    /\ UNCHANGED <<cache, born, acked, bounds>>

(* The video is gone.                                                      *)
WriteRefused(w) ==
    /\ call[w].pc = "write"
    /\ call[w].video \notin Existing
    /\ Fail(w)
    /\ UNCHANGED <<tables, numbers, history, bounds>>

(* A new video is the latest; the cache does not learn of it.              *)
Insert(w) ==
    /\ call[w].pc = "insert"
    /\ born' = born + 1
    /\ videos' = [v \in Existing \cup {born'} |->
                      IF v = born' THEN [f \in Field |-> clock] ELSE videos[v]]
    /\ Goto(w, "answer")
    /\ UNCHANGED <<cache, clock, history, bounds>>

-------------------------------------------------------------------------------
(* SyncMyVideos: search a page, get its details, store it, turn the page.  *)

(* search.list: identifiers, and a token for the next page if there is one *)
(* (0 for none).                                                           *)
NextToken(w) == IF call[w].token + PageSize < Cardinality(Own)
                THEN call[w].token + PageSize ELSE 0

Search(w) ==
    /\ call[w].pc = "search"
    /\ LET found == PageOf(Ordered(Own, call[w].newest), call[w].token, PageSize)
       IN  call' = [call EXCEPT ![w].page = found, ![w].seen = <<NextToken(w)>>,
                                ![w].pc = IF found = <<>> THEN "answer" ELSE "details"]
    /\ UNCHANGED <<tables, numbers, history, bounds>>

(* The videos of the page that are still there.                            *)
StillThere(w) == Ordered(Range(call[w].page) \cap Existing, call[w].newest)

(* videos.list.                                                            *)
Details(w) ==
    /\ call[w].pc = "details"
    /\ LET found == StillThere(w)
       IN  call' = [call EXCEPT ![w].page = [i \in DOMAIN found |->
                                                [id |-> found[i], data |-> videos[found[i]]]],
                                ![w].total = @ + Len(found),
                                ![w].pc = IF found = <<>> THEN "answer" ELSE "row"]
    /\ UNCHANGED <<tables, numbers, history, bounds>>

(* UpsertVideos, in one transaction: a row is locked until its end.        *)
Row(w) ==
    /\ call[w].pc = "row"
    /\ call[w].page # <<>>
    /\ LET r == Head(call[w].page)
       IN  /\ ~Locked(w, r.id)
           /\ call' = [call EXCEPT ![w].staged = Upsert(@, [v \in {r.id} |-> r.data]),
                                   ![w].page = Tail(@)]
    /\ UNCHANGED <<tables, numbers, history, bounds>>

(* Variant: the next page is asked for with the token of this one.         *)
TurnPageBack(w) ==
    LET next == Head(call[w].seen)
    IN  IF call[w].all /\ next # 0 /\ next # call[w].token /\ call[w].pages + 1 < MaxPages
        THEN [call[w] EXCEPT !.pc = "search", !.staged = NoRows, !.seen = NoRows,
                             !.pages = @ + 1]
        ELSE [call[w] EXCEPT !.pc = "answer", !.staged = NoRows, !.seen = NoRows]

(* A full sync goes on unless there is no next page, the token repeats, or *)
(* the hard stop is reached.                                               *)
TurnPage(w) ==
    LET next == Head(call[w].seen)
    IN  IF call[w].all /\ next # 0 /\ next # call[w].token /\ call[w].pages + 1 < MaxPages
        THEN [call[w] EXCEPT !.pc = "search", !.staged = NoRows, !.seen = NoRows,
                             !.token = next, !.pages = @ + 1]
        ELSE [call[w] EXCEPT !.pc = "answer", !.staged = NoRows, !.seen = NoRows]

Committed(w) == Upsert(cache, [v \in DOMAIN call[w].staged |->
                                  [data |-> call[w].staged[v], fresh |-> TRUE]])

Commit(w) ==
    /\ call[w].pc = "row"
    /\ call[w].page = <<>>
    /\ cache' = Committed(w)
    /\ call' = [call EXCEPT ![w] = TurnPage(w)]
    /\ UNCHANGED <<videos, numbers, history, bounds>>

(* A statement of UpsertVideos fails.  Its deferred function looks at a    *)
(* variable that nobody set (youtube_cache_repository.go:149) and does not *)
(* roll back: unless the server has dropped them, the locks stay.          *)
UpsertFails(w) ==
    \E rows \in {NoRows, call[w].staged} :
        call' = [call EXCEPT ![w].pc = "answer", ![w].ok = FALSE,
                             ![w].page = <<>>, ![w].staged = rows]

Waits(w, x) ==
    /\ call[w].pc = "row" /\ call[w].page # <<>>
    /\ Head(call[w].page).id \in DOMAIN call[x].staged

(* PostgreSQL ends a circle of waiting transactions by aborting one.       *)
DeadlockVictim(w) ==
    /\ \E S \in SUBSET Worker :
           /\ w \in S
           /\ \A x \in S : \E y \in S \ {x} : Waits(x, y)
    /\ call' = [call EXCEPT ![w].pc = "answer", ![w].ok = FALSE,
                            ![w].page = <<>>, ![w].staged = NoRows]
    /\ UNCHANGED <<tables, numbers, history, bounds>>

-------------------------------------------------------------------------------
(* Lists of the cache: COUNT(1), then the rows of a page, both of what has *)
(* not expired.                                                            *)

Count(w) ==
    /\ call[w].pc = "count"
    /\ call' = [call EXCEPT ![w].pc = "select",
                            ![w].total = IF call[w].pages = 0 THEN Cardinality(Fresh) ELSE @]
    /\ UNCHANGED <<tables, numbers, history, bounds>>

(* Variant: pages start one row late.                                      *)
OffsetOffByOne(w) == call[w].pages * ListSize + call[w].pages

Offset(w) == call[w].pages * ListSize

(* The orders that ORDER BY published_at DESC NULLS LAST allows: nothing   *)
(* decides between rows published at the same time, or without a time, and *)
(* each query may have its own order of them.                              *)
Orders(S) ==
    {s \in [1..Cardinality(S) -> S] :
        \A i, j \in 1..Cardinality(S) :
            i < j => s[i] # s[j] /\ PublishedAt[s[i]] >= PublishedAt[s[j]]}

(* The rows of a page have come; the dashboard asks for the next one       *)
(* unless the page is empty, it has as many rows as were counted, or this  *)
(* was the last it reads.                                                  *)
PageRead(w, items) ==
    LET all  == call[w].seen \o items
        done == \/ call[w].op = "list"
                \/ items = <<>>
                \/ Len(all) >= call[w].total
                \/ call[w].pages + 1 = ListPages
    IN  call' = [call EXCEPT ![w].seen = all,
                             ![w].pages = IF done THEN 0 ELSE @ + 1,
                             ![w].pc = IF done THEN "answer" ELSE "count"]

Select(w) ==
    /\ call[w].pc = "select"
    /\ \E rows \in Orders(Fresh) : PageRead(w, PageOf(rows, Offset(w), ListSize))
    /\ UNCHANGED <<tables, numbers, history, bounds>>

-------------------------------------------------------------------------------
(* What others do, and what goes wrong.                                    *)

Expire(v) ==
    /\ v \in Fresh
    /\ cache' = [cache EXCEPT ![v].fresh = FALSE]
    /\ UNCHANGED <<videos, numbers, call, history, bounds>>

(* The owner changes or deletes a video with YouTube's own tools.          *)
EditElsewhere(v) ==
    /\ edits + faults < MaxTrouble
    /\ v \in Elsewhere \cap Existing
    /\ edits' = edits + 1
    /\ \/ /\ clock' = clock + 1
          /\ \E f \in Field : videos' = [videos EXCEPT ![v][f] = clock']
       \/ /\ videos' = [u \in Existing \ {v} |-> videos[u]]
          /\ UNCHANGED clock
    /\ UNCHANGED <<cache, born, call, history, requests, faults>>

Fault == edits + faults < MaxTrouble /\ faults' = faults + 1 /\ UNCHANGED <<requests, edits>>

(* A call fails, or the token of one to YouTube cannot be refreshed.  A    *)
(* failing lookup counts as a miss, and the error of UpsertVideo is        *)
(* discarded.                                                              *)
CallFails(w) ==
    /\ Fault
    /\ \/ call[w].pc = "lookup" /\ Goto(w, "fetch") /\ UNCHANGED acked
       \/ call[w].pc \in {"fetch", "existing", "write", "insert", "search",
                          "details", "count", "select"} /\ Fail(w) /\ UNCHANGED acked
       \/ call[w].pc \in {"store", "again"} /\ Goto(w, AfterStore(w)) /\ Acknowledge(w)
       \/ call[w].pc = "row" /\ UpsertFails(w) /\ UNCHANGED acked
    /\ UNCHANGED <<tables, numbers, raced, outdated>>

(* Reading the rows of a page breaks off after n of them.  ListVideos does *)
(* not ask rows.Err() why there is no next row: the page is taken as it is.*)
ReadBreaksOff(w) ==
    /\ Fault
    /\ call[w].pc = "select"
    /\ \E rows \in Orders(Fresh), n \in 0..ListSize - 1 :
           PageRead(w, PageOf(rows, Offset(w), n))
    /\ UNCHANGED <<tables, numbers, history>>

(* YouTube has made the change, but its answer does not arrive.            *)
WriteUnanswered(w) ==
    /\ Fault
    /\ call[w].pc = "write"
    /\ Overwrite(w)
    /\ Fail(w)
    /\ UNCHANGED <<cache, born, acked>>

(* The page is stored, but the answer to COMMIT is lost.                   *)
CommitUnanswered(w) ==
    /\ Fault
    /\ call[w].pc = "row" /\ call[w].page = <<>>
    /\ cache' = Committed(w)
    /\ call' = [call EXCEPT ![w].pc = "answer", ![w].ok = FALSE, ![w].staged = NoRows]
    /\ UNCHANGED <<videos, numbers, history>>

-------------------------------------------------------------------------------
Serve(w) ==
    \/ Answer(w)
    \/ Lookup(w)
    \/ Fetch(w)
    \/ Store(w)
    \/ FetchExisting(w)
    \/ Write(w)
    \/ WriteRefused(w)
    \/ Insert(w)
    \/ Search(w)
    \/ Details(w)
    \/ Row(w)
    \/ Commit(w)
    \/ DeadlockVictim(w)
    \/ Count(w)
    \/ Select(w)

(* What a request goes through page by page.                               *)
Listed(op) == IF op = "sync" THEN Own ELSE IF op = "summary" THEN Fresh ELSE {}

Watch ==
    steady' = [w \in Worker |->
        \/ call'[w].pc = "idle"
        \/ call[w].pc = "idle"
        \/ /\ steady[w]
           /\ Listed(call[w].op)' = Listed(call[w].op)
           /\ faults' = faults \/ call'[w] = call[w]]

Next ==
    /\ \/ \E w \in Worker :
              \/ \E r \in Request : Accept(w, r)
              \/ Serve(w)
              \/ CallFails(w)
              \/ ReadBreaksOff(w)
              \/ WriteUnanswered(w)
              \/ CommitUnanswered(w)
       \/ \E v \in Video : Expire(v) \/ EditElsewhere(v)
    /\ Watch

Spec == Init /\ [][Next]_vars

(* A handler that started keeps running, and the server finds a deadlock.  *)
FairSpec == Spec /\ \A w \in Worker : WF_vars(Serve(w) /\ Watch)
-------------------------------------------------------------------------------
(* No update that a request was told it made is undone by another request, *)
(* unless two requests were updating the video at once: each writes all    *)
(* fields as it read them (UpdateVideo in youtube_client.go).              *)
UpdatesStay ==
    \A v \in Existing \ raced : \A f \in Field : videos[v][f] >= acked[v][f]

(* "Immediately fetch latest data from YouTube and sync to DB/cache"       *)
(* (youtube_usecase.go:320): what the cache answers is not older than any  *)
(* update that was acknowledged, as long as no call fails, no two requests *)
(* were updating the video, and none was about to store it when it changed.*)
CacheFollowsUpdates ==
    faults = 0 =>
        \A v \in Fresh \ (raced \cup outdated) : \A f \in Field :
            cache[v].data[f] >= acked[v][f]

(* A full sync during which the channel stays the same stores all of its   *)
(* videos, and answers how many there are, whatever else is going on.      *)
SyncIsComplete ==
    \A w \in Worker :
        call[w].pc = "answer" /\ call[w].op = "sync" /\ call[w].all
            /\ call[w].ok /\ steady[w]
        => /\ Own \subseteq DOMAIN cache
           /\ call[w].total = Cardinality(Own)

(* Videos at the same place of s and t were published at the same time.    *)
AsNew(s, t) ==
    Len(s) = Len(t) /\ \A i \in 1..Len(s) : PublishedAt[s[i]] = PublishedAt[t[i]]

Ties(S) == \E u, v \in S : u # v /\ PublishedAt[u] = PublishedAt[v]

(* Of a cache that stays the same, and if no read breaks off, the dashboard*)
(* counts as many videos of each time as there are up to its limit,        *)
(* although it reads them page by page.  Unless some were published at the *)
(* same time, of which one page may repeat what another has, it counts each*)
(* video exactly once.                                                     *)
SummaryCountsOnce ==
    \A w \in Worker :
        call[w].pc = "answer" /\ call[w].op = "summary" /\ call[w].ok /\ steady[w]
        => LET first == PageOf(NewestFirst(Fresh), 0, ListPages * ListSize)
           IN  /\ AsNew(call[w].seen, first)
               /\ ~Ties(Fresh) => call[w].seen = first
               /\ call[w].total = Cardinality(Fresh)

(* Every request is answered: no path leaves a row locked for good, and    *)
(* pages end.                                                              *)
RequestsReturn == \A w \in Worker : call[w].pc # "idle" ~> call[w].pc = "idle"
===============================================================================
