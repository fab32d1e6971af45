----------------------------- MODULE PixmapCache -----------------------------
(***************************************************************************)
(* The pixmap cache: images share the pixmaps they load, a reader thread   *)
(* loads them, and what nobody refers to is kept until it expires.         *)
(*                                                                         *)
(* Source: quick/util/qquickpixmapcache.cpp and the loading half of        *)
(* quick/items/qquickimagebase.cpp.  A QQuickPixmapData and the            *)
(* QQuickPixmapReply created for it have the same id; an id is used again  *)
(* once both are deleted, as an address is.                                *)
(***************************************************************************)
EXTENDS Integers, FiniteSets, SequencesExt

CONSTANTS
  Images, Ids, NoId,
  Keys,        \* what a pixmap is loaded for: url, region, size, frame
  Kind,        \* Keys -> "local": decoded at once; "network"; "response": async provider
  Cost,        \* Keys -> bytes of the texture
  CacheLimit,  \* cache_limit
  MaxNetwork,  \* IMAGEREQUEST_MAX_NETWORK_REQUEST_COUNT
  EngineDies,  \* the engine, and its reader, may be destroyed before the images
  MaxLoads     \* bound: loads asked for

ASSUME PixmapAssumption ==
  /\ NoId \notin Ids /\ IsFiniteSet(Images)
  /\ Kind \in [Keys -> {"local", "network", "response"}]
  /\ Cost \in [Keys -> Nat]
  /\ CacheLimit \in Nat /\ MaxNetwork \in Nat \ {0} /\ MaxLoads \in Nat
  /\ EngineDies \in BOOLEAN

SmallFraction == 16                                  \* mutant: removes less than is there
RemovalFraction == 4  \* CACHE_REMOVAL_FRACTION

VARIABLES
  data,     \* QQuickPixmapData
  cache,    \* m_cache
  unref,    \* the list from m_unreferencedPixmaps to m_lastUnreferencedPixmap
  cost,     \* m_unreferencedCost
  timer,    \* m_timerId # -1
  image,    \* QQuickImageBase: d->pix.d and d->status
  loading,  \* the load() that loadPixmap() is about to call
  frame,    \* the finished() signal being emitted
  loads,    \* loads so far
  reply,    \* QQuickPixmapReply, its connections and the events posted to it
  reader,   \* the engine's reader: "none", "there", "dying", "gone"
  jobs, cancelled,
  underWay, \* networkJobs and asyncResponses
  pc,       \* where the reader thread is
  current,  \* the job it works at outside of the mutex
  posted    \* a processJobs() event is posted to threadObject

storeVars == <<cache, unref, cost, timer>>
readerVars == <<reply, jobs, cancelled, posted>>     \* what the GUI thread changes, too
threadVars == <<underWay, pc, current>>
guiVars == <<image, loading, frame, loads>>
vars == <<data, storeVars, guiVars, readerVars, threadVars, reader>>

Statuses == {"null", "ready", "loading", "error"}
Nobody == [image |-> NoId, key |-> NoId, async |-> FALSE, cache |-> FALSE]
NoFrame == [reply |-> NoId, left |-> {}, handling |-> FALSE]
NoData == [live |-> FALSE, key |-> NoId, ref |-> 0, status |-> "null",
           inCache |-> FALSE, reply |-> FALSE, orphan |-> FALSE]
NoReply == [live |-> FALSE, key |-> NoId, data |-> FALSE, loading |-> FALSE,
            event |-> "none", deleteLater |-> FALSE, connected |-> {}]

Init ==
  /\ data = [n \in Ids |-> NoData] /\ reply = [n \in Ids |-> NoReply]
  /\ cache = [k \in Keys |-> NoId] /\ unref = <<>> /\ cost = 0 /\ timer = FALSE
  /\ image = [i \in Images |-> [pix |-> NoId, status |-> "null"]]
  /\ loading = Nobody /\ frame = NoFrame /\ loads = 0
  /\ reader = "none" /\ jobs = <<>> /\ cancelled = {}
  /\ underWay = {}
  /\ pc = "start" /\ current = NoId /\ posted = FALSE

\* An id whose objects are gone.
Unused(n) ==
  /\ ~data[n].live /\ ~reply[n].live /\ frame.reply # n
  /\ n \notin ToSet(jobs) \cup cancelled \cup underWay \cup {current}

-----------------------------------------------------------------------------
(* QQuickPixmapStore.                                                      *)

SumOf(costs) ==
  LET sum[m \in 0 .. Len(costs)] == IF m = 0 THEN 0 ELSE sum[m - 1] + costs[m]
  IN sum[Len(costs)]
TotalCost(list, d) == SumOf([x \in 1 .. Len(list) |-> Cost[d[list[x]].key]])

\* shrinkCache(): how many of the oldest in list go, so that remove bytes do
\* and at most CacheLimit stay.
Removals(list, total, remove, d) ==
  CHOOSE c \in 0 .. Len(list) :
    LET gone(m) == TotalCost(SubSeq(list, Len(list) - m + 1, Len(list)), d)
        enough(m) == m = Len(list) \/ (remove <= gone(m) /\ total - gone(m) <= CacheLimit)
    IN enough(c) /\ \A m \in 0 .. c - 1 : ~enough(m)
ShrinkCache(list, total, remove, d) ==
  LET c == Removals(list, total, remove, d)
      gone == SubSeq(list, Len(list) - c + 1, Len(list))
  IN /\ unref' = SubSeq(list, 1, Len(list) - c)
     /\ cost' = total - TotalCost(gone, d)
     /\ data' = [n \in Ids |-> IF n \in ToSet(gone) THEN NoData ELSE d[n]]
     /\ cache' = [k \in Keys |-> IF cache[k] \in ToSet(gone) THEN NoId ELSE cache[k]]

UnreferencePixmap(n, d) ==
  /\ ShrinkCache(<<n>> \o unref, cost + Cost[d[n].key], -1, d)
  /\ timer' = (timer \/ unref' # <<>>)

PaysTwice(n) ==                                      \* mutant: the cost stays
  unref' = RemoveFirst(unref, n) /\ UNCHANGED cost
ReferencePixmap(n) ==
  /\ unref' = RemoveFirst(unref, n)
  /\ cost' = IF n \in ToSet(unref) THEN cost - Cost[data[n].key] ELSE cost

\* removeFromCache(): what is cached for n's key.
Uncached(n) == IF data[n].inCache THEN [cache EXCEPT ![data[n].key] = NoId] ELSE cache

\* The GUI thread may run the program: in its event loop, or in a handler of
\* what requestFinished() emits.
Free ==
  /\ loading = Nobody /\ reader # "dying"
  /\ frame = NoFrame \/ frame.handling

TimerEvent ==
  /\ Free /\ timer
  /\ ShrinkCache(unref, cost, cost \div RemovalFraction, data)
  /\ timer' = (unref' # <<>>)
  /\ UNCHANGED <<guiVars, readerVars, threadVars, reader>>

PurgeCache ==
  /\ Free /\ unref # <<>>
  /\ ShrinkCache(unref, cost, cost, data)
  /\ UNCHANGED <<timer, guiVars, readerVars, threadVars, reader>>

-----------------------------------------------------------------------------
(* QQuickPixmapReader, called by the GUI thread.                           *)

\* processJobs() of threadObject, which the thread creates when it runs.
PostsNothing == UNCHANGED posted                     \* mutant: the thread is not told
PostProcessJobs == posted' = (posted \/ pc # "start")

GetImage(n, k, listener) ==
  /\ reply' = [reply EXCEPT ![n] = [NoReply EXCEPT !.live = TRUE, !.key = k, !.data = TRUE,
                                                   !.connected = {listener}]]
  /\ jobs' = Append(jobs, n)
  /\ reader' = "there"
  /\ PostProcessJobs

\* cancel(), once the reply's data is cleared; r are the replies less the listener.
\* removeAll() removes one: a reply is appended once.
CancelAtOnce(n, r) ==                                \* mutant: deleted while it loads
  /\ jobs' = RemoveFirst(jobs, n)
  /\ reply' = [r EXCEPT ![n] = NoReply]
  /\ UNCHANGED <<cancelled, posted>>
Cancel(n, r) ==
  IF r[n].loading
  THEN /\ cancelled' = cancelled \cup {n}
       /\ reply' = [r EXCEPT ![n].data = FALSE]
       /\ PostProcessJobs /\ UNCHANGED jobs
  ELSE /\ jobs' = RemoveFirst(jobs, n)
       /\ reply' = [r EXCEPT ![n] = NoReply]
       /\ UNCHANGED <<cancelled, posted>>

-----------------------------------------------------------------------------
(* QQuickPixmapData, and QQuickPixmap::clear().                            *)

\* release(): the last user cancels what still loads, and a pixmap that is
\* ready is kept if it is cached.  What an orphan writes to its deleted reply is
\* written to a reply that is not live, where nothing reads it.
Release(n, r) ==
  LET last == data[n].ref = 1
      kept == data[n].status = "ready" /\ data[n].inCache
      released == [data EXCEPT ![n].ref = @ - 1, ![n].reply = @ /\ ~last]
  IN /\ \/ last /\ data[n].reply /\ reader = "there" /\ Cancel(n, r)
        \/ /\ last /\ data[n].reply /\ reader # "there"
           /\ reply' = [r EXCEPT ![n].data = FALSE]
           /\ UNCHANGED <<jobs, cancelled, posted>>
        \/ /\ ~(last /\ data[n].reply)
           /\ reply' = r /\ UNCHANGED <<jobs, cancelled, posted>>
     /\ \/ ~last /\ data' = released /\ UNCHANGED storeVars
        \/ last /\ kept /\ UnreferencePixmap(n, released)
        \/ /\ last /\ ~kept
           /\ data' = [data EXCEPT ![n] = NoData] /\ cache' = Uncached(n)
           /\ UNCHANGED <<unref, cost, timer>>

\* clear(this): the image no longer listens to the reply of its pixmap, as long
\* as the pixmap has one.
Disconnected(i) ==
  [n \in Ids |-> IF n = image[i].pix /\ data[n].reply
                 THEN [reply[n] EXCEPT !.connected = @ \ {i}] ELSE reply[n]]
Clear(i, r) ==
  IF image[i].pix = NoId
  THEN reply' = r /\ UNCHANGED <<data, storeVars, jobs, cancelled, posted>>
  ELSE Release(image[i].pix, r)

-----------------------------------------------------------------------------
(* QQuickImageBase, and QQuickPixmap::load().                              *)

\* What is not local goes through the reader, whatever the image says.
MustBeAsync(k) == Kind[k] # "local"

SetSource(i, k, async, cached) ==
  /\ Free /\ loads < MaxLoads /\ \E n \in Ids : Unused(n)
  /\ MustBeAsync(k) => async
  /\ loading' = [image |-> i, key |-> k, async |-> async, cache |-> cached]
  /\ loads' = loads + 1
  /\ Clear(i, Disconnected(i))
  /\ image' = [image EXCEPT ![i].pix = NoId]
  /\ UNCHANGED <<frame, threadVars, reader>>

LoadEmptyUrl(i) ==
  /\ Free /\ image[i].status # "null"
  /\ Clear(i, Disconnected(i))
  /\ image' = [image EXCEPT ![i] = [pix |-> NoId, status |-> "null"]]
  /\ UNCHANGED <<loading, frame, loads, threadVars, reader>>

\* The destructors of the image and of its pixmap.
DestroyImage(i) ==
  /\ Free /\ image[i].status # "null"
  /\ Clear(i, [n \in Ids |-> [reply[n] EXCEPT !.connected = @ \ {i}]])
  /\ image' = [image EXCEPT ![i] = [pix |-> NoId, status |-> "null"]]
  /\ UNCHANGED <<loading, frame, loads, threadVars, reader>>

Load == loading # Nobody /\ loading' = Nobody
Found == IF loading.cache THEN cache[loading.key] ELSE NoId
NewData(n, status) ==
  [live |-> TRUE, key |-> loading.key, ref |-> 1, status |-> status,
   inCache |-> loading.cache, reply |-> status = "loading", orphan |-> FALSE]
Insert(n) == cache' = IF loading.cache THEN [cache EXCEPT ![loading.key] = n] ELSE cache

\* What is cached, perhaps still loading.
LoadCached ==
  /\ Load /\ Found # NoId
  /\ data' = [data EXCEPT ![Found].ref = @ + 1]
  /\ ReferencePixmap(Found)
  /\ image' = [image EXCEPT ![loading.image] = [pix |-> Found, status |-> data[Found].status]]
  /\ reply' = IF data[Found].status = "loading" /\ data[Found].reply
              THEN [reply EXCEPT ![Found].connected = @ \cup {loading.image}] ELSE reply
  /\ UNCHANGED <<cache, timer, frame, loads, jobs, cancelled, posted, threadVars, reader>>

\* createPixmapDataSync().  The Data of a load that fails does not outlive
\* requestFinished().
LoadSync(n) ==
  /\ Load /\ Found = NoId /\ ~loading.async /\ Unused(n)
  /\ \/ /\ data' = [data EXCEPT ![n] = NewData(n, "ready")]
        /\ Insert(n)
        /\ image' = [image EXCEPT ![loading.image] = [pix |-> n, status |-> "ready"]]
     \/ /\ image' = [image EXCEPT ![loading.image].status = "error"]
        /\ UNCHANGED <<data, cache>>
  /\ UNCHANGED <<unref, cost, timer, frame, loads, readerVars, threadVars, reader>>

LoadAsync(n) ==
  /\ Load /\ Found = NoId /\ loading.async /\ Unused(n)
  /\ reader \in {"none", "there"}
  /\ data' = [data EXCEPT ![n] = NewData(n, "loading")]
  /\ Insert(n)
  /\ image' = [image EXCEPT ![loading.image] = [pix |-> n, status |-> "loading"]]
  /\ GetImage(n, loading.key, loading.image)
  /\ UNCHANGED <<unref, cost, timer, frame, loads, cancelled, threadVars>>

\* Without an engine there is no pixmap, and nothing to wait for.
LoadWithoutEngine ==
  /\ Load /\ Found = NoId /\ loading.async /\ reader = "gone"
  /\ image' = [image EXCEPT ![loading.image].status = "ready"]
  /\ UNCHANGED <<data, storeVars, frame, loads, readerVars, threadVars, reader>>

\* requestFinished()
RequestFinished(i) ==
  LET n == image[i].pix IN
  IF n # NoId /\ data[n].status = "error"
  THEN /\ Clear(i, Disconnected(i))
       /\ image' = [image EXCEPT ![i] = [pix |-> NoId, status |-> "error"]]
  ELSE /\ image' = [image EXCEPT ![i].status = "ready"]
       /\ UNCHANGED <<data, storeVars, readerVars>>

-----------------------------------------------------------------------------
(* QQuickPixmapReply, in the event loop of the GUI thread.                 *)

EventLoop == frame = NoFrame /\ loading = Nobody /\ reader # "dying"

\* event(): an answer that nobody has asked for any more only deletes the reply.
DropAnswer(n) ==
  /\ EventLoop /\ reply[n].event # "none" /\ ~reply[n].data
  /\ reply' = [reply EXCEPT ![n] = NoReply]
  /\ UNCHANGED <<data, storeVars, guiVars, jobs, cancelled, posted, threadVars, reader>>
Answer(n) ==
  /\ EventLoop /\ reply[n].event # "none" /\ reply[n].data
  /\ data' = [data EXCEPT ![n].status = reply[n].event, ![n].reply = FALSE,
                          ![n].inCache = @ /\ reply[n].event = "ready"]
  /\ cache' = IF reply[n].event = "error" THEN Uncached(n) ELSE cache
  /\ reply' = [reply EXCEPT ![n].event = "none"]
  /\ frame' = [reply |-> n, left |-> reply[n].connected, handling |-> FALSE]
  /\ UNCHANGED <<unref, cost, timer, image, loading, loads, jobs, cancelled, posted,
                 threadVars, reader>>

\* emit finished(), one listener that is still connected after the other.
Emitting == frame # NoFrame /\ loading = Nobody
EmitFinished(i) ==
  /\ Emitting /\ i \in frame.left \cap reply[frame.reply].connected
  /\ frame' = [frame EXCEPT !.left = @ \ {i}, !.handling = TRUE]
  /\ RequestFinished(i)
  /\ UNCHANGED <<loading, loads, threadVars, reader>>
Emitted ==
  /\ Emitting /\ frame.left \cap reply[frame.reply].connected = {}
  /\ frame' = NoFrame
  /\ reply' = [reply EXCEPT ![frame.reply] = NoReply]
  /\ UNCHANGED <<data, storeVars, image, loading, loads, jobs, cancelled, posted,
                 threadVars, reader>>

DeleteLater(n) ==
  /\ EventLoop /\ reply[n].deleteLater
  /\ reply' = [reply EXCEPT ![n] = NoReply]
  /\ UNCHANGED <<data, storeVars, guiVars, jobs, cancelled, posted, threadVars, reader>>

\* ~QQuickPixmapReader(), up to wait(): queued jobs are deleted, those under way
\* cancelled, and the thread is told to quit after that.  A pixmap whose load is under
\* way keeps its pointer to the reply, which nobody clears any more: the model marks it
\* as an orphan.
DestroyReader ==
  /\ EngineDies /\ EventLoop /\ reader = "there"
  /\ reader' = "dying" /\ jobs' = <<>>
  /\ LET under == {n \in underWay : reply[n].loading} IN
       /\ cancelled' = cancelled \cup under
       /\ reply' = [n \in Ids |->
            IF n \in ToSet(jobs) THEN NoReply
            ELSE [reply[n] EXCEPT !.data = @ /\ n \notin under]]
       /\ data' = [n \in Ids |-> [data[n] EXCEPT !.reply = @ /\ n \notin ToSet(jobs),
                                                  !.orphan = @ \/ (data[n].reply /\ n \in under)]]
  /\ PostProcessJobs
  /\ UNCHANGED <<storeVars, guiVars, threadVars>>

-----------------------------------------------------------------------------
(* The reader thread.                                                      *)

guiThreadVars == <<data, storeVars, guiVars>>

Run ==
  /\ reader \in {"there", "dying"} /\ pc = "start" /\ pc' = "jobs"
  /\ UNCHANGED <<guiThreadVars, readerVars, underWay, current, reader>>

Event ==
  /\ pc = "idle" /\ posted /\ posted' = FALSE /\ pc' = "jobs"
  /\ UNCHANGED <<guiThreadVars, reply, jobs, cancelled, underWay, current, reader>>

\* One turn of the loop in processJobs(), with the mutex: cancelled jobs are
\* forgotten, and the job added last that can start is started.
Network(S) == {n \in S : Kind[reply[n].key] = "network"}
Usable(n) == n \in Network({n}) => Cardinality(Network(underWay \ cancelled)) < MaxNetwork
ProcessJobs ==
  /\ pc = "jobs" /\ cancelled' = {}
  /\ underWay' = underWay \ cancelled
  /\ LET dropped == [n \in Ids |-> [reply[n] EXCEPT !.deleteLater = @ \/ n \in cancelled]]
         usable == {x \in DOMAIN jobs : Usable(jobs[x])}
     IN \/ /\ usable = {}
           /\ pc' = "idle" /\ reply' = dropped /\ UNCHANGED <<jobs, current>>
        \/ \E x \in usable :
             /\ \A y \in usable : y <= x
             /\ current' = jobs[x] /\ jobs' = RemoveAt(jobs, x) /\ pc' = "process"
             /\ reply' = [dropped EXCEPT ![jobs[x]].loading = TRUE]
  /\ UNCHANGED <<guiThreadVars, posted, reader>>

\* processJob(), without the mutex: what is not local goes on elsewhere.
ProcessJob ==
  /\ pc = "process"
  /\ \/ /\ Kind[reply[current].key] = "local" /\ pc' = "answer"
        /\ UNCHANGED <<current, underWay>>
     \/ /\ Kind[reply[current].key] # "local" /\ pc' = "jobs"
        /\ current' = NoId /\ underWay' = underWay \cup {current}
  /\ UNCHANGED <<guiThreadVars, readerVars, reader>>

\* networkRequestDone(), asyncResponseFinished(): up to the mutex.
RequestDone(n) ==
  /\ pc = "idle" /\ n \in underWay
  /\ underWay' = underWay \ {n}
  /\ current' = n /\ pc' = "answer"
  /\ UNCHANGED <<guiThreadVars, readerVars, reader>>

\* postReply(), unless the job is cancelled.
PostReply ==
  /\ pc = "answer" /\ current' = NoId
  /\ \E e \in {"ready", "error"} :
       reply' = IF current \in cancelled THEN reply
                ELSE [reply EXCEPT ![current].loading = FALSE, ![current].event = e]
  /\ IF Kind[reply[current].key] = "local"
     THEN pc' = "jobs" /\ UNCHANGED posted
     ELSE pc' = "idle" /\ posted' = TRUE
  /\ UNCHANGED <<guiThreadVars, jobs, cancelled, underWay, reader>>

\* The event loop ends with the events posted before its end.
Quit ==
  /\ reader = "dying" /\ pc = "idle" /\ ~posted
  /\ reader' = "gone" /\ pc' = "done" /\ underWay' = {}
  /\ UNCHANGED <<guiThreadVars, readerVars, current>>

-----------------------------------------------------------------------------
ReaderStep == Run \/ Event \/ ProcessJobs \/ ProcessJob \/ PostReply \/ Quit
GuiStep ==
  \/ LoadCached \/ LoadWithoutEngine \/ Emitted
  \/ \E n \in Ids : LoadSync(n) \/ LoadAsync(n) \/ DropAnswer(n) \/ Answer(n) \/ DeleteLater(n)
  \/ \E i \in Images : EmitFinished(i)
Program ==
  \/ \E i \in Images : LoadEmptyUrl(i) \/ DestroyImage(i)
  \/ \E i \in Images, k \in Keys, async, cached \in BOOLEAN : SetSource(i, k, async, cached)
  \/ PurgeCache \/ DestroyReader
Next ==
  \/ ReaderStep \/ GuiStep \/ Program \/ TimerEvent
  \/ \E n \in Ids : RequestDone(n)
Spec == Init /\ [][Next]_vars

\* Both threads run, requests are answered and the timer fires.
FairSpec ==
  /\ Spec
  /\ WF_vars(ReaderStep) /\ WF_vars(GuiStep) /\ WF_vars(TimerEvent)
  /\ SF_vars(\E n \in Ids : RequestDone(n))

-----------------------------------------------------------------------------
\* Type invariant: what each variable may hold.
TypeOK ==
  /\ data \in [Ids -> [live : BOOLEAN, key : Keys \cup {NoId}, ref : 0 .. Cardinality(Images),
                       status : Statuses, inCache : BOOLEAN, reply : BOOLEAN,
                       orphan : BOOLEAN]]
  /\ reply \in [Ids -> [live : BOOLEAN, key : Keys \cup {NoId}, data : BOOLEAN,
                        loading : BOOLEAN, event : {"none", "ready", "error"},
                        deleteLater : BOOLEAN, connected : SUBSET Images]]
  /\ cache \in [Keys -> Ids \cup {NoId}] /\ unref \in Seq(Ids) /\ cost \in Nat
  /\ timer \in BOOLEAN
  /\ image \in [Images -> [pix : Ids \cup {NoId}, status : Statuses]]
  /\ loading \in {Nobody} \cup [image : Images, key : Keys, async : BOOLEAN, cache : BOOLEAN]
  /\ frame \in [reply : Ids \cup {NoId}, left : SUBSET Images, handling : BOOLEAN]
  /\ loads \in 0 .. MaxLoads
  /\ reader \in {"none", "there", "dying", "gone"}
  /\ jobs \in Seq(Ids) /\ cancelled \subseteq Ids
  /\ underWay \subseteq Ids
  /\ pc \in {"start", "idle", "jobs", "process", "answer", "done"}
  /\ current \in Ids \cup {NoId} /\ posted \in BOOLEAN

\* QQuickPixmapData and QQuickPixmapReply point to each other from two threads: no
\* pointer outlives what it points to, nor do the lists of the reader thread hold a
\* reply that the GUI thread has deleted.  The one exception is data->reply of the
\* orphans of ~QQuickPixmapReader(), which dangles once that reply is deleted.
PointersAreLive ==
  /\ \A n \in Ids :
       /\ data[n].reply /\ ~data[n].orphan => reply[n].live /\ reply[n].data
       /\ reply[n].live /\ reply[n].data /\ frame.reply # n => data[n].live /\ data[n].reply
  /\ \A n \in ToSet(jobs) \cup cancelled \cup underWay \cup {current} :
       n # NoId => reply[n].live /\ ~reply[n].deleteLater

Users(n) == {i \in Images : image[i].pix = n}
ReferencesAreCounted ==
  \A n \in Ids :
    /\ data[n].ref = Cardinality(Users(n))
    /\ (n \in ToSet(unref)) = (data[n].live /\ data[n].ref = 0)
UnreferencedIsPaid ==
  /\ IsInjective(unref) /\ cost = TotalCost(unref, data) /\ cost <= CacheLimit
  /\ unref # <<>> => timer
CachedIsFound ==
  /\ \A n \in Ids : data[n].inCache => cache[data[n].key] = n
  /\ \A k \in Keys : cache[k] # NoId =>
       LET d == data[cache[k]] IN d.live /\ d.inCache /\ d.key = k /\ d.status # "error"

\* Every variable keeps its type.  A pixmap lives while an image uses it or the store
\* keeps it; what no image uses is on the list once, counted in m_unreferencedCost
\* within the limit, with the timer running; and m_cache holds what says that it is
\* cached, and nothing that failed: whatever order images load, share, cancel, fail
\* and go in.
CacheIsExact == TypeOK /\ ReferencesAreCounted /\ UnreferencedIsPaid /\ CachedIsFound

\* Every image that is Loading becomes something else, though its pixmap may be shared,
\* its request cancelled for another image, or the reader at its limit; unless the
\* engine goes.
LoadsAnswered ==
  \A i \in Images :
    image[i].status = "loading" ~> (image[i].status # "loading" \/ reader = "gone")

\* timerEvent() removes a fraction at a time: what nobody uses is gone in the end.
CacheExpires == \A n \in Ids : n \in ToSet(unref) ~> n \notin ToSet(unref)

\* qquickimage.cpp:426, "Image.Ready The image has been loaded": an image is not Ready
\* with a pixmap that still loads.
ReadyIsLoaded ==
  \A i \in Images : image[i].status = "ready" /\ image[i].pix # NoId =>
    data[image[i].pix].status = "ready"
=============================================================================
