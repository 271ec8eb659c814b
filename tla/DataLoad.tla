------------------------------- MODULE DataLoad -------------------------------
(***************************************************************************)
(* data/load.py with its sources: one ci.load() from its arguments to its  *)
(* result.  The call resolves every source, lists the platform buckets,    *)
(* enforces the size tiers and then loads: at once or, for a LazyHandle,   *)
(* when a thread collects.  Sources are loaded concurrently into one       *)
(* result, or, when all of them are SQL and the result is an iterator,     *)
(* streamed one after the other while the consumer asks for batches.       *)
(* The platform, the databases and the files are external: each may fail.  *)
(***************************************************************************)
EXTENDS DataSources

CONSTANTS Requests,    \* the calls to explore
          Worlds,      \* the circumstances to explore
          Threads,     \* the threads that may collect a handle; Main makes the call
          Main,
          MaxPages,    \* _MAX_LIST_PAGES
          MaxBatches,  \* bound: batches in the result of a query
          MaxRuns      \* bound: runs of the thunk

LocalSize == 1
Unsized   == -1

\* names: the kinds of the sources, "store" for s3, gs and azure; iter: as_="iter"; map: none, row-wise or by batch;
\* flat: batch_size <= 1; regex: match= has a filename regex; columns: columns= is given.
RequestType == [names : Seq({"local", "platform", "sql", "store"}), iter : BOOLEAN,
                map : {"none", "row", "batch"}, flat : BOOLEAN, where : BOOLEAN,
                lazy : BOOLEAN, confirm : BOOLEAN, regex : BOOLEAN, columns : BOOLEAN]

\* key: there is an API key; warn: load_warn_bytes; layers: where load_max_bytes is set;
\* uri: the fields and the path segments of a SQL URI; local: the secret and the driver's
\* variable that are set.
WorldType == [key : BOOLEAN, warn : Nat,
              layers : [home : Raw \cup {Unreadable}, env : Raw, explicit : Nat \cup {Absent}],
              uri : [fields : SUBSET Fields, segments : Nat],
              local : SUBSET {"secret", "driver"}]

ASSUME LoadAssumption ==
    /\ Requests \subseteq RequestType /\ Worlds \subseteq WorldType
    /\ \A r \in Requests : Len(r.names) \in 1..2
    /\ Main \in Threads
    /\ MaxPages \in Nat \ {0} /\ MaxBatches \in Nat /\ MaxRuns \in Nat

VARIABLES
    world,    \* the circumstances of this behaviour
    load,     \* the call: where it is, its request, the source it resolves
    listing,  \* the listing in progress: pages so far, objects, largest total reported
    src,      \* per source: the objects of its listing and its estimate
    run,      \* per thread: the run of the thunk in progress
    handle,   \* the LazyHandle: _collected, and how many runs were begun
    conns,    \* open connections: thread and source
    stream    \* per thread: the iterator that its last run returned

vars == <<world, load, listing, src, run, handle, conns, stream>>

NoListing == [pages |-> 0, objects |-> {}, total |-> Unsized]
NoSource  == [objects |-> {}, size |-> Unsized]
NoRun     == [pc |-> "idle", stage |-> <<>>, got |-> <<>>]
NoStream  == [state |-> "none", cur |-> 0, sizes |-> <<>>, left |-> 0, started |-> FALSE,
              out |-> <<>>]

Init ==
    /\ world \in Worlds
    /\ \E r \in Requests : load = [pc |-> "called", req |-> r, next |-> 1]
    /\ listing = NoListing
    /\ src = [i \in 1..2 |-> NoSource]
    /\ run = [t \in Threads |-> NoRun]
    /\ handle = [collected |-> FALSE, runs |-> 0]
    /\ conns = {}
    /\ stream = [t \in Threads |-> NoStream]

Names == load.req.names
Kind(i) == Names[i]

-------------------------------------------------------------------------------
(* The call *)

Limit == ResolveConfig(world.layers)

Match == FromAny(load.req)

Raise == load' = [load EXCEPT !.pc = "raised"]

\* where= is for SQL sources only.
Unsupported == load.req.where /\ \E i \in DOMAIN Names : Kind(i) # "sql"

Validate ==
    /\ load.pc = "called"
    /\ load' = [load EXCEPT !.pc = IF Unsupported THEN "raised" ELSE "resolving"]
    /\ UNCHANGED <<world, listing, src, run, handle, conns, stream>>

\* A source is only built, unless it is a bucket; a SQL URI without a table and a bucket
\* without an API key are refused.
Refused(i) == CASE Kind(i) = "sql"      -> ~ NamesTable(world.uri.segments)
                [] Kind(i) = "platform" -> ~ world.key
                [] OTHER                -> FALSE

Resolve ==
    /\ load.pc = "resolving"
    /\ \/ /\ load.next > Len(Names)
          /\ load' = [load EXCEPT !.pc = "sizing"]
       \/ /\ load.next <= Len(Names) /\ Kind(load.next) # "platform" /\ ~ Refused(load.next)
          /\ load' = [load EXCEPT !.next = @ + 1]
       \/ /\ load.next <= Len(Names) /\ Refused(load.next)
          /\ Raise
    /\ UNCHANGED <<world, listing, src, run, handle, conns, stream>>

\* Faulty: trusts the platform's total of a listing of several pages.
TotalReported(pages, reported, kept) ==
    IF reported # Unsized /\ ~ HasPostFilter(Match) THEN reported ELSE Cardinality(kept)

\* A listing of one page without a local filter trusts the platform's total.
ListingTotal(pages, reported, kept) ==
    IF pages = 1 /\ reported # Unsized /\ ~ HasPostFilter(Match) THEN reported ELSE Cardinality(kept)

\* Faulty: a listing that goes on too long starts over.
AnotherPageForever(now) ==
    /\ listing' = [now EXCEPT !.pages = @ % MaxPages]
    /\ UNCHANGED <<load, src>>

AnotherPage(now) ==
    IF now.pages >= MaxPages THEN Raise /\ UNCHANGED <<listing, src>>
    ELSE listing' = now /\ UNCHANGED <<load, src>>

LastPage(now) ==
    LET kept == PostFilter(now.objects, Match) IN
    /\ src' = [src EXCEPT ![load.next] =
                  [objects |-> kept, size |-> ListingTotal(now.pages, now.total, kept)]]
    /\ load' = [load EXCEPT !.next = @ + 1]
    /\ listing' = NoListing

Listing == load.pc = "resolving" /\ load.next <= Len(Names) /\ Kind(load.next) = "platform"
           /\ ~ Refused(load.next)

\* _http_json_get raises on every error, and on an answer without objects.
ListingFails ==
    /\ Listing /\ Raise
    /\ UNCHANGED <<world, listing, src, run, handle, conns, stream>>

\* A page of the listing.  It may be empty and still carry a cursor.
ListPage(page, reports, cursor) ==
    LET now == [pages   |-> listing.pages + 1,
                objects |-> listing.objects \cup page,
                total   |-> IF reports /\ Cardinality(page) > listing.total
                            THEN Cardinality(page) ELSE listing.total]
    IN  /\ Listing
        /\ IF cursor THEN AnotherPage(now) ELSE LastPage(now)
        /\ UNCHANGED <<world, run, handle, conns, stream>>

\* estimate_size: a file whose stat fails has none, and so has every store and database.
Estimate(i, statted) ==
    CASE Kind(i) = "platform" -> src[i].size
      [] Kind(i) = "local"    -> IF statted THEN LocalSize ELSE Unsized
      [] OTHER                -> Unsized

Total(statted) == FoldLeft(LAMBDA sum, size : IF size = Unsized THEN sum ELSE sum + size,
                           0, [i \in DOMAIN Names |-> Estimate(i, statted)])

AnySized(statted) == \E i \in DOMAIN Names : Estimate(i, statted) # Unsized

\* enforce_tiers: what is below the warning tier is not compared with the limit; the
\* warning tier only logs.
TooLarge(statted) ==
    /\ AnySized(statted) /\ Total(statted) >= world.warn
    /\ Total(statted) >= Limit /\ ~ load.req.confirm

CanStream == load.req.iter /\ \A i \in DOMAIN Names : Kind(i) = "sql"

NewRun == [pc |-> IF CanStream THEN "priming" ELSE "loading",
           stage |-> [i \in DOMAIN Names |-> "todo"],
           got |-> [i \in DOMAIN Names |-> {}]]

\* _enforce_size, _reject_batch_map_on_stream, then the run or the handle.
EnforceSize(statted) ==
    /\ load.pc = "sizing"
    /\ IF TooLarge(statted) \/ (CanStream /\ load.req.map = "batch")
       THEN Raise /\ UNCHANGED <<run, handle>>
       ELSE IF load.req.lazy
       THEN load' = [load EXCEPT !.pc = "handle"] /\ UNCHANGED <<run, handle>>
       ELSE /\ load' = [load EXCEPT !.pc = "running"]
            /\ run' = [run EXCEPT ![Main] = NewRun]
            /\ handle' = [handle EXCEPT !.runs = 1]
    /\ UNCHANGED <<world, listing, src, conns, stream>>

\* LazyHandle.collect: a collected handle returns its value; two threads may both
\* find it not collected, and both run the thunk.
Collect(t) ==
    /\ load.pc = "handle" /\ run[t].pc = "idle" /\ ~ handle.collected
    /\ stream[t].state = "none" /\ handle.runs < MaxRuns
    /\ run' = [run EXCEPT ![t] = NewRun]
    /\ handle' = [handle EXCEPT !.runs = @ + 1]
    /\ UNCHANGED <<world, load, listing, src, conns, stream>>

\* The run is over: the call returns or raises, or the handle remembers the value.
Conclude(t, ok) ==
    /\ run' = [run EXCEPT ![t].pc = "idle"]
    /\ IF load.req.lazy
       THEN /\ handle' = [handle EXCEPT !.collected = @ \/ ok]
            /\ UNCHANGED load
       ELSE /\ load' = [load EXCEPT !.pc = IF ok THEN "returned" ELSE "raised"]
            /\ UNCHANGED handle

-------------------------------------------------------------------------------
(* Loading into one result: every source is loaded, in a pool if there are several *)

Stage(t, i, from, to) ==
    /\ run[t].pc = "loading" /\ i \in DOMAIN run[t].stage /\ run[t].stage[i] = from
    /\ run' = [run EXCEPT ![t].stage[i] = to]

ReadLocal(t, i) ==
    /\ i \in DOMAIN Names /\ Kind(i) = "local"
    /\ \E to \in {"done", "failed"} : Stage(t, i, "todo", to)
    /\ UNCHANGED <<world, load, listing, src, handle, conns, stream>>

\* An object store: its objects are listed and read one by one.
ReadStore(t, i) ==
    /\ i \in DOMAIN Names /\ Kind(i) = "store"
    /\ \E to \in {"done", "failed"} : Stage(t, i, "todo", to)
    /\ UNCHANGED <<world, load, listing, src, handle, conns, stream>>

\* The driver's _prepare: whatever the platform answers, the bundle must be complete.
CanConnect == \E answer \in SUBSET Fields :
    RequireConnectable(ResolveCredentials(world.uri, world.key, answer, world.local))

\* run_select: connect.
Connect(t, i) ==
    /\ i \in DOMAIN Names /\ Kind(i) = "sql"
    /\ \/ /\ CanConnect
          /\ Stage(t, i, "todo", "open")
          /\ conns' = conns \cup {<<t, i>>}
       \/ Stage(t, i, "todo", "failed") /\ UNCHANGED conns
    /\ UNCHANGED <<world, load, listing, src, handle, stream>>

\* run_select: the query, and the connection is closed whatever comes of it.
Select(t, i) ==
    /\ \E to \in {"done", "failed"} : Stage(t, i, "open", to)
    /\ conns' = conns \ {<<t, i>>}
    /\ UNCHANGED <<world, load, listing, src, handle, stream>>

\* PlatformBucketSource.load: the objects are downloaded into a directory of the run; the
\* URL, the place that the key gives it or the download itself may fail.
Download(t, i, o) ==
    /\ run[t].pc = "loading" /\ i \in DOMAIN Names /\ Kind(i) = "platform"
    /\ run[t].stage[i] = "todo" /\ o \in src[i].objects \ run[t].got[i]
    /\ \/ run' = [run EXCEPT ![t].got[i] = @ \cup {o}]
       \/ run' = [run EXCEPT ![t].stage[i] = "failed"]
    /\ UNCHANGED <<world, load, listing, src, handle, conns, stream>>

ReadBucket(t, i) ==
    /\ run[t].pc = "loading" /\ i \in DOMAIN Names /\ Kind(i) = "platform"
    /\ run[t].stage[i] = "todo" /\ run[t].got[i] = src[i].objects
    /\ \/ /\ LocalLoad(run[t].got[i], RequestForLocal(Match)) # {}
          /\ run' = [run EXCEPT ![t].stage[i] = "done"]
       \/ run' = [run EXCEPT ![t].stage[i] = "failed"]
    /\ UNCHANGED <<world, load, listing, src, handle, conns, stream>>

\* The pool waits for every source; _concat, map= and the adapter may raise.
Convert(t) ==
    /\ run[t].pc = "loading"
    /\ \A i \in DOMAIN Names : run[t].stage[i] \in {"done", "failed"}
    /\ \/ /\ \A i \in DOMAIN Names : run[t].stage[i] = "done"
          /\ Conclude(t, TRUE)
       \/ Conclude(t, FALSE)
    /\ UNCHANGED <<world, listing, src, conns, stream>>

-------------------------------------------------------------------------------
(* Streaming: the first source is queried by the run, the others by the consumer *)

\* The layers over the streams of the sources are generators.
Layered == Len(Names) > 1 \/ load.req.map # "none" \/ load.req.flat

PrimeConnect(t) ==
    /\ run[t].pc = "priming"
    /\ \/ /\ CanConnect
          /\ run' = [run EXCEPT ![t].pc = "primed"]
          /\ conns' = conns \cup {<<t, 1>>}
          /\ UNCHANGED <<load, handle>>
       \/ Conclude(t, FALSE) /\ UNCHANGED conns
    /\ UNCHANGED <<world, listing, src, stream>>

\* Faulty: the batch that was fetched first is not handed on.
OpenedLosing(st, n) ==
    [st EXCEPT !.state = "live", !.sizes = Append(@, n), !.left = IF n > 0 THEN n - 1 ELSE 0]

\* _PrimedStream: the stream of a query whose first batch is there.
Opened(st, n) == [st EXCEPT !.state = "live", !.sizes = Append(@, n), !.left = n]

\* stream_select: a query without rows has closed its connection.
ConnsAfter(t, i, n) == IF n = 0 THEN conns \ {<<t, i>>} ELSE conns

PrimeFetch(t) ==
    /\ run[t].pc = "primed"
    /\ \/ /\ \E n \in 0..MaxBatches :
                /\ stream' = [stream EXCEPT ![t] = Opened([NoStream EXCEPT !.cur = 1], n)]
                /\ conns' = ConnsAfter(t, 1, n)
          /\ Conclude(t, TRUE)
       \/ /\ conns' = conns \ {<<t, 1>>}
          /\ Conclude(t, FALSE)
          /\ UNCHANGED stream
    /\ UNCHANGED <<world, listing, src>>

StreamOnly == UNCHANGED <<world, load, listing, src, run, handle>>

Deliver(t) ==
    LET st == stream[t] IN
    /\ st.state = "live" /\ st.left > 0
    /\ stream' = [stream EXCEPT ![t].started = TRUE, ![t].left = @ - 1,
                     ![t].out = Append(@, <<st.cur, st.sizes[st.cur] - st.left + 1>>)]
    /\ UNCHANGED conns /\ StreamOnly

\* fetchmany raises, or the callable of map= does: every layer closes what it reads.
Break(t) ==
    LET st == stream[t] IN
    /\ st.state = "live"
    /\ st.left < st.sizes[st.cur] \/ (load.req.map = "row" /\ st.left > 0)
    /\ stream' = [stream EXCEPT ![t].state = "broken"]
    /\ conns' = conns \ {<<t, st.cur>>}
    /\ StreamOnly

\* The query has no more rows: its connection is closed, and the next one is due.
Exhaust(t) ==
    LET st == stream[t] IN
    /\ st.state = "live" /\ st.left = 0
    /\ stream' = [stream EXCEPT ![t] = IF st.cur = Len(Names)
                      THEN [st EXCEPT !.state = "ended"]
                      ELSE [st EXCEPT !.state = "switching", !.cur = @ + 1, !.started = TRUE]]
    /\ conns' = conns \ {<<t, st.cur>>}
    /\ StreamOnly

\* _chain_streams: the next source connects...
SwitchConnect(t) ==
    /\ stream[t].state = "switching"
    /\ \/ /\ CanConnect
          /\ stream' = [stream EXCEPT ![t].state = "querying"]
          /\ conns' = conns \cup {<<t, stream[t].cur>>}
       \/ stream' = [stream EXCEPT ![t].state = "broken"] /\ UNCHANGED conns
    /\ StreamOnly

\* ... and fetches its first batch.
SwitchFetch(t) ==
    LET st == stream[t] IN
    /\ st.state = "querying"
    /\ \/ \E n \in 0..MaxBatches : /\ stream' = [stream EXCEPT ![t] = Opened(st, n)]
                                   /\ conns' = ConnsAfter(t, st.cur, n)
       \/ /\ stream' = [stream EXCEPT ![t].state = "broken"]
          /\ conns' = conns \ {<<t, st.cur>>}
    /\ StreamOnly

\* A generator that has not started ignores close().
Reached(t) == IF Layered /\ ~ stream[t].started THEN {} ELSE {<<t, stream[t].cur>>}

\* Faulty: closes the outermost layer only.
CloseOuter(t) ==
    /\ stream[t].state = "live"
    /\ stream' = [stream EXCEPT ![t].state = "closed"]
    /\ conns' = conns \ Reached(t)
    /\ StreamOnly

\* _StreamHandle.close, or the garbage collector: the outermost layer and the first source.
CloseStream(t) ==
    /\ stream[t].state = "live"
    /\ stream' = [stream EXCEPT ![t].state = "closed"]
    /\ conns' = conns \ (Reached(t) \cup {<<t, 1>>})
    /\ StreamOnly

-------------------------------------------------------------------------------
CallStep == \/ Validate \/ Resolve \/ ListingFails
            \/ \E page \in SUBSET (Objects \ listing.objects), reports, cursor \in BOOLEAN :
                   ListPage(page, reports, cursor)
            \/ \E statted \in BOOLEAN : EnforceSize(statted)

RunStep(t) == \/ \E i \in DOMAIN Names : ReadLocal(t, i) \/ ReadStore(t, i) \/ Connect(t, i) \/ Select(t, i)
                                         \/ ReadBucket(t, i) \/ \E o \in Objects : Download(t, i, o)
              \/ Convert(t) \/ PrimeConnect(t) \/ PrimeFetch(t)

Consume(t) == \/ Deliver(t) \/ Break(t) \/ Exhaust(t) \/ SwitchConnect(t) \/ SwitchFetch(t)
              \/ CloseStream(t)

Next == CallStep \/ \E t \in Threads : Collect(t) \/ RunStep(t) \/ Consume(t)

\* Requests, queries and downloads have timeouts, and a call that was begun goes on.
Spec == Init /\ [][Next]_vars /\ WF_vars(CallStep) /\ \A t \in Threads : WF_vars(RunStep(t))

-------------------------------------------------------------------------------
(* Properties *)

\* A connection is open only while its query runs or a consumer may still ask its
\* stream for rows: failing queries, failing callables, an early close() and one before
\* the first row all release it.  A stream has one connection open at a time.
ConnectionsHeld ==
    /\ \A c \in conns :
          LET t == c[1] IN
          \/ run[t].pc = "loading" /\ run[t].stage[c[2]] = "open"
          \/ run[t].pc = "primed" /\ c[2] = 1
          \/ stream[t].state \in {"live", "querying"} /\ c[2] = stream[t].cur
    /\ \A t \in Threads : stream[t].state # "none" => Cardinality({c \in conns : c[1] = t}) <= 1

\* A streaming load yields every batch of every source once and in order, up to where
\* it was closed or broke, and ends only after the last one.
Expected(st) == FlattenSeq([i \in DOMAIN st.sizes |-> [n \in 1..st.sizes[i] |-> <<i, n>>]])
StreamWhole ==
    \A t \in Threads :
        /\ IsPrefix(stream[t].out, Expected(stream[t]))
        /\ stream[t].state = "ended" => /\ stream[t].out = Expected(stream[t])
                                        /\ Len(stream[t].sizes) = Len(Names)

Downloading == \E t \in Threads : \E i \in DOMAIN run[t].got : run[t].got[i] # {}
ToDownload  == Cardinality(UNION {src[i].objects : i \in DOMAIN Names})

\* No byte of a bucket is downloaded unless the objects the load is going to fetch stay
\* below one of the two tiers, or the caller confirmed: however the listing was paged,
\* whatever total the platform reports for a page, and whatever a local filter removes.
TierCoversDownloads ==
    Downloading => load.req.confirm \/ ToDownload < Limit \/ ToDownload < world.warn

\* What the documentation of load_max_bytes says, "ci.load() raises CirronDataSizeError at
\* or above": it does not where load_warn_bytes is the higher one.
RefusedAtLimit == Downloading => load.req.confirm \/ ToDownload < Limit

\* ci.load() returns or raises, although the platform may page for ever.
LoadEnds == load.pc \in {"resolving", "sizing", "running"} ~> load.pc \in {"handle", "returned", "raised"}
===============================================================================
