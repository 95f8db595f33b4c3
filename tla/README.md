# Stegnar: a TLA+ model of the detection pipeline

Stegnar captures network traffic on endpoints, reassembles it, looks for
images, has them classified by a neural network (CALPA-NET) and shows the
verdicts to analysts.  This directory holds TLA+ modules of the parts of that
pipeline that are hard to test, TLC configurations that check them on small
instances, and proofs that TLAPS checks for all instances.

    endpoint-agent ──┐ gRPC StreamPayload           gRPC AnalyzeImage
                     ├──────────────► routing-system ───────────────► mitm-gateway
    stegnar-proxy ───┘                 │   ▲                            │ one worker
                                       │   │ hash cache, settings      ▼ process per image
                                       ▼   │                        calpa_worker.py
                                 Redis (KV, stream stegnar:db_queue)    ▲  network of
                                       │   ▲                            │  CALPA-NET
                         XREADGROUP    ▼   │ XADD, HSET                 │
                                  data-layer      soc-api ──────────────┘ docker exec
                                       │             ▲  │ /ws/events, REST
                                       ▼             │  ▼
                                  Postgres ◄─────────┘ soc-frontend

Each part of the picture has its module:

    EndpointAgent ── chunks ──► RouterServicer ── events ──► EventLedger ── rows ──► LiveFeed
    (agent, proxy,              implements ChunkLedger       (Redis stream,          (ws_events,
     RateLimiter)                │         │                  data-layer)             websocket.ts)
                       HashCache ┘         └ ScanGateway = Settings + build, slots, gateway, worker
    IngestJobs (soc-api's own way to a verdict)
    CalpaNet = Training + Detect (the scripts that make the network)

## 1. Inventory

For each component: its state, its operations, what is hard about it, and what
it has to get right.  The lines of each hazard are in `PROJECT.json`.

**routing-system, RouterServicer** (`servicer.py`).  State: `_streams` (chunks
per stream with the time of the last one), `_active_scans`, `_max_scans`, and
the locals of its coroutines: one `StreamPayload` handler per RPC, one reaper,
one settings task.  A handler asks the rate limiter about each chunk, buffers
it, and at the end of its RPC pops and processes each stream it touched; the
reaper pops streams that were idle for five seconds and processes them one
after the other; `_process_stream` builds a PCAP, looks the digest up, waits
for a scan slot, calls the gateway, stores the verdict and writes an event.
Hard: handlers of both directions and the reaper race for one stream at every
await; errors and cancellations hit between the pop and the event; the slot
counter has to survive them; cache lookup and store are an analysis apart.
Right means: no chunk is published twice or lost without one of the known
causes, payloads keep stream and order, slots are accounted for, a hit means an
analysis, everything held is flushed in the end.

**routing-system, HashCache and hash_cache** (`cache.py`, `pg_writer.py`, and
the writers in `soc-api/server.py`).  State: a Redis hash per digest with a time
to live, and a Postgres row.  A lookup is HGETALL, EXPIRE, HINCRBY; a store is
HSET, EXPIRE and an upsert, in the opposite order in soc-api.  Hard: other
clients and Redis's own deletions come between any two commands.  Right means:
verdicts come from analyses of that digest, entries expire, lookups change no
verdict.

**routing-system, the rest.**  QueueWriter appends to the Redis stream with an
approximate maximum length.  RateLimiter keeps a sorted set of milliseconds in
one pipeline.  MITMDispatcher turns every gateway failure into an ERROR verdict.
KeyStore collects TLS keys per endpoint, for ever.  PcapBuilder writes capture
and key files, runs tshark in an executor thread and uploads to MinIO; it
swallows its errors.

**mitm-gateway** (`main.py`, `calpa_runner.py`, `calpa_worker.py`).  State: per
call a temporary image file and a worker process; a threshold read from Redis.
Hard: a timeout or a cancellation leaves the process running without its file;
the settings change while a call is open.  Right means: files go, a failure is
never a label, a label follows the threshold the analyst sees.

**data-layer** (`main.py`, `pg_writer.py`).  State: the consumer group's
position and pending entries in Redis, the current batch, the table
`network_events`.  It reads up to 50 new entries, inserts each and acknowledges
it.  Hard: insertion and acknowledgement are separate, messages whose processing
failed stay pending, the process stops or dies anywhere, Redis trims and evicts.
Right means: no event becomes two rows, none is acknowledged without a row,
every loss has a known cause, one bad message holds nothing up.

**soc-api, ingest jobs** (`server.py` 296-945, 1626-1713).  State: the job table
under a lock, temporary files, the worker's container.  An upload starts a
daemon thread that runs workers and then writes job table, event stream, both
caches and audit log.  Hard: jobs run at the same time and meet in the container
and the caches; each step can fail.  Right means: a recorded verdict belongs to
the bytes it is recorded for, a failed job publishes nothing, jobs end and clean up.

**soc-api, live feed** (`server.py` 1717-1750) with
`soc-frontend/src/lib/websocket.ts`.  State: a timestamp cursor per thread of
`ws_events`; the variables `ws` and `reconnectTimer` in the browser.  Hard: rows
arrive with equal or earlier timestamps, callbacks of an old socket run when the
variable holds a new one.  Right means: no row twice, none skipped without a
cause, one socket, and a connection in the end.

**soc-api, settings and retention** (`server.py` 1173-1193, 1755-1808).  State:
`SETTINGS_STATE` in memory, the hash `stegnar:settings` in Redis.  A thread loads
the hash at start or writes the defaults; a POST changes memory, then the hash.
Hard: requests overlap with each other and with the loader, Redis fails or
evicts, a value need not be a number.  Right means: once nobody changes them,
both copies agree, and retention deletes by what the analyst set.

**endpoint-agent, stegnar-proxy.**  State: bounded packet and key queues, the
position in the key log file, a timed RPC cycle; in the proxy an unbounded queue
and one endless RPC.  Hard: what was taken from a queue when the RPC fails, a
generator that outlives its RPC, a full queue, a key log read while it is
written, stream identifiers of two directions.  Right means: packets arrive in
order and once or are lost for a known cause, keys come before their packets.

**CALPA-NET** (`CALPA-NET-master/libs`, `tasks`).  State of a training script:
step counter, weights, selected data set, two FIFO queues that generator threads
fill, sums of the averages, checkpoint files.  State of a detection script: one
configuration file per threshold, written in place.  Hard: training and two
evaluations take turns on queues that run ahead of them; a script dies anywhere
and another starts from what it left; rates are products and quotients that are
rounded in three places.  Right means: an evaluation covers its set once, a
checkpoint holds the steps it is named for, a recorded rate was measured and is
the largest that is good enough.

**deployment, proto.**  Configuration and generated code.  Two settings matter
and are modelled: Redis runs with `allkeys-lru` (docker-compose.yml:10) and
ingest workers share the gateway's container (docker-compose.yml:292).

## 2. Plan

Done, in the order of importance:

1. `RouterServicer` with its abstract specification `ChunkLedger`
2. `HashCache`: the cache below the servicer, command by command
3. `EventLedger`: the queue and the consumer behind the servicer
4. `IngestJobs`: the second producer of verdicts
5. `ScanGateway` with `Settings`: one scan across router, gateway and worker,
   under settings that change
6. `EndpointAgent`: what feeds the router, with the rate limiter at its door
7. `LiveFeed`: what reads the table the ledger fills
8. `CalpaNet` with `Training` and `Detect`: how the network comes to be
9. Proofs of every safety property the runs check: `RouterServicer_proofs` with the
   refinement of `ChunkLedger`, `EventLedger_proofs`, `HashCache_proofs`,
   `IngestJobs_proofs`, `ScanGateway_proofs`, `EndpointAgent_proofs`,
   `LiveFeed_proofs`, `CalpaNet_proofs`

Next:

10. The key store between `EndpointAgent` and the builds of `ScanGateway`.

The modules hold no recursive operator, so all of them can be proved about.

## 3. Modules and code

**RouterServicer.**  asyncio switches coroutines only at an await, so an action
is the code between two awaits, and `pc[f]` is the await coroutine `f` stands
at.  A flusher is a connection's handler or the reaper.  `buffer[s]` is
`_streams[s]['chunks']` (`<<>>` without a key), `aged` the keys whose `last_seen`
is more than five seconds ago, `batch` the reaper's `to_process`, `job[f]` the
popped stream `_process_stream` works on, `touched[r]` what is left of
`touched_streams`.  `"pick"` is the head of a loop over streams and not an
await; stopping there only adds interleavings.  `"lookup"` stands for
`upsert_endpoint`, `build_pcap` and `cache.lookup`, which change nothing here;
`"store"` for `cache.store` (its commands are the subject of `HashCache`).
A digest is the sequence of content classes, so equal payloads and only those
have equal digests; `MissImage` is possible for any payload because tshark may
carve an image from it.  The history variables `lost`, `limited`, `accepted`
and `scanned` are read by properties only.

**ChunkLedger** is what a client may rely on, without streams, coroutines,
slots or cache: a chunk is offered, held, then published once with chunks of
its own stream or discarded, the latter only where the environment is lossy.
`ImplementsLedger` states the refinement: a chunk's place is read off the
variables of `RouterServicer`, the log off its events.

**HashCache.**  Every action is one Redis command or one Postgres statement;
`at[p]` is the next one of client `p`.  `Absent` and a missing field follow
`data.get("verdict", "UNKNOWN")`.  `Delete` is Redis's expiry or eviction,
`Abort` an error, a cancellation or a restart.

**EventLedger.**  An entry of the Redis stream is its number.  `delivered` and
`pel` are the consumer group's position and pending entries; `pc` is the await
of `consume_loop`; `rows` is `network_events` in insertion order.  `Produce`
trims as an approximate MAXLEN may, `EvictStream` takes stream and group.

**IngestJobs.**  `at[j]` is the next step of a job's thread.  `file` and
`payload` are the two files in a container through which a worker gets its
input; with `Ephemeral` each job has a container of its own, otherwise all share
one.  An image is its own digest, `LabelOf` the label the network gives it.
A worker reads its payload file and then its image file in two steps.

**Settings.**  `settings` is `SETTINGS_STATE`, `stored` and `hash` the Redis key.
The thread of `_init_settings` is `loader`, a request is `post[p]`: it changes the
dictionary, builds the mapping, and stores it, in three steps.  `Bad` is a value
`int()` raises at; `Adopted` says how far the loader got before it raised.
`sole` and `apart` record for the properties whether the last change overlapped
with another one, failed, or was undone by an eviction.

**ScanGateway** extends `Settings` by one scan per popped stream.  `builder[s]` is
the thread of `_sync_build` with its temporary `files`, `coro[s]` the coroutine of
`_process_stream` from the build to the verdict, `handler[s]` the gateway's
`AnalyzeImage`, `worker[s]` the process, `image[s]` the handler's file.  The two
timeouts (130 s in the router, 120 s in the gateway) and cancellation may come at
any moment.  Thread and worker go on when nobody waits for them any more.
`RouterServicer` has the buffers around this, `ScanGateway` the processes below.

**EndpointAgent.**  `backlog` is the list of callbacks that the capture thread
left with the event loop, `pktQueue` and `keyQueue` the queues, `log` the key log
file in half lines, `client` the cycle of `stream_to_router`, `stale` the request
generators of failed RPCs that still wait in `queue.get`, `wire` the open RPC.
`zset` is the limiter's sorted set; as members are the milliseconds themselves,
a set of numbers is all it is; Redis may evict it.  A restart of the router breaks
the RPC and empties its key store.  `Stop` cancels the tasks of the agent: what
waits in its queues, or for the loop, ends in `unflushed`.  `lost`, `dropped`,
`unflushed`, `forgotten`, `evicted`, `arrival` and `keysAhead` are read by properties
only.  The proxy is a second value of `kind`: it puts
images into the queue without a bound, has no keys, and never ends its RPC.

**LiveFeed.**  One `ws_events` thread per socket, one `Poll` per query, one `Send`
per row; `cursor` is `last_ts`.  In the page, an action is one callback of
`websocket.ts`, and sockets are numbered as `connect()` opens them, so that `ws`
may hold another one than the callback belongs to.

**Training** is the loop the three `train` functions share, with what they differ in
as operators (`DuePsm`, `DueXuNet`, `DueSRNet`, the first evaluation of
`libs/srnet`), the three test functions, and the generator threads of `queues.py`.
Weights are the number of steps that made them; images of an evaluation set are
numbers in the order of the file list.  `mode` is what the session's
`data_sel` and batch size select.  A `Launch` is a new process: from a
checkpoint or from nothing.

**Detect** is one loop for the four detection functions.  `Measurements` says which
rate is recorded for which number of channels, per method; `Records` is the
comparison of `write_2_config_file`; a file is `"torn"` between `open(…, "w")` and
the end of the write.  `Width` is the number of channels the pruned network gets.

**CalpaNet** lets a person run these scripts one after another, a detection on a
checkpoint that a training has saved.

`MC*` modules give the constants of the instances their values.

## 4. Runs

| run | asks | instance and bounds |
|---|---|---|
| `router_safety` | Is the servicer safe under all faults together, and does it flush what it holds in the end? | 2 connections, 2 streams, 3 chunks; one stream is shared by both connections and two streams have equal payloads; limits 1 and 2; limiter, Redis, cancellation, restart, gateway and eviction faults |
| `router_live` | With gateway failures and evictions only, is everything published, in order and without loss, as `ChunkLedger` says? | the same size, two chunks of one stream from one connection; one slot, so that three flushers compete for it |
| `cache_safety` | What holds of cache and row whatever interleaves? | 2 router tasks, 1 ingest thread, 1 digest, 2 labels |
| `cache_ghost` | Is a hit's verdict one that was stored? (no) | deletions only |
| `ledger_consumer` | What holds of the ledger through failures, stops and restarts? | 4 events, batches of 2, MAXLEN 2, 1 restart |
| `ledger_stuck` | Does every event become a row if Postgres fails now and then? (no) | Postgres failures only |
| `ingest_safety` | Are verdicts, events and files right, and do jobs end? | an image job and a capture of three images, one shared by both, one beyond `PCAP_PLAIN_MAX_IMAGES` |
| `ingest_shared` | The same verdicts with a shared container? (no) | no faults |
| `agent_capture` | What reaches the router, in which order, with which keys and under which stream? | 3 packets, 2 half lines of keys, queues of 2, 1 failed RPC or restart of the router, 3 milliseconds, a limit of 2 in a window of 2; evictions of the limiter, a stop; agent and proxy |
| `live_feed` | Which rows does a page get, over how many sockets, and does it reconnect? | rows with equal and late timestamps, a page of 1 row per poll, 3 sockets, 2 mounts, 1 broken connection |
| `scan_gateway` | Do the settings agree, and what do slots, files, workers and labels owe them? | 2 scans and up to 3 requests in the mixes of `MCWorkload`, 1 restart, hashes of an earlier life, every fault |
| `calpa_net` | What do checkpoints, evaluations and recorded rates mean? | 4 steps, evaluations every 2, sets of 4 and 2 images, 1 crash; 4 slots of up to 6 channels in quarters, 4 files, 3 accuracies, 2 detections |

Why the bounds suffice.  A race in the servicer needs two flushers at one
stream and a third chunk that arrives late or waits behind them; with three
flushers, three chunks and two streams every pair of awaits meets, a flushed
stream is registered again, a batch of the reaper has two streams, and a digest
is hit, missed and evicted.  Cache sequences of different digests do not touch
each other, so one digest is enough; three clients put a command between any
two of another.  Four events give two batches, a batch cut short by trimming and
one that is read after a restart.  Two jobs, one of them with several images,
give every order of their container accesses and cache writes; more jobs repeat
them.  Three packets overfill a queue of two, put one on the wire behind a
failure and one into a left-over generator; three milliseconds let one leave the
window.  Two half lines are one line or two entries of the key queue; a line that
waits for room there is like one that has not been put yet.  One row per poll makes
ties and late rows cross a page; three sockets
are a first, one that replaces it and one that a stale callback opens.  Two scans
compete for one slot, and a `Workload` bounds what happens at once: a
request meets the loader, another request, or an open call.  Four steps hold two
rounds of evaluation and two checkpoints; a validation set of two batches on a
queue of the same size lets the queue run into the next round.  Four parts
instead of twenty keep every rounding: widths that divide and widths that do
not, a rate that leaves no channel, two rates for one width.

Two more bounds are named in `CalpaNet`: detections start from the last
checkpoint, and after one comes only another.  A training of the pruned
network is a training as before in a directory of its own.

Fairness.  `RouterServicer`: the event loop runs ready coroutines, and Redis,
Postgres and the gateway answer or time out (`dispatcher.py` sets 130 s), so
each handler's own steps, the steps of `_process_stream`, the passing of five
seconds and the reaper are weakly fair.  Clients owe nothing: they may leave an
RPC open for ever, and `HeldIsFlushed` then rests on the reaper.  `EventLedger`:
the consumer task is weakly fair, and `Read` strongly, since a Redis that fails
now and then also answers now and then.  `IngestJobs`: threads are scheduled and
docker answers; nothing in the code bounds the worker's time, so this is an
assumption about the worker.  `EndpointAgent`: callbacks, sleeps and deadlines are
weakly fair, and so are the router's receiving and its acknowledgement, which the
agent waits for without a timeout; `TakePacket` is strongly fair, since a cycle
that finds a packet takes it before its deadline.  `LiveFeed`: the browser runs
callbacks and timers, the server accepts sockets.  `ScanGateway`: coroutines run
when they can; of a worker nothing is assumed, as its handler has a timeout.
`CalpaNet` has safety properties only.

`CHECK_DEADLOCK FALSE` appears where the system really may stop: the consumer of
`EventLedger` returns or dies, the jobs of `IngestJobs` come to an end, an agent is
stopped, a page is closed for good, the scans and requests of `ScanGateway` are
finite, and after the last script nobody starts another.  In
`RouterServicer` the settings task never stops.

Every property of a passing run has a mutant in `PROJECT.json`: a small change
of one definition, as a plausible bug would make it, under which the same run
finds that property violated.

### What the violation runs show

* `cache_ghost`: HINCRBY after a deletion re-creates a hash with a counter only.
  It is served as a hit with verdict UNKNOWN, without a time to live, and goes
  into Postgres; the payload is not analysed again (cache.py:4 promises the
  cached verdict).
* `ledger_stuck`: an event whose insertion failed once is never read again, as
  the loop reads only new entries (data-layer/main.py:8 promises to commit
  reliably).
* `ingest_shared`: with the shared container, as deployed, overlapping jobs
  overwrite each other's files, and a wrong verdict is cached for a digest.

### What the properties had to concede

Several properties hold only with an exception that the code makes; the
exception is part of the statement, so that the run also shows it is the only one.

* `AckedNotBuffered` says where acknowledged chunks may be, not that they are
  processed: the final flush skips a stream that the reaper has popped.
* `StreamsFollowConnections` excepts a web server whose name sorts after its
  client's: both directions of such a connection get different identifiers.
* `LimitsTheRate`: the limiter never refuses a packet before `RATE_LIMIT_RPS` have
  arrived in its window, but it need not refuse one after that.  rate_limiter.py:6
  says that each request adds an entry, and :21 that the limit is in chunks per
  second; in the code the requests of one millisecond share an entry, so a window of
  1000 ms counts 1000 at most, and a burst is let through.  An evicted sorted set
  forgets its window.
* `PacketsAccounted` and `PacketsSettle` have a way to lose packets that main.py:28-29
  denies: on a signal the agent is said to flush its buffers, but main.py:124-127
  cancels the tasks, and what waits in the queues is never sent (`unflushed`).
* `KeysTravelAhead`: keys are lost with the chunk that carries them, and with a
  restart of the router, whose key store is in memory.
* `VerdictsFollowThePage` compares with the page only while nobody changes the
  settings, and if the gateway could read them.
* `EventsAreTried` excepts a consumer that is dead, stopped, or without its group.
* `SkipsOnlyLateOrTied`: a row committed behind the cursor, or with the timestamp
  of the last row of a full page, is never pushed.
* `ExtraSocketsNeedRemount`: a page shown again while its old socket closes ends
  up with two, and with every event twice.
* `SettingsAgree` speaks of the time when no thread changes settings, after a
  change that met no other: overlapping POSTs and a restart may leave memory and
  Redis different until the next one.
* `WorkersBelongToCalls`: a timeout frees the slot of a worker that runs on; how
  many such workers there are is not bounded.
* `RatesAreTheLargest` speaks of whole files: a detection that dies between opening
  a file and writing it leaves an empty one.
* `WaitersGetIn` excepts a limit of 0 or less, which `_settings_sync` accepts.

## 5. Proofs

`RouterServicer_proofs` proves, for any finite set of connections and any
streams, chunks, contents and faults, under the assumptions named in
`RouterServicer` (`ChunkAssumption`, `FlusherAssumption`, `ScanAssumption`):

* `TypeCorrect` and `SlotsCorrect`.  Neither invariant is inductive alone:
  that `_active_scans - 1` is a natural number needs the fact that the
  coroutine that returns a slot is one of those counted, so `TypeAndSlots`
  proves both together.  `ScanningFinite` and `SlotHeld` give the facts on
  cardinalities; `HandlerTypes`, `ProcessTypes` and `EnvironmentTypes` go
  through the actions; in `SlotsStep` each action either leaves the set of
  scanning coroutines and the counter alone, or adds one to both, or removes
  one from both, or (a restart) empties both.
* `HitsCorrect`: `HitsFollowAnalysis` from the invariant `HitInv`, which
  follows a verdict through its carriers: a coroutine about to store or to
  publish a hit has an analysed digest, and so has every cache entry.
  `HitFrame` reduces a step to the one coroutine that moves.

The second part of the module is about what happens to chunks: `AtMostOnceCorrect`,
`NothingVanishesCorrect`, `EventsOrdered`, `AcksCorrect`
and the refinement `LedgerImplemented`.  None of the invariants is inductive, and
they need each other; `ChunkInv` is their strengthening:

* `Stand`: a coroutine holds a chunk or a job exactly at the awaits where it owns
  one, so that picking up the next overwrites nothing;
* `Apart` and `Accounted`: every chunk sits in one place (not read, in a hand,
  in the buffer or batch of a stream, in a job, in an event) or was turned away
  or discarded;
* `Runs` and `InOrder`: each of these lists is of one stream without repetition
  and in the order of each connection, since what a handler holds is the last
  chunk its connection sent, and everything unread comes later;
* `Promised`: the stream of a chunk that an RPC accepted stays on the RPC's list
  as long as the chunk is buffered, unless the RPC failed.

The 24 actions come down to eight effects on chunks (`ChunkStep`): none, a drop,
and a move from one place to the next.  `Moves` says what each effect does to
one chunk: it stays, leaves into `lost` or `limited`, or goes to one new place.
From that follow both the preservation of `Apart` and the refinement, in which a
read is `Ledger!Read`, an event `Ledger!Publish`, a drop `Ledger!Discard` of what
disappears, and every hand-over in memory a stutter (`HandedOver`).

`EventLedger_proofs` proves, for any number of events and restarts, any batch
size, stream length and faults, under `LedgerAssumption`: `TypeCorrect`,
`OrderCorrect` (no event twice, rows in the order of the stream), `AcksCorrect`
(what the group handed out is a row, pending, or removed by Redis) and
`AccountCorrect` (no event vanishes unrecorded).  The last three are not
inductive.  `IInv` adds to them that rows are older than the batch in work and
the batch older than what is to be read, but for the one row that awaits its XACK
(`OrderInv`); that a batch exists exactly while its messages are inserted and
acknowledged, and the message being acknowledged is a row (`LoopInv`); and that
what was not handed out is in the stream or was removed (`AccountInv`).
`LeastElement` and `GreatestElement`, by well-founded induction on the naturals,
make `Current` and `PositionAfter` well defined; `DeliverEffect` and
`NextMessageEffect` say what a read and the end of a message do, and each conjunct
of `IInv` has its preservation lemma.

Three theorems beyond the runs say what the counterexample of `EventLedgerStuck`
means in general.  `WorkShrinks`: after any step, what is to be read or in the batch
was so before or has just been appended.  So an event whose insertion raised, or that
its reader did not see, is never tried again (`NoSecondTries`), and if it has no row it
never gets one (`LostForGood`, a temporal theorem: once lost, always lost).  Without
faults and restarts nothing is lost but what Redis trims (`NothingIsLost`).

`HashCache_proofs` proves, for any sets of clients, digests and verdicts, all four
properties of its run: `TypeCorrect`, `VerdictsCorrect`, `ExpiryCorrect` and the
action property `StoresCorrect`.  The invariant follows a verdict from the
analysis through the locals of its client into either copy and out of it again;
an entry without a time to live has a client that is about to set one, or a
deletion or an abort in its past.  `HitsCorrectWithoutDeletion` bounds the finding
of `HashCacheGhost`: where Redis deletes no key, `HitReturnsCachedVerdict` holds, under
any overlap, error and cancellation.

`IngestJobs_proofs` proves the safety properties of its run, for any uploads and
images and any number of jobs at once, under `IngestAssumption`:

* `TypeCorrect`, with `IndexInv`: a thread that works on an image has one, and its
  loop stops at the last image or at `MaxImages`.
* `UploadsCorrect`, from `TempInv`: a directory is orphaned only while its job is on
  its way to an end without an analysis.
* `CachesCorrect` and `EventsCorrect`, under `ASSUME Ephemeral`; `IngestJobsShared`
  shows that they fail in a shared container.  `FileInv` says that between
  `PutImage` and the worker's read the two files of a container are those of the
  one job that uses it, so that a label is that of the thread's image.  `FoundInv`
  says that the labels found are those of the images up to the thread's, hence at
  the push of all images that are analysed; `PushedInv` that a thread that pushed
  an event is past every step that fails a job or pushes another event.

`EndpointAgent_proofs` proves the four safety properties of its run, for any
traffic, queue sizes, limits, evictions and numbers of failures and restarts, under
`AgentAssumption`:

* `PacketsCorrect`: `OrderInv` says that received packets, wire, queue and backlog
  are increasing, each and one after another, so that an operation at the ends of
  two of them keeps the order of all; `PlaceInv` that a captured packet is in one
  of them, dropped, lost, or left behind, the last only in an agent that has ended,
  which holds nothing else.
* `KeysCorrect`: `KeyInv` follows a key line from the queue into the chunk that
  carries it: the keys queued before a packet wait in the queue, or a chunk no
  later than the packet's own has them.  The queue is emptied into one chunk, which
  carried nothing before (`TakeKeys`).
* `LimiterCorrect`: `LimitInv` says that the sorted set, cut to the window, holds
  milliseconds of arrivals in the window and no others, and all of them unless Redis
  has evicted it, although what leaves the window is removed only when the next chunk
  arrives.  By `ImageSize` there are no more of them than arrivals, and as many if no
  two arrived in the same millisecond.
* `StreamsCorrect` needs no invariant but the types.

`ScanGateway_proofs` proves, for any finite set of scans, any requests, restarts
and faults, under `SettingsAssumption` and `ScanAssumption`, the three invariants
of its run.  One inductive invariant carries them (`GatewayInvariant`).  For
`SettingsCorrect`, a statement about changes that met no other, it says of the one
thread that changes settings alone what it holds: a mapping equal to memory, or a
loaded hash equal to Redis, so that the
end of the change makes both copies equal.  For `WorkersCorrect` it ties the
states of coroutine, handler, file and worker of a scan together, and counts
calls against the largest limit so far with the facts of `FiniteSetTheorems`.
For `VerdictsCorrect` it says that the handler answers with a label only after its
worker has given one, that while the threshold that was shown is known, Redis still
holds it, and that a worker's threshold is the one Redis held.

`LiveFeed_proofs` proves both invariants of its run, for any rows and timestamps, any
limit, and any number of sockets, mounts and breaks, under `FeedAssumption`:

* `SkipsCorrect`: `SkipsOnlyLateOrTied`, which is not inductive because it says nothing of
  the rows that are fetched and not sent.  `OrderAt` says that what was sent and what is
  fetched are ranked one after the other, `CursorAt` that the cursor lies between them and
  is the timestamp of a row that was sent, `GapAt` that a row passed by was late or is
  tied with one that was *taken*, that is sent or fetched.  `TableInv` (the table is
  finite and has a newest row) makes the first cursor and the length of a page defined.
* `SocketsCorrect`: `ExtraSocketsNeedRemount`.  By `PageInv` the sockets that may still
  end with an `onclose`, and the timer, are no more than the mounts together: an `onclose`
  gives up a socket for the timer it sets, the timer itself for the socket it opens.
  The bound counts closing sockets too, which the property does not.

`CalpaNet_proofs` proves first, under `TrainingAssumption`, for sets, batches, queues and
intervals of any size, any number of steps and crashes:

* `CheckpointsCorrect`: `ModelsHoldTheirSteps`.  `StepInv` adds that the sum of
  the training average is the remainder of the step counter, which a new process
  keeps because checkpoints are saved at multiples of the averaging interval
  (the lemma `Multiples`), and that each stage has its mode.
* `EvaluationsCorrect`: `EvaluationsCoverTheSet`.  `FeedInv` says that sums and
  queue are consecutive numbers modulo the size of the set and that the generator
  continues them.  It needs that the generator stays even (`EvenRounds`: a pair
  never crosses the end of the list) and that batches fill the set exactly
  (`BatchFits`).  The arithmetic of remainders is derived from division with
  remainder in the first part of the module.

and then, under `DetectAssumption`, for any slots, channels, files, thresholds, parts and
accuracies, any number of detections and crashes:

* `RatesCorrect`: `RatesAreTheLargest`.  `DetectInv` says that every record is of a
  measurement of its slot (`RecordInv`); that after the script has compared the first `a`
  measurements with a file, the file holds the best of them, or a later one that an
  earlier script found and none of them was good enough to replace (`Best`, in
  `ScriptInv`); and that for a complete slot this is so of all (`CompleteInv`).  A
  file may be on a slot's list twice, so `ScriptInv` lets a file be one comparison ahead
  (`Compared`).  `Recorded` and `NotRecorded` are the two outcomes of a comparison.
* `MeasurementFacts`: every slot has a measurement, the n-th is of rate n, and the network
  built for its rate is no narrower than the one measured, whichever way products and
  quotients are rounded.  `DetectAssumption` demands two parts and two channels for
  it (the code has 20 parts and 12 channels or more): with one of either a slot could
  have no measurement.
* `MeasuredRatios`: `Passing` takes the ratios by counting them, and this is what the loops
  of the four functions do, because channels fall as ratios rise.

`Removed` is a recursive function.  That it exists is proved without induction
over data: a least number up to which it had no solution would have a predecessor
that has one, and that can be extended (`RemovedDefined`, by `Counterexample`, which is
well-founded induction on the naturals).

Only model-checked is liveness (`HeldIsFlushed`, `EventsAreTried`, `JobsEnd`,
`PacketsSettle`, `PageReconnects`, `WaitersGetIn`), which is out of the prover's
reach.

## 6. Not modelled

* The contents of PCAPs and artefacts, scores beyond the comparison with the
  threshold, latencies and hit counters, which no property depends on; the
  dashboards and forensics pages (queries, and actions of one statement each);
  deployment and installation scripts; the network itself.  A command of Redis
  whose reply is lost is a command that had its effect followed by the error step,
  and needs no action of its own in `RouterServicer`.
* In the agent: the heartbeat (a POST every 15 s without state), `receiver.py` (a
  demo server that stores nothing), a key log that is truncated or vanishes, and a
  router that accepts an RPC and never answers: the agent would wait for ever,
  which fairness excludes in `PacketsSettle`.
* In the router: `KeyStore` is a set that grows until a restart (in `EndpointAgent`);
  its use in a build is the choice of `WriteKeys`.  The branch of a cache hit, between
  build and slot, is in `RouterServicer` and not in `ScanGateway`.  That soc-api's
  ingest writes the same cache keys (server.py:317-330) is in `HashCache` only.
* Removals that fail: pcap_builder.py:246-254 logs and server.py:834 and 942 ignore
  the error, and the file or directory stays.  `FilesAreTemporary` and
  `UploadsAreRemoved` hold for removals that succeed.
* In the settings: a POST with several keys, which server.py:1182-1184 updates one by
  one (a request of `Settings` has one key), and another thread between two assignments
  of `_init_settings` (server.py:1780-1795; `Adopt` is one step, though it may stop
  half-way); a number that stays a string, because a POST had put something
  else than a number into memory before the loader came to that field.  A cleanup
  with a bad value only raises.
* In the page: the `catch` branch of `connect()`, for a `WebSocket` constructor that
  throws, and a second `initWebSocket` while a listener is registered, whose
  `connect()` returns at once or opens the one socket.
* In CALPA-NET: the networks, the optimizer and the augmentation are arithmetic;
  which channels are removed (greedily or by L1) is left out, only how many stay.
  `test_dataset_and_get_csv` is called by no script.  `TrainingAssumption` excludes
  what the scripts do not check or what would go wrong: equal batch sizes for
  training and evaluation (`disable_training_op` would then select no data set),
  and sets that their batches do not divide.
* Rounding in CALPA-NET that the model keeps but no property forbids: at step
  counts 5, 10, 15 and 20 `detect_xunet.py` measures a network one channel
  narrower than the rate builds, since a product is rounded up; with 12 channels
  the recorded rates lag behind the channels removed.  `RatesAreTheLargest`
  therefore asks that the network that is built is no narrower than the one that
  was measured.
