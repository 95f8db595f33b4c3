--------------------------- MODULE RouterServicer ---------------------------
(***************************************************************************)
(* The orchestration core of the routing system (routing-system/           *)
(* servicer.py): StreamPayload handlers buffer the chunks of captured      *)
(* streams, and a stream is flushed either by a handler whose RPC ended or *)
(* by the reaper that collects idle streams.  The flusher then runs        *)
(* _process_stream: cache lookup, image check, scan slot, analysis, cache  *)
(* store and one event on the Redis stream.                                *)
(*                                                                         *)
(* asyncio interleaves coroutines only at an await, so an action is the    *)
(* code between two awaits and pc names the await a coroutine stands at.   *)
(* Bytes are abstracted to the content class of a chunk, a digest to the   *)
(* sequence of contents, the clock to the set of streams idle for more     *)
(* than five seconds.                                                      *)
(***************************************************************************)
EXTENDS Integers, Sequences, FiniteSets

CONSTANTS
    Conn,           \* connections that call StreamPayload, one RPC at a time
    Stream,         \* stream_id values
    Chunk,          \* chunks the connections send, numbered in sending order
    Content,        \* classes of payload bytes
    ConnOf,         \* the connection that sends a chunk
    StreamOf,       \* chunk.stream_id
    ContentOf,      \* chunk.raw_bytes
    ImageContent,   \* contents that begin with image magic bytes
    ScanLimits,     \* values the SOC setting maxConcurrentScans takes
    DefaultScans,   \* _max_scans at start, 10 in the code
    Faults,         \* what goes wrong in this instance
    Reaper          \* the reaper task

FaultKind == {"limit", "redis", "cancel", "crash", "ml", "evict"}

ASSUME ChunkAssumption ==
    /\ Chunk \subseteq Nat
    /\ ConnOf \in [Chunk -> Conn]
    /\ StreamOf \in [Chunk -> Stream]
    /\ ContentOf \in [Chunk -> Content]
    /\ ImageContent \subseteq Content
ASSUME FlusherAssumption == Reaper \notin Conn /\ IsFiniteSet(Conn)
ASSUME ScanAssumption == ScanLimits \subseteq Nat /\ DefaultScans \in Nat
ASSUME FaultAssumption == Faults \subseteq FaultKind

Flusher == Conn \cup {Reaper}

\* hashlib.sha256 of the joined chunks: equal exactly for equal contents.
Sha(cs) == [i \in DOMAIN cs |-> ContentOf[cs[i]]]
\* _sniff_image looks at the first bytes of the payload only.
SniffImage(cs) == ContentOf[cs[1]] \in ImageContent
Elems(cs) == {cs[i] : i \in DOMAIN cs}

VARIABLES
    pc,             \* the await each flusher stands at
    pending,        \* chunks not yet read by a handler
    hand,           \* the chunk a handler holds while it awaits the limiter
    buffer,         \* _streams: chunks per stream, <<>> for an absent key
    aged,           \* streams of _streams whose last_seen is over 5 s ago
    touched,        \* touched_streams not yet visited by the final loop
    batch,          \* the reaper's to_process
    job,            \* chunks _process_stream works on, <<>> for none
    outcome,        \* the verdict the event of the job will carry
    activeScans,    \* _active_scans
    maxScans,       \* _max_scans
    cached,         \* digests with an entry in the hash cache
    events,         \* entries of the Redis stream, oldest first
    lost,           \* history: chunks an error path discarded
    limited,        \* history: chunks the rate limiter turned away
    accepted,       \* history: chunks the current RPC put into _streams
    scanned         \* history: digests with a finished analysis

intake  == <<pending, hand, touched, accepted, limited>>
buffers == <<buffer, aged, batch>>
scans   == <<activeScans, maxScans>>
stores  == <<cached, events, lost, scanned>>
vars == <<pc, intake, buffers, job, outcome, scans, stores>>

Outcome == {"CACHE_HIT", "NO_IMAGE", "ANALYSED", "ERROR"}
Event == [chunks : Seq(Chunk), verdict : Outcome]

Processing == {"lookup", "slot", "analyze", "store", "publish"}
InHandler == {"recv", "limit", "pick"} \cup Processing
ConnPC == {"idle", "acked", "failed"} \cup InHandler
ReaperPC == {"sleep", "pick"} \cup Processing

NoChunks == [s \in Stream |-> <<>>]

Init ==
    /\ pc = [f \in Flusher |-> IF f = Reaper THEN "sleep" ELSE "idle"]
    /\ pending = Chunk
    /\ hand = [r \in Conn |-> {}]
    /\ buffer = NoChunks
    /\ aged = {}
    /\ touched = [r \in Conn |-> {}]
    /\ batch = NoChunks
    /\ job = [f \in Flusher |-> <<>>]
    /\ outcome = [f \in Flusher |-> "ERROR"]
    /\ activeScans = 0
    /\ maxScans = DefaultScans
    /\ cached = {}
    /\ events = <<>>
    /\ lost = {}
    /\ limited = {}
    /\ accepted = [r \in Conn |-> {}]
    /\ scanned = {}

Goto(f, p) == pc' = [pc EXCEPT ![f] = p]
At(f, p) == pc[f] = p

\* A stream after data['chunks'].append.  Mutant: put in front instead.
Prepended(s, c) == <<c>> \o buffer[s]
Appended(s, c) == Append(buffer[s], c)

\* _streams without the keys S.  Mutants: the deletion is forgotten; every
\* key is deleted.
KeysKept(S) == buffer
KeysCleared(S) == NoChunks
KeysDeleted(S) == [s \in Stream |-> IF s \in S THEN <<>> ELSE buffer[s]]

\* The condition that ends the wait for a slot.
SlotFree == activeScans < maxScans

\* _active_scans once f's coroutine has left the try block, normally or
\* cancelled.  Mutants: no finally; given back though never taken.
NotReleased(f) == activeScans
AlwaysReleased(f) == activeScans - 1
Released(f) == IF At(f, "analyze") THEN activeScans - 1 ELSE activeScans

\* Where the pipeline goes on with a result.  Mutant: errors are cached too.
StoreAlways(verdict) == "store"
AfterAnalysis(verdict) == IF verdict = "ERROR" THEN "publish" ELSE "store"

-----------------------------------------------------------------------------
(* StreamPayload: receiving                                                *)

NextChunk(r, c) ==
    /\ c \in pending
    /\ ConnOf[c] = r
    /\ \A d \in pending : ConnOf[d] = r => c <= d

\* A connection opens its next RPC; touched_streams is a fresh set.
Begin(r) ==
    /\ pc[r] \in {"idle", "acked", "failed"}
    /\ \E c \in pending : ConnOf[c] = r
    /\ Goto(r, "recv")
    /\ touched' = [touched EXCEPT ![r] = {}]
    /\ accepted' = [accepted EXCEPT ![r] = {}]
    /\ UNCHANGED <<pending, hand, limited, buffers, job, outcome, scans,
                   stores>>

\* The request iterator yields a chunk and the handler asks the limiter.
Receive(r) ==
    /\ At(r, "recv")
    /\ \E c \in pending :
        /\ NextChunk(r, c)
        /\ hand' = [hand EXCEPT ![r] = {c}]
        /\ pending' = pending \ {c}
    /\ Goto(r, "limit")
    /\ UNCHANGED <<touched, accepted, limited, buffers, job, outcome, scans,
                   stores>>

\* is_allowed said no: the chunk is skipped.
Reject(r) ==
    /\ "limit" \in Faults
    /\ At(r, "limit")
    /\ limited' = limited \cup hand[r]
    /\ hand' = [hand EXCEPT ![r] = {}]
    /\ Goto(r, "recv")
    /\ UNCHANGED <<pending, touched, accepted, buffers, job, outcome, scans,
                   stores>>

\* is_allowed said yes: register the stream if absent, append, touch.
Accept(r) ==
    /\ At(r, "limit")
    /\ \E c \in hand[r] :
        LET s == StreamOf[c] IN
        /\ buffer' = [buffer EXCEPT ![s] = Appended(s, c)]
        /\ aged' = aged \ {s}
        /\ touched' = [touched EXCEPT ![r] = @ \cup {s}]
        /\ accepted' = [accepted EXCEPT ![r] = @ \cup {c}]
    /\ hand' = [hand EXCEPT ![r] = {}]
    /\ Goto(r, "recv")
    /\ UNCHANGED <<pending, limited, batch, job, outcome, scans, stores>>

\* The limiter's pipeline raises.  The receive loop has no handler for it,
\* so the RPC ends without an ack and without the final loop.
LimiterError(r) ==
    /\ "redis" \in Faults
    /\ At(r, "limit")
    /\ lost' = lost \cup hand[r]
    /\ hand' = [hand EXCEPT ![r] = {}]
    /\ touched' = [touched EXCEPT ![r] = {}]
    /\ Goto(r, "failed")
    /\ UNCHANGED <<pending, accepted, limited, buffers, job, outcome, scans,
                   cached, events, scanned>>

\* The client half-closes: the request iterator is exhausted.
EndOfRequests(r) ==
    /\ At(r, "recv")
    /\ Goto(r, "pick")
    /\ UNCHANGED <<intake, buffers, job, outcome, scans, stores>>

-----------------------------------------------------------------------------
(* StreamPayload: the final loop over touched_streams                      *)

\* The stream is still registered: pop it and start processing.
FlushTouched(r) ==
    /\ At(r, "pick")
    /\ \E s \in touched[r] :
        /\ buffer[s] # <<>>
        /\ job' = [job EXCEPT ![r] = buffer[s]]
        /\ buffer' = KeysDeleted({s})
        /\ aged' = aged \ {s}
        /\ touched' = [touched EXCEPT ![r] = @ \ {s}]
    /\ Goto(r, "lookup")
    /\ UNCHANGED <<pending, hand, accepted, limited, batch, outcome, scans,
                   stores>>

\* Someone else popped it: `if stream_id in self._streams` is false.
SkipFlushed(r) ==
    /\ At(r, "pick")
    /\ \E s \in touched[r] :
        /\ buffer[s] = <<>>
        /\ touched' = [touched EXCEPT ![r] = @ \ {s}]
    /\ UNCHANGED <<pc, pending, hand, accepted, limited, buffers, job, outcome,
                   scans, stores>>

\* The loop is over.  Mutant: it returns after the first stream.
DoneEarly(r) == TRUE
Done(r) == touched[r] = {}

\* return StreamAck(ok=True, ...).
Ack(r) ==
    /\ At(r, "pick")
    /\ Done(r)
    /\ Goto(r, "acked")
    /\ UNCHANGED <<intake, buffers, job, outcome, scans, stores>>

-----------------------------------------------------------------------------
(* The reaper                                                              *)

\* More than five seconds pass without a chunk for s.
Age(s) ==
    /\ buffer[s] # <<>>
    /\ s \notin aged
    /\ aged' = aged \cup {s}
    /\ UNCHANGED <<pc, intake, buffer, batch, job, outcome, scans, stores>>

\* The reaper wakes and moves every idle stream into to_process at once.
ReaperTake ==
    /\ At(Reaper, "sleep")
    /\ aged # {}
    /\ batch' = [s \in Stream |-> IF s \in aged THEN buffer[s] ELSE <<>>]
    /\ buffer' = KeysDeleted(aged)
    /\ aged' = {}
    /\ Goto(Reaper, "pick")
    /\ UNCHANGED <<intake, job, outcome, scans, stores>>

\* The streams of to_process are processed one after the other.
ReaperPick ==
    /\ At(Reaper, "pick")
    /\ \E s \in Stream :
        /\ batch[s] # <<>>
        /\ job' = [job EXCEPT ![Reaper] = batch[s]]
        /\ batch' = [batch EXCEPT ![s] = <<>>]
    /\ Goto(Reaper, "lookup")
    /\ UNCHANGED <<intake, buffer, aged, outcome, scans, stores>>

ReaperSleep ==
    /\ At(Reaper, "pick")
    /\ batch = NoChunks
    /\ Goto(Reaper, "sleep")
    /\ UNCHANGED <<intake, buffers, job, outcome, scans, stores>>

-----------------------------------------------------------------------------
(* _process_stream                                                         *)

\* upsert_endpoint and build_pcap have returned and the digest is cached.
LookupHit(f) ==
    /\ At(f, "lookup")
    /\ Sha(job[f]) \in cached
    /\ outcome' = [outcome EXCEPT ![f] = "CACHE_HIT"]
    /\ Goto(f, "publish")
    /\ UNCHANGED <<intake, buffers, job, scans, stores>>

\* A miss with an image: sniffed from the payload, or carved by tshark, which
\* may succeed on any payload.
MissImage(f) ==
    /\ At(f, "lookup")
    /\ Sha(job[f]) \notin cached
    /\ Goto(f, "slot")
    /\ UNCHANGED <<intake, buffers, job, outcome, scans, stores>>

\* A miss without an image: nothing sniffed and nothing carved.
MissNoImage(f) ==
    /\ At(f, "lookup")
    /\ Sha(job[f]) \notin cached
    /\ ~SniffImage(job[f])
    /\ outcome' = [outcome EXCEPT ![f] = "NO_IMAGE"]
    /\ Goto(f, "publish")
    /\ UNCHANGED <<intake, buffers, job, scans, stores>>

\* The busy-wait on _active_scans ends; no await separates test and increment.
TakeSlot(f) ==
    /\ At(f, "slot")
    /\ SlotFree
    /\ activeScans' = activeScans + 1
    /\ Goto(f, "analyze")
    /\ UNCHANGED <<intake, buffers, job, outcome, maxScans, stores>>

\* The gateway answers with a verdict; the slot is freed.
AnalyzeOK(f) ==
    /\ At(f, "analyze")
    /\ activeScans' = Released(f)
    /\ outcome' = [outcome EXCEPT ![f] = "ANALYSED"]
    /\ scanned' = scanned \cup {Sha(job[f])}
    /\ Goto(f, AfterAnalysis("ANALYSED"))
    /\ UNCHANGED <<intake, buffers, job, maxScans, cached, events, lost>>

\* The gateway is down, slow or fails: a synthetic ERROR, which is not cached.
AnalyzeError(f) ==
    /\ "ml" \in Faults
    /\ At(f, "analyze")
    /\ activeScans' = Released(f)
    /\ outcome' = [outcome EXCEPT ![f] = "ERROR"]
    /\ Goto(f, AfterAnalysis("ERROR"))
    /\ UNCHANGED <<intake, buffers, job, maxScans, stores>>

Store(f) ==
    /\ At(f, "store")
    /\ cached' = cached \cup {Sha(job[f])}
    /\ Goto(f, "publish")
    /\ UNCHANGED <<intake, buffers, job, outcome, scans, events, lost, scanned>>

\* write_event, after which the caller goes on to its next stream.
Publish(f) ==
    /\ At(f, "publish")
    /\ events' = Append(events, [chunks |-> job[f], verdict |-> outcome[f]])
    /\ job' = [job EXCEPT ![f] = <<>>]
    /\ outcome' = [outcome EXCEPT ![f] = "ERROR"]
    /\ Goto(f, "pick")
    /\ UNCHANGED <<intake, buffers, scans, cached, lost, scanned>>

\* cache.lookup, cache.store or write_event raises: the caller logs the error
\* and goes on; the popped stream is gone.  If only the reply was lost, the
\* command had the effect of LookupHit, Store or Publish before this step.
\* Mutant: errors of the gateway are raised as well.
RaisesFromGateway(f) == "ml" \in Faults /\ At(f, "analyze")
Raises(f) == "redis" \in Faults /\ pc[f] \in {"lookup", "store", "publish"}
RedisError(f) ==
    /\ Raises(f)
    /\ lost' = lost \cup Elems(job[f])
    /\ job' = [job EXCEPT ![f] = <<>>]
    /\ outcome' = [outcome EXCEPT ![f] = "ERROR"]
    /\ Goto(f, "pick")
    /\ UNCHANGED <<intake, buffers, scans, cached, events, scanned>>

-----------------------------------------------------------------------------
(* The environment                                                         *)

\* The client goes away and grpc.aio cancels the handler: CancelledError is
\* not an Exception, so what the handler popped is dropped with it, while the
\* finally clause gives back its scan slot.
Cancel(r) ==
    /\ "cancel" \in Faults
    /\ pc[r] \in InHandler
    /\ lost' = lost \cup hand[r] \cup Elems(job[r])
    /\ hand' = [hand EXCEPT ![r] = {}]
    /\ job' = [job EXCEPT ![r] = <<>>]
    /\ outcome' = [outcome EXCEPT ![r] = "ERROR"]
    /\ touched' = [touched EXCEPT ![r] = {}]
    /\ activeScans' = Released(r)
    /\ Goto(r, "failed")
    /\ UNCHANGED <<pending, accepted, limited, buffers, maxScans, cached,
                   events, scanned>>

Held == (UNION {hand[r] : r \in Conn})
            \cup (UNION {Elems(buffer[s]) \cup Elems(batch[s]) : s \in Stream})
            \cup (UNION {Elems(job[f]) : f \in Flusher})

\* The router process dies and is restarted; Redis keeps cache and stream.
Crash ==
    /\ "crash" \in Faults
    /\ lost' = lost \cup Held
    /\ pc' = [f \in Flusher |-> IF f = Reaper THEN "sleep"
                                ELSE IF pc[f] \in InHandler THEN "failed"
                                ELSE pc[f]]
    /\ hand' = [r \in Conn |-> {}]
    /\ touched' = [r \in Conn |-> {}]
    /\ buffer' = NoChunks
    /\ batch' = NoChunks
    /\ aged' = {}
    /\ job' = [f \in Flusher |-> <<>>]
    /\ outcome' = [f \in Flusher |-> "ERROR"]
    /\ activeScans' = 0
    /\ maxScans' = DefaultScans
    /\ UNCHANGED <<pending, accepted, limited, cached, events, scanned>>

\* _settings_sync reads maxConcurrentScans from Redis.
SettingsSync ==
    /\ \E m \in ScanLimits : maxScans' = m
    /\ UNCHANGED <<pc, intake, buffers, job, outcome, activeScans, stores>>

\* Redis expires a cache entry or evicts it for memory.
Evict ==
    /\ "evict" \in Faults
    /\ \E h \in cached : cached' = cached \ {h}
    /\ UNCHANGED <<pc, intake, buffers, job, outcome, scans, events, lost,
                   scanned>>

-----------------------------------------------------------------------------

Handler(r) ==
    \/ Begin(r) \/ Receive(r) \/ Reject(r) \/ Accept(r) \/ LimiterError(r)
    \/ EndOfRequests(r) \/ FlushTouched(r) \/ SkipFlushed(r) \/ Ack(r)

Process(f) ==
    \/ LookupHit(f) \/ MissImage(f) \/ MissNoImage(f) \/ TakeSlot(f)
    \/ AnalyzeOK(f) \/ AnalyzeError(f) \/ Store(f) \/ Publish(f)
    \/ RedisError(f)

ReaperLoop == ReaperTake \/ ReaperPick \/ ReaperSleep

Next ==
    \/ \E r \in Conn : Handler(r) \/ Cancel(r)
    \/ \E f \in Flusher : Process(f)
    \/ \E s \in Stream : Age(s)
    \/ ReaperLoop
    \/ Crash \/ SettingsSync \/ Evict

Spec == Init /\ [][Next]_vars

(***************************************************************************)
(* The event loop runs every ready coroutine; Redis, Postgres and the      *)
(* gateway answer or time out (dispatcher.py: 130 s); time passes.         *)
(* Nothing obliges a client to open, continue or end an RPC.               *)
(***************************************************************************)
Fairness ==
    /\ \A r \in Conn : WF_vars(Accept(r) \/ Reject(r) \/ LimiterError(r))
    /\ \A r \in Conn : WF_vars(FlushTouched(r) \/ SkipFlushed(r) \/ Ack(r))
    /\ \A f \in Flusher : WF_vars(Process(f))
    /\ \A s \in Stream : WF_vars(Age(s))
    /\ WF_vars(ReaperLoop)

FairSpec == Spec /\ Fairness
-----------------------------------------------------------------------------
(* Properties                                                              *)

Published == UNION {Elems(events[i].chunks) : i \in DOMAIN events}
Buffered == UNION {Elems(buffer[s]) : s \in Stream}

\* Type correctness of the servicer's fields and of every coroutine's locals.
TypeOK ==
    /\ pc \in [Flusher -> ConnPC \cup ReaperPC]
    /\ pc[Reaper] \in ReaperPC
    /\ \A r \in Conn : pc[r] \in ConnPC
    /\ pending \subseteq Chunk
    /\ hand \in [Conn -> SUBSET Chunk]
    /\ buffer \in [Stream -> Seq(Chunk)]
    /\ aged \subseteq Stream
    /\ touched \in [Conn -> SUBSET Stream]
    /\ batch \in [Stream -> Seq(Chunk)]
    /\ job \in [Flusher -> Seq(Chunk)]
    /\ outcome \in [Flusher -> Outcome]
    /\ activeScans \in Nat
    /\ maxScans \in Nat
    /\ \A h \in cached \cup scanned : h \in Seq(Content)
    /\ events \in Seq(Event)
    /\ lost \subseteq Chunk
    /\ limited \subseteq Chunk
    /\ accepted \in [Conn -> SUBSET Chunk]

\* However handlers and the reaper race for a stream, no chunk is written to
\* the event queue twice: what one flusher popped, no other one processes.
AtMostOnce ==
    \A i, j \in DOMAIN events :
        \A k \in DOMAIN events[i].chunks, l \in DOMAIN events[j].chunks :
            events[i].chunks[k] = events[j].chunks[l] => i = j /\ k = l

\* A chunk that a handler has read is in memory, in an event, turned away by
\* the limiter or discarded by one of the error paths, never unaccounted for.
NothingVanishes ==
    Chunk = pending \cup Held \cup Published \cup limited \cup lost

\* An event is a run of one stream: its payload, and so its digest, never
\* mixes streams, and it keeps the order in which each connection sent it.
EventsAreStreamOrdered ==
    \A i \in DOMAIN events :
        LET cs == events[i].chunks IN
        /\ cs # <<>>
        /\ \A k, l \in DOMAIN cs :
            /\ StreamOf[cs[k]] = StreamOf[cs[l]]
            /\ k < l /\ ConnOf[cs[k]] = ConnOf[cs[l]] => cs[k] < cs[l]

\* _active_scans counts the coroutines inside dispatcher.analyze, through
\* errors, cancellations and restarts: a leaked slot would stop all scans.
SlotsAccounted == activeScans = Cardinality({f \in Flusher : At(f, "analyze")})

\* Once a handler has acknowledged its RPC, none of the chunks it put into
\* _streams is still waiting there for someone to notice.
AckedNotBuffered ==
    \A r \in Conn : At(r, "acked") => accepted[r] \cap Buffered = {}

\* A payload is reported as CACHE_HIT only if an equal payload was analysed
\* successfully before: an ERROR never becomes a cached clearance.
HitsFollowAnalysis ==
    \A i \in DOMAIN events :
        events[i].verdict = "CACHE_HIT" => Sha(events[i].chunks) \in scanned

\* No chunk stays in the router's memory for ever: it leaves as an event or
\* through an error path and never waits without end for its RPC, for the
\* reaper or for a slot, whatever fails, is cancelled or restarts around it.
HeldIsFlushed == \A c \in Chunk : []<>(c \notin Held)

\* Where the chunks are and what was published, as a client sees them.
Places == [c \in Chunk |-> IF c \in pending THEN "offered"
                          ELSE IF c \in Held THEN "held"
                          ELSE IF c \in Published THEN "published"
                          ELSE "discarded"]
Log == [i \in DOMAIN events |-> Elems(events[i].chunks)]
Lossy == Faults \cap {"limit", "redis", "cancel", "crash"} # {}

Ledger == INSTANCE ChunkLedger WITH place <- Places, log <- Log

\* Seen from its clients the servicer is a ChunkLedger: reading, popping,
\* hand-over between flushers and every failure amount to a chunk leaving
\* memory at most once, in one event with chunks of its own stream only, and
\* it is discarded only where the faults of the instance allow a loss.  With
\* gateway failures and evictions only, none is: ML probes can go offline
\* without dropping traffic (servicer.py:31).
ImplementsLedger == Ledger!Spec

=============================================================================
