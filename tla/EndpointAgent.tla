---------------------------- MODULE EndpointAgent ----------------------------
(***************************************************************************)
(* The endpoint agent and the door of the router: sniffer.py captures      *)
(* packets into a bounded queue, key_extractor.py follows the TLS key log  *)
(* into another, grpc_client.py takes from both in timed RPC cycles, and   *)
(* rate_limiter.py decides at the router about each chunk that arrives.    *)
(* The addon of stegnar-proxy is the same kind of sender, with images for  *)
(* packets, an unbounded queue, no keys, and one RPC without a deadline.   *)
(*                                                                         *)
(* A packet is its number in the order of capture.  The key log is a       *)
(* sequence of units, and every line is written as two of them, so that a  *)
(* reader can meet half a line.                                            *)
(***************************************************************************)
EXTENDS Integers, Sequences, FiniteSets, SequencesExt

CONSTANTS
    MaxPackets,     \* bound: packets captured in a behaviour
    MaxUnits,       \* bound: units written to the key log
    MaxFailures,    \* bound: RPCs that fail, and restarts of the router
    MaxClock,       \* bound: the router's clock
    QueueSize,      \* maxsize of both queues, 1000 in the code
    RateLimit,      \* RATE_LIMIT_RPS
    Window,         \* WINDOW_MS
    Src, Dst,       \* per packet: its two endpoints, in the order of their names
    Web,            \* endpoints whose port is 80 or 443
    Faults          \* what goes wrong in this instance

Packet == 1..MaxPackets
Unit == 1..MaxUnits

ASSUME AgentAssumption ==
    /\ MaxPackets \in Nat /\ MaxUnits \in Nat /\ MaxFailures \in Nat /\ MaxClock \in Nat
    /\ QueueSize \in Nat \ {0} /\ RateLimit \in Nat /\ Window \in Nat
    /\ Src \in [Packet -> Nat] /\ Dst \in [Packet -> Nat] /\ Web \subseteq Nat
    /\ Faults \subseteq {"rpc", "stop", "restart", "evict"}

VARIABLES
    kind,       \* what sends: the agent or the proxy
    captured,   \* packets captured so far
    backlog,    \* call_soon_threadsafe callbacks the loop has not run yet
    pktQueue,   \* pkt_queue
    written,    \* units written to the key log so far
    log,        \* the key log file
    position,   \* how far watch_keylog has read
    held,       \* the line whose queue.put waits for room
    keyQueue,   \* key_queue: a line is a sequence of units
    client,     \* where stream_to_router stands
    stale,      \* generators of failed RPCs that still wait for a packet
    wire,       \* packets sent on the RPC and not received yet
    carried,    \* per packet: the key units its chunk carries
    failures,   \* RPCs that failed and restarts of the router
    clock,      \* the router's milliseconds
    zset,       \* the limiter's sorted set: a member is a millisecond
    received,   \* packets the router has received, in order
    limited,    \* those the limiter refused
    arrival,    \* history: per received packet, when it arrived
    forgotten,  \* history: received packets whose keys a restart has wiped out
    evicted,    \* history: Redis has evicted the sorted set
    keyStore,   \* units in the router's KeyStore
    keysAhead,  \* history: per queued packet, the units queued before it
    dropped,    \* history: packets that met a full queue
    lost,       \* history: packets taken from the queue that never arrived
    unflushed   \* history: packets that waited in the agent when it was stopped

sniffer == <<kind, captured, backlog, dropped>>
watcher == <<written, log, position, held>>
sender == <<client, stale, wire, carried, failures, lost>>
redis == <<zset, evicted>>
router == <<clock, redis, received, limited, arrival, keyStore, forgotten>>
vars == <<sniffer, pktQueue, watcher, keyQueue, sender, router, keysAhead, unflushed>>

Units(lines) == UNION {ToSet(lines[i]) : i \in DOMAIN lines}

Init ==
    /\ kind \in {"agent", "proxy"}
    /\ captured = 0 /\ backlog = <<>> /\ dropped = {}
    /\ pktQueue = <<>> /\ keyQueue = <<>>
    /\ written = 0 /\ log = <<>> /\ position = 0 /\ held = <<>>
    /\ client = "sleep" /\ stale = 0 /\ wire = <<>> /\ failures = 0 /\ lost = {}
    /\ carried = [p \in Packet |-> {}]
    /\ clock = 0 /\ zset = {} /\ received = <<>> /\ limited = {} /\ keyStore = {}
    /\ arrival = [p \in Packet |-> 0]
    /\ forgotten = {} /\ evicted = FALSE /\ unflushed = {}
    /\ keysAhead = [p \in Packet |-> {}]

Running == client # "ended"

-----------------------------------------------------------------------------
(* sniffer.py and the hooks of addon.py                                    *)

\* The capture thread hands a packet to the event loop.
Capture ==
    /\ Running
    /\ kind = "agent"
    /\ captured < MaxPackets
    /\ captured' = captured + 1
    /\ backlog' = Append(backlog, captured + 1)
    /\ UNCHANGED <<kind, dropped, pktQueue, watcher, keyQueue, sender, router,
                   keysAhead, unflushed>>

\* _process_image puts an intercepted image into the queue at once.
Intercept ==
    /\ Running
    /\ kind = "proxy"
    /\ captured < MaxPackets
    /\ captured' = captured + 1
    /\ pktQueue' = Append(pktQueue, captured + 1)
    /\ UNCHANGED <<kind, backlog, dropped, watcher, keyQueue, sender, router,
                   keysAhead, unflushed>>

\* Every unit that has been in key_queue.
QueuedUnits == Units(keyQueue) \cup UNION {carried[p] : p \in Packet}

\* put_nowait: QueueFull is raised inside the loop and the packet is gone.
Enqueue ==
    /\ Running
    /\ backlog # <<>>
    /\ backlog' = Tail(backlog)
    /\ IF Len(pktQueue) < QueueSize
       THEN /\ pktQueue' = Append(pktQueue, Head(backlog))
            /\ keysAhead' = [keysAhead EXCEPT ![Head(backlog)] = QueuedUnits]
            /\ UNCHANGED dropped
       ELSE /\ dropped' = dropped \cup {Head(backlog)}
            /\ UNCHANGED <<pktQueue, keysAhead>>
    /\ UNCHANGED <<kind, captured, watcher, keyQueue, sender, router,
                   unflushed>>

-----------------------------------------------------------------------------
(* key_extractor.py                                                        *)

\* The browser appends half a line; an even unit ends its line.  (What it
\* writes after the agent has ended is of no interest, nor is time then.)
WriteKey ==
    /\ Running
    /\ kind = "agent"
    /\ written < MaxUnits
    /\ written' = written + 1
    /\ log' = Append(log, written + 1)
    /\ UNCHANGED <<position, held, sniffer, pktQueue, keyQueue, sender, router,
                   keysAhead, unflushed>>

EndsLine(i) == log[i] % 2 = 0

\* The next line from the position: up to its end, or the end of the file.
LineEnd ==
    LET ends == {i \in (position + 1)..Len(log) : EndsLine(i)}
    IN IF ends = {} THEN Len(log) ELSE CHOOSE i \in ends : \A j \in ends : i <= j

ReadLine ==
    /\ Running
    /\ held = <<>>
    /\ Len(log) > position
    /\ held' = SubSeq(log, position + 1, LineEnd)
    /\ position' = LineEnd
    /\ UNCHANGED <<written, log, sniffer, pktQueue, keyQueue, sender, router,
                   keysAhead, unflushed>>

\* queue.put waits while the queue is full.
PutLine ==
    /\ Running
    /\ held # <<>>
    /\ Len(keyQueue) < QueueSize
    /\ keyQueue' = Append(keyQueue, held)
    /\ held' = <<>>
    /\ UNCHANGED <<written, log, position, sniffer, pktQueue, sender, router,
                   keysAhead, unflushed>>

-----------------------------------------------------------------------------
(* grpc_client.py                                                          *)

\* What a packet takes along.  Mutant: one get_nowait, no loop.
DrainOne == IF keyQueue = <<>> THEN {} ELSE ToSet(Head(keyQueue))
Drain == Units(keyQueue)

\* The generator gets a packet, drains the key queue and yields the chunk.
TakePacket ==
    /\ client = "open"
    /\ pktQueue # <<>>
    /\ pktQueue' = Tail(pktQueue)
    /\ carried' = [carried EXCEPT ![Head(pktQueue)] = Drain]
    /\ keyQueue' = <<>>
    /\ wire' = Append(wire, Head(pktQueue))
    /\ UNCHANGED <<client, stale, failures, lost, sniffer, watcher, router,
                   keysAhead, unflushed>>

\* The deadline of the cycle passes and the generator returns; the agent
\* waits for the acknowledgement, without a timeout of its own.
CycleEnds ==
    /\ kind = "agent"
    /\ client = "open"
    /\ client' = "closing"
    /\ UNCHANGED <<stale, wire, carried, failures, lost, sniffer, pktQueue,
                   watcher, keyQueue, router, keysAhead, unflushed>>

Ack ==
    /\ client = "closing"
    /\ wire = <<>>
    /\ client' = "sleep"
    /\ UNCHANGED <<stale, wire, carried, failures, lost, sniffer, pktQueue,
                   watcher, keyQueue, router, keysAhead, unflushed>>

\* The RPC ends early and what the router has not received is gone.
LoseWire == lost \cup ToSet(wire)

\* The queue after a failure.  Mutant: what was on the wire is queued again.
Requeued == pktQueue \o wire
AfterFailure == pktQueue

\* The error ends the RPC, and its generator may be left behind, waiting for
\* the queue.
Break ==
    /\ failures < MaxFailures
    /\ failures' = failures + 1
    /\ lost' = LoseWire
    /\ wire' = <<>>
    /\ pktQueue' = AfterFailure
    /\ stale' \in IF client = "open" THEN {stale, stale + 1} ELSE {stale}
    /\ client' = "sleep"
    /\ UNCHANGED <<carried, sniffer, watcher, keyQueue, keysAhead, unflushed>>

RpcFails ==
    /\ "rpc" \in Faults
    /\ client \in {"open", "closing"}
    /\ Break
    /\ UNCHANGED router

\* The router dies and starts again: its KeyStore was in memory, the sorted
\* set of its limiter is in Redis.
RouterRestarts ==
    /\ "restart" \in Faults
    /\ Running
    /\ Break
    /\ keyStore' = {}
    /\ forgotten' = ToSet(received)
    /\ UNCHANGED <<clock, redis, received, limited, arrival>>

\* The next packet goes to a generator whose RPC is over, with all key lines.
StaleTakes ==
    /\ Running
    /\ stale > 0
    /\ pktQueue # <<>>
    /\ stale' = stale - 1
    /\ pktQueue' = Tail(pktQueue)
    /\ carried' = [carried EXCEPT ![Head(pktQueue)] = Drain]
    /\ keyQueue' = <<>>
    /\ lost' = lost \cup {Head(pktQueue)}
    /\ UNCHANGED <<client, wire, failures, sniffer, watcher, router, keysAhead,
                   unflushed>>

\* It reaches its own deadline first; the proxy's has none.
StaleEnds ==
    /\ Running
    /\ kind = "agent"
    /\ stale > 0
    /\ stale' = stale - 1
    /\ UNCHANGED <<client, wire, carried, failures, lost, sniffer, pktQueue,
                   watcher, keyQueue, router, keysAhead, unflushed>>

\* After a pause the next cycle opens its channel.  Mutant: a failed
\* cycle ends the loop.
NextCycleUnlessFailed ==
    /\ client = "sleep"
    /\ failures = 0
    /\ client' = "open"
    /\ UNCHANGED <<stale, wire, carried, failures, lost, sniffer, pktQueue,
                   watcher, keyQueue, router, keysAhead, unflushed>>
NextCycle ==
    /\ client = "sleep"
    /\ client' = "open"
    /\ UNCHANGED <<stale, wire, carried, failures, lost, sniffer, pktQueue,
                   watcher, keyQueue, router, keysAhead, unflushed>>

\* SIGTERM: main cancels every task, the RPC with it, and the process ends with
\* whatever its queues hold, packets and key lines.
Stop ==
    /\ "stop" \in Faults
    /\ Running
    /\ client' = "ended"
    /\ lost' = LoseWire
    /\ wire' = <<>>
    /\ unflushed' = ToSet(pktQueue \o backlog)
    /\ pktQueue' = <<>> /\ backlog' = <<>>
    /\ keyQueue' = <<>> /\ held' = <<>>
    /\ UNCHANGED <<kind, captured, dropped, written, log, position, stale,
                   carried, failures, router, keysAhead>>

-----------------------------------------------------------------------------
(* The router: servicer.py and rate_limiter.py                             *)

\* zremrangebyscore(-inf, now - window) leaves these members.  Mutant: the
\* member at the border stays.
InWindowWide(S) == {m \in S : m >= clock - Window}
InWindow(S) == {m \in S : m > clock - Window}

\* is_allowed: the count is taken before this request is added, and a refused
\* request is added too.
Allowed == Cardinality(InWindow(zset)) < RateLimit

\* A refused chunk is dropped with the keys it carries.
Receive ==
    /\ wire # <<>>
    /\ wire' = Tail(wire)
    /\ received' = Append(received, Head(wire))
    /\ arrival' = [arrival EXCEPT ![Head(wire)] = clock]
    /\ zset' = InWindow(zset) \cup {clock}
    /\ IF Allowed
       THEN keyStore' = keyStore \cup carried[Head(wire)] /\ UNCHANGED limited
       ELSE limited' = limited \cup {Head(wire)} /\ UNCHANGED keyStore
    /\ UNCHANGED <<clock, evicted, forgotten, client, stale, carried, failures,
                   lost, sniffer, pktQueue, watcher, keyQueue, keysAhead,
                   unflushed>>

\* allkeys-lru evicts stegnar:rl:<endpoint>.  (An expiry after ten seconds
\* takes only what has left the window.)
EvictWindow ==
    /\ "evict" \in Faults
    /\ Running
    /\ zset # {}
    /\ zset' = {}
    /\ evicted' = TRUE
    /\ UNCHANGED <<clock, received, limited, arrival, keyStore, forgotten,
                   sniffer, pktQueue, watcher, keyQueue, sender, keysAhead,
                   unflushed>>

Tick ==
    /\ Running
    /\ clock < MaxClock
    /\ clock' = clock + 1
    /\ UNCHANGED <<redis, received, limited, arrival, keyStore, forgotten,
                   sniffer, pktQueue, watcher, keyQueue, sender, keysAhead,
                   unflushed>>

\* The identifier the agent gives a packet's stream; the proxy puts the client
\* first, as the agent does for what a client sends to a web server.  Mutant:
\* it looks at the source port.
StreamIdBySource(p) ==
    IF Src[p] \in Web \/ Src[p] > Dst[p] THEN <<Src[p], Dst[p]>> ELSE <<Dst[p], Src[p]>>
StreamId(p) ==
    IF Dst[p] \in Web \/ Src[p] > Dst[p] THEN <<Src[p], Dst[p]>> ELSE <<Dst[p], Src[p]>>

Next ==
    \/ Capture \/ Intercept \/ Enqueue
    \/ WriteKey \/ ReadLine \/ PutLine
    \/ TakePacket \/ CycleEnds \/ Ack \/ RpcFails \/ StaleTakes \/ StaleEnds
    \/ NextCycle \/ Stop
    \/ Receive \/ EvictWindow \/ RouterRestarts \/ Tick

Spec == Init /\ [][Next]_vars

\* The event loop runs ready callbacks, sleeps and deadlines end, and the
\* router reads and answers.  A fresh deadline is CYCLE_DURATION away, so a
\* cycle that finds a packet takes it: TakePacket is strongly fair.
FairSpec ==
    /\ Spec
    /\ WF_vars(Enqueue) /\ WF_vars(CycleEnds) /\ WF_vars(Receive) /\ WF_vars(Ack)
    /\ WF_vars(NextCycle)
    /\ SF_vars(TakePacket)

-----------------------------------------------------------------------------
(* Properties                                                              *)

\* Type correctness of agent, wire and router.
TypeOK ==
    /\ kind \in {"agent", "proxy"}
    /\ captured \in 0..MaxPackets
    /\ backlog \in Seq(Packet) /\ pktQueue \in Seq(Packet) /\ wire \in Seq(Packet)
    /\ received \in Seq(Packet)
    /\ (kind = "agent" => Len(pktQueue) <= QueueSize) /\ Len(keyQueue) <= QueueSize
    /\ written \in 0..MaxUnits /\ position \in Nat
    /\ log \in Seq(Unit) /\ held \in Seq(Unit) /\ keyQueue \in Seq(Seq(Unit))
    /\ client \in {"open", "closing", "sleep", "ended"}
    /\ failures \in 0..MaxFailures /\ stale \in 0..failures
    /\ carried \in [Packet -> SUBSET Unit] /\ keysAhead \in [Packet -> SUBSET Unit]
    /\ keyStore \subseteq Unit
    /\ clock \in 0..MaxClock /\ zset \subseteq 0..clock
    /\ arrival \in [Packet -> 0..MaxClock]
    /\ limited \subseteq Packet /\ dropped \subseteq Packet /\ lost \subseteq Packet
    /\ unflushed \subseteq Packet /\ forgotten \subseteq Packet /\ evicted \in BOOLEAN

\* Everything between the network card and the router, oldest first.
Pipeline == received \o wire \o pktQueue \o backlog

\* Packets travel in the order of their capture and none twice, whatever is
\* dropped, fails, or is taken by a stale generator.
InOrderOnce ==
    \A i, j \in DOMAIN Pipeline : i < j => Pipeline[i] < Pipeline[j]

\* A captured packet is on its way or arrived, in order and once, or it met a
\* full queue, or it was taken from the queue for an RPC that failed, or it
\* waited in the agent when that was stopped; the causes exclude each other,
\* and nothing is on its way in an agent that has ended.
PacketsAccounted ==
    /\ TypeOK
    /\ InOrderOnce
    /\ 1..captured = ToSet(Pipeline) \cup dropped \cup lost \cup unflushed
    /\ dropped \cap lost = {} /\ unflushed \cap (dropped \cup lost) = {}
    /\ ToSet(Pipeline) \cap (dropped \cup lost \cup unflushed) = {}
    /\ ~Running => Pipeline = received

\* The keys queued before a packet are at the router when the packet is
\* admitted, and stay, unless a chunk that was lost or refused carried them,
\* or one that arrived before the router was last restarted.
KeysTravelAhead ==
    \A p \in ToSet(received) \ limited :
        keysAhead[p] \subseteq keyStore
            \cup UNION {carried[q] : q \in lost \cup limited \cup forgotten}

\* Arrivals before the i-th, admitted or refused, in the window it ends.
Earlier(i) == {k \in 1..(i - 1) : arrival[received[k]] > arrival[received[i]] - Window}
ArrivedApart(S) == \A j, k \in S : arrival[received[j]] = arrival[received[k]] => j = k

\* The documented limit as far as the code keeps it: a packet is refused only
\* if RateLimit packets or more arrived within its window (rate_limiter.py:21,
\* 'chunks per second'), and then it is, if these arrived in different
\* milliseconds and Redis has kept them.  Not each request adds an entry
\* (rate_limiter.py:6): those of one millisecond share one, and a sender of
\* bursts is let through far beyond the limit.
LimitsTheRate ==
    \A i \in DOMAIN received :
        LET over == Cardinality(Earlier(i)) >= RateLimit
        IN /\ received[i] \in limited => over
           /\ over /\ ArrivedApart(Earlier(i)) /\ ~evicted => received[i] \in limited

\* The packets of one connection share a stream identifier, in both
\* directions, unless one endpoint is a web server whose name sorts after
\* the client's; those of different connections never do.
StreamsFollowConnections ==
    \A p, q \in ToSet(received) :
        LET same == {Src[p], Dst[p]} = {Src[q], Dst[q]}
            webLast == \E s \in {Src[p], Dst[p]} \cap Web : \E c \in {Src[p], Dst[p]} : s > c
        IN /\ StreamId(p) = StreamId(q) => same
           /\ same /\ ~webLast => StreamId(p) = StreamId(q)

\* Every captured packet arrives at the router or ends in one of the three ways
\* the code has to lose it.  (A settled packet stays settled, so 'infinitely
\* often' says 'from some time on'.)  The third way contradicts main.py:28, by
\* which a signal 'flushes buffers': what waits in the queues when the tasks are
\* cancelled is never sent.
Settled == ToSet(received) \cup dropped \cup lost \cup unflushed
PacketsSettle == \A p \in Packet : []<>(p <= captured => p \in Settled)
=============================================================================
