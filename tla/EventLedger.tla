----------------------------- MODULE EventLedger -----------------------------
(***************************************************************************)
(* From the Redis stream stegnar:db_queue to the table network_events:     *)
(* producers (queue_writer.py, soc-api) append entries, and the consumer   *)
(* of data-layer/main.py reads them in batches through a consumer group,   *)
(* inserts each one into Postgres and acknowledges it.                     *)
(*                                                                         *)
(* An entry is its number; Redis gives entries increasing identifiers,     *)
(* also in a stream that was deleted and created again.                    *)
(***************************************************************************)
EXTENDS Integers, Sequences, FiniteSets

CONSTANTS
    MaxEvents,      \* bound: entries produced in a behaviour
    MaxRestarts,    \* bound: restarts of the data-layer process
    MaxLen,         \* XADD's MAXLEN, 10000 in the code
    Count,          \* XREADGROUP's COUNT, 50 in the code
    Faults          \* what goes wrong in this instance

FaultKind == {"postgres", "redis", "stop", "evict"}

ASSUME LedgerAssumption ==
    /\ MaxEvents \in Nat /\ MaxRestarts \in Nat
    /\ MaxLen \in Nat /\ Count \in Nat \ {0}
    /\ Faults \subseteq FaultKind

Id == 1..MaxEvents

VARIABLES
    produced,   \* number of entries appended so far
    stream,     \* entries that are in the stream
    group,      \* whether the stream has the consumer group
    delivered,  \* the group's last delivered id
    pel,        \* the group's pending entries: delivered, not acknowledged
    pc,         \* where consume_loop stands
    stopping,   \* stop_event
    batch,      \* messages of the last read that are not finished
    rows,       \* network_events, in insertion order
    restarts,   \* number of restarts so far
    gone,       \* history: entries Redis removed before they were read or acknowledged
    failed,     \* history: messages whose insertion raised
    dropped     \* history: messages delivered to a reader that did not see them

redis == <<produced, stream, group, delivered, pel, gone>>
consumer == <<pc, stopping, batch, restarts>>
ledger == <<rows, failed, dropped>>
vars == <<redis, consumer, ledger>>

\* "create": xgroup_create; "read": xreadgroup; "insert" and "ack": the two
\* awaits of a message; "sleep": after a Redis error; "dead": the consumer
\* task ended with an exception; "stopped": it returned.
ConsumerPC == {"create", "read", "insert", "ack", "sleep", "dead", "stopped"}

Init ==
    /\ produced = 0
    /\ stream = {}
    /\ group = FALSE
    /\ delivered = 0
    /\ pel = {}
    /\ pc = "create"
    /\ stopping = FALSE
    /\ batch = {}
    /\ rows = <<>>
    /\ restarts = 0
    /\ gone = {}
    /\ failed = {}
    /\ dropped = {}

\* What the group has not delivered.
New == {n \in stream : n > delivered}

\* T is the part of S that comes first.
IsPrefix(T, S) == T \subseteq S /\ \A n \in T, m \in S \ T : n < m

\* The message in work: a batch is processed in the order of the stream.
Current == CHOOSE n \in batch : \A m \in batch : n <= m

RowSet == {rows[i] : i \in DOMAIN rows}

-----------------------------------------------------------------------------
(* Producers and Redis                                                     *)

\* XADD with an approximate MAXLEN: Redis may trim the oldest entries, read
\* or not, while at least MaxLen entries remain.
Produce ==
    /\ produced < MaxEvents
    /\ produced' = produced + 1
    /\ \E T \in SUBSET stream :
        /\ IsPrefix(T, stream)
        /\ T # {} => Cardinality(stream \ T) + 1 >= MaxLen
        /\ stream' = (stream \ T) \cup {produced + 1}
        /\ gone' = gone \cup (T \cap New)
    /\ UNCHANGED <<group, delivered, pel, consumer, ledger>>

\* allkeys-lru evicts the stream, and with it the group.
EvictStream ==
    /\ "evict" \in Faults
    /\ group
    /\ stream' = {}
    /\ gone' = gone \cup New \cup pel
    /\ group' = FALSE
    /\ delivered' = 0
    /\ pel' = {}
    /\ UNCHANGED <<produced, consumer, ledger>>

-----------------------------------------------------------------------------
(* consume_loop                                                            *)

\* The position xgroup_create leaves the group at: BUSYGROUP keeps a group
\* that exists, a new one starts at id 0.  Mutant: a new
\* group starts at "$".
PositionAtEnd == IF group THEN delivered ELSE produced
Position == IF group THEN delivered ELSE 0

CreateGroup ==
    /\ pc = "create"
    /\ group' = TRUE
    /\ delivered' = Position
    /\ pc' = "read"
    /\ UNCHANGED <<produced, stream, pel, gone, stopping, batch, restarts, ledger>>

\* Any other error leaves consume_loop; serve does not notice.
CreateFails ==
    /\ "redis" \in Faults
    /\ pc = "create"
    /\ pc' = "dead"
    /\ UNCHANGED <<redis, stopping, batch, restarts, ledger>>

\* XREADGROUP ">" hands out the oldest new entries, Count at most, and makes
\* them pending.
CanRead == pc = "read" /\ ~stopping /\ group
IsBatch(B) ==
    /\ B # {}
    /\ IsPrefix(B, New)
    /\ Cardinality(B) <= Count
    /\ B # New => Cardinality(B) = Count

\* The group's position once B was handed out.  Mutant: by count.
PositionByCount(B) == delivered + Count
PositionAfter(B) == CHOOSE n \in B : \A m \in B : m <= n

Deliver(B) ==
    /\ IsBatch(B)
    /\ delivered' = PositionAfter(B)
    /\ pel' = pel \cup B

Read ==
    /\ CanRead
    /\ \E B \in SUBSET New : Deliver(B) /\ batch' = B
    /\ pc' = "insert"
    /\ UNCHANGED <<produced, stream, group, gone, stopping, restarts, ledger>>

\* A Redis error, or NOGROUP when the stream was evicted: log and sleep.
ReadFails ==
    /\ pc = "read"
    /\ ~stopping
    /\ "redis" \in Faults \/ ~group
    /\ pc' = "sleep"
    /\ UNCHANGED <<redis, stopping, batch, restarts, ledger>>

\* The connection breaks after Redis executed the read: the entries are
\* pending for worker_1, which never saw them.
ReplyLost ==
    /\ "redis" \in Faults
    /\ CanRead
    /\ \E B \in SUBSET New : Deliver(B) /\ dropped' = dropped \cup B
    /\ pc' = "sleep"
    /\ UNCHANGED <<produced, stream, group, gone, stopping, batch, restarts, rows,
                   failed>>

Wake ==
    /\ pc = "sleep"
    /\ pc' = "read"
    /\ UNCHANGED <<redis, stopping, batch, restarts, ledger>>

\* On to the next message of the batch, or back to the loop's condition.
\* Mutant: an error leaves the for loop.
LeaveBatch ==
    /\ batch' = {}
    /\ pc' = "read"
NextMessage ==
    /\ batch' = batch \ {Current}
    /\ pc' = IF batch' = {} THEN "read" ELSE "insert"

\* insert_event commits.
Insert ==
    /\ pc = "insert"
    /\ rows' = Append(rows, Current)
    /\ pc' = "ack"
    /\ UNCHANGED <<redis, stopping, batch, restarts, failed, dropped>>

\* insert_event raises, before or after the row was committed: the error is
\* logged and the message stays pending.  Mutant: it is acknowledged.
InsertFailsAcked ==
    /\ "postgres" \in Faults
    /\ pc = "insert"
    /\ pel' = pel \ {Current}
    /\ failed' = failed \cup {Current}
    /\ NextMessage
    /\ UNCHANGED <<produced, stream, group, delivered, gone, stopping, restarts,
                   rows, dropped>>

InsertFails ==
    /\ "postgres" \in Faults
    /\ pc = "insert"
    /\ rows' \in {rows, Append(rows, Current)}
    /\ failed' = failed \cup {Current}
    /\ NextMessage
    /\ UNCHANGED <<redis, stopping, restarts, dropped>>

\* XACK removes the message from the pending entries.
Ack ==
    /\ pc = "ack"
    /\ pel' = pel \ {Current}
    /\ NextMessage
    /\ UNCHANGED <<produced, stream, group, delivered, gone, stopping, restarts,
                   ledger>>

\* XACK raises, executed or not: the same except clause as the insertion.
\* Mutant: the message is tried again from its insertion.
AckFailsRetried ==
    /\ "redis" \in Faults
    /\ pc = "ack"
    /\ pc' = "insert"
    /\ UNCHANGED <<redis, stopping, batch, restarts, ledger>>

AckFails ==
    /\ "redis" \in Faults
    /\ pc = "ack"
    /\ pel' \in {pel, pel \ {Current}}
    /\ NextMessage
    /\ UNCHANGED <<produced, stream, group, delivered, gone, stopping, restarts,
                   ledger>>

\* SIGTERM sets stop_event; serve waits for the loop to see it.
SignalStop ==
    /\ "stop" \in Faults
    /\ ~stopping
    /\ stopping' = TRUE
    /\ UNCHANGED <<redis, pc, batch, restarts, ledger>>

\* The loop's condition is tested between two batches only.
StopLoop ==
    /\ stopping
    /\ pc = "read"
    /\ pc' = "stopped"
    /\ UNCHANGED <<redis, stopping, batch, restarts, ledger>>

\* The process dies at any await, or ended, and a new one is started.
Restart ==
    /\ restarts < MaxRestarts
    /\ restarts' = restarts + 1
    /\ pc' = "create"
    /\ stopping' = FALSE
    /\ batch' = {}
    /\ dropped' = dropped \cup batch
    /\ UNCHANGED <<redis, rows, failed>>

Consumer ==
    \/ CreateGroup \/ CreateFails \/ Read \/ ReadFails \/ ReplyLost \/ Wake
    \/ Insert \/ InsertFails \/ Ack \/ AckFails \/ StopLoop

Next == Produce \/ EvictStream \/ Consumer \/ SignalStop \/ Restart

Spec == Init /\ [][Next]_vars

\* The event loop runs the consumer task, and a Redis that fails now and
\* then answers now and then.
FairSpec == Spec /\ WF_vars(Consumer) /\ SF_vars(Read)

-----------------------------------------------------------------------------
(* Properties                                                              *)

\* Type correctness of the Redis structures, the loop and the table.
TypeOK ==
    /\ produced \in 0..MaxEvents
    /\ stream \subseteq 1..produced
    /\ group \in BOOLEAN
    /\ delivered \in 0..produced
    /\ pel \subseteq 1..produced
    /\ pc \in ConsumerPC
    /\ stopping \in BOOLEAN
    /\ batch \subseteq 1..produced
    /\ rows \in Seq(1..produced)
    /\ restarts \in 0..MaxRestarts
    /\ gone \subseteq 1..produced
    /\ failed \subseteq 1..produced
    /\ dropped \subseteq 1..produced

\* No event becomes two rows, and rows follow the order of the stream,
\* through failed inserts and acks, restarts and an evicted stream.
RowsInOrderOnce == \A i, j \in DOMAIN rows : i < j => rows[i] < rows[j]

\* A message is acknowledged only once its row is committed: what the group
\* has handed out is a row or still pending.
AckedAreRows == \A n \in 1..delivered : n \in RowSet \cup pel \cup gone

\* Every produced event is still to be read or in work, is a row, or was lost
\* in one of the known ways: removed by Redis, a failed insertion, a
\* reader that died or missed the reply.
EventsAccounted ==
    \A n \in 1..produced :
        n \in New \cup batch \cup RowSet \cup gone \cup failed \cup dropped

\* Every event that is produced is inserted or fails in an insertion of its
\* own, unless Redis removed it, its reader did not see it, or the consumer
\* has ended or runs without its group: one bad message holds nothing up.
EventsAreTried ==
    \A n \in Id :
        n <= produced ~>
            \/ n \in RowSet \cup failed \cup gone \cup dropped
            \/ pc \in {"dead", "stopped"}
            \/ ~group /\ pc # "create"

\* data-layer/main.py:8: events are committed "reliably to Postgres": with a
\* database that fails now and then, every event still becomes a row.
EventsBecomeRows == \A n \in Id : n <= produced ~> n \in RowSet \cup gone
=============================================================================
