----------------------------- MODULE ChunkLedger -----------------------------
(***************************************************************************)
(* What the routing system promises about the chunks it reads, without     *)
(* its streams, coroutines, scan slots and cache: a chunk that was read is *)
(* held, and then either leaves once, as part of one log entry made of     *)
(* chunks of one stream, or is discarded; it never comes back.             *)
(***************************************************************************)
EXTENDS Sequences

CONSTANTS
    Chunk,      \* what clients send
    StreamOf,   \* the stream of a chunk
    Lossy       \* whether the environment may make the router discard chunks

VARIABLES
    place,      \* where each chunk is
    log         \* sets of chunks published together, oldest first

Place == {"offered", "held", "published", "discarded"}

Init ==
    /\ place = [c \in Chunk |-> "offered"]
    /\ log = <<>>

Moved(S, p) == [c \in Chunk |-> IF c \in S THEN p ELSE place[c]]
Holds(S, p) == \A c \in S : place[c] = p

Read(c) ==
    /\ Holds({c}, "offered")
    /\ place' = Moved({c}, "held")
    /\ UNCHANGED log

Publish(S) ==
    /\ S # {}
    /\ Holds(S, "held")
    /\ \A c, d \in S : StreamOf[c] = StreamOf[d]
    /\ place' = Moved(S, "published")
    /\ log' = Append(log, S)

Discard(S) ==
    /\ Lossy
    /\ Holds(S, "held")
    /\ place' = Moved(S, "discarded")
    /\ UNCHANGED log

Next ==
    \/ \E c \in Chunk : Read(c)
    \/ \E S \in SUBSET Chunk : Publish(S) \/ Discard(S)

Spec == Init /\ [][Next]_<<place, log>>
=============================================================================
