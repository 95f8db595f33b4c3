-------------------------- MODULE MCRouterServicer --------------------------
(* Instances of RouterServicer for TLC.                                    *)
EXTENDS RouterServicer

CONSTANTS c1, c2, s1, s2, image, other

\* c1 carries both streams, c2 the other direction of stream s1.  Chunks 1
\* and 2 have equal contents, so their streams have equal digests.
MCChunk == 1..3
MCConnOf == <<c1, c1, c2>>
MCStreamOf == <<s1, s2, s1>>
MCContentOf == <<image, image, other>>

\* c1 sends two chunks of one stream, whose order matters, and c2 a stream
\* that has to wait with it for the reaper and for the slot.
LiveStreamOf == <<s1, s1, s2>>
=============================================================================
