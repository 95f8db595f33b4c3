----------------------------- MODULE MCHashCache -----------------------------
(* An instance of HashCache for TLC: router tasks, an ingest thread.       *)
EXTENDS HashCache
CONSTANTS r1, r2, i1, h1
=============================================================================
