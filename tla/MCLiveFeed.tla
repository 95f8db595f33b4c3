------------------------------ MODULE MCLiveFeed ------------------------------
(* An instance of LiveFeed for TLC.                                        *)
EXTENDS LiveFeed

\* Rows 2 and 3 have the same timestamp.
MCRow == 1..3
MCTs == <<1, 2, 2>>
=============================================================================
