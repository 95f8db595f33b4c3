--------------------------- MODULE MCEndpointAgent ---------------------------
(* An instance of EndpointAgent for TLC.                                   *)
EXTENDS EndpointAgent

\* Packets 1 and 2 are the two directions of a connection to a web server
\* that sorts first, packet 3 the answer of one that sorts last.
MCSrc == <<2, 1, 4>>
MCDst == <<1, 2, 3>>
MCWeb == {1, 4}
=============================================================================
