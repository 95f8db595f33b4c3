---------------------------- MODULE MCScanGateway ----------------------------
(* An instance of ScanGateway for TLC.                                     *)
EXTENDS ScanGateway

CONSTANT bad

\* Requests 1 and 2 race with each other and with a restart; 3 changes the
\* threshold under the scans, 4 stops them.
MCPostKey == <<"days", "scans", "threshold", "scans">>
MCPostValue == <<bad, 2, 90, 0>>
MCDefault == [threshold |-> 70, days |-> 90, scans |-> 1]
\* What Redis holds at the start: a field that is no number.
MCStored == {[threshold |-> 60, days |-> 365, scans |-> 2], [threshold |-> bad, days |-> 365, scans |-> 2]}
MCScore == <<80, 60>>
MCWorkload == {[scans |-> {}, posts |-> {1, 2, 3}, cold |-> TRUE]}
  \cup {[scans |-> {1, 2}, posts |-> {p}, cold |-> FALSE] : p \in {3, 4}}
=============================================================================
