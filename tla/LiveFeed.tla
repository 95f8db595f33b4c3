------------------------------ MODULE LiveFeed ------------------------------
(***************************************************************************)
(* From the table network_events to the analyst's page: one thread of      *)
(* ws_events (server.py) per socket polls the table with a timestamp for a *)
(* cursor, and websocket.ts keeps the page connected.                      *)
(*                                                                         *)
(* A row is a number, its timestamp the producer's and not the time of its *)
(* insertion.  Sockets are numbered in the order the page opens them.      *)
(***************************************************************************)
EXTENDS Integers, Sequences, FiniteSets, SequencesExt

CONSTANTS
    Row,            \* rows that may be inserted
    Ts,             \* their timestamps, from 1 up
    Limit,          \* LIMIT of a poll, 10 in the code
    MaxSockets,     \* bound: sockets the page opens
    MaxMounts,      \* bound: times the page is shown
    MaxBreaks       \* bound: connections that break

ASSUME FeedAssumption ==
    /\ Ts \in [Row -> Nat \ {0}]
    /\ Limit \in Nat \ {0}
    /\ MaxSockets \in Nat /\ MaxMounts \in Nat /\ MaxBreaks \in Nat

Socket == 1..MaxSockets

VARIABLES
    table,      \* rows of network_events
    thread,     \* per socket: where its ws_events thread stands
    cursor,     \* per socket: last_ts, or Unset
    batch,      \* per socket: rows fetched and not sent yet
    pushed,     \* history: rows sent, in order
    start,      \* history: the first value of the cursor
    late,       \* history: rows inserted behind what the thread had fetched
    sock,       \* per socket: its state in the browser
    ws,         \* the variable ws; 0 is null
    opened,     \* sockets opened so far
    timer,      \* whether reconnectTimer is running
    listening,  \* whether a page listens
    mounts,     \* times the page was shown
    breaks      \* connections that broke

feed == <<thread, cursor, batch, pushed, start, late>>
page == <<sock, ws, opened, timer, listening, mounts>>
vars == <<table, feed, page, breaks>>

Unset == -1

Init ==
    /\ table = {}
    /\ thread = [k \in Socket |-> "none"]
    /\ cursor = [k \in Socket |-> Unset]
    /\ batch = [k \in Socket |-> <<>>]
    /\ pushed = [k \in Socket |-> <<>>]
    /\ start = [k \in Socket |-> 0]
    /\ late = [k \in Socket |-> {}]
    /\ sock = [k \in Socket |-> "unused"]
    /\ ws = 0 /\ opened = 0 /\ timer = FALSE
    /\ listening = FALSE /\ mounts = 0 /\ breaks = 0

-----------------------------------------------------------------------------
(* The table and ws_events                                                 *)

\* The newest timestamp the thread has taken note of.
Fetched(k) == IF batch[k] = <<>> THEN cursor[k] ELSE Ts[Last(batch[k])]

\* data-layer commits a row, in any order of timestamps.
Commit(n) ==
    /\ n \notin table
    /\ table' = table \cup {n}
    /\ late' = [k \in Socket |-> IF Ts[n] <= Fetched(k) THEN late[k] \cup {n} ELSE late[k]]
    /\ UNCHANGED <<thread, cursor, batch, pushed, start, page, breaks>>

\* The first poll: the newest timestamp, or "2000-01-01" for an empty table.
Newest == IF table = {} THEN 0 ELSE Ts[CHOOSE n \in table : \A m \in table : Ts[m] <= Ts[n]]

FirstPoll(k) ==
    /\ thread[k] = "poll" /\ cursor[k] = Unset
    /\ cursor' = [cursor EXCEPT ![k] = Newest]
    /\ start' = [start EXCEPT ![k] = Newest]
    /\ UNCHANGED <<table, thread, batch, pushed, late, page, breaks>>

\* Rows the query finds.
Past(k) == {n \in table : Ts[n] > cursor[k]}

\* s is what the query returns: the first Limit rows past the cursor by their
\* timestamps; equal ones come in any order.  Mutant: the newest Limit rows.
IsPageNewest(k, s) ==
    /\ Len(s) = IF Cardinality(Past(k)) < Limit THEN Cardinality(Past(k)) ELSE Limit
    /\ \A i, j \in DOMAIN s : i < j => Ts[s[i]] <= Ts[s[j]]
    /\ \A n \in Past(k) \ ToSet(s), i \in DOMAIN s : Ts[n] <= Ts[s[i]]
IsPage(k, s) ==
    /\ Len(s) = IF Cardinality(Past(k)) < Limit THEN Cardinality(Past(k)) ELSE Limit
    /\ \A i, j \in DOMAIN s : i < j => Ts[s[i]] <= Ts[s[j]]
    /\ \A n \in Past(k) \ ToSet(s), i \in DOMAIN s : Ts[s[i]] <= Ts[n]

Poll(k) ==
    /\ thread[k] = "poll" /\ cursor[k] # Unset
    /\ \E S \in SUBSET Past(k) : \E s \in SetToAllKPermutations(S) :
        /\ s # <<>> /\ IsPage(k, s)
        /\ batch' = [batch EXCEPT ![k] = s]
    /\ thread' = [thread EXCEPT ![k] = "send"]
    /\ UNCHANGED <<table, cursor, pushed, start, late, page, breaks>>

\* The cursor moves, then the row is sent; a socket that is closing may still
\* take it.
Send(k) ==
    /\ thread[k] = "send"
    /\ cursor' = [cursor EXCEPT ![k] = Ts[Head(batch[k])]]
    /\ pushed' = [pushed EXCEPT ![k] = Append(@, Head(batch[k]))]
    /\ batch' = [batch EXCEPT ![k] = Tail(@)]
    /\ thread' = [thread EXCEPT ![k] = IF Len(batch[k]) = 1 THEN "poll" ELSE "send"]
    /\ UNCHANGED <<table, start, late, page, breaks>>

\* ws.send raises: the client is gone and the thread ends.
SendFails(k) ==
    /\ thread[k] = "send"
    /\ sock[k] # "open"
    /\ thread' = [thread EXCEPT ![k] = "ended"]
    /\ batch' = [batch EXCEPT ![k] = <<>>]
    /\ UNCHANGED <<table, cursor, pushed, start, late, page, breaks>>

-----------------------------------------------------------------------------
(* websocket.ts                                                            *)

Alive(k) == sock[k] \in {"connecting", "open"}

\* connect(): nothing while ws is connecting or open, else a new socket.
Connect(states) ==
    IF ws # 0 /\ Alive(ws)
    THEN /\ UNCHANGED <<ws, opened>>
         /\ sock' = states
    ELSE /\ opened < MaxSockets
         /\ opened' = opened + 1
         /\ ws' = opened + 1
         /\ sock' = [states EXCEPT ![opened + 1] = "connecting"]

\* initWebSocket
Mount ==
    /\ ~listening /\ mounts < MaxMounts
    /\ listening' = TRUE
    /\ mounts' = mounts + 1
    /\ Connect(sock)
    /\ UNCHANGED <<table, feed, timer, breaks>>

\* close() of a socket that is connecting fails the connection, with an error
\* event; an open one closes in time.
Closed(states, k) ==
    [states EXCEPT ![k] = CASE @ = "connecting" -> "failed" [] @ = "open" -> "closing"
                            [] OTHER -> @]

\* The last listener leaves: closeWebSocket.
Unmount ==
    /\ listening
    /\ listening' = FALSE
    /\ timer' = FALSE
    /\ sock' = IF ws = 0 THEN sock ELSE Closed(sock, ws)
    /\ ws' = 0
    /\ UNCHANGED <<table, feed, opened, mounts, breaks>>

Open(k) ==
    /\ sock[k] = "connecting"
    /\ sock' = [sock EXCEPT ![k] = "open"]
    /\ thread' = [thread EXCEPT ![k] = "poll"]
    /\ UNCHANGED <<table, cursor, batch, pushed, start, late, ws, opened, timer,
                   listening, mounts, breaks>>

\* The network or the server breaks a connection.
Break(k) ==
    /\ Alive(k)
    /\ breaks < MaxBreaks
    /\ breaks' = breaks + 1
    /\ sock' = [sock EXCEPT ![k] = "failed"]
    /\ UNCHANGED <<table, feed, ws, opened, timer, listening, mounts>>

\* onerror closes whatever socket ws holds now.  Mutant: it reconnects too.
OnErrorReconnects(k) ==
    /\ sock[k] = "failed"
    /\ sock' = LET s == [sock EXCEPT ![k] = "closing"]
               IN IF ws = 0 THEN s ELSE Closed(s, ws)
    /\ timer' = TRUE
    /\ UNCHANGED <<table, feed, ws, opened, listening, mounts, breaks>>
OnError(k) ==
    /\ sock[k] = "failed"
    /\ sock' = LET s == [sock EXCEPT ![k] = "closing"]
               IN IF ws = 0 THEN s ELSE Closed(s, ws)
    /\ UNCHANGED <<table, feed, ws, opened, timer, listening, mounts, breaks>>

\* onclose clears ws, whatever socket it holds now.  Mutant: no reconnection
\* unless ws was this socket.
OnCloseOwn(k) ==
    /\ sock[k] = "closing"
    /\ sock' = [sock EXCEPT ![k] = "closed"]
    /\ ws' = 0
    /\ timer' = (timer \/ (listening /\ ws = k))
    /\ UNCHANGED <<table, feed, opened, listening, mounts, breaks>>
OnClose(k) ==
    /\ sock[k] = "closing"
    /\ sock' = [sock EXCEPT ![k] = "closed"]
    /\ ws' = 0
    /\ timer' = (timer \/ listening)
    /\ UNCHANGED <<table, feed, opened, listening, mounts, breaks>>

\* The three seconds are over.
Reconnect ==
    /\ timer
    /\ timer' = FALSE
    /\ Connect(sock)
    /\ UNCHANGED <<table, feed, listening, mounts, breaks>>

Thread(k) == FirstPoll(k) \/ Poll(k) \/ Send(k) \/ SendFails(k)
Events(k) == Open(k) \/ OnError(k) \/ OnClose(k)

Next ==
    \/ \E n \in Row : Commit(n)
    \/ \E k \in Socket : Thread(k) \/ Events(k) \/ Break(k)
    \/ Mount \/ Unmount \/ Reconnect

Spec == Init /\ [][Next]_vars

\* The browser runs its callbacks and timers, the server accepts sockets, and
\* the threads of the server are scheduled.
FairSpec ==
    /\ Spec
    /\ WF_vars(Reconnect)
    /\ \A k \in Socket : WF_vars(Events(k)) /\ WF_vars(Thread(k))

-----------------------------------------------------------------------------
(* Properties                                                              *)

SocketState == {"unused", "connecting", "open", "failed", "closing", "closed"}

\* Type correctness of the feed's threads and of the page.
TypeOK ==
    /\ table \subseteq Row
    /\ thread \in [Socket -> {"none", "poll", "send", "ended"}]
    /\ cursor \in [Socket -> Int] /\ start \in [Socket -> Nat]
    /\ batch \in [Socket -> Seq(Row)] /\ pushed \in [Socket -> Seq(Row)]
    /\ \A k \in Socket : thread[k] = "send" <=> batch[k] # <<>>
    /\ late \in [Socket -> SUBSET Row]
    /\ sock \in [Socket -> SocketState]
    /\ ws \in 0..opened /\ opened \in 0..MaxSockets
    /\ timer \in BOOLEAN /\ listening \in BOOLEAN
    /\ mounts \in 0..MaxMounts /\ breaks \in 0..MaxBreaks

\* A socket gets rows in the order of their timestamps and none twice, and a
\* row behind the cursor that it did not get is either older than the socket, was
\* inserted too late, or shares its timestamp with a row it got.
SkipsOnlyLateOrTied ==
    /\ TypeOK
    /\ \A k \in Socket :
        /\ \A i, j \in DOMAIN pushed[k] :
            i < j => pushed[k][i] # pushed[k][j] /\ Ts[pushed[k][i]] <= Ts[pushed[k][j]]
        /\ \A n \in table \ ToSet(pushed[k] \o batch[k]) :
            cursor[k] # Unset /\ Ts[n] \in (start[k] + 1)..cursor[k] =>
                n \in late[k] \/ \E m \in ToSet(pushed[k]) : Ts[m] = Ts[n]

Live == {k \in Socket : Alive(k)}

\* A page that was shown once has one socket; only showing it again while
\* the old socket closes adds another, and each time at most one.
ExtraSocketsNeedRemount == Cardinality(Live) <= IF mounts = 0 THEN 0 ELSE mounts

\* A page that listens is connected in the end, through failed connections and
\* stale callbacks (the instance stops opening sockets at MaxSockets).
PageReconnects == listening ~> Live # {} \/ ~listening \/ opened = MaxSockets
=============================================================================
