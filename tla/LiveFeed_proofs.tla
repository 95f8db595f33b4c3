---------------------------- MODULE LiveFeed_proofs ----------------------------
(***************************************************************************)
(* Proofs about LiveFeed: what a socket gets and what it skips, and how    *)
(* many sockets a page has, for any rows and timestamps, any limit, and    *)
(* any number of sockets, mounts and broken connections.                   *)
(***************************************************************************)
EXTENDS LiveFeed, FiniteSetTheorems, WellFoundedInduction, TLAPS

-----------------------------------------------------------------------------
(* The invariants                                                          *)

\* Rows in the order of their timestamps, none twice.
Ranked(s) == \A i, j \in DOMAIN s : i < j => s[i] # s[j] /\ Ts[s[i]] <= Ts[s[j]]

\* What a thread has taken from the table.
Taken(k) == ToSet(pushed[k]) \cup ToSet(batch[k])

\* What was sent and what is to be sent are ranked, one after the other.
OrderAt(k) ==
    /\ Ranked(pushed[k]) /\ Ranked(batch[k])
    /\ \A m \in ToSet(pushed[k]), n \in ToSet(batch[k]) : m # n
    /\ Taken(k) \subseteq table

\* The cursor is the timestamp of a row that was sent, or still the first one, and
\* it lies between what was sent and what is to be sent.
CursorAt(k) ==
    /\ cursor[k] = Unset => Taken(k) = {}
    /\ cursor[k] # Unset =>
        /\ cursor[k] \in Nat /\ start[k] <= cursor[k]
        /\ start[k] < cursor[k] => \E m \in ToSet(pushed[k]) : Ts[m] = cursor[k]
        /\ \A m \in ToSet(pushed[k]) : Ts[m] <= cursor[k]
        /\ \A n \in ToSet(batch[k]) : cursor[k] <= Ts[n]

\* A row the thread has passed by was late, or is tied with one it has taken.
GapAt(k) ==
    cursor[k] # Unset =>
        \A n \in table \ Taken(k) :
            start[k] < Ts[n] /\ Ts[n] <= Fetched(k) =>
                n \in late[k] \/ \E m \in Taken(k) : Ts[m] = Ts[n]

\* A socket that the server has not accepted has no thread yet, and the sockets
\* of the future are unused.
StageInv ==
    \A k \in Socket :
        /\ k > opened => sock[k] = "unused"
        /\ sock[k] \in {"unused", "connecting"} => thread[k] = "none"

FeedAt(k) == OrderAt(k) /\ CursorAt(k) /\ GapAt(k)

\* A first poll finds a newest timestamp, and a page of rows has a length.
TableInv ==
    /\ IsFiniteSet(table)
    /\ table # {} => \E n \in table : \A m \in table : Ts[m] <= Ts[n]

FeedInv == TableInv /\ \A k \in Socket : FeedAt(k)

\* Sockets that will still end with an onclose, or may.
Active == {k \in Socket : sock[k] \notin {"unused", "closed"}}

\* An onclose pays for the timer it sets, and the timer for the socket it opens.
PageInv == Cardinality(Active) + (IF timer THEN 1 ELSE 0) <= mounts

-----------------------------------------------------------------------------
(* Sequences of rows                                                       *)

LEMMA Elements ==
    ASSUME NEW s \in Seq(Row)
    PROVE  /\ Len(s) \in Nat /\ DOMAIN s = 1..Len(s)
           /\ ToSet(s) \subseteq Row
           /\ \A n : n \in ToSet(s) <=> \E i \in 1..Len(s) : s[i] = n
           /\ ToSet(s) = {} <=> s = <<>>
<1>1. /\ Len(s) \in Nat /\ DOMAIN s = 1..Len(s)
      /\ \A i \in 1..Len(s) : s[i] \in Row
      /\ Len(s) = 0 <=> s = <<>>
  OBVIOUS
<1>2. \A n : n \in ToSet(s) <=> \E i \in 1..Len(s) : s[i] = n
  BY <1>1 DEF ToSet
<1>3. 1 \in 1..Len(s) <=> Len(s) # 0
  BY <1>1
<1>4. Len(s) = 0 => 1..Len(s) = {}
  BY <1>1
<1> QED  BY <1>1, <1>2, <1>3, <1>4

LEMMA EmptyElements == ToSet(<<>>) = {} /\ <<>> \in Seq(Row) /\ Ranked(<<>>)
  BY DEF ToSet, Ranked

LEMMA AppendElements ==
    ASSUME NEW s \in Seq(Row), NEW n \in Row
    PROVE  /\ Append(s, n) \in Seq(Row)
           /\ ToSet(Append(s, n)) = ToSet(s) \cup {n}
<1>1. /\ Append(s, n) \in Seq(Row) /\ Len(s) \in Nat /\ Len(Append(s, n)) = Len(s) + 1
      /\ \A i \in 1..Len(s) : Append(s, n)[i] = s[i]
      /\ Append(s, n)[Len(s) + 1] = n
  OBVIOUS
<1>2. \A i : i \in 1..Len(s) + 1 <=> i \in 1..Len(s) \/ i = Len(s) + 1
  BY <1>1
<1>3. \A m : m \in ToSet(s) <=> \E i \in 1..Len(s) : s[i] = m
  BY Elements
<1>4. \A m : m \in ToSet(Append(s, n)) <=> \E i \in 1..Len(s) + 1 : Append(s, n)[i] = m
  BY <1>1, Elements
<1>5. ASSUME NEW m PROVE m \in ToSet(Append(s, n)) <=> m \in ToSet(s) \cup {n}
  BY <1>1, <1>2, <1>3, <1>4, Zenon
<1> QED  BY <1>1, <1>5

LEMMA TailElements ==
    ASSUME NEW s \in Seq(Row), s # <<>>
    PROVE  /\ Head(s) \in Row /\ Tail(s) \in Seq(Row)
           /\ Len(s) \in Nat \ {0} /\ Len(Tail(s)) = Len(s) - 1
           /\ \A i \in DOMAIN Tail(s) : i + 1 \in DOMAIN s /\ Tail(s)[i] = s[i + 1]
           /\ Head(s) = s[1] /\ 1 \in DOMAIN s
           /\ ToSet(s) = {Head(s)} \cup ToSet(Tail(s))
<1>1. /\ Head(s) \in Row /\ Tail(s) \in Seq(Row)
      /\ Len(Tail(s)) = Len(s) - 1 /\ Len(s) \in Nat \ {0}
      /\ DOMAIN s = 1..Len(s) /\ DOMAIN Tail(s) = 1..Len(s) - 1
      /\ Head(s) = s[1]
      /\ \A i \in DOMAIN Tail(s) : Tail(s)[i] = s[i + 1]
  OBVIOUS
<1>2. \A i \in DOMAIN Tail(s) : i + 1 \in DOMAIN s
  BY <1>1
<1>3. \A i \in DOMAIN s : i = 1 \/ (i - 1 \in DOMAIN Tail(s) /\ (i - 1) + 1 = i)
  BY <1>1
<1>4. 1 \in DOMAIN s
  BY <1>1
<1>5. ASSUME NEW n PROVE n \in ToSet(s) <=> n = Head(s) \/ n \in ToSet(Tail(s))
  BY <1>1, <1>2, <1>3, <1>4 DEF ToSet
<1> QED  BY <1>1, <1>2, <1>4, <1>5

LEMMA ConcatenationElements ==
    ASSUME NEW s \in Seq(Row), NEW t \in Seq(Row)
    PROVE  ToSet(s \o t) = ToSet(s) \cup ToSet(t)
<1>1. /\ s \o t \in Seq(Row) /\ Len(s) \in Nat /\ Len(t) \in Nat
      /\ DOMAIN s = 1..Len(s) /\ DOMAIN t = 1..Len(t)
      /\ DOMAIN (s \o t) = 1..Len(s) + Len(t)
      /\ \A i \in 1..Len(s) : (s \o t)[i] = s[i]
      /\ \A i \in 1..Len(t) : (s \o t)[Len(s) + i] = t[i]
  OBVIOUS
<1>2. \A i \in 1..Len(s) + Len(t) :
        i \in 1..Len(s) \/ (i - Len(s) \in 1..Len(t) /\ Len(s) + (i - Len(s)) = i)
  BY <1>1
<1>3. /\ \A i \in 1..Len(s) : i \in 1..Len(s) + Len(t)
      /\ \A i \in 1..Len(t) : Len(s) + i \in 1..Len(s) + Len(t)
  BY <1>1
<1>4. ASSUME NEW n PROVE n \in ToSet(s \o t) <=> n \in ToSet(s) \cup ToSet(t)
  BY <1>1, <1>2, <1>3 DEF ToSet
<1> QED  BY <1>4

\* The tail of a ranked sequence is ranked, and its head comes first.
LEMMA RankedTail ==
    ASSUME NEW s \in Seq(Row), s # <<>>, Ranked(s)
    PROVE  /\ Ranked(Tail(s))
           /\ \A n \in ToSet(Tail(s)) : n # Head(s) /\ Ts[Head(s)] <= Ts[n]
<1>1. /\ \A i \in DOMAIN Tail(s) : i + 1 \in DOMAIN s /\ Tail(s)[i] = s[i + 1]
      /\ Head(s) = s[1] /\ 1 \in DOMAIN s /\ Tail(s) \in Seq(Row)
  BY TailElements
<1>2. DOMAIN Tail(s) \subseteq Int /\ \A i \in DOMAIN Tail(s) : i > 0
  BY <1>1, Elements
<1>3. Ranked(Tail(s))
  BY <1>1, <1>2 DEF Ranked
<1>4. \A i \in DOMAIN Tail(s) : 1 < i + 1
  BY <1>2
<1>5. \A i \in DOMAIN Tail(s) : Tail(s)[i] # Head(s) /\ Ts[Head(s)] <= Ts[Tail(s)[i]]
  BY <1>1, <1>4 DEF Ranked
<1> QED  BY <1>3, <1>5 DEF ToSet

\* A row that is new and not earlier than the others can be put at the end.
LEMMA RankedAppend ==
    ASSUME NEW s \in Seq(Row), NEW n \in Row, Ranked(s),
           \A m \in ToSet(s) : m # n /\ Ts[m] <= Ts[n]
    PROVE  Ranked(Append(s, n))
<1>1. /\ Len(s) \in Nat
      /\ DOMAIN s = 1..Len(s) /\ DOMAIN Append(s, n) = 1..Len(s) + 1
      /\ \A i \in 1..Len(s) : Append(s, n)[i] = s[i]
      /\ Append(s, n)[Len(s) + 1] = n
  OBVIOUS
<1>2. \A i \in 1..Len(s) : s[i] # n /\ Ts[s[i]] <= Ts[n]
  BY <1>1 DEF ToSet
<1>3. ASSUME NEW i \in 1..Len(s) + 1, NEW j \in 1..Len(s) + 1, i < j
      PROVE  /\ Append(s, n)[i] # Append(s, n)[j]
             /\ Ts[Append(s, n)[i]] <= Ts[Append(s, n)[j]]
  <2>1. i \in 1..Len(s) /\ (j \in 1..Len(s) \/ j = Len(s) + 1)
    BY <1>1, <1>3
  <2> QED  BY <1>1, <1>2, <1>3, <2>1 DEF Ranked
<1> QED  BY <1>1, <1>3 DEF Ranked

\* The last row of a ranked sequence is the newest.
LEMMA RankedLast ==
    ASSUME NEW s \in Seq(Row), s # <<>>, Ranked(s)
    PROVE  /\ Last(s) \in ToSet(s)
           /\ \A n \in ToSet(s) : Ts[n] <= Ts[Last(s)]
<1>1. /\ Len(s) \in Nat \ {0} /\ DOMAIN s = 1..Len(s) /\ Len(s) \in DOMAIN s
      /\ \A i \in DOMAIN s : s[i] \in Row
  OBVIOUS
<1>2. \A n \in Row : Ts[n] \in Nat
  BY FeedAssumption
<1>3. \A i \in DOMAIN s : i = Len(s) \/ i < Len(s)
  BY <1>1
<1>4. \A i \in DOMAIN s : Ts[s[i]] <= Ts[s[Len(s)]]
  BY <1>1, <1>2, <1>3 DEF Ranked
<1> QED  BY <1>1, <1>4 DEF ToSet, Last

LEMMA LastOfTail ==
    ASSUME NEW s \in Seq(Row), s # <<>>
    PROVE  /\ Tail(s) = <<>> => Last(s) = Head(s)
           /\ Tail(s) # <<>> => Last(s) = Last(Tail(s))
           /\ Tail(s) = <<>> <=> Len(s) = 1
<1>1. /\ Len(s) \in Nat \ {0} /\ Len(Tail(s)) = Len(s) - 1
      /\ Head(s) = s[1] /\ Tail(s) \in Seq(Row)
      /\ \A i \in DOMAIN Tail(s) : Tail(s)[i] = s[i + 1]
  BY TailElements
<1>2. DOMAIN Tail(s) = 1..Len(Tail(s)) /\ (Tail(s) = <<>> <=> Len(Tail(s)) = 0)
  BY <1>1
<1>3. Tail(s) # <<>> => Len(Tail(s)) \in DOMAIN Tail(s) /\ Len(Tail(s)) + 1 = Len(s)
  BY <1>1, <1>2
<1> QED  BY <1>1, <1>2, <1>3 DEF Last

-----------------------------------------------------------------------------
(* Type correctness                                                        *)

LEMMA Stamps == \A n \in Row : Ts[n] \in Nat \ {0}
  BY FeedAssumption

LEMMA NewestTyped ==
    ASSUME table \subseteq Row, TableInv
    PROVE  Newest \in Nat
<1>1. CASE table = {}
  BY <1>1 DEF Newest
<1>2. CASE table # {}
  <2>1. \A n \in table : Ts[n] \in Nat
    BY Stamps
  <2> QED  BY <1>2, <2>1 DEF Newest, TableInv
<1> QED  BY <1>1, <1>2

\* What a poll returns.
LEMMA PageFacts ==
    ASSUME table \subseteq Row, TableInv, NEW k \in Socket,
           NEW S \in SUBSET Past(k), NEW s \in SetToAllKPermutations(S)
    PROVE  /\ s \in Seq(Row)
           /\ ToSet(s) \subseteq Past(k)
           /\ \A i, j \in DOMAIN s : i # j => s[i] # s[j]
<1>1. PICK U \in SUBSET S : s \in SetToSeqs(U)
  BY DEF SetToAllKPermutations
<1>2. U \subseteq table /\ U \subseteq Past(k)
  BY DEF Past
<1>3. Cardinality(U) \in Nat
  BY <1>2, FS_Subset, FS_CardinalityType DEF TableInv
<1>4. /\ s \in [1..Cardinality(U) -> U]
      /\ \A i, j \in 1..Cardinality(U) : i # j => s[i] # s[j]
  BY <1>1 DEF SetToSeqs
<1>5. s \in Seq(Row)
  BY <1>2, <1>3, <1>4
<1>6. ToSet(s) \subseteq U
  BY <1>4 DEF ToSet
<1> QED  BY <1>2, <1>4, <1>5, <1>6

\* A thread sends until nothing is left.
LEMMA SendTypes ==
    ASSUME TypeOK, NEW k \in Socket, Send(k)
    PROVE  /\ batch[k] # <<>> /\ Head(batch[k]) \in Row
           /\ batch' \in [Socket -> Seq(Row)] /\ pushed' \in [Socket -> Seq(Row)]
           /\ cursor' \in [Socket -> Int]
           /\ thread' \in [Socket -> {"none", "poll", "send", "ended"}]
           /\ \A j \in Socket : thread'[j] = "send" <=> batch'[j] # <<>>
<1>1. batch[k] # <<>> /\ batch[k] \in Seq(Row) /\ pushed[k] \in Seq(Row)
  BY DEF TypeOK, Send
<1>2. /\ Head(batch[k]) \in Row /\ Tail(batch[k]) \in Seq(Row)
      /\ Append(pushed[k], Head(batch[k])) \in Seq(Row)
  BY <1>1, TailElements, AppendElements
<1>3. Ts[Head(batch[k])] \in Int
  BY <1>2, Stamps
<1>4. Tail(batch[k]) = <<>> <=> Len(batch[k]) = 1
  BY <1>1, LastOfTail
<1>5. /\ batch' \in [Socket -> Seq(Row)] /\ pushed' \in [Socket -> Seq(Row)]
      /\ cursor' \in [Socket -> Int]
      /\ thread' \in [Socket -> {"none", "poll", "send", "ended"}]
  BY <1>2, <1>3 DEF TypeOK, Send
<1>6. \A j \in Socket : thread'[j] = "send" <=> batch'[j] # <<>>
  BY <1>4 DEF TypeOK, Send
<1> QED  BY <1>1, <1>2, <1>5, <1>6

LEMMA ClosedTypes ==
    ASSUME NEW states \in [Socket -> SocketState], NEW k
    PROVE  /\ Closed(states, k) \in [Socket -> SocketState]
           /\ \A j \in Socket :
                Closed(states, k)[j] \in {"unused", "closed"} <=> states[j] \in {"unused", "closed"}
<1>1. \A j \in Socket :
        Closed(states, k)[j] =
            IF j # k THEN states[j]
            ELSE IF states[j] = "connecting" THEN "failed"
            ELSE IF states[j] = "open" THEN "closing" ELSE states[j]
  BY DEF Closed
<1>2. \A j \in Socket : states[j] \in SocketState
  OBVIOUS
<1>3. \A j \in Socket : Closed(states, k)[j] \in SocketState
  BY <1>1, <1>2 DEF SocketState
<1>4. Closed(states, k) \in [Socket -> SocketState]
  BY <1>3, Zenon DEF Closed
<1> QED  BY <1>1, <1>4

LEMMA ConnectTypes ==
    ASSUME TypeOK, Connect(sock)
    PROVE  /\ sock' \in [Socket -> SocketState]
           /\ ws' \in 0..opened' /\ opened' \in 0..MaxSockets
<1>1. MaxSockets \in Nat /\ opened \in 0..MaxSockets /\ ws \in 0..opened
  BY FeedAssumption DEF TypeOK
<1>2. CASE ws # 0 /\ Alive(ws)
  BY <1>1, <1>2 DEF Connect, TypeOK
<1>3. CASE ~(ws # 0 /\ Alive(ws))
  <2>1. /\ opened < MaxSockets /\ opened' = opened + 1 /\ ws' = opened + 1
        /\ sock' = [sock EXCEPT ![opened + 1] = "connecting"]
    BY <1>3 DEF Connect
  <2>2. opened + 1 \in 0..MaxSockets /\ opened + 1 \in 0..opened + 1
    BY <1>1, <2>1
  <2>3. sock' \in [Socket -> SocketState]
    BY <2>1 DEF TypeOK, SocketState
  <2> QED  BY <2>1, <2>2, <2>3
<1> QED  BY <1>2, <1>3

\* One lemma per group of actions.
LEMMA TableTypes ==
    ASSUME TypeOK, NEW n \in Row, Commit(n)
    PROVE  TypeOK'
<1>1. late' \in [Socket -> SUBSET Row]
  BY DEF TypeOK, Commit
<1> QED  BY <1>1 DEF TypeOK, Commit, page

LEMMA ThreadTypes ==
    ASSUME TypeOK, TableInv, NEW k \in Socket, Thread(k)
    PROVE  TypeOK'
<1>1. CASE FirstPoll(k)
  <2>1. Newest \in Nat
    BY NewestTyped DEF TypeOK
  <2> QED  BY <1>1, <2>1 DEF TypeOK, FirstPoll, page
<1>2. CASE Poll(k)
  <2>1. PICK S \in SUBSET Past(k) : \E s \in SetToAllKPermutations(S) :
            s # <<>> /\ batch' = [batch EXCEPT ![k] = s]
    BY <1>2 DEF Poll
  <2>2. PICK s \in SetToAllKPermutations(S) :
            s # <<>> /\ batch' = [batch EXCEPT ![k] = s]
    BY <2>1
  <2>3. s \in Seq(Row)
    BY PageFacts DEF TypeOK
  <2>4. /\ batch' \in [Socket -> Seq(Row)]
        /\ \A j \in Socket : thread'[j] = "send" <=> batch'[j] # <<>>
        /\ thread' \in [Socket -> {"none", "poll", "send", "ended"}]
    BY <1>2, <2>2, <2>3 DEF TypeOK, Poll
  <2> QED  BY <1>2, <2>4 DEF TypeOK, Poll, page
<1>3. CASE Send(k)
  <2>1. UNCHANGED <<table, start, late, page, breaks>>
    BY <1>3 DEF Send
  <2> QED  BY <1>3, <2>1, SendTypes DEF TypeOK, page
<1>4. CASE SendFails(k)
  <2>1. /\ batch' \in [Socket -> Seq(Row)]
        /\ \A j \in Socket : thread'[j] = "send" <=> batch'[j] # <<>>
        /\ thread' \in [Socket -> {"none", "poll", "send", "ended"}]
    BY <1>4, EmptyElements DEF TypeOK, SendFails
  <2> QED  BY <1>4, <2>1 DEF TypeOK, SendFails, page
<1> QED  BY <1>1, <1>2, <1>3, <1>4 DEF Thread

LEMMA EventTypes ==
    ASSUME TypeOK, StageInv, NEW k \in Socket, Events(k) \/ Break(k)
    PROVE  TypeOK'
<1>1. CASE Open(k)
  <2>1. thread[k] = "none" /\ batch[k] = <<>>
    BY <1>1 DEF TypeOK, StageInv, Open
  <2>2. /\ \A j \in Socket : thread'[j] = "send" <=> batch'[j] # <<>>
        /\ thread' \in [Socket -> {"none", "poll", "send", "ended"}]
    BY <1>1, <2>1 DEF TypeOK, Open
  <2> QED  BY <1>1, <2>2 DEF TypeOK, Open, SocketState
<1>2. CASE OnError(k)
  <2> DEFINE s == [sock EXCEPT ![k] = "closing"]
  <2>1. s \in [Socket -> SocketState]
    BY DEF TypeOK, SocketState
  <2>2. sock' \in [Socket -> SocketState]
    <3> HIDE DEF s
    <3>1. sock' = IF ws = 0 THEN s ELSE Closed(s, ws)
      BY <1>2 DEF OnError, s
    <3> QED  BY <2>1, <3>1, ClosedTypes
  <2> QED  BY <1>2, <2>2 DEF TypeOK, OnError, feed
<1>3. CASE OnClose(k)
  <2>1. 0 \in 0..opened /\ (timer \/ listening) \in BOOLEAN
    BY FeedAssumption DEF TypeOK
  <2> QED  BY <1>3, <2>1 DEF TypeOK, OnClose, SocketState, feed
<1>4. CASE Break(k)
  <2>1. breaks + 1 \in 0..MaxBreaks
    BY <1>4, FeedAssumption DEF TypeOK, Break
  <2> QED  BY <1>4, <2>1 DEF TypeOK, Break, SocketState, feed
<1> QED  BY <1>1, <1>2, <1>3, <1>4 DEF Events

LEMMA PageTypes ==
    ASSUME TypeOK, Mount \/ Unmount \/ Reconnect
    PROVE  TypeOK'
<1>1. CASE Mount
  <2>1. mounts + 1 \in 0..MaxMounts
    BY <1>1, FeedAssumption DEF TypeOK, Mount
  <2>2. UNCHANGED feed /\ Connect(sock)
    BY <1>1 DEF Mount
  <2> QED  BY <1>1, <2>1, <2>2, ConnectTypes DEF TypeOK, Mount, feed
<1>2. CASE Unmount
  <2>1. sock' \in [Socket -> SocketState]
    BY <1>2, ClosedTypes DEF TypeOK, Unmount
  <2>2. 0 \in 0..opened
    BY FeedAssumption DEF TypeOK
  <2> QED  BY <1>2, <2>1, <2>2 DEF TypeOK, Unmount, feed
<1>3. CASE Reconnect
  <2>1. UNCHANGED feed /\ Connect(sock)
    BY <1>3 DEF Reconnect
  <2> QED  BY <1>3, <2>1, ConnectTypes DEF TypeOK, Reconnect, feed
<1> QED  BY <1>1, <1>2, <1>3

LEMMA TypesStep ==
    ASSUME TypeOK, StageInv, TableInv, [Next]_vars
    PROVE  TypeOK'
<1>1. CASE UNCHANGED vars
  BY <1>1 DEF TypeOK, vars, feed, page
<1>2. CASE Next
  BY <1>2, TableTypes, ThreadTypes, EventTypes, PageTypes DEF Next
<1> QED  BY <1>1, <1>2

LEMMA StageStep ==
    ASSUME TypeOK, TypeOK', StageInv, [Next]_vars
    PROVE  StageInv'
<1>0. /\ MaxSockets \in Nat /\ opened \in 0..MaxSockets /\ Socket = 1..MaxSockets
      /\ sock \in [Socket -> SocketState]
  BY FeedAssumption DEF TypeOK, Socket
<1>1. CASE UNCHANGED vars \/ \E n \in Row : Commit(n)
  BY <1>1 DEF StageInv, vars, feed, page, Commit
<1>2. ASSUME NEW k \in Socket, Thread(k)
      PROVE  StageInv'
  <2>1. UNCHANGED page /\ thread[k] # "none"
    BY <1>2 DEF Thread, FirstPoll, Poll, Send, SendFails
  <2>2. \A j \in Socket : j # k => thread'[j] = thread[j]
    BY <1>2 DEF Thread, FirstPoll, Poll, Send, SendFails, TypeOK
  <2> QED  BY <2>1, <2>2 DEF StageInv, page
<1>3. ASSUME NEW k \in Socket, Open(k)
      PROVE  StageInv'
  BY <1>3 DEF StageInv, Open, TypeOK
<1>4. ASSUME NEW k \in Socket, OnError(k)
      PROVE  StageInv'
  <2> DEFINE s == [sock EXCEPT ![k] = "closing"]
  <2>1. s \in [Socket -> SocketState]
    BY <1>0 DEF SocketState
  <2>2. \A j \in Socket :
            /\ s[j] = "unused" <=> sock[j] = "unused"
            /\ s[j] \in {"unused", "connecting"} => sock[j] = s[j]
    BY <1>0, <1>4 DEF OnError
  <2>3. \A j \in Socket :
            /\ sock[j] = "unused" => sock'[j] = "unused"
            /\ sock'[j] \in {"unused", "connecting"} => sock[j] = sock'[j]
    <3> HIDE DEF s
    <3>1. sock' = IF ws = 0 THEN s ELSE Closed(s, ws)
      BY <1>4 DEF OnError, s
    <3> QED  BY <2>1, <2>2, <3>1 DEF Closed
  <2> QED  BY <1>4, <2>3 DEF StageInv, OnError, feed
<1>5. ASSUME NEW k \in Socket, OnClose(k) \/ Break(k)
      PROVE  StageInv'
  <2>1. k <= opened
    BY <1>0, <1>5 DEF StageInv, OnClose, Break, Alive
  <2>2. /\ UNCHANGED <<thread, opened>>
        /\ sock' = [sock EXCEPT ![k] = "closed"] \/ sock' = [sock EXCEPT ![k] = "failed"]
    BY <1>5 DEF OnClose, Break, feed
  <2> QED  BY <1>0, <2>1, <2>2 DEF StageInv
<1>6. CASE Mount \/ Reconnect
  <2>1. UNCHANGED feed /\ Connect(sock)
    BY <1>6 DEF Mount, Reconnect
  <2>2. CASE opened' = opened /\ sock' = sock
    BY <2>1, <2>2 DEF StageInv, feed
  <2>3. CASE opened < MaxSockets /\ opened' = opened + 1
                /\ sock' = [sock EXCEPT ![opened + 1] = "connecting"]
    <3>1. opened + 1 \in Socket /\ thread[opened + 1] = "none"
      BY <1>0, <2>3 DEF StageInv
    <3> QED  BY <1>0, <2>1, <2>3, <3>1 DEF StageInv, feed
  <2> QED  BY <2>1, <2>2, <2>3 DEF Connect
<1>7. CASE Unmount
  <2>1. \A j \in Socket :
            /\ sock[j] = "unused" => sock'[j] = "unused"
            /\ sock'[j] \in {"unused", "connecting"} => sock[j] = sock'[j]
    BY <1>0, <1>7 DEF Unmount, Closed
  <2> QED  BY <1>7, <2>1 DEF StageInv, Unmount, feed
<1> QED
  BY <1>1, <1>2, <1>3, <1>4, <1>5, <1>6, <1>7 DEF Next, Events

-----------------------------------------------------------------------------
(* What a socket gets                                                      *)

LEMMA Feed ==
    ASSUME TypeOK, NEW k \in Socket
    PROVE  /\ pushed[k] \in Seq(Row) /\ batch[k] \in Seq(Row)
           /\ cursor[k] \in Int /\ start[k] \in Nat /\ late[k] \subseteq Row
           /\ ToSet(pushed[k]) \subseteq Row /\ ToSet(batch[k]) \subseteq Row
           /\ table \subseteq Row
           /\ thread[k] # "send" => batch[k] = <<>> /\ ToSet(batch[k]) = {}
<1>1. pushed[k] \in Seq(Row) /\ batch[k] \in Seq(Row)
  BY DEF TypeOK
<1> QED  BY <1>1, Elements, EmptyElements DEF TypeOK

\* What the thread has noted is past the cursor and covers what it fetched.
LEMMA FetchedCovers ==
    ASSUME TypeOK, NEW k \in Socket, FeedAt(k), cursor[k] # Unset
    PROVE  /\ Fetched(k) \in Nat /\ cursor[k] <= Fetched(k)
           /\ \A n \in ToSet(batch[k]) : Ts[n] <= Fetched(k)
<1>1. cursor[k] \in Nat /\ batch[k] \in Seq(Row) /\ Ranked(batch[k])
  BY Feed DEF FeedAt, CursorAt, OrderAt
<1>2. CASE batch[k] = <<>>
  BY <1>1, <1>2, EmptyElements DEF Fetched
<1>3. CASE batch[k] # <<>>
  <2>1. /\ Last(batch[k]) \in ToSet(batch[k])
        /\ \A n \in ToSet(batch[k]) : Ts[n] <= Ts[Last(batch[k])]
    BY <1>1, <1>3, RankedLast
  <2>2. Fetched(k) = Ts[Last(batch[k])]
    BY <1>3 DEF Fetched
  <2>3. Ts[Last(batch[k])] \in Nat /\ cursor[k] <= Ts[Last(batch[k])]
    BY <2>1, Feed, Stamps DEF FeedAt, CursorAt
  <2> QED  BY <2>1, <2>2, <2>3
<1> QED  BY <1>2, <1>3

\* A row behind the cursor that was not sent was late or is tied with a row that was.
LEMMA BehindCursor ==
    ASSUME TypeOK, NEW k \in Socket, FeedAt(k), cursor[k] # Unset,
           NEW n \in table \ ToSet(pushed[k]), start[k] < Ts[n], Ts[n] <= cursor[k]
    PROVE  n \in late[k] \/ \E m \in ToSet(pushed[k]) : Ts[m] = Ts[n]
<1>0. /\ Ts[n] \in Nat /\ start[k] \in Nat /\ cursor[k] \in Nat
      /\ \A m \in ToSet(batch[k]) : Ts[m] \in Nat /\ cursor[k] <= Ts[m]
  BY Feed, Stamps DEF FeedAt, CursorAt
<1>1. ASSUME Ts[n] = cursor[k]
      PROVE  \E m \in ToSet(pushed[k]) : Ts[m] = Ts[n]
  BY <1>0, <1>1 DEF FeedAt, CursorAt
<1>2. CASE n \in ToSet(batch[k])
  <2>1. Ts[n] = cursor[k]
    BY <1>0, <1>2
  <2> QED  BY <1>1, <2>1
<1>3. CASE n \notin ToSet(batch[k])
  <2>1. n \in table \ Taken(k)
    BY <1>3 DEF Taken
  <2>2. Ts[n] <= Fetched(k)
    BY <1>0, FetchedCovers
  <2>3. n \in late[k] \/ \E m \in Taken(k) : Ts[m] = Ts[n]
    BY <2>1, <2>2 DEF FeedAt, GapAt
  <2>4. ASSUME NEW m \in ToSet(batch[k]), Ts[m] = Ts[n]
        PROVE  Ts[n] = cursor[k]
    BY <1>0, <2>4
  <2> QED  BY <1>1, <2>3, <2>4 DEF Taken
<1> QED  BY <1>2, <1>3

\* A step that leaves a thread and the table alone.
LEMMA FeedFrame ==
    ASSUME NEW k \in Socket, FeedAt(k),
           table' = table, cursor'[k] = cursor[k], batch'[k] = batch[k],
           pushed'[k] = pushed[k], start'[k] = start[k], late'[k] = late[k]
    PROVE  FeedAt(k)'
<1>1. Taken(k)' = Taken(k) /\ Fetched(k)' = Fetched(k)
  BY DEF Taken, Fetched
<1> QED  BY <1>1 DEF FeedAt, OrderAt, CursorAt, GapAt

\* A commit behind what a thread fetched is late for it.
LEMMA CommitFeed ==
    ASSUME TypeOK, FeedInv, NEW n \in Row, Commit(n)
    PROVE  FeedInv'
<1>1. /\ table' = table \cup {n} /\ UNCHANGED <<cursor, batch, pushed, start>>
      /\ \A k \in Socket : late[k] \subseteq late'[k] /\ (Ts[n] <= Fetched(k) => n \in late'[k])
  BY DEF Commit, TypeOK
<1>2. TableInv'
  <2>1. IsFiniteSet(table')
    BY <1>1, FS_AddElement DEF FeedInv, TableInv
  <2>2. \A m \in table' : Ts[m] \in Nat
    BY <1>1, Stamps DEF TypeOK
  <2>3. \E x \in table' : \A m \in table' : Ts[m] <= Ts[x]
    <3>1. CASE table = {}
      BY <1>1, <2>2, <3>1
    <3>2. CASE table # {}
      <4>1. PICK x \in table : \A m \in table : Ts[m] <= Ts[x]
        BY <3>2 DEF FeedInv, TableInv
      <4>2. CASE Ts[n] <= Ts[x]
        BY <1>1, <4>1, <4>2
      <4>3. CASE ~(Ts[n] <= Ts[x])
        <5>1. \A m \in table' : Ts[m] <= Ts[n]
          BY <1>1, <2>2, <4>1, <4>3
        <5> QED  BY <1>1, <5>1
      <4> QED  BY <4>2, <4>3
    <3> QED  BY <3>1, <3>2
  <2> QED  BY <2>1, <2>3 DEF TableInv
<1>3. ASSUME NEW k \in Socket PROVE FeedAt(k)'
  <2>1. Taken(k)' = Taken(k) /\ Fetched(k)' = Fetched(k) /\ FeedAt(k)
    BY <1>1 DEF Taken, Fetched, FeedInv
  <2>2. OrderAt(k)' /\ CursorAt(k)'
    BY <1>1, <2>1 DEF FeedAt, OrderAt, CursorAt
  <2>3. GapAt(k)'
    BY <1>1, <2>1 DEF FeedAt, GapAt
  <2> QED  BY <2>2, <2>3 DEF FeedAt
<1> QED  BY <1>2, <1>3 DEF FeedInv

\* The thread that moves, and the others.
LEMMA FirstPollFeed ==
    ASSUME TypeOK, FeedInv, NEW k \in Socket, FirstPoll(k)
    PROVE  FeedAt(k)'
<1>1. Newest \in Nat
  BY NewestTyped DEF TypeOK, FeedInv
<1>2. Taken(k) = {} /\ batch[k] = <<>> /\ FeedAt(k)
  BY Feed DEF FirstPoll, FeedInv, FeedAt, CursorAt
<1>3. /\ UNCHANGED <<table, batch, pushed, late>>
      /\ cursor'[k] = Newest /\ start'[k] = Newest
  BY DEF FirstPoll, TypeOK
<1>4. Taken(k)' = Taken(k) /\ Fetched(k)' = Newest
  BY <1>2, <1>3 DEF Taken, Fetched
<1>5. OrderAt(k)'
  BY <1>2, <1>3, <1>4 DEF FeedAt, OrderAt
<1>6. CursorAt(k)'
  BY <1>1, <1>2, <1>3 DEF CursorAt, Taken
<1>7. GapAt(k)'
  <2>1. \A n \in table : Ts[n] \in Nat
    BY Stamps DEF TypeOK
  <2> QED  BY <1>1, <1>3, <1>4, <2>1 DEF GapAt
<1> QED  BY <1>5, <1>6, <1>7 DEF FeedAt

LEMMA PollFeed ==
    ASSUME TypeOK, FeedInv, NEW k \in Socket, Poll(k)
    PROVE  FeedAt(k)'
<1>1. PICK S \in SUBSET Past(k) : \E s \in SetToAllKPermutations(S) :
        s # <<>> /\ IsPage(k, s) /\ batch' = [batch EXCEPT ![k] = s]
  BY DEF Poll
<1>2. PICK s \in SetToAllKPermutations(S) :
        s # <<>> /\ IsPage(k, s) /\ batch' = [batch EXCEPT ![k] = s]
  BY <1>1
<1>3. /\ s \in Seq(Row) /\ ToSet(s) \subseteq Past(k)
      /\ \A i, j \in DOMAIN s : i # j => s[i] # s[j]
  BY PageFacts DEF TypeOK, FeedInv
<1>4. /\ FeedAt(k) /\ cursor[k] # Unset /\ batch[k] = <<>>
      /\ Taken(k) = ToSet(pushed[k]) /\ Fetched(k) = cursor[k]
  BY Feed DEF Poll, FeedInv, Taken, Fetched
<1>5. /\ UNCHANGED <<table, cursor, pushed, start, late>>
      /\ batch'[k] = s
  BY <1>2 DEF Poll, TypeOK
<1>6. /\ cursor[k] \in Nat /\ start[k] \in Nat
      /\ \A n \in table : Ts[n] \in Nat
      /\ \A n \in ToSet(s) : n \in table /\ cursor[k] < Ts[n]
      /\ \A m \in ToSet(pushed[k]) : m \in table /\ Ts[m] <= cursor[k]
  BY <1>3, <1>4, Feed, Stamps DEF FeedAt, CursorAt, OrderAt, Past, TypeOK
<1>7. Ranked(s)
  <2>1. DOMAIN s \subseteq Int
    BY <1>3, Elements
  <2>2. ASSUME NEW i \in DOMAIN s, NEW j \in DOMAIN s, i < j
        PROVE  s[i] # s[j] /\ Ts[s[i]] <= Ts[s[j]]
    BY <1>2, <1>3, <2>1, <2>2 DEF IsPage
  <2> QED  BY <2>2 DEF Ranked
<1>8. /\ Last(s) \in ToSet(s) /\ Fetched(k)' = Ts[Last(s)]
      /\ Taken(k)' = ToSet(pushed[k]) \cup ToSet(s)
  BY <1>2, <1>3, <1>5, <1>7, RankedLast DEF Fetched, Taken
<1>9. OrderAt(k)'
  <2>1. \A m \in ToSet(pushed[k]), n \in ToSet(s) : m # n
    BY <1>6
  <2> QED  BY <1>4, <1>5, <1>6, <1>7, <1>8, <2>1 DEF FeedAt, OrderAt
<1>10. CursorAt(k)'
  BY <1>4, <1>5, <1>6 DEF FeedAt, CursorAt
<1>11. GapAt(k)'
  <2>1. SUFFICES ASSUME NEW n \in table, n \notin ToSet(pushed[k]), n \notin ToSet(s),
                        start[k] < Ts[n], Ts[n] <= Ts[Last(s)]
                 PROVE  n \in late[k] \/ \E m \in ToSet(pushed[k]) \cup ToSet(s) : Ts[m] = Ts[n]
    BY <1>5, <1>8 DEF GapAt
  <2>2. CASE Ts[n] <= cursor[k]
    BY <1>4, <2>1, <2>2, BehindCursor
  <2>3. CASE ~(Ts[n] <= cursor[k])
    <3>1. n \in Past(k) \ ToSet(s)
      BY <1>6, <2>1, <2>3 DEF Past
    <3>2. Ts[Last(s)] <= Ts[n]
      <4>1. PICK i \in DOMAIN s : s[i] = Last(s)
        BY <1>8 DEF ToSet
      <4> QED  BY <1>2, <3>1, <4>1 DEF IsPage
    <3>3. Ts[Last(s)] = Ts[n]
      BY <1>6, <1>8, <2>1, <3>2
    <3> QED  BY <1>8, <3>3
  <2> QED  BY <2>2, <2>3
<1> QED  BY <1>9, <1>10, <1>11 DEF FeedAt

LEMMA SendFeed ==
    ASSUME TypeOK, FeedInv, NEW k \in Socket, Send(k)
    PROVE  FeedAt(k)'
<1> DEFINE h == Head(batch[k])
           t == Tail(batch[k])
<1>1. /\ batch[k] # <<>> /\ batch[k] \in Seq(Row) /\ pushed[k] \in Seq(Row)
      /\ FeedAt(k)
  BY SendTypes, Feed DEF FeedInv
<1>2. /\ h \in Row /\ t \in Seq(Row) /\ ToSet(batch[k]) = {h} \cup ToSet(t)
      /\ Ranked(t) /\ \A n \in ToSet(t) : n # h /\ Ts[h] <= Ts[n]
  BY <1>1, TailElements, RankedTail DEF FeedAt, OrderAt
<1>3. /\ UNCHANGED <<table, start, late>>
      /\ cursor'[k] = Ts[h] /\ batch'[k] = t /\ pushed'[k] = Append(pushed[k], h)
  BY DEF Send, TypeOK
<1>4. ToSet(pushed[k])' = ToSet(pushed[k]) \cup {h}
  BY <1>1, <1>2, <1>3, AppendElements
<1>5. Taken(k)' = Taken(k)
  BY <1>2, <1>3, <1>4 DEF Taken
<1>6. /\ cursor[k] # Unset /\ cursor[k] \in Nat /\ Ts[h] \in Nat /\ cursor[k] <= Ts[h]
      /\ start[k] \in Nat /\ start[k] <= cursor[k]
      /\ \A m \in ToSet(pushed[k]) : Ts[m] \in Nat /\ Ts[m] <= cursor[k]
  BY <1>1, <1>2, Feed, Stamps DEF FeedAt, CursorAt, Taken
<1>7. Fetched(k)' = Fetched(k)
  BY <1>1, <1>3, LastOfTail DEF Fetched
<1> HIDE DEF h, t
<1>8. OrderAt(k)'
  <2>1. \A m \in ToSet(pushed[k]) : m # h /\ Ts[m] <= Ts[h]
    BY <1>1, <1>2, <1>6 DEF FeedAt, OrderAt
  <2>2. Ranked(Append(pushed[k], h))
    BY <1>1, <1>2, <2>1, RankedAppend DEF FeedAt, OrderAt
  <2>3. \A m \in ToSet(pushed[k]) \cup {h}, n \in ToSet(t) : m # n
    BY <1>1, <1>2 DEF FeedAt, OrderAt
  <2> QED  BY <1>1, <1>2, <1>3, <1>4, <1>5, <2>2, <2>3 DEF FeedAt, OrderAt
<1>9. CursorAt(k)'
  <2>1. Unset \notin Nat
    BY DEF Unset
  <2>2. Ts[h] # Unset /\ start[k] <= Ts[h]
    BY <1>6, <2>1
  <2>3. \A m \in ToSet(pushed[k]) \cup {h} : Ts[m] <= Ts[h]
    BY <1>6
  <2> QED  BY <1>2, <1>3, <1>4, <1>6, <2>2, <2>3 DEF CursorAt
<1>10. GapAt(k)'
  BY <1>1, <1>3, <1>5, <1>6, <1>7 DEF FeedAt, GapAt
<1> QED  BY <1>8, <1>9, <1>10 DEF FeedAt

LEMMA SendFailsFeed ==
    ASSUME TypeOK, FeedInv, NEW k \in Socket, SendFails(k)
    PROVE  FeedAt(k)'
<1>1. /\ UNCHANGED <<table, cursor, pushed, start, late>>
      /\ batch'[k] = <<>> /\ FeedAt(k)
  BY DEF SendFails, TypeOK, FeedInv
<1>2. Taken(k)' = ToSet(pushed[k]) /\ ToSet(batch[k])' = {} /\ Fetched(k)' = cursor[k]
  BY <1>1, EmptyElements DEF Taken, Fetched
<1>3. OrderAt(k)'
  BY <1>1, <1>2, EmptyElements DEF FeedAt, OrderAt, Taken
<1>4. CursorAt(k)'
  BY <1>1, <1>2 DEF FeedAt, CursorAt, Taken
<1>5. GapAt(k)'
  <2>1. SUFFICES ASSUME cursor[k] # Unset, NEW n \in table \ ToSet(pushed[k]),
                        start[k] < Ts[n], Ts[n] <= cursor[k]
                 PROVE  n \in late[k] \/ \E m \in ToSet(pushed[k]) : Ts[m] = Ts[n]
    BY <1>1, <1>2 DEF GapAt
  <2> QED  BY <1>1, <2>1, BehindCursor
<1> QED  BY <1>3, <1>4, <1>5 DEF FeedAt

LEMMA FeedStep ==
    ASSUME TypeOK, FeedInv, [Next]_vars
    PROVE  FeedInv'
<1>1. CASE UNCHANGED <<table, feed>>
  <2>1. \A k \in Socket : FeedAt(k)'
    BY <1>1, FeedFrame DEF FeedInv, feed
  <2> QED  BY <1>1, <2>1 DEF FeedInv, TableInv
<1>2. ASSUME NEW k \in Socket, Thread(k)
      PROVE  FeedInv'
  <2>1. table' = table /\ FeedAt(k)'
    BY <1>2, FirstPollFeed, PollFeed, SendFeed, SendFailsFeed
    DEF Thread, FirstPoll, Poll, Send, SendFails
  <2>2. ASSUME NEW j \in Socket, j # k
        PROVE  FeedAt(j)'
    <3>1. /\ cursor'[j] = cursor[j] /\ batch'[j] = batch[j] /\ pushed'[j] = pushed[j]
          /\ start'[j] = start[j] /\ late'[j] = late[j]
      BY <1>2, <2>2 DEF Thread, FirstPoll, Poll, Send, SendFails, TypeOK
    <3> QED  BY <2>1, <3>1, FeedFrame DEF FeedInv
  <2> QED  BY <2>1, <2>2 DEF FeedInv, TableInv
<1>3. ASSUME NEW k \in Socket, Open(k)
      PROVE  FeedInv'
  <2>1. UNCHANGED <<table, cursor, batch, pushed, start, late>>
    BY <1>3 DEF Open
  <2>2. \A j \in Socket : FeedAt(j)'
    BY <2>1, FeedFrame DEF FeedInv
  <2> QED  BY <2>1, <2>2 DEF FeedInv, TableInv
<1>4. ASSUME NEW n \in Row, Commit(n)
      PROVE  FeedInv'
  BY <1>4, CommitFeed
<1>5. ASSUME NEW k \in Socket, OnError(k) \/ OnClose(k) \/ Break(k)
      PROVE  UNCHANGED <<table, feed>>
  BY <1>5 DEF OnError, OnClose, Break
<1>6. Mount \/ Unmount \/ Reconnect => UNCHANGED <<table, feed>>
  BY DEF Mount, Unmount, Reconnect
<1>7. UNCHANGED vars => UNCHANGED <<table, feed>>
  BY DEF vars
<1> QED
  BY <1>1, <1>2, <1>3, <1>4, <1>5, <1>6, <1>7 DEF Next, Events

-----------------------------------------------------------------------------
(* How many sockets a page has                                             *)

LEMMA SocketsFinite ==
    /\ IsFiniteSet(Active) /\ Cardinality(Active) \in Nat
    /\ IsFiniteSet(Live) /\ (TypeOK => Cardinality(Live) <= Cardinality(Active))
<1>1. IsFiniteSet(Socket)
  BY FeedAssumption, FS_Interval DEF Socket
<1>2. IsFiniteSet(Active) /\ IsFiniteSet(Live)
  BY <1>1, FS_Subset DEF Active, Live
<1>3. Live \subseteq Active
  BY DEF Live, Active, Alive
<1> QED  BY <1>2, <1>3, FS_Subset, FS_CardinalityType

\* Steps that end no socket and open none.
LEMMA SameSockets ==
    ASSUME PageInv, timer' => timer, mounts' = mounts, timer \in BOOLEAN, mounts \in Nat,
           \A k \in Socket : sock'[k] \in {"unused", "closed"} <=> sock[k] \in {"unused", "closed"}
    PROVE  PageInv'
<1>1. Active' = Active
  BY DEF Active
<1> QED  BY <1>1, SocketsFinite DEF PageInv

\* connect() adds one socket at most.
LEMMA ConnectSockets ==
    ASSUME TypeOK, Connect(sock)
    PROVE  Cardinality(Active') \in Nat /\ Cardinality(Active') <= Cardinality(Active) + 1
<1>1. CASE sock' = sock
  BY <1>1, SocketsFinite DEF Active
<1>2. CASE sock' = [sock EXCEPT ![opened + 1] = "connecting"]
  <2>1. Active' \subseteq Active \cup {opened + 1}
    BY <1>2 DEF Active, TypeOK
  <2>2. /\ IsFiniteSet(Active \cup {opened + 1})
        /\ Cardinality(Active \cup {opened + 1}) <= Cardinality(Active) + 1
    BY SocketsFinite, FS_AddElement
  <2>3. /\ IsFiniteSet(Active')
        /\ Cardinality(Active') <= Cardinality(Active \cup {opened + 1})
    BY <2>1, <2>2, FS_Subset
  <2> QED
    BY <2>2, <2>3, SocketsFinite, FS_CardinalityType
<1> QED  BY <1>1, <1>2 DEF Connect

LEMMA PageStep ==
    ASSUME TypeOK, StageInv, PageInv, [Next]_vars
    PROVE  PageInv'
<1>0. /\ sock \in [Socket -> SocketState] /\ timer \in BOOLEAN /\ mounts \in Nat
      /\ Cardinality(Active) \in Nat
  BY SocketsFinite, FeedAssumption DEF TypeOK
<1>1. CASE UNCHANGED page
  BY <1>0, <1>1, SameSockets DEF page
<1>2. ASSUME NEW k \in Socket, Open(k) \/ Break(k)
      PROVE  PageInv'
  <2>1. \A j \in Socket : sock'[j] \in {"unused", "closed"} <=> sock[j] \in {"unused", "closed"}
    BY <1>0, <1>2 DEF Open, Break, Alive
  <2> QED  BY <1>0, <1>2, <2>1, SameSockets DEF Open, Break
<1>3. ASSUME NEW k \in Socket, OnError(k)
      PROVE  PageInv'
  <2> DEFINE s == [sock EXCEPT ![k] = "closing"]
  <2>1. /\ s \in [Socket -> SocketState]
        /\ \A j \in Socket : s[j] \in {"unused", "closed"} <=> sock[j] \in {"unused", "closed"}
    BY <1>0, <1>3 DEF SocketState, OnError
  <2>2. sock' = IF ws = 0 THEN s ELSE Closed(s, ws)
    BY <1>3 DEF OnError
  <2> HIDE DEF s
  <2>3. \A j \in Socket : sock'[j] \in {"unused", "closed"} <=> sock[j] \in {"unused", "closed"}
    BY <2>1, <2>2, ClosedTypes
  <2> QED  BY <1>0, <1>3, <2>3, SameSockets DEF OnError
<1>4. ASSUME NEW k \in Socket, OnClose(k)
      PROVE  PageInv'
  <2>1. Active' = Active \ {k} /\ k \in Active /\ mounts' = mounts /\ timer' \in BOOLEAN
    BY <1>0, <1>4 DEF OnClose, Active, TypeOK
  <2>2. Cardinality(Active') = Cardinality(Active) - 1
    BY <2>1, SocketsFinite, FS_RemoveElement
  <2> QED  BY <1>0, <2>1, <2>2 DEF PageInv
<1>5. CASE Mount
  <2>1. mounts' = mounts + 1 /\ timer' = timer /\ Connect(sock)
    BY <1>5 DEF Mount
  <2>2. Cardinality(Active') <= Cardinality(Active) + 1 /\ Cardinality(Active') \in Nat
    BY <2>1, ConnectSockets
  <2> QED  BY <1>0, <2>1, <2>2 DEF PageInv
<1>6. CASE Reconnect
  <2>1. mounts' = mounts /\ timer /\ ~timer' /\ Connect(sock)
    BY <1>6 DEF Reconnect
  <2>2. Cardinality(Active') <= Cardinality(Active) + 1 /\ Cardinality(Active') \in Nat
    BY <2>1, ConnectSockets
  <2> QED  BY <1>0, <2>1, <2>2 DEF PageInv
<1>7. CASE Unmount
  <2>1. \A j \in Socket : sock'[j] \in {"unused", "closed"} <=> sock[j] \in {"unused", "closed"}
    BY <1>0, <1>7, ClosedTypes DEF Unmount
  <2> QED  BY <1>0, <1>7, <2>1, SameSockets DEF Unmount
<1>8. ASSUME NEW k \in Socket, Thread(k) PROVE UNCHANGED page
  BY <1>8 DEF Thread, FirstPoll, Poll, Send, SendFails
<1>9. ASSUME NEW n \in Row, Commit(n) PROVE UNCHANGED page
  BY <1>9 DEF Commit
<1>10. UNCHANGED vars => UNCHANGED page
  BY DEF vars
<1> QED
  BY <1>1, <1>2, <1>3, <1>4, <1>5, <1>6, <1>7, <1>8, <1>9, <1>10 DEF Next, Events

-----------------------------------------------------------------------------
(* The theorems                                                            *)

IInv == TypeOK /\ StageInv /\ FeedInv /\ PageInv

LEMMA InitInv == Init => IInv
<1> SUFFICES ASSUME Init PROVE IInv
  OBVIOUS
<1>1. TypeOK
  <2>1. /\ batch \in [Socket -> Seq(Row)] /\ pushed \in [Socket -> Seq(Row)]
        /\ \A k \in Socket : thread[k] = "send" <=> batch[k] # <<>>
    BY EmptyElements DEF Init
  <2>2. /\ thread \in [Socket -> {"none", "poll", "send", "ended"}]
        /\ cursor \in [Socket -> Int] /\ start \in [Socket -> Nat]
        /\ late \in [Socket -> SUBSET Row] /\ sock \in [Socket -> SocketState]
    BY DEF Init, SocketState, Unset
  <2>3. /\ ws \in 0..opened /\ opened \in 0..MaxSockets
        /\ mounts \in 0..MaxMounts /\ breaks \in 0..MaxBreaks
    BY FeedAssumption DEF Init
  <2> QED  BY <2>1, <2>2, <2>3 DEF Init, TypeOK
<1>2. StageInv
  BY DEF Init, StageInv
<1>3. FeedInv
  <2>1. TableInv
    BY FS_EmptySet DEF Init, TableInv
  <2>2. ASSUME NEW k \in Socket PROVE FeedAt(k)
    <3>1. pushed[k] = <<>> /\ batch[k] = <<>> /\ cursor[k] = Unset /\ Taken(k) = {}
      BY EmptyElements DEF Init, Taken
    <3> QED  BY <3>1, EmptyElements DEF FeedAt, OrderAt, CursorAt, GapAt
  <2> QED  BY <2>1, <2>2 DEF FeedInv
<1>4. PageInv
  <2>1. Active = {}
    BY DEF Init, Active
  <2> QED  BY <2>1, FS_EmptySet DEF Init, PageInv
<1> QED  BY <1>1, <1>2, <1>3, <1>4 DEF IInv

\* Every reachable state satisfies the invariants.
LEMMA FeedInvariant == Spec => []IInv
<1>1. IInv /\ [Next]_vars => IInv'
  BY TypesStep, StageStep, FeedStep, PageStep DEF IInv, FeedInv
<1> QED  BY InitInv, <1>1, PTL DEF Spec

LEMMA SkipsFollow == IInv => SkipsOnlyLateOrTied
<1> SUFFICES ASSUME IInv, NEW k \in Socket
             PROVE  /\ Ranked(pushed[k])
                    /\ \A n \in table \ ToSet(pushed[k] \o batch[k]) :
                        cursor[k] # Unset /\ Ts[n] \in (start[k] + 1)..cursor[k] =>
                            n \in late[k] \/ \E m \in ToSet(pushed[k]) : Ts[m] = Ts[n]
  BY DEF IInv, SkipsOnlyLateOrTied, Ranked
<1>1. /\ FeedAt(k) /\ TypeOK /\ Ranked(pushed[k])
      /\ cursor[k] \in Int /\ start[k] \in Nat
      /\ ToSet(pushed[k] \o batch[k]) = ToSet(pushed[k]) \cup ToSet(batch[k])
  BY Feed, ConcatenationElements DEF IInv, FeedInv, FeedAt, OrderAt
<1>2. ASSUME NEW n \in table \ ToSet(pushed[k] \o batch[k]), cursor[k] # Unset,
             Ts[n] \in (start[k] + 1)..cursor[k]
      PROVE  n \in late[k] \/ \E m \in ToSet(pushed[k]) : Ts[m] = Ts[n]
  <2>1. start[k] < Ts[n] /\ Ts[n] <= cursor[k]
    BY <1>1, <1>2
  <2>2. n \in table \ ToSet(pushed[k])
    BY <1>1, <1>2
  <2> QED  BY <1>1, <1>2, <2>1, <2>2, BehindCursor
<1> QED  BY <1>1, <1>2

\* Whatever rows are committed, in any order of timestamps, and however threads
\* poll, send and fail: a socket gets rows in order and once, and skips only rows
\* that were late or share a timestamp.
THEOREM SkipsCorrect == Spec => []SkipsOnlyLateOrTied
  BY FeedInvariant, SkipsFollow, PTL

\* However mounts, failures, stale callbacks and the reconnection timer interleave,
\* a page has at most one live socket per time it was shown.
THEOREM SocketsCorrect == Spec => []ExtraSocketsNeedRemount
<1>1. IInv => ExtraSocketsNeedRemount
  <2> SUFFICES ASSUME IInv PROVE ExtraSocketsNeedRemount
    OBVIOUS
  <2>1. /\ Cardinality(Active) \in Nat /\ Cardinality(Live) <= Cardinality(Active)
        /\ Cardinality(Live) \in Nat /\ mounts \in Nat /\ timer \in BOOLEAN
    BY SocketsFinite, FS_CardinalityType DEF IInv, TypeOK
  <2> QED  BY <2>1 DEF IInv, PageInv, ExtraSocketsNeedRemount
<1> QED  BY <1>1, FeedInvariant, PTL
=============================================================================
