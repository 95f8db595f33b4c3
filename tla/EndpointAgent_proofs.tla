------------------------- MODULE EndpointAgent_proofs -------------------------
(***************************************************************************)
(* Proofs about EndpointAgent: no packet vanishes unrecorded, keys travel  *)
(* ahead of the packets they belong to, and the limiter refuses only what  *)
(* is over the limit, for any traffic, queues, limits and faults.          *)
(***************************************************************************)
EXTENDS EndpointAgent, FiniteSetTheorems, WellFoundedInduction, TLAPS

-----------------------------------------------------------------------------
(* Sequences and their elements                                            *)

LEMMA AppendFacts ==
    ASSUME NEW S, NEW s \in Seq(S), NEW e \in S
    PROVE  /\ Append(s, e) \in Seq(S)
           /\ Len(Append(s, e)) = Len(s) + 1
           /\ ToSet(Append(s, e)) = ToSet(s) \cup {e}
<1>1. /\ Append(s, e) \in Seq(S) /\ Len(s) \in Nat /\ Len(Append(s, e)) = Len(s) + 1
      /\ DOMAIN s = 1..Len(s) /\ DOMAIN Append(s, e) = 1..Len(s) + 1
      /\ \A i \in 1..Len(s) : Append(s, e)[i] = s[i]
      /\ Append(s, e)[Len(s) + 1] = e
  OBVIOUS
<1>2. \A i : i \in 1..Len(s) + 1 <=> i \in 1..Len(s) \/ i = Len(s) + 1
  BY <1>1
<1> HIDE DEF ToSet
<1>3. ASSUME NEW x PROVE x \in ToSet(Append(s, e)) <=> x \in ToSet(s) \cup {e}
  BY <1>1, <1>2, Zenon DEF ToSet
<1> QED  BY <1>1, <1>3

LEMMA TailFacts ==
    ASSUME NEW S, NEW s \in Seq(S), s # <<>>
    PROVE  /\ Head(s) \in S /\ Tail(s) \in Seq(S)
           /\ Len(Tail(s)) = Len(s) - 1 /\ Len(s) \in Nat \ {0}
           /\ \A i \in DOMAIN Tail(s) : i + 1 \in DOMAIN s /\ Tail(s)[i] = s[i + 1]
           /\ ToSet(s) = {Head(s)} \cup ToSet(Tail(s))
<1>1. /\ Head(s) \in S /\ Tail(s) \in Seq(S)
      /\ Len(Tail(s)) = Len(s) - 1 /\ Len(s) \in Nat \ {0}
      /\ DOMAIN s = 1..Len(s) /\ DOMAIN Tail(s) = 1..Len(s) - 1
      /\ Head(s) = s[1]
      /\ \A i \in DOMAIN Tail(s) : Tail(s)[i] = s[i + 1]
  OBVIOUS
<1>2. \A i \in DOMAIN Tail(s) : i + 1 \in DOMAIN s
  BY <1>1
<1>3. \A i \in DOMAIN s : i = 1 \/ (i - 1 \in DOMAIN Tail(s) /\ (i - 1) + 1 = i)
  BY <1>1
<1>4. 1 \in DOMAIN s
  BY <1>1
<1>5. ASSUME NEW x PROVE x \in ToSet(s) <=> x = Head(s) \/ x \in ToSet(Tail(s))
  BY <1>1, <1>2, <1>3, <1>4 DEF ToSet
<1> QED  BY <1>1, <1>2, <1>5

LEMMA EmptyFacts == ToSet(<<>>) = {} /\ \A S : <<>> \in Seq(S)
  BY DEF ToSet

LEMMA ElementsTyped ==
    ASSUME NEW S, NEW s \in Seq(S)
    PROVE  ToSet(s) \subseteq S
  BY DEF ToSet

\* Strictly increasing sequences.
Increasing(s) == \A i, j \in DOMAIN s : i < j => s[i] < s[j]
Below(S, T) == \A x \in S, y \in T : x < y

LEMMA IncreasingAppend ==
    ASSUME NEW s \in Seq(Packet), NEW e \in Packet, Increasing(s), Below(ToSet(s), {e})
    PROVE  Increasing(Append(s, e))
<1>1. /\ Len(s) \in Nat
      /\ DOMAIN s = 1..Len(s) /\ DOMAIN Append(s, e) = 1..Len(s) + 1
      /\ \A i \in 1..Len(s) : Append(s, e)[i] = s[i]
      /\ Append(s, e)[Len(s) + 1] = e
  OBVIOUS
<1>2. \A i \in 1..Len(s) : s[i] < e
  BY <1>1 DEF Below, ToSet
<1> QED  BY <1>1, <1>2 DEF Increasing

LEMMA IncreasingTail ==
    ASSUME NEW s \in Seq(Packet), s # <<>>, Increasing(s)
    PROVE  Increasing(Tail(s)) /\ Below({Head(s)}, ToSet(Tail(s)))
<1>1. /\ Len(s) \in Nat \ {0} /\ DOMAIN s = 1..Len(s) /\ DOMAIN Tail(s) = 1..Len(s) - 1
      /\ Head(s) = s[1]
      /\ \A i \in DOMAIN Tail(s) : Tail(s)[i] = s[i + 1]
  OBVIOUS
<1>2. \A i \in DOMAIN Tail(s) : i + 1 \in DOMAIN s /\ 1 < i + 1
  BY <1>1
<1>3. Increasing(Tail(s))
  BY <1>1, <1>2 DEF Increasing
<1>4. \A i \in DOMAIN Tail(s) : Head(s) < Tail(s)[i]
  BY <1>1, <1>2 DEF Increasing
<1> QED  BY <1>3, <1>4 DEF Below, ToSet

LEMMA Concatenation ==
    ASSUME NEW s \in Seq(Packet), NEW t \in Seq(Packet)
    PROVE  /\ s \o t \in Seq(Packet)
           /\ ToSet(s \o t) = ToSet(s) \cup ToSet(t)
           /\ Increasing(s) /\ Increasing(t) /\ Below(ToSet(s), ToSet(t)) => Increasing(s \o t)
<1>1. /\ s \o t \in Seq(Packet) /\ Len(s) \in Nat /\ Len(t) \in Nat
      /\ DOMAIN s = 1..Len(s) /\ DOMAIN t = 1..Len(t)
      /\ DOMAIN (s \o t) = 1..Len(s) + Len(t)
      /\ \A i \in 1..Len(s) : (s \o t)[i] = s[i]
      /\ \A i \in 1..Len(t) : (s \o t)[Len(s) + i] = t[i]
  OBVIOUS
<1>2. \A i \in 1..Len(s) + Len(t) :
        i \in 1..Len(s) \/ (i - Len(s) \in 1..Len(t) /\ Len(s) + (i - Len(s)) = i)
  BY <1>1
<1>3. /\ \A i \in 1..Len(s) : i \in 1..Len(s) + Len(t)
      /\ \A i \in 1..Len(t) : Len(s) + i \in 1..Len(s) + Len(t)
  BY <1>1
<1>4. ASSUME NEW x PROVE x \in ToSet(s \o t) <=> x \in ToSet(s) \cup ToSet(t)
  BY <1>1, <1>2, <1>3 DEF ToSet
<1>5. ASSUME Increasing(s), Increasing(t), Below(ToSet(s), ToSet(t)),
             NEW i \in 1..Len(s) + Len(t), NEW j \in 1..Len(s) + Len(t), i < j
      PROVE  (s \o t)[i] < (s \o t)[j]
  <2>1. CASE j \in 1..Len(s)
    BY <1>1, <1>5, <2>1 DEF Increasing
  <2>2. CASE i \notin 1..Len(s)
    <3>1. /\ i - Len(s) \in 1..Len(t) /\ Len(s) + (i - Len(s)) = i
          /\ j - Len(s) \in 1..Len(t) /\ Len(s) + (j - Len(s)) = j
          /\ i - Len(s) < j - Len(s)
      BY <1>1, <1>5, <2>2
    <3>2. (s \o t)[i] = t[i - Len(s)] /\ (s \o t)[j] = t[j - Len(s)]
      BY <1>1, <3>1
    <3> QED  BY <1>1, <1>5, <3>1, <3>2 DEF Increasing
  <2>3. CASE i \in 1..Len(s) /\ j \notin 1..Len(s)
    <3>1. j - Len(s) \in 1..Len(t) /\ Len(s) + (j - Len(s)) = j
      BY <1>2, <2>3
    <3>2. (s \o t)[i] = s[i] /\ (s \o t)[j] = t[j - Len(s)]
      BY <1>1, <2>3, <3>1
    <3>3. s[i] \in ToSet(s) /\ t[j - Len(s)] \in ToSet(t)
      BY <1>1, <2>3, <3>1 DEF ToSet
    <3> QED  BY <1>5, <3>2, <3>3 DEF Below
  <2> QED  BY <2>1, <2>2, <2>3
<1> QED  BY <1>1, <1>4, <1>5 DEF Increasing

-----------------------------------------------------------------------------
(* Type correctness                                                        *)

LEMMA UnitsFacts ==
    ASSUME NEW lines \in Seq(Seq(Unit))
    PROVE  /\ Units(lines) \subseteq Unit
           /\ \A h \in Seq(Unit) : Units(Append(lines, h)) = Units(lines) \cup ToSet(h)
<1>1. Units(lines) \subseteq Unit
  <2>1. \A i \in DOMAIN lines : lines[i] \in Seq(Unit)
    OBVIOUS
  <2>2. \A i \in DOMAIN lines : ToSet(lines[i]) \subseteq Unit
    BY <2>1, ElementsTyped
  <2> QED  BY <2>2 DEF Units
<1>2. ASSUME NEW h \in Seq(Unit)
      PROVE  Units(Append(lines, h)) = Units(lines) \cup ToSet(h)
  <2>1. /\ Len(lines) \in Nat
        /\ DOMAIN lines = 1..Len(lines) /\ DOMAIN Append(lines, h) = 1..Len(lines) + 1
        /\ \A i \in 1..Len(lines) : Append(lines, h)[i] = lines[i]
        /\ Append(lines, h)[Len(lines) + 1] = h
    OBVIOUS
  <2>2. \A i : i \in 1..Len(lines) + 1 <=> i \in 1..Len(lines) \/ i = Len(lines) + 1
    BY <2>1
  <2>3. ASSUME NEW x PROVE x \in Units(Append(lines, h)) <=> x \in Units(lines) \cup ToSet(h)
    <3> DEFINE in(k) == x \in ToSet(k)
    <3>1. x \in Units(lines) <=> \E i \in DOMAIN lines : in(lines[i])
      BY DEF Units
    <3>2. x \in Units(Append(lines, h)) <=> \E i \in DOMAIN Append(lines, h) : in(Append(lines, h)[i])
      BY DEF Units
    <3> HIDE DEF in
    <3>3. x \in Units(Append(lines, h)) <=> x \in Units(lines) \/ in(h)
      BY <2>1, <2>2, <3>1, <3>2, Zenon
    <3> QED  BY <3>3 DEF in
  <2> QED  BY <2>3
<1> QED  BY <1>1, <1>2

LEMMA NoUnits == Units(<<>>) = {}
  BY DEF Units

LEMMA LeastElement ==
    ASSUME NEW S \in SUBSET Nat, S # {}
    PROVE  \E n \in S : \A m \in S : n <= m
<1> DEFINE R == OpToRel(<, Nat)
<1>1. IsWellFoundedOn(R, Nat)
  BY NatLessThanWellFounded
<1> HIDE DEF R
<1>2. PICK n \in S : \A m \in S : <<m, n>> \notin R
  BY <1>1, WFMin
<1>3. \A m \in S : ~(m < n)
  BY <1>2 DEF R, OpToRel
<1> QED  BY <1>2, <1>3

\* A line ends within the log, after the position.
LEMMA LineFacts ==
    ASSUME TypeOK, Len(log) > position
    PROVE  /\ LineEnd \in Nat /\ SubSeq(log, position + 1, LineEnd) \in Seq(Unit)
<1> DEFINE ends == {i \in (position + 1)..Len(log) : EndsLine(i)}
<1>1. position \in Nat /\ log \in Seq(Unit) /\ Len(log) \in Nat
  BY DEF TypeOK
<1>2. CASE ends = {}
  BY <1>1, <1>2 DEF LineEnd
<1>3. CASE ends # {}
  <2>1. ends \in SUBSET Nat
    BY <1>1
  <2>2. \E n \in ends : \A m \in ends : n <= m
    BY <1>3, <2>1, LeastElement
  <2>3. LineEnd = CHOOSE n \in ends : \A m \in ends : n <= m
    BY <1>3 DEF LineEnd
  <2> HIDE DEF ends
  <2>4. LineEnd \in ends
    BY <2>2, <2>3
  <2>5. LineEnd \in (position + 1)..Len(log)
    BY <2>4 DEF ends
  <2> QED  BY <1>1, <2>5
<1> QED  BY <1>2, <1>3

LEMMA TypeStep ==
    ASSUME TypeOK, [Next]_vars
    PROVE  TypeOK'
<1> USE AgentAssumption
<1>0. /\ pktQueue # <<>> => Head(pktQueue) \in Packet /\ Tail(pktQueue) \in Seq(Packet)
                            /\ Len(Tail(pktQueue)) = Len(pktQueue) - 1
      /\ backlog # <<>> => Head(backlog) \in Packet /\ Tail(backlog) \in Seq(Packet)
      /\ wire # <<>> => Head(wire) \in Packet /\ Tail(wire) \in Seq(Packet)
      /\ Len(pktQueue) \in Nat /\ Len(keyQueue) \in Nat
      /\ Units(keyQueue) \subseteq Unit /\ QueuedUnits \subseteq Unit
      /\ ToSet(wire) \subseteq Packet
      /\ failures \in Nat /\ stale \in Nat /\ clock \in Nat
  <2>1. ToSet(wire) \subseteq Packet
    BY ElementsTyped DEF TypeOK
  <2>2. Units(keyQueue) \subseteq Unit
    <3>1. keyQueue \in Seq(Seq(Unit))
      BY DEF TypeOK
    <3> QED  BY <3>1, UnitsFacts
  <2>3. QueuedUnits \subseteq Unit
    <3>1. \A p \in Packet : carried[p] \subseteq Unit
      BY DEF TypeOK
    <3> QED  BY <2>2, <3>1 DEF QueuedUnits
  <2>4. \A s \in Seq(Packet) :
          /\ Len(s) \in Nat
          /\ s # <<>> => Head(s) \in Packet /\ Tail(s) \in Seq(Packet) /\ Len(Tail(s)) = Len(s) - 1
    BY TailFacts
  <2>5. Len(keyQueue) \in Nat
    BY DEF TypeOK
  <2>6. pktQueue \in Seq(Packet) /\ backlog \in Seq(Packet) /\ wire \in Seq(Packet)
        /\ failures \in Nat /\ stale \in Nat /\ clock \in Nat
    BY DEF TypeOK
  <2> QED  BY <2>1, <2>2, <2>3, <2>4, <2>5, <2>6
<1>1. ASSUME NEW p \in Packet
      PROVE  /\ Append(backlog, p) \in Seq(Packet) /\ Append(received, p) \in Seq(Packet)
             /\ Append(pktQueue, p) \in Seq(Packet) /\ Append(wire, p) \in Seq(Packet)
             /\ Len(Append(pktQueue, p)) = Len(pktQueue) + 1
  BY <1>1, AppendFacts DEF TypeOK
<1> USE DEF sniffer, watcher, sender, router, redis
<1>2. ASSUME captured < MaxPackets PROVE captured + 1 \in Packet
  BY <1>2 DEF TypeOK, Packet
<1>3. CASE Capture
  <2>1. captured + 1 \in Packet /\ captured + 1 \in 0..MaxPackets
    BY <1>2, <1>3 DEF Capture, Packet
  <2>2. backlog' \in Seq(Packet) /\ captured' \in 0..MaxPackets
    BY <1>1, <1>3, <2>1 DEF Capture
  <2> QED  BY <1>3, <2>2 DEF TypeOK, Capture
<1>4. CASE Intercept
  <2>1. captured + 1 \in Packet /\ captured + 1 \in 0..MaxPackets
    BY <1>2, <1>4 DEF Intercept, Packet
  <2>2. pktQueue' \in Seq(Packet) /\ captured' \in 0..MaxPackets /\ kind = "proxy"
    BY <1>1, <1>4, <2>1 DEF Intercept
  <2> QED  BY <1>4, <2>2 DEF TypeOK, Intercept
<1>5. CASE Enqueue
  <2>1. Head(backlog) \in Packet /\ backlog' \in Seq(Packet)
    BY <1>0, <1>5 DEF Enqueue
  <2>2. /\ pktQueue' \in Seq(Packet) /\ (kind = "agent" => Len(pktQueue') <= QueueSize)
        /\ dropped' \subseteq Packet
    <3>1. CASE Len(pktQueue) < QueueSize
      <4>1. Append(pktQueue, Head(backlog)) \in Seq(Packet)
            /\ Len(Append(pktQueue, Head(backlog))) <= QueueSize
        BY <1>0, <1>1, <2>1, <3>1
      <4> QED  BY <1>5, <3>1, <4>1 DEF TypeOK, Enqueue
    <3>2. CASE ~(Len(pktQueue) < QueueSize)
      BY <1>5, <2>1, <3>2 DEF TypeOK, Enqueue
    <3> QED  BY <3>1, <3>2
  <2>3. keysAhead' \in [Packet -> SUBSET Unit]
    BY <1>0, <1>5, <2>1 DEF TypeOK, Enqueue
  <2> QED  BY <1>5, <2>1, <2>2, <2>3 DEF TypeOK, Enqueue
<1>6. CASE WriteKey
  <2>1. written + 1 \in Unit /\ written + 1 \in 0..MaxUnits
    BY <1>6 DEF TypeOK, WriteKey, Unit
  <2> QED  BY <1>6, <2>1 DEF TypeOK, WriteKey
<1>7. CASE ReadLine
  <2>1. LineEnd \in Nat /\ SubSeq(log, position + 1, LineEnd) \in Seq(Unit)
    BY <1>7, LineFacts DEF ReadLine
  <2> QED  BY <1>7, <2>1 DEF TypeOK, ReadLine
<1>8. CASE PutLine
  <2>1. Append(keyQueue, held) \in Seq(Seq(Unit))
        /\ Len(Append(keyQueue, held)) = Len(keyQueue) + 1
    BY DEF TypeOK
  <2>2. keyQueue' \in Seq(Seq(Unit)) /\ Len(keyQueue') <= QueueSize /\ held' \in Seq(Unit)
    BY <1>0, <1>8, <2>1, EmptyFacts DEF TypeOK, PutLine
  <2> QED  BY <1>8, <2>2 DEF TypeOK, PutLine
<1>9. CASE TakePacket
  <2>1. Head(pktQueue) \in Packet /\ pktQueue' \in Seq(Packet) /\ wire' \in Seq(Packet)
        /\ Len(pktQueue') <= Len(pktQueue)
    BY <1>0, <1>1, <1>9 DEF TakePacket
  <2>2. carried' \in [Packet -> SUBSET Unit]
    BY <1>0, <1>9, <2>1 DEF TypeOK, TakePacket, Drain
  <2>3. keyQueue' \in Seq(Seq(Unit)) /\ Len(keyQueue') <= QueueSize
    <3>1. keyQueue' = <<>> /\ <<>> \in Seq(Seq(Unit)) /\ Len(<<>>) = 0
      BY <1>9, EmptyFacts DEF TakePacket
    <3> QED  BY <3>1
  <2>4. kind = "agent" => Len(pktQueue') <= QueueSize
    BY <1>0, <2>1, <1>9 DEF TypeOK, TakePacket
  <2> QED  BY <1>9, <2>1, <2>2, <2>3, <2>4 DEF TypeOK, TakePacket
<1>10. CASE CycleEnds  BY <1>10 DEF TypeOK, CycleEnds
<1>11. CASE Ack        BY <1>11 DEF TypeOK, Ack
<1>12. CASE RpcFails \/ RouterRestarts
  <2>0. Break
    BY <1>12 DEF RpcFails, RouterRestarts
  <2>1. failures' \in 0..MaxFailures /\ stale' \in 0..failures'
    BY <1>0, <2>0 DEF TypeOK, Break
  <2>2. /\ lost' \subseteq Packet /\ wire' \in Seq(Packet) /\ client' = "sleep"
        /\ UNCHANGED <<pktQueue, carried, sniffer, watcher, keyQueue, keysAhead, unflushed>>
    BY <1>0, <2>0 DEF TypeOK, Break, LoseWire, AfterFailure
  <2>3. /\ keyStore' \subseteq Unit /\ forgotten' \subseteq Packet
        /\ UNCHANGED <<clock, zset, evicted, received, limited, arrival>>
    <3>1. ToSet(received) \subseteq Packet
      BY ElementsTyped DEF TypeOK
    <3> QED  BY <1>12, <3>1 DEF TypeOK, RpcFails, RouterRestarts
  <2> QED  BY <2>1, <2>2, <2>3 DEF TypeOK
<1>13. CASE StaleTakes
  <2>1. Head(pktQueue) \in Packet /\ pktQueue' \in Seq(Packet)
        /\ Len(pktQueue') <= Len(pktQueue)
    BY <1>0, <1>13 DEF StaleTakes
  <2>2. carried' \in [Packet -> SUBSET Unit] /\ lost' \subseteq Packet
    BY <1>0, <1>13, <2>1 DEF TypeOK, StaleTakes, Drain
  <2>3. keyQueue' \in Seq(Seq(Unit)) /\ Len(keyQueue') <= QueueSize
    <3>1. keyQueue' = <<>> /\ <<>> \in Seq(Seq(Unit)) /\ Len(<<>>) = 0
      BY <1>13, EmptyFacts DEF StaleTakes
    <3> QED  BY <3>1
  <2>4. kind = "agent" => Len(pktQueue') <= QueueSize
    BY <1>0, <1>13, <2>1 DEF TypeOK, StaleTakes
  <2>5. stale' \in 0..failures
    BY <1>13 DEF TypeOK, StaleTakes
  <2> QED  BY <1>13, <2>1, <2>2, <2>3, <2>4, <2>5 DEF TypeOK, StaleTakes
<1>14. CASE StaleEnds
  <2>1. stale' \in 0..failures
    BY <1>0, <1>14 DEF TypeOK, StaleEnds
  <2> QED  BY <1>14, <2>1 DEF TypeOK, StaleEnds
<1>15. CASE NextCycle  BY <1>15 DEF TypeOK, NextCycle
<1>16. CASE Stop
  <2>1. pktQueue \o backlog \in Seq(Packet)
    BY DEF TypeOK
  <2>2. unflushed' \subseteq Packet
    BY <1>16, <2>1, ElementsTyped DEF Stop
  <2>3. /\ pktQueue' \in Seq(Packet) /\ backlog' \in Seq(Packet) /\ wire' \in Seq(Packet)
        /\ held' \in Seq(Unit) /\ keyQueue' \in Seq(Seq(Unit))
        /\ Len(pktQueue') <= QueueSize /\ Len(keyQueue') <= QueueSize
    <3>1. Len(<<>>) = 0
      OBVIOUS
    <3> QED  BY <1>16, <3>1, EmptyFacts DEF Stop
  <2> QED  BY <1>0, <1>16, <2>2, <2>3 DEF TypeOK, Stop, LoseWire
<1>17. CASE Receive
  <2>1. InWindow(zset) \cup {clock} \subseteq 0..clock
    <3>1. clock \in 0..clock
      BY <1>0
    <3>2. zset \subseteq 0..clock
      BY DEF TypeOK
    <3> QED  BY <3>1, <3>2 DEF InWindow
  <2>2. clock \in 0..MaxClock
    BY DEF TypeOK
  <2>3. carried[Head(wire)] \subseteq Unit
    BY <1>0, <1>17 DEF TypeOK, Receive
  <2>4. arrival' \in [Packet -> 0..MaxClock]
    BY <1>17, <2>2 DEF TypeOK, Receive
  <2> QED  BY <1>0, <1>1, <1>17, <2>1, <2>3, <2>4 DEF TypeOK, Receive
<1>18. CASE Tick
  <2>1. clock' \in 0..MaxClock /\ zset' \subseteq 0..clock'
    BY <1>0, <1>18 DEF TypeOK, Tick
  <2> QED  BY <1>18, <2>1 DEF TypeOK, Tick
<1>19. CASE EvictWindow  BY <1>19 DEF TypeOK, EvictWindow
<1>20. CASE UNCHANGED vars  BY <1>20 DEF vars, TypeOK
<1> QED  BY <1>3, <1>4, <1>5, <1>6, <1>7, <1>8, <1>9, <1>10, <1>11, <1>12, <1>13, <1>14,
            <1>15, <1>16, <1>17, <1>18, <1>19, <1>20 DEF Next

\* Agent, wire and router are well typed, for any queues, limits and faults.
THEOREM TypeCorrect == Spec => []TypeOK
<1>1. Init => TypeOK
  <2> SUFFICES ASSUME Init PROVE TypeOK
    OBVIOUS
  <2>1. /\ backlog \in Seq(Packet) /\ pktQueue \in Seq(Packet) /\ wire \in Seq(Packet)
        /\ received \in Seq(Packet) /\ Len(pktQueue) <= QueueSize /\ Len(keyQueue) <= QueueSize
        /\ log \in Seq(Unit) /\ held \in Seq(Unit) /\ keyQueue \in Seq(Seq(Unit))
    <3>1. Len(<<>>) = 0
      OBVIOUS
    <3> QED  BY <3>1, AgentAssumption, EmptyFacts DEF Init
  <2>2. /\ carried \in [Packet -> SUBSET Unit] /\ keysAhead \in [Packet -> SUBSET Unit]
        /\ arrival \in [Packet -> 0..MaxClock]
    BY AgentAssumption DEF Init
  <2>3. /\ captured \in 0..MaxPackets /\ written \in 0..MaxUnits /\ position \in Nat
        /\ failures \in 0..MaxFailures /\ stale \in 0..failures
        /\ clock \in 0..MaxClock /\ zset \subseteq 0..clock
    BY AgentAssumption DEF Init
  <2> QED  BY <2>1, <2>2, <2>3 DEF Init, TypeOK
<1>2. TypeOK /\ [Next]_vars => TypeOK'
  BY TypeStep
<1> QED  BY <1>1, <1>2, PTL DEF Spec

-----------------------------------------------------------------------------
(* Packets                                                                 *)

InPipeline == ToSet(received) \cup ToSet(wire) \cup ToSet(pktQueue) \cup ToSet(backlog)

\* The four parts of the pipeline are in order, each and one after another.
OrderInv ==
    /\ Increasing(received) /\ Increasing(wire) /\ Increasing(pktQueue) /\ Increasing(backlog)
    /\ Below(ToSet(received), ToSet(wire)) /\ Below(ToSet(received), ToSet(pktQueue))
    /\ Below(ToSet(received), ToSet(backlog)) /\ Below(ToSet(wire), ToSet(pktQueue))
    /\ Below(ToSet(wire), ToSet(backlog)) /\ Below(ToSet(pktQueue), ToSet(backlog))
    /\ kind = "proxy" => backlog = <<>>

\* A captured packet is in the pipeline, or left it in one of the three ways;
\* an agent that has ended holds none.
PlaceInv ==
    /\ 1..captured = InPipeline \cup dropped \cup lost \cup unflushed
    /\ dropped \cap lost = {} /\ unflushed \cap (dropped \cup lost) = {}
    /\ InPipeline \cap (dropped \cup lost \cup unflushed) = {}
    /\ Running => unflushed = {}
    /\ ~Running => wire = <<>> /\ pktQueue = <<>> /\ backlog = <<>>

\* What an append and a removal at the head mean for a sequence of packets.
LEMMA PacketSequences ==
    ASSUME TypeOK
    PROVE  /\ \A s \in Seq(Packet) : \A p \in Packet :
                 /\ ToSet(Append(s, p)) = ToSet(s) \cup {p}
                 /\ Increasing(s) /\ Below(ToSet(s), {p}) => Increasing(Append(s, p))
           /\ \A s \in Seq(Packet) : s # <<>> =>
                 /\ Head(s) \in Packet
                 /\ ToSet(s) = {Head(s)} \cup ToSet(Tail(s))
                 /\ Increasing(s) => /\ Increasing(Tail(s)) /\ Below({Head(s)}, ToSet(Tail(s)))
           /\ ToSet(<<>>) = {} /\ Increasing(<<>>)
           /\ received \in Seq(Packet) /\ wire \in Seq(Packet) /\ pktQueue \in Seq(Packet)
           /\ backlog \in Seq(Packet)
           /\ InPipeline \subseteq Packet
<1>1. \A s \in Seq(Packet) : \A p \in Packet :
        /\ ToSet(Append(s, p)) = ToSet(s) \cup {p}
        /\ Increasing(s) /\ Below(ToSet(s), {p}) => Increasing(Append(s, p))
  BY AppendFacts, IncreasingAppend
<1>2. \A s \in Seq(Packet) : s # <<>> =>
        /\ Head(s) \in Packet
        /\ ToSet(s) = {Head(s)} \cup ToSet(Tail(s))
        /\ Increasing(s) => /\ Increasing(Tail(s)) /\ Below({Head(s)}, ToSet(Tail(s)))
  BY TailFacts, IncreasingTail
<1>3. ToSet(<<>>) = {} /\ Increasing(<<>>)
  BY DEF ToSet, Increasing
<1>4. received \in Seq(Packet) /\ wire \in Seq(Packet) /\ pktQueue \in Seq(Packet)
      /\ backlog \in Seq(Packet)
  BY DEF TypeOK
<1>5. InPipeline \subseteq Packet
  BY <1>4, ElementsTyped DEF InPipeline
<1> QED  BY <1>1, <1>2, <1>3, <1>4, <1>5

\* A new packet is later than all others.
LEMMA NewPacket ==
    ASSUME TypeOK, PlaceInv, captured < MaxPackets
    PROVE  /\ captured + 1 \in Packet /\ 1..(captured + 1) = 1..captured \cup {captured + 1}
           /\ captured + 1 \notin InPipeline \cup dropped \cup lost \cup unflushed
           /\ Below(ToSet(received), {captured + 1}) /\ Below(ToSet(wire), {captured + 1})
           /\ Below(ToSet(pktQueue), {captured + 1}) /\ Below(ToSet(backlog), {captured + 1})
<1>1. captured \in Nat /\ MaxPackets \in Nat
  BY AgentAssumption DEF TypeOK
<1>2. captured + 1 \in Packet /\ 1..(captured + 1) = 1..captured \cup {captured + 1}
      /\ captured + 1 \notin 1..captured /\ \A p \in 1..captured : p < captured + 1
  BY <1>1 DEF Packet
<1>3. \A p \in InPipeline : p < captured + 1
  BY <1>2 DEF PlaceInv
<1> QED  BY <1>2, <1>3 DEF PlaceInv, InPipeline, Below

\* No packet is in two parts of the pipeline.
LEMMA PartsApart ==
    ASSUME TypeOK, OrderInv
    PROVE  /\ ToSet(received) \cap ToSet(wire) = {} /\ ToSet(received) \cap ToSet(pktQueue) = {}
           /\ ToSet(received) \cap ToSet(backlog) = {} /\ ToSet(wire) \cap ToSet(pktQueue) = {}
           /\ ToSet(wire) \cap ToSet(backlog) = {} /\ ToSet(pktQueue) \cap ToSet(backlog) = {}
<1>1. InPipeline \subseteq Packet
  BY PacketSequences
<1>2. \A p \in InPipeline : ~(p < p)
  BY <1>1 DEF Packet
<1> QED  BY <1>2 DEF OrderInv, Below, InPipeline

\* The first element of an increasing sequence is not among the others.
LEMMA HeadApart ==
    ASSUME NEW s \in Seq(Packet), s # <<>>, Increasing(s)
    PROVE  Head(s) \notin ToSet(Tail(s))
<1>1. Head(s) \in Packet /\ Below({Head(s)}, ToSet(Tail(s)))
  BY TailFacts, IncreasingTail
<1> QED  BY <1>1 DEF Below, Packet

LEMMA PathStep ==
    ASSUME TypeOK, OrderInv, PlaceInv, [Next]_vars
    PROVE  OrderInv' /\ PlaceInv'
<1> USE DEF OrderInv, PlaceInv, InPipeline, Running, sniffer, sender, router, watcher
<1>1. CASE Capture
  <2>1. /\ kind = "agent" /\ client # "ended" /\ captured' = captured + 1 /\ captured < MaxPackets
        /\ backlog' = Append(backlog, captured + 1)
        /\ UNCHANGED <<kind, client, dropped, lost, unflushed, received, wire, pktQueue>>
    BY <1>1 DEF Capture
  <2>2. ToSet(backlog') = ToSet(backlog) \cup {captured + 1} /\ Increasing(backlog')
    BY <2>1, NewPacket, PacketSequences
  <2> QED  BY <2>1, <2>2, NewPacket DEF Below
<1>2. CASE Intercept
  <2>1. /\ kind = "proxy" /\ client # "ended" /\ captured' = captured + 1 /\ captured < MaxPackets
        /\ pktQueue' = Append(pktQueue, captured + 1) /\ backlog = <<>>
        /\ UNCHANGED <<kind, client, dropped, lost, unflushed, received, wire, backlog>>
    BY <1>2 DEF Intercept, TypeOK
  <2>2. ToSet(pktQueue') = ToSet(pktQueue) \cup {captured + 1} /\ Increasing(pktQueue')
        /\ ToSet(backlog) = {}
    BY <2>1, NewPacket, PacketSequences
  <2> QED  BY <2>1, <2>2, NewPacket DEF Below
<1>3. CASE Enqueue
  <2>1. /\ backlog # <<>> /\ backlog' = Tail(backlog)
        /\ client # "ended"
        /\ UNCHANGED <<kind, client, captured, lost, unflushed, received, wire>>
    BY <1>3 DEF Enqueue
  <2>2. /\ Head(backlog) \in Packet /\ ToSet(backlog) = {Head(backlog)} \cup ToSet(backlog')
        /\ Increasing(backlog') /\ Below({Head(backlog)}, ToSet(backlog'))
        /\ Head(backlog) \notin ToSet(backlog')
    BY <2>1, PacketSequences, HeadApart
  <2>3. CASE Len(pktQueue) < QueueSize
    <3>1. pktQueue' = Append(pktQueue, Head(backlog)) /\ UNCHANGED dropped
      BY <1>3, <2>3 DEF Enqueue
    <3>2. Below(ToSet(pktQueue), {Head(backlog)})
      BY <2>2 DEF Below
    <3>3. ToSet(pktQueue') = ToSet(pktQueue) \cup {Head(backlog)} /\ Increasing(pktQueue')
      BY <2>2, <3>1, <3>2, PacketSequences
    <3> QED  BY <2>1, <2>2, <3>1, <3>3 DEF Below
  <2>4. CASE ~(Len(pktQueue) < QueueSize)
    <3>1. dropped' = dropped \cup {Head(backlog)} /\ UNCHANGED pktQueue
      BY <1>3, <2>4 DEF Enqueue
    <3> QED  BY <2>1, <2>2, <3>1, PartsApart DEF Below
  <2> QED  BY <2>3, <2>4
<1>4. CASE TakePacket
  <2>1. /\ pktQueue # <<>> /\ pktQueue' = Tail(pktQueue) /\ wire' = Append(wire, Head(pktQueue))
        /\ client # "ended"
        /\ UNCHANGED <<kind, client, captured, dropped, lost, unflushed, received, backlog>>
    BY <1>4 DEF TakePacket
  <2>2. /\ Head(pktQueue) \in Packet /\ ToSet(pktQueue) = {Head(pktQueue)} \cup ToSet(pktQueue')
        /\ Increasing(pktQueue') /\ Below({Head(pktQueue)}, ToSet(pktQueue'))
    BY <2>1, PacketSequences
  <2>3. Below(ToSet(wire), {Head(pktQueue)})
    BY <2>2 DEF Below
  <2>4. ToSet(wire') = ToSet(wire) \cup {Head(pktQueue)} /\ Increasing(wire')
    BY <2>1, <2>2, <2>3, PacketSequences
  <2> QED  BY <2>1, <2>2, <2>4 DEF Below
<1>5. CASE RpcFails \/ RouterRestarts
  <2>1. /\ wire' = <<>> /\ lost' = lost \cup ToSet(wire)
        /\ client # "ended" /\ client' = "sleep"
        /\ UNCHANGED <<kind, captured, dropped, unflushed, received, pktQueue, backlog>>
    BY <1>5 DEF RpcFails, RouterRestarts, Break, LoseWire, AfterFailure
  <2>2. ToSet(wire') = {} /\ Increasing(wire')
    BY <2>1, PacketSequences
  <2> QED  BY <2>1, <2>2, PartsApart DEF Below
<1>10. CASE Stop
  <2>1. /\ wire' = <<>> /\ pktQueue' = <<>> /\ backlog' = <<>>
        /\ lost' = lost \cup ToSet(wire) /\ unflushed' = ToSet(pktQueue \o backlog)
        /\ client # "ended" /\ client' = "ended"
        /\ UNCHANGED <<kind, captured, dropped, received>>
    BY <1>10 DEF Stop, LoseWire
  <2>2. ToSet(pktQueue \o backlog) = ToSet(pktQueue) \cup ToSet(backlog)
    BY PacketSequences, Concatenation
  <2>3. ToSet(<<>>) = {} /\ Increasing(<<>>) /\ unflushed = {}
    BY <2>1, PacketSequences
  <2> QED  BY <2>1, <2>2, <2>3, PartsApart DEF Below
<1>6. CASE StaleTakes
  <2>1. /\ pktQueue # <<>> /\ pktQueue' = Tail(pktQueue) /\ lost' = lost \cup {Head(pktQueue)}
        /\ client # "ended"
        /\ UNCHANGED <<kind, client, captured, dropped, unflushed, received, wire, backlog>>
    BY <1>6 DEF StaleTakes
  <2>2. /\ Head(pktQueue) \in Packet /\ ToSet(pktQueue) = {Head(pktQueue)} \cup ToSet(pktQueue')
        /\ Increasing(pktQueue') /\ Head(pktQueue) \notin ToSet(pktQueue')
    BY <2>1, PacketSequences, HeadApart
  <2> QED  BY <2>1, <2>2, PartsApart DEF Below
<1>7. CASE Receive
  <2>1. /\ wire # <<>> /\ wire' = Tail(wire) /\ received' = Append(received, Head(wire))
        /\ client # "ended"
        /\ UNCHANGED <<kind, client, captured, dropped, lost, unflushed, pktQueue, backlog>>
    BY <1>7 DEF Receive
  <2>2. /\ Head(wire) \in Packet /\ ToSet(wire) = {Head(wire)} \cup ToSet(wire')
        /\ Increasing(wire') /\ Below({Head(wire)}, ToSet(wire'))
    BY <2>1, PacketSequences
  <2>3. Below(ToSet(received), {Head(wire)})
    BY <2>2 DEF Below
  <2>4. ToSet(received') = ToSet(received) \cup {Head(wire)} /\ Increasing(received')
    BY <2>1, <2>2, <2>3, PacketSequences
  <2> QED  BY <2>1, <2>2, <2>4 DEF Below
<1>8. CASE WriteKey \/ ReadLine \/ PutLine \/ CycleEnds \/ Ack \/ StaleEnds \/ NextCycle
           \/ EvictWindow \/ Tick
  <2>1. /\ UNCHANGED <<kind, captured, dropped, lost, unflushed, received, wire, pktQueue, backlog>>
        /\ Running' = Running
    BY <1>8 DEF WriteKey, ReadLine, PutLine, CycleEnds, Ack, StaleEnds, NextCycle, EvictWindow, Tick
  <2> QED  BY <2>1
<1>9. CASE UNCHANGED vars
  BY <1>9 DEF vars
<1> QED  BY <1>1, <1>2, <1>3, <1>4, <1>5, <1>6, <1>7, <1>8, <1>9, <1>10 DEF Next

\* A captured packet is on its way or arrived, in order and once, or it met a
\* full queue, or it was taken from the queue for an RPC that failed, or it
\* waited in the agent when that was stopped, whatever the size of the queues
\* and however often RPCs fail and the router restarts.
THEOREM PacketsCorrect == Spec => []PacketsAccounted
<1>1. Init => OrderInv /\ PlaceInv
  <2> SUFFICES ASSUME Init PROVE OrderInv /\ PlaceInv
    OBVIOUS
  <2>1. received = <<>> /\ wire = <<>> /\ pktQueue = <<>> /\ backlog = <<>> /\ captured = 0
        /\ dropped = {} /\ lost = {} /\ unflushed = {} /\ Running
    BY DEF Init, Running
  <2>2. ToSet(<<>>) = {} /\ Increasing(<<>>) /\ 1..0 = {}
    BY DEF ToSet, Increasing
  <2> QED  BY <2>1, <2>2 DEF OrderInv, PlaceInv, InPipeline, Below
<1>2. TypeOK /\ OrderInv /\ PlaceInv /\ [Next]_vars => OrderInv' /\ PlaceInv'
  BY PathStep
<1>3. TypeOK /\ OrderInv /\ PlaceInv => PacketsAccounted
  <2> SUFFICES ASSUME TypeOK, OrderInv, PlaceInv PROVE PacketsAccounted
    OBVIOUS
  <2>1. /\ received \in Seq(Packet) /\ wire \in Seq(Packet) /\ pktQueue \in Seq(Packet)
        /\ backlog \in Seq(Packet)
    BY PacketSequences
  <2>2. /\ pktQueue \o backlog \in Seq(Packet)
        /\ ToSet(pktQueue \o backlog) = ToSet(pktQueue) \cup ToSet(backlog)
        /\ Increasing(pktQueue \o backlog)
    BY <2>1, Concatenation DEF OrderInv
  <2>3. /\ received \o wire \in Seq(Packet)
        /\ ToSet(received \o wire) = ToSet(received) \cup ToSet(wire)
        /\ Increasing(received \o wire)
    BY <2>1, Concatenation DEF OrderInv
  <2>4. Below(ToSet(received \o wire), ToSet(pktQueue \o backlog))
    BY <2>2, <2>3 DEF OrderInv, Below
  <2>5. Pipeline = (received \o wire) \o (pktQueue \o backlog)
    BY <2>1, <2>2, <2>3 DEF Pipeline
  <2>6. ToSet(Pipeline) = InPipeline /\ Increasing(Pipeline)
    <3>1. /\ ToSet(Pipeline) = ToSet(received \o wire) \cup ToSet(pktQueue \o backlog)
          /\ Increasing(Pipeline)
      BY <2>2, <2>3, <2>4, <2>5, Concatenation
    <3> QED  BY <2>2, <2>3, <3>1 DEF InPipeline
  <2>7. ~Running => Pipeline = received
    BY <2>1 DEF PlaceInv, Pipeline
  <2> QED  BY <2>6, <2>7 DEF PacketsAccounted, InOrderOnce, Increasing, PlaceInv
<1> QED  BY <1>1, <1>2, <1>3, TypeCorrect, PTL DEF Spec

-----------------------------------------------------------------------------
(* Keys                                                                    *)

\* Packets that left the queue for a chunk.
Carriers == ToSet(received) \cup ToSet(wire) \cup lost
CarriedBy(c, S) == UNION {c[q] : q \in S}

\* The keys queued before a packet wait in the queue, or a chunk no later than
\* the packet's own carries them.
KeyInv ==
    /\ \A q \in Packet : carried[q] # {} => q \in Carriers
    /\ \A p \in Packet : p \notin 1..captured \/ p \in ToSet(backlog) => keysAhead[p] = {}
    /\ \A p \in ToSet(pktQueue) : keysAhead[p]
           \subseteq Units(keyQueue) \cup CarriedBy(carried, Carriers)
    /\ \A p \in ToSet(wire) :
          keysAhead[p] \subseteq CarriedBy(carried,
              ToSet(received) \cup lost \cup {q \in ToSet(wire) : q <= p})
    /\ \A p \in ToSet(received) : keysAhead[p] \subseteq CarriedBy(carried, ToSet(received) \cup lost)
    /\ \A q \in ToSet(received) \ (limited \cup forgotten) : carried[q] \subseteq keyStore
    /\ limited \subseteq ToSet(received)

\* A chunk is taken by a packet that did not carry anything yet.
LEMMA TakeKeys ==
    ASSUME TypeOK, KeyInv, OrderInv, PlaceInv, pktQueue # <<>>,
           carried' = [carried EXCEPT ![Head(pktQueue)] = Drain]
    PROVE  /\ \A S \in SUBSET Packet : Head(pktQueue) \notin S
                  => CarriedBy(carried', S) = CarriedBy(carried, S)
           /\ Head(pktQueue) \notin Carriers
           /\ \A S \in SUBSET Packet : Head(pktQueue) \in S =>
                  CarriedBy(carried', S) = CarriedBy(carried, S \ {Head(pktQueue)}) \cup Units(keyQueue)
           /\ Carriers \subseteq Packet
<1> DEFINE h == Head(pktQueue)
<1>1. h \in Packet /\ h \in ToSet(pktQueue)
  BY PacketSequences
<1>2. h \notin Carriers
  BY <1>1, PartsApart DEF Carriers, PlaceInv, InPipeline
<1>3. carried'[h] = Units(keyQueue) /\ \A q \in Packet : q # h => carried'[q] = carried[q]
  BY <1>1 DEF TypeOK, Drain
<1>4. Carriers \subseteq Packet
  BY PacketSequences DEF Carriers, InPipeline, TypeOK
<1> HIDE DEF h
<1>5. ASSUME NEW S \in SUBSET Packet, h \notin S PROVE CarriedBy(carried', S) = CarriedBy(carried, S)
  BY <1>3, <1>5 DEF CarriedBy
<1>6. ASSUME NEW S \in SUBSET Packet, h \in S
      PROVE  CarriedBy(carried', S) = CarriedBy(carried, S \ {h}) \cup Units(keyQueue)
  BY <1>3, <1>6 DEF CarriedBy
<1> QED  BY <1>2, <1>4, <1>5, <1>6 DEF h

LEMMA KeyStep ==
    ASSUME TypeOK, KeyInv, OrderInv, PlaceInv, [Next]_vars
    PROVE  KeyInv'
<1> USE DEF sniffer, sender, router, watcher
<1>0. InPipeline \subseteq Packet /\ Carriers \subseteq Packet
  BY PacketSequences DEF Carriers, InPipeline, TypeOK
<1>1. CASE Capture
  <2>1. /\ captured' = captured + 1 /\ captured < MaxPackets
        /\ backlog' = Append(backlog, captured + 1)
        /\ UNCHANGED <<keyQueue, lost, received, wire, pktQueue, carried, keysAhead, keyStore, limited, forgotten>>
    BY <1>1 DEF Capture
  <2>2. /\ ToSet(backlog') = ToSet(backlog) \cup {captured + 1}
        /\ captured + 1 \notin 1..captured /\ 1..captured' = 1..captured \cup {captured + 1}
    <3>1. captured + 1 \notin 1..captured
      BY DEF TypeOK
    <3> QED  BY <2>1, <3>1, NewPacket, PacketSequences
  <2> QED  BY <2>1, <2>2 DEF KeyInv, CarriedBy, Carriers
<1>2. CASE Intercept
  <2>1. /\ captured' = captured + 1 /\ captured < MaxPackets
        /\ pktQueue' = Append(pktQueue, captured + 1)
        /\ UNCHANGED <<keyQueue, lost, received, wire, backlog, carried, keysAhead, keyStore, limited, forgotten>>
    BY <1>2 DEF Intercept
  <2>2. /\ ToSet(pktQueue') = ToSet(pktQueue) \cup {captured + 1}
        /\ captured + 1 \in Packet
        /\ captured + 1 \notin 1..captured /\ 1..captured' = 1..captured \cup {captured + 1}
    <3>1. captured + 1 \notin 1..captured
      BY DEF TypeOK
    <3> QED  BY <2>1, <3>1, NewPacket, PacketSequences
  <2>3. keysAhead[captured + 1] = {}
    BY <2>2 DEF KeyInv
  <2> QED  BY <2>1, <2>2, <2>3 DEF KeyInv, CarriedBy, Carriers
<1>3. CASE Enqueue
  <2>1. /\ backlog # <<>> /\ backlog' = Tail(backlog)
        /\ UNCHANGED <<captured, keyQueue, lost, received, wire, carried, keyStore, limited, forgotten>>
    BY <1>3 DEF Enqueue
  <2>2. /\ Head(backlog) \in Packet /\ ToSet(backlog) = {Head(backlog)} \cup ToSet(backlog')
        /\ Head(backlog) \notin ToSet(backlog')
        /\ Head(backlog) \in 1..captured
    <3>1. /\ Head(backlog) \in Packet /\ ToSet(backlog) = {Head(backlog)} \cup ToSet(backlog')
          /\ Head(backlog) \notin ToSet(backlog')
      BY <2>1, PacketSequences, HeadApart DEF OrderInv
    <3> QED  BY <3>1 DEF PlaceInv, InPipeline
  <2>3. CASE Len(pktQueue) < QueueSize
    <3>1. /\ pktQueue' = Append(pktQueue, Head(backlog))
          /\ keysAhead' = [keysAhead EXCEPT ![Head(backlog)] = QueuedUnits]
      BY <1>3, <2>3 DEF Enqueue
    <3>2. ToSet(pktQueue') = ToSet(pktQueue) \cup {Head(backlog)}
      BY <2>2, <3>1, PacketSequences
    <3>3. /\ keysAhead'[Head(backlog)] = QueuedUnits
          /\ \A p \in Packet : p # Head(backlog) => keysAhead'[p] = keysAhead[p]
      BY <2>2, <3>1 DEF TypeOK
    <3>4. Head(backlog) \notin ToSet(pktQueue) \cup ToSet(wire) \cup ToSet(received)
      BY <2>2, PartsApart
    <3>5. QueuedUnits \subseteq Units(keyQueue) \cup CarriedBy(carried, Carriers)
      BY DEF QueuedUnits, CarriedBy, KeyInv
    <3>6. \A p \in InPipeline : p \in Packet
      BY <1>0
    <3>7. \A p \in ToSet(wire) \cup ToSet(received) \cup ToSet(pktQueue) : keysAhead'[p] = keysAhead[p]
      BY <3>3, <3>4, <3>6 DEF InPipeline
    <3>8. CarriedBy(carried', Carriers') = CarriedBy(carried, Carriers)
      BY <2>1 DEF CarriedBy, Carriers
    <3>9. \A p \in ToSet(pktQueue') : keysAhead'[p]
              \subseteq Units(keyQueue) \cup CarriedBy(carried, Carriers)
      BY <3>2, <3>3, <3>5, <3>7 DEF KeyInv
    <3>10. \A p \in Packet : p \notin 1..captured' \/ p \in ToSet(backlog') => keysAhead'[p] = {}
      BY <2>1, <2>2, <3>3 DEF KeyInv
    <3> QED  BY <2>1, <3>7, <3>8, <3>9, <3>10 DEF KeyInv, CarriedBy, Carriers
  <2>4. CASE ~(Len(pktQueue) < QueueSize)
    <3>1. UNCHANGED <<pktQueue, keysAhead>>
      BY <1>3, <2>4 DEF Enqueue
    <3> QED  BY <2>1, <2>2, <3>1 DEF KeyInv, CarriedBy, Carriers
  <2> QED  BY <2>3, <2>4
<1>4. CASE PutLine
  <2>1. /\ keyQueue' = Append(keyQueue, held)
        /\ UNCHANGED <<captured, backlog, pktQueue, lost, received,
                       wire, carried, keysAhead, keyStore, limited, forgotten>>
    BY <1>4 DEF PutLine
  <2>2. Units(keyQueue) \subseteq Units(keyQueue')
    BY <2>1, UnitsFacts DEF TypeOK
  <2> QED  BY <2>1, <2>2 DEF KeyInv, CarriedBy, Carriers
<1>5. CASE TakePacket
  <2> DEFINE h == Head(pktQueue)
  <2>1. /\ pktQueue # <<>> /\ pktQueue' = Tail(pktQueue) /\ wire' = Append(wire, h)
        /\ carried' = [carried EXCEPT ![h] = Drain] /\ keyQueue' = <<>>
        /\ UNCHANGED <<captured, backlog, lost, received, keysAhead, keyStore, limited, forgotten>>
    BY <1>5 DEF TakePacket
  <2>2. /\ h \in Packet /\ ToSet(pktQueue) = {h} \cup ToSet(pktQueue')
        /\ ToSet(wire') = ToSet(wire) \cup {h} /\ Below(ToSet(wire), {h})
    <3>1. h \in Packet /\ ToSet(pktQueue) = {h} \cup ToSet(pktQueue')
      BY <2>1, PacketSequences
    <3> QED  BY <2>1, <3>1, PacketSequences DEF OrderInv, Below
  <2>3. /\ \A S \in SUBSET Packet : h \notin S => CarriedBy(carried', S) = CarriedBy(carried, S)
        /\ h \notin Carriers
        /\ \A S \in SUBSET Packet : h \in S
               => CarriedBy(carried', S) = CarriedBy(carried, S \ {h}) \cup Units(keyQueue)
    BY <2>1, TakeKeys
  <2>4. \A q \in Packet : q # h => carried'[q] = carried[q]
    BY <2>1, <2>2 DEF TypeOK
  <2> HIDE DEF h
  <2>5. Carriers' = Carriers \cup {h}
    BY <2>1, <2>2 DEF Carriers
  <2>6. Carriers' \subseteq Packet /\ Carriers' \ {h} = Carriers
    BY <1>0, <2>2, <2>3, <2>5
  <2>7. CarriedBy(carried', Carriers') = CarriedBy(carried, Carriers) \cup Units(keyQueue)
    BY <2>3, <2>5, <2>6
  <2>8. \A q \in Packet : carried'[q] # {} => q \in Carriers'
    BY <2>4, <2>5 DEF KeyInv
  <2>9. \A p \in ToSet(pktQueue') : keysAhead'[p] \subseteq CarriedBy(carried', Carriers')
    BY <2>1, <2>2, <2>7 DEF KeyInv
  <2>10. ASSUME NEW p \in ToSet(wire')
         PROVE  keysAhead'[p] \subseteq CarriedBy(carried',
                    ToSet(received) \cup lost \cup {q \in ToSet(wire') : q <= p})
    <3>1. CASE p = h
      <4>1. \A q \in ToSet(wire') : q <= h
        BY <1>0, <2>2 DEF Below, InPipeline, Packet
      <4>2. ToSet(received) \cup lost \cup {q \in ToSet(wire') : q <= p} = Carriers'
        BY <2>1, <3>1, <4>1 DEF Carriers
      <4>3. keysAhead'[h] \subseteq CarriedBy(carried', Carriers')
        BY <2>1, <2>2, <2>7 DEF KeyInv
      <4> QED  BY <3>1, <4>2, <4>3
    <3>2. CASE p # h
      <4>1. p \in ToSet(wire) /\ p < h /\ p \in Packet
        BY <1>0, <2>2, <3>2 DEF Below, InPipeline
      <4>2. {q \in ToSet(wire') : q <= p} = {q \in ToSet(wire) : q <= p}
        BY <2>2, <4>1 DEF Packet
      <4> DEFINE S == ToSet(received) \cup lost \cup {q \in ToSet(wire) : q <= p}
      <4>3. S \subseteq Carriers
        BY DEF Carriers
      <4>4. S \in SUBSET Packet /\ h \notin S
        BY <1>0, <2>3, <4>3
      <4>5. keysAhead'[p] \subseteq CarriedBy(carried, S)
        BY <2>1, <4>1 DEF KeyInv
      <4> HIDE DEF S
      <4>6. CarriedBy(carried', S) = CarriedBy(carried, S)
        BY <2>3, <4>4
      <4> QED  BY <4>2, <4>5, <4>6 DEF S
    <3> QED  BY <3>1, <3>2
  <2>11. ASSUME NEW p \in ToSet(received)
         PROVE  keysAhead'[p] \subseteq CarriedBy(carried', ToSet(received) \cup lost)
    <3>1. ToSet(received) \cup lost \in SUBSET Packet /\ h \notin ToSet(received) \cup lost
      BY <1>0, <2>3 DEF Carriers
    <3>2. CarriedBy(carried', ToSet(received) \cup lost) = CarriedBy(carried, ToSet(received) \cup lost)
      BY <2>3, <3>1
    <3> QED  BY <2>1, <3>2 DEF KeyInv
  <2>12. \A q \in ToSet(received) \ (limited \cup forgotten) : carried'[q] \subseteq keyStore
    BY <1>0, <2>3, <2>4 DEF KeyInv, Carriers
  <2> QED  BY <2>1, <2>2, <2>8, <2>9, <2>10, <2>11, <2>12 DEF KeyInv, CarriedBy, Carriers
<1>6. CASE RpcFails \/ RouterRestarts \/ Stop
  <2>1. /\ wire' = <<>> /\ lost' = lost \cup ToSet(wire)
        /\ UNCHANGED <<captured, received, carried, keysAhead, limited>>
        /\ \/ UNCHANGED <<backlog, pktQueue, keyQueue>>
           \/ backlog' = <<>> /\ pktQueue' = <<>>
        /\ UNCHANGED <<keyStore, forgotten>> \/ forgotten' = ToSet(received)
    BY <1>6 DEF RpcFails, RouterRestarts, Break, Stop, LoseWire, AfterFailure
  <2>2. ToSet(wire') = {} /\ ToSet(<<>>) = {}
    BY <2>1, PacketSequences
  <2>3. Carriers' = Carriers
    BY <2>1, <2>2 DEF Carriers
  <2>4. \A p \in ToSet(received) : keysAhead[p] \subseteq CarriedBy(carried, ToSet(received) \cup lost')
    BY <2>1 DEF KeyInv, CarriedBy
  <2>5. \A p \in ToSet(pktQueue') : keysAhead[p]
            \subseteq Units(keyQueue') \cup CarriedBy(carried, Carriers)
    BY <2>1, <2>2 DEF KeyInv
  <2>6. \A p \in Packet : p \notin 1..captured \/ p \in ToSet(backlog') => keysAhead[p] = {}
    BY <2>1, <2>2 DEF KeyInv
  <2>7. \A q \in ToSet(received) \ (limited \cup forgotten') : carried[q] \subseteq keyStore'
    BY <2>1 DEF KeyInv
  <2> QED  BY <2>1, <2>2, <2>3, <2>4, <2>5, <2>6, <2>7 DEF KeyInv
<1>7. CASE StaleTakes
  <2> DEFINE h == Head(pktQueue)
  <2>1. /\ pktQueue # <<>> /\ pktQueue' = Tail(pktQueue) /\ lost' = lost \cup {h}
        /\ carried' = [carried EXCEPT ![h] = Drain] /\ keyQueue' = <<>>
        /\ UNCHANGED <<captured, backlog, wire, received, keysAhead, keyStore, limited, forgotten>>
    BY <1>7 DEF StaleTakes
  <2>2. h \in Packet /\ ToSet(pktQueue) = {h} \cup ToSet(pktQueue')
    BY <2>1, PacketSequences
  <2>3. /\ \A S \in SUBSET Packet : h \notin S => CarriedBy(carried', S) = CarriedBy(carried, S)
        /\ h \notin Carriers
        /\ \A S \in SUBSET Packet : h \in S
               => CarriedBy(carried', S) = CarriedBy(carried, S \ {h}) \cup Units(keyQueue)
    BY <2>1, TakeKeys
  <2>4. \A q \in Packet : q # h => carried'[q] = carried[q]
    BY <2>1, <2>2 DEF TypeOK
  <2> HIDE DEF h
  <2>5. Carriers' = Carriers \cup {h}
    BY <2>1 DEF Carriers
  <2>6. Carriers' \subseteq Packet /\ Carriers' \ {h} = Carriers
    BY <1>0, <2>2, <2>3, <2>5
  <2>7. CarriedBy(carried', Carriers') = CarriedBy(carried, Carriers) \cup Units(keyQueue)
    BY <2>3, <2>5, <2>6
  <2>8. \A q \in Packet : carried'[q] # {} => q \in Carriers'
    BY <2>4, <2>5 DEF KeyInv
  <2>9. \A p \in ToSet(pktQueue') : keysAhead'[p] \subseteq CarriedBy(carried', Carriers')
    BY <2>1, <2>2, <2>7 DEF KeyInv
  <2>10. ASSUME NEW S \in SUBSET Carriers
         PROVE  CarriedBy(carried, S) \subseteq CarriedBy(carried', S \cup {h})
    <3>1. CarriedBy(carried', S) = CarriedBy(carried, S)
      BY <1>0, <2>3, <2>10
    <3> QED  BY <3>1 DEF CarriedBy
  <2>11. ASSUME NEW p \in ToSet(wire)
         PROVE  keysAhead'[p] \subseteq CarriedBy(carried',
                    ToSet(received) \cup lost' \cup {q \in ToSet(wire) : q <= p})
    <3> DEFINE S == ToSet(received) \cup lost \cup {q \in ToSet(wire) : q <= p}
    <3>1. S \in SUBSET Carriers /\ keysAhead[p] \subseteq CarriedBy(carried, S)
      BY DEF Carriers, KeyInv
    <3>2. ToSet(received) \cup lost' \cup {q \in ToSet(wire) : q <= p} = S \cup {h}
      BY <2>1
    <3> HIDE DEF S
    <3> QED  BY <2>1, <2>10, <3>1, <3>2
  <2>12. ASSUME NEW p \in ToSet(received)
         PROVE  keysAhead'[p] \subseteq CarriedBy(carried', ToSet(received) \cup lost')
    <3> DEFINE S == ToSet(received) \cup lost
    <3>1. S \in SUBSET Carriers /\ keysAhead[p] \subseteq CarriedBy(carried, S)
      BY DEF Carriers, KeyInv
    <3>2. ToSet(received) \cup lost' = S \cup {h}
      BY <2>1
    <3> HIDE DEF S
    <3> QED  BY <2>1, <2>10, <3>1, <3>2
  <2>13. \A q \in ToSet(received) \ (limited \cup forgotten) : carried'[q] \subseteq keyStore
    BY <1>0, <2>3, <2>4 DEF KeyInv, Carriers
  <2> QED  BY <2>1, <2>2, <2>8, <2>9, <2>11, <2>12, <2>13 DEF KeyInv
<1>8. CASE Receive
  <2> DEFINE h == Head(wire)
  <2>1. /\ wire # <<>> /\ wire' = Tail(wire) /\ received' = Append(received, h)
        /\ \/ keyStore' = keyStore \cup carried[h] /\ UNCHANGED limited
           \/ limited' = limited \cup {h} /\ UNCHANGED keyStore
        /\ UNCHANGED <<captured, backlog, pktQueue, keyQueue, lost, carried, keysAhead, forgotten>>
    BY <1>8 DEF Receive
  <2>2. /\ h \in Packet /\ ToSet(wire) = {h} \cup ToSet(wire') /\ Below({h}, ToSet(wire'))
        /\ ToSet(received') = ToSet(received) \cup {h}
    BY <2>1, PacketSequences DEF OrderInv
  <2> HIDE DEF h
  <2>3. Carriers' = Carriers
    BY <2>1, <2>2 DEF Carriers
  <2>4. \A q \in ToSet(wire) : q <= h => q = h
    BY <1>0, <2>2 DEF Below, InPipeline, Packet
  <2>5. keysAhead[h] \subseteq CarriedBy(carried, ToSet(received') \cup lost)
    <3>1. {q \in ToSet(wire) : q <= h} \subseteq {h}
      BY <2>4
    <3> QED  BY <2>2, <3>1 DEF KeyInv, CarriedBy
  <2>6. \A p \in ToSet(received') : keysAhead[p]
            \subseteq CarriedBy(carried, ToSet(received') \cup lost)
    BY <2>2, <2>5 DEF KeyInv, CarriedBy
  <2>7. ASSUME NEW p \in ToSet(wire')
        PROVE  keysAhead[p] \subseteq CarriedBy(carried,
                   ToSet(received') \cup lost \cup {q \in ToSet(wire') : q <= p})
    <3>1. p \in ToSet(wire)
      BY <2>2
    <3>2. ToSet(received) \cup lost \cup {q \in ToSet(wire) : q <= p}
             \subseteq ToSet(received') \cup lost \cup {q \in ToSet(wire') : q <= p}
      BY <2>2
    <3> QED  BY <3>1, <3>2 DEF KeyInv, CarriedBy
  <2>8. \A q \in ToSet(received') \ (limited' \cup forgotten') : carried[q] \subseteq keyStore'
    BY <2>1, <2>2 DEF KeyInv
  <2>9. limited' \subseteq ToSet(received')
    BY <2>1, <2>2 DEF KeyInv
  <2> QED  BY <2>1, <2>3, <2>6, <2>7, <2>8, <2>9 DEF KeyInv
<1>9. CASE WriteKey \/ ReadLine \/ CycleEnds \/ Ack \/ StaleEnds \/ NextCycle
           \/ EvictWindow \/ Tick
  <2>1. UNCHANGED <<captured, backlog, pktQueue, keyQueue, wire, received, lost, carried, keysAhead,
                    keyStore, limited, forgotten>>
    BY <1>9 DEF WriteKey, ReadLine, CycleEnds, Ack, StaleEnds, NextCycle,
       EvictWindow, Tick
  <2> QED  BY <2>1 DEF KeyInv, Carriers
<1>10. CASE UNCHANGED vars
  BY <1>10 DEF vars, KeyInv, Carriers
<1> QED  BY <1>1, <1>2, <1>3, <1>4, <1>5, <1>6, <1>7, <1>8, <1>9, <1>10 DEF Next

\* What the theorems below start from.
LEMMA Invariants == Spec => [](TypeOK /\ OrderInv /\ PlaceInv /\ KeyInv)
<1>1. Init => OrderInv /\ PlaceInv /\ KeyInv
  <2> SUFFICES ASSUME Init PROVE OrderInv /\ PlaceInv /\ KeyInv
    OBVIOUS
  <2>1. /\ received = <<>> /\ wire = <<>> /\ pktQueue = <<>> /\ backlog = <<>> /\ captured = 0
        /\ dropped = {} /\ lost = {} /\ limited = {} /\ unflushed = {} /\ Running
        /\ carried = [p \in Packet |-> {}] /\ keysAhead = [p \in Packet |-> {}]
    BY DEF Init, Running
  <2>2. ToSet(<<>>) = {} /\ Increasing(<<>>) /\ 1..0 = {}
    BY DEF ToSet, Increasing
  <2> QED  BY <2>1, <2>2 DEF OrderInv, PlaceInv, KeyInv, InPipeline, Below
<1>2. TypeOK /\ OrderInv /\ PlaceInv /\ KeyInv /\ [Next]_vars => OrderInv' /\ PlaceInv' /\ KeyInv'
  BY PathStep, KeyStep
<1> QED  BY <1>1, <1>2, TypeCorrect, PTL DEF Spec

\* The keys queued before a packet are at the router when the packet is
\* admitted, unless a chunk that was lost or refused carried them or a restart
\* of the router has wiped them out, however the browser, the two watchers, the
\* cycles and the failures interleave.
THEOREM KeysCorrect == Spec => []KeysTravelAhead
<1>1. KeyInv => KeysTravelAhead
  BY DEF KeyInv, KeysTravelAhead, CarriedBy
<1> QED  BY <1>1, Invariants, PTL

\* Packets share a stream identifier only within a connection, and always in
\* one with no web server whose name sorts after the client's.
THEOREM StreamsCorrect == Spec => []StreamsFollowConnections
<1>1. ASSUME TypeOK PROVE StreamsFollowConnections
  <2>1. ToSet(received) \subseteq Packet
    BY <1>1, PacketSequences DEF InPipeline
  <2>2. \A p \in Packet : Src[p] \in Nat /\ Dst[p] \in Nat
    BY AgentAssumption
  <2>3. ASSUME NEW p \in Packet, NEW q \in Packet, StreamId(p) = StreamId(q)
        PROVE  {Src[p], Dst[p]} = {Src[q], Dst[q]}
    BY <2>3 DEF StreamId
  <2>4. ASSUME NEW p \in Packet, NEW q \in Packet, {Src[p], Dst[p]} = {Src[q], Dst[q]},
               \A s \in {Src[p], Dst[p]} \cap Web : \A c \in {Src[p], Dst[p]} : ~(s > c)
        PROVE  StreamId(p) = StreamId(q)
    <3>1. \/ Src[p] = Src[q] /\ Dst[p] = Dst[q]
          \/ Src[p] = Dst[q] /\ Dst[p] = Src[q]
      BY <2>4
    <3>2. CASE Src[p] = Src[q] /\ Dst[p] = Dst[q]
      BY <3>2 DEF StreamId
    <3>3. CASE Src[p] = Dst[q] /\ Dst[p] = Src[q]
      BY <2>2, <2>4, <3>3 DEF StreamId
    <3> QED  BY <3>1, <3>2, <3>3
  <2> QED  BY <2>1, <2>3, <2>4 DEF StreamsFollowConnections
<1> QED  BY <1>1, TypeCorrect, PTL

-----------------------------------------------------------------------------
(* The rate limiter                                                        *)

\* The members of the window are milliseconds of the arrivals in it, admitted
\* and refused, and all of them if Redis has kept them.
Recent(t) == {j \in DOMAIN received : arrival[received[j]] > t - Window}
RecentTimes == {arrival[received[j]] : j \in Recent(clock)}
LimitInv ==
    /\ InWindow(zset) \subseteq RecentTimes
    /\ ~evicted => InWindow(zset) = RecentTimes
    /\ LimitsTheRate

\* An image is no larger than its source, and as large if nothing coincides.
LEMMA ImageSize ==
    ASSUME NEW S, IsFiniteSet(S), NEW f \in [S -> Nat]
    PROVE  /\ IsFiniteSet({f[x] : x \in S})
           /\ Cardinality({f[x] : x \in S}) <= Cardinality(S)
           /\ (\A x, y \in S : f[x] = f[y] => x = y)
                  => Cardinality({f[x] : x \in S}) = Cardinality(S)
<1> DEFINE T == {f[x] : x \in S}
<1>1. f \in Surjection(S, T)
  BY DEF Surjection
<1>2. (\A x, y \in S : f[x] = f[y] => x = y) => f \in Injection(S, T)
  BY DEF Injection, IsInjective
<1> HIDE DEF T
<1>3. /\ IsFiniteSet(T) /\ Cardinality(T) <= Cardinality(S)
      /\ Cardinality(T) = Cardinality(S) <=> f \in Injection(S, T)
  BY <1>1, FS_Surjection
<1> QED  BY <1>2, <1>3 DEF T

LEMMA LimitStep ==
    ASSUME TypeOK, TypeOK', OrderInv, KeyInv, LimitInv, [Next]_vars
    PROVE  LimitInv'
<1> USE DEF sniffer, sender, router, redis, watcher
<1>0. /\ received \in Seq(Packet) /\ Len(received) \in Nat /\ DOMAIN received = 1..Len(received)
      /\ \A i \in DOMAIN received : received[i] \in Packet /\ arrival[received[i]] \in Nat
      /\ clock \in Nat /\ Window \in Nat /\ RateLimit \in Nat /\ zset \subseteq 0..clock
  <2>1. received \in Seq(Packet) /\ arrival \in [Packet -> 0..MaxClock] /\ clock \in Nat
        /\ zset \subseteq 0..clock
    <3>1. /\ received \in Seq(Packet) /\ arrival \in [Packet -> 0..MaxClock]
          /\ clock \in 0..MaxClock /\ zset \subseteq 0..clock
      BY Zenon DEF TypeOK
    <3> QED  BY <3>1
  <2>2. Len(received) \in Nat /\ DOMAIN received = 1..Len(received)
        /\ \A i \in DOMAIN received : received[i] \in Packet
    BY <2>1
  <2>3. \A p \in Packet : arrival[p] \in Nat
    BY <2>1
  <2> QED  BY <2>1, <2>2, <2>3, AgentAssumption
<1>1. ASSUME UNCHANGED <<clock, zset, evicted, received, arrival, limited>> PROVE LimitInv'
  BY <1>1 DEF LimitInv, InWindow, Recent, RecentTimes, LimitsTheRate, Earlier, ArrivedApart
<1>2. CASE Tick
  <2>1. clock' = clock + 1 /\ UNCHANGED <<zset, evicted, received, arrival, limited>>
    BY <1>2 DEF Tick
  <2>2. \A m \in Nat : m > clock + 1 - Window => m > clock - Window
    BY <1>0
  <2>3. InWindow(zset)' = {m \in InWindow(zset) : m > clock + 1 - Window}
    <3>1. \A m \in zset : m \in Nat
      <4>1. zset \subseteq 0..clock /\ clock \in Nat
        BY <1>0
      <4> QED  BY <4>1
    <3>2. InWindow(zset)' = {m \in zset : m > clock + 1 - Window}
      <4>1. InWindow(zset)' = {m \in zset' : m > clock' - Window}
        BY DEF InWindow
      <4>2. zset' = zset /\ clock' - Window = clock + 1 - Window
        BY <1>0, <2>1
      <4> QED  BY <4>1, <4>2, Zenon
    <3> QED  BY <2>2, <3>1, <3>2 DEF InWindow
  <2>4. Recent(clock)' = {j \in Recent(clock) : arrival[received[j]] > clock + 1 - Window}
    BY <1>0, <2>1, <2>2 DEF Recent
  <2>5. RecentTimes' = {m \in RecentTimes : m > clock + 1 - Window}
    <3>1. RecentTimes' = {arrival[received[j]] : j \in Recent(clock)'}
      BY <2>1 DEF RecentTimes
    <3> QED  BY <2>4, <3>1 DEF RecentTimes
  <2>6. LimitsTheRate'
    BY <2>1 DEF LimitInv, LimitsTheRate, Earlier, ArrivedApart
  <2>7. /\ InWindow(zset)' \subseteq RecentTimes'
        /\ ~evicted' => InWindow(zset)' = RecentTimes'
    BY <2>1, <2>3, <2>5 DEF LimitInv
  <2> QED  BY <2>6, <2>7 DEF LimitInv
<1>5. CASE EvictWindow
  <2>1. zset' = {} /\ evicted' = TRUE /\ UNCHANGED <<clock, received, arrival, limited>>
    BY <1>5 DEF EvictWindow
  <2>2. InWindow(zset)' = {}
    BY <2>1 DEF InWindow
  <2>3. LimitsTheRate'
    BY <2>1 DEF LimitInv, LimitsTheRate, Earlier, ArrivedApart
  <2> QED  BY <2>1, <2>2, <2>3 DEF LimitInv
<1>3. CASE Receive
  <2> DEFINE h == Head(wire)
  <2>0. PICK n \in Nat : n = Len(received)
    BY <1>0
  <2>1. /\ wire # <<>> /\ received' = Append(received, h)
        /\ arrival' = [arrival EXCEPT ![h] = clock]
        /\ zset' = InWindow(zset) \cup {clock}
        /\ IF Allowed THEN UNCHANGED limited ELSE limited' = limited \cup {h}
        /\ UNCHANGED <<clock, evicted>>
    BY <1>3 DEF Receive
  <2>2. h \in Packet /\ h \in ToSet(wire)
    BY <2>1, PacketSequences
  <2>3. h \notin ToSet(received) /\ h \notin limited
    BY <2>2, PartsApart DEF KeyInv
  <2> HIDE DEF h
  <2>4. /\ DOMAIN received' = 1..n + 1 /\ received'[n + 1] = h
        /\ \A i \in 1..n : received'[i] = received[i]
    BY <1>0, <2>0, <2>1, <2>2
  <2>5. /\ arrival'[h] = clock
        /\ \A i \in 1..n : received[i] # h /\ arrival'[received'[i]] = arrival[received[i]]
    <3>1. \A p \in Packet : p # h => arrival'[p] = arrival[p]
      BY <2>1, <2>2 DEF TypeOK
    <3>2. \A i \in 1..n : received[i] # h
      BY <1>0, <2>0, <2>3 DEF ToSet
    <3>3. arrival'[h] = clock
      BY <2>1, <2>2 DEF TypeOK
    <3> QED  BY <1>0, <2>0, <2>4, <3>1, <3>2, <3>3
  <2> DEFINE in == clock > clock - Window
  <2>6. InWindow(zset)' = InWindow(zset) \cup {m \in {clock} : in}
    BY <1>0, <2>0, <2>1 DEF InWindow
  <2>7. Recent(clock)' = Recent(clock) \cup {m \in {n + 1} : in}
    <3>1. \A i : i \in 1..n + 1 <=> i \in 1..n \/ i = n + 1
      BY <1>0, <2>0
    <3> QED  BY <1>0, <2>0, <2>1, <2>4, <2>5, <3>1 DEF Recent
  <2>8. RecentTimes' = RecentTimes \cup {m \in {clock} : in}
    <3>1. \A j \in Recent(clock) : arrival'[received'[j]] = arrival[received[j]]
      BY <1>0, <2>0, <2>5 DEF Recent
    <3>2. arrival'[received'[n + 1]] = clock
      BY <2>4, <2>5
    <3>3. RecentTimes' = {arrival'[received'[j]] : j \in Recent(clock)'}
      BY DEF RecentTimes
    <3> HIDE DEF in
    <3> QED  BY <2>7, <3>1, <3>2, <3>3 DEF RecentTimes
  <2>9. \A i \in 1..n :
          Earlier(i)' = Earlier(i) /\ ArrivedApart(Earlier(i))' = ArrivedApart(Earlier(i))
    <3> SUFFICES ASSUME NEW i \in 1..n
                 PROVE  Earlier(i)' = Earlier(i) /\ ArrivedApart(Earlier(i))' = ArrivedApart(Earlier(i))
      OBVIOUS
    <3>1. \A k \in 1..(i - 1) : k \in 1..n
      BY <1>0, <2>0
    <3> DEFINE old(k) == arrival[received[k]]
               new(k) == arrival'[received'[k]]
    <3>2. new(i) = old(i) /\ \A k \in 1..(i - 1) : new(k) = old(k)
      BY <2>5, <3>1
    <3>3. /\ Earlier(i) = {k \in 1..(i - 1) : old(k) > old(i) - Window}
          /\ Earlier(i)' = {k \in 1..(i - 1) : new(k) > new(i) - Window}
      BY DEF Earlier
    <3>4. /\ ArrivedApart(Earlier(i)) <=> \A j, k \in Earlier(i) : old(j) = old(k) => j = k
          /\ ArrivedApart(Earlier(i))' <=> \A j, k \in Earlier(i)' : new(j) = new(k) => j = k
      BY DEF ArrivedApart
    <3>5. \A k \in Earlier(i) : k \in 1..(i - 1)
      BY DEF Earlier
    <3> HIDE DEF old, new
    <3>6. Earlier(i)' = Earlier(i)
      BY <3>2, <3>3
    <3>7. ArrivedApart(Earlier(i))' <=> ArrivedApart(Earlier(i))
      BY <3>2, <3>4, <3>5, <3>6
    <3>8. ArrivedApart(Earlier(i)) \in BOOLEAN /\ ArrivedApart(Earlier(i))' \in BOOLEAN
      BY DEF ArrivedApart
    <3> QED  BY <3>6, <3>7, <3>8
  <2>10. Earlier(n + 1)' = Recent(clock)
    <3>1. Earlier(n + 1)' = {k \in 1..n : arrival'[received'[k]] > clock - Window}
      BY <1>0, <2>0, <2>4, <2>5 DEF Earlier
    <3> QED  BY <1>0, <2>0, <2>5, <3>1 DEF Recent
  <2>11. ArrivedApart(Earlier(n + 1))' =>
             \A j, k \in Recent(clock) : arrival[received[j]] = arrival[received[k]] => j = k
    <3>1. \A j \in Recent(clock) : arrival'[received'[j]] = arrival[received[j]]
      BY <1>0, <2>0, <2>5 DEF Recent
    <3> QED  BY <2>10, <3>1 DEF ArrivedApart
  <2>12. /\ Cardinality(InWindow(zset)) \in Nat /\ Cardinality(Recent(clock)) \in Nat
         /\ Cardinality(InWindow(zset)) <= Cardinality(Recent(clock))
         /\ ~evicted /\ ArrivedApart(Earlier(n + 1))'
                => Cardinality(InWindow(zset)) = Cardinality(Recent(clock))
    <3> DEFINE f == [j \in Recent(clock) |-> arrival[received[j]]]
    <3>1. IsFiniteSet(Recent(clock))
      <4>1. IsFiniteSet(1..n)
        BY <2>0, FS_Interval
      <4>2. Recent(clock) \subseteq 1..n
        BY <1>0, <2>0 DEF Recent
      <4> QED  BY <4>1, <4>2, FS_Subset
    <3>2. f \in [Recent(clock) -> Nat]
      BY <1>0 DEF Recent
    <3>3. RecentTimes = {f[j] : j \in Recent(clock)}
      BY DEF RecentTimes
    <3>4. ArrivedApart(Earlier(n + 1))' => \A j, k \in Recent(clock) : f[j] = f[k] => j = k
      BY <2>11
    <3> HIDE DEF f
    <3>5. /\ IsFiniteSet(RecentTimes)
          /\ Cardinality(RecentTimes) <= Cardinality(Recent(clock))
          /\ ArrivedApart(Earlier(n + 1))' => Cardinality(RecentTimes) = Cardinality(Recent(clock))
      BY <3>1, <3>2, <3>3, <3>4, ImageSize
    <3>6. /\ IsFiniteSet(InWindow(zset))
          /\ Cardinality(InWindow(zset)) <= Cardinality(RecentTimes)
      <4>1. InWindow(zset) \subseteq RecentTimes
        BY DEF LimitInv
      <4> QED  BY <3>5, <4>1, FS_Subset
    <3>7. /\ Cardinality(InWindow(zset)) \in Nat /\ Cardinality(Recent(clock)) \in Nat
          /\ Cardinality(RecentTimes) \in Nat
      BY <3>1, <3>5, <3>6, FS_CardinalityType
    <3> QED  BY <3>5, <3>6, <3>7 DEF LimitInv
  <2>13. h \in limited' <=> Cardinality(InWindow(zset)) >= RateLimit
    BY <1>0, <2>1, <2>3, <2>12 DEF Allowed
  <2>14. \A i \in 1..n : received[i] \in limited' <=> received[i] \in limited
    BY <2>1, <2>5
  <2>15. LimitsTheRate'
    <3>1. ASSUME NEW i \in 1..n
          PROVE  LET over == Cardinality(Earlier(i)') >= RateLimit
                 IN /\ received'[i] \in limited' => over
                    /\ over /\ ArrivedApart(Earlier(i))' /\ ~evicted' => received'[i] \in limited'
      <4>1. /\ received[i] \in limited => Cardinality(Earlier(i)) >= RateLimit
            /\ Cardinality(Earlier(i)) >= RateLimit /\ ArrivedApart(Earlier(i)) /\ ~evicted
                   => received[i] \in limited
        BY <1>0, <2>0 DEF LimitInv, LimitsTheRate
      <4>2. Earlier(i)' = Earlier(i) /\ ArrivedApart(Earlier(i))' = ArrivedApart(Earlier(i))
        BY <2>9
      <4>3. received'[i] = received[i] /\ (received[i] \in limited' <=> received[i] \in limited)
        BY <2>4, <2>14
      <4> QED  BY <2>1, <4>1, <4>2, <4>3
    <3>2. LET over == Cardinality(Earlier(n + 1)') >= RateLimit
          IN /\ received'[n + 1] \in limited' => over
             /\ over /\ ArrivedApart(Earlier(n + 1))' /\ ~evicted' => received'[n + 1] \in limited'
      BY <1>0, <2>1, <2>4, <2>10, <2>12, <2>13
    <3>3. \A i \in 1..n + 1 : i \in 1..n \/ i = n + 1
      BY <1>0, <2>0
    <3> QED  BY <2>4, <3>1, <3>2, <3>3 DEF LimitsTheRate
  <2>16. /\ InWindow(zset)' \subseteq RecentTimes'
         /\ ~evicted' => InWindow(zset)' = RecentTimes'
    BY <2>1, <2>6, <2>8 DEF LimitInv
  <2> QED  BY <2>15, <2>16 DEF LimitInv
<1>4. CASE ~Tick /\ ~Receive /\ ~EvictWindow
  <2>1. UNCHANGED <<clock, zset, evicted, received, arrival, limited>>
    BY <1>4 DEF Next, vars, Capture, Intercept, Enqueue, WriteKey, ReadLine, PutLine, TakePacket,
       CycleEnds, Ack, RpcFails, RouterRestarts, StaleTakes, StaleEnds, NextCycle, Stop
  <2> QED  BY <1>1, <2>1
<1> QED  BY <1>2, <1>3, <1>4, <1>5

\* The limiter refuses a packet only if RateLimit packets or more arrived in
\* the window before it, and then it does, if these arrived in different
\* milliseconds and Redis has kept them, for any limit, window, arrival times
\* and evictions.
THEOREM LimiterCorrect == Spec => []LimitsTheRate
<1>1. Init => LimitInv
  BY DEF Init, LimitInv, InWindow, Recent, RecentTimes, LimitsTheRate
<1>2. TypeOK /\ TypeOK' /\ OrderInv /\ KeyInv /\ LimitInv /\ [Next]_vars => LimitInv'
  BY LimitStep
<1>3. LimitInv => LimitsTheRate
  BY DEF LimitInv
<1> QED  BY <1>1, <1>2, <1>3, Invariants, PTL DEF Spec

=============================================================================
