------------------------- MODULE EventLedger_proofs -------------------------
(***************************************************************************)
(* Proofs about EventLedger for any number of events, any batch size and   *)
(* stream length, and any faults.                                          *)
(***************************************************************************)
EXTENDS EventLedger, WellFoundedInduction, TLAPS

-----------------------------------------------------------------------------
(* The inductive invariant                                                 *)

\* Where the loop stands in a batch, and what the group and the row of the
\* current message say about it.
LoopInv ==
    /\ batch # {} <=> pc \in {"insert", "ack"}
    /\ ~group => delivered = 0
    /\ pc = "ack" => Current \in RowSet

\* What is in work is older than what is still to be read, and the rows are
\* older than both, but for the row of the message that awaits its XACK.
OrderInv ==
    /\ \A b \in batch, n \in New : b < n
    /\ \A i \in DOMAIN rows, n \in New \cup batch :
         \/ rows[i] < n
         \/ pc = "ack" /\ n = Current /\ rows[i] = n
    /\ RowsInOrderOnce

\* What the group has not handed out is in the stream, or was before.
AccountInv ==
    /\ \A n \in 1..produced : n > delivered => n \in stream \cup gone \cup RowSet
    /\ AckedAreRows
    /\ EventsAccounted

IInv == TypeOK /\ LoopInv /\ OrderInv /\ AccountInv

-----------------------------------------------------------------------------
(* The current message, the position after a batch, a row appended         *)

\* A nonempty set of naturals has a least element, and a greatest one if it
\* is bounded.
LEMMA LeastElement ==
    ASSUME NEW S \in SUBSET Nat, S # {}
    PROVE  \E n \in S : \A m \in S : n <= m
<1> DEFINE R == OpToRel(<, Nat)
<1>1. IsWellFoundedOn(R, Nat)
  BY NatLessThanWellFounded
<1> HIDE DEF R
<1>2. PICK n \in S : \A m \in S : <<m, n>> \notin R
  BY <1>1, WFMin
<1>3. \A m \in S : ~(m < n)
  BY <1>2 DEF R, OpToRel
<1> QED  BY <1>2, <1>3

LEMMA GreatestElement ==
    ASSUME NEW S \in SUBSET Nat, S # {}, NEW b \in Nat, \A m \in S : m <= b
    PROVE  \E n \in S : \A m \in S : m <= n
<1> DEFINE T == {k \in Nat : \A m \in S : m <= k}
<1>1. T \in SUBSET Nat /\ b \in T
  OBVIOUS
<1> HIDE DEF T
<1>2. PICK n \in T : \A k \in T : n <= k
  BY <1>1, LeastElement, Zenon
<1>3. n \in Nat /\ \A m \in S : m <= n
  BY <1>2 DEF T
<1>4. n \in S
  <2> SUFFICES ASSUME n \notin S PROVE FALSE
    OBVIOUS
  <2>1. PICK m \in S : TRUE
    OBVIOUS
  <2>2. n - 1 \in Nat /\ \A k \in S : k <= n - 1
    BY <1>3, <2>1
  <2>3. n - 1 \in T
    BY <2>2 DEF T
  <2> QED  BY <1>2, <1>3, <2>3
<1> QED  BY <1>3, <1>4

LEMMA CurrentIsFirst ==
    ASSUME batch \in SUBSET Nat, batch # {}
    PROVE  Current \in batch /\ \A m \in batch : Current <= m
<1>1. \E n \in batch : \A m \in batch : n <= m
  BY LeastElement
<1> QED  BY <1>1 DEF Current

LEMMA PositionIsLast ==
    ASSUME NEW b \in Nat, NEW B \in SUBSET (1..b), B # {}
    PROVE  PositionAfter(B) \in B /\ \A m \in B : m <= PositionAfter(B)
<1>1. \E n \in B : \A m \in B : m <= n
  <2>1. B \in SUBSET Nat /\ \A m \in B : m <= b
    OBVIOUS
  <2> QED  BY <2>1, GreatestElement
<1> QED  BY <1>1 DEF PositionAfter

LEMMA AppendedRow ==
    ASSUME NEW S, NEW s \in Seq(S), NEW x \in S
    PROVE  LET t == Append(s, x)
           IN  /\ t \in Seq(S)
               /\ DOMAIN t = DOMAIN s \cup {Len(s) + 1}
               /\ DOMAIN s = 1..Len(s)
               /\ Len(s) \in Nat
               /\ \A i \in DOMAIN s : t[i] = s[i]
               /\ t[Len(s) + 1] = x
               /\ {t[i] : i \in DOMAIN t} = {s[i] : i \in DOMAIN s} \cup {x}
OBVIOUS

LEMMA CurrentInWork ==
    ASSUME TypeOK, LoopInv, pc \in {"insert", "ack"}
    PROVE  /\ Current \in batch /\ Current \in 1..produced
           /\ \A m \in batch : Current <= m
<1>1. batch \in SUBSET Nat /\ batch \subseteq 1..produced /\ batch # {}
  BY DEF TypeOK, LoopInv
<1> QED  BY <1>1, CurrentIsFirst

\* What the body of the loop does to a batch: the current message leaves it.
LEMMA NextMessageEffect ==
    ASSUME TypeOK, LoopInv, pc \in {"insert", "ack"}, NextMessage
    PROVE  /\ Current \in batch
           /\ \A m \in batch : Current <= m
           /\ batch' = batch \ {Current}
           /\ batch' # {} <=> pc' = "insert"
           /\ pc' \in {"read", "insert"}
BY CurrentInWork DEF NextMessage

\* A batch handed out: the new entries up to the group's new position.
LEMMA DeliverEffect ==
    ASSUME TypeOK, NEW B \in SUBSET New, Deliver(B)
    PROVE  /\ B # {} /\ B \in SUBSET (1..produced)
           /\ delivered' \in B
           /\ \A n \in New : n \in B <=> n <= delivered'
           /\ pel' = pel \cup B
<1>1. B # {} /\ B \in SUBSET (1..produced) /\ produced \in Nat
  BY DEF TypeOK, New, Deliver, IsBatch
<1>2. delivered' \in B /\ \A m \in B : m <= delivered'
  BY <1>1, PositionIsLast DEF Deliver
<1>3. New \in SUBSET (1..produced)
  BY DEF TypeOK, New
<1>4. ASSUME NEW n \in New PROVE n \in B <=> n <= delivered'
  BY <1>1, <1>2, <1>3 DEF Deliver, IsBatch, IsPrefix
<1> QED  BY <1>1, <1>2, <1>4 DEF Deliver

\* What typing says of numbers.
LEMMA Numbers ==
    ASSUME LedgerAssumption, TypeOK
    PROVE  /\ produced \in Nat /\ delivered \in Nat /\ 0 \in 0..produced
           /\ stream \subseteq 1..produced /\ stream \subseteq Nat
           /\ New \subseteq 1..produced /\ New \subseteq Nat
           /\ batch \subseteq 1..produced /\ batch \subseteq Nat
           /\ \A i \in DOMAIN rows : rows[i] \in Nat /\ rows[i] <= produced
<1>1. produced \in Nat
  BY DEF LedgerAssumption, TypeOK
<1>2. /\ delivered \in Nat /\ 0 \in 0..produced
      /\ stream \subseteq 1..produced /\ stream \subseteq Nat
      /\ batch \subseteq 1..produced /\ batch \subseteq Nat
  BY <1>1 DEF TypeOK
<1>3. New \subseteq stream
  BY DEF New
<1>4. \A i \in DOMAIN rows : rows[i] \in 1..produced
  BY DEF TypeOK
<1> QED  BY <1>1, <1>2, <1>3, <1>4

LEMMA NewShrinks ==
    ASSUME LedgerAssumption, TypeOK, NEW B \in SUBSET New, Deliver(B)
    PROVE  {n \in stream : n > delivered'} \subseteq New
<1>1. delivered' \in New
  BY DeliverEffect
<1>2. delivered' > delivered /\ delivered' \in Nat
  BY <1>1, Numbers DEF New
<1> QED  BY <1>2, Numbers DEF New

-----------------------------------------------------------------------------
(* Every step preserves the invariant                                      *)

\* Steps that touch neither Redis, the batch, nor the table.
Quiet == CreateFails \/ ReadFails \/ Wake \/ StopLoop \/ SignalStop

LEMMA QuietEffect ==
    ASSUME TypeOK, LoopInv, Quiet
    PROVE  /\ UNCHANGED <<redis, batch, restarts, ledger>>
           /\ pc' \in ConsumerPC /\ stopping' \in BOOLEAN
           /\ pc' \in {"insert", "ack"} <=> pc \in {"insert", "ack"}
           /\ pc' = "ack" <=> pc = "ack"
           /\ pc' = "stopped" => batch = {}
BY DEF TypeOK, ConsumerPC, LoopInv, Quiet, CreateFails,
       ReadFails, Wake, StopLoop, SignalStop

LEMMA TypePreserved ==
    ASSUME LedgerAssumption, IInv, [Next]_vars
    PROVE  TypeOK'
<1> USE DEF IInv, redis, consumer, ledger, ConsumerPC
<1>1. CASE Produce
  <2>1. produced' \in 0..MaxEvents /\ 1..produced \subseteq 1..produced'
        /\ produced + 1 \in 1..produced' /\ 0..produced \subseteq 0..produced'
    BY <1>1 DEF Produce, TypeOK, LedgerAssumption
  <2>2. rows' \in Seq(1..produced')
    BY <1>1, <2>1 DEF Produce, TypeOK
  <2> QED  BY <1>1, <2>1, <2>2 DEF Produce, TypeOK
<1>2. CASE EvictStream
  <2>1. 0 \in 0..produced /\ New \subseteq 1..produced
    BY Numbers
  <2> QED  BY <1>2, <2>1 DEF EvictStream, TypeOK
<1>3. CASE CreateGroup
  <2>1. delivered' \in 0..produced
    BY <1>3 DEF CreateGroup, Position, TypeOK, LedgerAssumption
  <2> QED  BY <1>3, <2>1 DEF CreateGroup, TypeOK
<1>4. CASE Read
  <2>1. PICK B \in SUBSET New : Deliver(B) /\ batch' = B
    BY <1>4 DEF Read
  <2>2. B \subseteq 1..produced /\ delivered' \in 0..produced /\ pel' = pel \cup B
    BY <2>1, DeliverEffect DEF TypeOK, LedgerAssumption
  <2> QED  BY <1>4, <2>1, <2>2 DEF Read, TypeOK
<1>5. CASE ReplyLost
  <2>1. PICK B \in SUBSET New : Deliver(B) /\ dropped' = dropped \cup B
    BY <1>5 DEF ReplyLost
  <2>2. B \subseteq 1..produced /\ delivered' \in 0..produced /\ pel' = pel \cup B
    BY <2>1, DeliverEffect DEF TypeOK, LedgerAssumption
  <2> QED  BY <1>5, <2>1, <2>2 DEF ReplyLost, TypeOK
<1>6. CASE Insert
  <2>1. Current \in 1..produced
    BY <1>6, CurrentInWork DEF Insert
  <2> QED  BY <1>6, <2>1 DEF Insert, TypeOK
<1>7. CASE InsertFails
  <2>1. Current \in 1..produced
    BY <1>7, CurrentInWork DEF InsertFails
  <2>2. batch' \subseteq batch /\ pc' \in ConsumerPC
    BY <1>7, NextMessageEffect DEF InsertFails
  <2>3. rows' \in Seq(1..produced)
    BY <1>7, <2>1, AppendedRow DEF InsertFails, TypeOK
  <2> QED  BY <1>7, <2>1, <2>2, <2>3 DEF InsertFails, TypeOK
<1>8. CASE Ack \/ AckFails
  <2>1. batch' \subseteq batch /\ pc' \in ConsumerPC
    BY <1>8, NextMessageEffect DEF Ack, AckFails
  <2> QED  BY <1>8, <2>1 DEF Ack, AckFails, TypeOK
<1>9. CASE Restart
  <2>1. restarts' \in 0..MaxRestarts
    BY <1>9 DEF Restart, TypeOK, LedgerAssumption
  <2>2. dropped' \subseteq 1..produced
    BY <1>9 DEF Restart, TypeOK
  <2> QED  BY <1>9, <2>1, <2>2 DEF Restart, TypeOK
<1>10. CASE Quiet
  BY <1>10, QuietEffect DEF TypeOK
<1>11. CASE UNCHANGED vars
  BY <1>11 DEF vars, TypeOK
<1> QED
  BY <1>1, <1>2, <1>3, <1>4, <1>5, <1>6, <1>7, <1>8, <1>9, <1>10, <1>11
  DEF Next, Consumer, Quiet

LEMMA LoopPreserved ==
    ASSUME LedgerAssumption, IInv, [Next]_vars
    PROVE  LoopInv'
<1> USE DEF IInv, redis, consumer, ledger, ConsumerPC
<1>1. CASE Produce
  BY <1>1 DEF Produce, LoopInv, Current, RowSet
<1>2. CASE EvictStream
  BY <1>2 DEF EvictStream, LoopInv, Current, RowSet
<1>3. CASE CreateGroup
  BY <1>3 DEF CreateGroup, Position, LoopInv
<1>4. CASE Read
  <2>1. PICK B \in SUBSET New : Deliver(B) /\ batch' = B
    BY <1>4 DEF Read
  <2> QED  BY <1>4, <2>1, DeliverEffect DEF Read, CanRead, LoopInv
<1>5. CASE ReplyLost
  BY <1>5 DEF ReplyLost, CanRead, LoopInv
<1>6. CASE Insert
  <2>1. Current \in 1..produced
    BY <1>6, CurrentInWork DEF Insert
  <2>2. Current \in RowSet'
    BY <1>6, <2>1, AppendedRow DEF Insert, TypeOK, RowSet
  <2>3. Current' = Current
    BY <1>6 DEF Insert, Current
  <2> QED  BY <1>6, <2>2, <2>3 DEF Insert, LoopInv
<1>7. CASE InsertFails \/ Ack \/ AckFails
  <2>1. batch' # {} <=> pc' = "insert"
    BY <1>7, NextMessageEffect DEF InsertFails, Ack, AckFails
  <2>2. pc' \in {"read", "insert"}
    BY <1>7, NextMessageEffect DEF InsertFails, Ack, AckFails
  <2> QED  BY <1>7, <2>1, <2>2 DEF InsertFails, Ack, AckFails, LoopInv
<1>8. CASE Restart
  BY <1>8 DEF Restart, LoopInv
<1>9. CASE Quiet
  BY <1>9, QuietEffect DEF LoopInv, Current, RowSet
<1>10. CASE UNCHANGED vars
  BY <1>10 DEF vars, LoopInv, Current, RowSet
<1> QED
  BY <1>1, <1>2, <1>3, <1>4, <1>5, <1>6, <1>7, <1>8, <1>9, <1>10
  DEF Next, Consumer, Quiet

LEMMA OrderPreserved ==
    ASSUME LedgerAssumption, IInv, [Next]_vars
    PROVE  OrderInv'
<1> USE DEF IInv, redis, consumer, ledger
<1>nums. /\ New \subseteq 1..produced /\ New \subseteq Nat
      /\ batch \subseteq 1..produced /\ batch \subseteq Nat
      /\ stream \subseteq Nat /\ produced \in Nat /\ delivered \in Nat
      /\ \A i \in DOMAIN rows : rows[i] \in Nat /\ rows[i] <= produced
  BY Numbers
<1>rows. rows \in Seq(1..produced)
  BY DEF TypeOK
<1>1. CASE Produce
  <2>1. New' \subseteq New \cup {produced + 1}
    BY <1>1 DEF Produce, New
  <2>2. Current' = Current
    BY <1>1 DEF Produce, Current
  <2>3. \A b \in batch', n \in New' : b < n
    BY <1>nums, <1>1, <2>1 DEF Produce, OrderInv
  <2>4. \A i \in DOMAIN rows, n \in New' \cup batch :
           rows[i] < n \/ (pc = "ack" /\ n = Current /\ rows[i] = n)
    BY <1>nums, <2>1 DEF OrderInv
  <2>5. UNCHANGED <<rows, pc, batch>>
    BY <1>1 DEF Produce
  <2> QED  BY <2>2, <2>3, <2>4, <2>5 DEF OrderInv, RowsInOrderOnce
<1>2. CASE EvictStream
  <2>1. New' = {} /\ Current' = Current
    BY <1>2 DEF EvictStream, New, Current
  <2> QED  BY <1>2, <2>1 DEF EvictStream, OrderInv, RowsInOrderOnce
<1>3. CASE CreateGroup
  <2>1. New' = New /\ Current' = Current
    BY <1>3 DEF CreateGroup, Position, New, Current, LoopInv
  <2> QED  BY <1>3, <2>1 DEF CreateGroup, OrderInv, RowsInOrderOnce, LoopInv
<1>4. CASE Read
  <2>1. PICK B \in SUBSET New : Deliver(B) /\ batch' = B
    BY <1>4 DEF Read
  <2>2. /\ delivered' \in New /\ delivered' \in Nat
        /\ \A b \in B : b <= delivered' /\ b \in Nat
    BY <1>nums, <2>1, DeliverEffect
  <2>3. New' = {n \in stream : n > delivered'}
    BY <1>4 DEF Read, New
  <2>4. New' \subseteq New
    BY <1>nums, <2>1, <2>3, NewShrinks
  <2>older. \A b \in B, n \in New' : b < n
    BY <1>nums, <2>2, <2>3
  <2>5. UNCHANGED rows /\ pc = "read"
    BY <1>4 DEF Read, CanRead
  <2>6. \A i \in DOMAIN rows, n \in New : rows[i] < n
    BY <2>5 DEF OrderInv
  <2> QED  BY <2>1, <2>4, <2>older, <2>5, <2>6 DEF OrderInv, RowsInOrderOnce
<1>5. CASE ReplyLost
  <2>1. PICK B \in SUBSET New : Deliver(B) /\ dropped' = dropped \cup B
    BY <1>5 DEF ReplyLost
  <2>2. New' \subseteq New
    <3>1. New' = {n \in stream : n > delivered'}
      BY <1>5 DEF ReplyLost, New
    <3> QED  BY <2>1, <3>1, NewShrinks
  <2> QED  BY <1>5, <2>2 DEF ReplyLost, CanRead, OrderInv, RowsInOrderOnce, LoopInv
<1>6. CASE rows' = Append(rows, Current) /\ pc = "insert" /\ UNCHANGED redis
           /\ ((batch' = batch /\ pc' = "ack") \/ NextMessage)
  <2>1. /\ Current \in batch /\ Current \in 1..produced
        /\ \A m \in batch : Current <= m
    BY <1>6, CurrentInWork
  <2>2. \A i \in DOMAIN rows : rows[i] < Current
    BY <1>6, <2>1 DEF OrderInv
  <2>3. /\ DOMAIN rows' = 1..Len(rows) \cup {Len(rows) + 1}
        /\ DOMAIN rows = 1..Len(rows) /\ Len(rows) \in Nat
        /\ \A i \in DOMAIN rows : rows'[i] = rows[i]
        /\ rows'[Len(rows) + 1] = Current
    BY <1>rows, <1>6, <2>1, AppendedRow
  <2>4. RowsInOrderOnce'
    <3> SUFFICES ASSUME NEW i \in DOMAIN rows', NEW j \in DOMAIN rows', i < j
                 PROVE  rows'[i] < rows'[j]
      BY DEF RowsInOrderOnce
    <3>1. i \in DOMAIN rows
      BY <2>3
    <3> QED  BY <2>2, <2>3, <3>1 DEF OrderInv, RowsInOrderOnce
  <2>5. New' = New /\ batch' \subseteq batch
    BY <1>6 DEF New, NextMessage
  <2>6. \A i \in DOMAIN rows', n \in New \cup batch :
           rows'[i] < n \/ (n = Current /\ rows'[i] = n)
    <3> TAKE i \in DOMAIN rows', n \in New \cup batch
    <3>1. Current < n \/ n = Current
      BY <1>nums, <2>1 DEF OrderInv
    <3>2. rows'[i] < Current \/ rows'[i] = Current
      BY <2>2, <2>3
    <3>3. rows'[i] \in Nat /\ n \in Nat
      BY <1>nums, <2>1, <2>3
    <3> QED  BY <1>nums, <2>1, <3>1, <3>2, <3>3
  <2>7. CASE batch' = batch /\ pc' = "ack"
    <3>1. Current' = Current
      BY <2>7 DEF Current
    <3> QED  BY <2>4, <2>5, <2>6, <2>7, <3>1 DEF OrderInv
  <2>8. CASE NextMessage
    <3>1. Current \notin batch' /\ Current \notin New
      BY <1>nums, <2>1, <2>8 DEF NextMessage, OrderInv
    <3> QED  BY <2>4, <2>5, <2>6, <3>1 DEF OrderInv
  <2> QED  BY <1>6, <2>7, <2>8
<1>7. CASE rows' = rows /\ NextMessage /\ pc \in {"insert", "ack"}
           /\ UNCHANGED <<stream, delivered>>
  <2>1. batch' \subseteq batch /\ Current \notin batch' /\ Current \in batch
    BY <1>7, NextMessageEffect
  <2>2. New' = New /\ Current \notin New
    BY <1>nums, <1>7, <2>1 DEF New, OrderInv
  <2> QED  BY <1>7, <2>1, <2>2 DEF OrderInv, RowsInOrderOnce
<1>8. CASE Restart
  <2>1. New' = New /\ batch' = {} /\ rows' = rows
    BY <1>8 DEF Restart, New
  <2>2. pc = "ack" => Current \in batch
    BY CurrentInWork
  <2>3. ASSUME pc = "ack", Current \in New PROVE FALSE
    <3>1. Current < Current /\ Current \in Nat
      BY <1>nums, <2>2, <2>3 DEF OrderInv
    <3> QED  BY <3>1
  <2>4. \A i \in DOMAIN rows, n \in New : rows[i] < n
    BY <2>3 DEF OrderInv
  <2> QED  BY <2>1, <2>4 DEF OrderInv, RowsInOrderOnce
<1>9. CASE Quiet
  <2>1. New' = New /\ Current' = Current
    BY <1>9, QuietEffect DEF New, Current
  <2> QED  BY <1>9, <2>1, QuietEffect DEF OrderInv, RowsInOrderOnce
<1>10. CASE UNCHANGED vars
  BY <1>10 DEF vars, OrderInv, RowsInOrderOnce, New, Current
<1>11. Insert \/ InsertFails \/ Ack \/ AckFails => <1>6!1 \/ <1>7!1
  BY DEF Insert, InsertFails, Ack, AckFails
<1> QED
  BY <1>1, <1>2, <1>3, <1>4, <1>5, <1>6, <1>7, <1>8, <1>9, <1>10, <1>11
  DEF Next, Consumer, Quiet

LEMMA AccountPreserved ==
    ASSUME LedgerAssumption, IInv, [Next]_vars
    PROVE  AccountInv'
<1> USE DEF IInv, redis, consumer, ledger
<1>nums. /\ produced \in Nat /\ delivered \in Nat
      /\ New = {n \in stream : n > delivered}
  BY Numbers DEF New
<1> DEFINE Undelivered == \A n \in 1..produced :
                            n > delivered => n \in stream \cup gone \cup RowSet
<1>inv. Undelivered /\ AckedAreRows /\ EventsAccounted
  BY DEF AccountInv
<1>1. CASE Produce
  <2>1. PICK T \in SUBSET stream :
           /\ stream' = (stream \ T) \cup {produced + 1}
           /\ gone' = gone \cup (T \cap New)
    BY <1>1 DEF Produce
  <2>2. /\ 1..produced' = 1..produced \cup {produced + 1}
        /\ UNCHANGED <<delivered, pel, batch, failed, dropped>> /\ RowSet' = RowSet
        /\ delivered < produced + 1
    <3>1. produced' = produced + 1 /\ delivered <= produced
      BY <1>nums, <1>1 DEF Produce, TypeOK
    <3>2. UNCHANGED <<delivered, pel, batch, failed, dropped>> /\ RowSet' = RowSet
      BY <1>1 DEF Produce, RowSet
    <3> QED  BY <1>nums, <3>1, <3>2
  <2>3. New' = (New \ T) \cup {produced + 1}
    <3>1. New' = {n \in stream' : n > delivered}
      BY <2>2 DEF New
    <3> QED  BY <1>nums, <2>1, <2>2, <3>1
  <2>4. Undelivered'
    BY <1>nums, <1>inv, <2>1, <2>2
  <2>5. AckedAreRows'
    BY <1>inv, <2>1, <2>2 DEF AckedAreRows
  <2>6. EventsAccounted'
    BY <1>inv, <2>1, <2>2, <2>3 DEF EventsAccounted
  <2> QED  BY <2>4, <2>5, <2>6 DEF AccountInv
<1>2. CASE EvictStream
  <2>1. /\ stream' = {} /\ gone' = gone \cup New \cup pel /\ delivered' = 0
        /\ UNCHANGED <<produced, batch, failed, dropped>> /\ RowSet' = RowSet
    BY <1>2 DEF EvictStream, RowSet
  <2>2. \A n \in 1..produced : n \in RowSet \cup gone'
    <3> TAKE n \in 1..produced
    <3>1. CASE n > delivered
      BY <1>nums, <1>inv, <2>1, <3>1
    <3>2. CASE n <= delivered
      BY <1>nums, <1>inv, <2>1, <3>2 DEF AckedAreRows
    <3> QED  BY <1>nums, <3>1, <3>2
  <2> QED  BY <2>1, <2>2 DEF AccountInv, AckedAreRows, EventsAccounted
<1>3. CASE CreateGroup
  <2>1. /\ UNCHANGED <<produced, stream, delivered, pel, gone, batch, failed, dropped>>
        /\ RowSet' = RowSet
    BY <1>3 DEF CreateGroup, Position, LoopInv, RowSet
  <2>2. New' = New
    BY <2>1 DEF New
  <2> QED  BY <1>inv, <2>1, <2>2 DEF AccountInv, AckedAreRows, EventsAccounted
<1>4. ASSUME NEW B \in SUBSET New, Deliver(B),
             UNCHANGED <<produced, stream, gone, rows, failed>>,
             batch \cup dropped \cup B \subseteq batch' \cup dropped'
      PROVE  AccountInv'
  <2>1. /\ delivered' \in Nat /\ delivered < delivered' /\ pel' = pel \cup B
        /\ \A n \in New : n \in B <=> n <= delivered'
    <3>1. delivered' \in New
      BY <1>4, DeliverEffect
    <3> QED  BY <1>nums, <1>4, <3>1, Numbers, DeliverEffect
  <2>2. RowSet' = RowSet /\ New' = {n \in stream : n > delivered'}
    BY <1>4 DEF RowSet, New
  <2>3. New \subseteq New' \cup B
    BY <1>nums, <2>1, <2>2, Numbers
  <2>4. Undelivered'
    BY <1>nums, <1>inv, <1>4, <2>1, <2>2
  <2>5. AckedAreRows'
    <3> SUFFICES ASSUME NEW n \in 1..delivered'
                 PROVE  n \in RowSet \cup pel \cup B \cup gone
      BY <1>4, <2>1, <2>2 DEF AckedAreRows
    <3>1. n \in 1..produced
      BY <1>nums, <1>4, <2>1, DeliverEffect
    <3>2. CASE n <= delivered
      BY <1>nums, <1>inv, <3>2 DEF AckedAreRows
    <3>3. CASE n > delivered
      BY <1>nums, <1>inv, <2>1, <3>1, <3>3
    <3> QED  BY <1>nums, <3>2, <3>3
  <2>6. EventsAccounted'
    BY <1>inv, <1>4, <2>2, <2>3 DEF EventsAccounted
  <2> QED  BY <2>4, <2>5, <2>6 DEF AccountInv
<1>5. CASE Read
  BY <1>4, <1>5 DEF Read, CanRead, LoopInv
<1>6. CASE ReplyLost
  BY <1>4, <1>6 DEF ReplyLost
<1>7. ASSUME UNCHANGED <<produced, stream, delivered, gone>>,
             RowSet \subseteq RowSet', failed \subseteq failed',
             pel \subseteq pel' \cup RowSet',
             batch \cup dropped \subseteq batch' \cup dropped' \cup RowSet' \cup failed'
      PROVE  AccountInv'
  <2>1. New' = New
    BY <1>7 DEF New
  <2>2. Undelivered'
    BY <1>inv, <1>7
  <2>3. AckedAreRows'
    BY <1>inv, <1>7 DEF AckedAreRows
  <2>4. \A n \in 1..produced : n \in New \cup batch \cup RowSet \cup gone \cup failed \cup dropped
    BY <1>inv DEF EventsAccounted
  <2>5. EventsAccounted'
    BY <1>7, <2>1, <2>4 DEF EventsAccounted
  <2> QED  BY <2>2, <2>3, <2>5 DEF AccountInv
<1>8. CASE Insert \/ InsertFails
  <2>1. Current \in 1..produced /\ rows \in Seq(1..produced)
    BY <1>8, CurrentInWork DEF Insert, InsertFails, TypeOK
  <2>2. RowSet \subseteq RowSet'
    BY <1>8, <2>1, AppendedRow DEF Insert, InsertFails, RowSet
  <2>3. CASE Insert
    BY <1>7, <2>2, <2>3 DEF Insert
  <2>4. CASE InsertFails
    <3>1. batch' = batch \ {Current}
      BY <2>4 DEF InsertFails, NextMessage
    <3> QED  BY <1>7, <2>2, <2>4, <3>1 DEF InsertFails
  <2> QED  BY <1>8, <2>3, <2>4
<1>9. CASE Ack \/ AckFails
  <2>1. Current \in RowSet /\ batch' = batch \ {Current} /\ RowSet' = RowSet
    BY <1>9 DEF Ack, AckFails, NextMessage, LoopInv, RowSet
  <2> QED  BY <1>7, <1>9, <2>1 DEF Ack, AckFails
<1>10. CASE Restart
  <2>1. RowSet' = RowSet
    BY <1>10 DEF Restart, RowSet
  <2> QED  BY <1>7, <1>10, <2>1 DEF Restart
<1>11. CASE Quiet \/ UNCHANGED vars
  <2>1. UNCHANGED <<redis, batch, ledger>>
    BY <1>11, QuietEffect DEF vars
  <2>2. RowSet' = RowSet
    BY <2>1 DEF RowSet
  <2> QED  BY <1>7, <2>1, <2>2
<1> QED
  BY <1>1, <1>2, <1>3, <1>5, <1>6, <1>8, <1>9, <1>10, <1>11 DEF Next, Consumer, Quiet

-----------------------------------------------------------------------------
(* Theorems                                                                *)

LEMMA InitInvariant == Init => IInv
<1> SUFFICES ASSUME Init PROVE IInv
  OBVIOUS
<1>1. TypeOK
  <2>1. 0 \in 0..MaxEvents /\ 0 \in 0..MaxRestarts /\ 0 \in 0..0
    BY LedgerAssumption DEF LedgerAssumption
  <2>2. <<>> \in Seq(1..0)
    OBVIOUS
  <2> QED  BY <2>1, <2>2 DEF Init, TypeOK, ConsumerPC
<1>2. LoopInv
  BY DEF Init, LoopInv
<1>3. RowSet = {} /\ New = {} /\ 1..produced = {} /\ DOMAIN rows = {} /\ batch = {}
  BY DEF Init, RowSet, New
<1>4. OrderInv
  BY <1>3 DEF OrderInv, RowsInOrderOnce
<1>5. AccountInv
  BY <1>3 DEF Init, AccountInv, AckedAreRows, EventsAccounted
<1> QED  BY <1>1, <1>2, <1>4, <1>5 DEF IInv

\* The inductive invariant of the stream, the consumer and the table.
THEOREM LedgerInvariant == Spec => []IInv
<1>1. IInv /\ [Next]_vars => IInv'
  BY LedgerAssumption, TypePreserved, LoopPreserved, OrderPreserved, AccountPreserved DEF IInv
<1> QED  BY <1>1, InitInvariant, PTL DEF Spec

\* The variables of Redis, consume_loop and network_events keep their types,
\* for any number of events and any faults.
THEOREM TypeCorrect == Spec => []TypeOK
<1>1. IInv => TypeOK
  BY DEF IInv
<1> QED  BY <1>1, LedgerInvariant, PTL

\* For any number of events, any batch size, any stream length, any restarts
\* and any faults: consume_loop and insert_event write no event twice, and in
\* the order of the stream.
THEOREM OrderCorrect == Spec => []RowsInOrderOnce
<1>1. IInv => RowsInOrderOnce
  BY DEF IInv, OrderInv
<1> QED  BY <1>1, LedgerInvariant, PTL

\* In the same generality: consume_loop acknowledges a message only after its
\* row is committed: what the group handed out is a row, pending, or removed.
THEOREM AcksCorrect == Spec => []AckedAreRows
<1>1. IInv => AckedAreRows
  BY DEF IInv, AccountInv
<1> QED  BY <1>1, LedgerInvariant, PTL

\* In the same generality: no event is lost but in the ways history records.
THEOREM AccountCorrect == Spec => []EventsAccounted
<1>1. IInv => EventsAccounted
  BY DEF IInv, AccountInv
<1> QED  BY <1>1, LedgerInvariant, PTL

-----------------------------------------------------------------------------
(* What is never tried again                                               *)

\* Work is never taken up again: what is still to be read or in the batch
\* after a step was so before it or is appended by it, and rows come from the
\* batch.
LEMMA WorkShrinks ==
    ASSUME LedgerAssumption, IInv, [Next]_vars
    PROVE  /\ New' \cup batch' \subseteq New \cup batch \cup {produced + 1}
           /\ RowSet' \subseteq RowSet \cup batch
           /\ 1..produced \subseteq 1..produced'
           /\ \A n \in (failed' \ failed) \cup (dropped' \ dropped) : n \notin New' \cup batch'
<1> USE DEF IInv, redis, consumer, ledger
<1>1. CASE Produce
  BY <1>1, Numbers DEF Produce, New, RowSet
<1>2. CASE EvictStream
  BY <1>2 DEF EvictStream, New, RowSet
<1>3. CASE CreateGroup
  <2>1. delivered' = delivered
    BY <1>3 DEF CreateGroup, Position, LoopInv
  <2> QED  BY <1>3, <2>1 DEF CreateGroup, New, RowSet
<1>4. CASE Read
  <2>1. PICK B \in SUBSET New : Deliver(B) /\ batch' = B
    BY <1>4 DEF Read
  <2>2. {n \in stream : n > delivered'} \subseteq New
    BY <2>1, NewShrinks
  <2> QED  BY <1>4, <2>1, <2>2 DEF Read, New, RowSet
<1>5. CASE ReplyLost
  <2>1. PICK B \in SUBSET New : Deliver(B) /\ dropped' = dropped \cup B
    BY <1>5 DEF ReplyLost
  <2>2. {n \in stream : n > delivered'} \subseteq New
    BY <2>1, NewShrinks
  <2>3. \A n \in B : ~(n > delivered')
    <3>1. \A n \in B : n <= delivered' /\ n \in Nat
      BY <2>1, DeliverEffect, Numbers
    <3>2. delivered' \in Nat
      BY <2>1, DeliverEffect, Numbers
    <3> QED  BY <3>1, <3>2
  <2>4. batch = {}
    BY <1>5 DEF ReplyLost, CanRead, LoopInv
  <2> QED  BY <1>5, <2>1, <2>2, <2>3, <2>4 DEF ReplyLost, New, RowSet
<1>6. CASE Insert
  <2>1. Current \in batch /\ Current \in 1..produced
    BY <1>6, CurrentInWork DEF Insert
  <2>2. RowSet' = RowSet \cup {Current}
    BY <1>6, <2>1, AppendedRow DEF Insert, TypeOK, RowSet
  <2> QED  BY <1>6, <2>1, <2>2 DEF Insert, New
<1>7. CASE InsertFails
  <2>1. Current \in batch /\ Current \in 1..produced /\ batch' = batch \ {Current}
    BY <1>7, CurrentInWork, NextMessageEffect DEF InsertFails
  <2>2. RowSet' \subseteq RowSet \cup {Current}
    <3>1. CASE rows' = rows
      BY <3>1 DEF RowSet
    <3>2. CASE rows' = Append(rows, Current)
      BY <2>1, <3>2, AppendedRow DEF TypeOK, RowSet
    <3> QED  BY <1>7, <3>1, <3>2 DEF InsertFails
  <2>3. Current \notin New
    <3>1. \A n \in New : Current < n
      BY <2>1 DEF OrderInv
    <3> QED  BY <2>1, <3>1
  <2>4. New' = New /\ failed' = failed \cup {Current} /\ dropped' = dropped /\ produced' = produced
    BY <1>7 DEF InsertFails, New
  <2> QED  BY <2>1, <2>2, <2>3, <2>4
<1>8. CASE Ack \/ AckFails
  <2>1. batch' \subseteq batch
    BY <1>8, NextMessageEffect DEF Ack, AckFails
  <2> QED  BY <1>8, <2>1 DEF Ack, AckFails, New, RowSet
<1>9. CASE Restart
  <2>1. \A n \in batch : n \notin New
    <3>1. \A n \in batch, m \in New : n < m
      BY DEF OrderInv
    <3>2. batch \subseteq Nat
      BY Numbers
    <3> QED  BY <3>1, <3>2
  <2> QED  BY <1>9, <2>1 DEF Restart, New, RowSet
<1>10. CASE Quiet
  BY <1>10, QuietEffect DEF New, RowSet
<1>11. CASE UNCHANGED vars
  BY <1>11 DEF vars, New, RowSet
<1> QED
  BY <1>1, <1>2, <1>3, <1>4, <1>5, <1>6, <1>7, <1>8, <1>9, <1>10, <1>11
  DEF Next, Consumer, Quiet

\* No event whose insertion raised or whose reader did not see it is read or
\* worked on again, neither by the loop nor after a restart: xreadgroup asks
\* for new entries only.
NoSecondTry == \A n \in failed \cup dropped : n \notin New \cup batch

THEOREM NoSecondTries == Spec => []NoSecondTry
<1>1. Init => NoSecondTry
  BY DEF Init, NoSecondTry
<1>2. IInv /\ NoSecondTry /\ [Next]_vars => NoSecondTry'
  <2> SUFFICES ASSUME IInv, NoSecondTry, [Next]_vars, NEW n \in failed' \cup dropped'
               PROVE  n \notin New' \cup batch'
    BY DEF NoSecondTry
  <2>1. CASE n \in failed \cup dropped
    <3>1. n # produced + 1
      BY <2>1, LedgerAssumption, Numbers DEF IInv, TypeOK
    <3> QED  BY <2>1, <3>1, LedgerAssumption, WorkShrinks DEF NoSecondTry
  <2>2. CASE n \notin failed \cup dropped
    BY <2>2, LedgerAssumption, WorkShrinks
  <2> QED  BY <2>1, <2>2
<1> QED  BY <1>1, <1>2, LedgerInvariant, PTL DEF Spec

\* So an event that failed once without a row, or that its reader did not see,
\* never becomes a row, whatever happens next: what insert_event could not
\* commit the first time is lost to network_events.
THEOREM LostForGood ==
    ASSUME NEW n
    PROVE  Spec => [](n \in (failed \cup dropped) \ RowSet => []~(n \in RowSet))
<1> DEFINE Lost == n \in 1..produced /\ n \notin RowSet \cup New \cup batch
<1>1. IInv /\ Lost /\ [Next]_vars => Lost'
  <2> SUFFICES ASSUME IInv, Lost, [Next]_vars PROVE Lost'
    OBVIOUS
  <2>1. n # produced + 1
    BY LedgerAssumption, Numbers DEF IInv
  <2> QED  BY <2>1, LedgerAssumption, WorkShrinks
<1>2. IInv /\ NoSecondTry /\ n \in (failed \cup dropped) \ RowSet => Lost
  BY DEF IInv, TypeOK, NoSecondTry
<1>3. Lost => ~(n \in RowSet)
  OBVIOUS
<1> HIDE DEF Lost
<1> QED  BY <1>1, <1>2, <1>3, LedgerInvariant, NoSecondTries, PTL DEF Spec

\* Where nothing goes wrong, nothing is lost: without the faults and without a
\* restart every event is still to be read or in work, is a row, or was
\* trimmed from the stream before it was read.
THEOREM NothingIsLost ==
    ASSUME Faults = {}, MaxRestarts = 0
    PROVE  Spec => [](\A n \in 1..produced : n \in New \cup batch \cup RowSet \cup gone)
<1> DEFINE Quietly == failed = {} /\ dropped = {}
<1>1. Init => Quietly
  BY DEF Init
<1>2. TypeOK /\ Quietly /\ [Next]_vars => Quietly'
  BY DEF TypeOK, Next, Consumer, Produce, EvictStream, CreateGroup, CreateFails, Read,
         ReadFails, ReplyLost, Wake, Insert, InsertFails, Ack, AckFails, StopLoop,
         SignalStop, Restart, vars, redis, consumer, ledger
<1>3. EventsAccounted /\ Quietly => \A n \in 1..produced : n \in New \cup batch \cup RowSet \cup gone
  BY DEF EventsAccounted
<1> QED  BY <1>1, <1>2, <1>3, TypeCorrect, AccountCorrect, PTL DEF Spec
=============================================================================
