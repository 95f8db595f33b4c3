------------------------ MODULE RouterServicer_proofs ------------------------
(***************************************************************************)
(* Proofs about RouterServicer, for any connections, streams, chunks,      *)
(* limits and faults: the scans and their slots, the verdicts of the       *)
(* cache, where every chunk is, in which order chunks are published, and   *)
(* that the servicer implements ChunkLedger.                               *)
(***************************************************************************)
EXTENDS RouterServicer, FiniteSetTheorems, TLAPS

\* The coroutines inside dispatcher.analyze.
Scanning == {f \in Flusher : pc[f] = "analyze"}

\* Flusher is a finite set, so the coroutines inside the try block of the
\* scan can be counted.
LEMMA ScanningFinite ==
    /\ IsFiniteSet(Flusher)
    /\ IsFiniteSet(Scanning)
    /\ Cardinality(Scanning) \in Nat
<1>1. IsFiniteSet(Flusher)
  BY FlusherAssumption, FS_Singleton, FS_Union DEF Flusher
<1>2. IsFiniteSet(Scanning)
  BY <1>1, FS_Subset DEF Scanning
<1> QED  BY <1>1, <1>2, FS_CardinalityType

\* A coroutine that is about to leave the try block has taken a slot, so the
\* decrement in the finally clause never goes below zero.
LEMMA SlotHeld ==
    ASSUME TypeOK, SlotsAccounted, NEW f \in Flusher, pc[f] = "analyze"
    PROVE  activeScans >= 1
<1>1. f \in Scanning
  BY DEF Scanning
<1>2. Cardinality(Scanning) # 0
  BY <1>1, ScanningFinite, FS_EmptySet
<1> QED  BY <1>2, ScanningFinite DEF SlotsAccounted, Scanning, At

\* The digest of a sequence of chunks is a sequence of contents.
LEMMA ShaType == ASSUME NEW cs \in Seq(Chunk) PROVE Sha(cs) \in Seq(Content)
  BY ChunkAssumption DEF Sha

-----------------------------------------------------------------------------

\* Every field of the servicer has its type after a step of a handler that
\* receives chunks.
LEMMA HandlerTypes ==
    ASSUME TypeOK, NEW r \in Conn, Handler(r)
    PROVE  TypeOK'
<1> USE FlusherAssumption, ChunkAssumption
    DEF TypeOK, Flusher, Goto, At, intake, buffers, scans, stores, ConnPC, InHandler,
        ReaperPC, Processing
<1>1. CASE Begin(r)          BY <1>1 DEF Begin
<1>2. CASE Receive(r)        BY <1>2 DEF Receive, NextChunk
<1>3. CASE Reject(r)         BY <1>3 DEF Reject
<1>4. CASE Accept(r)
  <2>1. PICK c \in hand[r] :
            /\ buffer' = [buffer EXCEPT ![StreamOf[c]] = Append(@, c)]
            /\ touched' = [touched EXCEPT ![r] = @ \cup {StreamOf[c]}]
            /\ accepted' = [accepted EXCEPT ![r] = @ \cup {c}]
            /\ aged' = aged \ {StreamOf[c]}
    BY <1>4 DEF Accept, Appended
  <2>2. c \in Chunk /\ StreamOf[c] \in Stream
    OBVIOUS
  <2>3. buffer' \in [Stream -> Seq(Chunk)]
    BY <2>1, <2>2
  <2> QED  BY <1>4, <2>1, <2>2, <2>3 DEF Accept
<1>5. CASE LimiterError(r)   BY <1>5 DEF LimiterError
<1>6. CASE EndOfRequests(r)  BY <1>6 DEF EndOfRequests
<1>7. CASE FlushTouched(r)   BY <1>7 DEF FlushTouched, KeysDeleted
<1>8. CASE SkipFlushed(r)    BY <1>8 DEF SkipFlushed
<1>9. CASE Ack(r)            BY <1>9 DEF Ack
<1> QED  BY <1>1, <1>2, <1>3, <1>4, <1>5, <1>6, <1>7, <1>8, <1>9 DEF Handler

\* The same for a step of _process_stream.
LEMMA ProcessTypes ==
    ASSUME TypeOK, SlotsAccounted, NEW f \in Flusher, Process(f)
    PROVE  TypeOK'
<1>0. Sha(job[f]) \in Seq(Content) /\ Elems(job[f]) \subseteq Chunk
  BY ShaType DEF TypeOK, Elems
<1> USE <1>0, FlusherAssumption
    DEF TypeOK, Flusher, Goto, At, intake, buffers, scans, stores, ConnPC, InHandler,
        ReaperPC, Processing, Outcome, AfterAnalysis
<1>1. CASE LookupHit(f)     BY <1>1 DEF LookupHit
<1>2. CASE MissImage(f)     BY <1>2 DEF MissImage
<1>3. CASE MissNoImage(f)   BY <1>3 DEF MissNoImage
<1>4. CASE TakeSlot(f)      BY <1>4 DEF TakeSlot
<1>5. CASE AnalyzeOK(f)     BY <1>5, SlotHeld DEF AnalyzeOK, Released
<1>6. CASE AnalyzeError(f)  BY <1>6, SlotHeld DEF AnalyzeError, Released
<1>7. CASE Store(f)         BY <1>7 DEF Store
<1>8. CASE Publish(f)
  <2>1. events' \in Seq(Event)
    BY <1>8 DEF Publish, Event
  <2> QED  BY <1>8, <2>1 DEF Publish
<1>9. CASE RedisError(f)    BY <1>9 DEF RedisError, Raises
<1> QED  BY <1>1, <1>2, <1>3, <1>4, <1>5, <1>6, <1>7, <1>8, <1>9 DEF Process

\* The same for the reaper, the environment and stuttering.
LEMMA EnvironmentTypes ==
    ASSUME TypeOK, SlotsAccounted,
           \/ ReaperLoop \/ (\E s \in Stream : Age(s))
           \/ (\E r \in Conn : Cancel(r))
           \/ Crash \/ SettingsSync \/ Evict \/ UNCHANGED vars
    PROVE  TypeOK'
<1>a. TypeOK' \/ ReaperTake \/ ReaperPick \/ ReaperSleep
      \/ (\E s \in Stream : Age(s)) \/ (\E r \in Conn : Cancel(r))
      \/ Crash \/ SettingsSync \/ Evict \/ UNCHANGED vars
  BY DEF ReaperLoop
<1> USE FlusherAssumption, ScanAssumption
    DEF TypeOK, Flusher, Goto, At, intake, buffers, scans, stores, ConnPC, InHandler,
        ReaperPC, Processing, Outcome
<1>0. NoChunks \in [Stream -> Seq(Chunk)]
  BY DEF NoChunks
<1>1. CASE ReaperTake   BY <1>1 DEF ReaperTake, KeysDeleted
<1>2. CASE ReaperPick   BY <1>2 DEF ReaperPick
<1>3. CASE ReaperSleep  BY <1>3 DEF ReaperSleep
<1>4. ASSUME NEW s \in Stream, Age(s) PROVE TypeOK'
  BY <1>4 DEF Age
<1>5. ASSUME NEW r \in Conn, Cancel(r) PROVE TypeOK'
  <2>1. Elems(job[r]) \subseteq Chunk
    BY DEF Elems
  <2>2. activeScans' \in Nat
    BY <1>5, SlotHeld DEF Cancel, Released
  <2> QED  BY <1>5, <2>1, <2>2 DEF Cancel
<1>6. CASE Crash
  <2>1. Held \subseteq Chunk
    BY DEF Held, Elems
  <2> QED  BY <1>0, <1>6, <2>1 DEF Crash
<1>7. CASE SettingsSync BY <1>7 DEF SettingsSync
<1>8. CASE Evict        BY <1>8 DEF Evict
<1>9. CASE UNCHANGED vars  BY <1>9 DEF vars
<1> QED  BY <1>1, <1>2, <1>3, <1>4, <1>5, <1>6, <1>7, <1>8, <1>9, <1>a

-----------------------------------------------------------------------------

\* Moving a coroutine between two awaits outside the analysis leaves the set
\* of scanning coroutines alone.
LEMMA ScanningKept ==
    ASSUME TypeOK, NEW f \in Flusher, NEW p, Goto(f, p),
           pc[f] # "analyze", p # "analyze"
    PROVE  Scanning' = Scanning
  BY DEF TypeOK, Goto, Scanning

\* _active_scans counts the scanning coroutines: the only steps that change
\* either change both.
LEMMA SlotsStep ==
    ASSUME TypeOK, SlotsAccounted, [Next]_vars
    PROVE  SlotsAccounted'
<1>0. SUFFICES activeScans' = Cardinality(Scanning')
  BY DEF SlotsAccounted, Scanning, At
<1>1. activeScans = Cardinality(Scanning)
  BY DEF SlotsAccounted, Scanning, At
<1>2. ASSUME Scanning' = Scanning, UNCHANGED activeScans
      PROVE  activeScans' = Cardinality(Scanning')
  BY <1>1, <1>2
<1>3. ASSUME NEW r \in Conn, Handler(r)
      PROVE  Scanning' = Scanning /\ UNCHANGED activeScans
  <2> USE ScanningKept DEF Flusher, At, scans, stores
  <2>1. CASE Begin(r)          BY <2>1 DEF Begin
  <2>2. CASE Receive(r)        BY <2>2 DEF Receive
  <2>3. CASE Reject(r)         BY <2>3 DEF Reject
  <2>4. CASE Accept(r)         BY <2>4 DEF Accept
  <2>5. CASE LimiterError(r)   BY <2>5 DEF LimiterError
  <2>6. CASE EndOfRequests(r)  BY <2>6 DEF EndOfRequests
  <2>7. CASE FlushTouched(r)   BY <2>7 DEF FlushTouched
  <2>8. CASE SkipFlushed(r)    BY <2>8 DEF SkipFlushed, Scanning
  <2>9. CASE Ack(r)            BY <2>9 DEF Ack
  <2> QED  BY <1>3, <2>1, <2>2, <2>3, <2>4, <2>5, <2>6, <2>7, <2>8, <2>9
           DEF Handler
<1>4. ASSUME NEW f \in Flusher, Process(f)
      PROVE  activeScans' = Cardinality(Scanning')
  <2> USE ScanningKept DEF At, scans, stores
  <2>1. CASE LookupHit(f)     BY <1>2, <2>1 DEF LookupHit
  <2>2. CASE MissImage(f)     BY <1>2, <2>2 DEF MissImage
  <2>3. CASE MissNoImage(f)   BY <1>2, <2>3 DEF MissNoImage
  <2>4. CASE TakeSlot(f)
    <3>1. f \notin Scanning /\ Scanning' = Scanning \cup {f}
      BY <2>4 DEF TakeSlot, Scanning, Goto, TypeOK
    <3> QED  BY <1>1, <2>4, <3>1, ScanningFinite, FS_AddElement DEF TakeSlot
  <2>5. CASE AnalyzeOK(f) \/ AnalyzeError(f)
    <3>1. f \in Scanning /\ Scanning' = Scanning \ {f}
      BY <2>5 DEF AnalyzeOK, AnalyzeError, AfterAnalysis, Scanning, Goto, TypeOK
    <3>2. activeScans' = activeScans - 1
      BY <2>5 DEF AnalyzeOK, AnalyzeError, Released
    <3> QED  BY <1>1, <3>1, <3>2, ScanningFinite, FS_RemoveElement
  <2>6. CASE Store(f)         BY <1>2, <2>6 DEF Store
  <2>7. CASE Publish(f)       BY <1>2, <2>7 DEF Publish
  <2>8. CASE RedisError(f)    BY <1>2, <2>8 DEF RedisError, Raises
  <2> QED  BY <1>4, <2>1, <2>2, <2>3, <2>4, <2>5, <2>6, <2>7, <2>8 DEF Process
<1>5. ASSUME NEW r \in Conn, Cancel(r)
      PROVE  activeScans' = Cardinality(Scanning')
  <2>1. CASE pc[r] = "analyze"
    <3>1. r \in Scanning /\ Scanning' = Scanning \ {r}
      BY <1>5, <2>1 DEF Cancel, Scanning, Goto, TypeOK, Flusher
    <3>2. activeScans' = activeScans - 1
      BY <1>5, <2>1 DEF Cancel, Released, At
    <3> QED  BY <1>1, <3>1, <3>2, ScanningFinite, FS_RemoveElement
  <2>2. CASE pc[r] # "analyze"
    BY <1>2, <1>5, <2>2, ScanningKept DEF Cancel, Released, At, Flusher
  <2> QED  BY <2>1, <2>2
<1>6. CASE ReaperLoop
  <2> USE ScanningKept DEF Flusher, At, scans, stores
  <2>1. CASE ReaperTake   BY <1>2, <2>1 DEF ReaperTake
  <2>2. CASE ReaperPick   BY <1>2, <2>2 DEF ReaperPick
  <2>3. CASE ReaperSleep  BY <1>2, <2>3 DEF ReaperSleep
  <2> QED  BY <1>6, <2>1, <2>2, <2>3 DEF ReaperLoop
<1>7. CASE Crash
  <2>1. Scanning' = {}
    BY <1>7 DEF Crash, Scanning, InHandler, Processing, TypeOK, Flusher
  <2> QED  BY <1>7, <2>1, FS_EmptySet DEF Crash
<1>8. CASE \/ (\E s \in Stream : Age(s)) \/ SettingsSync \/ Evict \/ UNCHANGED vars
  <2>1. UNCHANGED <<pc, activeScans>>
    BY <1>8 DEF Age, SettingsSync, Evict, vars, scans, stores
  <2> QED  BY <1>2, <2>1 DEF Scanning
<1> QED  BY <1>2, <1>3, <1>4, <1>5, <1>6, <1>7, <1>8 DEF Next

\* The servicer's fields keep their types and _active_scans counts exactly
\* the coroutines inside dispatcher.analyze, through gateway errors, Redis
\* errors, cancellations and restarts.
THEOREM TypeAndSlots == Spec => [](TypeOK /\ SlotsAccounted)
<1>1. Init => TypeOK /\ SlotsAccounted
  <2> SUFFICES ASSUME Init PROVE TypeOK /\ SlotsAccounted
    OBVIOUS
  <2>1. TypeOK
    BY FlusherAssumption, ScanAssumption
    DEF Init, TypeOK, Flusher, ConnPC, ReaperPC, Outcome, NoChunks
  <2>2. Scanning = {}
    BY DEF Init, Scanning
  <2>3. SlotsAccounted
    BY <2>2, FS_EmptySet DEF Init, SlotsAccounted, Scanning, At
  <2> QED  BY <2>1, <2>3
<1>2. TypeOK /\ SlotsAccounted /\ [Next]_vars => TypeOK' /\ SlotsAccounted'
  BY SlotsStep, HandlerTypes, ProcessTypes, EnvironmentTypes DEF Next
<1> QED  BY <1>1, <1>2, PTL DEF Spec

\* Type correctness of every reachable state.
THEOREM TypeCorrect == Spec => []TypeOK
  BY TypeAndSlots, PTL

\* No scan slot is ever leaked or given back twice.
THEOREM SlotsCorrect == Spec => []SlotsAccounted
  BY TypeAndSlots, PTL

-----------------------------------------------------------------------------

\* Why a hit is never reported without an analysis: the verdict travels from
\* the gateway to the cache and from the cache to an event through the local
\* state of coroutines, and at each of these awaits the digest is analysed.
HitInv ==
    /\ cached \subseteq scanned
    /\ \A f \in Flusher : At(f, "store") => Sha(job[f]) \in scanned
    /\ \A f \in Flusher : At(f, "publish") /\ outcome[f] = "CACHE_HIT"
                            => Sha(job[f]) \in scanned
    /\ HitsFollowAnalysis

\* What a step does to one coroutine it is enough to check for the coroutine
\* itself: the others stand where they stood with the same job.
LEMMA HitFrame ==
    ASSUME TypeOK, HitInv, NEW f \in Flusher,
           \A g \in Flusher \ {f} : /\ pc'[g] = pc[g]
                                    /\ job'[g] = job[g]
                                    /\ outcome'[g] = outcome[g],
           scanned \subseteq scanned', cached' \subseteq scanned',
           pc'[f] = "store" => Sha(job'[f]) \in scanned',
           pc'[f] = "publish" /\ outcome'[f] = "CACHE_HIT"
                => Sha(job'[f]) \in scanned',
           HitsFollowAnalysis'
    PROVE  HitInv'
<1>1. ASSUME NEW g \in Flusher PROVE Sha(job[g])' = Sha(job'[g])
  BY DEF Sha
<1>2. ASSUME NEW g \in Flusher, pc'[g] = "store"
      PROVE  Sha(job'[g]) \in scanned'
  BY <1>2 DEF HitInv, At
<1>3. ASSUME NEW g \in Flusher, pc'[g] = "publish", outcome'[g] = "CACHE_HIT"
      PROVE  Sha(job'[g]) \in scanned'
  BY <1>3 DEF HitInv, At
<1> QED  BY <1>1, <1>2, <1>3 DEF HitInv, At

LEMMA HitStep ==
    ASSUME TypeOK, HitInv, [Next]_vars
    PROVE  HitInv'
<1>1. ASSUME UNCHANGED events, scanned \subseteq scanned'
      PROVE  HitsFollowAnalysis'
  BY <1>1 DEF HitInv, HitsFollowAnalysis, Sha
<1>2. ASSUME NEW r \in Conn, Handler(r) \/ Cancel(r) PROVE HitInv'
  <2>1. UNCHANGED <<cached, events, scanned>>
    BY <1>2 DEF Handler, Begin, Receive, Reject, Accept, LimiterError,
       EndOfRequests, FlushTouched, SkipFlushed, Ack, Cancel, scans, stores
  <2>2. /\ r \in Flusher
        /\ \A g \in Flusher \ {r} : /\ pc'[g] = pc[g]
                                    /\ job'[g] = job[g]
                                    /\ outcome'[g] = outcome[g]
    BY <1>2 DEF Handler, Begin, Receive, Reject, Accept, LimiterError, Goto,
       EndOfRequests, FlushTouched, SkipFlushed, Ack, Cancel, TypeOK, Flusher
  <2>3. pc'[r] \notin {"store", "publish"}
    BY <1>2 DEF Handler, Begin, Receive, Reject, Accept, LimiterError, Goto, At,
       EndOfRequests, FlushTouched, SkipFlushed, Ack, Cancel, TypeOK, Flusher
  <2> QED  BY <1>1, <2>1, <2>2, <2>3, HitFrame DEF HitInv
<1>3. ASSUME NEW f \in Flusher, Process(f) PROVE HitInv'
  <2>1. \A g \in Flusher \ {f} : /\ pc'[g] = pc[g]
                                 /\ job'[g] = job[g]
                                 /\ outcome'[g] = outcome[g]
    BY <1>3 DEF Process, LookupHit, MissImage, MissNoImage, TakeSlot, AnalyzeOK,
       AnalyzeError, Store, Publish, RedisError, Raises, Goto, TypeOK
  <2> USE HitFrame DEF Goto, At, TypeOK, stores
  <2>2. CASE LookupHit(f)     BY <1>1, <2>1, <2>2 DEF LookupHit, HitInv
  <2>3. CASE MissImage(f)     BY <1>1, <2>1, <2>3 DEF MissImage, HitInv
  <2>4. CASE MissNoImage(f)   BY <1>1, <2>1, <2>4 DEF MissNoImage, HitInv
  <2>5. CASE TakeSlot(f)      BY <1>1, <2>1, <2>5 DEF TakeSlot, HitInv
  <2>6. CASE AnalyzeOK(f)
    BY <1>1, <2>1, <2>6 DEF AnalyzeOK, AfterAnalysis, HitInv
  <2>7. CASE AnalyzeError(f)
    BY <1>1, <2>1, <2>7 DEF AnalyzeError, AfterAnalysis, HitInv
  <2>8. CASE Store(f)         BY <1>1, <2>1, <2>8 DEF Store, HitInv
  <2>9. CASE Publish(f)
    <3>1. HitsFollowAnalysis'
      <4> DEFINE e == [chunks |-> job[f], verdict |-> outcome[f]]
      <4>1. /\ events' = Append(events, e)
            /\ scanned' = scanned
            /\ outcome[f] = "CACHE_HIT" => Sha(job[f]) \in scanned
        BY <2>9 DEF Publish, HitInv
      <4>2. ASSUME NEW i \in DOMAIN events', events'[i].verdict = "CACHE_HIT"
            PROVE  Sha(events'[i].chunks) \in scanned
        <5>1. CASE i = Len(events) + 1
          BY <4>1, <4>2, <5>1
        <5>2. CASE i # Len(events) + 1
          <6>1. i \in DOMAIN events /\ events'[i] = events[i]
            BY <4>1, <4>2, <5>2
          <6> QED  BY <4>2, <6>1 DEF HitInv, HitsFollowAnalysis
        <5> QED  BY <5>1, <5>2
      <4> QED  BY <4>1, <4>2 DEF HitsFollowAnalysis, Sha
    <3> QED  BY <2>1, <2>9, <3>1 DEF Publish, HitInv
  <2>10. CASE RedisError(f)   BY <1>1, <2>1, <2>10 DEF RedisError, Raises, HitInv
  <2> QED  BY <1>3, <2>2, <2>3, <2>4, <2>5, <2>6, <2>7, <2>8, <2>9, <2>10
           DEF Process
<1>4. CASE ReaperLoop
  <2>1. /\ UNCHANGED <<cached, events, scanned>>
        /\ Reaper \in Flusher
        /\ pc'[Reaper] \notin {"store", "publish"}
        /\ \A g \in Flusher \ {Reaper} : /\ pc'[g] = pc[g]
                                         /\ job'[g] = job[g]
                                         /\ outcome'[g] = outcome[g]
    BY <1>4 DEF ReaperLoop, ReaperTake, ReaperPick, ReaperSleep, Goto, TypeOK,
       Flusher, stores
  <2> QED  BY <1>1, <2>1, HitFrame DEF HitInv
<1>5. CASE Crash
  <2>1. /\ UNCHANGED <<cached, events, scanned>>
        /\ \A f \in Flusher : pc'[f] \notin {"store", "publish"}
    BY <1>5 DEF Crash, InHandler, Processing, TypeOK, Flusher
  <2> QED  BY <1>1, <2>1 DEF HitInv, At
<1>6. CASE Evict
  <2>1. UNCHANGED <<pc, job, outcome, events, scanned>> /\ cached' \subseteq cached
    BY <1>6 DEF Evict
  <2> QED  BY <1>1, <2>1 DEF HitInv, At, Sha
<1>7. CASE (\E s \in Stream : Age(s)) \/ SettingsSync \/ UNCHANGED vars
  <2>1. UNCHANGED <<pc, job, outcome, cached, events, scanned>>
    BY <1>7 DEF Age, SettingsSync, stores, vars
  <2> QED  BY <1>1, <2>1 DEF HitInv, At, Sha
<1> QED  BY <1>2, <1>3, <1>4, <1>5, <1>6, <1>7 DEF Next

\* A payload is reported as CACHE_HIT only after an equal payload was analysed
\* successfully, however the coroutines that store and look up interleave.
THEOREM HitsCorrect == Spec => []HitsFollowAnalysis
<1>1. Init => HitInv
  BY DEF Init, HitInv, HitsFollowAnalysis, At, Flusher
<1>2. HitInv => HitsFollowAnalysis
  BY DEF HitInv
<1> QED  BY <1>1, <1>2, HitStep, TypeAndSlots, PTL DEF Spec

-----------------------------------------------------------------------------
(* Sequences of chunks                                                     *)

LEMMA ElemsEmpty == Elems(<<>>) = {}
  BY DEF Elems

LEMMA ElemsAppend ==
    ASSUME NEW S, NEW cs \in Seq(S), NEW c \in S
    PROVE  Elems(Append(cs, c)) = Elems(cs) \cup {c}
<1>1. DOMAIN Append(cs, c) = 1..Len(cs) + 1 /\ DOMAIN cs = 1..Len(cs) /\ Len(cs) \in Nat
  OBVIOUS
<1>2. \A i \in 1..Len(cs) : Append(cs, c)[i] = cs[i]
  OBVIOUS
<1>3. Append(cs, c)[Len(cs) + 1] = c
  OBVIOUS
<1>4. ASSUME NEW x \in Elems(Append(cs, c)) PROVE x \in Elems(cs) \cup {c}
  <2>1. PICK i \in 1..Len(cs) + 1 : x = Append(cs, c)[i]
    BY <1>1, <1>4 DEF Elems
  <2>2. CASE i = Len(cs) + 1
    BY <1>3, <2>1, <2>2
  <2>3. CASE i # Len(cs) + 1
    <3>1. i \in 1..Len(cs)
      BY <1>1, <2>3
    <3> QED  BY <1>1, <1>2, <2>1, <3>1 DEF Elems
  <2> QED  BY <2>2, <2>3
<1>5. Elems(cs) \subseteq Elems(Append(cs, c))
  <2>1. 1..Len(cs) \subseteq 1..Len(cs) + 1
    BY <1>1
  <2> QED  BY <1>1, <1>2, <2>1 DEF Elems
<1>6. c \in Elems(Append(cs, c))
  <2>1. Len(cs) + 1 \in 1..Len(cs) + 1
    BY <1>1
  <2> QED  BY <1>1, <1>3, <2>1 DEF Elems
<1> QED  BY <1>4, <1>5, <1>6

LEMMA ElemsSome ==
    ASSUME NEW S, NEW cs \in Seq(S), cs # <<>>
    PROVE  Elems(cs) # {} /\ Elems(cs) \subseteq S
<1>1. 1 \in DOMAIN cs
  OBVIOUS
<1> QED  BY <1>1 DEF Elems

\* Chunks of one stream, each once, and those of a connection in its order.
Run(cs) ==
    /\ \A k, l \in DOMAIN cs : StreamOf[cs[k]] = StreamOf[cs[l]]
    /\ \A k, l \in DOMAIN cs : cs[k] = cs[l] => k = l
    /\ \A k, l \in DOMAIN cs : k < l /\ ConnOf[cs[k]] = ConnOf[cs[l]] => cs[k] < cs[l]

LEMMA RunEmpty == Run(<<>>)
  BY DEF Run

LEMMA RunAppend ==
    ASSUME NEW S, NEW cs \in Seq(S), NEW c \in S, Run(cs),
           \A d \in Elems(cs) : /\ d # c /\ StreamOf[d] = StreamOf[c]
                                /\ ConnOf[d] = ConnOf[c] => d < c
    PROVE  Run(Append(cs, c))
<1> DEFINE n == Len(cs)
           a == Append(cs, c)
<1>1. DOMAIN a = 1..n + 1 /\ DOMAIN cs = 1..n /\ n \in Nat
  OBVIOUS
<1>2. \A i \in 1..n : a[i] = cs[i] /\ a[i] \in Elems(cs)
  BY DEF Elems
<1>3. a[n + 1] = c
  OBVIOUS
<1> HIDE DEF n, a
<1>4. \A i \in 1..n + 1 : i \in 1..n \/ i = n + 1
  BY <1>1
<1>5. \A k, l \in 1..n + 1 : StreamOf[a[k]] = StreamOf[a[l]]
  BY <1>1, <1>2, <1>3, <1>4 DEF Run
<1>6. \A k, l \in 1..n + 1 : a[k] = a[l] => k = l
  BY <1>1, <1>2, <1>3, <1>4 DEF Run
<1>7. ASSUME NEW k \in 1..n + 1, NEW l \in 1..n + 1, k < l, ConnOf[a[k]] = ConnOf[a[l]]
      PROVE  a[k] < a[l]
  <2>1. k \in 1..n
    BY <1>1, <1>7
  <2>2. CASE l = n + 1
    BY <1>2, <1>3, <1>7, <2>1, <2>2
  <2>3. CASE l # n + 1
    <3>1. l \in 1..n
      BY <1>4, <2>3
    <3> QED  BY <1>1, <1>2, <1>7, <2>1, <3>1 DEF Run
  <2> QED  BY <2>2, <2>3
<1> QED  BY <1>1, <1>5, <1>6, <1>7 DEF Run, a

-----------------------------------------------------------------------------
(* Where coroutines stand when they hold chunks                            *)

\* A coroutine holds a chunk exactly while it stands at an await at which it
\* owns one: what it picks up next overwrites nothing.
Stand ==
    /\ \A r \in Conn : hand[r] # {} => pc[r] = "limit"
    /\ \A r \in Conn : \A c, d \in hand[r] : c = d
    /\ \A f \in Flusher : job[f] # <<>> <=> pc[f] \in Processing
    /\ pc[Reaper] = "sleep" => \A s \in Stream : batch[s] = <<>>

LEMMA StandStep == ASSUME TypeOK, Stand, [Next]_vars PROVE Stand'
<1>0. Reaper \notin Conn /\ Conn \subseteq Flusher /\ Reaper \in Flusher
  BY FlusherAssumption DEF Flusher
<1>1. ASSUME NEW r \in Conn, Handler(r) PROVE Stand'
  <2> USE <1>0 DEF TypeOK, Stand, Goto, At, intake, buffers, Processing
  <2>1. CASE Begin(r)          BY <2>1 DEF Begin
  <2>2. CASE Receive(r)        BY <2>2 DEF Receive
  <2>3. CASE Reject(r)         BY <2>3 DEF Reject
  <2>4. CASE Accept(r)         BY <2>4 DEF Accept
  <2>5. CASE LimiterError(r)   BY <2>5 DEF LimiterError
  <2>6. CASE EndOfRequests(r)  BY <2>6 DEF EndOfRequests
  <2>7. CASE FlushTouched(r)   BY <2>7 DEF FlushTouched
  <2>8. CASE SkipFlushed(r)    BY <2>8 DEF SkipFlushed
  <2>9. CASE Ack(r)            BY <2>9 DEF Ack
  <2> QED  BY <1>1, <2>1, <2>2, <2>3, <2>4, <2>5, <2>6, <2>7, <2>8, <2>9 DEF Handler
<1>2. ASSUME NEW f \in Flusher, Process(f) PROVE Stand'
  <2> USE <1>0 DEF TypeOK, Stand, Goto, At, intake, buffers, Processing, AfterAnalysis
  <2>1. CASE LookupHit(f)     BY <2>1 DEF LookupHit
  <2>2. CASE MissImage(f)     BY <2>2 DEF MissImage
  <2>3. CASE MissNoImage(f)   BY <2>3 DEF MissNoImage
  <2>4. CASE TakeSlot(f)      BY <2>4 DEF TakeSlot
  <2>5. CASE AnalyzeOK(f)     BY <2>5 DEF AnalyzeOK
  <2>6. CASE AnalyzeError(f)  BY <2>6 DEF AnalyzeError
  <2>7. CASE Store(f)         BY <2>7 DEF Store
  <2>8. CASE Publish(f)       BY <2>8 DEF Publish
  <2>9. CASE RedisError(f)    BY <2>9 DEF RedisError, Raises
  <2> QED  BY <1>2, <2>1, <2>2, <2>3, <2>4, <2>5, <2>6, <2>7, <2>8, <2>9 DEF Process
<1>3. CASE ReaperLoop
  <2> USE <1>0 DEF TypeOK, Stand, Goto, At, intake, buffers, Processing
  <2>1. CASE ReaperTake   BY <2>1 DEF ReaperTake
  <2>2. CASE ReaperPick   BY <2>2 DEF ReaperPick
  <2>3. CASE ReaperSleep  BY <2>3 DEF ReaperSleep, NoChunks
  <2> QED  BY <1>3, <2>1, <2>2, <2>3 DEF ReaperLoop
<1>4. ASSUME NEW r \in Conn, Cancel(r) PROVE Stand'
  BY <1>0, <1>4 DEF Cancel, TypeOK, Stand, Goto, buffers, Processing
<1>5. CASE Crash
  BY <1>0, <1>5 DEF Crash, TypeOK, Stand, InHandler, Processing, ConnPC, NoChunks, Flusher
<1>6. CASE (\E s \in Stream : Age(s)) \/ SettingsSync \/ Evict \/ UNCHANGED vars
  <2>1. UNCHANGED <<pc, hand, job, batch>>
    BY <1>6 DEF Age, SettingsSync, Evict, vars, intake, buffers
  <2> QED  BY <2>1 DEF Stand
<1> QED  BY <1>1, <1>2, <1>3, <1>4, <1>5, <1>6 DEF Next

-----------------------------------------------------------------------------
(* What the steps do to chunks                                             *)

\* The steps that move no chunk.
Idle ==
    UNCHANGED <<pending, hand, buffer, batch, job, events, lost, limited>>

\* The steps that discard what one or all coroutines hold.
Drop ==
    /\ UNCHANGED <<pending, events>>
    /\ \A r \in Conn : hand'[r] = hand[r] \/ hand'[r] = {}
    /\ \A s \in Stream : buffer'[s] = buffer[s] \/ buffer'[s] = <<>>
    /\ \A s \in Stream : batch'[s] = batch[s] \/ batch'[s] = <<>>
    /\ \A f \in Flusher : job'[f] = job[f] \/ job'[f] = <<>>
    /\ lost \subseteq lost' /\ limited \subseteq limited'
    /\ \A r \in Conn : hand'[r] = {} => hand[r] \subseteq lost' \cup limited'
    /\ \A s \in Stream : buffer'[s] = <<>> => Elems(buffer[s]) \subseteq lost'
    /\ \A s \in Stream : batch'[s] = <<>> => Elems(batch[s]) \subseteq lost'
    /\ \A f \in Flusher : job'[f] = <<>> => Elems(job[f]) \subseteq lost'
    /\ Lossy

LEMMA HandlerDrops ==
    ASSUME TypeOK, NEW r \in Conn, Reject(r) \/ LimiterError(r) \/ Cancel(r)
    PROVE  Drop
<1>0. r \in Flusher
  BY DEF Flusher
<1>1. /\ UNCHANGED <<pending, events, buffer, batch>>
      /\ hand' = [hand EXCEPT ![r] = {}]
      /\ job' = job \/ job' = [job EXCEPT ![r] = <<>>]
      /\ lost \subseteq lost' /\ limited \subseteq limited' /\ Lossy
  BY DEF Reject, LimiterError, Cancel, buffers, stores, Lossy
<1>2. \A q \in Conn : hand'[q] = {} => hand[q] \subseteq lost' \cup limited'
  BY DEF TypeOK, Reject, LimiterError, Cancel
<1>3. \A f \in Flusher : job'[f] = <<>> => Elems(job[f]) \subseteq lost'
  BY <1>0, ElemsEmpty DEF TypeOK, Reject, LimiterError, Cancel
<1>4. \A s \in Stream : /\ buffer'[s] = <<>> => Elems(buffer[s]) \subseteq lost'
                        /\ batch'[s] = <<>> => Elems(batch[s]) \subseteq lost'
  BY <1>1, ElemsEmpty
<1> QED  BY <1>0, <1>1, <1>2, <1>3, <1>4 DEF Drop, TypeOK

LEMMA RedisDrops ==
    ASSUME TypeOK, NEW f \in Flusher, RedisError(f)
    PROVE  Drop
<1>1. /\ UNCHANGED <<pending, events, buffer, batch, hand, limited>>
      /\ job' = [job EXCEPT ![f] = <<>>]
      /\ lost' = lost \cup Elems(job[f]) /\ Lossy
  BY DEF RedisError, Raises, buffers, intake, Lossy
<1>2. \A g \in Flusher : job'[g] = <<>> => Elems(job[g]) \subseteq lost'
  BY <1>1, ElemsEmpty DEF TypeOK
<1>3. \A s \in Stream : /\ buffer'[s] = <<>> => Elems(buffer[s]) \subseteq lost'
                        /\ batch'[s] = <<>> => Elems(batch[s]) \subseteq lost'
  BY <1>1, ElemsEmpty
<1> QED  BY <1>1, <1>2, <1>3 DEF Drop, TypeOK

LEMMA CrashDrops == ASSUME TypeOK, Crash PROVE Drop
<1>1. \A q \in Conn : hand[q] \subseteq lost'
  BY DEF Crash, Held
<1>2. \A s \in Stream : Elems(buffer[s]) \subseteq lost' /\ Elems(batch[s]) \subseteq lost'
  BY DEF Crash, Held
<1>3. \A g \in Flusher : Elems(job[g]) \subseteq lost'
  BY DEF Crash, Held
<1>4. /\ UNCHANGED <<pending, events, limited>>
      /\ hand' = [r \in Conn |-> {}] /\ job' = [f \in Flusher |-> <<>>]
      /\ buffer' = NoChunks /\ batch' = NoChunks /\ lost \subseteq lost' /\ Lossy
  BY DEF Crash, Lossy
<1> QED  BY <1>1, <1>2, <1>3, <1>4 DEF Drop, NoChunks

\* A chunk is read by its connection, in order.
ReadStep(r, c) ==
    /\ NextChunk(r, c)
    /\ pending' = pending \ {c}
    /\ hand'[r] = {c} /\ hand[r] = {}
    /\ \A q \in Conn \ {r} : hand'[q] = hand[q]
    /\ UNCHANGED <<buffer, batch, job, events, lost, limited>>

LEMMA ReadEffect ==
    ASSUME TypeOK, Stand, NEW r \in Conn, Receive(r)
    PROVE  \E c \in pending : ReadStep(r, c)
  BY DEF TypeOK, Stand, Receive, ReadStep, At, buffers, stores

AcceptStep(r, c) ==
    /\ c \in Chunk /\ StreamOf[c] \in Stream
    /\ hand[r] = {c} /\ hand'[r] = {}
    /\ \A q \in Conn \ {r} : hand'[q] = hand[q]
    /\ buffer'[StreamOf[c]] = Append(buffer[StreamOf[c]], c)
    /\ Elems(buffer'[StreamOf[c]]) = Elems(buffer[StreamOf[c]]) \cup {c}
    /\ \A s \in Stream \ {StreamOf[c]} : buffer'[s] = buffer[s]
    /\ UNCHANGED <<pending, batch, job, events, lost, limited>>

LEMMA AcceptEffect ==
    ASSUME TypeOK, Stand, NEW r \in Conn, Accept(r)
    PROVE  \E c \in hand[r] : AcceptStep(r, c)
<1>1. PICK c \in hand[r] : buffer' = [buffer EXCEPT ![StreamOf[c]] = Append(buffer[StreamOf[c]], c)]
  BY DEF Accept, Appended
<1>2. c \in Chunk /\ StreamOf[c] \in Stream /\ hand[r] = {c}
  <2>1. hand[r] \subseteq Chunk
    BY DEF TypeOK
  <2>2. c \in Chunk /\ hand[r] = {c}
    BY <2>1 DEF Stand
  <2> QED  BY <2>2, ChunkAssumption
<1>3. buffer[StreamOf[c]] \in Seq(Chunk)
  BY <1>2 DEF TypeOK
<1>4. Elems(Append(buffer[StreamOf[c]], c)) = Elems(buffer[StreamOf[c]]) \cup {c}
  BY <1>2, <1>3, ElemsAppend
<1>5. /\ buffer'[StreamOf[c]] = Append(buffer[StreamOf[c]], c)
      /\ \A s \in Stream \ {StreamOf[c]} : buffer'[s] = buffer[s]
  BY <1>1, <1>2 DEF TypeOK
<1>6. hand'[r] = {} /\ \A q \in Conn \ {r} : hand'[q] = hand[q]
  BY DEF Accept, TypeOK
<1>7. UNCHANGED <<pending, batch, job, events, lost, limited>>
  BY DEF Accept, stores
<1> QED  BY <1>2, <1>4, <1>5, <1>6, <1>7 DEF AcceptStep

\* A flusher pops a stream and works on it.
FlushStep(f, s) ==
    /\ buffer[s] # <<>> /\ job[f] = <<>>
    /\ job'[f] = buffer[s] /\ buffer'[s] = <<>>
    /\ \A g \in Flusher \ {f} : job'[g] = job[g]
    /\ \A t \in Stream \ {s} : buffer'[t] = buffer[t]
    /\ UNCHANGED <<pending, hand, batch, events, lost, limited>>

LEMMA FlushEffect ==
    ASSUME TypeOK, Stand, NEW r \in Conn, FlushTouched(r)
    PROVE  \E s \in Stream : FlushStep(r, s)
<1>1. PICK s \in touched[r] : /\ buffer[s] # <<>> /\ job' = [job EXCEPT ![r] = buffer[s]]
                              /\ buffer' = KeysDeleted({s})
  BY DEF FlushTouched
<1>2. s \in Stream /\ r \in Flusher /\ job[r] = <<>>
  BY DEF TypeOK, Stand, FlushTouched, At, Processing, Flusher
<1>3. UNCHANGED <<pending, hand, batch, events, lost, limited>>
  BY DEF FlushTouched, stores
<1> QED  BY <1>1, <1>2, <1>3 DEF FlushStep, KeysDeleted, TypeOK

\* The reaper moves idle streams to its list.
TakeStep ==
    /\ \A s \in Stream : /\ batch[s] = <<>>
                         /\ \/ batch'[s] = buffer[s] /\ buffer'[s] = <<>>
                            \/ batch'[s] = <<>> /\ buffer'[s] = buffer[s]
    /\ UNCHANGED <<pending, hand, job, events, lost, limited>>

LEMMA TakeEffect == ASSUME TypeOK, Stand, ReaperTake PROVE TakeStep
  BY DEF TypeOK, Stand, ReaperTake, TakeStep, KeysDeleted, At, intake, stores

PickStep(s) ==
    /\ batch[s] # <<>> /\ job[Reaper] = <<>>
    /\ job'[Reaper] = batch[s] /\ batch'[s] = <<>>
    /\ \A g \in Flusher \ {Reaper} : job'[g] = job[g]
    /\ \A t \in Stream \ {s} : batch'[t] = batch[t]
    /\ UNCHANGED <<pending, hand, buffer, events, lost, limited>>

LEMMA PickEffect ==
    ASSUME TypeOK, Stand, ReaperPick
    PROVE  \E s \in Stream : PickStep(s)
<1>1. Reaper \in Flusher /\ job[Reaper] = <<>>
  BY DEF Flusher, Stand, ReaperPick, At, Processing
<1> QED  BY <1>1 DEF ReaperPick, PickStep, TypeOK, intake, stores

PublishStep(f) ==
    /\ job[f] # <<>> /\ job'[f] = <<>>
    /\ \A g \in Flusher \ {f} : job'[g] = job[g]
    /\ Len(events) \in Nat
    /\ DOMAIN events = 1..Len(events) /\ DOMAIN events' = 1..Len(events) + 1
    /\ \A i \in DOMAIN events : events'[i] = events[i]
    /\ events'[Len(events) + 1].chunks = job[f]
    /\ UNCHANGED <<pending, hand, buffer, batch, lost, limited>>

LEMMA PublishEffect ==
    ASSUME TypeOK, Stand, NEW f \in Flusher, Publish(f)
    PROVE  PublishStep(f)
<1> DEFINE e == [chunks |-> job[f], verdict |-> outcome[f]]
<1>1. events' = Append(events, e) /\ e.chunks = job[f]
  BY DEF Publish
<1>2. events \in Seq(Event) /\ Len(events) \in Nat
  BY DEF TypeOK
<1> HIDE DEF e
<1>3. /\ DOMAIN events = 1..Len(events) /\ DOMAIN events' = 1..Len(events) + 1
      /\ \A i \in DOMAIN events : events'[i] = events[i]
      /\ events'[Len(events) + 1] = e
  BY <1>1, <1>2
<1>4. job[f] # <<>> /\ job'[f] = <<>> /\ \A g \in Flusher \ {f} : job'[g] = job[g]
  BY DEF TypeOK, Stand, Publish, At, Processing
<1>5. UNCHANGED <<pending, hand, buffer, batch, lost, limited>>
  BY DEF Publish, intake, buffers
<1> QED  BY <1>1, <1>2, <1>3, <1>4, <1>5 DEF PublishStep

\* Every step is one of these.
ChunkStep ==
    \/ Idle \/ Drop \/ TakeStep
    \/ \E r \in Conn, c \in pending : ReadStep(r, c)
    \/ \E r \in Conn : \E c \in hand[r] : AcceptStep(r, c)
    \/ \E f \in Flusher, s \in Stream : FlushStep(f, s)
    \/ \E s \in Stream : PickStep(s)
    \/ \E f \in Flusher : PublishStep(f)

LEMMA Steps == ASSUME TypeOK, Stand, [Next]_vars PROVE ChunkStep
<1>0. Conn \subseteq Flusher /\ Reaper \in Flusher
  BY DEF Flusher
<1>1. ASSUME NEW r \in Conn, Handler(r) \/ Cancel(r) PROVE ChunkStep
  <2>1. CASE Begin(r) \/ EndOfRequests(r) \/ SkipFlushed(r) \/ Ack(r)
    <3>1. Idle
      BY <2>1 DEF Begin, EndOfRequests, SkipFlushed, Ack, Idle, intake, buffers, stores
    <3> QED  BY <3>1 DEF ChunkStep
  <2>2. CASE Receive(r)
    BY <2>2, ReadEffect DEF ChunkStep
  <2>3. CASE Reject(r) \/ LimiterError(r) \/ Cancel(r)
    BY <2>3, HandlerDrops DEF ChunkStep
  <2>4. CASE Accept(r)
    BY <2>4, AcceptEffect DEF ChunkStep
  <2>5. CASE FlushTouched(r)
    BY <1>0, <2>5, FlushEffect DEF ChunkStep
  <2> QED  BY <1>1, <2>1, <2>2, <2>3, <2>4, <2>5 DEF Handler
<1>2. ASSUME NEW f \in Flusher, Process(f) PROVE ChunkStep
  <2>1. CASE RedisError(f)
    BY <2>1, RedisDrops DEF ChunkStep
  <2>2. CASE Publish(f)
    BY <2>2, PublishEffect DEF ChunkStep
  <2>3. CASE ~RedisError(f) /\ ~Publish(f)
    <3>1. Idle
      BY <1>2, <2>3 DEF Process, LookupHit, MissImage, MissNoImage, TakeSlot, AnalyzeOK,
         AnalyzeError, Store, Idle, intake, buffers, stores
    <3> QED  BY <3>1 DEF ChunkStep
  <2> QED  BY <2>1, <2>2, <2>3
<1>3. CASE ReaperLoop
  <2>1. ReaperSleep => Idle
    BY DEF ReaperSleep, Idle, intake, buffers, stores
  <2> QED  BY <1>3, <2>1, TakeEffect, PickEffect DEF ReaperLoop, ChunkStep
<1>4. CASE Crash
  BY <1>4, CrashDrops DEF ChunkStep
<1>5. CASE (\E s \in Stream : Age(s)) \/ SettingsSync \/ Evict \/ UNCHANGED vars
  <2>1. Idle
    BY <1>5 DEF Age, SettingsSync, Evict, Idle, vars, intake, buffers, stores
  <2> QED  BY <2>1 DEF ChunkStep
<1> QED  BY <1>1, <1>2, <1>3, <1>4, <1>5 DEF Next

-----------------------------------------------------------------------------
(* Each chunk is in one place                                              *)

\* The places a chunk can be in, each a kind and an index.
Sits(c, k, x) ==
    \/ k = "pending" /\ x = Reaper /\ c \in pending
    \/ k = "hand" /\ x \in Conn /\ c \in hand[x]
    \/ k = "buffer" /\ x \in Stream /\ c \in Elems(buffer[x])
    \/ k = "batch" /\ x \in Stream /\ c \in Elems(batch[x])
    \/ k = "job" /\ x \in Flusher /\ c \in Elems(job[x])
    \/ k = "event" /\ x \in DOMAIN events /\ c \in Elems(events[x].chunks)

Apart == \A c \in Chunk : \A k, x, l, y :
            Sits(c, k, x) /\ Sits(c, l, y) => k = l /\ x = y

\* What a step can do to one chunk.
Stays(c) == \A k, x : Sits(c, k, x)' <=> Sits(c, k, x)
Leaves(c) ==
    /\ \A k, x : Sits(c, k, x)' => Sits(c, k, x)
    /\ \A k, x : Sits(c, k, x) => Sits(c, k, x)' \/ c \in lost' \cup limited'
Goes(c, l, y) == \A k, x : Sits(c, k, x)' <=> k = l /\ x = y

LEMMA IdleMoves == ASSUME Idle, NEW c \in Chunk PROVE Stays(c)
  BY DEF Idle, Stays, Sits

LEMMA DropMoves == ASSUME Drop, NEW c \in Chunk PROVE Leaves(c)
  BY ElemsEmpty DEF Drop, Leaves, Sits

LEMMA ReadMoves ==
    ASSUME Apart, NEW r \in Conn, NEW d \in pending, ReadStep(r, d), NEW c \in Chunk
    PROVE  IF c = d THEN Goes(c, "hand", r) ELSE Stays(c)
<1>1. CASE c = d
  <2>1. Sits(c, "pending", Reaper)
    BY <1>1 DEF Sits
  <2>2. \A k, x : Sits(c, k, x) => k = "pending"
    BY <2>1 DEF Apart
  <2> QED  BY <1>1, <2>2 DEF ReadStep, Goes, Sits
<1>2. CASE c # d
  BY <1>2 DEF ReadStep, Stays, Sits
<1> QED  BY <1>1, <1>2

LEMMA AcceptMoves ==
    ASSUME Apart, NEW r \in Conn, NEW d \in hand[r], AcceptStep(r, d), NEW c \in Chunk
    PROVE  IF c = d THEN Goes(c, "buffer", StreamOf[d]) ELSE Stays(c)
<1>1. CASE c = d
  <2>1. Sits(c, "hand", r)
    BY <1>1 DEF Sits
  <2>2. \A k, x : Sits(c, k, x) => k = "hand" /\ x = r
    BY <2>1 DEF Apart
  <2> QED  BY <1>1, <2>2 DEF AcceptStep, Goes, Sits
<1>2. CASE c # d
  <2>1. \A q \in Conn : c \in hand'[q] <=> c \in hand[q]
    BY <1>2 DEF AcceptStep
  <2>2. \A s \in Stream : c \in Elems(buffer'[s]) <=> c \in Elems(buffer[s])
    BY <1>2 DEF AcceptStep
  <2> QED  BY <2>1, <2>2 DEF AcceptStep, Stays, Sits
<1> QED  BY <1>1, <1>2

LEMMA FlushMoves ==
    ASSUME Apart, NEW f \in Flusher, NEW s \in Stream, FlushStep(f, s), NEW c \in Chunk
    PROVE  IF c \in Elems(buffer[s]) THEN Goes(c, "job", f) ELSE Stays(c)
<1>1. CASE c \in Elems(buffer[s])
  <2>1. \A k, x : Sits(c, k, x) => k = "buffer" /\ x = s
    BY <1>1 DEF Apart, Sits
  <2> QED  BY <1>1, <2>1, ElemsEmpty DEF FlushStep, Goes, Sits
<1>2. CASE c \notin Elems(buffer[s])
  BY <1>2, ElemsEmpty DEF FlushStep, Stays, Sits
<1> QED  BY <1>1, <1>2

LEMMA TakeMoves ==
    ASSUME Apart, TakeStep, NEW c \in Chunk
    PROVE  Stays(c) \/ \E s \in Stream : c \in Elems(buffer[s]) /\ Goes(c, "batch", s)
<1>1. ASSUME NEW s \in Stream, c \in Elems(buffer[s]), batch'[s] = buffer[s]
      PROVE  Goes(c, "batch", s)
  <2>1. \A k, x : Sits(c, k, x) => k = "buffer" /\ x = s
    BY <1>1 DEF Apart, Sits
  <2> QED  BY <1>1, <2>1, ElemsEmpty DEF TakeStep, Goes, Sits
<1>2. ASSUME \A s \in Stream : c \in Elems(buffer[s]) => batch'[s] # buffer[s]
      PROVE  Stays(c)
  BY <1>2, ElemsEmpty DEF TakeStep, Stays, Sits
<1> QED  BY <1>1, <1>2

LEMMA PickMoves ==
    ASSUME Apart, NEW s \in Stream, PickStep(s), NEW c \in Chunk
    PROVE  IF c \in Elems(batch[s]) THEN Goes(c, "job", Reaper) ELSE Stays(c)
<1>0. Reaper \in Flusher
  BY DEF Flusher
<1>1. CASE c \in Elems(batch[s])
  <2>1. \A k, x : Sits(c, k, x) => k = "batch" /\ x = s
    BY <1>1 DEF Apart, Sits
  <2> QED  BY <1>0, <1>1, <2>1, ElemsEmpty DEF PickStep, Goes, Sits
<1>2. CASE c \notin Elems(batch[s])
  BY <1>0, <1>2, ElemsEmpty DEF PickStep, Stays, Sits
<1> QED  BY <1>1, <1>2

LEMMA PublishMoves ==
    ASSUME Apart, NEW f \in Flusher, PublishStep(f), NEW c \in Chunk
    PROVE  IF c \in Elems(job[f]) THEN Goes(c, "event", Len(events) + 1) ELSE Stays(c)
<1>0. /\ Len(events) + 1 \in DOMAIN events'
      /\ \A i : i \in DOMAIN events' <=> i \in DOMAIN events \/ i = Len(events) + 1
      /\ Len(events) + 1 \notin DOMAIN events
  BY DEF PublishStep
<1>1. CASE c \in Elems(job[f])
  <2>1. \A k, x : Sits(c, k, x) => k = "job" /\ x = f
    BY <1>1 DEF Apart, Sits
  <2> QED  BY <1>0, <1>1, <2>1, ElemsEmpty DEF PublishStep, Goes, Sits
<1>2. CASE c \notin Elems(job[f])
  BY <1>0, <1>2, ElemsEmpty DEF PublishStep, Stays, Sits
<1> QED  BY <1>1, <1>2

LEMMA Moves ==
    ASSUME Apart, ChunkStep, NEW c \in Chunk
    PROVE  Stays(c) \/ Leaves(c) \/ \E l, y : Goes(c, l, y)
  BY IdleMoves, DropMoves, ReadMoves, AcceptMoves, FlushMoves, TakeMoves, PickMoves,
     PublishMoves DEF ChunkStep

\* Every chunk is somewhere, or was turned away or discarded.
Accounted == \A c \in Chunk : (\E k, x : Sits(c, k, x)) \/ c \in lost \cup limited

LEMMA PlacesStep ==
    ASSUME TypeOK, Apart, Accounted, ChunkStep
    PROVE  Apart' /\ Accounted'
<1>1. lost \subseteq lost' /\ limited \subseteq limited'
  BY DEF ChunkStep, Idle, Drop, TakeStep, ReadStep, AcceptStep, FlushStep, PickStep,
     PublishStep
<1>2. ASSUME NEW c \in Chunk
      PROVE  /\ \A k, x, l, y : Sits(c, k, x)' /\ Sits(c, l, y)' => k = l /\ x = y
             /\ (\E k, x : Sits(c, k, x)') \/ c \in lost' \cup limited'
  <2>1. CASE Stays(c) \/ Leaves(c)
    BY <1>1, <2>1 DEF Stays, Leaves, Apart, Accounted
  <2>2. ASSUME NEW l, NEW y, Goes(c, l, y)
        PROVE  /\ \A k, x, m, z : Sits(c, k, x)' /\ Sits(c, m, z)' => k = m /\ x = z
               /\ \E k, x : Sits(c, k, x)'
    BY <2>2 DEF Goes
  <2> QED  BY <2>1, <2>2, Moves
<1> QED  BY <1>2 DEF Apart, Accounted

-----------------------------------------------------------------------------
(* In which order chunks are published                                     *)

\* What is held or published together is a run.
Runs ==
    /\ \A r \in Conn : \A c \in hand[r] : ConnOf[c] = r
    /\ \A s \in Stream : \A c \in Elems(buffer[s]) \cup Elems(batch[s]) : StreamOf[c] = s
    /\ \A s \in Stream : Run(buffer[s]) /\ Run(batch[s])
    /\ \A f \in Flusher : Run(job[f])
    /\ \A i \in DOMAIN events : Run(events[i].chunks) /\ events[i].chunks # <<>>

\* A connection's chunks are read in order, and the one in the handler's hand
\* is the last one read.
InOrder ==
    /\ \A d \in Chunk \ pending, e \in pending : ConnOf[d] = ConnOf[e] => d < e
    /\ \A r \in Conn : \A c \in hand[r], d \in Chunk \ pending :
          ConnOf[d] = r => d <= c

LEMMA OrderStep ==
    ASSUME TypeOK, Runs, InOrder, ChunkStep
    PROVE  InOrder'
<1>1. ASSUME UNCHANGED pending, \A r \in Conn : hand'[r] = hand[r] \/ hand'[r] = {}
      PROVE  InOrder'
  BY <1>1 DEF InOrder
<1>2. ASSUME NEW r \in Conn, NEW c \in pending, ReadStep(r, c)
      PROVE  InOrder'
  <2>1. /\ pending' = pending \ {c} /\ ConnOf[c] = r /\ c \in Chunk
        /\ \A d \in pending : ConnOf[d] = r => c <= d
        /\ Chunk \subseteq Nat /\ pending \subseteq Chunk
    BY <1>2, ChunkAssumption DEF ReadStep, NextChunk, TypeOK
  <2>2. ASSUME NEW d \in Chunk \ pending', NEW e \in pending', ConnOf[d] = ConnOf[e]
        PROVE  d < e
    <3>1. CASE d = c
      <4>1. c <= e /\ c # e
        BY <2>1, <2>2, <3>1
      <4> QED  BY <2>1, <2>2, <3>1, <4>1
    <3>2. CASE d # c
      BY <2>1, <2>2, <3>2 DEF InOrder
    <3> QED  BY <3>1, <3>2
  <2>3. ASSUME NEW q \in Conn, NEW e \in hand'[q], NEW d \in Chunk \ pending', ConnOf[d] = q
        PROVE  d <= e
    <3>1. CASE q = r
      <4>1. e = c /\ c \in Nat
        BY <1>2, <2>1, <2>3, <3>1 DEF ReadStep
      <4>2. CASE d = c
        BY <4>1, <4>2
      <4>3. CASE d # c
        <5>1. d < c /\ d \in Nat
          BY <2>1, <2>3, <3>1, <4>3 DEF InOrder
        <5> QED  BY <4>1, <5>1
      <4> QED  BY <4>2, <4>3
    <3>2. CASE q # r
      BY <1>2, <2>1, <2>3, <3>2 DEF ReadStep, InOrder
    <3> QED  BY <3>1, <3>2
  <2> QED  BY <2>2, <2>3 DEF InOrder
<1>3. ASSUME NEW r \in Conn, NEW c \in hand[r], AcceptStep(r, c) PROVE InOrder'
  BY <1>1, <1>3 DEF AcceptStep
<1>4. CASE Drop
  BY <1>1, <1>4 DEF Drop
<1>5. ASSUME UNCHANGED <<pending, hand>> PROVE InOrder'
  BY <1>1, <1>5
<1>6. Idle \/ TakeStep \/ (\E f \in Flusher, s \in Stream : FlushStep(f, s))
        \/ (\E s \in Stream : PickStep(s)) \/ (\E f \in Flusher : PublishStep(f))
      => UNCHANGED <<pending, hand>>
  BY DEF Idle, TakeStep, FlushStep, PickStep, PublishStep
<1> QED  BY <1>2, <1>3, <1>4, <1>5, <1>6 DEF ChunkStep

LEMMA RunsStep ==
    ASSUME TypeOK, Apart, Runs, InOrder, ChunkStep
    PROVE  Runs'
<1> USE ElemsEmpty, RunEmpty
<1>1. CASE Idle      BY <1>1 DEF Idle, Runs
<1>2. CASE Drop      BY <1>2 DEF Drop, Runs
<1>3. CASE TakeStep  BY <1>3 DEF TakeStep, Runs
<1>4. ASSUME NEW r \in Conn, NEW c \in pending, ReadStep(r, c) PROVE Runs'
  BY <1>4 DEF ReadStep, NextChunk, Runs
<1>5. ASSUME NEW r \in Conn, NEW c \in hand[r], AcceptStep(r, c) PROVE Runs'
  <2> DEFINE s == StreamOf[c]
  <2>1. c \in Chunk /\ s \in Stream /\ buffer[s] \in Seq(Chunk) /\ ConnOf[c] = r
    BY <1>5 DEF AcceptStep, TypeOK, Runs
  <2>2. ASSUME NEW d \in Elems(buffer[s])
        PROVE  d # c /\ StreamOf[d] = s /\ (ConnOf[d] = ConnOf[c] => d < c)
    <3>1. d \in Chunk
      BY <2>1, <2>2 DEF Elems
    <3>2. Sits(d, "buffer", s) /\ Sits(c, "hand", r)
      BY <2>1, <2>2 DEF Sits
    <3>3. d # c
      BY <2>1, <3>1, <3>2 DEF Apart
    <3>4. d \notin pending
      BY <3>1, <3>2 DEF Apart, Sits
    <3>5. ConnOf[d] = r => d <= c
      BY <3>1, <3>4 DEF InOrder
    <3>6. d \in Nat /\ c \in Nat
      BY <2>1, <3>1, ChunkAssumption
    <3> QED  BY <2>1, <2>2, <3>3, <3>5, <3>6 DEF Runs
  <2>3. Run(Append(buffer[s], c))
    BY <2>1, <2>2, RunAppend DEF Runs
  <2> HIDE DEF s
  <2>4. /\ Elems(buffer'[s]) = Elems(buffer[s]) \cup {c} /\ Run(buffer'[s]) /\ StreamOf[c] = s
        /\ \A t \in Stream \ {s} : buffer'[t] = buffer[t]
        /\ \A q \in Conn : hand'[q] \subseteq hand[q]
        /\ UNCHANGED <<batch, job, events>>
    BY <1>5, <2>3 DEF AcceptStep, s
  <2>5. \A t \in Stream : Run(buffer'[t]) /\ \A d \in Elems(buffer'[t]) : StreamOf[d] = t
    BY <2>4 DEF Runs
  <2> QED  BY <2>4, <2>5 DEF Runs
<1>6. ASSUME NEW f \in Flusher, NEW s \in Stream, FlushStep(f, s) PROVE Runs'
  BY <1>6 DEF FlushStep, Runs
<1>7. ASSUME NEW s \in Stream, PickStep(s) PROVE Runs'
  BY <1>7 DEF PickStep, Runs
<1>8. ASSUME NEW f \in Flusher, PublishStep(f) PROVE Runs'
  <2>1. \A g \in Flusher : Run(job'[g])
    BY <1>8 DEF PublishStep, Runs
  <2>2. ASSUME NEW i \in DOMAIN events'
        PROVE  Run(events'[i].chunks) /\ events'[i].chunks # <<>>
    <3>1. i \in DOMAIN events \/ i = Len(events) + 1
      BY <1>8, <2>2 DEF PublishStep
    <3> QED  BY <1>8, <3>1 DEF PublishStep, Runs
  <2> QED  BY <1>8, <2>1, <2>2 DEF PublishStep, Runs
<1> QED  BY <1>1, <1>2, <1>3, <1>4, <1>5, <1>6, <1>7, <1>8 DEF ChunkStep

-----------------------------------------------------------------------------
(* What an acknowledgement promises                                        *)

\* What an RPC accepted is behind it, and unless the RPC failed it still has
\* the stream of such a chunk on its list while the chunk is buffered.
Promised ==
    /\ \A r \in Conn : \A c \in accepted[r] : /\ c \notin pending
                                              /\ \A q \in Conn : c \notin hand[q]
    /\ \A r \in Conn : At(r, "acked") => touched[r] = {}
    /\ \A r \in Conn, s \in Stream :
          \/ pc[r] \in {"idle", "failed"}
          \/ s \in touched[r]
          \/ accepted[r] \cap Elems(buffer[s]) = {}

LEMMA AcceptPromised ==
    ASSUME TypeOK, Stand, Apart, Promised, NEW r \in Conn, Accept(r)
    PROVE  Promised'
<1>1. PICK c \in hand[r] : /\ buffer' = [buffer EXCEPT ![StreamOf[c]] = Append(buffer[StreamOf[c]], c)]
                           /\ touched' = [touched EXCEPT ![r] = touched[r] \cup {StreamOf[c]}]
                           /\ accepted' = [accepted EXCEPT ![r] = accepted[r] \cup {c}]
  BY DEF Accept, Appended
<1> DEFINE s == StreamOf[c]
<1>2. hand[r] \subseteq Chunk
  BY DEF TypeOK
<1>3. c \in Chunk /\ s \in Stream /\ buffer[s] \in Seq(Chunk)
  BY <1>2, ChunkAssumption DEF TypeOK
<1>4. /\ Elems(buffer'[s]) = Elems(buffer[s]) \cup {c}
      /\ \A t \in Stream \ {s} : buffer'[t] = buffer[t]
  BY <1>1, <1>3, ElemsAppend DEF TypeOK
<1>5. /\ accepted'[r] = accepted[r] \cup {c} /\ touched'[r] = touched[r] \cup {s}
      /\ \A q \in Conn \ {r} : accepted'[q] = accepted[q] /\ touched'[q] = touched[q]
  BY <1>1 DEF TypeOK
<1>6. /\ hand'[r] = {} /\ \A q \in Conn \ {r} : hand'[q] = hand[q]
      /\ UNCHANGED pending
      /\ pc[r] = "limit" /\ pc'[r] = "recv" /\ \A q \in Conn \ {r} : pc'[q] = pc[q]
  BY DEF Accept, TypeOK, Goto, At, Flusher
<1>7. Sits(c, "hand", r)
  BY DEF Sits
<1>8. c \notin pending /\ \A q \in Conn \ {r} : c \notin hand[q]
  BY <1>3, <1>7 DEF Apart, Sits
<1>9. \A t \in Stream : c \notin Elems(buffer[t])
  BY <1>3, <1>7 DEF Apart, Sits
<1> HIDE DEF s
<1>10. ASSUME NEW q \in Conn, NEW t \in Stream, pc'[q] \notin {"idle", "failed"}, t \notin touched'[q]
       PROVE  accepted'[q] \cap Elems(buffer'[t]) = {}
  <2>1. accepted[q] \cap Elems(buffer[t]) = {}
    BY <1>5, <1>6, <1>10 DEF Promised
  <2>2. CASE q = r
    <3>1. t # s
      BY <1>5, <1>10, <2>2
    <3> QED  BY <1>4, <1>5, <1>9, <2>1, <2>2, <3>1
  <2>3. CASE q # r
    <3>1. c \notin accepted[q]
      BY DEF Promised
    <3> QED  BY <1>4, <1>5, <2>1, <2>3, <3>1
  <2> QED  BY <2>2, <2>3
<1>11. \A q \in Conn : pc'[q] = "acked" => touched'[q] = {}
  BY <1>5, <1>6 DEF Promised, At
<1>12. \A q \in Conn : \A d \in accepted'[q] : d \notin pending' /\ \A p \in Conn : d \notin hand'[p]
  BY <1>5, <1>6, <1>8 DEF Promised
<1> QED  BY <1>10, <1>11, <1>12 DEF Promised, At

LEMMA PromisedStep ==
    ASSUME TypeOK, Stand, Apart, Promised, [Next]_vars
    PROVE  Promised'
<1>0. Reaper \notin Conn /\ Conn \subseteq Flusher
  BY FlusherAssumption DEF Flusher
<1>1. ASSUME UNCHANGED <<pending, touched, accepted>>,
             \A q \in Conn : hand'[q] \subseteq hand[q],
             \A q \in Conn : \/ pc'[q] = pc[q]
                             \/ pc'[q] \in {"idle", "failed"} \/ pc[q] \notin {"idle", "failed"},
             \A q \in Conn : pc'[q] = "acked" => touched[q] = {},
             \A s \in Stream : Elems(buffer'[s]) \subseteq Elems(buffer[s])
      PROVE  Promised'
  BY <1>1 DEF Promised, At
<1>2. ASSUME NEW r \in Conn, Handler(r) PROVE Promised'
  <2> USE <1>0 DEF TypeOK, Goto, At, intake, buffers
  <2>1. CASE Begin(r)
    BY <2>1 DEF Begin, Promised
  <2>2. CASE Receive(r)
    <3>1. PICK c \in pending : ReadStep(r, c)
      BY <2>2, ReadEffect
    <3>2. UNCHANGED <<touched, accepted>> /\ pc'[r] = "limit" /\ pc[r] = "recv"
          /\ \A q \in Conn \ {r} : pc'[q] = pc[q]
      BY <2>2 DEF Receive
    <3>3. \A q \in Conn : \A d \in accepted[q] : d # c
      BY DEF Promised
    <3>4. \A q \in Conn : \A d \in accepted'[q] : d \notin pending' /\ \A t \in Conn : d \notin hand'[t]
      BY <3>1, <3>2, <3>3 DEF ReadStep, Promised
    <3>5. \A q \in Conn : pc'[q] = "acked" => touched'[q] = {}
      BY <3>2 DEF Promised
    <3>6. \A q \in Conn : pc[q] \in {"idle", "failed"} => pc'[q] \in {"idle", "failed"}
      BY <3>2
    <3>7. \A q \in Conn, s \in Stream :
             \/ pc'[q] \in {"idle", "failed"}
             \/ s \in touched'[q]
             \/ accepted'[q] \cap Elems(buffer'[s]) = {}
      BY <3>1, <3>2, <3>6 DEF ReadStep, Promised
    <3> QED  BY <3>4, <3>5, <3>7 DEF Promised
  <2>3. CASE Reject(r)
    BY <1>1, <2>3 DEF Reject, Promised
  <2>4. CASE Accept(r)
    BY <2>4, AcceptPromised
  <2>5. CASE LimiterError(r)
    BY <2>5 DEF LimiterError, Promised
  <2>6. CASE EndOfRequests(r)
    BY <1>1, <2>6 DEF EndOfRequests, Promised
  <2>7. CASE FlushTouched(r)
    <3>1. PICK s \in touched[r] : /\ buffer' = KeysDeleted({s})
                                  /\ touched' = [touched EXCEPT ![r] = touched[r] \ {s}]
      BY <2>7 DEF FlushTouched
    <3>2. /\ UNCHANGED <<pending, hand, accepted>> /\ pc[r] = "pick" /\ pc'[r] = "lookup"
          /\ \A q \in Conn \ {r} : pc'[q] = pc[q]
      BY <2>7 DEF FlushTouched
    <3>3. /\ \A t \in Stream \ {s} : buffer'[t] = buffer[t]
          /\ \A t \in Stream : t = s => Elems(buffer'[t]) = {}
      BY <3>1, ElemsEmpty DEF KeysDeleted
    <3> QED  BY <3>1, <3>2, <3>3 DEF Promised
  <2>8. CASE SkipFlushed(r)
    <3>1. PICK s \in touched[r] : /\ buffer[s] = <<>>
                                  /\ touched' = [touched EXCEPT ![r] = touched[r] \ {s}]
      BY <2>8 DEF SkipFlushed
    <3>2. UNCHANGED <<pending, hand, accepted, buffer, pc>> /\ Elems(buffer[s]) = {} /\ pc[r] = "pick"
      BY <2>8, <3>1, ElemsEmpty DEF SkipFlushed
    <3> QED  BY <3>1, <3>2 DEF Promised
  <2>9. CASE Ack(r)
    BY <1>1, <2>9 DEF Ack, Done, Promised
  <2> QED  BY <1>2, <2>1, <2>2, <2>3, <2>4, <2>5, <2>6, <2>7, <2>8, <2>9 DEF Handler
<1>3. ASSUME NEW f \in Flusher, Process(f) PROVE Promised'
  <2>1. UNCHANGED <<pending, touched, accepted, hand, buffer>>
    BY <1>3 DEF Process, LookupHit, MissImage, MissNoImage, TakeSlot, AnalyzeOK,
       AnalyzeError, Store, Publish, RedisError, intake, buffers
  <2>2. /\ pc[f] \in Processing /\ pc'[f] \in Processing \cup {"pick"}
        /\ \A g \in Flusher \ {f} : pc'[g] = pc[g]
    BY <1>3 DEF Process, LookupHit, MissImage, MissNoImage, TakeSlot, AnalyzeOK,
       AnalyzeError, Store, Publish, RedisError, Raises, AfterAnalysis, Goto, At, TypeOK,
       Processing
  <2>3. \A q \in Conn :
          \/ pc'[q] = pc[q]
          \/ pc[q] \in Processing /\ pc'[q] \in Processing \cup {"pick"}
    BY <1>0, <2>2
  <2>4. \A q \in Conn : pc'[q] = "acked" => pc[q] = "acked"
    BY <2>3 DEF Processing
  <2>5. \A q \in Conn : pc'[q] = pc[q] \/ pc[q] \notin {"idle", "failed"}
    BY <2>3 DEF Processing
  <2>6. \A q \in Conn : pc'[q] = "acked" => touched[q] = {}
    BY <2>4 DEF Promised, At
  <2> QED  BY <1>1, <2>1, <2>5, <2>6
<1>4. CASE ReaperLoop
  <2>1. UNCHANGED <<pending, touched, accepted, hand>>
    BY <1>4 DEF ReaperLoop, ReaperTake, ReaperPick, ReaperSleep, intake
  <2>2. \A q \in Conn : pc'[q] = pc[q]
    BY <1>0, <1>4 DEF ReaperLoop, ReaperTake, ReaperPick, ReaperSleep, Goto, TypeOK
  <2>3. \A s \in Stream : buffer'[s] = buffer[s] \/ buffer'[s] = <<>>
    BY <1>4 DEF ReaperLoop, ReaperTake, ReaperPick, ReaperSleep, KeysDeleted, buffers
  <2> QED  BY <1>1, <2>1, <2>2, <2>3, ElemsEmpty DEF Promised, At
<1>5. ASSUME NEW r \in Conn, Cancel(r) PROVE Promised'
  <2>1. UNCHANGED <<pending, accepted, buffer>>
    BY <1>5 DEF Cancel, buffers
  <2>2. /\ pc'[r] = "failed" /\ touched'[r] = {}
        /\ \A q \in Conn \ {r} : pc'[q] = pc[q] /\ touched'[q] = touched[q]
        /\ \A q \in Conn : hand'[q] \subseteq hand[q]
    BY <1>0, <1>5 DEF Cancel, Goto, TypeOK
  <2> QED  BY <2>1, <2>2 DEF Promised, At
<1>6. CASE Crash
  <2>1. /\ UNCHANGED <<pending, accepted>> /\ \A r \in Conn : hand'[r] = {} /\ touched'[r] = {}
        /\ \A s \in Stream : Elems(buffer'[s]) = {}
    BY <1>6, ElemsEmpty DEF Crash, NoChunks
  <2> QED  BY <2>1 DEF Promised
<1>7. CASE (\E s \in Stream : Age(s)) \/ SettingsSync \/ Evict \/ UNCHANGED vars
  <2>1. UNCHANGED <<pc, pending, hand, touched, accepted, buffer>>
    BY <1>7 DEF Age, SettingsSync, Evict, vars, intake, buffers
  <2> QED  BY <2>1 DEF Promised, At
<1> QED  BY <1>2, <1>3, <1>4, <1>5, <1>6, <1>7 DEF Next

-----------------------------------------------------------------------------
(* The invariant and what follows from it                                  *)

\* Chunks are lost or turned away only by the faults that do so.
OnlyLossyFaults == ~Lossy => lost = {} /\ limited = {}

ChunkInv ==
    Stand /\ Apart /\ Accounted /\ Runs /\ InOrder /\ Promised /\ OnlyLossyFaults

LEMMA ChunkInvInit == Init => ChunkInv
<1> SUFFICES ASSUME Init PROVE ChunkInv
  OBVIOUS
<1>0. Reaper \notin Conn /\ Reaper \in Flusher
  BY FlusherAssumption DEF Flusher
<1> USE ElemsEmpty, RunEmpty DEF Init, NoChunks
<1>1. Stand                BY <1>0 DEF Stand, Processing, Flusher
<1>3. \A c, k, x : Sits(c, k, x) <=> k = "pending" /\ x = Reaper /\ c \in Chunk
  BY DEF Sits
<1>4. Apart /\ Accounted   BY <1>3 DEF Apart, Accounted
<1>5. Runs /\ InOrder      BY DEF Runs, InOrder
<1>6. Promised             BY DEF Promised, At, Flusher
<1>7. OnlyLossyFaults      BY DEF OnlyLossyFaults
<1> QED  BY <1>1, <1>4, <1>5, <1>6, <1>7 DEF ChunkInv

LEMMA ChunkInvStep ==
    ASSUME TypeOK, ChunkInv, [Next]_vars
    PROVE  ChunkInv'
<1>1. ChunkStep
  BY Steps DEF ChunkInv
<1>2. Stand'
  BY StandStep DEF ChunkInv
<1>3. Apart' /\ Accounted'
  BY <1>1, PlacesStep DEF ChunkInv
<1>4. Runs' /\ InOrder'
  BY <1>1, RunsStep, OrderStep DEF ChunkInv
<1>5. Promised'
  BY PromisedStep DEF ChunkInv
<1>6. Lossy \/ UNCHANGED <<lost, limited>>
  BY <1>1 DEF ChunkStep, Idle, Drop, TakeStep, ReadStep, AcceptStep, FlushStep, PickStep,
     PublishStep
<1>7. OnlyLossyFaults'
  BY <1>6 DEF ChunkInv, OnlyLossyFaults, Lossy
<1> QED  BY <1>2, <1>3, <1>4, <1>5, <1>7 DEF ChunkInv

THEOREM ChunksInvariant == Spec => [](TypeOK /\ ChunkInv)
  BY ChunkInvInit, ChunkInvStep, TypeAndSlots, PTL DEF Spec

\* However handlers, the reaper, errors, cancellations and restarts interleave,
\* a chunk is written to the event queue at most once.
THEOREM AtMostOnceCorrect == Spec => []AtMostOnce
<1>1. TypeOK /\ ChunkInv => AtMostOnce
  <2> SUFFICES ASSUME TypeOK, ChunkInv,
                      NEW i \in DOMAIN events, NEW j \in DOMAIN events,
                      NEW k \in DOMAIN events[i].chunks, NEW l \in DOMAIN events[j].chunks,
                      events[i].chunks[k] = events[j].chunks[l]
               PROVE  i = j /\ k = l
    BY DEF AtMostOnce
  <2> DEFINE c == events[i].chunks[k]
  <2>1. events[i] \in Event
    BY DEF TypeOK
  <2>2. events[i].chunks \in Seq(Chunk)
    BY <2>1 DEF Event
  <2>3. c \in Chunk
    BY <2>2
  <2>4. c \in Elems(events[i].chunks) /\ c \in Elems(events[j].chunks)
    BY DEF Elems
  <2>5. Sits(c, "event", i) /\ Sits(c, "event", j)
    BY <2>4 DEF Sits
  <2>6. i = j
    BY <2>3, <2>5 DEF ChunkInv, Apart
  <2>7. k = l
    BY <2>6 DEF ChunkInv, Runs, Run
  <2> QED  BY <2>6, <2>7
<1> QED  BY <1>1, ChunksInvariant, PTL

LEMMA Holders ==
    ASSUME NEW c
    PROVE  /\ c \in Held <=> \E k \in {"hand", "buffer", "batch", "job"} : \E x : Sits(c, k, x)
           /\ c \in Published <=> \E x : Sits(c, "event", x)
           /\ c \in pending <=> \E x : Sits(c, "pending", x)
<1> DEFINE hands == UNION {hand[r] : r \in Conn}
           streams == UNION {Elems(buffer[s]) \cup Elems(batch[s]) : s \in Stream}
           jobs == UNION {Elems(job[f]) : f \in Flusher}
<1>a. Held = hands \cup streams \cup jobs
  BY DEF Held
<1>b. c \in hands <=> \E r \in Conn : c \in hand[r]
  OBVIOUS
<1>c. c \in streams <=> \E s \in Stream : c \in Elems(buffer[s]) \cup Elems(batch[s])
  OBVIOUS
<1>d. c \in jobs <=> \E f \in Flusher : c \in Elems(job[f])
  OBVIOUS
<1> HIDE DEF hands, streams, jobs
<1>1. c \in Held <=>
        \/ \E r \in Conn : c \in hand[r]
        \/ \E s \in Stream : c \in Elems(buffer[s]) \cup Elems(batch[s])
        \/ \E f \in Flusher : c \in Elems(job[f])
  BY <1>a, <1>b, <1>c, <1>d
<1>2. c \in Published <=> \E i \in DOMAIN events : c \in Elems(events[i].chunks)
  BY DEF Published
<1>3. c \in Held => \E k \in {"hand", "buffer", "batch", "job"} : \E x : Sits(c, k, x)
  BY <1>1 DEF Sits
<1>4. ASSUME NEW k \in {"hand", "buffer", "batch", "job"}, NEW x, Sits(c, k, x)
      PROVE  c \in Held
  <2>1. CASE k = "hand"    BY <1>1, <1>4, <2>1 DEF Sits
  <2>2. CASE k = "buffer"  BY <1>1, <1>4, <2>2 DEF Sits
  <2>3. CASE k = "batch"   BY <1>1, <1>4, <2>3 DEF Sits
  <2>4. CASE k = "job"     BY <1>1, <1>4, <2>4 DEF Sits
  <2> QED  BY <2>1, <2>2, <2>3, <2>4
<1>5. c \in Published <=> \E x : Sits(c, "event", x)
  BY <1>2 DEF Sits
<1>6. c \in pending <=> \E x : Sits(c, "pending", x)
  BY DEF Sits
<1> QED  BY <1>3, <1>4, <1>5, <1>6

\* Whatever fails, every chunk a handler has read is in memory, in an event,
\* turned away or discarded by an error path.
THEOREM NothingVanishesCorrect == Spec => []NothingVanishes
<1>1. TypeOK /\ ChunkInv => NothingVanishes
  <2> SUFFICES ASSUME TypeOK, ChunkInv PROVE NothingVanishes
    OBVIOUS
  <2>1. ASSUME NEW c \in Chunk
        PROVE  c \in pending \cup Held \cup Published \cup limited \cup lost
    <3>1. CASE c \in lost \cup limited
      BY <3>1
    <3>2. ASSUME NEW k, NEW x, Sits(c, k, x)
          PROVE  c \in pending \cup Held \cup Published
      <4>1. k \in {"pending", "hand", "buffer", "batch", "job", "event"}
        BY <3>2 DEF Sits
      <4> QED  BY <3>2, <4>1, Holders
    <3> QED  BY <3>1, <3>2 DEF ChunkInv, Accounted
  <2>2. Held \subseteq Chunk
    <3>1. \A s \in Stream : Elems(buffer[s]) \subseteq Chunk /\ Elems(batch[s]) \subseteq Chunk
      BY DEF TypeOK, Elems
    <3>2. \A f \in Flusher : Elems(job[f]) \subseteq Chunk
      BY DEF TypeOK, Elems
    <3>3. \A r \in Conn : hand[r] \subseteq Chunk
      BY DEF TypeOK
    <3> QED  BY <3>1, <3>2, <3>3 DEF Held
  <2>3. Published \subseteq Chunk
    <3>1. ASSUME NEW i \in DOMAIN events PROVE Elems(events[i].chunks) \subseteq Chunk
      <4>1. events[i] \in Event
        BY DEF TypeOK
      <4>2. events[i].chunks \in Seq(Chunk)
        BY <4>1 DEF Event
      <4> QED  BY <4>2 DEF Elems
    <3> QED  BY <3>1 DEF Published
  <2> QED  BY <2>1, <2>2, <2>3 DEF NothingVanishes, TypeOK
<1> QED  BY <1>1, ChunksInvariant, PTL

\* An event is a run of one stream in the order each connection sent it.
THEOREM EventsOrdered == Spec => []EventsAreStreamOrdered
<1>1. ChunkInv => EventsAreStreamOrdered
  BY DEF ChunkInv, Runs, Run, EventsAreStreamOrdered
<1> QED  BY <1>1, ChunksInvariant, PTL

\* An acknowledged RPC has left nothing behind in _streams.
THEOREM AcksCorrect == Spec => []AckedNotBuffered
<1>1. ChunkInv => AckedNotBuffered
  <2> SUFFICES ASSUME ChunkInv, NEW r \in Conn, At(r, "acked")
               PROVE  accepted[r] \cap Buffered = {}
    BY DEF AckedNotBuffered
  <2>1. \A s \in Stream : accepted[r] \cap Elems(buffer[s]) = {}
    BY DEF ChunkInv, Promised, At
  <2> QED  BY <2>1 DEF Buffered
<1> QED  BY <1>1, ChunksInvariant, PTL

-----------------------------------------------------------------------------
(* The servicer implements ChunkLedger                                     *)

\* What a client calls the places of a chunk.
Seen(k) == IF k = "pending" THEN "offered"
           ELSE IF k = "event" THEN "published" ELSE "held"

\* Places follows from where the chunk sits.
Where == \A c \in Chunk :
            /\ \A k, x : Sits(c, k, x) => Places[c] = Seen(k)
            /\ (\A k, x : ~Sits(c, k, x)) => Places[c] = "discarded"

LEMMA PlacesSeen == Apart => Where
<1> SUFFICES ASSUME Apart, NEW c \in Chunk
             PROVE  /\ \A k, x : Sits(c, k, x) => Places[c] = Seen(k)
                    /\ (\A k, x : ~Sits(c, k, x)) => Places[c] = "discarded"
  BY DEF Where
<1>0. Places[c] = IF c \in pending THEN "offered"
                  ELSE IF c \in Held THEN "held"
                  ELSE IF c \in Published THEN "published"
                  ELSE "discarded"
  BY DEF Places
<1>1. ASSUME NEW k, NEW x, Sits(c, k, x)
      PROVE  Places[c] = Seen(k)
  <2>1. \A l, y : Sits(c, l, y) => l = k
    BY <1>1 DEF Apart
  <2>2. k \in {"pending", "hand", "buffer", "batch", "job", "event"}
    BY <1>1 DEF Sits
  <2>3. CASE k = "pending"
    BY <1>0, <1>1, <2>3, Holders DEF Seen
  <2>4. CASE k = "event"
    <3>1. c \notin pending /\ c \notin Held /\ c \in Published
      BY <1>1, <2>1, <2>4, Holders
    <3> QED  BY <1>0, <2>4, <3>1 DEF Seen
  <2>5. CASE k \in {"hand", "buffer", "batch", "job"}
    <3>1. c \notin pending
      BY <2>1, <2>5, Holders
    <3>2. c \in Held
      BY <1>1, <2>5, Holders
    <3> QED  BY <1>0, <2>5, <3>1, <3>2 DEF Seen
  <2> QED  BY <2>2, <2>3, <2>4, <2>5
<1>2. (\A k, x : ~Sits(c, k, x)) => Places[c] = "discarded"
  BY <1>0, Holders
<1> QED  BY <1>1, <1>2

LEMMA PlacesSeenNext == Apart' => Where'
  BY PlacesSeen, PTL

\* What the step of a chunk looks like to a client.
LEMMA PlacesMove ==
    ASSUME Where, Where', Apart', NEW c \in Chunk
    PROVE  /\ Stays(c) => Places'[c] = Places[c]
           /\ \A l, y : Goes(c, l, y) => Places'[c] = Seen(l)
           /\ Leaves(c) => \/ Places'[c] = Places[c]
                           \/ Places'[c] = "discarded" /\ \E k, x : Sits(c, k, x) /\ ~Sits(c, k, x)'
<1>1. /\ \A k, x : Sits(c, k, x) => Places[c] = Seen(k)
      /\ (\A k, x : ~Sits(c, k, x)) => Places[c] = "discarded"
  BY DEF Where
<1>2. /\ \A k, x : Sits(c, k, x)' => Places'[c] = Seen(k)
      /\ (\A k, x : ~Sits(c, k, x)') => Places'[c] = "discarded"
  BY DEF Where, Seen
<1>3. Stays(c) => Places'[c] = Places[c]
  BY <1>1, <1>2 DEF Stays
<1>4. \A l, y : Goes(c, l, y) => Places'[c] = Seen(l)
  BY <1>2 DEF Goes
<1>5. ASSUME Leaves(c), Places'[c] # Places[c]
      PROVE  Places'[c] = "discarded" /\ \E k, x : Sits(c, k, x) /\ ~Sits(c, k, x)'
  <2>1. \A k, x : ~Sits(c, k, x)'
    BY <1>1, <1>2, <1>5 DEF Leaves
  <2>2. \E k, x : Sits(c, k, x)
    BY <1>1, <1>2, <1>5, <2>1
  <2> QED  BY <1>2, <2>1, <2>2
<1> QED  BY <1>3, <1>4, <1>5

LEMMA PlacesDomain ==
    /\ Places = [c \in Chunk |-> Places[c]]
    /\ Places' = [c \in Chunk |-> Places'[c]]
  BY DEF Places

LEMMA Unseen ==
    ASSUME \A c \in Chunk : Places'[c] = Places[c], UNCHANGED events
    PROVE  UNCHANGED <<Places, Log>>
<1>1. Log' = Log
  BY DEF Log, Elems
<1>2. Places' = Places
  BY PlacesDomain
<1> QED  BY <1>1, <1>2

\* A chunk handed over in memory.
LEMMA HandedOver ==
    ASSUME Where, Where', Apart', NEW c \in Chunk,
           NEW k \in {"hand", "buffer", "batch", "job"}, NEW x, Sits(c, k, x),
           NEW l \in {"hand", "buffer", "batch", "job"}, NEW y, Goes(c, l, y)
    PROVE  Places'[c] = Places[c]
<1>1. Places[c] = Seen(k)
  BY DEF Where
<1>2. Places'[c] = Seen(l)
  BY PlacesMove
<1> QED  BY <1>1, <1>2 DEF Seen

LEMMA DropImplements ==
    ASSUME Where, Where', Apart', Drop
    PROVE  Ledger!Next
<1> DEFINE S == {c \in Chunk : Places'[c] # Places[c]}
<1>1. ASSUME NEW c \in S
      PROVE  Places[c] = "held" /\ Places'[c] = "discarded"
  <2>1. Places'[c] = "discarded" /\ \E k, x : Sits(c, k, x) /\ ~Sits(c, k, x)'
    BY DropMoves, PlacesMove
  <2>2. PICK k, x : Sits(c, k, x) /\ ~Sits(c, k, x)'
    BY <2>1
  <2>3. k # "pending" /\ k # "event"
    BY <2>2 DEF Drop, Sits
  <2>4. Places[c] = Seen(k)
    BY <2>2 DEF Where
  <2> QED  BY <2>1, <2>3, <2>4 DEF Seen
<1>2. Places' = [c \in Chunk |-> IF c \in S THEN "discarded" ELSE Places[c]]
  <2>1. \A c \in Chunk : Places'[c] = IF c \in S THEN "discarded" ELSE Places[c]
    BY <1>1
  <2> HIDE DEF S
  <2> QED  BY <2>1, PlacesDomain
<1>3. Log' = Log
  BY DEF Log, Elems, Drop
<1>4. Lossy /\ S \in SUBSET Chunk
  BY DEF Drop
<1>5. Ledger!Discard(S)
  BY <1>1, <1>2, <1>3, <1>4 DEF Ledger!Discard, Ledger!Holds, Ledger!Moved
<1> QED  BY <1>4, <1>5 DEF Ledger!Next

LEMMA ReadImplements ==
    ASSUME Where, Where', Apart, Apart', NEW r \in Conn, NEW d \in pending, d \in Chunk,
           ReadStep(r, d)
    PROVE  Ledger!Next
<1>1. Places[d] = "offered"
  <2>1. Sits(d, "pending", Reaper)
    BY DEF Sits
  <2> QED  BY <2>1 DEF Where, Seen
<1>2. \A c \in Chunk : Places'[c] = IF c \in {d} THEN "held" ELSE Places[c]
  <2>1. Places'[d] = "held"
    BY ReadMoves, PlacesMove DEF Seen
  <2>2. \A c \in Chunk : c # d => Places'[c] = Places[c]
    BY ReadMoves, PlacesMove
  <2> QED  BY <2>1, <2>2
<1>3. Places' = [c \in Chunk |-> IF c \in {d} THEN "held" ELSE Places[c]]
  BY <1>2, PlacesDomain
<1>4. Log' = Log
  BY DEF Log, Elems, ReadStep
<1>5. Ledger!Read(d)
  BY <1>1, <1>3, <1>4 DEF Ledger!Read, Ledger!Holds, Ledger!Moved
<1> QED  BY <1>5 DEF Ledger!Next

LEMMA PublishImplements ==
    ASSUME TypeOK, Where, Where', Apart, Apart', Runs, NEW f \in Flusher, PublishStep(f)
    PROVE  Ledger!Next
<1> DEFINE S == Elems(job[f])
           n == Len(events)
<1>1. job[f] \in Seq(Chunk) /\ job[f] # <<>> /\ Run(job[f])
  BY DEF TypeOK, PublishStep, Runs
<1>2. S # {} /\ S \in SUBSET Chunk
  BY <1>1, ElemsSome
<1>3. \A c, d \in S : StreamOf[c] = StreamOf[d]
  BY <1>1 DEF Run, Elems
<1>4. \A c \in S : Places[c] = "held"
  <2>1. \A c \in S : Sits(c, "job", f)
    BY DEF Sits
  <2> QED  BY <1>2, <2>1 DEF Where, Seen
<1>5. \A c \in Chunk : Places'[c] = IF c \in S THEN "published" ELSE Places[c]
  <2>1. \A c \in Chunk : c \in S => Places'[c] = "published"
    BY PublishMoves, PlacesMove DEF Seen
  <2>2. \A c \in Chunk : c \notin S => Places'[c] = Places[c]
    BY PublishMoves, PlacesMove
  <2> QED  BY <2>1, <2>2
<1>6. Log' = Append(Log, S)
  <2>1. /\ n \in Nat /\ DOMAIN events = 1..n /\ DOMAIN events' = 1..n + 1
        /\ \A i \in 1..n : events'[i] = events[i]
        /\ events'[n + 1].chunks = job[f]
    BY DEF PublishStep
  <2>2. Log = [i \in 1..n |-> Elems(events[i].chunks)]
    BY <2>1 DEF Log
  <2>3. Log' = [i \in 1..n + 1 |-> Elems(events'[i].chunks)]
    BY <2>1 DEF Log, Elems
  <2>4. \A i \in 1..n + 1 : Elems(events'[i].chunks) = IF i <= n THEN Log[i] ELSE S
    <3>1. ASSUME NEW i \in 1..n + 1, i <= n
          PROVE  Elems(events'[i].chunks) = Log[i]
      <4>1. i \in 1..n
        BY <2>1, <3>1
      <4> QED  BY <2>1, <2>2, <4>1
    <3>2. ASSUME NEW i \in 1..n + 1, ~(i <= n)
          PROVE  Elems(events'[i].chunks) = S
      <4>1. i = n + 1
        BY <2>1, <3>2
      <4> QED  BY <2>1, <4>1
    <3> QED  BY <3>1, <3>2
  <2>5. Log \in Seq(SUBSET Chunk) /\ Len(Log) = n
    <3>1. \A i \in 1..n : Elems(events[i].chunks) \in SUBSET Chunk
      <4>1. ASSUME NEW i \in 1..n PROVE Elems(events[i].chunks) \in SUBSET Chunk
        <5>1. events[i] \in Event
          BY <2>1 DEF TypeOK
        <5>2. events[i].chunks \in Seq(Chunk)
          BY <5>1 DEF Event
        <5> QED  BY <5>2 DEF Elems
      <4> QED  BY <4>1
    <3> HIDE DEF n
    <3> QED  BY <2>1, <2>2, <3>1
  <2>6. Append(Log, S) = [i \in 1..n + 1 |-> IF i <= n THEN Log[i] ELSE S]
    <3> DEFINE a == Append(Log, S)
    <3> HIDE DEF n, S
    <3>1. a \in Seq(SUBSET Chunk) /\ Len(a) = n + 1
      BY <1>2, <2>1, <2>5
    <3>2. \A i \in 1..n + 1 : a[i] = IF i <= n THEN Log[i] ELSE S
      BY <1>2, <2>1, <2>5
    <3> HIDE DEF a
    <3>3. a \in [1..n + 1 -> SUBSET Chunk]
      BY <2>1, <3>1
    <3>4. a = [i \in 1..n + 1 |-> IF i <= n THEN Log[i] ELSE S]
      BY <3>2, <3>3
    <3> QED  BY <3>4 DEF a
  <2> HIDE DEF n, S
  <2> QED  BY <2>3, <2>4, <2>6
<1> HIDE DEF S, n
<1>7. Places' = [c \in Chunk |-> IF c \in S THEN "published" ELSE Places[c]]
  BY <1>5, PlacesDomain
<1>8. Ledger!Publish(S)
  BY <1>2, <1>3, <1>4, <1>6, <1>7 DEF Ledger!Publish, Ledger!Holds, Ledger!Moved
<1> QED  BY <1>2, <1>8 DEF Ledger!Next

LEMMA StepImplements ==
    ASSUME TypeOK, Where, Where', Apart, Apart', Runs, ChunkStep
    PROVE  [Ledger!Next]_<<Places, Log>>
<1>1. CASE Idle
  BY <1>1, IdleMoves, PlacesMove, Unseen DEF Idle
<1>2. CASE Drop
  BY <1>2, DropImplements
<1>3. CASE TakeStep
  <2>1. ASSUME NEW c \in Chunk PROVE Places'[c] = Places[c]
    <3>1. CASE Stays(c)
      BY <3>1, PlacesMove
    <3>2. ASSUME NEW s \in Stream, c \in Elems(buffer[s]), Goes(c, "batch", s)
          PROVE  Places'[c] = Places[c]
      <4>1. Sits(c, "buffer", s)
        BY <3>2 DEF Sits
      <4> QED  BY <3>2, <4>1, HandedOver
    <3> QED  BY <1>3, <3>1, <3>2, TakeMoves
  <2> QED  BY <1>3, <2>1, Unseen DEF TakeStep
<1>4. ASSUME NEW r \in Conn, NEW c \in pending, ReadStep(r, c)
      PROVE  Ledger!Next
  BY <1>4, ReadImplements DEF TypeOK
<1>5. ASSUME NEW r \in Conn, NEW d \in hand[r], AcceptStep(r, d)
      PROVE  UNCHANGED <<Places, Log>>
  <2>1. d \in Chunk /\ Sits(d, "hand", r)
    BY <1>5 DEF AcceptStep, Sits
  <2>2. Places'[d] = Places[d]
    BY <1>5, <2>1, AcceptMoves, HandedOver
  <2>3. \A c \in Chunk : c # d => Places'[c] = Places[c]
    BY <1>5, AcceptMoves, PlacesMove
  <2> QED  BY <1>5, <2>2, <2>3, Unseen DEF AcceptStep
<1>6. ASSUME NEW f \in Flusher, NEW s \in Stream, FlushStep(f, s)
      PROVE  UNCHANGED <<Places, Log>>
  <2>1. ASSUME NEW c \in Chunk, c \in Elems(buffer[s]) PROVE Places'[c] = Places[c]
    <3>1. Sits(c, "buffer", s)
      BY <2>1 DEF Sits
    <3> QED  BY <1>6, <2>1, <3>1, FlushMoves, HandedOver
  <2>2. \A c \in Chunk : c \notin Elems(buffer[s]) => Places'[c] = Places[c]
    BY <1>6, FlushMoves, PlacesMove
  <2> QED  BY <1>6, <2>1, <2>2, Unseen DEF FlushStep
<1>7. ASSUME NEW s \in Stream, PickStep(s)
      PROVE  UNCHANGED <<Places, Log>>
  <2>1. ASSUME NEW c \in Chunk, c \in Elems(batch[s]) PROVE Places'[c] = Places[c]
    <3>1. Sits(c, "batch", s)
      BY <2>1 DEF Sits
    <3> QED  BY <1>7, <2>1, <3>1, PickMoves, HandedOver
  <2>2. \A c \in Chunk : c \notin Elems(batch[s]) => Places'[c] = Places[c]
    BY <1>7, PickMoves, PlacesMove
  <2> QED  BY <1>7, <2>1, <2>2, Unseen DEF PickStep
<1>8. ASSUME NEW f \in Flusher, PublishStep(f) PROVE Ledger!Next
  BY <1>8, PublishImplements
<1> QED  BY <1>1, <1>2, <1>3, <1>4, <1>5, <1>6, <1>7, <1>8 DEF ChunkStep

\* The servicer implements ChunkLedger: with all its coroutines, caches, slots
\* and failures, a client sees chunks that are held and then leave once, in
\* one entry of one stream, or are discarded where a fault allows it.
THEOREM LedgerImplemented == Spec => ImplementsLedger
<1>1. Init => Ledger!Init
  <2> SUFFICES ASSUME Init PROVE Ledger!Init
    OBVIOUS
  <2>1. ChunkInv
    BY ChunkInvInit
  <2>2. Where
    BY <2>1, PlacesSeen DEF ChunkInv
  <2>3. \A c \in Chunk : Sits(c, "pending", Reaper)
    BY DEF Init, Sits
  <2>4. \A c \in Chunk : Places[c] = "offered"
    BY <2>2, <2>3 DEF Where, Seen
  <2>5. Places = [c \in Chunk |-> "offered"]
    BY <2>4, PlacesDomain
  <2>6. Log = <<>>
    BY DEF Init, Log
  <2> QED  BY <2>5, <2>6 DEF Ledger!Init
<1>2. TypeOK /\ ChunkInv /\ ChunkInv' /\ [Next]_vars => [Ledger!Next]_<<Places, Log>>
  <2> SUFFICES ASSUME TypeOK, ChunkInv, ChunkInv', [Next]_vars
               PROVE  [Ledger!Next]_<<Places, Log>>
    OBVIOUS
  <2>1. Apart /\ Apart' /\ Runs /\ ChunkStep
    BY Steps DEF ChunkInv
  <2>2. Where /\ Where'
    BY <2>1, PlacesSeen, PlacesSeenNext
  <2> QED  BY <2>1, <2>2, StepImplements
<1> QED  BY <1>1, <1>2, ChunksInvariant, PTL DEF Spec, ImplementsLedger, Ledger!Spec
=============================================================================
