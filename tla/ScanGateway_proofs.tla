-------------------------- MODULE ScanGateway_proofs --------------------------
(***************************************************************************)
(* Proofs about ScanGateway and the Settings it uses, for any number of    *)
(* scans and requests, any settings, and any faults.                       *)
(***************************************************************************)
EXTENDS ScanGateway, FiniteSetTheorems, TLAPS

-----------------------------------------------------------------------------
(* Settings                                                                *)

\* A thread that changes the settings alone finds them as it left them when
\* it comes to its last step.
SoleInv ==
    /\ sole \in Post =>
        /\ Busy = {sole}
        /\ post[sole] = "store" => snap[sole] = settings
    /\ sole = Loader =>
        /\ Busy = {Loader}
        /\ loader = "adopt" => stored /\ loading = hash

SettingsInv == SettingsAgree /\ SoleInv

\* Requests have numbers from 1 up, so none is the loader.
LEMMA Threads ==
    /\ \A p \in Post : p # Loader /\ p # Nobody
    /\ Loader # Nobody
  BY SettingsAssumption DEF SettingsAssumption, Loader, Nobody

LEMMA KeyValues ==
    /\ Default \in [Key -> Value]
    /\ \A p \in Post : PostKey[p] \in Key /\ PostValue[p] \in Value
    /\ \A h \in Stored : h \in [Key -> Value]
    /\ {"threshold", "days", "scans"} \subseteq Key
<1>1. Key = {"threshold", "days", "scans"}
  BY DEF Key, KeyOrder
<1> QED  BY <1>1, SettingsAssumption DEF SettingsAssumption, Value

LEMMA SettingsTypes ==
    ASSUME SettingsTypeOK, SettingsNext
    PROVE  SettingsTypeOK'
<1> USE KeyValues, SettingsAssumption DEF SettingsTypeOK, SettingsAssumption
<1>1. CASE LoadRead
  BY <1>1 DEF LoadRead
<1>2. CASE Adopt
  <2>1. settings' \in [Key -> Value]
    BY <1>2 DEF Adopt, Adopted
  <2> QED  BY <1>2, <2>1 DEF Adopt
<1>3. CASE WriteDefaults
  BY <1>3 DEF WriteDefaults
<1>4. CASE LoadFails
  BY <1>4 DEF LoadFails
<1>5. ASSUME NEW p \in Post, SetState(p) PROVE SettingsTypeOK'
  BY <1>5 DEF SetState
<1>6. ASSUME NEW p \in Post, TakeMapping(p) PROVE SettingsTypeOK'
  BY <1>6 DEF TakeMapping, Mapping
<1>7. ASSUME NEW p \in Post, Store(p) \/ StoreFails(p) PROVE SettingsTypeOK'
  <2>1. hash' \in [Key -> Value]
    BY <1>7 DEF Store, StoreFails
  <2>2. post' \in [Post -> {"new", "set", "store", "done"}] /\ apart' \in BOOLEAN /\ stored' \in BOOLEAN
    BY <1>7 DEF Store, StoreFails
  <2> QED  BY <1>7, <2>1, <2>2 DEF Store, StoreFails
<1>8. CASE Cleanup
  BY <1>8 DEF Cleanup, Value
<1>9. CASE RestartApi
  BY <1>9 DEF RestartApi
<1>10. CASE EvictSettings
  BY <1>10 DEF EvictSettings
<1> QED
  BY <1>1, <1>2, <1>3, <1>4, <1>5, <1>6, <1>7, <1>8, <1>9, <1>10 DEF SettingsNext

\* Steps that leave the loader alone and let no thread begin or end.
LEMMA BusyFrame ==
    ASSUME SettingsTypeOK, UNCHANGED loader,
           \A p \in Post : post'[p] \in {"set", "store"} <=> post[p] \in {"set", "store"}
    PROVE  Busy' = Busy
  BY DEF Busy

LEMMA SettingsPreserved ==
    ASSUME SettingsInv, SettingsNext
    PROVE  SettingsInv'
<1> USE Threads DEF SettingsTypeOK
<1>0. /\ SettingsTypeOK /\ SettingsTypeOK' /\ SoleInv
      /\ Busy = {} /\ ~apart => stored /\ hash = settings
      /\ cleanup.days = cleanup.wanted
  BY SettingsTypes DEF SettingsInv, SettingsAgree
<1>1. ASSUME cleanup' = cleanup, SoleInv',
             Busy' = {} /\ ~apart' => stored' /\ hash' = settings'
      PROVE  SettingsInv'
  BY <1>0, <1>1 DEF SettingsInv, SettingsAgree
<1>2. CASE LoadRead
  <2>1. Busy' = Busy /\ Loader \in Busy
    BY <1>2 DEF LoadRead, Busy
  <2> QED  BY <1>0, <1>1, <1>2, <2>1 DEF LoadRead, SoleInv
<1>3. CASE Adopt
  <2>1. Loader \in Busy /\ Busy' = Busy \ {Loader}
    BY <1>3 DEF Adopt, Busy
  <2>2. sole \notin Post \/ Busy = {sole}
    BY <1>0 DEF SoleInv
  <2>3. sole' = Nobody
    BY <1>0, <1>3, <2>1, <2>2 DEF Adopt
  <2>4. ASSUME ~apart' PROVE stored' /\ hash' = settings'
    <3>1. sole = Loader /\ \A k \in Key : loading[k] # Bad
      BY <1>3, <2>4 DEF Adopt
    <3>2. stored /\ loading = hash
      BY <1>0, <1>3, <3>1 DEF SoleInv, Adopt
    <3>3. \A j \in DOMAIN KeyOrder : KeyOrder[j] \in Key
      BY DEF Key
    <3>4. \A k \in Key : Adopted(k) = loading[k]
      BY <3>1, <3>3 DEF Adopted
    <3> QED  BY <1>0, <1>3, <3>2, <3>4 DEF Adopt
  <2> QED  BY <1>1, <1>3, <2>3, <2>4 DEF Adopt, SoleInv
<1>4. CASE WriteDefaults \/ LoadFails
  <2>1. Loader \in Busy
    BY <1>4 DEF WriteDefaults, LoadFails, Busy
  <2>2. sole \notin Post \/ Busy = {sole}
    BY <1>0 DEF SoleInv
  <2>3. sole' = Nobody
    BY <1>0, <1>4, <2>1, <2>2 DEF WriteDefaults, LoadFails
  <2> QED  BY <1>1, <1>4, <2>3 DEF WriteDefaults, LoadFails, SoleInv
<1>5. ASSUME NEW p \in Post, SetState(p) PROVE SettingsInv'
  <2>1. Busy' = Busy \cup {p} /\ p \notin Busy
    BY <1>0, <1>5 DEF SetState, Busy
  <2>2. post'[p] = "set"
    BY <1>0, <1>5 DEF SetState
  <2> QED  BY <1>1, <1>5, <2>1, <2>2 DEF SetState, SoleInv
<1>6. ASSUME NEW p \in Post, TakeMapping(p) PROVE SettingsInv'
  <2>1. p \in Busy /\ Busy' = Busy
    BY <1>0, <1>6 DEF TakeMapping, Busy
  <2>2. sole \in Post => sole = p /\ snap'[p] = settings
    BY <1>0, <1>6, <2>1 DEF SoleInv, TakeMapping, Mapping
  <2>3. SoleInv'
    BY <1>0, <1>6, <2>1, <2>2 DEF SoleInv, TakeMapping
  <2> QED  BY <1>1, <1>6, <2>1, <2>3 DEF TakeMapping
<1>7. ASSUME NEW p \in Post, Store(p) \/ StoreFails(p) PROVE SettingsInv'
  <2>1. p \in Busy
    BY <1>7 DEF Store, StoreFails, Busy
  <2>2. sole' = Nobody
    BY <1>0, <1>7, <2>1 DEF Store, StoreFails, SoleInv
  <2>3. ~apart' => stored' /\ hash' = settings'
    BY <1>0, <1>7 DEF Store, StoreFails, SoleInv
  <2> QED  BY <1>1, <1>7, <2>2, <2>3 DEF Store, StoreFails, SoleInv
<1>8. CASE Cleanup
  <2>1. Busy' = Busy
    BY <1>8 DEF Cleanup, Busy
  <2>2. SoleInv'
    BY <1>0, <1>8, <2>1 DEF Cleanup, SoleInv
  <2>3. cleanup'.days = cleanup'.wanted
    BY <1>0, <1>8 DEF Cleanup
  <2> QED  BY <1>0, <1>8, <2>1, <2>2, <2>3 DEF Cleanup, SettingsInv, SettingsAgree
<1>9. CASE RestartApi
  <2>1. Busy' = {Loader}
    BY <1>0, <1>9 DEF RestartApi, Busy
  <2> QED  BY <1>1, <1>9, <2>1 DEF RestartApi, SoleInv
<1>10. CASE EvictSettings
  <2>1. Busy' = Busy
    BY <1>10 DEF EvictSettings, Busy
  <2>2. SoleInv'
    BY <1>0, <1>10, <2>1 DEF EvictSettings, SoleInv
  <2> QED  BY <1>1, <1>10, <2>2 DEF EvictSettings
<1> QED
  BY <1>2, <1>3, <1>4, <1>5, <1>6, <1>7, <1>8, <1>9, <1>10 DEF SettingsNext

LEMMA SettingsStart == Init => SettingsInv
<1> SUFFICES ASSUME Init PROVE SettingsInv
  OBVIOUS
<1> USE KeyValues, SettingsAssumption, ScanAssumption
    DEF SettingsAssumption, ScanAssumption, SettingsInit, ColdStart, Up, NoCleanup
<1>1. PICK w \in Workload : (IF w.cold THEN ColdStart ELSE Up) /\ SettingsInit(w.posts)
  BY DEF Init
<1>2. SettingsTypeOK
  <2>1. /\ settings \in [Key -> Value] /\ hash \in [Key -> Value]
        /\ stored \in BOOLEAN /\ apart \in BOOLEAN
        /\ loader \in {"read", "adopt", "defaults", "done"}
    <3>1. CASE w.cold  BY <1>1, <3>1
    <3>2. CASE ~w.cold  BY <1>1, <3>2
    <3> QED  BY <3>1, <3>2
  <2>2. restarts \in 0..MaxRestarts /\ sole \in Post \cup {Nobody, Loader}
    <3>1. MaxRestarts \in Nat
      OBVIOUS
    <3>2. restarts \in {0, MaxRestarts} /\ sole \in {Nobody, Loader}
      BY <1>1
    <3> QED  BY <3>1, <3>2
  <2>3. /\ post \in [Post -> {"new", "set", "store", "done"}]
        /\ snap \in [Post -> [Key -> Value]] /\ loading \in [Key -> Value]
    BY <1>1
  <2>4. cleanup \in [days : Int, wanted : Value]
    BY <1>1 DEF Value
  <2> QED  BY <2>1, <2>2, <2>3, <2>4 DEF SettingsTypeOK
<1>3. w.cold => Busy = {Loader} /\ sole = Loader /\ apart = TRUE
  BY <1>1 DEF Busy
<1>4. ~w.cold => sole = Nobody /\ stored /\ hash = settings
  BY <1>1
<1> QED
  BY <1>1, <1>2, <1>3, <1>4, Threads DEF SettingsInv, SettingsAgree, SoleInv

\* Scans read the settings and do not change them.
LEMMA ScansOnlyRead == ScanNext => UNCHANGED settingsVars
  BY DEF ScanNext, WritePcap, WriteFails, WriteKeys, Carve, CarveFails, Upload, Built,
     BuildReturns, TakeSlot, TakeAnswer, Deadline, Cancel, StartWorker, LoadImage, Infer,
     Answer, GiveUp, HandlerEnds, SettingsSync

LEMMA SettingsKept ==
    ASSUME SettingsInv, UNCHANGED settingsVars
    PROVE  SettingsInv' /\ Busy' = Busy
  BY DEF settingsVars, SettingsInv, SettingsAgree, SettingsTypeOK, SoleInv, Busy

LEMMA SettingsStep == SettingsInv /\ [Next]_vars => SettingsInv'
  BY SettingsPreserved, SettingsKept, ScansOnlyRead DEF Next, vars

-----------------------------------------------------------------------------
(* Scans                                                                   *)

\* Where the coroutine, the handler and the worker of a scan stand together.
StagesOK(s) ==
    /\ coro[s] \in {"build", "wait"} => handler[s] = "none" /\ worker[s] = "none"
    /\ coro[s] # "end" => verdict[s] = "none"
    /\ handler[s] \in {"start", "wait"} => coro[s] = "call"
    /\ handler[s] = "start" => worker[s] = "none"
    /\ handler[s] \in {"STEGO", "CLEAN"} => worker[s] = "labelled"
    /\ verdict[s] \in {"STEGO", "CLEAN"} => coro[s] = "end" /\ handler[s] = verdict[s]
    /\ worker[s] \in {"load", "infer"} => coro[s] = "call" \/ verdict[s] \in {"ERROR", "none"}

FilesOK(s) ==
    /\ image[s] <=> handler[s] = "wait"
    /\ builder[s] = "done" => files[s] = {}
    /\ builder[s] = "failed" => files[s] \subseteq {"pcap"}

\* What the page shows is the threshold that goes to the worker.
PageOK(s) ==
    /\ coro[s] = "call" /\ shown[s] # Unsure =>
        Busy = {} /\ ~apart /\ shown[s] = settings["threshold"]
    /\ handler[s] \in {"wait", "STEGO", "CLEAN"} /\ shown[s] \in Nat => threshold[s] = shown[s]
    /\ handler[s] \in {"STEGO", "CLEAN"} =>
        (handler[s] = "STEGO" <=> Score[s] >= threshold[s])

ScanOK(s) == StagesOK(s) /\ FilesOK(s) /\ PageOK(s)

LimitInv == maxScans <= peak /\ ActiveScans <= (IF peak > 0 THEN peak ELSE 0)

IInv == SettingsInv /\ TypeOK /\ LimitInv /\ \A s \in Scan : ScanOK(s)

\* The actions of one scan.
ScanSteps(s) ==
    \/ WritePcap(s) \/ WriteFails(s) \/ WriteKeys(s) \/ Carve(s) \/ CarveFails(s) \/ Upload(s)
    \/ BuildReturns(s) \/ TakeSlot(s) \/ TakeAnswer(s) \/ Deadline(s) \/ Cancel(s)
    \/ StartWorker(s) \/ LoadImage(s) \/ Infer(s) \/ Answer(s) \/ GiveUp(s)

BuildSteps(s) ==
    WritePcap(s) \/ WriteFails(s) \/ WriteKeys(s) \/ Carve(s) \/ CarveFails(s) \/ Upload(s)

\* The thread of a build writes its own variables only.
LEMMA BuildEffect ==
    ASSUME TypeOK, NEW s \in Scan, BuildSteps(s)
    PROVE  /\ UNCHANGED <<settingsVars, router, gateway, shown>>
           /\ carved' \in [Scan -> BOOLEAN]
           /\ \E step \in {"keys", "carve", "upload", "done", "failed"}, found \in SUBSET File :
                /\ builder' = [builder EXCEPT ![s] = step]
                /\ files' = [files EXCEPT ![s] = found]
                /\ step = "done" => found = {}
                /\ step = "failed" => found \subseteq {"pcap"}
<1> USE DEF TypeOK, Built, File
<1>0. \A c \in BOOLEAN : [carved EXCEPT ![s] = c] \in [Scan -> BOOLEAN]
  OBVIOUS
<1>1. CASE WritePcap(s)
  BY <1>1 DEF WritePcap
<1>2. CASE WriteFails(s)
  BY <1>2 DEF WriteFails
<1>3. CASE WriteKeys(s)
  BY <1>3 DEF WriteKeys
<1>4. CASE Carve(s)
  <2>1. carved' \in [Scan -> BOOLEAN]
    <3>1. (s \in Carvable) \in BOOLEAN
      OBVIOUS
    <3>2. carved' = [carved EXCEPT ![s] = s \in Carvable]
      BY <1>4 DEF Carve
    <3> QED  BY <1>0, <3>1, <3>2, Zenon
  <2>2. /\ builder' = [builder EXCEPT ![s] = "upload"]
        /\ files' = [files EXCEPT ![s] = files[s] \cup {"export"}]
        /\ UNCHANGED <<settingsVars, router, gateway, shown>>
    BY <1>4 DEF Carve
  <2>3. files[s] \cup {"export"} \in SUBSET File
    OBVIOUS
  <2> QED  BY <2>1, <2>2, <2>3
<1>5. CASE CarveFails(s)
  <2>1. PICK left \in SUBSET {"export"} :
            /\ builder' = [builder EXCEPT ![s] = "upload"]
            /\ files' = [files EXCEPT ![s] = files[s] \cup left]
    BY <1>5 DEF CarveFails
  <2>2. UNCHANGED <<settingsVars, router, gateway, shown, carved>>
    BY <1>5 DEF CarveFails
  <2>3. files[s] \cup left \in SUBSET File
    OBVIOUS
  <2> QED  BY <2>1, <2>2, <2>3
<1>6. CASE Upload(s)
  <2>1. files[s] \ Removed = {}
    BY DEF Removed
  <2> QED  BY <1>6, <2>1 DEF Upload
<1> QED  BY <1>1, <1>2, <1>3, <1>4, <1>5, <1>6 DEF BuildSteps

\* What is left alone by the steps of a scan's coroutine, handler and worker.
LEMMA CallEffect ==
    ASSUME NEW s \in Scan, ScanSteps(s), ~BuildSteps(s)
    PROVE  UNCHANGED <<settingsVars, build, maxScans, peak>>
  BY DEF ScanSteps, BuildSteps, BuildReturns, TakeSlot, TakeAnswer, Deadline, Cancel,
     StartWorker, LoadImage, Infer, Answer, GiveUp, HandlerEnds, CancelHandler, build, router

LEMMA CallTypes ==
    ASSUME TypeOK, SettingsTypeOK, NEW s \in Scan, ScanSteps(s), ~BuildSteps(s)
    PROVE  TypeOK'
<1> USE KeyValues DEF Answers, CancelHandler, HandlerEnds, gateway
<1>1. UNCHANGED <<settingsVars, build, maxScans, peak>>
  BY CallEffect
<1>2. coro' \in [Scan -> {"build", "wait", "call", "end"}]
  BY DEF TypeOK, ScanSteps, BuildSteps, BuildReturns, TakeSlot, TakeAnswer, Deadline, Cancel,
     StartWorker, LoadImage, Infer, Answer, GiveUp, router
<1>3. verdict' \in [Scan -> {"none", "NO_IMAGE"} \cup Answers]
  BY DEF TypeOK, ScanSteps, BuildSteps, BuildReturns, TakeSlot, TakeAnswer, Deadline, Cancel,
     StartWorker, LoadImage, Infer, Answer, GiveUp, router
<1>4. handler' \in [Scan -> {"none", "start", "wait", "cancelled"} \cup Answers]
  BY DEF TypeOK, ScanSteps, BuildSteps, BuildReturns, TakeSlot, TakeAnswer, Deadline, Cancel,
     StartWorker, LoadImage, Infer, Answer, GiveUp, Label
<1>5. image' \in [Scan -> BOOLEAN]
  BY DEF TypeOK, ScanSteps, BuildSteps, BuildReturns, TakeSlot, TakeAnswer, Deadline, Cancel,
     StartWorker, LoadImage, Infer, Answer, GiveUp
<1>6. worker' \in [Scan -> {"none", "load", "infer", "labelled", "failed"}]
  BY DEF TypeOK, ScanSteps, BuildSteps, BuildReturns, TakeSlot, TakeAnswer, Deadline, Cancel,
     StartWorker, LoadImage, Infer, Answer, GiveUp
<1>7. threshold' \in [Scan -> Int]
  <2>1. Default["threshold"] \in Int
    BY SettingsAssumption, KeyValues DEF SettingsAssumption
  <2>2. RedisThreshold \in Int
    <3>1. hash["threshold"] \in Value
      BY DEF SettingsTypeOK
    <3> QED  BY <2>1, <3>1 DEF RedisThreshold, Value
  <2> QED
    BY <2>1, <2>2 DEF TypeOK, ScanSteps, BuildSteps, BuildReturns, TakeSlot, TakeAnswer, Deadline,
       Cancel, StartWorker, LoadImage, Infer, Answer, GiveUp
<1>8. shown' \in [Scan -> Value]
  <2>1. settings["threshold"] \in Value /\ Unsure \in Value
    BY DEF SettingsTypeOK, Value, Unsure
  <2> QED
    BY <2>1 DEF TypeOK, ScanSteps, BuildSteps, BuildReturns, TakeSlot, TakeAnswer, Deadline,
       Cancel, StartWorker, LoadImage, Infer, Answer, GiveUp
<1> QED
  BY <1>1, <1>2, <1>3, <1>4, <1>5, <1>6, <1>7, <1>8 DEF TypeOK, build

LEMMA ScanTypes ==
    ASSUME TypeOK, SettingsTypeOK, [Next]_vars
    PROVE  TypeOK'
<1>1. ASSUME NEW s \in Scan, BuildSteps(s) PROVE TypeOK'
  BY <1>1, BuildEffect DEF TypeOK, router, gateway
<1>2. ASSUME NEW s \in Scan, ScanSteps(s), ~BuildSteps(s) PROVE TypeOK'
  BY <1>2, CallTypes
<1>3. CASE SettingsSync
  <2>1. hash["scans"] \in Int
    BY <1>3, KeyValues DEF SettingsSync, SettingsTypeOK, Value
  <2> QED  BY <1>3, <2>1 DEF SettingsSync, TypeOK, build, gateway
<1>4. CASE SettingsNext /\ Watch /\ UNCHANGED <<router, build, gateway>>
  BY <1>4 DEF TypeOK, Watch, Value, Unsure, router, build, gateway
<1>5. CASE UNCHANGED vars
  BY <1>5 DEF TypeOK, vars, scanVars, router, build, gateway
<1> QED  BY <1>1, <1>2, <1>3, <1>4, <1>5 DEF Next, ScanNext, ScanSteps

\* A scan whose variables a step leaves alone keeps its part of the invariant.
LEMMA ScanFrame ==
    ASSUME NEW s \in Scan, ScanOK(s),
           UNCHANGED <<coro[s], verdict[s], builder[s], files[s], handler[s], image[s],
                       threshold[s], worker[s], shown[s]>>,
           UNCHANGED settingsVars
    PROVE  ScanOK(s)'
<1>1. Busy' = Busy /\ UNCHANGED <<settings, apart>>
  BY DEF settingsVars, Busy
<1> QED  BY <1>1 DEF ScanOK, StagesOK, FilesOK, PageOK

\* A step of one scan does not touch another one.
LEMMA OthersKept ==
    ASSUME TypeOK, NEW s \in Scan, ScanSteps(s), NEW t \in Scan \ {s}
    PROVE  UNCHANGED <<coro[t], verdict[t], builder[t], files[t], handler[t], image[t],
                       threshold[t], worker[t], shown[t]>>
<1>1. CASE BuildSteps(s)
  BY <1>1, BuildEffect DEF TypeOK, router, gateway
<1>2. CASE ~BuildSteps(s)
  <2>1. UNCHANGED <<builder[t], files[t]>>
    BY <1>2, CallEffect DEF build
  <2> QED
    BY <1>2, <2>1 DEF TypeOK, ScanSteps, BuildSteps, BuildReturns, TakeSlot, TakeAnswer, Deadline,
       Cancel, StartWorker, LoadImage, Infer, Answer, GiveUp, HandlerEnds, CancelHandler, router, gateway
<1> QED  BY <1>1, <1>2

\* The scan that steps.
LEMMA ScanPreserved ==
    ASSUME TypeOK, SettingsInv, NEW s \in Scan, ScanOK(s), ScanSteps(s)
    PROVE  ScanOK(s)'
<1> USE DEF TypeOK, ScanOK, Answers
<1>1. CASE BuildSteps(s)
  <2>1. FilesOK(s)'
    BY <1>1, BuildEffect DEF FilesOK, gateway
  <2>2. UNCHANGED <<settingsVars, coro, verdict, handler, threshold, worker, shown>>
    BY <1>1, BuildEffect DEF router, gateway
  <2>3. Busy' = Busy /\ UNCHANGED <<settings, apart>>
    BY <2>2 DEF settingsVars, Busy
  <2> QED  BY <2>1, <2>2, <2>3 DEF StagesOK, PageOK
<1>2. CASE ~BuildSteps(s)
  <2>1. UNCHANGED <<settingsVars, builder, files>>
    BY <1>2, CallEffect DEF build
  <2>2. Busy' = Busy /\ UNCHANGED <<settings, apart, stored, hash>>
    BY <2>1 DEF settingsVars, Busy
  <2>3. CASE BuildReturns(s)
    BY <2>1, <2>2, <2>3 DEF BuildReturns, StagesOK, FilesOK, PageOK, gateway
  <2>4. CASE TakeSlot(s)
    BY <2>1, <2>2, <2>4 DEF TakeSlot, StagesOK, FilesOK, PageOK
  <2>5. CASE TakeAnswer(s)
    BY <2>1, <2>2, <2>5 DEF TakeAnswer, StagesOK, FilesOK, PageOK, gateway
  <2>6. CASE Deadline(s)
    BY <2>1, <2>2, <2>6 DEF Deadline, CancelHandler, StagesOK, FilesOK, PageOK
  <2>7. CASE Cancel(s)
    BY <2>1, <2>2, <2>7 DEF Cancel, CancelHandler, StagesOK, FilesOK, PageOK, gateway
  <2>8. CASE StartWorker(s)
    <3>1. handler[s] = "start" /\ coro[s] = "call"
      BY <2>8 DEF StartWorker, StagesOK
    <3>2. StagesOK(s)' /\ FilesOK(s)'
      BY <2>1, <2>8 DEF StartWorker, StagesOK, FilesOK, router
    <3>3. shown'[s] # Unsure => shown'[s] = shown[s] /\ threshold'[s] = RedisThreshold
      BY <2>8 DEF StartWorker
    <3>4. ASSUME shown'[s] \in Nat PROVE threshold'[s] = shown'[s]
      <4>1. shown'[s] # Unsure
        BY <3>4 DEF Unsure
      <4>2. Busy = {} /\ ~apart /\ shown[s] = settings["threshold"]
        BY <3>1, <3>3, <4>1 DEF PageOK
      <4>3. stored /\ hash = settings
        BY <4>2 DEF SettingsInv, SettingsAgree
      <4>4. hash["threshold"] # Bad
        BY <3>3, <3>4, <4>1, <4>2, <4>3, SettingsAssumption DEF SettingsAssumption
      <4> QED  BY <3>3, <4>1, <4>2, <4>3, <4>4 DEF RedisThreshold
    <3>5. coro'[s] = "call" /\ handler'[s] = "wait"
      BY <2>8, <3>1 DEF StartWorker, router
    <3> QED  BY <2>2, <3>1, <3>2, <3>3, <3>4, <3>5 DEF PageOK
  <2>9. CASE LoadImage(s) \/ Infer(s)
    BY <2>1, <2>2, <2>9 DEF LoadImage, Infer, StagesOK, FilesOK, PageOK, router
  <2>10. CASE Answer(s)
    BY <2>1, <2>2, <2>10 DEF Answer, HandlerEnds, Label, StagesOK, FilesOK, PageOK, router
  <2>11. CASE GiveUp(s)
    BY <2>1, <2>2, <2>11 DEF GiveUp, HandlerEnds, StagesOK, FilesOK, PageOK, router
  <2> QED
    BY <1>2, <2>3, <2>4, <2>5, <2>6, <2>7, <2>8, <2>9, <2>10, <2>11 DEF ScanSteps, BuildSteps
<1> QED  BY <1>1, <1>2

\* A change of the settings makes the page unsure, unless it is only a cleanup.
LEMMA WatchPreserved ==
    ASSUME TypeOK, SettingsTypeOK, NEW s \in Scan, ScanOK(s), SettingsNext, Watch,
           UNCHANGED <<router, build, gateway>>
    PROVE  ScanOK(s)'
<1> USE DEF ScanOK, router, build, gateway
<1>1. StagesOK(s)' /\ FilesOK(s)'
  BY DEF StagesOK, FilesOK
<1>2. shown'[s] = shown[s] \/ shown'[s] = Unsure
  BY DEF Watch
<1>3. ASSUME coro'[s] = "call", shown'[s] # Unsure
      PROVE  Busy' = {} /\ ~apart' /\ shown'[s] = settings'["threshold"]
  <2>1. Busy' = {} /\ ~apart' /\ shown'[s] = shown[s] /\ coro[s] = "call"
    BY <1>3 DEF Watch
  <2>2. Busy = {} /\ ~apart /\ shown[s] = settings["threshold"]
    BY <1>3, <2>1 DEF PageOK
  <2>3. settings' = settings
    <3>1. ~\E p \in Post : SetState(p)
      BY <2>1, Threads DEF SetState, Busy, SettingsTypeOK
    <3>2. ~Adopt
      BY <2>2 DEF Adopt, Busy
    <3>3. ~RestartApi
      BY <2>1 DEF RestartApi
    <3> QED
      BY <3>1, <3>2, <3>3 DEF SettingsNext, LoadRead, WriteDefaults, LoadFails, TakeMapping, Store,
         StoreFails, Cleanup, EvictSettings
  <2> QED  BY <2>1, <2>2, <2>3
<1>4. Unsure \notin Nat
  BY DEF Unsure
<1> QED  BY <1>1, <1>2, <1>3, <1>4 DEF PageOK

-----------------------------------------------------------------------------
(* The limit                                                               *)

Calls == {s \in Scan : coro[s] = "call"}

LEMMA CallsFinite == IsFiniteSet(Calls) /\ Cardinality(Calls) \in Nat
<1>1. IsFiniteSet(Calls)
  BY ScanAssumption, FS_Subset DEF ScanAssumption, Calls
<1> QED  BY <1>1, FS_CardinalityType

\* Only a free slot lets the number of calls grow, and by one.
LEMMA LimitPreserved ==
    ASSUME TypeOK, SettingsTypeOK, LimitInv, [Next]_vars
    PROVE  LimitInv'
<1>0. maxScans \in Int /\ peak \in Int /\ ActiveScans = Cardinality(Calls) /\ ActiveScans \in Nat
  BY CallsFinite DEF TypeOK, ActiveScans, Calls
<1>1. ASSUME Calls' \subseteq Calls, maxScans' <= peak', peak' \in Int, peak <= peak'
      PROVE  LimitInv'
  <2>1. Cardinality(Calls') <= Cardinality(Calls) /\ Cardinality(Calls') \in Nat
    BY <1>1, CallsFinite, FS_Subset, FS_CardinalityType
  <2>2. ActiveScans' = Cardinality(Calls')
    BY DEF ActiveScans, Calls
  <2> QED  BY <1>0, <1>1, <2>1, <2>2 DEF LimitInv
<1>2. ASSUME NEW s \in Scan, TakeSlot(s) PROVE LimitInv'
  <2>1. Calls' = Calls \cup {s} /\ s \notin Calls
    BY <1>2 DEF TakeSlot, Calls, TypeOK
  <2>2. Cardinality(Calls') = Cardinality(Calls) + 1
    BY <2>1, CallsFinite, FS_AddElement
  <2>3. ActiveScans' = ActiveScans + 1
    BY <1>0, <2>2 DEF ActiveScans, Calls
  <2>4. ActiveScans < maxScans /\ UNCHANGED <<maxScans, peak>>
    BY <1>2 DEF TakeSlot, SlotFree
  <2> QED  BY <1>0, <2>3, <2>4 DEF LimitInv
<1>3. ASSUME NEW s \in Scan, ScanSteps(s), ~TakeSlot(s) PROVE LimitInv'
  <2>1. Calls' \subseteq Calls
    <3>1. CASE BuildSteps(s)
      BY <3>1, BuildEffect DEF Calls, router
    <3>2. CASE ~BuildSteps(s)
      BY <1>3, <3>2 DEF ScanSteps, BuildSteps, BuildReturns, TakeAnswer, Deadline, Cancel,
         StartWorker, LoadImage, Infer, Answer, GiveUp, HandlerEnds, router, Calls, TypeOK
    <3> QED  BY <3>1, <3>2
  <2>2. UNCHANGED <<maxScans, peak>>
    BY <1>3, BuildEffect, CallEffect DEF router
  <2> QED  BY <1>0, <1>1, <2>1, <2>2 DEF LimitInv
<1>4. CASE SettingsSync
  <2>1. hash["scans"] \in Int
    BY <1>4, KeyValues DEF SettingsSync, SettingsTypeOK, Value
  <2>2. Calls' = Calls
    BY <1>4 DEF SettingsSync, Calls
  <2> QED  BY <1>0, <1>1, <1>4, <2>1, <2>2 DEF SettingsSync
<1>5. CASE UNCHANGED router
  <2>1. Calls' = Calls
    BY <1>5 DEF router, Calls
  <2> QED  BY <1>0, <1>1, <1>5, <2>1 DEF router, LimitInv
<1> QED
  BY <1>2, <1>3, <1>4, <1>5 DEF Next, ScanNext, ScanSteps, vars, scanVars

-----------------------------------------------------------------------------
(* Theorems                                                                *)

LEMMA InitInvariant == Init => IInv
<1> SUFFICES ASSUME Init PROVE IInv
  OBVIOUS
<1>1. SettingsInv
  BY SettingsStart
<1>2. Default["scans"] \in Nat
  BY SettingsAssumption, KeyValues DEF SettingsAssumption
<1>3. TypeOK
  BY <1>2 DEF Init, TypeOK, Answers, Value, Unsure
<1>4. \A s \in Scan : ScanOK(s)
  BY DEF Init, ScanOK, StagesOK, FilesOK, PageOK
<1>5. Calls = {}
  BY DEF Init, Calls
<1>6. LimitInv
  BY <1>2, <1>5, FS_EmptySet DEF Init, LimitInv, ActiveScans, Calls
<1> QED  BY <1>1, <1>3, <1>4, <1>6 DEF IInv

\* The inductive invariant of the settings and the scans.
THEOREM GatewayInvariant == Spec => []IInv
<1>1. ASSUME IInv, [Next]_vars PROVE IInv'
  <2>1. /\ SettingsInv /\ SettingsTypeOK /\ TypeOK /\ LimitInv
        /\ \A s \in Scan : ScanOK(s)
    BY <1>1 DEF IInv, SettingsInv, SettingsAgree
  <2>2. SettingsInv' /\ TypeOK' /\ LimitInv'
    BY <1>1, <2>1, SettingsStep, ScanTypes, LimitPreserved
  <2>3. ASSUME NEW t \in Scan PROVE ScanOK(t)'
    <3>1. ASSUME NEW s \in Scan, ScanSteps(s) PROVE ScanOK(t)'
      <4>1. UNCHANGED settingsVars
        BY <3>1, BuildEffect, CallEffect, <2>1
      <4> QED  BY <2>1, <3>1, <4>1, ScanFrame, OthersKept, ScanPreserved
    <3>2. CASE SettingsSync \/ UNCHANGED vars
      BY <2>1, <3>2, ScanFrame DEF SettingsSync, vars, scanVars, router, build, gateway
    <3>3. CASE SettingsNext /\ Watch /\ UNCHANGED <<router, build, gateway>>
      BY <2>1, <3>3, WatchPreserved
    <3> QED  BY <1>1, <3>1, <3>2, <3>3 DEF Next, ScanNext, ScanSteps
  <2> QED  BY <2>2, <2>3 DEF IInv
<1> QED  BY <1>1, InitInvariant, PTL DEF Spec

\* For any requests, restarts, failures of Redis and evictions: when nobody is
\* changing the settings and the last change met no other one, settings_post and
\* _init_settings have left the same settings in memory and in Redis, and the
\* retention worker uses the ones in Redis.
THEOREM SettingsCorrect == Spec => []SettingsAgree
<1>1. IInv => SettingsAgree
  BY DEF IInv, SettingsInv
<1> QED  BY <1>1, GatewayInvariant, PTL

\* For any number of scans and any faults: there are never more calls than the
\* largest limit so far, calpa_runner leaves a worker without a call only when
\* the scan has an ERROR or no result, and temporary files go with those who made
\* them.
THEOREM WorkersCorrect == Spec => []WorkersBelongToCalls
<1>1. IInv => WorkersBelongToCalls
  BY DEF IInv, LimitInv, ScanOK, StagesOK, FilesOK, WorkersBelongToCalls, FilesAreTemporary
<1> QED  BY <1>1, GatewayInvariant, PTL

\* In the same generality: a scan is STEGO or CLEAN only if its calpa_worker has
\* labelled it, and by the threshold that the page showed when the scan was sent,
\* if nobody was changing the settings.
THEOREM VerdictsCorrect == Spec => []VerdictsFollowThePage
<1>1. ASSUME IInv, NEW s \in Scan, verdict[s] \in {"STEGO", "CLEAN"}
      PROVE  /\ worker[s] = "labelled" /\ verdict[s] = Label(s)
             /\ shown[s] \in Nat => (verdict[s] = "STEGO" <=> Score[s] >= shown[s])
  <2>1. worker[s] = "labelled" /\ handler[s] = verdict[s]
    BY <1>1 DEF IInv, ScanOK, StagesOK
  <2>2. /\ verdict[s] = "STEGO" <=> Score[s] >= threshold[s]
        /\ shown[s] \in Nat => threshold[s] = shown[s]
    BY <1>1, <2>1 DEF IInv, ScanOK, PageOK
  <2> QED  BY <1>1, <2>1, <2>2 DEF Label
<1>2. IInv => VerdictsFollowThePage
  BY <1>1 DEF VerdictsFollowThePage
<1> QED  BY <1>2, GatewayInvariant, PTL
=============================================================================
