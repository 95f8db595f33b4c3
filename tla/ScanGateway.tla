------------------------------ MODULE ScanGateway ------------------------------
(***************************************************************************)
(* One scan from the popped stream to its verdict, across three processes: *)
(* the router builds a capture file and carves an image (pcap_builder.py), *)
(* waits for a scan slot and calls the gateway under a deadline            *)
(* (servicer.py, dispatcher.py); the gateway's handler puts the image into *)
(* a temporary file and waits for a worker process with a timeout of its   *)
(* own (calpa_runner.py); the worker labels the image (calpa_worker.py).   *)
(* The limit of the slots and the threshold of the label are Settings.     *)
(***************************************************************************)
EXTENDS Settings

CONSTANTS
    Scan,           \* streams that are processed
    Score,          \* per scan: P(stego) of its image, in percent
    Carvable,       \* scans whose image only tshark can find
    Workload,       \* bound: what happens together in a behaviour: the scans
                    \* and requests, and whether soc-api has just started
    Faults          \* what else goes wrong in the router, gateway and worker

ASSUME ScanAssumption ==
    /\ IsFiniteSet(Scan) /\ Score \in [Scan -> Nat]
    /\ Carvable \subseteq Scan
    /\ Workload \subseteq [scans : SUBSET Scan, posts : SUBSET Post, cold : BOOLEAN]
    /\ Faults \subseteq {"build", "cancel", "timeout", "worker"}

VARIABLES
    maxScans,   \* _max_scans
    peak,       \* history: the largest limit so far
    coro,       \* where _process_stream stands
    builder,    \* where the thread of _sync_build stands
    files,      \* its temporary files
    carved,     \* whether it found an image
    handler,    \* where AnalyzeImage stands in the gateway, or what it answered
    image,      \* whether the handler's temporary file exists
    threshold,  \* the threshold in the payload of the worker
    worker,     \* where the worker process stands
    verdict,    \* the router's result
    shown       \* history: the threshold that the settings page has shown since
                \* the call, or Unsure

router == <<maxScans, peak, coro, verdict>>
build == <<builder, files, carved>>
gateway == <<handler, image, threshold, worker>>
scanVars == <<router, build, gateway, shown>>
vars == <<settingsVars, scanVars>>

File == {"pcap", "keys", "export"}
Unsure == -1

Init ==
    /\ \E w \in Workload :
        /\ IF w.cold THEN ColdStart ELSE Up
        /\ SettingsInit(w.posts)
        /\ coro = [s \in Scan |-> IF s \in w.scans THEN "build" ELSE "end"]
        /\ builder = [s \in Scan |-> IF s \in w.scans THEN "pcap" ELSE "done"]
    /\ maxScans = Default["scans"] /\ peak = Default["scans"]
    /\ verdict = [s \in Scan |-> "none"]
    /\ files = [s \in Scan |-> {}]
    /\ carved = [s \in Scan |-> FALSE]
    /\ handler = [s \in Scan |-> "none"]
    /\ image = [s \in Scan |-> FALSE]
    /\ threshold = [s \in Scan |-> 0]
    /\ worker = [s \in Scan |-> "none"]
    /\ shown = [s \in Scan |-> Unsure]

-----------------------------------------------------------------------------
(* pcap_builder.py, in a thread of the executor                            *)

Built(s, step, found) ==
    /\ builder' = [builder EXCEPT ![s] = step]
    /\ files' = [files EXCEPT ![s] = found]
    /\ UNCHANGED <<settingsVars, router, gateway, shown>>

WritePcap(s) ==
    /\ builder[s] = "pcap"
    /\ Built(s, "keys", {"pcap"})
    /\ UNCHANGED carved

\* The build returns at once; what was written of the file stays.
WriteFails(s) ==
    /\ "build" \in Faults
    /\ builder[s] = "pcap"
    /\ \E left \in SUBSET {"pcap"} : Built(s, "failed", left)
    /\ UNCHANGED carved

\* Keys are written if the stream has any; an error is only logged.
WriteKeys(s) ==
    /\ builder[s] = "keys"
    /\ \E keys \in SUBSET {"keys"} : Built(s, "carve", files[s] \cup keys)
    /\ UNCHANGED carved

\* tshark exports objects of which the largest is taken, or a JPEG is cut out
\* of the raw bytes; an error or the timeout leaves no image.
Carve(s) ==
    /\ builder[s] = "carve"
    /\ carved' = [carved EXCEPT ![s] = s \in Carvable]
    /\ Built(s, "upload", files[s] \cup {"export"})

CarveFails(s) ==
    /\ "build" \in Faults
    /\ builder[s] = "carve"
    /\ \E dir \in SUBSET {"export"} : Built(s, "upload", files[s] \cup dir)
    /\ UNCHANGED carved

\* Files removed once the uploads succeeded or failed; that a removal fails is
\* not modelled.
Removed == File

Upload(s) ==
    /\ builder[s] = "upload"
    /\ Built(s, "done", files[s] \ Removed)
    /\ UNCHANGED carved

-----------------------------------------------------------------------------
(* servicer.py and dispatcher.py                                           *)

\* The build returned: without an image there is nothing to analyse.
BuildReturns(s) ==
    /\ coro[s] = "build"
    /\ builder[s] \in {"done", "failed"}
    /\ coro' = [coro EXCEPT ![s] = IF carved[s] \/ s \notin Carvable THEN "wait" ELSE "end"]
    /\ verdict' = [verdict EXCEPT ![s] = IF coro'[s] = "wait" THEN @ ELSE "NO_IMAGE"]
    /\ UNCHANGED <<settingsVars, maxScans, peak, build, gateway, shown>>

ActiveScans == Cardinality({s \in Scan : coro[s] = "call"})

\* The threshold that get_threshold finds in Redis now.  Mutant: it keeps the
\* default.
RedisThresholdDefault == Default["threshold"]
RedisThreshold ==
    IF stored /\ hash["threshold"] # Bad THEN hash["threshold"] ELSE Default["threshold"]

\* The loop that waits for a slot ends, and the gateway is called.
\* Mutant: one too many.
SlotFreeOffByOne == ActiveScans <= maxScans
SlotFree == ActiveScans < maxScans

TakeSlot(s) ==
    /\ coro[s] = "wait"
    /\ SlotFree
    /\ coro' = [coro EXCEPT ![s] = "call"]
    /\ handler' = [handler EXCEPT ![s] = "start"]
    /\ shown' = [shown EXCEPT ![s] = IF Busy = {} /\ ~apart THEN settings["threshold"] ELSE Unsure]
    /\ UNCHANGED <<settingsVars, maxScans, peak, verdict, build, image, threshold, worker>>

Answers == {"STEGO", "CLEAN", "ERROR"}

TakeAnswer(s) ==
    /\ coro[s] = "call"
    /\ handler[s] \in Answers
    /\ coro' = [coro EXCEPT ![s] = "end"]
    /\ verdict' = [verdict EXCEPT ![s] = handler[s]]
    /\ UNCHANGED <<settingsVars, maxScans, peak, build, gateway, shown>>

\* What ends with an RPC that ends early: the handler is cancelled and its
\* temporary file removed, the worker process goes on.
CancelHandler(s) ==
    /\ handler' = [handler EXCEPT ![s] = "cancelled"]
    /\ image' = [image EXCEPT ![s] = FALSE]
    /\ UNCHANGED <<threshold, worker>>

\* The deadline of 130 seconds: a synthetic ERROR.
Deadline(s) ==
    /\ "timeout" \in Faults
    /\ coro[s] = "call"
    /\ coro' = [coro EXCEPT ![s] = "end"]
    /\ verdict' = [verdict EXCEPT ![s] = "ERROR"]
    /\ CancelHandler(s)
    /\ UNCHANGED <<settingsVars, maxScans, peak, build, shown>>

\* The stream's RPC is cancelled; the thread of a build still goes on.
Cancel(s) ==
    /\ "cancel" \in Faults
    /\ coro[s] # "end"
    /\ coro' = [coro EXCEPT ![s] = "end"]
    /\ IF coro[s] = "call" THEN CancelHandler(s) ELSE UNCHANGED gateway
    /\ UNCHANGED <<settingsVars, maxScans, peak, verdict, build, shown>>

SettingsSync ==
    /\ stored /\ hash["scans"] # Bad
    /\ maxScans' = hash["scans"]
    /\ peak' = IF hash["scans"] > peak THEN hash["scans"] ELSE peak
    /\ UNCHANGED <<settingsVars, coro, verdict, build, gateway, shown>>

-----------------------------------------------------------------------------
(* The gateway: calpa_runner.py and calpa_worker.py                        *)

\* The image is written, the threshold read, and the worker started; a read
\* that fails gives the default.
StartWorker(s) ==
    /\ handler[s] = "start"
    /\ handler' = [handler EXCEPT ![s] = "wait"]
    /\ image' = [image EXCEPT ![s] = TRUE]
    /\ worker' = [worker EXCEPT ![s] = "load"]
    /\ \/ threshold' = [threshold EXCEPT ![s] = RedisThreshold] /\ UNCHANGED shown
       \/ /\ "redis" \in Upsets
          /\ threshold' = [threshold EXCEPT ![s] = Default["threshold"]]
          /\ shown' = [shown EXCEPT ![s] = Unsure]
    /\ UNCHANGED <<settingsVars, router, build>>

\* What the worker has to say of an image it could read.
Label(s) == IF Score[s] >= threshold[s] THEN "STEGO" ELSE "CLEAN"

\* The worker reads its image, or fails because the file is gone.
LoadImage(s) ==
    /\ worker[s] = "load"
    /\ worker' = [worker EXCEPT ![s] = IF image[s] THEN "infer" ELSE "failed"]
    /\ UNCHANGED <<settingsVars, router, build, handler, image, threshold, shown>>

\* The label, or an error of TensorFlow: no model, no memory.
Infer(s) ==
    /\ worker[s] = "infer"
    /\ \E w \in {"labelled"} \cup IF "worker" \in Faults THEN {"failed"} ELSE {} :
        worker' = [worker EXCEPT ![s] = w]
    /\ UNCHANGED <<settingsVars, router, build, handler, image, threshold, shown>>

\* The handler answers and removes its file.
HandlerEnds(s, a) ==
    /\ handler' = [handler EXCEPT ![s] = a]
    /\ image' = [image EXCEPT ![s] = FALSE]
    /\ UNCHANGED <<settingsVars, router, build, threshold, worker, shown>>

\* An exit code, output that is not JSON, or an error in it make an ERROR.
Answer(s) ==
    /\ handler[s] = "wait"
    /\ worker[s] \in {"labelled", "failed"}
    /\ HandlerEnds(s, IF worker[s] = "labelled" THEN Label(s) ELSE "ERROR")

\* wait_for gives up after 120 seconds, and nobody kills the worker.
GiveUp(s) ==
    /\ "timeout" \in Faults
    /\ handler[s] = "wait"
    /\ worker[s] \in {"load", "infer"}
    /\ HandlerEnds(s, "ERROR")

-----------------------------------------------------------------------------
ScanNext ==
    \/ \E s \in Scan :
        \/ WritePcap(s) \/ WriteFails(s) \/ WriteKeys(s) \/ Carve(s) \/ CarveFails(s) \/ Upload(s)
        \/ BuildReturns(s) \/ TakeSlot(s) \/ TakeAnswer(s) \/ Deadline(s) \/ Cancel(s)
        \/ StartWorker(s) \/ LoadImage(s) \/ Infer(s) \/ Answer(s) \/ GiveUp(s)
    \/ SettingsSync

\* What happens to the settings while a call is open.
Watch ==
    shown' = [s \in Scan |-> IF coro[s] = "call" /\ (Busy' # {} \/ apart') THEN Unsure ELSE shown[s]]

Next ==
    \/ SettingsNext /\ Watch /\ UNCHANGED <<router, build, gateway>>
    \/ ScanNext

Spec == Init /\ [][Next]_vars

\* Steps of a call.  A worker that hangs meets the timeout of its handler.
\* Mutant: no timeout.
CallStepsNoTimeout(s) == TakeAnswer(s) \/ StartWorker(s) \/ Answer(s)
CallSteps(s) == TakeAnswer(s) \/ StartWorker(s) \/ Answer(s) \/ GiveUp(s)

\* Coroutines run when they can; of a worker process nothing is assumed.
FairSpec ==
    /\ Spec
    /\ \A s \in Scan : WF_vars(CallSteps(s)) /\ WF_vars(TakeSlot(s))

-----------------------------------------------------------------------------
(* Properties                                                              *)

TypeOK ==
    /\ maxScans \in Int /\ peak \in Int
    /\ coro \in [Scan -> {"build", "wait", "call", "end"}]
    /\ builder \in [Scan -> {"pcap", "keys", "carve", "upload", "done", "failed"}]
    /\ files \in [Scan -> SUBSET File] /\ carved \in [Scan -> BOOLEAN]
    /\ handler \in [Scan -> {"none", "start", "wait", "cancelled"} \cup Answers]
    /\ image \in [Scan -> BOOLEAN] /\ threshold \in [Scan -> Int]
    /\ worker \in [Scan -> {"none", "load", "infer", "labelled", "failed"}]
    /\ verdict \in [Scan -> {"none", "NO_IMAGE"} \cup Answers]
    /\ shown \in [Scan -> Value]

\* Temporary files exist only while the thread or the handler that made them
\* is at work, whatever carving, worker, timeout or cancellation does around
\* them; a capture file whose writing failed stays.  (Files whose removal fails
\* stay too: pcap_builder.py swallows that error, and it is not modelled.)
FilesAreTemporary ==
    \A s \in Scan :
        /\ image[s] <=> handler[s] = "wait"
        /\ builder[s] = "done" => files[s] = {}
        /\ builder[s] = "failed" => files[s] \subseteq {"pcap"}

\* Calls respect the largest limit there was; a worker without a call is what
\* a timeout, a deadline or a cancellation left, and its label is lost: the scan
\* has an ERROR or no result.
WorkersBelongToCalls ==
    /\ TypeOK
    /\ ActiveScans <= (IF peak > 0 THEN peak ELSE 0)
    /\ \A s \in Scan : worker[s] \in {"load", "infer"} =>
        coro[s] = "call" \/ verdict[s] \in {"ERROR", "none"}
    /\ FilesAreTemporary

\* A scan is STEGO or CLEAN only by the label of its worker, never after one that
\* failed, hung until a timeout or was not started.  The label uses the
\* threshold that the settings page showed when the scan was sent to the
\* gateway, if nobody was changing the settings then or until the answer, the
\* two copies agreed, and the gateway could read its copy.
VerdictsFollowThePage ==
    \A s \in Scan : verdict[s] \in {"STEGO", "CLEAN"} =>
        /\ worker[s] = "labelled" /\ verdict[s] = Label(s)
        /\ shown[s] \in Nat => (verdict[s] = "STEGO" <=> Score[s] >= shown[s])

\* Every scan that waits gets its slot, through hanging workers, timeouts and
\* changes of the limit, unless the limit is set to 0 or less.
WaitersGetIn == \A s \in Scan : coro[s] = "wait" ~> coro[s] # "wait" \/ maxScans <= 0
=============================================================================
