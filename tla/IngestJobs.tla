----------------------------- MODULE IngestJobs -----------------------------
(***************************************************************************)
(* The ingest jobs of soc-api/server.py: an upload starts a daemon thread  *)
(* that has each of its images analysed by a worker in a container and     *)
(* records the result in the job table, the two hash caches, the event     *)
(* stream and the audit log.  A worker gets its input through two files of *)
(* the container, whose names are the same for every job.                  *)
(*                                                                         *)
(* An image stands for its bytes and so for its digest.                    *)
(***************************************************************************)
EXTENDS Naturals, Sequences, FiniteSets

CONSTANTS
    Job,            \* uploads, each of which starts a job
    Image,          \* images in the uploads
    Images,         \* the images of a job's upload, in order of analysis
    PcapJobs,       \* jobs whose upload is a capture
    MaxImages,      \* PCAP_PLAIN_MAX_IMAGES
    Suffix,         \* file name suffixes
    SuffixOf,       \* the suffix of an image
    IsStego,        \* images the worker labels STEGO
    Ephemeral,      \* INGEST_EPHEMERAL: a container per analysis
    Faults          \* subset of {"docker", "store", "crash"}

ASSUME IngestAssumption ==
    /\ PcapJobs \subseteq Job
    /\ Images \in [Job -> Seq(Image)]
    /\ \A j \in Job \ PcapJobs : Len(Images[j]) = 1
    /\ MaxImages \in Nat
    /\ SuffixOf \in [Image -> Suffix]
    /\ IsStego \subseteq Image
    /\ Ephemeral \in BOOLEAN
    /\ Faults \subseteq {"docker", "store", "crash"}

VARIABLES
    status,     \* INGEST_JOBS[j]["status"], "none" without an entry
    at,         \* the step each job's thread takes next
    index,      \* the image the thread is at
    uploads,    \* jobs whose temporary upload exists
    dir,        \* extraction directory: "none", held by the thread, or orphan
    file,       \* /tmp/ingest_upload<suffix> in each container
    payload,    \* /tmp/ingest_payload.json: the suffix it points to
    path,       \* the suffix a running worker has read from its payload
    label,      \* the label of the image the thread is at
    found,      \* labels of the images analysed so far
    row,        \* hash_cache in Postgres
    cache,      \* hash cache in Redis
    events,     \* events pushed to the Redis stream
    audit       \* entries of system_audit_log

container == <<file, payload, path>>
stores == <<row, cache>>
temp == <<uploads, dir>>
vars == <<status, at, index, temp, container, label, found, stores, events,
          audit>>

Label == {"CLEAN", "STEGO"}
LabelOf(i) == IF i \in IsStego THEN "STEGO" ELSE "CLEAN"
Final == {"completed", "failed"}
Steps == {"none", "start", "put", "payload", "exec", "load", "row", "cache",
          "error", "complete", "push", "audit", "cleanup", "end", "killed"}

\* The container a job's worker runs in.
Shared == "stegnar-mitm"
Container == Job \cup {Shared}
\* Mutant: ephemeral containers are shared as well.
SharedBox(j) == Shared
Box(j) == IF Ephemeral THEN j ELSE Shared

ImageOf(j) == Images[j][index[j]]
NoFiles == [x \in Suffix |-> "none"]

Init ==
    /\ status = [j \in Job |-> "none"]
    /\ at = [j \in Job |-> "none"]
    /\ index = [j \in Job |-> 1]
    /\ uploads = {}
    /\ dir = [j \in Job |-> "none"]
    /\ file = [b \in Container |-> NoFiles]
    /\ payload = [b \in Container |-> "none"]
    /\ path = [j \in Job |-> "none"]
    /\ label = [j \in Job |-> "CLEAN"]
    /\ found = [j \in Job |-> {}]
    /\ row = [i \in Image |-> "none"]
    /\ cache = [i \in Image |-> "none"]
    /\ events = <<>>
    /\ audit = {}

Step(j, s, t) == at[j] = s /\ at' = [at EXCEPT ![j] = t]
JobSet(j, s) == status' = [status EXCEPT ![j] = s]

-----------------------------------------------------------------------------

\* The request handler saves the upload, enters the job and starts a thread.
Submit(j) ==
    /\ Step(j, "none", "start")
    /\ JobSet(j, "queued")
    /\ uploads' = uploads \cup {j}
    /\ UNCHANGED <<index, dir, container, label, found, stores, events, audit>>

\* The thread marks the job running and, for a capture, has tshark extract
\* its images to a new directory.
Start(j) ==
    /\ Images[j] # <<>>
    /\ JobSet(j, "running")
    /\ Step(j, "start", "put")
    /\ dir' = [dir EXCEPT ![j] = IF j \in PcapJobs THEN "held" ELSE "none"]
    /\ UNCHANGED <<index, uploads, container, label, found, stores, events, audit>>

\* The capture has no image, or tshark stops before it exported one; its exit
\* code is ignored.
NoImages(j) ==
    /\ j \in PcapJobs
    /\ Images[j] = <<>> \/ "docker" \in Faults
    /\ JobSet(j, "running")
    /\ Step(j, "start", "error")
    /\ dir' = [dir EXCEPT ![j] = "held"]
    /\ UNCHANGED <<index, uploads, container, label, found, stores, events, audit>>

\* tshark is missing or runs into its timeout: the thread has no name for the
\* directory that may exist by then.
ExtractFails(j) ==
    /\ "docker" \in Faults
    /\ j \in PcapJobs
    /\ JobSet(j, "running")
    /\ Step(j, "start", "error")
    /\ \E d \in {"none", "orphan"} : dir' = [dir EXCEPT ![j] = d]
    /\ UNCHANGED <<index, uploads, container, label, found, stores, events, audit>>

\* put_archive overwrites the upload file of that suffix in the container.
PutImage(j) ==
    /\ Step(j, "put", "payload")
    /\ file' = [file EXCEPT ![Box(j)][SuffixOf[ImageOf(j)]] = ImageOf(j)]
    /\ UNCHANGED <<status, index, temp, payload, path, label, found, stores,
                   events, audit>>

PutPayload(j) ==
    /\ Step(j, "payload", "exec")
    /\ payload' = [payload EXCEPT ![Box(j)] = SuffixOf[ImageOf(j)]]
    /\ UNCHANGED <<status, index, temp, file, path, label, found, stores,
                   events, audit>>

\* exec_run starts a worker, which reads its request from the payload file.
ReadPayload(j) ==
    /\ Step(j, "exec", "load")
    /\ path' = [path EXCEPT ![j] = payload[Box(j)]]
    /\ UNCHANGED <<status, index, temp, file, payload, label, found, stores,
                   events, audit>>

\* What _run_calpa_for_image leaves behind: an ephemeral container is removed
\* in its finally clause.
Removed(j) ==
    /\ file' = IF Ephemeral THEN [file EXCEPT ![j] = NoFiles] ELSE file
    /\ payload' = IF Ephemeral THEN [payload EXCEPT ![j] = "none"] ELSE payload
    /\ path' = [path EXCEPT ![j] = "none"]

\* The worker loads the model, reads the image file and prints its label.  An
\* image job completes next, a capture first records each image.
AfterWorker(j) == IF j \in PcapJobs THEN "row" ELSE "complete"
Classify(j) ==
    /\ Step(j, "load", AfterWorker(j))
    /\ LET l == LabelOf(file[Box(j)][path[j]]) IN
        /\ label' = [label EXCEPT ![j] = l]
        /\ found' = [found EXCEPT ![j] = @ \cup {l}]
    /\ Removed(j)
    /\ UNCHANGED <<status, index, temp, stores, events, audit>>

\* The job's verdict: STEGO if one of its images is.  Mutant: that of the
\* last image.
LastLabel(j) == label[j]
Overall(j) == IF "STEGO" \in found[j] THEN "STEGO" ELSE "CLEAN"

Complete(j) ==
    /\ Step(j, "complete", "push")
    /\ JobSet(j, "completed")
    /\ UNCHANGED <<index, temp, container, label, found, stores, events, audit>>

\* _push_event_to_redis_stream swallows errors.
Push(j) ==
    /\ Step(j, "push", IF j \in PcapJobs THEN "audit" ELSE "row")
    /\ \/ events' = Append(events, [job |-> j, verdict |-> Overall(j)])
       \/ "store" \in Faults /\ UNCHANGED events
    /\ UNCHANGED <<status, index, temp, container, label, found, stores, audit>>

\* _write_hash_cache swallows errors.
WriteRow(j) ==
    /\ Step(j, "row", "cache")
    /\ \/ row' = [row EXCEPT ![ImageOf(j)] = label[j]]
       \/ "store" \in Faults /\ UNCHANGED row
    /\ UNCHANGED <<status, index, temp, container, label, found, cache, events,
                   audit>>

\* _write_redis_cache swallows errors.  An image job then writes its audit
\* entry, a capture goes on to its next image.
\* Mutants: the loop over the images stays at the first one; its index goes
\* past the last one.
LastImage(j) == index[j] = Len(Images[j]) \/ index[j] >= MaxImages
SameImage(j) == index[j]
PastImage(j) == index[j] + 1
NextImage(j) == IF LastImage(j) THEN index[j] ELSE index[j] + 1
WriteCache(j) ==
    /\ Step(j, "cache", IF j \notin PcapJobs THEN "audit"
                        ELSE IF LastImage(j) THEN "complete" ELSE "put")
    /\ index' = [index EXCEPT ![j] = NextImage(j)]
    /\ \/ cache' = [cache EXCEPT ![ImageOf(j)] = label[j]]
       \/ "store" \in Faults /\ UNCHANGED cache
    /\ UNCHANGED <<status, temp, container, label, found, row, events, audit>>

\* The audit entry that ends a job, best effort like the others.
WriteAudit(j) ==
    /\ Step(j, "audit", "cleanup")
    /\ \/ audit' = audit \cup {[job |-> j, type |->
              IF status[j] = "failed" THEN "INGEST_FAILED" ELSE "INGEST_COMPLETE"]}
       \/ "store" \in Faults /\ UNCHANGED audit
    /\ UNCHANGED <<status, index, temp, container, label, found, stores, events>>

\* Where an exception can arise before the job is completed: docker or the
\* worker fails, or the extraction did.
Failing(j) ==
    \/ at[j] = "error"
    \/ at[j] \in {"put", "payload", "exec", "load"} /\ "docker" \in Faults
Fail(j) ==
    /\ Failing(j)
    /\ at' = [at EXCEPT ![j] = "audit"]
    /\ JobSet(j, "failed")
    /\ Removed(j)
    /\ UNCHANGED <<index, temp, label, found, stores, events, audit>>

\* The finally clause removes the upload and the directory the thread has a
\* name for; the thread's locals go with it.  Mutant: only after a success.
CleanupCompleted(j) ==
    /\ Step(j, "cleanup", "end")
    /\ uploads' = IF status[j] = "completed" THEN uploads \ {j} ELSE uploads
    /\ dir' = [dir EXCEPT ![j] = IF @ = "held" THEN "none" ELSE @]
    /\ UNCHANGED <<status, index, container, label, found, stores, events, audit>>
Cleanup(j) ==
    /\ Step(j, "cleanup", "end")
    /\ uploads' = uploads \ {j}
    /\ dir' = [dir EXCEPT ![j] = IF @ = "held" THEN "none" ELSE @]
    /\ index' = [index EXCEPT ![j] = 1]
    /\ label' = [label EXCEPT ![j] = "CLEAN"]
    /\ found' = [found EXCEPT ![j] = {}]
    /\ UNCHANGED <<status, container, stores, events, audit>>

\* soc-api restarts: threads and job table are gone, uploads and directories
\* remain, and no thread will ever reach a container of its own again.
Crash ==
    /\ "crash" \in Faults
    /\ \E j \in Job : at[j] \notin {"none", "end", "killed"}
    /\ status' = [j \in Job |-> "none"]
    /\ at' = [j \in Job |-> IF at[j] \in {"none", "end"} THEN at[j] ELSE "killed"]
    /\ index' = [j \in Job |-> 1]
    /\ label' = [j \in Job |-> "CLEAN"]
    /\ found' = [j \in Job |-> {}]
    /\ path' = [j \in Job |-> "none"]
    /\ file' = [b \in Container |-> IF b = Shared THEN file[b] ELSE NoFiles]
    /\ payload' = [b \in Container |-> IF b = Shared THEN payload[b] ELSE "none"]
    /\ UNCHANGED <<temp, stores, events, audit>>

Thread(j) ==
    \/ Start(j) \/ NoImages(j) \/ ExtractFails(j)
    \/ PutImage(j) \/ PutPayload(j) \/ ReadPayload(j)
    \/ Classify(j) \/ Complete(j) \/ Push(j) \/ WriteRow(j) \/ WriteCache(j)
    \/ WriteAudit(j) \/ Fail(j) \/ Cleanup(j)

Next == (\E j \in Job : Submit(j) \/ Thread(j)) \/ Crash

Spec == Init /\ [][Next]_vars

\* Threads are scheduled, and docker, Redis, Postgres and the worker answer.
FairSpec == Spec /\ \A j \in Job : WF_vars(Thread(j))

-----------------------------------------------------------------------------
(* Properties                                                              *)

\* Type correctness of the job table, the threads and the stores.
TypeOK ==
    /\ status \in [Job -> {"none", "queued", "running"} \cup Final]
    /\ at \in [Job -> Steps]
    /\ index \in [Job -> Nat]
    /\ \A j \in Job : index[j] = 1 \/ index[j] \in DOMAIN Images[j]
    /\ uploads \subseteq Job
    /\ dir \in [Job -> {"none", "held", "orphan"}]
    /\ file \in [Container -> [Suffix -> Image \cup {"none"}]]
    /\ payload \in [Container -> Suffix \cup {"none"}]
    /\ path \in [Job -> Suffix \cup {"none"}]
    /\ label \in [Job -> Label]
    /\ found \in [Job -> SUBSET Label]
    /\ row \in [Image -> Label \cup {"none"}]
    /\ cache \in [Image -> Label \cup {"none"}]
    /\ events \in Seq([job : Job, verdict : Label])
    /\ audit \subseteq [job : Job, type : {"INGEST_COMPLETE", "INGEST_FAILED"}]

\* hash_cache is the "SHA-256 analysis cache" (001_init.sql:46): whatever
\* other jobs run at the same time, the verdict recorded for a digest, in
\* Postgres and in Redis, is the worker's label of the bytes it digests.
CachesAreTrue ==
    \A i \in Image : {row[i], cache[i]} \subseteq {LabelOf(i), "none"}

\* A job pushes one event at most, none if it fails, and its verdict is STEGO
\* exactly if one of the analysed images of its own upload is.
EventsAreTrue ==
    \A e \in DOMAIN events :
        LET j == events[e].job
            analysed == {Images[j][k] : k \in {k \in DOMAIN Images[j] : k = 1 \/ k <= MaxImages}}
        IN  /\ \A d \in DOMAIN events : events[d].job = j => d = e
            /\ status[j] # "failed"
            /\ events[e].verdict = "STEGO" <=> analysed \cap IsStego # {}

\* A thread that ran to its end has removed its upload and its extraction
\* directory, failed or not; a directory is orphaned only when the extraction
\* itself raised, so never by a job that analysed something.  (That the system
\* refuses a removal, which server.py ignores, is not modelled.)
UploadsAreRemoved ==
    \A j \in Job :
        /\ at[j] = "end" => j \notin uploads /\ dir[j] # "held"
        /\ dir[j] = "orphan" => status[j] # "completed" /\ found[j] = {}

\* A job that was accepted comes to a final status or is forgotten by a
\* restart, and its thread ends: no client polls for ever.
JobsEnd ==
    \A j \in Job :
        at[j] = "start" ~> at[j] \in {"end", "killed"} /\ status[j] \in Final \cup {"none"}

=============================================================================
