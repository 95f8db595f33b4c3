--------------------------- MODULE IngestJobs_proofs ---------------------------
(***************************************************************************)
(* Proofs about IngestJobs: for any uploads, images and faults, and with a *)
(* container per analysis, verdicts are those of the right image.          *)
(***************************************************************************)
EXTENDS IngestJobs, TLAPS

\* An event that is pushed is of the type of events.
LEMMA PushType ==
    ASSUME NEW j \in Job, events \in Seq([job : Job, verdict : Label]), Push(j)
    PROVE  events' \in Seq([job : Job, verdict : Label])
<1>1. ASSUME NEW S, NEW s \in Seq(S), NEW e \in S PROVE Append(s, e) \in Seq(S)
  OBVIOUS
<1>2. [job |-> j, verdict |-> Overall(j)] \in [job : Job, verdict : Label]
  BY DEF Overall, Label
<1>3. Append(events, [job |-> j, verdict |-> Overall(j)]) \in Seq([job : Job, verdict : Label])
  BY <1>1, <1>2
<1> QED  BY <1>3 DEF Push

\* The steps of a thread that has an image.
Working == {"put", "payload", "exec", "load", "row", "cache", "complete", "push"}

\* The loop over the images never leaves them, and stops in time.
IndexInv ==
    /\ \A j \in Job : at[j] \in Working => Images[j] # <<>>
    /\ \A j \in Job : index[j] = 1 \/ index[j] <= MaxImages
    /\ \A j \in Job : at[j] \in {"complete", "push"} => LastImage(j)
    /\ \A j \in Job : at[j] \in {"none", "start", "error"} => index[j] = 1 /\ found[j] = {}

LEMMA ImageAt ==
    ASSUME TypeOK, IndexInv, NEW j \in Job
    PROVE  /\ index[j] \in Nat \ {0} /\ Images[j] \in Seq(Image) /\ Len(Images[j]) \in Nat
           /\ at[j] \in Working => /\ index[j] \in 1..Len(Images[j])
                                   /\ ImageOf(j) \in Image
<1>1. Images[j] \in Seq(Image)
  BY IngestAssumption
<1>2. Len(Images[j]) \in Nat /\ DOMAIN Images[j] = 1..Len(Images[j])
  BY <1>1
<1>3. index[j] = 1 \/ index[j] \in DOMAIN Images[j]
  BY DEF TypeOK
<1>4. Images[j] # <<>> => 1 \in DOMAIN Images[j]
  BY <1>1
<1>5. at[j] \in Working => index[j] \in DOMAIN Images[j]
  BY <1>3, <1>4 DEF IndexInv
<1> QED  BY <1>1, <1>2, <1>3, <1>5 DEF ImageOf

LEMMA IndexStep ==
    ASSUME TypeOK, IndexInv, [Next]_vars
    PROVE  IndexInv'
<1>1. ASSUME NEW j \in Job, UNCHANGED <<index, found>>,
             \A k \in Job \ {j} : at'[k] = at[k],
             at'[j] \in Working => Images[j] # <<>>,
             at'[j] \in {"complete", "push"} => LastImage(j),
             at'[j] \in {"none", "start", "error"} => at[j] \in {"none", "start", "error"}
      PROVE  IndexInv'
  BY <1>1 DEF IndexInv, LastImage
<1>2. ASSUME NEW j \in Job, Submit(j) \/ Thread(j) PROVE IndexInv'
  <2> USE DEF TypeOK, Step, Working, temp, container, stores
  <2>0. at[j] \in Working => Images[j] # <<>>
    BY DEF IndexInv
  <2>1. CASE Submit(j)       BY <1>1, <2>1 DEF Submit
  <2>2. CASE Start(j)        BY <1>1, <2>2 DEF Start
  <2>3. CASE NoImages(j)     BY <1>1, <2>3 DEF NoImages
  <2>4. CASE ExtractFails(j) BY <1>1, <2>4 DEF ExtractFails
  <2>5. CASE PutImage(j)     BY <1>1, <2>0, <2>5 DEF PutImage
  <2>6. CASE PutPayload(j)   BY <1>1, <2>0, <2>6 DEF PutPayload
  <2>7. CASE ReadPayload(j)  BY <1>1, <2>0, <2>7 DEF ReadPayload
  <2>8. CASE Classify(j)
    <3>1. j \notin PcapJobs => LastImage(j)
      <4>1. ASSUME j \notin PcapJobs PROVE Len(Images[j]) = 1
        BY <4>1, IngestAssumption
      <4>2. index[j] \in 1..Len(Images[j])
        BY <2>8, ImageAt DEF Classify
      <4>3. Len(Images[j]) = 1 => index[j] = 1
        BY <4>2
      <4> QED  BY <4>1, <4>3 DEF LastImage
    <3>2. /\ at'[j] = AfterWorker(j) /\ at[j] = "load" /\ UNCHANGED index
          /\ \A k \in Job \ {j} : at'[k] = at[k] /\ found'[k] = found[k]
      BY <2>8 DEF Classify
    <3> QED  BY <2>0, <3>1, <3>2 DEF IndexInv, AfterWorker, LastImage
  <2>9. CASE Complete(j)     BY <1>1, <2>0, <2>9 DEF Complete, IndexInv
  <2>10. CASE Push(j)        BY <1>1, <2>0, <2>10 DEF Push
  <2>11. CASE WriteRow(j)    BY <1>1, <2>0, <2>11 DEF WriteRow
  <2>12. CASE WriteCache(j)
    <3>1. /\ \A k \in Job \ {j} : at'[k] = at[k] /\ index'[k] = index[k]
          /\ UNCHANGED found /\ at[j] = "cache"
          /\ index'[j] = NextImage(j)
          /\ at'[j] \in {"audit", "put", "complete"}
          /\ at'[j] = "complete" => LastImage(j)
      BY <2>12 DEF WriteCache
    <3>2. index'[j] = 1 \/ index'[j] <= MaxImages
      <4>1. index[j] \in Nat /\ MaxImages \in Nat /\ (index[j] = 1 \/ index[j] <= MaxImages)
        BY ImageAt, IngestAssumption DEF IndexInv
      <4> QED  BY <3>1, <4>1 DEF NextImage, LastImage
    <3>3. LastImage(j) => index'[j] = index[j]
      BY <3>1 DEF NextImage
    <3> QED  BY <2>0, <3>1, <3>2, <3>3 DEF IndexInv, LastImage
  <2>13. CASE WriteAudit(j)  BY <1>1, <2>13 DEF WriteAudit
  <2>14. CASE Fail(j)        BY <1>1, <2>14 DEF Fail
  <2>15. CASE Cleanup(j)
    <3>1. /\ \A k \in Job \ {j} : at'[k] = at[k] /\ index'[k] = index[k] /\ found'[k] = found[k]
          /\ at'[j] = "end" /\ index'[j] = 1
      BY <2>15 DEF Cleanup
    <3> QED  BY <3>1 DEF IndexInv, LastImage
  <2> QED  BY <1>2, <2>1, <2>2, <2>3, <2>4, <2>5, <2>6, <2>7, <2>8, <2>9, <2>10, <2>11,
              <2>12, <2>13, <2>14, <2>15 DEF Thread
<1>3. CASE Crash
  BY <1>3 DEF Crash, TypeOK, IndexInv, Working, LastImage
<1>4. CASE UNCHANGED vars
  BY <1>4 DEF vars, IndexInv, LastImage
<1> QED  BY <1>2, <1>3, <1>4 DEF Next

\* Every structure keeps its type in every step.
LEMMA TypeStep ==
    ASSUME TypeOK, IndexInv, [Next]_vars
    PROVE  TypeOK'
<1>1. ASSUME NEW j \in Job, Submit(j) \/ Thread(j) PROVE TypeOK'
  <2>0. /\ at[j] \in Working => ImageOf(j) \in Image /\ SuffixOf[ImageOf(j)] \in Suffix
        /\ Box(j) \in Container /\ j \in Container
        /\ NoFiles \in [Suffix -> Image \cup {"none"}]
    BY ImageAt, IngestAssumption DEF Box, Container, NoFiles
  <2> USE DEF TypeOK, Step, JobSet, Steps, Final, temp, container, stores
  <2>1. CASE Submit(j)       BY <2>1 DEF Submit
  <2>2. CASE Start(j)        BY <2>2 DEF Start
  <2>3. CASE NoImages(j)     BY <2>3 DEF NoImages
  <2>4. CASE ExtractFails(j) BY <2>4 DEF ExtractFails
  <2>5. CASE PutImage(j)     BY <2>0, <2>5 DEF PutImage, Working
  <2>6. CASE PutPayload(j)   BY <2>0, <2>6 DEF PutPayload, Working
  <2>7. CASE ReadPayload(j)  BY <2>0, <2>7 DEF ReadPayload
  <2>8. CASE Classify(j)
    <3>1. UNCHANGED <<status, index, uploads, dir, row, cache, events, audit>>
      BY <2>8 DEF Classify
    <3>2. at' \in [Job -> Steps]
      BY <2>8 DEF Classify, AfterWorker
    <3>3. label' \in [Job -> Label] /\ found' \in [Job -> SUBSET Label]
      BY <2>8 DEF Classify, LabelOf, Label
    <3>4. /\ file' \in [Container -> [Suffix -> Image \cup {"none"}]]
          /\ payload' \in [Container -> Suffix \cup {"none"}]
          /\ path' \in [Job -> Suffix \cup {"none"}]
      BY <2>0, <2>8 DEF Classify, Removed
    <3> QED  BY <3>1, <3>2, <3>3, <3>4
  <2>9. CASE Complete(j)     BY <2>9 DEF Complete
  <2>10. CASE Push(j)
    <3>1. events' \in Seq([job : Job, verdict : Label])
      BY <2>10, PushType
    <3> QED  BY <2>10, <3>1 DEF Push
  <2>11. CASE WriteRow(j)    BY <2>11 DEF WriteRow
  <2>12. CASE WriteCache(j)
    <3>1. index'[j] = 1 \/ index'[j] \in DOMAIN Images[j]
      <4>1. index[j] \in 1..Len(Images[j]) /\ Len(Images[j]) \in Nat /\ Images[j] \in Seq(Image)
        BY <2>12, ImageAt DEF WriteCache, Working
      <4>2. index'[j] = NextImage(j)
        BY <2>12, <4>1 DEF WriteCache, NextImage
      <4>3. NextImage(j) \in 1..Len(Images[j])
        BY <4>1 DEF NextImage, LastImage
      <4> QED  BY <4>1, <4>2, <4>3
    <3>2. index' = [index EXCEPT ![j] = NextImage(j)] /\ NextImage(j) \in Nat
      BY <2>12, ImageAt DEF WriteCache, NextImage
    <3>3. index' \in [Job -> Nat] /\ \A k \in Job : index'[k] = 1 \/ index'[k] \in DOMAIN Images[k]
      BY <3>1, <3>2
    <3>4. cache' \in [Image -> Label \cup {"none"}]
      BY <2>12 DEF WriteCache
    <3> QED  BY <2>12, <3>3, <3>4 DEF WriteCache
  <2>13. CASE WriteAudit(j)  BY <2>13 DEF WriteAudit
  <2>14. CASE Fail(j)        BY <2>0, <2>14 DEF Fail, Removed
  <2>15. CASE Cleanup(j)     BY <2>15 DEF Cleanup, Label
  <2> QED  BY <1>1, <2>1, <2>2, <2>3, <2>4, <2>5, <2>6, <2>7, <2>8, <2>9, <2>10, <2>11,
              <2>12, <2>13, <2>14, <2>15 DEF Thread
<1>2. CASE Crash
  BY <1>2 DEF Crash, TypeOK, Steps, Final, Label, NoFiles, temp, stores
<1>3. CASE UNCHANGED vars
  BY <1>3 DEF vars, TypeOK, temp, container, stores
<1> QED  BY <1>1, <1>2, <1>3 DEF Next

\* Type correctness of the job table, the threads and the stores.
THEOREM TypeCorrect == Spec => [](TypeOK /\ IndexInv)
<1>1. Init => TypeOK /\ IndexInv
  BY DEF Init, TypeOK, IndexInv, Steps, Final, Label, NoFiles, Working, Container
<1> QED  BY <1>1, IndexStep, TypeStep, PTL DEF Spec

-----------------------------------------------------------------------------
(* What a job leaves behind                                                *)

\* A directory is orphaned only on the way of a job that analysed nothing.
TempInv ==
    \A j \in Job :
        /\ at[j] = "end" => j \notin uploads /\ dir[j] # "held"
        /\ dir[j] = "orphan" => /\ at[j] \in {"error", "audit", "cleanup", "end", "killed"}
                                /\ status[j] # "completed"
                                /\ found[j] = {}

LEMMA TempStep ==
    ASSUME TypeOK, IndexInv, TempInv, [Next]_vars
    PROVE  TempInv'
<1>1. ASSUME NEW j \in Job, Submit(j) \/ Thread(j) PROVE TempInv'
  <2>0. at[j] \in {"start", "error"} => found[j] = {}
    BY DEF IndexInv
  <2> USE DEF TypeOK, TempInv, Step, JobSet, temp, container, stores
  <2>1. CASE Submit(j)       BY <2>1 DEF Submit
  <2>2. CASE Start(j)        BY <2>2 DEF Start
  <2>3. CASE NoImages(j)     BY <2>3 DEF NoImages
  <2>4. CASE ExtractFails(j) BY <2>0, <2>4 DEF ExtractFails
  <2>5. CASE PutImage(j)     BY <2>5 DEF PutImage
  <2>6. CASE PutPayload(j)   BY <2>6 DEF PutPayload
  <2>7. CASE ReadPayload(j)  BY <2>7 DEF ReadPayload
  <2>8. CASE Classify(j)     BY <2>8 DEF Classify, AfterWorker
  <2>9. CASE Complete(j)     BY <2>9 DEF Complete
  <2>10. CASE Push(j)        BY <2>10 DEF Push
  <2>11. CASE WriteRow(j)    BY <2>11 DEF WriteRow
  <2>12. CASE WriteCache(j)  BY <2>12 DEF WriteCache
  <2>13. CASE WriteAudit(j)  BY <2>13 DEF WriteAudit
  <2>14. CASE Fail(j)        BY <2>14 DEF Fail
  <2>15. CASE Cleanup(j)     BY <2>15 DEF Cleanup
  <2> QED  BY <1>1, <2>1, <2>2, <2>3, <2>4, <2>5, <2>6, <2>7, <2>8, <2>9, <2>10, <2>11,
              <2>12, <2>13, <2>14, <2>15 DEF Thread
<1>2. CASE Crash
  BY <1>2 DEF Crash, TypeOK, TempInv, temp
<1>3. CASE UNCHANGED vars
  BY <1>3 DEF vars, TempInv, temp
<1> QED  BY <1>1, <1>2, <1>3 DEF Next

\* A thread that ran to its end has removed what it had a name for, and a job
\* that analysed something leaves no directory behind.
THEOREM UploadsCorrect == Spec => []UploadsAreRemoved
<1>1. Init => TempInv
  BY DEF Init, TempInv
<1>2. TempInv => UploadsAreRemoved
  BY DEF TempInv, UploadsAreRemoved
<1> QED  BY <1>1, <1>2, TempStep, TypeCorrect, PTL DEF Spec

-----------------------------------------------------------------------------
(* Whose verdict it is                                                     *)

\* With a container of its own, a job finds in it what it put there, and the
\* label it carries is that of the image it is at.
FileInv ==
    \A j \in Job :
        /\ at[j] \in {"payload", "exec", "load"} => file[j][SuffixOf[ImageOf(j)]] = ImageOf(j)
        /\ at[j] \in {"exec", "load"} => payload[j] = SuffixOf[ImageOf(j)]
        /\ at[j] = "load" => path[j] = SuffixOf[ImageOf(j)]
        /\ at[j] \in {"row", "cache", "complete", "push"} => label[j] = LabelOf(ImageOf(j))

LEMMA FileStep ==
    ASSUME Ephemeral, TypeOK, IndexInv, FileInv, [Next]_vars
    PROVE  FileInv'
<1>0. Job \subseteq Container
  BY DEF Container
<1>1. ASSUME NEW j \in Job, NEW k \in Job, k # j, Submit(j) \/ Thread(j)
      PROVE  /\ at'[k] = at[k] /\ index'[k] = index[k] /\ label'[k] = label[k]
             /\ path'[k] = path[k] /\ file'[k] = file[k] /\ payload'[k] = payload[k]
  BY <1>0, <1>1 DEF Thread, Submit, Start, NoImages, ExtractFails, PutImage, PutPayload, ReadPayload,
     Classify, Complete, Push, WriteRow, WriteCache, WriteAudit, Fail, Cleanup, Removed, Step,
     TypeOK, Box, container
<1> DEFINE Own(j) ==
        /\ at'[j] \in {"payload", "exec", "load"} => file'[j][SuffixOf[ImageOf(j)']] = ImageOf(j)'
        /\ at'[j] \in {"exec", "load"} => payload'[j] = SuffixOf[ImageOf(j)']
        /\ at'[j] = "load" => path'[j] = SuffixOf[ImageOf(j)']
        /\ at'[j] \in {"row", "cache", "complete", "push"} => label'[j] = LabelOf(ImageOf(j)')
<1>2. ASSUME NEW j \in Job, Submit(j) \/ Thread(j) PROVE Own(j)
  <2>0. /\ j \in Container /\ Box(j) = j
        /\ at[j] \in Working => ImageOf(j) \in Image /\ SuffixOf[ImageOf(j)] \in Suffix
    BY <1>0, ImageAt, IngestAssumption DEF Box
  <2> USE DEF TypeOK, FileInv, Step, temp, container, stores, ImageOf
  <2>1. CASE Submit(j)       BY <2>1 DEF Submit
  <2>2. CASE Start(j)        BY <2>2 DEF Start
  <2>3. CASE NoImages(j)     BY <2>3 DEF NoImages
  <2>4. CASE ExtractFails(j) BY <2>4 DEF ExtractFails
  <2>5. CASE PutImage(j)
    <3>1. /\ file' = [file EXCEPT ![j] = [file[j] EXCEPT ![SuffixOf[ImageOf(j)]] = ImageOf(j)]]
          /\ UNCHANGED index /\ at'[j] = "payload" /\ at[j] = "put"
      BY <2>0, <2>5 DEF PutImage
    <3>2. SuffixOf[ImageOf(j)] \in Suffix
      BY <2>0, <3>1 DEF Working
    <3>3. file'[j][SuffixOf[ImageOf(j)]] = ImageOf(j)
      BY <2>0, <3>1, <3>2
    <3> QED  BY <3>1, <3>3
  <2>6. CASE PutPayload(j)   BY <2>0, <2>6 DEF PutPayload
  <2>7. CASE ReadPayload(j)  BY <2>0, <2>7 DEF ReadPayload
  <2>8. CASE Classify(j)
    <3>1. at[j] = "load" /\ at'[j] \in {"row", "complete"} /\ UNCHANGED index
      BY <2>8 DEF Classify, AfterWorker
    <3>2. label'[j] = LabelOf(file[j][path[j]])
      BY <2>0, <2>8 DEF Classify
    <3> QED  BY <3>1, <3>2
  <2>9. CASE Complete(j)     BY <2>9 DEF Complete
  <2>10. CASE Push(j)        BY <2>10 DEF Push
  <2>11. CASE WriteRow(j)    BY <2>11 DEF WriteRow
  <2>12. CASE WriteCache(j)
    <3>1. /\ at[j] = "cache" /\ UNCHANGED label /\ index'[j] = NextImage(j)
          /\ at'[j] \in {"audit", "put", "complete"}
          /\ at'[j] = "complete" => LastImage(j)
      BY <2>12 DEF WriteCache
    <3>2. LastImage(j) => index'[j] = index[j]
      BY <3>1 DEF NextImage
    <3> QED  BY <3>1, <3>2
  <2>13. CASE WriteAudit(j)  BY <2>13 DEF WriteAudit
  <2>14. CASE Fail(j)        BY <2>14 DEF Fail
  <2>15. CASE Cleanup(j)     BY <2>15 DEF Cleanup
  <2> QED  BY <1>2, <2>1, <2>2, <2>3, <2>4, <2>5, <2>6, <2>7, <2>8, <2>9, <2>10, <2>11,
              <2>12, <2>13, <2>14, <2>15 DEF Thread
<1>3. ASSUME NEW j \in Job, Submit(j) \/ Thread(j) PROVE FileInv'
  <2>1. Own(j)
    BY <1>2, <1>3
  <2>2. ASSUME NEW k \in Job, k # j PROVE Own(k)
    BY <1>1, <1>3, <2>2 DEF FileInv, ImageOf
  <2> QED  BY <2>1, <2>2 DEF FileInv, LabelOf
<1>4. CASE Crash
  <2>1. \A k \in Job : at'[k] \in {"none", "end", "killed"}
    BY <1>4 DEF Crash
  <2> QED  BY <2>1 DEF FileInv
<1>5. CASE UNCHANGED vars
  BY <1>5 DEF vars, container, FileInv, ImageOf, LabelOf
<1> QED  BY <1>3, <1>4, <1>5 DEF Next

\* The verdict recorded for a digest is the worker's label of its image, when
\* each analysis has a container of its own.
THEOREM CachesCorrect == ASSUME Ephemeral PROVE Spec => []CachesAreTrue
<1>1. Init => FileInv /\ CachesAreTrue
  BY DEF Init, FileInv, CachesAreTrue
<1>2. ASSUME TypeOK, IndexInv, FileInv, CachesAreTrue, [Next]_vars PROVE CachesAreTrue'
  <2>1. ASSUME NEW j \in Job, WriteRow(j) \/ WriteCache(j)
        PROVE  CachesAreTrue'
    <3>1. label[j] = LabelOf(ImageOf(j))
      BY <1>2, <2>1 DEF FileInv, WriteRow, WriteCache, Step
    <3>2. /\ row' = [row EXCEPT ![ImageOf(j)] = label[j]] \/ row' = row
          /\ cache' = [cache EXCEPT ![ImageOf(j)] = label[j]] \/ cache' = cache
      BY <2>1 DEF WriteRow, WriteCache, stores
    <3>3. \A i \in Image : /\ row'[i] \in {row[i], LabelOf(i)}
                           /\ cache'[i] \in {cache[i], LabelOf(i)}
      BY <1>2, <3>1, <3>2 DEF TypeOK
    <3> QED  BY <1>2, <3>3 DEF CachesAreTrue, LabelOf
  <2>2. ASSUME UNCHANGED stores PROVE CachesAreTrue'
    BY <1>2, <2>2 DEF CachesAreTrue, LabelOf, stores
  <2>3. ASSUME NEW j \in Job, Submit(j) \/ Thread(j)
        PROVE  WriteRow(j) \/ WriteCache(j) \/ UNCHANGED stores
    BY <2>3 DEF Thread, Submit, Start, NoImages, ExtractFails, PutImage, PutPayload, ReadPayload,
       Classify, Complete, Push, WriteAudit, Fail, Cleanup
  <2> QED  BY <1>2, <2>1, <2>2, <2>3 DEF Next, Crash, vars
<1>3. TypeOK /\ IndexInv /\ FileInv /\ [Next]_vars => FileInv'
  BY FileStep
<1> QED  BY <1>1, <1>2, <1>3, TypeCorrect, PTL DEF Spec

-----------------------------------------------------------------------------
(* What an event says                                                      *)

LabelsUpTo(j, n) == {LabelOf(Images[j][k]) : k \in 1..n}

\* The labels found so far are those of the images before the one the thread
\* is at, and of that one once it was analysed.
FoundInv ==
    \A j \in Job :
        /\ at[j] \in {"put", "payload", "exec", "load"} => found[j] = LabelsUpTo(j, index[j] - 1)
        /\ at[j] \in {"row", "cache", "complete", "push"} => found[j] = LabelsUpTo(j, index[j])
        /\ at[j] = "push" => status[j] = "completed"

LEMMA LabelsNone == \A j : LabelsUpTo(j, 0) = {}
  BY DEF LabelsUpTo

LEMMA LabelsNext ==
    ASSUME NEW j, NEW n \in Nat \ {0}
    PROVE  LabelsUpTo(j, n) = LabelsUpTo(j, n - 1) \cup {LabelOf(Images[j][n])}
<1>1. 1..n = (1..n - 1) \cup {n}
  OBVIOUS
<1> QED  BY <1>1 DEF LabelsUpTo

LEMMA FoundStep ==
    ASSUME Ephemeral, TypeOK, IndexInv, FileInv, FoundInv, [Next]_vars
    PROVE  FoundInv'
<1>1. ASSUME NEW j \in Job, NEW k \in Job, k # j, Submit(j) \/ Thread(j)
      PROVE  at'[k] = at[k] /\ index'[k] = index[k] /\ found'[k] = found[k] /\ status'[k] = status[k]
  BY <1>1 DEF Thread, Submit, Start, NoImages, ExtractFails, PutImage, PutPayload, ReadPayload,
     Classify, Complete, Push, WriteRow, WriteCache, WriteAudit, Fail, Cleanup, Step, JobSet, TypeOK
<1> DEFINE Own(j) ==
        /\ at'[j] \in {"put", "payload", "exec", "load"}
              => found'[j] = LabelsUpTo(j, index'[j] - 1)
        /\ at'[j] \in {"row", "cache", "complete", "push"}
              => found'[j] = LabelsUpTo(j, index'[j])
        /\ at'[j] = "push" => status'[j] = "completed"
<1>2. ASSUME NEW j \in Job, Submit(j) \/ Thread(j) PROVE Own(j)
  <2>0. at[j] = "start" => index[j] = 1 /\ found[j] = {}
    BY DEF IndexInv
  <2> USE DEF TypeOK, FoundInv, Step, JobSet
  <2>1. CASE Submit(j)       BY <2>1 DEF Submit
  <2>2. CASE Start(j)
    <3>1. /\ at'[j] = "put" /\ index'[j] - 1 = 0 /\ found'[j] = {}
      BY <2>0, <2>2 DEF Start
    <3> QED  BY <3>1, LabelsNone
  <2>3. CASE NoImages(j)     BY <2>3 DEF NoImages
  <2>4. CASE ExtractFails(j) BY <2>4 DEF ExtractFails
  <2>5. CASE PutImage(j)     BY <2>5 DEF PutImage
  <2>6. CASE PutPayload(j)   BY <2>6 DEF PutPayload
  <2>7. CASE ReadPayload(j)  BY <2>7 DEF ReadPayload
  <2>8. CASE Classify(j)
    <3>1. /\ at[j] = "load" /\ at'[j] \in {"row", "complete"} /\ UNCHANGED index
          /\ found'[j] = found[j] \cup {label'[j]}
      BY <2>8 DEF Classify, AfterWorker
    <3>2. FileInv'
      BY FileStep
    <3>3. label'[j] = LabelOf(Images[j][index[j]])
      BY <3>1, <3>2 DEF FileInv, ImageOf, LabelOf
    <3>4. index[j] \in Nat \ {0}
      BY ImageAt
    <3> QED  BY <3>1, <3>3, <3>4, LabelsNext
  <2>9. CASE Complete(j)     BY <2>9 DEF Complete
  <2>10. CASE Push(j)        BY <2>10 DEF Push
  <2>11. CASE WriteRow(j)    BY <2>11 DEF WriteRow
  <2>12. CASE WriteCache(j)
    <3>1. /\ at[j] = "cache" /\ UNCHANGED found /\ index'[j] = NextImage(j)
          /\ at'[j] \in {"audit", "put", "complete"}
          /\ at'[j] = "complete" => LastImage(j)
          /\ at'[j] = "put" => ~LastImage(j)
      BY <2>12 DEF WriteCache
    <3>2. at'[j] = "complete" => index'[j] = index[j]
      BY <3>1 DEF NextImage
    <3>3. at'[j] = "put" => index'[j] - 1 = index[j]
      BY <3>1, ImageAt DEF NextImage
    <3> QED  BY <3>1, <3>2, <3>3
  <2>13. CASE WriteAudit(j)  BY <2>13 DEF WriteAudit
  <2>14. CASE Fail(j)        BY <2>14 DEF Fail
  <2>15. CASE Cleanup(j)     BY <2>15 DEF Cleanup
  <2> QED  BY <1>2, <2>1, <2>2, <2>3, <2>4, <2>5, <2>6, <2>7, <2>8, <2>9, <2>10, <2>11,
              <2>12, <2>13, <2>14, <2>15 DEF Thread
<1>3. ASSUME NEW j \in Job, Submit(j) \/ Thread(j) PROVE FoundInv'
  <2>1. Own(j)
    BY <1>2, <1>3
  <2>2. ASSUME NEW k \in Job, k # j PROVE Own(k)
    BY <1>1, <1>3, <2>2 DEF FoundInv
  <2> QED  BY <2>1, <2>2 DEF FoundInv, LabelsUpTo, LabelOf
<1>4. CASE Crash
  <2>1. \A k \in Job : at'[k] \in {"none", "end", "killed"}
    BY <1>4 DEF Crash
  <2> QED  BY <2>1 DEF FoundInv
<1>5. CASE UNCHANGED vars
  BY <1>5 DEF vars, FoundInv, LabelsUpTo, LabelOf
<1> QED  BY <1>3, <1>4, <1>5 DEF Next

\* The images of a job that its analysis reaches.
Analysed(j) == {Images[j][k] : k \in {k \in DOMAIN Images[j] : k = 1 \/ k <= MaxImages}}
Says(e) == events[e].verdict = "STEGO" <=> Analysed(events[e].job) \cap IsStego # {}

\* A thread that pushed its event is past every failure that fails the job.
PushedInv ==
    \A e \in DOMAIN events :
        LET j == events[e].job
        IN  /\ j \in Job
            /\ \/ at[j] \in {"audit", "cleanup", "end", "killed"}
               \/ j \notin PcapJobs /\ at[j] \in {"row", "cache"}
            /\ status[j] # "failed"
            /\ \A d \in DOMAIN events : events[d].job = j => d = e
            /\ Says(e)

\* The verdict that is pushed is that of the images.
LEMMA OverallTrue ==
    ASSUME TypeOK, IndexInv, FoundInv, NEW j \in Job, at[j] = "push"
    PROVE  Overall(j) = "STEGO" <=> Analysed(j) \cap IsStego # {}
<1>1. found[j] = LabelsUpTo(j, index[j]) /\ LastImage(j)
  BY DEF FoundInv, IndexInv
<1>2. index[j] \in 1..Len(Images[j]) /\ Len(Images[j]) \in Nat /\ DOMAIN Images[j] = 1..Len(Images[j])
  BY ImageAt DEF Working
<1>3. index[j] = 1 \/ index[j] <= MaxImages
  BY DEF IndexInv
<1>4. {k \in DOMAIN Images[j] : k = 1 \/ k <= MaxImages} = 1..index[j]
  BY <1>1, <1>2, <1>3, IngestAssumption DEF LastImage
<1>5. "STEGO" \in found[j] <=> \E k \in 1..index[j] : Images[j][k] \in IsStego
  BY <1>1 DEF LabelsUpTo, LabelOf
<1>6. Analysed(j) \cap IsStego # {} <=> \E k \in 1..index[j] : Images[j][k] \in IsStego
  BY <1>4 DEF Analysed
<1> QED  BY <1>5, <1>6 DEF Overall

LEMMA PushedStep ==
    ASSUME TypeOK, IndexInv, FoundInv, PushedInv, [Next]_vars
    PROVE  PushedInv'
<1>1. ASSUME UNCHANGED events,
             \A e \in DOMAIN events : LET j == events[e].job IN
                /\ \/ at'[j] \in {"audit", "cleanup", "end", "killed"}
                   \/ j \notin PcapJobs /\ at'[j] \in {"row", "cache"}
                /\ status'[j] # "failed"
      PROVE  PushedInv'
  BY <1>1 DEF PushedInv, Says, Analysed
<1>2. ASSUME NEW j \in Job, Submit(j) \/ Thread(j), ~Push(j) PROVE PushedInv'
  <2>1. UNCHANGED events
    BY <1>2 DEF Thread, Submit, Start, NoImages, ExtractFails, PutImage, PutPayload, ReadPayload,
       Classify, Complete, WriteRow, WriteCache, WriteAudit, Fail, Cleanup
  <2>2. \A k \in Job \ {j} : at'[k] = at[k] /\ status'[k] = status[k]
    BY <1>2 DEF Thread, Submit, Start, NoImages, ExtractFails, PutImage, PutPayload, ReadPayload,
       Classify, Complete, WriteRow, WriteCache, WriteAudit, Fail, Cleanup, Step, JobSet, TypeOK
  <2>3. ASSUME \/ at[j] \in {"audit", "cleanup", "end", "killed"}
               \/ j \notin PcapJobs /\ at[j] \in {"row", "cache"}
        PROVE  /\ \/ at'[j] \in {"audit", "cleanup", "end", "killed"}
                  \/ j \notin PcapJobs /\ at'[j] \in {"row", "cache"}
               /\ status'[j] = status[j]
    BY <1>2, <2>3 DEF Thread, Submit, Start, NoImages, ExtractFails, PutImage, PutPayload, ReadPayload,
       Classify, Complete, WriteRow, WriteCache, WriteAudit, Fail, Failing, Cleanup, Step, JobSet, TypeOK
  <2> QED  BY <1>1, <2>1, <2>2, <2>3 DEF PushedInv
<1>3. ASSUME NEW j \in Job, Push(j) PROVE PushedInv'
  <2>1. /\ at[j] = "push" /\ at'[j] = (IF j \in PcapJobs THEN "audit" ELSE "row")
        /\ \A k \in Job \ {j} : at'[k] = at[k]
        /\ UNCHANGED status
    BY <1>3 DEF Push, Step, TypeOK
  <2>2. \A e \in DOMAIN events : events[e].job # j
    BY <2>1 DEF PushedInv
  <2>3. CASE UNCHANGED events
    BY <1>1, <2>1, <2>2, <2>3 DEF PushedInv
  <2>4. CASE events' = Append(events, [job |-> j, verdict |-> Overall(j)])
    <3> DEFINE new == [job |-> j, verdict |-> Overall(j)]
               n == Len(events)
    <3>1. /\ n \in Nat /\ DOMAIN events = 1..n /\ DOMAIN events' = 1..n + 1
          /\ \A e \in 1..n : events'[e] = events[e]
          /\ events'[n + 1] = new
      <4>1. events \in Seq([job : Job, verdict : Label])
        BY DEF TypeOK
      <4> QED  BY <2>4, <4>1
    <3>2. new.job = j /\ (new.verdict = "STEGO" <=> Analysed(j) \cap IsStego # {})
      BY <2>1, OverallTrue
    <3>3. status[j] # "failed"
      BY <2>1 DEF FoundInv
    <3> HIDE DEF new, n
    <3>4. ASSUME NEW e \in DOMAIN events'
          PROVE  /\ events'[e].job \in Job
                 /\ \/ at'[events'[e].job] \in {"audit", "cleanup", "end", "killed"}
                    \/ events'[e].job \notin PcapJobs /\ at'[events'[e].job] \in {"row", "cache"}
                 /\ status'[events'[e].job] # "failed"
                 /\ \A d \in DOMAIN events' : events'[d].job = events'[e].job => d = e
                 /\ events'[e].verdict = "STEGO" <=> Analysed(events'[e].job) \cap IsStego # {}
      <4>1. \A d \in DOMAIN events' : d \in 1..n \/ d = n + 1
        BY <3>1
      <4>2. CASE e = n + 1
        <5>1. \A d \in DOMAIN events' : events'[d].job = j => d = n + 1
          BY <2>2, <3>1, <4>1
        <5> QED  BY <2>1, <3>1, <3>2, <3>3, <4>2, <5>1
      <4>3. CASE e \in 1..n
        <5>1. /\ events'[e] = events[e] /\ e \in DOMAIN events /\ events[e].job # j
              /\ events[e].job \in Job
          BY <2>2, <3>1, <4>3 DEF PushedInv
        <5>2. \A d \in DOMAIN events' : events'[d].job = events[e].job => d = e
          BY <3>1, <3>2, <4>1, <5>1 DEF PushedInv
        <5>3. events[e].verdict = "STEGO" <=> Analysed(events[e].job) \cap IsStego # {}
          BY <5>1 DEF PushedInv, Says
        <5>4. /\ at'[events[e].job] = at[events[e].job]
              /\ status'[events[e].job] = status[events[e].job]
          BY <2>1, <5>1
        <5> QED  BY <5>1, <5>2, <5>3, <5>4 DEF PushedInv
      <4> QED  BY <3>1, <4>1, <4>2, <4>3
    <3> QED  BY <3>4 DEF PushedInv, Says, Analysed
  <2> QED  BY <1>3, <2>3, <2>4 DEF Push
<1>4. CASE Crash
  BY <1>1, <1>4 DEF Crash, PushedInv
<1>5. CASE UNCHANGED vars
  BY <1>1, <1>5 DEF vars, PushedInv
<1> QED  BY <1>2, <1>3, <1>4, <1>5 DEF Next

\* With a container per analysis, a job pushes one event at most, none if it
\* fails, and STEGO exactly if one of the images it analyses is.
THEOREM EventsCorrect == ASSUME Ephemeral PROVE Spec => []EventsAreTrue
<1>1. Init => FileInv /\ FoundInv /\ PushedInv
  BY DEF Init, FileInv, FoundInv, PushedInv
<1>2. PushedInv => EventsAreTrue
  BY DEF PushedInv, Says, Analysed, EventsAreTrue
<1>3. TypeOK /\ IndexInv /\ FileInv /\ FoundInv /\ PushedInv /\ [Next]_vars
        => FileInv' /\ FoundInv' /\ PushedInv'
  BY FileStep, FoundStep, PushedStep
<1> QED  BY <1>1, <1>2, <1>3, TypeCorrect, PTL DEF Spec
=============================================================================
