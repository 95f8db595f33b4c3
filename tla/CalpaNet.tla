------------------------------- MODULE CalpaNet -------------------------------
(***************************************************************************)
(* The scripts of CALPA-NET together.  They are run by hand, one at a      *)
(* time: training and tests, detection on a trained model, and training of *)
(* the network that is pruned as detection found.                          *)
(***************************************************************************)
EXTENDS Training, Detect

vars == <<trainingVars, detectVars>>

Init == TrainingInit /\ DetectInit

\* Bound: what runs after a detection is another detection.  (A training
\* of the pruned network is a training as before, in a directory of its own.)
Train == detections = 0 /\ TrainingNext /\ UNCHANGED detectVars

\* LOAD_CKPT names a checkpoint.  Bound: the last one.
Start ==
    /\ stage = "off"
    /\ StartDetection
    /\ MaxIter \in Checkpoints(SlotNet(slot'))
    /\ UNCHANGED trainingVars

Detection == DetectStep /\ UNCHANGED trainingVars

Dies ==
    /\ DetectDies
    /\ crashes < MaxCrashes
    /\ crashes' = crashes + 1
    /\ UNCHANGED <<process, queues, sums, averages, saved, leaked>>

Next == Train \/ Start \/ Detection \/ Dies

Spec == Init /\ [][Next]_vars
=============================================================================
