-------------------------------- MODULE Detect --------------------------------
(***************************************************************************)
(* The detection scripts of CALPA-NET (libs/psm/detect_srnet.py and        *)
(* detect_xunet.py): how far can each slot, one group of channels of the   *)
(* network, be pruned alone?  A script measures the accuracy at rising     *)
(* pruning rates and records rate and accuracy in one configuration file   *)
(* per threshold, from which the pruned network is built.                  *)
(*                                                                         *)
(* A rate is a number of Parts, twentieths in the code; an accuracy is a   *)
(* natural number; which channels go is left out, only how many stay.      *)
(***************************************************************************)
EXTENDS Integers, Sequences, FiniteSetsExt, SequencesExt

CONSTANTS
    Slot,           \* layers, for ThiNet and for L1
    Method,         \* per slot: "thinet", "li", "xunet_thinet" or "xunet_li"
    Channels,       \* per slot: channels of the unpruned network
    File,           \* configuration files
    SetupFiles,     \* per network: the files its setup creates, in order
    FilesOf,        \* per slot: the files that record it, in order
    Threshold,      \* per file
    Parts,          \* 20
    RoundsUp,       \* step counts whose product with step is rounded up
    Reference,      \* test_acc
    Accuracy,       \* bound: accuracies that are measured
    MaxDetections   \* bound: detection scripts that run

SlotNet(s) == IF Method[s] \in {"thinet", "li"} THEN "srnet" ELSE "xunet"

ASSUME DetectAssumption ==
    /\ Method \in [Slot -> {"thinet", "li", "xunet_thinet", "xunet_li"}]
    /\ Channels \in [Slot -> Nat \ {0, 1}] /\ Threshold \in [File -> Nat]
    /\ FilesOf \in [Slot -> Seq(File)] /\ SetupFiles \in [{"srnet", "xunet"} -> Seq(File)]
    /\ \A s \in Slot : ToSet(FilesOf[s]) \subseteq ToSet(SetupFiles[SlotNet(s)])
    /\ Parts \in Nat \ {0, 1} /\ RoundsUp \subseteq 1..Parts
    /\ Reference \in Nat /\ Accuracy \subseteq Nat \ {0} /\ MaxDetections \in Nat

VARIABLES
    phase,      \* where the script stands, "off" when none runs
    slot,       \* what it detects
    at,         \* the measurement it makes
    nth,        \* the file it has in hand
    text,       \* per file: "absent", "torn", or "whole"
    cfg,        \* per file: rate and acc per slot
    measured,   \* per slot: its accuracies, one per measurement, once known
    complete,   \* history: slots whose last script went through
    detections  \* scripts that have run

detectVars == <<phase, slot, at, nth, text, cfg, measured, complete, detections>>

Unpruned == [rate |-> 0, acc |-> 0]
Zeros == [s \in Slot |-> Unpruned]

DetectInit ==
    /\ phase = "off" /\ slot = "none" /\ at = 0 /\ nth = 0
    /\ text = [f \in File |-> "absent"] /\ cfg = [f \in File |-> Zeros]
    /\ measured = [s \in Slot |-> <<>>]
    /\ complete = {} /\ detections = 0

-----------------------------------------------------------------------------
(* What is measured                                                        *)

\* length: how many channels stay at a ratio.
Length(ratio, s) == ((Parts - ratio) * Channels[s]) \div Parts

Rising(s) == [r \in 1..Parts - 1 |-> [rate |-> r, channels |-> Length(r, s)]]

\* Ratios that leave less than so many channels are passed over.  Channels fall
\* as ratios rise, so those are the last.
Passing(all, least) ==
    SubSeq(all, 1, Cardinality({n \in DOMAIN all : all[n].channels >= least}))

\* SRNet, by either method: a ratio has to leave a channel.
ThinetMeasurements(s) == Passing(Rising(s), 1)
LiMeasurements(s) == Passing(Rising(s), 1)

\* XuNet by L1: it has not.
XuNetLiMeasurements(s) == Rising(s)

\* XuNet by ThiNet: channels are removed one by one, with at most one measurement
\* after each: the next is due when step * step_count channels are gone.
GoneWhenDue(n, s) ==
    (n * Channels[s] + Parts - 1) \div Parts
        + IF n \in RoundsUp /\ (n * Channels[s]) % Parts = 0 THEN 1 ELSE 0

Removed(s) ==
    LET gone[n \in 0..Parts] == IF n = 0 THEN 0 ELSE Max({gone[n - 1] + 1, GoneWhenDue(n, s)})
    IN  gone

XuNetThinetMeasurements(s) ==
    LET all == [n \in 1..Parts |-> [rate |-> n, channels |-> Channels[s] - Removed(s)[n]]]
    IN  Passing(all, 0)

Measurements(s) ==
    CASE Method[s] = "thinet" -> ThinetMeasurements(s)
      [] Method[s] = "li" -> LiMeasurements(s)
      [] Method[s] = "xunet_thinet" -> XuNetThinetMeasurements(s)
      [] Method[s] = "xunet_li" -> XuNetLiMeasurements(s)

-----------------------------------------------------------------------------
(* The script                                                              *)

\* A script starts.  What a slot's measurements give is found out the first
\* time: the images, the weights and the choice of channels are the same again.
StartDetection ==
    /\ phase = "off"
    /\ detections < MaxDetections
    /\ detections' = detections + 1
    /\ \E s \in Slot :
        /\ slot' = s
        /\ complete' = complete \ {s}
        /\ IF measured[s] # <<>> THEN UNCHANGED measured
           ELSE \E m \in [DOMAIN Measurements(s) -> Accuracy] :
                    measured' = [measured EXCEPT ![s] = m]
    /\ phase' = "setup" /\ at' = 1 /\ nth' = 1
    /\ UNCHANGED <<text, cfg>>

\* The setup module creates the files that do not exist; open() empties a file
\* until the text is written.
Setup ==
    /\ phase = "setup"
    /\ LET files == SetupFiles[SlotNet(slot)]
       IN  IF nth > Len(files)
           THEN phase' = "measure" /\ UNCHANGED <<nth, text>>
           ELSE IF text[files[nth]] = "absent"
           THEN /\ phase' = "initial"
                /\ text' = [text EXCEPT ![files[nth]] = "torn"]
                /\ UNCHANGED nth
           ELSE nth' = nth + 1 /\ UNCHANGED <<phase, text>>
    /\ UNCHANGED <<slot, at, cfg, measured, complete, detections>>

InitialConfig ==
    /\ phase = "initial"
    /\ LET f == SetupFiles[SlotNet(slot)][nth]
       IN  text' = [text EXCEPT ![f] = "whole"] /\ cfg' = [cfg EXCEPT ![f] = Zeros]
    /\ phase' = "setup" /\ nth' = nth + 1
    /\ UNCHANGED <<slot, at, measured, complete, detections>>

\* The process is over.
Ended ==
    /\ phase' = "off" /\ slot' = "none" /\ at' = 0 /\ nth' = 0
    /\ UNCHANGED <<text, cfg, measured, detections>>

\* The network without the channels is evaluated.
Measure ==
    /\ phase = "measure" /\ at <= Len(Measurements(slot))
    /\ phase' = "compare" /\ nth' = 1
    /\ UNCHANGED <<slot, at, text, cfg, measured, complete, detections>>

\* TensorFlow may refuse a layer without channels.
MeasureFails ==
    /\ phase = "measure" /\ at <= Len(Measurements(slot))
    /\ Measurements(slot)[at].channels = 0
    /\ Ended /\ UNCHANGED complete

Completes ==
    /\ phase = "measure" /\ at > Len(Measurements(slot))
    /\ Ended /\ complete' = complete \cup {slot}

Within(f, acc) == Reference - acc <= Threshold[f] /\ acc - Reference <= Threshold[f]

\* Is the measurement recorded?  Mutant: not when it is only as good as the
\* one recorded before.
RecordsBetter(f, acc) == cfg[f][slot].acc < acc \/ Within(f, acc)
Records(f, acc) == cfg[f][slot].acc <= acc \/ Within(f, acc)

\* write_2_config_file goes through the files; one that is torn has no sections,
\* and the exception ends the script.
Compare ==
    /\ phase = "compare" /\ nth <= Len(FilesOf[slot])
    /\ LET f == FilesOf[slot][nth]
       IN  /\ text[f] = "whole"
           /\ IF Records(f, measured[slot][at])
              THEN phase' = "write" /\ text' = [text EXCEPT ![f] = "torn"] /\ UNCHANGED nth
              ELSE nth' = nth + 1 /\ UNCHANGED <<phase, text>>
    /\ UNCHANGED <<slot, at, cfg, measured, complete, detections>>

CompareFails ==
    /\ phase = "compare" /\ nth <= Len(FilesOf[slot])
    /\ text[FilesOf[slot][nth]] = "torn"
    /\ Ended /\ UNCHANGED complete

WriteConfig ==
    /\ phase = "write"
    /\ LET f == FilesOf[slot][nth]
           new == [rate |-> Measurements(slot)[at].rate, acc |-> measured[slot][at]]
       IN  /\ text' = [text EXCEPT ![f] = "whole"]
           /\ cfg' = [cfg EXCEPT ![f][slot] = new]
    /\ phase' = "compare" /\ nth' = nth + 1
    /\ UNCHANGED <<slot, at, measured, complete, detections>>

NextRatio ==
    /\ phase = "compare" /\ nth > Len(FilesOf[slot])
    /\ phase' = "measure" /\ at' = at + 1
    /\ UNCHANGED <<slot, nth, text, cfg, measured, complete, detections>>

DetectDies == phase # "off" /\ Ended /\ UNCHANGED complete

DetectStep ==
    \/ Setup \/ InitialConfig \/ Measure \/ MeasureFails \/ Completes
    \/ Compare \/ CompareFails \/ WriteConfig \/ NextRatio

-----------------------------------------------------------------------------
(* The pruned network                                                      *)

\* fill_pruned_rate and _build_model: the channels of a slot.
Width(rate, s) == (Channels[s] * (Parts - rate)) \div Parts
SRNetPruned(f, s) == Width(cfg[f][s].rate, s)
XuNetPruned(f, s) == Width(cfg[f][s].rate, s)
PrunedWidth(f, s) == IF SlotNet(s) = "srnet" THEN SRNetPruned(f, s) ELSE XuNetPruned(f, s)

-----------------------------------------------------------------------------
(* Properties                                                              *)

DetectTypeOK ==
    /\ phase \in {"off", "setup", "initial", "measure", "compare", "write"}
    /\ slot \in Slot \cup {"none"} /\ at \in 0..Parts + 1 /\ nth \in Nat
    /\ text \in [File -> {"absent", "torn", "whole"}]
    /\ cfg \in [File -> [Slot -> [rate : 0..Parts, acc : Accuracy \cup {0}]]]
    /\ measured \in [Slot -> Seq(Accuracy)]
    /\ complete \subseteq Slot /\ detections \in 0..MaxDetections

\* When a script has gone through a slot, in a first or a repeated run, after
\* crashes of others or of its own, every file records the largest rate that is
\* within its threshold or else the most accurate: no larger rate
\* would do, what is recorded was measured at that rate, and the network that is
\* built from it is no narrower than the one measured.
RatesAreTheLargest ==
    /\ DetectTypeOK
    /\ \A s \in complete : \A f \in ToSet(FilesOf[s]) : text[f] = "whole" =>
        LET all == DOMAIN Measurements(s)
            Good(i) == Within(f, measured[s][i])
        IN  \E i \in all :
            /\ cfg[f][s] = [rate |-> Measurements(s)[i].rate, acc |-> measured[s][i]]
            /\ \A j \in all : j > i => ~Good(j) /\ measured[s][j] < measured[s][i]
            /\ (\E j \in all : Good(j)) => measured[s][i] + Threshold[f] >= Reference
            /\ (\A j \in all : ~Good(j)) => \A j \in all : measured[s][j] <= measured[s][i]
            /\ PrunedWidth(f, s) >= Measurements(s)[i].channels
=============================================================================
