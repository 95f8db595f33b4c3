------------------------------- MODULE Training -------------------------------
(***************************************************************************)
(* The training and test scripts of CALPA-NET (libs/psm and libs/srnet):   *)
(* one process trains and evaluates a network by turns, on images that     *)
(* generator threads put into FIFO queues, and saves checkpoints from      *)
(* which a later process may start.                                        *)
(*                                                                         *)
(* The images of an evaluation set are numbers; those of the training set  *)
(* come in random order for ever and are not told apart.  A step of        *)
(* training is a number, too: the weights are how many steps made them.    *)
(***************************************************************************)
EXTENDS Integers, Sequences, FiniteSets, SequencesExt

CONSTANTS
    Size,           \* per evaluation set: its images, valid_ds_size, test_ds_size
    Batch,          \* per set, "train" too: its batch size
    Capacity,       \* per evaluation set: images its queue holds, 10 batches
    Interval,       \* per evaluation set: valid_interval, test_interval
    TrainInterval, SaveInterval,
    MaxIter,        \* max_iter
    MaxCrashes      \* bound: processes that die

EvalSet == {"valid", "test"}

ASSUME TrainingAssumption ==
    /\ Size \in [EvalSet -> Nat \ {0}] /\ Capacity \in [EvalSet -> Nat]
    /\ Batch \in [EvalSet \cup {"train"} -> Nat \ {0}]
    /\ \A d \in EvalSet :
        \* A generator yields pairs.  The training scripts check the size of
        \* the validation set, the test scripts that of the test set.
        /\ Size[d] % 2 = 0 /\ Size[d] % Batch[d] = 0
        /\ Capacity[d] >= Batch[d] + 1
        \* disable_training_op of libs/psm sets data_sel only then.
        /\ Batch[d] # Batch["train"]
    /\ Interval \in [EvalSet -> Nat \ {0}]
    /\ TrainInterval \in Nat \ {0} /\ SaveInterval \in Nat \ {0}
    \* A process that starts from a checkpoint starts with a new average.
    /\ SaveInterval % TrainInterval = 0
    /\ MaxIter \in Nat /\ MaxCrashes \in Nat

Trainings == {"psm", "xunet", "srnet"}
Tests == {"test_psm", "test_xunet", "test_srnet"}

VARIABLES
    script,     \* what runs: a training or a test by one of the libraries
    stage,      \* where it stands, "off" when nothing runs
    iter,       \* i
    weights,    \* steps in the weights, and global_step
    mode,       \* the set that is selected, and batch_size
    queue,      \* per evaluation set: its FIFOQueue
    fed,        \* per evaluation set: images its generator has yielded
    evaluated,  \* per evaluation set: images in the sums of its averages
    trainSum,   \* steps in the sums of the training averages
    saved,      \* checkpoints: of which network, name and steps
    report,     \* history: per evaluation set, the images of the last average
    summary,    \* history: steps in the last training average
    leaked,     \* history: a step was trained on images of an evaluation set
    crashes     \* processes that died

process == <<script, stage, iter, weights, mode>>
queues == <<queue, fed>>
sums == <<evaluated, trainSum>>
averages == <<report, summary>>
trainingVars == <<process, queues, sums, averages, saved, leaked, crashes>>

TrainingMode == [data |-> "train", batch |-> Batch["train"]]
Nothing == [d \in EvalSet |-> <<>>]

\* The variables of a process, as it starts and when there is none.
Fresh(s, where, m) ==
    /\ script' = s /\ stage' = where /\ mode' = m
    /\ queue' = Nothing /\ fed' = [d \in EvalSet |-> 0]
    /\ evaluated' = Nothing /\ trainSum' = 0
    /\ report' = Nothing /\ summary' = TrainInterval

NoProcess == Fresh("none", "off", TrainingMode) /\ iter' = 0 /\ weights' = 0

TrainingInit ==
    /\ script = "none" /\ stage = "off" /\ mode = TrainingMode
    /\ iter = 0 /\ weights = 0
    /\ queue = Nothing /\ fed = [d \in EvalSet |-> 0]
    /\ evaluated = Nothing /\ trainSum = 0
    /\ saved = {} /\ leaked = FALSE /\ crashes = 0
    /\ report = Nothing /\ summary = TrainInterval

-----------------------------------------------------------------------------
(* Mode of the graph                                                       *)

\* disable_training_op and enable_test_op.
Evaluate(d) == [data |-> d, batch |-> Batch[d]]

\* enable_training_op.  Mutant: it leaves the selected set.
EnabledForBatch == [mode EXCEPT !.batch = Batch["train"]]
Enabled == TrainingMode

-----------------------------------------------------------------------------
(* A process                                                               *)

\* A script builds the graph, takes the weights of a checkpoint or, to train,
\* new ones, resets the sums, and starts the threads of the generators.
Launch(s, where, m, from) ==
    /\ stage = "off"
    /\ Fresh(s, where, m)
    /\ \E w \in from : weights' = w /\ iter' = w
    /\ UNCHANGED <<saved, leaked, crashes>>

NetOf(s) == IF s \in {"xunet", "test_xunet"} THEN "xunet" ELSE "srnet"
Checkpoints(net) == {c.steps : c \in {k \in saved : k.net = net}}

\* libs/psm, for both networks; libs/srnet evaluates once before it trains.
TrainPsm == Launch("psm", "step", TrainingMode, Checkpoints("srnet") \cup {0})
TrainXuNet == Launch("xunet", "step", TrainingMode, Checkpoints("xunet") \cup {0})
TrainSRNet == Launch("srnet", "initial", Evaluate("valid"), Checkpoints("srnet") \cup {0})

\* The test scripts make one evaluation.
TestPsm == Launch("test_psm", "test", Evaluate("test"), Checkpoints("srnet"))
TestXuNet == Launch("test_xunet", "test", Evaluate("test"), Checkpoints("xunet"))
TestSRNet == Launch("test_srnet", "test", Evaluate("test"), Checkpoints("srnet"))

\* The sets whose generators a script has started.
Sources == CASE script \in {"psm", "xunet"} -> EvalSet
             [] script = "srnet" -> {"valid"}
             [] script \in Tests -> {"test"}

\* gen_train_or_valid_psm yields a pair of images, in the order of the list and from
\* its beginning again, when there is room.  Mutant: in twos, from two threads.
NextPairOfTwoThreads(d) == <<2 * ((fed[d] \div 4) % (Size[d] \div 2)) + 1,
                             2 * ((fed[d] \div 4) % (Size[d] \div 2)) + 2>>
NextPair(d) == <<(fed[d] % Size[d]) + 1, (fed[d] % Size[d]) + 2>>

Feed(d) ==
    /\ stage # "off"
    /\ d \in Sources
    /\ Len(queue[d]) + 2 <= Capacity[d]
    /\ queue' = [queue EXCEPT ![d] = @ \o NextPair(d)]
    /\ fed' = [fed EXCEPT ![d] = (@ + 2) % (2 * Size[d])]
    /\ UNCHANGED <<process, sums, averages, saved, leaked, crashes>>

\* The sets that are evaluated after step i.
DuePsm(i) == {d \in EvalSet : i % Interval[d] = 0}
DueXuNet(i) == {d \in EvalSet : i % Interval[d] = 0}
DueSRNet(i) == {d \in {"valid"} : i % Interval[d] = 0}

Due(i) == CASE script = "psm" -> DuePsm(i)
            [] script = "xunet" -> DueXuNet(i)
            [] script = "srnet" -> DueSRNet(i)

\* What the loop does for step i after one part of it.
PartAfter(i, part) ==
    IF part = "step" /\ "valid" \in Due(i) THEN "valid"
    ELSE IF part # "test" /\ "test" \in Due(i) THEN "test"
    ELSE "save"

ModeOf(part) == IF part \in EvalSet THEN Evaluate(part) ELSE Enabled

\* train_op, and every TrainInterval steps the average of the training set is
\* written and reset.
TrainStep ==
    /\ stage = "step"
    /\ iter < MaxIter
    /\ iter' = iter + 1
    /\ weights' = weights + 1
    /\ leaked' = (leaked \/ mode # TrainingMode)
    /\ IF (iter + 1) % TrainInterval = 0
       THEN summary' = trainSum + 1 /\ trainSum' = 0
       ELSE trainSum' = trainSum + 1 /\ UNCHANGED summary
    /\ stage' = PartAfter(iter + 1, "step")
    /\ mode' = IF stage' \in EvalSet THEN Evaluate(stage') ELSE mode
    /\ UNCHANGED <<script, queues, evaluated, report, saved, crashes>>

\* The set whose evaluation is going on.
Evaluating(d) == stage = d \/ (stage = "initial" /\ d = "valid")

\* dequeue_many takes a batch of the selected set into the sums.
EvalBatch(d) ==
    /\ Evaluating(d)
    /\ Len(evaluated[d]) < Size[d]
    /\ Len(queue[d]) >= mode.batch
    /\ evaluated' = [evaluated EXCEPT ![d] = @ \o SubSeq(queue[d], 1, mode.batch)]
    /\ queue' = [queue EXCEPT ![d] = SubSeq(@, mode.batch + 1, Len(@))]
    /\ UNCHANGED <<process, fed, trainSum, averages, saved, leaked, crashes>>

\* The averages are written and reset; a test script only prints them.
Report(d) ==
    /\ Evaluating(d)
    /\ Len(evaluated[d]) >= Size[d]
    /\ report' = [report EXCEPT ![d] = evaluated[d]]
    /\ evaluated' = [evaluated EXCEPT ![d] = <<>>]
    /\ stage' = CASE script \in Tests -> "done" [] stage = "initial" -> "step"
                  [] OTHER -> PartAfter(iter, stage)
    /\ mode' = IF stage' = "done" THEN mode ELSE ModeOf(stage')
    /\ UNCHANGED <<script, iter, weights, queues, trainSum, summary, saved, leaked, crashes>>

\* saver.save names the checkpoint after i.
Save ==
    /\ stage = "save"
    /\ saved' = IF iter % SaveInterval # 0 THEN saved
                ELSE saved \cup {[net |-> NetOf(script), name |-> iter, steps |-> weights]}
    /\ stage' = "step"
    /\ UNCHANGED <<script, iter, weights, mode, queues, sums, averages, leaked, crashes>>

\* The loop is over, or the test.
Finish ==
    /\ stage = "done" \/ (stage = "step" /\ iter = MaxIter)
    /\ NoProcess
    /\ UNCHANGED <<saved, leaked, crashes>>

Crash ==
    /\ stage # "off"
    /\ crashes < MaxCrashes
    /\ crashes' = crashes + 1
    /\ NoProcess
    /\ UNCHANGED <<saved, leaked>>

TrainingNext ==
    \/ TrainPsm \/ TrainXuNet \/ TrainSRNet \/ TestPsm \/ TestXuNet \/ TestSRNet
    \/ TrainStep \/ Save \/ Finish \/ Crash
    \/ \E d \in EvalSet : Feed(d) \/ EvalBatch(d) \/ Report(d)

-----------------------------------------------------------------------------
(* Properties                                                              *)

Images(d) == 1..Size[d]

TrainingTypeOK ==
    /\ script \in {"none"} \cup Trainings \cup Tests
    /\ stage \in {"off", "initial", "step", "save", "done"} \cup EvalSet
    /\ iter \in 0..MaxIter /\ weights \in 0..MaxIter
    /\ mode \in [data : EvalSet \cup {"train"}, batch : Nat]
    /\ queue \in [EvalSet -> Seq(Nat)] /\ fed \in [EvalSet -> Nat]
    /\ evaluated \in [EvalSet -> Seq(Nat)] /\ report \in [EvalSet -> Seq(Nat)]
    /\ trainSum \in 0..TrainInterval /\ summary \in Nat
    /\ saved \subseteq [net : {"srnet", "xunet"}, name : 0..MaxIter, steps : 0..MaxIter]
    /\ leaked \in BOOLEAN /\ crashes \in 0..MaxCrashes

\* Every average of an evaluation is one over each image of its set exactly
\* once, however far its queue has run ahead, whatever was trained
\* or evaluated in between, and in every process.
EvaluationsCoverTheSet ==
    \A d \in EvalSet : report[d] # <<>> =>
        /\ Len(report[d]) = Size[d]
        /\ ToSet(report[d]) = Images(d)

\* Through crashes and new starts, checkpoint i holds i steps of training, all of
\* them on training images and in training mode, and a training
\* average is one over as many steps as it is divided by.
ModelsHoldTheirSteps ==
    /\ TrainingTypeOK
    /\ \A c \in saved : c.name = c.steps
    /\ ~leaked
    /\ summary = TrainInterval
=============================================================================
