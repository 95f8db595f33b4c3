---------------------------- MODULE CalpaNet_proofs ----------------------------
(***************************************************************************)
(* Proofs about CalpaNet: the checkpoints and the evaluations, for any     *)
(* sizes of sets, batches, queues and intervals, any number of iterations  *)
(* and crashes; then the recorded rates, for any slots, channels, files    *)
(* and accuracies, any number of detections and crashes.                   *)
(***************************************************************************)
EXTENDS CalpaNet, SequenceTheorems, FiniteSetTheorems, WellFoundedInduction, TLAPS

-----------------------------------------------------------------------------
(* Remainders                                                              *)

\* Division with remainder.
LEMMA Quotient ==
    ASSUME NEW a \in Nat, NEW n \in Nat \ {0}
    PROVE  \E q \in Nat, r \in 0..n - 1 : a = q * n + r /\ a % n = r
<1>1. a \in Int /\ n \in Int /\ n > 0
  OBVIOUS
<1> DEFINE q == a \div n
           r == a % n
<1>2. q \in Int /\ r \in 0..n - 1 /\ a % n = r
  OBVIOUS
<1>3. a = q * n + r
  BY <1>1, Z3
<1> HIDE DEF q, r
<1>4. q < 0 => q * n <= -n
  BY <1>2
<1>5. q \in Nat
  BY <1>2, <1>3, <1>4
<1> QED  BY <1>2, <1>3, <1>5

\* Its result is unique.
LEMMA Remainder ==
    ASSUME NEW n \in Nat \ {0}, NEW q \in Nat, NEW r \in 0..n - 1
    PROVE  (q * n + r) % n = r
  OBVIOUS

\* The remainder of the next number.
LEMMA NextRemainder ==
    ASSUME NEW a \in Nat, NEW n \in Nat \ {0}
    PROVE  (a + 1) % n = IF a % n = n - 1 THEN 0 ELSE (a % n) + 1
<1>1. PICK q \in Nat, r \in 0..n - 1 : a = q * n + r /\ a % n = r
  BY Quotient
<1>2. CASE r = n - 1
  <2>1. a + 1 = (q + 1) * n + 0 /\ q + 1 \in Nat /\ 0 \in 0..n - 1
    BY <1>1, <1>2
  <2>2. ((q + 1) * n + 0) % n = 0
    BY <2>1, Remainder
  <2> QED  BY <1>1, <1>2, <2>1, <2>2
<1>3. CASE r # n - 1
  <2>1. r + 1 \in 0..n - 1 /\ a + 1 = q * n + (r + 1)
    BY <1>1, <1>3
  <2>2. (q * n + (r + 1)) % n = r + 1
    BY <2>1, Remainder
  <2> QED  BY <1>1, <1>3, <2>1, <2>2
<1> QED  BY <1>2, <1>3

LEMMA Multiple ==
    ASSUME NEW a \in Nat, NEW n \in Nat \ {0}, a % n = 0
    PROVE  \E q \in Nat : a = q * n
<1>1. PICK q \in Nat, r \in 0..n - 1 : a = q * n + r /\ a % n = r
  BY Quotient
<1>2. r = 0 /\ q * n \in Nat
  BY <1>1
<1>3. a = q * n
  BY <1>1, <1>2
<1> QED  BY <1>3

\* A multiple of a multiple.
LEMMA Multiples ==
    ASSUME NEW a \in Nat, NEW n \in Nat \ {0}, NEW m \in Nat \ {0}, a % m = 0, m % n = 0
    PROVE  a % n = 0
<1>1. PICK q \in Nat : a = q * m
  BY Multiple
<1>2. PICK r \in Nat : m = r * n
  BY Multiple
<1>3. q * r \in Nat /\ q * (r * n) = (q * r) * n + 0 /\ 0 \in 0..n - 1
  OBVIOUS
<1>4. a = (q * r) * n + 0
  BY <1>1, <1>2, <1>3
<1>5. ((q * r) * n + 0) % n = 0
  BY <1>3, Remainder
<1> QED  BY <1>4, <1>5

\* A whole modulus more.
LEMMA OneRoundMore ==
    ASSUME NEW a \in Nat, NEW n \in Nat \ {0}
    PROVE  (n + a) % n = a % n
<1>1. PICK q \in Nat, r \in 0..n - 1 : a = q * n + r /\ a % n = r
  BY Quotient
<1>2. n + a = (q + 1) * n + r /\ q + 1 \in Nat
  BY <1>1
<1>3. ((q + 1) * n + r) % n = r
  BY <1>2, Remainder
<1> QED  BY <1>1, <1>2, <1>3

\* A counter that wraps at two rounds.
LEMMA Wrapped ==
    ASSUME NEW a \in Nat, NEW n \in Nat \ {0}
    PROVE  (a % (2 * n)) \in Nat /\ (a % (2 * n)) % n = a % n
<1>1. 2 * n \in Nat \ {0}
  OBVIOUS
<1>2. PICK q \in Nat, r \in 0..(2 * n) - 1 : a = q * (2 * n) + r /\ a % (2 * n) = r
  BY <1>1, Quotient
<1>3. PICK p \in Nat, t \in 0..n - 1 : r = p * n + t /\ r % n = t
  <2>1. r \in Nat
    OBVIOUS
  <2> QED  BY <2>1, Quotient
<1>4. q * (2 * n) + (p * n + t) = (2 * q + p) * n + t /\ 2 * q + p \in Nat
  OBVIOUS
<1>5. a = (2 * q + p) * n + t
  BY <1>2, <1>3, <1>4
<1>6. ((2 * q + p) * n + t) % n = t
  BY <1>4, Remainder
<1> QED  BY <1>2, <1>3, <1>5, <1>6

LEMMA EvenHalf ==
    ASSUME NEW a \in Nat
    PROVE  a % 2 = 0 <=> \E k \in Nat : a = 2 * k
<1>1. PICK q \in Nat, r \in 0..1 : a = q * 2 + r /\ a % 2 = r
  BY Quotient
<1> QED  BY <1>1

\* An even counter stays even, and is never the last of an even round.
LEMMA EvenWrapped ==
    ASSUME NEW a \in Nat, NEW n \in Nat \ {0}, a % 2 = 0
    PROVE  (a % (2 * n)) % 2 = 0
<1>1. 2 * n \in Nat \ {0}
  OBVIOUS
<1>2. PICK q \in Nat, r \in 0..(2 * n) - 1 : a = q * (2 * n) + r /\ a % (2 * n) = r
  BY <1>1, Quotient
<1>3. PICK k \in Nat : a = 2 * k
  BY EvenHalf
<1>4. q * (2 * n) = 2 * (q * n) /\ q * n \in Nat
  OBVIOUS
<1>5. r = 2 * (k - q * n)
  BY <1>2, <1>3, <1>4
<1>6. k - q * n \in Nat
  BY <1>4, <1>5
<1> QED  BY <1>2, <1>5, <1>6, EvenHalf

LEMMA EvenRounds ==
    ASSUME NEW a \in Nat, NEW n \in Nat \ {0}, a % 2 = 0, n % 2 = 0
    PROVE  a % n # n - 1
<1>1. PICK q \in Nat, r \in 0..n - 1 : a = q * n + r /\ a % n = r
  BY Quotient
<1>2. PICK k \in Nat : a = 2 * k
  BY EvenHalf
<1>3. PICK m \in Nat : n = 2 * m
  BY EvenHalf
<1>4. q * (2 * m) = 2 * (q * m) /\ q * m \in Nat
  OBVIOUS
<1>5. 2 * k = 2 * (q * m) + r
  BY <1>1, <1>2, <1>3, <1>4
<1>6. r # 2 * m - 1
  BY <1>4, <1>5
<1> QED  BY <1>1, <1>3, <1>6

\* Batches fill a set exactly.
LEMMA BatchFits ==
    ASSUME NEW a \in Nat, NEW n \in Nat, NEW b \in Nat \ {0}, a % b = 0, n % b = 0, a < n
    PROVE  a + b <= n /\ (a + b) % b = 0
<1>1. PICK q \in Nat : a = q * b
  BY Multiple
<1>2. PICK p \in Nat : n = p * b
  BY Multiple
<1>3. q < p
  <2>1. q >= p => q * b >= p * b
    OBVIOUS
  <2> QED  BY <1>1, <1>2, <2>1
<1>4. (q + 1) * b <= p * b
  BY <1>3
<1>5. (q + 1) * b = q * b + b
  OBVIOUS
<1>6. (b + a) % b = 0
  BY OneRoundMore
<1>7. b + a = a + b
  OBVIOUS
<1> QED  BY <1>1, <1>2, <1>4, <1>5, <1>6, <1>7

-----------------------------------------------------------------------------
(* The invariant                                                           *)

\* The weights are as old as the counter says, checkpoints are saved at
\* multiples of their interval, so that a new process starts with empty
\* sums, and the mode of the graph is the one the stage needs.
StepInv ==
    /\ TrainingTypeOK
    /\ weights = iter
    /\ \A c \in saved : c.name = c.steps /\ c.steps % SaveInterval = 0
    /\ stage \in {"step", "save"} => mode = TrainingMode
    /\ \A d \in EvalSet : Evaluating(d) => mode = Evaluate(d)
    /\ trainSum = iter % TrainInterval
    /\ summary = TrainInterval
    /\ leaked = FALSE

\* What is evaluated and what is queued continue each other, and the generator
\* continues the queue: it yields pairs, and batches divide the set.
FeedInv(d) ==
    /\ \A i \in 1..Len(evaluated[d]) : evaluated[d][i] = i
    /\ \A i \in 1..Len(queue[d]) :
            queue[d][i] = ((Len(evaluated[d]) + (i - 1)) % Size[d]) + 1
    /\ fed[d] % Size[d] = (Len(evaluated[d]) + Len(queue[d])) % Size[d]
    /\ fed[d] % 2 = 0
    /\ Len(evaluated[d]) % Batch[d] = 0 /\ Len(evaluated[d]) <= Size[d]

Covers(d) == report[d] # <<>> => Len(report[d]) = Size[d] /\ ToSet(report[d]) = Images(d)

FeedsInv == \A d \in EvalSet : FeedInv(d) /\ Covers(d)

LEMMA Zero == ASSUME NEW n \in Nat \ {0} PROVE 0 % n = 0
  OBVIOUS

LEMMA Small == ASSUME NEW n \in Nat \ {0}, NEW i \in 0..n - 1 PROVE i % n = i
  OBVIOUS

LEMMA Constant ==
    /\ Size \in [EvalSet -> Nat \ {0}] /\ Capacity \in [EvalSet -> Nat]
    /\ Batch \in [EvalSet \cup {"train"} -> Nat \ {0}]
    /\ TrainInterval \in Nat \ {0} /\ SaveInterval \in Nat \ {0}
    /\ MaxIter \in Nat /\ MaxCrashes \in Nat
    /\ "valid" \in EvalSet /\ "test" \in EvalSet
    /\ TrainingMode \in [data : EvalSet \cup {"train"}, batch : Nat]
    /\ Enabled = TrainingMode
    /\ \A d \in EvalSet : /\ Evaluate(d) \in [data : EvalSet \cup {"train"}, batch : Nat]
                          /\ Evaluate(d).batch = Batch[d]
<1>1. "train" \in EvalSet \cup {"train"} /\ "valid" \in EvalSet /\ "test" \in EvalSet
  BY DEF EvalSet
<1>2. \A d \in EvalSet \cup {"train"} : Batch[d] \in Nat
  BY TrainingAssumption
<1>3. TrainingMode \in [data : EvalSet \cup {"train"}, batch : Nat]
  BY <1>1, <1>2 DEF TrainingMode
<1>4. ASSUME NEW d \in EvalSet
      PROVE  /\ Evaluate(d) \in [data : EvalSet \cup {"train"}, batch : Nat]
             /\ Evaluate(d).batch = Batch[d]
  BY <1>2 DEF Evaluate
<1>5. Enabled = TrainingMode
  BY DEF Enabled
<1>6. /\ Size \in [EvalSet -> Nat \ {0}] /\ Capacity \in [EvalSet -> Nat]
      /\ Batch \in [EvalSet \cup {"train"} -> Nat \ {0}]
      /\ TrainInterval \in Nat \ {0} /\ SaveInterval \in Nat \ {0}
      /\ MaxIter \in Nat /\ MaxCrashes \in Nat
  BY TrainingAssumption
<1> QED  BY <1>1, <1>3, <1>4, <1>5, <1>6, Zenon

LEMMA Part == ASSUME NEW i, NEW part PROVE PartAfter(i, part) \in {"valid", "test", "save"}
  BY DEF PartAfter

LEMMA Initial == Init => StepInv /\ FeedsInv
<1> SUFFICES ASSUME TrainingInit PROVE StepInv /\ FeedsInv
  BY DEF Init
<1> USE DEF TrainingInit, Nothing
<1>1. TrainingTypeOK
  <2>1. /\ script \in {"none"} \cup Trainings \cup Tests
        /\ stage \in {"off", "initial", "step", "save", "done"} \cup EvalSet
    OBVIOUS
  <2>2. iter \in 0..MaxIter /\ weights \in 0..MaxIter /\ crashes \in 0..MaxCrashes
    BY Constant
  <2>3. /\ queue \in [EvalSet -> Seq(Nat)] /\ fed \in [EvalSet -> Nat]
        /\ evaluated \in [EvalSet -> Seq(Nat)] /\ report \in [EvalSet -> Seq(Nat)]
    OBVIOUS
  <2>4. trainSum \in 0..TrainInterval /\ summary \in Nat
    BY Constant
  <2>5. mode \in [data : EvalSet \cup {"train"}, batch : Nat]
    BY Constant
  <2> QED  BY <2>1, <2>2, <2>3, <2>4, <2>5 DEF TrainingTypeOK
<1>2. StepInv
  <2>1. 0 % TrainInterval = 0
    BY Zero, Constant
  <2> QED  BY <1>1, <2>1 DEF StepInv, Evaluating, EvalSet
<1>3. FeedsInv
  <2> SUFFICES ASSUME NEW d \in EvalSet PROVE FeedInv(d) /\ Covers(d)
    BY DEF FeedsInv
  <2>1. 0 % Size[d] = 0 /\ 0 % Batch[d] = 0 /\ 0 % 2 = 0 /\ 0 <= Size[d]
    BY Zero, Constant
  <2> QED  BY <2>1 DEF FeedInv, Covers
<1> QED  BY <1>2, <1>3

-----------------------------------------------------------------------------
(* Steps of a process                                                      *)

\* A new process and none have empty queues and sums.
LEMMA FreshKeeps ==
    ASSUME NEW s \in {"none"} \cup Trainings \cup Tests,
           NEW where \in {"off", "initial", "step", "test"}, NEW m,
           Fresh(s, where, m)
    PROVE  FeedsInv'
<1> SUFFICES ASSUME NEW d \in EvalSet PROVE FeedInv(d)' /\ Covers(d)'
  BY DEF FeedsInv
<1>1. 0 % Size[d] = 0 /\ 0 % Batch[d] = 0 /\ 0 % 2 = 0 /\ 0 <= Size[d]
  BY Zero, Constant
<1> QED  BY <1>1 DEF FeedInv, Covers, Fresh, Nothing

LEMMA LaunchKeeps ==
    ASSUME StepInv, NEW s \in Trainings \cup Tests,
           NEW where \in {"initial", "step", "test"}, NEW m, NEW from,
           from \subseteq {0} \cup {c.steps : c \in saved},
           m \in [data : EvalSet \cup {"train"}, batch : Nat],
           where = "step" => m = TrainingMode,
           where = "initial" => m = Evaluate("valid"),
           where = "test" => m = Evaluate("test"),
           Launch(s, where, m, from)
    PROVE  StepInv'
<1> USE DEF Launch, Fresh, Nothing
<1>1. PICK w \in from : weights' = w /\ iter' = w
  OBVIOUS
<1>2. w \in 0..MaxIter /\ w % TrainInterval = 0
  <2>1. CASE w = 0
    BY <2>1, Zero, Constant
  <2>2. CASE w # 0
    <3>1. PICK c \in saved : w = c.steps
      BY <2>2
    <3>2. w \in 0..MaxIter /\ w % SaveInterval = 0
      BY <3>1 DEF StepInv, TrainingTypeOK
    <3>3. SaveInterval % TrainInterval = 0
      BY TrainingAssumption
    <3>4. w \in Nat
      BY <3>2, Constant
    <3> QED  BY <3>2, <3>3, <3>4, Multiples, Constant
  <2> QED  BY <2>1, <2>2
<1>3. TrainingTypeOK'
  <2>1. /\ script' \in {"none"} \cup Trainings \cup Tests
        /\ stage' \in {"off", "initial", "step", "save", "done"} \cup EvalSet
    BY Constant
  <2>2. iter' \in 0..MaxIter /\ weights' \in 0..MaxIter
    BY <1>1, <1>2
  <2>3. /\ queue' \in [EvalSet -> Seq(Nat)] /\ fed' \in [EvalSet -> Nat]
        /\ evaluated' \in [EvalSet -> Seq(Nat)] /\ report' \in [EvalSet -> Seq(Nat)]
    OBVIOUS
  <2>4. trainSum' \in 0..TrainInterval /\ summary' \in Nat
    BY Constant
  <2>5. mode' \in [data : EvalSet \cup {"train"}, batch : Nat]
    OBVIOUS
  <2> QED  BY <2>1, <2>2, <2>3, <2>4, <2>5 DEF TrainingTypeOK, StepInv
<1> QED  BY <1>1, <1>2, <1>3 DEF StepInv, Evaluating, EvalSet

LEMMA EndKeeps ==
    ASSUME StepInv, NoProcess, UNCHANGED <<saved, leaked>>, crashes' \in 0..MaxCrashes
    PROVE  StepInv' /\ FeedsInv'
<1> USE DEF NoProcess
<1>1. TrainingTypeOK'
  BY Constant DEF TrainingTypeOK, StepInv, Fresh, Nothing
<1>2. 0 % TrainInterval = 0
  BY Zero, Constant
<1>3. StepInv'
  BY <1>1, <1>2 DEF StepInv, Evaluating, EvalSet, Fresh
<1>4. FeedsInv'
  BY FreshKeeps
<1> QED  BY <1>3, <1>4

\* What leaves the queues and sums of the evaluations leaves their invariant.
LEMMA FeedsAlone ==
    ASSUME FeedsInv, UNCHANGED <<queue, fed, evaluated, report>>
    PROVE  FeedsInv'
  BY DEF FeedsInv, FeedInv, Covers

LEMMA TrainStepKeeps == ASSUME StepInv, FeedsInv, TrainStep PROVE StepInv' /\ FeedsInv'
<1> USE DEF TrainStep
<1>1. FeedsInv'
  BY FeedsAlone DEF queues
<1>2. iter \in 0..MaxIter /\ trainSum = iter % TrainInterval /\ mode = TrainingMode
  BY DEF StepInv, TrainingTypeOK
<1>3. iter' = iter + 1 /\ weights' = iter' /\ iter' \in 0..MaxIter
  BY <1>2, Constant DEF StepInv
<1>4. iter' % TrainInterval = IF trainSum = TrainInterval - 1 THEN 0 ELSE trainSum + 1
  <2>1. iter \in Nat /\ TrainInterval \in Nat \ {0}
    BY <1>2, Constant
  <2>2. (iter + 1) % TrainInterval
           = IF iter % TrainInterval = TrainInterval - 1 THEN 0 ELSE (iter % TrainInterval) + 1
    BY <2>1, NextRemainder
  <2> QED  BY <1>2, <1>3, <2>2
<1>5. trainSum' = iter' % TrainInterval /\ summary' = TrainInterval
  <2>1. trainSum \in Nat
    BY Constant DEF StepInv, TrainingTypeOK
  <2>2. CASE trainSum = TrainInterval - 1
    BY <1>3, <1>4, <2>1, <2>2, Constant DEF StepInv
  <2>3. CASE trainSum # TrainInterval - 1
    <3>1. iter' % TrainInterval # 0
      BY <1>4, <2>1, <2>3
    <3> QED  BY <1>3, <1>4, <2>3, <3>1 DEF StepInv
  <2> QED  BY <2>2, <2>3
<1>6. trainSum' \in 0..TrainInterval
  BY <1>3, <1>5, Constant
<1>7. stage' \in {"valid", "test", "save"}
  BY Part
<1>8. mode' = IF stage' \in EvalSet THEN Evaluate(stage') ELSE TrainingMode
  BY <1>2
<1>9. leaked' = FALSE
  BY <1>2 DEF StepInv
<1>10. TrainingTypeOK'
  BY <1>3, <1>5, <1>6, <1>7, <1>8, <1>9, Constant DEF TrainingTypeOK, StepInv, queues, EvalSet
<1> QED  BY <1>1, <1>3, <1>5, <1>7, <1>8, <1>9, <1>10 DEF StepInv, Evaluating, EvalSet

LEMMA SaveKeeps == ASSUME StepInv, FeedsInv, Save PROVE StepInv' /\ FeedsInv'
<1> USE DEF Save
<1>1. FeedsInv'
  BY FeedsAlone DEF queues, sums, averages
<1> DEFINE new == [net |-> NetOf(script), name |-> iter, steps |-> weights]
<1>2. /\ new \in [net : {"srnet", "xunet"}, name : 0..MaxIter, steps : 0..MaxIter]
      /\ new.name = new.steps /\ new.steps = iter
  BY DEF StepInv, TrainingTypeOK, NetOf
<1>3. saved' = IF iter % SaveInterval # 0 THEN saved ELSE saved \cup {new}
  OBVIOUS
<1> HIDE DEF new
<1>4. TrainingTypeOK'
  BY <1>2, <1>3 DEF TrainingTypeOK, StepInv, queues, sums, averages
<1>5. \A c \in saved' : c.name = c.steps /\ c.steps % SaveInterval = 0
  BY <1>2, <1>3 DEF StepInv
<1> QED  BY <1>1, <1>4, <1>5 DEF StepInv, sums, averages, Evaluating, EvalSet

LEMMA Types ==
    ASSUME StepInv, NEW d \in EvalSet
    PROVE  /\ Size[d] \in Nat \ {0} /\ Batch[d] \in Nat \ {0}
           /\ Size[d] % 2 = 0 /\ Size[d] % Batch[d] = 0
           /\ fed[d] \in Nat /\ fed \in [EvalSet -> Nat]
           /\ queue[d] \in Seq(Nat) /\ Len(queue[d]) \in Nat /\ queue \in [EvalSet -> Seq(Nat)]
           /\ evaluated[d] \in Seq(Nat) /\ Len(evaluated[d]) \in Nat
           /\ evaluated \in [EvalSet -> Seq(Nat)] /\ report \in [EvalSet -> Seq(Nat)]
<1>1. /\ fed \in [EvalSet -> Nat] /\ queue \in [EvalSet -> Seq(Nat)]
      /\ evaluated \in [EvalSet -> Seq(Nat)] /\ report \in [EvalSet -> Seq(Nat)]
  BY DEF StepInv, TrainingTypeOK
<1>2. Size[d] \in Nat \ {0} /\ Batch[d] \in Nat \ {0}
  BY Constant
<1>3. Size[d] % 2 = 0 /\ Size[d] % Batch[d] = 0
  BY TrainingAssumption
<1>4. queue[d] \in Seq(Nat) /\ evaluated[d] \in Seq(Nat) /\ fed[d] \in Nat
  BY <1>1
<1>5. Len(queue[d]) \in Nat /\ Len(evaluated[d]) \in Nat
  BY <1>4
<1> QED  BY <1>1, <1>2, <1>3, <1>4, <1>5

\* Two more elements.
LEMMA Appended ==
    ASSUME NEW s \in Seq(Nat), NEW x \in Nat, NEW y \in Nat
    PROVE  /\ s \o <<x, y>> \in Seq(Nat) /\ Len(s \o <<x, y>>) = Len(s) + 2
           /\ \A i \in 1..Len(s) : (s \o <<x, y>>)[i] = s[i]
           /\ (s \o <<x, y>>)[Len(s) + 1] = x /\ (s \o <<x, y>>)[Len(s) + 2] = y
  OBVIOUS

LEMMA Joined ==
    ASSUME NEW s \in Seq(Nat), NEW t \in Seq(Nat)
    PROVE  /\ s \o t \in Seq(Nat) /\ Len(s \o t) = Len(s) + Len(t)
           /\ \A i \in 1..Len(s) : (s \o t)[i] = s[i]
           /\ \A i \in 1..Len(t) : (s \o t)[Len(s) + i] = t[i]
  OBVIOUS

\* A set whose queue and sums a step leaves alone.
LEMMA OtherKeeps ==
    ASSUME FeedsInv, NEW e \in EvalSet, queue'[e] = queue[e], fed'[e] = fed[e],
           evaluated'[e] = evaluated[e], report'[e] = report[e]
    PROVE  FeedInv(e)' /\ Covers(e)'
<1>1. FeedInv(e) /\ Covers(e)
  BY DEF FeedsInv
<1>2. FeedInv(e)'
  BY <1>1 DEF FeedInv
<1>3. Covers(e)'
  BY <1>1 DEF Covers, Images
<1> QED  BY <1>2, <1>3

\* A pair continues the numbers of a queue.
LEMMA FeedKeeps ==
    ASSUME StepInv, FeedsInv, NEW d \in EvalSet, Feed(d)
    PROVE  StepInv' /\ FeedsInv'
<1> DEFINE n == Size[d]
           a == fed[d]
           v == evaluated[d]
           l == Len(v)
           q == queue[d]
           k == Len(q)
           r == a % n
           longer == q \o <<r + 1, r + 2>>
           next == (a + 2) % (2 * n)
<1>1. /\ n \in Nat \ {0} /\ a \in Nat /\ l \in Nat /\ q \in Seq(Nat) /\ k \in Nat
      /\ n % 2 = 0
      /\ fed \in [EvalSet -> Nat] /\ queue \in [EvalSet -> Seq(Nat)]
  BY Types
<1>2. /\ r = (l + k) % n /\ a % 2 = 0
      /\ \A i \in 1..l : v[i] = i
      /\ \A i \in 1..k : q[i] = ((l + (i - 1)) % n) + 1
      /\ l % Batch[d] = 0 /\ l <= n
  BY DEF FeedsInv, FeedInv
<1>3. queue' = [queue EXCEPT ![d] = longer] /\ fed' = [fed EXCEPT ![d] = next]
  BY DEF Feed, NextPair
<1>4. UNCHANGED <<process, sums, averages, saved, leaked, crashes>>
  BY DEF Feed
<1>5. UNCHANGED <<evaluated, report>>
  BY <1>4 DEF sums, averages
<1>6. r \in Nat
  BY <1>1
<1>7. next \in Nat /\ next % n = (a + 2) % n
  <2>1. a + 2 \in Nat
    BY <1>1
  <2> QED  BY <1>1, <2>1, Wrapped
<1>8. r # n - 1 /\ (l + k) % n # n - 1
  BY <1>1, <1>2, EvenRounds
<1>9. /\ longer \in Seq(Nat) /\ Len(longer) = k + 2
      /\ \A i \in 1..k : longer[i] = q[i]
      /\ longer[k + 1] = r + 1 /\ longer[k + 2] = r + 2
  <2>1. r + 1 \in Nat /\ r + 2 \in Nat
    BY <1>6
  <2> QED  BY <1>1, <2>1, Appended
<1>10. next % 2 = 0
  <2>1. (2 + a) % 2 = 0
    BY <1>1, <1>2, OneRoundMore
  <2>2. 2 + a = a + 2 /\ a + 2 \in Nat
    BY <1>1
  <2> QED  BY <1>1, <2>1, <2>2, EvenWrapped
\* The second image of a pair is the one after the first: a round is even.
<1>11. (a + 1) % n = r + 1 /\ ((l + k) + 1) % n = r + 1
  <2>1. (a + 1) % n = r + 1
    BY <1>1, <1>8, NextRemainder
  <2>2. l + k \in Nat
    BY <1>1
  <2>3. ((l + k) + 1) % n = ((l + k) % n) + 1
    BY <1>1, <1>8, <2>2, NextRemainder
  <2> QED  BY <1>2, <2>1, <2>3
<1>12. (a + 2) % n = ((l + k) + 2) % n
  <2>1. /\ a + 1 \in Nat /\ (l + k) + 1 \in Nat /\ (a + 1) + 1 = a + 2
        /\ ((l + k) + 1) + 1 = (l + k) + 2
    BY <1>1
  <2>2. ((a + 1) + 1) % n = IF r + 1 = n - 1 THEN 0 ELSE (r + 1) + 1
    BY <1>1, <1>11, <2>1, NextRemainder
  <2>3. (((l + k) + 1) + 1) % n = IF r + 1 = n - 1 THEN 0 ELSE (r + 1) + 1
    BY <1>1, <1>11, <2>1, NextRemainder
  <2> QED  BY <2>1, <2>2, <2>3
<1>13. StepInv'
  <2>1. queue' \in [EvalSet -> Seq(Nat)] /\ fed' \in [EvalSet -> Nat]
    BY <1>1, <1>3, <1>7, <1>9
  <2> QED  BY <1>4, <2>1 DEF StepInv, TrainingTypeOK, process, sums, averages, Evaluating
<1>14. queue'[d] = longer /\ fed'[d] = next /\ evaluated'[d] = v
  BY <1>1, <1>3, <1>5
<1>15. \A e \in EvalSet \ {d} : queue'[e] = queue[e] /\ fed'[e] = fed[e]
  BY <1>1, <1>3
<1> HIDE DEF n, a, v, l, q, k, r, longer, next
<1>16. ASSUME NEW i \in 1..k + 2 PROVE longer[i] = ((l + (i - 1)) % n) + 1
  <2>1. CASE i \in 1..k
    BY <1>2, <1>9, <2>1
  <2>2. CASE i = k + 1
    <3>1. l + (i - 1) = l + k
      BY <1>1, <2>2
    <3> QED  BY <1>2, <1>9, <2>2, <3>1
  <2>3. CASE i = k + 2
    <3>1. l + (i - 1) = (l + k) + 1 /\ (r + 1) + 1 = r + 2
      BY <1>1, <1>6, <2>3
    <3> QED  BY <1>9, <1>11, <2>3, <3>1
  <2> QED  BY <1>1, <2>1, <2>2, <2>3
<1>17. next % n = (l + (k + 2)) % n
  <2>1. l + (k + 2) = (l + k) + 2
    BY <1>1
  <2> QED  BY <1>7, <1>12, <2>1
<1>18. l = Len(v)
  BY DEF l
<1>19. FeedInv(d)'
  <2>1. \A i \in 1..Len(evaluated'[d]) : evaluated'[d][i] = i
    BY <1>2, <1>14, <1>18
  <2>2. \A i \in 1..Len(queue'[d]) : queue'[d][i] = ((Len(evaluated'[d]) + (i - 1)) % n) + 1
    BY <1>9, <1>14, <1>16, <1>18
  <2>3. fed'[d] % n = (Len(evaluated'[d]) + Len(queue'[d])) % n /\ fed'[d] % 2 = 0
    BY <1>9, <1>10, <1>14, <1>17, <1>18
  <2>4. Len(evaluated'[d]) % Batch[d] = 0 /\ Len(evaluated'[d]) <= n
    BY <1>2, <1>14, <1>18
  <2> QED  BY <2>1, <2>2, <2>3, <2>4 DEF FeedInv, n
<1>20. FeedsInv'
  <2>1. \A e \in EvalSet \ {d} : FeedInv(e)' /\ Covers(e)'
    BY <1>5, <1>15, OtherKeeps
  <2>2. Covers(d)'
    BY <1>5 DEF FeedsInv, Covers, Images
  <2> QED  BY <1>19, <2>1, <2>2 DEF FeedsInv
<1> QED  BY <1>13, <1>20

\* A part of a sequence.
LEMMA SequenceParts ==
    ASSUME NEW s \in Seq(Nat), NEW b \in Nat, b <= Len(s)
    PROVE  /\ SubSeq(s, 1, b) \in Seq(Nat) /\ Len(SubSeq(s, 1, b)) = b
           /\ \A i \in 1..b : SubSeq(s, 1, b)[i] = s[i]
           /\ SubSeq(s, b + 1, Len(s)) \in Seq(Nat)
           /\ Len(SubSeq(s, b + 1, Len(s))) = Len(s) - b
           /\ \A i \in 1..Len(s) - b : SubSeq(s, b + 1, Len(s))[i] = s[b + i]
<1>1. Len(s) \in Nat /\ \A i \in 1..Len(s) : s[i] \in Nat
  OBVIOUS
<1>2. /\ SubSeq(s, 1, b) \in Seq(Nat) /\ Len(SubSeq(s, 1, b)) = b
      /\ \A i \in 1..b : SubSeq(s, 1, b)[i] = s[i]
  BY <1>1, SubSeqProperties
<1>3. SubSeq(s, b + 1, Len(s)) \in Seq(Nat)
  BY <1>1, SubSeqProperties
<1>4. Len(SubSeq(s, b + 1, Len(s))) = Len(s) - b
  BY <1>1, SubSeqProperties
<1>5. \A i \in 1..Len(s) - b : SubSeq(s, b + 1, Len(s))[i] = s[b + i]
  BY <1>1
<1> QED  BY <1>2, <1>3, <1>4, <1>5

\* A batch moves from the queue to the sums.
LEMMA EvalBatchKeeps ==
    ASSUME StepInv, FeedsInv, NEW d \in EvalSet, EvalBatch(d)
    PROVE  StepInv' /\ FeedsInv'
<1> DEFINE n == Size[d]
           b == Batch[d]
           v == evaluated[d]
           l == Len(v)
           q == queue[d]
           k == Len(q)
           first == SubSeq(q, 1, b)
           rest == SubSeq(q, b + 1, k)
           sum == v \o first
<1>1. /\ n \in Nat \ {0} /\ b \in Nat \ {0} /\ v \in Seq(Nat) /\ l \in Nat
      /\ q \in Seq(Nat) /\ k \in Nat /\ n % b = 0
      /\ queue \in [EvalSet -> Seq(Nat)] /\ evaluated \in [EvalSet -> Seq(Nat)]
  BY Types
<1>2. /\ fed[d] % n = (l + k) % n /\ fed[d] % 2 = 0
      /\ \A i \in 1..l : v[i] = i
      /\ \A i \in 1..k : q[i] = ((l + (i - 1)) % n) + 1
      /\ l % b = 0
  BY DEF FeedsInv, FeedInv
<1>3. mode.batch = b
  BY Constant DEF StepInv, EvalBatch
<1>4. l < n /\ b <= k
  BY <1>3 DEF EvalBatch
<1>5. l + b <= n /\ (l + b) % b = 0
  <2>1. n \in Nat
    BY <1>1
  <2> QED  BY <1>1, <1>2, <1>4, <2>1, BatchFits
<1>6. /\ first \in Seq(Nat) /\ Len(first) = b /\ \A i \in 1..b : first[i] = q[i]
      /\ rest \in Seq(Nat) /\ Len(rest) = k - b
      /\ \A i \in 1..k - b : rest[i] = q[b + i]
  <2>1. b \in Nat
    BY <1>1
  <2> QED  BY <1>1, <1>4, <2>1, SequenceParts
<1>7. /\ sum \in Seq(Nat) /\ Len(sum) = l + b
      /\ \A i \in 1..l : sum[i] = v[i]
      /\ \A i \in 1..b : sum[l + i] = first[i]
  <2>1. v \in Seq(Nat) /\ first \in Seq(Nat)
    BY <1>1, <1>6
  <2>2. /\ v \o first \in Seq(Nat) /\ Len(v \o first) = Len(v) + Len(first)
        /\ \A i \in 1..Len(v) : (v \o first)[i] = v[i]
        /\ \A i \in 1..Len(first) : (v \o first)[Len(v) + i] = first[i]
    <3> HIDE DEF v, first
    <3> QED  BY <2>1, Joined
  <2>3. Len(first) = b
    BY <1>6
  <2> HIDE DEF v, first, b
  <2> QED  BY <2>2, <2>3
<1>8. /\ evaluated' = [evaluated EXCEPT ![d] = sum]
      /\ queue' = [queue EXCEPT ![d] = rest]
      /\ UNCHANGED <<process, fed, trainSum, averages, saved, leaked, crashes>>
  BY <1>3 DEF EvalBatch
<1>9. StepInv'
  <2>1. queue' \in [EvalSet -> Seq(Nat)] /\ evaluated' \in [EvalSet -> Seq(Nat)]
    BY <1>1, <1>6, <1>7, <1>8
  <2> QED  BY <1>8, <2>1 DEF StepInv, TrainingTypeOK, process, averages, Evaluating
<1>10. evaluated'[d] = sum /\ queue'[d] = rest /\ fed'[d] = fed[d]
  BY <1>1, <1>8
<1>11. \A e \in EvalSet \ {d} : queue'[e] = queue[e] /\ evaluated'[e] = evaluated[e]
  BY <1>1, <1>8
<1> HIDE DEF n, b, v, l, q, k, first, rest, sum
\* Up to the size of the set, images are numbered from one.
<1>12. ASSUME NEW i \in 1..l + b PROVE sum[i] = i
  <2>1. CASE i \in 1..l
    BY <1>2, <1>7, <2>1
  <2>2. CASE i \notin 1..l
    <3>1. PICK j \in 1..b : i = l + j
      <4>1. i - l \in 1..b /\ i = l + (i - l)
        BY <1>1, <2>2
      <4> QED  BY <4>1
    <3>2. j \in 1..k /\ l + (j - 1) = i - 1 /\ i - 1 \in 0..n - 1
      BY <1>1, <1>4, <1>5, <3>1
    <3>3. sum[i] = ((i - 1) % n) + 1
      <4>1. sum[i] = first[j] /\ first[j] = q[j]
        BY <1>6, <1>7, <3>1
      <4>2. q[j] = ((l + (j - 1)) % n) + 1
        BY <1>2, <3>2
      <4>3. l + (j - 1) = i - 1
        BY <3>2
      <4> QED  BY <4>1, <4>2, <4>3
    <3>4. (i - 1) % n = i - 1
      BY <1>1, <3>2, Small
    <3>5. (i - 1) + 1 = i
      OBVIOUS
    <3> QED  BY <3>3, <3>4, <3>5
  <2> QED  BY <2>1, <2>2
<1>13. ASSUME NEW i \in 1..k - b PROVE rest[i] = (((l + b) + (i - 1)) % n) + 1
  <2>1. b + i \in 1..k /\ l + ((b + i) - 1) = (l + b) + (i - 1)
    BY <1>1, <1>4
  <2> QED  BY <1>2, <1>6, <2>1
<1>14. (l + b) + (k - b) = l + k
  BY <1>1
<1>15. FeedInv(d)'
  <2>1. \A i \in 1..Len(evaluated'[d]) : evaluated'[d][i] = i
    BY <1>7, <1>10, <1>12
  <2>2. \A i \in 1..Len(queue'[d]) : queue'[d][i] = ((Len(evaluated'[d]) + (i - 1)) % n) + 1
    BY <1>6, <1>7, <1>10, <1>13
  <2>3. fed'[d] % n = (Len(evaluated'[d]) + Len(queue'[d])) % n /\ fed'[d] % 2 = 0
    BY <1>2, <1>6, <1>7, <1>10, <1>14
  <2>4. Len(evaluated'[d]) % b = 0 /\ Len(evaluated'[d]) <= n
    BY <1>5, <1>7, <1>10
  <2> QED  BY <2>1, <2>2, <2>3, <2>4 DEF FeedInv, n, b
<1>16. UNCHANGED <<fed, report>>
  BY <1>8 DEF averages
<1>17. FeedsInv'
  <2>1. \A e \in EvalSet \ {d} : FeedInv(e)' /\ Covers(e)'
    BY <1>11, <1>16, OtherKeeps
  <2>2. Covers(d)'
    BY <1>16 DEF FeedsInv, Covers, Images
  <2> QED  BY <1>15, <2>1, <2>2 DEF FeedsInv
<1> QED  BY <1>9, <1>17

\* An average is one over the whole set, and the next one starts after it.
LEMMA ReportKeeps ==
    ASSUME StepInv, FeedsInv, NEW d \in EvalSet, Report(d)
    PROVE  StepInv' /\ FeedsInv'
<1> DEFINE n == Size[d]
           v == evaluated[d]
           q == queue[d]
           k == Len(q)
<1>1. /\ n \in Nat \ {0} /\ v \in Seq(Nat) /\ Len(v) \in Nat /\ q \in Seq(Nat) /\ k \in Nat
      /\ evaluated \in [EvalSet -> Seq(Nat)] /\ report \in [EvalSet -> Seq(Nat)]
  BY Types
<1>2. Len(v) = n
  <2>1. Len(v) <= n
    BY DEF FeedsInv, FeedInv
  <2>2. Len(v) >= n
    BY DEF Report
  <2> QED  BY <1>1, <2>1, <2>2
<1>3. /\ report' = [report EXCEPT ![d] = v] /\ evaluated' = [evaluated EXCEPT ![d] = <<>>]
      /\ UNCHANGED <<script, iter, weights, queue, fed, trainSum, summary, saved, leaked, crashes>>
  BY DEF Report, queues
<1>4. \/ stage' = "done" /\ mode' = mode
      \/ stage' \in {"valid", "test"} /\ mode' = Evaluate(stage')
      \/ stage' \in {"step", "save"} /\ mode' = TrainingMode
  <2>1. stage' \in {"done", "step", "valid", "test", "save"}
    BY Part DEF Report
  <2>2. mode' = IF stage' = "done" THEN mode ELSE ModeOf(stage')
    BY DEF Report
  <2> QED  BY <2>1, <2>2, Constant DEF ModeOf, EvalSet
<1>5. StepInv'
  <2>1. evaluated' \in [EvalSet -> Seq(Nat)] /\ report' \in [EvalSet -> Seq(Nat)]
    BY <1>1, <1>3
  <2>2. stage' \in {"off", "initial", "step", "save", "done"} \cup EvalSet
    BY <1>4, Constant
  <2>3. mode' \in [data : EvalSet \cup {"train"}, batch : Nat]
    <3>1. mode \in [data : EvalSet \cup {"train"}, batch : Nat]
      BY DEF StepInv, TrainingTypeOK
    <3>2. /\ TrainingMode \in [data : EvalSet \cup {"train"}, batch : Nat]
          /\ \A e \in EvalSet : Evaluate(e) \in [data : EvalSet \cup {"train"}, batch : Nat]
          /\ "valid" \in EvalSet /\ "test" \in EvalSet
      BY Constant
    <3> QED  BY <1>4, <3>1, <3>2
  <2>4. TrainingTypeOK'
    BY <1>3, <2>1, <2>2, <2>3 DEF StepInv, TrainingTypeOK
  <2>5. stage' \in {"step", "save"} => mode' = TrainingMode
    BY <1>4
  <2>6. \A e \in EvalSet : Evaluating(e)' => mode' = Evaluate(e)
    BY <1>4 DEF Evaluating, EvalSet
  <2> QED  BY <1>3, <2>4, <2>5, <2>6 DEF StepInv
<1>6. Covers(d)'
  <2>1. \A i \in 1..n : v[i] = i
    BY <1>2 DEF FeedsInv, FeedInv
  <2>2. DOMAIN v = 1..n
    BY <1>1, <1>2
  <2>3. ToSet(v) = 1..n
    BY <2>1, <2>2 DEF ToSet
  <2> QED  BY <1>1, <1>2, <1>3, <2>3 DEF Covers, Images
<1>7. \A i \in 1..k : q[i] = ((n + (i - 1)) % n) + 1
  BY <1>2 DEF FeedsInv, FeedInv
<1>8. fed[d] % n = (n + k) % n /\ fed[d] % 2 = 0
  BY <1>2 DEF FeedsInv, FeedInv
<1>9. evaluated'[d] = <<>> /\ queue'[d] = q /\ fed'[d] = fed[d]
  BY <1>1, <1>3
<1>10. \A e \in EvalSet \ {d} : evaluated'[e] = evaluated[e] /\ report'[e] = report[e]
  BY <1>1, <1>3
<1>11. 0 % Batch[d] = 0
  BY Zero, Types
<1> HIDE DEF n, v, q, k
<1>12. ASSUME NEW i \in 1..k PROVE q[i] = ((0 + (i - 1)) % n) + 1
  <2>1. i - 1 \in Nat /\ 0 + (i - 1) = i - 1
    BY <1>1
  <2> QED  BY <1>1, <1>7, <2>1, OneRoundMore
<1>13. fed[d] % n = (0 + k) % n
  <2>1. 0 + k = k
    BY <1>1
  <2> QED  BY <1>1, <1>8, <2>1, OneRoundMore
<1>14. Len(<<>>) = 0 /\ 0 <= n
  BY <1>1
<1>15. FeedInv(d)'
  <2>1. \A i \in 1..Len(evaluated'[d]) : evaluated'[d][i] = i
    BY <1>9, <1>14
  <2>2. \A i \in 1..Len(queue'[d]) : queue'[d][i] = ((Len(evaluated'[d]) + (i - 1)) % n) + 1
    BY <1>9, <1>12, <1>14 DEF k
  <2>3. fed'[d] % n = (Len(evaluated'[d]) + Len(queue'[d])) % n /\ fed'[d] % 2 = 0
    BY <1>8, <1>9, <1>13, <1>14 DEF k
  <2>4. Len(evaluated'[d]) % Batch[d] = 0 /\ Len(evaluated'[d]) <= n
    BY <1>9, <1>11, <1>14
  <2> QED  BY <2>1, <2>2, <2>3, <2>4 DEF FeedInv, n
<1>16. FeedsInv'
  <2>1. \A e \in EvalSet \ {d} : FeedInv(e)' /\ Covers(e)'
    BY <1>3, <1>10, OtherKeeps
  <2> QED  BY <1>6, <1>15, <2>1 DEF FeedsInv
<1> QED  BY <1>5, <1>16

-----------------------------------------------------------------------------
(* The theorems                                                            *)

LEMMA TrainingKeeps ==
    ASSUME StepInv, FeedsInv, TrainingNext
    PROVE  StepInv' /\ FeedsInv'
<1> DEFINE Anywhere == {0} \cup {c.steps : c \in saved}
<1>1. \A net : Checkpoints(net) \subseteq Anywhere /\ Checkpoints(net) \cup {0} \subseteq Anywhere
  BY DEF Checkpoints
<1>2. /\ "psm" \in Trainings /\ "xunet" \in Trainings /\ "srnet" \in Trainings
      /\ "test_psm" \in Tests /\ "test_xunet" \in Tests /\ "test_srnet" \in Tests
  BY DEF Trainings, Tests
<1>3. ASSUME NEW s \in Trainings \cup Tests, NEW where \in {"initial", "step", "test"},
             NEW m, NEW from, from \subseteq Anywhere,
             m = IF where = "step" THEN TrainingMode
                 ELSE IF where = "initial" THEN Evaluate("valid") ELSE Evaluate("test"),
             Launch(s, where, m, from)
      PROVE  StepInv' /\ FeedsInv'
  <2>1. m \in [data : EvalSet \cup {"train"}, batch : Nat]
    BY <1>3, Constant
  <2>2. StepInv'
    BY <1>3, <2>1, LaunchKeeps
  <2>3. FeedsInv'
    BY <1>3, FreshKeeps DEF Launch
  <2> QED  BY <2>2, <2>3
<1>4. CASE TrainPsm \/ TrainXuNet
  BY <1>1, <1>2, <1>3, <1>4 DEF TrainPsm, TrainXuNet
<1>5. CASE TrainSRNet
  BY <1>1, <1>2, <1>3, <1>5 DEF TrainSRNet
<1>6. CASE TestPsm \/ TestXuNet \/ TestSRNet
  BY <1>1, <1>2, <1>3, <1>6 DEF TestPsm, TestXuNet, TestSRNet
<1>7. CASE TrainStep
  BY <1>7, TrainStepKeeps
<1>8. CASE Save
  BY <1>8, SaveKeeps
<1>9. CASE Finish
  <2>1. crashes' \in 0..MaxCrashes
    BY <1>9 DEF Finish, StepInv, TrainingTypeOK
  <2> QED  BY <1>9, <2>1, EndKeeps DEF Finish
<1>10. CASE Crash
  <2>1. crashes' \in 0..MaxCrashes
    BY <1>10, Constant DEF Crash, StepInv, TrainingTypeOK
  <2> QED  BY <1>10, <2>1, EndKeeps DEF Crash
<1>11. CASE \E d \in EvalSet : Feed(d) \/ EvalBatch(d) \/ Report(d)
  BY <1>11, FeedKeeps, EvalBatchKeeps, ReportKeeps
<1> QED  BY <1>4, <1>5, <1>6, <1>7, <1>8, <1>9, <1>10, <1>11 DEF TrainingNext

LEMMA StepKeeps ==
    ASSUME StepInv, FeedsInv, [Next]_vars
    PROVE  StepInv' /\ FeedsInv'
<1>1. CASE Train
  BY <1>1, TrainingKeeps DEF Train
<1>2. CASE UNCHANGED <<process, queues, sums, averages, saved, leaked>> /\ crashes' \in 0..MaxCrashes
  <2>1. FeedsInv'
    BY <1>2, FeedsAlone DEF queues, sums, averages
  <2>2. StepInv'
    BY <1>2 DEF StepInv, TrainingTypeOK, Evaluating, process, queues, sums, averages
  <2> QED  BY <2>1, <2>2
<1>3. CASE Start \/ Detection \/ UNCHANGED vars
  <2>1. UNCHANGED trainingVars
    BY <1>3 DEF Start, Detection, vars
  <2>2. crashes' \in 0..MaxCrashes
    BY <2>1 DEF trainingVars, StepInv, TrainingTypeOK
  <2> QED  BY <1>2, <2>1, <2>2 DEF trainingVars
<1>4. CASE Dies
  <2>1. crashes' \in 0..MaxCrashes
    BY <1>4, Constant DEF Dies, StepInv, TrainingTypeOK
  <2> QED  BY <1>2, <1>4, <2>1 DEF Dies
<1> QED  BY <1>1, <1>3, <1>4 DEF Next

\* Checkpoints and evaluations keep their invariants in every run of scripts.
THEOREM ScriptsInvariant == Spec => [](StepInv /\ FeedsInv)
<1>1. Init => StepInv /\ FeedsInv
  BY Initial
<1>2. (StepInv /\ FeedsInv) /\ [Next]_vars => (StepInv /\ FeedsInv)'
  BY StepKeeps
<1> QED  BY <1>1, <1>2, PTL DEF Spec

\* A checkpoint holds as many steps of training as its name says, whatever was
\* evaluated between them and however often the process died.
THEOREM CheckpointsCorrect == Spec => []ModelsHoldTheirSteps
<1>1. StepInv => ModelsHoldTheirSteps
  BY DEF StepInv, ModelsHoldTheirSteps
<1> QED  BY <1>1, ScriptsInvariant, PTL

\* Every evaluation is one over each image of the set exactly once, for sets,
\* batches, queues and intervals of any size.
THEOREM EvaluationsCorrect == Spec => []EvaluationsCoverTheSet
<1>1. FeedsInv => EvaluationsCoverTheSet
  BY DEF FeedsInv, Covers, EvaluationsCoverTheSet
<1> QED  BY <1>1, ScriptsInvariant, PTL

-----------------------------------------------------------------------------
(* Detection: the invariants                                               *)

\* What is recorded for the i-th measurement of a slot.
Entry(s, i) == [rate |-> Measurements(s)[i].rate, acc |-> measured[s][i]]

\* A record is of one of the slot's measurements.
OneOf(f, s) == cfg[f][s] = Unpruned \/ \E i \in DOMAIN measured[s] : cfg[f][s] = Entry(s, i)

RecordInv ==
    \A s \in Slot :
        /\ measured[s] # <<>> => Len(measured[s]) = Len(Measurements(s))
        /\ \A f \in File : OneOf(f, s)

\* i is recorded after the measurements 1..a.  It may lie beyond them, found
\* by an earlier script, as long as none of them was good enough to replace it.
BestIs(f, s, a, i) ==
    LET Good(j) == Within(f, measured[s][j])
    IN  /\ cfg[f][s] = Entry(s, i)
        /\ \A j \in 1..a : j > i \/ i > a => ~Good(j) /\ measured[s][j] < measured[s][i]
        /\ (\E j \in 1..a : Good(j)) => measured[s][i] + Threshold[f] >= Reference
        /\ (\A j \in 1..a : ~Good(j)) => \A j \in 1..a : measured[s][j] <= measured[s][i]

Best(f, s, a) == a > 0 => \E i \in DOMAIN measured[s] : BestIs(f, s, a, i)

\* How many measurements the script may have compared with its n-th file (which
\* may be on the list twice).
Compared(n) ==
    IF phase = "measure" THEN {at - 1} ELSE IF n < nth THEN {at} ELSE {at - 1, at}

\* The script creates files only while it sets up, and never one that records a
\* slot that is complete.
ScriptInv ==
    phase # "off" =>
        /\ slot \in Slot /\ slot \notin complete
        /\ Len(measured[slot]) = Len(Measurements(slot))
        /\ nth >= 1 /\ at >= 1
        /\ phase \in {"setup", "initial"} =>
            LET files == SetupFiles[SlotNet(slot)]
            IN  /\ at = 1
                /\ \A n \in DOMAIN files : n < nth => text[files[n]] # "absent"
                /\ phase = "initial" =>
                    /\ nth \in DOMAIN files
                    /\ \A s \in complete : files[nth] \notin ToSet(FilesOf[s])
        /\ phase \in {"measure", "compare", "write"} =>
            /\ \A f \in ToSet(FilesOf[slot]) : text[f] # "absent"
            /\ at <= Len(Measurements(slot)) + 1
            /\ phase # "measure" => at <= Len(Measurements(slot))
            /\ \A n \in DOMAIN FilesOf[slot] :
                \E a \in Compared(n) : Best(FilesOf[slot][n], slot, a)
        /\ phase = "write" =>
            /\ nth \in DOMAIN FilesOf[slot]
            /\ Records(FilesOf[slot][nth], measured[slot][at])

CompleteInv ==
    \A s \in complete : \A f \in ToSet(FilesOf[s]) :
        text[f] # "absent" /\ Best(f, s, Len(Measurements(s)))

DetectInv == DetectTypeOK /\ RecordInv /\ ScriptInv /\ CompleteInv

-----------------------------------------------------------------------------
(* Detection: the measurements                                             *)

Measurement == [rate : 0..Parts, channels : Int]

LEMMA Times ==
    ASSUME NEW a \in Int, NEW b \in Int, NEW n \in Nat \ {0}
    PROVE  a * n \in Int /\ (a <= b <=> a * n <= b * n)
  BY Z3

\* Division rounds down.
LEMMA Division ==
    ASSUME NEW a \in Nat, NEW n \in Nat \ {0}
    PROVE  /\ a \div n \in Nat
           /\ (a \div n) * n <= a /\ a < (a \div n) * n + n
           /\ \A q \in Int : q * n <= a => q <= a \div n
<1>1. /\ a \div n \in Int /\ (a \div n) * n <= a /\ a < (a \div n) * n + n
      /\ (a \div n) * n \in Int
  BY Z3
<1> DEFINE d == a \div n
<1>2. d \in Int /\ d * n <= a /\ a < d * n + n /\ d * n \in Int
  BY <1>1
<1> HIDE DEF d
<1>3. (d + 1) * n = d * n + n
  BY <1>2, Z3
<1>4. ASSUME NEW q \in Int, q * n <= a PROVE q <= d
  <2>1. q * n \in Int
    BY Times
  <2>2. ~((d + 1) * n <= q * n)
    BY <1>2, <1>3, <1>4, <2>1
  <2>3. ~(d + 1 <= q)
    BY <1>2, <2>2, Times
  <2> QED  BY <1>2, <2>3
<1>5. 0 * n <= a
  OBVIOUS
<1>6. d \in Nat
  BY <1>2, <1>4, <1>5
<1> QED  BY <1>2, <1>4, <1>6 DEF d

LEMMA Greater ==
    ASSUME NEW a \in Int, NEW b \in Int
    PROVE  Max({a, b}) \in {a, b} /\ Max({a, b}) >= a /\ Max({a, b}) >= b
<1>1. \E x \in {a, b} : \A y \in {a, b} : x >= y
  OBVIOUS
<1>2. Max({a, b}) \in {a, b} /\ \A y \in {a, b} : Max({a, b}) >= y
  BY <1>1 DEF Max
<1> QED  BY <1>2

LEMMA Counterexample ==
    ASSUME NEW S \in SUBSET Nat, S # {}
    PROVE  \E n \in S : \A m \in S : n <= m
<1> DEFINE R == OpToRel(<, Nat)
<1>1. IsWellFoundedOn(R, Nat)
  BY NatLessThanWellFounded
<1> HIDE DEF R
<1>2. PICK n \in S : \A m \in S : <<m, n>> \notin R
  BY <1>1, WFMin
<1>3. \A m \in S : ~(m < n)
  BY <1>2 DEF R, OpToRel
<1> QED  BY <1>2, <1>3

LEMMA Sizes ==
    ASSUME NEW s \in Slot
    PROVE  /\ Channels[s] \in Nat \ {0, 1} /\ Parts \in Nat \ {0, 1} /\ 1..Parts - 1 \subseteq 1..Parts
           /\ \A n \in 0..Parts : n * Channels[s] \in Nat
  BY DetectAssumption

LEMMA GoneWhenDueFacts ==
    ASSUME NEW s \in Slot, NEW n \in 1..Parts
    PROVE  /\ GoneWhenDue(n, s) \in Nat
           /\ n * Channels[s] <= GoneWhenDue(n, s) * Parts
           /\ n = 1 => GoneWhenDue(n, s) <= Channels[s]
<1> DEFINE c == Channels[s]
           x == n * c
           q == (x + Parts - 1) \div Parts
           l == IF n \in RoundsUp /\ x % Parts = 0 THEN 1 ELSE 0
<1>1. c \in Nat \ {0, 1} /\ Parts \in Nat \ {0, 1} /\ x \in Nat /\ x + Parts - 1 \in Nat
  BY Sizes
<1>2. q \in Nat /\ q * Parts <= x + Parts - 1 /\ x + Parts - 1 < q * Parts + Parts
  BY <1>1, Division
<1>3. l \in {0, 1} /\ GoneWhenDue(n, s) = q + l
  BY DEF GoneWhenDue
<1>4. q * Parts \in Nat /\ (q + l) * Parts = q * Parts + l * Parts /\ l * Parts \in Nat
  <2> HIDE DEF q, l
  <2> QED  BY <1>1, <1>2, <1>3, Z3
<1>5. x <= (q + l) * Parts
  <2> HIDE DEF q, l, x
  <2> QED  BY <1>1, <1>2, <1>4
<1>6. CASE n # 1
  BY <1>2, <1>3, <1>5, <1>6
<1>7. ASSUME n = 1 PROVE q + l <= c
  <2>1. x = c
    BY <1>1, <1>7
  <2>2. PICK k \in Nat, r \in 0..Parts - 1 : c = k * Parts + r /\ c % Parts = r
    BY <1>1, Quotient
  <2>3. k * Parts \in Nat /\ (k + 1) * Parts = k * Parts + Parts
        /\ (k + 2) * Parts = k * Parts + Parts + Parts
    BY <1>1, Z3
  <2>4. r = 0 => q <= k
    <3> SUFFICES ASSUME r = 0, ~(q <= k) PROVE FALSE
      BY <1>2
    <3>1. (k + 1) * Parts <= q * Parts
      BY <1>1, <1>2, Times
    <3> HIDE DEF q, x, c
    <3> QED  BY <1>1, <1>2, <1>4, <2>1, <2>2, <2>3, <3>1
  <2>5. q <= k + 1
    <3> SUFFICES ASSUME ~(q <= k + 1) PROVE FALSE
      BY <1>2
    <3>1. (k + 2) * Parts <= q * Parts
      BY <1>1, <1>2, Times
    <3> HIDE DEF q, x, c
    <3> QED  BY <1>1, <1>2, <1>4, <2>1, <2>2, <2>3, <3>1
  <2>6. k + k <= k * Parts
    BY <1>1, Z3
  <2>7. l = 1 => r = 0
    BY <2>1, <2>2
  <2> HIDE DEF q, x, c, l
  <2> QED  BY <1>1, <1>2, <1>3, <2>2, <2>3, <2>4, <2>5, <2>6, <2>7
<1> QED  BY <1>2, <1>3, <1>5, <1>6, <1>7

\* The recursion that defines Removed has a solution: a counterexample to its
\* solution up to some number would have a least one, and that can be extended.
LEMMA RemovedDefined ==
    ASSUME NEW s \in Slot
    PROVE  /\ DOMAIN Removed(s) = 0..Parts
           /\ Removed(s)[0] = 0
           /\ \A n \in 1..Parts :
                Removed(s)[n] = Max({Removed(s)[n - 1] + 1, GoneWhenDue(n, s)})
<1> DEFINE Solves(g, k) ==
             g = [n \in 0..k |-> IF n = 0 THEN 0 ELSE Max({g[n - 1] + 1, GoneWhenDue(n, s)})]
           Bad == {k \in Nat : ~ \E g : Solves(g, k)}
<1>1. Bad = {}
  <2> SUFFICES ASSUME Bad # {} PROVE FALSE
    OBVIOUS
  <2>1. PICK k \in Bad : \A m \in Bad : k <= m
    <3>1. Bad \in SUBSET Nat
      OBVIOUS
    <3> HIDE DEF Bad
    <3> QED  BY <3>1, Counterexample
  <2>2. k \in Nat /\ ~ \E g : Solves(g, k)
    OBVIOUS
  <2>3. k # 0
    <3> DEFINE z == [n \in 0..0 |-> 0]
    <3>1. z = [n \in 0..0 |-> IF n = 0 THEN 0 ELSE Max({z[n - 1] + 1, GoneWhenDue(n, s)})]
      OBVIOUS
    <3>2. Solves(z, 0)
      BY <3>1
    <3> HIDE DEF z, Solves
    <3>3. \A m : m = 0 => \E g : Solves(g, m)
      BY <3>2
    <3> QED  BY <2>2, <3>3, Zenon
  <2>4. k - 1 \in Nat /\ k - 1 \notin Bad
    <3> HIDE DEF Bad, Solves
    <3> QED  BY <2>1, <2>2, <2>3
  <2>5. PICK f : Solves(f, k - 1)
    BY <2>4
  <2> DEFINE top == Max({f[k - 1] + 1, GoneWhenDue(k, s)})
             g == [n \in 0..k |-> IF n < k THEN f[n] ELSE top]
  <2>6. ASSUME NEW n \in 0..k
        PROVE  g[n] = IF n = 0 THEN 0 ELSE Max({g[n - 1] + 1, GoneWhenDue(n, s)})
    <3>1. CASE n = 0
      <4>1. 0 \in 0..k - 1 /\ 0 < k
        BY <2>4
      <4>2. f[0] = 0
        BY <2>5, <4>1
      <4> QED  BY <3>1, <4>1, <4>2
    <3>2. CASE n # 0 /\ n < k
      <4>1. n \in 0..k - 1 /\ n - 1 \in 0..k /\ n - 1 < k
        BY <2>2, <3>2
      <4>2. g[n] = f[n] /\ g[n - 1] = f[n - 1]
        BY <3>2, <4>1
      <4>3. f[n] = IF n = 0 THEN 0 ELSE Max({f[n - 1] + 1, GoneWhenDue(n, s)})
        <5> HIDE DEF g
        <5> QED  BY <2>5, <4>1
      <4> QED  BY <3>2, <4>2, <4>3
    <3>3. CASE n # 0 /\ ~(n < k)
      <4>1. n = k /\ n - 1 \in 0..k /\ n - 1 < k
        BY <2>2, <3>3
      <4>2. g[n] = top /\ g[n - 1] = f[n - 1]
        BY <3>3, <4>1
      <4> QED  BY <3>3, <4>1, <4>2
    <3> QED  BY <3>1, <3>2, <3>3
  <2>7. Solves(g, k)
    <3>1. g = [n \in 0..k |-> g[n]]
      OBVIOUS
    <3> HIDE DEF g
    <3> QED  BY <2>6, <3>1
  <2> QED  BY <2>2, <2>7
<1>2. \E g : Solves(g, Parts)
  BY <1>1, DetectAssumption
<1>3. Removed(s) = [n \in 0..Parts |->
        IF n = 0 THEN 0 ELSE Max({Removed(s)[n - 1] + 1, GoneWhenDue(n, s)})]
  <2>1. Removed(s) = CHOOSE g : Solves(g, Parts)
    BY DEF Removed
  <2>2. Solves(CHOOSE g : Solves(g, Parts), Parts)
    BY <1>2
  <2> QED  BY <2>1, <2>2
<1>4. 0 \in 0..Parts /\ 1..Parts \subseteq 0..Parts
  BY DetectAssumption
<1> HIDE DEF Bad, Solves
<1>5. DOMAIN Removed(s) = 0..Parts /\ Removed(s)[0] = 0
  BY <1>3, <1>4
<1>6. ASSUME NEW n \in 1..Parts
      PROVE  Removed(s)[n] = Max({Removed(s)[n - 1] + 1, GoneWhenDue(n, s)})
  <2>1. n \in 0..Parts /\ n # 0
    BY <1>4
  <2> QED  BY <1>3, <2>1
<1> QED  BY <1>5, <1>6

LEMMA RemovedFacts ==
    ASSUME NEW s \in Slot
    PROVE  \A n \in 1..Parts :
            /\ Removed(s)[n] \in Nat
            /\ Removed(s)[n] > Removed(s)[n - 1]
            /\ n * Channels[s] <= Removed(s)[n] * Parts
            /\ n = 1 => Removed(s)[n] <= Channels[s]
<1> DEFINE r == Removed(s)
<1>0. Parts \in Nat /\ \A n \in 1..Parts : n * Channels[s] \in Nat
  BY Sizes
<1>1. \A n \in 0..Parts : r[n] \in Nat
  <2> DEFINE Bad == {n \in 0..Parts : r[n] \notin Nat}
  <2> SUFFICES ASSUME Bad # {} PROVE FALSE
    OBVIOUS
  <2>1. PICK k \in Bad : \A m \in Bad : k <= m
    <3>1. Bad \in SUBSET Nat
      BY <1>0
    <3> HIDE DEF Bad
    <3> QED  BY <3>1, Counterexample
  <2>2. k # 0
    BY RemovedDefined
  <2>3. k \in 1..Parts /\ k - 1 \in 0..Parts /\ k - 1 \notin Bad
    BY <1>0, <2>1, <2>2
  <2>4. r[k - 1] + 1 \in Nat /\ GoneWhenDue(k, s) \in Nat
    BY <2>3, GoneWhenDueFacts
  <2>5. r[k] = Max({r[k - 1] + 1, GoneWhenDue(k, s)})
    BY <2>3, RemovedDefined, Zenon
  <2>6. Max({r[k - 1] + 1, GoneWhenDue(k, s)}) \in {r[k - 1] + 1, GoneWhenDue(k, s)}
    <3> HIDE DEF Bad, r
    <3>1. r[k - 1] + 1 \in Int /\ GoneWhenDue(k, s) \in Int
      BY <2>4
    <3> QED  BY <3>1, Greater, Zenon
  <2> QED  BY <2>4, <2>5, <2>6
<1>2. ASSUME NEW n \in 1..Parts
      PROVE  r[n] > r[n - 1] /\ n * Channels[s] <= r[n] * Parts /\ (n = 1 => r[n] <= Channels[s])
  <2>1. /\ n \in 0..Parts /\ n - 1 \in 0..Parts /\ r[n] \in Nat /\ r[n - 1] \in Nat
        /\ n * Channels[s] \in Nat
    BY <1>0, <1>1
  <2>2. GoneWhenDue(n, s) \in Nat /\ n * Channels[s] <= GoneWhenDue(n, s) * Parts
    BY GoneWhenDueFacts
  <2>3. /\ r[n] \in {r[n - 1] + 1, GoneWhenDue(n, s)}
        /\ r[n] >= r[n - 1] + 1 /\ r[n] >= GoneWhenDue(n, s)
    <3>1. r[n] = Max({r[n - 1] + 1, GoneWhenDue(n, s)})
      BY RemovedDefined
    <3>2. r[n - 1] + 1 \in Int /\ GoneWhenDue(n, s) \in Int
      BY <2>1, <2>2
    <3> HIDE DEF r
    <3> QED  BY <3>1, <3>2, Greater
  <2>4. GoneWhenDue(n, s) * Parts <= r[n] * Parts /\ GoneWhenDue(n, s) * Parts \in Int
        /\ r[n] * Parts \in Int
    BY <2>1, <2>2, <2>3, Times, Sizes
  <2>5. n = 1 => r[n] <= Channels[s]
    <3>1. n = 1 => r[n - 1] + 1 = 1
      BY RemovedDefined
    <3>2. n = 1 => GoneWhenDue(n, s) <= Channels[s]
      BY GoneWhenDueFacts
    <3> QED  BY <2>3, <3>1, <3>2, Sizes
  <2> HIDE DEF r
  <2> QED  BY <2>1, <2>2, <2>3, <2>4, <2>5
<1> QED  BY <1>1, <1>2, <1>0

LEMMA PassingFacts ==
    ASSUME NEW M, NEW all \in Seq(M), NEW least
    PROVE  /\ Passing(all, least) \in Seq(M)
           /\ Len(Passing(all, least)) <= Len(all)
           /\ \A n \in 1..Len(Passing(all, least)) : Passing(all, least)[n] = all[n]
           /\ (\E n \in 1..Len(all) : all[n].channels >= least) => Len(Passing(all, least)) >= 1
<1> DEFINE P == {n \in DOMAIN all : all[n].channels >= least}
           k == Cardinality(P)
<1>1. /\ Len(all) \in Nat /\ DOMAIN all = 1..Len(all)
      /\ IsFiniteSet(1..Len(all)) /\ Cardinality(1..Len(all)) = Len(all)
  <2>1. Len(all) \in Nat /\ DOMAIN all = 1..Len(all)
    OBVIOUS
  <2>2. /\ IsFiniteSet(1..Len(all))
        /\ Cardinality(1..Len(all)) = IF 1 > Len(all) THEN 0 ELSE Len(all) - 1 + 1
    BY <2>1, FS_Interval
  <2> QED  BY <2>1, <2>2
<1>2. IsFiniteSet(P) /\ k \in Nat /\ k <= Len(all) /\ (P # {} => k # 0)
  <2>1. P \in SUBSET (1..Len(all))
    BY <1>1
  <2> HIDE DEF P
  <2>2. IsFiniteSet(P) /\ Cardinality(P) <= Len(all)
    <3>1. IsFiniteSet(P) /\ Cardinality(P) <= Cardinality(1..Len(all))
      BY <1>1, <2>1, FS_Subset, Zenon
    <3> QED  BY <1>1, <3>1
  <2>3. k \in Nat /\ (P # {} => k # 0)
    BY <2>2, FS_CardinalityType, FS_EmptySet
  <2> QED  BY <2>2, <2>3
<1>3. Passing(all, least) = SubSeq(all, 1, k)
  BY DEF Passing
<1> HIDE DEF k
<1>4. /\ SubSeq(all, 1, k) \in Seq(M) /\ Len(SubSeq(all, 1, k)) = k
      /\ \A n \in 1..k : SubSeq(all, 1, k)[n] = all[n]
  <2>1. \A n \in 1..k : n \in 1..Len(all) /\ all[n] \in M
    BY <1>1, <1>2
  <2> QED  BY <1>1, <1>2, <2>1, SubSeqProperties
<1>5. (\E n \in 1..Len(all) : all[n].channels >= least) => P # {}
  BY <1>1
<1> QED  BY <1>1, <1>2, <1>3, <1>4, <1>5

LEMMA WidthFacts ==
    ASSUME NEW s \in Slot, NEW n \in 0..Parts
    PROVE  /\ Channels[s] * (Parts - n) \in Nat /\ Width(n, s) \in Nat
           /\ Length(n, s) = Width(n, s)
           /\ \A g \in Nat : n * Channels[s] <= g * Parts => Width(n, s) >= Channels[s] - g
           /\ n = 1 => Width(n, s) >= 1
<1> DEFINE c == Channels[s]
           y == c * (Parts - n)
<1>1. /\ c \in Nat \ {0, 1} /\ Parts \in Nat \ {0, 1} /\ Parts - n \in Nat
      /\ n * c \in Nat
  BY Sizes
<1>2. /\ y \in Nat /\ y = (Parts - n) * c
  <2> HIDE DEF c
  <2> QED  BY <1>1, Z3
<1>3. y = c * Parts - n * c /\ c * Parts \in Nat
  <2> HIDE DEF c
  <2> QED  BY <1>1, Z3
<1>4. Width(n, s) = y \div Parts /\ Length(n, s) = y \div Parts
  BY <1>2 DEF Width, Length
<1>5. y \div Parts \in Nat /\ \A q \in Int : q * Parts <= y => q <= y \div Parts
  BY <1>1, <1>2, Division
<1>6. ASSUME NEW g \in Nat, n * c <= g * Parts
      PROVE  y \div Parts >= c - g
  <2>1. (c - g) * Parts = c * Parts - g * Parts /\ g * Parts \in Nat
    <3> HIDE DEF c
    <3> QED  BY <1>1, Z3
  <2>2. (c - g) * Parts <= y /\ c - g \in Int
    <3> HIDE DEF c, y
    <3> QED  BY <1>1, <1>3, <1>6, <2>1
  <2>3. c - g <= y \div Parts
    BY <1>5, <2>2
  <2> HIDE DEF c, y
  <2> QED  BY <1>5, <2>2, <2>3
<1>7. ASSUME n = 1 PROVE 1 <= y \div Parts
  <2>1. 2 * (Parts - 1) <= c * (Parts - 1)
    BY <1>1, Times
  <2>2. 1 * Parts <= y
    BY <1>1, <1>7, <2>1
  <2> QED  BY <1>5, <2>2
<1> QED  BY <1>2, <1>4, <1>5, <1>6, <1>7

\* A slot has a measurement at least, the n-th of rate n, and the network that is
\* built for its rate is no narrower than the one it measures.
LEMMA MeasurementFacts ==
    ASSUME NEW s \in Slot
    PROVE  /\ Measurements(s) \in Seq(Measurement)
           /\ Len(Measurements(s)) \in 1..Parts
           /\ \A n \in 1..Len(Measurements(s)) :
                /\ Measurements(s)[n].rate = n
                /\ Width(n, s) >= Measurements(s)[n].channels
<1> DEFINE Fits(all) ==
             /\ all \in Seq(Measurement) /\ Len(all) \in 1..Parts
             /\ \A n \in 1..Len(all) : all[n].rate = n /\ Width(n, s) >= all[n].channels
<1>1. ASSUME NEW all, Fits(all), NEW least, all[1].channels >= least
      PROVE  Fits(Passing(all, least))
  <2> DEFINE p == Passing(all, least)
  <2>1. 1 \in 1..Len(all)
    BY <1>1, DetectAssumption
  <2>2. /\ p \in Seq(Measurement) /\ Len(p) <= Len(all) /\ Len(p) >= 1
        /\ \A n \in 1..Len(p) : p[n] = all[n]
    BY <1>1, <2>1, PassingFacts
  <2> HIDE DEF p
  <2>3. Len(p) \in 1..Parts /\ 1..Len(p) \subseteq 1..Len(all)
    BY <1>1, <2>2, DetectAssumption
  <2> QED  BY <1>1, <2>2, <2>3 DEF p
<1>2. Fits(Rising(s)) /\ Rising(s)[1].channels >= 1
  <2> DEFINE all == Rising(s)
  <2>1. /\ Parts - 1 \in 1..Parts /\ Parts \in Nat /\ 1 \in 1..Parts - 1
        /\ 1..Parts - 1 \subseteq 0..Parts
    BY DetectAssumption
  <2>2. /\ DOMAIN all = 1..Parts - 1
        /\ \A n \in 1..Parts - 1 : all[n] = [rate |-> n, channels |-> Length(n, s)]
    BY DEF Rising
  <2>3. ASSUME NEW n \in 1..Parts - 1
        PROVE  all[n] \in Measurement /\ all[n].rate = n /\ Width(n, s) >= all[n].channels
               /\ (n = 1 => all[n].channels >= 1)
    <3>1. n \in 0..Parts
      BY <2>1
    <3>2. Length(n, s) = Width(n, s) /\ Width(n, s) \in Nat /\ (n = 1 => Width(n, s) >= 1)
      BY <3>1, WidthFacts
    <3> HIDE DEF all
    <3> QED  BY <2>2, <3>1, <3>2 DEF Measurement
  <2>4. all \in [1..Parts - 1 -> Measurement]
    BY <2>3 DEF Rising
  <2>5. all \in Seq(Measurement) /\ Len(all) = Parts - 1
    <3> HIDE DEF all
    <3> QED  BY <2>1, <2>4
  <2> HIDE DEF all
  <2> QED  BY <2>1, <2>3, <2>5 DEF all
<1>3. Fits(XuNetThinetMeasurements(s))
  <2> DEFINE all == [n \in 1..Parts |-> [rate |-> n, channels |-> Channels[s] - Removed(s)[n]]]
  <2>1. ASSUME NEW n \in 1..Parts
        PROVE  all[n] \in Measurement /\ all[n].rate = n /\ Width(n, s) >= all[n].channels
               /\ (n = 1 => all[n].channels >= 0)
    <3>1. n \in 0..Parts /\ Channels[s] \in Nat
      BY Sizes
    <3>2. /\ Removed(s)[n] \in Nat /\ n * Channels[s] <= Removed(s)[n] * Parts
          /\ (n = 1 => Removed(s)[n] <= Channels[s])
      BY RemovedFacts
    <3>3. Width(n, s) >= Channels[s] - Removed(s)[n]
      BY <3>1, <3>2, WidthFacts
    <3>4. all[n] = [rate |-> n, channels |-> Channels[s] - Removed(s)[n]]
      OBVIOUS
    <3> HIDE DEF all
    <3> QED  BY <3>1, <3>2, <3>3, <3>4 DEF Measurement
  <2>2. all \in [1..Parts -> Measurement]
    BY <2>1
  <2>3. XuNetThinetMeasurements(s) = Passing(all, 0)
    BY DEF XuNetThinetMeasurements
  <2> HIDE DEF all
  <2>4. /\ all \in Seq(Measurement) /\ Len(all) = Parts /\ Parts \in 1..Parts
        /\ 1 \in 1..Parts
    BY <2>2, DetectAssumption
  <2>5. Fits(all) /\ all[1].channels >= 0
    BY <2>1, <2>4
  <2> HIDE DEF Fits
  <2> QED  BY <1>1, <2>3, <2>5
<1>4. Fits(ThinetMeasurements(s)) /\ Fits(LiMeasurements(s)) /\ Fits(XuNetLiMeasurements(s))
  <2> HIDE DEF Fits
  <2> QED  BY <1>1, <1>2 DEF ThinetMeasurements, LiMeasurements, XuNetLiMeasurements
<1>5. Fits(Measurements(s))
  <2>1. Method[s] \in {"thinet", "li", "xunet_thinet", "xunet_li"}
    BY DetectAssumption
  <2> HIDE DEF Fits
  <2> QED  BY <1>3, <1>4, <2>1 DEF Measurements
<1> QED  BY <1>5

\* If channels fall, what passes is exactly what leaves enough of them.
LEMMA PassingExact ==
    ASSUME NEW M, NEW all \in Seq(M), NEW least \in Int,
           \A n \in 1..Len(all) : all[n].channels \in Int,
           \A i, j \in 1..Len(all) : i < j => all[j].channels <= all[i].channels
    PROVE  \A n \in 1..Len(all) : n <= Len(Passing(all, least)) <=> all[n].channels >= least
<1> DEFINE l == Len(all)
           P == {n \in DOMAIN all : all[n].channels >= least}
<1>1. l \in Nat /\ DOMAIN all = 1..l
  OBVIOUS
<1>2. PICK k \in 0..l : P = 1..k
  <2>1. CASE P = 1..l
    BY <1>1, <2>1
  <2>2. CASE P # 1..l
    <3> DEFINE Rest == {n \in 1..l : n \notin P}
    <3>1. Rest \in SUBSET Nat /\ Rest # {}
      BY <1>1, <2>2
    <3> HIDE DEF Rest
    <3>2. PICK n \in Rest : \A m \in Rest : n <= m
      BY <3>1, Counterexample
    <3>3. n \in 1..l /\ n \notin P /\ n - 1 \in 0..l
      BY <1>1, <3>2 DEF Rest
    <3>4. ASSUME NEW i \in 1..l PROVE i \in P <=> i <= n - 1
      <4>1. i <= n - 1 => i \in P
        BY <1>1, <3>2, <3>3 DEF Rest
      <4>2. i > n => all[i].channels <= all[n].channels
        BY <3>3
      <4>3. i \in P => ~(i > n) /\ i # n
        BY <1>1, <3>3, <4>2
      <4> QED  BY <3>3, <4>1, <4>3
    <3>5. P \subseteq 1..l /\ 1..n - 1 \subseteq 1..l
      BY <1>1, <3>3
    <3>6. P = 1..n - 1
      <4> HIDE DEF P
      <4>1. \A i \in P : i \in 1..l /\ i <= n - 1
        BY <3>4, <3>5
      <4>2. P \subseteq 1..n - 1
        BY <3>3, <4>1
      <4>3. \A i \in 1..n - 1 : i \in 1..l /\ i <= n - 1
        BY <3>3, <3>5
      <4>4. 1..n - 1 \subseteq P
        BY <3>4, <4>3
      <4> QED  BY <4>2, <4>4
    <3> QED  BY <3>3, <3>6
  <2> QED  BY <2>1, <2>2
<1>3. Cardinality(P) = k
  <2>1. k \in Nat /\ 1 \in Int /\ k \in Int
    BY <1>1
  <2>2. Cardinality(1..k) = IF 1 > k THEN 0 ELSE k - 1 + 1
    BY <2>1, FS_Interval, Zenon
  <2> HIDE DEF P
  <2> QED  BY <1>2, <2>1, <2>2
<1> HIDE DEF P
<1>4. Len(Passing(all, least)) = k
  <2>1. \A n \in 1..k : all[n] \in M
    BY <1>1
  <2> QED  BY <1>1, <1>3, <2>1, SubSeqProperties DEF Passing, P
<1> QED  BY <1>1, <1>2, <1>4 DEF P

LEMMA PassingMeasurements ==
    ASSUME NEW all \in Seq(Measurement), NEW least \in Int,
           \A i, j \in 1..Len(all) : i < j => all[j].channels <= all[i].channels
    PROVE  DOMAIN Passing(all, least) = {n \in 1..Len(all) : all[n].channels >= least}
<1> DEFINE p == Passing(all, least)
<1>1. p \in Seq(Measurement) /\ Len(p) <= Len(all)
  BY PassingFacts
<1>2. \A n \in 1..Len(all) : all[n].channels \in Int
  <2>1. \A n \in 1..Len(all) : all[n] \in Measurement
    OBVIOUS
  <2> QED  BY <2>1 DEF Measurement
<1>3. \A n \in 1..Len(all) : n <= Len(p) <=> all[n].channels >= least
  BY <1>2, PassingExact
<1> HIDE DEF p
<1>4. DOMAIN p = 1..Len(p) /\ Len(p) \in Nat /\ Len(all) \in Nat
  BY <1>1
<1> QED  BY <1>1, <1>3, <1>4 DEF p

\* Division keeps the order.
LEMMA DivisionRises ==
    ASSUME NEW a \in Nat, NEW b \in Nat, NEW n \in Nat \ {0}, a <= b
    PROVE  a \div n <= b \div n
<1> DEFINE q == a \div n
<1>1. q \in Nat /\ q * n <= a
  BY Division
<1>2. q * n \in Int
  BY <1>1, Times
<1> HIDE DEF q
<1>3. q * n <= b
  BY <1>1, <1>2
<1>4. q <= b \div n
  BY <1>1, <1>3, Division
<1> QED  BY <1>4 DEF q

LEMMA RemovedRises ==
    ASSUME NEW s \in Slot, NEW i \in 1..Parts, NEW j \in 1..Parts, i < j
    PROVE  Removed(s)[i] <= Removed(s)[j]
<1> DEFINE r == Removed(s)
           Bad == {m \in 1..Parts : m > i /\ ~(r[i] <= r[m])}
<1>1. /\ Parts \in Nat
      /\ \A n \in 1..Parts : r[n] \in Nat /\ r[n] > r[n - 1]
  BY RemovedFacts, Sizes
<1>2. Bad = {}
  <2> SUFFICES ASSUME Bad # {} PROVE FALSE
    OBVIOUS
  <2>1. PICK k \in Bad : \A m \in Bad : k <= m
    <3>1. Bad \in SUBSET Nat
      BY <1>1
    <3> HIDE DEF Bad
    <3> QED  BY <3>1, Counterexample
  <2>2. k \in 1..Parts /\ k > i /\ ~(r[i] <= r[k])
    OBVIOUS
  <2>3. k - 1 \notin Bad
    <3> HIDE DEF Bad
    <3> QED  BY <2>1, <2>2
  <2> HIDE DEF r
  <2>4. k - 1 = i \/ (k - 1 \in 1..Parts /\ k - 1 > i)
    BY <1>1, <2>2
  <2>5. r[i] <= r[k - 1] /\ r[i] \in Nat /\ r[k - 1] \in Nat /\ r[k] \in Nat /\ r[k] > r[k - 1]
    BY <1>1, <2>2, <2>3, <2>4
  <2> QED  BY <2>2, <2>5
<1> QED  BY <1>2

\* The ratios a script measures are exactly those that its loop does not pass
\* over: ThiNet and L1 on SRNet those that leave a channel, L1 on XuNet all of
\* them, ThiNet on XuNet those that are due before the channels run out.
THEOREM MeasuredRatios ==
    ASSUME NEW s \in Slot
    PROVE  /\ Method[s] \in {"thinet", "li"} =>
                DOMAIN Measurements(s) = {r \in 1..Parts - 1 : Length(r, s) >= 1}
           /\ Method[s] = "xunet_li" => DOMAIN Measurements(s) = 1..Parts - 1
           /\ Method[s] = "xunet_thinet" =>
                DOMAIN Measurements(s) = {n \in 1..Parts : Removed(s)[n] <= Channels[s]}
<1>1. /\ Parts \in Nat \ {0, 1} /\ Channels[s] \in Nat /\ 1..Parts - 1 \subseteq 0..Parts
  BY Sizes
<1>2. /\ \A r \in 1..Parts - 1 : Rising(s)[r].channels = Length(r, s)
      /\ Rising(s) \in Seq(Measurement) /\ Len(Rising(s)) = Parts - 1
      /\ DOMAIN Rising(s) = 1..Parts - 1
  <2> DEFINE all == Rising(s)
  <2>1. ASSUME NEW r \in 1..Parts - 1
        PROVE  [rate |-> r, channels |-> Length(r, s)] \in Measurement
    <3>1. r \in 0..Parts
      BY <1>1
    <3>2. Length(r, s) \in Nat
      BY <3>1, WidthFacts
    <3> QED  BY <3>1, <3>2 DEF Measurement
  <2>2. all \in [1..Parts - 1 -> Measurement] /\ \A r \in 1..Parts - 1 : all[r].channels = Length(r, s)
    BY <2>1 DEF Rising
  <2> HIDE DEF all
  <2>3. all \in Seq(Measurement) /\ Len(all) = Parts - 1 /\ DOMAIN all = 1..Parts - 1
    BY <1>1, <2>2
  <2> QED  BY <2>2, <2>3 DEF all
<1>3. DOMAIN Passing(Rising(s), 1) = {r \in 1..Parts - 1 : Length(r, s) >= 1}
  <2>1. ASSUME NEW i \in 1..Parts - 1, NEW j \in 1..Parts - 1, i < j
        PROVE  Length(j, s) <= Length(i, s)
    <3>1. /\ Parts - j \in Int /\ Parts - i \in Int /\ Parts - j <= Parts - i
          /\ i \in 0..Parts /\ j \in 0..Parts
      BY <1>1, <2>1
    <3>2. (Parts - j) * Channels[s] <= (Parts - i) * Channels[s]
      BY <3>1, Times, Sizes
    <3>3. (Parts - j) * Channels[s] \in Nat /\ (Parts - i) * Channels[s] \in Nat
      <4>1. Parts - j \in Nat /\ Parts - i \in Nat
        BY <1>1
      <4> QED  BY <1>1, <4>1
    <3> HIDE DEF Measurement
    <3> QED  BY <1>1, <3>2, <3>3, DivisionRises DEF Length
  <2>2. \A i, j \in 1..Len(Rising(s)) : i < j => Rising(s)[j].channels <= Rising(s)[i].channels
    BY <1>2, <2>1
  <2>3. DOMAIN Passing(Rising(s), 1) = {n \in 1..Len(Rising(s)) : Rising(s)[n].channels >= 1}
    <3>1. 1 \in Int
      OBVIOUS
    <3> QED  BY <1>2, <2>2, <3>1, PassingMeasurements, Zenon
  <2> QED  BY <1>2, <2>3
<1>4. DOMAIN XuNetThinetMeasurements(s) = {n \in 1..Parts : Removed(s)[n] <= Channels[s]}
  <2> DEFINE all == [n \in 1..Parts |-> [rate |-> n, channels |-> Channels[s] - Removed(s)[n]]]
  <2>1. \A n \in 1..Parts : Removed(s)[n] \in Nat /\ n \in 0..Parts
    BY <1>1, RemovedFacts
  <2>2. all \in [1..Parts -> Measurement]
    BY <1>1, <2>1 DEF Measurement
  <2>3. \A n \in 1..Parts : all[n].channels = Channels[s] - Removed(s)[n]
    OBVIOUS
  <2>4. XuNetThinetMeasurements(s) = Passing(all, 0)
    BY DEF XuNetThinetMeasurements
  <2> HIDE DEF all
  <2>5. all \in Seq(Measurement) /\ Len(all) = Parts
    BY <1>1, <2>2
  <2>6. \A i, j \in 1..Len(all) : i < j => all[j].channels <= all[i].channels
    BY <1>1, <2>1, <2>3, <2>5, RemovedRises
  <2>7. DOMAIN Passing(all, 0) = {n \in 1..Len(all) : all[n].channels >= 0}
    <3>1. 0 \in Int
      OBVIOUS
    <3> QED  BY <2>5, <2>6, <3>1, PassingMeasurements, Zenon
  <2>8. \A n \in 1..Parts : all[n].channels >= 0 <=> Removed(s)[n] <= Channels[s]
    BY <1>1, <2>1, <2>3
  <2> QED  BY <2>4, <2>5, <2>7, <2>8
<1> QED  BY <1>2, <1>3, <1>4
         DEF Measurements, ThinetMeasurements, LiMeasurements, XuNetLiMeasurements

-----------------------------------------------------------------------------
(* Detection: what is recorded                                             *)

LEMMA DetectTypes ==
    ASSUME DetectTypeOK, NEW s \in Slot, NEW f \in File
    PROVE  /\ measured[s] \in Seq(Accuracy) /\ Len(measured[s]) \in Nat
           /\ DOMAIN measured[s] = 1..Len(measured[s])
           /\ \A j \in DOMAIN measured[s] : measured[s][j] \in Nat \ {0}
           /\ Threshold[f] \in Nat /\ Reference \in Nat
           /\ cfg[f][s].rate \in 0..Parts /\ cfg[f][s].acc \in Nat
<1>1. measured[s] \in Seq(Accuracy)
  BY DEF DetectTypeOK
<1>2. /\ Len(measured[s]) \in Nat /\ DOMAIN measured[s] = 1..Len(measured[s])
      /\ \A j \in DOMAIN measured[s] : measured[s][j] \in Accuracy
  BY <1>1
<1>3. cfg[f][s] \in [rate : 0..Parts, acc : Accuracy \cup {0}]
  BY DEF DetectTypeOK
<1>4. Accuracy \subseteq Nat \ {0} /\ Threshold[f] \in Nat /\ Reference \in Nat
  BY DetectAssumption
<1>5. cfg[f][s].rate \in 0..Parts /\ cfg[f][s].acc \in Accuracy \cup {0}
  BY <1>3
<1>6. cfg[f][s].acc \in Nat
  <2>1. Accuracy \cup {0} \subseteq Nat
    BY DetectAssumption
  <2> QED  BY <1>5, <2>1, Zenon
<1> QED  BY <1>1, <1>2, <1>4, <1>5, <1>6

LEMMA Files ==
    ASSUME NEW s \in Slot
    PROVE  /\ FilesOf[s] \in Seq(File) /\ Len(FilesOf[s]) \in Nat
           /\ DOMAIN FilesOf[s] = 1..Len(FilesOf[s])
           /\ \A n \in DOMAIN FilesOf[s] : FilesOf[s][n] \in File
           /\ ToSet(FilesOf[s]) \subseteq File
           /\ \A n \in DOMAIN FilesOf[s] : FilesOf[s][n] \in ToSet(FilesOf[s])
           /\ \A f \in ToSet(FilesOf[s]) : \E n \in DOMAIN FilesOf[s] : FilesOf[s][n] = f
<1>1. FilesOf[s] \in Seq(File)
  BY DetectAssumption
<1>2. /\ Len(FilesOf[s]) \in Nat /\ DOMAIN FilesOf[s] = 1..Len(FilesOf[s])
      /\ \A n \in DOMAIN FilesOf[s] : FilesOf[s][n] \in File
  BY <1>1
<1> QED  BY <1>1, <1>2 DEF ToSet

LEMMA FilesOfSetup ==
    ASSUME NEW s \in Slot
    PROVE  LET files == SetupFiles[SlotNet(s)]
           IN  /\ files \in Seq(File) /\ Len(files) \in Nat /\ DOMAIN files = 1..Len(files)
               /\ \A n \in DOMAIN files : files[n] \in File
               /\ \A f \in ToSet(FilesOf[s]) : \E n \in DOMAIN files : files[n] = f
<1> DEFINE files == SetupFiles[SlotNet(s)]
<1>1. files \in Seq(File) /\ ToSet(FilesOf[s]) \subseteq ToSet(files)
  BY DetectAssumption DEF SlotNet
<1> HIDE DEF files
<1>2. /\ Len(files) \in Nat /\ DOMAIN files = 1..Len(files)
      /\ \A n \in DOMAIN files : files[n] \in File
  BY <1>1
<1>3. \A f \in ToSet(FilesOf[s]) : \E n \in DOMAIN files : files[n] = f
  BY <1>1 DEF ToSet
<1> QED  BY <1>1, <1>2, <1>3 DEF files

\* What is best depends on the record and the accuracies alone.
LEMMA BestFrame ==
    ASSUME NEW f, NEW s, NEW a, cfg'[f][s] = cfg[f][s], measured'[s] = measured[s]
    PROVE  Best(f, s, a)' <=> Best(f, s, a)
  BY DEF Best, BestIs, Entry, Within

LEMMA OneOfFrame ==
    ASSUME NEW f, NEW s, cfg'[f][s] = cfg[f][s], measured'[s] = measured[s]
    PROVE  OneOf(f, s)' <=> OneOf(f, s)
  BY DEF OneOf, Entry

\* A measurement that is not recorded is not better than the record.
LEMMA NotRecorded ==
    ASSUME DetectTypeOK, RecordInv, slot \in Slot, NEW f \in File,
           NEW a \in DOMAIN measured[slot], NEW b \in {a - 1, a}, Best(f, slot, b),
           ~Records(f, measured[slot][a])
    PROVE  Best(f, slot, a)
<1> DEFINE m == measured[slot]
<1>1. /\ DOMAIN m = 1..Len(m) /\ Len(m) \in Nat /\ a \in 1..Len(m)
      /\ \A j \in DOMAIN m : m[j] \in Nat \ {0}
      /\ Threshold[f] \in Nat /\ Reference \in Nat /\ cfg[f][slot].acc \in Nat
  BY DetectTypes
<1>2. m[a] < cfg[f][slot].acc /\ ~Within(f, m[a])
  BY <1>1 DEF Records
<1>3. CASE b = a
  BY <1>3
<1>4. CASE b = a - 1
  <2>1. cfg[f][slot] # Unpruned
    BY <1>1, <1>2 DEF Unpruned
  <2>2. PICK i \in DOMAIN m : BestIs(f, slot, a - 1, i)
    <3>1. CASE a - 1 > 0
      BY <1>4, <3>1 DEF Best
    <3>2. CASE ~(a - 1 > 0)
      <4>1. 1..a - 1 = {}
        BY <1>1, <3>2
      <4>2. PICK i \in DOMAIN m : cfg[f][slot] = Entry(slot, i)
        BY <2>1 DEF RecordInv, OneOf
      <4> QED  BY <4>1, <4>2 DEF BestIs
    <3> QED  BY <3>1, <3>2
  <2>3. m[i] = cfg[f][slot].acc /\ i \in 1..Len(m)
    BY <1>1, <2>2 DEF BestIs, Entry
  <2>4. i # a
    BY <1>1, <1>2, <2>3
  <2>5. \A j \in 1..a : j \in 1..a - 1 \/ j = a
    BY <1>1
  <2> HIDE DEF m
  <2>6. \A j \in 1..a : j > i \/ i > a => ~Within(f, m[j]) /\ m[j] < m[i]
    <3>1. ASSUME NEW j \in 1..a - 1, j > i \/ i > a
          PROVE  ~Within(f, m[j]) /\ m[j] < m[i]
      <4>1. j > i \/ i > a - 1
        BY <1>1, <2>3, <3>1
      <4> QED  BY <2>2, <4>1 DEF BestIs, m
    <3> QED  BY <1>2, <2>3, <2>5, <3>1
  <2>7. (\E j \in 1..a : Within(f, m[j])) => m[i] + Threshold[f] >= Reference
    BY <1>2, <2>2, <2>5 DEF BestIs, m
  <2>8. (\A j \in 1..a : ~Within(f, m[j])) => \A j \in 1..a : m[j] <= m[i]
    <3> SUFFICES ASSUME \A j \in 1..a : ~Within(f, m[j]) PROVE \A j \in 1..a : m[j] <= m[i]
      OBVIOUS
    <3>1. \A j \in 1..a - 1 : j \in 1..a
      BY <1>1
    <3>2. \A j \in 1..a - 1 : m[j] <= m[i]
      BY <2>2, <3>1 DEF BestIs, m
    <3>3. m[a] <= m[i]
      BY <1>1, <1>2, <2>3
    <3> QED  BY <2>5, <3>2, <3>3
  <2>9. BestIs(f, slot, a, i)
    BY <2>2, <2>6, <2>7, <2>8 DEF BestIs, m
  <2> QED  BY <2>2, <2>9 DEF Best, m
<1> QED  BY <1>3, <1>4

\* One that is recorded is the best so far.
LEMMA Recorded ==
    ASSUME DetectTypeOK, RecordInv, slot \in Slot, NEW f \in File,
           NEW a \in DOMAIN measured[slot], NEW b \in {a - 1, a}, Best(f, slot, b),
           Records(f, measured[slot][a])
    PROVE  LET Good(j) == Within(f, measured[slot][j])
           IN  /\ (\E j \in 1..a : Good(j)) => measured[slot][a] + Threshold[f] >= Reference
               /\ (\A j \in 1..a : ~Good(j)) =>
                    \A j \in 1..a : measured[slot][j] <= measured[slot][a]
<1> DEFINE m == measured[slot]
<1>1. /\ DOMAIN m = 1..Len(m) /\ Len(m) \in Nat /\ a \in 1..Len(m)
      /\ \A j \in DOMAIN m : m[j] \in Nat \ {0}
      /\ Threshold[f] \in Nat /\ Reference \in Nat
  BY DetectTypes
<1>2. \A j \in 1..a : (j \in 1..b /\ b > 0) \/ j = a
  BY <1>1
<1>3. \A j \in 1..b : j \in 1..a
  BY <1>1
<1>4. Within(f, m[a]) => m[a] + Threshold[f] >= Reference
  BY <1>1 DEF Within
<1>5. CASE b > 0
  <2>1. PICK i \in DOMAIN m : BestIs(f, slot, b, i)
    BY <1>5 DEF Best
  <2>2. m[i] = cfg[f][slot].acc
    BY <2>1 DEF BestIs, Entry
  <2>3. m[i] <= m[a] \/ Within(f, m[a])
    BY <2>2 DEF Records
  <2> HIDE DEF m
  <2>4. ASSUME NEW j \in 1..a, Within(f, m[j])
        PROVE  m[a] + Threshold[f] >= Reference
    <3>1. CASE Within(f, m[a])
      BY <1>4, <3>1
    <3>2. CASE ~Within(f, m[a])
      <4>1. j \in 1..b /\ m[i] <= m[a]
        BY <1>2, <2>3, <2>4, <3>2
      <4>2. m[i] + Threshold[f] >= Reference
        BY <2>1, <2>4, <4>1 DEF BestIs, m
      <4> QED  BY <1>1, <2>1, <4>1, <4>2
    <3> QED  BY <3>1, <3>2
  <2>5. ASSUME \A j \in 1..a : ~Within(f, m[j]), NEW j \in 1..a
        PROVE  m[j] <= m[a]
    <3>1. m[i] <= m[a]
      BY <1>1, <2>3, <2>5
    <3>2. j \in 1..b => m[j] <= m[i]
      BY <1>3, <2>1, <2>5 DEF BestIs, m
    <3>3. m[j] \in Nat /\ m[i] \in Nat /\ m[a] \in Nat
      BY <1>1, <2>1
    <3> QED  BY <1>2, <3>1, <3>2, <3>3
  <2> QED  BY <2>4, <2>5 DEF m
<1>6. CASE ~(b > 0)
  <2>1. \A j \in 1..a : j = a
    BY <1>2, <1>6
  <2>2. m[a] <= m[a]
    BY <1>1
  <2> QED  BY <1>4, <2>1, <2>2
<1> QED  BY <1>5, <1>6

-----------------------------------------------------------------------------
(* Detection: the steps                                                    *)

\* Steps that record nothing, measure nothing new and remove no file.
LEMMA NothingRecorded ==
    ASSUME RecordInv, CompleteInv, UNCHANGED <<cfg, measured>>, complete' \subseteq complete,
           \A f \in File : text[f] # "absent" => text'[f] # "absent",
           complete \subseteq Slot
    PROVE  RecordInv' /\ CompleteInv' /\ \A f, s, a : Best(f, s, a)' <=> Best(f, s, a)
<1>1. RecordInv'
  BY OneOfFrame DEF RecordInv
<1>2. \A f, s, a : Best(f, s, a)' <=> Best(f, s, a)
  BY DEF Best, BestIs, Entry, Within
<1>3. ASSUME NEW s \in complete', NEW f \in ToSet(FilesOf[s])
      PROVE  text'[f] # "absent" /\ Best(f, s, Len(Measurements(s)))'
  <2>1. s \in complete /\ s \in Slot /\ f \in File
    BY <1>3, Files
  <2> QED  BY <1>2, <1>3, <2>1 DEF CompleteInv
<1> QED  BY <1>1, <1>2, <1>3 DEF CompleteInv

\* A process that ends, wherever it stands.
LEMMA EndedKeeps ==
    ASSUME DetectInv, Ended, UNCHANGED complete
    PROVE  DetectInv'
<1>1. /\ phase' = "off" /\ slot' = "none" /\ at' = 0 /\ nth' = 0
      /\ UNCHANGED <<text, cfg, measured, detections, complete>>
  BY DEF Ended
<1>2. DetectTypeOK'
  BY <1>1, DetectAssumption DEF DetectInv, DetectTypeOK
<1>3. RecordInv' /\ CompleteInv'
  BY <1>1, NothingRecorded DEF DetectInv, DetectTypeOK
<1>4. ScriptInv'
  BY <1>1 DEF ScriptInv
<1> QED  BY <1>2, <1>3, <1>4 DEF DetectInv

LEMMA StartKeeps ==
    ASSUME DetectInv, StartDetection
    PROVE  DetectInv'
<1>1. PICK s \in Slot :
        /\ slot' = s /\ complete' = complete \ {s}
        /\ IF measured[s] # <<>> THEN UNCHANGED measured
           ELSE \E m \in [DOMAIN Measurements(s) -> Accuracy] :
                    measured' = [measured EXCEPT ![s] = m]
  BY DEF StartDetection
<1>2. /\ phase' = "setup" /\ at' = 1 /\ nth' = 1 /\ UNCHANGED <<text, cfg>>
      /\ detections' \in 0..MaxDetections
  BY DetectAssumption DEF StartDetection, DetectInv, DetectTypeOK
<1>3. /\ measured' \in [Slot -> Seq(Accuracy)] /\ Len(measured'[s]) = Len(Measurements(s))
      /\ \A t \in Slot : t # s => measured'[t] = measured[t]
      /\ measured[s] # <<>> => measured' = measured
  <2>1. CASE measured[s] # <<>>
    BY <1>1, <2>1 DEF DetectInv, RecordInv, DetectTypeOK
  <2>2. CASE measured[s] = <<>>
    <3>1. PICK m \in [DOMAIN Measurements(s) -> Accuracy] :
            measured' = [measured EXCEPT ![s] = m]
      BY <1>1, <2>2
    <3>2. DOMAIN Measurements(s) = 1..Len(Measurements(s)) /\ Len(Measurements(s)) \in Nat
      BY MeasurementFacts
    <3>3. m \in Seq(Accuracy) /\ Len(m) = Len(Measurements(s))
      BY <3>2
    <3> QED  BY <2>2, <3>1, <3>3 DEF DetectInv, DetectTypeOK
  <2> QED  BY <2>1, <2>2
<1>4. DetectTypeOK'
  <2>1. 1 \in 0..Parts + 1 /\ 1 \in Nat
    BY DetectAssumption
  <2> QED  BY <1>1, <1>2, <1>3, <2>1 DEF DetectInv, DetectTypeOK
<1>5. RecordInv'
  <2>1. ASSUME NEW t \in Slot, measured'[t] = measured[t]
        PROVE  /\ measured'[t] # <<>> => Len(measured'[t]) = Len(Measurements(t))
               /\ \A f \in File : OneOf(f, t)'
    BY <1>2, <2>1, OneOfFrame DEF DetectInv, RecordInv
  <2>2. CASE measured[s] # <<>>
    BY <1>3, <2>1, <2>2 DEF RecordInv
  <2>3. CASE measured[s] = <<>>
    <3>1. \A f \in File : OneOf(f, s)'
      BY <1>2, <2>3 DEF DetectInv, RecordInv, OneOf
    <3> QED  BY <1>3, <2>1, <3>1 DEF RecordInv
  <2> QED  BY <2>2, <2>3
<1>6. ScriptInv'
  <2>1. \A n \in DOMAIN SetupFiles[SlotNet(s)] : ~(n < 1)
    BY FilesOfSetup
  <2> QED  BY <1>1, <1>2, <1>3, <2>1 DEF ScriptInv
<1>7. CompleteInv'
  <2>1. ASSUME NEW t \in complete', NEW f \in ToSet(FilesOf[t])
        PROVE  text'[f] # "absent" /\ Best(f, t, Len(Measurements(t)))'
    <3>1. t \in complete /\ t \in Slot /\ t # s
      BY <1>1, <2>1 DEF DetectInv, DetectTypeOK
    <3>2. Best(f, t, Len(Measurements(t)))' <=> Best(f, t, Len(Measurements(t)))
      BY <1>2, <1>3, <3>1, BestFrame
    <3> QED  BY <1>2, <3>1, <3>2 DEF DetectInv, CompleteInv
  <2> QED  BY <2>1 DEF CompleteInv
<1> QED  BY <1>4, <1>5, <1>6, <1>7 DEF DetectInv

\* The script while it runs.
LEMMA Running ==
    ASSUME DetectInv, phase # "off"
    PROVE  /\ slot \in Slot /\ slot \notin complete
           /\ measured[slot] \in Seq(Accuracy)
           /\ DOMAIN measured[slot] = 1..Len(Measurements(slot))
           /\ DOMAIN Measurements(slot) = 1..Len(Measurements(slot))
           /\ Len(Measurements(slot)) \in 1..Parts
           /\ nth \in Nat \ {0} /\ at \in Nat \ {0}
<1>1. /\ slot \in Slot /\ slot \notin complete /\ nth >= 1 /\ at >= 1
      /\ Len(measured[slot]) = Len(Measurements(slot))
      /\ nth \in Nat /\ at \in 0..Parts + 1
  BY DEF DetectInv, ScriptInv, DetectTypeOK
<1>2. /\ measured[slot] \in Seq(Accuracy)
      /\ DOMAIN measured[slot] = 1..Len(measured[slot])
  BY <1>1 DEF DetectInv, DetectTypeOK
<1>3. /\ DOMAIN Measurements(slot) = 1..Len(Measurements(slot))
      /\ Len(Measurements(slot)) \in 1..Parts
  BY <1>1, MeasurementFacts
<1> QED  BY <1>1, <1>2, <1>3

LEMMA SetupKeeps ==
    ASSUME DetectInv, Setup
    PROVE  DetectInv'
<1> DEFINE files == SetupFiles[SlotNet(slot)]
<1>1. /\ phase = "setup" /\ UNCHANGED <<slot, at, cfg, measured, complete, detections>>
      /\ slot \in Slot /\ at = 1
      /\ \A n \in DOMAIN files : n < nth => text[files[n]] # "absent"
      /\ nth \in Nat \ {0} /\ text \in [File -> {"absent", "torn", "whole"}]
  BY Running DEF Setup, DetectInv, ScriptInv, DetectTypeOK
<1>2. /\ DOMAIN files = 1..Len(files) /\ Len(files) \in Nat
      /\ \A n \in DOMAIN files : files[n] \in File
      /\ \A f \in ToSet(FilesOf[slot]) : \E n \in DOMAIN files : files[n] = f
  BY <1>1, FilesOfSetup
<1> HIDE DEF files
<1>3. CASE nth > Len(files) /\ phase' = "measure" /\ UNCHANGED <<nth, text>>
  <2>1. DetectTypeOK' /\ RecordInv' /\ CompleteInv' /\ \A f, s, a : Best(f, s, a)' <=> Best(f, s, a)
    BY <1>1, <1>3, NothingRecorded DEF DetectInv, DetectTypeOK
  <2>2. \A f \in ToSet(FilesOf[slot]) : text[f] # "absent"
    <3>1. \A n \in DOMAIN files : n < nth
      BY <1>1, <1>2, <1>3
    <3> QED  BY <1>1, <1>2, <3>1
  <2>3. \A n \in DOMAIN FilesOf[slot] : \E a \in Compared(n)' : Best(FilesOf[slot][n], slot, a)'
    <3>1. \A n : Compared(n)' = {0}
      BY <1>1, <1>3 DEF Compared
    <3>2. \A f : Best(f, slot, 0)
      BY DEF Best
    <3> QED  BY <1>1, <2>1, <3>1, <3>2
  <2>4. ScriptInv'
    <3>1. /\ slot \notin complete /\ Len(measured[slot]) = Len(Measurements(slot))
          /\ Len(Measurements(slot)) \in Nat
      BY <1>1, MeasurementFacts DEF DetectInv, ScriptInv
    <3>2. at' <= Len(Measurements(slot)) + 1 /\ at' >= 1 /\ nth' >= 1
      BY <1>1, <1>3, <3>1
    <3> QED  BY <1>1, <1>3, <2>2, <2>3, <3>1, <3>2 DEF ScriptInv
  <2> QED  BY <2>1, <2>4 DEF DetectInv
<1>4. CASE nth \in DOMAIN files /\ text[files[nth]] = "absent" /\ phase' = "initial"
            /\ text' = [text EXCEPT ![files[nth]] = "torn"] /\ nth' = nth
  <2>1. \A f \in File : text[f] # "absent" => text'[f] # "absent"
    BY <1>1, <1>4
  <2>2. DetectTypeOK'
    BY <1>1, <1>4 DEF DetectInv, DetectTypeOK
  <2>3. RecordInv' /\ CompleteInv'
    BY <1>1, <2>1, NothingRecorded DEF DetectInv, DetectTypeOK
  <2>4. \A s \in complete : files[nth] \notin ToSet(FilesOf[s])
    BY <1>4 DEF DetectInv, CompleteInv
  <2>5. \A n \in DOMAIN files : n < nth => text'[files[n]] # "absent"
    BY <1>1, <1>2, <2>1
  <2>6. ScriptInv'
    BY <1>1, <1>4, <2>4, <2>5 DEF DetectInv, ScriptInv, files
  <2> QED  BY <2>2, <2>3, <2>6 DEF DetectInv
<1>5. CASE nth \in DOMAIN files /\ text[files[nth]] # "absent"
            /\ nth' = nth + 1 /\ UNCHANGED <<phase, text>>
  <2>1. DetectTypeOK' /\ RecordInv' /\ CompleteInv'
    BY <1>1, <1>5, NothingRecorded DEF DetectInv, DetectTypeOK
  <2>2. \A n \in DOMAIN files : n < nth' => text'[files[n]] # "absent"
    BY <1>1, <1>2, <1>5
  <2>3. nth' >= 1
    BY <1>1, <1>5
  <2>4. ScriptInv'
    BY <1>1, <1>5, <2>2, <2>3 DEF DetectInv, ScriptInv, files
  <2> QED  BY <2>1, <2>4 DEF DetectInv
<1>6. nth > Len(files) \/ nth \in DOMAIN files
  BY <1>1, <1>2
<1>7. /\ nth > Len(files) => phase' = "measure" /\ UNCHANGED <<nth, text>>
      /\ ~(nth > Len(files)) =>
            IF text[files[nth]] = "absent"
            THEN phase' = "initial" /\ text' = [text EXCEPT ![files[nth]] = "torn"] /\ nth' = nth
            ELSE nth' = nth + 1 /\ UNCHANGED <<phase, text>>
  BY DEF Setup, files
<1>8. nth \in DOMAIN files => ~(nth > Len(files))
  BY <1>2
<1> QED  BY <1>3, <1>4, <1>5, <1>6, <1>7, <1>8

LEMMA InitialConfigKeeps ==
    ASSUME DetectInv, InitialConfig
    PROVE  DetectInv'
<1> DEFINE files == SetupFiles[SlotNet(slot)]
           f == files[nth]
<1>1. /\ phase = "initial" /\ phase' = "setup" /\ nth' = nth + 1
      /\ UNCHANGED <<slot, at, measured, complete, detections>>
      /\ text' = [text EXCEPT ![f] = "whole"] /\ cfg' = [cfg EXCEPT ![f] = Zeros]
      /\ slot \in Slot /\ at = 1 /\ nth \in Nat \ {0}
      /\ \A n \in DOMAIN files : n < nth => text[files[n]] # "absent"
      /\ nth \in DOMAIN files
      /\ \A s \in complete : f \notin ToSet(FilesOf[s])
      /\ text \in [File -> {"absent", "torn", "whole"}]
      /\ cfg \in [File -> [Slot -> [rate : 0..Parts, acc : Accuracy \cup {0}]]]
  BY Running DEF InitialConfig, DetectInv, ScriptInv, DetectTypeOK
<1>2. /\ DOMAIN files = 1..Len(files) /\ Len(files) \in Nat
      /\ \A n \in DOMAIN files : files[n] \in File
  BY <1>1, FilesOfSetup
<1>3. f \in File
  BY <1>1, <1>2
<1> HIDE DEF f
<1>4. cfg'[f] = Zeros /\ \A g \in File : g # f => cfg'[g] = cfg[g]
  BY <1>1, <1>3
<1>5. DetectTypeOK'
  <2>1. Zeros \in [Slot -> [rate : 0..Parts, acc : Accuracy \cup {0}]]
    BY DetectAssumption DEF Zeros, Unpruned
  <2>2. cfg' \in [File -> [Slot -> [rate : 0..Parts, acc : Accuracy \cup {0}]]]
    BY <1>1, <2>1
  <2> HIDE DEF files
  <2> QED  BY <1>1, <2>2 DEF DetectInv, DetectTypeOK
<1>6. RecordInv'
  <2>1. ASSUME NEW s \in Slot, NEW g \in File PROVE OneOf(g, s)'
    <3>1. CASE g = f
      BY <1>4, <3>1 DEF OneOf, Zeros
    <3>2. CASE g # f
      BY <1>1, <1>4, <3>2, OneOfFrame DEF DetectInv, RecordInv
    <3> QED  BY <3>1, <3>2
  <2> QED  BY <1>1, <2>1 DEF DetectInv, RecordInv
<1>7. CompleteInv'
  <2>1. ASSUME NEW s \in complete, NEW g \in ToSet(FilesOf[s])
        PROVE  text'[g] # "absent" /\ Best(g, s, Len(Measurements(s)))'
    <3>1. g \in File /\ g # f /\ s \in Slot
      BY <1>1, <2>1, Files DEF DetectInv, DetectTypeOK
    <3>2. Best(g, s, Len(Measurements(s)))' <=> Best(g, s, Len(Measurements(s)))
      BY <1>1, <1>4, <3>1, BestFrame
    <3> QED  BY <1>1, <2>1, <3>1, <3>2 DEF DetectInv, CompleteInv
  <2> QED  BY <1>1, <2>1 DEF CompleteInv
<1>8. ScriptInv'
  <2>1. \A n \in DOMAIN files : n < nth' => text'[files[n]] # "absent"
    BY <1>1, <1>2, <1>3 DEF f
  <2>2. nth' >= 1
    BY <1>1
  <2> QED  BY <1>1, <2>1, <2>2 DEF DetectInv, ScriptInv
<1> QED  BY <1>5, <1>6, <1>7, <1>8 DEF DetectInv

\* The script once the files exist.
LEMMA Recording ==
    ASSUME DetectInv, phase \in {"measure", "compare", "write"}
    PROVE  /\ \A f \in ToSet(FilesOf[slot]) : text[f] # "absent"
           /\ at <= Len(Measurements(slot)) + 1
           /\ phase # "measure" => at \in 1..Len(Measurements(slot))
           /\ \A n \in DOMAIN FilesOf[slot] :
                \E a \in Compared(n) : Best(FilesOf[slot][n], slot, a)
<1>1. /\ \A f \in ToSet(FilesOf[slot]) : text[f] # "absent"
      /\ at <= Len(Measurements(slot)) + 1
      /\ phase # "measure" => at <= Len(Measurements(slot))
      /\ \A n \in DOMAIN FilesOf[slot] :
            \E a \in Compared(n) : Best(FilesOf[slot][n], slot, a)
  BY DEF DetectInv, ScriptInv
<1>2. at \in Nat \ {0} /\ Len(Measurements(slot)) \in Nat
  BY Running
<1> QED  BY <1>1, <1>2

\* It goes on without a record.
LEMMA RecordingKeeps ==
    ASSUME DetectInv,
           phase \in {"measure", "compare", "write"}, phase' \in {"measure", "compare", "write"},
           UNCHANGED <<slot, cfg, measured, complete, detections>>,
           text' \in [File -> {"absent", "torn", "whole"}],
           \A f \in File : text[f] # "absent" => text'[f] # "absent",
           nth' \in Nat \ {0}, at' \in Nat \ {0}, at' <= Len(Measurements(slot)) + 1,
           phase' # "measure" => at' <= Len(Measurements(slot)),
           \A n \in DOMAIN FilesOf[slot] :
                \E a \in Compared(n)' : Best(FilesOf[slot][n], slot, a),
           phase' = "write" => /\ nth' \in DOMAIN FilesOf[slot]
                               /\ Records(FilesOf[slot][nth'], measured[slot][at'])
    PROVE  DetectInv'
<1>1. slot \in Slot /\ slot \notin complete /\ Len(measured[slot]) = Len(Measurements(slot))
  BY DEF DetectInv, ScriptInv
<1>2. DetectTypeOK'
  <2>1. at' \in 0..Parts + 1
    BY <1>1, Running, DetectAssumption
  <2> QED  BY <1>1, <2>1 DEF DetectInv, DetectTypeOK
<1>3. RecordInv' /\ CompleteInv' /\ \A f, s, a : Best(f, s, a)' <=> Best(f, s, a)
  BY NothingRecorded DEF DetectInv, DetectTypeOK
<1>4. \A f \in ToSet(FilesOf[slot]) : text'[f] # "absent"
  BY <1>1, Recording, Files
<1>5. \A n \in DOMAIN FilesOf[slot] : (\E a \in Compared(n) : Best(FilesOf[slot][n], slot, a))'
  <2> SUFFICES ASSUME NEW n \in DOMAIN FilesOf[slot]
               PROVE  (\E a \in Compared(n) : Best(FilesOf[slot][n], slot, a))'
    OBVIOUS
  <2>1. \A a : Best(FilesOf[slot][n], slot, a)' <=> Best(FilesOf[slot][n], slot, a)
    BY <1>3, BestFrame
  <2> QED  BY <2>1
<1>6. phase' = "write" => (/\ nth \in DOMAIN FilesOf[slot]
                           /\ Records(FilesOf[slot][nth], measured[slot][at]))'
  BY DEF Records, Within
<1>7. ScriptInv'
  <2>1. nth' >= 1 /\ at' >= 1
    OBVIOUS
  <2> QED  BY <1>1, <1>4, <1>5, <1>6, <2>1 DEF ScriptInv
<1> QED  BY <1>2, <1>3, <1>7 DEF DetectInv

LEMMA MeasureKeeps ==
    ASSUME DetectInv, Measure
    PROVE  DetectInv'
<1>1. /\ phase = "measure" /\ phase' = "compare" /\ nth' = 1
      /\ at <= Len(Measurements(slot))
      /\ UNCHANGED <<slot, at, text, cfg, measured, complete, detections>>
  BY DEF Measure
<1>2. /\ slot \in Slot /\ at \in Nat \ {0} /\ Len(Measurements(slot)) \in Nat
      /\ text \in [File -> {"absent", "torn", "whole"}]
  BY <1>1, Running DEF DetectInv, DetectTypeOK
<1>3. \A n \in DOMAIN FilesOf[slot] :
        \E a \in Compared(n)' : Best(FilesOf[slot][n], slot, a)
  <2>1. \A n \in DOMAIN FilesOf[slot] : \E a \in Compared(n) : Best(FilesOf[slot][n], slot, a)
    BY <1>1, Recording
  <2>2. \A n \in DOMAIN FilesOf[slot] : Compared(n) \subseteq Compared(n)'
    <3>1. \A n \in DOMAIN FilesOf[slot] : ~(n < 1)
      BY <1>2, Files
    <3> QED  BY <1>1, <3>1 DEF Compared
  <2> QED  BY <2>1, <2>2
<1> QED  BY <1>1, <1>2, <1>3, RecordingKeeps

LEMMA NextRatioKeeps ==
    ASSUME DetectInv, NextRatio
    PROVE  DetectInv'
<1>1. /\ phase = "compare" /\ phase' = "measure" /\ nth > Len(FilesOf[slot])
      /\ at' = at + 1 /\ UNCHANGED <<slot, nth, text, cfg, measured, complete, detections>>
  BY DEF NextRatio
<1>2. /\ slot \in Slot /\ at \in 1..Len(Measurements(slot)) /\ nth \in Nat \ {0}
      /\ Len(Measurements(slot)) \in Nat
      /\ text \in [File -> {"absent", "torn", "whole"}]
  BY <1>1, Running, Recording DEF DetectInv, DetectTypeOK
<1>3. at' \in Nat \ {0} /\ at' <= Len(Measurements(slot)) + 1 /\ at' - 1 = at
  BY <1>1, <1>2
<1>4. \A n \in DOMAIN FilesOf[slot] :
        \E a \in Compared(n)' : Best(FilesOf[slot][n], slot, a)
  <2>1. \A n \in DOMAIN FilesOf[slot] : \E a \in Compared(n) : Best(FilesOf[slot][n], slot, a)
    BY <1>1, Recording
  <2>2. \A n \in DOMAIN FilesOf[slot] : n < nth
    BY <1>1, <1>2, Files
  <2>3. \A n \in DOMAIN FilesOf[slot] : Compared(n) = {at} /\ Compared(n)' = {at}
    BY <1>1, <1>3, <2>2 DEF Compared
  <2> QED  BY <2>1, <2>3
<1> QED  BY <1>1, <1>2, <1>3, <1>4, RecordingKeeps

\* One file more has been compared.
LEMMA OneMoreCompared ==
    ASSUME phase # "measure", phase' # "measure", at' = at, nth' = nth + 1, nth \in Nat,
           NEW n \in Nat
    PROVE  /\ at \in Compared(n)'
           /\ n # nth => Compared(n)' = Compared(n)
           /\ n = nth => Compared(n) = {at - 1, at}
<1>1. /\ n < nth' <=> n < nth \/ n = nth
      /\ ~(nth < nth)
  OBVIOUS
<1> QED  BY <1>1 DEF Compared

LEMMA CompareKeeps ==
    ASSUME DetectInv, Compare
    PROVE  DetectInv'
<1> DEFINE files == FilesOf[slot]
           f == files[nth]
<1>1. /\ phase = "compare" /\ nth <= Len(files) /\ text[f] = "whole"
      /\ UNCHANGED <<slot, at, cfg, measured, complete, detections>>
      /\ Records(f, measured[slot][at]) =>
            phase' = "write" /\ text' = [text EXCEPT ![f] = "torn"] /\ nth' = nth
      /\ ~Records(f, measured[slot][at]) => nth' = nth + 1 /\ phase' = phase /\ text' = text
  BY DEF Compare
<1>2. /\ slot \in Slot /\ at \in 1..Len(Measurements(slot)) /\ nth \in Nat \ {0}
      /\ Len(Measurements(slot)) \in Nat /\ DOMAIN measured[slot] = 1..Len(Measurements(slot))
      /\ text \in [File -> {"absent", "torn", "whole"}]
      /\ DetectTypeOK /\ RecordInv
  BY <1>1, Running, Recording DEF DetectInv, DetectTypeOK
<1>3. /\ DOMAIN files = 1..Len(files) /\ Len(files) \in Nat /\ nth \in DOMAIN files
      /\ f \in File
  BY <1>1, <1>2, Files
<1>4. \A n \in DOMAIN files : \E a \in Compared(n) : Best(files[n], slot, a)
  BY <1>1, Recording
<1>5. at \in Nat \ {0} /\ at <= Len(Measurements(slot)) + 1 /\ at <= Len(Measurements(slot))
  BY <1>2
<1>6. CASE Records(f, measured[slot][at])
  <2>1. \A n : Compared(n)' = Compared(n)
    BY <1>1, <1>6 DEF Compared
  <2>2. /\ text' \in [File -> {"absent", "torn", "whole"}]
        /\ \A g \in File : text[g] # "absent" => text'[g] # "absent"
    BY <1>1, <1>2, <1>3, <1>6
  <2>3. \A n \in DOMAIN FilesOf[slot] :
            \E a \in Compared(n)' : Best(FilesOf[slot][n], slot, a)
    BY <1>4, <2>1
  <2>4. Records(FilesOf[slot][nth'], measured[slot][at']) /\ nth' \in DOMAIN FilesOf[slot]
    BY <1>1, <1>3, <1>6
  <2>5. /\ phase' = "write" /\ nth' \in Nat \ {0} /\ at' \in Nat \ {0}
        /\ at' <= Len(Measurements(slot)) + 1 /\ at' <= Len(Measurements(slot))
    BY <1>1, <1>2, <1>5, <1>6
  <2> HIDE DEF files, f
  <2> QED  BY <1>1, <2>2, <2>3, <2>4, <2>5, RecordingKeeps
<1>7. CASE ~Records(f, measured[slot][at])
  <2>1. nth' = nth + 1 /\ phase' = "compare" /\ text' = text /\ nth' \in Nat \ {0} /\ at' = at
    BY <1>1, <1>2, <1>7
  <2>2. ASSUME NEW n \in DOMAIN files
        PROVE  \E a \in Compared(n)' : Best(files[n], slot, a)
    <3>1. /\ n \in Nat /\ nth \in Nat /\ at \in Compared(n)'
          /\ n # nth => Compared(n)' = Compared(n)
          /\ n = nth => Compared(n) = {at - 1, at}
      <4>1. n \in Nat /\ nth \in Nat
        BY <1>2, <1>3
      <4> HIDE DEF files
      <4> QED  BY <1>1, <2>1, <4>1, OneMoreCompared
    <3>2. CASE n = nth
      <4>1. PICK b \in {at - 1, at} : Best(f, slot, b)
        BY <1>4, <3>1, <3>2
      <4>2. Best(f, slot, at)
        <5> HIDE DEF f
        <5> QED  BY <1>2, <1>3, <1>7, <4>1, NotRecorded
      <4> QED  BY <3>1, <3>2, <4>2
    <3>3. CASE n # nth
      BY <1>4, <3>1, <3>3
    <3> QED  BY <3>2, <3>3
  <2> QED  BY <1>1, <1>2, <1>5, <2>1, <2>2, RecordingKeeps
<1> QED  BY <1>6, <1>7

LEMMA WriteKeeps ==
    ASSUME DetectInv, WriteConfig
    PROVE  DetectInv'
<1> DEFINE files == FilesOf[slot]
           m == measured[slot]
           Row == [Slot -> [rate : 0..Parts, acc : Accuracy \cup {0}]]
<1>0. PICK f \in File : f = files[nth] /\ nth \in DOMAIN files /\ Records(f, m[at])
  <2>1. slot \in Slot /\ nth \in DOMAIN files /\ Records(files[nth], m[at])
    BY DEF WriteConfig, DetectInv, ScriptInv
  <2> QED  BY <2>1, Files
<1>1. /\ phase = "write" /\ phase' = "compare" /\ nth' = nth + 1
      /\ UNCHANGED <<slot, at, measured, complete, detections>>
      /\ text' = [text EXCEPT ![f] = "whole"]
      /\ cfg' = [cfg EXCEPT ![f][slot] = Entry(slot, at)]
  BY <1>0 DEF WriteConfig, Entry
<1>2. /\ slot \in Slot /\ slot \notin complete
      /\ at \in 1..Len(Measurements(slot)) /\ at \in Nat \ {0} /\ nth \in Nat \ {0}
      /\ Len(Measurements(slot)) \in Nat /\ DOMAIN m = 1..Len(Measurements(slot))
      /\ text \in [File -> {"absent", "torn", "whole"}]
      /\ cfg \in [File -> Row]
      /\ measured \in [Slot -> Seq(Accuracy)] /\ complete \subseteq Slot
      /\ DetectTypeOK /\ RecordInv /\ Len(m) = Len(Measurements(slot))
  BY <1>1, Running, Recording DEF DetectInv, DetectTypeOK, ScriptInv
<1>3. /\ DOMAIN files = 1..Len(files) /\ Len(files) \in Nat
      /\ \A n \in DOMAIN files : files[n] \in File
  BY <1>2, Files
<1>4. \A n \in DOMAIN files : \E a \in Compared(n) : Best(files[n], slot, a)
  BY <1>1, Recording
<1>5. Entry(slot, at)' = Entry(slot, at) /\ Entry(slot, at) \in [rate : 0..Parts, acc : Accuracy]
  <2>1. m[at] \in Accuracy
    BY <1>2
  <2>2. Measurements(slot)[at] \in Measurement
    BY <1>2, MeasurementFacts
  <2> QED  BY <1>1, <2>1, <2>2 DEF Entry, Measurement
<1>6. /\ cfg'[f][slot] = Entry(slot, at)
      /\ \A g \in File, s \in Slot : g # f \/ s # slot => cfg'[g][s] = cfg[g][s]
  BY <1>1, <1>2
<1>7. DetectTypeOK'
  <2>1. cfg' \in [File -> Row]
    <3>1. [cfg[f] EXCEPT ![slot] = Entry(slot, at)] \in Row
      BY <1>2, <1>5
    <3>2. cfg' = [cfg EXCEPT ![f] = [cfg[f] EXCEPT ![slot] = Entry(slot, at)]]
      BY <1>1
    <3> HIDE DEF Row
    <3> QED  BY <1>2, <3>1, <3>2
  <2>2. text' \in [File -> {"absent", "torn", "whole"}] /\ nth' \in Nat
    BY <1>1, <1>2
  <2> QED  BY <1>1, <2>1, <2>2 DEF DetectInv, DetectTypeOK
<1>8. RecordInv'
  <2>1. ASSUME NEW s \in Slot, NEW g \in File PROVE OneOf(g, s)'
    <3>1. CASE g = f /\ s = slot
      <4>1. at \in DOMAIN measured'[slot] /\ cfg'[f][slot] = Entry(slot, at)'
        BY <1>1, <1>2, <1>5, <1>6
      <4> QED  BY <1>1, <3>1, <4>1 DEF OneOf, Entry
    <3>2. CASE ~(g = f /\ s = slot)
      <4>1. cfg'[g][s] = cfg[g][s] /\ measured'[s] = measured[s] /\ OneOf(g, s)
        BY <1>1, <1>2, <1>6, <3>2 DEF RecordInv
      <4> QED  BY <4>1, OneOfFrame
    <3> QED  BY <3>1, <3>2
  <2> QED  BY <1>1, <1>2, <2>1 DEF RecordInv
<1>9. CompleteInv'
  <2>1. ASSUME NEW s \in complete, NEW g \in ToSet(FilesOf[s])
        PROVE  text'[g] # "absent" /\ Best(g, s, Len(Measurements(s)))'
    <3>1. g \in File /\ s \in Slot /\ s # slot
      BY <1>2, <2>1, Files
    <3>2. text[g] # "absent" /\ Best(g, s, Len(Measurements(s)))
      BY <2>1 DEF DetectInv, CompleteInv
    <3>3. Best(g, s, Len(Measurements(s)))' <=> Best(g, s, Len(Measurements(s)))
      BY <1>1, <1>6, <3>1, BestFrame
    <3>4. text'[g] # "absent"
      BY <1>1, <1>2, <1>3, <3>1, <3>2
    <3> QED  BY <3>2, <3>3, <3>4
  <2> QED  BY <1>1, <2>1 DEF CompleteInv
<1>10. Best(f, slot, at)'
  <2>1. PICK b \in {at - 1, at} : Best(f, slot, b)
    <3>1. ~(nth < nth)
      BY <1>2
    <3>2. Compared(nth) = {at - 1, at}
      BY <1>1, <3>1 DEF Compared
    <3> QED  BY <1>0, <1>4, <3>2
  <2>2. /\ (\E j \in 1..at : Within(f, m[j])) => m[at] + Threshold[f] >= Reference
        /\ (\A j \in 1..at : ~Within(f, m[j])) => \A j \in 1..at : m[j] <= m[at]
    BY <1>0, <1>2, <2>1, Recorded
  <2>3. \A j \in 1..at : ~(j > at \/ at > at)
    BY <1>2
  <2>4. BestIs(f, slot, at, at)'
    <3>1. cfg'[f][slot] = Entry(slot, at)' /\ measured' = measured /\ slot' = slot /\ at' = at
      BY <1>1, <1>5, <1>6
    <3> QED  BY <2>2, <2>3, <3>1 DEF BestIs, Within
  <2> QED  BY <1>1, <1>2, <2>4 DEF Best
<1>11. ASSUME NEW n \in DOMAIN files
       PROVE  (\E a \in Compared(n) : Best(files[n], slot, a))'
  <2>1. /\ n \in Nat /\ nth \in Nat /\ at \in Compared(n)'
        /\ n # nth => Compared(n)' = Compared(n)
    <3>1. n \in Nat /\ nth \in Nat /\ phase # "measure" /\ phase' # "measure"
      BY <1>1, <1>2, <1>3
    <3> HIDE DEF files
    <3> QED  BY <1>1, <3>1, OneMoreCompared
  <2>2. CASE files[n] = f
    BY <1>1, <1>10, <2>1, <2>2
  <2>3. CASE files[n] # f
    <3>1. n # nth
      BY <1>0, <2>3
    <3>2. PICK a \in Compared(n) : Best(files[n], slot, a)
      BY <1>4
    <3>3. a \in Compared(n)'
      BY <2>1, <3>1
    <3>4. Best(files[n], slot, a)' <=> Best(files[n], slot, a)
      BY <1>1, <1>2, <1>3, <1>6, <2>3
         DEF Best, BestIs, Entry, Within
    <3> QED  BY <3>2, <3>3, <3>4
  <2> QED  BY <2>2, <2>3
<1>12. ScriptInv'
  <2>1. \A g \in ToSet(files) : text'[g] # "absent"
    <3>1. \A g \in ToSet(files) : text[g] # "absent" /\ g \in File
      BY <1>1, <1>2, Recording, Files
    <3> QED  BY <1>1, <1>2, <1>3, <3>1
  <2>2. /\ nth' >= 1 /\ at' >= 1 /\ at' <= Len(Measurements(slot)) + 1
        /\ at' <= Len(Measurements(slot))
    BY <1>1, <1>2
  <2> QED  BY <1>1, <1>2, <1>11, <2>1, <2>2 DEF ScriptInv
<1> QED  BY <1>7, <1>8, <1>9, <1>12 DEF DetectInv

LEMMA CompletesKeeps ==
    ASSUME DetectInv, Completes
    PROVE  DetectInv'
<1>1. /\ phase = "measure" /\ at > Len(Measurements(slot)) /\ complete' = complete \cup {slot}
      /\ phase' = "off" /\ slot' = "none" /\ at' = 0 /\ nth' = 0
      /\ UNCHANGED <<text, cfg, measured, detections>>
  BY DEF Completes, Ended
<1>2. /\ slot \in Slot /\ at \in Nat /\ at <= Len(Measurements(slot)) + 1
      /\ Len(Measurements(slot)) \in Nat
  BY <1>1, Running, Recording
<1>3. DetectTypeOK'
  BY <1>1, <1>2, DetectAssumption DEF DetectInv, DetectTypeOK
<1>4. RecordInv'
  BY <1>1, OneOfFrame DEF DetectInv, RecordInv
<1>5. at - 1 = Len(Measurements(slot))
  BY <1>1, <1>2
<1>6. CompleteInv'
  <2>1. ASSUME NEW s \in complete', NEW f \in ToSet(FilesOf[s])
        PROVE  text'[f] # "absent" /\ Best(f, s, Len(Measurements(s)))'
    <3>1. Best(f, s, Len(Measurements(s)))' <=> Best(f, s, Len(Measurements(s)))
      BY <1>1, BestFrame
    <3>2. CASE s = slot
      <4>1. PICK n \in DOMAIN FilesOf[slot] : FilesOf[slot][n] = f
        BY <1>2, <2>1, <3>2, Files
      <4>2. Compared(n) = {Len(Measurements(slot))}
        BY <1>1, <1>5 DEF Compared
      <4>3. Best(f, slot, Len(Measurements(slot))) /\ text[f] # "absent"
        BY <1>1, <2>1, <3>2, <4>1, <4>2, Recording
      <4> QED  BY <1>1, <3>1, <3>2, <4>3
    <3>3. CASE s # slot
      BY <1>1, <2>1, <3>1, <3>3 DEF DetectInv, CompleteInv
    <3> QED  BY <3>2, <3>3
  <2> QED  BY <2>1 DEF CompleteInv
<1>7. ScriptInv'
  BY <1>1 DEF ScriptInv
<1> QED  BY <1>3, <1>4, <1>6, <1>7 DEF DetectInv

LEMMA DetectInitial == Init => DetectInv
<1> SUFFICES ASSUME DetectInit PROVE DetectInv
  BY DEF Init
<1> USE DEF DetectInit
<1>1. DetectTypeOK
  BY DetectAssumption DEF DetectTypeOK, Zeros, Unpruned
<1>2. RecordInv
  BY DEF RecordInv, OneOf, Zeros
<1> QED  BY <1>1, <1>2 DEF DetectInv, ScriptInv, CompleteInv

LEMMA DetectKeeps ==
    ASSUME DetectInv, [Next]_vars
    PROVE  DetectInv'
<1>1. CASE StartDetection
  BY <1>1, StartKeeps
<1>2. CASE DetectDies
  BY <1>2, EndedKeeps DEF DetectDies
<1>3. CASE UNCHANGED detectVars
  <2>1. UNCHANGED <<phase, slot, at, nth, text, cfg, measured, complete, detections>>
    BY <1>3 DEF detectVars
  <2>2. DetectTypeOK' /\ RecordInv' /\ CompleteInv'
    BY <2>1, NothingRecorded DEF DetectInv, DetectTypeOK
  <2>3. /\ \A n : Compared(n)' = Compared(n)
        /\ \A f, s, a : Best(f, s, a)' <=> Best(f, s, a)
        /\ \A f, a : Records(f, a)' <=> Records(f, a)
    BY <2>1, BestFrame DEF Compared, Records, Within
  <2>4. ASSUME NEW n \in DOMAIN FilesOf[slot],
               \E a \in Compared(n) : Best(FilesOf[slot][n], slot, a)
        PROVE  (\E a \in Compared(n) : Best(FilesOf[slot][n], slot, a))'
    BY <2>1, <2>3, <2>4
  <2>5. ScriptInv'
    BY <2>1, <2>3, <2>4 DEF DetectInv, ScriptInv
  <2> QED  BY <2>2, <2>5 DEF DetectInv
<1>4. CASE DetectStep
  <2>1. CASE Setup
    BY <2>1, SetupKeeps
  <2>2. CASE InitialConfig
    BY <2>2, InitialConfigKeeps
  <2>3. CASE Measure
    BY <2>3, MeasureKeeps
  <2>4. CASE MeasureFails
    BY <2>4, EndedKeeps DEF MeasureFails
  <2>5. CASE Completes
    BY <2>5, CompletesKeeps
  <2>6. CASE Compare
    BY <2>6, CompareKeeps
  <2>7. CASE CompareFails
    BY <2>7, EndedKeeps DEF CompareFails
  <2>8. CASE WriteConfig
    BY <2>8, WriteKeeps
  <2>9. CASE NextRatio
    BY <2>9, NextRatioKeeps
  <2> QED  BY <1>4, <2>1, <2>2, <2>3, <2>4, <2>5, <2>6, <2>7, <2>8, <2>9 DEF DetectStep
<1> QED  BY <1>1, <1>2, <1>3, <1>4 DEF Next, Train, Start, Detection, Dies, vars

THEOREM DetectionInvariant == Spec => []DetectInv
<1> QED  BY DetectInitial, DetectKeeps, PTL DEF Spec

\* The invariant at the end of a script: what is best after all measurements is
\* what the network is built from, and that is wide enough.
LEMMA CompleteIsBest ==
    ASSUME DetectInv
    PROVE  RatesAreTheLargest
<1> SUFFICES ASSUME NEW s \in complete, NEW f \in ToSet(FilesOf[s])
             PROVE  LET all == DOMAIN Measurements(s)
                        Good(i) == Within(f, measured[s][i])
                    IN  \E i \in all :
                        /\ cfg[f][s] = [rate |-> Measurements(s)[i].rate, acc |-> measured[s][i]]
                        /\ \A j \in all : j > i => ~Good(j) /\ measured[s][j] < measured[s][i]
                        /\ (\E j \in all : Good(j)) => measured[s][i] + Threshold[f] >= Reference
                        /\ (\A j \in all : ~Good(j)) => \A j \in all : measured[s][j] <= measured[s][i]
                        /\ PrunedWidth(f, s) >= Measurements(s)[i].channels
  BY DEF RatesAreTheLargest, DetectInv
<1>1. s \in Slot /\ f \in File
  BY Files DEF DetectInv, DetectTypeOK
<1> DEFINE all == DOMAIN Measurements(s)
           l == Len(Measurements(s))
<1>2. /\ l \in 1..Parts /\ l \in Nat \ {0} /\ all = 1..l
      /\ \A n \in 1..l : Measurements(s)[n].rate = n /\ Width(n, s) >= Measurements(s)[n].channels
  <2>1. Parts \in Nat
    BY DetectAssumption
  <2> QED  BY <1>1, <2>1, MeasurementFacts
<1>3. PICK i \in DOMAIN measured[s] : BestIs(f, s, l, i)
  <2>1. Best(f, s, l)
    BY DEF DetectInv, CompleteInv
  <2> QED  BY <1>2, <2>1 DEF Best
<1>4. i \in all
  <2>1. measured[s] \in Seq(Accuracy) /\ measured[s] # <<>>
    BY <1>1, <1>3 DEF DetectInv, DetectTypeOK
  <2>2. Len(measured[s]) = l
    BY <1>1, <2>1 DEF DetectInv, RecordInv
  <2> QED  BY <1>2, <1>3, <2>1, <2>2
<1>5. cfg[f][s] = [rate |-> Measurements(s)[i].rate, acc |-> measured[s][i]]
  BY <1>3 DEF BestIs, Entry
<1>6. PrunedWidth(f, s) >= Measurements(s)[i].channels
  BY <1>2, <1>4, <1>5 DEF PrunedWidth, SRNetPruned, XuNetPruned
<1> HIDE DEF l
<1> QED  BY <1>2, <1>3, <1>4, <1>5, <1>6 DEF BestIs

\* When a detection has gone through, every file records the largest rate within
\* its threshold or else the most accurate one, and the network built from it is
\* no narrower than the one measured: for any layers, channels, files,
\* thresholds, parts and accuracies, any number of scripts and of crashes.
THEOREM RatesCorrect == Spec => []RatesAreTheLargest
<1> QED  BY DetectionInvariant, CompleteIsBest, PTL
=============================================================================
