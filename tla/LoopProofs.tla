----------------------------- MODULE LoopProofs -----------------------------
(***************************************************************************)
(* The builds that write their log through one loop implement PedometerLog *)
(* for every batch size and sample period: rl/pedometer (RlPedometer),     *)
(* whose arrays come back from the LP core with the samples of the block,  *)
(* and cm/pedometer and rm/pedometer (HpPedometer, instantiated as Hp).    *)
(*                                                                         *)
(* The invariant of rl follows a batch: into the copies in LP memory, back *)
(* to the arrays, through the detector and into a row.  That of cm and rm  *)
(* says what the detector has been given: the samples after the last       *)
(* logged one, as many as sample_count and one more while a good sample    *)
(* waits to be counted.                                                    *)
(***************************************************************************)
EXTENDS RlPedometer, SequenceTheorems, TLAPS

VARIABLES build, ok, sample_count   \* those of HpPedometer that rl has not

\* Its constants are among those of RlPedometer, and RlAssumption covers them.
Hp == INSTANCE HpPedometer

USE RlAssumption

\* Phases of a batch: on the LP core, and before anything of it was read.
OnLp == pc \in {"reading", "delaying", "fallback"}
Idle == pc \in {"reset", "sleep_and_run"}

Types ==
  /\ pc \in {"reset", "sleep_and_run", "reading", "delaying", "fallback",
             "stepping", "recording"}
  /\ count \in 0 .. BATCH
  /\ logged \in Nat
  /\ buf \in [Slots -> Nat]
  /\ copy \in [Slots -> Nat] \cup {NULL}

\* Elements of an array that hold the samples after the logged ones.
Holds(array, n) == \A i \in Slots : i < n => array[i] = logged + i + 1

BatchInv ==
  /\ OnLp => /\ measured = logged + count
             /\ count > 0 => copy # NULL /\ Holds(copy, count)
  /\ ~OnLp => copy = NULL
  /\ pc = "reading" => count < BATCH
  /\ pc = "fallback" => count = BATCH
  /\ pc = "stepping" => measured = logged + BATCH /\ Holds(buf, BATCH)
  /\ pc = "recording" => measured = logged + BATCH
  /\ Idle => measured = logged
  /\ pc = "reset" => logged = 0

DetectorInv ==
  /\ pc = "stepping" => fed = Log!Samples(logged, count)
  /\ pc = "recording" => fed = Log!Samples(logged, BATCH)
  /\ pc \notin {"stepping", "recording"} => fed = <<>>
  /\ time_ms = PERIOD * (IF pc = "recording" THEN logged + BATCH ELSE logged)

Inv == Types /\ BatchInv /\ DetectorInv

-----------------------------------------------------------------------------
\* The length of a run of samples, and one more sample of it.
LEMMA SamplesAppend ==
  ASSUME NEW k \in Nat, NEW n \in Nat
  PROVE  /\ Log!Samples(k, n) \in Seq(Nat)
         /\ Len(Log!Samples(k, n)) = n
         /\ Append(Log!Samples(k, n), k + n + 1) = Log!Samples(k, n + 1)
         /\ Append(Log!Samples(k, n), k + n + 1)
              = Log!Samples(k, n) \o Log!Samples(k + n, 1)
<1>1. Log!Samples(k, n) \in Seq(Nat) /\ Len(Log!Samples(k, n)) = n
  BY DEF Log!Samples
<1>2. Append(Log!Samples(k, n), k + n + 1) = Log!Samples(k, n + 1)
  BY DEF Log!Samples
<1>3. Log!Samples(k + n, 1) = <<k + n + 1>>
  BY DEF Log!Samples
<1>4. Append(Log!Samples(k, n), k + n + 1) = Log!Samples(k, n) \o <<k + n + 1>>
  BY <1>1, AppendIsConcat
<1>5. QED
  BY <1>1, <1>2, <1>3, <1>4

\* No samples.
LEMMA NoSamples == \A k \in Nat : Log!Samples(k, 0) = <<>>
  BY DEF Log!Samples

\* The program starts in the invariant.
LEMMA InvInit == Init => Inv
  BY DEF Init, Inv, Types, BatchInv, DetectorInv, OnLp, Idle, Holds, Slots, Zeros

\* The steps of the LP core keep it.
LEMMA InvLp ==
  ASSUME Inv, LpMeasure \/ LpMeasureFails \/ LpDelay
  PROVE  Inv'
<1> USE DEF Inv, Types, BatchInv, DetectorInv, OnLp, Idle
<1>1. CASE LpMeasure
  <2> DEFINE before == IF copy = NULL THEN buf ELSE copy
  <2>1. /\ before \in [Slots -> Nat]
        /\ count \in Slots
        /\ measured = logged + count
        /\ Holds(before, count)
    BY <1>1 DEF LpMeasure, Holds, Slots
  <2>2. /\ copy' = [before EXCEPT ![count] = logged + count + 1]
        /\ measured' = logged + (count + 1)
        /\ count' = count + 1
        /\ logged' = logged
        /\ pc' = "delaying"
    BY <1>1, <2>1 DEF LpMeasure
  <2>3. copy' \in [Slots -> Nat] /\ Holds(copy, count)'
    <3> HIDE DEF before
    <3>1. logged \in Nat /\ logged + count + 1 \in Nat
      BY <2>1 DEF Slots
    <3>2. copy' \in [Slots -> Nat]
      BY <2>1, <2>2, <3>1
    <3>3. ASSUME NEW i \in Slots, i < count + 1
          PROVE  copy'[i] = logged + i + 1
      <4> USE <3>3
      <4>1. CASE i = count
        BY <2>1, <2>2, <4>1
      <4>2. CASE i # count
        <5>1. i < count
          BY <4>2, <2>1 DEF Slots
        <5>2. QED
          BY <2>1, <2>2, <4>2, <5>1 DEF Holds
      <4>3. QED
        BY <4>1, <4>2
    <3>4. QED
      BY <2>2, <3>2, <3>3 DEF Holds
  <2>4. copy' # NULL
    BY <2>3 DEF Slots
  <2>5. Types'
    BY <1>1, <2>1, <2>2, <2>3 DEF LpMeasure, Slots
  <2>6. BatchInv' /\ DetectorInv'
    <3> HIDE DEF Types
    <3> QED BY <1>1, <2>2, <2>3, <2>4 DEF LpMeasure
  <2>7. QED
    BY <2>5, <2>6
<1>2. CASE LpMeasureFails
  BY <1>2 DEF LpMeasureFails, Holds
<1>3. CASE LpDelay
  BY <1>3 DEF LpDelay, Holds
<1>4. QED
  BY <1>1, <1>2, <1>3

\* The steps of the HP core keep it.
LEMMA InvHp ==
  ASSUME Inv, HpBoot \/ HpSleepAndRun \/ HpReceive \/ HpStep \/ HpRecord
  PROVE  Inv'
<1> USE DEF Inv, Types, BatchInv, DetectorInv, OnLp, Idle
<1>1. CASE HpBoot
  BY <1>1 DEF HpBoot
<1>2. CASE HpSleepAndRun
  BY <1>2 DEF HpSleepAndRun
<1>3. CASE HpReceive
  <2>1. copy # NULL /\ buf' = copy /\ Holds(copy, BATCH)
    BY <1>3 DEF HpReceive
  <2>2. Holds(buf, BATCH)'
    BY <1>3, <2>1 DEF HpReceive, Holds
  <2>3. QED
    BY <1>3, <2>1, <2>2, NoSamples DEF HpReceive
<1>4. CASE HpStep
  <2>1. CASE count < BATCH
    <3>1. /\ fed' = Append(Log!Samples(logged, count), logged + count + 1)
          /\ logged \in Nat /\ count \in Nat
      BY <1>4, <2>1 DEF HpStep, Holds, Slots
    <3>2. fed' = Log!Samples(logged, count + 1)
      BY <3>1, SamplesAppend
    <3>3. QED
      BY <1>4, <2>1, <3>2 DEF HpStep, Holds
  <2>2. CASE ~(count < BATCH)
    <3>1. PERIOD * (logged + BATCH) = PERIOD * logged + BATCH * PERIOD
      OBVIOUS
    <3>2. QED
      BY <1>4, <2>2, <3>1 DEF HpStep
  <2>3. QED
    BY <2>1, <2>2
<1>5. CASE HpRecord
  <2>1. fed = Log!Samples(logged, BATCH)
    BY <1>5 DEF HpRecord
  <2>2. Len(fed) = BATCH
    BY <2>1, SamplesAppend
  <2>3. QED
    BY <1>5, <2>2 DEF HpRecord
<1>6. QED
  BY <1>1, <1>2, <1>3, <1>4, <1>5

\* The invariant holds.
LEMMA RlInvariant == Spec => []Inv
<1>1. Inv /\ [Next]_vars => Inv'
  <2> SUFFICES ASSUME Inv, [Next]_vars PROVE Inv'
    OBVIOUS
  <2>1. CASE PowerCycle
    BY <2>1 DEF PowerCycle, Inv, Types, BatchInv, DetectorInv, OnLp, Idle, Slots, Zeros
  <2>2. CASE UNCHANGED vars
    BY <2>2 DEF vars, Inv, Types, BatchInv, DetectorInv, OnLp, Idle, Holds
  <2>3. QED
    BY <2>1, <2>2, InvLp, InvHp DEF Next
<1>2. QED
  BY <1>1, InvInit, PTL DEF Spec

\* What the batch invariant leaves out: the mount and the lines of the log.
FileTypes == mounted \in BOOLEAN /\ log \in Seq(LogLines)

\* The time of a row is a number.
LEMMA TimeIsNat == Inv => time_ms \in Nat
<1> SUFFICES ASSUME Inv PROVE time_ms \in Nat
  OBVIOUS
<1>1. (IF pc = "recording" THEN logged + BATCH ELSE logged) \in Nat
  BY DEF Inv, Types
<1>2. QED
  BY <1>1 DEF Inv, DetectorInv

\* Every step keeps them: a header and rows are what is written.
LEMMA FileTypesNext ==
  ASSUME Inv, FileTypes, [Next]_vars
  PROVE  FileTypes'
<1>1. Log!HEADER \in LogLines /\ Log!Row(time_ms) \in LogLines
  BY TimeIsNat DEF LogLines, Log!HEADER, Log!Row
<1>2. CASE HpBoot
  <2>1. mounted' \in BOOLEAN
    BY <1>2, Zenon DEF HpBoot, Spiffs!Mount
  <2>2. QED
    BY <1>1, <1>2, <2>1 DEF HpBoot, FileTypes, Spiffs!Mount, Spiffs!Write
<1>3. CASE HpRecord
  BY <1>1, <1>3 DEF HpRecord, FileTypes, Spiffs!WriteRow, Spiffs!Write
<1>4. CASE PowerCycle
  <2>1. mounted' \in BOOLEAN
    BY <1>4, Zenon DEF PowerCycle
  <2>2. QED
    BY <1>4, <2>1 DEF PowerCycle, FileTypes
<1>5. CASE UNCHANGED <<mounted, log>>
  BY <1>5 DEF FileTypes
<1>6. QED
  BY <1>2, <1>3, <1>4, <1>5 DEF Next, HpSleepAndRun, LpMeasure, LpMeasureFails, LpDelay,
     HpReceive, HpStep, vars

\* The program is always at one of its steps, with its indices in the arrays.
THEOREM RlTypes == Spec => []TypeOK
<1>1. Init => FileTypes
  <2> SUFFICES ASSUME Init PROVE FileTypes
    OBVIOUS
  <2>1. mounted \in BOOLEAN
    BY Zenon DEF Init
  <2>2. QED
    BY <2>1 DEF Init, FileTypes
<1>2. Inv /\ FileTypes => TypeOK
  <2> SUFFICES ASSUME Inv, FileTypes PROVE TypeOK
    OBVIOUS
  <2>1. logged \in Nat /\ count \in Nat
    BY DEF Inv, Types
  <2>2. fed \in Seq(Nat)
    <3>1. CASE pc \in {"stepping", "recording"}
      BY <2>1, <3>1, SamplesAppend DEF Inv, DetectorInv
    <3>2. CASE pc \notin {"stepping", "recording"}
      BY <3>2 DEF Inv, DetectorInv
    <3>3. QED
      BY <3>1, <3>2
  <2>3. measured \in Nat
    BY <2>1 DEF Inv, Types, BatchInv, OnLp, Idle
  <2>4. QED
    BY <2>2, <2>3, TimeIsNat DEF Inv, Types, BatchInv, FileTypes, TypeOK
<1>3. QED
  BY <1>1, <1>2, RlInvariant, FileTypesNext, PTL DEF Spec

\* When the detector runs, the arrays hold exactly the samples the block read,
\* and LP memory holds no copy of them.
THEOREM BatchesComeBack == Spec => []BatchCameBack
<1>1. Inv => BatchCameBack
  <2> SUFFICES ASSUME Inv, pc = "stepping"
               PROVE  copy = NULL /\ buf = [i \in Slots |-> measured - BATCH + i + 1]
    BY DEF BatchCameBack
  <2>1. /\ copy = NULL
        /\ measured - BATCH = logged
        /\ buf \in [Slots -> Nat]
        /\ Holds(buf, BATCH)
    BY DEF Inv, Types, BatchInv, OnLp
  <2>2. QED
    BY <2>1 DEF Holds, Slots
<1>2. QED
  BY <1>1, RlInvariant, PTL

-----------------------------------------------------------------------------
\* Refinement: every step is a step of the log or leaves it alone.
LEMMA StepRefines ==
  ASSUME Inv, [Next]_vars
  PROVE  [Log!LogNext]_(Log!logVars)
<1> USE DEF Inv, Types, DetectorInv
<1>1. CASE HpBoot
  BY <1>1 DEF HpBoot, Spiffs!Mount, Spiffs!Write, BatchInv,
     Log!LogNext, Log!Start, Log!Write, Log!logVars
<1>2. CASE HpStep
  <2>1. CASE count < BATCH
    <3>1. /\ fed = Log!Samples(logged, count)
          /\ fed' = Append(Log!Samples(logged, count), logged + count + 1)
          /\ logged \in Nat /\ count \in Nat
      BY <1>2, <2>1 DEF HpStep, BatchInv, Holds, Slots
    <3>2. Len(fed) = count
      BY <3>1, SamplesAppend
    <3>3. fed' = fed \o Log!Samples(logged + Len(fed), 1)
      BY <3>1, <3>2, SamplesAppend
    <3>4. Log!Detect(1)
      BY <1>2, <2>1, <3>1, <3>2, <3>3 DEF HpStep, Log!Detect
    <3>5. QED
      BY <3>4 DEF Log!LogNext
  <2>2. CASE ~(count < BATCH)
    BY <1>2, <2>2 DEF HpStep, Log!logVars
  <2>3. QED
    BY <2>1, <2>2
<1>3. CASE HpRecord
  <2>1. fed = Log!Samples(logged, BATCH) /\ time_ms = PERIOD * (logged + BATCH)
    BY <1>3 DEF HpRecord
  <2>2. Len(fed) = BATCH
    BY <2>1, SamplesAppend
  <2>3. Log!Write(Log!Row(PERIOD * logged'))
    BY <1>3, <2>1, <2>2 DEF HpRecord, Spiffs!WriteRow, Spiffs!Write, Log!Write
  <2>4. QED
    BY <1>3, <2>2, <2>3 DEF HpRecord, Log!LogNext, Log!Record
<1>4. CASE PowerCycle
  BY <1>4 DEF PowerCycle, Log!LogNext, Log!PowerCut
<1>5. CASE HpSleepAndRun \/ HpReceive
  BY <1>5 DEF HpSleepAndRun, HpReceive, Log!logVars
<1>6. CASE LpMeasure \/ LpMeasureFails \/ LpDelay
  BY <1>6 DEF LpMeasure, LpMeasureFails, LpDelay, Log!logVars
<1>7. CASE UNCHANGED vars
  BY <1>7 DEF vars, Log!logVars
<1>8. QED
  BY <1>1, <1>2, <1>3, <1>4, <1>5, <1>6, <1>7 DEF Next

\* rl/pedometer keeps the promise of the log, but for lines whose file could not
\* be opened: every sample read on the LP core reaches the detector once and in
\* order, and a row stands for a batch and has the time its samples span.
THEOREM RlImplementsLog == Spec => LogIsFaithful
<1>1. Init => Log!LogInit
  BY DEF Init, Log!LogInit
<1>2. QED
  BY <1>1, StepRefines, RlInvariant, PTL DEF Spec, Log!LogSpec, LogIsFaithful
-----------------------------------------------------------------------------
\* cm/pedometer and rm/pedometer.

\* A good sample was given to the detector and not counted yet.
Uncounted == pc = "counting" \/ (build = "cm" /\ pc = "delaying" /\ ok)

\* Samples the detector was given since the last row.
Given == IF Uncounted THEN sample_count + 1 ELSE sample_count

LoopTypes ==
  /\ build \in {"cm", "rm"}
  /\ pc \in {"reset", "reading", "delaying", "counting", "recording", "stopped"}
  /\ ok \in BOOLEAN
  /\ sample_count \in 0 .. BATCH
  /\ sample_count = BATCH <=> pc = "recording"
  /\ logged \in Nat

CountInv ==
  /\ fed = Hp!Log!Samples(logged, Given)
  /\ measured = logged + Given
  /\ time_ms = PERIOD * (logged + sample_count)
  /\ pc = "reset" => sample_count = 0 /\ logged = 0

HpInv == LoopTypes /\ CountInv

-----------------------------------------------------------------------------
\* The samples of the two specifications are the same.
LEMMA HpSamples == \A k, n : Hp!Log!Samples(k, n) = Log!Samples(k, n)
  BY DEF Log!Samples, Hp!Log!Samples

\* What a read that gives a sample does to what the detector was given.
LEMMA MeasureGives ==
  ASSUME HpInv, Hp!Measure
  PROVE  /\ sample_count < BATCH
         /\ Len(fed) = sample_count
         /\ fed' = fed \o Hp!Log!Samples(logged + Len(fed), 1)
         /\ fed' = Hp!Log!Samples(logged, sample_count + 1)
<1>1. /\ fed = Hp!Log!Samples(logged, sample_count)
      /\ fed' = Append(fed, logged + sample_count + 1)
      /\ sample_count < BATCH
      /\ logged \in Nat /\ sample_count \in Nat
  BY DEF Hp!Measure, HpInv, LoopTypes, CountInv, Given, Uncounted
<1>2. Len(fed) = sample_count
  BY <1>1, SamplesAppend, HpSamples
<1>3. fed' = fed \o Hp!Log!Samples(logged + Len(fed), 1)
  BY <1>1, <1>2, SamplesAppend, HpSamples
<1>4. fed' = Hp!Log!Samples(logged, sample_count + 1)
  BY <1>1, SamplesAppend, HpSamples
<1>5. QED
  BY <1>1, <1>2, <1>3, <1>4

\* A row accounts for a whole batch.
LEMMA RecordTakes ==
  ASSUME HpInv, Hp!Record
  PROVE  /\ Len(fed) = BATCH
         /\ logged' = logged + BATCH
         /\ time_ms = PERIOD * logged'
<1>1. /\ fed = Hp!Log!Samples(logged, BATCH)
      /\ sample_count = BATCH
      /\ time_ms = PERIOD * (logged + BATCH)
      /\ logged \in Nat
  BY DEF Hp!Record, HpInv, LoopTypes, CountInv, Given, Uncounted
<1>2. Len(fed) = BATCH
  BY <1>1, SamplesAppend, HpSamples
<1>3. QED
  BY <1>1, <1>2 DEF Hp!Record

\* The loop starts in the invariant.
LEMMA HpInvInit == Hp!Init => HpInv
<1> SUFFICES ASSUME Hp!Init PROVE HpInv
  OBVIOUS
<1>1. LoopTypes
  <2>1. ok \in BOOLEAN
    BY Zenon DEF Hp!Init
  <2>2. QED
    BY <2>1 DEF Hp!Init, LoopTypes
<1>2. Given = 0
  BY DEF Hp!Init, Given, Uncounted
<1>3. QED
  BY <1>1, <1>2, NoSamples, HpSamples DEF Hp!Init, HpInv, CountInv

\* Every step keeps it.
LEMMA InvNext ==
  ASSUME HpInv, [Hp!Next]_(Hp!vars)
  PROVE  HpInv'
<1> USE DEF HpInv, LoopTypes, CountInv, Given, Uncounted, Hp!EndOfTurn, Hp!counts,
            Hp!samples
<1>1. CASE Hp!BootCm \/ Hp!BootRm
  <2>1. /\ pc = "reset" /\ pc' \in {"reading", "stopped"}
        /\ UNCHANGED <<build, ok, sample_count, time_ms, measured, fed, logged>>
    BY <1>1 DEF Hp!BootCm, Hp!BootRm
  <2>2. Given = sample_count /\ Given' = sample_count
    BY <2>1
  <2>3. QED
    <3> HIDE DEF Given
    <3> QED BY <2>1, <2>2
<1>2. CASE Hp!Measure
  <2>1. ok' \in BOOLEAN /\ ok'
    BY <1>2, Zenon DEF Hp!Measure
  <2>2. /\ UNCHANGED <<build, sample_count, time_ms, logged>>
        /\ measured' = logged + sample_count + 1
        /\ pc' = IF build = "cm" THEN "delaying" ELSE "counting"
        /\ pc = "reading"
    BY <1>2 DEF Hp!Measure
  <2>3. LoopTypes'
    BY <2>1, <2>2
  <2>4. Given' = sample_count + 1
    BY <2>1, <2>2
  <2>5. CountInv'
    <3> HIDE DEF Given
    <3> QED BY <1>2, <2>2, <2>4, MeasureGives
  <2>6. QED
    BY <2>3, <2>5
<1>3. CASE Hp!MeasureFails
  <2>1. ok' \in BOOLEAN /\ ~ok'
    BY <1>3, Zenon DEF Hp!MeasureFails
  <2>2. QED
    BY <1>3, <2>1 DEF Hp!MeasureFails
<1>4. CASE Hp!Delay
  BY <1>4 DEF Hp!Delay
<1>5. CASE Hp!Count
  <2>1. PERIOD * (logged + (sample_count + 1))
          = PERIOD * (logged + sample_count) + PERIOD
    OBVIOUS
  <2>2. QED
    BY <1>5, <2>1 DEF Hp!Count
<1>6. CASE Hp!Record
  <2>1. time_ms' = PERIOD * (logged' + sample_count')
    BY <1>6, RecordTakes DEF Hp!Record
  <2>2. QED
    BY <1>6, <2>1, RecordTakes, NoSamples, HpSamples DEF Hp!Record
<1>7. CASE Hp!PowerCycle
  <2>1. ok' \in BOOLEAN /\ ~ok'
    BY <1>7, Zenon DEF Hp!PowerCycle
  <2>2. QED
    BY <1>7, <2>1, NoSamples, HpSamples DEF Hp!PowerCycle
<1>8. CASE UNCHANGED Hp!vars
  BY <1>8 DEF Hp!vars
<1>9. QED
  BY <1>1, <1>2, <1>3, <1>4, <1>5, <1>6, <1>7, <1>8 DEF Hp!Next

\* The invariant holds.
LEMMA HpInvariant == Hp!Spec => []HpInv
  BY HpInvInit, InvNext, PTL DEF Hp!Spec

\* What the loop invariant leaves out: the program that ends, the mount and the
\* lines of the log.
HpFileTypes ==
  /\ pc = "stopped" => build = "cm"
  /\ mounted \in BOOLEAN
  /\ log \in Seq(Hp!LogLines)

\* It starts with an empty log and nothing mounted.
LEMMA FileTypesInit == Hp!Init => HpFileTypes
<1> SUFFICES ASSUME Hp!Init PROVE HpFileTypes
  OBVIOUS
<1>1. mounted \in BOOLEAN
  BY Zenon DEF Hp!Init
<1>2. QED
  BY <1>1 DEF Hp!Init, HpFileTypes

\* The time of a row is a number.
LEMMA HpTimeIsNat == HpInv => time_ms \in Nat
<1> SUFFICES ASSUME HpInv PROVE time_ms \in Nat
  OBVIOUS
<1>1. logged + sample_count \in Nat
  BY DEF HpInv, LoopTypes
<1>2. QED
  BY <1>1 DEF HpInv, CountInv

\* Every step keeps them: a header and rows are what is written.
LEMMA HpFileTypesNext ==
  ASSUME HpInv, HpFileTypes, [Hp!Next]_(Hp!vars)
  PROVE  HpFileTypes'
<1>1. Hp!Log!HEADER \in Hp!LogLines /\ Hp!Log!Row(time_ms) \in Hp!LogLines
  BY HpTimeIsNat DEF Hp!LogLines, Hp!Log!HEADER, Hp!Log!Row
<1>2. CASE Hp!BootCm
  <2>1. mounted' \in BOOLEAN
    BY <1>2, Zenon DEF Hp!BootCm, HpFileTypes
  <2>2. QED
    BY <1>1, <1>2, <2>1 DEF Hp!BootCm, HpFileTypes
<1>3. CASE Hp!BootRm
  <2>1. mounted' \in BOOLEAN
    BY <1>3, Zenon DEF Hp!BootRm, Hp!Spiffs!Mount
  <2>2. QED
    BY <1>1, <1>3, <2>1 DEF Hp!BootRm, HpFileTypes, Hp!Spiffs!Mount, Hp!Spiffs!Write
<1>4. CASE Hp!Record
  <2>1. mounted' = mounted /\ (log' = log \/ log' = Append(log, Hp!Log!Row(time_ms)))
    BY <1>4, Zenon DEF Hp!Record, Hp!WriteRow, Hp!Spiffs!WriteRow, Hp!Spiffs!Write
  <2>2. pc' # "stopped"
    BY <1>4 DEF Hp!Record, Hp!EndOfTurn
  <2>3. QED
    BY <1>1, <2>1, <2>2 DEF HpFileTypes
<1>5. CASE Hp!PowerCycle
  <2>1. mounted' \in BOOLEAN
    BY <1>5, Zenon DEF Hp!PowerCycle
  <2>2. QED
    BY <1>5, <2>1 DEF Hp!PowerCycle, HpFileTypes
<1>6. CASE Hp!Measure \/ Hp!MeasureFails \/ Hp!Delay \/ Hp!Count
  BY <1>6 DEF Hp!Measure, Hp!MeasureFails, Hp!Delay, Hp!Count, Hp!EndOfTurn, HpFileTypes
<1>7. CASE UNCHANGED Hp!vars
  BY <1>7 DEF Hp!vars, HpFileTypes
<1>8. QED
  BY <1>2, <1>3, <1>4, <1>5, <1>6, <1>7 DEF Hp!Next

\* The loop is always at one of its steps, the counter below its limit unless a
\* row is due, and only cm ends.
THEOREM HpTypes == Hp!Spec => [](Hp ! TypeOK)
<1>1. HpInv /\ HpFileTypes => Hp!TypeOK
  <2> SUFFICES ASSUME HpInv, HpFileTypes PROVE Hp!TypeOK
    OBVIOUS
  <2>1. Given \in Nat /\ logged \in Nat
    BY DEF HpInv, LoopTypes, Given
  <2>2. fed \in Seq(Nat) /\ measured \in Nat
    BY <2>1, SamplesAppend, HpSamples DEF HpInv, CountInv
  <2>3. QED
    BY <2>2, HpTimeIsNat DEF HpInv, LoopTypes, HpFileTypes, Hp!TypeOK
<1>2. QED
  BY <1>1, HpInvariant, FileTypesInit, HpFileTypesNext, PTL DEF Hp!Spec

-----------------------------------------------------------------------------
\* Refinement: every step is a step of the log or leaves it alone.
LEMMA HpStepRefines ==
  ASSUME HpInv, [Hp!Next]_(Hp!vars)
  PROVE  [Hp!Log!LogNext]_(Hp!Log!logVars)
<1> USE DEF Hp!Log!LogNext, Hp!Log!logVars
<1>1. CASE Hp!BootCm \/ Hp!BootRm
  <2>1. fed = <<>> /\ logged = 0
    BY <1>1, NoSamples, HpSamples
    DEF Hp!BootCm, Hp!BootRm, HpInv, LoopTypes, CountInv, Given, Uncounted
  <2>2. QED
    BY <1>1, <2>1 DEF Hp!BootCm, Hp!BootRm, Hp!samples, Hp!Spiffs!Mount,
       Hp!Spiffs!Write, Hp!Log!Start, Hp!Log!Write
<1>2. CASE Hp!Measure
  <2>1. Hp!Log!Detect(1)
    <3>1. Len(fed) + 1 <= BATCH
      BY <1>2, MeasureGives DEF HpInv, LoopTypes
    <3>2. QED
      BY <1>2, <3>1, MeasureGives DEF Hp!Measure, Hp!Log!Detect
  <2>2. QED
    BY <1>2, <2>1 DEF Hp!Measure
<1>3. CASE Hp!Record
  <2>1. Hp!Log!Write(Hp!Log!Row(PERIOD * logged'))
    BY <1>3, RecordTakes DEF Hp!Record, Hp!WriteRow, Hp!Spiffs!WriteRow,
       Hp!Spiffs!Write, Hp!Log!Write, HpInv, LoopTypes
  <2>2. QED
    BY <1>3, <2>1, RecordTakes DEF Hp!Record, Hp!Log!Record
<1>4. CASE Hp!PowerCycle
  BY <1>4 DEF Hp!PowerCycle, Hp!Log!PowerCut
<1>5. CASE Hp!MeasureFails \/ Hp!Delay \/ Hp!Count
  BY <1>5 DEF Hp!MeasureFails, Hp!Delay, Hp!Count, Hp!samples
<1>6. CASE UNCHANGED Hp!vars
  BY <1>6 DEF Hp!vars, Hp!samples
<1>7. QED
  BY <1>1, <1>2, <1>3, <1>4, <1>5, <1>6 DEF Hp!Next

\* Both builds keep the promise of the log, rm but for lines whose file could not
\* be opened: every sample read reaches the detector once and in order, and a row
\* stands for a batch and has the time its samples span, whatever reads fail and
\* whenever power is cut.
THEOREM HpImplementsLog == Hp!Spec => (Hp ! LogIsFaithful)
<1>1. Hp!Init => Hp!Log!LogInit
  BY Zenon DEF Hp!Init, Hp!Log!LogInit
<1>2. QED
  BY <1>1, HpStepRefines, HpInvariant, PTL DEF Hp!Spec, Hp!Log!LogSpec, Hp!LogIsFaithful
=============================================================================
