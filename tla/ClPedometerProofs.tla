------------------------- MODULE ClPedometerProofs -------------------------
(***************************************************************************)
(* The hand-over of the buffer between the two cores of cl/pedometer, and  *)
(* the refinement of PedometerLog, for every batch size and sample period. *)
(***************************************************************************)
EXTENDS ClPedometer, SequenceTheorems, TLAPS

USE ClAssumption

\* States of the HP core in which the LP core waits for it, and in which it runs.
Handover  == {"woken", "processing", "recording", "restarting"}
Measuring == {"falling_asleep", "asleep"}

\* Without `fed', whose value each state of the HP core fixes: see FedInv.
CoreTypes ==
  /\ hp \in HpStates
  /\ lp \in LpStates
  /\ wakeup_source \in {"HP_CPU", "LP_TIMER"}
  /\ timer \in BOOLEAN
  /\ mrbc_sp_bottom \in {NULL, "loop"}
  /\ write_index \in 0 .. BATCH
  /\ shared_buffer \in [Slots -> Nat]
  /\ measured \in Nat
  /\ logged \in Nat
  /\ time_ms \in Nat

\* A stored batch holds the samples after the logged ones, in order.
Stored(n) ==
  /\ measured = logged + n
  /\ \A i \in 0 .. n - 1 : shared_buffer[i] = logged + i + 1

\* What the LP core may be doing in each phase of the HP core.
OwnerInv ==
  /\ hp \in Handover => /\ lp = "halted" /\ ~timer /\ mrbc_sp_bottom = NULL
                        /\ write_index = BATCH
  /\ hp \in {"woken", "processing", "recording"} => Stored(BATCH)
  /\ hp = "restarting" => measured = logged
  /\ hp = "reset" => lp = "unloaded" /\ mrbc_sp_bottom = NULL /\ ~timer
                     /\ measured = 0 /\ logged = 0 /\ write_index = 0
  /\ hp = "stopped" => lp \in {"unloaded", "halted"} /\ ~timer
  /\ hp \in Measuring =>
       /\ lp \in {"main", "loop", "halted"}
       /\ mrbc_sp_bottom = "loop" => Stored(write_index)
       /\ mrbc_sp_bottom = NULL => /\ lp = "main" /\ measured = logged
                                   /\ write_index \in {0, BATCH}

\* Samples are with the detector only between processing and recording a batch,
\* and the time counts the logged ones.
FedInv ==
  /\ hp = "recording" => fed = [i \in 1 .. BATCH |-> logged + i]
  /\ hp # "recording" => fed = <<>>
  /\ time_ms = PERIOD * logged

Inv == CoreTypes /\ OwnerInv /\ FedInv

-----------------------------------------------------------------------------
\* The bounds of a delay and the frame of a step, for every step below.
USE DEF HpStates, LpStates, Slots

\* The device starts in the invariant.
LEMMA InvInit == Init => Inv
  BY DEF Init, Inv, CoreTypes, OwnerInv, FedInv, Handover, Measuring

\* The HP core's steps keep it.
LEMMA InvHp ==
  ASSUME Inv, HpFirstBoot \/ HpSleep \/ HpOpenLog \/ HpProcess \/ HpRecord \/ HpRunLp
  PROVE  Inv'
<1> USE DEF Inv, CoreTypes, OwnerInv, FedInv, Handover, Measuring, Stored
<1>1. CASE HpFirstBoot
  BY <1>1 DEF HpFirstBoot
<1>2. CASE HpSleep
  BY <1>2 DEF HpSleep, lpVars
<1>3. CASE HpOpenLog
  BY <1>3 DEF HpOpenLog, lpVars
<1>4. CASE HpProcess
  <2>1. fed' = [i \in 1 .. BATCH |-> logged + i]
    <3>1. [i \in 1 .. BATCH |-> shared_buffer[i - 1]] = [i \in 1 .. BATCH |-> logged + i]
      BY <1>4 DEF HpProcess
    <3>2. [i \in 1 .. BATCH |-> logged + i] \in Seq(Nat)
      OBVIOUS
    <3>3. fed = <<>>
      BY <1>4 DEF HpProcess
    <3>4. QED
      BY <1>4, <3>1, <3>2, <3>3, ConcatEmptySeq DEF HpProcess
  <2>2. QED
    BY <1>4, <2>1 DEF HpProcess, lpVars
<1>5. CASE HpRecord
  <2>1. time_ms' = PERIOD * logged'
    BY <1>5 DEF HpRecord
  <2>2. time_ms' \in Nat
    BY <2>1, <1>5 DEF HpRecord
  <2>3. QED
    BY <1>5, <2>1, <2>2 DEF HpRecord, lpVars
<1>6. CASE HpRunLp
  BY <1>6 DEF HpRunLp
<1>7. QED
  BY <1>1, <1>2, <1>3, <1>4, <1>5, <1>6

\* The LP core's steps keep it.
LEMMA InvLp ==
  ASSUME Inv, LpMain \/ LpTimer \/ LpMeasure \/ LpMeasureFails \/ LpBatchDone
  PROVE  Inv'
<1> USE DEF Inv, CoreTypes, OwnerInv, FedInv, Handover, Measuring, Stored, hpVars
<1>1. CASE LpMain
  BY <1>1 DEF LpMain, DelayThen
<1>2. CASE LpTimer
  BY <1>2 DEF LpTimer
<1>3. CASE LpMeasure
  <2>1. /\ hp \in Measuring
        /\ mrbc_sp_bottom = "loop"
        /\ Stored(write_index)
        /\ write_index \in Slots
    BY <1>3 DEF LpMeasure
  <2>2. Stored(write_index)'
    BY <1>3, <2>1 DEF LpMeasure
  <2>3. CoreTypes'
    BY <1>3, <2>1 DEF LpMeasure, DelayThen
  <2>4. OwnerInv'
    <3> HIDE DEF Stored
    <3> QED BY <1>3, <2>1, <2>2 DEF LpMeasure, DelayThen
  <2>5. FedInv'
    BY <1>3 DEF LpMeasure
  <2>6. QED
    BY <2>3, <2>4, <2>5
<1>4. CASE LpMeasureFails
  BY <1>4 DEF LpMeasureFails, DelayThen
<1>5. CASE LpBatchDone
  BY <1>5 DEF LpBatchDone
<1>6. QED
  BY <1>1, <1>2, <1>3, <1>4, <1>5

\* A power cut restores it.
LEMMA InvPowerCycle ==
  ASSUME Inv, PowerCycle
  PROVE  Inv'
<1>1. CoreTypes'
  <2>1. timer' \in BOOLEAN
    BY Zenon DEF PowerCycle
  <2>2. shared_buffer' \in [Slots -> Nat]
    BY DEF PowerCycle
  <2>3. /\ hp' \in HpStates
        /\ lp' \in LpStates
        /\ wakeup_source' \in {"HP_CPU", "LP_TIMER"}
        /\ mrbc_sp_bottom' \in {NULL, "loop"}
    BY DEF PowerCycle
  <2>4. /\ write_index' \in 0 .. BATCH
        /\ measured' \in Nat
        /\ logged' \in Nat
        /\ time_ms' \in Nat
    BY DEF PowerCycle
  <2>5. QED
    BY <2>1, <2>2, <2>3, <2>4 DEF CoreTypes
<1>2. OwnerInv'
  BY DEF PowerCycle, OwnerInv, Handover, Measuring
<1>3. FedInv'
  BY DEF PowerCycle, FedInv
<1>4. QED
  BY <1>1, <1>2, <1>3 DEF Inv

\* The invariant holds.
LEMMA ClInvariant == Spec => []Inv
<1>1. Inv /\ [Next]_vars => Inv'
  <2> SUFFICES ASSUME Inv, [Next]_vars PROVE Inv'
    OBVIOUS
  <2>1. CASE UNCHANGED vars
    BY <2>1 DEF vars, hpVars, lpVars, Inv, CoreTypes, OwnerInv, FedInv, Stored
  <2>2. QED
    BY <2>1, InvHp, InvLp, InvPowerCycle DEF Next, Device
<1>2. QED
  BY <1>1, InvInit, PTL DEF Spec

\* The log has headers and rows only.
LogTyped == log \in Seq(LogLines)

\* Every step keeps it so.
LEMMA LogStaysTyped ==
  ASSUME Inv, LogTyped, [Next]_vars
  PROVE  LogTyped'
<1> USE DEF LogTyped
<1>1. CASE HpFirstBoot
  <2>1. Log!HEADER \in LogLines
    BY DEF LogLines, Log!HEADER
  <2>2. QED
    BY <1>1, <2>1 DEF HpFirstBoot
<1>2. CASE HpRecord
  <2>1. time_ms' \in Nat
    <3>1. BATCH * PERIOD \in Nat
      OBVIOUS
    <3>2. time_ms \in Nat /\ time_ms' = time_ms + BATCH * PERIOD
      BY <1>2 DEF HpRecord, Inv, CoreTypes
    <3>3. QED
      BY <3>1, <3>2
  <2>2. Log!Row(time_ms') \in LogLines
    BY <2>1 DEF LogLines, Log!Row
  <2>3. QED
    BY <1>2, <2>2 DEF HpRecord
<1>3. CASE UNCHANGED log
  BY <1>3
<1>4. QED
  BY <1>1, <1>2, <1>3 DEF Next, Device, HpSleep, HpOpenLog, HpProcess, HpRunLp, LpMain,
     LpTimer, LpMeasure, LpMeasureFails, LpBatchDone, PowerCycle, vars

\* Both cores are always in states of their programs, indices stay in the
\* buffer, and the log is headers and rows.
THEOREM ClTypes == Spec => []TypeOK
<1>1. Init => LogTyped
  BY DEF Init, LogTyped
<1>2. Inv /\ LogTyped => TypeOK
  <2> SUFFICES ASSUME Inv, LogTyped PROVE TypeOK
    OBVIOUS
  <2>1. fed \in Seq(Nat)
    <3>1. CASE hp = "recording"
      <4>1. [i \in 1 .. BATCH |-> logged + i] \in Seq(Nat)
        BY DEF Inv, CoreTypes
      <4>2. QED
        BY <3>1, <4>1 DEF Inv, FedInv
    <3>2. CASE hp # "recording"
      BY <3>2 DEF Inv, FedInv
    <3>3. QED
      BY <3>1, <3>2
  <2>2. QED
    BY <2>1 DEF Inv, CoreTypes, LogTyped, TypeOK
<1>3. QED
  BY <1>1, <1>2, LogStaysTyped, ClInvariant, PTL DEF Spec

\* shared_buffer has one owner at a time: while the HP core is awake after a
\* batch, the batch is complete and the LP core cannot start by itself.
THEOREM BufferHasOneOwner == Spec => []BufferHandover
<1>1. Inv => BufferHandover
  BY DEF Inv, OwnerInv, Handover, BufferHandover
<1>2. QED
  BY <1>1, ClInvariant, PTL

\* A batch is overwritten only when it is complete and logged.
THEOREM BatchesAreCompleted == Spec => BatchNotAbandoned
<1>1. Inv /\ [Next]_vars
        => [write_index' < write_index /\ hp' # "reset"
              => write_index = BATCH /\ measured = logged]_vars
  <2> SUFFICES ASSUME Inv, Next, write_index' < write_index, hp' # "reset"
               PROVE  write_index = BATCH /\ measured = logged
    OBVIOUS
  <2>1. write_index \in Nat
    BY DEF Inv, CoreTypes
  <2>2. LpMain
    BY <2>1 DEF Next, Device, HpFirstBoot, HpSleep, HpOpenLog, HpProcess, HpRecord, HpRunLp,
       LpTimer, LpMeasure, LpMeasureFails, LpBatchDone, PowerCycle, lpVars
  <2>3. mrbc_sp_bottom = NULL /\ lp = "main" /\ write_index # 0
    BY <2>1, <2>2 DEF LpMain
  <2>4. hp \in Measuring
    BY <2>3 DEF Inv, CoreTypes, OwnerInv, Handover, Measuring
  <2>5. QED
    BY <2>3, <2>4 DEF Inv, OwnerInv
<1>2. QED
  BY <1>1, ClInvariant, PTL DEF Spec, BatchNotAbandoned

-----------------------------------------------------------------------------
\* Refinement: the initial state.
LEMMA LogStart == Init => Log!LogInit
  BY DEF Init, Log!LogInit

\* Refinement: processing a batch is giving it to the detector.
LEMMA ProcessIsDetect ==
  ASSUME Inv, HpProcess
  PROVE  Log!Detect(BATCH)
<1>1. hp = "processing" /\ fed = <<>> /\ logged \in Nat /\ Stored(BATCH)
  BY DEF HpProcess, Inv, CoreTypes, OwnerInv, FedInv
<1>2. [i \in 1 .. BATCH |-> shared_buffer[i - 1]]
        = [i \in 1 .. BATCH |-> logged + Len(fed) + i]
  BY <1>1 DEF Stored
<1>3. Len(fed) + BATCH <= BATCH
  BY <1>1
<1>4. QED
  BY <1>2, <1>3 DEF HpProcess, Log!Detect, Log!Samples

\* Refinement: the row of a batch.
LEMMA RecordIsRecord ==
  ASSUME Inv, HpRecord
  PROVE  Log!Record
<1>1. logged \in Nat /\ time_ms = PERIOD * logged
      /\ fed = [i \in 1 .. BATCH |-> logged + i]
  BY DEF HpRecord, Inv, CoreTypes, FedInv
<1>2. Len(fed) = BATCH
  BY <1>1
<1>3. time_ms' = PERIOD * logged'
  BY <1>1 DEF HpRecord
<1>4. QED
  BY <1>2, <1>3 DEF HpRecord, Log!Record, Log!Write

\* Refinement: every step is a step of the log or leaves it alone.
LEMMA StepRefines ==
  ASSUME Inv, [Next]_vars
  PROVE  [Log!LogNext]_(Log!logVars)
<1>1. CASE HpFirstBoot
  BY <1>1 DEF HpFirstBoot, Inv, OwnerInv, FedInv, CoreTypes, Log!LogNext, Log!Start, Log!Write, Log!logVars
<1>2. CASE HpProcess
  BY <1>2, ProcessIsDetect DEF Log!LogNext
<1>3. CASE HpRecord
  BY <1>3, RecordIsRecord DEF Log!LogNext
<1>4. CASE PowerCycle
  BY <1>4 DEF PowerCycle, Log!LogNext, Log!PowerCut
<1>5. CASE HpSleep \/ HpOpenLog \/ HpRunLp
  BY <1>5 DEF HpSleep, HpOpenLog, HpRunLp, Log!logVars
<1>6. CASE LpMain \/ LpTimer \/ LpMeasure \/ LpMeasureFails \/ LpBatchDone
  BY <1>6 DEF LpMain, LpTimer, LpMeasure, LpMeasureFails, LpBatchDone, hpVars, Log!logVars
<1>7. CASE UNCHANGED vars
  BY <1>7 DEF vars, hpVars, Log!logVars
<1>8. QED
  BY <1>1, <1>2, <1>3, <1>4, <1>5, <1>6, <1>7 DEF Next, Device

\* cl/pedometer keeps the promise of the log: every measured sample reaches the
\* detector once and in order, and a row is written after every batch, with the
\* time its samples span, whatever transfers fail and whenever power is cut.
THEOREM ClImplementsLog == Spec => LogIsFaithful
  BY LogStart, StepRefines, ClInvariant, PTL DEF Spec, Log!LogSpec, LogIsFaithful
=============================================================================
