---------------------------- MODULE RlPedometer ----------------------------
(***************************************************************************)
(* rl/pedometer: the mruby program whose sleep_and_run block fills three   *)
(* arrays on the LP core, while the HP core sleeps; the HP core then runs  *)
(* the detector over them and logs a row.  The block works on copies of    *)
(* the arrays in LP memory: an array is copied when the block first uses   *)
(* it, and what the block wrote is copied back when it ends.  The protocol *)
(* that does the copying is CoproMailbox; here a transfer is one step.     *)
(*                                                                         *)
(* The three arrays are filled and copied alike and are one array here,    *)
(* whose elements are samples: numbers since power on, 0 for none.         *)
(***************************************************************************)
EXTENDS Integers, Sequences

CONSTANTS
  BATCH,      \* ARRAY_SIZE, 70 samples to a row
  PERIOD,     \* 20 ms, the time a sample stands for
  MaxLog,     \* bound of the model: lines of the log
  MaxRows,    \* bound of the model: rows tried since power on
  NULL

ASSUME RlAssumption ==
  /\ BATCH \in Nat \ {0}
  /\ PERIOD \in Nat \ {0}
  /\ MaxLog \in Nat
  /\ MaxRows \in Nat
  /\ NULL \notin [0 .. BATCH - 1 -> Nat]

VARIABLES
  pc,             \* where the program is, on either core
  count,          \* index of the loop it is in
  buf,            \* the arrays in HP memory
  copy,           \* their copies in LP memory, or NULL
  time_ms,
  measured,       \* history: samples read since power on
  fed,            \* history: samples given to the detector since the last row
  logged,         \* history: samples that rows account for, since power on
  mounted, log    \* the Spiffs class

vars == <<pc, count, buf, copy, time_ms, measured, fed, logged, mounted, log>>

Slots == 0 .. BATCH - 1
Zeros == [i \in Slots |-> 0]
LogLines == [kind : {"header"}] \cup [kind : {"row"}, time : Nat]

Spiffs == INSTANCE SpiffsLog
Log == INSTANCE PedometerLog WITH recorded <- logged, pending <- fed,
                                  lossy <- TRUE

Init ==
  /\ pc = "reset"
  /\ count = 0
  /\ buf = Zeros
  /\ copy = NULL
  /\ time_ms = 0
  /\ measured = 0
  /\ fed = <<>>
  /\ logged = 0
  /\ mounted = FALSE
  /\ log = <<>>

\* Spiffs#init: whether the file system is there or not, the loop is entered.
HpBoot ==
  /\ pc = "reset"
  /\ Len(log) < MaxLog
  /\ Spiffs!Mount(Log!HEADER)
  /\ pc' = "sleep_and_run"
  /\ UNCHANGED <<count, buf, copy, time_ms, measured, fed, logged>>

\* The block starts on the LP core with count = 0 and no copies.
HpSleepAndRun ==
  /\ pc = "sleep_and_run"
  /\ count' = 0
  /\ pc' = "reading"
  /\ UNCHANGED <<buf, copy, time_ms, measured, fed, logged, mounted, log>>

\* A sample is stored in the copies, which the first one brings over.  The
\* sensor class is rm's: see HpPedometer for what a sample may be.
LpMeasure ==
  /\ pc = "reading"
  /\ measured' = measured + 1
  /\ copy' = [(IF copy = NULL THEN buf ELSE copy) EXCEPT ![count] = measured']
  /\ count' = count + 1
  /\ pc' = "delaying"
  /\ UNCHANGED <<buf, time_ms, fed, logged, mounted, log>>

\* read returns nil: the same slot is tried again.
LpMeasureFails ==
  /\ pc = "reading"
  /\ pc' = "delaying"
  /\ UNCHANGED <<count, buf, copy, time_ms, measured, fed, logged, mounted,
                 log>>

\* Mutant of LpDelay: one sample more is read.
LpDelayOneMore ==
  /\ pc = "delaying"
  /\ pc' = IF count <= BATCH THEN "reading" ELSE "fallback"
  /\ UNCHANGED <<count, buf, copy, time_ms, measured, fed, logged, mounted,
                 log>>

\* Copro.delayMs(20), and the condition of the loop.
LpDelay ==
  /\ pc = "delaying"
  /\ pc' = IF count < BATCH THEN "reading" ELSE "fallback"
  /\ UNCHANGED <<count, buf, copy, time_ms, measured, fed, logged, mounted,
                 log>>

\* Mutant of HpReceive: what the block wrote is not copied back.
HpReceiveNothing ==
  /\ pc = "fallback"
  /\ copy' = NULL
  /\ count' = 0
  /\ pc' = "stepping"
  /\ UNCHANGED <<buf, time_ms, measured, fed, logged, mounted, log>>

\* The block ends: its objects are updated from their copies, and those dropped.
HpReceive ==
  /\ pc = "fallback"
  /\ buf' = IF copy = NULL THEN buf ELSE copy
  /\ copy' = NULL
  /\ count' = 0
  /\ pc' = "stepping"
  /\ UNCHANGED <<time_ms, measured, fed, logged, mounted, log>>

\* Mutant of HpStep: the last sample is left out.
HpStepAllButLast ==
  /\ pc = "stepping"
  /\ IF count < BATCH - 1
       THEN /\ fed' = Append(fed, buf[count])
            /\ count' = count + 1
            /\ UNCHANGED <<pc, time_ms>>
       ELSE /\ time_ms' = time_ms + BATCH * PERIOD
            /\ pc' = "recording"
            /\ UNCHANGED <<fed, count>>
  /\ UNCHANGED <<buf, copy, measured, logged, mounted, log>>

\* The detector is given the next sample; after the last the time advances.
HpStep ==
  /\ pc = "stepping"
  /\ IF count < BATCH
       THEN /\ fed' = Append(fed, buf[count])
            /\ count' = count + 1
            /\ UNCHANGED <<pc, time_ms>>
       ELSE /\ time_ms' = time_ms + BATCH * PERIOD
            /\ pc' = "recording"
            /\ UNCHANGED <<fed, count>>
  /\ UNCHANGED <<buf, copy, measured, logged, mounted, log>>

\* Mutant of HpRecord: a row that was lost is tried again until it is written.
HpRecordUntilWritten ==
  /\ pc = "recording"
  /\ Len(log) < MaxLog
  /\ logged < BATCH * MaxRows
  /\ Spiffs!WriteRow(Log!Row(time_ms))
  /\ IF log' = log
       THEN UNCHANGED <<pc, logged, fed>>
       ELSE /\ logged' = logged + Len(fed)
            /\ fed' = <<>>
                      /\ pc' = "sleep_and_run"
  /\ UNCHANGED <<count, buf, copy, time_ms, measured>>

\* Spiffs#write: the row may be lost, and the next batch begins either way.
HpRecord ==
  /\ pc = "recording"
  /\ Len(log) < MaxLog
  /\ logged < BATCH * MaxRows
  /\ Spiffs!WriteRow(Log!Row(time_ms))
  /\ logged' = logged + Len(fed)
  /\ fed' = <<>>
  /\ pc' = "sleep_and_run"
  /\ UNCHANGED <<count, buf, copy, time_ms, measured>>

\* The power is cut and comes back: the log is all that is left.
PowerCycle ==
  /\ pc # "reset"
  /\ Len(log) < MaxLog
  /\ pc' = "reset"
  /\ count' = 0
  /\ buf' = Zeros
  /\ copy' = NULL
  /\ time_ms' = 0
  /\ measured' = 0
  /\ fed' = <<>>
  /\ logged' = 0
  /\ mounted' = FALSE
  /\ UNCHANGED log

Next ==
  \/ HpBoot \/ HpSleepAndRun \/ LpMeasure \/ LpMeasureFails \/ LpDelay
  \/ HpReceive \/ HpStep \/ HpRecord \/ PowerCycle

Spec == Init /\ [][Next]_vars

\* Both cores run on, and reads that are tried for ever succeed for ever often.
FairSpec ==
  /\ Spec
  /\ WF_vars(HpBoot) /\ WF_vars(HpSleepAndRun) /\ WF_vars(LpDelay)
  /\ WF_vars(HpReceive) /\ WF_vars(HpStep) /\ WF_vars(HpRecord)
  /\ WF_vars(LpMeasure \/ LpMeasureFails) /\ SF_vars(LpMeasure)

-----------------------------------------------------------------------------
\* The program is at one of its steps, with its indices within the arrays.
TypeOK ==
  /\ pc \in {"reset", "sleep_and_run", "reading", "delaying", "fallback",
             "stepping", "recording"}
  /\ count \in 0 .. BATCH
  /\ pc = "reading" => count < BATCH
  /\ buf \in [Slots -> Nat]
  /\ copy \in [Slots -> Nat] \cup {NULL}
  /\ time_ms \in Nat
  /\ measured \in Nat
  /\ fed \in Seq(Nat)
  /\ logged \in Nat
  /\ mounted \in BOOLEAN
  /\ log \in Seq(LogLines)

\* When the detector runs, the arrays hold exactly the samples the last block
\* read, in order: none of the batch before, none missing, and no copy of them
\* is left in LP memory.
BatchCameBack ==
  pc = "stepping" =>
    /\ copy = NULL
    /\ buf = [i \in Slots |-> measured - BATCH + i + 1]

\* The log is what PedometerLog promises, with lines missing: every sample read
\* reaches the detector once and in order, and a lost row shifts no later one.
LogIsFaithful == Log!LogSpec

\* Whatever happens to its rows the device measures on unless its power is cut
\* again and again, until the model's bound: the log is full or as many rows
\* were tried as the model lets it try.
KeepsMeasuring ==
  \/ <>(Len(log) = MaxLog \/ logged = BATCH * MaxRows)
  \/ []<>(pc = "reset")
=============================================================================
