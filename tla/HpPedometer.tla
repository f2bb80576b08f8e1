---------------------------- MODULE HpPedometer ----------------------------
(***************************************************************************)
(* cm/pedometer and rm/pedometer: the HP core alone reads a sample, gives  *)
(* it to the detector, sleeps out the period and, after every BATCH good   *)
(* samples, logs a row.  The builds differ in their order and their file:  *)
(* cm, in C, counts a sample after the delay, keeps the file open and ends *)
(* without it; rm, in Ruby, counts it before, opens the file for each line *)
(* and goes on without the line.                                           *)
(*                                                                         *)
(* A sample is its number since power on.  The detector is StepCounter;    *)
(* here it is the sequence of samples it was given since the last row.     *)
(***************************************************************************)
EXTENDS Integers, Sequences

CONSTANTS
  BATCH,      \* 500 samples to a row
  PERIOD,     \* 20 ms, the time a sample stands for
  MaxLog,     \* bound of the model: lines of the log
  MaxRows     \* bound of the model: rows tried since power on

ASSUME HpAssumption ==
  /\ BATCH \in Nat \ {0}
  /\ PERIOD \in Nat \ {0}
  /\ MaxLog \in Nat
  /\ MaxRows \in Nat

VARIABLES
  build,          \* the program that runs, "cm" or "rm"
  pc,             \* where it is
  ok,             \* the last read gave a sample
  sample_count,   \* good samples since the last row
  time_ms,
  measured,       \* history: samples read since power on
  fed,            \* history: samples given to the detector since the last row
  logged,         \* history: samples that rows account for, since power on
  mounted,        \* the file system is there
  log             \* /spiffs/walk_log.csv

counts == <<sample_count, time_ms>>
samples == <<measured, fed>>
vars == <<build, pc, ok, counts, samples, logged, mounted, log>>

LogLines == [kind : {"header"}] \cup [kind : {"row"}, time : Nat]

Spiffs == INSTANCE SpiffsLog
Log == INSTANCE PedometerLog WITH recorded <- logged, pending <- fed,
                                  lossy <- (build = "rm")

Init ==
  /\ build \in {"cm", "rm"}
  /\ pc = "reset"
  /\ ok = FALSE
  /\ sample_count = 0
  /\ time_ms = 0
  /\ measured = 0
  /\ fed = <<>>
  /\ logged = 0
  /\ mounted = FALSE
  /\ log = <<>>

\* cm opens its file for good and writes a header; without it app_main returns.
BootCm ==
  /\ build = "cm"
  /\ pc = "reset"
  /\ Len(log) < MaxLog
  /\ \/ /\ log' = Append(log, Log!HEADER)
        /\ mounted' = TRUE
        /\ pc' = "reading"
     \/ /\ pc' = "stopped"
        /\ UNCHANGED <<log, mounted>>
  /\ UNCHANGED <<build, ok, counts, samples, logged>>

\* rm enters its loop whatever became of the header.
BootRm ==
  /\ build = "rm"
  /\ pc = "reset"
  /\ Len(log) < MaxLog
  /\ Spiffs!Mount(Log!HEADER)
  /\ pc' = "reading"
  /\ UNCHANGED <<build, ok, counts, samples, logged>>

\* A sample is read and goes to the detector: in rm also one of other registers,
\* when the write of the register address failed, which it does not look at.
Measure ==
  /\ pc = "reading"
  /\ measured' = measured + 1
  /\ fed' = Append(fed, measured')
  /\ ok' = TRUE
  /\ pc' = IF build = "cm" THEN "delaying" ELSE "counting"
  /\ UNCHANGED <<build, counts, logged, mounted, log>>

\* Mutant of MeasureFails: the time of a failed read is counted.
MeasureFailsInTime ==
  /\ pc = "reading"
  /\ ok' = FALSE
  /\ time_ms' = time_ms + PERIOD
  /\ pc' = "delaying"
  /\ UNCHANGED <<build, sample_count, samples, logged, mounted, log>>

\* The transfer fails: nothing reaches the detector.
MeasureFails ==
  /\ pc = "reading"
  /\ ok' = FALSE
  /\ pc' = "delaying"
  /\ UNCHANGED <<build, counts, samples, logged, mounted, log>>

\* The sleep of 20 ms: the last thing in rm's loop, in cm the counting follows.
Delay ==
  /\ pc = "delaying"
  /\ pc' = IF build = "cm" /\ ok THEN "counting" ELSE "reading"
  /\ UNCHANGED <<build, ok, counts, samples, logged, mounted, log>>

EndOfTurn == IF build = "cm" THEN "reading" ELSE "delaying"

\* Mutant of Count: the row is one sample late.
CountOneMore ==
  /\ pc = "counting"
  /\ sample_count' = sample_count + 1
  /\ time_ms' = time_ms + PERIOD
  /\ pc' = IF sample_count' > BATCH THEN "recording" ELSE EndOfTurn
  /\ UNCHANGED <<build, ok, samples, logged, mounted, log>>

\* A good sample is counted, and only it advances the time.
Count ==
  /\ pc = "counting"
  /\ sample_count' = sample_count + 1
  /\ time_ms' = time_ms + PERIOD
  /\ pc' = IF sample_count' >= BATCH THEN "recording" ELSE EndOfTurn
  /\ UNCHANGED <<build, ok, samples, logged, mounted, log>>

WriteRow ==
  IF build = "cm"
    THEN log' = Append(log, Log!Row(time_ms)) /\ UNCHANGED mounted
    ELSE Spiffs!WriteRow(Log!Row(time_ms))

\* Mutant of Record: a row that was lost is tried again until it is written.
RecordUntilWritten ==
  /\ pc = "recording"
  /\ Len(log) < MaxLog
  /\ logged < BATCH * MaxRows
  /\ WriteRow
  /\ IF log' = log
       THEN UNCHANGED <<pc, logged, fed, sample_count>>
       ELSE /\ logged' = logged + Len(fed)
            /\ fed' = <<>>
            /\ sample_count' = 0
            /\ pc' = EndOfTurn
  /\ UNCHANGED <<build, ok, time_ms, measured>>

\* The row is written, or lost in rm, and counting starts anew.
Record ==
  /\ pc = "recording"
  /\ Len(log) < MaxLog
  /\ logged < BATCH * MaxRows
  /\ WriteRow
  /\ logged' = logged + Len(fed)
  /\ fed' = <<>>
  /\ sample_count' = 0
  /\ pc' = EndOfTurn
  /\ UNCHANGED <<build, ok, time_ms, measured>>

\* The power is cut and comes back: the log is all that is left.
PowerCycle ==
  /\ pc # "reset"
  /\ Len(log) < MaxLog
  /\ pc' = "reset"
  /\ ok' = FALSE
  /\ sample_count' = 0
  /\ time_ms' = 0
  /\ measured' = 0
  /\ fed' = <<>>
  /\ logged' = 0
  /\ mounted' = FALSE
  /\ UNCHANGED <<build, log>>

Next ==
  \/ BootCm \/ BootRm \/ Measure \/ MeasureFails \/ Delay \/ Count \/ Record
  \/ PowerCycle

Spec == Init /\ [][Next]_vars

\* The loop runs on, and reads that are tried for ever succeed for ever often.
FairSpec ==
  /\ Spec
  /\ WF_vars(BootCm \/ BootRm) /\ WF_vars(Delay) /\ WF_vars(Count)
  /\ WF_vars(Record)
  /\ WF_vars(Measure \/ MeasureFails) /\ SF_vars(Measure)

-----------------------------------------------------------------------------
\* The loop is at one of its steps and the counter below its limit, which it
\* reaches only on the way to the row.
TypeOK ==
  /\ build \in {"cm", "rm"}
  /\ pc \in {"reset", "reading", "delaying", "counting", "recording", "stopped"}
  /\ pc = "stopped" => build = "cm"
  /\ ok \in BOOLEAN
  /\ sample_count \in 0 .. BATCH
  /\ sample_count = BATCH <=> pc = "recording"
  /\ time_ms \in Nat
  /\ measured \in Nat
  /\ fed \in Seq(Nat)
  /\ logged \in Nat
  /\ mounted \in BOOLEAN
  /\ log \in Seq(LogLines)

\* The log is what PedometerLog promises, with lines missing in rm: every sample
\* read reaches the detector once and in order, rows and their times account for
\* all of them, and a row that is lost shifts no later one.
LogIsFaithful == Log!LogSpec

\* Whatever happens to its rows the device measures on, until the model's bound:
\* the log is full or as many rows were tried as the model lets it try.  It does
\* not if its power is cut again and again, or if cm could not open its file.
KeepsMeasuring ==
  \/ <>(Len(log) = MaxLog \/ logged = BATCH * MaxRows)
  \/ []<>(pc = "reset")
  \/ <>(pc = "stopped")
=============================================================================
