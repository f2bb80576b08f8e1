---------------------------- MODULE ClPedometer ----------------------------
(***************************************************************************)
(* cl/pedometer: the LP core measures a batch of samples while the HP core *)
(* is in deep sleep, wakes it and halts; the HP core runs the detector on  *)
(* the batch, logs a row, starts the LP core again and goes back to sleep. *)
(* The LP core itself sleeps between two samples: it saves its registers,  *)
(* halts with the LP timer as its wakeup source, and is restarted at main, *)
(* which finds the saved stack pointer and returns into the delay.         *)
(*                                                                         *)
(* A sample is its number since power on.  The detector is StepCounter;    *)
(* here it is the sequence of samples it was given.                        *)
(***************************************************************************)
EXTENDS Integers, Sequences

CONSTANTS
  BATCH,      \* 500: capacity of shared_buffer in samples
  PERIOD,     \* 20 ms between two samples
  MaxLog,     \* bound of the model: lines of the log
  NULL

ASSUME ClAssumption ==
  /\ BATCH \in Nat \ {0}
  /\ PERIOD \in Nat \ {0}
  /\ MaxLog \in Nat
  /\ NULL # "loop"

VARIABLES
  hp,              \* where the HP core is in app_main
  time_ms,         \* RTC memory: kept in deep sleep
  fed,             \* history: samples given to the detector since the last row
  logged,          \* history: samples that rows account for, since power on
  lp,              \* where the LP core is
  wakeup_source,   \* what starts a halted LP core
  timer,           \* the LP timer is armed
  mrbc_sp_bottom,  \* the saved stack pointer: NULL, or where to resume
  write_index, shared_buffer,
  measured,        \* history: samples read from the sensor since power on
  log              \* /spiffs/walk_log.csv

hpVars == <<hp, time_ms, fed, logged>>
lpVars == <<lp, wakeup_source, timer, mrbc_sp_bottom, write_index,
            shared_buffer, measured>>
vars == <<hpVars, lpVars, log>>

Slots == 0 .. BATCH - 1

HpStates == {"reset", "falling_asleep", "asleep", "woken", "processing",
             "recording", "restarting", "stopped"}
LpStates == {"unloaded", "halted", "main", "loop"}
LogLines == [kind : {"header"}] \cup [kind : {"row"}, time : Nat]

Log == INSTANCE PedometerLog WITH recorded <- logged, pending <- fed,
                                  lossy <- FALSE

Init ==
  /\ hp = "reset"
  /\ time_ms = 0
  /\ fed = <<>>
  /\ logged = 0
  /\ lp = "unloaded"
  /\ wakeup_source = "HP_CPU"
  /\ timer = FALSE
  /\ mrbc_sp_bottom = NULL
  /\ write_index = 0
  /\ shared_buffer = [i \in Slots |-> 0]
  /\ measured = 0
  /\ log = <<>>

-----------------------------------------------------------------------------
\* HP core, first boot (wakeup cause UNDEFINED): a header, a fresh detector,
\* then the LP program is loaded and run.  Without the file app_main returns.
HpFirstBoot ==
  /\ hp = "reset"
  /\ Len(log) < MaxLog
  /\ \/ /\ log' = Append(log, Log!HEADER)
        /\ hp' = "falling_asleep"
        /\ lp' = "main"
     \/ /\ hp' = "stopped"
        /\ UNCHANGED <<lp, log>>
  /\ UNCHANGED <<time_ms, fed, logged, wakeup_source, timer, mrbc_sp_bottom,
                 write_index, shared_buffer, measured>>

\* esp_deep_sleep_start, with the LP core already running.
HpSleep ==
  /\ hp = "falling_asleep"
  /\ hp' = "asleep"
  /\ UNCHANGED <<time_ms, fed, logged, lpVars, log>>

\* HP core, wakeup cause ULP.  If the file cannot be opened app_main returns
\* before anything else: the LP core is not run again.
HpOpenLog ==
  /\ hp = "woken"
  /\ hp' \in {"processing", "stopped"}
  /\ UNCHANGED <<time_ms, fed, logged, lpVars, log>>

\* app_app_main: the whole buffer goes through the detector.
HpProcess ==
  /\ hp = "processing"
  /\ fed' = fed \o [i \in 1 .. BATCH |-> shared_buffer[i - 1]]
  /\ hp' = "recording"
  /\ UNCHANGED <<time_ms, logged, lpVars, log>>

\* The time advances by the nominal length of a batch, and the row is flushed.
HpRecord ==
  /\ hp = "recording"
  /\ Len(log) < MaxLog
  /\ time_ms' = time_ms + BATCH * PERIOD
  /\ log' = Append(log, Log!Row(time_ms'))
  /\ fed' = <<>>
  /\ logged' = logged + BATCH
  /\ hp' = "restarting"
  /\ UNCHANGED lpVars

\* Mutant of HpRunLp: the LP core is not run again.
HpRunLpForgotten ==
  /\ hp = "restarting"
  /\ hp' = "falling_asleep"
  /\ UNCHANGED <<time_ms, fed, logged, lpVars, log>>

\* ulp_lp_core_run: the HP core becomes the wakeup source and triggers it.
HpRunLp ==
  /\ hp = "restarting"
  /\ wakeup_source' = "HP_CPU"
  /\ lp' = IF lp = "halted" THEN "main" ELSE lp
  /\ hp' = "falling_asleep"
  /\ UNCHANGED <<time_ms, fed, logged, timer, mrbc_sp_bottom, write_index,
                 shared_buffer, measured, log>>

-----------------------------------------------------------------------------
\* delayUs of a millisecond or more: the timer is set and made the wakeup
\* source, and sleep_store saves where to go on and halts.
DelayThen(location) ==
  /\ timer' = TRUE
  /\ wakeup_source' = "LP_TIMER"
  /\ mrbc_sp_bottom' = location
  /\ lp' = "halted"

\* main starts app_main unless a delay left a stack pointer behind; app_main
\* begins a batch, switches the sensor on and waits for it.
LpMain ==
  /\ lp = "main"
  /\ \/ /\ mrbc_sp_bottom # NULL
        /\ lp' = mrbc_sp_bottom
        /\ UNCHANGED <<wakeup_source, timer, mrbc_sp_bottom, write_index>>
     \/ /\ mrbc_sp_bottom = NULL
        /\ write_index' = 0
        /\ DelayThen("loop")
  /\ UNCHANGED <<hpVars, shared_buffer, measured, log>>

\* The LP timer restarts a core that halted to be woken by it.
LpTimer ==
  /\ lp = "halted"
  /\ timer
  /\ wakeup_source = "LP_TIMER"
  /\ timer' = FALSE
  /\ lp' = "main"
  /\ UNCHANGED <<hpVars, wakeup_source, mrbc_sp_bottom, write_index,
                 shared_buffer, measured, log>>

\* Mutant of LpMeasure: the bound of the loop is off by one.
LpMeasureOverrun ==
  /\ lp = "loop"
  /\ write_index <= BATCH
  /\ shared_buffer' = [i \in Slots |-> IF i = write_index THEN measured + 1
                                      ELSE shared_buffer[i]]
  /\ measured' = measured + 1
  /\ write_index' = write_index + 1
  /\ DelayThen("loop")
  /\ UNCHANGED <<hpVars, log>>

\* Both transfers succeed: the sample is stored.
LpMeasure ==
  /\ lp = "loop"
  /\ write_index < BATCH
  /\ shared_buffer' = [shared_buffer EXCEPT ![write_index] = measured + 1]
  /\ measured' = measured + 1
  /\ write_index' = write_index + 1
  /\ DelayThen("loop")
  /\ UNCHANGED <<hpVars, log>>

\* A transfer fails: nothing is stored, and the loop tries again after the delay.
LpMeasureFails ==
  /\ lp = "loop"
  /\ write_index < BATCH
  /\ DelayThen("loop")
  /\ UNCHANGED <<hpVars, write_index, shared_buffer, measured, log>>

\* Mutant of LpBatchDone: the HP core is woken one sample early.
LpBatchDoneEarly ==
  /\ lp = "loop"
  /\ write_index >= BATCH - 1
  /\ hp = "asleep"
  /\ mrbc_sp_bottom' = NULL
  /\ timer' = FALSE
  /\ hp' = "woken"
  /\ lp' = "halted"
  /\ UNCHANGED <<time_ms, fed, logged, wakeup_source, write_index, shared_buffer,
                 measured, log>>

\* Mutant of LpBatchDone: the saved stack pointer outlives the batch.
LpBatchDoneKeepsStack ==
  /\ lp = "loop"
  /\ write_index = BATCH
  /\ hp = "asleep"
  /\ timer' = FALSE
  /\ hp' = "woken"
  /\ lp' = "halted"
  /\ UNCHANGED <<time_ms, fed, logged, wakeup_source, mrbc_sp_bottom, write_index,
                 shared_buffer, measured, log>>

\* The batch is complete: app_main returns, main forgets the stack pointer and
\* wakeup disarms the timer, wakes the HP core and halts.  The HP core has been
\* asleep for a while: a batch takes BATCH * 20 ms, falling asleep far less.
LpBatchDone ==
  /\ lp = "loop"
  /\ write_index = BATCH
  /\ hp = "asleep"
  /\ mrbc_sp_bottom' = NULL
  /\ timer' = FALSE
  /\ hp' = "woken"
  /\ lp' = "halted"
  /\ UNCHANGED <<time_ms, fed, logged, wakeup_source, write_index, shared_buffer,
                 measured, log>>

\* The power is cut and comes back: both memories are lost, the log is not.
PowerCycle ==
  /\ hp # "reset"
  /\ Len(log) < MaxLog
  /\ hp' = "reset"
  /\ time_ms' = 0
  /\ fed' = <<>>
  /\ logged' = 0
  /\ lp' = "unloaded"
  /\ wakeup_source' = "HP_CPU"
  /\ timer' = FALSE
  /\ mrbc_sp_bottom' = NULL
  /\ write_index' = 0
  /\ shared_buffer' = [i \in Slots |-> 0]
  /\ measured' = 0
  /\ UNCHANGED log

Device ==
  \/ HpFirstBoot \/ HpSleep \/ HpOpenLog \/ HpProcess \/ HpRecord \/ HpRunLp
  \/ LpMain \/ LpTimer \/ LpMeasure \/ LpMeasureFails \/ LpBatchDone

Next == Device \/ PowerCycle

Spec == Init /\ [][Next]_vars

\* Each core runs on and the timer fires.  Reads of the sensor that are tried
\* for ever succeed for ever often: the code has no other answer to a failure.
Fairness ==
  /\ WF_vars(HpFirstBoot) /\ WF_vars(HpSleep) /\ WF_vars(HpOpenLog)
  /\ WF_vars(HpProcess) /\ WF_vars(HpRecord) /\ WF_vars(HpRunLp)
  /\ WF_vars(LpMain) /\ WF_vars(LpTimer) /\ WF_vars(LpBatchDone)
  /\ SF_vars(LpMeasure)

FairSpec == Spec /\ Fairness

-----------------------------------------------------------------------------
\* Both cores are in states of their programs and the indices in the buffer.
TypeOK ==
  /\ hp \in HpStates
  /\ time_ms \in Nat
  /\ fed \in Seq(Nat)
  /\ logged \in Nat
  /\ lp \in LpStates
  /\ wakeup_source \in {"HP_CPU", "LP_TIMER"}
  /\ timer \in BOOLEAN
  /\ mrbc_sp_bottom \in {NULL, "loop"}
  /\ write_index \in 0 .. BATCH
  /\ shared_buffer \in [Slots -> Nat]
  /\ measured \in Nat
  /\ log \in Seq(LogLines)

\* While the HP core is awake after a batch, the batch is complete and nothing
\* can start the LP core but the HP core: shared_buffer has one owner.  This is
\* what the unsynchronised reads of app_app_main rest on.
BufferHandover ==
  hp \in {"woken", "processing", "recording", "restarting"} =>
    /\ lp = "halted"
    /\ ~timer
    /\ write_index = BATCH

\* A batch is overwritten only when it is complete and its row is logged: a
\* wakeup of the LP core in the middle of a batch resumes its loop.
BatchNotAbandoned ==
  [][write_index' < write_index /\ hp' # "reset"
       => write_index = BATCH /\ measured = logged]_vars

\* The log is what PedometerLog promises: every sample measured reaches the
\* detector once and in order, and rows and their times account for all of them.
LogIsFaithful == Log!LogSpec

\* The device logs on, until its log is as long as the model lets it be, unless
\* it could not open the file: then it stops for good.
KeepsLogging == <>(hp = "stopped" \/ Len(log) = MaxLog)
=============================================================================
