---------------------------- MODULE StepCounter ----------------------------
(***************************************************************************)
(* The step detector that all four programs run on every accelerometer     *)
(* sample: step_algorithm_an2554 of cl/pedometer and cm/pedometer and      *)
(* Pedometer#step of rl and rm.                                            *)
(*                                                                         *)
(* A sample is abstracted to its module |x| + |y| + |z|, the only thing    *)
(* the algorithm uses.  It is smoothed by a ring buffer of the last        *)
(* FILTER_ORDER modules, shifted into a window, and the centre of the      *)
(* window is judged: a strict maximum is a peak ("mountain"), a strict     *)
(* minimum after it a valley.  A peak and a valley on both sides of a      *)
(* dynamic threshold are a stride; four strides in a row are the first     *)
(* counted steps.                                                          *)
(***************************************************************************)
EXTENDS Integers

CONSTANTS
  SENSITIVITY,        \* 1700 in the code: the smallest swing of interest
  WINDOW_SIZE,        \* 17 samples of 20 ms
  WINDOW_CENTER,      \* 8: the judged sample, the middle of the window
  ONE_SECOND,         \* 50 samples
  FILTER_ORDER,       \* 4 modules in the moving average
  THRESHOLD_ORDER,    \* 4 thresholds in the dynamic threshold
  INIT_OFFSET_VALUE,  \* 4000: every threshold at the start
  Modules,            \* the modules a sample can have
  MaxSteps            \* bound of the model: no sample after this many steps

ASSUME WindowAssumption ==
  /\ WINDOW_CENTER \in Nat \ {0}
  /\ WINDOW_SIZE = 2 * WINDOW_CENTER + 1

ASSUME ParameterAssumption ==
  /\ SENSITIVITY \in Nat
  /\ ONE_SECOND \in Nat
  /\ FILTER_ORDER \in Nat \ {0}
  /\ THRESHOLD_ORDER \in Nat \ {0}
  /\ INIT_OFFSET_VALUE \in Nat
  /\ Modules \subseteq Nat
  /\ MaxSteps \in Nat

\* Four strides in a row are walking.
WALKING == 4

VARIABLES
  buffer_RawData, FilterMeanBuffer, IndexAverage,             \* moving average
  window, window_filled, fill_count,                          \* time window
  buffer_dynamic_threshold, ThresholdSum, old_threshold, IndexThreshold,
  current_state, max_value, time_since_mountain,              \* peak or valley
  flag_threshold_counter, consecutivesteps, step_count

filterVars    == <<buffer_RawData, FilterMeanBuffer, window>>
fillVars      == <<window_filled, fill_count>>
thresholdVars == <<buffer_dynamic_threshold, ThresholdSum, old_threshold,
                   IndexThreshold>>
mountainVars  == <<current_state, max_value, time_since_mountain>>
strideVars    == <<flag_threshold_counter, consecutivesteps, step_count>>
vars == <<filterVars, IndexAverage, fillVars, thresholdVars, mountainVars,
          strideVars>>

WindowIndex == 0 .. WINDOW_SIZE - 1

-----------------------------------------------------------------------------
\* Where the state machine looks for a peak, or for the valley after it.
SeekingPeak   == 0
SeekingValley == 1

\* init_algorithm, and the static initial values of what it leaves alone.
Init ==
  /\ buffer_RawData = [i \in 0 .. FILTER_ORDER - 1 |-> 0]
  /\ FilterMeanBuffer = 0
  /\ IndexAverage = 0
  /\ window = [i \in WindowIndex |-> 0]
  /\ window_filled = FALSE
  /\ fill_count = 0
  /\ buffer_dynamic_threshold =
       [i \in 0 .. THRESHOLD_ORDER - 1 |-> INIT_OFFSET_VALUE]
  /\ ThresholdSum = INIT_OFFSET_VALUE * THRESHOLD_ORDER
  /\ old_threshold = INIT_OFFSET_VALUE
  /\ IndexThreshold = 0
  /\ current_state = SeekingPeak
  /\ max_value = 0
  /\ time_since_mountain = 0
  /\ flag_threshold_counter = 0
  /\ consecutivesteps = 0
  /\ step_count = 0

\* The window one sample later, with `v' at its end.
Shift(w, v) ==
  [i \in WindowIndex |-> IF i = WINDOW_SIZE - 1 THEN v ELSE w[i + 1]]

\* Mutant of IsMin: the comparison is not strict.
IsMinOrEqual(w) ==
  \A i \in WindowIndex \ {WINDOW_CENTER} : w[i] >= w[WINDOW_CENTER]

\* The centre of the window is a strict extreme of it.
IsMax(w) == \A i \in WindowIndex \ {WINDOW_CENTER} : w[i] < w[WINDOW_CENTER]
IsMin(w) == \A i \in WindowIndex \ {WINDOW_CENTER} : w[i] > w[WINDOW_CENTER]

\* Mutant of NextSlot: wraps one slot late.
NextSlotLate(i, order) == IF i > order - 1 THEN 0 ELSE i + 1

\* The next slot of a ring of `order' slots.
NextSlot(i, order) == IF i + 1 > order - 1 THEN 0 ELSE i + 1

\* The module enters the moving average, and the average enters the window.
Filter(m) ==
  LET sum == FilterMeanBuffer - buffer_RawData[IndexAverage] + m
  IN  /\ FilterMeanBuffer' = sum
      /\ buffer_RawData' = [buffer_RawData EXCEPT ![IndexAverage] = m]
      /\ window' = Shift(window, sum \div FILTER_ORDER)

\* The sample that fills the window: the early return of the function, which
\* skips the judgement and the advance of IndexAverage as well.
WindowFull ==
  /\ ~window_filled
  /\ fill_count + 1 >= WINDOW_SIZE
  /\ fill_count' = fill_count + 1
  /\ window_filled' = TRUE
  /\ UNCHANGED <<IndexAverage, thresholdVars, mountainVars, strideVars>>

\* Every other sample goes on to be judged, those that come before the window
\* is full included.
Fill ==
  \/ /\ window_filled
     /\ UNCHANGED fillVars
  \/ /\ ~window_filled
     /\ fill_count + 1 < WINDOW_SIZE
     /\ fill_count' = fill_count + 1
     /\ UNCHANGED window_filled

-----------------------------------------------------------------------------
\* case 0: a peak starts the search for a valley.
SeekPeak ==
  /\ current_state = SeekingPeak
  /\ \/ /\ IsMax(window')
        /\ max_value' = window'[WINDOW_CENTER]
        /\ current_state' = SeekingValley
        /\ time_since_mountain' = 0
     \/ /\ ~IsMax(window')
        /\ UNCHANGED mountainVars
  /\ UNCHANGED <<thresholdVars, strideVars>>

\* A swing larger than SENSITIVITY moves the dynamic threshold.
UpdateThreshold(valley) ==
  IF max_value - valley > SENSITIVITY
  THEN LET new == (max_value + valley) \div 2
           sum == ThresholdSum - buffer_dynamic_threshold[IndexThreshold] + new
       IN  /\ ThresholdSum' = sum
           /\ old_threshold' = sum \div THRESHOLD_ORDER
           /\ buffer_dynamic_threshold' =
                [buffer_dynamic_threshold EXCEPT ![IndexThreshold] = new]
           /\ IndexThreshold' = NextSlot(IndexThreshold, THRESHOLD_ORDER)
  ELSE UNCHANGED thresholdVars

\* Mutant of IsStride: one side of the threshold is enough.
IsHalfStride(peak, valley, threshold) ==
  \/ peak > threshold + SENSITIVITY \div 2
  \/ valley < threshold - SENSITIVITY \div 2

\* The peak and the valley lie on both sides of the threshold, far enough.
IsStride(peak, valley, threshold) ==
  /\ peak > threshold + SENSITIVITY \div 2
  /\ valley < threshold - SENSITIVITY \div 2

\* Mutant of CountStride: the fourth stride brings only itself.
CountStrideOnce ==
  /\ flag_threshold_counter' = 0
  /\ consecutivesteps' = consecutivesteps + 1
  /\ step_count' = step_count + (IF consecutivesteps' >= WALKING THEN 1 ELSE 0)

\* A stride is counted from the fourth in a row on, which brings all four.
CountStride ==
  /\ flag_threshold_counter' = 0
  /\ consecutivesteps' = consecutivesteps + 1
  /\ step_count' = step_count + (IF consecutivesteps' = WALKING THEN WALKING
                                 ELSE IF consecutivesteps' > WALKING THEN 1
                                 ELSE 0)

\* The second swing in a row that is no stride ends the walk.
MissStride ==
  /\ IF flag_threshold_counter + 1 > 1
     THEN /\ flag_threshold_counter' = 0
          /\ consecutivesteps' = 0
     ELSE /\ flag_threshold_counter' = flag_threshold_counter + 1
          /\ UNCHANGED consecutivesteps
  /\ UNCHANGED step_count

\* case 1, the valley is found: it is judged by the threshold it has updated.
ValleyFound ==
  /\ IsMin(window')
  /\ UpdateThreshold(window'[WINDOW_CENTER])
  /\ \/ /\ IsStride(max_value, window'[WINDOW_CENTER], old_threshold')
        /\ CountStride
     \/ /\ ~IsStride(max_value, window'[WINDOW_CENTER], old_threshold')
        /\ MissStride
  /\ current_state' = SeekingPeak

\* case 1, no valley within a second: the walk is over.
MountainTimeout ==
  /\ ~IsMin(window')
  /\ time_since_mountain' > ONE_SECOND
  /\ consecutivesteps' = 0
  /\ current_state' = SeekingPeak
  /\ UNCHANGED <<thresholdVars, flag_threshold_counter, step_count>>

StillSeekingValley ==
  /\ ~IsMin(window')
  /\ time_since_mountain' <= ONE_SECOND
  /\ UNCHANGED <<thresholdVars, strideVars, current_state>>

\* case 1: a sample later, and still no valley, a valley, or too late for one.
SeekValley ==
  /\ current_state = SeekingValley
  /\ time_since_mountain' = time_since_mountain + 1
  /\ UNCHANGED max_value
  /\ ValleyFound \/ MountainTimeout \/ StillSeekingValley

\* Mutant of Sample: the ring of modules turns only once the window is full.
SampleHoldsRing(m) ==
  /\ Filter(m)
  /\ \/ WindowFull
     \/ /\ Fill
        /\ SeekPeak \/ SeekValley
        /\ IndexAverage' = IF window_filled THEN NextSlot(IndexAverage, FILTER_ORDER)
                           ELSE IndexAverage

\* One call of the function.
Sample(m) ==
  /\ Filter(m)
  /\ \/ WindowFull
     \/ /\ Fill
        /\ SeekPeak \/ SeekValley
        /\ IndexAverage' = NextSlot(IndexAverage, FILTER_ORDER)

Next ==
  /\ step_count < MaxSteps
  /\ \E m \in Modules : Sample(m)

Spec == Init /\ [][Next]_vars

-----------------------------------------------------------------------------
\* The indices stay inside their buffers, the state machine inside its two
\* states, and no counter leaves the range its guards give it.
TypeOK ==
  /\ buffer_RawData \in [0 .. FILTER_ORDER - 1 -> Nat]
  /\ FilterMeanBuffer \in Int
  /\ IndexAverage \in 0 .. FILTER_ORDER - 1
  /\ window \in [WindowIndex -> Int]
  /\ window_filled \in BOOLEAN
  /\ fill_count \in 0 .. WINDOW_SIZE
  /\ window_filled <=> fill_count = WINDOW_SIZE
  /\ buffer_dynamic_threshold \in [0 .. THRESHOLD_ORDER - 1 -> Int]
  /\ ThresholdSum \in Int
  /\ old_threshold \in Int
  /\ IndexThreshold \in 0 .. THRESHOLD_ORDER - 1
  /\ current_state \in {SeekingPeak, SeekingValley}
  /\ max_value \in Int
  /\ time_since_mountain \in 0 .. ONE_SECOND + 1
  /\ current_state = SeekingValley => time_since_mountain <= ONE_SECOND
  /\ flag_threshold_counter \in 0 .. 1
  /\ consecutivesteps \in Nat
  /\ step_count \in Nat
=============================================================================
