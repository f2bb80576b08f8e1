------------------------- MODULE StepCounterHistory -------------------------
(***************************************************************************)
(* StepCounter with history variables: what the samples themselves say,    *)
(* recorded beside the detector's own counters, so that its promises can   *)
(* be stated.  No history variable enables or changes a step.              *)
(***************************************************************************)
EXTENDS StepCounter

VARIABLES
  recent,       \* the last FILTER_ORDER modules, the newest at index 0
  sinceFull,    \* samples since the window was filled, up to FILTER_ORDER
  sinceValley,  \* samples since the last valley, up to WINDOW_CENTER
  sincePeak,    \* samples since the last peak, up to WINDOW_CENTER
  countable     \* strides that were not lost with a walk of fewer than WALKING

history == <<recent, sinceFull, sinceValley, sincePeak, countable>>
hvars == <<vars, history>>

UpTo(bound, n) == IF n < bound THEN n ELSE bound

\* The events of a sample, read off the states before and after it.
IsPeak   == current_state = SeekingPeak /\ current_state' = SeekingValley
IsValley == /\ current_state = SeekingValley
            /\ current_state' = SeekingPeak
            /\ IsMin(window')
IsStep   == step_count' # step_count

HInit ==
  /\ Init
  /\ recent = [i \in 0 .. FILTER_ORDER - 1 |-> 0]
  /\ sinceFull = 0
  /\ sinceValley = WINDOW_CENTER
  /\ sincePeak = WINDOW_CENTER
  /\ countable = 0

RecordSample(m) ==
  /\ recent' = [i \in 0 .. FILTER_ORDER - 1 |-> IF i = 0 THEN m ELSE recent[i - 1]]
  /\ sinceFull' = IF window_filled THEN UpTo(FILTER_ORDER, sinceFull + 1) ELSE 0

RecordSwing ==
  /\ sinceValley' = IF IsValley THEN 0 ELSE UpTo(WINDOW_CENTER, sinceValley + 1)
  /\ sincePeak'   = IF IsPeak   THEN 0 ELSE UpTo(WINDOW_CENTER, sincePeak + 1)

\* A stride is judged here from the swing alone; a walk that ends before it
\* has counted gives its strides back.
RecordStride ==
  countable' =
    IF IsValley /\ IsStride(max_value, window'[WINDOW_CENTER], old_threshold')
    THEN countable + 1
    ELSE IF consecutivesteps' = 0 /\ consecutivesteps < WALKING
    THEN countable - consecutivesteps
    ELSE countable

HSample(m) == Sample(m) /\ RecordSample(m) /\ RecordSwing /\ RecordStride

HNext ==
  /\ step_count < MaxSteps
  /\ \E m \in Modules : HSample(m)

HSpec == HInit /\ [][HNext]_hvars

\* The sum of the FILTER_ORDER values of f, as the sums of its first n values.
SumOf(f) ==
  LET sum[n \in 0 .. FILTER_ORDER] == IF n = 0 THEN 0 ELSE sum[n - 1] + f[n - 1]
  IN  sum[FILTER_ORDER]

-----------------------------------------------------------------------------
\* A counted step is a real swing: the valley lies more than SENSITIVITY below
\* the peak that opened it, although the code compares each of the two with
\* half of SENSITIVITY only and the threshold moves in between (cm l.493-502).
StepIsASwing ==
  [][IsStep => /\ IsMin(window')
               /\ max_value - window'[WINDOW_CENTER] > SENSITIVITY]_hvars

\* Two valleys are more than WINDOW_CENTER samples apart, and so are two peaks
\* and hence two counted steps: nothing in the code limits the rate of steps,
\* it follows from the strict extremes of the window.
StepsAreApart ==
  [][/\ IsValley => sinceValley >= WINDOW_CENTER
     /\ IsPeak   => sincePeak >= WINDOW_CENTER
     /\ IsStep   => IsValley]_hvars

\* No stride is lost or counted twice: the steps counted so far are all strides
\* but those of walks that ended before the fourth, and those of a walk that
\* has not got there yet are still owed.
StridesConserved ==
  countable = step_count + (IF consecutivesteps < WALKING THEN consecutivesteps
                            ELSE 0)

\* Before the window is full and from FILTER_ORDER samples after it on, the
\* filter is the mean of the last FILTER_ORDER samples: the slot the early
\* return leaves behind is overwritten within one turn of the ring.
MeanIsRecent ==
  (~window_filled \/ sinceFull = FILTER_ORDER)
     => FilterMeanBuffer = SumOf(recent)

=============================================================================
