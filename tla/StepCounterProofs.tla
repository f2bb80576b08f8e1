------------------------- MODULE StepCounterProofs -------------------------
(***************************************************************************)
(* What StepCounter and StepCounterHistory promise for every window, every *)
(* threshold and every stream of samples.                                  *)
(***************************************************************************)
EXTENDS StepCounterHistory, WellFoundedInduction, TLAPS

USE WindowAssumption, ParameterAssumption

\* Shift moves every slot down by one and puts the new value at the end.
LEMMA ShiftShape ==
  ASSUME NEW w \in [WindowIndex -> Int], NEW v \in Int
  PROVE  /\ Shift(w, v) \in [WindowIndex -> Int]
         /\ \A i \in 0 .. WINDOW_SIZE - 2 : Shift(w, v)[i] = w[i + 1]
         /\ Shift(w, v)[WINDOW_SIZE - 1] = v
  BY DEF Shift, WindowIndex

\* The next slot of a ring is a slot of it.
LEMMA NextSlotInRing ==
  ASSUME NEW order \in Nat \ {0}, NEW i \in 0 .. order - 1
  PROVE  NextSlot(i, order) \in 0 .. order - 1
  BY DEF NextSlot

\* The initial state has the types.
LEMMA TypeInit == Init => TypeOK
<1> SUFFICES ASSUME Init PROVE TypeOK
  OBVIOUS
<1>1. ThresholdSum \in Int
  BY DEF Init
<1>2. /\ buffer_RawData \in [0 .. FILTER_ORDER - 1 -> Nat]
      /\ window \in [WindowIndex -> Int]
      /\ buffer_dynamic_threshold \in [0 .. THRESHOLD_ORDER - 1 -> Int]
  BY DEF Init
<1>3. window_filled <=> fill_count = WINDOW_SIZE
  BY DEF Init
<1>4. /\ FilterMeanBuffer \in Int
      /\ IndexAverage \in 0 .. FILTER_ORDER - 1
      /\ fill_count \in 0 .. WINDOW_SIZE
      /\ old_threshold \in Int
      /\ IndexThreshold \in 0 .. THRESHOLD_ORDER - 1
  BY DEF Init
<1>5. window_filled \in BOOLEAN
  BY Zenon DEF Init
<1>6. QED
  BY <1>1, <1>2, <1>3, <1>4, <1>5 DEF Init, TypeOK, SeekingPeak, SeekingValley

\* The filter keeps the types of the ring, its sum and the window.
LEMMA FilterType ==
  ASSUME TypeOK, NEW m \in Modules, Filter(m)
  PROVE  /\ buffer_RawData' \in [0 .. FILTER_ORDER - 1 -> Nat]
         /\ FilterMeanBuffer' \in Int
         /\ window' \in [WindowIndex -> Int]
<1> DEFINE sum == FilterMeanBuffer - buffer_RawData[IndexAverage] + m
<1>1. sum \in Int /\ m \in Nat
  BY DEF TypeOK
<1>2. sum \div FILTER_ORDER \in Int
  BY <1>1
<1>3. window' = Shift(window, sum \div FILTER_ORDER) /\ window \in [WindowIndex -> Int]
  BY DEF Filter, TypeOK
<1>4. window' \in [WindowIndex -> Int]
  <2> HIDE DEF sum
  <2> QED BY <1>2, <1>3, ShiftShape
<1>5. QED
  BY <1>1, <1>4 DEF Filter, TypeOK

\* A swing keeps the types of the threshold ring, its sum and its mean.
LEMMA ThresholdType ==
  ASSUME TypeOK, NEW valley \in Int, UpdateThreshold(valley)
  PROVE  /\ buffer_dynamic_threshold' \in [0 .. THRESHOLD_ORDER - 1 -> Int]
         /\ ThresholdSum' \in Int
         /\ old_threshold' \in Int
         /\ IndexThreshold' \in 0 .. THRESHOLD_ORDER - 1
<1> DEFINE new == (max_value + valley) \div 2
           sum == ThresholdSum - buffer_dynamic_threshold[IndexThreshold] + new
<1>1. CASE max_value - valley > SENSITIVITY
  <2>1. new \in Int
    BY DEF TypeOK
  <2>2. sum \in Int
    <3> HIDE DEF new
    <3> QED BY <2>1 DEF TypeOK
  <2>3. sum \div THRESHOLD_ORDER \in Int
    <3> HIDE DEF sum
    <3> QED BY <2>2
  <2>4. /\ ThresholdSum' = sum
        /\ old_threshold' = sum \div THRESHOLD_ORDER
        /\ buffer_dynamic_threshold' =
             [buffer_dynamic_threshold EXCEPT ![IndexThreshold] = new]
        /\ IndexThreshold' = NextSlot(IndexThreshold, THRESHOLD_ORDER)
    BY <1>1 DEF UpdateThreshold
  <2>5. IndexThreshold' \in 0 .. THRESHOLD_ORDER - 1
    BY <2>4, NextSlotInRing DEF TypeOK
  <2>6. QED
    <3> HIDE DEF sum, new
    <3> QED BY <2>1, <2>2, <2>3, <2>4, <2>5 DEF TypeOK
<1>2. CASE ~(max_value - valley > SENSITIVITY)
  BY <1>2 DEF UpdateThreshold, thresholdVars, TypeOK
<1>3. QED
  BY <1>1, <1>2

\* One call of the detector keeps the types.
LEMMA TypeSample ==
  ASSUME TypeOK, NEW m \in Modules, Sample(m)
  PROVE  TypeOK'
<1>1. /\ buffer_RawData' \in [0 .. FILTER_ORDER - 1 -> Nat]
      /\ FilterMeanBuffer' \in Int
      /\ window' \in [WindowIndex -> Int]
  BY FilterType DEF Sample
<1>2. window'[WINDOW_CENTER] \in Int
  BY <1>1 DEF WindowIndex
<1>3. CASE WindowFull
  BY <1>1, <1>3 DEF TypeOK, WindowFull, thresholdVars, mountainVars, strideVars
<1>4. CASE /\ Fill
           /\ SeekPeak \/ SeekValley
           /\ IndexAverage' = NextSlot(IndexAverage, FILTER_ORDER)
  <2>1. IndexAverage' \in 0 .. FILTER_ORDER - 1
    BY <1>4, NextSlotInRing DEF TypeOK
  <2>2. /\ window_filled' \in BOOLEAN
        /\ fill_count' \in 0 .. WINDOW_SIZE
        /\ window_filled' <=> fill_count' = WINDOW_SIZE
    <3>1. window_filled' = window_filled
      BY <1>4, Zenon DEF Fill, fillVars
    <3>2. window_filled' \in BOOLEAN
      BY <3>1, Zenon DEF TypeOK
    <3>3. CASE window_filled
      <4>1. fill_count' = fill_count
        BY <1>4, <3>3, Zenon DEF Fill, fillVars
      <4>2. fill_count = WINDOW_SIZE
        BY <3>3 DEF TypeOK
      <4>3. QED
        BY <3>1, <3>2, <3>3, <4>1, <4>2
    <3>4. CASE ~window_filled
      <4>1. /\ fill_count + 1 < WINDOW_SIZE
            /\ fill_count' = fill_count + 1
        BY <1>4, <3>4, Zenon DEF Fill
      <4>2. QED
        BY <3>1, <3>2, <3>4, <4>1 DEF TypeOK
    <3>5. QED
      BY <3>3, <3>4
  <2> DEFINE Rest == /\ buffer_dynamic_threshold' \in [0 .. THRESHOLD_ORDER - 1 -> Int]
                     /\ ThresholdSum' \in Int
                     /\ old_threshold' \in Int
                     /\ IndexThreshold' \in 0 .. THRESHOLD_ORDER - 1
                     /\ current_state' \in {SeekingPeak, SeekingValley}
                     /\ max_value' \in Int
                     /\ time_since_mountain' \in 0 .. ONE_SECOND + 1
                     /\ current_state' = SeekingValley
                          => time_since_mountain' <= ONE_SECOND
                     /\ flag_threshold_counter' \in 0 .. 1
                     /\ consecutivesteps' \in Nat
                     /\ step_count' \in Nat
  <2>3. ASSUME SeekPeak PROVE Rest
    BY <1>2, <2>3 DEF TypeOK, SeekPeak, SeekingPeak, SeekingValley,
       thresholdVars, mountainVars, strideVars
  <2>4. ASSUME SeekValley PROVE Rest
    <3>1. /\ time_since_mountain' \in 0 .. ONE_SECOND + 1
          /\ max_value' \in Int
      BY <2>4 DEF TypeOK, SeekValley
    <3>2. CASE ValleyFound
      <4>1. /\ buffer_dynamic_threshold' \in [0 .. THRESHOLD_ORDER - 1 -> Int]
            /\ ThresholdSum' \in Int
            /\ old_threshold' \in Int
            /\ IndexThreshold' \in 0 .. THRESHOLD_ORDER - 1
        BY <1>2, <3>2, ThresholdType DEF ValleyFound
      <4>2. /\ flag_threshold_counter' \in 0 .. 1
            /\ consecutivesteps' \in Nat
            /\ step_count' \in Nat
        BY <3>2 DEF ValleyFound, CountStride, MissStride, TypeOK, WALKING
      <4>3. QED
        BY <3>1, <3>2, <4>1, <4>2 DEF ValleyFound, SeekingPeak, SeekingValley
    <3>3. CASE MountainTimeout
      BY <3>1, <3>3 DEF MountainTimeout, thresholdVars, TypeOK, SeekingPeak, SeekingValley
    <3>4. CASE StillSeekingValley
      BY <3>1, <3>4 DEF StillSeekingValley, thresholdVars, strideVars, TypeOK
    <3>5. QED
      BY <2>4, <3>2, <3>3, <3>4 DEF SeekValley
  <2>5. QED
    BY <1>1, <1>4, <2>1, <2>2, <2>3, <2>4 DEF TypeOK
<1>5. QED
  BY <1>3, <1>4 DEF Sample

\* Every index stays in its buffer and every counter in its range, for every
\* size of the window and of the rings.
THEOREM StepCounterTypes == Spec => []TypeOK
<1>1. TypeOK /\ [Next]_vars => TypeOK'
  <2> SUFFICES ASSUME TypeOK, [Next]_vars PROVE TypeOK'
    OBVIOUS
  <2>1. CASE Next
    BY <2>1, TypeSample DEF Next
  <2>2. CASE UNCHANGED vars
    BY <2>2 DEF vars, filterVars, fillVars, thresholdVars, mountainVars,
       strideVars, TypeOK
  <2>3. QED
    BY <2>1, <2>2
<1>2. QED
  BY <1>1, TypeInit, PTL DEF Spec

-----------------------------------------------------------------------------
\* A history step is a sample of the detector or leaves everything alone.
LEMMA HistoryRefines == HSpec => Spec
<1>1. HInit => Init
  BY DEF HInit
<1>2. [HNext]_hvars => [Next]_vars
  BY DEF HNext, HSample, Next, hvars
<1>3. QED
  BY <1>1, <1>2, PTL DEF HSpec, Spec

\* The types hold with the history variables too.
LEMMA HistoryTypes == HSpec => []TypeOK
  BY HistoryRefines, StepCounterTypes, PTL

\* The step count changes in one place only: at a valley that is a stride.
LEMMA StepAtStride ==
  ASSUME NEW m \in Modules, Sample(m), step_count' # step_count
  PROVE  /\ current_state = SeekingValley
         /\ current_state' = SeekingPeak
         /\ IsMin(window')
         /\ IsStride(max_value, window'[WINDOW_CENTER], old_threshold')
<1>1. ~WindowFull /\ ~SeekPeak
  BY DEF WindowFull, SeekPeak, strideVars
<1>2. SeekValley
  BY <1>1 DEF Sample
<1>3. ~MountainTimeout /\ ~StillSeekingValley
  BY DEF MountainTimeout, StillSeekingValley, strideVars
<1>4. ValleyFound
  BY <1>2, <1>3 DEF SeekValley
<1>5. QED
  BY <1>2, <1>4 DEF SeekValley, ValleyFound, MissStride

\* A stride's peak and valley are more than SENSITIVITY apart, for odd values of
\* it too.
LEMMA StrideIsASwing ==
  ASSUME NEW peak \in Int, NEW valley \in Int, NEW threshold \in Int,
         IsStride(peak, valley, threshold)
  PROVE  peak - valley > SENSITIVITY
<1> DEFINE half == SENSITIVITY \div 2
<1>1. half \in Int /\ SENSITIVITY <= 2 * half + 1
  OBVIOUS
<1>2. peak > threshold + half /\ valley < threshold - half
  BY DEF IsStride
<1>3. QED
  <2> HIDE DEF half
  <2> QED BY <1>1, <1>2

\* Every counted step is a drop of more than SENSITIVITY from a peak to a strict
\* minimum of its window.
THEOREM CountedStepsAreSwings == HSpec => StepIsASwing
<1>1. TypeOK /\ TypeOK' /\ [HNext]_hvars
        => [IsStep => /\ IsMin(window')
                      /\ max_value - window'[WINDOW_CENTER] > SENSITIVITY]_hvars
  <2> SUFFICES ASSUME TypeOK, TypeOK', HNext, IsStep
               PROVE  /\ IsMin(window')
                      /\ max_value - window'[WINDOW_CENTER] > SENSITIVITY
    BY DEF hvars, vars, strideVars, IsStep
  <2>1. PICK m \in Modules : Sample(m)
    BY DEF HNext, HSample
  <2>2. /\ IsMin(window')
        /\ IsStride(max_value, window'[WINDOW_CENTER], old_threshold')
    BY <2>1, StepAtStride DEF IsStep
  <2>3. window'[WINDOW_CENTER] \in Int /\ max_value \in Int /\ old_threshold' \in Int
    BY DEF TypeOK, WindowIndex
  <2>4. QED
    BY <2>2, <2>3, StrideIsASwing
<1>2. QED
  BY <1>1, HistoryTypes, PTL DEF HSpec, StepIsASwing

-----------------------------------------------------------------------------
\* While the last valley is still in the left half of the window, the samples
\* that followed it within the window it was judged in lie above it; the same
\* for the last peak, with the samples below it.
SwingInWindow ==
  /\ sinceValley \in 0 .. WINDOW_CENTER
  /\ sincePeak \in 0 .. WINDOW_CENTER
  /\ sinceValley < WINDOW_CENTER =>
       \A i \in 1 .. WINDOW_CENTER :
         window[WINDOW_CENTER - sinceValley + i] > window[WINDOW_CENTER - sinceValley]
  /\ sincePeak < WINDOW_CENTER =>
       \A i \in 1 .. WINDOW_CENTER :
         window[WINDOW_CENTER - sincePeak + i] < window[WINDOW_CENTER - sincePeak]

\* The centre of the next window cannot undercut a valley that is still in it.
LEMMA ValleyShadow ==
  ASSUME TypeOK, SwingInWindow, NEW m \in Modules, Filter(m), IsMin(window')
  PROVE  sinceValley = WINDOW_CENTER
<1> SUFFICES ASSUME sinceValley < WINDOW_CENTER PROVE FALSE
  BY DEF SwingInWindow
<1> DEFINE v == WINDOW_CENTER - sinceValley
<1>1. v \in 1 .. WINDOW_CENTER
  BY DEF SwingInWindow
<1>2. window[WINDOW_CENTER + 1] > window[v]
  <2>1. sinceValley + 1 \in 1 .. WINDOW_CENTER
    BY DEF SwingInWindow
  <2>2. window[WINDOW_CENTER - sinceValley + (sinceValley + 1)] > window[v]
    BY <2>1 DEF SwingInWindow
  <2>3. WINDOW_CENTER - sinceValley + (sinceValley + 1) = WINDOW_CENTER + 1
    BY DEF SwingInWindow
  <2>4. QED
    BY <2>2, <2>3
<1>3. /\ window'[WINDOW_CENTER] = window[WINDOW_CENTER + 1]
      /\ window'[v - 1] = window[v]
  BY <1>1 DEF Filter, Shift, WindowIndex
<1>4. window'[v - 1] > window'[WINDOW_CENTER]
  BY <1>1 DEF IsMin, WindowIndex
<1>5. window[v] \in Int /\ window[WINDOW_CENTER + 1] \in Int
  BY <1>1 DEF TypeOK, WindowIndex
<1>6. QED
  BY <1>2, <1>3, <1>4, <1>5

\* Nor can it exceed a peak that is still in it.
LEMMA PeakShadow ==
  ASSUME TypeOK, SwingInWindow, NEW m \in Modules, Filter(m), IsMax(window')
  PROVE  sincePeak = WINDOW_CENTER
<1> SUFFICES ASSUME sincePeak < WINDOW_CENTER PROVE FALSE
  BY DEF SwingInWindow
<1> DEFINE v == WINDOW_CENTER - sincePeak
<1>1. v \in 1 .. WINDOW_CENTER
  BY DEF SwingInWindow
<1>2. window[WINDOW_CENTER + 1] < window[v]
  <2>1. sincePeak + 1 \in 1 .. WINDOW_CENTER
    BY DEF SwingInWindow
  <2>2. window[WINDOW_CENTER - sincePeak + (sincePeak + 1)] < window[v]
    BY <2>1 DEF SwingInWindow
  <2>3. WINDOW_CENTER - sincePeak + (sincePeak + 1) = WINDOW_CENTER + 1
    BY DEF SwingInWindow
  <2>4. QED
    BY <2>2, <2>3
<1>3. /\ window'[WINDOW_CENTER] = window[WINDOW_CENTER + 1]
      /\ window'[v - 1] = window[v]
  BY <1>1 DEF Filter, Shift, WindowIndex
<1>4. window'[v - 1] < window'[WINDOW_CENTER]
  BY <1>1 DEF IsMax, WindowIndex
<1>5. window[v] \in Int /\ window[WINDOW_CENTER + 1] \in Int
  BY <1>1 DEF TypeOK, WindowIndex
<1>6. QED
  BY <1>2, <1>3, <1>4, <1>5

\* The state machine starts looking for a valley at a strict maximum only.
LEMMA PeakAtMax ==
  ASSUME NEW m \in Modules, Sample(m), IsPeak
  PROVE  IsMax(window')
  BY DEF Sample, IsPeak, WindowFull, SeekPeak, SeekValley, mountainVars,
     SeekingPeak, SeekingValley

\* One sample keeps SwingInWindow.
LEMMA SwingSample ==
  ASSUME TypeOK, SwingInWindow, NEW m \in Modules, HSample(m)
  PROVE  SwingInWindow'
<1>1. /\ sinceValley' \in 0 .. WINDOW_CENTER
      /\ sincePeak' \in 0 .. WINDOW_CENTER
  BY DEF HSample, RecordSwing, UpTo, SwingInWindow
<1>2. \A i \in 0 .. WINDOW_SIZE - 2 : window'[i] = window[i + 1]
  BY DEF HSample, Sample, Filter, Shift, WindowIndex
<1>3. ASSUME sinceValley' < WINDOW_CENTER, NEW i \in 1 .. WINDOW_CENTER
      PROVE  window'[WINDOW_CENTER - sinceValley' + i] > window'[WINDOW_CENTER - sinceValley']
  <2>1. CASE IsValley
    <3>1. sinceValley' = 0
      BY <2>1 DEF HSample, RecordSwing
    <3>2. QED
      BY <2>1, <3>1 DEF IsValley, IsMin, WindowIndex
  <2>2. CASE ~IsValley
    <3>1. sinceValley' = sinceValley + 1 /\ sinceValley < WINDOW_CENTER
      BY <1>3, <2>2 DEF HSample, RecordSwing, UpTo, SwingInWindow
    <3>2. sinceValley \in 0 .. WINDOW_CENTER - 2
      BY <1>3, <3>1 DEF SwingInWindow
    <3>3. window[WINDOW_CENTER - sinceValley + i] > window[WINDOW_CENTER - sinceValley]
      BY <3>1 DEF SwingInWindow
    <3>4. /\ window'[WINDOW_CENTER - sinceValley - 1 + i] = window[WINDOW_CENTER - sinceValley + i]
          /\ window'[WINDOW_CENTER - sinceValley - 1] = window[WINDOW_CENTER - sinceValley]
      BY <1>2, <3>2
    <3>5. /\ WINDOW_CENTER - sinceValley' + i = WINDOW_CENTER - sinceValley - 1 + i
          /\ WINDOW_CENTER - sinceValley' = WINDOW_CENTER - sinceValley - 1
      BY <3>1, <3>2
    <3>6. QED
      BY <3>3, <3>4, <3>5
  <2>3. QED
    BY <2>1, <2>2
<1>4. ASSUME sincePeak' < WINDOW_CENTER, NEW i \in 1 .. WINDOW_CENTER
      PROVE  window'[WINDOW_CENTER - sincePeak' + i] < window'[WINDOW_CENTER - sincePeak']
  <2>1. CASE IsPeak
    <3>1. sincePeak' = 0
      BY <2>1 DEF HSample, RecordSwing
    <3>2. IsMax(window')
      BY <2>1, PeakAtMax DEF HSample
    <3>3. QED
      BY <3>1, <3>2 DEF IsMax, WindowIndex
  <2>2. CASE ~IsPeak
    <3>1. sincePeak' = sincePeak + 1 /\ sincePeak < WINDOW_CENTER
      BY <1>4, <2>2 DEF HSample, RecordSwing, UpTo, SwingInWindow
    <3>2. sincePeak \in 0 .. WINDOW_CENTER - 2
      BY <1>4, <3>1 DEF SwingInWindow
    <3>3. window[WINDOW_CENTER - sincePeak + i] < window[WINDOW_CENTER - sincePeak]
      BY <3>1 DEF SwingInWindow
    <3>4. /\ window'[WINDOW_CENTER - sincePeak - 1 + i] = window[WINDOW_CENTER - sincePeak + i]
          /\ window'[WINDOW_CENTER - sincePeak - 1] = window[WINDOW_CENTER - sincePeak]
      BY <1>2, <3>2
    <3>5. /\ WINDOW_CENTER - sincePeak' + i = WINDOW_CENTER - sincePeak - 1 + i
          /\ WINDOW_CENTER - sincePeak' = WINDOW_CENTER - sincePeak - 1
      BY <3>1, <3>2
    <3>6. QED
      BY <3>3, <3>4, <3>5
  <2>3. QED
    BY <2>1, <2>2
<1>5. QED
  BY <1>1, <1>3, <1>4 DEF SwingInWindow

\* SwingInWindow is an invariant.
LEMMA SwingInvariant == HSpec => []SwingInWindow
<1>1. HInit => SwingInWindow
  BY DEF HInit, SwingInWindow
<1>2. TypeOK /\ SwingInWindow /\ [HNext]_hvars => SwingInWindow'
  <2>1. ASSUME TypeOK, SwingInWindow, HNext PROVE SwingInWindow'
    BY <2>1, SwingSample DEF HNext
  <2>2. ASSUME SwingInWindow, UNCHANGED hvars PROVE SwingInWindow'
    BY <2>2 DEF hvars, vars, filterVars, history, SwingInWindow
  <2>3. QED
    BY <2>1, <2>2
<1>3. QED
  BY <1>1, <1>2, HistoryTypes, PTL DEF HSpec

\* Two valleys, two peaks and two counted steps are more than WINDOW_CENTER
\* samples apart: the detector cannot count faster than 50 / 9 steps a second.
THEOREM StepsCannotCrowd == HSpec => StepsAreApart
<1>1. TypeOK /\ SwingInWindow /\ [HNext]_hvars
        => [/\ IsValley => sinceValley >= WINDOW_CENTER
            /\ IsPeak   => sincePeak >= WINDOW_CENTER
            /\ IsStep   => IsValley]_hvars
  <2> SUFFICES ASSUME TypeOK, SwingInWindow, HNext
               PROVE  /\ IsValley => sinceValley >= WINDOW_CENTER
                      /\ IsPeak   => sincePeak >= WINDOW_CENTER
                      /\ IsStep   => IsValley
    OBVIOUS
  <2>1. PICK m \in Modules : Sample(m) /\ Filter(m)
    BY DEF HNext, HSample, Sample
  <2>2. IsValley => sinceValley >= WINDOW_CENTER
    BY <2>1, ValleyShadow DEF IsValley
  <2>3. IsPeak => sincePeak >= WINDOW_CENTER
    BY <2>1, PeakAtMax, PeakShadow
  <2>4. IsStep => IsValley
    BY <2>1, StepAtStride DEF IsStep, IsValley
  <2>5. QED
    BY <2>2, <2>3, <2>4
<1>2. QED
  BY <1>1, HistoryTypes, SwingInvariant, PTL DEF HSpec, StepsAreApart

-----------------------------------------------------------------------------
\* One sample settles exactly the strides it judges or gives up.
LEMMA StrideSample ==
  ASSUME TypeOK, countable \in Int, StridesConserved, NEW m \in Modules, HSample(m)
  PROVE  countable' \in Int /\ StridesConserved'
<1> USE DEF StridesConserved
<1>1. consecutivesteps \in Nat /\ step_count \in Nat
  BY DEF TypeOK
<1>2. ASSUME ~IsValley, UNCHANGED <<consecutivesteps, step_count>>
      PROVE  countable' \in Int /\ StridesConserved'
  BY <1>1, <1>2 DEF HSample, RecordStride, WALKING
<1>3. CASE WindowFull
  BY <1>2, <1>3 DEF WindowFull, IsValley, mountainVars, strideVars,
     SeekingPeak, SeekingValley
<1>4. CASE SeekPeak
  BY <1>2, <1>4 DEF SeekPeak, IsValley, strideVars, SeekingPeak, SeekingValley
<1>5. CASE SeekValley
  <2>1. CASE ValleyFound
    <3>1. IsValley
      BY <1>5, <2>1 DEF SeekValley, ValleyFound, IsValley
    <3> DEFINE stride == IsStride(max_value, window'[WINDOW_CENTER], old_threshold')
    <3>2. CASE stride
      <4>1. CountStride
        BY <2>1, <3>2 DEF ValleyFound
      <4>2. countable' = countable + 1
        BY <3>1, <3>2 DEF HSample, RecordStride
      <4>3. QED
        BY <1>1, <4>1, <4>2 DEF CountStride, WALKING
    <3>3. CASE ~stride
      <4>1. MissStride
        BY <2>1, <3>3 DEF ValleyFound
      <4>2. countable' = IF consecutivesteps' = 0 /\ consecutivesteps < WALKING
                         THEN countable - consecutivesteps ELSE countable
        BY <3>3 DEF HSample, RecordStride
      <4>3. QED
        BY <1>1, <4>1, <4>2 DEF MissStride, WALKING
    <3>4. QED
      BY <3>2, <3>3
  <2>2. CASE MountainTimeout
    <3>1. ~IsValley
      BY <2>2 DEF MountainTimeout, IsValley
    <3>2. QED
      BY <1>1, <2>2, <3>1 DEF MountainTimeout, HSample, RecordStride, WALKING
  <2>3. CASE StillSeekingValley
    BY <1>2, <2>3 DEF StillSeekingValley, IsValley, strideVars
  <2>4. QED
    BY <1>5, <2>1, <2>2, <2>3 DEF SeekValley
<1>6. QED
  BY <1>3, <1>4, <1>5 DEF HSample, Sample

\* The step count is the number of strides walked, without those of walks that
\* ended before the fourth stride: none is lost, none is counted twice.
THEOREM StridesAreConserved == HSpec => []StridesConserved
<1> DEFINE Inv == countable \in Int /\ StridesConserved
<1>1. HInit => Inv
  BY DEF HInit, Init, StridesConserved, WALKING
<1>2. TypeOK /\ Inv /\ [HNext]_hvars => Inv'
  <2>1. ASSUME TypeOK, Inv, HNext PROVE Inv'
    BY <2>1, StrideSample DEF HNext
  <2>2. ASSUME Inv, UNCHANGED hvars PROVE Inv'
    BY <2>2 DEF hvars, vars, strideVars, history, StridesConserved
  <2>3. QED
    BY <2>1, <2>2
<1>3. Inv => StridesConserved
  OBVIOUS
<1>4. QED
  <2> HIDE DEF Inv
  <2> QED BY <1>1, <1>2, <1>3, HistoryTypes, PTL DEF HSpec
-----------------------------------------------------------------------------
\* The mean of the filter.

\* Induction along an interval, about a set instead of a predicate.
LEMMA Climb ==
  ASSUME NEW n \in Nat, NEW T, 0 \in T, \A i \in 1 .. n : i - 1 \in T => i \in T
  PROVE  \A i \in 0 .. n : i \in T
<1> DEFINE S == {i \in 0 .. n : i \notin T}
           R == {p \in Nat \X Nat : p[1] < p[2]}
<1> SUFFICES ASSUME S # {} PROVE FALSE
  OBVIOUS
<1>1. IsWellFoundedOn(R, Nat)
  BY NatLessThanWellFounded, Zenon DEF OpToRel
<1>2. S \subseteq Nat
  OBVIOUS
<1>3. PICK i \in S : \A k \in S : ~ (<<k, i>> \in R)
  BY <1>1, <1>2, WFMin
<1>4. i \in 1 .. n
  OBVIOUS
<1>5. i - 1 \in T
  <2>1. <<i - 1, i>> \in R
    BY <1>4
  <2>2. i - 1 \notin S
    BY <2>1, <1>3
  <2> QED BY <2>2, <1>4
<1> QED BY <1>3, <1>4, <1>5

Ring == 0 .. FILTER_ORDER - 1

\* g[n] is the sum of the first n values of f.
Sums(g, f, n) ==
  g = [k \in 0 .. n |-> IF k = 0 THEN 0 ELSE g[k - 1] + f[k - 1]]

\* Such sums exist.
LEMMA SumsExist ==
  ASSUME NEW f \in [Ring -> Int]
  PROVE  \E g \in [0 .. FILTER_ORDER -> Int] : Sums(g, f, FILTER_ORDER)
<1> DEFINE T == {n \in 0 .. FILTER_ORDER : \E g \in [0 .. n -> Int] : Sums(g, f, n)}
<1>1. 0 \in T
  <2>1. Sums([k \in 0 .. 0 |-> 0], f, 0)
    BY DEF Sums
  <2> QED BY <2>1
<1>2. ASSUME NEW n \in 1 .. FILTER_ORDER, n - 1 \in T PROVE n \in T
  <2>1. PICK g \in [0 .. n - 1 -> Int] : Sums(g, f, n - 1)
    BY <1>2
  <2> DEFINE h == [k \in 0 .. n |-> IF k = n THEN g[n - 1] + f[n - 1] ELSE g[k]]
  <2>2. h \in [0 .. n -> Int]
    BY DEF Ring
  <2>3. \A k \in 0 .. n : h[k] = IF k = 0 THEN 0 ELSE h[k - 1] + f[k - 1]
    <3> TAKE k \in 0 .. n
    <3>1. CASE k = n
      BY <3>1
    <3>2. CASE k # n
      <4>1. k \in 0 .. n - 1
        BY <3>2
      <4>2. g[k] = IF k = 0 THEN 0 ELSE g[k - 1] + f[k - 1]
        BY <2>1, <4>1 DEF Sums
      <4>3. k # 0 => h[k - 1] = g[k - 1]
        BY <4>1
      <4> QED BY <3>2, <4>2, <4>3
    <3> QED BY <3>1, <3>2
  <2>4. Sums(h, f, n)
    <3> HIDE DEF h
    <3> QED BY <2>2, <2>3 DEF Sums
  <2> HIDE DEF h
  <2> QED BY <2>2, <2>4
<1>3. FILTER_ORDER \in T
  <2> HIDE DEF T
  <2> QED BY <1>1, <1>2, Climb
<1> QED BY <1>3

\* SumOf is the last of the sums.
LEMMA SumOfIs ==
  ASSUME NEW f \in [Ring -> Int]
  PROVE  \E g \in [0 .. FILTER_ORDER -> Int] :
           /\ SumOf(f) = g[FILTER_ORDER]
           /\ g[0] = 0
           /\ \A k \in 1 .. FILTER_ORDER : g[k] = g[k - 1] + f[k - 1]
<1> DEFINE sum == CHOOSE g : Sums(g, f, FILTER_ORDER)
<1>1. PICK g \in [0 .. FILTER_ORDER -> Int] : Sums(g, f, FILTER_ORDER)
  BY SumsExist
<1>2. Sums(sum, f, FILTER_ORDER)
  BY <1>1
<1>3. SumOf(f) = sum[FILTER_ORDER]
  BY DEF SumOf, Sums
<1> HIDE DEF sum
<1>4. /\ sum[0] = 0
      /\ \A k \in 1 .. FILTER_ORDER : sum[k] = sum[k - 1] + f[k - 1]
  BY <1>2 DEF Sums
<1>5. sum \in [0 .. FILTER_ORDER -> Int]
  <2> DEFINE T == {k \in 0 .. FILTER_ORDER : sum[k] \in Int}
  <2>1. 0 \in T
    BY <1>4
  <2>2. ASSUME NEW k \in 1 .. FILTER_ORDER, k - 1 \in T PROVE k \in T
    BY <2>2, <1>4 DEF Ring
  <2>3. \A k \in 0 .. FILTER_ORDER : k \in T
    <3> HIDE DEF T
    <3> QED BY <2>1, <2>2, Climb
  <2> QED BY <2>3, <1>2 DEF Sums
<1> QED BY <1>3, <1>4, <1>5

\* Functions that agree but on the last value have sums that differ by it.
LEMMA SumLastChanged ==
  ASSUME NEW f \in [Ring -> Int], NEW h \in [Ring -> Int],
         \A j \in 0 .. FILTER_ORDER - 2 : h[j] = f[j]
  PROVE  SumOf(h) = SumOf(f) - f[FILTER_ORDER - 1] + h[FILTER_ORDER - 1]
<1>1. PICK a \in [0 .. FILTER_ORDER -> Int] :
        /\ SumOf(f) = a[FILTER_ORDER]
        /\ a[0] = 0
        /\ \A k \in 1 .. FILTER_ORDER : a[k] = a[k - 1] + f[k - 1]
  BY SumOfIs
<1>2. PICK b \in [0 .. FILTER_ORDER -> Int] :
        /\ SumOf(h) = b[FILTER_ORDER]
        /\ b[0] = 0
        /\ \A k \in 1 .. FILTER_ORDER : b[k] = b[k - 1] + h[k - 1]
  BY SumOfIs
<1> DEFINE T == {k \in 0 .. FILTER_ORDER - 1 : b[k] = a[k]}
<1>3. 0 \in T
  BY <1>1, <1>2
<1>4. ASSUME NEW k \in 1 .. FILTER_ORDER - 1, k - 1 \in T PROVE k \in T
  <2>1. /\ k \in 1 .. FILTER_ORDER /\ k - 1 \in 0 .. FILTER_ORDER - 2
        /\ b[k - 1] = a[k - 1]
    BY <1>4
  <2>2. b[k] = b[k - 1] + h[k - 1] /\ a[k] = a[k - 1] + f[k - 1]
    BY <1>1, <1>2, <2>1
  <2>3. h[k - 1] = f[k - 1]
    BY <2>1
  <2> QED BY <2>1, <2>2, <2>3
<1>5. FILTER_ORDER - 1 \in T
  <2> DEFINE n == FILTER_ORDER - 1
  <2>1. n \in Nat
    OBVIOUS
  <2>2. \A k \in 1 .. n : k - 1 \in T => k \in T
    BY <1>4
  <2> HIDE DEF T, n
  <2>3. \A k \in 0 .. n : k \in T
    BY <1>3, <2>1, <2>2, Climb
  <2>4. n \in T
    BY <2>1, <2>3
  <2> QED BY <2>4 DEF n
<1> QED BY <1>1, <1>2, <1>5 DEF Ring

\* Values moved up by one, with a new first one: the sum loses the last of them.
LEMMA SumShifted ==
  ASSUME NEW f \in [Ring -> Int], NEW h \in [Ring -> Int],
         \A j \in 1 .. FILTER_ORDER - 1 : h[j] = f[j - 1]
  PROVE  SumOf(h) = SumOf(f) - f[FILTER_ORDER - 1] + h[0]
<1>1. PICK a \in [0 .. FILTER_ORDER -> Int] :
        /\ SumOf(f) = a[FILTER_ORDER]
        /\ a[0] = 0
        /\ \A k \in 1 .. FILTER_ORDER : a[k] = a[k - 1] + f[k - 1]
  BY SumOfIs
<1>2. PICK b \in [0 .. FILTER_ORDER -> Int] :
        /\ SumOf(h) = b[FILTER_ORDER]
        /\ b[0] = 0
        /\ \A k \in 1 .. FILTER_ORDER : b[k] = b[k - 1] + h[k - 1]
  BY SumOfIs
<1> DEFINE T == {k \in 0 .. FILTER_ORDER - 1 : b[k + 1] = a[k] + h[0]}
<1>3. 0 \in T
  BY <1>1, <1>2 DEF Ring
<1>4. ASSUME NEW k \in 1 .. FILTER_ORDER - 1, k - 1 \in T PROVE k \in T
  <2>1. b[k + 1] = b[k] + h[k] /\ a[k] = a[k - 1] + f[k - 1]
    BY <1>1, <1>2
  <2>2. b[k] = a[k - 1] + h[0] /\ h[k] = f[k - 1]
    BY <1>4
  <2>3. a[k - 1] \in Int /\ h[0] \in Int /\ f[k - 1] \in Int
    BY DEF Ring
  <2> QED BY <2>1, <2>2, <2>3
<1>5. FILTER_ORDER - 1 \in T
  <2> DEFINE n == FILTER_ORDER - 1
  <2>1. n \in Nat
    OBVIOUS
  <2>2. \A k \in 1 .. n : k - 1 \in T => k \in T
    BY <1>4
  <2> HIDE DEF T, n
  <2>3. \A k \in 0 .. n : k \in T
    BY <1>3, <2>1, <2>2, Climb
  <2>4. n \in T
    BY <2>1, <2>3
  <2> QED BY <2>4 DEF n
<1>6. b[FILTER_ORDER] = a[FILTER_ORDER - 1] + h[0]
  BY <1>5
<1> QED BY <1>1, <1>2, <1>6 DEF Ring

\* Zeros have the sum zero.
LEMMA SumOfZeros == SumOf([i \in Ring |-> 0]) = 0
<1> DEFINE f == [i \in Ring |-> 0]
<1>1. f \in [Ring -> Int]
  OBVIOUS
<1>2. PICK a \in [0 .. FILTER_ORDER -> Int] :
        /\ SumOf(f) = a[FILTER_ORDER]
        /\ a[0] = 0
        /\ \A k \in 1 .. FILTER_ORDER : a[k] = a[k - 1] + f[k - 1]
  <2> HIDE DEF f
  <2> QED BY <1>1, SumOfIs
<1> DEFINE T == {k \in 0 .. FILTER_ORDER : a[k] = 0}
<1>3. 0 \in T
  BY <1>2
<1>4. ASSUME NEW k \in 1 .. FILTER_ORDER, k - 1 \in T PROVE k \in T
  BY <1>2, <1>4 DEF Ring
<1>5. FILTER_ORDER \in T
  <2> HIDE DEF T
  <2> QED BY <1>3, <1>4, Climb
<1> QED BY <1>2, <1>5

\* The slot written j samples before the one at IndexAverage is written, and the
\* ring read from there: the newest module at 0.
Back(j) == IF j < IndexAverage THEN IndexAverage - 1 - j
           ELSE IndexAverage - 1 - j + FILTER_ORDER

Turned == [j \in Ring |-> buffer_RawData[Back(j)]]

\* How many of the slots written last hold the last samples: all of them until
\* the window is full, and then as many as came after, for the sample that fills
\* the window leaves its slot to the next one.
Kept == IF window_filled THEN sinceFull ELSE FILTER_ORDER

RingInv ==
  /\ recent \in [Ring -> Nat]
  /\ sinceFull \in 0 .. FILTER_ORDER
  /\ FilterMeanBuffer = SumOf(Turned)
  /\ \A j \in Ring : j < Kept => Turned[j] = recent[j]

\* The ring is read backwards from slot to slot, and ends at IndexAverage.
LEMMA TurnedShape ==
  ASSUME TypeOK
  PROVE  /\ Turned \in [Ring -> Nat]
         /\ \A j \in Ring : Back(j) \in Ring
         /\ Back(FILTER_ORDER - 1) = IndexAverage
         /\ \A j \in 0 .. FILTER_ORDER - 2 : Back(j) # IndexAverage
<1>1. IndexAverage \in Ring /\ buffer_RawData \in [Ring -> Nat]
  BY DEF TypeOK, Ring
<1>2. \A j \in Ring : Back(j) \in Ring
  BY <1>1 DEF Back, Ring
<1> QED BY <1>1, <1>2 DEF Back, Ring, Turned

\* A sample goes to the slot at IndexAverage.  If the index advances, the ring is
\* read one slot further on; if it does not, its oldest value was replaced.
LEMMA TurnedNext ==
  ASSUME TypeOK, NEW m \in Modules, Filter(m)
  PROVE  /\ IndexAverage' = NextSlot(IndexAverage, FILTER_ORDER) =>
              /\ Turned'[0] = m
              /\ \A j \in 1 .. FILTER_ORDER - 1 : Turned'[j] = Turned[j - 1]
         /\ IndexAverage' = IndexAverage =>
              /\ Turned'[FILTER_ORDER - 1] = m
              /\ \A j \in 0 .. FILTER_ORDER - 2 : Turned'[j] = Turned[j]
<1>1. /\ IndexAverage \in Ring /\ buffer_RawData \in [Ring -> Nat]
      /\ buffer_RawData' = [buffer_RawData EXCEPT ![IndexAverage] = m]
  BY DEF TypeOK, Ring, Filter
<1>2. \A j \in Ring : Back(j) \in Ring /\ Turned[j] = buffer_RawData[Back(j)]
  BY TurnedShape DEF Turned
<1>3. \A j \in Ring : Turned'[j] = buffer_RawData'[Back(j)']
  BY DEF Turned
<1>4. ASSUME IndexAverage' = NextSlot(IndexAverage, FILTER_ORDER)
      PROVE  /\ Turned'[0] = m
             /\ \A j \in 1 .. FILTER_ORDER - 1 : Turned'[j] = Turned[j - 1]
  <2>1. Back(0)' = IndexAverage
    BY <1>1, <1>4 DEF Back, NextSlot, Ring
  <2>2. \A j \in 1 .. FILTER_ORDER - 1 : Back(j)' = Back(j - 1)
    BY <1>1, <1>4 DEF Back, NextSlot, Ring
  <2>3. \A j \in 1 .. FILTER_ORDER - 1 : Back(j - 1) # IndexAverage
    BY <1>1 DEF Back, Ring
  <2> HIDE DEF Back, Turned
  <2>4. Turned'[0] = m
    BY <1>1, <1>3, <2>1 DEF Ring
  <2>5. ASSUME NEW j \in 1 .. FILTER_ORDER - 1 PROVE Turned'[j] = Turned[j - 1]
    <3>1. j \in Ring /\ j - 1 \in Ring
      BY DEF Ring
    <3>2. Turned'[j] = buffer_RawData'[Back(j - 1)]
      BY <1>3, <2>2, <3>1
    <3> QED BY <1>1, <1>2, <2>3, <3>1, <3>2
  <2> QED BY <2>4, <2>5
<1>5. ASSUME IndexAverage' = IndexAverage
      PROVE  /\ Turned'[FILTER_ORDER - 1] = m
             /\ \A j \in 0 .. FILTER_ORDER - 2 : Turned'[j] = Turned[j]
  <2>1. \A j \in Ring : Back(j)' = Back(j)
    BY <1>5 DEF Back
  <2> HIDE DEF Back, Turned
  <2>2. \A j \in Ring : Turned'[j] = buffer_RawData'[Back(j)]
    BY <1>3, <2>1
  <2>3. FILTER_ORDER - 1 \in Ring /\ \A j \in 0 .. FILTER_ORDER - 2 : j \in Ring
    BY DEF Ring
  <2> QED BY <1>1, <1>2, <2>2, <2>3, TurnedShape
<1> QED BY <1>4, <1>5

\* The sum of the ring is the sum of the ring read backwards, after each sample.
LEMMA SumKept ==
  ASSUME TypeOK, TypeOK', RingInv, NEW m \in Modules, Sample(m)
  PROVE  FilterMeanBuffer' = SumOf(Turned')
<1>1. /\ Filter(m)
      /\ FilterMeanBuffer' = FilterMeanBuffer - buffer_RawData[IndexAverage] + m
      /\ IndexAverage' = IndexAverage \/ IndexAverage' = NextSlot(IndexAverage, FILTER_ORDER)
  BY DEF Sample, Filter, WindowFull
<1>2. Turned \in [Ring -> Nat] /\ Turned' \in [Ring -> Nat]
  <2>1. IndexAverage' \in Ring /\ buffer_RawData' \in [Ring -> Nat]
    BY DEF TypeOK, Ring
  <2>2. ASSUME NEW j \in Ring PROVE Back(j)' \in Ring
    <3> DEFINE k == IndexAverage'
    <3>1. Back(j)' = IF j < k THEN k - 1 - j ELSE k - 1 - j + FILTER_ORDER
      BY DEF Back
    <3>2. k \in Ring
      BY <2>1
    <3> HIDE DEF k
    <3> QED BY <3>1, <3>2 DEF Ring
  <2>3. \A j \in Ring : buffer_RawData'[Back(j)'] \in Nat
    <3> HIDE DEF Back
    <3> QED BY <2>1, <2>2
  <2>4. Turned' = [j \in Ring |-> buffer_RawData'[Back(j)']]
    BY DEF Turned, Ring
  <2>5. Turned' \in [Ring -> Nat]
    <3> HIDE DEF Turned, Back
    <3> QED BY <2>3, <2>4
  <2> QED BY <2>5, TurnedShape
<1>3. Turned[FILTER_ORDER - 1] = buffer_RawData[IndexAverage]
  <2>1. FILTER_ORDER - 1 \in Ring
    BY DEF Ring
  <2> QED BY <2>1, TurnedShape DEF Turned
<1>4. Turned \in [Ring -> Int] /\ Turned' \in [Ring -> Int] /\ m \in Int
  BY <1>2
<1>5. FilterMeanBuffer = SumOf(Turned)
  BY DEF RingInv
<1>6. CASE IndexAverage' = NextSlot(IndexAverage, FILTER_ORDER)
  <2>1. /\ Turned'[0] = m
        /\ \A j \in 1 .. FILTER_ORDER - 1 : Turned'[j] = Turned[j - 1]
    BY <1>1, <1>6, TurnedNext
  <2> HIDE DEF Turned
  <2>2. SumOf(Turned') = SumOf(Turned) - Turned[FILTER_ORDER - 1] + Turned'[0]
    BY <1>4, <2>1, SumShifted
  <2> QED BY <1>1, <1>3, <1>5, <2>1, <2>2
<1>7. CASE IndexAverage' = IndexAverage
  <2>1. /\ Turned'[FILTER_ORDER - 1] = m
        /\ \A j \in 0 .. FILTER_ORDER - 2 : Turned'[j] = Turned[j]
    BY <1>1, <1>7, TurnedNext
  <2> HIDE DEF Turned
  <2>2. SumOf(Turned') = SumOf(Turned) - Turned[FILTER_ORDER - 1] + Turned'[FILTER_ORDER - 1]
    BY <1>4, <2>1, SumLastChanged
  <2> QED BY <1>1, <1>3, <1>5, <2>1, <2>2
<1> QED BY <1>1, <1>6, <1>7

\* The slots written last follow the samples, the one that fills the window apart.
LEMMA KeptNext ==
  ASSUME TypeOK, RingInv, NEW m \in Modules, HSample(m)
  PROVE  /\ recent' \in [Ring -> Nat]
         /\ sinceFull' \in 0 .. FILTER_ORDER
         /\ \A j \in Ring : j < Kept' => Turned'[j] = recent'[j]
<1>1. /\ recent' = [i \in Ring |-> IF i = 0 THEN m ELSE recent[i - 1]]
      /\ sinceFull' = IF window_filled THEN UpTo(FILTER_ORDER, sinceFull + 1) ELSE 0
      /\ Sample(m) /\ Filter(m)
  BY DEF HSample, RecordSample, Ring, Sample
<1>2. recent' \in [Ring -> Nat]
  BY <1>1 DEF RingInv, Ring
<1>3. sinceFull' \in 0 .. FILTER_ORDER
  BY <1>1 DEF RingInv, UpTo
<1>4. CASE WindowFull
  <2>1. window_filled' /\ ~window_filled
    BY <1>4, Zenon DEF WindowFull
  <2>2. Kept' = 0
    BY <1>1, <2>1 DEF Kept
  <2> QED BY <1>2, <1>3, <2>2 DEF Ring
<1>5. CASE ~WindowFull
  <2>1. Fill /\ IndexAverage' = NextSlot(IndexAverage, FILTER_ORDER)
    BY <1>1, <1>5 DEF Sample
  <2>2. window_filled' = window_filled
    BY <2>1, Zenon DEF Fill, fillVars
  <2>3. Kept' <= Kept + 1 /\ Kept \in Nat /\ Kept' \in Nat
    <3>1. CASE window_filled
      <4>1. Kept = sinceFull /\ Kept' = UpTo(FILTER_ORDER, sinceFull + 1)
        BY <1>1, <2>2, <3>1, Zenon DEF Kept
      <4> QED BY <4>1 DEF RingInv, UpTo
    <3>2. CASE ~window_filled
      <4>1. Kept = FILTER_ORDER /\ Kept' = FILTER_ORDER
        BY <2>2, <3>2, Zenon DEF Kept
      <4> QED BY <4>1
    <3> QED BY <3>1, <3>2
  <2>4. /\ Turned'[0] = m
        /\ \A j \in 1 .. FILTER_ORDER - 1 : Turned'[j] = Turned[j - 1]
    BY <1>1, <2>1, TurnedNext
  <2>5. ASSUME NEW j \in Ring, j < Kept' PROVE Turned'[j] = recent'[j]
    <3>1. CASE j = 0
      BY <1>1, <2>4, <3>1
    <3>2. CASE j # 0
      <4>1. j \in 1 .. FILTER_ORDER - 1 /\ j - 1 \in Ring
        BY <3>2 DEF Ring
      <4>2. j - 1 < Kept
        BY <2>3, <2>5, <4>1
      <4>3. Turned[j - 1] = recent[j - 1]
        BY <4>1, <4>2 DEF RingInv
      <4>4. recent'[j] = recent[j - 1]
        BY <1>1, <3>2
      <4> QED BY <2>4, <4>1, <4>3, <4>4
    <3> QED BY <3>1, <3>2
  <2> QED BY <1>2, <1>3, <2>5
<1> QED BY <1>4, <1>5

\* The ring starts as zeros, as does the history.
LEMMA RingInit == HInit => RingInv
<1> SUFFICES ASSUME HInit PROVE RingInv
  OBVIOUS
<1>1. TypeOK
  BY TypeInit DEF HInit
<1>2. /\ buffer_RawData = [i \in Ring |-> 0] /\ recent = [i \in Ring |-> 0]
      /\ FilterMeanBuffer = 0 /\ sinceFull = 0
  BY DEF HInit, Init, Ring
<1>3. \A j \in Ring : Turned[j] = 0
  BY <1>1, <1>2, TurnedShape DEF Turned
<1>4. Turned = [i \in Ring |-> 0]
  BY <1>3 DEF Turned
<1> QED BY <1>2, <1>3, <1>4, SumOfZeros DEF RingInv

\* The filter is the mean of the last FILTER_ORDER samples, but for the turn of
\* the ring after the window was filled: the early return of that sample costs
\* nothing for good, whatever the size of the ring and of the window.
THEOREM FilterIsTheMean == HSpec => []MeanIsRecent
<1>1. TypeOK /\ TypeOK' /\ RingInv /\ [HNext]_hvars => RingInv'
  <2>1. ASSUME TypeOK, TypeOK', RingInv, HNext PROVE RingInv'
    BY <2>1, SumKept, KeptNext DEF HNext, HSample, RingInv
  <2>2. ASSUME RingInv, UNCHANGED hvars PROVE RingInv'
    BY <2>2 DEF hvars, vars, filterVars, fillVars, history, RingInv, Turned, Back, Kept
  <2> QED BY <2>1, <2>2
<1>2. RingInv => MeanIsRecent
  <2> SUFFICES ASSUME RingInv, ~window_filled \/ sinceFull = FILTER_ORDER
               PROVE  FilterMeanBuffer = SumOf(recent)
    BY DEF MeanIsRecent
  <2>1. Kept = FILTER_ORDER
    BY DEF Kept
  <2>2. \A j \in Ring : Turned[j] = recent[j]
    BY <2>1 DEF RingInv, Ring
  <2>3. Turned = recent
    BY <2>2 DEF Turned, RingInv
  <2> QED BY <2>3 DEF RingInv
<1> QED BY <1>1, <1>2, RingInit, HistoryTypes, PTL DEF HSpec

=============================================================================
