---------------------------- MODULE PedometerLog ----------------------------
(***************************************************************************)
(* What every build of the pedometer promises about its log: since the     *)
(* last power on, the samples read from the sensor reach the step detector *)
(* in order, none twice and none left out, and after every BATCH of them   *)
(* one row is logged whose time is the time those samples span.  The log   *)
(* survives a power cut, everything else starts anew.                      *)
(*                                                                         *)
(* A sample is its number since power on.                                  *)
(***************************************************************************)
EXTENDS Integers, Sequences

CONSTANTS
  BATCH,     \* samples per row: 500, 70 in rl
  PERIOD     \* milliseconds per sample: 20

VARIABLES
  log,       \* the file: headers and rows, append only
  recorded,  \* samples since power on that a row accounts for
  pending,   \* samples given to the detector since
  lossy      \* a line whose file cannot be opened is skipped; never changes

logVars == <<log, recorded, pending, lossy>>

HEADER == [kind |-> "header"]
Row(time) == [kind |-> "row", time |-> time]

LogInit ==
  /\ log = <<>>
  /\ recorded = 0
  /\ pending = <<>>
  /\ lossy \in BOOLEAN

\* n samples in the order they were read, the first of them after sample number k.
Samples(k, n) == [i \in 1 .. n |-> k + i]

\* A line is written, or lost where that may happen.
Write(line) ==
  \/ log' = Append(log, line)
  \/ lossy /\ UNCHANGED log

Start ==
  /\ Write(HEADER)
  /\ recorded' = 0
  /\ pending' = <<>>

PowerCut ==
  /\ recorded' = 0
  /\ pending' = <<>>
  /\ UNCHANGED log

Detect(n) ==
  /\ Len(pending) + n <= BATCH
  /\ pending' = pending \o Samples(recorded + Len(pending), n)
  /\ UNCHANGED <<log, recorded>>

Record ==
  /\ Len(pending) = BATCH
  /\ recorded' = recorded + BATCH
  /\ pending' = <<>>
  /\ Write(Row(PERIOD * recorded'))

LogNext ==
  /\ Start \/ PowerCut \/ Record \/ \E n \in 1 .. BATCH : Detect(n)
  /\ UNCHANGED lossy

LogSpec == LogInit /\ [][LogNext]_logVars
=============================================================================
