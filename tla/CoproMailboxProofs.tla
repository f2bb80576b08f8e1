------------------------- MODULE CoproMailboxProofs -------------------------
(***************************************************************************)
(* What the handshake of CoproMailbox guarantees for every set of objects  *)
(* and every size of the translation table, when a trigger raised while    *)
(* the HP core is awake is forgotten.  The transfers also need that the LP *)
(* core leaves its wait before the HP core sleeps again (Orderly).         *)
(***************************************************************************)
EXTENDS CoproMailbox, TLAPS

Orderly == WakeKept = FALSE /\ PromptLp = TRUE

\* The program counters at which the LP core neither waits for the HP core nor
\* has been answered by it.
LpBusyPcs == {"main", "running", "delay", "scan", "fetch", "fetched",
              "reason", "object"}
LpReadPcs == {"scan", "fetch", "fetched", "reason", "object"}

\* The HP core rests, or is about to, while the LP core is busy.
BusyInv ==
  lpPc \in LpBusyPcs =>
    /\ hpPc \in {"sleep", "asleep"}
    /\ hpPc = "asleep" => ~wake
    /\ ack = 0

\* While the LP core waits unanswered the HP core serves this request, if any.
WaitInv ==
  LpWaits /\ ack = 0 =>
    /\ stopreason = lpWants
    /\ lpWants = TRANSFER =>
         /\ required_object = lpObject
         /\ hpPc \in {"sleep", "asleep", "awake", "dispatch", "translate",
                      "publishFrom", "publishTo", "ack"}
    /\ lpWants = COMPILE =>
         hpPc \in {"sleep", "asleep", "awake", "dispatch", "ackLast"}

\* Once it is answered the HP core does not go on before the LP core has.
LeaveInv ==
  /\ LpWaits /\ ack = 1 =>
       \/ lpWants = TRANSFER /\ hpPc = "sleep"
       \/ lpWants = COMPILE /\ hpPc \in {"receive", "start"}
  /\ lpPc \in {"clearAck", "clearReason"} => lpWants = TRANSFER /\ hpPc = "sleep"
  /\ lpPc = "clearReason" => ack = 0
  /\ lpPc \in {"halt", "halted"} =>
       lpWants = COMPILE /\ hpPc \in {"receive", "start"}

\* The object the LP core reads is one it was given.
ObjectInv ==
  /\ lpPc \in LpReadPcs \cup {"clearAck", "clearReason"} => lpObject \in known
  /\ LpWaits /\ lpWants = TRANSFER => lpObject \in known
  /\ lpPc = "object" => lpWants = TRANSFER /\ stopreason = TRANSFER

\* Every entry is right but the one being written.
TableInv ==
  /\ \A i \in Slots : \/ translation_table[i].from = NULL
                      \/ translation_table[i].to = translation_table[i].from
                      \/ hpPc = "publishTo" /\ i = transtable_itr
  /\ hpPc \in {"publishFrom", "publishTo"} => copy = required_object
  /\ hpPc = "publishTo" =>
       translation_table[transtable_itr].from = required_object
  /\ lpPc = "fetch" => translation_table[lpSlot].from = lpObject
  /\ lpPc = "fetched" => lpResult = lpObject

MailboxInv ==
  /\ TypeOK
  /\ BusyInv
  /\ WaitInv
  /\ LeaveInv
  /\ ObjectInv
  /\ TableInv

-----------------------------------------------------------------------------
USE MailboxAssumption DEF Slots, COMPILE, TRANSFER, NO_REASON, Entries

\* Both cores start in the invariant.
LEMMA MailboxInit == Init => MailboxInv
<1> SUFFICES ASSUME Init PROVE MailboxInv
  OBVIOUS
<1>1. 0 \in Slots /\ [from |-> NULL, to |-> NULL] \in Entries
  OBVIOUS
<1>2. TypeOK
  BY <1>1 DEF Init, TypeOK, HpPcs, LpPcs
<1> QED
  BY <1>2 DEF Init, MailboxInv, BusyInv, LpBusyPcs, WaitInv, LeaveInv, LpWaits,
              ObjectInv, LpReadPcs, TableInv

\* No step of the LP core breaks it.
LEMMA MailboxLpStep ==
  ASSUME MailboxInv, LpStep \/ LpProgram
  PROVE  MailboxInv'
<1> USE DEF MailboxInv, hp, mailbox, TypeOK, HpPcs, LpPcs, BusyInv, LpBusyPcs,
            WaitInv, LeaveInv, LpWaits, ObjectInv, LpReadPcs, TableInv
<1>1. CASE LpMain
  BY <1>1 DEF LpMain
<1>2. CASE LpTimer
  BY <1>2 DEF LpTimer
<1>3. CASE LpScan
  BY <1>3 DEF LpScan
<1>4. CASE LpFetch
  BY <1>4 DEF LpFetch
<1>5. CASE LpResume
  BY <1>5 DEF LpResume
<1>6. CASE LpSetReason
  BY <1>6 DEF LpSetReason
<1>7. CASE LpSetObject
  BY <1>7 DEF LpSetObject
<1>8. CASE LpWakeup
  BY <1>8 DEF LpWakeup
<1>9. CASE LpPoll
  BY <1>9 DEF LpPoll
<1>10. CASE LpClearAck
  BY <1>10 DEF LpClearAck
<1>11. CASE LpClearReason
  BY <1>11 DEF LpClearReason
<1>12. CASE LpHalt
  BY <1>12 DEF LpHalt
<1>13. CASE LpDelay
  BY <1>13 DEF LpDelay
<1>14. CASE LpFallback
  BY <1>14 DEF LpFallback
<1>15. ASSUME NEW o \in known, LpReadFail(o) PROVE MailboxInv'
  BY <1>15 DEF LpReadFail
<1> QED
  BY <1>1, <1>2, <1>3, <1>4, <1>5, <1>6, <1>7, <1>8, <1>9, <1>10, <1>11, <1>12,
     <1>13, <1>14, <1>15 DEF LpStep, LpProgram

\* No step of the HP core breaks it.
LEMMA MailboxHpStep ==
  ASSUME MailboxInv, Orderly, HpStep \/ HpProgram
  PROVE  MailboxInv'
<1> USE DEF MailboxInv, lp, mailbox, Orderly, LpLeaving, TypeOK, HpPcs, LpPcs,
            BusyInv, LpBusyPcs, WaitInv, LeaveInv, LpWaits, ObjectInv,
            LpReadPcs, TableInv
<1>1. CASE HpSleep
  BY <1>1 DEF HpSleep
<1>2. CASE HpWake
  BY <1>2 DEF HpWake
<1>3. CASE HpSeesReason
  BY <1>3 DEF HpSeesReason
<1>4. CASE HpDispatch
  BY <1>4 DEF HpDispatch
<1>5. CASE HpTranslate
  BY <1>5 DEF HpTranslate
<1>6. CASE HpPublishFrom
  BY <1>6 DEF HpPublishFrom
<1>7. CASE HpPublishTo
  BY <1>7 DEF HpPublishTo
<1>8. CASE HpAck
  BY <1>8 DEF HpAck
<1>9. CASE HpAckLast
  BY <1>9 DEF HpAckLast
<1>10. CASE HpReceive
  BY <1>10 DEF HpReceive
<1>11. ASSUME NEW objects \in SUBSET Objects, HpStart(objects) PROVE MailboxInv'
  BY <1>11 DEF HpStart
<1> QED
  BY <1>1, <1>2, <1>3, <1>4, <1>5, <1>6, <1>7, <1>8, <1>9, <1>10, <1>11
     DEF HpStep, HpProgram

\* The cores are always at steps of their programs, and the mailbox and the
\* table hold objects and answers of the right kind, also when a trigger is kept
\* or the LP core is slow to leave its wait.
THEOREM MailboxTypes == Spec => []TypeOK
<1>1. Init => TypeOK
  BY MailboxInit DEF MailboxInv
<1>2. TypeOK /\ [Next]_vars => TypeOK'
  <2> SUFFICES ASSUME TypeOK, [Next]_vars PROVE TypeOK'
    OBVIOUS
  <2> USE DEF TypeOK, HpPcs, LpPcs, mailbox, hp, lp
  <2>1. CASE LpMain \/ LpTimer \/ LpFetch \/ LpResume \/ LpSetReason \/ LpSetObject
    BY <2>1 DEF LpMain, LpTimer, LpFetch, LpResume, LpSetReason, LpSetObject
  <2>2. CASE LpScan
    BY <2>2 DEF LpScan
  <2>3. CASE LpPoll \/ LpClearAck \/ LpClearReason \/ LpHalt
    BY <2>3 DEF LpPoll, LpClearAck, LpClearReason, LpHalt
  <2>4. CASE LpWakeup
    BY <2>4 DEF LpWakeup
  <2>5. CASE LpProgram
    BY <2>5 DEF LpProgram, LpDelay, LpFallback, LpReadFail
  <2>6. CASE HpSleep
    <3>1. wake' \in BOOLEAN
      BY <2>6, Zenon DEF HpSleep
    <3>2. QED
      BY <2>6, <3>1 DEF HpSleep
  <2>7. CASE HpWake
    BY <2>7 DEF HpWake
  <2>8. CASE HpSeesReason \/ HpDispatch \/ HpTranslate \/ HpAck \/ HpAckLast \/ HpReceive
    BY <2>8 DEF HpSeesReason, HpDispatch, HpTranslate, HpAck, HpAckLast, HpReceive
  <2>9. CASE HpPublishFrom
    BY <2>9 DEF HpPublishFrom
  <2>10. CASE HpPublishTo
    <3>1. transtable_itr' \in Slots
      BY <2>10 DEF HpPublishTo
    <3>2. translation_table' \in [Slots -> Entries]
      BY <2>10 DEF HpPublishTo
    <3>3. QED
      BY <2>10, <3>1, <3>2 DEF HpPublishTo
  <2>11. CASE HpProgram
    BY <2>11 DEF HpProgram, HpStart
  <2>12. CASE UNCHANGED vars
    BY <2>12 DEF vars
  <2> QED
    BY <2>1, <2>2, <2>3, <2>4, <2>5, <2>6, <2>7, <2>8, <2>9, <2>10, <2>11, <2>12
       DEF Next, LpStep, HpStep
<1> QED
  BY <1>1, <1>2, PTL DEF Spec

\* The invariant holds in every reachable state.
THEOREM MailboxInvariant == ASSUME Orderly PROVE Spec => []MailboxInv
<1>1. MailboxInv /\ [Next]_vars => MailboxInv'
  <2> SUFFICES ASSUME MailboxInv, [Next]_vars PROVE MailboxInv'
    OBVIOUS
  <2>1. CASE LpStep \/ LpProgram
    BY <2>1, MailboxLpStep
  <2>2. CASE HpStep \/ HpProgram
    BY <2>2, MailboxHpStep
  <2>3. CASE UNCHANGED vars
    BY <2>3 DEF vars, mailbox, hp, lp, MailboxInv, TypeOK, BusyInv, WaitInv,
                LeaveInv, LpWaits, ObjectInv, TableInv
  <2> QED
    BY <2>1, <2>2, <2>3 DEF Next
<1> QED
  BY <1>1, MailboxInit, PTL DEF Spec

\* The read barrier never continues with the copy of another object, nor with
\* an entry of the table that is half written.
THEOREM TransfersAreRight == ASSUME Orderly PROVE Spec => []TransferIsRight
<1>1. MailboxInv => TransferIsRight
  BY DEF MailboxInv, TableInv, TransferIsRight
<1> QED
  BY <1>1, MailboxInvariant, PTL

\* Every ack answers a request that is pending.
THEOREM AcksAnswer == ASSUME Orderly PROVE Spec => AckAnswers
<1>1. MailboxInv /\ [Next]_vars => [ack = 0 /\ ack' = 1 => LpWaits]_vars
  <2> SUFFICES ASSUME MailboxInv, Next, ack = 0, ack' = 1 PROVE LpWaits
    OBVIOUS
  <2>1. hpPc \in {"ack", "ackLast"}
    BY DEF Next, LpStep, LpProgram, HpStep, HpProgram, mailbox, LpMain,
           LpTimer, LpScan, LpFetch, LpResume, LpSetReason, LpSetObject,
           LpWakeup, LpPoll, LpClearAck, LpClearReason, LpHalt, LpDelay,
           LpFallback, LpReadFail, HpSleep, HpWake, HpSeesReason, HpDispatch,
           HpTranslate, HpPublishFrom, HpPublishTo, HpAck, HpAckLast,
           HpReceive, HpStart
  <2> QED
    BY <2>1 DEF MailboxInv, TypeOK, LpPcs, BusyInv, LpBusyPcs, LeaveInv, LpWaits
<1> QED
  BY <1>1, MailboxInvariant, PTL DEF Spec, AckAnswers

-----------------------------------------------------------------------------
\* What holds when the LP core may be slow to leave its wait.

\* The HP core sleeps and nothing has woken it since it fell asleep.
Quiet == hpPc = "sleep" \/ (hpPc = "asleep" /\ ~wake)

\* The reason is that of the end of a run only when the program has stopped, or
\* has not begun, with the HP core asleep.
ReasonInv ==
  /\ LpInFallback => stopreason = COMPILE
  /\ lpPc \in {"halt", "halted"} => lpWants = COMPILE
  /\ lpPc = "object" => lpWants = TRANSFER
  /\ stopreason = COMPILE => LpInFallback \/ (lpPc = "main" /\ Quiet)
  /\ hpPc \in {"ackLast", "receive", "start"} => LpInFallback

\* The object asked for is one the HP core knows, unless it has yet to be woken
\* in this run or the run is about to end.
KnownInv ==
  /\ lpPc \in LpReadPcs \cup {"clearAck", "clearReason"} => lpObject \in known
  /\ LpWaits /\ lpWants = TRANSFER => lpObject \in known /\ required_object = lpObject
  /\ \/ required_object \in known
     \/ Quiet
     \/ LpInFallback /\ hpPc \in {"start", "asleep", "awake", "dispatch", "ackLast", "receive"}
  /\ hpPc # "stuck"

SlowInv == TypeOK /\ ReasonInv /\ KnownInv

\* It holds in every reachable state, however slow the LP core is.
THEOREM SlowInvariant == ASSUME WakeKept = FALSE PROVE Spec => []SlowInv
<1>1. Init => SlowInv
  BY MailboxInit DEF MailboxInv, Init, SlowInv, ReasonInv, KnownInv, LpInFallback,
                     LpWaits, LpReadPcs
<1>2. TypeOK /\ SlowInv /\ [Next]_vars => ReasonInv' /\ KnownInv'
  <2> SUFFICES ASSUME SlowInv, [Next]_vars PROVE ReasonInv' /\ KnownInv'
    OBVIOUS
  <2> USE DEF SlowInv, ReasonInv, KnownInv, TypeOK, HpPcs, LpPcs, mailbox, hp, lp, Quiet,
              LpInFallback, LpWaits, LpReadPcs
  <2>1. CASE LpMain \/ LpTimer \/ LpFetch \/ LpResume
    BY <2>1 DEF LpMain, LpTimer, LpFetch, LpResume
  <2>2. CASE LpScan
    BY <2>2 DEF LpScan
  <2>3. CASE LpSetReason
    BY <2>3 DEF LpSetReason
  <2>4. CASE LpSetObject
    BY <2>4 DEF LpSetObject
  <2>5. CASE LpWakeup
    BY <2>5 DEF LpWakeup
  <2>6. CASE LpPoll
    BY <2>6 DEF LpPoll
  <2>7. CASE LpClearAck \/ LpClearReason \/ LpHalt
    BY <2>7 DEF LpClearAck, LpClearReason, LpHalt
  <2>8. CASE LpProgram
    BY <2>8 DEF LpProgram, LpDelay, LpFallback, LpReadFail
  <2>9. CASE HpSleep
    BY <2>9 DEF HpSleep
  <2>10. CASE HpWake
    BY <2>10 DEF HpWake
  <2>11. CASE HpSeesReason \/ HpDispatch
    BY <2>11 DEF HpSeesReason, HpDispatch
  <2>12. CASE HpTranslate
    BY <2>12 DEF HpTranslate
  <2>13. CASE HpPublishFrom \/ HpPublishTo
    BY <2>13 DEF HpPublishFrom, HpPublishTo
  <2>14. CASE HpAck \/ HpAckLast \/ HpReceive
    BY <2>14 DEF HpAck, HpAckLast, HpReceive
  <2>15. CASE HpProgram
    BY <2>15 DEF HpProgram, HpStart
  <2>16. CASE UNCHANGED vars
    BY <2>16 DEF vars
  <2> QED
    BY <2>1, <2>2, <2>3, <2>5, <2>6, <2>7, <2>8, <2>9, <2>10, <2>11, <2>12, <2>13, <2>14,
       <2>15, <2>16, <2>4 DEF Next, LpStep, HpStep
<1> QED
  BY <1>1, <1>2, MailboxTypes, PTL DEF Spec, SlowInv

\* The HP core takes the program back only where the program has stopped for it,
\* also when the LP core is slow to see an answer.
THEOREM FinishesAtFallback ==
  ASSUME WakeKept = FALSE
  PROVE  Spec => []FinishedOnlyAtFallback
<1>1. SlowInv => FinishedOnlyAtFallback
  BY DEF SlowInv, ReasonInv, FinishedOnlyAtFallback
<1> QED
  BY <1>1, SlowInvariant, PTL

\* The HP core is asked only for objects it knows, also then.
THEOREM HpNeverStuck == ASSUME WakeKept = FALSE PROVE Spec => []HpKnowsObject
<1>1. SlowInv => HpKnowsObject
  BY DEF SlowInv, KnownInv, HpKnowsObject
<1> QED
  BY <1>1, SlowInvariant, PTL
=============================================================================
