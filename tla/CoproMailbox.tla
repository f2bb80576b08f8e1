---------------------------- MODULE CoproMailbox ----------------------------
(***************************************************************************)
(* The mailbox between the runtime on the LP core (rl/main/                *)
(* mrubycopro-runtime/main.c) and execute_on_ulp on the HP core (hal/esp32 *)
(* /copro/compile.c).  The words of the mailbox lie in LP memory, are      *)
(* written by both cores and have no lock; one action here is one access   *)
(* to one of them.                                                         *)
(*                                                                         *)
(* The LP program reads objects of the HP heap.  For one whose copy it     *)
(* does not find in the translation table (readfail) it stops with reason  *)
(* TRANSFER and the HP core, which sleeps meanwhile, makes the copy        *)
(* (mrbcopro_objman_to) and enters it in the table.  When it reaches code  *)
(* that is not compiled it stops with reason COMPILE (fallback_post), and  *)
(* the HP core takes the state of the program back.  A copy is represented *)
(* by the object it is a copy of.  debugout (reason 2) is not called by    *)
(* any generated code and is left out.                                     *)
(***************************************************************************)
EXTENDS Naturals

CONSTANTS Objects,   \* the objects of the HP heap the program may read
          NULL,
          TRANSLATION_TABLE_SIZE,
          WakeKept,  \* a trigger raised while the HP core is awake wakes it
                     \* from its next sleep
          PromptLp   \* the HP core takes longer to fall asleep, or to start
                     \* the LP core, than the LP core to see an ack and leave

ASSUME MailboxAssumption ==
  /\ NULL \notin Objects
  /\ TRANSLATION_TABLE_SIZE \in Nat \ {0}
  /\ WakeKept \in BOOLEAN
  /\ PromptLp \in BOOLEAN

COMPILE == 0
TRANSFER == 1
NO_REASON == 10

Slots == 0 .. TRANSLATION_TABLE_SIZE - 1
Entries == [from : Objects \cup {NULL}, to : Objects \cup {NULL}]

VARIABLES stopreason, ack, required_object, translation_table, \* the mailbox
          wake,           \* the wakeup trigger of the HP core
          hpPc, copy, transtable_itr,
          known,          \* the objects entered in the address table of the HP
          lpPc, lpWants, lpObject, lpResult, lpSlot

mailbox == <<stopreason, ack, required_object, translation_table>>
hp == <<hpPc, copy, transtable_itr, known>>
lp == <<lpPc, lpWants, lpObject, lpResult, lpSlot>>
vars == <<mailbox, wake, hp, lp>>

Init ==
  /\ stopreason = COMPILE /\ ack = 0 /\ required_object = NULL
  /\ translation_table = [i \in Slots |-> [from |-> NULL, to |-> NULL]]
  /\ wake = FALSE
  /\ hpPc = "start" /\ copy = NULL /\ transtable_itr = 0 /\ known = {}
  /\ lpPc = "halted" /\ lpWants = COMPILE
  /\ lpObject = NULL /\ lpResult = NULL /\ lpSlot = 0

(***************************************************************************)
(* The LP core.                                                            *)
(***************************************************************************)
\* main: run the program from entrypoint, its beginning or the end of a delay.
LpMain ==
  /\ lpPc = "main"
  /\ stopreason' = NO_REASON
  /\ lpPc' = "running"
  /\ UNCHANGED <<ack, required_object, translation_table, wake, hp,
                 lpWants, lpObject, lpResult, lpSlot>>

\* copro_delayUs: halt until the LP timer starts main again.
LpDelay ==
  /\ lpPc = "running"
  /\ lpPc' = "delay"
  /\ UNCHANGED <<mailbox, wake, hp, lpWants, lpObject, lpResult, lpSlot>>

LpTimer ==
  /\ lpPc = "delay"
  /\ lpPc' = "main"
  /\ UNCHANGED <<mailbox, wake, hp, lpWants, lpObject, lpResult, lpSlot>>

\* The read barrier has met the address of an object in the HP heap.
LpReadFail(o) ==
  /\ lpPc = "running"
  /\ lpObject' = o
  /\ lpSlot' = 0
  /\ lpPc' = "scan"
  /\ UNCHANGED <<mailbox, wake, hp, lpWants, lpResult>>

LpScan ==
  /\ lpPc = "scan"
  /\ IF translation_table[lpSlot].from = lpObject
       THEN lpPc' = "fetch" /\ lpSlot' = lpSlot
       ELSE IF lpSlot + 1 \in Slots
              THEN lpPc' = "scan" /\ lpSlot' = lpSlot + 1
              ELSE lpPc' = "reason" /\ lpSlot' = 0
  /\ UNCHANGED <<mailbox, wake, hp, lpWants, lpObject, lpResult>>

LpFetch ==
  /\ lpPc = "fetch"
  /\ lpResult' = translation_table[lpSlot].to
  /\ lpPc' = "fetched"
  /\ UNCHANGED <<mailbox, wake, hp, lpWants, lpObject, lpSlot>>

LpResume ==
  /\ lpPc = "fetched"
  /\ lpPc' = "running"
  /\ UNCHANGED <<mailbox, wake, hp, lpWants, lpObject, lpResult, lpSlot>>

LpSetReason ==
  /\ lpPc = "reason"
  /\ stopreason' = TRANSFER
  /\ lpWants' = TRANSFER
  /\ lpPc' = "object"
  /\ UNCHANGED <<ack, required_object, translation_table, wake, hp,
                 lpObject, lpResult, lpSlot>>

LpSetObject ==
  /\ lpPc = "object"
  /\ required_object' = lpObject
  /\ lpPc' = "wakeup"
  /\ UNCHANGED <<stopreason, ack, translation_table, wake, hp,
                 lpWants, lpObject, lpResult, lpSlot>>

\* Mutant of LpFallback: the reason is left as it was.
LpFallbackWithoutReason ==
  /\ lpPc = "running"
  /\ lpWants' = COMPILE
  /\ lpPc' = "wakeup"
  /\ UNCHANGED <<mailbox, wake, hp, lpObject, lpResult, lpSlot>>

\* fallback_post, up to the wait.
LpFallback ==
  /\ lpPc = "running"
  /\ stopreason' = COMPILE
  /\ lpWants' = COMPILE
  /\ lpPc' = "wakeup"
  /\ UNCHANGED <<ack, required_object, translation_table, wake, hp,
                 lpObject, lpResult, lpSlot>>

\* WAIT_FOR_PROCESSOR_WAKEUP
LpWakeup ==
  /\ lpPc = "wakeup"
  /\ wake' = TRUE
  /\ lpPc' = "poll"
  /\ UNCHANGED <<mailbox, hp, lpWants, lpObject, lpResult, lpSlot>>

\* Mutant of LpPoll: the program goes on after the last answer.
LpPollWithoutHalt ==
  /\ lpPc = "poll"
  /\ lpPc' = CASE ack = 0 -> "wakeup"
               [] ack # 0 /\ lpWants = TRANSFER -> "clearAck"
               [] OTHER -> "running"
  /\ UNCHANGED <<mailbox, wake, hp, lpWants, lpObject, lpResult, lpSlot>>

\* WAIT_FOR_PROCESSOR_WAKEUP, the test.
LpPoll ==
  /\ lpPc = "poll"
  /\ lpPc' = CASE ack = 0 -> "wakeup"
               [] ack # 0 /\ lpWants = TRANSFER -> "clearAck"
               [] OTHER -> "halt"
  /\ UNCHANGED <<mailbox, wake, hp, lpWants, lpObject, lpResult, lpSlot>>

LpClearAck ==
  /\ lpPc = "clearAck"
  /\ ack' = 0
  /\ lpPc' = "clearReason"
  /\ UNCHANGED <<stopreason, required_object, translation_table, wake, hp,
                 lpWants, lpObject, lpResult, lpSlot>>

LpClearReason ==
  /\ lpPc = "clearReason"
  /\ stopreason' = NO_REASON
  /\ lpPc' = "scan"
  /\ UNCHANGED <<ack, required_object, translation_table, wake, hp,
                 lpWants, lpObject, lpResult, lpSlot>>

LpHalt ==
  /\ lpPc = "halt"
  /\ lpPc' = "halted"
  /\ UNCHANGED <<mailbox, wake, hp, lpWants, lpObject, lpResult, lpSlot>>

(***************************************************************************)
(* The HP core.                                                            *)
(***************************************************************************)
\* The LP core has been answered and has still to see it and to leave.
LpLeaving ==
  \/ ack = 1 /\ lpPc \in {"wakeup", "poll"}
  \/ lpPc \in {"clearAck", "clearReason", "halt"}

\* From reenter to ulp_lp_core_run: the objects that the program can reach
\* are entered in the address table, the mailbox is reset, the LP core starts.
HpStart(objects) ==
  /\ hpPc = "start"
  /\ PromptLp => ~LpLeaving
  /\ known' = objects
  /\ translation_table' = [i \in Slots |-> [from |-> NULL, to |-> NULL]]
  /\ stopreason' = COMPILE
  /\ ack' = 0
  /\ lpPc' = IF lpPc = "halted" THEN "main" ELSE lpPc
  /\ hpPc' = "sleep"
  /\ UNCHANGED <<required_object, wake, copy, transtable_itr,
                 lpWants, lpObject, lpResult, lpSlot>>

\* esp_light_sleep_start, until the core sleeps.
HpSleep ==
  /\ hpPc = "sleep"
  /\ PromptLp => ~LpLeaving
  /\ wake' = (wake /\ WakeKept)
  /\ hpPc' = "asleep"
  /\ UNCHANGED <<mailbox, copy, transtable_itr, known, lp>>

HpWake ==
  /\ hpPc = "asleep"
  /\ wake
  /\ wake' = FALSE
  /\ hpPc' = "awake"
  /\ UNCHANGED <<mailbox, copy, transtable_itr, known, lp>>

\* while(ulp_stopreason == 10){}
HpSeesReason ==
  /\ hpPc = "awake"
  /\ stopreason # NO_REASON
  /\ hpPc' = "dispatch"
  /\ UNCHANGED <<mailbox, wake, copy, transtable_itr, known, lp>>

\* switch(ulp_stopreason)
HpDispatch ==
  /\ hpPc = "dispatch"
  /\ hpPc' = CASE stopreason = COMPILE -> "ackLast"
               [] stopreason = TRANSFER -> "translate"
               [] OTHER -> "ack"
  /\ UNCHANGED <<mailbox, wake, copy, transtable_itr, known, lp>>

\* mrbcopro_objman_to answers NULL for an object that is not in the address
\* table, and the HP core then waits for ever.
HpTranslate ==
  /\ hpPc = "translate"
  /\ IF required_object \in known
       THEN copy' = required_object /\ hpPc' = "publishFrom"
       ELSE copy' = NULL /\ hpPc' = "stuck"
  /\ UNCHANGED <<mailbox, wake, transtable_itr, known, lp>>

\* Mutant of HpPublishFrom: the answer is given before the entry is complete.
HpPublishFromAcks ==
  /\ hpPc = "publishFrom"
  /\ translation_table' =
       [translation_table EXCEPT ![transtable_itr].from = required_object]
  /\ ack' = 1
  /\ hpPc' = "publishTo"
  /\ UNCHANGED <<stopreason, required_object, wake, copy, transtable_itr,
                 known, lp>>

HpPublishFrom ==
  /\ hpPc = "publishFrom"
  /\ translation_table' =
       [translation_table EXCEPT ![transtable_itr].from = required_object]
  /\ hpPc' = "publishTo"
  /\ UNCHANGED <<stopreason, ack, required_object, wake, copy, transtable_itr,
                 known, lp>>

\* Mutant of HpPublishTo: the position in the table does not wrap.
HpPublishToNoWrap ==
  /\ hpPc = "publishTo"
  /\ translation_table' = [translation_table EXCEPT ![transtable_itr].to = copy]
  /\ transtable_itr' = transtable_itr + 1
  /\ hpPc' = "ack"
  /\ UNCHANGED <<stopreason, ack, required_object, wake, copy, known, lp>>

HpPublishTo ==
  /\ hpPc = "publishTo"
  /\ translation_table' = [translation_table EXCEPT ![transtable_itr].to = copy]
  /\ transtable_itr' = (transtable_itr + 1) % TRANSLATION_TABLE_SIZE
  /\ hpPc' = "ack"
  /\ UNCHANGED <<stopreason, ack, required_object, wake, copy, known, lp>>

\* Mutant of HpAck: the HP core sleeps again without an answer.
HpAckForgotten ==
  /\ hpPc = "ack"
  /\ hpPc' = "sleep"
  /\ UNCHANGED <<mailbox, wake, copy, transtable_itr, known, lp>>

HpAck ==
  /\ hpPc = "ack"
  /\ ack' = 1
  /\ hpPc' = "sleep"
  /\ UNCHANGED <<stopreason, required_object, translation_table, wake, copy,
                 transtable_itr, known, lp>>

HpAckLast ==
  /\ hpPc = "ackLast"
  /\ ack' = 1
  /\ hpPc' = "receive"
  /\ UNCHANGED <<stopreason, required_object, translation_table, wake, copy,
                 transtable_itr, known, lp>>

\* The objects, the globals and the stack come back; objman_cleanup empties
\* the address table; the code that was missing is compiled.
HpReceive ==
  /\ hpPc = "receive"
  /\ known' = {}
  /\ hpPc' = "start"
  /\ UNCHANGED <<mailbox, wake, copy, transtable_itr, lp>>

-----------------------------------------------------------------------------
LpStep ==
  \/ LpMain \/ LpTimer \/ LpScan \/ LpFetch \/ LpResume
  \/ LpSetReason \/ LpSetObject \/ LpWakeup \/ LpPoll
  \/ LpClearAck \/ LpClearReason \/ LpHalt

\* What the program does next is its own choice.
LpProgram == LpDelay \/ LpFallback \/ \E o \in known : LpReadFail(o)

HpStep ==
  \/ HpSleep \/ HpWake \/ HpSeesReason \/ HpDispatch \/ HpTranslate
  \/ HpPublishFrom \/ HpPublishTo \/ HpAck \/ HpAckLast \/ HpReceive

\* Whether and when the LP core is used again is the HP program's choice.
HpProgram == \E objects \in SUBSET Objects : HpStart(objects)

Next == LpStep \/ LpProgram \/ HpStep \/ HpProgram

Spec == Init /\ [][Next]_vars

\* Both cores run; the program may compute for ever.
FairSpec == Spec /\ WF_vars(LpStep) /\ WF_vars(HpStep)

-----------------------------------------------------------------------------
LpPcs == {"halted", "main", "running", "delay", "scan", "fetch", "fetched",
          "reason", "object", "wakeup", "poll", "clearAck", "clearReason",
          "halt"}
HpPcs == {"start", "sleep", "asleep", "awake", "dispatch", "translate",
          "publishFrom", "publishTo", "ack", "ackLast", "receive", "stuck"}

TypeOK ==
  /\ stopreason \in {COMPILE, TRANSFER, NO_REASON}
  /\ ack \in {0, 1}
  /\ required_object \in Objects \cup {NULL}
  /\ translation_table \in [Slots -> Entries]
  /\ wake \in BOOLEAN
  /\ hpPc \in HpPcs
  /\ copy \in Objects \cup {NULL}
  /\ transtable_itr \in Slots
  /\ known \subseteq Objects
  /\ lpPc \in LpPcs
  /\ lpWants \in {COMPILE, TRANSFER}
  /\ lpObject \in Objects \cup {NULL}
  /\ lpResult \in Objects \cup {NULL}
  /\ lpSlot \in Slots

LpWaits == lpPc \in {"wakeup", "poll"}
LpInFallback == lpWants = COMPILE /\ (LpWaits \/ lpPc \in {"halt", "halted"})

\* The copy the read barrier continues with is a copy of the object it read.
TransferIsRight == lpPc = "fetched" => lpResult = lpObject

\* The HP core takes objects, globals and stack back only from a program that
\* has stopped for it.
FinishedOnlyAtFallback == hpPc = "receive" => LpInFallback

\* The HP core is never asked for an object it does not know.
HpKnowsObject == hpPc # "stuck"

\* An ack is the answer to a request that is pending.
AckAnswers == [][ack = 0 /\ ack' = 1 => LpWaits]_vars

\* A read of an object ends, and a program that falls back is taken back.
ReadsEnd == lpPc = "scan" ~> lpPc = "fetched"
FallbackIsTaken ==
  (lpPc = "wakeup" /\ lpWants = COMPILE /\ ack = 0) ~> hpPc = "receive"
=============================================================================
