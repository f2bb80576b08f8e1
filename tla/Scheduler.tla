----------------------------- MODULE Scheduler -----------------------------
(***************************************************************************)
(* The task scheduler of mruby/c (rrt0.c) on one core: mrbc_run, the tick  *)
(* of the timer, and the methods of Task and Mutex that the running task   *)
(* calls.  A task is in one of four queues, which its state names; a queue *)
(* is sorted by priority, smallest number first, and equals come in the    *)
(* order of their arrival.                                                 *)
(*                                                                         *)
(* There are two builds.  With a timer (rm) mrbc_tick is an interrupt that *)
(* may come between any two statements outside of hal_disable_irq; without *)
(* (rl, MRBC_NO_TIMER) mrbc_run calls it itself and the virtual machine    *)
(* returns after each instruction.                                         *)
(*                                                                         *)
(* Times are kept as their distance from tick_, which is all the code      *)
(* looks at; a time that has passed is -1.                                 *)
(***************************************************************************)
EXTENDS Integers, FiniteSets, SequencesExt

CONSTANTS
  Task,          \* the tasks there may ever be
  Main,          \* the one the application starts with
  Mutex,
  Priorities,    \* 0 .. 255, a smaller number is run first
  SLICE,         \* MRBC_TIMESLICE_TICK_COUNT
  BYTE,          \* 256, timeslice is a byte
  HORIZON,       \* 1 << 16, ticks after which the waiting queue is looked at
  MaxDelay,      \* bound of the model: ticks a task sleeps
  NONE

ASSUME SchedulerAssumption ==
  /\ Main \in Task
  /\ Priorities \subseteq Nat /\ Priorities # {}
  /\ BYTE \in Nat /\ SLICE \in 1 .. BYTE - 1
  /\ HORIZON \in Nat
  /\ MaxDelay \in Nat
  /\ NONE \notin Task

VARIABLES
  timer,     \* which build
  queue,     \* task_queue_
  tcb,       \* the control blocks
  owner,     \* tcb of each mutex, NONE when lock is 0
  rescan,    \* wakeup_tick_ - tick_
  waking,    \* tasks that the tick still has to make ready
  pc,        \* where mrbc_run is; "vm" is inside mrbc_vm_run
  cur,       \* tcb of mrbc_run
  scan,      \* tcb1 of mrbc_run; the task mrbc_change_priority moves
  ret        \* whether mrbc_vm_run returned because the task has ended

vars == <<timer, queue, tcb, owner, rescan, waking, pc, cur, scan, ret>>

States == {"dormant", "ready", "running", "waiting", "suspended"}
Queues == States \ {"running"}
Where  == {"loop", "empty", "start", "vm", "prio", "vret", "tick", "switch",
           "join", "exit", "abort"}

-----------------------------------------------------------------------------
\* The queues.

\* conv_tbl.
QueueOf(s) == IF s = "running" THEN "ready" ELSE s

\* Mutant of Inserted: a task comes before its equals.
InsertedFirst(q, t, prio) ==
  LET i == SelectInSeq(q, LAMBDA u : prio[t] <= prio[u])
  IN  InsertAt(q, IF i = 0 THEN Len(q) + 1 ELSE i, t)

\* A sorted queue q with t, before the first task that comes after it.
Inserted(q, t, prio) ==
  LET i == SelectInSeq(q, LAMBDA u : prio[t] < prio[u])
  IN  InsertAt(q, IF i = 0 THEN Len(q) + 1 ELSE i, t)

Prio == [t \in Task |-> tcb[t].prio]

\* Mutant of Moved: the state is changed before q_delete_task.
MovedLate(q, t, to) == [q EXCEPT ![QueueOf(to)] = Inserted(RemoveFirst(@, t), t, Prio)]

\* q_delete_task, then q_insert_task with the state to.
Moved(q, t, to) ==
  LET without == [q EXCEPT ![QueueOf(tcb[t].state)] = RemoveFirst(@, t)]
  IN  [without EXCEPT ![QueueOf(to)] = Inserted(@, t, Prio)]

\* next of a task.
After(q, t) ==
  LET s == q[CHOOSE n \in Queues : t \in Range(q[n])]
      i == SelectInSeq(s, LAMBDA u : u = t)
  IN  IF i = Len(s) THEN NONE ELSE s[i + 1]

First(s) == IF s = <<>> THEN NONE ELSE Head(s)

\* What nobody reads any more, of a task that does not wait, is not kept.
Freed(b, s) ==
  [state |-> s, reason |-> "none", due |-> 0, on |-> NONE, joins |-> NONE,
   prio |-> b.prio, slice |-> b.slice, flag |-> b.flag, raised |-> b.raised]

\* The running task begins to wait, for a reason r.
Waiting(b, r) == [b EXCEPT !.state = "waiting", !.reason = r, !.flag = TRUE]

Woken(b) == Freed(b, "ready")

\* preempt_running_task, for control blocks B.
Preempted(B) == [t \in Task |-> [B[t] EXCEPT !.flag = @ \/ B[t].state = "running"]]

Sleeping(t) == tcb[t].reason = "sleep"

-----------------------------------------------------------------------------
\* The tick.

\* Time after a tick.
Aged(n) == IF n < 0 THEN n ELSE n - 1

\* Mutant of Sliced: a slice that is used up is not looked at.
SlicedAlways(t) ==
  LET b == tcb[t]
  IN  IF t = First(queue["ready"])
      THEN [b EXCEPT !.slice = @ - 1, !.flag = @ \/ b.slice = 1] ELSE b

\* The time slice of the first ready task.
Sliced(t) ==
  LET b == tcb[t]
  IN  IF t = First(queue["ready"]) /\ b.slice # 0
      THEN [b EXCEPT !.slice = @ - 1, !.flag = @ \/ b.slice = 1] ELSE b

\* Mutant of NextScan: those that go on sleeping are not looked at.
NextScanFar(left) == HORIZON

\* wakeup_tick_ after the waiting queue was looked at, with the times left of
\* those that go on sleeping.
NextScan(left) == Min({HORIZON} \cup left)

\* Mutants of DueAt: a task is woken in the tick before; only in its tick.
DueEarly(n) == n <= 0
DueExactly(n) == n = 0

DueAt(n) == n < 0

\* mrbc_tick, up to the tasks it has to wake.
TickEffect ==
  LET older(b) == IF b.reason = "sleep" THEN [b EXCEPT !.due = Aged(@)] ELSE b
      now == [t \in Task |-> older(Sliced(t))]
      sleepers == {t \in Range(queue["waiting"]) : Sleeping(t)}
      due == {t \in sleepers : DueAt(now[t].due)}
  IN  /\ tcb' = now
      /\ IF rescan - 1 < 0
         THEN waking' = due /\ rescan' = NextScan({now[t].due : t \in sleepers \ due})
         ELSE waking' = {} /\ rescan' = rescan - 1
      /\ UNCHANGED queue

\* And the first of them in the queue; interrupts are disabled until none is left.
Wake ==
  LET q == queue["waiting"]
      t == q[SelectInSeq(q, LAMBDA u : u \in waking)]
  IN  /\ waking # {}
      /\ queue' = Moved(queue, t, "ready")
      /\ tcb' = Preempted([tcb EXCEPT ![t] = Woken(@)])
      /\ waking' = waking \ {t}
      /\ UNCHANGED <<timer, owner, rescan, pc, cur, scan, ret>>

Interrupt ==
  /\ timer
  /\ TickEffect
  /\ UNCHANGED <<timer, owner, pc, cur, scan, ret>>

-----------------------------------------------------------------------------
\* mrbc_run.

Init ==
  /\ timer \in BOOLEAN
  /\ queue = [n \in Queues |-> IF n = "ready" THEN <<Main>> ELSE <<>>]
  /\ tcb = [t \in Task |->
       [state |-> IF t = Main THEN "ready" ELSE "none", reason |-> "none",
        due |-> 0, on |-> NONE, joins |-> NONE,
        prio |-> Min(Priorities), slice |-> 0, flag |-> FALSE, raised |-> FALSE]]
  /\ owner = [m \in Mutex |-> NONE]
  /\ rescan = HORIZON /\ waking = {}
  /\ pc = "loop" /\ cur = NONE /\ scan = NONE /\ ret = FALSE

\* q_ready_ is read.
Choose ==
  /\ pc = "loop"
  /\ cur' = First(queue["ready"])
  /\ pc' = IF cur' = NONE THEN "empty" ELSE "start"
  /\ UNCHANGED <<timer, waking, queue, tcb, owner, rescan, scan, ret>>

\* No task is ready: the end, or hal_idle_cpu.
Exit ==
  /\ pc = "empty" /\ queue["waiting"] = <<>> /\ queue["suspended"] = <<>>
  /\ pc' = "exit"
  /\ UNCHANGED <<timer, waking, queue, tcb, owner, rescan, cur, scan, ret>>

Idle ==
  /\ pc = "empty" /\ \E n \in {"waiting", "suspended"} : queue[n] # <<>>
  /\ pc' = "loop"
  /\ IF timer THEN UNCHANGED <<queue, tcb, rescan, waking>> ELSE TickEffect
  /\ UNCHANGED <<timer, owner, cur, scan, ret>>

Start ==
  /\ pc = "start"
  /\ tcb' = [tcb EXCEPT ![cur].state = "running", ![cur].slice = SLICE,
                        ![cur].flag = @ \/ ~timer]
  /\ pc' = "vm" /\ ret' = FALSE
  /\ UNCHANGED <<timer, waking, queue, owner, rescan, cur, scan>>

\* mrbc_vm_run returns.  With a timer flag_preemption is cleared.
Returned ==
  /\ IF timer
     THEN /\ tcb' = [tcb EXCEPT ![cur].flag = FALSE]
          /\ pc' = "switch"
     ELSE LET slice == (tcb[cur].slice + BYTE - 1) % BYTE
          IN  /\ tcb' = [tcb EXCEPT ![cur].slice = slice]
              /\ pc' = IF ~ret' /\ tcb[cur].state = "running" /\ slice # 0
                       THEN "vm" ELSE "tick"
  /\ UNCHANGED <<timer, waking, queue, owner, rescan, cur, scan>>

Return ==
  /\ pc = "vret" /\ ~tcb[cur].raised
  /\ ret' = FALSE
  /\ Returned

\* OP_STOP, or an exception no handler takes.
End ==
  /\ pc \in {"vm", "vret"}
  /\ pc = "vret" => tcb[cur].raised
  /\ ret' = TRUE
  /\ Returned

Tick ==
  /\ pc = "tick"
  /\ TickEffect
  /\ pc' = "switch"
  /\ UNCHANGED <<timer, owner, cur, scan, ret>>

\* To the end of its queue, when it has not been put in another one.
Switch ==
  /\ pc = "switch" /\ ~ret
  /\ IF tcb[cur].state = "running"
     THEN /\ tcb' = [tcb EXCEPT ![cur].state = "ready"]
          /\ queue' = Moved(queue, cur, "ready")
     ELSE UNCHANGED <<tcb, queue>>
  /\ pc' = "loop" /\ cur' = NONE
  /\ UNCHANGED <<timer, waking, owner, rescan, scan, ret>>

Done ==
  /\ pc = "switch" /\ ret
  /\ tcb' = [tcb EXCEPT ![cur] = Freed(@, "dormant")]
  /\ queue' = Moved(queue, cur, "dormant")
  /\ scan' = First(queue'["waiting"])
  /\ pc' = "join" /\ ret' = FALSE
  /\ UNCHANGED <<timer, waking, owner, rescan, cur>>

\* Mutant of JoinsCur: any task that joined one is released.
JoinsAny(t) == tcb[t].reason = "join"

JoinsCur(t) == tcb[t].reason = "join" /\ tcb[t].joins = cur

\* The search for tasks that joined goes on with next of the task looked at,
\* whatever queue that is in by now.
Release ==
  /\ pc = "join" /\ scan # NONE
  /\ IF JoinsCur(scan)
     THEN /\ tcb' = [tcb EXCEPT ![scan] = Woken(@)]
          /\ queue' = Moved(queue, scan, "ready")
     ELSE UNCHANGED <<tcb, queue>>
  /\ scan' = After(queue', scan)
  /\ UNCHANGED <<timer, waking, owner, rescan, pc, cur, ret>>

ReleaseSuspended ==
  /\ pc = "join" /\ scan = NONE
  /\ tcb' = [t \in Task |->
       IF t \in Range(queue["suspended"]) /\ JoinsCur(t)
       THEN Freed(tcb[t], "suspended") ELSE tcb[t]]
  /\ pc' = "loop" /\ cur' = NONE
  /\ UNCHANGED <<timer, waking, queue, owner, rescan, scan, ret>>

-----------------------------------------------------------------------------
\* What the running task does: one instruction, after which the virtual
\* machine looks at flag_preemption.

Running == pc = "vm"

Instruction ==
  /\ pc' = IF tcb'[cur].flag THEN "vret" ELSE "vm"
  /\ UNCHANGED <<timer, waking, cur, scan, ret>>

\* Bounds of the model: programs do not suspend a dormant task, and the first
\* instruction of a task with an exception pending, which is run before the
\* virtual machine looks for a handler, is not one that blocks the task.
Blocks == Running /\ ~tcb[cur].raised

Exists(u) == tcb[u].state # "none"

Compute ==
  /\ Running
  /\ UNCHANGED <<queue, tcb, owner, rescan>>
  /\ Instruction

\* A handler of the task takes the exception.
Rescue ==
  /\ pc = "vret" /\ tcb[cur].raised
  /\ tcb' = [tcb EXCEPT ![cur].flag = FALSE, ![cur].raised = FALSE]
  /\ pc' = "vm"
  /\ UNCHANGED <<timer, waking, queue, owner, rescan, cur, scan, ret>>

SleepScan(n) == IF n < rescan THEN n ELSE rescan

SleepMs(n) ==
  /\ Blocks
  /\ queue' = Moved(queue, cur, "waiting")
  /\ tcb' = [tcb EXCEPT ![cur] = [Waiting(@, "sleep") EXCEPT !.due = n]]
  /\ rescan' = SleepScan(n)
  /\ UNCHANGED owner /\ Instruction

Pass ==
  /\ Running
  /\ tcb' = [tcb EXCEPT ![cur].slice = 0, ![cur].flag = TRUE]
  /\ UNCHANGED <<queue, owner, rescan>> /\ Instruction

\* The priority is changed with interrupts enabled, before the task is moved.
SetPriority(u, p) ==
  /\ Running /\ Exists(u)
  /\ tcb' = [tcb EXCEPT ![u].prio = p]
  /\ scan' = u /\ pc' = "prio"
  /\ UNCHANGED <<timer, waking, queue, owner, rescan, cur, ret>>

Reorder ==
  /\ pc = "prio"
  /\ queue' = Moved(queue, scan, tcb[scan].state)
  /\ tcb' = IF tcb[scan].state \in {"ready", "running"} THEN Preempted(tcb) ELSE tcb
  /\ pc' = IF tcb'[cur].flag THEN "vret" ELSE "vm"
  /\ scan' = NONE
  /\ UNCHANGED <<timer, waking, owner, rescan, cur, ret>>

Suspend(u) ==
  /\ IF u = cur THEN Blocks ELSE Running
  /\ Exists(u) /\ tcb[u].state # "suspended"
  /\ tcb[u].state # "dormant"
  /\ queue' = Moved(queue, u, "suspended")
  /\ tcb' = [tcb EXCEPT ![u].state = "suspended", ![u].flag = TRUE]
  /\ UNCHANGED <<owner, rescan>> /\ Instruction

ResumeScan(u) == IF Sleeping(u) /\ tcb[u].due < rescan THEN tcb[u].due ELSE rescan

Resume(u) ==
  LET to == IF tcb[u].reason = "none" THEN "ready" ELSE "waiting"
      B  == IF to = "ready" THEN Preempted(tcb) ELSE tcb
  IN  /\ Running
      /\ tcb[u].state = "suspended"
      /\ queue' = Moved(queue, u, to)
      /\ tcb' = [B EXCEPT ![u].state = to]
      /\ rescan' = ResumeScan(u)
      /\ UNCHANGED owner /\ Instruction

Terminate(u) ==
  /\ IF u = cur THEN Blocks ELSE Running
  /\ Exists(u) /\ tcb[u].state # "dormant"
  /\ queue' = Moved(queue, u, "dormant")
  /\ tcb' = [tcb EXCEPT ![u] = [Freed(@, "dormant") EXCEPT !.flag = TRUE]]
  /\ UNCHANGED <<owner, rescan>> /\ Instruction

\* task.raise, also of the task itself; it ends the sleep of a task.
Raise(u) ==
  LET B == [tcb EXCEPT ![u].raised = TRUE, ![u].flag = TRUE]
      wakes == tcb[u].state = "waiting" /\ Sleeping(u)
  IN  /\ Running
      /\ Exists(u)
      /\ tcb' = IF wakes THEN [B EXCEPT ![u] = Woken(@)] ELSE B
      /\ queue' = IF wakes THEN Moved(queue, u, "ready") ELSE queue
      /\ rescan' = IF wakes
                   THEN Min({rescan} \cup {tcb[t].due :
                              t \in {s \in Range(queue'["waiting"]) : Sleeping(s)}})
                   ELSE rescan
      /\ UNCHANGED owner /\ Instruction

Join(u) ==
  /\ Blocks
  /\ tcb[u].state \notin {"none", "dormant"}
  /\ queue' = Moved(queue, cur, "waiting")
  /\ tcb' = [tcb EXCEPT ![cur] = [Waiting(@, "join") EXCEPT !.joins = u]]
  /\ UNCHANGED <<owner, rescan>> /\ Instruction

Create(u) ==
  /\ Running
  /\ ~Exists(u)
  /\ tcb' = [tcb EXCEPT ![u].state = "dormant"]
  /\ queue' = [queue EXCEPT !["dormant"] = Inserted(@, u, Prio)]
  /\ UNCHANGED <<owner, rescan>> /\ Instruction

Run(u) ==
  /\ Running
  /\ tcb[u].state = "dormant"
  /\ tcb' = [Preempted(tcb) EXCEPT ![u] = Woken(@)]
  /\ queue' = Moved(queue, u, "ready")
  /\ UNCHANGED <<owner, rescan>> /\ Instruction

Rewind(u) ==
  /\ Running
  /\ tcb[u].state = "dormant"
  /\ tcb' = [tcb EXCEPT ![u].flag = FALSE, ![u].raised = FALSE]
  /\ UNCHANGED <<queue, owner, rescan>> /\ Instruction

Lock(m) ==
  /\ Blocks
  /\ IF owner[m] = NONE
     THEN owner' = [owner EXCEPT ![m] = cur] /\ UNCHANGED <<queue, tcb>>
     ELSE /\ owner[m] # cur
          /\ queue' = Moved(queue, cur, "waiting")
          /\ tcb' = [tcb EXCEPT ![cur] = [Waiting(@, "mutex") EXCEPT !.on = m]]
          /\ UNCHANGED owner
  /\ UNCHANGED rescan /\ Instruction

TryLock(m) ==
  /\ Running
  /\ owner' = [owner EXCEPT ![m] = IF @ = NONE THEN cur ELSE @]
  /\ UNCHANGED <<queue, tcb, rescan>> /\ Instruction

\* The first task of a queue that waits for m.
Waiter(m, n) ==
  LET i == SelectInSeq(queue[n], LAMBDA t : tcb[t].reason = "mutex" /\ tcb[t].on = m)
  IN  IF i = 0 THEN NONE ELSE queue[n][i]

\* Mutant of SuspendedWaiter: tasks in the suspended queue are not looked for.
NoSuspendedWaiter(m) == NONE

SuspendedWaiter(m) == Waiter(m, "suspended")

\* The mutex goes to the first that waits, or to the first suspended one.
Unlock(m) ==
  LET w == Waiter(m, "waiting")
      s == SuspendedWaiter(m)
  IN  /\ Running
      /\ owner[m] = cur
      /\ owner' = [owner EXCEPT ![m] = IF w # NONE THEN w ELSE s]
      /\ IF w # NONE
         THEN /\ queue' = Moved(queue, w, "ready")
              /\ tcb' = Preempted([tcb EXCEPT ![w] = Woken(@)])
         ELSE /\ UNCHANGED queue
              /\ tcb' = IF s = NONE THEN tcb ELSE [tcb EXCEPT ![s] = Freed(@, "suspended")]
      /\ UNCHANGED rescan /\ Instruction

\* Locking a mutex twice, or unlocking one that is not owned: an assertion.
Abort(m) ==
  /\ Running
  /\ pc' = "abort"
  /\ UNCHANGED <<timer, waking, queue, tcb, owner, rescan, cur, scan, ret>>

Calls ==
  \/ \E n \in 0 .. MaxDelay : SleepMs(n)
  \/ Pass
  \/ \E u \in Task :
       \/ \E p \in Priorities : SetPriority(u, p)
       \/ Suspend(u) \/ Resume(u) \/ Terminate(u) \/ Raise(u)
       \/ Join(u) \/ Create(u) \/ Run(u) \/ Rewind(u)
  \/ \E m \in Mutex : Lock(m) \/ TryLock(m) \/ Unlock(m) \/ Abort(m)
  \/ Reorder

Schedules ==
  Choose \/ Exit \/ Idle \/ Start \/ Return \/ Tick \/ Switch \/ Done
    \/ Release \/ ReleaseSuspended

Next ==
  \/ Wake
  \/ waking = {} /\ (Interrupt \/ Schedules \/ Calls \/ Compute \/ Rescue \/ End)

Spec == Init /\ [][Next]_vars

\* The timer ticks, and mrbc_run goes on when it is not in the virtual machine.
FairSpec == Spec /\ WF_vars(Wake) /\ WF_vars(Interrupt) /\ WF_vars(Schedules)
-----------------------------------------------------------------------------
Tcb == [state : States \cup {"none"}, reason : {"none", "sleep", "mutex", "join"},
        due : -1 .. MaxDelay, on : Mutex \cup {NONE},
        joins : Task \cup {NONE}, prio : Priorities, slice : 0 .. BYTE - 1,
        flag : BOOLEAN, raised : BOOLEAN]

\* The types of the variables.
TypeOK ==
  /\ timer \in BOOLEAN
  /\ queue \in [Queues -> Seq(Task)]
  /\ tcb \in [Task -> Tcb]
  /\ owner \in [Mutex -> Task \cup {NONE}]
  /\ rescan \in -1 .. HORIZON
  /\ waking \subseteq Task
  /\ pc \in Where
  /\ {cur, scan} \subseteq Task \cup {NONE}
  /\ ret \in BOOLEAN

\* A task is in the queue its state names, once, and in no other:
\* q_delete_task never fails to find it.
QueuesMatch ==
  \A n \in Queues :
    /\ IsInjective(queue[n])
    /\ Range(queue[n]) = {t \in Task : QueueOf(tcb[t].state) = n}

Waits(t) == tcb[t].state \in {"waiting", "suspended"}

\* A task that waits for a mutex waits for another task to unlock it: the
\* mutex is never left free, or given to nobody, with a task in its queue.
WaiterHasOwner ==
  \A t \in Task :
    Waits(t) /\ tcb[t].reason = "mutex" => owner[tcb[t].on] \notin {NONE, t}

\* A task waits for the one it joined until that has ended, or it is
\* terminated itself; and no longer, if it is suspended when that ends:
\* mrbc_run lets it go then, so that it is ready when it is resumed.
JoinIsKept ==
  [][/\ \A t \in Task :
          /\ Waits(t) /\ tcb[t].reason = "join"
          /\ tcb'[t].reason # "join" /\ tcb'[t].state # "dormant"
          => tcb[tcb[t].joins].state = "dormant"
     /\ pc = "join" /\ pc' = "loop" =>
          \A t \in Task :
            tcb'[t].state = "suspended" /\ tcb'[t].reason = "join" =>
              tcb'[t].joins # cur]_vars

\* The waiting queue is looked at, at the latest, in the tick in which the
\* first task that sleeps in it is due: every call that puts a sleeping task
\* there, and every look at the queue, keeps wakeup_tick_ no later than that.
WakeupInTime ==
  \A t \in Task :
    tcb[t].state = "waiting" /\ Sleeping(t) /\ t \notin waking =>
      rescan <= tcb[t].due

\* A task does not wake before its time, unless an exception is raised in it.
SleepIsLongEnough ==
  [][\A t \in Task :
       /\ tcb[t].state = "waiting" /\ Sleeping(t)
       /\ tcb'[t].state = "ready" /\ ~tcb'[t].raised
       => tcb[t].due < 0]_vars

\* As long as the virtual machine returns to mrbc_run, a ready task of the
\* first priority gets its turn.
ReadyRuns ==
  []<>(pc = "loop") =>
    \A t \in Task :
      LET first == tcb[t].state = "ready" /\ tcb[t].prio = Min(Priorities)
      IN  first ~> ~first

\* And a task does not sleep for ever.
SleepersWake ==
  []<>(pc = "loop") =>
    \A t \in Task :
      LET asleep == tcb[t].state = "waiting" /\ Sleeping(t)
      IN  asleep ~> ~asleep

\* When a task has ended no task is left that waits for it: the loop after the
\* comment "find task that called join" finds them all.
JoinersReleased ==
  [][pc = "join" /\ pc' = "loop" =>
       \A t \in Task : tcb'[t].reason = "join" => tcb'[t].joins # cur]_vars
=============================================================================
