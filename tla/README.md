# Verification of pedometer_new

TLA+ modules for the pedometer programs of this repository and for the mruby
coprocessor runtime two of them are written for; TLC runs that check the modules
on small instances; and theorems about them that TLAPS proves for every value of
the constants. `PROJECT.json` lists the components, the runs, for every
definition the source lines it models, the hazards the properties are aimed at,
and the theorems.

To repeat a run: `tlc -config ClPedometer.cfg ClPedometer`; a proof:
`tlapm ClPedometerProofs.tla`.

## The system

One ESP32-C6 with two cores, the main one (HP) and a low-power coprocessor
(LP), runs the same sensor applications in four builds:

| build | language | where the sensor loop runs |
|---|---|---|
| `cm` | C | HP core, a delay between two samples |
| `cl` | C | LP core, HP core in deep sleep until a batch is complete |
| `rm` | mruby/c | HP core |
| `rl` | mruby/c | compiled at run time to machine code for the LP core (`Copro.sleep_and_run`), HP core in light sleep |

The pedometer is the application the repository is about; `gather_sht30`,
`gps_acc`, `tof`, `breathingled` and `sense_sht30` are smaller sensor loops used
to compare power consumption.

### Inventory

| component | where | state | operations | how it interacts |
|---|---|---|---|---|
| step detector | `step_algorithm_an2554` (`cm`, `cl`), `Pedometer#step` (`rl`, `rm`) | moving-average ring and sum, 17-sample window, threshold ring, peak/valley state, step counters | one call per sample | called by every main loop |
| `cl` duty cycle | `cl/pedometer/main/main.c`, `.../ulp/main.c`, `cl/misc.c`, `cl/sleep.S` | `shared_buffer`, `write_index`, `mrbc_sp_bottom`, RTC variables, the log | LP: measure, delay, hand over; HP: first boot, process, log, run LP, sleep | shared LP memory, wakeups of either core by the other |
| `cm` main loop | `cm/pedometer/main/main.c` | `sample_count`, `time_ms`, the open log | read, step, delay, log | calls the detector and the I2C driver |
| `cm` I2C driver | same file, lines 26-292 | command list and FIFOs of the LP I2C controller | write-read of a device | polls the interrupt bits of the controller |
| `rm`, `rl` main loops | `*/main/pedometer.rb`, `*/main/main.c` | arrays, `time_ms`, the log | as `cm`, in Ruby; `rl` reads in the block of `sleep_and_run` | detector, Spiffs class, in `rl` the LP runtime |
| LP runtime: mailbox | `rl/main/mrubycopro-runtime/main.c`, `hal/esp32/copro/compile.c` | `stopreason`, `ack`, `required_object`, `translation_table`, the wakeup trigger | start, delay, read of an HP object, fallback; serve, receive | words in LP memory that both cores write, no lock |
| LP runtime: heap | `rl/main/mrubycopro-runtime/gc.c`, `hal/esp32/copro/gc.copro.c`, `objman.c`, `globalman.c` | used, start, frozen and marked bitmaps | allocate and collect, on either core; empty | both cores allocate in it; copies of HP objects live in it |
| object manager, address table, class and global tables | `hal/esp32/copro` | which HP object has which copy | copy there, copy back | heap, mailbox, stack transfer |
| stack transfer, `Copro` class | `hal/esp32/copro/stack.c`, `copro.c` | registers and frames in both layouts | leave the VM, come back to it | compiler, object manager |
| compiler, profiler, built-in methods | `hal/esp32/copro` | basic blocks, types, machine code | compile a bytecode, link | puts its code in the LP heap |
| LP runtime in assembly | `rl/main/mrubycopro-runtime/*.S` | saved registers | sleep, read barrier, arrays | called by generated code |
| mruby/c scheduler | `components/mruby/src/rrt0.c`, `hal/esp32/hal.c` | four task queues, control blocks, mutexes, the tick | create, run, end, join, sleep, suspend, resume, raise, priority, lock, unlock | runs every Ruby program; a timer interrupt in `rm`, called by `mrbc_run` in `rl` |
| mruby/c VM and class library | `components/mruby/src` | | third-party interpreter, version 3.4 | runs the Ruby programs |
| sensor simulators, measurements, notes | `sensor_sim`, `power_consumption`, `code_size`, `runtime_code_size`, `note`, `notes` | | | not part of the four builds |

What is hard here:

- two cores that write the same memory with no lock but a mailbox and the
  wakeup lines;
- memory that survives a sleep, memory that does not, and a power cut at any
  time;
- I2C transfers and file operations that fail, each handled differently by
  the four builds;
- two allocators and two collectors on one heap;
- objects that exist on both sides and must stay one object;
- a timer interrupt between any two statements of a scheduler that protects only
  some of them;
- a transfer that is given up while the controller is still at it;
- a signal algorithm whose correctness only shows over a whole walk.

What makes each component correct:

- detector: a counted step is a real swing of the signal, steps cannot crowd, no
  stride is lost or counted twice, a search for a valley ends;
- main loops: every sample read reaches the detector once and in order, every row
  has the time its samples span, and the device measures on whatever fails;
- mailbox: a read goes on with the copy of the object it read, the HP core takes
  the program back only when it has stopped for that, nobody waits for ever;
- heap: blocks stay whole and apart, nothing the program can use is freed or
  handed out again, whichever core allocates or collects;
- object manager: wherever the program runs it sees the same objects with the same
  values; nothing it can reach is freed; every object it reads has an entry;
- scheduler: a task is in the queue its state names; nobody waits for a mutex that
  is free or a task that has ended; a ready task runs and a sleeper wakes, in time;
- I2C driver: a call that says it succeeded has done its transfer, whatever the one
  before it left behind.

## Modules

| module | models | lines of the code |
|---|---|---|
| `StepCounter` | the detector | `cm/pedometer/main/main.c` 295-536 (`cl` and Ruby have the same algorithm) |
| `StepCounterHistory` | history variables and the properties of the detector | |
| `PedometerLog` | abstract: what a log of the pedometer promises | |
| `ClPedometer` | both cores of `cl/pedometer` | `cl/.../main.c`, `.../ulp/main.c`, `misc.c` |
| `SpiffsLog` | mounting the file system and writing lines that may be lost | `rl/main/main.c`, `rm/main/main.c` |
| `HpPedometer` | the loops of `cm/pedometer` and `rm/pedometer` | `cm/.../main.c`, `rm/main/pedometer.rb` |
| `RlPedometer` | the loop of `rl/pedometer` across both cores | `rl/main/pedometer.rb`, `compile.c` |
| `CoproMailbox` | the handshake under every `sleep_and_run` | `mrubycopro-runtime/main.c`, `compile.c` |
| `CoproHeap` | allocation and collection on both cores | `gc.c`, `gc.copro.c`, `objman.c`, `globalman.c` |
| `ObjectStore` | abstract: the objects a Ruby program sees, whatever their addresses | |
| `CoproObjects` | objects, counts, the address table and global variables over both cores | `objman.c`, `addrtransman.c`, `globalman.c`, parts of `compile.c`, `stack.c`, `readbarrier.S` |
| `Scheduler` | tasks, mutexes and the tick | `rrt0.c`, `hal.c`, the end of `mrbc_vm_run` |
| `LpI2c` | the I2C driver of `cm` and the controller under it | `cm/pedometer/main/main.c` 26-292 |
| `LoopProofs` | theorems about `HpPedometer` and `RlPedometer` | |
| `StepCounterProofs`, `ClPedometerProofs`, `CoproMailboxProofs`, `CoproHeapProofs`, `CoproObjectsProofs`, `SchedulerProofs`, `LpI2cProofs` | theorems about the module of the same name | |

`HpPedometer`, `RlPedometer` and `ClPedometer` have an instance of `PedometerLog`
under a refinement mapping; `HpPedometer` and `RlPedometer` an instance of
`SpiffsLog`; `CoproObjects` has one of `ObjectStore`. `CoproMailbox`, `CoproHeap` and
`CoproObjects` are three views of the same move between the cores: who waits for
whom, which memory is in use, and what the objects hold. Each says at its head what
it leaves to the others.

### StepCounter

One action, `Sample(m)`, is one call of the function with a sample of module `m`;
`Filter`, `Fill`, `WindowFull`, `SeekPeak`, `SeekValley` are its parts in the
order of the code. A sample is its module |x|+|y|+|z|, all the algorithm looks at.
The variables are the static variables of the C file, under their names.
`WindowFull` is the early return at line 451, which leaves the ring index where it
was. The moving sum, the threshold mean (truncating division of non-negative
numbers) and the strict and non-strict comparisons are kept as they are.

A remark on the window. The comment at line 446 says that the program waits until
the window is full. The code counts the samples to know when it is, but judges the
centre of the window before that as well, with zeros for the samples that have not
come; only the sample that fills it is not judged. The model follows the code, and
the properties hold of those first windows too.

### PedometerLog, and the loops that implement it

`PedometerLog` has four variables: the log, the number of samples its rows account
for since power on, the samples with the detector since, and whether lines may be
lost. Samples are numbers, so that a lost, doubled or reordered sample is seen.
`Detect` gives the next samples to the detector, `Record` closes a batch with a
row whose time is the time the samples so far span, `Start` begins with a header,
`PowerCut` forgets all but the log.

`ClPedometer` has one action per stretch of code between two points at which the
other core, a failure or a power cut can come in. `mrbc_sp_bottom` is the saved
stack pointer by which `main` of the LP core tells the end of a delay from a new
start; `DelayThen` is `delayUs` in its variant for a millisecond or more, the only
one the pedometer uses. `LpBatchDone` has the guard `hp = "asleep"`: the HP core
has long been asleep when the batch, ten seconds, is complete. `PowerCycle` loses
both memories and keeps the file.

`HpPedometer` stands for two programs, chosen in `Init`: they take the same steps in
another order (`cm` counts after its delay, `rm` before) and treat their file
differently (`cm` opens it once and ends without it, `rm` opens it for each line
and goes on without the line).

`RlPedometer` follows one batch of `rl/pedometer` over both cores: the arrays in HP
memory, their copies in LP memory made at the first use, the block that fills the
copies, and the way back. Each transfer is one step here; what makes that right is
the subject of `CoproMailbox`. The three arrays of the program are filled and copied
alike and are one array here.

### CoproMailbox

One action is one access to a word both cores can see. On the LP side these are the
read barrier (`LpReadFail`, `LpScan`, `LpFetch`), the request (`LpSetReason`,
`LpSetObject`), `WAIT_FOR_PROCESSOR_WAKEUP` (`LpWakeup`, `LpPoll`: the trigger is
raised again and again until the ack is there), the end of a request, the fallback
and the delay. On the HP side they are the loop of `execute_on_ulp`: `HpStart`,
`HpSleep`, `HpWake`, `HpSeesReason` (line 487), `HpDispatch`, the service of a
request word by word, `HpAck`, `HpAckLast` and `HpReceive`. A copy is represented by
the object it is a copy of.

Two constants say what the hardware and the timing are taken to be.

- `WakeKept`: whether a trigger raised while the HP core is awake is remembered
  and ends its next sleep at once.
- `PromptLp`: whether the LP core, which polls `ack` in a loop of a few
  instructions, sees it and leaves before the HP core gets to sleep, or through
  compilation to the next start, which take it far longer.

Nothing in the code orders these; the properties depend on them as follows.

| `WakeKept` | `PromptLp` | what holds |
|---|---|---|
| no | yes | everything: run `copro_mailbox`, and the theorems for every number of objects and table size. The loop of line 487 is then never entered |
| no | no | `FinishedOnlyAtFallback` and `HpKnowsObject` hold, by theorems too; `TransferIsRight`, `AckAnswers` and the liveness properties do not |
| yes | yes | of the invariants `TypeOK` only: `TransferIsRight` and `FinishedOnlyAtFallback` fail |

Line 487 waits while the reason is 10, which can only be the case at a wakeup that
the LP core did not ask for in this run: the code is written for triggers that
outlive the waking time, so `WakeKept = TRUE` is a case its author met or expected.

### CoproHeap

One action is one allocation, one transfer of an object, one load or store of a
pointer by the program, or the end of a run, with the collection it contains. An
address is a slot or a unit of 32 bytes. The three classes of small blocks are one
class, since a request goes on to the next class when one is full; marked bits are
zero outside a collection and are not kept; `points` has what a block's fields point
to, `len` its length in units. `Walk` is the walk over the frozen bits with the
stride it has in the code. `LpCollected(stray)` collects with any set of further
words taken for pointers: old words on the stack, and fields of big blocks that
`mrbc_gc_alloc` does not clear. `HpServe` is a whole request, during which the LP
core waits (`CoproMailbox`); when it finds no room it sweeps, as `gc.copro.c` does, in
the middle of the LP program's run and without marking. Machine code and cells of
global variables are frozen blocks that `objman_receive` leaves alone.

Two collections take what the code gives them no way to keep: one of the LP core whose
walk, with its stride, misses a frozen block (`LpLoses`), and the sweep in a request
while the program has blocks that are not frozen (`HpLoses`). Both are steps of the
model like any other, and the history variable `lost` remembers that one has happened.
What is promised, `NothingLiveIsTaken`, is that nothing the program can use is taken
until then: these two are the only ways to lose it. `FrozenStays`, the claim of a comment
of the code, excuses neither and is refuted by `copro_heap_skip`.

Left out of it: cyclic data, on which `mrbc_gc_mark` never ends and which the
programs of the repository do not build; the stub that enters compiled code in the
middle of a block (`special` = 3), which is allocated without being marked in use,
to be run once; and the contents of blocks.

### ObjectStore and CoproObjects

`ObjectStore` is what the Ruby program has: variables, objects with instance
variables, assignment, creation, `Get`, `Put`. Addresses mean nothing to the program,
so every step may also give the objects other addresses, one to one, and leave out
what the variables do not lead to (`Same`). Moving to the other core, which changes
every address there is, must be such a step and nothing more.

In `CoproObjects` an action is one statement of the program on either core, or the
move to the other core. `Enter` copies the registers and sends the globals;
`LpGetGlobal` and `LpGetIv` have the read barrier, which asks for a copy when it
meets an address of the HP core; `Leave` has the two passes over the blocks,
the globals, the registers and `mrbcopro_objman_cleanup`, in their order. The helpers
have the names of what they do and hand on to one another a record with the part of
the state they change. Each loop of the code is `Folded(Op, a, n)`, the state that a
becomes by the steps `Op(_, 1)` to `Op(_, n)`; the recursion of `mrbc_decref` through
the objects it frees is a loop too, over the references that are due (`Decref`), long
enough for every object to be freed once. Whether a fold over functions or a recursive
function, both can be reasoned about. `Lookup` is the address table as it is: it returns the
first entry with *either* address, so that a lookup by HP address, which passes 0 for
the other one, finds any entry not sent yet. `Typed`, `ToCopro` and `GlobalSent` follow
it in that.

The counts are those of the code. An object the LP core made keeps one reference too
many after the way back, since the new object starts with one and is counted again
(`MadeHere` counts them to bound the model); and its block survives the sweep, for
`objman_receive` inverts the frozen bits and a block that was not frozen becomes so.
Both leak until `mrbcopro_gc_clear`, and for good respectively; neither changes what
the program sees.

One thing is assumed: that the table does not move while `mrbcopro_objman_to` makes a
copy. The function keeps the pointer to the entry meanwhile, entries may be appended,
and a buffer that grows is reallocated; then the address of the copy would be written
to where the entry was. The buffer has room for five entries from the start.

`view` is the abstract state, worked out once per step: what the variables hold and
the objects they lead to (`Reached`), by address. The refinement maps `store` to it.

A global variable that holds nil keeps the payload of the value before, or 0 where
`objman.c` wrote the nil, and `globalman_send` looks at the payload without looking at
the type. `Enter` chooses the payload of each nil (`Payload`): 0, or the address of any
object, be it one that is there or was. With 0 the table gets an entry of no object
(`main` is `Nil`), which takes one of its places and is found by later lookups that pass
0; with the address of an object that has no copy, the entry of that object says nil.
`payload` keeps the choice while the program is on the LP core, so that the properties
can tell what it spoils: `Stale` are the addresses that nils have kept, and `Misread` is
a run that began with one. `SameObjects` is the
refinement as it should be and is refuted by `copro_objects_nil`. `SameUnlessMisread` is
the same for every step that neither starts nor ends in `Misread`, and
`ReadsAreAnswered` excuses only the objects at those addresses. Counts and memory
(`CountsCover`, `NothingDangles`) excuse nothing. A payload that
is a number is modelled by 0; another number makes the nil a number on the LP core, and
a number that happens to be an address of the LP core, or -1, would answer lookups that
are not for it.

### Scheduler

One action is one call of a method of `Task` or `Mutex` by the running task, one
statement group of `mrbc_run`, or one tick. Methods that disable interrupts are one
action; where the code does not, they are several (`SetPriority`, then `Reorder`).
The tick is `TickEffect` and then, while interrupts are still disabled, one `Wake` for
each sleeper whose time has come (`waking`), in the order of the queue.
`timer` chooses the build: in `rm` the tick is an interrupt and comes between any two
actions, in `rl` (`MRBC_NO_TIMER`) `Idle` and `Tick` call it. The copy of `rrt0.c` in
`rm` is the same but for a comment. Times are distances from `tick_`, which is all
the code compares (`MRBC_TICK` arithmetic on signed differences), so that `tick_` needs
no bound.

What `pc` is `"vm"` for is the virtual machine: any method, any other instruction
(`Compute`), and after each a look at `flag_preemption`. What the program does is not
restricted but in two things: it does not suspend a dormant task, which would put it
in no state the code knows, and the one instruction a task runs before the virtual
machine looks for the handler of a pending exception does not block the task.

Met on the way, and followed: `mrbc_terminate_task` does not wake the tasks that
joined the terminated one (`JoinIsKept` allows it and nothing forbids it); a rescued
exception clears `flag_preemption`; without a timer `Task.pass` sets the slice to 0 and
the decrement after it wraps, so the task that passed goes on for 255 returns; a
tick between the new priority of a task and its move, in `mrbc_change_priority`, puts
other tasks into a queue that is not sorted, which with three priority levels
is left out of order. No property sees that order: `QueuesMatch` says which tasks are
in a queue. Nor does one see a preemption lost by a tick between the choice of a task
and its start; `ReadyRuns` is about runs that come back to the choice again and again.

### LpI2c

The driver of `cm` with the controller it programs. The driver has one action per
stretch between two accesses the controller can answer: a call, the look at the bus,
the set-up, one piece of the writing, the wait after it, the turn to reading, one
piece of the reading, and the wait after it, which ends with an interrupt
(`Written`, `Reading`), a refusal (`Refused`) or the time limit (`TimedOut`). The
controller has one action per command. What is external is the controller's side and
the device; it is modelled from what the driver programs and waits for.

A FIFO is the number of its first byte and how many it holds; the device knows what it
was last told (`dir`), and everything out of order makes that `"wrong"` for the rest of
the transfer. So a return of `ESP_OK` after any mixture of two transfers is seen by
`OkMeansDone`. The one assumption is that the bus is reported busy from the start of a
transfer to its end.

## Runs

| run | what it shows | states |
|---|---|---|
| `step_counter` | no stride is lost or counted twice (`StridesConserved`); a counted step is a swing of more than `SENSITIVITY`, although each half is compared with a threshold that moves in between (`StepIsASwing`); two steps are more than half a window apart (`StepsAreApart`); the filter is the mean of the last samples but for one turn of the ring (`MeanIsRecent`) | 1,618,963 |
| `cl_pedometer` | `shared_buffer` has one owner while it is read (`BufferHandover`); the log is faithful, also over power cuts and failing transfers (`LogIsFaithful`); the device logs on unless the file cannot be opened (`KeepsLogging`) | 977 |
| `hp_pedometer` | the log of `cm` and `rm` is faithful, a lost line shifts no later one; both measure on (`KeepsMeasuring`) | 58,993 |
| `rl_pedometer` | the detector sees exactly the samples the block read (`BatchCameBack`); the log is faithful; the device measures on | 52,869 |
| `copro_mailbox` | a read ends (`ReadsEnd`) and with the right copy (`TransferIsRight`); the program is taken back only where it stopped (`FinishedOnlyAtFallback`), and always then (`FallbackIsTaken`); no deadlock | 21,603 |
| `copro_heap` | blocks stay whole and apart (`BlocksIntact`); no collection and no allocation takes live memory but by the two collections that cannot keep it (`NothingLiveIsTaken`) | 1,174,061 |
| `copro_objects` | the program sees one store of objects wherever it runs, but for runs a nil with an old address spoils (`SameUnlessMisread`, the refinement); counts cover the holders (`CountsCover`); nothing reachable is free (`NothingDangles`); every object the LP core may ask for has an entry that answers (`ReadsAreAnswered`) | 528,482 |
| `scheduler` | queues and states agree (`QueuesMatch`); a mutex somebody waits for has another owner (`WaiterHasOwner`); a join lasts until the end of the task and, for a task that is suspended then, no longer (`JoinIsKept`); a sleep lasts until its time (`SleepIsLongEnough`), and the waiting queue is looked at no later than the first sleeper is due (`WakeupInTime`); a ready task of the first priority runs (`ReadyRuns`) and sleepers wake (`SleepersWake`) | 941,044 |
| `lp_i2c` | a call that returns `ESP_OK` has done its transfer (`OkMeansDone`); no piece is bigger than the FIFO (`FifosFit`); no deadlock | 186,590 |

Three more runs each refute one sentence of a comment or a note; `findings` in
`PROJECT.json` quotes it.

| run | the sentence | what the code does |
|---|---|---|
| `copro_heap_skip` | only objects that are not frozen are freed | for a zero word of frozen bits the walk moves on by words of memory instead of slots and misses the frozen blocks after it |
| `scheduler_joiners` | the loop finds the tasks that called join | it goes on with `next` of a task it has just moved to the ready queue, and the other joiners wait for ever |
| `copro_objects_nil` | `globalman_send` sends values allocated in global variables | a nil whose payload is still the address of an object marks that object's entry as nil, and the object is nil on the LP core |

`copro_heap_skip` needs a class of more than one bitmap word: on the device those of 8
and 16 bytes and that of bigger blocks.

Smaller divergences the models contain but no run is spent on:

- the sample that fills the window leaves by the early return before the ring index
  advances, and the next one overwrites it: for one turn of the ring the filter's mean
  has an older sample. Harmless; `MeanIsRecent` bounds it;
- `rm` and `rl` ignore the result of the write that selects the data registers of the
  sensor; when the read after it succeeds, six bytes of other registers count as a sample;
- the frozen bits are inverted on the way back instead of removed, so blocks the LP
  program made stay behind in the next run of the block;
- with a trigger that outlives the waking time of the HP core the mailbox goes
  wrong (see `WakeKept` above): the HP core sees the reason 0 it stored itself
  and takes back a program that has not stopped, or, awake at line 487, reads
  `required_object` twice around the LP core's store and maps an object to the copy
  of another. Whether the ESP32-C6 keeps such a trigger is not for a model to say.

Every property of a passing run comes with a mutant: an operator, marked `Mutant of`
in its comment and used nowhere, that is the definition after it with a plausible
bug. With it in place of the definition the run finds the property violated;
`mutants` in `PROJECT.json` says which belongs to which.

### Bounds, and why they are enough

- Detector: a window of 5 samples with its centre at 2, rings of 2, modules 0, 4
  and 8 with `SENSITIVITY` 4, a second of 2 samples, no sample after 5 steps. A
  window of 5 has samples on both sides of the centre that leave it at different
  times, which is what the spacing of steps depends on; a ring of 2 has a slot that
  is replaced and one that is not; 5 steps are a walk that is counted at once at
  its fourth stride and one that goes on. The theorems hold for every size.
- Main loops: batches of 3 (500 and 70 in the code) have a first, a middle and a
  last sample; a log of 5 lines holds rows of several boots; `MaxRows`, rows tried
  since power on, bounds runs in which every line is lost. A run ends when the log
  is full.
- Mailbox: 3 objects and a table of 2 entries, so that the ring wraps and an entry
  in use is overwritten. The program, its delays and its runs are not bounded.
- Heap: one slot and three units, bitmap words of 2 bits, blocks of one or two
  units, one pointer per block, which make two blocks that chain, a block that
  spans units and a unit free between two. The units have two words, so that a block
  spans words, the sweep carries from one to the next, and the walk can miss a frozen
  block; and the heap fills up, so that the HP core sweeps in a request. `copro_heap_skip`
  has four slots in two words.
- Objects: two on the HP core, two blocks, one instance variable, two registers and a
  global, and one object at a time that the LP core made. That is enough for an
  object held twice, a chain, a cycle, a copy that refers to a later one, an entry
  that is not sent yet in front of the one looked for, and a run after a run that
  left blocks behind. The program stops where memory is short: `objman_receive` then
  returns 1, with some objects copied back, and `execute_on_ulp` ignores it.
- Scheduler: two tasks of two priorities and a mutex; a slice of 1; 3 instead of the
  256 values of a byte; the waiting queue is looked at after 1 tick instead of
  65,536; sleeps of 0 and 1 ticks. Two tasks can block one another in every way the
  properties speak of. `scheduler_joiners` needs three tasks, and has no sleep.
- I2C: FIFOs of 3 instead of 16, sizes to 8 with 7 the most a call accepts: pieces
  with and without the address, a last piece of one, of more and of all the FIFO
  holds, three pieces in a row. The theorems hold for every size.

Deadlock is not checked where a model really stops: at a bound of the log, of
the steps or of the rows; where `app_main` returns for good; when the scheduler ends
(`exit`) or asserts (`abort`); where the memory of `CoproObjects` is short;
and in `CoproHeap` after a write to the address NULL (`crashed`).

### Fairness

Weak fairness for the steps of either core and for the timer that starts the LP
core again: both processors run on and no step waits but for its guard.
Strong fairness only for a successful read of the sensor: the loops answer a failed
read with another one after the delay, and no program could promise progress with a
sensor that never answers. What the program on the LP core does next (`LpProgram`)
and whether it is run again (`HpProgram`) has no fairness: it may compute for ever.
In `Scheduler` the tick (`Interrupt`, `Wake`) and the statements of `mrbc_run`
(`Schedules`) are weakly fair, the program is not; the two liveness properties ask only
that the virtual machine returns again and again (`[]<>(pc = "loop")`), which a task
that never ends and is never preempted would spoil. Detector, heap, objects and
I2C driver have no liveness property: that a call of the driver returns is no more than
its time limit.

## Theorems

All are proved for every value of the constants that satisfies the assumptions of
its module, with no bound on the log, the steps, the objects or the heap.

| theorem | says | by the invariant |
|---|---|---|
| `StepCounterTypes` | indices and counters stay in range | itself |
| `CountedStepsAreSwings` | `StepIsASwing` | arithmetic of the two comparisons with the same threshold |
| `StepsCannotCrowd` | `StepsAreApart` | `SwingInWindow`: while the last valley is in the left half of the window, the samples after it lie above it; the same for the peak. So the centre of a later window is no minimum while the valley is in it |
| `StridesAreConserved` | `StridesConserved` | itself, over the cases of a judged valley |
| `BufferHasOneOwner`, `BatchesAreCompleted`, `ClImplementsLog` | `BufferHandover`, a batch is overwritten only when complete and logged (`BatchNotAbandoned`), `LogIsFaithful` of `cl` | `OwnerInv`: what the LP core may be doing in each phase of the HP core, and that the stored part of the buffer is the samples after the logged ones; `FedInv`: when samples are with the detector |
| `HpImplementsLog` | `LogIsFaithful` of `cm` and `rm` | `CountInv`: `sample_count` is the number of samples with the detector, but for one given and not counted yet; time and rows agree |
| `BatchesComeBack`, `RlImplementsLog` | `BatchCameBack`, `LogIsFaithful` of `rl` | `BatchInv`: the copy, or the array while there is none, has the samples read so far; `DetectorInv`: the detector has the part of the arrays before `count` |
| `TransfersAreRight`, `AcksAnswer` | `TransferIsRight`, and that every ack answers a request (`AckAnswers`) | `BusyInv`, `WaitInv`, `LeaveInv`: what the one core may be doing while the other is busy, waits unanswered, or has been answered; `ObjectInv`, `TableInv`: all entries of the table are right but the one being written |
| `FinishesAtFallback`, `HpNeverStuck` | `FinishedOnlyAtFallback`, and that the HP core is asked only for objects it knows (`HpKnowsObject`), however slow the LP core is to see an answer | `SlowInv`: the reason is that of a fallback only when the program has stopped, or has not begun and the HP core has yet to be woken (`ReasonInv`); the object asked for is known, or the HP core has yet to be woken, or the run is about to end (`KnownInv`) |
| `HeapOfWholeBlocks` | `TypeOK` and `BlocksIntact` | `Tidy`: used bits are exactly the units of the blocks |
| `LiveIsKept` | `NothingLiveIsTaken`, for any stride, number of words and fill of the heap; and until `lost`, live and frozen blocks stay in use (`LiveIsUsed`, `FrozenStays`) | `Safe`, until `lost`: frozen blocks are in use; code, global cells and copies are frozen; what the program reaches is in use; on the HP core it is in copies |
| `TypeCorrect` | ranges of the I2C driver; the commands of a piece fit the eight registers | `Typing`: with the types, where the controller may be in the commands loaded last |
| `OkIsDone`, `FifosNeverOverrun` | `OkMeansDone`, `FifosFit` | `IInv`: for each place of the driver and each command the controller may be at, how `idx`, `chunk`, `left`, the FIFOs and what the device got and sent are related (`Moving`, `AtWrite`, `AtWritten`, `AtRead`, `AtReading`); that a piece fits the room there is (`Sizes`, `FifosFit`); and that after an `ESP_OK` the transfer is over (`AtIdle`) |
| `SchedulerTypes`, `QueuesAreRight`, `WaitersHaveOwners` | `TypeOK`, `QueuesMatch`, `WaiterHasOwner` for any tasks, mutexes and priorities | `IInv`: the queues match; only waiting and suspended tasks have a reason to wait (`Reasons`); only `cur` runs and only where `mrbc_run` has it (`OneRuns`); what is known of `cur` and `scan` in each place (`Places`); whom the tick may wake (`Wakes`). Under it lie lemmas on `Inserted` and `RemoveFirst`: a queue holds what it held and the task, or but for the task (`InsertedHolds`, `RemovedHolds`) |
| `FilterIsTheMean` | `MeanIsRecent` for any order of the filter and any window | `RingInv`: the sum is that of the ring, and the ring has the samples of `recent` in turn, but for the one that filled the window. Below it: a sum exists, is unique, changes with one summand by that, and keeps its value when the ring is turned (`SumsExist`, `SumLastChanged`, `SumShifted`) |
| `ClTypes`, `HpTypes`, `RlTypes`, `MailboxTypes`, `HeapTypes` | `TypeOK` of these modules | the invariants above, with the types |
| `ObjectCounts`, `NothingFreeIsHeld`, `ReadsHaveCopies`, `ObjectTypes` | `CountsCover`, `NothingDangles`, `ReadsAreAnswered`, `TypeOK` of the objects, for any number of objects, blocks, instance variables, registers and global variables | `ObjectsInvariant`: on the HP core every reference is counted and the table is empty; on the LP core there is a set of blocks that are in use, lead to one another or to objects of the table, and contain the copies, which are frozen (`Carried`) |
| `ObjectsAreSame` | `SameUnlessMisread`: every step of `CoproObjects` outside a `Misread` run implements one of `ObjectStore`, for the same numbers | `ObjectsInvariant`, that no two objects have the same copy (`Joined`), and that `view` is worked out (`ViewKeeps`); see below for the argument |
| `JoinsAreKept`, `SleepsAreLongEnough` | `JoinIsKept`, `SleepIsLongEnough` | the same, with one lemma per action for the invariant and both step properties (`Right`); for a suspended task, that the end of the join is the statement that lets it go (`SuspendedLetGo`) |
| `SleepersAreSeen` | `WakeupInTime` | the same: an action begins no sleep (`Calm`) or sets `wakeup_tick_` no later than it ends, and the look at the queue keeps the least of those it passes over (`TickInTime`) |

Only the mailbox theorems assume more than that: `WakeKept = FALSE`, and
`TransfersAreRight` and `AcksAnswer` also `PromptLp = TRUE` (`Orderly`): each fails without,
as the table above says. `MailboxTypes` assumes neither.

Two properties except what the code is known to get wrong. They do so in the property,
by what has happened in the behaviour, and not by an assumption that would leave it out
of the model:

- `NothingLiveIsTaken` is silent after `lost`. On the device three classes have bitmaps
  of two words, the stride is 4 instead of 32, and the HP core may sweep in a request,
  so `lost` can come true there. The theorem says that nothing else ever takes live memory.
- `SameUnlessMisread` is silent in `Misread` and about the way in and out of it, which
  `copro_objects_nil` shows to be wrong.

Only model-checked: the liveness properties (`KeepsLogging`, `KeepsMeasuring`,
`ReadsEnd`, `FallbackIsTaken`, `ReadyRuns`, `SleepersWake`), which are
beyond the prover. All other properties of the passing runs are proved (`TypeOK` of
`HpPedometer` as `HpTypes` in `LoopProofs`, which has `HpPedometer` as an instance).

How a loop is proved without a theorem of induction, which takes an operator as a
parameter and so cannot be instantiated: the states of the loop are the values of a
function on `0 .. n`, and what holds of each of them is a set of such numbers; a set
of `0 .. n` with 0 in it and closed under the next number is all of it (`Climb`, from
the least number that is missing). So each loop of `CoproObjects` has a lemma that its
states exist (`DroppedSteps`, `TakenSteps`, `UpdatedSteps`, ...) and one that says
what every step keeps (`DropKeeps`, `AllTakenIs`, `AllUpdatedKeeps`, ...). At the end
of a run these are joined by what is still due to be counted: `Kept(w, e)` says that the
counts cover the instance variables and `e[y]` others of each object y. Taking the
blocks over adds one to `e` for each (`OfMain`), updating the members leaves it,
releasing the blocks takes it away again, and the variables change `e` one by one
(`OfRoots`), until it is what the variables of the next state hold.

How the refinement of `ObjectStore` is proved. For each action a function is named that
takes the addresses the program can have after it to those they were before, and three
things are shown: it is one to one, it leads from variables to variables, and it commutes
with the instance variables, but for the one the statement assigns. That is all `Same`
asks, and it need not be shown that everything reachable before is reachable after
(`EnterSeen`, `LeaveSeen`, `HpFollows`, `LpFollows`). For a statement on the HP core it is
the identity on what is still reached, since a count that reaches zero frees only what
nobody holds. For the start of a run and for a read it takes a copy to its object, which
is one to one by `Joined`: each object is copied once, into a block that was free. For the
end of a run it takes an object to its block. `Traced` says of the first pass that every
block the program can have goes into the object it is a copy of, or else into one that was
free and that no other block has gone into; `Written` says of the second that the instance
variables of such an object then have the values of the words, translated in the same
way, while objects without a block keep theirs. The buffered decrements free nothing
of it, for the counts cover the holders (`ObjectsInvariant`).

## Not modelled

- The layout of registers and frames in the stack transfer (`stack.c`): the models
  have which values cross and when (`Enter`, `Leave`), not where they lie.
- Copies of strings, arrays, ranges and hashes: objects with instance variables stand
  for all; an array of `rl/pedometer` is in `RlPedometer`.
- The machine code of each bytecode and of built-in methods: the models have what
  the code does to the mailbox, the heap and the objects. `compile.eliminated.c` is not
  built.
- Cyclic data in the collection of the LP core, on which `mrbc_gc_mark` never ends;
  which word of `sleep.S` holds which register, where x22 is saved at an odd
  offset that overlaps x24 and x25.
- The smaller sensor programs. `tof`, `gps_acc`, `gather_sht30` and `breathingled` are
  loops like the pedometer's without a batch or a log; `sense_sht30` hands a reading
  over as `cl` does. `pulseIn` and the busy and `wfi` variants of `delayUs` in `cl/misc.c`,
  which only they use; the timeout of `pulseIn` wraps (line 79).
- The interpreter and its class library, third-party code with its own tests, but for
  the scheduler; ESP-IDF; the file system, but for lines that are lost and a file that
  does not open.
- `time_ms` overflows after 24.8 days and changes the printed time only.

## Plan

Done, in this order: the detector; the abstract log and `cl`, `cm`, `rm`, `rl`, which
implement it; the mailbox; the heap; the proofs of each; the scheduler; the object
manager with the store it implements; the I2C driver and its proofs; the proofs of the
types, the filter and the objects; the proof that the objects implement the store.

Next:

1. The table of addresses that moves while a copy is made, as a choice in `Served`.
2. `SleepFrame`: which word holds which register in `sleep.S`.
3. `Vector`: the growing buffers of the compiler, to be proved.
4. The stack transfer: frames of one layout to the other and back.
5. The smaller sensor programs: the trimmed mean of `tof` against its definition, the
   handover of `sense_sht30`.
