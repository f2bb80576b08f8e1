------------------------------- MODULE LpI2c -------------------------------
(***************************************************************************)
(* The driver of the I2C controller in cm (hp_lp_core_i2c_master_write_    *)
(* read_device of src/cm/pedometer/main/main.c): it writes a few bytes to  *)
(* the sensor and reads the answer, in pieces that fit the FIFOs of the    *)
(* controller.  A call whose transfer is refused or takes too long gives   *)
(* up, and the controller may still be at it when the next call begins.    *)
(*                                                                         *)
(* The controller goes through its command registers from register 0 up to *)
(* a STOP or END.  The bytes of a FIFO are consecutive bytes of one        *)
(* transfer, so a FIFO is the number of its first byte and how many there  *)
(* are; what the device does not expect makes dir "wrong".  The bus is     *)
(* taken to be busy from the start of a transfer to its end.               *)
(***************************************************************************)
EXTENDS Integers

CONSTANTS
  FIFO,     \* LP_I2C_FIFO_LEN
  LIMIT,    \* UINT8_MAX
  SizeMax,  \* bound: the sizes a caller asks for
  TICKS     \* whether the caller sets a limit to the waiting

ASSUME I2cAssumption ==
  /\ FIFO \in Nat /\ FIFO > 1
  /\ LIMIT \in Nat /\ SizeMax \in Nat
  /\ TICKS \in BOOLEAN

VARIABLES
  pc,           \* where the driver is; "idle" between two calls
  ret,          \* what the last call returned
  w_size, r_size,
  left,         \* remaining_bytes
  chunk,        \* fifo_size
  room,         \* fifo_available
  idx,          \* data_idx
  read,         \* bytes at the beginning of data_rd that are the right ones
  cmd_idx,
  op, num,      \* command registers: op_code, with ack_val, and byte_num
  tx_addr,      \* address with direction at the front of the Tx FIFO
  tx_at, tx_n,  \* first byte of the data in the Tx FIFO, and how many
  rx_at, rx_n,  \* the same of the Rx FIFO
  intr,         \* raised interrupts
  at,           \* command the controller is at; OFF when it is not started
  bus,          \* whether the bus is busy
  dir,          \* what the device was last told
  got, sent     \* bytes it got and sent since its address was sent

call == <<ret, w_size, r_size>>
loop == <<left, chunk, room, idx, read, cmd_idx>>
regs == <<op, num>>
tx   == <<tx_addr, tx_at, tx_n>>
rx   == <<rx_at, rx_n>>
wire == <<bus, dir, got, sent>>
vars == <<pc, call, loop, regs, tx, rx, intr, at, wire>>

Register == 0 .. 7
OFF == 8

Least(a, b) == IF a <= b THEN a ELSE b

Init ==
  /\ pc = "idle" /\ ret = "none" /\ w_size = 0 /\ r_size = 0
  /\ left = 0 /\ chunk = 0 /\ room = 0 /\ idx = 0 /\ read = 0 /\ cmd_idx = 0
  /\ op = [i \in Register |-> "none"] /\ num = [i \in Register |-> 0]
  /\ tx_addr = "none" /\ tx_at = 1 /\ tx_n = 0 /\ rx_at = 1 /\ rx_n = 0
  /\ intr = {} /\ at = OFF
  /\ bus = "free" /\ dir = "none" /\ got = 0 /\ sent = 0

-----------------------------------------------------------------------------
\* The controller.

\* The device is told d, and whether it expects that.
Tells(d, expected) == dir' = IF expected /\ dir # "wrong" THEN d ELSE "wrong"

Does(command) == at # OFF /\ op[at] = command /\ UNCHANGED <<pc, call, loop, regs>>

Restart ==
  /\ Does("RESTART")
  /\ bus' = "busy" /\ Tells("start", TRUE)
  /\ at' = at + 1
  /\ UNCHANGED <<tx, rx, intr, got, sent>>

\* The address leaves the FIFO first.
WriteAddress ==
  /\ Does("WRITE") /\ tx_addr # "none"
  /\ Tells(tx_addr, dir = "start")
  /\ got' = IF tx_addr = "write" THEN 0 ELSE got
  /\ sent' = 0
  /\ tx_addr' = "none"
  /\ at' = at + 1
  /\ UNCHANGED <<tx_at, tx_n, rx, intr, bus>>

WriteData ==
  /\ Does("WRITE") /\ tx_addr = "none"
  /\ Tells("write", dir = "write" /\ num[at] <= tx_n /\ tx_at = got + 1)
  /\ got' = got + num[at]
  /\ tx_at' = tx_at + num[at] /\ tx_n' = tx_n - Least(num[at], tx_n)
  /\ at' = at + 1
  /\ UNCHANGED <<tx_addr, rx, intr, bus, sent>>

\* The device does not acknowledge; whether the bus is free then is left open.
Nack ==
  /\ Does("WRITE")
  /\ intr' = intr \cup {"NACK"}
  /\ at' = OFF
  /\ bus' \in {"free", "busy"}
  /\ UNCHANGED <<tx, rx, dir, got, sent>>

\* Only the last byte read is not acknowledged.
ReadData ==
  /\ Does("READ") \/ Does("READ_NACK")
  /\ Tells(IF op[at] = "READ" THEN "read" ELSE "enough",
           dir = "read" /\ (rx_n = 0 \/ rx_at + rx_n = sent + 1))
  /\ sent' = sent + num[at]
  /\ rx_at' = (IF rx_n = 0 THEN sent + 1 ELSE rx_at) /\ rx_n' = rx_n + num[at]
  /\ at' = at + 1
  /\ UNCHANGED <<tx, intr, bus, got>>

Stop ==
  /\ Does("STOP")
  /\ bus' = "free" /\ Tells("none", dir = "enough")
  /\ intr' = intr \cup {"COMPLETE"}
  /\ at' = OFF
  /\ UNCHANGED <<tx, rx, got, sent>>

\* END keeps the bus and waits for the next commands.
End ==
  /\ Does("END")
  /\ intr' = intr \cup {"END"}
  /\ at' = OFF
  /\ UNCHANGED <<tx, rx, wire>>

Controller ==
  Restart \/ WriteAddress \/ WriteData \/ Nack \/ ReadData \/ Stop \/ End

-----------------------------------------------------------------------------
\* The driver.

Returns(r) == pc' = "idle" /\ ret' = r

\* A call of nothing returns quietly, one of too much with an error.
Call(w, r) ==
  /\ pc = "idle"
  /\ w_size' = w /\ r_size' = r
  /\ IF w = 0 \/ r = 0 THEN Returns("OK")
     ELSE IF w > LIMIT \/ r > LIMIT THEN Returns("INVALID_SIZE")
     ELSE pc' = "bus" /\ ret' = "none"
  /\ UNCHANGED <<loop, regs, tx, rx, intr, at, wire>>

\* Mutant of CheckBus: the bus is not looked at.
CheckBusNot ==
  /\ pc = "bus" /\ pc' = "clear"
  /\ UNCHANGED <<call, loop, regs, tx, rx, intr, at, wire>>

\* The controller is stopped when the bus is busy: it is then still at the
\* transfer of an earlier call.
CheckBus ==
  /\ pc = "bus" /\ pc' = "clear"
  /\ at' = IF bus = "busy" THEN OFF ELSE at
  /\ bus' = "free"
  /\ UNCHANGED <<call, loop, regs, tx, rx, intr, dir, got, sent>>

\* lp_core_i2c_config_device_addr behind an RSTART.
Address(d) ==
  /\ op' = [op EXCEPT ![0] = "RESTART", ![1] = "WRITE"]
  /\ num' = [num EXCEPT ![0] = 0, ![1] = 1]
  /\ tx_addr' = d
  /\ cmd_idx' = 2

\* Mutant of Clear: the slot the address takes is forgotten.
ClearRoom ==
  /\ pc = "clear" /\ pc' = "write"
  /\ tx_at' = 1 /\ tx_n' = 0 /\ rx_at' = 1 /\ rx_n' = 0 /\ intr' = {}
  /\ Address("write")
  /\ left' = w_size /\ idx' = 0 /\ room' = FIFO
  /\ dir' = "none" /\ got' = 0 /\ sent' = 0 /\ read' = 0
  /\ UNCHANGED <<call, chunk, at, bus>>

\* Up to the loop that writes: FIFOs and interrupts, RSTART, the address.
Clear ==
  /\ pc = "clear" /\ pc' = "write"
  /\ tx_at' = 1 /\ tx_n' = 0 /\ rx_at' = 1 /\ rx_n' = 0 /\ intr' = {}
  /\ Address("write")
  /\ left' = w_size /\ idx' = 0 /\ room' = FIFO - 1
  /\ dir' = "none" /\ got' = 0 /\ sent' = 0 /\ read' = 0
  /\ UNCHANGED <<call, chunk, at, bus>>

\* i2c_ll_start_trans
Started == at' = 0 /\ bus' = "busy"

\* Mutant of LoadWrite: the commands go on behind the last ones.
LoadWriteNoReset ==
  /\ pc = "write" /\ pc' = "written" /\ left > 0
  /\ chunk' = Least(left, room) /\ left' = left - chunk'
  /\ tx_at' = (IF tx_n = 0 THEN idx + 1 ELSE tx_at) /\ tx_n' = tx_n + chunk'
  /\ op' = [op EXCEPT ![cmd_idx] = "WRITE", ![cmd_idx + 1] = "END"]
  /\ num' = [num EXCEPT ![cmd_idx] = chunk', ![cmd_idx + 1] = 0]
  /\ cmd_idx' = cmd_idx + 2
  /\ Started
  /\ UNCHANGED <<call, room, idx, read, tx_addr, rx, intr, dir, got, sent>>

\* The next piece of the data: into the FIFO, WRITE and END, start.
LoadWrite ==
  /\ pc = "write" /\ pc' = "written" /\ left > 0
  /\ chunk' = Least(left, room) /\ left' = left - chunk'
  /\ tx_at' = (IF tx_n = 0 THEN idx + 1 ELSE tx_at) /\ tx_n' = tx_n + chunk'
  /\ op' = [op EXCEPT ![cmd_idx] = "WRITE", ![cmd_idx + 1] = "END"]
  /\ num' = [num EXCEPT ![cmd_idx] = chunk', ![cmd_idx + 1] = 0]
  /\ cmd_idx' = 0
  /\ Started
  /\ UNCHANGED <<call, room, idx, read, tx_addr, rx, intr, dir, got, sent>>

\* lp_core_i2c_wait_for_interrupt without an error.
Waited == intr # {} /\ "NACK" \notin intr /\ intr' = {}

Written ==
  /\ pc = "written" /\ pc' = "write"
  /\ Waited
  /\ idx' = idx + chunk /\ room' = FIFO
  /\ UNCHANGED <<call, left, chunk, read, cmd_idx, regs, tx, rx, at, wire>>

\* All is written: RSTART again, and the address for reading.
Turn ==
  /\ pc = "write" /\ pc' = "read" /\ left = 0
  /\ Address("read")
  /\ left' = r_size /\ idx' = 0
  /\ UNCHANGED <<call, chunk, room, read, tx_at, tx_n, rx, intr, at, wire>>

\* The next piece of the answer: READ and END when more follow, and otherwise
\* the last byte with a NACK, and STOP.
LoadRead ==
  /\ pc = "read" /\ pc' = "reading"
  /\ chunk' = Least(left, FIFO) /\ left' = left - chunk'
  /\ \/ /\ chunk' = 1
        /\ op' = [op EXCEPT ![cmd_idx] = "READ_NACK", ![cmd_idx + 1] = "STOP"]
        /\ num' = [num EXCEPT ![cmd_idx] = 1, ![cmd_idx + 1] = 0]
        /\ cmd_idx' = cmd_idx + 2
     \/ /\ chunk' > 1 /\ left' = 0
        /\ op' = [op EXCEPT ![cmd_idx] = "READ", ![cmd_idx + 1] = "READ_NACK",
                            ![cmd_idx + 2] = "STOP"]
        /\ num' = [num EXCEPT ![cmd_idx] = chunk' - 1, ![cmd_idx + 1] = 1,
                              ![cmd_idx + 2] = 0]
        /\ cmd_idx' = cmd_idx + 3
     \/ /\ chunk' > 1 /\ left' > 0
        /\ op' = [op EXCEPT ![cmd_idx] = "READ", ![cmd_idx + 1] = "END"]
        /\ num' = [num EXCEPT ![cmd_idx] = chunk', ![cmd_idx + 1] = 0]
        /\ cmd_idx' = 0
  /\ Started
  /\ UNCHANGED <<call, room, idx, read, tx, rx, intr, dir, got, sent>>

\* The piece is taken from the FIFO to its place in data_rd.
Reading ==
  /\ pc = "reading"
  /\ Waited
  /\ read' = IF rx_at = idx + 1 /\ rx_n >= chunk /\ read = idx THEN idx + chunk ELSE read
  /\ rx_at' = rx_at + chunk /\ rx_n' = rx_n - Least(chunk, rx_n)
  /\ idx' = idx + chunk
  /\ IF left > 0 THEN pc' = "read" /\ UNCHANGED ret ELSE Returns("OK")
  /\ UNCHANGED <<w_size, r_size, left, chunk, room, cmd_idx, regs, tx, at, wire>>

\* The wait ends with an error.
GivesUp(r) ==
  /\ pc \in {"written", "reading"}
  /\ intr' = {}
  /\ Returns(r)
  /\ UNCHANGED <<w_size, r_size, loop, regs, tx, rx, at, wire>>

Refused == "NACK" \in intr /\ GivesUp("INVALID_RESPONSE")

\* What was raised since the driver last looked is cleared too.
TimedOut == TICKS /\ GivesUp("TIMEOUT")

Driver ==
  \/ CheckBus \/ Clear \/ LoadWrite \/ Written \/ Turn \/ LoadRead \/ Reading
  \/ Refused \/ TimedOut

Next ==
  \/ \E w, r \in 0 .. SizeMax : Call(w, r)
  \/ Driver \/ Controller

Spec == Init /\ [][Next]_vars

-----------------------------------------------------------------------------
\* The types of the variables; all the commands fit the registers.
TypeOK ==
  /\ pc \in {"idle", "bus", "clear", "write", "written", "read", "reading"}
  /\ ret \in {"none", "OK", "INVALID_SIZE", "INVALID_RESPONSE", "TIMEOUT"}
  /\ w_size \in 0 .. SizeMax /\ r_size \in 0 .. SizeMax
  /\ left \in Nat /\ chunk \in Nat /\ room \in Nat /\ idx \in Nat /\ read \in Nat
  /\ cmd_idx \in Register
  /\ op \in [Register -> {"none", "RESTART", "WRITE", "READ", "READ_NACK", "STOP", "END"}]
  /\ num \in [Register -> Nat]
  /\ tx_addr \in {"none", "write", "read"}
  /\ tx_at \in Nat /\ tx_n \in Nat /\ rx_at \in Nat /\ rx_n \in Nat
  /\ intr \subseteq {"NACK", "COMPLETE", "END"}
  /\ at \in Register \cup {OFF}
  /\ bus \in {"free", "busy"}
  /\ dir \in {"none", "start", "write", "read", "enough", "wrong"}
  /\ got \in Nat /\ sent \in Nat

\* A call that returns ESP_OK has written all its bytes in order and has in
\* data_rd what the device sent in answer, whatever became of the calls before
\* it, and the bus is free again.
OkMeansDone ==
  pc = "idle" /\ ret = "OK" /\ w_size > 0 /\ r_size > 0 =>
    got = w_size /\ read = r_size /\ dir = "none" /\ bus = "free"

\* No piece is bigger than the FIFO it goes through, the address included.
FifosFit ==
  /\ (IF tx_addr = "none" THEN tx_n ELSE tx_n + 1) <= FIFO
  /\ rx_n <= FIFO
=============================================================================
