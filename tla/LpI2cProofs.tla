---------------------------- MODULE LpI2cProofs ----------------------------
(***************************************************************************)
(* Proofs about LpI2c: for FIFOs and transfers of every size, a call that  *)
(* returns ESP_OK has done its transfer, and no FIFO runs over.            *)
(*                                                                         *)
(* The inductive invariant says where in the commands of the present piece *)
(* the controller is, and what the bus and the FIFOs hold there.  It holds *)
(* of an abandoned piece as well, until the next call stops the controller.*)
(***************************************************************************)
EXTENDS LpI2c, TLAPS

\* The register in which the commands of the piece begin.
Base == IF idx = 0 THEN 2 ELSE 0

Preamble == op[0] = "RESTART" /\ op[1] = "WRITE" /\ num[1] = 1

\* The commands of a piece that is written and of one that is read.
WritePiece == op[Base] = "WRITE" /\ num[Base] = chunk /\ op[Base + 1] = "END"

LastByte == left = 0 /\ chunk = 1 /\ op[Base] = "READ_NACK" /\ num[Base] = 1
              /\ op[Base + 1] = "STOP"

LastBytes == left = 0 /\ chunk > 1 /\ op[Base] = "READ" /\ num[Base] = chunk - 1
               /\ op[Base + 1] = "READ_NACK" /\ num[Base + 1] = 1
               /\ op[Base + 2] = "STOP"

MoreBytes == left > 0 /\ op[Base] = "READ" /\ num[Base] = chunk
               /\ op[Base + 1] = "END"

\* The address is still to be sent, in the direction d.
Addressing(d) ==
  /\ tx_addr = d /\ idx = 0 /\ Preamble
  /\ (at = 0 /\ dir # "wrong") \/ (at = 1 /\ dir = "start")

\* The piece is to be sent, and sent.
ToSend ==
  /\ tx_n = chunk /\ tx_at = idx + 1
  /\ Addressing("write") \/ (tx_addr = "none" /\ at = Base /\ dir = "write" /\ got = idx)

Sent == tx_addr = "none" /\ dir = "write" /\ tx_n = 0 /\ got = idx + chunk

Writing ==
  /\ WritePiece
  /\ (IF idx = 0 THEN chunk + 1 ELSE chunk) <= FIFO /\ rx_n = 0
  /\ ToSend \/ (Sent /\ at = Base + 1)

\* n bytes of the piece have been received.
Received(n) ==
  tx_addr = "none" /\ sent = idx + n /\ rx_n = n /\ (n > 0 => rx_at = idx + 1)

ReadingPiece ==
  /\ LastByte \/ LastBytes \/ MoreBytes
  /\ chunk <= FIFO /\ tx_n = 0
  /\ \/ Addressing("read") /\ rx_n = 0
     \/ at = Base /\ Received(0) /\ dir = "read"
     \/ at = Base + 1 /\ LastByte /\ Received(chunk) /\ dir = "enough"
     \/ at = Base + 1 /\ MoreBytes /\ Received(chunk) /\ dir = "read"
     \/ at = Base + 1 /\ LastBytes /\ Received(chunk - 1) /\ dir = "read"
     \/ at = Base + 2 /\ LastBytes /\ Received(chunk) /\ dir = "enough"

\* The controller is at a piece: of this call, or of one that gave up.
Moving ==
  at # OFF =>
    /\ bus = "busy" /\ chunk > 0
    /\ pc \in {"idle", "bus", "written", "reading"}
    /\ pc \in {"written", "reading"} => intr = {}
    /\ Writing \/ ReadingPiece

\* The driver between two pieces.
AtWrite ==
  pc = "write" =>
    /\ intr = {} /\ left + idx = w_size /\ read = 0 /\ tx_n = 0 /\ rx_n = 0
    /\ got = idx /\ cmd_idx = Base
    /\ IF idx = 0 THEN room = FIFO - 1 /\ tx_addr = "write" /\ dir = "none" /\ Preamble
       ELSE room = FIFO /\ tx_addr = "none" /\ dir = "write"

AtRead ==
  pc = "read" =>
    /\ intr = {} /\ left > 0 /\ left + idx = r_size /\ read = idx /\ got = w_size
    /\ tx_n = 0 /\ rx_n = 0 /\ cmd_idx = Base
    /\ IF idx = 0 THEN tx_addr = "read" /\ dir = "write" /\ Preamble
       ELSE tx_addr = "none" /\ dir = "read" /\ sent = idx

\* The driver waits: the piece is on its way, refused or done.
AtWritten ==
  pc = "written" =>
    /\ chunk > 0 /\ left + idx + chunk = w_size /\ read = 0
    /\ IF at # OFF THEN Writing ELSE "NACK" \in intr \/ (Sent /\ rx_n = 0)

AtReading ==
  pc = "reading" =>
    /\ chunk > 0 /\ left + idx + chunk = r_size /\ read = idx /\ got = w_size
    /\ IF at # OFF THEN ReadingPiece
       ELSE \/ "NACK" \in intr
            \/ /\ Received(chunk) /\ tx_n = 0
               /\ IF left = 0 THEN bus = "free" /\ dir = "none" ELSE dir = "read"

\* From its first look at the bus on a call has something to do.
Sizes == pc # "idle" => w_size > 0 /\ r_size > 0

\* A transfer that ended well stays as it is until the next call.
AtIdle == OkMeansDone /\ (pc = "idle" /\ ret = "OK" /\ w_size > 0 /\ r_size > 0 => at = OFF)

IInv ==
  /\ Moving /\ AtWrite /\ AtRead /\ AtWritten /\ AtReading /\ Sizes
  /\ FifosFit /\ AtIdle

-----------------------------------------------------------------------------
\* Where the driver loads its commands.
Commands ==
  /\ pc \in {"write", "read"} => cmd_idx \in {0, 2}
  /\ pc = "written" => cmd_idx = 0
  /\ pc = "reading" /\ left > 0 => cmd_idx = 0

Typing == TypeOK /\ Commands

\* Every step keeps the types, and where the commands are loaded.
LEMMA TypingStep == Typing /\ [Next]_vars => Typing'
<1> SUFFICES ASSUME Typing, [Next]_vars PROVE Typing'
  OBVIOUS
<1> USE I2cAssumption DEF Typing, TypeOK, Commands, Register, OFF, Least,
                          call, loop, regs, tx, rx, wire
<1>1. ASSUME NEW w \in 0 .. SizeMax, NEW r \in 0 .. SizeMax, Call(w, r)
     PROVE  Typing'
  BY <1>1 DEF Call, Returns
<1>2. CASE CheckBus
  BY <1>2 DEF CheckBus
<1>3. CASE Clear
  BY <1>3 DEF Clear, Address
<1>4. CASE LoadWrite
  BY <1>4 DEF LoadWrite, Started
<1>5. CASE Written
  BY <1>5 DEF Written, Waited
<1>6. CASE Turn
  BY <1>6 DEF Turn, Address
<1>7. CASE LoadRead
  BY <1>7 DEF LoadRead, Started
<1>8. CASE Reading
  BY <1>8 DEF Reading, Waited, Returns
<1>9. CASE Refused
  BY <1>9 DEF Refused, GivesUp, Returns
<1>10. CASE TimedOut
  BY <1>10 DEF TimedOut, GivesUp, Returns
<1>11. CASE Restart
  BY <1>11 DEF Restart, Does, Tells
<1>12. CASE WriteAddress
  BY <1>12 DEF WriteAddress, Does, Tells
<1>13. CASE WriteData
  BY <1>13 DEF WriteData, Does, Tells
<1>14. CASE Nack
  BY <1>14 DEF Nack, Does
<1>15. CASE ReadData
  BY <1>15 DEF ReadData, Does, Tells
<1>16. CASE Stop
  BY <1>16 DEF Stop, Does, Tells
<1>17. CASE End
  BY <1>17 DEF End, Does
<1>18. CASE UNCHANGED vars
  BY <1>18 DEF vars
<1>19. QED
  BY <1>1, <1>2, <1>3, <1>4, <1>5, <1>6, <1>7, <1>8, <1>9, <1>10, <1>11, <1>12, <1>13, <1>14, <1>15, <1>16, <1>17, <1>18 DEF Next, Driver, Controller

\* Every variable keeps its type, and the commands of every piece fit the eight
\* registers, for FIFOs and transfers of every size.
THEOREM TypeCorrect == Spec => []TypeOK
<1>1. Init => Typing
  BY I2cAssumption DEF Init, Typing, TypeOK, Commands, Register, OFF
<1>2. Typing => TypeOK
  BY DEF Typing
<1>3. QED
  BY <1>1, <1>2, TypingStep, PTL DEF Spec

\* A piece is written: what the next one begins with.
LEMMA WrittenStep == ASSUME Typing, Typing', IInv, Written PROVE IInv'
<1>1. at = OFF /\ pc = "written" /\ pc' = "write" /\ "NACK" \notin intr
  BY DEF IInv, Moving, Written, Waited
<1>2. /\ Sent /\ rx_n = 0 /\ chunk > 0 /\ left + idx + chunk = w_size /\ read = 0
      /\ cmd_idx = 0
  BY <1>1 DEF IInv, AtWritten, Typing, Commands
<1>3. /\ idx' = idx + chunk /\ room' = FIFO /\ intr' = {} /\ at' = at
      /\ idx \in Nat /\ chunk \in Nat /\ left \in Nat /\ w_size \in 0 .. SizeMax
      /\ UNCHANGED <<w_size, r_size, left, read, cmd_idx, tx_addr, tx_n, rx_n, dir, got>>
  BY DEF Written, Waited, Typing, TypeOK, call, regs, tx, rx, wire
<1>4. idx' # 0 /\ left' + idx' = w_size'
  BY <1>2, <1>3, I2cAssumption
<1>5. AtWrite'
  BY <1>1, <1>2, <1>3, <1>4 DEF AtWrite, Base, Sent
<1>6. Moving' /\ AtRead' /\ AtWritten' /\ AtReading' /\ AtIdle'
  BY <1>1, <1>3 DEF Moving, AtRead, AtWritten, AtReading, AtIdle, OkMeansDone
<1>7. Sizes' /\ FifosFit'
  BY <1>1, <1>3 DEF IInv, Sizes, FifosFit
<1>8. QED
  BY <1>5, <1>6, <1>7 DEF IInv

\* A piece is read: either more follow, or the call has what it asked for.
LEMMA ReadingStep == ASSUME Typing, Typing', IInv, Reading PROVE IInv'
<1>1. at = OFF /\ pc = "reading" /\ "NACK" \notin intr
  BY DEF IInv, Moving, Reading, Waited
<1>2. /\ Received(chunk) /\ tx_n = 0 /\ chunk > 0 /\ left + idx + chunk = r_size
      /\ read = idx /\ got = w_size
      /\ IF left = 0 THEN bus = "free" /\ dir = "none" ELSE dir = "read"
  BY <1>1 DEF IInv, AtReading
<1>3. /\ idx' = idx + chunk /\ intr' = {} /\ rx_n' = rx_n - Least(chunk, rx_n)
      /\ read' = IF rx_at = idx + 1 /\ rx_n >= chunk /\ read = idx
                 THEN idx + chunk ELSE read
      /\ IF left > 0 THEN pc' = "read" /\ ret' = ret ELSE pc' = "idle" /\ ret' = "OK"
      /\ UNCHANGED <<at, w_size, r_size, left, cmd_idx, tx_addr, tx_n, dir, got, sent, bus>>
  BY DEF Reading, Waited, Returns, regs, tx, wire
<1>4. /\ idx \in Nat /\ chunk \in Nat /\ left \in Nat /\ rx_n \in Nat /\ rx_at \in Nat
      /\ r_size \in 0 .. SizeMax /\ cmd_idx \in Nat /\ SizeMax \in Nat
      /\ (left > 0 => cmd_idx = 0)
  BY <1>1, I2cAssumption DEF Typing, TypeOK, Commands, Register
<1>5. rx_n' = 0 /\ read' = idx' /\ idx' # 0 /\ left' + idx' = r_size'
  BY <1>2, <1>3, <1>4 DEF Received, Least
<1>6. AtRead'
  <2>1. CASE left > 0
    BY <1>2, <1>3, <1>4, <1>5, <2>1 DEF AtRead, Base, Received
  <2>2. CASE ~ (left > 0)
    BY <1>3, <2>2 DEF AtRead
  <2>3. QED
    BY <2>1, <2>2
<1>7. AtIdle'
  <2>1. CASE left > 0
    BY <1>3, <2>1 DEF AtIdle, OkMeansDone
  <2>2. CASE left = 0
    <3>1. got' = w_size' /\ read' = r_size' /\ dir' = "none" /\ bus' = "free"
      BY <1>2, <1>3, <1>4, <1>5, <2>2
    <3>2. QED
      BY <1>1, <1>3, <3>1 DEF AtIdle, OkMeansDone
  <2>3. QED
    BY <1>4, <2>1, <2>2
<1>8. Moving' /\ AtWrite' /\ AtWritten' /\ AtReading'
  BY <1>1, <1>3 DEF Moving, AtWrite, AtWritten, AtReading
<1>9. Sizes' /\ FifosFit'
  <2>1. rx_n' <= FIFO
    BY <1>5, I2cAssumption
  <2>2. QED
    BY <1>1, <1>3, <2>1 DEF IInv, Sizes, FifosFit
<1>10. QED
  BY <1>6, <1>7, <1>8, <1>9 DEF IInv

\* Bytes are received: one READ or the last byte.
LEMMA ReadDataStep == ASSUME Typing, Typing', IInv, ReadData PROVE IInv'
<1>1. /\ at # OFF /\ op[at] \in {"READ", "READ_NACK"}
      /\ at' = at + 1 /\ sent' = sent + num[at] /\ rx_n' = rx_n + num[at]
      /\ rx_at' = IF rx_n = 0 THEN sent + 1 ELSE rx_at
      /\ dir' = IF dir = "read" /\ (rx_n = 0 \/ rx_at + rx_n = sent + 1)
                THEN IF op[at] = "READ" THEN "read" ELSE "enough" ELSE "wrong"
  BY DEF ReadData, Does, Tells
<1>2. UNCHANGED <<pc, ret, w_size, r_size, left, chunk, room, idx, read, cmd_idx, op, num,
                  tx_addr, tx_at, tx_n, intr, bus, got>>
  BY DEF ReadData, Does, call, loop, regs, tx
<1>3. /\ bus = "busy" /\ chunk > 0 /\ pc \in {"idle", "bus", "written", "reading"}
      /\ pc \in {"written", "reading"} => intr = {}
  BY <1>1 DEF IInv, Moving
<1>4. /\ idx \in Nat /\ chunk \in Nat /\ left \in Nat /\ rx_n \in Nat /\ rx_at \in Nat
      /\ sent \in Nat /\ FIFO \in Nat /\ at \in 0 .. 7
  BY <1>1, I2cAssumption DEF Typing, TypeOK, Register, OFF
<1>5. ~ Writing
  BY <1>1, <1>4 DEF Writing, WritePiece, ToSend, Addressing, Preamble, Base
<1>6. ReadingPiece
  BY <1>1, <1>5 DEF IInv, Moving
<1>7. UNCHANGED <<LastByte, LastBytes, MoreBytes, Base>>
  BY <1>2 DEF LastByte, LastBytes, MoreBytes, Base
<1>8. \/ at = Base /\ Received(0) /\ dir = "read"
      \/ at = Base + 1 /\ LastBytes /\ Received(chunk - 1) /\ dir = "read"
  BY <1>1, <1>4, <1>6
     DEF ReadingPiece, Addressing, Preamble, LastByte, LastBytes, MoreBytes, Base
<1>9. (at' = Base' + 1 \/ at' = Base' + 2) /\ at' # OFF
  BY <1>1, <1>4, <1>7, <1>8 DEF Base, OFF
<1>10. ReadingPiece'
  <2>1. CASE at = Base /\ Received(0) /\ dir = "read"
    <3>1. \/ LastByte /\ num[at] = chunk /\ op[at] = "READ_NACK"
          \/ LastBytes /\ num[at] = chunk - 1 /\ op[at] = "READ"
          \/ MoreBytes /\ num[at] = chunk /\ op[at] = "READ"
      BY <1>6, <2>1 DEF ReadingPiece, LastByte, LastBytes, MoreBytes
    <3>2. rx_n' = num[at] /\ rx_at' = idx + 1 /\ sent' = idx + num[at]
      BY <1>1, <1>4, <2>1, <3>1 DEF Received
    <3>3. dir' = IF op[at] = "READ" THEN "read" ELSE "enough"
      BY <1>1, <2>1 DEF Received
    <3>4. QED
      BY <1>1, <1>2, <1>6, <1>7, <2>1, <3>1, <3>2, <3>3 DEF ReadingPiece, Received
  <2>2. CASE at = Base + 1 /\ LastBytes /\ Received(chunk - 1) /\ dir = "read"
    <3>1. num[at] = 1 /\ op[at] = "READ_NACK" /\ rx_n > 0
      BY <1>4, <2>2 DEF LastBytes, Received
    <3>2. rx_n' = chunk /\ rx_at' = idx + 1 /\ sent' = idx + chunk
      BY <1>1, <1>4, <2>2, <3>1 DEF Received
    <3>3. dir' = "enough"
      BY <1>1, <1>4, <2>2, <3>1 DEF Received
    <3>4. at' = Base + 2
      BY <1>1, <2>2 DEF Base
    <3>5. QED
      BY <1>2, <1>6, <1>7, <2>2, <3>2, <3>3, <3>4 DEF ReadingPiece, Received
  <2>3. QED
    BY <1>8, <2>1, <2>2
<1>11. FifosFit'
  BY <1>1, <1>2, <1>4, <1>6, <1>10 DEF IInv, FifosFit, ReadingPiece, Received, LastBytes, Addressing
<1>12. Moving'
  BY <1>2, <1>3, <1>10 DEF Moving
<1>13. AtReading'
  BY <1>2, <1>9, <1>10 DEF IInv, AtReading
<1>14. AtWrite' /\ AtRead' /\ Sizes'
  BY <1>2, <1>3 DEF IInv, AtWrite, AtRead, Sizes
<1>15. pc # "written"
  BY <1>1, <1>5 DEF IInv, AtWritten
<1>16. AtWritten' /\ AtIdle'
  BY <1>1, <1>2, <1>15 DEF IInv, AtWritten, AtIdle, OkMeansDone
<1>17. QED
  BY <1>11, <1>12, <1>13, <1>14, <1>16 DEF IInv

\* Every step keeps the invariant.
LEMMA InvariantStep == Typing /\ Typing' /\ IInv /\ [Next]_vars => IInv'
<1> SUFFICES ASSUME Typing, Typing', IInv, [Next]_vars PROVE IInv'
  OBVIOUS
<1>1. CASE Written
  BY <1>1, WrittenStep
<1>2. CASE Reading
  BY <1>2, ReadingStep
<1>3. CASE ReadData
  BY <1>3, ReadDataStep
<1> USE I2cAssumption DEF Typing, TypeOK, Commands, Register, OFF, Least,
          call, loop, regs, tx, rx, wire,
          IInv, Moving, AtWrite, AtRead, AtWritten, AtReading, Sizes, FifosFit, AtIdle,
          OkMeansDone, Base, Preamble, WritePiece, LastByte, LastBytes, MoreBytes,
          Addressing, ToSend, Sent, Writing, Received, ReadingPiece
<1>4. ASSUME NEW w \in 0 .. SizeMax, NEW r \in 0 .. SizeMax, Call(w, r)
     PROVE  IInv'
  <2>1. Moving'
    BY <1>4 DEF Call, Returns
  <2>2. AtWrite'
    BY <1>4 DEF Call, Returns
  <2>3. AtRead'
    BY <1>4 DEF Call, Returns
  <2>4. AtWritten'
    BY <1>4 DEF Call, Returns
  <2>5. AtReading'
    BY <1>4 DEF Call, Returns
  <2>6. Sizes'
    BY <1>4 DEF Call, Returns
  <2>7. FifosFit'
    BY <1>4 DEF Call, Returns
  <2>8. AtIdle'
    BY <1>4 DEF Call, Returns
  <2>9. QED
    BY <2>1, <2>2, <2>3, <2>4, <2>5, <2>6, <2>7, <2>8 DEF IInv
<1>5. CASE CheckBus
  <2>1. Moving'
    BY <1>5 DEF CheckBus
  <2>2. AtWrite'
    BY <1>5 DEF CheckBus
  <2>3. AtRead'
    BY <1>5 DEF CheckBus
  <2>4. AtWritten'
    BY <1>5 DEF CheckBus
  <2>5. AtReading'
    BY <1>5 DEF CheckBus
  <2>6. Sizes'
    BY <1>5 DEF CheckBus
  <2>7. FifosFit'
    BY <1>5 DEF CheckBus
  <2>8. AtIdle'
    BY <1>5 DEF CheckBus
  <2>9. QED
    BY <2>1, <2>2, <2>3, <2>4, <2>5, <2>6, <2>7, <2>8 DEF IInv
<1>6. CASE Clear
  <2>1. Moving'
    BY <1>6 DEF Clear, Address
  <2>2. AtWrite'
    BY <1>6 DEF Clear, Address
  <2>3. AtRead'
    BY <1>6 DEF Clear, Address
  <2>4. AtWritten'
    BY <1>6 DEF Clear, Address
  <2>5. AtReading'
    BY <1>6 DEF Clear, Address
  <2>6. Sizes'
    BY <1>6 DEF Clear, Address
  <2>7. FifosFit'
    BY <1>6 DEF Clear, Address
  <2>8. AtIdle'
    BY <1>6 DEF Clear, Address
  <2>9. QED
    BY <2>1, <2>2, <2>3, <2>4, <2>5, <2>6, <2>7, <2>8 DEF IInv
<1>7. CASE LoadWrite
  <2>1. Moving'
    BY <1>7 DEF LoadWrite, Started
  <2>2. AtWrite'
    BY <1>7 DEF LoadWrite, Started
  <2>3. AtRead'
    BY <1>7 DEF LoadWrite, Started
  <2>4. AtWritten'
    BY <1>7 DEF LoadWrite, Started
  <2>5. AtReading'
    BY <1>7 DEF LoadWrite, Started
  <2>6. Sizes'
    BY <1>7 DEF LoadWrite, Started
  <2>7. FifosFit'
    BY <1>7 DEF LoadWrite, Started
  <2>8. AtIdle'
    BY <1>7 DEF LoadWrite, Started
  <2>9. QED
    BY <2>1, <2>2, <2>3, <2>4, <2>5, <2>6, <2>7, <2>8 DEF IInv
<1>8. CASE Turn
  <2>1. Moving'
    BY <1>8 DEF Turn, Address
  <2>2. AtWrite'
    BY <1>8 DEF Turn, Address
  <2>3. AtRead'
    BY <1>8 DEF Turn, Address
  <2>4. AtWritten'
    BY <1>8 DEF Turn, Address
  <2>5. AtReading'
    BY <1>8 DEF Turn, Address
  <2>6. Sizes'
    BY <1>8 DEF Turn, Address
  <2>7. FifosFit'
    BY <1>8 DEF Turn, Address
  <2>8. AtIdle'
    BY <1>8 DEF Turn, Address
  <2>9. QED
    BY <2>1, <2>2, <2>3, <2>4, <2>5, <2>6, <2>7, <2>8 DEF IInv
<1>9. CASE LoadRead
  <2>1. Moving'
    BY <1>9 DEF LoadRead, Started
  <2>2. AtWrite'
    BY <1>9 DEF LoadRead, Started
  <2>3. AtRead'
    BY <1>9 DEF LoadRead, Started
  <2>4. AtWritten'
    BY <1>9 DEF LoadRead, Started
  <2>5. AtReading'
    BY <1>9 DEF LoadRead, Started
  <2>6. Sizes'
    BY <1>9 DEF LoadRead, Started
  <2>7. FifosFit'
    BY <1>9 DEF LoadRead, Started
  <2>8. AtIdle'
    BY <1>9 DEF LoadRead, Started
  <2>9. QED
    BY <2>1, <2>2, <2>3, <2>4, <2>5, <2>6, <2>7, <2>8 DEF IInv
<1>10. CASE Refused
  <2>1. Moving'
    BY <1>10 DEF Refused, GivesUp, Returns
  <2>2. AtWrite'
    BY <1>10 DEF Refused, GivesUp, Returns
  <2>3. AtRead'
    BY <1>10 DEF Refused, GivesUp, Returns
  <2>4. AtWritten'
    BY <1>10 DEF Refused, GivesUp, Returns
  <2>5. AtReading'
    BY <1>10 DEF Refused, GivesUp, Returns
  <2>6. Sizes'
    BY <1>10 DEF Refused, GivesUp, Returns
  <2>7. FifosFit'
    BY <1>10 DEF Refused, GivesUp, Returns
  <2>8. AtIdle'
    BY <1>10 DEF Refused, GivesUp, Returns
  <2>9. QED
    BY <2>1, <2>2, <2>3, <2>4, <2>5, <2>6, <2>7, <2>8 DEF IInv
<1>11. CASE TimedOut
  <2>1. Moving'
    BY <1>11 DEF TimedOut, GivesUp, Returns
  <2>2. AtWrite'
    BY <1>11 DEF TimedOut, GivesUp, Returns
  <2>3. AtRead'
    BY <1>11 DEF TimedOut, GivesUp, Returns
  <2>4. AtWritten'
    BY <1>11 DEF TimedOut, GivesUp, Returns
  <2>5. AtReading'
    BY <1>11 DEF TimedOut, GivesUp, Returns
  <2>6. Sizes'
    BY <1>11 DEF TimedOut, GivesUp, Returns
  <2>7. FifosFit'
    BY <1>11 DEF TimedOut, GivesUp, Returns
  <2>8. AtIdle'
    BY <1>11 DEF TimedOut, GivesUp, Returns
  <2>9. QED
    BY <2>1, <2>2, <2>3, <2>4, <2>5, <2>6, <2>7, <2>8 DEF IInv
<1>12. CASE Restart
  <2>1. Moving'
    BY <1>12 DEF Restart, Does, Tells
  <2>2. AtWrite'
    BY <1>12 DEF Restart, Does, Tells
  <2>3. AtRead'
    BY <1>12 DEF Restart, Does, Tells
  <2>4. AtWritten'
    BY <1>12 DEF Restart, Does, Tells
  <2>5. AtReading'
    BY <1>12 DEF Restart, Does, Tells
  <2>6. Sizes'
    BY <1>12 DEF Restart, Does, Tells
  <2>7. FifosFit'
    BY <1>12 DEF Restart, Does, Tells
  <2>8. AtIdle'
    BY <1>12 DEF Restart, Does, Tells
  <2>9. QED
    BY <2>1, <2>2, <2>3, <2>4, <2>5, <2>6, <2>7, <2>8 DEF IInv
<1>13. CASE WriteAddress
  <2>1. Moving'
    BY <1>13 DEF WriteAddress, Does, Tells
  <2>2. AtWrite'
    BY <1>13 DEF WriteAddress, Does, Tells
  <2>3. AtRead'
    BY <1>13 DEF WriteAddress, Does, Tells
  <2>4. AtWritten'
    BY <1>13 DEF WriteAddress, Does, Tells
  <2>5. AtReading'
    BY <1>13 DEF WriteAddress, Does, Tells
  <2>6. Sizes'
    BY <1>13 DEF WriteAddress, Does, Tells
  <2>7. FifosFit'
    BY <1>13 DEF WriteAddress, Does, Tells
  <2>8. AtIdle'
    BY <1>13 DEF WriteAddress, Does, Tells
  <2>9. QED
    BY <2>1, <2>2, <2>3, <2>4, <2>5, <2>6, <2>7, <2>8 DEF IInv
<1>14. CASE WriteData
  <2>1. Moving'
    BY <1>14 DEF WriteData, Does, Tells
  <2>2. AtWrite'
    BY <1>14 DEF WriteData, Does, Tells
  <2>3. AtRead'
    BY <1>14 DEF WriteData, Does, Tells
  <2>4. AtWritten'
    BY <1>14 DEF WriteData, Does, Tells
  <2>5. AtReading'
    BY <1>14 DEF WriteData, Does, Tells
  <2>6. Sizes'
    BY <1>14 DEF WriteData, Does, Tells
  <2>7. FifosFit'
    BY <1>14 DEF WriteData, Does, Tells
  <2>8. AtIdle'
    BY <1>14 DEF WriteData, Does, Tells
  <2>9. QED
    BY <2>1, <2>2, <2>3, <2>4, <2>5, <2>6, <2>7, <2>8 DEF IInv
<1>15. CASE Nack
  <2>1. Moving'
    BY <1>15 DEF Nack, Does
  <2>2. AtWrite'
    BY <1>15 DEF Nack, Does
  <2>3. AtRead'
    BY <1>15 DEF Nack, Does
  <2>4. AtWritten'
    BY <1>15 DEF Nack, Does
  <2>5. AtReading'
    BY <1>15 DEF Nack, Does
  <2>6. Sizes'
    BY <1>15 DEF Nack, Does
  <2>7. FifosFit'
    BY <1>15 DEF Nack, Does
  <2>8. AtIdle'
    BY <1>15 DEF Nack, Does
  <2>9. QED
    BY <2>1, <2>2, <2>3, <2>4, <2>5, <2>6, <2>7, <2>8 DEF IInv
<1>16. CASE Stop
  <2>1. Moving'
    BY <1>16 DEF Stop, Does, Tells
  <2>2. AtWrite'
    BY <1>16 DEF Stop, Does, Tells
  <2>3. AtRead'
    BY <1>16 DEF Stop, Does, Tells
  <2>4. AtWritten'
    BY <1>16 DEF Stop, Does, Tells
  <2>5. AtReading'
    BY <1>16 DEF Stop, Does, Tells
  <2>6. Sizes'
    BY <1>16 DEF Stop, Does, Tells
  <2>7. FifosFit'
    BY <1>16 DEF Stop, Does, Tells
  <2>8. AtIdle'
    BY <1>16 DEF Stop, Does, Tells
  <2>9. QED
    BY <2>1, <2>2, <2>3, <2>4, <2>5, <2>6, <2>7, <2>8 DEF IInv
<1>17. CASE End
  <2>1. Moving'
    BY <1>17 DEF End, Does
  <2>2. AtWrite'
    BY <1>17 DEF End, Does
  <2>3. AtRead'
    BY <1>17 DEF End, Does
  <2>4. AtWritten'
    BY <1>17 DEF End, Does
  <2>5. AtReading'
    BY <1>17 DEF End, Does
  <2>6. Sizes'
    BY <1>17 DEF End, Does
  <2>7. FifosFit'
    BY <1>17 DEF End, Does
  <2>8. AtIdle'
    BY <1>17 DEF End, Does
  <2>9. QED
    BY <2>1, <2>2, <2>3, <2>4, <2>5, <2>6, <2>7, <2>8 DEF IInv
<1>18. CASE UNCHANGED vars
  <2>1. Moving'
    BY <1>18 DEF vars
  <2>2. AtWrite'
    BY <1>18 DEF vars
  <2>3. AtRead'
    BY <1>18 DEF vars
  <2>4. AtWritten'
    BY <1>18 DEF vars
  <2>5. AtReading'
    BY <1>18 DEF vars
  <2>6. Sizes'
    BY <1>18 DEF vars
  <2>7. FifosFit'
    BY <1>18 DEF vars
  <2>8. AtIdle'
    BY <1>18 DEF vars
  <2>9. QED
    BY <2>1, <2>2, <2>3, <2>4, <2>5, <2>6, <2>7, <2>8 DEF IInv
<1>19. QED
  BY <1>1, <1>2, <1>3, <1>4, <1>5, <1>6, <1>7, <1>8, <1>9, <1>10,
     <1>11, <1>12, <1>13, <1>14, <1>15, <1>16, <1>17, <1>18
     DEF Next, Driver, Controller

LEMMA InvariantHolds == Spec => []IInv
<1>1. Init => Typing /\ IInv
  BY I2cAssumption DEF Init, Typing, TypeOK, Commands, Register, OFF, IInv, Moving, AtWrite,
     AtRead, AtWritten, AtReading, Sizes, FifosFit, AtIdle, OkMeansDone
<1>2. Spec => []Typing
  BY <1>1, TypingStep, PTL DEF Spec
<1>3. QED
  BY <1>1, <1>2, InvariantStep, PTL DEF Spec

\* A call that returns ESP_OK has written its bytes in order and read what the
\* device sent in answer, whatever became of the transfers before it.
THEOREM OkIsDone == Spec => []OkMeansDone
<1>1. IInv => OkMeansDone
  BY DEF IInv, AtIdle
<1>2. QED
  BY <1>1, InvariantHolds, PTL

\* No piece is bigger than the FIFO it goes through.
THEOREM FifosNeverOverrun == Spec => []FifosFit
<1>1. IInv => FifosFit
  BY DEF IInv
<1>2. QED
  BY <1>1, InvariantHolds, PTL
=============================================================================
