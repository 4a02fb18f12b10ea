--------------------------- MODULE I2cSlaveProofs ---------------------------
(***************************************************************************)
(* What holds of the I2C slave for every set of configurations and every   *)
(* bus traffic: its handlers never run without a live register map, and a  *)
(* read returns the registers the DUT has addressed.                       *)
(*                                                                         *)
(* IsrSeesLiveMap says nothing while the interrupts are off; LiveInv says  *)
(* what each point of setup and stop has established (MapInPlace) and      *)
(* where the interrupts can be on (IrqWhileRunning).                       *)
(*                                                                         *)
(* ServesAddressed speaks of the bytes in flight.  ServeInv says in which  *)
(* step of a transfer the driver is for every pattern of flags, what the   *)
(* handler will make of a byte it has not taken yet (BytePending), and how *)
(* far its pointer has run ahead of the DUT (PointerAfter).                *)
(***************************************************************************)
EXTENDS I2cSlave, TLAPS

IrqWhileRunning == nvic => step = "running"

MapInPlace ==
    /\ step \in {"populated", "enabled", "running", "masked"} => initialized /\ regmap = "block" /\ heap
    /\ step \in {"allocated", "deinit"} => heap

LiveInv == IrqWhileRunning /\ MapInPlace

\* What the proof looks at; the handlers and the DUT leave it alone.
watched == <<initialized, regmap, step, heap, nvic>>

LEMMA InitLiveInv == Init => LiveInv
BY DEF Init, LiveInv, IrqWhileRunning, MapInPlace

LEMMA HandlersKeepWatched == ev_isr \/ er_isr => UNCHANGED watched
BY DEF ev_isr, er_isr, watched, task, lines

LEMMA DutKeepsWatched == Dut => UNCHANGED watched
<1>1. ASSUME NEW read \in BOOLEAN, Start(read) PROVE UNCHANGED watched
  BY <1>1 DEF Start, watched, driver, task, lines
<1>2. ASSUME NEW b \in DutBytes, DutWrite(b) PROVE UNCHANGED watched
  BY <1>2 DEF DutWrite, watched, driver, task, lines
<1>3. DutStop \/ DutRead \/ DutReadLast => UNCHANGED watched
  BY DEF DutStop, DutRead, DutReadLast, watched, driver, task, lines
<1> QED BY <1>1, <1>2, <1>3 DEF Dut

\* The steps of setup and stop, in their order.
LEMMA TaskKeepsLiveInv == LiveInv /\ Task => LiveInv'
<1> SUFFICES ASSUME LiveInv, Task PROVE LiveInv'
  OBVIOUS
<1> USE DEF LiveInv, IrqWhileRunning, MapInPlace
<1>1. CASE Allocate
  BY <1>1 DEF Allocate, driver, lines
<1>2. ASSUME NEW c \in Configs, Populate(c) PROVE LiveInv'
  BY <1>2 DEF Populate, lines
<1>3. CASE EnablePeripheral
  BY <1>3 DEF EnablePeripheral, driver
<1>4. CASE EnableIrq
  BY <1>4 DEF EnableIrq, driver
<1>5. CASE DisableIrq
  BY <1>5 DEF DisableIrq, driver
<1>6. CASE Deinit
  BY <1>6 DEF Deinit
<1>7. CASE Free
  BY <1>7 DEF Free, driver, lines
<1> QED BY <1>1, <1>2, <1>3, <1>4, <1>5, <1>6, <1>7 DEF Task

LEMMA NextKeepsLiveInv == LiveInv /\ [Next]_vars => LiveInv'
<1> SUFFICES ASSUME LiveInv, [Next]_vars PROVE LiveInv'
  OBVIOUS
<1>1. CASE UNCHANGED watched
  BY <1>1 DEF LiveInv, IrqWhileRunning, MapInPlace, watched
<1>2. CASE UNCHANGED vars
  BY <1>1, <1>2 DEF vars, watched, driver, task, lines
<1> QED BY <1>1, <1>2, HandlersKeepWatched, DutKeepsWatched, TaskKeepsLiveInv DEF Next

\* i2c_slave_init sets its state up before it enables the interrupts, and
\* i2c_slave_deinit comes before the map is freed: whenever a handler runs, the
\* asserts of regmap_read and regmap_write hold and the memory is allocated.
THEOREM I2cIsrSeesLiveMap == Spec => []IsrSeesLiveMap
<1>1. LiveInv => IsrSeesLiveMap
  BY DEF LiveInv, IrqWhileRunning, MapInPlace, IsrSeesLiveMap
<1> QED BY <1>1, InitLiveInv, NextKeepsLiveInv, PTL DEF Spec

-----------------------------------------------------------------------------
(* Types.  The handler's three parts are taken one after the other, on the  *)
(* part of the driver's state they work on.                                 *)

Phases == {"IDLE", "RX_REG_ADDR", "RX_DATA", "TX"}

TransferType == [phase : Phases, ptr : 0..(UINT16 - 1), acc : 0..(UINT16 - 1), cnt : 0..2]

\* While the address is being received, bytes of it are missing.
AddressOpen(p, n) == p = "RX_REG_ADDR" => n < cfg.width

WellFormed(d) == d \in TransferType /\ AddressOpen(d.phase, d.cnt)

LEMMA FieldsOf ==
    ASSUME NEW d \in TransferType
    PROVE  /\ d.phase \in Phases /\ d.ptr \in 0..(UINT16 - 1) /\ d.acc \in 0..(UINT16 - 1) /\ d.cnt \in 0..2
           /\ d = [phase |-> d.phase, ptr |-> d.ptr, acc |-> d.acc, cnt |-> d.cnt]
BY DEF TransferType

LEMMA Changed ==
    ASSUME NEW d \in TransferType, NEW p, NEW r
    PROVE  /\ [d EXCEPT !.phase = p] = [phase |-> p, ptr |-> d.ptr, acc |-> d.acc, cnt |-> d.cnt]
           /\ [d EXCEPT !.ptr = r] = [phase |-> d.phase, ptr |-> r, acc |-> d.acc, cnt |-> d.cnt]
BY DEF TransferType

LEMMA Formed ==
    ASSUME NEW p \in Phases, NEW r \in 0..(UINT16 - 1), NEW a \in 0..(UINT16 - 1), NEW n \in 0..2, AddressOpen(p, n)
    PROVE  WellFormed([phase |-> p, ptr |-> r, acc |-> a, cnt |-> n])
BY DEF WellFormed, TransferType

\* The two word sizes; their definitions stay closed, so that no prover
\* enumerates the ranges.
LEMMA WordSizes == UINT8 \in Nat /\ UINT8 > 2 /\ UINT16 \in Nat /\ UINT16 > 2
BY DEF UINT8, UINT16

LEMMA ConfigTypes ==
    ASSUME TypeOK
    PROVE  cfg.width \in 0..2 /\ cfg.len \in 1..(UINT16 - 1) /\ cfg.wrap \in BOOLEAN
BY I2cSlaveAssumption DEF TypeOK

\* The register pointer stays within 16 bits: it only moves to a lower register
\* or to the next one below len, from a register below len.
LEMMA ReadMovesPointer ==
    ASSUME TypeOK, NEW p \in 0..(UINT16 - 1) PROVE regmap_read(p, cfg).ptr \in 0..(UINT16 - 1)
BY ConfigTypes, WordSizes DEF regmap_read, Advance

LEMMA WriteMovesPointer ==
    ASSUME TypeOK, NEW p \in 0..(UINT16 - 1) PROVE regmap_write(p, cfg) \in 0..(UINT16 - 1)
BY ConfigTypes, WordSizes DEF regmap_write, Advance

LEMMA AddrWellFormed ==
    ASSUME TypeOK, NEW d, WellFormed(d) PROVE WellFormed(OnAddr(d))
<1>1. /\ d \in TransferType /\ d.phase \in Phases /\ d.ptr \in 0..(UINT16 - 1)
      /\ d.acc \in 0..(UINT16 - 1) /\ d.cnt \in 0..2
  BY FieldsOf DEF WellFormed
<1>2. 0 \in 0..(UINT16 - 1) /\ 0 \in 0..2
  BY WordSizes
<1>3. CASE "ADDR" \notin sr1
  BY <1>3 DEF OnAddr
<1>4. CASE "ADDR" \in sr1 /\ tra
  <2>1. OnAddr(d) = [phase |-> "TX", ptr |-> d.ptr, acc |-> d.acc, cnt |-> d.cnt]
    BY <1>1, <1>4, Changed DEF OnAddr
  <2> QED BY <1>1, <2>1, Formed DEF Phases, AddressOpen
<1>5. CASE "ADDR" \in sr1 /\ ~tra /\ cfg.width = 0
  <2>1. OnAddr(d) = [phase |-> "RX_DATA", ptr |-> 0, acc |-> 0, cnt |-> 0]
    BY <1>5 DEF OnAddr
  <2> QED BY <1>2, <2>1, Formed DEF Phases, AddressOpen
<1>6. CASE "ADDR" \in sr1 /\ ~tra /\ cfg.width # 0
  <2>1. OnAddr(d) = [phase |-> "RX_REG_ADDR", ptr |-> d.ptr, acc |-> 0, cnt |-> 0]
    BY <1>6 DEF OnAddr
  <2>2. AddressOpen("RX_REG_ADDR", 0)
    BY <1>6, ConfigTypes DEF AddressOpen
  <2> QED BY <1>1, <1>2, <2>1, <2>2, Formed DEF Phases
<1> QED BY <1>3, <1>4, <1>5, <1>6

LEMMA ByteWellFormed ==
    ASSUME TypeOK, NEW d, WellFormed(d) PROVE WellFormed(OnByte(d))
<1> DEFINE acc == (d.acc * UINT8 + rxdr) % UINT16
<1>1. /\ d \in TransferType /\ d.phase \in Phases /\ d.ptr \in 0..(UINT16 - 1)
      /\ d.acc \in 0..(UINT16 - 1) /\ d.cnt \in 0..2
  BY FieldsOf DEF WellFormed
<1>2. acc \in 0..(UINT16 - 1)
  <2>1. d.acc * UINT8 + rxdr \in Nat
    BY <1>1, WordSizes DEF TypeOK
  <2> QED BY <2>1, WordSizes
<1>3. cfg.width \in 0..2
  BY ConfigTypes
<1>4. CASE "RXNE" \notin sr1
  BY <1>4 DEF OnByte
<1>5. CASE "RXNE" \in sr1 /\ d.phase = "RX_REG_ADDR" /\ d.cnt + 1 >= cfg.width
  <2>1. OnByte(d) = [phase |-> "RX_DATA", ptr |-> acc, acc |-> acc, cnt |-> d.cnt + 1]
    BY <1>1, <1>3, <1>5 DEF OnByte
  <2>2. d.cnt + 1 \in 0..2
    BY <1>1, <1>3, <1>5 DEF WellFormed, AddressOpen
  <2> HIDE DEF acc
  <2> QED BY <1>2, <2>1, <2>2, Formed DEF Phases, AddressOpen
<1>6. CASE "RXNE" \in sr1 /\ d.phase = "RX_REG_ADDR" /\ d.cnt + 1 < cfg.width
  <2>1. ~(d.cnt + 1 >= cfg.width) /\ d.cnt + 1 \in 0..2
    BY <1>1, <1>3, <1>6
  <2>2. OnByte(d) = [phase |-> d.phase, ptr |-> d.ptr, acc |-> acc, cnt |-> d.cnt + 1]
    BY <1>6, <2>1 DEF OnByte
  <2> HIDE DEF acc
  <2>3. AddressOpen(d.phase, d.cnt + 1)
    BY <1>6 DEF AddressOpen
  <2> QED BY <1>1, <1>2, <2>1, <2>2, <2>3, Formed
<1>7. CASE "RXNE" \in sr1 /\ d.phase = "RX_DATA"
  <2>1. OnByte(d) = [phase |-> d.phase, ptr |-> regmap_write(d.ptr, cfg), acc |-> d.acc, cnt |-> d.cnt]
    BY <1>1, <1>7, Changed DEF OnByte
  <2>2. regmap_write(d.ptr, cfg) \in 0..(UINT16 - 1)
    BY <1>1, WriteMovesPointer
  <2> QED BY <1>1, <1>7, <2>1, <2>2, Formed DEF AddressOpen
<1>8. CASE "RXNE" \in sr1 /\ d.phase \notin {"RX_REG_ADDR", "RX_DATA"}
  BY <1>8 DEF OnByte
<1> QED BY <1>1, <1>3, <1>4, <1>5, <1>6, <1>7, <1>8

LEMMA EvIsrKeepsType == ASSUME TypeOK, ev_isr PROVE TypeOK'
<1> DEFINE received == OnByte(OnAddr(Transfer))
           serve    == received.phase = "TX" /\ Txe
           moved    == [received EXCEPT !.ptr = regmap_read(received.ptr, cfg).ptr]
           served   == IF serve THEN moved ELSE received
           done     == OnStop(served)
<1>1. WellFormed(Transfer)
  BY Formed DEF TypeOK, AddressOpen, Transfer, Phases
<1>2. WellFormed(received)
  BY <1>1, AddrWellFormed, ByteWellFormed
<1>3. WellFormed(served)
  <2> HIDE DEF received
  <2>1. /\ received \in TransferType /\ received.phase \in Phases
        /\ received.ptr \in 0..(UINT16 - 1) /\ received.acc \in 0..(UINT16 - 1) /\ received.cnt \in 0..2
    BY <1>2, FieldsOf DEF WellFormed
  <2>2. regmap_read(received.ptr, cfg).ptr \in 0..(UINT16 - 1)
    BY <2>1, ReadMovesPointer
  <2>3. moved = [phase |-> received.phase, ptr |-> regmap_read(received.ptr, cfg).ptr,
                 acc |-> received.acc, cnt |-> received.cnt]
    BY <2>1, Changed
  <2>4. AddressOpen(received.phase, received.cnt)
    BY <1>2 DEF WellFormed
  <2> HIDE DEF moved
  <2>5. WellFormed(moved)
    BY <2>1, <2>2, <2>3, <2>4, Formed
  <2> QED BY <1>2, <2>5
<1>4. WellFormed(done)
  <2> HIDE DEF served
  <2>1. /\ served \in TransferType /\ served.phase \in Phases
        /\ served.ptr \in 0..(UINT16 - 1) /\ served.acc \in 0..(UINT16 - 1) /\ served.cnt \in 0..2
    BY <1>3, FieldsOf DEF WellFormed
  <2>2. CASE "STOPF" \in sr1
    <3>1. done = [phase |-> "IDLE", ptr |-> served.ptr, acc |-> served.acc, cnt |-> served.cnt]
      BY <2>1, <2>2, Changed DEF OnStop
    <3> QED BY <2>1, <3>1, Formed DEF Phases, AddressOpen
  <2>3. CASE "STOPF" \notin sr1
    BY <1>3, <2>3 DEF OnStop
  <2> QED BY <2>2, <2>3
<1>5. /\ phase' = done.phase /\ reg_ptr' = done.ptr /\ reg_addr_acc' = done.acc /\ reg_addr_cnt' = done.cnt
      /\ sr1' \subseteq Flags
  BY DEF ev_isr, TypeOK
<1>6. UNCHANGED <<initialized, regmap, cfg, step, heap, pe, nvic, tra, rxdr, bus>>
  BY DEF ev_isr, task, lines, dut
<1> HIDE DEF done
<1>7. /\ done.phase \in Phases /\ done.ptr \in 0..(UINT16 - 1)
      /\ done.acc \in 0..(UINT16 - 1) /\ done.cnt \in 0..2
      /\ AddressOpen(done.phase, done.cnt)
  BY <1>4, FieldsOf DEF WellFormed
<1> QED BY <1>5, <1>6, <1>7 DEF TypeOK, AddressOpen, Phases

LEMMA TaskKeepsType == ASSUME TypeOK, Task PROVE TypeOK'
<1>1. CASE Allocate \/ Free
  BY <1>1 DEF TypeOK, Allocate, Free, driver, lines, dut
<1>2. CASE EnablePeripheral
  BY <1>2 DEF TypeOK, EnablePeripheral, driver, dut
<1>3. CASE EnableIrq
  BY <1>3 DEF TypeOK, EnableIrq, driver, dut
<1>4. CASE DisableIrq
  BY <1>4 DEF TypeOK, DisableIrq, driver, dut
<1>5. ASSUME NEW c \in Configs, Populate(c) PROVE TypeOK'
  BY <1>5, WordSizes DEF TypeOK, Populate, Quiet, lines, Flags
<1>6. CASE Deinit
  BY <1>6 DEF TypeOK, Deinit, Quiet, Flags
<1> QED BY <1>1, <1>2, <1>3, <1>4, <1>5, <1>6 DEF Task

LEMMA DutKeepsType == ASSUME TypeOK, Dut PROVE TypeOK'
<1>1. ASSUME NEW read \in BOOLEAN, Start(read) PROVE TypeOK'
  BY <1>1 DEF TypeOK, Start, driver, task, lines, Flags
<1>2. ASSUME NEW b \in DutBytes, DutWrite(b) PROVE TypeOK'
  BY <1>2, I2cSlaveAssumption DEF TypeOK, DutWrite, driver, task, lines, Flags
<1>3. CASE DutStop
  BY <1>3 DEF TypeOK, DutStop, driver, task, lines, Flags
<1>4. CASE DutRead
  BY <1>4 DEF TypeOK, DutRead, driver, task, lines
<1>5. CASE DutReadLast
  BY <1>5 DEF TypeOK, DutReadLast, driver, task, lines, Flags
<1> QED BY <1>1, <1>2, <1>3, <1>4, <1>5 DEF Dut

\* The driver's state keeps its types under every bus traffic: the register
\* pointer never leaves 16 bits, however writes and reads move it, and no more
\* address bytes are counted than the configuration has.
THEOREM I2cTypeCorrect == Spec => []TypeOK
<1>1. Init => TypeOK
  <2>1. 0 \in 0..(UINT16 - 1) /\ 0 \in 0..(UINT8 - 1)
    BY WordSizes
  <2> SUFFICES ASSUME Init PROVE TypeOK
    OBVIOUS
  <2>2. /\ initialized \in BOOLEAN /\ heap \in BOOLEAN /\ pe \in BOOLEAN /\ nvic \in BOOLEAN
        /\ tra \in BOOLEAN
    BY DEF Init
  <2>3. sr1 \subseteq Flags /\ rxdr \in 0..(UINT8 - 1)
    BY <2>1 DEF Init
  <2>4. reg_ptr \in 0..(UINT16 - 1) /\ reg_addr_acc \in 0..(UINT16 - 1) /\ reg_addr_cnt \in 0..2
    BY <2>1 DEF Init
  <2>5. phase = "IDLE" /\ regmap = "NULL" /\ step = "off" /\ bus = "idle" /\ cfg \in Configs
    BY DEF Init
  <2> QED BY <2>2, <2>3, <2>4, <2>5 DEF TypeOK
<1>2. TypeOK /\ [Next]_vars => TypeOK'
  <2> SUFFICES ASSUME TypeOK, [Next]_vars PROVE TypeOK'
    OBVIOUS
  <2>1. CASE er_isr
    BY <2>1 DEF TypeOK, er_isr, task, lines, dut
  <2>2. CASE UNCHANGED vars
    BY <2>2 DEF TypeOK, vars, driver, task, lines, dut
  <2> QED BY <2>1, <2>2, EvIsrKeepsType, TaskKeepsType, DutKeepsType DEF Next
<1> QED BY <1>1, <1>2, PTL DEF Spec

-----------------------------------------------------------------------------
(* What the driver serves.                                                 *)

\* The DUT's side of the types.
DutTypes ==
    /\ addr \in (0..2) \X (0..(UINT16 - 1)) /\ want \in 0..(UINT16 - 1)
    /\ count \in Nat /\ late \in BOOLEAN /\ trusted \in BOOLEAN
    /\ shift \in Int /\ txdr \in Int

\* Where the pointer stands when k bytes were fetched from the register the DUT
\* has addressed.
PointerAfter(k) ==
    IF want >= cfg.len \/ ~IncOnRead(cfg) THEN want
    ELSE IF cfg.wrap THEN (want + k) % cfg.len
    ELSE IF want + k < cfg.len THEN want + k ELSE cfg.len - 1

\* The bytes the driver has fetched in this read: taken, being sent, in DR.
Fetched == count + (IF shift = NoByte THEN 0 ELSE 1) + (IF txdr = NoByte THEN 0 ELSE 1)

\* The driver's pointer is the register the DUT has addressed.
Agrees == trusted => reg_ptr = want

\* A byte the handler has not taken yet: of the register address, or data.
BytePending ==
    \/ /\ phase = "RX_REG_ADDR" /\ reg_addr_cnt + 1 = addr[1] /\ addr[1] <= cfg.width
       /\ (reg_addr_acc * UINT8 + rxdr) % UINT16 = addr[2]
       /\ IF addr[1] = cfg.width THEN want = addr[2] ELSE Agrees
    \/ /\ phase = "RX_DATA" /\ addr[1] >= cfg.width
       /\ trusted => want = regmap_write(reg_ptr, cfg)

\* A write whose bytes the handler has all taken.
Taken ==
    /\ Agrees
    /\ IF addr[1] < cfg.width
       THEN phase = "RX_REG_ADDR" /\ reg_addr_cnt = addr[1] /\ reg_addr_acc = addr[2]
       ELSE phase = "RX_DATA"

\* A write that begins.
Written ==
    \/ sr1 = {"ADDR"} /\ addr = <<0, 0>> /\ (IF cfg.width = 0 THEN want = 0 ELSE Agrees)
    \/ sr1 = {} /\ Taken
    \/ sr1 = {"RXNE"} /\ BytePending

\* A read: what is on its way, and the pointer behind it.
Read ==
    \/ sr1 = {"ADDR"} /\ Agrees /\ count = 0 /\ shift = NoByte /\ txdr = NoByte
    \/ /\ sr1 = {}
       /\ trusted => /\ reg_ptr = PointerAfter(Fetched)
                     /\ shift # NoByte => shift = RegisterRead(want, count)
                     /\ txdr # NoByte => txdr = RegisterRead(want, count + 1)
       /\ txdr # NoByte => shift # NoByte

\* Between two transfers, the end of the last one possibly not handled yet.
Idle == /\ sr1 \subseteq {"RXNE", "STOPF"}
        /\ IF "RXNE" \in sr1 THEN BytePending ELSE Agrees

InStep ==
    /\ bus = "idle" => Idle
    /\ bus = "ended" => sr1 \subseteq {"AF"} /\ Agrees
    /\ bus = "rx" => ~tra /\ Written
    /\ bus = "tx" => tra /\ Read

Serving == step \in {"populated", "enabled", "running", "masked"}

ServeInv ==
    /\ DutTypes
    /\ pe => step \in {"enabled", "running", "masked"}
    /\ ~Serving => bus = "idle"
    /\ Serving => IF late THEN ~trusted ELSE InStep

\* A remainder is the only one there is.
LEMMA OneRemainder ==
    ASSUME NEW n \in Nat \ {0}, NEW q \in Nat, NEW r \in 0..(n - 1)
    PROVE  (n * q + r) % n = r
<1> DEFINE c == n * q + r
           s == c % n
           p == c \div n
<1>1. c \in Nat
  OBVIOUS
<1>2. n * p + s = n * q + r /\ p \in Nat /\ s \in 0..(n - 1)
  BY <1>1
<1> HIDE DEF c, s, p
<1>3. ASSUME NEW x \in Nat, NEW y \in Nat, x > y PROVE n * x >= n * y + n
  <2>1. PICK d \in Nat : x = y + 1 + d
    <3>1. x - y - 1 \in Nat /\ x = y + 1 + (x - y - 1)
      BY <1>3
    <3> QED BY <3>1
  <2>2. n * x = n * y + n + n * d /\ n * d \in Nat
    BY <2>1
  <2>3. n * y \in Nat
    OBVIOUS
  <2> QED BY <2>2, <2>3
<1>4. n * p \in Nat /\ n * q \in Nat
  BY <1>2
<1>5. ~(p > q) /\ ~(q > p)
  BY <1>2, <1>3, <1>4
<1>6. p = q
  BY <1>2, <1>5
<1>7. s = r
  BY <1>2, <1>4, <1>6
<1> QED BY <1>7 DEF s, c

\* Counting round a ring of n places, one place further.
LEMMA NextModulo ==
    ASSUME NEW a \in Nat, NEW n \in Nat \ {0}
    PROVE  (a + 1) % n = IF (a % n) + 1 < n THEN (a % n) + 1 ELSE 0
<1> DEFINE q == a \div n
           r == a % n
<1>1. a = n * q + r /\ q \in Nat /\ r \in 0..(n - 1)
  OBVIOUS
<1> HIDE DEF q, r
<1>2. CASE r + 1 < n
  <2>1. a + 1 = n * q + (r + 1) /\ r + 1 \in 0..(n - 1)
    BY <1>1, <1>2
  <2>2. (n * q + (r + 1)) % n = r + 1
    BY <1>1, <2>1, OneRemainder
  <2> QED BY <1>2, <2>1, <2>2 DEF r
<1>3. CASE ~(r + 1 < n)
  <2>1. a + 1 = n * (q + 1) + 0 /\ q + 1 \in Nat /\ 0 \in 0..(n - 1)
    BY <1>1, <1>3
  <2>2. (n * (q + 1) + 0) % n = 0
    BY <2>1, OneRemainder
  <2> QED BY <1>3, <2>1, <2>2 DEF r
<1> QED BY <1>2, <1>3

\* Fetching a byte moves from one place of the read to the next.
LEMMA FetchNext ==
    ASSUME TypeOK, DutTypes, NEW k \in Nat
    PROVE  /\ PointerAfter(k) \in Nat
           /\ regmap_read(PointerAfter(k), cfg) = [byte |-> RegisterRead(want, k), ptr |-> PointerAfter(k + 1)]
<1>1. want \in Nat /\ cfg.len \in Nat \ {0} /\ cfg.wrap \in BOOLEAN
  BY ConfigTypes, WordSizes DEF DutTypes
<1>2. CASE want >= cfg.len \/ ~IncOnRead(cfg)
  BY <1>1, <1>2 DEF PointerAfter, regmap_read, RegisterRead
<1>3. CASE want < cfg.len /\ IncOnRead(cfg) /\ cfg.wrap
  <2> DEFINE p == (want + k) % cfg.len
  <2>1. p \in 0..(cfg.len - 1)
    BY <1>1
  <2>2. (want + k + 1) % cfg.len = IF p + 1 < cfg.len THEN p + 1 ELSE 0
    <3>1. want + k \in Nat
      BY <1>1
    <3> QED BY <1>1, <3>1, NextModulo
  <2>3. PointerAfter(k) = p /\ RegisterRead(want, k) = p
    BY <1>1, <1>3 DEF PointerAfter, RegisterRead
  <2>4. PointerAfter(k + 1) = IF p + 1 < cfg.len THEN p + 1 ELSE 0
    <3>1. want + (k + 1) = want + k + 1
      BY <1>1
    <3> QED BY <1>1, <1>3, <2>2, <3>1 DEF PointerAfter
  <2> HIDE DEF p
  <2> QED BY <1>1, <1>3, <2>1, <2>3, <2>4 DEF regmap_read, Advance
<1>4. CASE want < cfg.len /\ IncOnRead(cfg) /\ ~cfg.wrap
  BY <1>1, <1>4 DEF PointerAfter, RegisterRead, regmap_read, Advance
<1> QED BY <1>1, <1>2, <1>3, <1>4

\* A read starts at the register itself.
LEMMA PointerAtStart == ASSUME TypeOK, DutTypes PROVE PointerAfter(0) = want
<1>1. want \in Nat /\ cfg.len \in Nat \ {0}
  BY ConfigTypes, WordSizes DEF DutTypes
<1>2. want < cfg.len => want % cfg.len = want
  BY <1>1
<1> QED BY <1>1, <1>2 DEF PointerAfter

LEMMA TransferFields ==
    ASSUME TypeOK
    PROVE  /\ Transfer \in TransferType
           /\ Transfer.phase = phase /\ Transfer.ptr = reg_ptr
           /\ Transfer.acc = reg_addr_acc /\ Transfer.cnt = reg_addr_cnt
<1>1. WellFormed(Transfer)
  BY Formed DEF TypeOK, AddressOpen, Transfer, Phases
<1> QED BY <1>1 DEF WellFormed, Transfer

\* What the handler does with the last byte of an address, with an earlier one,
\* and with data.
LEMMA LastAddressByte ==
    ASSUME NEW d \in TransferType, "RXNE" \in sr1, d.phase = "RX_REG_ADDR",
           cfg.width \in 0..2, d.cnt + 1 >= cfg.width
    PROVE  OnByte(d) = [phase |-> "RX_DATA", ptr |-> (d.acc * UINT8 + rxdr) % UINT16,
                        acc |-> (d.acc * UINT8 + rxdr) % UINT16, cnt |-> d.cnt + 1]
<1>1. d.cnt \in Int /\ ~(d.cnt + 1 < cfg.width)
  BY FieldsOf
<1> QED BY <1>1 DEF OnByte

LEMMA AddressByte ==
    ASSUME NEW d \in TransferType, "RXNE" \in sr1, d.phase = "RX_REG_ADDR",
           d.cnt + 1 < cfg.width, ~(d.cnt + 1 >= cfg.width)
    PROVE  OnByte(d) = [phase |-> d.phase, ptr |-> d.ptr,
                        acc |-> (d.acc * UINT8 + rxdr) % UINT16, cnt |-> d.cnt + 1]
BY DEF OnByte

LEMMA DataByte ==
    ASSUME NEW d \in TransferType, "RXNE" \in sr1, d.phase = "RX_DATA"
    PROVE  OnByte(d) = [phase |-> d.phase, ptr |-> regmap_write(d.ptr, cfg), acc |-> d.acc, cnt |-> d.cnt]
BY Changed DEF OnByte

\* The handler takes a byte: what it knows of the write is then what the DUT
\* has sent.
LEMMA ByteTaken ==
    ASSUME TypeOK, DutTypes, BytePending, "RXNE" \in sr1
    PROVE  /\ trusted => OnByte(Transfer).ptr = want
           /\ IF addr[1] < cfg.width
              THEN /\ OnByte(Transfer).phase = "RX_REG_ADDR" /\ OnByte(Transfer).cnt = addr[1]
                   /\ OnByte(Transfer).acc = addr[2]
              ELSE OnByte(Transfer).phase = "RX_DATA"
<1> DEFINE d == Transfer
           acc == (reg_addr_acc * UINT8 + rxdr) % UINT16
<1>1. /\ d \in TransferType /\ d.phase = phase /\ d.ptr = reg_ptr
      /\ d.acc = reg_addr_acc /\ d.cnt = reg_addr_cnt
  BY TransferFields
<1>2. cfg.width \in 0..2 /\ addr[1] \in 0..2 /\ reg_addr_cnt \in 0..2
  BY ConfigTypes DEF DutTypes, TypeOK
<1> HIDE DEF d, acc
<1>3. CASE phase = "RX_REG_ADDR" /\ addr[1] = cfg.width
  <2>1. acc = addr[2] /\ want = addr[2] /\ reg_addr_cnt + 1 = addr[1]
    BY <1>3 DEF BytePending, acc
  <2>2. d.cnt + 1 >= cfg.width
    BY <1>1, <1>2, <1>3, <2>1
  <2>3. OnByte(d) = [phase |-> "RX_DATA", ptr |-> acc, acc |-> acc, cnt |-> d.cnt + 1]
    BY <1>1, <1>2, <1>3, <2>2, LastAddressByte DEF acc
  <2> QED BY <1>2, <1>3, <2>1, <2>3 DEF d
<1>4. CASE phase = "RX_REG_ADDR" /\ addr[1] # cfg.width
  <2>1. acc = addr[2] /\ Agrees /\ reg_addr_cnt + 1 = addr[1] /\ addr[1] <= cfg.width
    BY <1>4 DEF BytePending, acc
  <2>2. d.cnt + 1 < cfg.width /\ ~(d.cnt + 1 >= cfg.width)
    BY <1>1, <1>2, <1>4, <2>1
  <2>3. OnByte(d) = [phase |-> d.phase, ptr |-> d.ptr, acc |-> acc, cnt |-> d.cnt + 1]
    BY <1>1, <1>4, <2>2, AddressByte DEF acc
  <2> QED BY <1>1, <1>2, <1>4, <2>1, <2>2, <2>3 DEF d, Agrees
<1>5. CASE phase = "RX_DATA"
  <2>1. OnByte(d) = [phase |-> d.phase, ptr |-> regmap_write(d.ptr, cfg), acc |-> d.acc, cnt |-> d.cnt]
    BY <1>1, <1>5, DataByte
  <2>2. addr[1] >= cfg.width /\ (trusted => want = regmap_write(reg_ptr, cfg))
    BY <1>5 DEF BytePending
  <2> QED BY <1>1, <1>2, <1>5, <2>1, <2>2 DEF d
<1> QED BY <1>3, <1>4, <1>5 DEF BytePending

\* What the handler leaves alone.
LEMMA EvIsrFrame ==
    ASSUME ev_isr
    PROVE  /\ UNCHANGED <<cfg, step, pe, tra, rxdr, bus, count, addr, want, late, trusted>>
           /\ sr1' = sr1 \cap {"AF"} /\ nvic /\ (sr1 \ {"AF"} # {} \/ Txe)
BY DEF ev_isr, task, lines, dut

\* The handler during a write, or after it: no byte is asked for.
LEMMA EvIsrWrites ==
    ASSUME TypeOK, ev_isr, bus # "tx"
    PROVE  LET d == OnByte(OnAddr(Transfer))
           IN  /\ reg_ptr' = d.ptr /\ reg_addr_acc' = d.acc /\ reg_addr_cnt' = d.cnt
               /\ "STOPF" \notin sr1 => phase' = d.phase
               /\ UNCHANGED <<txdr, shift>>
<1> DEFINE d == OnByte(OnAddr(Transfer))
           e == OnStop(d)
<1>1. ~Txe
  BY DEF Txe
<1>2. WellFormed(Transfer)
  BY Formed DEF TypeOK, AddressOpen, Transfer, Phases
<1>3. d \in TransferType
  BY <1>2, AddrWellFormed, ByteWellFormed DEF WellFormed
<1>4. /\ phase' = e.phase /\ reg_ptr' = e.ptr /\ reg_addr_acc' = e.acc /\ reg_addr_cnt' = e.cnt
      /\ UNCHANGED <<txdr, shift>>
  BY <1>1 DEF ev_isr
<1> HIDE DEF d
<1>5. CASE "STOPF" \in sr1
  <2>1. e = [phase |-> "IDLE", ptr |-> d.ptr, acc |-> d.acc, cnt |-> d.cnt]
    BY <1>3, <1>5, Changed DEF OnStop
  <2> QED BY <1>4, <1>5, <2>1 DEF d
<1>6. CASE "STOPF" \notin sr1
  BY <1>4, <1>6 DEF OnStop, d
<1> QED BY <1>5, <1>6

\* The handler during a read that it has acknowledged: it fetches the next byte
\* if it takes the transfer for a read, and nothing otherwise.
LEMMA EvIsrReads ==
    ASSUME TypeOK, ev_isr, sr1 = {}
    PROVE  \/ UNCHANGED <<reg_ptr, txdr, shift>>
           \/ /\ reg_ptr' = regmap_read(reg_ptr, cfg).ptr /\ txdr = NoByte
              /\ \/ shift = NoByte /\ shift' = regmap_read(reg_ptr, cfg).byte /\ UNCHANGED txdr
                 \/ shift # NoByte /\ txdr' = regmap_read(reg_ptr, cfg).byte /\ UNCHANGED shift
<1> DEFINE d == Transfer
           load == regmap_read(d.ptr, cfg)
<1>1. d \in TransferType /\ d.ptr = reg_ptr
  BY TransferFields
<1> HIDE DEF d
<1>2. OnByte(OnAddr(d)) = d
  BY DEF OnAddr, OnByte
<1>3. ASSUME NEW x PROVE OnStop(x) = x
  BY DEF OnStop
<1>4. CASE ~(d.phase = "TX" /\ Txe)
  <2>1. reg_ptr' = d.ptr /\ UNCHANGED <<txdr, shift>>
    BY <1>2, <1>3, <1>4 DEF ev_isr, d
  <2> QED BY <1>1, <2>1
<1>5. CASE d.phase = "TX" /\ Txe
  <2>1. /\ reg_ptr' = [d EXCEPT !.ptr = load.ptr].ptr
        /\ \/ shift = NoByte /\ shift' = load.byte /\ UNCHANGED txdr
           \/ shift # NoByte /\ txdr' = load.byte /\ UNCHANGED shift
    BY <1>2, <1>3, <1>5 DEF ev_isr, d
  <2>2. [d EXCEPT !.ptr = load.ptr].ptr = load.ptr
    BY <1>1, Changed
  <2>3. load = regmap_read(reg_ptr, cfg) /\ txdr = NoByte
    BY <1>1, <1>5 DEF Txe
  <2> HIDE DEF load
  <2> QED BY <2>1, <2>2, <2>3
<1> QED BY <1>4, <1>5

\* The handler loads bytes of registers or a zero, whatever its flags.
LEMMA EvIsrKeepsDutTypes == ASSUME TypeOK, DutTypes, ev_isr PROVE DutTypes'
<1> DEFINE received == OnByte(OnAddr(Transfer))
           load == regmap_read(received.ptr, cfg)
<1>1. WellFormed(Transfer)
  BY Formed DEF TypeOK, AddressOpen, Transfer, Phases
<1>2. WellFormed(received)
  BY <1>1, AddrWellFormed, ByteWellFormed
<1>3. received.ptr \in Int
  BY <1>2, FieldsOf DEF WellFormed
<1>4. load.byte \in Int
  <2> HIDE DEF received
  <2> QED BY <1>3 DEF regmap_read, Zero
<1>5. shift' \in {shift, load.byte} /\ txdr' \in {txdr, load.byte}
  BY DEF ev_isr
<1>6. UNCHANGED <<count, addr, want, late, trusted>>
  BY EvIsrFrame
<1> HIDE DEF load
<1> QED BY <1>4, <1>5, <1>6 DEF DutTypes

\* The handler catches up with the DUT: it takes the byte, starts the new
\* transfer or fetches the next byte of a read.
LEMMA EvIsrInStep ==
    ASSUME TypeOK, DutTypes, InStep, ev_isr PROVE InStep'
<1>1. /\ UNCHANGED <<cfg, tra, rxdr, bus, count, addr, want, late, trusted>>
      /\ sr1' = sr1 \cap {"AF"} /\ (sr1 \ {"AF"} # {} \/ Txe)
  BY EvIsrFrame
<1>2. CASE bus = "idle"
  <2>1. Idle /\ "ADDR" \notin sr1 /\ "AF" \notin sr1
    BY <1>2 DEF InStep, Idle
  <2>2. OnAddr(Transfer) = Transfer
    BY <2>1 DEF OnAddr
  <2>3. reg_ptr' = OnByte(Transfer).ptr
    BY <1>2, <2>2, EvIsrWrites
  <2>4. Agrees'
    <3>1. CASE "RXNE" \in sr1
      BY <1>1, <2>1, <2>3, <3>1, ByteTaken DEF Idle, Agrees
    <3>2. CASE "RXNE" \notin sr1
      <4>1. reg_ptr' = reg_ptr
        BY <2>3, <3>2, TransferFields DEF OnByte
      <4> QED BY <1>1, <2>1, <3>2, <4>1 DEF Idle, Agrees
    <3> QED BY <3>1, <3>2
  <2>5. sr1' = {}
    BY <1>1, <2>1
  <2> QED BY <1>1, <1>2, <2>4, <2>5 DEF InStep, Idle
<1>3. CASE bus = "ended"
  BY <1>1, <1>3 DEF InStep, Txe
<1>4. CASE bus = "rx"
  <2>1. ~tra /\ Written /\ ~Txe
    BY <1>4 DEF InStep, Txe
  <2>2. CASE sr1 = {"ADDR"}
    <3>1. addr = <<0, 0>> /\ (IF cfg.width = 0 THEN want = 0 ELSE Agrees)
      BY <2>1, <2>2 DEF Written
    <3> DEFINE d == OnAddr(Transfer)
    <3>2. OnByte(d) = d
      BY <2>2 DEF OnByte
    <3>3. /\ reg_ptr' = d.ptr /\ reg_addr_acc' = d.acc /\ reg_addr_cnt' = d.cnt /\ phase' = d.phase
      BY <1>4, <2>2, <3>2, EvIsrWrites
    <3>4. d = IF cfg.width = 0 THEN [phase |-> "RX_DATA", ptr |-> 0, acc |-> 0, cnt |-> 0]
              ELSE [phase |-> "RX_REG_ADDR", ptr |-> reg_ptr, acc |-> 0, cnt |-> 0]
      BY <2>1, <2>2, TransferFields DEF OnAddr
    <3> HIDE DEF d
    <3>5. cfg.width \in 0..2 /\ addr[1] = 0 /\ addr[2] = 0
      BY <3>1, ConfigTypes
    <3>6. Taken'
      BY <1>1, <3>1, <3>3, <3>4, <3>5 DEF Taken, Agrees
    <3> QED BY <1>1, <1>4, <2>1, <2>2, <3>6 DEF InStep, Written
  <2>3. CASE sr1 = {"RXNE"}
    <3>1. BytePending
      BY <2>1, <2>3 DEF Written
    <3>2. OnAddr(Transfer) = Transfer
      BY <2>3 DEF OnAddr
    <3> DEFINE d == OnByte(Transfer)
    <3>3. /\ reg_ptr' = d.ptr /\ reg_addr_acc' = d.acc /\ reg_addr_cnt' = d.cnt /\ phase' = d.phase
      BY <1>4, <2>3, <3>2, EvIsrWrites
    <3>4. /\ trusted => d.ptr = want
          /\ IF addr[1] < cfg.width THEN d.phase = "RX_REG_ADDR" /\ d.cnt = addr[1] /\ d.acc = addr[2]
             ELSE d.phase = "RX_DATA"
      BY <2>3, <3>1, ByteTaken
    <3> HIDE DEF d
    <3>5. Taken'
      BY <1>1, <3>3, <3>4 DEF Taken, Agrees
    <3> QED BY <1>1, <1>4, <2>1, <2>3, <3>5 DEF InStep, Written
  <2> QED BY <1>1, <2>1, <2>2, <2>3 DEF Written
<1>5. CASE bus = "tx"
  <2>1. tra /\ Read
    BY <1>5 DEF InStep
  <2>2. CASE sr1 = {"ADDR"}
    <3>1. ~Txe /\ Agrees /\ count = 0 /\ shift = NoByte /\ txdr = NoByte
      BY <2>1, <2>2 DEF Read, Txe
    <3> DEFINE d == OnAddr(Transfer)
    <3>2. OnByte(d) = d /\ OnStop(d) = d
      BY <2>2 DEF OnByte, OnStop
    <3>3. d = [phase |-> "TX", ptr |-> reg_ptr, acc |-> reg_addr_acc, cnt |-> reg_addr_cnt]
      BY <2>1, <2>2, TransferFields, Changed DEF OnAddr
    <3>4. reg_ptr' = d.ptr /\ UNCHANGED <<txdr, shift>>
      BY <3>1, <3>2 DEF ev_isr
    <3> HIDE DEF d
    <3>5. UNCHANGED <<reg_ptr, txdr, shift>>
      BY <3>3, <3>4
    <3>6. Fetched' = 0
      BY <1>1, <3>1, <3>5 DEF Fetched
    <3>7. PointerAfter(0)' = want'
      BY <1>1, PointerAtStart DEF PointerAfter
    <3>8. Read'
      BY <1>1, <2>2, <3>1, <3>5, <3>6, <3>7 DEF Read, Agrees
    <3> QED BY <1>1, <1>5, <2>1, <3>8 DEF InStep
  <2>3. CASE sr1 = {}
    <3>1. sr1' = {}
      BY <1>1, <2>3
    <3>2. CASE UNCHANGED <<reg_ptr, txdr, shift>>
      <4>1. Read'
        BY <1>1, <2>1, <2>3, <3>1, <3>2 DEF Read, Fetched, PointerAfter, RegisterRead
      <4> QED BY <1>1, <1>5, <2>1, <4>1 DEF InStep
    <3>3. CASE /\ reg_ptr' = regmap_read(reg_ptr, cfg).ptr /\ txdr = NoByte
               /\ \/ shift = NoByte /\ shift' = regmap_read(reg_ptr, cfg).byte /\ UNCHANGED txdr
                  \/ shift # NoByte /\ txdr' = regmap_read(reg_ptr, cfg).byte /\ UNCHANGED shift
      <4> DEFINE k == Fetched
      <4>1. k \in Nat /\ k = count + (IF shift = NoByte THEN 0 ELSE 1)
        BY <3>3 DEF Fetched, DutTypes
      <4>2. regmap_read(reg_ptr, cfg).byte # NoByte
        BY DEF regmap_read, NoByte, Zero, TypeOK
      <4>3. Fetched' = k + 1 /\ (txdr' # NoByte => shift' # NoByte)
        <5>1. CASE shift = NoByte /\ shift' = regmap_read(reg_ptr, cfg).byte /\ UNCHANGED txdr
          BY <1>1, <3>3, <4>1, <4>2, <5>1 DEF Fetched, DutTypes
        <5>2. CASE shift # NoByte /\ txdr' = regmap_read(reg_ptr, cfg).byte /\ UNCHANGED shift
          BY <1>1, <3>3, <4>1, <4>2, <5>2 DEF Fetched, DutTypes
        <5> QED BY <3>3, <5>1, <5>2
      <4> HIDE DEF k
      <4>4. ASSUME trusted
            PROVE  /\ reg_ptr' = PointerAfter(k + 1)
                   /\ shift' # NoByte => shift' = RegisterRead(want, count)
                   /\ txdr' # NoByte => txdr' = RegisterRead(want, count + 1)
        <5>1. reg_ptr = PointerAfter(k) /\ (shift # NoByte => shift = RegisterRead(want, count))
          BY <2>1, <2>3, <4>4 DEF Read, k
        <5>2. regmap_read(reg_ptr, cfg) = [byte |-> RegisterRead(want, k), ptr |-> PointerAfter(k + 1)]
          BY <4>1, <5>1, FetchNext
        <5>3. count \in Nat
          BY DEF DutTypes
        <5> QED BY <3>3, <4>1, <5>1, <5>2, <5>3
      <4>5. trusted' => /\ reg_ptr' = PointerAfter(Fetched)'
                        /\ shift' # NoByte => shift' = RegisterRead(want, count)'
                        /\ txdr' # NoByte => txdr' = RegisterRead(want, count + 1)'
        BY <1>1, <4>3, <4>4 DEF PointerAfter, RegisterRead
      <4>6. Read'
        BY <3>1, <4>3, <4>5 DEF Read
      <4> QED BY <1>1, <1>5, <2>1, <4>6 DEF InStep
    <3> QED BY <2>3, <3>2, <3>3, EvIsrReads
  <2> QED BY <2>1, <2>2, <2>3 DEF Read
<1>6. bus \in {"idle", "ended", "rx", "tx"}
  BY DEF TypeOK
<1> QED BY <1>2, <1>3, <1>4, <1>5, <1>6

\* The error handler only ends a read that the DUT has ended.
LEMMA ErIsrInStep ==
    ASSUME TypeOK, InStep, er_isr PROVE InStep'
<1>1. /\ UNCHANGED <<cfg, reg_ptr, tra, bus, want, trusted>>
      /\ sr1' = sr1 \ {"AF"} /\ "AF" \in sr1
  BY DEF er_isr, dut
<1>2. bus = "ended"
  BY <1>1 DEF InStep, Idle, Written, Read, TypeOK
<1> QED BY <1>1, <1>2 DEF InStep, Agrees

\* A START in time: the driver's pointer still is where the DUT wants it.
LEMMA StartInStep ==
    ASSUME TypeOK, NEW read \in BOOLEAN, Start(read), sr1 = {},
           IF late THEN ~trusted ELSE InStep
    PROVE  ~late' /\ InStep'
<1>1. /\ UNCHANGED <<cfg, reg_ptr>> /\ sr1' = {"ADDR"} /\ bus # "tx"
      /\ bus' = (IF read THEN "tx" ELSE "rx") /\ tra' = read
      /\ txdr' = NoByte /\ shift' = NoByte /\ count' = 0 /\ addr' = <<0, 0>> /\ ~late'
  BY DEF Start, driver, Pending
<1>2. IF ~read /\ cfg.width = 0 THEN want' = 0
      ELSE want' = want /\ (trusted' => trusted)
  BY DEF Start
<1>3. Agrees
  <2>1. CASE late
    BY <2>1 DEF Agrees
  <2>2. CASE ~late
    <3>1. bus \in {"idle", "ended", "rx"} /\ InStep
      BY <1>1, <2>2 DEF TypeOK
    <3>2. CASE bus = "rx"
      BY <3>1, <3>2 DEF InStep, Written, Taken
    <3>3. CASE bus # "rx"
      BY <3>1, <3>3 DEF InStep, Idle
    <3> QED BY <3>2, <3>3
  <2> QED BY <2>1, <2>2
<1>4. CASE read
  <2>1. Read'
    BY <1>1, <1>2, <1>3, <1>4 DEF Read, Agrees
  <2> QED BY <1>1, <1>4, <2>1 DEF InStep
<1>5. CASE ~read
  <2>1. Written'
    BY <1>1, <1>2, <1>3, <1>5 DEF Written, Agrees
  <2> QED BY <1>1, <1>5, <2>1 DEF InStep
<1> QED BY <1>4, <1>5

\* A START that overtakes the end of the last transfer is not trusted.
LEMMA LateStart ==
    ASSUME NEW read \in BOOLEAN, Start(read), sr1 # {} PROVE late' /\ ~trusted'
BY DEF Start, Pending

\* A byte of the DUT waits for the handler.
LEMMA WriteInStep ==
    ASSUME TypeOK, DutTypes, InStep, ~late, NEW b \in DutBytes, DutWrite(b) PROVE InStep'
<1>1. /\ UNCHANGED <<cfg, phase, reg_ptr, reg_addr_acc, reg_addr_cnt, tra, bus>>
      /\ bus = "rx" /\ rxdr' = b /\ sr1' = sr1 \cup {"RXNE"} /\ sr1 \cap {"ADDR", "RXNE"} = {}
  BY DEF DutWrite, driver
<1>2. ~tra /\ sr1 = {} /\ Taken
  BY <1>1 DEF InStep, Written
<1>3. addr[1] \in 0..2 /\ cfg.width \in 0..2
  BY ConfigTypes DEF DutTypes
<1>4. BytePending'
  <2>1. CASE addr[1] < cfg.width
    <3>1. /\ addr' = <<addr[1] + 1, (addr[2] * UINT8 + b) % UINT16>>
          /\ IF addr[1] + 1 = cfg.width THEN want' = (addr[2] * UINT8 + b) % UINT16
             ELSE UNCHANGED <<want, trusted>>
      BY <1>3, <2>1 DEF DutWrite
    <3>2. phase = "RX_REG_ADDR" /\ reg_addr_cnt = addr[1] /\ reg_addr_acc = addr[2] /\ Agrees
      BY <1>2, <2>1 DEF Taken
    <3>3. addr'[1] = addr[1] + 1 /\ addr'[2] = (reg_addr_acc' * UINT8 + rxdr') % UINT16
      BY <1>1, <3>1, <3>2
    <3>4. IF addr'[1] = cfg.width' THEN want' = addr'[2] ELSE Agrees'
      BY <1>1, <3>1, <3>2, <3>3 DEF Agrees
    <3>5. addr'[1] <= cfg.width' /\ reg_addr_cnt' + 1 = addr'[1] /\ phase' = "RX_REG_ADDR"
      BY <1>1, <1>3, <2>1, <3>2, <3>3
    <3> QED BY <3>3, <3>4, <3>5 DEF BytePending
  <2>2. CASE addr[1] >= cfg.width
    <3>1. want' = regmap_write(want, cfg) /\ UNCHANGED <<addr, trusted>>
      BY <1>3, <2>2 DEF DutWrite
    <3>2. phase = "RX_DATA" /\ Agrees
      BY <1>2, <1>3, <2>2 DEF Taken
    <3>3. trusted' => want' = regmap_write(reg_ptr, cfg)'
      BY <1>1, <3>1, <3>2 DEF Agrees
    <3> QED BY <1>1, <2>2, <3>1, <3>2, <3>3 DEF BytePending
  <2> QED BY <1>3, <2>1, <2>2
<1> QED BY <1>1, <1>2, <1>4 DEF InStep, Written

\* STOP leaves what is pending for the handler.
LEMMA StopInStep ==
    ASSUME InStep, DutStop PROVE InStep'
<1>1. /\ UNCHANGED <<cfg, phase, reg_ptr, reg_addr_acc, reg_addr_cnt, rxdr, addr, want, trusted>>
      /\ bus = "rx" /\ "ADDR" \notin sr1 /\ bus' = "idle" /\ sr1' = sr1 \cup {"STOPF"}
  BY DEF DutStop, driver
<1>2. sr1 \subseteq {"RXNE"} /\ IF "RXNE" \in sr1 THEN BytePending ELSE Agrees
  BY <1>1 DEF InStep, Written, Taken
<1>3. (BytePending => BytePending') /\ (Agrees => Agrees')
  BY <1>1 DEF BytePending, Agrees
<1> QED BY <1>1, <1>2, <1>3 DEF InStep, Idle

\* The DUT takes a byte: the next one moves up.
LEMMA ReadInStep ==
    ASSUME DutTypes, InStep, DutRead PROVE InStep'
<1>1. /\ UNCHANGED <<cfg, reg_ptr, sr1, tra, bus, want, trusted>>
      /\ bus = "tx" /\ shift # NoByte /\ count' = count + 1 /\ shift' = txdr /\ txdr' = NoByte
  BY DEF DutRead, driver
<1>2. tra /\ Read /\ sr1 = {}
  BY <1>1 DEF InStep, Read
<1>3. Fetched' = Fetched
  BY <1>1 DEF Fetched, DutTypes
<1>4. PointerAfter(Fetched)' = PointerAfter(Fetched) /\ RegisterRead(want, count)' = RegisterRead(want, count + 1)
  BY <1>1, <1>3 DEF PointerAfter, RegisterRead
<1>5. Read'
  BY <1>1, <1>2, <1>4 DEF Read
<1> QED BY <1>1, <1>2, <1>5 DEF InStep

\* The DUT takes its last byte: a pointer that reads do not move is still where
\* it was, any other is not trusted any more.
LEMMA ReadLastInStep ==
    ASSUME InStep, DutReadLast PROVE InStep'
<1>1. /\ UNCHANGED <<cfg, reg_ptr, want>> /\ bus = "tx" /\ bus' = "ended" /\ shift # NoByte
      /\ sr1' = sr1 \cup {"AF"} /\ trusted' = (trusted /\ ~IncOnRead(cfg))
  BY DEF DutReadLast, driver
<1>2. Read /\ sr1 = {}
  BY <1>1 DEF InStep, Read
<1>3. Agrees'
  BY <1>1, <1>2 DEF Read, PointerAfter, Agrees
<1> QED BY <1>1, <1>2, <1>3 DEF InStep

LEMMA DutKeepsDutTypes == ASSUME TypeOK, DutTypes, Dut PROVE DutTypes'
<1>1. NoByte \in Int /\ 0 \in 0..(UINT16 - 1) /\ 0 \in 0..2 /\ 0 \in Nat
  BY WordSizes DEF NoByte
<1>2. ASSUME NEW read \in BOOLEAN, Start(read) PROVE DutTypes'
  BY <1>1, <1>2 DEF DutTypes, Start, Pending
<1>3. ASSUME NEW b \in DutBytes, DutWrite(b) PROVE DutTypes'
  <2> DEFINE value == (addr[2] * UINT8 + b) % UINT16
  <2>1. value \in 0..(UINT16 - 1)
    <3>1. b \in Nat /\ addr[2] \in Nat
      BY <1>3, I2cSlaveAssumption, WordSizes DEF DutTypes
    <3>2. addr[2] * UINT8 + b \in Nat
      BY <3>1, WordSizes
    <3> QED BY <3>2, WordSizes
  <2> HIDE DEF value
  <2>2. regmap_write(want, cfg) \in 0..(UINT16 - 1)
    BY WriteMovesPointer DEF DutTypes
  <2>3. cfg.width \in 0..2 /\ addr[1] \in 0..2
    BY ConfigTypes DEF DutTypes
  <2>4. UNCHANGED <<txdr, shift, late>>
    BY <1>3 DEF DutWrite
  <2>5. CASE addr[1] < cfg.width
    <3>1. addr' = <<addr[1] + 1, value>> /\ want' \in {want, value} /\ trusted' \in {trusted, ~late} /\ count' = count
      BY <1>3, <2>3, <2>5 DEF DutWrite, value
    <3>2. addr[1] + 1 \in 0..2
      BY <2>3, <2>5
    <3> QED BY <2>1, <2>4, <3>1, <3>2 DEF DutTypes
  <2>6. CASE addr[1] >= cfg.width
    <3>1. UNCHANGED <<addr, trusted>> /\ want' = regmap_write(want, cfg) /\ count' = count + 1
      BY <1>3, <2>3, <2>6 DEF DutWrite
    <3> QED BY <2>2, <2>4, <3>1 DEF DutTypes
  <2> QED BY <2>3, <2>5, <2>6
<1>4. CASE DutStop \/ DutRead
  BY <1>1, <1>4 DEF DutTypes, DutStop, DutRead
<1>5. CASE DutReadLast
  BY <1>1, <1>5 DEF DutTypes, DutReadLast
<1> QED BY <1>2, <1>3, <1>4, <1>5 DEF Dut

\* The transfers of the DUT keep the driver in step, or are late.
LEMMA DutKeepsServe ==
    ASSUME TypeOK, ServeInv, Dut PROVE ServeInv'
<1>1. DutTypes' /\ UNCHANGED <<step, pe>>
  <2>1. UNCHANGED <<step, pe>>
    BY DEF Dut, Start, DutWrite, DutStop, DutRead, DutReadLast, task, lines
  <2> QED BY <2>1, DutKeepsDutTypes DEF ServeInv
<1>2. pe \/ bus # "idle"
  BY DEF Dut, Start, DutWrite, DutStop, DutRead, DutReadLast
<1>3. Serving /\ Serving' /\ (IF late THEN ~trusted ELSE InStep) /\ DutTypes
  BY <1>1, <1>2 DEF ServeInv, Serving
<1>4. IF late' THEN ~trusted' ELSE InStep'
  <2>1. ASSUME NEW read \in BOOLEAN, Start(read) PROVE IF late' THEN ~trusted' ELSE InStep'
    BY <1>3, <2>1, StartInStep, LateStart
  <2>2. ASSUME NEW b \in DutBytes, DutWrite(b) PROVE IF late' THEN ~trusted' ELSE InStep'
    <3>1. late' = late /\ (late /\ trusted' => trusted)
      <4>1. late' = late /\ (trusted' = ~late \/ trusted' = trusted)
        BY <2>2, Zenon DEF DutWrite
      <4>2. CASE trusted' = ~late
        BY <4>1, <4>2
      <4>3. CASE trusted' = trusted
        BY <4>1, <4>3
      <4> QED BY <4>1, <4>2, <4>3, Zenon
    <3>2. CASE late
      BY <1>3, <3>1, <3>2
    <3>3. CASE ~late
      BY <1>3, <2>2, <3>1, <3>3, WriteInStep
    <3> QED BY <3>2, <3>3
  <2>3. CASE DutStop
    BY <1>3, <2>3, StopInStep DEF DutStop
  <2>4. CASE DutRead
    BY <1>3, <2>4, ReadInStep DEF DutRead
  <2>5. CASE DutReadLast
    BY <1>3, <2>5, ReadLastInStep DEF DutReadLast
  <2> QED BY <2>1, <2>2, <2>3, <2>4, <2>5 DEF Dut
<1> QED BY <1>1, <1>3, <1>4 DEF ServeInv

\* Setup starts with an idle bus at register 0, and nothing is served after stop.
LEMMA TaskKeepsServe ==
    ASSUME TypeOK, ServeInv, Task PROVE ServeInv'
<1>1. NoByte \in Int /\ 0 \in 0..(UINT16 - 1) /\ 0 \in 0..2 /\ 0 \in Nat
  BY WordSizes DEF NoByte
<1>2. ASSUME UNCHANGED <<driver, sr1, tra, rxdr, txdr, shift, dut>>,
             pe' => step' \in {"enabled", "running", "masked"}, Serving' <=> Serving
      PROVE  ServeInv'
  <2>1. DutTypes' <=> DutTypes
    BY <1>2 DEF DutTypes, dut
  <2>2. InStep' <=> InStep
    BY <1>2 DEF InStep, Idle, Written, Read, Taken, BytePending, Agrees, Fetched, PointerAfter, RegisterRead, driver, dut
  <2> QED BY <1>2, <2>1, <2>2 DEF ServeInv, dut
<1>3. CASE Allocate \/ Free
  BY <1>2, <1>3 DEF Allocate, Free, Serving, ServeInv, lines
<1>4. CASE EnablePeripheral
  BY <1>2, <1>4 DEF EnablePeripheral, Serving
<1>5. CASE EnableIrq
  BY <1>2, <1>5 DEF EnableIrq, Serving
<1>6. CASE DisableIrq
  BY <1>2, <1>6 DEF DisableIrq, Serving
<1>7. ASSUME NEW c \in Configs, Populate(c) PROVE ServeInv'
  <2>1. DutTypes'
    BY <1>1, <1>7 DEF Populate, Quiet, DutTypes
  <2>2. ~pe'
    BY <1>7 DEF Populate, ServeInv, lines
  <2>3. bus' = "idle" /\ sr1' = {} /\ reg_ptr' = 0 /\ want' = 0 /\ late' = FALSE
    BY <1>7 DEF Populate, Quiet
  <2>4. InStep'
    BY <2>3 DEF InStep, Idle, Agrees
  <2> QED BY <2>1, <2>2, <2>3, <2>4 DEF ServeInv
<1>8. CASE Deinit
  <2>1. DutTypes'
    BY <1>1, <1>8 DEF Deinit, Quiet, DutTypes, ServeInv
  <2>2. ~pe' /\ bus' = "idle" /\ ~Serving'
    BY <1>8 DEF Deinit, Quiet, Serving
  <2> QED BY <2>1, <2>2 DEF ServeInv
<1> QED BY <1>3, <1>4, <1>5, <1>6, <1>7, <1>8 DEF Task

LEMMA HandlersKeepServe ==
    ASSUME TypeOK, LiveInv, ServeInv, ev_isr \/ er_isr PROVE ServeInv'
<1>1. nvic /\ UNCHANGED <<step, pe, bus, late, trusted>>
  BY DEF ev_isr, er_isr, task, lines, dut
<1>2. Serving /\ Serving'
  BY <1>1 DEF LiveInv, IrqWhileRunning, Serving
<1>3. DutTypes'
  <2>1. CASE ev_isr
    BY <2>1, EvIsrKeepsDutTypes DEF ServeInv
  <2>2. CASE er_isr
    BY <2>2 DEF er_isr, dut, DutTypes, ServeInv
  <2> QED BY <2>1, <2>2
<1>4. ~late => InStep'
  BY <1>2, EvIsrInStep, ErIsrInStep DEF ServeInv
<1> QED BY <1>1, <1>2, <1>3, <1>4 DEF ServeInv

LEMMA NextServeInv == TypeOK /\ LiveInv /\ ServeInv /\ [Next]_vars => ServeInv'
<1> SUFFICES ASSUME TypeOK, LiveInv, ServeInv, [Next]_vars PROVE ServeInv'
  OBVIOUS
<1>1. CASE UNCHANGED vars
  <2>1. InStep' <=> InStep
    BY <1>1 DEF InStep, Idle, Written, Read, Taken, BytePending, Agrees, Fetched, PointerAfter, RegisterRead, vars, driver, dut
  <2> QED BY <1>1, <2>1 DEF ServeInv, DutTypes, Serving, vars, task, lines, dut
<1> QED BY <1>1, HandlersKeepServe, TaskKeepsServe, DutKeepsServe DEF Next

\* Whatever the mix of writes, repeated STARTs, partial addresses and reads, and
\* for every configuration, a DUT whose transfers do not overtake the handlers
\* reads from, and writes to, the registers it has addressed: fetching ahead,
\* wrapping and stopping at the end of the map included.
THEOREM I2cServesAddressed == Spec => []ServesAddressed
<1>1. Init => ServeInv
  <2> SUFFICES ASSUME Init PROVE ServeInv
    OBVIOUS
  <2>1. 0 \in 0..(UINT16 - 1) /\ 0 \in 0..2 /\ NoByte \in Int /\ 0 \in Nat
    BY WordSizes DEF NoByte
  <2>2. DutTypes
    BY <2>1 DEF Init, DutTypes
  <2> QED BY <2>2 DEF Init, ServeInv, Serving
<1>2. ServeInv => ServesAddressed
  <2> SUFFICES ASSUME ServeInv, trusted, "ADDR" \notin sr1, bus \in {"tx", "rx"}
               PROVE  /\ bus = "tx" =>
                            /\ shift # NoByte => shift = RegisterRead(want, count)
                            /\ txdr # NoByte => shift # NoByte /\ txdr = RegisterRead(want, count + 1)
                      /\ bus = "rx" /\ "RXNE" \notin sr1 => reg_ptr = want
    BY DEF ServesAddressed
  <2>1. InStep
    BY DEF ServeInv
  <2>2. bus = "tx" => Read /\ sr1 = {}
    BY <2>1 DEF InStep, Read
  <2>3. bus = "rx" /\ "RXNE" \notin sr1 => Agrees
    BY <2>1 DEF InStep, Written, Taken
  <2> QED BY <2>2, <2>3 DEF Read, Agrees
<1> QED BY <1>1, <1>2, NextServeInv, I2cTypeCorrect, InitLiveInv, NextKeepsLiveInv, PTL DEF Spec
=============================================================================
