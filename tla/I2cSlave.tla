------------------------------ MODULE I2cSlave ------------------------------
(***************************************************************************)
(* The I2C slave driver (stm32/project/drivers/i2c_slave/src/i2c_slave.c)  *)
(* of one peripheral, byte by byte: the device under test (DUT) is the bus *)
(* master, the interrupt handlers serve it from the sensor's register map, *)
(* and the protocol task starts and stops the driver.                      *)
(*                                                                         *)
(* The handlers take one snapshot of the status register and handle ADDR,  *)
(* RXNE, TXE and STOPF in this order.  Interrupts of their priority are    *)
(* masked in every critical section of the kernel, so a handler may be     *)
(* late: later flags join earlier ones, and a START can arrive while the   *)
(* end of the previous transfer is still pending (`late').                 *)
(*                                                                         *)
(* What registers hold is left out: which register a byte comes from or    *)
(* goes to is what matters here.                                           *)
(***************************************************************************)
EXTENDS Integers, FiniteSets

CONSTANTS
    Configs,    \* i2c_slave_cfg_t: [width, len, inc, wrap, writes]
    DutBytes,   \* the bytes the DUT writes
    MaxBytes    \* bound on the data bytes of a transfer

UINT8  == 256               \* values of a byte
UINT16 == 65536             \* values of a uint16_t: reg_ptr, reg_addr_acc, regmap_len

AutoInc == {"NONE", "READ", "WRITE", "BOTH"}

ASSUME I2cSlaveAssumption ==
    /\ Configs \subseteq [width : 0..2, len : 1..(UINT16 - 1), inc : AutoInc,
                          wrap : BOOLEAN, writes : BOOLEAN]
    /\ DutBytes \subseteq 0..(UINT8 - 1)
    /\ MaxBytes \in Nat

VARIABLES
    \* i2c_slave_state_t
    initialized,  \* the driver owns the peripheral
    regmap,       \* the register map it serves: "NULL" or "block"
    cfg,          \* its configuration
    phase,        \* of the transfer
    reg_ptr,      \* the register the next byte belongs to
    reg_addr_acc, \* address bytes received so far
    reg_addr_cnt, \* and their number
    \* the task
    step,         \* where setup or stop is
    heap,         \* the register map's block is allocated
    \* the peripheral
    pe,           \* CR1.PE: the peripheral answers the bus
    nvic,         \* its interrupts are enabled
    sr1,          \* pending flags: ADDR, RXNE, STOPF, AF (TXE: see Txe)
    tra,          \* direction of the matched address: the DUT reads
    rxdr,         \* the byte received
    txdr,         \* the byte to send next, with the register it comes from
    shift,        \* the byte being sent
    \* the DUT
    bus,          \* idle, rx (DUT writes), tx (DUT reads) or ended (NACKed)
    count,        \* bytes of this transfer
    addr,         \* register address sent so far in this transfer
    want,         \* the register the DUT has addressed
    late,         \* this transfer began while flags were pending
    trusted       \* `want' was addressed in time

driver == <<initialized, regmap, cfg, phase, reg_ptr, reg_addr_acc, reg_addr_cnt>>
task   == <<step, heap>>
lines  == <<pe, nvic>>
dut    == <<bus, count, addr, want, late, trusted>>
vars   == <<driver, task, lines, sr1, tra, rxdr, txdr, shift, dut>>

NoByte == -1                \* an empty register; bytes are the register they are read from
Zero   == -2                \* 0x00, from no register

\* DR is empty and the master is waiting for it: TXE (and BTF).
Txe == bus = "tx" /\ "ADDR" \notin sr1 /\ txdr = NoByte

IncOnRead(c)  == c.inc \in {"READ", "BOTH"}
IncOnWrite(c) == c.inc \in {"WRITE", "BOTH"}

----------------------------------------------------------------------------
(* The register map helpers, on the register pointer. *)

\* The auto-increment of regmap_read and regmap_write.
Advance(p, c) ==
    IF p + 1 < c.len THEN p + 1 ELSE IF c.wrap THEN 0 ELSE p

\* regmap_read: the byte, and where the pointer goes.
regmap_read(p, c) ==
    IF p >= c.len THEN [byte |-> Zero, ptr |-> p]
    ELSE [byte |-> p, ptr |-> IF IncOnRead(c) THEN Advance(p, c) ELSE p]

\* regmap_write: where the pointer goes.
regmap_write(p, c) ==
    IF ~c.writes \/ p >= c.len \/ ~IncOnWrite(c) THEN p ELSE Advance(p, c)

----------------------------------------------------------------------------
(* ev_isr, from one snapshot of the flags.  d is the part of the driver's  *)
(* state the handler works on.                                             *)

Transfer == [phase |-> phase, ptr |-> reg_ptr, acc |-> reg_addr_acc, cnt |-> reg_addr_cnt]

\* A mutation: a write does not start a new register address.
OnAddr_keeps_count(d) ==
    IF "ADDR" \notin sr1 THEN d
    ELSE IF tra THEN [d EXCEPT !.phase = "TX"]
    ELSE IF cfg.width = 0 THEN [d EXCEPT !.ptr = 0, !.phase = "RX_DATA"]
    ELSE [d EXCEPT !.phase = "RX_REG_ADDR"]

\* A mutation: a repeated START is not seen as a new transfer.
OnAddr_idle_only(d) ==
    IF "ADDR" \notin sr1 \/ d.phase # "IDLE" THEN d
    ELSE IF tra THEN [d EXCEPT !.phase = "TX"]
    ELSE IF cfg.width = 0 THEN [phase |-> "RX_DATA", ptr |-> 0, acc |-> 0, cnt |-> 0]
    ELSE [phase |-> "RX_REG_ADDR", ptr |-> d.ptr, acc |-> 0, cnt |-> 0]

OnAddr(d) ==
    IF "ADDR" \notin sr1 THEN d
    ELSE IF tra THEN [d EXCEPT !.phase = "TX"]
    ELSE IF cfg.width = 0 THEN [phase |-> "RX_DATA", ptr |-> 0, acc |-> 0, cnt |-> 0]
    ELSE [phase |-> "RX_REG_ADDR", ptr |-> d.ptr, acc |-> 0, cnt |-> 0]

OnByte(d) ==
    LET acc == (d.acc * UINT8 + rxdr) % UINT16 IN
    IF "RXNE" \notin sr1 THEN d
    ELSE CASE d.phase = "RX_REG_ADDR" /\ d.cnt + 1 >= cfg.width ->
                [phase |-> "RX_DATA", ptr |-> acc, acc |-> acc, cnt |-> d.cnt + 1]
           [] d.phase = "RX_REG_ADDR" /\ d.cnt + 1 < cfg.width ->
                [phase |-> d.phase, ptr |-> d.ptr, acc |-> acc, cnt |-> d.cnt + 1]
           [] d.phase = "RX_DATA" -> [d EXCEPT !.ptr = regmap_write(d.ptr, cfg)]
           [] OTHER -> d

OnStop(d) == IF "STOPF" \in sr1 THEN [d EXCEPT !.phase = "IDLE"] ELSE d

\* The handler.  A byte written to an idle transmitter goes straight to the
\* shift register and leaves DR empty again.  The snapshot holds TXE only if
\* ADDR had been cleared before.
ev_isr ==
    LET received == OnByte(OnAddr(Transfer))
        serve    == received.phase = "TX" /\ Txe
        load     == regmap_read(received.ptr, cfg)
        done     == OnStop(IF serve THEN [received EXCEPT !.ptr = load.ptr] ELSE received)
    IN
    /\ nvic
    /\ sr1 \ {"AF"} # {} \/ Txe
    /\ phase' = done.phase
    /\ reg_ptr' = done.ptr
    /\ reg_addr_acc' = done.acc
    /\ reg_addr_cnt' = done.cnt
    /\ sr1' = sr1 \cap {"AF"}
    /\ \/ serve /\ shift = NoByte /\ shift' = load.byte /\ UNCHANGED txdr
       \/ serve /\ shift # NoByte /\ txdr' = load.byte /\ UNCHANGED shift
       \/ ~serve /\ UNCHANGED <<txdr, shift>>
    /\ UNCHANGED <<initialized, regmap, cfg, task, lines, tra, rxdr, dut>>

\* er_isr: the DUT's NACK ends a read.
er_isr ==
    /\ nvic
    /\ "AF" \in sr1
    /\ sr1' = sr1 \ {"AF"}
    /\ phase' = "IDLE"
    /\ UNCHANGED <<initialized, regmap, cfg, reg_ptr, reg_addr_acc, reg_addr_cnt,
                   task, lines, tra, rxdr, txdr, shift, dut>>

----------------------------------------------------------------------------
(* The task: i2c_sensor_setup and i2c_sensor_stop around i2c_slave_init    *)
(* and i2c_slave_deinit, each stopping where an interrupt can see it.      *)

Quiet == /\ sr1' = {} /\ txdr' = NoByte /\ shift' = NoByte
         /\ bus' = "idle" /\ count' = 0 /\ addr' = <<0, 0>> /\ late' = FALSE

\* pvPortMalloc, memset and the preset.
Allocate ==
    /\ step = "off"
    /\ step' = "allocated" /\ heap' = TRUE
    /\ UNCHANGED <<driver, lines, sr1, tra, rxdr, txdr, shift, dut>>

\* i2c_slave_init up to initialized = true; SWRST clears the peripheral.
Populate(c) ==
    /\ step = "allocated"
    /\ step' = "populated"
    /\ initialized' = TRUE /\ regmap' = "block" /\ cfg' = c
    /\ phase' = "IDLE" /\ reg_ptr' = 0 /\ reg_addr_acc' = 0 /\ reg_addr_cnt' = 0
    /\ Quiet /\ want' = 0 /\ trusted' = TRUE
    /\ UNCHANGED <<heap, lines, tra, rxdr>>

\* CR1: from here on the DUT's address is acknowledged.
EnablePeripheral ==
    /\ step = "populated"
    /\ step' = "enabled" /\ pe' = TRUE
    /\ UNCHANGED <<driver, heap, nvic, sr1, tra, rxdr, txdr, shift, dut>>

EnableIrq ==
    /\ step = "enabled"
    /\ step' = "running" /\ nvic' = TRUE
    /\ UNCHANGED <<driver, heap, pe, sr1, tra, rxdr, txdr, shift, dut>>

\* A mutation: stop gives the register map back first.
DisableIrq_after_free ==
    /\ step = "running"
    /\ step' = "masked" /\ heap' = FALSE
    /\ UNCHANGED <<driver, lines, sr1, tra, rxdr, txdr, shift, dut>>

\* i2c_slave_deinit: the interrupts first,
DisableIrq ==
    /\ step = "running"
    /\ step' = "masked" /\ nvic' = FALSE
    /\ UNCHANGED <<driver, heap, pe, sr1, tra, rxdr, txdr, shift, dut>>

\* then the peripheral and the driver's state.  regmap_len, cleared too, is
\* read again only after Populate has set it.
Deinit ==
    /\ step = "masked"
    /\ step' = "deinit"
    /\ nvic' = FALSE /\ pe' = FALSE
    /\ initialized' = FALSE /\ regmap' = "NULL" /\ phase' = "IDLE"
    /\ Quiet
    /\ UNCHANGED <<cfg, reg_ptr, reg_addr_acc, reg_addr_cnt, heap, tra, rxdr, want, trusted>>

\* free_slot: vPortFree.
Free ==
    /\ step = "deinit"
    /\ step' = "off" /\ heap' = FALSE
    /\ UNCHANGED <<driver, lines, sr1, tra, rxdr, txdr, shift, dut>>

----------------------------------------------------------------------------
(* The DUT and the peripheral's side of the bus.  SCL is held low while    *)
(* ADDR or RXNE waits and while a read waits for a byte.                   *)

\* The transfer's flags that the driver has not seen yet.
Pending == sr1 # {}

\* START, or repeated START after a write, with our address: what is left in
\* the transmitter is discarded.
Start(read) ==
    /\ pe
    /\ "ADDR" \notin sr1
    /\ bus # "tx"
    /\ bus' = IF read THEN "tx" ELSE "rx"
    /\ tra' = read
    /\ sr1' = sr1 \cup {"ADDR"}
    /\ txdr' = NoByte /\ shift' = NoByte
    /\ count' = 0 /\ addr' = <<0, 0>>
    /\ late' = Pending
    /\ IF ~read /\ cfg.width = 0
       THEN want' = 0 /\ trusted' = ~Pending
       ELSE want' = want /\ trusted' = (trusted /\ ~Pending)
    /\ UNCHANGED <<driver, task, lines, rxdr>>

\* The DUT writes a byte: of the register address first, then data.  addr is
\* <<bytes sent, their value>>.
DutWrite(b) ==
    LET sent  == addr[1] + 1
        value == (addr[2] * UINT8 + b) % UINT16
    IN
    /\ bus = "rx" /\ sr1 \cap {"ADDR", "RXNE"} = {}
    /\ rxdr' = b
    /\ sr1' = sr1 \cup {"RXNE"}
    /\ \/ /\ addr[1] < cfg.width
          /\ addr' = <<sent, value>>
          /\ IF sent = cfg.width THEN want' = value /\ trusted' = ~late
                                 ELSE UNCHANGED <<want, trusted>>
          /\ UNCHANGED count
       \/ /\ addr[1] >= cfg.width
          /\ count < MaxBytes
          /\ count' = count + 1
          /\ want' = regmap_write(want, cfg)
          /\ UNCHANGED <<addr, trusted>>
    /\ UNCHANGED <<driver, task, lines, tra, txdr, shift, bus, late>>

\* STOP after a write.
DutStop ==
    /\ bus = "rx" /\ "ADDR" \notin sr1
    /\ bus' = "idle"
    /\ sr1' = sr1 \cup {"STOPF"}
    /\ UNCHANGED <<driver, task, lines, tra, rxdr, txdr, shift, count, addr, want, late, trusted>>

\* The DUT clocks a byte and acknowledges it: it wants another one.
DutRead ==
    /\ bus = "tx" /\ shift # NoByte
    /\ count < MaxBytes
    /\ count' = count + 1
    /\ shift' = txdr /\ txdr' = NoByte
    /\ UNCHANGED <<driver, task, lines, sr1, tra, rxdr, bus, addr, want, late, trusted>>

\* The DUT clocks its last byte, NACKs it and sends STOP: AF, and no STOPF.
\* The driver has fetched bytes the DUT did not take, so where a pointer that
\* moves stands now is known only after the next register address.
DutReadLast ==
    /\ bus = "tx" /\ shift # NoByte
    /\ bus' = "ended"
    /\ sr1' = sr1 \cup {"AF"}
    /\ txdr' = NoByte /\ shift' = NoByte
    /\ count' = 0
    /\ trusted' = (trusted /\ ~IncOnRead(cfg))
    /\ UNCHANGED <<driver, task, lines, tra, rxdr, addr, want, late>>

----------------------------------------------------------------------------
Init ==
    /\ initialized = FALSE /\ regmap = "NULL"
    /\ cfg \in Configs
    /\ phase = "IDLE" /\ reg_ptr = 0 /\ reg_addr_acc = 0 /\ reg_addr_cnt = 0
    /\ step = "off" /\ heap = FALSE
    /\ pe = FALSE /\ nvic = FALSE
    /\ sr1 = {} /\ tra = FALSE /\ rxdr = 0 /\ txdr = NoByte /\ shift = NoByte
    /\ bus = "idle" /\ count = 0 /\ addr = <<0, 0>>
    /\ want = 0 /\ late = FALSE /\ trusted = FALSE

Task == \/ Allocate \/ EnablePeripheral \/ EnableIrq
        \/ (\E c \in Configs : Populate(c))
        \/ DisableIrq \/ Deinit \/ Free

Dut == \/ \E read \in BOOLEAN : Start(read)
       \/ \E b \in DutBytes : DutWrite(b)
       \/ DutStop \/ DutRead \/ DutReadLast

Next == ev_isr \/ er_isr \/ Task \/ Dut

\* A pending interrupt is eventually taken, and the task does not stop in the
\* middle of a setup or a stop.
Fairness ==
    /\ WF_vars(ev_isr) /\ WF_vars(er_isr)
    /\ WF_vars(EnableIrq) /\ WF_vars(Deinit)

Spec == Init /\ [][Next]_vars /\ Fairness

----------------------------------------------------------------------------
(* Properties. *)

Flags == {"ADDR", "RXNE", "STOPF", "AF"}

\* Types; the pointer is 16 bits wide and the count of address bytes stays
\* within the width of the address.
TypeOK ==
    /\ initialized \in BOOLEAN /\ regmap \in {"NULL", "block"}
    /\ cfg \in Configs
    /\ phase \in {"IDLE", "RX_REG_ADDR", "RX_DATA", "TX"}
    /\ reg_ptr \in 0..(UINT16 - 1) /\ reg_addr_acc \in 0..(UINT16 - 1)
    /\ reg_addr_cnt \in 0..2 /\ (phase = "RX_REG_ADDR" => reg_addr_cnt < cfg.width)
    /\ step \in {"off", "allocated", "populated", "enabled", "running", "masked", "deinit"}
    /\ heap \in BOOLEAN /\ pe \in BOOLEAN /\ nvic \in BOOLEAN
    /\ sr1 \subseteq Flags /\ tra \in BOOLEAN /\ rxdr \in 0..(UINT8 - 1)
    /\ bus \in {"idle", "rx", "tx", "ended"}

\* As long as its interrupts are enabled, the driver serves a register map
\* that is allocated and set up: the asserts of regmap_read and regmap_write
\* hold, and no handler touches memory the task has freed.
IsrSeesLiveMap == nvic => initialized /\ regmap = "block" /\ heap

\* The register a read returns in its k-th byte, k from 0, when it starts at p.
RegisterRead(p, k) ==
    IF p >= cfg.len THEN Zero
    ELSE IF ~IncOnRead(cfg) THEN p
    ELSE IF cfg.wrap THEN (p + k) % cfg.len
    ELSE IF p + k < cfg.len THEN p + k ELSE cfg.len - 1

\* Whatever the mix of writes, repeated STARTs, partial addresses and reads,
\* once the DUT has addressed a register and the handlers kept up, a read
\* returns the registers from that one on, each byte in its turn although
\* bytes are fetched ahead, and a write goes on where it left off.
ServesAddressed ==
    trusted /\ "ADDR" \notin sr1 =>
        /\ bus = "tx" =>
            /\ shift # NoByte => shift = RegisterRead(want, count)
            /\ txdr # NoByte => shift # NoByte /\ txdr = RegisterRead(want, count + 1)
        /\ bus = "rx" /\ "RXNE" \notin sr1 => reg_ptr = want

\* A read that does not overtake the end of the previous transfer gets its
\* next byte, unless the sensor is stopped: SCL is not held low for ever.
ReadsServed == (bus = "tx" /\ ~late) ~> (shift # NoByte \/ bus # "tx")
=============================================================================
