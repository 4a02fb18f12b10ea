# HILglebone: TLA+ models, checks and proofs

HILglebone tests a device under test (DUT) against simulated sensors. A cloud
backend (Go) hands a BeagleBone (BBB) to a user for a session; the agent on the
BBB (Python) takes the session's commands from NATS and passes them over a
serial line to an STM32 (C, FreeRTOS), which plays the sensors on its pins.

This directory models the parts of that system that carry its logic, checks them
with TLC on small instances and proves their safety properties with TLAPS for
all sizes. Line numbers refer to the commit the models were made from.

## 1. Inventory

### Firmware (`stm32/project`)

| Part | State | Operations | What makes it correct |
|---|---|---|---|
| Sensor table (`command/src/sensor_manager.c`) | slots, id hint | register, lookup, release | ids unique, reused late |
| Dispatcher (`command/src/dispatcher.c`) | none of its own | setup, set_output, stop, sync | table and backends agree; a refused setup leaves no sensor, id or block behind |
| Digital outputs (`simulate/digital_out`) | sensors, reserved pins, software timers | setup, set_output, stop, two expiry callbacks | pins and timers have one owner; a hold is final |
| PWM (`simulate/pwm`) | channels, reserved pins | setup, set_output, stop | reference counts of shared timers; duty arithmetic |
| DAC (`simulate/dac`), SPI master | chips, channels, semaphores | setup, set_output, stop, transfer done | the port has one user |
| SPI slave (`simulate/spi_slave`, `drivers/spi_slave`) | sensors, transmit buffer, index | setup, set_output, stop, interrupt | the DUT reads one buffer after the other, in order |
| I2C (`simulate/i2c`, `drivers/i2c_slave`) | sensors, register maps, state of the transfer | setup, set_output, stop, two interrupts | the interrupt never sees a freed map; the DUT reads what it addressed |
| Timers, GPIO, SPI claim table (`drivers/`) | per timer, pin and port | acquire, release, configure | ownership |
| UART and protocol task (`drivers/uart`, `app/src/app_init.c`) | two lock-free rings, notification | ISR, pop, push | queue behaviour, no lost wake-up |
| Parser, CRC, encoder (`protocol/src`) | parser position, frame buffer | feed, build, push | only whole frames are accepted; resynchronisation |

One task handles commands. Interrupts (USART, timers, SPI, I2C) and the FreeRTOS
timer task change state between its steps. Every setup is a sequence of
acquisitions with a rollback, and all five backends share pins, timers, ports,
the heap and one table.

### Agent (`bbb`)

| Part | State | What makes it correct |
|---|---|---|
| Command bridge (`orchestrator/command_bridge.py`) | session id, in-flight count | only commands of the current session pass; drain finishes what it began |
| Serial link (`comms/stm_link.py`) | sequence counter, pending ACKs | an ACK reaches the command it belongs to, or telemetry |
| Parser (`protocol/parser.py`) | as the firmware's | as the firmware's |
| Response bridge, heartbeat | read the shared `DeviceState` | stamped with the right session |
| OTA bridge (`orchestrator/ota_bridge.py`) | flashing guard | an image is handled once, or redelivered |
| Agent (`orchestrator/agent.py`) | start-up and shutdown order | partial start-ups are undone |

### Backend (`backend`)

| Part | State | What makes it correct |
|---|---|---|
| Sessions (`internal/sessions`) | `sessions` table | one running session per BBB; table and BBB agree |
| Publisher, streams (`internal/natspub`, `infra/nats`) | COMMANDS, TELEMETRY, STATUS streams | delivery at least once |
| Status subscriber, devices (`internal/natssub`, `internal/devices`) | `bbb_devices` rows | the newest heartbeat wins |
| Event bus, WebSocket (`internal/bus`, `internal/ws`) | subscriptions, channels, connections | no event to a closed channel; a slow client stalls nobody |
| Firmware (`internal/firmware`) | object store, `firmware_uploads` | row and object agree |

The hazards of all parts are listed in `PROJECT.json` with the properties that
cover them and, for the others, why there is none.

## 2. Modules

    SensorManager <- SensorTable <- MCSensorTable
    SensorManager, Gpio <- Backend
    Backend, HwTimer <- DigitalOut, Pwm          Backend, SpiPort <- Dac, SpiSlaveSensor
    Backend <- I2cSensor
    DigitalOut, Pwm, Dac, SpiSlaveSensor, I2cSensor <- Dispatcher <- MCDispatcher
    SensorTable, Dispatcher <- DispatcherProofs
    Fifo (abstract queue);  Uart <- UartProofs
    ProtocolParser, Crc16 <- MCProtocolParser    ProtocolParser <- ParserProofs
    SpiSlave <- SpiSlaveProofs                   I2cSlave <- MCI2cSlave, I2cSlaveProofs
    SessionLifecycle <- MCSessionLifecycle, SessionProofs
    StmLink <- StmLinkProofs                     EventBus <- MCEventBus, EventBusProofs

Definitions whose name extends another one's (`Arm_forgotten`, `OnAddr_idle_only`)
and whose comment begins "A mutation" are plausible mistakes in that definition;
no specification uses them.

**SensorManager** is the table of `sensor_manager.c`; definitions have the
names of the functions. `allocate_id` is one relation between the hint and the id:
the first free id from the hint on. **SensorTable** drives it with any sequence of
registrations and releases and adds the history variable `age`; its definitions begin with
`Table` so that one module can prove things about it and about the dispatcher.

**Dispatcher** composes the table with the five backends. A command is one step of
the protocol task, because the task handles a frame to its end before it
takes the next one and no interrupt of the model writes what a handler has read
(`digital_out_sensor.c:274` is the exception, see section 6). Each handler keeps the code's
order: validation, acquisitions, registration, and on a failure the rollback that the code
does, no more. `ret` is what the backend returned and `ack` the answer. A request is a
record whose field `check` is the outcome of the byte-level checks that touch no
state (lengths, ranges), so every early return is an input. Interrupts are actions of
their own: `SwPulseExpires`, `HwPulseExpires`, `LateTransfer`.

The module has two specifications. Under `Spec` the host asks for anything. Under `FreePinsSpec` it
asks for pins that no live sensor uses (`SetupOnFreePins`), because the firmware does not check
pins across backends. The assumption asks for no more than that: a request that is refused for its
format may name any pin, and where a backend does its own check (digital outputs and PWM among
themselves, a further channel of a chip, an occupied SPI slave) the conflict stays an input. For a
chip that is brought up, the bus pins differ from the select and latch pins: `gpio_configure_af` and
`gpio_configure_output` of one pin would undo each other.

What is abstracted: register maps are short sequences of values; SPI buffers and
DAC values are model values; GPIO keeps mode and level. The timer arithmetic
(`compute_psc_arr`, `compute_ccr`) is translated with its wrap-around, with the
counter widths as constants. Out of memory is not a state: the malloc hook in
`main.c:34` halts. In `chip_write` the wait for the semaphore ends with the
transfer's completion or before it; in the second case `LateTransfer` completes
it at any later time, or inside the next `chip_write` between CS going low and the
busy check (`LateWithinWrite`), in which case that write runs with CS high.

**Uart** interleaves the task with the interrupt handler at every access to
shared state (`pc`). A received byte completes a frame or not; a completed frame is answered with
`FrameLen` bytes. The overrun branch of the handler drops a byte and changes
nothing, which the sender's silence covers. **Fifo** is what each ring promises.

**ProtocolParser** is `protocol_parser_feed`, one action per case of its switch, fed
from a line that may lose, change and invent bytes (`Lose`, `Corrupt`, `Insert`). The
agent's `parser.py` is the same machine. The peer encodes with `build_frame`. The CRC
is a parameter; **Crc16** computes the real one bit by bit and is checked against
the published check value by an assumption. `raw` and `crcs` are history: the
bytes since the START the parser locked on, and their reference CRC.

**SpiSlave** is the SPI slave driver with its interrupt between any two statements of
`spi_slave_set_tx`, the `memcpy` a byte at a time, and the DUT clocking whenever it
likes between asserting and releasing NSS (`txn`), of which the driver sees nothing. A byte is named by its buffer and index, so a property can tell a stale, repeated or
half-copied one. `served` is what the DUT should get next. The peripheral's transmit side
is one register: the model has no shift register behind `dr`.

**I2cSlave** is the I2C slave driver byte by byte: `ev_isr` and `er_isr` on one snapshot
of the flags, setup and stop at each point an interrupt can see, and a DUT that
writes, reads, repeats START and stops. A handler may be late, so that flags
accumulate. A byte is named by the register it is read from. `want` is the register the
DUT has addressed; `late` and `trusted` say whether the handlers kept up, as
`ServesAddressed` needs. Left out: what registers hold, bus errors other than a NACK,
general call, and NOSTRETCH (the bus is held while a byte is missing).

**SessionLifecycle** follows the sessions of one BBB through the table, the stream
and the agent. The steps of a request are its SQL statement, its publish
and its revert; `calls` holds the requests in progress. The
stream delivers in order, delivers again what was not acked, and drops what
expired. nats-py runs the callback of a subscription for one message at a time, so
`Dispatch` is the whole handler. Faults are counted by `faults` and chosen by
`Faults`; `orderly` remembers whether requests overlapped or anything but a publish failed, and `serial`
the same but for publishes that time out although they reached the stream. Both begin again when the
agent restarts while nothing is under way: what went wrong before is not carried on.
The backend publishes no runtime commands yet, so only lifecycle commands are in the stream.
A stop clears the agent's session id and no more: the sensors set up in the session stay on the STM32,
and no property says otherwise.

**StmLink** is the agent's end of the serial link: the sequence counter, the map of
pending ACKs, the reader, `sync()` and `send_command`, with the command bridge's
runtime path, the response bridge and the agent's start-up, shutdown and restart
around them. An ACK may be lost, late, of the wrong type, unreadable, or a refusal, which ends the
handshake and is forwarded otherwise; RSP_ERROR and STATUS_REPORT, which this firmware never sends, are left out.
A step is what the event loop runs between two awaits (`pc`, `phase`). The line
loses frames, the firmware answers in order, and a new process keeps what is
still under way from the old one. `InTime` is the one assumption on timing: a
frame is answered or lost before the sequence numbers have come round to it (255 commands).
Frames carry the number of their process and command, a history that only the properties read.

**EventBus** is `bus.go` under concurrent publishers, with one WebSocket handler per client.
Steps are the points where goroutines meet: the two halves of the RWMutex (a waiting writer
already holds new readers off), each channel operation, `closeOnce`, the connection and
the force-close watcher. Of an event only its session counts, of a channel only how full it is.
Subscriptions without a session filter have no caller and are left out.

## 3. Runs

| Run | Question | Instance | States |
|---|---|---|---|
| `sensor_table` | are ids unique, and how soon is one reused? | 3 slots and 6 ids, so the hint wraps over live ids | 67,000 |
| `commands` | do table, pins, timers, buses, pulses, duties and heap agree, and does no sensor reach another's pin? | all five backends under a host that asks for free pins; 2 slots (table full), 3 ids, 2 timers with 2 and 1 channels, one of them wide, 1 port wanted by both SPI roles, 2 DAC channels, 2 I2C sensors, 2 outputs on one port, 6 pins in overlapping requests, refused and invalid requests, transfers that time out | 37,000 |
| `uart` | do the lock-free rings behave as queues, and does nothing get stuck? | rings of 3 slots, answers of 2 bytes: full, partly full and wrapping | 67,000 |
| `frame_parser` | what does the parser accept and lose on a bad line, and does it recover? | payloads of 0 and 2 bytes in a buffer of 3, START inside a payload, 2 faults, the real CRC | 20,000 |
| `i2c_slave` | is a register map always there, and does the DUT read what it addressed? | address widths 0, 1 and 2; wrapping, saturating and fixed pointers; 3 data bytes | 51,000 |
| `spi_slave` | what does the DUT read while the buffer is replaced? | buffers of 1 to 3 bytes, 3 buffers in rotation | 18,000 |
| `sessions` | what survives overlapping requests and every fault, and what holds without? | 3 sessions, 2 overlapping requests, 2 faults of any kind | 470,000 |
| `stm_link` | does each ACK reach its own command or telemetry, once, and do start-up and shutdown end? | 3 sequence numbers, 4 commands (so that they come round), 2 processes, 2 handshake attempts, 1 fault | 850,000 |
| `event_bus` | can a publisher panic or stall, and is a slow client cut off? | 2 publishers, 2 clients of one session, a channel of 1 event, threshold 2 | 220,000 |

The bounds are small because the interesting cases are reached early: a full
table needs as many sensors as slots, a shared timer two channels, a wrap one
more item than the ring holds, a race two requests or publishers, a stray START one damaged byte.
The firmware requires ring sizes that are powers of two so that a mask does the wrap; `Inc`
wraps at any size and the proofs hold for all. The `commands` run uses a `VIEW`
that identifies states differing in names only: `ack` and `ret`, which every command writes before anything
reads them; the slot a sensor is in, since lookups go by id and pools by type and index; and ids up to
a rotation together with the hint. The action properties read the primed answer, and TLC evaluates them
on every step. The run's host asks for free pins, because `PinsAccounted` and `OutputsIsolated` need that;
the other properties of the run are proved for any host (section 5, theorems about `Spec`), and the
pins its requests share are those on which a backend does its own check.
`CHECK_DEADLOCK FALSE` stands where the system may stop: in the session runs each id is
allocated once, in `stm_link` the agent's process ends, in `event_bus` every client has left and the
bound on drops is reached.

What the properties say is written above each of them. Those that most repay reading:

- `SensorsAccounted`, `SetupAllOrNothing`, `PinsAccounted`, `BusOwnership`: table, backends, drivers and heap tell one story after any sequence of setups, refusals, stops and interrupts.
- `OutputsIsolated`: the level of a digital output changes only by its own set-output or its own pulse.
- `RxImplementsFifo`, `TxImplementsFifo`: each lock-free ring is a bounded queue (refinement of `Fifo`).
- `AcceptedIsWhole`, `IntactFrameAccepted`, `Resynchronises`: every field of an accepted frame comes from the bytes since its START; an undamaged frame that meets a waiting parser is accepted; frames are found again after any damage.
- `ServesInOrder`: for the DUT the SPI buffer is replaced at one instant, which may lie inside a transaction.
- `NoOrphanSession`: a publish that is taken for failed after it reached the stream, and the revert that follows, leave the BBB in no session that the table has ended. What saves a reverted start is the flaw `sessions_revert` shows: if `revertAllocate` did delete the row, the BBB would be in a session without one.
- `ServesAddressed`: prefetching, repeated STARTs and partial addresses never make a read start anywhere but at the addressed register.
- `AckIsOwn`, `ForwardedOnce`: late ACKs neither answer another command nor are published twice.
- `NoPanic`, `EscalatedOnce`, `SlowClientCut`: publishers, closers and handlers of the event bus.

Three runs refute a statement in the repository (the quotations are in
`PROJECT.json`, "findings"):

| Run | What happens |
|---|---|
| `pulse_timer_leak` | `!hw_timer_pulse_acquire(...)` treats ERR_SUCCESS (0) as failure: the setup is refused and the timer stays taken |
| `sessions_revert` | the publish of `session_start` fails; `revertAllocate` looks for status 'allocated' and deletes nothing |
| `spi_in_flight` | the DUT has clocked a byte of the old buffer when `spi_slave_set_tx` overwrites the data register; the next byte of the same transaction is byte 0 of the new buffer (`spi-sensors-spec.md:84`, `spi_slave.h:37`) |

### Further disagreements seen while modelling

They follow from the code the models translate and have no run of their own.

Firmware:

- `digital_out_sensor.c:202`: the inverted test also accepts a hardware-pulse sensor on a timer in PWM mode (`digital-io-spec.md:58` promises ERR_PERIPHERAL_BUSY); `:284` inverts `hw_timer_pulse_start` the same way and answers ERR_INTERNAL when the pulse has started.
- `digital_out_sensor.c:266`: only a software timer is stopped before a hold (`digital-io-spec.md:138`).
- `pwm_sensor.c:45`: the product wraps for a 32-bit timer (`pwm-spec.md:30`); `DutyWithinOneCount` speaks of 16-bit timers.
- `dac_sensor.c:91`: a write that timed out and completes late leaves its semaphore given; the next write is answered at once, before its transfer (`dac-spec.md:141-142`, "gives the semaphore. Protocol task resumes and ACKs the command").
- `dac_sensor.c:164`: a disabled LDAC pin is compared all the same (`dac-spec.md:116`).
- `spi_slave_sensor.c:128`: a refused SPI-slave setup resets pins it shares with the DAC on that port (`dac-spec.md:210`).
- `digital_out_sensor.c`, `pwm_sensor.c`: each knows the pins of its own kind only, and the DAC, SPI slave and I2C backends reserve none, so a setup on a pin of another backend's sensor is accepted and reconfigures it (`protocol-spec.md:231`, "A requested pin is already in use by another active sensor"). `PinsAccounted` and `OutputsIsolated` therefore speak of a host that asks for free pins (`FreePinsSpec`, section 2); what is left without it, `PinsReserved` and `IdlePinsReleased`, is proved for every host.
- `spi_slave.c:42`: "output 0x00 for the excess" describes a branch that a set buffer never reaches: the index wraps, and the buffer repeats within one transaction (`spi-sensors-spec.md:88` promises 0x00 too). `ServesInOrder` says in which order bytes come, round after round, and not that they stop. `spi_slave.h:31` declares a parameter `data_bits` the definition does not have.
- `i2c_slave.c:265`: "so there is no race" holds for the data register. A START that arrives while RXNE or STOPF of the previous transfer is pending is handled first, and the old byte or the old STOP is then taken for the new transfer's; `ServesAddressed` and `ReadsServed` therefore speak of transfers whose flags were handled in time.
- `i2c_slave.c:173`: writes that are not allowed are acknowledged and ignored (the I2C specification's flag table says "else NACKed").
- `i2c_slave.c:204`: a read does not reset the pointer, so a streaming sensor without register address goes on where the last read's prefetch left it.
- `uart.c:112`: an answer that does not fit into the ring is cut and the next one follows the fragment (`protocol_encoder.c:48`, "we never emit a partial frame"). The parser at the other end then takes the next answer's first bytes for the rest; `BoundedLoss` bounds what that costs.
- `app_init.c:54`: bytes received before the task registers give no notification.

Wire protocol: bytes are not stuffed, so a parser that lost its place can lock on to a START inside a
payload. `Resynchronises` holds when from some point on the peer sends frames without an inner
START; a peer that repeats one frame with inner STARTs for ever can be missed for ever. There is no
timeout between bytes: a truncated frame waits for the bytes of the next one. Retransmission and the
discarding of duplicates (`protocol-spec.md:282`) are not implemented on either side.

Agent and backend:

- `sessions/service.go:159`: Stop frees the BBB in the table before it publishes. Allocate(s2) between the two publishes first: the agent drops start(s2) and then takes stop(s1), and s2 runs in the cloud only, without any fault (`:174`, "the bus event reflects the same state the BBB sees"). `SidesAgree` and `NoOrphanSession` therefore speak of requests that do not overlap.
- `command_bridge.py:161`: when the ack of start(s1) is lost and it is redelivered after stop(s1), the agent is in s1 again (`:156`, "so a stale or duplicated lifecycle message can't corrupt our view of the world").
- `stm_link.py:110`: the sequence counter starts at 0 in every process, so an ACK of the old process can satisfy the new handshake, or end it with a SyncError if its type differs (`stm-link.md:121` rules that out for retries only; `protocol-spec.md:278` has CMD_SYNC reset both counters). `AckIsOwn` therefore speaks of the ACKs of one process.
- `response_bridge.py:122`: a late ACK is stamped with the session at the time it is forwarded, which may be the next one. A solicited ACK cannot cross sessions, since nats-py runs one callback of a subscription at a time.

## 4. Fairness

| Module | Assumed | Not assumed |
|---|---|---|
| `Uart` | the protocol task runs (only interrupts and short timer callbacks preempt it); an enabled transmit interrupt is taken | anything of the sender |
| `ProtocolParser` | the peer goes on sending and the line delivering, for `Resynchronises` only | which frames are sent; faults are bounded, never forced |
| `SpiSlave` | a pending interrupt is taken; a call of `spi_slave_set_tx` goes on | that the DUT clocks |
| `I2cSlave` | pending interrupts are taken; setup and stop do not stay half done | anything of the DUT |
| `SessionLifecycle` | a request that has begun ends (the publish has a timeout); the agent handles what is delivered | that anybody makes a request; faults are never forced |
| `StmLink` | the event loop runs what is ready and its timers fire | anything of the firmware or the line |
| `EventBus` | goroutines that can run do; the RWMutex starves nobody | that clients read, connect or leave, or that any timeout runs out |

## 5. Proofs

Every theorem holds for all values of the constants that satisfy the named assumptions;
TLC evaluates them on every run. They say that sizes are positive, that requests are
records of the right fields (pins are pins, timers are timers), that a map has fewer than 2^16
registers (`regmap_len` is a `uint16_t`), that on a 16-bit timer the product in `compute_ccr` fits
in 32 bits (`DutyAssumption`), that payloads fit the frame and the CRC is a number
(`FramesAssumption`), and the like.

| Module | Theorems | Invariant and why it is needed |
|---|---|---|
| `DispatcherProofs`, table | `TableTypeCorrect`, `TableUniqueIds` | `TableInv` = types and uniqueness together: a release clears the right slot only while ids are unique, and `AllocateFresh` gives a new id because the hint stays in range |
| | `TableRecycleGap` | `GapInv`: for every id, the ids issued since it was, plus the free ones whose turn comes before it, are at least ID_MAX - MAX_SLOTS. `allocate_id` skips live ids, and there are fewer of them than slots |
| `DispatcherProofs`, commands | `DispatcherTypeCorrect`, `DispatcherAccounts`, `DispatcherPwmTimers`, `DispatcherArmedPulses`, `DispatcherBuses`, `DispatcherIdlePins`, `DispatcherPins` | `DispInv`, see below |
| | `DispatcherSetups`, `DispatcherHolds`, `DispatcherDuty` | action properties from `DispInv`: every setup ends in `SetupOutcome` (refused and nothing changed, or a new id); the answer carries what the backend returned (`AckFollows`); `CcrExact` does the arithmetic of `compute_ccr` |
| | `DispatcherPinModes`, `DispatcherIsolation` | of `FreePinsSpec`: `FreeInv` on top of `DispInv`, see below |
| | `DispatcherImplementsTable`, `DispatcherRecycleGap` | `TableUse`: every step of the dispatcher registers one sensor, releases one id or leaves the table alone, whatever backend and rollback it goes through. With the history `age` added (`AgeHistory`) it is a step of `SensorTable`, and the gap proved there holds for the whole firmware |
| `UartProofs` | `UartTypeCorrect`, `UartPopsOldest`, `UartNoLostWakeup`, `UartTxArmed` | `UartInv` adds what the task knows between two accesses: the slot it stores into is not the interrupt's, the bytes held are answer bytes, the interrupt is armed for what was there before a push, and the task has registered |
| | `UartRxImplementsFifo`, `UartTxImplementsFifo` | refinement of `Fifo`: the mapping is the sequence of bytes between tail and head (`HeldIs`); a step that moves an index appends to it or takes its head, and a store into a free slot does not show |
| `ParserProofs` | `ParserTypeCorrect`, `AcceptsWholeFrames`, `LossIsBounded` | `ParserInv` ties the parser's registers to the bytes fed: the state fixes their number (`Position`), the fields are those bytes (`Header`, `Stored`), the running CRC is theirs (`Checksum`). It holds for any CRC function and any number of faults |
| | `AcceptsIntactFrames` | `Underway`: while nothing has befallen a frame, the bytes taken are its first ones and the reference CRCs are those the encoder computed. What the encoder's recursive CRC computes comes from the least-number principle (`LeastNatural`, `CrcStepsAre`) |
| `SpiSlaveProofs` | `SpiTypeCorrect`, `SpiServesInOrder` | `SpiInv`: at each statement of `spi_slave_set_tx`, how much of the buffer is the new one (`Filled`), that the interrupt does not look meanwhile (`Masked`), and how the index relates to the data register (`IndexAhead`) |
| `I2cSlaveProofs` | `I2cTypeCorrect`, `I2cIsrSeesLiveMap` | `LiveInv`: what each point of setup and stop has established |
| | `I2cServesAddressed` | `ServeInv`: for each pattern of flags the step of the transfer the driver is in, what it will make of a byte it has not taken yet, and how far its pointer has run ahead of the DUT with the bytes it has fetched |
| `EventBusProofs` | `BusNoPanic`, `BusEscalatedOnce` | `BusInv`: a publisher in its loop holds the read lock and visits registered subscriptions only, a registered channel is open, and nobody closes a subscription before it is registered. `QueueInv`: a queued subscription's count is at the threshold, so the next drop cannot queue it again |
| `SessionProofs` | `SessionsTypeCorrect`, `SessionsAtMostOneActive` | the unique index guards both statements that make a row running |
| | `SessionsSidesAgree` | `OrderlyInv`: at most one request is in progress and what it has done, that starts and stops alternate in the stream, and for what the agent's session is waiting |
| | `SessionsNoOrphan` | `SerialInv`: at most one request is in progress, and every session the agent is in, or will be by a start in the stream, has a running row, a stop in progress or a stop later in the stream. It is weaker than `OrderlyInv`, which a late publish breaks |
| `StmLinkProofs` | `LinkTypeCorrect`, `LinkOnlyWaiterPending` | `WaiterInv`: every way out of `send_command` pops the entry it made, and the reader resolves only entries that exist; `AttemptsInv`: `sync` counts each attempt before it sends |
| | `LinkAckIsOwn`, `LinkForwardedOnce` | `NumberInv`: the number of a frame on the line is as far behind the last command's as commands were sent after it, fewer than the range, so equal numbers mean the same command. `OncePlaceInv`: an ACK is on the line, with the hook, with the handler or published, and in one of these only |

### The invariant of the dispatcher

`DispInv` is a conjunction with one part per component. None of them is inductive alone, since every
command goes through the table and a backend at once; each is needed where another part's step would
otherwise be able to break it.

- `TableOK`, `TableMatches`: ids are unique, and the live slots of the table are, one each, the live sensors of the five pools. A stop looks the sensor up by id, so both are needed to release the right one.
- `DoutInv`: reserved pins are the pins of live outputs, a free record is cleared, and an armed timer belongs to a live hardware-timed output *and is the first of its token* (`ArmedOK`). The last part is there because of the timers that the inverted test leaks (section 3): a leaked timer carries a token too, and a stop releases the first one it finds.
- `PwmInv`: a live channel sits in the slot of its timer and channel, so that a timer's live channels can be counted; the count is `pwm_ref_count`, exactly the live channels are enabled, and a timer is in PWM mode while there is one. `TimersOK` bounds reload values by the width of the counter.
- `SpiInv`: on each port (`PortOK`) the claim, the driver's records, the chip, its channel mask and the slave sensor tell one story, and a transfer is under way only on a master port.
- `I2cInv`: the driver is initialised and has a register map exactly for the live sensors, and a free record is cleared.
- `HeapInv`: the heap holds one block per I2C sensor, software timer and DAC chip.
- `PinsIdle`: a pin that no part uses floats. It follows the pins through every setup, rollback and stop of every backend (`PinsStep`).

`RegisterAdds` and `ReleaseRemoves` say what a registration and a release do to the set of live sensors, and
each backend has lemmas on what its calls change; the proof that a step keeps `DispInv` combines
them, one case per handler and interrupt.

`FreeInv` says that each pin of a live sensor is in the mode its backend configured (`I2cWired`, `SlavesWired`,
`ChipsWired`, `DoutWired`, `PwmWired`), that no two sensors of a backend share a pin, and that no two
backends do (`BackendsApart`). `PinsAccounted` alone is not inductive: a stop resets the pins of the
sensor it stops, and a failed bring-up those it has configured, which leaves the others alone only because they
are elsewhere; and the next setup keeps them apart only if all pins in use are known to be
those of the five pools (`UsedPinsKnown`). Each backend has one lemma per call that says which pins it
touches (`Isolated`): its own and free ones. `DispatcherIsolation` reads the levels off the same lemmas.
Before it was proved, `FreeInv` was checked with TLC.

### Only model-checked

Liveness (`Progress`, `Refilled`, `ReadsServed`, `StopReachesAgent`, `PublishReturns`, `SlowClientCut`,
`Resynchronises`, `PhasesEnd`): the prover has no rule for fairness. That `crc16_step` is CRC-16-CCITT: TLC
evaluates it on the published check value; the proofs about frames hold for any CRC.

## 6. Not modelled

- **OTA bridge**: flashing is a stub that logs, so no state of the device depends on it; what remains is download, size and checksum, and one `finally` that acks.
- **Heartbeat, status subscriber, devices**: a timer that publishes a snapshot and one guarded UPDATE per message. A registration is stamped with the server's clock, so the guard skips heartbeats of a BBB whose clock is behind.
- **Firmware uploads**: an object and a row under a fresh id, written one after the other; nothing else writes either.
- **Interrupts inside a `set_output`**: the pulse interrupt between the drive of a new pulse's level and the store of its revert level (`digital_out_sensor.c:274`); the rebuilt `tx_buf` of a transfer still being shifted out (`dac_sensor.c:249`); a register map read in the middle of a copy (`i2c_sensor.c:409`), where the code promises nothing but whole bytes.
- **Payload builders and byte layouts of commands, clock and register set-up, configuration, HTTP wiring, generated protobuf code, the Yocto image**: no state whose order of changes matters.
