------------------------------ MODULE SpiSlave ------------------------------
(***************************************************************************)
(* The SPI slave driver (stm32/project/drivers/spi_slave/src/spi_slave.c)  *)
(* of one peripheral: the device under test (DUT) clocks bytes out of the  *)
(* data register whenever it likes, the interrupt refills the register     *)
(* from tx_buf, and the protocol task replaces tx_buf.  The interrupt can  *)
(* come between any two statements of the task.                            *)
(*                                                                         *)
(* A byte is <<buffer, index>>: which call of spi_slave_set_tx it belongs  *)
(* to and where it stands in it.                                           *)
(***************************************************************************)
EXTENDS Integers

CONSTANTS
    SPI_SLAVE_TX_BUF_MAX,   \* 64 in the firmware
    Buffers                 \* names of the buffers sent by the host, in rotation

ASSUME SpiSlaveAssumption ==
    /\ SPI_SLAVE_TX_BUF_MAX \in Nat \ {0}
    /\ Buffers \in Nat \ {0}

VARIABLES
    initialized, tx_buf, tx_len, tx_idx,  \* spi_slave_state_t
    dr,         \* the transmit side of the data register
    rxne,       \* a byte received is waiting
    txeie,      \* CR2.TXEIE: an empty data register interrupts
    nvic,       \* the peripheral's interrupt is enabled
    step,       \* where spi_slave_set_tx is
    copied,     \* bytes its memcpy has written
    incoming,   \* the buffer it is given: [buf, len]
    served,     \* what the DUT should get next: [buf, len, next]
    txn         \* the buffer whose byte the DUT clocked first since it asserted NSS

driver == <<initialized, tx_buf, tx_len, tx_idx>>
call   == <<step, copied, incoming>>
vars   == <<driver, dr, rxne, txeie, nvic, call, served, txn>>

Index == 0..SPI_SLAVE_TX_BUF_MAX - 1

Empty == <<0, -1>>          \* nothing in the data register
Zero  == <<0, 0>>           \* the 0x00 of spi_slave_init and of a fresh tx_buf
NotSelected == -1           \* NSS is high, or the peripheral is off

\* TXE: the data register is empty.
Txe == dr = Empty

\* The index after i in a circular buffer.
After(i, len) == IF i + 1 >= len THEN 0 ELSE i + 1

----------------------------------------------------------------------------
(* spi_slave_isr. *)

spi_slave_isr ==
    /\ nvic
    /\ rxne \/ (Txe /\ txeie)
    /\ rxne' = FALSE
    /\ IF Txe /\ txeie
       THEN IF tx_idx < tx_len
            THEN dr' = tx_buf[tx_idx] /\ tx_idx' = After(tx_idx, tx_len)
            ELSE dr' = Zero /\ UNCHANGED tx_idx
       ELSE UNCHANGED <<dr, tx_idx>>
    /\ UNCHANGED <<initialized, tx_buf, tx_len, txeie, nvic, call, served, txn>>

----------------------------------------------------------------------------
(* The task. *)

\* spi_slave_init: a zero is preloaded and only RXNE interrupts.
spi_slave_init ==
    /\ ~initialized
    /\ initialized' = TRUE
    /\ tx_idx' = 0
    /\ nvic' = TRUE /\ txeie' = FALSE /\ rxne' = FALSE
    /\ dr' = Zero
    /\ served' = [buf |-> 0, len |-> 1, next |-> 0]
    /\ UNCHANGED <<tx_buf, tx_len, call, txn>>

\* spi_slave_deinit, between two calls.
spi_slave_deinit ==
    /\ step = "return"
    /\ initialized
    /\ initialized' = FALSE
    /\ nvic' = FALSE /\ txeie' = FALSE /\ rxne' = FALSE
    /\ tx_len' = 0 /\ tx_idx' = 0
    /\ dr' = Empty
    /\ served' = [buf |-> 0, len |-> 1, next |-> 0]
    /\ txn' = NotSelected
    /\ UNCHANGED <<tx_buf, call>>

\* A mutation: TXEIE stays on while the buffer is replaced.
SetTx_no_mask(len) ==
    /\ step = "return"
    /\ initialized
    /\ incoming' = [buf |-> (incoming.buf % Buffers) + 1, len |-> len]
    /\ copied' = 0
    /\ step' = "memcpy"
    /\ UNCHANGED <<driver, dr, rxne, txeie, nvic, served, txn>>

\* spi_slave_set_tx, first statement: TXEIE off.
SetTx(len) ==
    /\ step = "return"
    /\ initialized
    /\ incoming' = [buf |-> (incoming.buf % Buffers) + 1, len |-> len]
    /\ copied' = 0
    /\ txeie' = FALSE
    /\ step' = "memcpy"
    /\ UNCHANGED <<driver, dr, rxne, nvic, served, txn>>

\* memcpy, a byte at a time.
Memcpy ==
    /\ step = "memcpy"
    /\ copied < incoming.len
    /\ tx_buf' = [tx_buf EXCEPT ![copied] = <<incoming.buf, copied>>]
    /\ copied' = copied + 1
    /\ UNCHANGED <<initialized, tx_len, tx_idx, dr, rxne, txeie, nvic, step, incoming, served, txn>>

SetLen ==
    /\ step = "memcpy"
    /\ copied = incoming.len
    /\ tx_len' = incoming.len
    /\ tx_idx' = 0
    /\ step' = "preload"
    /\ UNCHANGED <<initialized, tx_buf, dr, rxne, txeie, nvic, copied, incoming, served, txn>>

\* DR = tx_buf[0], over whatever the DUT has not yet clocked out.
Preload ==
    /\ step = "preload"
    /\ dr' = tx_buf[0]
    /\ step' = "index"
    /\ served' = [buf |-> incoming.buf, len |-> incoming.len, next |-> 0]
    /\ UNCHANGED <<driver, rxne, txeie, nvic, copied, incoming, txn>>

SetIndex ==
    /\ step = "index"
    /\ tx_idx' = IF incoming.len > 1 THEN 1 ELSE 0
    /\ step' = "enable"
    /\ UNCHANGED <<initialized, tx_buf, tx_len, dr, rxne, txeie, nvic, copied, incoming, served, txn>>

\* A mutation: the interrupt is not switched on again.
EnableTxe_forgotten ==
    /\ step = "enable"
    /\ step' = "return"
    /\ UNCHANGED <<driver, dr, rxne, txeie, nvic, copied, incoming, served, txn>>

EnableTxe ==
    /\ step = "enable"
    /\ txeie' = TRUE
    /\ step' = "return"
    /\ UNCHANGED <<driver, dr, rxne, nvic, copied, incoming, served, txn>>

----------------------------------------------------------------------------
(* The DUT asserts NSS, clocks as many bytes as it likes and releases NSS; *)
(* the driver is told of neither edge.  An empty data register gives the   *)
(* DUT an undefined byte: an underrun, which is no byte of any buffer.     *)

Select ==
    /\ initialized
    /\ txn = NotSelected
    /\ txn' = 0
    /\ UNCHANGED <<driver, dr, rxne, txeie, nvic, call, served>>

Deselect ==
    /\ txn # NotSelected
    /\ txn' = NotSelected
    /\ UNCHANGED <<driver, dr, rxne, txeie, nvic, call, served>>

Clock ==
    /\ initialized
    /\ txn # NotSelected
    /\ rxne' = TRUE
    /\ dr' = Empty
    /\ served' = IF Txe THEN served ELSE [served EXCEPT !.next = After(@, served.len)]
    /\ txn' = IF Txe \/ txn # 0 THEN txn ELSE dr[1]
    /\ UNCHANGED <<driver, txeie, nvic, call>>

----------------------------------------------------------------------------
Init ==
    /\ initialized = FALSE
    /\ tx_buf = [i \in Index |-> Zero] /\ tx_len = 0 /\ tx_idx = 0
    /\ dr = Empty /\ rxne = FALSE /\ txeie = FALSE /\ nvic = FALSE
    /\ step = "return" /\ copied = 0 /\ incoming = [buf |-> 0, len |-> 0]
    /\ served = [buf |-> 0, len |-> 1, next |-> 0] /\ txn = NotSelected

Next == \/ spi_slave_isr
        \/ spi_slave_init \/ spi_slave_deinit
        \/ \E len \in 1..SPI_SLAVE_TX_BUF_MAX : SetTx(len)
        \/ Memcpy \/ SetLen \/ Preload \/ SetIndex \/ EnableTxe
        \/ Select \/ Deselect \/ Clock

\* Pending interrupts are taken, and a call that began goes on.
Fairness == /\ WF_vars(spi_slave_isr)
            /\ WF_vars(Memcpy \/ SetLen \/ Preload \/ SetIndex \/ EnableTxe)

Spec == Init /\ [][Next]_vars /\ Fairness

----------------------------------------------------------------------------
(* Properties. *)

Bytes == {Empty} \cup ((0..Buffers) \X Index)

\* Every variable has its type; the index never leaves the buffer.
TypeOK ==
    /\ initialized \in BOOLEAN
    /\ tx_buf \in [Index -> (0..Buffers) \X Index]
    /\ tx_len \in 0..SPI_SLAVE_TX_BUF_MAX
    /\ tx_idx \in Index
    /\ dr \in Bytes
    /\ rxne \in BOOLEAN /\ txeie \in BOOLEAN /\ nvic \in BOOLEAN
    /\ step \in {"return", "memcpy", "preload", "index", "enable"}
    /\ copied \in 0..SPI_SLAVE_TX_BUF_MAX
    /\ incoming \in [buf : 0..Buffers, len : 0..SPI_SLAVE_TX_BUF_MAX]
    /\ served \in [buf : 0..Buffers, len : 1..SPI_SLAVE_TX_BUF_MAX, next : Index]
    /\ txn \in {NotSelected} \cup (0..Buffers)

\* For the DUT the buffer is replaced at one instant, the write of DR in
\* spi_slave_set_tx.  Up to it every byte it clocks is the next one of the old
\* buffer, from it on the next one of the new buffer starting with byte 0; no
\* byte is skipped, repeated out of turn or taken from a half-written buffer,
\* wherever the interrupt and the clock fall.  This is what the code does, not
\* all that its documents say: the instant may lie inside a transaction
\* (InFlightUninterrupted), and the interrupt's index goes round within one,
\* where spi_slave.c:42-43 and spi-sensors-spec.md:88 have 0x00 for the excess.
ServesInOrder ==
    /\ ~Txe => dr = <<served.buf, served.next>>
    /\ Txe /\ txeie => /\ tx_idx < tx_len
                       /\ tx_buf[tx_idx] = <<served.buf, served.next>>

\* spi-sensors-spec.md:84-86: "`CMD_SET_OUTPUT` replaces the entire buffer
\* atomically; it takes effect for the next NSS assertion (an in-flight
\* transaction is never interrupted)", and spi_slave.h:37-38 says the same: the
\* bytes of a transaction are all of the buffer it began with.
InFlightUninterrupted == [][Clock /\ ~Txe /\ txn # 0 => dr[1] = txn]_vars

\* While spi_slave_set_tx is not running, a data register the DUT has emptied
\* is filled again, once the sensor has been given a buffer.
Refilled == (step = "return" /\ served.buf # 0 /\ Txe) ~> (~Txe \/ step # "return" \/ ~initialized)
=============================================================================
