-------------------------------- MODULE Uart --------------------------------
(***************************************************************************)
(* The firmware's serial link: the ring buffers and interrupt handler of   *)
(* stm32/project/drivers/uart/src/uart.c and the protocol task that uses   *)
(* them (app_init.c, push_frame in protocol_encoder.c).                    *)
(*                                                                         *)
(* The interrupt handler runs to completion; the task may be interrupted   *)
(* between any two accesses to shared state, which are the steps here.     *)
(* A received byte either completes a frame ("last"), which the dispatcher *)
(* answers with one frame of FrameLen bytes, or does not ("data").  The    *)
(* bytes of an answer are numbered 1 .. FrameLen.                          *)
(***************************************************************************)
EXTENDS Integers, Sequences

CONSTANTS
    UART_RX_BUFFER_SIZE,
    UART_TX_BUFFER_SIZE,
    FrameLen                \* length of an answer frame (10 in the firmware)

ASSUME UartAssumption ==
    /\ UART_RX_BUFFER_SIZE \in Nat /\ UART_RX_BUFFER_SIZE > 1
    /\ UART_TX_BUFFER_SIZE \in Nat /\ UART_TX_BUFFER_SIZE > 1
    /\ FrameLen \in Nat \ {0}

VARIABLES
    rx_buf, rx_head, rx_tail,   \* RX ring: the ISR moves head, the task tail
    tx_buf, tx_head, tx_tail,   \* TX ring: the task moves head, the ISR tail
    txeie,          \* USART1->CR1.TXEIE
    rx_notify_task, \* the task has registered itself
    notified,       \* the task's notification value is not zero
    pc,             \* where the protocol task is
    byte,           \* the byte it popped last
    pushed,         \* bytes of the current answer already in the ring
    heard           \* history: a byte has arrived since the task registered

rxVars == <<rx_buf, rx_head, rx_tail>>
txVars == <<tx_buf, tx_head, tx_tail>>
taskVars == <<pc, byte, pushed>>
vars == <<rxVars, txVars, txeie, rx_notify_task, notified, taskVars, heard>>

RxBytes == {"data", "last"}
TxBytes == 1 .. FrameLen
RxIndex == 0 .. (UART_RX_BUFFER_SIZE - 1)
TxIndex == 0 .. (UART_TX_BUFFER_SIZE - 1)

\* Every variable has its type; in particular the indices stay in their rings.
TypeOK ==
    /\ rx_buf \in [RxIndex -> RxBytes \cup {"none"}] /\ rx_head \in RxIndex /\ rx_tail \in RxIndex
    /\ tx_buf \in [TxIndex -> TxBytes \cup {0}] /\ tx_head \in TxIndex /\ tx_tail \in TxIndex
    /\ txeie \in BOOLEAN /\ rx_notify_task \in BOOLEAN /\ notified \in BOOLEAN
    /\ pc \in {"init", "take", "pop", "read", "advance", "push", "store", "publish", "arm"}
    /\ byte \in RxBytes \cup {"none"} /\ pushed \in 0 .. FrameLen
    /\ heard \in BOOLEAN

Init ==
    /\ rx_buf = [i \in RxIndex |-> "none"] /\ rx_head = 0 /\ rx_tail = 0
    /\ tx_buf = [i \in TxIndex |-> 0] /\ tx_head = 0 /\ tx_tail = 0
    /\ txeie = FALSE /\ rx_notify_task = FALSE /\ notified = FALSE
    /\ pc = "init" /\ byte = "none" /\ pushed = 0
    /\ heard = FALSE

\* (i + 1) & MASK, for a ring of n slots.
Inc(i, n) == IF i + 1 = n THEN 0 ELSE i + 1

-----------------------------------------------------------------------------
(* USART1_IRQHandler                                                        *)

\* A mutation: the full test of the RX branch is missing.
RxInterrupt_overruns(b) ==
    /\ rx_buf' = [rx_buf EXCEPT ![rx_head] = b]
    /\ rx_head' = Inc(rx_head, UART_RX_BUFFER_SIZE)
    /\ notified' = (notified \/ rx_notify_task)
    /\ heard' = (heard \/ rx_notify_task)
    /\ UNCHANGED <<rx_tail, txVars, txeie, rx_notify_task, taskVars>>

\* A byte arrives.  A full ring drops it; the task is notified either way, once
\* it has registered.
RxInterrupt(b) ==
    /\ LET next == Inc(rx_head, UART_RX_BUFFER_SIZE)
       IN  IF next # rx_tail
           THEN rx_buf' = [rx_buf EXCEPT ![rx_head] = b] /\ rx_head' = next
           ELSE UNCHANGED <<rx_buf, rx_head>>
    /\ notified' = (notified \/ rx_notify_task)
    /\ heard' = (heard \/ rx_notify_task)
    /\ UNCHANGED <<rx_tail, txVars, txeie, rx_notify_task, taskVars>>

\* The transmit register is empty: the next byte is sent, or the interrupt is
\* parked when there is none.
TxInterrupt ==
    /\ txeie
    /\ IF tx_tail = tx_head
       THEN txeie' = FALSE /\ UNCHANGED tx_tail
       ELSE /\ tx_tail' = Inc(tx_tail, UART_TX_BUFFER_SIZE)
            /\ UNCHANGED txeie
    /\ UNCHANGED <<rxVars, tx_buf, tx_head, rx_notify_task, notified, taskVars, heard>>

-----------------------------------------------------------------------------
(* task_protocol                                                            *)

\* uart_set_rx_notify_task
Register ==
    /\ pc = "init" /\ pc' = "take"
    /\ rx_notify_task' = TRUE
    /\ UNCHANGED <<rxVars, txVars, txeie, notified, byte, pushed, heard>>

\* ulTaskNotifyTake(pdTRUE, portMAX_DELAY)
Take ==
    /\ pc = "take" /\ notified
    /\ pc' = "pop" /\ notified' = FALSE
    /\ UNCHANGED <<rxVars, txVars, txeie, rx_notify_task, byte, pushed, heard>>

\* uart_rx_pop: the empty test, ...
Pop ==
    /\ pc = "pop"
    /\ pc' = IF rx_tail = rx_head THEN "take" ELSE "read"
    /\ UNCHANGED <<rxVars, txVars, txeie, rx_notify_task, notified, byte, pushed, heard>>

\* ... the byte is read, ...
Read ==
    /\ pc = "read" /\ pc' = "advance"
    /\ byte' = rx_buf[rx_tail]
    /\ UNCHANGED <<rxVars, txVars, txeie, rx_notify_task, notified, pushed, heard>>

\* A mutation: one byte per notification.
Advance_single ==
    /\ pc = "advance"
    /\ rx_tail' = Inc(rx_tail, UART_RX_BUFFER_SIZE)
    /\ pc' = IF byte = "last" THEN "push" ELSE "take"
    /\ pushed' = 0
    /\ UNCHANGED <<rx_buf, rx_head, txVars, txeie, rx_notify_task, notified, byte, heard>>

\* ... and the slot given back.  The parser takes the byte; a frame it
\* completes goes to dispatcher_handle, which ends in an answer.
Advance ==
    /\ pc = "advance"
    /\ rx_tail' = Inc(rx_tail, UART_RX_BUFFER_SIZE)
    /\ pc' = IF byte = "last" THEN "push" ELSE "pop"
    /\ pushed' = 0
    /\ UNCHANGED <<rx_buf, rx_head, txVars, txeie, rx_notify_task, notified, byte, heard>>

\* A mutation: a full ring does not end the loop.
Push_overruns ==
    /\ pc = "push"
    /\ pc' = IF pushed = FrameLen THEN "arm" ELSE "store"
    /\ UNCHANGED <<rxVars, txVars, txeie, rx_notify_task, notified, byte, pushed, heard>>

\* uart_tx_push: the loop ends with the answer or with a full ring, ...
Push ==
    /\ pc = "push"
    /\ pc' = IF pushed = FrameLen \/ Inc(tx_head, UART_TX_BUFFER_SIZE) = tx_tail
             THEN "arm" ELSE "store"
    /\ UNCHANGED <<rxVars, txVars, txeie, rx_notify_task, notified, byte, pushed, heard>>

\* ... the byte is stored, ...
Store ==
    /\ pc = "store" /\ pc' = "publish"
    /\ tx_buf' = [tx_buf EXCEPT ![tx_head] = pushed + 1]
    /\ UNCHANGED <<rxVars, tx_head, tx_tail, txeie, rx_notify_task, notified, byte, pushed, heard>>

\* ... and the head published.
Publish ==
    /\ pc = "publish" /\ pc' = "push"
    /\ tx_head' = Inc(tx_head, UART_TX_BUFFER_SIZE)
    /\ pushed' = pushed + 1
    /\ UNCHANGED <<rxVars, tx_buf, tx_tail, txeie, rx_notify_task, notified, byte, heard>>

\* A mutation: the transmit interrupt is not enabled.
Arm_forgotten ==
    /\ pc = "arm" /\ pc' = "pop"
    /\ UNCHANGED <<rxVars, txVars, txeie, rx_notify_task, notified, byte, pushed, heard>>

\* CR1 |= TXEIE.  The handler only ever clears this bit, so it makes no
\* difference whether it runs between the read and the write of CR1.
Arm ==
    /\ pc = "arm" /\ pc' = "pop"
    /\ txeie' = (txeie \/ pushed > 0)
    /\ UNCHANGED <<rxVars, txVars, rx_notify_task, notified, byte, pushed, heard>>

task_protocol == Register \/ Take \/ Pop \/ Read \/ Advance \/ Push \/ Store \/ Publish \/ Arm

Next == task_protocol \/ TxInterrupt \/ \E b \in RxBytes : RxInterrupt(b)

\* The protocol task is only preempted by interrupts and by the short callbacks
\* of the timer service, and a byte in the transmit register leaves after one
\* byte time.  Nothing is assumed of the sender.
Fairness == WF_vars(task_protocol) /\ WF_vars(TxInterrupt)

Spec == Init /\ [][Next]_vars /\ Fairness

-----------------------------------------------------------------------------
(* Properties                                                               *)

\* The task holds the oldest byte when it gives a slot back: no interrupt
\* between the read and the store of the index has overwritten or skipped it.
PopsOldest == pc \in {"read", "advance"} =>
                 /\ rx_head # rx_tail
                 /\ pc = "advance" => byte = rx_buf[rx_tail]

\* The task never sleeps on received bytes it has not been told about, except
\* bytes that came before it registered.
NoLostWakeup == pc = "take" /\ rx_head # rx_tail /\ heard => notified

\* No answer byte is stranded: while the ring holds bytes the transmit
\* interrupt is on, or the task is about to switch it on.
TxArmed == tx_head # tx_tail => txeie \/ pc \in {"push", "store", "publish", "arm"}

\* Bytes between tail and head, oldest first.
Held(buf, head, tail, n) ==
    [i \in 1 .. (IF head >= tail THEN head - tail ELSE n - tail + head) |-> buf[(tail + i - 1) % n]]

RxFifo == INSTANCE Fifo WITH
    Capacity <- UART_RX_BUFFER_SIZE - 1, Values <- RxBytes,
    q <- Held(rx_buf, rx_head, rx_tail, UART_RX_BUFFER_SIZE)
TxFifo == INSTANCE Fifo WITH
    Capacity <- UART_TX_BUFFER_SIZE - 1, Values <- TxBytes,
    q <- Held(tx_buf, tx_head, tx_tail, UART_TX_BUFFER_SIZE)

\* Each ring, under every interleaving of the task with the interrupts,
\* implements a bounded queue without a lock ("each side only writes its own
\* index", uart.c:34-37).
RxImplementsFifo == RxFifo!Spec
TxImplementsFifo == TxFifo!Spec

\* Both directions move: a byte at the front of the RX ring is parsed in the
\* end, once any byte has arrived since the task registered, and a byte at the
\* front of the TX ring is sent in the end (task_protocol, USART1_IRQHandler).
Progress ==
    /\ \A i \in RxIndex : (rx_tail = i /\ rx_head # i /\ heard) ~> (rx_tail # i)
    /\ \A i \in TxIndex : (tx_tail = i /\ tx_head # i) ~> (tx_tail # i)
=============================================================================
