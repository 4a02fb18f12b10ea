----------------------------- MODULE UartProofs -----------------------------
(***************************************************************************)
(* The lock-free rings of module Uart are safe for every buffer size and   *)
(* frame length.  The inductive invariant adds to the properties which     *)
(* slots of the TX ring hold answer bytes, that the task stores only into  *)
(* a free slot, and how registration and wake-ups relate.                  *)
(*                                                                         *)
(* The second half shows that each ring implements Fifo: the queue is the  *)
(* sequence of the bytes between the indices, an interrupt or the task     *)
(* puts at one end and gets at the other, and no other step moves it.      *)
(***************************************************************************)
EXTENDS Uart, SequenceTheorems, TLAPS

\* Slot i lies between tail and head.
InRing(i, head, tail) ==
    IF tail <= head THEN tail <= i /\ i < head ELSE tail <= i \/ i < head

TxHeld == \A i \in TxIndex : InRing(i, tx_head, tx_tail) => tx_buf[i] \in TxBytes

TxSlotFree ==
    /\ pc \in {"store", "publish"} =>
          pushed < FrameLen /\ Inc(tx_head, UART_TX_BUFFER_SIZE) # tx_tail
    /\ pc = "publish" => tx_buf[tx_head] \in TxBytes

\* Until the current answer has a byte in the ring, older bytes are on their way.
TxArmedBefore ==
    pc \in {"push", "store", "publish", "arm"} /\ pushed = 0 /\ tx_head # tx_tail => txeie

Registered ==
    /\ (pc = "init") <=> ~rx_notify_task
    /\ heard => rx_notify_task

UartInv == TypeOK /\ PopsOldest /\ NoLostWakeup /\ TxArmed /\ TxArmedBefore
           /\ TxHeld /\ TxSlotFree /\ Registered

\* The successor of a ring index is an index of the ring, and no two indices
\* have the same successor.
LEMMA IncRing ==
    ASSUME NEW n \in Nat, n > 1, NEW i \in 0 .. (n - 1)
    PROVE  /\ Inc(i, n) \in 0 .. (n - 1)
           /\ Inc(i, n) # i
           /\ \A j \in 0 .. (n - 1) : Inc(i, n) = Inc(j, n) => i = j
  BY DEF Inc

\* The initial state satisfies the invariant.
LEMMA InitUartInv == Init => UartInv
  <1> SUFFICES ASSUME Init PROVE UartInv
    OBVIOUS
  <1>1. TypeOK
    <2>1. 0 \in RxIndex /\ 0 \in TxIndex /\ 0 \in 0 .. FrameLen /\ FrameLen \in TxBytes
      BY UartAssumption DEF RxIndex, TxIndex, TxBytes
    <2> QED BY <2>1 DEF Init, TypeOK
  <1>2. PopsOldest /\ NoLostWakeup /\ TxArmed /\ TxArmedBefore /\ Registered /\ TxSlotFree
    BY DEF Init, PopsOldest, NoLostWakeup, TxArmed, TxArmedBefore, Registered, TxSlotFree
  <1>3. TxHeld
    BY DEF Init, TxHeld, InRing, TxIndex
  <1> QED BY <1>1, <1>2, <1>3 DEF UartInv

\* Receiving a byte: the one interrupt that writes the RX ring.
LEMMA RxInterruptUartInv ==
    ASSUME UartInv, NEW b \in RxBytes, RxInterrupt(b)
    PROVE  UartInv'
  <1> USE UartAssumption
  <1>1. Inc(rx_head, UART_RX_BUFFER_SIZE) \in RxIndex
    BY IncRing DEF UartInv, TypeOK, RxIndex
  <1>2. TypeOK'
    BY <1>1 DEF UartInv, TypeOK, RxInterrupt, txVars, taskVars
  <1>3. PopsOldest'
    BY DEF UartInv, TypeOK, PopsOldest, RxInterrupt, txVars, taskVars
  <1>4. NoLostWakeup' /\ Registered'
    BY DEF UartInv, TypeOK, NoLostWakeup, Registered, RxInterrupt, txVars, taskVars
  <1>5. TxArmed' /\ TxArmedBefore' /\ TxHeld' /\ TxSlotFree'
    BY DEF UartInv, TxArmed, TxArmedBefore, TxHeld, TxSlotFree, RxInterrupt, txVars, taskVars
  <1> QED BY <1>2, <1>3, <1>4, <1>5 DEF UartInv

\* Sending a byte or parking the interrupt.
LEMMA TxInterruptUartInv ==
    ASSUME UartInv, TxInterrupt
    PROVE  UartInv'
  <1> USE UartAssumption
  <1>1. Inc(tx_tail, UART_TX_BUFFER_SIZE) \in TxIndex
    BY IncRing DEF UartInv, TypeOK, TxIndex
  <1>2. tx_tail # tx_head => tx_buf[tx_tail] \in TxBytes
    BY DEF UartInv, TypeOK, TxHeld, InRing, TxIndex
  <1>3. TypeOK'
    BY <1>1, <1>2 DEF UartInv, TypeOK, TxInterrupt, rxVars, taskVars
  <1>4. PopsOldest' /\ NoLostWakeup' /\ Registered'
    BY DEF UartInv, PopsOldest, NoLostWakeup, Registered, TxInterrupt, rxVars, taskVars
  <1>5. TxArmed' /\ TxArmedBefore'
    BY DEF UartInv, TypeOK, TxArmed, TxArmedBefore, TxInterrupt, rxVars, taskVars
  <1>6. CASE tx_tail = tx_head
    <2>1. TxHeld' /\ TxSlotFree'
      BY <1>6 DEF UartInv, TxHeld, TxSlotFree, TxInterrupt, taskVars
    <2> QED BY <2>1, <1>3, <1>4, <1>5 DEF UartInv
  <1>7. CASE tx_tail # tx_head
    <2>1. tx_tail' = Inc(tx_tail, UART_TX_BUFFER_SIZE) /\ tx_head' = tx_head /\ tx_buf' = tx_buf
      BY <1>7 DEF TxInterrupt
    <2>2. \A i \in TxIndex : InRing(i, tx_head, Inc(tx_tail, UART_TX_BUFFER_SIZE))
                               => InRing(i, tx_head, tx_tail)
      BY <1>7 DEF UartInv, TypeOK, TxIndex, InRing, Inc
    <2>3. TxHeld'
      BY <2>1, <2>2 DEF UartInv, TxHeld
    <2>4. Inc(tx_head, UART_TX_BUFFER_SIZE) # Inc(tx_tail, UART_TX_BUFFER_SIZE)
      BY <1>7, IncRing DEF UartInv, TypeOK, TxIndex
    <2>5. TxSlotFree'
      BY <2>1, <2>4 DEF UartInv, TxSlotFree, TxInterrupt, taskVars
    <2> QED BY <2>3, <2>5, <1>3, <1>4, <1>5 DEF UartInv
  <1> QED BY <1>6, <1>7

\* The task waiting for and popping bytes.
LEMMA RxTaskUartInv ==
    ASSUME UartInv, Register \/ Take \/ Pop \/ Read \/ Advance
    PROVE  UartInv'
  <1> USE UartAssumption
  <1>1. Inc(rx_tail, UART_RX_BUFFER_SIZE) \in RxIndex
    BY IncRing DEF UartInv, TypeOK, RxIndex
  <1>2. TypeOK'
    <2>1. CASE Register \/ Take \/ Pop
      BY <2>1 DEF UartInv, TypeOK, Register, Take, Pop, rxVars, txVars
    <2>2. CASE Read
      BY <2>2 DEF UartInv, TypeOK, Read, rxVars, txVars
    <2>3. CASE Advance
      <3>1. 0 \in 0 .. FrameLen
        OBVIOUS
      <3> QED BY <2>3, <3>1, <1>1 DEF UartInv, TypeOK, Advance, txVars
    <2> QED BY <2>1, <2>2, <2>3
  <1>3. PopsOldest'
    BY DEF UartInv, TypeOK, PopsOldest, Register, Take, Pop, Read, Advance, rxVars
  <1>4. NoLostWakeup' /\ Registered'
    BY DEF UartInv, TypeOK, NoLostWakeup, Registered, Register, Take, Pop, Read, Advance, rxVars
  <1>5. TxArmed' /\ TxArmedBefore' /\ TxHeld' /\ TxSlotFree'
    BY DEF UartInv, TypeOK, TxArmed, TxArmedBefore, TxHeld, TxSlotFree, Register, Take, Pop, Read, Advance, txVars
  <1> QED BY <1>2, <1>3, <1>4, <1>5 DEF UartInv

\* The task pushing an answer.
LEMMA TxTaskUartInv ==
    ASSUME UartInv, Push \/ Store \/ Publish \/ Arm
    PROVE  UartInv'
  <1> USE UartAssumption
  <1>1. Inc(tx_head, UART_TX_BUFFER_SIZE) \in TxIndex
    BY IncRing DEF UartInv, TypeOK, TxIndex
  <1>2. TypeOK'
    <2>1. CASE Push
      BY <2>1 DEF UartInv, TypeOK, Push, rxVars, txVars
    <2>2. CASE Store
      <3>1. pushed + 1 \in TxBytes
        BY <2>2 DEF UartInv, TypeOK, TxSlotFree, Store, TxBytes
      <3> QED BY <2>2, <3>1 DEF UartInv, TypeOK, Store, rxVars
    <2>3. CASE Publish
      <3>1. pushed + 1 \in 0 .. FrameLen
        BY <2>3 DEF UartInv, TypeOK, TxSlotFree, Publish
      <3> QED BY <2>3, <3>1, <1>1 DEF UartInv, TypeOK, Publish, rxVars
    <2>4. CASE Arm
      BY <2>4 DEF UartInv, TypeOK, Arm, rxVars, txVars
    <2> QED BY <2>1, <2>2, <2>3, <2>4
  <1>3. PopsOldest' /\ NoLostWakeup' /\ Registered'
    BY DEF UartInv, PopsOldest, NoLostWakeup, Registered, Push, Store, Publish, Arm, rxVars
  <1>4. TxArmed' /\ TxArmedBefore'
    <2>1. CASE Push \/ Store
      BY <2>1 DEF UartInv, TxArmed, TxArmedBefore, Push, Store, txVars
    <2>2. CASE Publish
      <3>1. pushed' # 0
        BY <2>2 DEF UartInv, TypeOK, Publish
      <3> QED BY <2>2, <3>1 DEF UartInv, TxArmed, TxArmedBefore, Publish
    <2>3. CASE Arm
      <3>1. pushed # 0 => pushed > 0
        BY DEF UartInv, TypeOK
      <3> QED BY <2>3, <3>1 DEF UartInv, TypeOK, TxArmed, TxArmedBefore, Arm, txVars
    <2> QED BY <2>1, <2>2, <2>3
  <1>5. TxHeld'
    <2>1. CASE Push \/ Arm
      BY <2>1 DEF UartInv, TxHeld, Push, Arm, txVars
    <2>2. CASE Store
      BY <2>2 DEF UartInv, TypeOK, TxHeld, InRing, TxIndex, Store
    <2>3. CASE Publish
      BY <2>3 DEF UartInv, TypeOK, TxHeld, TxSlotFree, InRing, TxIndex, Inc, Publish
    <2> QED BY <2>1, <2>2, <2>3
  <1>6. TxSlotFree'
    BY DEF UartInv, TypeOK, TxSlotFree, TxBytes, Push, Store, Publish, Arm, txVars
  <1> QED BY <1>2, <1>3, <1>4, <1>5, <1>6 DEF UartInv

\* Every step of the task and of the interrupt handler keeps the invariant.
LEMMA NextUartInv == UartInv /\ [Next]_vars => UartInv'
  <1> SUFFICES ASSUME UartInv, [Next]_vars PROVE UartInv'
    OBVIOUS
  <1>1. CASE task_protocol
    BY <1>1, RxTaskUartInv, TxTaskUartInv DEF task_protocol
  <1>2. CASE TxInterrupt
    BY <1>2, TxInterruptUartInv
  <1>3. CASE \E b \in RxBytes : RxInterrupt(b)
    BY <1>3, RxInterruptUartInv
  <1>4. CASE UNCHANGED vars
    BY <1>4 DEF UartInv, TypeOK, PopsOldest, NoLostWakeup, TxArmed, TxArmedBefore, TxHeld,
                TxSlotFree, Registered, vars, rxVars, txVars, taskVars
  <1> QED BY <1>1, <1>2, <1>3, <1>4 DEF Next

\* The invariant holds in every reachable state.
LEMMA SpecUartInv == Spec => []UartInv
  BY InitUartInv, NextUartInv, PTL DEF Spec

\* The ring indices of uart.c stay in their buffers, an answer is never pushed
\* past its length and only answer bytes are ever sent, for all buffer sizes.
THEOREM UartTypeCorrect == Spec => []TypeOK
  <1>1. UartInv => TypeOK
    BY DEF UartInv
  <1> QED BY <1>1, SpecUartInv, PTL

\* uart_rx_pop returns the oldest byte in the ring, whatever the RX interrupt
\* does between its accesses.
THEOREM UartPopsOldest == Spec => []PopsOldest
  <1>1. UartInv => PopsOldest
    BY DEF UartInv
  <1> QED BY <1>1, SpecUartInv, PTL

\* task_protocol never sleeps on bytes that arrived after it registered: the
\* notification cannot be lost between the last uart_rx_pop and the wait.
THEOREM UartNoLostWakeup == Spec => []NoLostWakeup
  <1>1. UartInv => NoLostWakeup
    BY DEF UartInv
  <1> QED BY <1>1, SpecUartInv, PTL

\* Bytes in the TX ring always have the transmit interrupt on or about to be
\* switched on: parking it in the handler cannot race with uart_tx_push.
THEOREM UartTxArmed == Spec => []TxArmed
  <1>1. UartInv => TxArmed
    BY DEF UartInv
  <1> QED BY <1>1, SpecUartInv, PTL

-----------------------------------------------------------------------------
(* Each ring implements a bounded queue.                                    *)

\* The number of bytes between tail and head, and the slot of the i-th.
Size(head, tail, n) == IF head >= tail THEN head - tail ELSE n - tail + head
SlotAt(tail, i, n) == IF tail + i - 1 < n THEN tail + i - 1 ELSE tail + i - 1 - n

Ring(n) == 0 .. (n - 1)

LEMMA SmallMod ==
    ASSUME NEW n \in Nat, n > 1, NEW x \in 0 .. (2 * n - 1)
    PROVE  x % n = IF x < n THEN x ELSE x - n
  OBVIOUS

\* q is the sequence of the bytes that are held.
IsHeld(q, buf, head, tail, n, V) ==
    /\ q \in Seq(V) /\ Len(q) = Size(head, tail, n) /\ Size(head, tail, n) \in 0 .. (n - 1)
    /\ \A i \in 1 .. Size(head, tail, n) :
         SlotAt(tail, i, n) \in Ring(n) /\ q[i] = buf[SlotAt(tail, i, n)]

LEMMA HeldIs ==
    ASSUME NEW n \in Nat, n > 1, NEW V, NEW buf \in [Ring(n) -> V],
           NEW head \in Ring(n), NEW tail \in Ring(n)
    PROVE  IsHeld(Held(buf, head, tail, n), buf, head, tail, n, V)
  <1> DEFINE k == Size(head, tail, n)
             h == [i \in 1 .. k |-> buf[(tail + i - 1) % n]]
  <1>1. k \in 0 .. (n - 1) /\ k \in Nat
    BY DEF Size, Ring
  <1>2. Held(buf, head, tail, n) = h
    BY DEF Held, Size
  <1> HIDE DEF k
  <1>3. ASSUME NEW i \in 1 .. k PROVE SlotAt(tail, i, n) \in Ring(n) /\ (tail + i - 1) % n = SlotAt(tail, i, n)
    <2>1. PICK x \in 0 .. (2 * n - 1) : x = tail + i - 1
      BY <1>1 DEF Ring
    <2>2. SlotAt(tail, i, n) = (IF x < n THEN x ELSE x - n) /\ SlotAt(tail, i, n) \in Ring(n)
      BY <1>1, <2>1 DEF SlotAt, Ring
    <2>3. x % n = IF x < n THEN x ELSE x - n
      BY SmallMod
    <2> QED BY <2>1, <2>2, <2>3
  <1>4. \A i \in 1 .. k : h[i] = buf[SlotAt(tail, i, n)] /\ h[i] \in V
    BY <1>3
  <1>5. h \in Seq(V) /\ Len(h) = k
    BY <1>1, <1>4
  <1> HIDE DEF h
  <1>6. IsHeld(h, buf, head, tail, n, V)
    BY <1>1, <1>3, <1>4, <1>5 DEF IsHeld, k
  <1> QED BY <1>2, <1>6

\* The two contents of a ring differ at most in slot i.
OnlyAt(new, buf, i, n) == \A j \in Ring(n) : j # i => new[j] = buf[j]

\* The queue q takes the value v and becomes r.
Puts(q, r, v, capacity) == Len(q) < capacity /\ r = Append(q, v)

\* Publishing the byte in the slot at head appends it: the ring was not full.
LEMMA HeldGrows ==
    ASSUME NEW n \in Nat, n > 1, NEW V, NEW buf \in [Ring(n) -> V], NEW new \in [Ring(n) -> V],
           NEW head \in Ring(n), NEW tail \in Ring(n), Inc(head, n) # tail,
           OnlyAt(new, buf, head, n)
    PROVE  Puts(Held(buf, head, tail, n), Held(new, Inc(head, n), tail, n), new[head], n - 1)
  <1>1. Inc(head, n) \in Ring(n)
    BY IncRing DEF Ring
  <1>2. PICK q : q = Held(buf, head, tail, n) /\ IsHeld(q, buf, head, tail, n, V)
    BY HeldIs
  <1>3. PICK r : r = Held(new, Inc(head, n), tail, n) /\ IsHeld(r, new, Inc(head, n), tail, n, V)
    BY <1>1, HeldIs
  <1>4. PICK k \in 0 .. (n - 1) : k = Size(head, tail, n)
    BY <1>2 DEF IsHeld
  <1>5. Size(Inc(head, n), tail, n) = k + 1 /\ k < n - 1
    BY <1>4 DEF Size, Inc, Ring
  <1>6. SlotAt(tail, k + 1, n) = head /\ \A i \in 1 .. k : SlotAt(tail, i, n) # head
    BY <1>4 DEF Size, SlotAt, Ring
  <1>7. /\ q \in Seq(V) /\ Len(q) = k
        /\ \A i \in 1 .. k : SlotAt(tail, i, n) \in Ring(n) /\ q[i] = buf[SlotAt(tail, i, n)]
    BY <1>2, <1>4 DEF IsHeld
  <1>8. /\ r \in Seq(V) /\ Len(r) = k + 1
        /\ \A i \in 1 .. (k + 1) : SlotAt(tail, i, n) \in Ring(n) /\ r[i] = new[SlotAt(tail, i, n)]
    BY <1>3, <1>5 DEF IsHeld
  <1>9. new[head] \in V
    OBVIOUS
  <1>10. /\ Append(q, new[head]) \in Seq(V) /\ Len(Append(q, new[head])) = k + 1
         /\ \A i \in 1 .. k : Append(q, new[head])[i] = q[i]
         /\ Append(q, new[head])[k + 1] = new[head]
    BY <1>7, <1>9, AppendProperties
  <1>11. ASSUME NEW i \in 1 .. (k + 1) PROVE r[i] = Append(q, new[head])[i]
    <2>1. CASE i = k + 1
      BY <1>6, <1>8, <1>10, <2>1
    <2>2. CASE i # k + 1
      <3>1. i \in 1 .. k
        BY <2>2
      <3> QED BY <1>6, <1>7, <1>8, <1>10, <3>1 DEF OnlyAt
    <2> QED BY <2>1, <2>2
  <1>12. r = Append(q, new[head])
    BY <1>8, <1>10, <1>11, SeqEqual
  <1> QED BY <1>2, <1>3, <1>5, <1>7, <1>12 DEF Puts

\* Giving the slot at tail back removes the oldest byte.
LEMMA HeldShrinks ==
    ASSUME NEW n \in Nat, n > 1, NEW V, NEW buf \in [Ring(n) -> V],
           NEW head \in Ring(n), NEW tail \in Ring(n), head # tail
    PROVE  /\ Held(buf, head, tail, n) # <<>>
           /\ Held(buf, head, Inc(tail, n), n) = Tail(Held(buf, head, tail, n))
  <1>1. Inc(tail, n) \in Ring(n)
    BY IncRing DEF Ring
  <1>2. PICK q : q = Held(buf, head, tail, n) /\ IsHeld(q, buf, head, tail, n, V)
    BY HeldIs
  <1>3. PICK r : r = Held(buf, head, Inc(tail, n), n) /\ IsHeld(r, buf, head, Inc(tail, n), n, V)
    BY <1>1, HeldIs
  <1>4. PICK k \in 0 .. (n - 1) : k = Size(head, tail, n)
    BY <1>2 DEF IsHeld
  <1>5. Size(head, Inc(tail, n), n) = k - 1 /\ k > 0
    BY <1>4 DEF Size, Inc, Ring
  <1>6. \A i \in 1 .. (k - 1) : i + 1 \in 1 .. k /\ SlotAt(Inc(tail, n), i, n) = SlotAt(tail, i + 1, n)
    BY <1>4 DEF Size, SlotAt, Inc, Ring
  <1>7. q \in Seq(V) /\ Len(q) = k /\ \A i \in 1 .. k : q[i] = buf[SlotAt(tail, i, n)]
    BY <1>2, <1>4 DEF IsHeld
  <1>8. /\ r \in Seq(V) /\ Len(r) = k - 1
        /\ \A i \in 1 .. (k - 1) : r[i] = buf[SlotAt(Inc(tail, n), i, n)]
    BY <1>3, <1>5 DEF IsHeld
  <1>9. q # <<>>
    BY <1>5, <1>7
  <1>10. Tail(q) \in Seq(V) /\ Len(Tail(q)) = k - 1 /\ \A i \in 1 .. (k - 1) : Tail(q)[i] = q[i + 1]
    BY <1>7, <1>9, HeadTailProperties
  <1>11. \A i \in 1 .. (k - 1) : r[i] = Tail(q)[i]
    BY <1>6, <1>7, <1>8, <1>10
  <1>12. r = Tail(q)
    BY <1>8, <1>10, <1>11, SeqEqual
  <1> QED BY <1>2, <1>3, <1>9, <1>12

\* Writing the slot at head changes no byte that is held.
LEMMA HeldKeeps ==
    ASSUME NEW n \in Nat, n > 1, NEW V, NEW buf \in [Ring(n) -> V], NEW new \in [Ring(n) -> V],
           NEW head \in Ring(n), NEW tail \in Ring(n),
           OnlyAt(new, buf, head, n)
    PROVE  Held(new, head, tail, n) = Held(buf, head, tail, n)
  <1>1. PICK q : q = Held(buf, head, tail, n) /\ IsHeld(q, buf, head, tail, n, V)
    BY HeldIs
  <1>2. PICK r : r = Held(new, head, tail, n) /\ IsHeld(r, new, head, tail, n, V)
    BY HeldIs
  <1>3. \A i \in 1 .. Size(head, tail, n) : SlotAt(tail, i, n) # head
    BY DEF Size, SlotAt, Ring
  <1>4. /\ q \in Seq(V) /\ r \in Seq(V) /\ Len(q) = Len(r)
        /\ \A i \in 1 .. Len(r) : r[i] = q[i]
    BY <1>1, <1>2, <1>3 DEF IsHeld, OnlyAt
  <1>5. r = q
    BY <1>4, SeqEqual
  <1> QED BY <1>1, <1>2, <1>5

\* Two rings start empty.
LEMMA HeldEmpty ==
    ASSUME NEW n \in Nat, n > 1, NEW V, NEW buf \in [Ring(n) -> V], NEW i \in Ring(n)
    PROVE  Held(buf, i, i, n) = <<>>
  <1>1. PICK q : q = Held(buf, i, i, n) /\ IsHeld(q, buf, i, i, n, V)
    BY HeldIs
  <1>2. q \in Seq(V) /\ Len(q) = 0
    BY <1>1 DEF IsHeld, Size, Ring
  <1> QED BY <1>1, <1>2

RxQueue == Held(rx_buf, rx_head, rx_tail, UART_RX_BUFFER_SIZE)
TxQueue == Held(tx_buf, tx_head, tx_tail, UART_TX_BUFFER_SIZE)

\* Receiving puts, giving the slot back gets, and nothing else moves the queue.
LEMMA RxStep ==
    ASSUME UartInv, [Next]_vars
    PROVE  RxFifo!Put \/ RxFifo!Get \/ RxQueue' = RxQueue
  <1> USE UartAssumption
  <1>1. /\ rx_buf \in [Ring(UART_RX_BUFFER_SIZE) -> RxBytes \cup {"none"}]
        /\ rx_head \in Ring(UART_RX_BUFFER_SIZE) /\ rx_tail \in Ring(UART_RX_BUFFER_SIZE)
    BY DEF UartInv, TypeOK, RxIndex, Ring
  <1>2. ASSUME UNCHANGED rxVars PROVE RxQueue' = RxQueue
    BY <1>2 DEF rxVars, RxQueue
  <1>3. ASSUME NEW b \in RxBytes, RxInterrupt(b) PROVE RxFifo!Put \/ RxQueue' = RxQueue
    <2>1. CASE Inc(rx_head, UART_RX_BUFFER_SIZE) = rx_tail
      BY <1>2, <1>3, <2>1 DEF RxInterrupt, rxVars
    <2>2. CASE Inc(rx_head, UART_RX_BUFFER_SIZE) # rx_tail
      <3>1. PICK new \in [Ring(UART_RX_BUFFER_SIZE) -> RxBytes \cup {"none"}] :
              new = [rx_buf EXCEPT ![rx_head] = b]
        BY <1>1
      <3>2. new[rx_head] = b /\ OnlyAt(new, rx_buf, rx_head, UART_RX_BUFFER_SIZE)
        BY <1>1, <3>1 DEF OnlyAt
      <3>3. rx_buf' = new /\ rx_head' = Inc(rx_head, UART_RX_BUFFER_SIZE) /\ rx_tail' = rx_tail
        BY <1>3, <2>2, <3>1 DEF RxInterrupt
      <3>4. Puts(RxQueue, Held(new, Inc(rx_head, UART_RX_BUFFER_SIZE), rx_tail, UART_RX_BUFFER_SIZE),
                 new[rx_head], UART_RX_BUFFER_SIZE - 1)
        BY <1>1, <2>2, <3>2, HeldGrows DEF RxQueue
      <3>5. Puts(RxQueue, RxQueue', b, UART_RX_BUFFER_SIZE - 1)
        BY <3>2, <3>3, <3>4 DEF RxQueue
      <3> QED BY <3>5 DEF RxFifo!Put, RxQueue, Puts
    <2> QED BY <2>1, <2>2
  <1>4. CASE Advance
    <2>1. rx_head # rx_tail
      BY <1>4 DEF UartInv, PopsOldest, Advance
    <2>2. /\ RxQueue # <<>>
          /\ Held(rx_buf, rx_head, Inc(rx_tail, UART_RX_BUFFER_SIZE), UART_RX_BUFFER_SIZE) = Tail(RxQueue)
      BY <1>1, <2>1, HeldShrinks DEF RxQueue
    <2>3. RxQueue' = Tail(RxQueue)
      BY <1>4, <2>2 DEF Advance, RxQueue
    <2> QED BY <2>2, <2>3 DEF RxFifo!Get, RxQueue
  <1>5. CASE Register \/ Take \/ Pop \/ Read \/ Push \/ Store \/ Publish \/ Arm \/ TxInterrupt \/ UNCHANGED vars
    BY <1>2, <1>5 DEF Register, Take, Pop, Read, Push, Store, Publish, Arm, TxInterrupt, vars
  <1> QED BY <1>3, <1>4, <1>5 DEF Next, task_protocol

\* Publishing the head puts the byte stored before, sending gets one.
LEMMA TxStep ==
    ASSUME UartInv, [Next]_vars
    PROVE  TxFifo!Put \/ TxFifo!Get \/ TxQueue' = TxQueue
  <1> USE UartAssumption
  <1>1. /\ tx_buf \in [Ring(UART_TX_BUFFER_SIZE) -> TxBytes \cup {0}]
        /\ tx_head \in Ring(UART_TX_BUFFER_SIZE) /\ tx_tail \in Ring(UART_TX_BUFFER_SIZE)
    BY DEF UartInv, TypeOK, TxIndex, Ring
  <1>2. ASSUME UNCHANGED txVars PROVE TxQueue' = TxQueue
    BY <1>2 DEF txVars, TxQueue
  <1>3. CASE Store
    <2>1. tx_buf' \in [Ring(UART_TX_BUFFER_SIZE) -> TxBytes \cup {0}]
      BY <1>3, TxTaskUartInv DEF UartInv, TypeOK, TxIndex, Ring
    <2>2. PICK new \in [Ring(UART_TX_BUFFER_SIZE) -> TxBytes \cup {0}] : new = tx_buf'
      BY <2>1
    <2>3. OnlyAt(new, tx_buf, tx_head, UART_TX_BUFFER_SIZE)
      BY <1>1, <1>3, <2>2 DEF Store, OnlyAt
    <2>4. Held(new, tx_head, tx_tail, UART_TX_BUFFER_SIZE) = Held(tx_buf, tx_head, tx_tail, UART_TX_BUFFER_SIZE)
      <3>1. UART_TX_BUFFER_SIZE \in Nat /\ UART_TX_BUFFER_SIZE > 1
        OBVIOUS
      <3> HIDE UartAssumption
      <3> QED BY <1>1, <2>3, <3>1, HeldKeeps
    <2> QED BY <1>3, <2>2, <2>4 DEF Store, TxQueue
  <1>4. CASE Publish
    <2>1. /\ Inc(tx_head, UART_TX_BUFFER_SIZE) # tx_tail /\ tx_buf[tx_head] \in TxBytes
          /\ OnlyAt(tx_buf, tx_buf, tx_head, UART_TX_BUFFER_SIZE)
      BY <1>4 DEF UartInv, TxSlotFree, Publish, OnlyAt
    <2>2. Puts(TxQueue, Held(tx_buf, Inc(tx_head, UART_TX_BUFFER_SIZE), tx_tail, UART_TX_BUFFER_SIZE),
               tx_buf[tx_head], UART_TX_BUFFER_SIZE - 1)
      BY <1>1, <2>1, HeldGrows DEF TxQueue
    <2>3. Puts(TxQueue, TxQueue', tx_buf[tx_head], UART_TX_BUFFER_SIZE - 1)
      BY <1>4, <2>2 DEF Publish, TxQueue
    <2> QED BY <2>1, <2>3 DEF TxFifo!Put, TxQueue, Puts
  <1>5. CASE TxInterrupt
    <2>1. CASE tx_tail = tx_head
      BY <1>2, <1>5, <2>1 DEF TxInterrupt, txVars
    <2>2. CASE tx_tail # tx_head
      <3>1. /\ TxQueue # <<>>
            /\ Held(tx_buf, tx_head, Inc(tx_tail, UART_TX_BUFFER_SIZE), UART_TX_BUFFER_SIZE) = Tail(TxQueue)
        BY <1>1, <2>2, HeldShrinks DEF TxQueue
      <3>2. TxQueue' = Tail(TxQueue)
        BY <1>5, <2>2, <3>1 DEF TxInterrupt, TxQueue
      <3> QED BY <3>1, <3>2 DEF TxFifo!Get, TxQueue
    <2> QED BY <2>1, <2>2
  <1>6. CASE \/ Register \/ Take \/ Pop \/ Read \/ Advance \/ Push \/ Arm \/ UNCHANGED vars
             \/ \E b \in RxBytes : RxInterrupt(b)
    BY <1>2, <1>6 DEF Register, Take, Pop, Read, Advance, Push, Arm, RxInterrupt, vars
  <1> QED BY <1>3, <1>4, <1>5, <1>6 DEF Next, task_protocol

\* The RX ring, written by the interrupt and read by the task without a lock, is
\* a bounded queue for every buffer size: bytes leave in order, each once and
\* unchanged, and only a full ring drops one.
THEOREM UartRxImplementsFifo == Spec => RxImplementsFifo
  <1>1. Init => RxFifo!Init
    <2> SUFFICES ASSUME Init PROVE RxQueue = <<>>
      BY DEF RxFifo!Init, RxQueue
    <2>1. /\ rx_buf \in [Ring(UART_RX_BUFFER_SIZE) -> RxBytes \cup {"none"}]
          /\ 0 \in Ring(UART_RX_BUFFER_SIZE) /\ rx_head = 0 /\ rx_tail = 0
      BY UartAssumption DEF Init, Ring, RxIndex
    <2> QED BY <2>1, UartAssumption, HeldEmpty DEF RxQueue
  <1>2. UartInv /\ [Next]_vars => [RxFifo!Put \/ RxFifo!Get]_RxQueue
    BY RxStep
  <1> QED BY <1>1, <1>2, SpecUartInv, PTL DEF Spec, RxImplementsFifo, RxFifo!Spec, RxQueue

\* The TX ring is a bounded queue in the other direction: what uart_tx_push has
\* published is sent in order, each byte once, and is the byte it stored.
THEOREM UartTxImplementsFifo == Spec => TxImplementsFifo
  <1>1. Init => TxFifo!Init
    <2> SUFFICES ASSUME Init PROVE TxQueue = <<>>
      BY DEF TxFifo!Init, TxQueue
    <2>1. /\ tx_buf \in [Ring(UART_TX_BUFFER_SIZE) -> TxBytes \cup {0}]
          /\ 0 \in Ring(UART_TX_BUFFER_SIZE) /\ tx_head = 0 /\ tx_tail = 0
      BY UartAssumption DEF Init, Ring, TxIndex
    <2> QED BY <2>1, UartAssumption, HeldEmpty DEF TxQueue
  <1>2. UartInv /\ [Next]_vars => [TxFifo!Put \/ TxFifo!Get]_TxQueue
    BY TxStep
  <1> QED BY <1>1, <1>2, SpecUartInv, PTL DEF Spec, TxImplementsFifo, TxFifo!Spec, TxQueue
=============================================================================
