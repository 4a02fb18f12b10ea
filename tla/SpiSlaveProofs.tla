--------------------------- MODULE SpiSlaveProofs ---------------------------
(***************************************************************************)
(* The DUT gets the bytes of one buffer after the other in order, for      *)
(* every buffer size and every interleaving of spi_slave_set_tx with the   *)
(* interrupt and the clock.                                                *)
(*                                                                         *)
(* ServesInOrder is not inductive: it has to know, at each statement of    *)
(* spi_slave_set_tx, how much of tx_buf is the new buffer (Filled), that   *)
(* the interrupt does not look at it meanwhile (Masked), and how the       *)
(* index relates to the byte in the data register (IndexAhead).            *)
(***************************************************************************)
EXTENDS SpiSlave, TLAPS

\* The first n bytes of tx_buf are those of buffer b.
Holds(n, b) == \A i \in Index : i < n => tx_buf[i] = <<b, i>>

Late == {"preload", "index", "enable"}

\* spi_slave_set_tx runs on an initialised driver and with TXEIE off.
Masked ==
    /\ step # "return" => initialized /\ ~txeie /\ incoming.len \in 1..SPI_SLAVE_TX_BUF_MAX

\* How much of the buffer is in place.
Filled ==
    /\ step = "memcpy" => copied <= incoming.len /\ Holds(copied, incoming.buf)
    /\ step \in Late => tx_len = incoming.len /\ Holds(incoming.len, incoming.buf)
    /\ txeie => tx_len = served.len /\ Holds(served.len, served.buf)

\* From the write of DR on the DUT is served from the new buffer.
Switched ==
    step \in {"index", "enable"} => served.buf = incoming.buf /\ served.len = incoming.len

\* The index is one byte ahead of a full data register.
IndexAhead ==
    /\ served.next < served.len
    /\ step = "index" => served.next = IF Txe THEN After(0, served.len) ELSE 0
    /\ step = "enable" \/ txeie =>
         tx_idx = IF Txe THEN served.next ELSE After(served.next, served.len)

InRegister == ~Txe => dr = <<served.buf, served.next>>

SpiInv == TypeOK /\ Masked /\ Filled /\ Switched /\ IndexAhead /\ InRegister

-----------------------------------------------------------------------------

\* The index after i stays in the buffer.
LEMMA AfterInBuffer ==
    ASSUME NEW len \in 1..SPI_SLAVE_TX_BUF_MAX, NEW i \in Index
    PROVE  After(i, len) \in Index /\ After(i, len) < len
BY SpiSlaveAssumption DEF After, Index

LEMMA InitSpiInv == Init => SpiInv
<1> SUFFICES ASSUME Init PROVE SpiInv
  OBVIOUS
<1>1. 0 \in Index /\ 0 \in 0..Buffers /\ 0 \in 0..SPI_SLAVE_TX_BUF_MAX /\ 1 \in 1..SPI_SLAVE_TX_BUF_MAX
  BY SpiSlaveAssumption DEF Index
<1>2. initialized \in BOOLEAN /\ rxne \in BOOLEAN /\ txeie \in BOOLEAN /\ nvic \in BOOLEAN
  BY DEF Init
<1>3. tx_buf \in [Index -> (0..Buffers) \X Index] /\ tx_len \in 0..SPI_SLAVE_TX_BUF_MAX /\ tx_idx \in Index
  BY <1>1 DEF Init, Zero
<1>4. /\ incoming \in [buf : 0..Buffers, len : 0..SPI_SLAVE_TX_BUF_MAX]
      /\ served \in [buf : 0..Buffers, len : 1..SPI_SLAVE_TX_BUF_MAX, next : Index]
  BY <1>1 DEF Init
<1>5. TypeOK
  BY <1>1, <1>2, <1>3, <1>4 DEF Init, TypeOK, Bytes, NotSelected
<1> QED BY <1>5 DEF Init, SpiInv, Masked, Filled, Switched, IndexAhead, InRegister, Txe, Late

\* The interrupt.
LEMMA IsrKeeps == SpiInv /\ spi_slave_isr => SpiInv'
<1> SUFFICES ASSUME SpiInv, spi_slave_isr PROVE SpiInv'
  OBVIOUS
<1>0. /\ tx_idx \in Index /\ tx_len \in 0..SPI_SLAVE_TX_BUF_MAX
      /\ served.len \in 1..SPI_SLAVE_TX_BUF_MAX /\ served.next \in Index /\ served.buf \in 0..Buffers
      /\ tx_buf \in [Index -> (0..Buffers) \X Index]
  BY DEF SpiInv, TypeOK
<1>1. CASE ~(Txe /\ txeie)
  <2>1. UNCHANGED <<initialized, tx_buf, tx_len, tx_idx, dr, txeie, nvic, step, copied, incoming, served, txn>>
        /\ rxne' = FALSE
    BY <1>1 DEF spi_slave_isr, call
  <2>2. TypeOK'
    BY <2>1 DEF SpiInv, TypeOK
  <2>3. Txe' = Txe
    BY <2>1 DEF Txe
  <2>4. \A n, b : Holds(n, b)' = Holds(n, b)
    BY <2>1 DEF Holds
  <2> QED BY <2>1, <2>2, <2>3, <2>4 DEF SpiInv, Masked, Filled, Switched, IndexAhead, InRegister
<1>2. CASE Txe /\ txeie
  <2>1. /\ step = "return" /\ tx_len = served.len /\ tx_idx = served.next /\ tx_idx < tx_len
        /\ tx_buf[tx_idx] = <<served.buf, served.next>>
    BY <1>0, <1>2 DEF SpiInv, TypeOK, Masked, Filled, IndexAhead, Holds
  <2>2. dr' = <<served.buf, served.next>> /\ tx_idx' = After(served.next, served.len)
    BY <1>2, <2>1 DEF spi_slave_isr
  <2>3. UNCHANGED <<initialized, tx_buf, tx_len, txeie, nvic, step, copied, incoming, served, txn>>
        /\ rxne' = FALSE
    BY DEF spi_slave_isr, call
  <2>4. tx_idx' \in Index /\ dr' \in Bytes
    BY <1>0, <2>2, AfterInBuffer DEF Bytes
  <2>5. TypeOK'
    BY <2>3, <2>4 DEF SpiInv, TypeOK
  <2>6. ~Txe'
    BY <1>0, <2>2 DEF Txe, Empty, Index
  <2>7. \A n, b : Holds(n, b)' = Holds(n, b)
    BY <2>3 DEF Holds
  <2> QED BY <2>1, <2>2, <2>3, <2>5, <2>6, <2>7
          DEF SpiInv, Masked, Filled, Switched, IndexAhead, InRegister, Late
<1> QED BY <1>1, <1>2

\* spi_slave_init and spi_slave_deinit.
LEMMA LifecycleKeeps == SpiInv /\ (spi_slave_init \/ spi_slave_deinit) => SpiInv'
<1> SUFFICES ASSUME SpiInv, spi_slave_init \/ spi_slave_deinit PROVE SpiInv'
  OBVIOUS
<1>1. 0 \in Index /\ 0 \in 0..Buffers /\ 0 \in 0..SPI_SLAVE_TX_BUF_MAX /\ 1 \in 1..SPI_SLAVE_TX_BUF_MAX
  BY SpiSlaveAssumption DEF Index
<1>2. /\ step = "return" /\ step' = step /\ txeie' = FALSE
      /\ served' = [buf |-> 0, len |-> 1, next |-> 0]
      /\ dr' \in {Zero, Empty}
      /\ UNCHANGED <<tx_buf, copied, incoming>>
  BY DEF SpiInv, Masked, spi_slave_init, spi_slave_deinit, call
<1>3. /\ initialized' \in BOOLEAN /\ rxne' \in BOOLEAN /\ txeie' \in BOOLEAN /\ nvic' \in BOOLEAN
  BY DEF SpiInv, TypeOK, spi_slave_init, spi_slave_deinit
<1>4. tx_idx' \in Index /\ tx_len' \in 0..SPI_SLAVE_TX_BUF_MAX
  BY <1>1 DEF SpiInv, TypeOK, spi_slave_init, spi_slave_deinit
<1>5. dr' \in Bytes /\ served' \in [buf : 0..Buffers, len : 1..SPI_SLAVE_TX_BUF_MAX, next : Index]
  BY <1>1, <1>2 DEF Bytes, Zero
<1>6. txn' \in {NotSelected} \cup (0..Buffers)
  BY DEF SpiInv, TypeOK, spi_slave_init, spi_slave_deinit
<1>7. TypeOK'
  BY <1>2, <1>3, <1>4, <1>5, <1>6 DEF SpiInv, TypeOK
<1> QED BY <1>2, <1>7 DEF SpiInv, Masked, Filled, Switched, IndexAhead, InRegister, Txe, Zero, Late

\* The statements of spi_slave_set_tx.
LEMMA SetTxKeeps ==
    ASSUME SpiInv, NEW len \in 1..SPI_SLAVE_TX_BUF_MAX, SetTx(len)
    PROVE  SpiInv'
<1>1. incoming' \in [buf : 0..Buffers, len : 0..SPI_SLAVE_TX_BUF_MAX] /\ incoming'.len = len
  <2>1. incoming.buf \in 0..Buffers
    BY DEF SpiInv, TypeOK
  <2>2. (incoming.buf % Buffers) + 1 \in 0..Buffers
    BY <2>1, SpiSlaveAssumption
  <2> QED BY <2>2, SpiSlaveAssumption DEF SetTx
<1>2. /\ step = "return" /\ initialized /\ step' = "memcpy" /\ copied' = 0 /\ txeie' = FALSE
      /\ UNCHANGED <<initialized, tx_buf, tx_len, tx_idx, dr, rxne, nvic, served, txn>>
  BY DEF SetTx, driver
<1>3. copied' \in 0..SPI_SLAVE_TX_BUF_MAX
  BY <1>2, SpiSlaveAssumption
<1>4. TypeOK'
  BY <1>1, <1>2, <1>3 DEF SpiInv, TypeOK
<1>5. Filled'
  <2>1. \A i \in Index : ~(i < 0)
    BY DEF Index
  <2> QED BY <1>1, <1>2, <2>1 DEF Filled, Holds, Late
<1>6. Txe' = Txe
  BY <1>2 DEF Txe
<1> QED BY <1>1, <1>2, <1>4, <1>5, <1>6 DEF SpiInv, Masked, Switched, IndexAhead, InRegister

LEMMA MemcpyKeeps == SpiInv /\ Memcpy => SpiInv'
<1> SUFFICES ASSUME SpiInv, Memcpy PROVE SpiInv'
  OBVIOUS
<1>1. /\ incoming.len \in 1..SPI_SLAVE_TX_BUF_MAX /\ incoming.buf \in 0..Buffers
      /\ copied \in Index /\ copied < incoming.len
  <2>1. step = "memcpy" /\ copied < incoming.len
    BY DEF Memcpy
  <2>2. incoming.len \in 1..SPI_SLAVE_TX_BUF_MAX
    BY <2>1 DEF SpiInv, Masked
  <2>3. copied \in 0..SPI_SLAVE_TX_BUF_MAX /\ incoming.buf \in 0..Buffers
    BY DEF SpiInv, TypeOK
  <2> QED BY <2>1, <2>2, <2>3, SpiSlaveAssumption DEF Index
<1>2. /\ step = "memcpy" /\ ~txeie /\ copied' = copied + 1
      /\ tx_buf' = [tx_buf EXCEPT ![copied] = <<incoming.buf, copied>>]
      /\ UNCHANGED <<initialized, tx_len, tx_idx, dr, rxne, txeie, nvic, step, incoming, served, txn>>
  BY DEF SpiInv, Memcpy, Masked
<1>3. tx_buf \in [Index -> (0..Buffers) \X Index]
  BY DEF SpiInv, TypeOK
<1>4. tx_buf' \in [Index -> (0..Buffers) \X Index] /\ copied' \in 0..SPI_SLAVE_TX_BUF_MAX
  <2>1. <<incoming.buf, copied>> \in (0..Buffers) \X Index
    BY <1>1
  <2>2. tx_buf' \in [Index -> (0..Buffers) \X Index]
    BY <1>2, <1>3, <2>1
  <2>3. copied' \in 0..SPI_SLAVE_TX_BUF_MAX
    BY <1>1, <1>2, SpiSlaveAssumption DEF Index
  <2> QED BY <2>2, <2>3
<1>5. TypeOK'
  BY <1>2, <1>4 DEF SpiInv, TypeOK
<1>6. Holds(copied, incoming.buf)' /\ copied' <= incoming.len
  <2> SUFFICES ASSUME NEW i \in Index, i < copied + 1
               PROVE  tx_buf'[i] = <<incoming.buf, i>>
    BY <1>1, <1>2 DEF Holds, Index
  <2>1. CASE i = copied
    BY <1>2, <1>3, <2>1
  <2>2. CASE i # copied
    <3>1. i < copied
      BY <1>1, <2>2 DEF Index
    <3> QED BY <1>2, <1>3, <2>2, <3>1 DEF SpiInv, Filled, Holds
  <2> QED BY <2>1, <2>2
<1>7. Txe' = Txe
  BY <1>2 DEF Txe
<1> QED BY <1>2, <1>5, <1>6, <1>7 DEF SpiInv, Masked, Filled, Switched, IndexAhead, InRegister, Late

LEMMA SetLenKeeps == SpiInv /\ SetLen => SpiInv'
<1> SUFFICES ASSUME SpiInv, SetLen PROVE SpiInv'
  OBVIOUS
<1>1. /\ step = "memcpy" /\ ~txeie /\ copied = incoming.len /\ step' = "preload"
      /\ tx_len' = incoming.len /\ tx_idx' = 0
      /\ UNCHANGED <<initialized, tx_buf, dr, rxne, txeie, nvic, copied, incoming, served, txn>>
  BY DEF SpiInv, SetLen, Masked
<1>2. tx_len' \in 0..SPI_SLAVE_TX_BUF_MAX /\ tx_idx' \in Index
  BY <1>1, SpiSlaveAssumption DEF SpiInv, TypeOK, Index
<1>3. TypeOK'
  BY <1>1, <1>2 DEF SpiInv, TypeOK
<1>4. Txe' = Txe /\ \A n, b : Holds(n, b)' = Holds(n, b)
  BY <1>1 DEF Txe, Holds
<1> QED BY <1>1, <1>3, <1>4 DEF SpiInv, Masked, Filled, Switched, IndexAhead, InRegister, Late

LEMMA PreloadKeeps == SpiInv /\ Preload => SpiInv'
<1> SUFFICES ASSUME SpiInv, Preload PROVE SpiInv'
  OBVIOUS
<1>1. /\ incoming.len \in 1..SPI_SLAVE_TX_BUF_MAX /\ incoming.buf \in 0..Buffers /\ 0 \in Index
  BY SpiSlaveAssumption DEF SpiInv, TypeOK, Preload, Masked, Index
<1>2. tx_buf[0] = <<incoming.buf, 0>>
  BY <1>1 DEF SpiInv, Filled, Holds, Preload, Late
<1>3. /\ step = "preload" /\ ~txeie /\ step' = "index" /\ dr' = <<incoming.buf, 0>>
      /\ served' = [buf |-> incoming.buf, len |-> incoming.len, next |-> 0]
      /\ UNCHANGED <<initialized, tx_buf, tx_len, tx_idx, rxne, txeie, nvic, copied, incoming, txn>>
  BY <1>2 DEF SpiInv, Preload, Masked, driver
<1>4. dr' \in Bytes /\ served' \in [buf : 0..Buffers, len : 1..SPI_SLAVE_TX_BUF_MAX, next : Index]
  BY <1>1, <1>3 DEF Bytes
<1>5. TypeOK'
  BY <1>3, <1>4 DEF SpiInv, TypeOK
<1>6. ~Txe' /\ \A n, b : Holds(n, b)' = Holds(n, b)
  BY <1>3 DEF Txe, Empty, Holds
<1> QED BY <1>1, <1>3, <1>5, <1>6 DEF SpiInv, Masked, Filled, Switched, IndexAhead, InRegister, Late

LEMMA SetIndexKeeps == SpiInv /\ SetIndex => SpiInv'
<1> SUFFICES ASSUME SpiInv, SetIndex PROVE SpiInv'
  OBVIOUS
<1>1. /\ step = "index" /\ ~txeie /\ step' = "enable" /\ served.len = incoming.len
      /\ incoming.len \in 1..SPI_SLAVE_TX_BUF_MAX
      /\ tx_idx' = IF incoming.len > 1 THEN 1 ELSE 0
      /\ UNCHANGED <<initialized, tx_buf, tx_len, dr, rxne, txeie, nvic, copied, incoming, served, txn>>
  BY DEF SpiInv, SetIndex, Masked, Switched
<1>2. tx_idx' \in Index /\ tx_idx' = After(0, served.len)
  BY <1>1, SpiSlaveAssumption DEF After, Index
<1>3. TypeOK'
  BY <1>1, <1>2 DEF SpiInv, TypeOK
<1>4. Txe' = Txe /\ \A n, b : Holds(n, b)' = Holds(n, b)
  BY <1>1 DEF Txe, Holds
<1> QED BY <1>1, <1>2, <1>3, <1>4 DEF SpiInv, Masked, Filled, Switched, IndexAhead, InRegister, Late

LEMMA EnableTxeKeeps == SpiInv /\ EnableTxe => SpiInv'
<1> SUFFICES ASSUME SpiInv, EnableTxe PROVE SpiInv'
  OBVIOUS
<1>1. /\ step = "enable" /\ step' = "return" /\ txeie' = TRUE
      /\ UNCHANGED <<initialized, tx_buf, tx_len, tx_idx, dr, rxne, nvic, copied, incoming, served, txn>>
  BY DEF EnableTxe, driver
<1>2. TypeOK'
  BY <1>1 DEF SpiInv, TypeOK
<1>3. Txe' = Txe /\ \A n, b : Holds(n, b)' = Holds(n, b)
  BY <1>1 DEF Txe, Holds
<1> QED BY <1>1, <1>2, <1>3 DEF SpiInv, Masked, Filled, Switched, IndexAhead, InRegister, Late

\* The DUT.
LEMMA ClockKeeps == SpiInv /\ Clock => SpiInv'
<1> SUFFICES ASSUME SpiInv, Clock PROVE SpiInv'
  OBVIOUS
<1>1. UNCHANGED <<initialized, tx_buf, tx_len, tx_idx, txeie, nvic, step, copied, incoming>>
      /\ rxne' = TRUE /\ dr' = Empty
  BY DEF Clock, driver, call
<1>2. Txe' /\ \A n, b : Holds(n, b)' = Holds(n, b)
  BY <1>1 DEF Txe, Holds
<1>3. /\ served.len \in 1..SPI_SLAVE_TX_BUF_MAX /\ served.next \in Index
      /\ served \in [buf : 0..Buffers, len : 1..SPI_SLAVE_TX_BUF_MAX, next : Index]
  BY DEF SpiInv, TypeOK
<1>4. txn' \in {NotSelected} \cup (0..Buffers)
  <2>1. txn \in {NotSelected} \cup (0..Buffers) /\ dr \in Bytes /\ (txn' = txn \/ (~Txe /\ txn' = dr[1]))
    BY DEF SpiInv, TypeOK, Clock
  <2>2. dr \in (0..Buffers) \X Index => dr[1] \in 0..Buffers
    OBVIOUS
  <2> QED BY <2>1, <2>2 DEF Bytes, Txe
<1>5. CASE Txe
  <2>1. UNCHANGED served
    BY <1>5 DEF Clock, Txe
  <2>2. TypeOK'
    BY <1>1, <1>4, <2>1 DEF SpiInv, TypeOK, Bytes
  <2> QED BY <1>1, <1>2, <1>5, <2>1, <2>2 DEF SpiInv, Masked, Filled, Switched, IndexAhead, InRegister
<1>6. CASE ~Txe
  <2>1. served' = [served EXCEPT !.next = After(served.next, served.len)]
    BY <1>6 DEF Clock, Txe
  <2>2. After(served.next, served.len) \in Index /\ After(served.next, served.len) < served.len
    BY <1>3, AfterInBuffer
  <2>3. /\ served'.buf = served.buf /\ served'.len = served.len
        /\ served'.next = After(served.next, served.len)
        /\ served' \in [buf : 0..Buffers, len : 1..SPI_SLAVE_TX_BUF_MAX, next : Index]
    BY <1>3, <2>1, <2>2
  <2>4. TypeOK'
    BY <1>1, <1>4, <2>1, <2>3 DEF SpiInv, TypeOK, Bytes
  <2> QED BY <1>1, <1>2, <1>6, <2>2, <2>3, <2>4 DEF SpiInv, Masked, Filled, Switched, IndexAhead, InRegister
<1> QED BY <1>5, <1>6

\* NSS: the driver sees nothing of it.
LEMMA SelectKeeps == SpiInv /\ (Select \/ Deselect) => SpiInv'
<1> SUFFICES ASSUME SpiInv, Select \/ Deselect PROVE SpiInv'
  OBVIOUS
<1>1. UNCHANGED <<initialized, tx_buf, tx_len, tx_idx, dr, rxne, txeie, nvic, step, copied, incoming, served>>
  BY DEF Select, Deselect, driver, call
<1>2. txn' \in {NotSelected} \cup (0..Buffers)
  BY SpiSlaveAssumption DEF Select, Deselect
<1>3. TypeOK'
  BY <1>1, <1>2 DEF SpiInv, TypeOK
<1>4. Txe' = Txe /\ \A n, b : Holds(n, b)' = Holds(n, b)
  BY <1>1 DEF Txe, Holds
<1> QED BY <1>1, <1>3, <1>4 DEF SpiInv, Masked, Filled, Switched, IndexAhead, InRegister

LEMMA StutterKeeps == SpiInv /\ UNCHANGED vars => SpiInv'
<1> SUFFICES ASSUME SpiInv, UNCHANGED vars PROVE SpiInv'
  OBVIOUS
<1>1. UNCHANGED <<initialized, tx_buf, tx_len, tx_idx, dr, rxne, txeie, nvic, step, copied, incoming, served, txn>>
  BY DEF vars, driver, call
<1>2. TypeOK'
  BY <1>1 DEF SpiInv, TypeOK
<1>3. Txe' = Txe /\ \A n, b : Holds(n, b)' = Holds(n, b)
  BY <1>1 DEF Txe, Holds
<1> QED BY <1>1, <1>2, <1>3 DEF SpiInv, Masked, Filled, Switched, IndexAhead, InRegister

LEMMA NextKeepsSpiInv == SpiInv /\ [Next]_vars => SpiInv'
BY IsrKeeps, LifecycleKeeps, SetTxKeeps, MemcpyKeeps, SetLenKeeps, PreloadKeeps, SetIndexKeeps,
   EnableTxeKeeps, SelectKeeps, ClockKeeps, StutterKeeps DEF Next

\* The buffer the DUT reads from is replaced at one instant and no byte of it is
\* skipped, repeated out of turn or half-written, wherever the interrupt and the clock fall
\* in spi_slave_set_tx, for every size of the buffer.
THEOREM SpiServesInOrder == Spec => []ServesInOrder
<1>1. SpiInv => ServesInOrder
  <2> SUFFICES ASSUME SpiInv PROVE ServesInOrder
    OBVIOUS
  <2>1. ~Txe => dr = <<served.buf, served.next>>
    BY DEF SpiInv, InRegister
  <2>2. ASSUME Txe, txeie PROVE tx_idx < tx_len /\ tx_buf[tx_idx] = <<served.buf, served.next>>
    <3>1. served.next \in Index
      BY DEF SpiInv, TypeOK
    <3> QED BY <2>2, <3>1 DEF SpiInv, Filled, IndexAhead, Holds
  <2> QED BY <2>1, <2>2 DEF ServesInOrder
<1>2. Spec => []SpiInv
  BY InitSpiInv, NextKeepsSpiInv, PTL DEF Spec
<1> QED BY <1>1, <1>2, PTL

\* The driver's state is well typed: in particular the index never leaves the
\* buffer, whatever it is replaced with in the middle of a transfer.
THEOREM SpiTypeCorrect == Spec => []TypeOK
<1>1. Spec => []SpiInv
  BY InitSpiInv, NextKeepsSpiInv, PTL DEF Spec
<1>2. SpiInv => TypeOK
  BY DEF SpiInv
<1> QED BY <1>1, <1>2, PTL
=============================================================================
