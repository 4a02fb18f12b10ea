SPECIFICATION Spec
CONSTANTS
    UART_RX_BUFFER_SIZE = 3
    UART_TX_BUFFER_SIZE = 3
    FrameLen = 2
INVARIANTS
    NoLostWakeup
    TxArmed
PROPERTIES
    RxImplementsFifo
    TxImplementsFifo
    Progress
