SPECIFICATION Spec
CONSTANTS
    SPI_SLAVE_TX_BUF_MAX = 3
    Buffers = 3

    
PROPERTY
    Refilled
