SPECIFICATION Spec
CONSTANTS
    SPI_SLAVE_TX_BUF_MAX = 2
    Buffers = 2
PROPERTY
    InFlightUninterrupted
