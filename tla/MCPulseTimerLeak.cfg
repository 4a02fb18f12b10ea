SPECIFICATION Spec
VIEW View
CONSTANTS
    SENSOR_MAX_SLOTS = 2
    PROTO_SENSOR_ID_MAX = 3
    ProtocolIds <- MCProtocolIds
    InternalIds <- MCInternalIds
    Pins <- Pins6
    HW_TIMER_COUNT = 2
    WideTimers <- NoWide
    HW_TIMER_CLOCK_HZ = 12
    HW_TIMER_ARR_MAX_16 = 3
    HW_TIMER_ARR_MAX_32 = 31
    HW_TIMER_PSC_MAX = 3
    HW_TIMER_MAX_CHANNELS = 2
    MaxChannel <- MCMaxChannel
    PWM_DUTY_MAX = 4
    DIGITAL_OUT_SENSOR_MAX_COUNT = 2
    DoutCfgs <- MCDoutCfgs
    DoutValues <- MCDoutValues
    PwmCfgs <- MCPwmCfgs
    PwmValues <- MCPwmValues
    SPI_PERIPH_COUNT = 1
    SpiTxBufs <- NoRequests
    DAC_CHANNELS_PER_CHIP = 1
    DacCfgs <- NoRequests
    DacValues <- NoRequests
    SpiSlaveCfgs <- NoRequests
    SpiSlaveValues <- NoRequests
    I2C_SENSOR_MAX_COUNT = 1
    I2cCfgs <- NoRequests
    I2cValues <- NoRequests
INVARIANT
    PulseTimerPinned
