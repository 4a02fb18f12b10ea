SPECIFICATION FreePinsSpec
VIEW View
CONSTANTS
    SENSOR_MAX_SLOTS = 2
    PROTO_SENSOR_ID_MAX = 3
    ProtocolIds <- MCProtocolIds
    InternalIds <- MCInternalIds
    Pins <- Pins6
    HW_TIMER_COUNT = 2
    WideTimers <- OneWide
    HW_TIMER_CLOCK_HZ = 12
    HW_TIMER_ARR_MAX_16 = 3
    HW_TIMER_ARR_MAX_32 = 31
    HW_TIMER_PSC_MAX = 3
    HW_TIMER_MAX_CHANNELS = 2
    MaxChannel <- MCMaxChannel
    PWM_DUTY_MAX = 4
    DIGITAL_OUT_SENSOR_MAX_COUNT = 2
    DoutCfgs <- MCDoutCfgs
    DoutValues <- MCDoutValues
    PwmCfgs <- MCPwmCfgs
    PwmValues <- MCPwmValues
    SPI_PERIPH_COUNT = 1
    SpiTxBufs <- MCTxBufs
    DAC_CHANNELS_PER_CHIP = 2
    DacCfgs <- MCDacCfgs
    DacValues <- MCDacValues
    SpiSlaveCfgs <- MCSpiSlaveCfgs
    SpiSlaveValues <- MCSpiSlaveValues
    I2C_SENSOR_MAX_COUNT = 2
    I2cCfgs <- MCI2cCfgs
    I2cValues <- MCI2cValues
INVARIANTS
    TypeOK
    PwmTimerOwnership
    ArmedPulseHasOwner
    SensorsAccounted
    BusOwnership
    IdlePinsReleased
    PinsAccounted
PROPERTIES
    SetupAllOrNothing
    HoldCancelsSwPulse
    DutyWithinOneCount
    OutputsIsolated
