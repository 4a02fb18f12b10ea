SPECIFICATION TableSpec
CONSTANTS
    SENSOR_MAX_SLOTS = 3
    PROTO_SENSOR_ID_MAX = 6
    ProtocolIds <- MCProtocolIds
    InternalIds <- MCInternalIds
INVARIANT
    UniqueIds
PROPERTY
    RecycleGap
