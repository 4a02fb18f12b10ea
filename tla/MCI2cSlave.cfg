SPECIFICATION Spec
CONSTANTS
    Configs <- MCConfigs
    DutBytes = {0, 1}
    MaxBytes = 3
INVARIANTS
    IsrSeesLiveMap
    ServesAddressed
PROPERTY
    ReadsServed
