\* Every small config of one backend: which ones start, with what strategies.
CONSTANTS
    b1 = b1
    b2 = b2
    t1 = t1
    t2 = t2
    Names <- SpaceNames
    Templates <- SpaceTemplates
    ConfigSpace <- SpaceConfigs
    ActionParams <- SpaceParams
    MaxMessages = 0
SPECIFICATION Spec
INVARIANTS
    TypeOK
    ValidationNeverFailureFiltered
CHECK_DEADLOCK FALSE
