\* Two messages to one backend: does it receive them in emission order?
CONSTANTS
    b1 = b1
    b2 = b2
    t1 = t1
    t2 = t2
    Names <- DeliveryNames
    Templates <- DeliveryTemplates
    ConfigSpace <- DeliveryConfigs
    ActionParams <- DeliveryParams
    MaxMessages = 2
SPECIFICATION DeliverySpec
INVARIANTS
    DeliveredInEmitOrder
CHECK_DEADLOCK FALSE
