\* Two backends receive two messages; every goroutine eventually runs.
CONSTANTS
    b1 = b1
    b2 = b2
    t1 = t1
    t2 = t2
    Names <- DeliveryNames
    Templates <- DeliveryTemplates
    ConfigSpace <- DeliveryConfigs
    ActionParams <- DeliveryParams
    MaxMessages = 2
SPECIFICATION DeliverySpec
PROPERTIES
    SelectedBackendsReceive
CHECK_DEADLOCK FALSE
