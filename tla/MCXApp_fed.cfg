CONSTANTS
    SwitchIds <- MCSwitchIds
    SwitchFlows <- MCSwitchFlows
    HostLocs <- MCHostLocs
    QueueDevice <- MCQueueDevice
    NodeEnums <- MCNodeEnums
    MaxInd = 1
    BuiltinType = BuiltinType
SPECIFICATION Spec
INVARIANT MetricsFed
CHECK_DEADLOCK FALSE
