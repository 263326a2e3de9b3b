CONSTANTS
    SwitchIds <- MCSwitchIds
    SwitchFlows <- MCSwitchFlows
    HostLocs <- MCHostLocs
    QueueDevice <- MCQueueDevice
    NodeEnums <- MCNodeEnums
    MaxInd = 1
    BuiltinType = BuiltinType
SPECIFICATION Spec
INVARIANTS TypeOK NoCallbackError HandlersReleased
PROPERTY ImplementsRegistry
CHECK_DEADLOCK FALSE
