CONSTANTS
    DeviceIds <- MCDeviceIds
    HostLists <- MCHostLists
    Outcomes <- MCAnyOutcome
SPECIFICATION Spec
INVARIANTS TypeOK AllPosted
CHECK_DEADLOCK FALSE
