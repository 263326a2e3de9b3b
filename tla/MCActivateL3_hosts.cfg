CONSTANTS
    DeviceIds <- MCDeviceIds
    HostLists <- MCHostLists
    Outcomes <- MCAllOk
SPECIFICATION Spec
INVARIANT NoCrash
CHECK_DEADLOCK FALSE
