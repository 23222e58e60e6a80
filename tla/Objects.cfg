SPECIFICATION MCSpec
CONSTANTS
    InputAssembly = 102
    OutputAssembly = 101
    ConfigAssembly = 103
    AssemblySize <- MCAssemblySize
    Requests <- MCRequests
    StaleOctets = {0, 255}
    ListSpace = 20
    ProductName <- MCProductName
    FaultFlags = {1, 1024, 2048}
    DeviceStatuses <- MCDeviceStatuses
    MaxStarts = 3
INVARIANTS TypeOK RequestReachesNamed SettingsDurable StatusShowsFault
PROPERTIES AnswerTrue ActivatedByRestart
