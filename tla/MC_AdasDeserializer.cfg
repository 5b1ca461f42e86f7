CONSTANTS
    Types = {"CameraImage", "Lidar"}
    Known = {"CameraImage"}
    MaxRecords = 3
    MaxSize = 2
SPECIFICATION Spec
INVARIANT OutputIsPrefix
INVARIANT CompleteFileFullyDecoded
CHECK_DEADLOCK FALSE
