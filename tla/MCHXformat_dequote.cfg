SPECIFICATION Spec
CONSTANTS
    Letters = {"a"}
    Contents = {}
    Upper <- MCUpper
    MaxSize = 1
    Scanned <- MCScanned
CHECK_DEADLOCK FALSE
PROPERTY DequoteEnds
