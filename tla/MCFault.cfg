CONSTANTS
    Images <- FaultImages
    FindRequests <- FaultRequests
    ObjectRequests = {}
    MaxDepth = 3
    MaxRequests = 3
    MaxAllocFailures = 2
    Width = 3
    Platforms = {3}
    PlatformGiven = TRUE
    IS_64_BIT = 1
SPECIFICATION Spec
INVARIANT TypeOK
INVARIANT DepthBound
PROPERTY RequestsComplete
