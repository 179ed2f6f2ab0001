CONSTANTS
    Images <- MatrixImages
    FindRequests <- MatrixRequests
    ObjectRequests = {}
    MaxDepth = 4
    MaxRequests = 2
    MaxAllocFailures = 1
    Width = 3
    Platforms = {3}
    PlatformGiven = TRUE
    IS_64_BIT = 1
SPECIFICATION Spec
INVARIANT NoIndeterminateType
