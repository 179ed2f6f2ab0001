CONSTANTS
    Images <- QualifiedArrayImages
    FindRequests <- QualifiedArrayRequests
    ObjectRequests = {}
    MaxDepth = 4
    MaxRequests = 2
    MaxAllocFailures = 0
    Width = 3
    Platforms = {3}
    PlatformGiven = TRUE
    IS_64_BIT = 1
SPECIFICATION Spec
INVARIANT IncompleteArrayPlacement
