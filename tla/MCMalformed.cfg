CONSTANTS
    Images <- MalformedImages
    FindRequests <- MalformedTypeRequests
    ObjectRequests <- MalformedObjectRequests
    MaxDepth = 4
    MaxRequests = 4
    MaxAllocFailures = 0
    Width = 3
    Platforms = {3}
    PlatformGiven = TRUE
    IS_64_BIT = 1
SPECIFICATION Spec
INVARIANT MalformedRejected
PROPERTY MemoSpec
