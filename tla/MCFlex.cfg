CONSTANTS
    Images <- FlexImages
    FindRequests <- FlexRequests
    ObjectRequests = {}
    MaxDepth = 4
    MaxRequests = 6
    MaxAllocFailures = 0
    Width = 3
    Platforms = {3}
    PlatformGiven = TRUE
    IS_64_BIT = 1
SPECIFICATION Spec
INVARIANT IncompleteArrayPlacement
PROPERTY MemoSpec
