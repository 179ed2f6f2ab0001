CONSTANTS
    Images <- PlatformImages
    FindRequests <- PlatformRequests
    ObjectRequests = {}
    MaxDepth = 3
    MaxRequests = 6
    MaxAllocFailures = 1
    Width = 3
    Platforms = {2, 3}
    PlatformGiven = FALSE
    IS_64_BIT = 1
SPECIFICATION Spec
INVARIANT PointerSizeAgrees
PROPERTY MemoSpec
