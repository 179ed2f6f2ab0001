CONSTANTS
    Images <- ObjectImages
    FindRequests <- ObjectTypeRequests
    ObjectRequests <- ObjectFindRequests
    MaxDepth = 4
    MaxRequests = 3
    MaxAllocFailures = 0
    Width = 4
    Platforms = {3}
    PlatformGiven = TRUE
    IS_64_BIT = 1
SPECIFICATION Spec
INVARIANT TypeLookupFirstMatch
INVARIANT ObjectLookupCorrect
PROPERTY MemoSpec
