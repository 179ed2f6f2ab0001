CONSTANTS
    Images <- DeclImages
    FindRequests <- DeclRequests
    ObjectRequests = {}
    MaxDepth = 4
    MaxRequests = 5
    MaxAllocFailures = 1
    Width = 5
    Platforms = {3}
    PlatformGiven = TRUE
    IS_64_BIT = 1
SPECIFICATION Spec
INVARIANT DeclarationsResolved
PROPERTY MemoSafety
