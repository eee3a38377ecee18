CONSTANTS
    Keys = {k1}
    None = None
    MaxBody = 1
    MaxUpload = 1
    MaxData = 1
    MaxFrames = 1
    MaxRequests = 2
SPECIFICATION Spec
INVARIANTS
    BodyOnItsOwnStream
CHECK_DEADLOCK FALSE
