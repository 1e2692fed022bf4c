CONSTANTS
    laptop = laptop
    phone = phone
    Device = {laptop, phone}
    MaxEdits = 3
    MaxBlobs = 10
    MaxRetries = 1
    MaxFaults = 0
    Backends = {TRUE}
    Seeded = FALSE
    MayLoseObject = FALSE
SPECIFICATION Spec
INVARIANT NoEditLost
