CONSTANTS
    laptop = laptop
    phone = phone
    Device = {laptop, phone}
    MaxEdits = 2
    MaxBlobs = 12
    MaxRetries = 2
    MaxFaults = 1
    Backends = {TRUE}
    Seeded = TRUE
    MayLoseObject = FALSE
SPECIFICATION FairSpec
PROPERTIES ImplementsSharedVault Converges
