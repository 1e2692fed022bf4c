CONSTANTS
    laptop = laptop
    phone = phone
    Device = {laptop, phone}
    MaxEdits = 1
    MaxBlobs = 16
    MaxRetries = 1
    MaxFaults = 2
    Backends = {TRUE, FALSE}
    Seeded = TRUE
    MayLoseObject = TRUE
SPECIFICATION FaultySpec
SYMMETRY Symmetry
INVARIANT PointersAgree
PROPERTIES UnuploadedEditsKept ShrinkIsBackedUp
