SPECIFICATION Spec
CONSTANTS
    Publisher = {p1, p2}
    Installer = {i1, i2}
    Build = {b1, b2}
    Approved = b1
    Matching = {b1, b2}
    NoBuild = NoBuild
    NoPublisher = NoPublisher
    MaxFaults = 2
SYMMETRY MCSymmetry
INVARIANTS
    
    IdenticalIsSame
    SuccessLoads
    InstalledAsReported
CHECK_DEADLOCK FALSE
