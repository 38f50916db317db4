SPECIFICATION Spec
CONSTANTS
    NumSectors = 5
    DIRECT_CNT = 1
    PTRS_PER_SECTOR = 2
    Names = {a, b}
    NoName = NoName
    MaxOpen = 1
    Writes <- MCWrites
    MaxCreates = 2
    MaxBoots = 1
SYMMETRY MCSymmetry
INVARIANTS
    TypeOK
    NoSharing
    SectorsAccounted
    DamageIsRecent
PROPERTIES
    ImplementsFileSpec
CHECK_DEADLOCK FALSE
