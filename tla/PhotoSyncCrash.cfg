SPECIFICATION Spec
CONSTANTS
    p1 = p1
    p2 = p2
    a = a
    b = b
    u = u
    n1 = n1
    n2 = n2
    n3 = n3
    t1 = t1
    t2 = t2
    Paths <- TwoPaths
    Contents <- AllContents
    PhoneContents <- PhotoVersions
    UserContents <- UserBytesAndDir
    Metas <- TwoMetas
    Sums <- ContentSums
    SumOf <- ContentSum
    Absent = Absent
    Dir = Dir
    NoRow = NoRow
    PartNames = {n1, n2, n3}
    TrashNames = {t1, t2}
    NoAction = NoAction
    MaxEvents = 1
    Bounds <- CrashBounds
INVARIANTS
    
    CleanBeforeNextItem
PROPERTIES
    OnlyVerifiedFilesReplaced
SYMMETRY Interchangeable
