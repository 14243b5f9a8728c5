CONSTANTS
    None = None
    q1 = q1
    q2 = q2
    Owners = {q1, q2}
    HasTtl = TRUE
    MaxBytes = 2
    Limit = 1
    MaxItems = 3
    MaxExpired = 1
    MaxDeletes = 1
    MaxCrashes = 1
    MaxErrors = 2
SPECIFICATION Spec
INVARIANTS
    TypeOK
    NumbersUnique
    DurableOnDisk
    DeletedStayDeleted
    ListingComplete
CHECK_DEADLOCK FALSE
