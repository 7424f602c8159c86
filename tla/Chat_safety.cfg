SPECIFICATION Spec
CONSTANTS
    None = None
    one = one
    two = two
    Worker = {one, two}
    Staff = {s1}
    OnDuty = {s1, None}
    GoodPhone = {"0901", "0907"}
    Payment = {"cod", "bank"}
    Recent = 10
    MaxPauses = 1
    MaxActs = 1
    Name <- MCName
    Message <- MCMessage
    Catalogue <- MCCatalogue
    Category <- MCCategory
    Place <- MCPlace
    InStore <- MCInStore
    Accounts <- MCAccounts
    Script <- MCScript
INVARIANTS
    TypeOK
    NothingFromCancelled
    AnnouncedAsPlaced
    ComplaintsReachStaff
    CartKept
CHECK_DEADLOCK FALSE
