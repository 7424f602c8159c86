SPECIFICATION Spec
CONSTANTS
    None = None
    one = one
    two = two
    Worker = {one}
    Staff = {s1}
    OnDuty = {s1, None}
    GoodPhone = {"0901", "0907"}
    Payment = {"cod", "bank"}
    Recent = 10
    MaxPauses = 0
    MaxActs = 0
    Name <- MCName
    Message <- MCMessage
    Catalogue <- MCCatalogue
    Category <- MCCategory
    Place <- MCPlace
    InStore <- MCInStore
    Accounts <- MCAccounts
    Script <- MCShort
INVARIANT PlacedAsSummarised
CHECK_DEADLOCK FALSE
