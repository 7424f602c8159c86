SPECIFICATION SiteSpec
CONSTANTS
    w1 = w1
    w2 = w2
    ann = ann
    boss = boss
    new = new
    none = none
    None = none
    Worker = {w1, w2}
    User = {ann, boss, new, none}
    Seed <- TwoAdmins
    Scenario <- AllScenarios
    FailLimit = 2
    OtpLimit = 1
    Ttl <- Short
    Catalogue <- Goods
    Promotion <- Percent
    Parents = {"lavie"}
    PastOrder <- Earlier
    BestTtl = 2
    PendingTtl = 1
    ConfirmTtl = 1
    MaxTurns = 2
    Deployments <- Hosts
INVARIANTS
    TypeOK
    RevokedStaysRefused
    SpentOnce
    AdminsRemain
    FailuresCounted
    ActsWithAuthority
    AppliedOnce
    ApprovedValueReplaced
    CouponStaysValid
    CatalogueReadable
    OffSaleNotShown
    DeletedVariantsOff
    DoubleOptIn
    VotesAreReviewed
    SearchMatchesText
    TurnsBounded
    PromptedUserApplies
    WrittenByOne
    KeywordsAnswered
PROPERTIES
    LearnsCorrection
CHECK_DEADLOCK FALSE
