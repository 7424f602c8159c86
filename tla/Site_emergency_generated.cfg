SPECIFICATION SiteSpec
CONSTANTS
    w1 = w1
    w2 = w2
    ann = ann
    boss = boss
    new = new
    none = none
    None = none
    Worker = {w1, w2}
    User = {ann, boss, new, none}
    Seed <- TwoAdmins
    Scenario <- AnswersOnly
    FailLimit = 2
    OtpLimit = 1
    Ttl <- Short
    Catalogue <- Goods
    Promotion <- Percent
    Parents = {"lavie"}
    PastOrder <- Earlier
    BestTtl = 2
    PendingTtl = 1
    ConfirmTtl = 1
    MaxTurns = 2
    Deployments <- Hosts
INVARIANT
    EmergencyIsConstant
CHECK_DEADLOCK FALSE
