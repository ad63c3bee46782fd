CONSTANTS
    taipei = taipei
    keelung = keelung
    lienchiang = lienchiang
    t1 = t1
    t2 = t2
    k1 = k1
    Cities = {taipei, keelung, lienchiang}
    HomeCity = taipei
    Cafes = {t1, t2, k1}
    List <- TwoOneList
    Texts = {"a", "z"}
    Matches <- SomeMatches
    Ratings = {"wifi"}
    Rating <- OneRating
    InOrder = FALSE
    MayFail = TRUE
    MaxOutstanding = 4
SPECIFICATION FairSpec
INVARIANT TypeOK
INVARIANT RowsCatchUp
INVARIANT TrapsOnlyBeforeReload
INVARIANT OneCityAtATime
INVARIANT HudIsHidden
PROPERTY SearchKeepsList
PROPERTY HudEnds
CHECK_DEADLOCK FALSE
