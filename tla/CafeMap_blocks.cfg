CONSTANTS
    taipei = taipei
    keelung = keelung
    penghu = penghu
    t1 = t1
    t2 = t2
    k1 = k1
    p1 = p1
    Cities = {taipei, keelung, penghu}
    HomeCity = taipei
    Cafes = {t1, t2, k1, p1}
    List <- Lists
    Placed = {t1, t2, k1}
    MaxShows = 2
    MaxRequests = 2
SPECIFICATION FairSpec
INVARIANT TypeOK
INVARIANT MapIsLastAnswer
INVARIANT MapIsOfCity
INVARIANT AllIsShown
INVARIANT RacesArePiled
PROPERTY AnswersAreShown
CHECK_DEADLOCK FALSE
