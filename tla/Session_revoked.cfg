CONSTANTS
    Users = {u1, u2}
    NoUser = NoUser
    Tabs = {home, settings}
    Settings = settings
    Home = home
    Revocable = TRUE
    MaxAttempts = 3
    MaxSwitches = 3
SPECIFICATION FairSpec
INVARIANT TypeOK
INVARIANT AnswersFindADelegate
PROPERTY RefinesAuthState
PROPERTY UserIsNoticed
