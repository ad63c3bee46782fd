CONSTANTS
    Users = {u1, u2}
    NoUser = NoUser
    Tabs = {home, settings}
    Settings = settings
    Home = home
    Revocable = FALSE
    MaxAttempts = 3
    MaxSwitches = 4
SPECIFICATION Spec
INVARIANT RowNeverOffersLogoutInVain
