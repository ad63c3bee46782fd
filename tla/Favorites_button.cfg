CONSTANTS
    d1 = d1
    d2 = d2
    u1 = u1
    u2 = u2
    Devices = {d1}
    Users = {u1, u2}
    Cafes = {c1, c2}
    Accounts <- OwnAccounts
    Preexisting = {c1}
    Flaky = {d1}
    NoUser = NoUser
    NoDoc = NoDoc
    MaxTaps = 2
    MaxUnanswered = 2
    MaxSwitches = 2
SPECIFICATION FairSpec
INVARIANT ButtonMatchesStore
PROPERTY TapsAreAnswered
PROPERTY WritesReachTheServer
