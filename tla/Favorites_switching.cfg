CONSTANTS
    d1 = d1
    d2 = d2
    u1 = u1
    u2 = u2
    Devices = {d1}
    Users = {u1, u2}
    Cafes = {c1}
    Accounts <- AllAccounts
    Preexisting = {}
    Flaky = {d1}
    NoUser = NoUser
    NoDoc = NoDoc
    MaxTaps = 3
    MaxUnanswered = 2
    MaxSwitches = 3
SPECIFICATION Spec
INVARIANT TypeOK
INVARIANT DocumentsParse
PROPERTY WritesJoinTheirQueue
PROPERTY RefinesAuthState
