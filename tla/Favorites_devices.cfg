CONSTANTS
    d1 = d1
    d2 = d2
    u1 = u1
    u2 = u2
    Devices = {d1, d2}
    Users = {u1, u2}
    Cafes = {c1}
    Accounts <- MixedAccounts
    Preexisting = {}
    Flaky = {d1, d2}
    NoUser = NoUser
    NoDoc = NoDoc
    MaxTaps = 3
    MaxUnanswered = 3
    MaxSwitches = 1
SPECIFICATION Spec
INVARIANT UpdatesFindTheirDocument
INVARIANT NoDuplicates
