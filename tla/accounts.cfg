SPECIFICATION MCSpec
CONSTANTS
    Users = {u1, u2}
    NoUser = NoUser
    Phones = {p1, p2}
    Emails = {e1, e2, e3}
    Mailbox <- MCMailbox
    Other = e3
    Passwords = {w1, w2}
    Slots = {r1, r2}
    MaxCodes = 2
    MaxAddresses = 2
    MaxCalls = 4
    CodeCalls = 3
CHECK_DEADLOCK FALSE
SYMMETRY Symmetry
INVARIANTS ProfilesAgree CodesWork OnboardingEnds
PROPERTIES FollowsVerification
