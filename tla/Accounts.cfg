SPECIFICATION FairSpec
CONSTANTS
    Logins = {l1, l2}
    EmailLogins = {l2}
    Admins = {a1, a2}
    Beat = beat
    MaxWork = 3
INVARIANTS StatusesAgree SessionsHaveTokens ChangeEndsTokens
PROPERTIES LiftsOnlyTimed ExpiredIsLifted
CHECK_DEADLOCK FALSE
