SPECIFICATION FairSpec
CONSTANTS
    Slots = {1, 2}
    Passwords = {p0, p1, p2}
    First = p0
    ByLink = ByLink
    MaxAttempts = 2
    History = 1
    MaxTries = 2
    LockTicks = 2
    MaxLines = 2
    Sittings <- TheSittings
    Visits <- TheVisits
    Frames <- TheFrames
INVARIANTS TypeOK SessionsFollowPassword AdminLockStays GrantsAreKept PageWaits ShownIsAsked OneCreate SaidIsTrue 
PROPERTIES NoRecentReuse EarnedLock PagesSettle
CHECK_DEADLOCK FALSE
