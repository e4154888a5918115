SPECIFICATION FairSpec
CONSTANTS
    p1 = p1
    p2 = p2
    archive = archive
    After <- InTurn
    Providers = {p1, p2, archive}
    Primary = p1
    Archive = archive
    NoProvider = NoProvider
    Calls = {c1}
    FailureThreshold = 1
    HalfOpenMax = 2
    MaxAttempts = 2
    MaxChanges = 1
    MaxRefusals = 1
INVARIANT OfferedIsExecutable
INVARIANT SentOnce
PROPERTY NobodyLeftUnasked
PROPERTY RecoveredIsOfferedAgain
PROPERTY CallsEnd
