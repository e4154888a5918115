SPECIFICATION Spec
CONSTANTS
    Requests = {r1, r2}
    q1 = q1
    Quotes = {q1, q2}
    Approval = Approval
    Intents = {i1, i2}
    Txs = {t1, t2}
    CallOf <- MCCallOf
    None = None
    MaxCached = 1
    MaxLapses = 1
    MaxReorgs = 1
SYMMETRY Alike
INVARIANT StatusHasEvidence
PROPERTY BindsOneTransaction
