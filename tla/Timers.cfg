SPECIFICATION Spec
CONSTANTS
    Objects = {t1, t2, t3}
    Delays = {1, 2}
    MaxRepeat = 1
    MaxAhead = 1
    MaxGap = 2
    None = None
INVARIANT LinkedOnce
INVARIANT DueInOrder
INVARIANT NoneOverdue
INVARIANT CalledAsPromised
PROPERTY KeepsFiring
