\* A DeleteVolume whose answer was lost is repeated, and never succeeds.
CONSTANTS
    a = a
    b = b
    q1 = q1
    Names = {a, b}
    Nqns = {q1}
    NqnOf <- OneSubsystem
    Threads = {t1}
    Free = Free
    None = None
    Malformed = Malformed
    ReuseNsids = FALSE
    AcceptDuplicates = FALSE
    MaxAdds = 2
    MaxFaults = 1
SPECIFICATION RetrySpec
PROPERTY DeletesSucceed
