\* The gateway gives NSIDs out again: a repeated DeleteVolume hits another volume.
CONSTANTS
    a = a
    b = b
    q1 = q1
    Names = {a, b}
    Nqns = {q1}
    NqnOf <- OneSubsystem
    Threads = {t1, t2}
    Free = Free
    None = None
    Malformed = Malformed
    ReuseNsids = TRUE
    AcceptDuplicates = FALSE
    MaxAdds = 3
    MaxFaults = 1
SPECIFICATION Spec
INVARIANT VolumesKept
