\* Two volumes, overlapping and repeated requests, a fault.
CONSTANTS
    a = a
    b = b
    q1 = q1
    Names = {a, b}
    Nqns = {q1}
    NqnOf <- OneSubsystem
    Threads = {t1, t2}
    Free = Free
    None = None
    Malformed = Malformed
    ReuseNsids = FALSE
    AcceptDuplicates = FALSE
    MaxAdds = 2
    MaxFaults = 1
SPECIFICATION CreateSpec
INVARIANTS IInv VolumesKept NoOrphans PublishMatchesId
PROPERTIES NamespacesKept RequestsReturn CreatesSucceed
