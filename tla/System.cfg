\* Two volumes of one subsystem, one of them used by a pod of the node.
CONSTANTS
    a = a
    b = b
    q1 = q1
    Names = {a, b}
    Nqns = {q1}
    NqnOf <- OneSubsystem
    Threads = {t1}
    NodeThreads = {n1}
    Pods = {p1}
    Used = {a}
    Stage = Stage
    Free = Free
    None = None
    Malformed = Malformed
    ReuseNsids = FALSE
    AcceptDuplicates = FALSE
    MaxAdds = 2
    MaxFaults = 1
    MaxLayers = 2
    NodeFaults = {"crash", "reboot", "loss", "halfMount"}
    GivesUp = FALSE
SPECIFICATION Spec
INVARIANTS IInv OwnDevice ReadyIsExported PodsGetDevices DeletedIsUnmounted
