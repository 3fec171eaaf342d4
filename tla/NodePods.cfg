\* One volume published to two pods, overlapping requests, every fault.
CONSTANTS
    v1 = v1
    v2 = v2
    n1 = n1
    n2 = n2
    Volumes = {v1}
    Pods = {p1, p2}
    Stage = Stage
    Nqns = {n1}
    NqnOf <- OneNqn
    Threads = {t1, t2}
    Free = Free
    NoCall = NoCall
    Faults <- AllFaults
    MaxLayers = 2
SYMMETRY Symmetry
SPECIFICATION Spec
INVARIANTS IInv StagedOnce RepliesTrue UnpublishedIsGone MountPointReady
