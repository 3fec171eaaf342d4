\* Volumes of one subsystem: a failed stage disconnects the others.
CONSTANTS
    v1 = v1
    v2 = v2
    n1 = n1
    n2 = n2
    Volumes = {v1, v2}
    Pods = {}
    Stage = Stage
    Nqns = {n1}
    NqnOf <- SharedNqn
    Threads = {t1, t2}
    Free = Free
    NoCall = NoCall
    Faults = {}
    MaxLayers = 2
SPECIFICATION Spec
PROPERTY NoForeignDisconnect
