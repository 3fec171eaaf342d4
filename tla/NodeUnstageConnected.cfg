\* Unstaging the last volume of a subsystem keeps the connection.
CONSTANTS
    v1 = v1
    v2 = v2
    n1 = n1
    n2 = n2
    Volumes = {v1}
    Pods = {}
    Stage = Stage
    Nqns = {n1}
    NqnOf <- OneNqn
    Threads = {t1}
    Free = Free
    NoCall = NoCall
    Faults = {}
    MaxLayers = 2
SPECIFICATION Spec
PROPERTY UnstageDisconnects
