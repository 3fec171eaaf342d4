\* A subsystem for each volume; the plugin and the node may restart.
CONSTANTS
    v1 = v1
    v2 = v2
    n1 = n1
    n2 = n2
    Volumes = {v1, v2}
    Pods = {}
    Stage = Stage
    Nqns = {n1, n2}
    NqnOf <- DedicatedNqn
    Threads = {t1, t2}
    Free = Free
    NoCall = NoCall
    Faults = {"crash", "reboot"}
    MaxLayers = 2
SPECIFICATION RetrySpec
INVARIANT StagedIsLive
PROPERTIES RequestsReturn StageRecovers
