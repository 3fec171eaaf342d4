CONSTANTS
    Ids = {v1, v2}
    Threads = {t1, t2, t3}
    Mutexes = {m1, m2, m3}
    Free = Free
    None = None
SPECIFICATION FairSpec
INVARIANTS IInv MutualExclusion
PROPERTIES Refinement LockReturns
