\* Two names, two volumes, overlapping calls, every RPC may fail, both sides may restart.
CONSTANTS
    Names = {a, b}
    Threads = {t1, t2}
    None = None
    MaxLvols = 2
SYMMETRY Symmetry
SPECIFICATION Spec
INVARIANTS IInv AllOrNothing UnpublishHides
