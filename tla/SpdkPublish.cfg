\* A publish or unpublish half undone: the next publish reports success.
CONSTANTS
    Names = {a, b}
    Threads = {t1, t2}
    None = None
    MaxLvols = 2
SPECIFICATION Spec
PROPERTY PublishExports
