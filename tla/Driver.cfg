\* Every command line; three faults.
CONSTANTS
    None = None
    MaxFaults = 3
SPECIFICATION FairSpec
INVARIANTS IInv PanicsOnlyUnasked AnswersComplete
PROPERTY ServesAgain
