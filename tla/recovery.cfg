\* Crashes between any two calls, between logging and applying, and in the middle
\* of every write.
SPECIFICATION Spec
CONSTANTS
    Users = {1, 2}
    Names <- MCNames
    PipedNames = {"pi|ped", "run|on"}
    CutName = "cut"
    RunOnName = "run|on"
    Stranger = 0
    MaxOperations = 4
    MaxWithCut = 3
INVARIANTS NothingLost CutEndHarmless OnlyLoses
CHECK_DEADLOCK FALSE
