\* A crash in the middle of an append, the snapshots all whole.
SPECIFICATION Spec
CONSTANTS
    Users = {1, 2}
    Names <- MCNames
    PipedNames = {"pi|ped", "run|on"}
    CutName = "cut"
    RunOnName = "run|on"
    Stranger = 0
    MaxOperations = 4
    MaxWithCut = 3
INVARIANTS TornAppendAlone
CHECK_DEADLOCK FALSE
