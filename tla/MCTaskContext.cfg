SPECIFICATION Spec
CONSTANTS
    Clients = {c1, c2}
    c1 = c1
    c2 = c2
    Names = {"default", "worker"}
    NumContexts = 2
    NumPosts = 2
    None = None
INVARIANTS
    StopBlocksTillTaskFinished
CHECK_DEADLOCK FALSE
