CONSTANTS
    executor = executor
    rpc = rpc
    p1 = p1
    p2 = p2
    r1 = r1
    r2 = r2
    r3 = r3
    Callers = {executor, rpc}
    Prompts = {p1, p2}
    Runs = {r1, r2}
    NoRun = NoRun
    NoPrompt = NoPrompt
    MaxStops = 0
    MaxAsks = 0
SPECIFICATION FairSpec
CHECK_DEADLOCK FALSE
INVARIANT GateHolds
