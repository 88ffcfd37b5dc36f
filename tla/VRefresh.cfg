SPECIFICATION Spec
CONSTANTS
    Runs = {r1}
    NoRun = NoRun
    Erasures = {}
    CrashKinds = {"power"}
INVARIANT
    RefreshNeverRaises
