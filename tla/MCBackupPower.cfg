SPECIFICATION Spec
CONSTANTS
    Runs = {r1}
    NoRun = NoRun
    Erasures = {"delete"}
    CrashKinds = {"kill", "power"}
INVARIANTS
    AcceptedIsOneRun
PROPERTIES
    PublishedAtTheEnd
