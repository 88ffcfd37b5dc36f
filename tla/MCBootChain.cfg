CONSTANTS
    Ids <- SmallIds
    NoId = NoId
    Budget = 2
SPECIFICATION FairSpec
INVARIANTS TypeOK WindowsStaysListed NoSecondEntry BitLockerHonoured
PROPERTIES NoKnownEntryLost SaidRepairedIsRepaired RebootReachesWindows MonitorRepairs
