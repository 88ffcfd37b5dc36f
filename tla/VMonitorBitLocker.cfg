CONSTANTS
    Ids <- SmallIds
    NoId = NoId
    Budget = 0
SPECIFICATION Spec
PROPERTY BitLockerBlocksRepair
