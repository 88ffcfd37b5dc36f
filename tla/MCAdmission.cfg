CONSTANTS
    Slots = {s1, s2}
    Room = 4
    Margin = 1
    Tolerance = 1
    Sizes <- SmallSizes
    Sticks <- SmallSticks
    Budget = 3
SPECIFICATION Spec
SYMMETRY SlotSymmetry
INVARIANTS TypeOK FileSystemFits PreparedIsEnough
PROPERTY StaysOnHomeDisk
