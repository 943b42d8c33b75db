\* Streams of up to 5 items, widened, extended, widened again, or cleared.
CONSTANTS
    a = a
    b = b
    Labels <- MCLabels
    DataSizes <- MCDataSizes
    MaxItems = 5
SYMMETRY MCSymmetry
SPECIFICATION Spec
INVARIANTS
    ShortFormsFit
    LandsOnLabel
    RoundsBounded
