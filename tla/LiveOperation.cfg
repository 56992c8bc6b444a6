SPECIFICATION LiveSpec
CONSTANTS
    Orders = {o1, o2}
    Incidents = {i1, i2}
    Critical = {i1}
    Holders = {h1, h2}
    MaxSent = 2
SYMMETRY MCSymmetry
INVARIANT TakenTwiceOnlyForgotten
PROPERTY PassesOnlyUnseen
