CONSTANTS
    Loaders = {l1, l2}
    Limit = 4
    MinimumHistory = 2
    RefreshTail = 2
    MaxNow = 6
    MaxLag = 2
    Starts = {0, 1, 2, 3, 4, 5, 6}
    Nobody = Nobody
SPECIFICATION CandlesSpec
SYMMETRY Symmetry
PROPERTIES FinalStays GapReported
