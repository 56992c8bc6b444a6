SPECIFICATION Spec
CONSTANTS
    Providers = {"alpaca_sip", "histdata", "dukascopy"}
    Limited = {"alpaca_sip"}
    Ranges <- MCRanges
    MonthCount = 2
    Days = 2
    FrameCount = 2
    Tolerance = 1
    MinimumDays = 2
    MinimumRows = 2
    MaxRevision = 1
    MaxRuns = 2
    Length <- MCLength
    DayOpen = 3
    DayClose = 13
    DaysOpen = 2
    NoVolume <- MCNoVolume
    Refused = Refused
INVARIANTS OneFetchPerUnit ManifestAnswersRequest LoadedIsQualified
PROPERTIES ManifestVerified CheckpointVerified
CHECK_DEADLOCK FALSE
