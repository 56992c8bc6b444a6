SPECIFICATION FairSpec
CONSTANTS
    Workers = {w1, w2}
    Interval = 2
    Lease = 3
    MaxWait = 1
    MaxEvidence = 3
    MaxFailures = 2
    None = None
INVARIANTS Exclusive ChainValid
PROPERTIES LeaseIsKept EvidenceAccumulates
