SPECIFICATION Spec
CONSTANTS
    l1 = l1
    r2 = r2
    r1 = r1
    p1 = p1
    NoPhoto = NoPhoto
    Photo = {p1}
    Movie = {}
    Recoded = {p1}
    NJobs = 1
    MaxAttempts = 3
    Mishap = {"disconnect"}
    MaxMishaps = 1
    Request = {r1, r2}
    Operation = {"attach", "ingest", "reprocess", "delete"}
    DoubleSubmit = FALSE
    Lane = {l1}
    MovieLane = {}
    SlowUploads = FALSE
INVARIANTS
    ReadyServable
PROPERTIES
    FollowsLifecycle
