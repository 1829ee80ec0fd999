SPECIFICATION Spec
CONSTANTS
    l2 = l2
    l1 = l1
    r2 = r2
    r1 = r1
    p1 = p1
    NoPhoto = NoPhoto
    Photo = {p1}
    Movie = {}
    Recoded = {p1}
    NJobs = 2
    MaxAttempts = 2
    Mishap = {"fault", "timeout", "crash", "disconnect"}
    MaxMishaps = 1
    Request = {r1, r2}
    Operation = {"complete", "abort", "delete"}
    DoubleSubmit = FALSE
    Lane = {l1, l2}
    MovieLane = {}
    SlowUploads = FALSE
INVARIANTS
    TypeOK
    ConfirmedHasJob
PROPERTIES
    FollowsLifecycle
