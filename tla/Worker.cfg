SPECIFICATION Spec
CONSTANTS
    l2 = l2
    l1 = l1
    r1 = r1
    p2 = p2
    p1 = p1
    NoPhoto = NoPhoto
    Photo = {p1, p2}
    Movie = {}
    Recoded = {p1}
    NJobs = 2
    MaxAttempts = 2
    Mishap = {"fault", "timeout", "crash"}
    MaxMishaps = 2
    Request = {r1}
    Operation = {"complete"}
    DoubleSubmit = FALSE
    Lane = {l1, l2}
    MovieLane = {}
    SlowUploads = FALSE
INVARIANTS
    ReadyServable
    OneHandlerPerJob
    BytesKept
    AttemptsSpent
