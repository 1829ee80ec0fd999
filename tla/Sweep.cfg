SPECIFICATION Spec
CONSTANTS
    l1 = l1
    r2 = r2
    r1 = r1
    p2 = p2
    p1 = p1
    NoPhoto = NoPhoto
    Photo = {p1, p2}
    Movie = {}
    Recoded = {}
    NJobs = 2
    MaxAttempts = 3
    Mishap = {"disconnect"}
    MaxMishaps = 1
    Request = {r1, r2}
    Operation = {"complete", "abort"}
    DoubleSubmit = TRUE
    Lane = {l1}
    MovieLane = {}
    SlowUploads = FALSE
INVARIANTS
    AckedKept
    SweptClean
