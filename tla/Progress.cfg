SPECIFICATION FairSpec
CONSTANTS
    l2 = l2
    l1 = l1
    r1 = r1
    p2 = p2
    p1 = p1
    NoPhoto = NoPhoto
    Photo = {p1, p2}
    Movie = {p2}
    Recoded = {}
    NJobs = 2
    MaxAttempts = 3
    Mishap = {}
    MaxMishaps = 0
    Request = {r1}
    Operation = {"complete", "delete"}
    DoubleSubmit = FALSE
    Lane = {l1, l2}
    MovieLane = {l2}
    SlowUploads = FALSE
PROPERTIES
    UploadSettles
    ReservationReleased
