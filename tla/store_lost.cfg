CONSTANTS
    short = short
    long = long
    Threads = {t1, t2}
    Names = {n1}
    Blobs = {short, long}
    Size <- Sizes
    Inodes = {i1, i2, i3}
    NoFile = NoFile
    NoRequest = NoRequest
    Junk = Junk
    Exclusive = FALSE
    Faults <- NoFaults
SPECIFICATION Spec
PROPERTIES
    OkMeansStored
