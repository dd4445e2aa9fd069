SPECIFICATION Recording
CONSTANTS
    init = init
    shell = shell
    a = a
    b = b
    Kernel = Kernel
    Pids <- MCBoth
    Resident <- MCResident
    Protected = {}
    Files = {a, b}
    ImageSlots = {1}
    DriverSlots = {2}
    Biases <- MCAhead
    MAX_PROCESS_COUNT = 4
    MaxTime = 3
    MaxQueue = 2
    MaxLoads = 2
    Reuses = FALSE
    Moves = TRUE
INVARIANTS DriverFramesTrue
CHECK_DEADLOCK FALSE
