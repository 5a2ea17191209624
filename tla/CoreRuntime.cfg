CONSTANTS
    task = task
    p1 = p1
    p2 = p2
    p3 = p3
    A = A
    B = B
    NoProject = NoProject
    Tasks = {task}
    PortThreads = {p1, p2, p3}
    Projects = {A, B}
SPECIFICATION CoreFairSpec
CHECK_DEADLOCK FALSE
INVARIANTS
    CoreTypeOK
    LifeCycle
PROPERTIES
    DeletedWhenFinished
    Ends
