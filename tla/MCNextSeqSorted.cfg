SPECIFICATION Spec
CONSTANTS
    QueueNumbers <- Numbers
    Starts <- StartNumbers
    MaxRows = 2
INVARIANT QueueIsSorted
CHECK_DEADLOCK FALSE
