SPECIFICATION Spec
CONSTANTS
    Threads = {t1, t2}
    MaxNest = 1
    Scenarios = {{"tx", "downgrade"}}
PROPERTY HeaderWritten
