CONSTANTS
    Threads = {t1, t2}
    Kernel = Kernel
    None = None
    MaxTr = 2
    MaxNest = 1
    Scenarios = {{}}
SPECIFICATION Spec
INVARIANT InflightFlushed
