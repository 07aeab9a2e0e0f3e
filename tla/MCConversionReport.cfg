\* The same instance, asked whether every Job that yurtctl reports as
\* succeeded has left the node as its action wants it.
SPECIFICATION SpecFull
CONSTANTS
    Procs = {p1, p2}
    Node = n1
    TimeoutPeriods = 1
    Retries = 0
    BackoffLimit = 0
SYMMETRY ProcSymmetry
PROPERTY ReportedJobTookEffect
