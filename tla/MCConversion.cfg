\* One node, a yurtctl process for each of two calls of RunServantJobs, at
\* once or one after the other, each with either action; the pod of a Job
\* runs the script once.
SPECIFICATION SpecFull
CONSTANTS
    Procs = {p1, p2}
    Node = n1
    TimeoutPeriods = 1
    Retries = 0
    BackoffLimit = 0
SYMMETRY ProcSymmetry
VIEW Told
INVARIANT DeleteSparesRunningScript
PROPERTY ReportHoldsWhenAlone
