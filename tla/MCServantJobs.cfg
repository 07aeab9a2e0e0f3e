\* The servant-job dispatch under the fairness of the Go scheduler: two
\* yurtctl processes at once or one after the other, two nodes, a timeout
\* of two check periods.
SPECIFICATION FairSpec
CONSTANTS
    n1 = n1
    n2 = n2
    Procs = {p1, p2}
    Nodes <- MCNodes
    EdgeNodeNames <- MCEdgeNodeNames
    Rendered <- MCRendered
    ActionInputs = {"convert", "revert", "missing"}
    TimeoutPeriods = 2
INVARIANT TypeOK
INVARIANT WaitBarrier
INVARIANT OneOwnerPerJob
PROPERTY DeleteOnlySucceeded
PROPERTY EventuallyReturns
