\* Does every return of RunJobAndCleanup leave the Job deleted?
SPECIFICATION Spec
CONSTANTS
    n1 = n1
    n2 = n2
    Procs = {p1}
    Nodes <- MCNodes
    EdgeNodeNames <- MCEdgeNodeNames
    Rendered <- MCRenderedBad
    ActionInputs = {"convert"}
    TimeoutPeriods = 2
INVARIANT CleanupOnReturn
