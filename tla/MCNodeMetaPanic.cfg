\* Does a call add its pair to every Node the apiserver can hand out?
SPECIFICATION Spec
CONSTANTS
    Callers = {c1}
    Keys = {k1}
    Vals = {v1}
    MaxVersion = 2
    NilMap = NilMap
    NoNode = NoNode
CHECK_DEADLOCK FALSE
INVARIANT AddsToGivenNode
