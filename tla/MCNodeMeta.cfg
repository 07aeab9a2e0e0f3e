\* Two callers label and annotate one Node from objects that may be stale,
\* while the kubelet patches it.
SPECIFICATION Spec
CONSTANTS
    Callers = {c1, c2}
    Keys = {k1}
    Vals = {v1, v2}
    MaxVersion = 4
    NilMap = NilMap
    NoNode = NoNode
SYMMETRY MetaSymmetry
CHECK_DEADLOCK FALSE
INVARIANT TypeOK
PROPERTY NoForeignChange
