\* Two goroutines call the engine at once; is every call one step of the
\* storage, and the storage the key-value map, to whoever calls it?
SPECIFICATION Spec
CONSTANTS
    Callers = {c1, c2}
    Nobody = Nobody
    Keys <- MCKeys
    Payloads = {v1, v2}
SYMMETRY Symmetry
PROPERTY ImplementsDiskStorage
PROPERTY ImplementsKVStore
