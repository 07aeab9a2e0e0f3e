\* The test suite, any order of the tests, against the storage.
SPECIFICATION TestsSpec
CONSTANTS
    Keys <- MCKeys
    Payloads <- MCPayloads
    Suite <- MCSuite
INVARIANT TestsPass
