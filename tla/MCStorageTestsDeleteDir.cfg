\* TestDeleteDir against Delete of a namespace node.
SPECIFICATION TestsSpec
CONSTANTS
    Keys <- MCKeys
    Payloads <- MCPayloads
    Suite <- MCDeleteDir
INVARIANT TestsPass
