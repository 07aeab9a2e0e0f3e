\* Does setup_yurthub return only after it saw the pod Running?
SPECIFICATION Spec
CONSTANTS
    Scripts = {s1}
    ActionInputs = {"convert", "revert", "unknown"}
    Retries = 5
INVARIANT SetupReturnsWhenRunning
