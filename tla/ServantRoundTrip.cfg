\* Does revert leave the drop-in as it was before convert?
SPECIFICATION Spec
CONSTANTS
    Scripts = {s1}
    ActionInputs = {"convert", "revert", "unknown"}
    Retries = 5
INVARIANT RevertRestoresDropIn
