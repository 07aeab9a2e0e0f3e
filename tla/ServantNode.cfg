\* One script at a time, run again and again from whatever the last run
\* left, cut short at any command; bash runs every command that is next.
SPECIFICATION FairSpec
CONSTANTS
    Scripts = {s1}
    ActionInputs = {"convert", "revert", "unknown"}
    Retries = 5
INVARIANT TypeOK
INVARIANT HubKubeconfigNeedsManifest
INVARIANT ConvertedNodeIsCoherent
INVARIANT RevertedNodeIsDirect
PROPERTY ScriptTerminates
