--------------------------- MODULE MCServantJobs ---------------------------
(***************************************************************************)
(* ServantJobs instantiated for TLC.                                       *)
(***************************************************************************)
EXTENDS ServantJobs

CONSTANTS n1, n2

\* Two edge nodes.  A convert renders a Job for both, so RunServantJobs
\* reaches wg.Wait with two goroutines; a revert renders something else for
\* the second (a Pod, or yaml that does not decode), so RunServantJobs
\* returns from its loop while the first goroutine runs.
MCNodes == {n1, n2}
MCEdgeNodeNames == <<n1, n2>>
MCRendered ==
    [jn \in {"convert", "revert"} \X MCNodes |->
        IF jn = <<"revert", n2>> THEN "podYaml" ELSE "jobYaml"]
MCRenderedBad ==
    [jn \in {"convert", "revert"} \X MCNodes |->
        IF jn = <<"revert", n2>> THEN "badYaml" ELSE "jobYaml"]

=============================================================================
