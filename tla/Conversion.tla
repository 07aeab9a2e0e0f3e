----------------------------- MODULE Conversion -----------------------------
(***************************************************************************)
(* The conversion of one edge node from end to end: yurtctl processes that *)
(* call RunServantJobs (module ServantJobs) and the yurtctl-servant script *)
(* that the pod of each Job runs on the node (module Servant).             *)
(*                                                                         *)
(* The two meet in the cluster.  The Job controller starts the pod of a    *)
(* Job that is active, the pod runs the script with the action the Job was *)
(* rendered for, and the Job has succeeded once the script has exited 0.   *)
(* The Jobs of convert and of revert have different names, so the node may *)
(* have one of each, and a Job outlives the yurtctl process that timed out *)
(* waiting for it.                                                         *)
(*                                                                         *)
(* The variables are those of the two modules, instantiated side by side;  *)
(* every step is a step of one of them that leaves the other alone.  What  *)
(* the Job controller does with a pod (the actions PodStarts and           *)
(* JobCompletes) is the environment of both.                               *)
(***************************************************************************)
EXTENDS Naturals, Sequences, FiniteSets

CONSTANTS
    Procs,           \* the yurtctl processes
    Node,            \* the edge node
    TimeoutPeriods,  \* WaitServantJobTimeout / CheckServantJobPeriod
    Retries,         \* the initial value of the script's local retry
    BackoffLimit     \* how often the Job controller starts the pod of a Job
                     \* again after the script has failed in it

Actions == {"convert", "revert"}

VARIABLES
    action, mainPc, idx, result, wg, jpc, ret, elapsed, jobs,  \* ServantJobs
    spc, act, retry, obs, manifest, hubConf, svc, loaded,      \* Servant
    kubelet, pod, bootstrapFile, lastExit, svc0,
    started,    \* per action: how often the pod of the Job that exists
                \* has been started
    completed,  \* the actions whose script has exited 0 in the pod of the
                \* Job that exists
    sole        \* history: the action whose script has had the node to
                \* itself since it started, "none" when there is none

J == INSTANCE ServantJobs WITH
         pc <- jpc, Nodes <- {Node}, EdgeNodeNames <- <<Node>>,
         ActionInputs <- Actions,
         Rendered <- [jn \in Actions \X {Node} |-> "jobYaml"]

S == INSTANCE Servant WITH
         pc <- spc, Scripts <- Actions, ActionInputs <- Actions

jobVars  == <<action, mainPc, idx, result, wg, jpc, ret, elapsed, jobs>>
nodeVars == <<spc, act, retry, obs, manifest, hubConf, svc, loaded,
              kubelet, pod, bootstrapFile, lastExit, svc0>>
glue == <<started, completed, sole>>
vars == <<jobVars, nodeVars, glue>>

JobOf(a) == <<a, Node>>
Other(a) == CHOOSE b \in Actions : b # a

Init ==
    /\ J!Init
    /\ S!Init
    /\ started = [a \in Actions |-> 0]
    /\ completed = {}
    /\ sole = "none"

-----------------------------------------------------------------------------
\* a step of yurtctl or of the cluster's Jobs API; the pod of a Job that is
\* gone has left nothing behind
Yurtctl ==
    /\ \/ \E p \in Procs : J!Main(p) \/ J!Exit(p)
       \/ \E w \in J!Workers : J!Worker(w)
       \/ \E a \in Actions : J!JobCollected(JobOf(a))
    /\ started' = [a \in Actions |->
                      IF jobs'[JobOf(a)] = "absent" THEN 0 ELSE started[a]]
    /\ completed' = {a \in completed : jobs'[JobOf(a)] # "absent"}
    /\ UNCHANGED <<nodeVars, sole>>

\* the Job controller starts the pod of an active Job, again after the
\* script has failed in it; the pod runs the script with the Job's action
PodStarts(a) ==
    /\ jobs[JobOf(a)] = "active"
    /\ a \notin completed
    /\ started[a] <= BackoffLimit
    /\ S!Start(a, a)
    /\ started' = [started EXCEPT ![a] = @ + 1]
    /\ sole' = IF S!Running(Other(a)) THEN "none" ELSE a
    /\ UNCHANGED <<jobVars, completed>>

\* the script runs its next command
ScriptStep(a) ==
    /\ S!Step(a)
    /\ completed' = IF spc'[a] = 0 /\ lastExit' = <<a, 0>>
                    THEN completed \cup {a} ELSE completed
    /\ UNCHANGED <<jobVars, started, sole>>

\* a command of the script fails, or the pod is killed
ScriptAborts(a) ==
    /\ S!Abort(a)
    /\ UNCHANGED <<jobVars, glue>>

\* the Job controller counts the pod whose script exited 0
JobCompletes(a) ==
    /\ a \in completed
    /\ J!JobSucceeds(JobOf(a))
    /\ UNCHANGED <<nodeVars, glue>>

\* the static pod and the kubelet of the node
NodeRuns ==
    /\ S!PodChanges \/ S!KubeletRestarts
    /\ UNCHANGED <<jobVars, glue>>

\* every yurtctl process has exited
Finished ==
    /\ J!Finished
    /\ UNCHANGED <<nodeVars, glue>>

Next ==
    \/ Yurtctl
    \/ \E a \in Actions :
           PodStarts(a) \/ ScriptStep(a) \/ ScriptAborts(a) \/ JobCompletes(a)
    \/ NodeRuns
    \/ Finished

Spec == Init /\ [][Next]_vars

-----------------------------------------------------------------------------
\* the node as convert and as revert are to leave it
Converted ==
    /\ manifest /\ hubConf = "revised"
    /\ svc.kubeconfig = "hub" /\ loaded = svc /\ kubelet = "hub"
Reverted ==
    /\ ~manifest /\ hubConf = "absent"
    /\ svc.kubeconfig = "default" /\ loaded = svc /\ kubelet = "apiserver"
NodeIs(a) == (a = "convert" => Converted) /\ (a = "revert" => Reverted)

\* RunJobAndCleanup deletes a Job with PropagationPolicy Foreground, and the
\* pod of the Job goes with it.  It never does so under a script that is
\* between two commands on the node: the script of an action runs only
\* while the Job of that action is active.  Delete comes after the Get that
\* saw Status.Succeeded, which the controller sets after the exit 0 of the
\* script, and every other return of RunJobAndCleanup, the timeout among
\* them, leaves the Job alone, whichever process created it.
DeleteSparesRunningScript ==
    \A a \in Actions : S!Running(a) => jobs[JobOf(a)] = "active"

\* the goroutines that return nil in this step
Reports(w) == ret'[w] = "nil" /\ ret[w] # "nil"

\* When RunJobAndCleanup returns nil and the goroutine logs "servant job
\* has succeeded", and no script of the other action has been started on
\* the node since the script of this Job was, the node is what the action
\* makes of it: the Get that saw Status.Succeeded came after the exit 0 of
\* the script, whatever runs of either script were cut short before.
ReportHoldsWhenAlone ==
    [][\A w \in J!Workers :
          Reports(w) /\ sole' = action[w[1]] => NodeIs(action[w[1]])']_vars

\* The log line of the goroutine in RunServantJobs, "servant job(%s) has
\* succeeded": when RunJobAndCleanup returns nil for the Job of an action,
\* the node is converted, or reverted.
ReportedJobTookEffect ==
    [][\A w \in J!Workers : Reports(w) => NodeIs(action[w[1]])']_vars

=============================================================================
