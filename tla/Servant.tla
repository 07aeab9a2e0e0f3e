------------------------------ MODULE Servant ------------------------------
(***************************************************************************)
(* The yurtctl-servant script, run on an edge node through nsenter by the  *)
(* Job that RunServantJobs creates.  "convert" puts the yurt-hub static    *)
(* pod manifest in place, waits for the pod and points the kubelet at the  *)
(* hub; "revert" points the kubelet back at the apiserver and removes the  *)
(* manifest.                                                               *)
(*                                                                         *)
(* The state is the part of the node the script reads and writes: the      *)
(* manifest, the copy of kubelet.conf under the openyurt directory, the    *)
(* kubelet.service drop-in, the unit systemd has loaded and the kubelet    *)
(* process.  The script runs under errexit, so it can stop after any       *)
(* command and be run again on what it left behind.                        *)
(***************************************************************************)
EXTENDS Integers, Sequences, FiniteSets

CONSTANTS
    Scripts,      \* the script processes that may run on the node at once
    ActionInputs, \* the values of $1 the script is started with
    Retries       \* the initial value of the local retry (5 in the script)

ASSUME
    /\ IsFiniteSet(Scripts) /\ Scripts # {}
    /\ ActionInputs \subseteq {"convert", "revert", "unknown"}
    /\ Retries \in Nat

VARIABLES
    pc,            \* pc[s]: position of s in its program, 0 when not running
    act,           \* act[s]: $ACTION of the current or last run of s
    retry,         \* retry[s]: the local retry of setup_yurthub
    obs,           \* obs[s]: what the last curl of s showed of the pod
    manifest,      \* $STATIC_POD_PATH/yurt-hub.yaml exists
    hubConf,       \* $OPENYURT_DIR/kubelet.conf
    svc,           \* the kubeconfig line of the drop-in $KUBELET_SVC
    loaded,        \* that line as of the last systemctl daemon-reload
    kubelet,       \* where the running kubelet connects
    pod,           \* the yurt-hub pod as the apiserver reports it
    bootstrapFile, \* $BOOTSTRAP_KUBELET_CONF exists
    lastExit,      \* <<action, exit code>> of the run that ended last
    svc0           \* the drop-in before the script ever touched it

scriptVars == <<pc, act, retry, obs, lastExit>>
nodeVars   == <<manifest, hubConf, svc, loaded, kubelet>>
envVars    == <<pod, bootstrapFile, svc0>>
vars       == <<scriptVars, nodeVars, envVars>>

-----------------------------------------------------------------------------
(* The drop-in line, reduced to what the sed commands tell apart:          *)
(* whether --bootstrap-kubeconfig is on it, which file --kubeconfig names, *)
(* and whether the text that followed the kubeconfig path is still there.  *)
DropIns == [bootstrap : BOOLEAN, kubeconfig : {"default", "hub"}, rest : BOOLEAN]

HubConfs   == {"absent", "copied", "revised"}
Endpoints  == {"apiserver", "hub", "down"}
PodPhases  == {"NotFound", "Pending", "Running", "Failed"}
\* what the script makes of $podStat: a curl that fails or returns
\* anything else leaves neither NotFound nor a Running phase
PodStats   == {"NotFound", "Running", "Other"}
NoExit     == <<"none", 0>>

\* mutant: remove_yurthub is called before revert_kubelet
RevertStepsHubFirst ==
    <<"rmManifest", "rmHubConf", "restoreSvc", "reload", "restart">>

\* mutant: revert_kubelet restarts the kubelet without daemon-reload
RevertStepsNoReload ==
    <<"rmHubConf", "restoreSvc", "restart", "rmManifest">>

\* mutant: reset_kubelet restarts the kubelet without daemon-reload
ConvertStepsNoReload ==
    <<"writeManifest", "poll", "copyConf", "reviseConf", "reviseSvc", "restart">>

\* convert) setup_yurthub; reset_kubelet
ConvertSteps ==
    <<"writeManifest", "poll", "copyConf", "reviseConf", "reviseSvc",
      "reload", "restart">>

\* revert) revert_kubelet; remove_yurthub
RevertSteps ==
    <<"rmHubConf", "restoreSvc", "reload", "restart", "rmManifest">>

Program(a) == IF a = "convert" THEN ConvertSteps ELSE RevertSteps

Running(s) == pc[s] # 0
At(s, step) == Running(s) /\ Program(act[s])[pc[s]] = step

\* the kubelet as systemd starts it from the loaded unit: it reads the
\* kubeconfig the unit names, as that file is at this moment
StartKubelet ==
    CASE loaded.kubeconfig = "default" -> "apiserver"
      [] loaded.kubeconfig = "hub" /\ hubConf = "revised" -> "hub"
      [] loaded.kubeconfig = "hub" /\ hubConf = "copied"  -> "apiserver"
      [] loaded.kubeconfig = "hub" /\ hubConf = "absent"  -> "down"

-----------------------------------------------------------------------------
Init ==
    /\ pc = [s \in Scripts |-> 0]
    /\ act = [s \in Scripts |-> "unknown"]
    /\ retry = [s \in Scripts |-> 0]
    /\ obs = [s \in Scripts |-> "Other"]
    /\ lastExit = NoExit
    /\ manifest = FALSE
    /\ hubConf = "absent"
    /\ svc \in {d \in DropIns : d.kubeconfig = "default"}
    /\ loaded = svc
    /\ kubelet = "apiserver"
    /\ pod = "NotFound"
    /\ bootstrapFile \in BOOLEAN
    /\ svc0 = svc

\* the script ends: s is free for the next run
Exit(s, code) ==
    /\ pc' = [pc EXCEPT ![s] = 0]
    /\ lastExit' = <<act[s], code>>

\* the command at pc[s] succeeded: on to the next one, or to log "done"
Advance(s) ==
    IF pc[s] < Len(Program(act[s]))
    THEN pc' = [pc EXCEPT ![s] = @ + 1] /\ UNCHANGED lastExit
    ELSE Exit(s, 0)

\* case $ACTION in convert) / revert)
Start(s, a) ==
    /\ ~Running(s)
    /\ a \in {"convert", "revert"}
    /\ act' = [act EXCEPT ![s] = a]
    /\ pc' = [pc EXCEPT ![s] = 1]
    /\ UNCHANGED <<retry, obs, lastExit, nodeVars, envVars>>

\* case $ACTION in *) error "unknwon action"; exit 1
StartUnknown(s, a) ==
    /\ ~Running(s)
    /\ a \notin {"convert", "revert"}
    /\ act' = [act EXCEPT ![s] = a]
    /\ lastExit' = <<a, 1>>
    /\ UNCHANGED <<pc, retry, obs, nodeVars, envVars>>

\* set -o errexit: a command of the script fails (or the pod of the Job is
\* killed) and the run ends where it is
Abort(s) ==
    /\ Running(s)
    /\ Exit(s, 1)
    /\ UNCHANGED <<act, retry, obs, nodeVars, envVars>>

-----------------------------------------------------------------------------
(* setup_yurthub *)

\* echo "$yurthub_yaml" > yurt-hub.yaml; local retry=5
WriteManifest(s) ==
    /\ At(s, "writeManifest")
    /\ manifest' = TRUE
    /\ retry' = [retry EXCEPT ![s] = Retries]
    /\ obs' = [obs EXCEPT ![s] = "Other"]
    /\ Advance(s)
    /\ UNCHANGED <<act, hubConf, svc, loaded, kubelet, envVars>>

\* what one curl can return while the pod is in phase ph
StatsOf(ph) == {"Other"} \cup (IF ph \in {"NotFound", "Running"} THEN {ph} ELSE {})

\* mutant: the NotFound branch starts the count again instead of counting
\* the attempt
PollNotFoundRestartsCount(s) ==
    /\ At(s, "poll")
    /\ retry[s] >= 0
    /\ "NotFound" \in StatsOf(pod)
    /\ obs' = [obs EXCEPT ![s] = "NotFound"]
    /\ retry' = [retry EXCEPT ![s] = Retries]
    /\ UNCHANGED <<pc, act, lastExit, nodeVars, envVars>>

\* mutant: the loop has no test of retry
PollNotFoundNoTest(s) ==
    /\ At(s, "poll")
    /\ "NotFound" \in StatsOf(pod)
    /\ obs' = [obs EXCEPT ![s] = "NotFound"]
    /\ retry' = [retry EXCEPT ![s] = @ - 1]
    /\ UNCHANGED <<pc, act, lastExit, nodeVars, envVars>>

\* the pod is not found: retry=$((retry-1)); continue
PollNotFound(s) ==
    /\ At(s, "poll")
    /\ retry[s] >= 0
    /\ "NotFound" \in StatsOf(pod)
    /\ obs' = [obs EXCEPT ![s] = "NotFound"]
    /\ retry' = [retry EXCEPT ![s] = @ - 1]
    /\ UNCHANGED <<pc, act, lastExit, nodeVars, envVars>>

\* the phase is Running: return
PollRunning(s) ==
    /\ At(s, "poll")
    /\ retry[s] >= 0
    /\ "Running" \in StatsOf(pod)
    /\ obs' = [obs EXCEPT ![s] = "Running"]
    /\ Advance(s)
    /\ UNCHANGED <<act, retry, nodeVars, envVars>>

\* any other phase, or no answer: count the attempt, exit 1 after the last
PollNotRunning(s) ==
    /\ At(s, "poll")
    /\ retry[s] >= 0
    /\ obs' = [obs EXCEPT ![s] = "Other"]
    /\ retry' = [retry EXCEPT ![s] = @ - 1]
    /\ IF retry[s] - 1 >= 0
       THEN UNCHANGED <<pc, lastExit>>
       ELSE Exit(s, 1)
    /\ UNCHANGED <<act, nodeVars, envVars>>

\* while [ $retry -ge 0 ] is false: the loop and the function end
LoopExhausted(s) ==
    /\ At(s, "poll")
    /\ retry[s] < 0
    /\ Advance(s)
    /\ UNCHANGED <<act, retry, obs, nodeVars, envVars>>

-----------------------------------------------------------------------------
(* reset_kubelet *)

\* mkdir -p $OPENYURT_DIR; cp $KUBELET_CONF $OPENYURT_DIR/
CopyConf(s) ==
    /\ At(s, "copyConf")
    /\ hubConf' = "copied"
    /\ Advance(s)
    /\ UNCHANGED <<act, retry, obs, manifest, svc, loaded, kubelet, envVars>>

\* sed -i: drop the credentials, point the server at 127.0.0.1:10261
ReviseConf(s) ==
    /\ At(s, "reviseConf")
    /\ hubConf # "absent"
    /\ hubConf' = "revised"
    /\ Advance(s)
    /\ UNCHANGED <<act, retry, obs, manifest, svc, loaded, kubelet, envVars>>

\* s|--kubeconfig=.*|--kubeconfig=<file>|g: the match runs to the end of
\* the line, so what followed the old path goes with it
SetKubeconfig(line, file) == [line EXCEPT !.kubeconfig = file, !.rest = FALSE]

\* the drop-in is revised; --bootstrap-kubeconfig stays only when the
\* bootstrap file exists
ReviseSvc(s) ==
    /\ At(s, "reviseSvc")
    /\ svc' = SetKubeconfig([svc EXCEPT !.bootstrap = @ /\ bootstrapFile], "hub")
    /\ Advance(s)
    /\ UNCHANGED <<act, retry, obs, manifest, hubConf, loaded, kubelet, envVars>>

\* systemctl daemon-reload
Reload(s) ==
    /\ At(s, "reload")
    /\ loaded' = svc
    /\ Advance(s)
    /\ UNCHANGED <<act, retry, obs, manifest, hubConf, svc, kubelet, envVars>>

\* systemctl restart kubelet.service
Restart(s) ==
    /\ At(s, "restart")
    /\ kubelet' = StartKubelet
    /\ Advance(s)
    /\ UNCHANGED <<act, retry, obs, manifest, hubConf, svc, loaded, envVars>>

-----------------------------------------------------------------------------
(* revert_kubelet, remove_yurthub *)

\* [ -f $OPENYURT_DIR/kubelet.conf ] && rm $OPENYURT_DIR/kubelet.conf
RmHubConf(s) ==
    /\ At(s, "rmHubConf")
    /\ hubConf' = "absent"
    /\ Advance(s)
    /\ UNCHANGED <<act, retry, obs, manifest, svc, loaded, kubelet, envVars>>

\* sed -i "s|--kubeconfig=.*|--kubeconfig=$KUBELET_CONF|g;"
RestoreSvc(s) ==
    /\ At(s, "restoreSvc")
    /\ svc' = SetKubeconfig(svc, "default")
    /\ Advance(s)
    /\ UNCHANGED <<act, retry, obs, manifest, hubConf, loaded, kubelet, envVars>>

\* [ -f yurt-hub.yaml ] && rm yurt-hub.yaml
RmManifest(s) ==
    /\ At(s, "rmManifest")
    /\ manifest' = FALSE
    /\ Advance(s)
    /\ UNCHANGED <<act, retry, obs, hubConf, svc, loaded, kubelet, envVars>>

-----------------------------------------------------------------------------
(* The node around the script *)

\* the kubelet runs the static pod while the manifest is there, and the pod
\* may fail and be restarted; without the manifest the pod goes away
PodChanges ==
    /\ pod' \in IF manifest
                THEN CASE pod = "NotFound" -> {"Pending"}
                       [] pod = "Pending"  -> {"Running", "Failed"}
                       [] pod = "Running"  -> {"Failed"}
                       [] pod = "Failed"   -> {"Pending"}
                ELSE {"NotFound"} \ {pod}
    /\ UNCHANGED <<scriptVars, nodeVars, bootstrapFile, svc0>>

\* systemd restarts a kubelet that exited (Restart=always), from the unit
\* it has loaded
KubeletRestarts ==
    /\ kubelet' = StartKubelet
    /\ kubelet' # kubelet
    /\ UNCHANGED <<scriptVars, manifest, hubConf, svc, loaded, envVars>>

-----------------------------------------------------------------------------
Poll(s) ==
    \/ PollNotFound(s)
    \/ PollRunning(s)
    \/ PollNotRunning(s)
    \/ LoopExhausted(s)

Step(s) ==
    \/ WriteManifest(s)
    \/ Poll(s)
    \/ CopyConf(s)
    \/ ReviseConf(s)
    \/ ReviseSvc(s)
    \/ Reload(s)
    \/ Restart(s)
    \/ RmHubConf(s)
    \/ RestoreSvc(s)
    \/ RmManifest(s)

Next ==
    \/ \E s \in Scripts :
        \/ \E a \in ActionInputs : Start(s, a) \/ StartUnknown(s, a)
        \/ Step(s)
        \/ Abort(s)
    \/ PodChanges
    \/ KubeletRestarts

Spec == Init /\ [][Next]_vars

\* bash runs the next command of a script that has one; every command of the
\* script returns
Fairness == \A s \in Scripts : WF_vars(Step(s))

FairSpec == Spec /\ Fairness

-----------------------------------------------------------------------------
TypeOK ==
    /\ pc \in [Scripts -> 0..Len(ConvertSteps)]
    /\ act \in [Scripts -> {"convert", "revert", "unknown"}]
    /\ \A s \in Scripts : Running(s) =>
          act[s] \in {"convert", "revert"} /\ pc[s] <= Len(Program(act[s]))
    /\ retry \in [Scripts -> -1..Retries]
    /\ obs \in [Scripts -> PodStats]
    /\ lastExit \in {NoExit} \cup ({"convert", "revert", "unknown"} \X {0, 1})
    /\ manifest \in BOOLEAN
    /\ hubConf \in HubConfs
    /\ svc \in DropIns /\ loaded \in DropIns /\ svc0 \in DropIns
    /\ kubelet \in Endpoints
    /\ pod \in PodPhases
    /\ bootstrapFile \in BOOLEAN

Quiet == \A s \in Scripts : ~Running(s)

\* The kubelet is pointed at the hub only on a node that has the yurt-hub
\* manifest: convert writes the manifest before reset_kubelet touches the
\* drop-in, and revert calls revert_kubelet (drop-in, daemon-reload,
\* restart) before remove_yurthub, so a run that stops half way never
\* leaves a drop-in, a loaded unit or a kubelet that needs a hub the node
\* will not run.
HubKubeconfigNeedsManifest ==
    (svc.kubeconfig = "hub" \/ loaded.kubeconfig = "hub" \/ kubelet # "apiserver")
        => manifest

\* After a convert that exited 0, and whatever runs were cut short before
\* it, the node is converted as a whole: reset_kubelet has left a revised
\* kubelet.conf, a drop-in that names it, a unit systemd has reloaded since
\* and a kubelet that was restarted from that unit, so the kubelet talks to
\* the hub and keeps doing so when systemd restarts it.
ConvertedNodeIsCoherent ==
    (Quiet /\ lastExit = <<"convert", 0>>) =>
        /\ manifest
        /\ hubConf = "revised"
        /\ svc.kubeconfig = "hub" /\ loaded = svc
        /\ kubelet = "hub"

\* After a revert that exited 0, from whatever state earlier runs left,
\* revert_kubelet and remove_yurthub have undone the conversion: no
\* manifest, no openyurt kubelet.conf, and a kubelet that runs from a
\* reloaded unit naming the original kubeconfig.
RevertedNodeIsDirect ==
    (Quiet /\ lastExit = <<"revert", 0>>) =>
        /\ ~manifest
        /\ hubConf = "absent"
        /\ svc.kubeconfig = "default" /\ loaded = svc
        /\ kubelet = "apiserver"

\* Every run of the script ends: the polling loop of setup_yurthub counts
\* each attempt down, whatever the pod does meanwhile, and nothing else in
\* the script loops.
ScriptTerminates ==
    \A s \in Scripts : Running(s) ~> ~Running(s)

\* The comment on setup_yurthub: it "sets up the yurthub pod and wait for
\* the its status to be Running".  reset_kubelet therefore starts only after
\* a poll that saw the pod Running.
SetupReturnsWhenRunning ==
    \A s \in Scripts : At(s, "copyConf") => obs[s] = "Running"

\* The log line of revert_kubelet: "revised the kubelet.service drop-in
\* file back to the default".  After a revert that exited 0 the drop-in is
\* the one the node had before the script first ran.
RevertRestoresDropIn ==
    (Quiet /\ lastExit = <<"revert", 0>>) => svc = svc0

=============================================================================
