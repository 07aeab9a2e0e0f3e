---------------------------- MODULE ServantJobs ----------------------------
(***************************************************************************)
(* yurtctl's dispatch of servant jobs (pkg/yurtctl/util/kubernetes/util.go).*)
(*                                                                         *)
(* RunServantJobs walks edgeNodeNames, renders one batch Job per node and  *)
(* starts one goroutine per node that runs RunJobAndCleanup: create the    *)
(* Job, poll it every CheckServantJobPeriod until it has succeeded or      *)
(* WaitServantJobTimeout has passed, delete it.  A sync.WaitGroup holds    *)
(* RunServantJobs back until every goroutine has returned.                 *)
(*                                                                         *)
(* Several yurtctl processes may run against one cluster, one after the    *)
(* other or at once.  The Jobs API of the cluster is part of the model: a  *)
(* Job name is unique, a call may fail, and a failed call may still have   *)
(* been applied.  The Job controller (a Job succeeds), the garbage         *)
(* collector (a Job under foreground deletion disappears) and the exit of  *)
(* a yurtctl process are environment actions.                              *)
(***************************************************************************)
EXTENDS Naturals, Sequences, FiniteSets

CONSTANTS
    Procs,           \* the yurtctl processes that call RunServantJobs
    Nodes,           \* the names of the cluster's edge nodes
    EdgeNodeNames,   \* the slice RunServantJobs is called with
    ActionInputs,    \* the values tmplCtx["action"] is called with
    Rendered,        \* per job name: what SubsituteTemplate makes of tmplCtx
    TimeoutPeriods   \* WaitServantJobTimeout / CheckServantJobPeriod

ASSUME /\ EdgeNodeNames \in Seq(Nodes)
       /\ ActionInputs \subseteq {"convert", "revert", "unknown", "missing"}
       /\ ActionInputs # {}
       /\ Rendered \in [{"convert", "revert"} \X Nodes ->
                        {"tmplErr", "jobYaml", "podYaml", "badYaml"}]
       /\ TimeoutPeriods \in Nat \ {0}

VARIABLES
    action,   \* per process: tmplCtx["action"]
    mainPc,   \* per process: where RunServantJobs is
    idx,      \* per process: position of the range loop in edgeNodeNames
    result,   \* per process: what RunServantJobs returned
    wg,       \* per process: the WaitGroup counter
    pc,       \* per goroutine: where RunJobAndCleanup is
    ret,      \* per goroutine: what RunJobAndCleanup returned
    elapsed,  \* per goroutine: check periods passed since the Job was created
    jobs      \* the cluster: state of the Job of each name

vars == <<action, mainPc, idx, result, wg, pc, ret, elapsed, jobs>>
mainVars == <<action, mainPc, idx, result>>

\* One goroutine for each process and each position of the slice.
Positions == DOMAIN EdgeNodeNames
Workers == Procs \X Positions
WorkersOf(p) == {p} \X Positions

\* ConvertJobNameBase / RevertJobNameBase + "-" + nodeName: one name for each
\* valid action and node.
ValidActions == {"convert", "revert"}
JobNames == ValidActions \X Nodes
JobName(w) == <<action[w[1]], EdgeNodeNames[w[2]]>>

\* YamlToObject: the universal deserializer gives the object the yaml
\* describes, of whatever kind that is, or an error
YamlToObject(yaml) ==
    CASE yaml = "jobYaml" -> [obj |-> "Job", err |-> FALSE]
      [] yaml = "podYaml" -> [obj |-> "Pod", err |-> FALSE]
      [] OTHER            -> [obj |-> "nil", err |-> TRUE]

\* the template is rendered, the yaml decodes, and the object is a
\* *batchv1.Job
RendersJob(jn) ==
    /\ Rendered[jn] # "tmplErr"
    /\ ~YamlToObject(Rendered[jn]).err
    /\ YamlToObject(Rendered[jn]).obj = "Job"

JobStates == {"absent", "active", "succeeded", "terminating"}
Returns == {"none", "nil", "errCreate", "errTimeout", "errGet", "errDelete"}

\* A goroutine that has been started and has not returned.
Live(w) == pc[w] \in {"create", "select", "get", "delete"}
\* A goroutine between its successful Create and its return.
Owns(w) == pc[w] \in {"select", "get", "delete"}

Init ==
    /\ action \in [Procs -> ActionInputs]
    /\ mainPc = [p \in Procs |-> "loop"]
    /\ idx = [p \in Procs |-> 1]
    /\ result = [p \in Procs |-> "none"]
    /\ wg = [p \in Procs |-> 0]
    /\ pc = [w \in Workers |-> "idle"]
    /\ ret = [w \in Workers |-> "none"]
    /\ elapsed = [w \in Workers |-> 0]
    /\ jobs = [j \in JobNames |-> "absent"]

---------------------------------------------------------------------------
(* RunServantJobs, the calling goroutine of process p *)

\* RunServantJobs returns r.
ReturnMain(p, r) ==
    /\ mainPc' = [mainPc EXCEPT ![p] = "returned"]
    /\ result' = [result EXCEPT ![p] = r]
    /\ UNCHANGED <<action, idx, wg, pc, ret, elapsed, jobs>>

\* tmplCtx["action"] is looked up in every iteration: absent or not one of
\* the two known actions, the function returns at once.
RejectAction(p) ==
    /\ mainPc[p] = "loop"
    /\ idx[p] \in Positions
    /\ action[p] \notin ValidActions
    /\ ReturnMain(p, "err")

\* SubsituteTemplate, YamlToObject or the assertion to *batchv1.Job fails for
\* this tmplCtx: the function returns; goroutines already started keep
\* running.
RejectTemplate(p) ==
    /\ mainPc[p] = "loop"
    /\ idx[p] \in Positions
    /\ action[p] \in ValidActions
    /\ ~RendersJob(<<action[p], EdgeNodeNames[idx[p]]>>)
    /\ ReturnMain(p, "err")

\* mutant: the goroutine is started without wg.Add(1)
LaunchWorkerNoAdd(p) ==
    /\ mainPc[p] = "loop"
    /\ idx[p] \in Positions
    /\ action[p] \in ValidActions
    /\ RendersJob(<<action[p], EdgeNodeNames[idx[p]]>>)
    /\ pc' = [pc EXCEPT ![<<p, idx[p]>>] = "create"]
    /\ idx' = [idx EXCEPT ![p] = @ + 1]
    /\ UNCHANGED <<action, mainPc, result, wg, ret, elapsed, jobs>>

\* wg.Add(1); go func() {...}()
LaunchWorker(p) ==
    /\ mainPc[p] = "loop"
    /\ idx[p] \in Positions
    /\ action[p] \in ValidActions
    /\ RendersJob(<<action[p], EdgeNodeNames[idx[p]]>>)
    /\ wg' = [wg EXCEPT ![p] = @ + 1]
    /\ pc' = [pc EXCEPT ![<<p, idx[p]>>] = "create"]
    /\ idx' = [idx EXCEPT ![p] = @ + 1]
    /\ UNCHANGED <<action, mainPc, result, ret, elapsed, jobs>>

\* the range loop is exhausted
LoopEnd(p) ==
    /\ mainPc[p] = "loop"
    /\ idx[p] \notin Positions
    /\ mainPc' = [mainPc EXCEPT ![p] = "wait"]
    /\ UNCHANGED <<action, idx, result, wg, pc, ret, elapsed, jobs>>

\* mutant: return nil without waiting for the goroutines
WaitNoBarrier(p) ==
    /\ mainPc[p] = "wait"
    /\ ReturnMain(p, "nil")

\* wg.Wait(); return nil
Wait(p) ==
    /\ mainPc[p] = "wait"
    /\ wg[p] = 0
    /\ ReturnMain(p, "nil")

---------------------------------------------------------------------------
(* RunJobAndCleanup, the goroutine w = <<process, position>> *)

\* RunJobAndCleanup returns r; the goroutine logs it and its deferred
\* wg.Done() runs.  Its timers are gone with it.
Return(w, r) ==
    /\ pc' = [pc EXCEPT ![w] = "done"]
    /\ ret' = [ret EXCEPT ![w] = r]
    /\ elapsed' = [elapsed EXCEPT ![w] = 0]
    /\ wg' = [wg EXCEPT ![w[1]] = @ - 1]

\* Jobs(ns).Create(job) succeeds: the name was free.  The timeout starts.
CreateJob(w) ==
    /\ pc[w] = "create"
    /\ jobs[JobName(w)] = "absent"
    /\ jobs' = [jobs EXCEPT ![JobName(w)] = "active"]
    /\ pc' = [pc EXCEPT ![w] = "select"]
    /\ elapsed' = [elapsed EXCEPT ![w] = 0]
    /\ UNCHANGED <<mainVars, wg, ret>>

\* mutant: the error of Create is ignored and the goroutine goes on to poll
CreateFailsIgnored(w) ==
    /\ pc[w] = "create"
    /\ pc' = [pc EXCEPT ![w] = "select"]
    /\ UNCHANGED <<mainVars, wg, ret, elapsed, jobs>>

\* Create returns an error: the name is taken (AlreadyExists), or the call
\* failed, in which case the server may or may not have created the Job.
CreateFails(w) ==
    /\ pc[w] = "create"
    /\ \/ UNCHANGED jobs
       \/ /\ jobs[JobName(w)] = "absent"
          /\ jobs' = [jobs EXCEPT ![JobName(w)] = "active"]
    /\ Return(w, "errCreate")
    /\ UNCHANGED mainVars

\* mutant: time.After(timeout) is called in the select, so every pass of
\* the loop starts the timeout again
TimeoutRestarts(w) ==
    /\ pc[w] = "select"
    /\ elapsed[w] + 1 >= TimeoutPeriods
    /\ elapsed' = [elapsed EXCEPT ![w] = 0]
    /\ UNCHANGED <<mainVars, wg, pc, ret, jobs>>

\* mutant: the timeout cleans up, deleting the Job it stops waiting for
TimeoutDeletes(w) ==
    /\ pc[w] = "select"
    /\ elapsed[w] + 1 >= TimeoutPeriods
    /\ jobs' = [jobs EXCEPT ![JobName(w)] =
                   IF @ = "absent" THEN @ ELSE "terminating"]
    /\ Return(w, "errTimeout")
    /\ UNCHANGED mainVars

\* case <-waitJobTimeout: the deadline falls before the next check period
\* ends (or with it: the select then takes either case).
TimeoutFires(w) ==
    /\ pc[w] = "select"
    /\ elapsed[w] + 1 >= TimeoutPeriods
    /\ Return(w, "errTimeout")
    /\ UNCHANGED <<mainVars, jobs>>

\* case <-time.After(period): one more check period has passed
PeriodFires(w) ==
    /\ pc[w] = "select"
    /\ elapsed[w] < TimeoutPeriods
    /\ elapsed' = [elapsed EXCEPT ![w] = @ + 1]
    /\ pc' = [pc EXCEPT ![w] = "get"]
    /\ UNCHANGED <<mainVars, wg, ret, jobs>>

\* Jobs(ns).Get(name) fails (the call, or the Job is gone)
GetFails(w) ==
    /\ pc[w] = "get"
    /\ Return(w, "errGet")
    /\ UNCHANGED <<mainVars, jobs>>

\* mutant: the comparison of Status.Succeeded with Spec.Completions is dropped
GetJobUnchecked(w) ==
    /\ pc[w] = "get"
    /\ jobs[JobName(w)] # "absent"
    /\ pc' = [pc EXCEPT ![w] = "delete"]
    /\ UNCHANGED <<mainVars, wg, ret, elapsed, jobs>>

\* Get succeeds: on to Delete when Status.Succeeded == *Spec.Completions,
\* back to the select otherwise.
GetJob(w) ==
    /\ pc[w] = "get"
    /\ jobs[JobName(w)] # "absent"
    /\ pc' = [pc EXCEPT ![w] =
                IF jobs[JobName(w)] \in {"succeeded", "terminating"}
                THEN "delete" ELSE "select"]
    /\ UNCHANGED <<mainVars, wg, ret, elapsed, jobs>>

\* The server's side of Delete with PropagationPolicy Foreground: the Job
\* stays, marked for deletion, until its pods are gone.
Deleted(j) == [jobs EXCEPT ![j] = IF @ = "absent" THEN @ ELSE "terminating"]

\* Jobs(ns).Delete(name, foreground) succeeds; RunJobAndCleanup returns nil.
DeleteJob(w) ==
    /\ pc[w] = "delete"
    /\ jobs[JobName(w)] # "absent"
    /\ jobs' = Deleted(JobName(w))
    /\ Return(w, "nil")
    /\ UNCHANGED mainVars

\* Delete returns an error; the server may or may not have applied it.
DeleteFails(w) ==
    /\ pc[w] = "delete"
    /\ jobs' \in {jobs, Deleted(JobName(w))}
    /\ Return(w, "errDelete")
    /\ UNCHANGED mainVars

---------------------------------------------------------------------------
(* The cluster and the operating system *)

\* The Job controller: the servant pod of the Job has completed.
JobSucceeds(j) ==
    /\ jobs[j] = "active"
    /\ jobs' = [jobs EXCEPT ![j] = "succeeded"]
    /\ UNCHANGED <<mainVars, wg, pc, ret, elapsed>>

\* The garbage collector: the pods of a Job under deletion are gone.
JobCollected(j) ==
    /\ jobs[j] = "terminating"
    /\ jobs' = [jobs EXCEPT ![j] = "absent"]
    /\ UNCHANGED <<mainVars, wg, pc, ret, elapsed>>

\* yurtctl exits once RunServantJobs has returned, which ends every
\* goroutine of the process that is still running.
Exit(p) ==
    /\ mainPc[p] = "returned"
    /\ mainPc' = [mainPc EXCEPT ![p] = "exited"]
    /\ pc' = [w \in Workers |->
                IF w[1] = p /\ Live(w) THEN "killed" ELSE pc[w]]
    /\ elapsed' = [w \in Workers |-> IF w[1] = p THEN 0 ELSE elapsed[w]]
    /\ UNCHANGED <<action, idx, result, wg, ret, jobs>>

\* Every process has exited.
Finished ==
    /\ \A p \in Procs : mainPc[p] = "exited"
    /\ UNCHANGED vars

Main(p) ==
    \/ RejectAction(p)
    \/ RejectTemplate(p)
    \/ LaunchWorker(p)
    \/ LoopEnd(p)
    \/ Wait(p)

Worker(w) ==
    \/ CreateJob(w) \/ CreateFails(w)
    \/ TimeoutFires(w) \/ PeriodFires(w)
    \/ GetJob(w) \/ GetFails(w)
    \/ DeleteJob(w) \/ DeleteFails(w)

Cluster == \E j \in JobNames : JobSucceeds(j) \/ JobCollected(j)

Next ==
    \/ \E p \in Procs : Main(p) \/ Exit(p)
    \/ \E w \in Workers : Worker(w)
    \/ Cluster
    \/ Finished

\* The Go scheduler runs every runnable goroutine and timers fire: weak
\* fairness of each calling goroutine and of each worker.  Nothing is
\* assumed of the cluster: a Job need never succeed.
Fairness ==
    /\ \A p \in Procs : WF_vars(Main(p))
    /\ \A w \in Workers : WF_vars(Worker(w))

Spec == Init /\ [][Next]_vars
FairSpec == Spec /\ Fairness

---------------------------------------------------------------------------
(* Properties *)

TypeOK ==
    /\ action \in [Procs -> ActionInputs]
    /\ mainPc \in [Procs -> {"loop", "wait", "returned", "exited"}]
    /\ idx \in [Procs -> 1..(Len(EdgeNodeNames) + 1)]
    /\ result \in [Procs -> {"none", "nil", "err"}]
    /\ wg \in [Procs -> 0..Len(EdgeNodeNames)]
    /\ pc \in [Workers -> {"idle", "create", "select", "get", "delete",
                           "done", "killed"}]
    /\ ret \in [Workers -> Returns]
    /\ elapsed \in [Workers -> 0..TimeoutPeriods]
    /\ jobs \in [JobNames -> JobStates]

\* RunServantJobs returns nil only after every goroutine it started has
\* returned, and no goroutine is ended by the exit that follows a nil
\* return: wg.Add before each go statement, the deferred wg.Done in each
\* goroutine and wg.Wait before the return keep the WaitGroup counter equal
\* to the number of goroutines still running.
WaitBarrier ==
    \A p \in Procs :
        /\ mainPc[p] # "exited" =>
              wg[p] = Cardinality({w \in WorkersOf(p) : Live(w)})
        /\ result[p] = "nil" => \A w \in WorkersOf(p) : pc[w] = "done"

\* No two goroutines, of one process or of two, poll or delete the Job of
\* one name: when two yurtctl processes work on one node, or a Job was left
\* by an earlier one, the second Create fails and RunJobAndCleanup returns
\* before its loop.
OneOwnerPerJob ==
    \A v, w \in Workers :
        Owns(v) /\ Owns(w) /\ JobName(v) = JobName(w) => v = w

\* RunJobAndCleanup deletes a Job only after a Get has shown it succeeded:
\* a Job that is still running is never marked for deletion, whichever
\* process created it, and the nil return is taken only in the step that
\* deletes the Job.
DeleteOnlySucceeded ==
    [][/\ \A j \in JobNames :
             jobs'[j] = "terminating" /\ jobs[j] # "terminating"
                => jobs[j] = "succeeded"
       /\ \A w \in Workers :
             ret'[w] = "nil" /\ ret[w] # "nil"
                => jobs'[JobName(w)] = "terminating"]_vars

\* Every call of RunServantJobs returns, whatever the cluster does: the
\* timeout case of the select bounds every goroutine, and wg.Wait is
\* released by the last wg.Done.  A call that has returned stays returned,
\* so there is a moment from which all of them have.
EventuallyReturns ==
    <>(\A p \in Procs : mainPc[p] \in {"returned", "exited"})

\* The comment on RunJobAndCleanup: it "runs the job, wait for it to be
\* complete, and delete it".  Read as a promise on every return on which no
\* call to the cluster failed: the Job is then deleted or marked for
\* deletion.
CleanupOnReturn ==
    \A w \in Workers :
        ret[w] \in {"nil", "errTimeout"}
            => jobs[JobName(w)] \in {"absent", "terminating"}

=============================================================================
