# TLA+ models of openyurt: servant jobs, node metadata, servant script, their composition, disk storage and its guard

This directory holds TLA+ specifications of the parts of openyurt that this repository contains,
the TLC configurations that model-check them, and `PROJECT.json`, which lists every component, run,
mutant, source mapping, finding and hazard in machine-readable form.

Run a configuration with `tlc -workers 2 -config <file>.cfg <module>`; the module of each
configuration is given in the table of runs below.

## 1. The system

| Part | Source | What it does |
|---|---|---|
| `RunServantJobs` | `src/pkg/yurtctl/util/kubernetes/util.go` 99-143 | Validates the action, renders one batch Job per edge node, starts one goroutine per node, waits for all of them on a `sync.WaitGroup`. |
| `RunJobAndCleanup` | same file, 64-96 | Creates the Job, then selects between a two-minute timeout and a ten-second period; on each period it gets the Job and, when `Succeeded == *Completions`, deletes it with foreground propagation. |
| `LabelNode`, `AnnotateNode` | same file, 43-61 | Write one pair into a map of the caller's `*v1.Node`, send the whole object with `Nodes().Update`, return `(nil, err)` or `(newNode, nil)`. |
| `YamlToObject` | same file, 33-41 | Decodes the rendered Job template for `RunServantJobs`. |
| yurtctl-servant script | `src/unnamed/part_000` | Runs on the node inside the Job's pod. `convert`: write the yurt-hub static pod manifest, poll the pod, copy and revise `kubelet.conf`, edit the `kubelet.service` drop-in, `daemon-reload`, restart the kubelet. `revert`: the inverse. |
| Disk storage test suite | `src/pkg/yurthub/storage/disk/storage_test.go` | Seventeen test functions that call the storage and look at its files; all work in the one directory `cacheBaseDir`. |
| Disk storage engine | described in `spec.md`; its source is not in the repository | `Create`, `Get`, `Update`, `Delete`, `List`, `ListKeys` over files under a cache root. |
| Concurrency guard | `spec.md` sections 2 and 5 | Serializes the mutating calls of the engine against the reads and writes beside them: the proxy writes what it observes while it serves reads. |

How they interact: `yurtctl` calls `RunServantJobs`; each Job it creates runs the servant script on
one node; the script reconfigures the kubelet to go through yurt-hub; yurt-hub caches what it
proxies in the disk storage. `yurtctl` marks the nodes it converts with `LabelNode` and
`AnnotateNode`. Each part has a module of its own; `Conversion` puts the dispatch and the script
together, joined by the Jobs of the cluster.

What is hard in this code:

- goroutines of one process and several `yurtctl` processes racing on Job names in one cluster;
- a `select` between a timeout and a ticker that become ready together;
- API calls that fail although they were applied;
- an `Update` of a whole Node from an object read some time ago, and changed before the call
  that failed;
- a convert Job and a revert Job, of two `yurtctl` processes, whose pods run on one node at once;
- a shell script under `errexit` that can stop after any command and is run again on what it left;
- systemd keeping the unit of the last `daemon-reload`, and restarting the kubelet on its own;
- a polling loop with a counter that ends at -1, and two exits from it;
- a key of the storage that is an entry at one time and a namespace node at another;
- calls of the storage that are several filesystem calls each, made by goroutines at once;
- tests that share one directory.

## 2. Modules

| Module | Models | Lines of source |
|---|---|---|
| `ServantJobs` | `RunServantJobs`, `RunJobAndCleanup`, `YamlToObject`, the Jobs API as they use it | `util.go` 22-41, 64-143 |
| `MCServantJobs` | constants for TLC: two nodes, the slice `<<n1, n2>>`, one template that renders no Job | |
| `Conversion` | `ServantJobs` and `Servant` side by side for one node, and the Job controller between them | the lines of both |
| `MCConversion` | the symmetry of processes, the view, and `SpecFull`: the conversion of a node that starts with the drop-in `kubeadm join` leaves (`InitFull`) | |
| `NodeMeta` | `LabelNode`, `AnnotateNode`, the Nodes API as they use it | `util.go` 43-61 |
| `MCNodeMeta` | the symmetry of callers and values | |
| `Servant` | the servant script and the node it edits | `part_000` 7-8, 99-218 |
| `KVStore` | what the storage promises: a flat map from keys to payloads | `spec.md` section 4.2 |
| `DiskStorage` | the storage engine over a tree of directories and files; instantiates `KVStore` | `spec.md` sections 3, 4.1, 4.2 |
| `GuardedStorage` | the engine under concurrent callers: the guard, and every operation as its filesystem calls; instantiates `DiskStorage` | `spec.md` sections 2, 4.2, 5 |
| `MCGuardedStorage` | constants for TLC: four keys on two branches, three levels deep; the symmetry of callers and payloads | |
| `StorageTests` | the test suite, statement by statement, run against `DiskStorage` | `storage_test.go` 12-506 |
| `MCStorageTests` | constants for TLC: the suite's keys and payloads, the two suites that are run | |

### ServantJobs

State: per process `action`, `mainPc` (loop, wait, returned, exited), `idx` (position of the range
loop), `result`, `wg` (the WaitGroup counter); per goroutine `pc` (idle, create, select, get,
delete, done, killed), `ret`, `elapsed` (periods since Create); `jobs`, the state of the Job of each
name (absent, active, succeeded, terminating).

Actions and the code they stand for:

| Action | Code |
|---|---|
| `RejectAction` | the `default` of the switch on `tmplCtx["action"]`, and a missing key |
| `RejectTemplate` | `~RendersJob`: `tmplutil.SubsituteTemplate` fails, `YamlToObject` returns an error, or the object it returns is no `*batchv1.Job`: return inside the loop, goroutines already started keep running |
| `LaunchWorker` | `wg.Add(1)` and the `go func()` |
| `LoopEnd`, `Wait` | the end of the range loop, `wg.Wait()` and `return nil` |
| `CreateJob`, `CreateFails` | `Jobs().Create`: success, or an error (the name is taken, or the call failed and may have been applied) |
| `TimeoutFires`, `PeriodFires` | the two cases of the `select`; both enabled at the last period |
| `GetJob`, `GetFails` | `Jobs().Get` and the test `Succeeded == *Completions` |
| `DeleteJob`, `DeleteFails` | `Jobs().Delete` with foreground propagation |
| `Return` | the deferred `wg.Done()` |
| `JobSucceeds`, `JobCollected`, `Exit` | environment: the Job controller, the garbage collector, the process exit that ends goroutines still running |

### NodeMeta

State: `node`, the Node the apiserver stores (labels, annotations, `rv` for the resourceVersion);
per caller `held`, the object its `node` pointer points to, and `ret`, the pair its last call
returned; `panicked`, the callers that died; and the history variable `asked`, the pairs a caller
has called with since it came by the object it holds.

| Action | Code |
|---|---|
| `LabelNode`, `AnnotateNode` | the whole function: `PanicOnNilMap` (the assignment of line 45 / 55 into a nil map) or `SetAndUpdate` (the assignment, `Update`, `Returned`) |
| `Update` | the outcomes of `Nodes().Update(node)`: an error with the Node as it was (a conflict, a request that never arrived), the replacement when the object carries the stored resourceVersion, and the replacement whose answer is lost |
| `Returned` | `if err != nil { return nil, err }; return newNode, nil` |
| `GetNode`, `Adopt`, `Heartbeat` | environment: the caller reads the Node, the caller goes on with the node its call returned, the kubelet patches the Node's status |

Maps are modelled by what JSON does to them: `Encoded` sends a nil map as no entries, `Decoded`
gives a nil map for a field without entries. `Replaced` keeps the resourceVersion when an update
changes nothing, as the apiserver does. The callers are not in this repository; the model lets a
caller call with any object it can have: one it read, one a call returned, or the one it handed
to a call before, which the call has changed.

### Servant

State: per script `pc` (position in its program), `act`, `retry`, `obs` (what the last `curl`
showed); the node: `manifest`, `hubConf` (absent, copied, revised), `svc` (the drop-in's kubeconfig
line), `loaded` (that line as of the last `daemon-reload`), `kubelet` (apiserver, hub, down); the
environment: `pod`, `bootstrapFile`; and two history variables, `lastExit` and `svc0`.

The drop-in line is reduced to what the `sed` commands tell apart: whether
`--bootstrap-kubeconfig` is on it, which file `--kubeconfig` names, and whether the text after the
path is still there. The `sed` of lines 167 and 193 replaces `--kubeconfig=.*`, so it is modelled as
dropping `rest`, not as the identity.

A program is the sequence of commands of the chosen branch of the `case`; every command is one
action (`WriteManifest`, the four outcomes of a poll, `CopyConf`, `ReviseConf`, `ReviseSvc`,
`Reload`, `Restart`, `RmHubConf`, `RestoreSvc`, `RmManifest`). `Abort` is `errexit`: the run ends
where it is. `PodChanges` and `KubeletRestarts` are the environment: the kubelet of the static pod
and systemd's `Restart=always`.

### Conversion

`Conversion` instantiates `ServantJobs` (as `J`, with one node and a template that always renders a
Job) and `Servant` (as `S`, with one script per action); its variables are theirs. Three variables
join them: `started` (how often the pod of the Job of an action has been started), `completed`
(the actions whose script has exited 0 in the pod of the Job that exists) and the history variable
`sole` (the action whose script has had the node to itself since it started).

| Action | What it is |
|---|---|
| `Yurtctl` | any step of `J`'s processes, goroutines and garbage collector; a Job that is gone takes its pod's record with it |
| `PodStarts(a)` | environment: the Job controller starts the pod of the active Job of `a`, which is `S!Start(a, a)`; at most `BackoffLimit + 1` times per Job |
| `ScriptStep(a)`, `ScriptAborts(a)` | `S!Step`, `S!Abort`; an exit 0 is recorded in `completed` |
| `JobCompletes(a)` | environment: `J!JobSucceeds`, now guarded by the exit 0 of the script |
| `NodeRuns` | `S!PodChanges`, `S!KubeletRestarts` |
| `Finished` | `J!Finished` |

In `ServantJobs` alone a Job may succeed at any time; here it succeeds because the script ran to
its end. The Job template (its `backoffLimit`, its host mounts) is not in the repository, so the
number of restarts is a constant and the pod is taken to run the script with the action the Job
was rendered for, which is what `RunServantJobs` puts into the template's context.

### KVStore, DiskStorage

`DiskStorage` keeps `dirs` (the paths that are directories), `files` (a function from the paths of
regular files to their content) and `out` (the last call and its result). Each operation is one
action that classifies the key's path as `spec.md` 4.1 says and then acts as 4.2 says. Two
choices the specification leaves open are made explicit: `Update` of a key that is no entry
reports an error and changes nothing, and an empty namespace node left behind by `Delete` of its
last entry keeps refusing `Create` at its key.

A call can also fail although the tree allows it: the filesystem refuses (permission denial,
exhaustion; `spec.md` 4.2, "Failure handling"). The engine neither retries nor undoes, and the
error is returned at the point of failure (section 7), so a refused call is an action of its own
that leaves what the call had done:

| Action | What stays |
|---|---|
| `CreateFails(k)` | nothing, some or all of the directories above `k`, or, when the write is refused, the directories and the entry `k` without content (`Truncated`) |
| `UpdateRefused(k, d)` | the entry as it was (the open is refused) or without content (the write is refused) |
| `DeleteFails(k)` | the subtree without the paths removed before the refused removal: a part of it that is closed downwards and is not all of it |
| `ReadFails(op, k)` | everything: a refused read of Get, List or ListKeys changes nothing |

`KVStore` is the abstract specification: a map `store` and the `reply` of the last call. A call
has the effect of the map operation, or it reports an error (`Refuse`), and then the store is one
of `AfterError(op, k)`: as it was, with the entry `k` of a Create or an Update emptied, or
without some of the entries beneath the key of a Delete. No other entry changes in a call that
fails. `DiskStorage` instantiates it with `store <- files, reply <- out`; the directories are
invisible to it.

The entry that a refused write leaves empty is where the design and two sentences of `spec.md`
part: section 3 counts among the invariants that content is fully written before a reader sees
it, and section 5 says that every entry a List returns has valid content. The guard keeps both
while a call is under way and cannot keep them after a call has failed: the next `Get` returns
an empty object and no error, as for a key that was never cached. Only writing to a temporary
file and renaming it would; the models state what the lock alone gives.

### GuardedStorage

`GuardedStorage` is the engine as goroutines meet it. Its tree (`dirs`, `files`) and `out` are
those of `DiskStorage`, whose helpers it uses through the instance `FS`. The guard is `writer` (the
caller that holds it alone) and `readers` (the callers that share it); per caller there are `call`,
`pc` (the filesystem call that is next), `seen` (what it has read or the error it met) and `left`
(what its Delete has still to remove). `tree` is a history variable: the tree as the writer found
it.

| Action | What it is |
|---|---|
| `RLock(c, op, k)` | a `Get`, `List` or `ListKeys` is called and takes the guard once no mutating call holds it |
| `Lock(c, op, k, d)` | a `Create`, `Update` or `Delete` is called and takes the guard once nobody holds it |
| `MkdirAll`, `OpenFile`, `WriteFile` | Create: the directories, the truncation, the write; each can be refused |
| `Stat`, `OpenFile`, `WriteFile` | Update: classify, then as Create; with an empty payload none of them (`FirstStep`) |
| `Stat`, `Unlink`, `Removed` | Delete: one file or directory at a time, nothing before what lies beneath it; a removal can be refused, and Delete stops there |
| `ReadFile` | Get; the read of an entry can be refused |
| `Visit`, `Walked` | List and ListKeys: one entry of the subtree at a time; a read can be refused, and the walk ends there |
| `Return` | the result goes to the caller, the guard is given back |

A refused filesystem call is the second disjunct of its action (`Fail`): the caller goes straight
to `Return` with the error, and `Return` gives the guard back whatever the call met.

A caller that waits for the guard has no state of its own: calling and taking the guard are one
step, enabled when the guard is free. A walk visits the entries in a fixed order, as directory
listings give them; under the guard the tree does not change during a walk, so the order does not
reach the result. Of the two designs that `spec.md` section 5 allows, this is the lock per engine;
the other one, replacing a file by rename with readers that take no lock, is not modelled.

`DiskStorage` is what callers are to see. The refinement mapping `Seen` shows them the tree on
disk while no mutating call holds the guard and the tree as the writer found it (`tree`) while
one does: a mutating call takes effect when it returns.

### StorageTests

A test function is a sequence of statements, each a record: `New`, a `Call` of the storage with
what the test wants back, `WantFile` / `WantGone` (`os.Stat`), `WantContent` (`ioutil.ReadFile`),
`MkdirAll`, `RemoveAll`. The definitions `TestCreate` ... `TestUpdateEmptyString` are the seventeen
functions. `StartTest`, one `Exec...` action per kind of statement and `Return` run them one
statement at a time against the actions of `DiskStorage`; `t.Errorf` adds the test to `failed` and
the test goes on, as in Go. Tests start in any order and any number of times, because nothing in
the suite fixes the order and `cacheBaseDir` outlives a test.

## 3. Runs

| Run | Module / cfg | Result | Distinct states |
|---|---|---|---|
| `jobs_dispatch` | `MCServantJobs` / `MCServantJobs.cfg` | holds | 460,777 |
| `jobs_cleanup` | `MCServantJobs` / `MCServantJobsCleanup.cfg` | violated | |
| `conversion` | `MCConversion` / `MCConversion.cfg` | holds | 777,532 |
| `conversion_report` | `MCConversion` / `MCConversionReport.cfg` | violated | |
| `servant_node` | `Servant` / `ServantNode.cfg` | holds | 382,308 |
| `servant_running` | `Servant` / `ServantRunning.cfg` | violated | |
| `servant_roundtrip` | `Servant` / `ServantRoundTrip.cfg` | violated | |
| `storage_refinement` | `MCGuardedStorage` / `MCGuardedStorage.cfg` | holds | 678,929 |
| `storage_tests` | `MCStorageTests` / `MCStorageTests.cfg` | holds | 504 |
| `storage_delete_dir` | `MCStorageTests` / `MCStorageTestsDeleteDir.cfg` | violated | |
| `node_meta` | `MCNodeMeta` / `MCNodeMeta.cfg` | holds | 35,266 |
| `node_meta_nil_map` | `MCNodeMeta` / `MCNodeMetaPanic.cfg` | violated | |

### Properties that hold

- `WaitBarrier` (jobs_dispatch): the WaitGroup counter equals the number of goroutines still
  running, and `RunServantJobs` returns nil only when all of them are done.
- `OneOwnerPerJob` (jobs_dispatch): no two goroutines, of one process or two, poll or delete the Job
  of one name.
- `DeleteOnlySucceeded` (jobs_dispatch, action property): a Job is marked for deletion only from
  state succeeded, and the nil return is taken only in the step that deletes.
- `EventuallyReturns` (jobs_dispatch): every call of `RunServantJobs` returns, with two
  processes racing on the Jobs and whatever the Jobs do. A call that has returned stays returned,
  so the property is stated as one eventuality: there is a moment from which all have.
- `DeleteSparesRunningScript` (conversion): the script of an action runs on the node only while
  the Job of that action is active. `Delete` uses foreground propagation, so the pod goes with
  the Job; the property says that no goroutine of either process sends it under a script that is
  between two commands, over timeouts, Jobs left behind and Jobs of the same name created anew.
  It is what the obvious repair of the finding of jobs_cleanup (delete the Job when the timeout
  fires) would break.
- `ReportHoldsWhenAlone` (conversion, action property): when `RunJobAndCleanup` returns nil, and
  no script of the other action was started on the node since the script of this Job was, the
  node is converted (manifest, revised `kubelet.conf`, drop-in, loaded unit and kubelet all on the
  hub) or reverted (all of them back). It relates the `Get` of a goroutine to the files a shell
  script wrote on another machine, over runs cut short and started again.
- `HubKubeconfigNeedsManifest` (servant_node): the drop-in, the loaded unit and the kubelet
  never need a hub on a node without the manifest, however runs are cut short and repeated.
- `ConvertedNodeIsCoherent`, `RevertedNodeIsDirect` (servant_node): a run that exits 0 leaves
  the node wholly converted or wholly reverted, from whatever earlier runs left.
- `ScriptTerminates` (servant_node): every run of the script ends.
- `ImplementsDiskStorage` (storage_refinement): every behaviour of `GuardedStorage` is a
  behaviour of `DiskStorage` under the mapping `Seen`: a call made of several filesystem calls,
  beside the calls of another goroutine, is one step of the storage to whoever calls it. No Get
  and no walk returns an entry that is truncated and not yet written, and a List returns the
  entries of one tree. A call in which the filesystem refuses the open, the write, a removal or
  a read is the failing action of `DiskStorage` for that call, with no more left behind than
  that action allows.
- `ImplementsKVStore` (storage_refinement): through `DiskStorage`, every behaviour of the guarded
  engine is a behaviour of the flat map `KVStore`. The two
  mappings compose: `store` is the files that `Seen` shows, `reply` the result of the call
  that returned last. A call that reports an error has changed no entry but its own: the entry
  of a refused write is at most emptied, and a refused Delete has removed nothing that does not
  lie beneath its key.
- `TestsPass` (storage_tests): no assertion of the sixteen tests fails, in any order.
- `NoForeignChange` (node_meta, action property): no step takes a label or an annotation off the
  Node, and a pair changes only to a value a caller asked for on the object it holds. What the
  check also shows: a pair of a call that failed stays in the caller's object, and the caller's
  next call that succeeds, for another pair, writes it too. Whoever must not have a label set
  after `LabelNode` returned an error has to read the Node again before the next call.
- `TypeOK` in `ServantJobs`, `Servant` and `NodeMeta`, each checked in the run of its own module
  (jobs_dispatch, servant_node, node_meta): in `ServantJobs` the WaitGroup counter never leaves
  its range, in `Servant` neither does `retry`, and in `NodeMeta` a call returns a node of the
  cluster or nil, never the empty Node that client-go hands back beside an error. `Conversion`
  has no type invariant of its own; it adds three counters of the environment to two modules
  whose types are checked where they are defined.

The shape of the tree on disk (no path both file and directory, every path inside directories,
nothing beneath a file) is not among the properties: the filesystem keeps it whatever the engine
does, and refuses the `rmdir` of a directory that is not empty.

Each of them is violated when the definition named in `PROJECT.json` under `mutants` replaces the
one it mutates: a goroutine started without `wg.Add`, `wg.Wait` left out, a failed Create taken
for success, a Delete without the test of `Succeeded` (which also reports a conversion that did not happen), a
timeout that every pass of the loop starts again, a timeout that deletes the Job it gives up on, `remove_yurthub`
before `revert_kubelet`, a restart without `daemon-reload`, a NotFound branch that restarts the
count, a reading call that does not wait for
the writer, an `Update` that writes an empty payload, a test without
its `RemoveAll`, a Node sent without its resourceVersion, a return of what `Update` gave
without the test of `err`.

### What the code does and nothing written forbids

Four behaviours are reachable in the models, are listed as hazards in `PROJECT.json`, and are
covered by no property, because the repository makes no promise that they would break. They are
what a reader of the code should know:

- `util.go:119-127`: a template that does not render for a later node returns from the loop
  without `wg.Wait`. In jobs_dispatch the process then exits (`Exit`) with the goroutine of an
  earlier node in its poll loop and that node's Job active in the cluster. `WaitBarrier` speaks
  of the nil return only.
- `util.go:45-51`: the pair of a call that failed stays in the caller's Node and is stored by
  the caller's next successful call. `NoForeignChange` allows it, the pair being the caller's.
- `part_000:191-197`: `revert_kubelet` removes the openyurt `kubelet.conf` two commands before
  systemd is told that the unit no longer names it. A kubelet that systemd restarts in between
  (`KubeletRestarts` after `RmHubConf`) is down, and stays down if the run is cut there.
  `RevertedNodeIsDirect` shows that a revert which reaches its end repairs it.
- `part_000:117-146`: a poll may count as not Running whatever the pod is (the `curl` that
  fails is hidden by `local`), and convert then exits 1 with the manifest written and the pod
  Running. `HubKubeconfigNeedsManifest` holds of that node; nothing undoes the manifest.

### Properties that are violated: findings

- `CleanupOnReturn` (jobs_cleanup), `util.go:73`. The comment says `RunJobAndCleanup` runs the
  job, waits for it and deletes it. On the timeout it returns and leaves the Job; the next
  `RunServantJobs` for the same action and node fails at Create.
- `SetupReturnsWhenRunning` (servant_running), `part_000:127`. The comment says `setup_yurthub`
  waits for the pod to be Running. Six NotFound answers leave the loop by its `while` test and
  `reset_kubelet` runs without a hub ever seen.
- `RevertRestoresDropIn` (servant_roundtrip), `part_000:193`. The script logs that it revised the
  drop-in back to the default. The `sed` drops what followed the kubeconfig path, and the
  `--bootstrap-kubeconfig` flag that convert removed is not put back.
- `TestsPass` for `TestDeleteDir` (storage_delete_dir), `storage_test.go:183`. `spec.md` says
  Delete of a namespace node removes the subtree; the test reports an error unless the file under
  the deleted directory is still there.
- `ReportedJobTookEffect` (conversion_report), `util.go:111`. The goroutine logs that the servant
  job has succeeded. With a convert Job and a revert Job on one node (two `yurtctl` processes;
  the Job names differ, so neither Create fails), the revert script can run to its exit 0 while
  the convert script is between two commands; convert then writes the manifest and the drop-in,
  and the revert that is reported as succeeded has left a node that is not reverted. Nothing in
  `RunServantJobs` or in the script keeps the two apart: no lock on the node, no test for a Job of
  the other action.
- `AddsToGivenNode` (node_meta_nil_map), `util.go:45`. The comments say `LabelNode` and
  `AnnotateNode` add a pair to the given node. A Node without labels (or annotations) comes from
  the apiserver with a nil map, and the assignment into it panics. Nodes that a kubelet
  registered carry labels and annotations of its own, so the case is a Node made or stripped by
  hand, or by a test client.

## 4. Bounds

| Constant | Value | Why it is enough |
|---|---|---|
| `Procs` (jobs_dispatch) | two; no symmetry, because the run checks liveness | one rival is what it takes to lose a Create and to delete another's Job |
| `EdgeNodeNames` | `<<n1, n2>>` | two goroutines beside the loop; an early return with one goroutine already started |
| `Rendered` | a Job for all but `<<"revert", n2>>`, which renders a Pod (jobs_dispatch) or yaml that does not decode (jobs_cleanup) | the early return happens at the second node, after a `go` |
| `TimeoutPeriods` | 2 (the code has 12) | the timeout is met after one ordinary period and at the tie with the last one; more periods repeat the first |
| `Procs` (jobs_cleanup) | one | the leftover Job does not need a rival |
| `Procs` (conversion) | two, symmetric | one process for each action is what puts two scripts on the node |
| `Node` (conversion) | one | the scripts of different nodes share nothing |
| `TimeoutPeriods` (conversion) | 1 | the timeout can fire before, between and after the steps of the script; a second period repeats the first |
| `Retries` (conversion) | 0 | one poll of the pod, with all four outcomes; the loop's count is checked with 5 in servant_node |
| `BackoffLimit` (conversion) | 0 | the script runs once per Job; a script run again on what a cut run left is checked in servant_node, and a second Job of the same action gives a second run here too. With `BackoffLimit = 1` TLC finds 7,128,629 distinct states in six minutes on four workers and `ReportHoldsWhenAlone` holds there as well; that instance is too large to be one of the runs |
| initial drop-in (conversion) | `FullDropIn`: both flags, the bootstrap file gone, as a conjunct of the initial predicate `InitFull` | the node `kubeadm join` leaves; the other initial drop-ins are checked in servant_node |
| `Scripts` (servant runs) | one | runs follow one another on one node; two scripts at once are in `Conversion` |
| `Retries` | 5, the code's value | |
| `Callers` (node_meta) | two, symmetric | one writer between a caller's read and its Update is what makes an object stale |
| `Keys`, `Vals` (node_meta) | one key, two values, symmetric | with the two maps that is two pairs, enough for one to be lost while the other is written, and a value to be put back; the property also holds with two keys and one value (255,954 states) |
| `MaxVersion` | 4 | three changes of the Node: a write by each caller and a heartbeat, or a failed call, a successful one and a call on the node it returned |
| `Callers` (storage_refinement) | two, symmetric | a call beside another call is what the guard is for; a third caller adds readers beside readers |
| `Keys` (storage_refinement) | `a`, `a/b`, `a/b/c`, `a/c` | a key that is entry and later node, a node under a node, a walk and a Delete of several steps |
| `Payloads` (storage_refinement) | two, symmetric, and the empty payload | overwrite is visible, the empty Update and the truncated file are told apart |
| `Keys`, `Payloads` (storage tests) | those the suite uses | the suite is closed over them |

The run conversion uses the view `Told`, which keeps every variable and replaces what a goroutine
returned by whether it returned nil: the error is written once, logged, and never read, so two
states that differ in it alone have the same future. Without the view the run has 2,181,493
distinct states and the same result. The view also holds whether any goroutine has returned at
all, which adds no state (a goroutine that has returned is `done`): it makes TLC evaluate `ret` as
a whole in each state, without which TLC 2.19 fails when it writes states whose `ret` the view
never compared to its queue on disk. conversion_report is checked without the view.

## 5. Fairness

- `ServantJobs`: weak fairness of the steps of every process and goroutine. The Go scheduler runs
  a runnable goroutine, every client call returns, and a timer that is set fires. No fairness is
  assumed of the environment: a Job need never succeed.
- `Servant`: weak fairness of `Step(s)`. bash runs the next command, and every command of the
  script is assumed to return. For `sed`, `cp`, `rm` and `systemctl` that is what they do; the
  `curl` of line 117 has no `--max-time`, so for it the assumption rests on the TCP timeouts of
  the node (listed as a hazard). Nothing is assumed of the pod or of `Abort`.
- `Conversion` states no liveness property: whether a Job ever succeeds is up to the node, and
  `EventuallyReturns` holds of `ServantJobs` whatever the Jobs do.
- The storage modules state no liveness property. Whether a call that waits for the guard gets
  it depends on the lock the engine uses (a writer can wait for ever on readers that overlap,
  unless the lock turns new readers away), and the engine's source is not in the repository.
- `NodeMeta` states no liveness property: whether a caller tries again after a conflict is
  decided outside this repository.

Deadlock is checked in every run but those of `NodeMeta`, whose callers are command-line
processes that end, by a panic among other things. `ServantJobs` and `Conversion` end in the
explicit `Finished` step.

## 6. Not modelled

- The callers of `LabelNode` and `AnnotateNode` (`yurtctl convert` and `revert`): not in this
  repository. `NodeMeta` lets a caller do whatever a caller can.
- What `RunServantJobs` returns when a Job failed: the error is logged (line 133) and nil is
  returned; the repository says nothing of what the caller may conclude from nil.
- A Job without `spec.completions`: line 82 dereferences the pointer, and a Job that the
  template gives parallelism and no completions would make the goroutine panic. The template
  (`constants.ServantJobTemplate`) is not in this repository; `ServantJobs` takes the rendered
  Job to carry completions.
- The Job controller beyond starting a pod and counting its exit 0, the scheduler, and the Job
  template: not in this repository; `Conversion` states what it assumes of them.
- The text of the pod template, the provider substitution, `log` and `error`: data and printing.
- The `nounset` failure of `$NODE_NAME` when the variable is not passed to the pod: one more
  cause of `Abort`, not told apart from the others.
- Splitting of key strings and the rejection of the empty key: keys are non-empty sequences.
- Atomic replacement (write to a temporary file, rename) with readers that take no lock, the
  other design `spec.md` section 5 allows: under it a List is no step of `DiskStorage` (the
  specification calls it eventually consistent), and the property to check would be another.
- Cancellation of a walk between two entries: `spec.md` leaves it to the caller.
- A crash of yurthub between two filesystem calls: `spec.md` says nothing of it, and the engine
  has no state but the tree. An entry that a crash leaves empty is the entry a refused write
  leaves; no action models the restart.
- The time a `Get` takes: `PeriodFires` and `TimeoutFires` count the two minutes in whole
  periods, so with the code's twelve periods a goroutine polls eleven times before the timeout,
  where a slow apiserver leaves it fewer polls. The runs use one and two periods, where the
  difference does not show.
- The apiserver behind `Nodes().Update`: that it tests the resourceVersion, that an Update
  which changes nothing keeps the version, and that an answer can be lost, are what Kubernetes
  documents of it; `NodeMeta.Update` assumes them, and `NoForeignChange` rests on them.
- What the kubelet makes of a drop-in whose line the `sed` has cut short: `StartKubelet` looks
  at the kubeconfig the loaded unit names and nothing else, so "the kubelet talks to the hub"
  after a convert is said of a kubelet that starts without the flags that stood behind
  `--kubeconfig`. `RevertRestoresDropIn` reports the lost text.
- The panics of `storage_test.go:338` and `429`, which index `keys[0]` and `contents[0]` after
  a length test that only calls `t.Errorf`: they need a storage that returns nothing for an
  entry, which `DiskStorage` never does.
- A write that stores part of its payload: contents are values, an entry is empty or whole.
- The Go testing framework beyond calling functions and recording `t.Errorf`.

## 7. Plan

1. `Conversion` with `Retries = 1`, and with `BackoffLimit = 1` as one of the runs, once the
   state of the goroutines that have returned is reduced further.
2. The engine with atomic replacement and lock-free readers, checked against a specification of
   List that allows what `spec.md` calls eventual consistency.
3. The caller of `RunServantJobs`, should it come into the repository: what it concludes from a
   nil return when the error of a node was only logged (`util.go:133`).
