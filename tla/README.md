# TLA+ models of the VictoriaMetrics end-to-end tests

The repository is a Ginkgo test harness that drives a Kubernetes cluster: it
bootstraps a monitoring stack, installs VictoriaMetrics custom resources,
waits for operators to reconcile them, runs load (k6) and chaos (Chaos Mesh)
against them and cleans up. Its own logic is in `pkg/install`, `pkg/helpers`,
`pkg/tests`, `pkg/gather`, `pkg/promquery` and the suites under `tests/`. What makes it hard to test is that it
shares state it does not own (custom resources, namespaces, cluster-scoped
objects) with operators, with other Ginkgo processes and with earlier runs that
were killed half-way. That is what these modules model.

## Inventory

| Component | State | Operations | Hard part | What makes it correct |
|---|---|---|---|---|
| Shared VMAgent (`vmagent.go`) | remoteWrite list, resourceVersion, process-local mutex | `EnsureVMAgentRemoteWriteURL` | several processes and the operator write one object | no lost update, no duplicate, mutex always released |
| Installation and readiness (`wait.go`, `vmcluster.go`, ...) | spec, status, resourceVersion of each resource | nine `Install*`, `UpdateVMClusterSpec`, `WaitForOperational` | status lags the spec, neighbours in the namespace, cancelled contexts | a normal return means a rollout, failures are one's own |
| k6 scenarios (`k6.go`) | TestRun stage, jobs, a watch | `RunK6Scenario`, `WaitForK6JobsToComplete` | Get/watch races, closed watches, deadline, leftovers | verdict of the right run, no missed terminal stage |
| Suite bootstrap (`bootstrap.go`, suites) | stages, WaitGroup, recorded failures, ingress host per process | `SynchronizedBeforeSuite` | goroutines that fail or panic, other processes waiting | no spec on part of a bootstrap, nobody waits for ever |
| Scenario lifecycle (`chaos_runner.go`, suites) | namespaces and labels, cluster-scoped objects, remoteWrite entries, chaos resources | bodies, `DeferCleanup`, `CleanupStaleNamespaces` | failure at any step, timeouts, retries, killed runs | nothing is left that a later run would meet |
| Artefacts (`pkg/gather`) and teardown | clock of the cleanup node, export job, attachments | `GatherOnFailureFrom`, `DeleteVMCluster`, `DeleteNFSResources`, `UninstallK6`, `CleanupNamespace` | a retried job, requests without a timeout, one budget for all | the namespace is still deleted in time, metrics are of a completed job |
| Operator tests (`argocd.go`, `operator_test.go`) | replicas and webhooks of the shared operator, Application, test namespace | scale down, apply and sync, delete, restore | stale sync status, deletion without a timeout, kills | a body meets its own operator only, the shared one comes back |
| Ingress, writes and queries (`ingress.go`, `pkg/remotewrite`, `pkg/promquery`, `common.go`) | attempt counters, a watch, samples on their way | `DiscoverIngressHost`, `RemoteWrite`, `RetryVectorScan` | lost answers, nested retries, an address set between Get and watch | a verdict is about what was written, the test ends |
| Alert checks (`promquery/checks.go`) | attempt counters | polling of a set of alerts | an alert that fires late | not modelled |
| Allure conversion (`pkg/tests/allure`) | none (pure) | `FromGinkgoReport` | steps of failed attempts | not modelled |
| Pipeline generation (`.buildkite`) | none (pure) | path to suite selection | completeness of the selection | not modelled |
| Builders, SLI panels, exporter types, scripts | none | construction of data | - | not modelled |

The suites call `pkg/tests` (bootstrap, cleanup) and `pkg/install` (everything
that writes to the cluster); `pkg/install` waits through `pkg/helpers/wait.go`.
Ginkgo processes share nothing in memory: they meet at the API server only.

## Modules

| Module | Models | Composed with |
|---|---|---|
| `VMAgentRemoteWrite` | `EnsureVMAgentRemoteWriteURL`, the operator on the same VMAgent | refines `RemoteWriteSet` |
| `RemoteWriteSet` | what those calls promise: a set of URLs that grows by the requested ones | |
| `ResourceInstall` | Install functions as sequences of steps, `UpdateVMClusterSpec`, `WaitForOperational`, the operator | |
| `K6TestRun` | `RunK6Scenario`, `WaitForK6JobsToComplete`, the k6 operator, the watch | |
| `SuiteBootstrap` | `SynchronizedBeforeSuite` of all suites | |
| `ScenarioLifecycle` | chaos and load scenarios over several runs of a suite | has a call of `VMAgentRemoteWrite`, `ResourceInstall` or `K6TestRun` as one step |
| `FailureGather` | the cleanup node of a chaos or load scenario on the clock | is the cleanup of `ScenarioLifecycle` in detail |
| `OperatorSuite` | the operator suite over several runs, Argo CD, the shared operator | has the stages of `SuiteBootstrap` for this suite as single steps |
| `IngestAndQuery` | discovery of the ingress, apply, write, settle, scan, compare | |
| `<M>_proofs`, for each of the eight models above | inductive invariants and theorems about `<M>` | extends `<M>` |
| `MC*` | constants for TLC; `K6TestRun`, `OperatorSuite` and `IngestAndQuery` need none | |

How state and actions correspond to the code:

* **VMAgentRemoteWrite.** `pc` is the place in the function; `mu` is
  `vmAgentUpdateMu` of each process; `obj` is the local `vmAgent` of the closure;
  `rv` is the resourceVersion that makes `Update` optimistic. `Return` is the
  deferred unlock of every exit. The API server accepts an update exactly if the
  object is current; any other error may or may not have stored it.
* **ResourceInstall.** A call is a program (a sequence of step names) and a
  position; a step is one action that goes on, or ends the call by failing the
  test. The spec of a resource is the set of manifests and mutations it holds,
  `rolled` the set the operator has rolled out. All resources are of one kind in
  one namespace, in the order a List returns them.
* **K6TestRun.** `run` is the TestRun at the server, tagged with the attempt that
  applied it; `events` what the watch has yet to deliver. Every Get of the wait
  can fail; `badGet` names the Get that was the last one made and failed (the first
  one, the one after a watch was opened, the one after the deadline), and is reset by
  one that works. The starter job of a deleted TestRun goes some time later
  (`CollectStarter`). Whether a new watch replays the current object is left open.
* **SuiteBootstrap.** A stage is a call of the main goroutine or a group of
  goroutines with a WaitGroup. `t.Fatalf` and `require` record the failure and
  then panic; any other panic is recorded only when `GinkgoRecover` runs, which
  is after `wg.Done` because deferred calls run last in, first out.
* **ScenarioLifecycle.** Namespaces, URLs and cluster-scoped objects are named
  after the run, scenario and attempt that made them (the code draws random
  names). `Abort` kills the run at any point; `NextRun` starts another on what it
  left. The bodies differ per kind of scenario only in their steps. A request that
  fails may have been carried out.
* **FailureGather.** `elapsed` counts units of 10 s since the node began. A step takes
  no time or all it is allowed, which reaches the worst case because the code has
  no step that is shorter when an earlier one was longer. A teardown is a sequence
  of steps with the limit, the use of the node's context and the consequence of an
  error that the code gives each. A call without a limit (`kubectl delete` waiting for
  finalizers, a request by `http.DefaultClient`) takes up to `RequestTime`, or hangs
  until the node ends, and `hung` remembers that. A call with a limit has the time of
  its request within that limit.
* **OperatorSuite.** `replicas`, `pods` and `webhooks` are the shared operator; `saved` is
  `globalOperatorReplicas`, kept in process 1 only; `app` is the Application with the
  parameters that are wanted and those its status was computed for; `live` and `rolled`
  are the operator it deploys. The name of namespace and Application is fixed for a
  process, so what one `AfterEach` leaves is met by the next spec; `uncleaned`
  remembers that. A body makes custom resources and may, at its end, delete one with a
  `kubectl` that waits without a timeout (`crWait`). `specStartTime` is never assigned in the suite, so its artefacts always
  cover the last hour; no property depends on it.
* **IngestAndQuery.** `received` counts how often a sample has arrived, `visible` how
  often it is counted by what a query sees; the sum a query returns is the size of the
  set `Counted`. Sums differ from the number of
  samples when an answer was lost and the write repeated. `tries` counts attempts of
  the loop the test is in, `inner` those of the query inside a scan.

External behaviour (operators, Argo CD, vmgather, the namespace controller, the API server's watch, Chaos Mesh, Ginkgo's
retry of a failed spec) is modelled from how the code uses it and marked
`external` in `PROJECT.json`.

## Runs

| Run | Shows |
|---|---|
| `VMAgentRemoteWrite` | mutual exclusion, no duplicates, no lost update, append-only list, conflicts are other writers', refinement of `RemoteWriteSet`, every call returns, so no exit keeps the mutex |
| `K6TestRun` | verdict of this run, no missed terminal stage, no timeout for a finished run unless the Get made after the deadline failed, the wait returns |
| `ResourceInstall` | an install, of one VMCluster or of the distributed chart, beside two concurrent updates: rolled out on return, own failures only, updates are kept |
| `SuiteBootstrap` | all suites, licensed or not, with and without `-ingress-host`: whole bootstrap before any spec, CRDs before the operator, nobody waits for ever |
| `ScenarioLifecycle` | stale namespaces gone, remoteWrite of this run only, nothing left after an orderly cleanup, a pass means recovery, attempts end |
| `FailureGather` | every kind of teardown with the code's durations, a call without a limit taking up to 20 s: exports follow each other, gathering ends, and without NFS volumes the deletion of the namespace begins with more than its `PollingTimeout` left unless such a call hung |
| `OperatorSuite` | two runs, two specs each, another process: a body meets the operator it applied and no other, the shared operator stays down only after a kill or a failed scaling request, specs end |
| `IngestAndQuery` | one test with the code's numbers of attempts: no missed address, a wrong sum has an outside cause, the test ends |

What the last three show, beyond the pass:

* With the values of `pkg/consts/main.go` the limits of a cleanup without NFS add up to
  3090 s of the 3240 s of `GatherCleanupTimeout`, which leaves 150 s for six calls
  without a limit. With NFS they add up to 3240 s (see `CleanupBudgetNFS` below).
* `BodyHasItsOperatorAlone` is not promised after an `AfterEach` that stopped half-way: an
  Application that is being deleted still shows Synced and Healthy, so the next spec's
  apply can be taken for done while the operator goes away.
* `EverySpecEnds` rests on the order of `AfterEach` (namespace before Application), and, for
  the deletion inside a body, on the body's operator being the one it applied and running.
  `LeftDownOnlyByFailure` names a failed wait for pods among the failures: the replicas
  are known to the suite only once `scaleDownGlobalOperator` has returned.
* `VerdictIsAboutTheWrites` allows a wrong sum when the answer to a write was lost, or when
  the first sum that appears is taken before all samples are visible; both are
  possible in the code.

Four runs expect a violation. Each checks what a comment of the repository says
and TLC shows the code doing something else (quotations in `PROJECT.json`):

* `ResourceStale`: the wait of `UpdateVMClusterSpec` is satisfied by the status of
  the previous spec.
* `SuiteHost`: without `-ingress-host`, specs of vm-chaos in process 2 have no
  ingress host. (With the flag, and in the suites that set up an overwatch client
  in every process, they have one.)
* `ScenarioLeak`: a killed run leaves ClusterRoleBindings, PersistentVolumes, a
  StorageClass, or a namespace it had not labelled yet.
* `CleanupBudgetNFS`: the timeout of the cleanup "must exceed" the limits it covers; for a
  load scenario on NFS volumes it equals their sum, though requests take no time in this
  run. `NamespaceDeletionHasItsTime` is the same property of the other teardowns.

Disagreements between comments and code that no run states:

* `EnsureVMAgentRemoteWriteURL` is said to append (`vmagent.go:182-185`); it refuses an
  empty remoteWrite list (`FirstGet`).
* A wait for VMClusters with name `""` is said to check every one
  (`vmcluster.go:283-284`); `WaitForOperational` returns on the first operational one.
  `InstalledIsRolledOut` therefore leaves out unnamed waits in shared namespaces.
* `promquery/main.go:25-28` wants permanent errors to surface at once; `RetryVectorScan`
  around it retries every error (`ScanFails`).
* The archive of the cluster dump has one name for both attempts of a spec, and
  tar is not started once the time of the dump is over, so that an old archive can
  be attached (`Dump`).

### Bounds

* `RetrySteps = 2` (the code's is 5 for `retry.DefaultRetry`) reaches a first
  retry and the last one; the theorems hold for any value. `MaxRV` (3 or 4) lets the
  operator write between any two steps of a call, often enough to exhaust the
  retries; calls themselves are not bounded by it, and a
  rollout of the shared VMAgent that has begun below it may end above it.
* Three calls in two processes are the least with contention both for a mutex and
  across processes, two of them for one URL.
* `MaxAttempts = 2`, `MaxCloses = 1`, `MaxEvents = 2` in K6TestRun: one TestRun left
  over, one closed watch before the deadline (any number after it), and a watch that
  lags the operator by two stages. `MaxEvents` delays the operator, it loses nothing.
* `MaxRuns = 2`, `FlakeAttempts = 2` (the code's value): a run after a killed one, a
  retry after a failed attempt. One scenario is enough: scenarios have namespaces
  and objects of their own, and what they share, remoteWrite, is the subject of
  VMAgentRemoteWrite.
* SuiteBootstrap has no bound but two processes.
* The runs of FailureGather have the code's values and no bound. `RequestTime` is 20 s in
  `FailureGather` (six such calls fit into the slack of 150 s, with 30 s to spare) and zero
  in `CleanupBudgetNFS`, so that the violation owes nothing to an assumed delay.
* ResourceInstall: two resources and three calls, of which the two updates are symmetric
  (`MCSymmetry`; the run checks no liveness). The install is one of the two that
  make VMClusters, the kind the updates write; the theorems are about all ten programs, and
  about an unnamed wait in a namespace of its own.
* OperatorSuite: two runs (one after a killed one), two specs (one after an
  unfinished `AfterEach`), one other process, one replica.
* IngestAndQuery: the code's attempts (5 applies, 5 writes, 3 queries, 5 scans), two
  samples, so that one can be complete and the other not, and two updates of the
  Service, one before and one after the watch begins.

`CHECK_DEADLOCK FALSE`: every system here stops when its calls have returned, and
the operators owe nothing.

### Fairness

Only code of the repository is assumed to make progress: weak fairness of the next
step of each call, goroutine, scenario or process. Every request has a timeout, and
every poll loop has one whose expiry is itself one of the step's outcomes. The exceptions
are modelled as such: a request of FailureGather that hangs is ended by the node's
timeout, and the three deletions of OperatorSuite end when the object is gone, which
needs, besides weak fairness of the finalizing controllers, the operator the
spec itself has left running. In
K6TestRun the deadline (`context.WithTimeout`) eventually passes. Nothing is assumed
of other operators, of sync and rollout, watches, vmgather, Chaos Mesh, the load
balancer, storage, spec timeouts or reruns.

## Proofs

Each `<M>_proofs` proves every safety property the passing runs check of `<M>`, action
properties included, for every value of the constants that the module's own `ASSUME`s
admit. Where a theorem has a further hypothesis it is named below. Each inductive
invariant was first checked by TLC on the instance of the run, or one of its size.
A proof has the same outline throughout: the initial states satisfy the invariant, every
action keeps it (a summary of the steps of a call or a task first, where many actions share
it), and it implies the property.

### VMAgentRemoteWrite

`TypeCorrect`, `Mutex`, `Unique`, `Ensured`, `AppendOnly`, `Contention` and `Refinement`, for any
sets of calls, processes and URLs and any number of retries.

* `TypeOK` bounds `conflicts` by `RetrySteps`; `Counted` adds that a call about to
  update has a step left.
* `MutualExclusion` follows from `HoldsMutex`: a call past the lock is the one its
  process's mutex names.
* `NoDuplicates` and `OnlyAppends` need `FreshOrStale`: the object a call is about to
  write is either out of date, and refused, or exactly the stored list with a URL
  appended that it does not contain. This is where the second check inside the
  closure and the resourceVersion are used.
* `EnsuredURLStays` is the part of `Stored` (the URL is in the list from the
  successful update on) that speaks of returned calls; it is kept because the list
  only grows.
* `ConflictsAreForeignWrites` needs `ReadAfterConflicts`: the object was read after all
  conflicts counted so far, so a refused update is one more write.
* The refinement maps the list to its set and `pc` to a verdict. A step that changes
  neither is a stutter; an update is an `Insert`; a return is `Succeed`, for which
  `Stored` is needed, or `Fail`.

### ResourceInstall

`TypeCorrect`, `NoLostUpdate`, `FailureOfOwnResource` and `InstalledMeansRolledOut`, for any
resources, calls and choices of programs. `ProgramShape` says what the proofs use of the
ten programs: where the steps that jump (`nsGet`, `get`, `put`) stand, that each has a wait,
and that `InstallVMCluster` waits for pods after it. `CallStepSum` sums up what any of the twelve
actions of a call can do.

* `TypeOK` needs `TypeInv`: a call that runs is at a step of its program, and an update
  that goes on has a retry left.
* `WrittenIsKept` needs `ObjSeen`: what an update has read is not newer than what is stored,
  and equal to it if the versions are equal. So a write that the server accepts is on top
  of everything written before (`WritesGrow`).
* `FailureIsOwn` follows from `DecidedBy`: a status that decides a poll is the one of a listed
  resource, and a named wait lists one.
* `InstalledIsRolledOut` is proved under `SoleWriter`: a resource that was not there beforehand is
  written by its installer only. The suites justify it: every scenario installs into a
  namespace of its own, and nothing else installs by helm beside it. Both runs satisfy
  it. Without it the property is false: with two installers of one resource TLC finds a
  wait that ends on the operational status of the other manifest. `RolledOut` says of each
  installer that the resource has its manifest from the moment it exists, is operational
  only with it rolled out, and that a wait passed with the context alive, or a wait for pods
  passed at all, means the same.

### K6TestRun

`TypeCorrect`, `VerdictOfThisRun`, `NoTransitionMissed` and `TimeoutNotFinished`, for any number of
attempts, events and closed watches. `K6Inv` (theorem `K6Invariant`) carries along whose TestRun
the server holds: none from a delete that worked to the apply, this attempt's until the
verdict (`RunIsFresh`, `WatchIsFresh`); and that every stage the run or an event shows was
recorded when the operator set it (`StageIsRecorded`, `EventsAreRecorded`). A failed Get excuses
a missed stage only if it is the one made right after the watch was opened, and a wrong
timeout only if it is the one made after the deadline.

### SuiteBootstrap

`TypeCorrect`, `SpecsOnWholeBootstrap` and `CRDsBeforeOperator`, for every subset of the suites and any
number of processes. `SuitesShape` gives the shape of the ten suites: no empty stage or
task, and the CRDs installed by stages on the main goroutine before everything but
Argo CD. `BootInv` (theorem `BootstrapInvariant`) says that the WaitGroup counts the tasks that are
not over; that a task that is over has made all its calls, or has failed or panicked, and
then process 1 goes on only if it was a goroutine; that the same holds of the stages left
behind; and that a node that has succeeded has nothing open. `OperatorFindsCRDs` uses only
that a stage on the main goroutine is not survived by a failure, which is why it
holds in a failing bootstrap too.

### ScenarioLifecycle

`TypeCorrect`, `StaleAreGone`, `UrlsOfThisRun`, `NothingIsLeft` and `PassedHasRecovered`, for any number of
scenarios, attempts and runs. `Tidy` is what the scenario programs have in common: the
cleanup is registered before anything is made, and has a step for each thing the body makes.
The core of `LifeInv` (theorem `LifeInvariant`) is `LeftIsOwed`: whatever is there of this run, and
not of an attempt whose cleanup failed, is of an attempt under way whose cleanup has the
step that removes it still ahead. `Recovery` adds that a body past its wait for chaos has seen
the recovery unless it has failed.

### FailureGather

`ExportsInOrder` holds for all timeouts and any number of attempts. `TypeCorrect` and
`DeletionHasItsTime` take `FewAttempts` (`vmGatherExportAttempts <= 3`, the code's value is 3), because
the provers know a power of two only for exponents that are numbers. `DeletionHasItsTime` also
takes `TimeoutExceedsLimits`: three exports with their pauses, logs and dump, three waits for the
cluster, the deletion of the namespace and six calls of `RequestTime` together stay below
`GatherCleanupTimeout`. With the constants of `pkg/consts/main.go` that is 309 units of 10 s and
the calls, against 324. NFS volumes add 15, so that nothing is left and the theorem claims
nothing of them; `CleanupBudgetNFS` shows that the conclusion fails there. The invariant `OnTime` bounds `elapsed` by where the node is.

### OperatorSuite

`TypeCorrect`, `BodyAlone` and `LeftDownByFailure`, for any numbers of replicas, processes, specs and
runs. `OperatorInv` (theorem `OperatorInvariant`) has three chains: how far the bootstrap is decides
what is left of the shared operator (`SetAside`); what was read before the scale-down tells
whether it was already down, and for what cause (`DownHasCause`); and what Argo CD reports is
true until it is changed (`ReportIsTrue`), so that behind a complete `AfterEach`
(`CleanApplication`) a synced Application is the spec's own.

### IngestAndQuery

`TypeCorrect`, `AddressNotMissed` and `VerdictAboutTheWrites`, for any numbers of samples, attempts and
updates. `PathInv` (theorem `PathInvariant`) says that a loop's counter is below the attempts of
the loop the test is in, that writes are made in order and arrive at most once per
attempt, and that without a lost answer every sample whose write returned has arrived
exactly once. The range of the sum rests on the cardinality of `Counted`.

### Only model-checked

Liveness, which is out of the prover's reach: `EveryCallReturns`, `WaitReturns`,
`EveryProcessGoesOn`, `EveryAttemptEnds`, `GatheringEnds`, `EverySpecEnds`, `TestEnds`. The four
properties with a finding are refuted by TLC.

## Not modelled

Data that no property tells apart: manifests, JSON patches, images, hosts and URLs,
queries, affinity, the content of archives. Within the modelled parts: the pairing of a
VMCluster's deletion with that of its namespace; the body goroutine Ginkgo abandons
after a timeout and its grace period; the inside of a bootstrap call; the assertions of
operator specs; the second namespace of the operator spec on `WATCH_NAMESPACE`, deleted after
`AfterEach` without a timeout (`operator_test.go:126-130`; no operator has reconciled the resource
in it, so it has no finalizer to wait for), and resources that some bodies make in the namespace of
their operator rather than in the test namespace (`operator_test.go:687-713`); `RestartOverwatchInstance` and the alert checks. The Allure conversion and
the pipeline generation are sequential functions of one input; builders, SLI panels and
exporter types build data; the scripts are one-shot transformations. Components with
status `not_modelled` in `PROJECT.json` are listed there with the reason.

## Plan

1. The alert checks (`promquery/checks.go`) beside `IngestAndQuery`, and the bootstrap
   calls step by step (`helm.go`, `vmgather.go`, `kafka.go`).
2. Abstract specifications for more components, with refinements proved as for
   `RemoteWriteSet`: a scenario as the owner of what it makes (for `ScenarioLifecycle`), and a
   resource that is absent, requested or rolled out (for `ResourceInstall`).
