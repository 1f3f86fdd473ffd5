-------------------------- MODULE ScenarioLifecycle --------------------------
(***************************************************************************)
(* What chaos and load scenarios leave in a cluster that is used by one    *)
(* run of a suite after another.  A scenario registers its cleanup         *)
(* (DeferCleanup), makes a labelled namespace, installs what it needs and  *)
(* runs; the cleanup runs whether it failed or not, a failed scenario may  *)
(* be run again (FlakeAttempts), and a run can be killed at any point.     *)
(* The bootstrap of the next run deletes labelled namespaces               *)
(* (CleanupStaleNamespaces, pkg/tests/bootstrap.go) and writes the         *)
(* remoteWrite list of the shared VMAgent anew (InstallOverwatch).         *)
(***************************************************************************)
EXTENDS Naturals, Sequences

CONSTANTS
  Scenario,       \* scenarios of the suite
  Kinds,          \* the programs a scenario may be one of
  FlakeAttempts,  \* attempts Ginkgo gives a failing scenario
  MaxRuns         \* bound: runs of the suite on one cluster

MutDeferLast == <<"deleteNs", "createNs", "goldilocks", "label", "defer">>

Prepare == <<"defer", "deleteNs", "createNs", "goldilocks", "label">>

(* A check is a read or a wait that fails the test.  Before the chaos it   *)
(* is the storage pods of the ungraceful restarts that are read, during it *)
(* the alerts of the scenarios that name some are waited for.              *)
VMChaosScenario ==
  [body    |-> Prepare \o <<"check", "install", "remoteWrite", "check",
                            "applyChaos", "check", "waitChaos", "check">>,
   cleanup |-> <<"gather", "deleteCluster", "cleanupNs">>]
VLChaosScenario ==
  [body    |-> Prepare \o <<"install", "applyChaos", "waitChaos", "check">>,
   cleanup |-> <<"gather", "deleteCluster", "cleanupNs">>]
(* SetupOverwatchClient comes before the cleanup is registered; a load     *)
(* scenario runs its chaos, if it has any, without waiting for it.         *)
LoadScenario ==
  [body    |-> <<"check">> \o Prepare \o <<"installK6", "install", "k6", "check">>,
   cleanup |-> <<"gather", "deleteCluster", "uninstallK6", "cleanupNs">>]
NFSLoadScenario ==
  [body    |-> <<"check">> \o Prepare
                 \o <<"installK6", "installNFS", "install", "k6", "check">>,
   cleanup |-> <<"gather", "deleteCluster", "deleteNFS", "uninstallK6", "cleanupNs">>]

AllKinds == {VMChaosScenario, VLChaosScenario, LoadScenario, NFSLoadScenario}

ASSUME KindAssumption == Kinds \subseteq AllKinds
ASSUME BoundAssumption == FlakeAttempts \in Nat \ {0} /\ MaxRuns \in Nat \ {0}

Id == [run : 1 .. MaxRuns, of : Scenario, attempt : 1 .. FlakeAttempts]

VARIABLES
  run,      \* number of the run
  phase,    \* "stale", "overwatch", "specs" or "ended"
  kind,     \* the program of each scenario
  mode,     \* of each scenario: "waiting", "body", "cleanup" or "over"
  pos,      \* the step it is at
  attempt,  \* its attempt
  failed,   \* scenarios whose attempt Ginkgo has recorded a failure of
  ctxDone,  \* scenarios whose node (spec or cleanup) has timed out
  deferred, \* scenarios whose DeferCleanup is registered
  ns,       \* namespaces, named after the attempt that made them
  labelled, \* those with the label of the suite
  scoped,   \* cluster-scoped objects: <<attempt, "k6" or "nfs">>
  urls,     \* attempts whose URL is in remoteWrite of the shared VMAgent
  chaos,    \* state of each attempt's chaos resource
  recovered,\* history: scenarios whose chaos was over and recovered from
  unclean   \* history: attempts a step of whose cleanup failed

mesh    == <<chaos, recovered>>
cluster == <<ns, labelled, scoped, urls, mesh>>
vars    == <<run, phase, kind, mode, pos, attempt, failed, ctxDone, deferred,
             cluster, unclean>>

me(s) == [run |-> run, of |-> s, attempt |-> attempt[s]]

TypeOK ==
  /\ run \in 1 .. MaxRuns
  /\ phase \in {"stale", "overwatch", "specs", "ended"}
  /\ kind \in [Scenario -> Kinds]
  /\ mode \in [Scenario -> {"waiting", "body", "cleanup", "over"}]
  /\ pos \in [Scenario -> 1 .. 20]
  /\ attempt \in [Scenario -> 1 .. FlakeAttempts]
  /\ failed \subseteq Scenario /\ ctxDone \subseteq Scenario /\ deferred \subseteq Scenario
  /\ ns \subseteq Id /\ labelled \subseteq ns /\ urls \subseteq Id /\ unclean \subseteq Id
  /\ scoped \subseteq (Id \X {"k6", "nfs"})
  /\ recovered \subseteq Scenario
  /\ chaos \in [Scenario -> {"none", "running", "recovered", "gone"}]

Init ==
  /\ run = 1 /\ phase = "stale"
  /\ kind \in [Scenario -> Kinds]
  /\ mode = [s \in Scenario |-> "waiting"]
  /\ pos = [s \in Scenario |-> 1]
  /\ attempt = [s \in Scenario |-> 1]
  /\ failed = {} /\ ctxDone = {} /\ deferred = {}
  /\ ns = {} /\ labelled = {} /\ scoped = {} /\ urls = {}
  /\ chaos = [s \in Scenario |-> "none"] /\ recovered = {}
  /\ unclean = {}

scenarios == <<kind, mode, pos, attempt, failed, ctxDone, deferred, unclean>>

-----------------------------------------------------------------------------
(* Bootstrap *)

(* kubectl delete namespace -l <label> --wait; a failure aborts the run.   *)
MutStaleIgnored ==
  /\ phase = "stale" /\ phase' = "overwatch"
  /\ \/ ns' = ns \ labelled /\ labelled' = {}
     \/ UNCHANGED <<ns, labelled>>
  /\ UNCHANGED <<run, scenarios, scoped, urls, mesh>>

CleanupStaleNamespaces ==
  /\ phase = "stale"
  /\ \/ phase' = "overwatch" /\ ns' = ns \ labelled /\ labelled' = {}
     \/ phase' = "ended" /\ UNCHANGED <<ns, labelled>>
  /\ UNCHANGED <<run, scenarios, scoped, urls, mesh>>

(* kubectl apply of the VMAgent: the remoteWrite list of the manifest      *)
(* replaces the one in the cluster.                                        *)
MutOverwatchKeepsUrls ==
  /\ phase = "overwatch" /\ phase' \in {"specs", "ended"}
  /\ UNCHANGED <<run, scenarios, cluster>>

InstallOverwatch ==
  /\ phase = "overwatch"
  /\ \/ phase' = "specs" /\ urls' = {}
     \/ phase' = "ended" /\ urls' \in {urls, {}}
  /\ UNCHANGED <<run, scenarios, ns, labelled, scoped, mesh>>

-----------------------------------------------------------------------------
(* The body of a scenario *)

Enter(s) ==
  /\ phase = "specs" /\ mode[s] = "waiting"
  /\ mode' = [mode EXCEPT ![s] = "body"]
  /\ pos' = [pos EXCEPT ![s] = 1]
  /\ chaos' = [chaos EXCEPT ![s] = "none"] /\ recovered' = recovered \ {s}
  /\ failed' = failed \ {s} /\ ctxDone' = ctxDone \ {s} /\ deferred' = deferred \ {s}
  /\ UNCHANGED <<run, phase, kind, attempt, ns, labelled, scoped, urls, unclean>>

At(s, step) ==
  /\ phase = "specs" /\ mode[s] \in {"body", "cleanup"}
  /\ pos[s] <= Len(kind[s][mode[s]]) /\ kind[s][mode[s]][pos[s]] = step

GoOn(s) ==
  /\ pos' = [pos EXCEPT ![s] = @ + 1]
  /\ UNCHANGED <<run, phase, kind, mode, attempt, failed, ctxDone, unclean>>

(* A failed step panics: the rest of the body, or of the cleanup, is       *)
(* skipped.                                                                *)
Fail(s) ==
  /\ failed' = failed \cup {s}
  /\ pos' = [pos EXCEPT ![s] = Len(kind[s][mode[s]]) + 1]
  /\ unclean' = IF mode[s] = "cleanup" THEN unclean \cup {me(s)} ELSE unclean
  /\ UNCHANGED <<run, phase, kind, mode, attempt, ctxDone>>

Defer(s) ==
  /\ At(s, "defer") /\ GoOn(s)
  /\ deferred' = deferred \cup {s}
  /\ UNCHANGED cluster

(* CleanupNamespace, first and last: kubectl delete --ignore-not-found,    *)
(* with a context of its own.  The chaos resource goes with the namespace. *)
DeleteNamespace(s) ==
  /\ At(s, "deleteNs") \/ At(s, "cleanupNs")
  /\ \/ /\ GoOn(s)
        /\ ns' = ns \ {me(s)} /\ labelled' = labelled \ {me(s)}
        /\ chaos' = [chaos EXCEPT ![s] = IF @ = "none" THEN @ ELSE "gone"]
     \/ Fail(s) /\ UNCHANGED <<ns, labelled, chaos>>
  /\ UNCHANGED <<deferred, scoped, urls, recovered>>

(* EnsureNamespaceExists creates the namespace, also when only the answer  *)
(* is lost, and labels it for goldilocks; the suite's label is a further   *)
(* request, with the context of the spec, which may be carried out and     *)
(* fail just so.                                                           *)
CreateNamespace(s) ==
  /\ At(s, "createNs")
  /\ \/ GoOn(s) /\ ns' = ns \cup {me(s)}
     \/ Fail(s) /\ ns' \in {ns, ns \cup {me(s)}}
  /\ UNCHANGED <<deferred, labelled, scoped, urls, mesh>>

LabelNamespace(s) ==
  /\ At(s, "label")
  /\ \/ s \notin ctxDone /\ GoOn(s) /\ labelled' = labelled \cup {me(s)}
     \/ Fail(s) /\ labelled' \in {labelled, labelled \cup {me(s)}}
  /\ UNCHANGED <<deferred, ns, scoped, urls, mesh>>

(* Steps that leave nothing outside the namespace behind.  Labelling for   *)
(* goldilocks and deleting the cluster have a context of their own.        *)
Request(s) ==
  /\ \E step \in {"goldilocks", "check", "install", "k6", "deleteCluster"} : At(s, step)
  /\ \/ GoOn(s) /\ (s \in ctxDone => At(s, "goldilocks") \/ At(s, "deleteCluster"))
     \/ Fail(s)
  /\ UNCHANGED <<deferred, cluster>>

(* EnsureVMAgentRemoteWriteURL: a failing call may have stored the URL.    *)
RemoteWrite(s) ==
  /\ At(s, "remoteWrite")
  /\ \/ s \notin ctxDone /\ GoOn(s) /\ urls' = urls \cup {me(s)}
     \/ Fail(s) /\ urls' \in {urls, urls \cup {me(s)}}
  /\ UNCHANGED <<deferred, ns, labelled, scoped, mesh>>

(* Both make cluster-scoped objects, InstallK6 ClusterRoleBindings and     *)
(* InstallNFSServer a StorageClass and PersistentVolumes; a failing call   *)
(* may have made them.                                                     *)
InstallK6(s) ==
  /\ At(s, "installK6")
  /\ \/ s \notin ctxDone /\ GoOn(s) /\ scoped' = scoped \cup {<<me(s), "k6">>}
     \/ Fail(s) /\ scoped' \in {scoped, scoped \cup {<<me(s), "k6">>}}
  /\ UNCHANGED <<deferred, ns, labelled, urls, mesh>>

InstallNFSServer(s) ==
  /\ At(s, "installNFS")
  /\ \/ s \notin ctxDone /\ GoOn(s) /\ scoped' = scoped \cup {<<me(s), "nfs">>}
     \/ Fail(s) /\ scoped' \in {scoped, scoped \cup {<<me(s), "nfs">>}}
  /\ UNCHANGED <<deferred, ns, labelled, urls, mesh>>

ApplyChaosScenario(s) ==
  /\ At(s, "applyChaos")
  /\ \/ /\ s \notin ctxDone /\ GoOn(s)
        /\ chaos' = [chaos EXCEPT ![s] = "running"]
     \/ Fail(s) /\ chaos' \in {chaos, [chaos EXCEPT ![s] = "running"]}
  /\ UNCHANGED <<deferred, ns, labelled, scoped, urls, recovered>>

(* WaitForChaosScenarioToComplete: a recovered scenario ends it, and so    *)
(* does, silently, a context that is over; a resource that is not found is *)
(* polled on; any other error and ChaosTestMaxDuration fail the test.      *)
MutNotFoundPasses(s) ==
  /\ At(s, "waitChaos")
  /\ \/ (chaos[s] \in {"recovered", "gone"} \/ s \in ctxDone) /\ GoOn(s)
     \/ s \notin ctxDone /\ Fail(s)
  /\ UNCHANGED <<deferred, cluster>>

MutNoMaxDuration(s) ==
  /\ At(s, "waitChaos")
  /\ chaos[s] = "recovered" \/ s \in ctxDone
  /\ GoOn(s)
  /\ UNCHANGED <<deferred, cluster>>

WaitForChaosScenarioToComplete(s) ==
  /\ At(s, "waitChaos")
  /\ \/ (chaos[s] = "recovered" \/ s \in ctxDone) /\ GoOn(s)
     \/ s \notin ctxDone /\ Fail(s)
  /\ UNCHANGED <<deferred, cluster>>

(* SpecTimeout, or NodeTimeout of the cleanup: Ginkgo fails the node.      *)
Timeout(s) ==
  /\ phase = "specs" /\ mode[s] \in {"body", "cleanup"} /\ s \notin ctxDone
  /\ ctxDone' = ctxDone \cup {s} /\ failed' = failed \cup {s}
  /\ UNCHANGED <<run, phase, kind, mode, pos, attempt, deferred, cluster, unclean>>

-----------------------------------------------------------------------------
(* The cleanup *)

BodyEnds(s) ==
  /\ phase = "specs" /\ mode[s] = "body" /\ pos[s] > Len(kind[s].body)
  /\ mode' = [mode EXCEPT ![s] = "cleanup"]
  /\ pos' = [pos EXCEPT ![s] = IF s \in deferred THEN 1 ELSE Len(kind[s].cleanup) + 1]
  /\ ctxDone' = ctxDone \ {s}
  /\ UNCHANGED <<run, phase, kind, attempt, failed, deferred, cluster, unclean>>

(* GatherOnFailureFrom logs what goes wrong, except that ListNamespaces    *)
(* fails the node, which skips the rest of the cleanup.  FailureGather has *)
(* it in detail.                                                           *)
Gather(s) == At(s, "gather") /\ (GoOn(s) \/ Fail(s)) /\ UNCHANGED <<deferred, cluster>>

(* Deletes with the context of the node: UninstallK6 fails the test when   *)
(* one goes wrong, DeleteNFSResources logs it and goes on.                 *)
UninstallK6(s) ==
  /\ At(s, "uninstallK6")
  /\ \/ s \notin ctxDone /\ GoOn(s) /\ scoped' = scoped \ {<<me(s), "k6">>}
     \/ Fail(s) /\ UNCHANGED scoped
  /\ UNCHANGED <<deferred, ns, labelled, urls, mesh>>

DeleteNFSResources(s) ==
  /\ At(s, "deleteNFS") /\ pos' = [pos EXCEPT ![s] = @ + 1]
  /\ \/ /\ s \notin ctxDone /\ scoped' = scoped \ {<<me(s), "nfs">>}
        /\ UNCHANGED unclean
     \/ unclean' = unclean \cup {me(s)} /\ UNCHANGED scoped
  /\ UNCHANGED <<run, phase, kind, mode, attempt, failed, ctxDone>>
  /\ UNCHANGED <<deferred, ns, labelled, urls, mesh>>

MutOneAttemptMore(s) ==
  /\ phase = "specs" /\ mode[s] = "cleanup" /\ pos[s] > Len(kind[s].cleanup)
  /\ IF s \in failed /\ attempt[s] <= FlakeAttempts
       THEN /\ mode' = [mode EXCEPT ![s] = "waiting"]
            /\ attempt' = [attempt EXCEPT ![s] = @ + 1]
       ELSE mode' = [mode EXCEPT ![s] = "over"] /\ UNCHANGED attempt
  /\ UNCHANGED <<run, phase, kind, pos, failed, ctxDone, deferred, cluster, unclean>>

CleanupEnds(s) ==
  /\ phase = "specs" /\ mode[s] = "cleanup" /\ pos[s] > Len(kind[s].cleanup)
  /\ IF s \in failed /\ attempt[s] < FlakeAttempts
       THEN /\ mode' = [mode EXCEPT ![s] = "waiting"]
            /\ attempt' = [attempt EXCEPT ![s] = @ + 1]
       ELSE mode' = [mode EXCEPT ![s] = "over"] /\ UNCHANGED attempt
  /\ UNCHANGED <<run, phase, kind, pos, failed, ctxDone, deferred, cluster, unclean>>

ScenarioStep(s) ==
  \/ Enter(s) \/ Defer(s) \/ DeleteNamespace(s) \/ CreateNamespace(s)
  \/ LabelNamespace(s) \/ Request(s) \/ RemoteWrite(s) \/ InstallK6(s)
  \/ InstallNFSServer(s)
  \/ ApplyChaosScenario(s) \/ WaitForChaosScenarioToComplete(s) \/ BodyEnds(s)
  \/ Gather(s) \/ UninstallK6(s) \/ DeleteNFSResources(s) \/ CleanupEnds(s)

-----------------------------------------------------------------------------
(* Chaos Mesh, and the life of a run *)

ChaosEnds(s) ==
  /\ chaos[s] = "running"
  /\ \/ chaos' = [chaos EXCEPT ![s] = "recovered"] /\ recovered' = recovered \cup {s}
     \/ chaos' = [chaos EXCEPT ![s] = "gone"] /\ UNCHANGED recovered
  /\ UNCHANGED <<run, phase, scenarios, ns, labelled, scoped, urls>>

RunEnds ==
  /\ phase = "specs" /\ \A s \in Scenario : mode[s] = "over"
  /\ phase' = "ended"
  /\ UNCHANGED <<run, scenarios, cluster>>

(* The test binary is killed: nothing more of this run is executed.        *)
Abort ==
  /\ phase # "ended" /\ phase' = "ended"
  /\ UNCHANGED <<run, scenarios, cluster>>

NextRun ==
  /\ phase = "ended" /\ run < MaxRuns
  /\ run' = run + 1 /\ phase' = "stale"
  /\ mode' = [s \in Scenario |-> "waiting"]
  /\ pos' = [s \in Scenario |-> 1]
  /\ attempt' = [s \in Scenario |-> 1]
  /\ chaos' = [s \in Scenario |-> "none"] /\ recovered' = {}
  /\ failed' = {} /\ ctxDone' = {} /\ deferred' = {}
  /\ UNCHANGED <<kind, ns, labelled, scoped, urls, unclean>>

Next ==
  \/ CleanupStaleNamespaces \/ InstallOverwatch
  \/ \E s \in Scenario : ScenarioStep(s) \/ Timeout(s) \/ ChaosEnds(s)
  \/ RunEnds \/ Abort \/ NextRun

(* Every request has a timeout, so a scenario takes its next step; nothing *)
(* is assumed of Chaos Mesh, of the node timeouts or of the next run.      *)
Fairness == \A s \in Scenario : WF_vars(ScenarioStep(s))

Spec == Init /\ [][Next]_vars /\ Fairness

-----------------------------------------------------------------------------
(* Properties *)

(* A chaos scenario whose attempt ends without a failure has been through  *)
(* its chaos and recovered from it: neither a resource that has vanished   *)
(* nor a context that is over passes for recovery.                         *)
PassedMeansRecovered ==
  [][ \A s \in Scenario :
        /\ mode[s] = "body" /\ mode'[s] = "cleanup" /\ s \notin failed
        /\ kind[s] \in {VMChaosScenario, VLChaosScenario}
        => s \in recovered ]_vars

(* No namespace an earlier run has labelled is there once specs run,       *)
(* however that run ended.                                                 *)
StaleNamespacesAreGone ==
  phase = "specs" => \A id \in labelled : id.run = run

(* The shared VMAgent never forwards to the clusters of an earlier run     *)
(* while specs run.                                                        *)
UrlsAreOfThisRun == phase = "specs" => \A id \in urls : id.run = run

(* A scenario that is over has left neither a namespace nor cluster-scoped *)
(* objects of any of its attempts, wherever they failed, unless a step of  *)
(* their cleanup failed: the cleanup is registered before the first        *)
(* object is made.                                                         *)
OverLeavesNothing ==
  \A s \in Scenario : mode[s] = "over" =>
    \A id \in (ns \cup {x[1] : x \in scoped}) \ unclean : id.run = run => id.of # s

(* Every attempt that was begun ends, unless the run does: the wait for    *)
(* the chaos to end has a limit of its own.                                *)
EveryAttemptEnds ==
  \A s \in Scenario :
    (mode[s] = "body") ~> (mode[s] \in {"over", "waiting"} \/ phase = "ended")

(* bootstrap.go:38-40: stale namespaces are deleted "so aborted runs don't *)
(* leak namespaces/resources into the next run".                           *)
AbortedRunsLeakNothing ==
  phase = "specs" => \A id \in ns \cup {x[1] : x \in scoped} : id.run = run
=============================================================================
