--------------------------- MODULE SuiteBootstrap ---------------------------
(***************************************************************************)
(* The bootstrap of a test suite: SynchronizedBeforeSuite of the eight     *)
(* suites under tests/ and the stages they share (pkg/tests/bootstrap.go). *)
(* Process 1 goes through a list of stages.  A stage is one call made by   *)
(* the main goroutine, or a group of goroutines, each a list of calls,     *)
(* joined by a WaitGroup.  A failed call panics: that ends the bootstrap   *)
(* on the main goroutine, but in a goroutine GinkgoRecover only records    *)
(* the failure and the next stage still runs.  The other processes wait    *)
(* for process 1 and then run their specs.                                 *)
(***************************************************************************)
EXTENDS Naturals, SequencesExt

CONSTANTS
  Suites,  \* the suites that may be run
  Proc,    \* Ginkgo processes
  First,   \* process 1
  Preset   \* -ingress-host may be given: a set of BOOLEANs

ASSUME ProcAssumption == First \in Proc /\ Preset \subseteq BOOLEAN

-----------------------------------------------------------------------------
(* The stages *)

Task(calls)    == [calls |-> calls, recovers |-> TRUE]
Inline(call)   == [parallel |-> FALSE, tasks |-> <<Task(<<call>>)>>]
Parallel(list) == [parallel |-> TRUE, tasks |-> list]

EnsureCRDs    == <<Inline("EnsureVPACRDs"), Inline("EnsureGatewayAPICRDs")>>
HostAndChaosMesh ==
  Parallel(<<Task(<<"DiscoverIngressHost">>), Task(<<"InstallChaosMesh">>)>>)
InstallVMStackAndGather ==
  Parallel(<<Task(<<"InstallVMGather">>),
             Task(<<"InstallVMK8StackWithHelm", "InstallVictoriaLogs">>)>>)
InstallOverwatchStage(deleteVMCluster, addCustomAlertRules) ==
  Parallel(<<Task(<<"InstallOverwatch">>)>>
           \o (IF deleteVMCluster THEN <<Task(<<"DeleteVMCluster">>)>> ELSE <<>>)
           \o (IF addCustomAlertRules THEN <<Task(<<"AddCustomAlertRules">>)>> ELSE <<>>))

(* "discovers": every process calls DiscoverIngressHost again before its   *)
(* specs (SetupOverwatchClient).                                           *)
VMChaos ==
  [discovers |-> FALSE,
   stages |-> EnsureCRDs \o <<HostAndChaosMesh, InstallVMStackAndGather,
                Inline("CleanupStaleNamespaces"), InstallOverwatchStage(TRUE, TRUE)>>]
VLChaos ==
  [discovers |-> FALSE,
   stages |-> EnsureCRDs \o <<HostAndChaosMesh, InstallVMStackAndGather,
                Inline("CleanupStaleNamespaces"), InstallOverwatchStage(FALSE, FALSE)>>]
VMLoad ==
  [discovers |-> TRUE,
   stages |-> EnsureCRDs \o <<HostAndChaosMesh, InstallVMStackAndGather,
                Inline("CleanupStaleNamespaces"), InstallOverwatchStage(TRUE, TRUE)>>]
VLLoad ==
  [discovers |-> TRUE,
   stages |-> EnsureCRDs \o <<HostAndChaosMesh, Inline("InstallVMK8StackWithHelm"),
                Inline("CleanupStaleNamespaces"),
                Parallel(<<Task(<<"InstallOverwatch">>), Task(<<"InstallVMGather">>)>>)>>]
(* InstallChaosMesh runs in a goroutine without GinkgoRecover.             *)
VMDistributed ==
  [discovers |-> TRUE,
   stages |-> EnsureCRDs
     \o <<Parallel(<<Task(<<"DiscoverIngressHost">>),
                     [calls |-> <<"InstallChaosMesh">>, recovers |-> FALSE]>>),
          InstallVMStackAndGather, InstallOverwatchStage(TRUE, FALSE)>>]
VMFunctional(licensed) ==
  [discovers |-> TRUE,
   stages |-> EnsureCRDs
     \o (IF licensed
           THEN <<Inline("CleanupStaleNamespaces"),
                  Parallel(<<Task(<<"DiscoverIngressHost">>),
                             Task(<<"InstallStrimziOperator">>)>>)>>
           ELSE <<Inline("DiscoverIngressHost")>>)
     \o <<InstallVMStackAndGather, InstallOverwatchStage(TRUE, FALSE)>>]
VLFunctional(licensed) ==
  [discovers |-> FALSE,
   stages |-> EnsureCRDs
     \o (IF licensed THEN <<Inline("CleanupStaleNamespaces")>> ELSE <<>>)
     \o <<Inline("DiscoverIngressHost"), InstallVMStackAndGather,
          InstallOverwatchStage(FALSE, FALSE)>>]
OperatorHelm ==
  [discovers |-> FALSE,
   stages |-> <<Inline("InstallArgoCD")>> \o EnsureCRDs
     \o <<Inline("DiscoverIngressHost"), InstallVMStackAndGather,
          InstallOverwatchStage(FALSE, FALSE), Inline("scaleDownGlobalOperator"),
          Inline("removeGlobalOperatorWebhooks"), Inline("KubectlApply"),
          Inline("WaitForCRDsEstablished")>>]

AllSuites ==
  {VMChaos, VLChaos, VMLoad, VLLoad, VMDistributed, OperatorHelm}
    \cup {VMFunctional(l) : l \in BOOLEAN} \cup {VLFunctional(l) : l \in BOOLEAN}

ASSUME SuiteAssumption == Suites \subseteq AllSuites

-----------------------------------------------------------------------------
VARIABLES
  suite,    \* the suite that runs
  stage,    \* the stage process 1 is in
  at,       \* the call each task of the stage is at
  state,    \* "ready", "calling" or "over", for each task
  wg,       \* counter of the WaitGroup
  done,     \* calls that have succeeded
  failed,   \* Ginkgo has recorded a failure
  late,     \* goroutines that panicked and have yet to run GinkgoRecover
  outcome,  \* of SynchronizedBeforeSuite: "running", "ok", "failed", "crashed"
  host,     \* consts.IngressHost is set, in each process
  phase,    \* of each process: "blocked", "specs" or "skipped"
  panicked  \* history: a goroutine panicked other than by failing the test

vars == <<suite, stage, at, state, wg, done, failed, late, outcome, host, phase,
          panicked>>

Tasks == DOMAIN suite.stages[stage].tasks
Calls(i) == suite.stages[stage].tasks[i].calls
AllCalls(s) ==
  UNION {ToSet(task.calls) : task \in UNION {ToSet(k.tasks) : k \in ToSet(s.stages)}}

TypeOK ==
  /\ suite \in Suites
  /\ stage \in 1 .. Len(suite.stages)
  /\ \A i \in Tasks : at[i] \in 1 .. Len(Calls(i)) + 1
  /\ state \in [Tasks -> {"ready", "calling", "over"}]
  /\ wg \in Nat /\ late \in Nat
  /\ done \subseteq AllCalls(suite)
  /\ failed \in BOOLEAN /\ panicked \in BOOLEAN
  /\ outcome \in {"running", "ok", "failed", "crashed"}
  /\ host \in [Proc -> BOOLEAN]
  /\ phase \in [Proc -> {"blocked", "specs", "skipped"}]

(* wg.Add(len(tasks)), and one goroutine for each.                         *)
Fork(s, k) ==
  /\ stage' = k
  /\ at' = [i \in DOMAIN s.stages[k].tasks |-> 1]
  /\ state' = [i \in DOMAIN s.stages[k].tasks |-> "ready"]
  /\ wg' = Len(s.stages[k].tasks)

Init ==
  /\ suite \in Suites
  /\ stage = 1
  /\ at = [i \in DOMAIN suite.stages[1].tasks |-> 1]
  /\ state = [i \in DOMAIN suite.stages[1].tasks |-> "ready"]
  /\ wg = Len(suite.stages[1].tasks)
  /\ done = {} /\ failed = FALSE /\ late = 0 /\ outcome = "running"
  /\ \E preset \in Preset : host = [p \in Proc |-> preset]
  /\ phase = [p \in Proc |-> "blocked"]
  /\ panicked = FALSE

-----------------------------------------------------------------------------
(* One task *)

Begin(i) ==
  /\ outcome # "crashed"
  /\ state[i] = "ready" /\ at[i] <= Len(Calls(i))
  /\ state' = [state EXCEPT ![i] = "calling"]
  /\ UNCHANGED <<suite, stage, at, wg, done, failed, late, outcome, host, phase,
                 panicked>>

MutDoneEveryCall(i) ==
  /\ outcome # "crashed"
  /\ state[i] = "calling"
  /\ done' = done \cup {Calls(i)[at[i]]}
  /\ host' = IF Calls(i)[at[i]] = "DiscoverIngressHost"
               THEN [host EXCEPT ![First] = TRUE] ELSE host
  /\ at' = [at EXCEPT ![i] = @ + 1]
  /\ wg' = wg - 1
  /\ state' = [state EXCEPT ![i] = IF at[i] = Len(Calls(i)) THEN "over" ELSE "ready"]
  /\ UNCHANGED <<suite, stage, failed, late, outcome, phase, panicked>>

(* The call returns; after the last one, the deferred wg.Done.             *)
Succeed(i) ==
  /\ outcome # "crashed"
  /\ state[i] = "calling"
  /\ done' = done \cup {Calls(i)[at[i]]}
  /\ host' = IF Calls(i)[at[i]] = "DiscoverIngressHost"
               THEN [host EXCEPT ![First] = TRUE] ELSE host
  /\ at' = [at EXCEPT ![i] = @ + 1]
  /\ IF at[i] = Len(Calls(i)) THEN state' = [state EXCEPT ![i] = "over"] /\ wg' = wg - 1
                              ELSE state' = [state EXCEPT ![i] = "ready"] /\ UNCHANGED wg
  /\ UNCHANGED <<suite, stage, failed, late, outcome, phase, panicked>>

(* t.Fatalf and require record the failure, then panic: on the main        *)
(* goroutine the node ends; in a goroutine wg.Done runs, and GinkgoRecover *)
(* stops the panic; without it the process dies.                           *)
MutFailKeepsCount(i) ==
  /\ outcome # "crashed"
  /\ state[i] = "calling"
  /\ failed' = TRUE
  /\ state' = [state EXCEPT ![i] = "over"]
  /\ wg' = IF suite.stages[stage].parallel THEN wg ELSE wg - 1
  /\ outcome' = IF ~suite.stages[stage].parallel THEN "failed"
                ELSE IF ~suite.stages[stage].tasks[i].recovers THEN "crashed"
                ELSE outcome
  /\ UNCHANGED <<suite, stage, at, done, late, host, phase, panicked>>

MutFailGoesOn(i) ==
  /\ outcome # "crashed"
  /\ state[i] = "calling"
  /\ failed' = TRUE
  /\ state' = [state EXCEPT ![i] = "over"]
  /\ wg' = wg - 1
  /\ outcome' = IF suite.stages[stage].parallel /\ ~suite.stages[stage].tasks[i].recovers
                  THEN "crashed" ELSE outcome
  /\ UNCHANGED <<suite, stage, at, done, late, host, phase, panicked>>

Fail(i) ==
  /\ outcome # "crashed"
  /\ state[i] = "calling"
  /\ failed' = TRUE
  /\ state' = [state EXCEPT ![i] = "over"]
  /\ wg' = wg - 1
  /\ outcome' = IF ~suite.stages[stage].parallel THEN "failed"
                ELSE IF ~suite.stages[stage].tasks[i].recovers THEN "crashed"
                ELSE outcome
  /\ UNCHANGED <<suite, stage, at, done, late, host, phase, panicked>>

(* Any other panic (a nil pointer, NewForConfigOrDie): the deferred calls  *)
(* run last in, first out, so wg.Done comes before GinkgoRecover records   *)
(* the failure.                                                            *)
Panic(i) ==
  /\ outcome # "crashed"
  /\ state[i] = "calling"
  /\ panicked' = TRUE
  /\ state' = [state EXCEPT ![i] = "over"]
  /\ wg' = wg - 1
  /\ IF ~suite.stages[stage].parallel
       THEN failed' = TRUE /\ outcome' = "failed" /\ UNCHANGED late
     ELSE IF ~suite.stages[stage].tasks[i].recovers
       THEN outcome' = "crashed" /\ UNCHANGED <<failed, late>>
     ELSE late' = late + 1 /\ UNCHANGED <<failed, outcome>>
  /\ UNCHANGED <<suite, stage, at, done, host, phase>>

TaskStep(i) == Begin(i) \/ Succeed(i) \/ Fail(i) \/ Panic(i)

(* The failure counts against whatever node is running by then.            *)
GinkgoRecover ==
  /\ late > 0 /\ outcome # "crashed"
  /\ late' = late - 1 /\ failed' = TRUE
  /\ UNCHANGED <<suite, stage, at, state, wg, done, outcome, host, phase, panicked>>

-----------------------------------------------------------------------------
(* The main goroutine and the other processes *)

(* wg.Wait() returns and the next stage begins, or the node ends.  A panic *)
(* that is not recorded by then is recorded against a later node.          *)
MutWaitIgnored ==
  /\ outcome = "running"
  /\ suite.stages[stage].parallel \/ wg = 0
  /\ IF stage < Len(suite.stages)
       THEN Fork(suite, stage + 1) /\ UNCHANGED outcome
       ELSE /\ outcome' = IF failed THEN "failed" ELSE "ok"
            /\ UNCHANGED <<stage, at, state, wg>>
  /\ UNCHANGED <<suite, done, failed, late, host, phase, panicked>>

Wait ==
  /\ outcome = "running" /\ wg = 0
  /\ IF stage < Len(suite.stages)
       THEN Fork(suite, stage + 1) /\ UNCHANGED outcome
       ELSE /\ outcome' = IF failed THEN "failed" ELSE "ok"
            /\ UNCHANGED <<stage, at, state, wg>>
  /\ UNCHANGED <<suite, done, failed, late, host, phase, panicked>>

(* Ginkgo lets the specs of a process run once process 1 has succeeded and *)
(* skips them otherwise.  A suite whose specs set up an overwatch client   *)
(* discovers the host in every process, or fails the spec.                 *)
SpecsStart(p) ==
  /\ phase[p] = "blocked" /\ outcome # "running"
  /\ phase' = [phase EXCEPT ![p] = IF outcome = "ok" THEN "specs" ELSE "skipped"]
  /\ host' = IF outcome = "ok" /\ suite.discovers THEN [host EXCEPT ![p] = TRUE] ELSE host
  /\ UNCHANGED <<suite, stage, at, state, wg, done, failed, late, outcome, panicked>>

Next ==
  \/ \E i \in Tasks : TaskStep(i)
  \/ GinkgoRecover
  \/ Wait
  \/ \E p \in Proc : SpecsStart(p)

(* Every call has a timeout, the runtime schedules the goroutines and the  *)
(* processes.                                                              *)
Fairness ==
  /\ \A i \in 1 .. 3 : WF_vars(i \in Tasks /\ TaskStep(i))
  /\ WF_vars(GinkgoRecover)
  /\ WF_vars(Wait)
  /\ \A p \in Proc : WF_vars(SpecsStart(p))

Spec == Init /\ [][Next]_vars /\ Fairness

-----------------------------------------------------------------------------
(* Properties *)

(* No spec of any process runs on a bootstrap that is missing a step: a    *)
(* failed goroutine fails the node although later stages went on.  The     *)
(* exception is a panic that GinkgoRecover has not recorded when wg.Wait   *)
(* returns.                                                                *)
SpecsNeedWholeBootstrap ==
  \A p \in Proc : phase[p] = "specs" /\ ~panicked => AllCalls(suite) \subseteq done

(* "install VPA + Gateway API CRDs before the operator starts": the helm   *)
(* release that starts the operator never begins before both are there,    *)
(* in a failing bootstrap neither.                                         *)
OperatorFindsCRDs ==
  \A i \in Tasks :
    state[i] = "calling" /\ Calls(i)[at[i]] = "InstallVMK8StackWithHelm" =>
      {"EnsureVPACRDs", "EnsureGatewayAPICRDs"} \subseteq done

(* Whatever fails or panics, no process waits for ever: no goroutine       *)
(* leaves without wg.Done.                                                 *)
EveryProcessGoesOn == \A p \in Proc : <>(phase[p] # "blocked")

(* ingress.go:40-41: the discovered host is stored for consumption by      *)
(* other test helpers.  It is stored in process 1 only.                    *)
SpecsFindHost == \A p \in Proc : phase[p] = "specs" => host[p]
=============================================================================
