---------------------------- MODULE OperatorSuite ----------------------------
(***************************************************************************)
(* The operator suite: its first process sets the operator of the shared   *)
(* stack aside (scaleDownGlobalOperator), every spec brings an operator of *)
(* its own through an Argo CD Application, and the end of the suite        *)
(* restores the shared one.  Process 1 is modelled with its specs; the     *)
(* other processes only by whether they still run specs, since their       *)
(* namespaces and Applications are their own.  Argo CD, the deployments    *)
(* and the namespace controller act by themselves, any request can fail    *)
(* with or without its effect, and a run can be killed at any point.       *)
(***************************************************************************)
EXTENDS Naturals, Sequences

CONSTANTS
  ChartReplicas,  \* replicas the chart gives the shared operator
  Others,         \* other processes of the suite
  MaxSpecs,       \* bound: specs process 1 runs
  MaxRuns         \* bound: runs of the suite on one cluster

ASSUME BoundAssumption ==
  ChartReplicas \in Nat \ {0} /\ Others \in Nat /\ MaxSpecs \in Nat /\ MaxRuns \in Nat \ {0}

Bootstrap == <<"argocd", "crds", "ingress", "helm", "overwatch", "get", "scale",
               "waitPods", "webhooks", "serviceMonitor">>

(* What a spec applies: BeforeEach the normal parameters, and some bodies  *)
(* others after that.                                                      *)
Programs == {<<"normal">>, <<"normal", "other">>}
NoParams == "none"
Params   == {"normal", "other", NoParams}
NoApp    == [is |-> "none", want |-> NoParams, compared |-> NoParams,
             synced |-> FALSE, healthy |-> FALSE]

VARIABLES
  run, phase,   \* number of the run; "bootstrap", "specs", "afterSuite", "ended"
  pos,          \* step of the bootstrap
  suiteFailed,  \* SynchronizedBeforeSuite has failed
  orig, saved,  \* replicas read, and <<replicas>> kept for the restoration
  deployed, replicas, pods, webhooks,  \* the shared operator
  cause,        \* history: what left it at zero
  others,       \* other processes that still run specs
  todo,         \* specs process 1 has yet to run
  at,           \* where its spec is
  program, k,   \* parameters its spec applies, and which of them it is at
  failing,      \* its spec has failed
  uncleaned,    \* history: the last AfterEach did not do all its work
  ns, crs,      \* test namespace, and custom resources with finalizers in it
  app,          \* the Argo CD Application
  live, rolled  \* parameters of the spec's operator, and whether it runs

suite    == <<run, phase, pos, suiteFailed, orig, saved, others, todo>>
shared   == <<deployed, replicas, pods, webhooks, cause>>
spec     == <<at, program, k, failing, uncleaned>>
objects  == <<ns, crs>>
operator == <<app, live, rolled>>
vars     == <<suite, shared, spec, objects, operator>>

InBody == {"body", "crWait"}
Busy == InBody \cup
        {"apply", "sync", "rollout", "gather", "deleteNs", "nsWait",
         "deleteApp", "appWait"}

TypeOK ==
  /\ run \in 1 .. MaxRuns /\ phase \in {"bootstrap", "specs", "afterSuite", "ended"}
  /\ pos \in 1 .. Len(Bootstrap) + 1 /\ suiteFailed \in BOOLEAN
  /\ orig \in {0, ChartReplicas} /\ saved \in {<<>>, <<0>>, <<ChartReplicas>>}
  /\ deployed \in BOOLEAN /\ replicas \in {0, ChartReplicas}
  /\ pods \in BOOLEAN /\ webhooks \in BOOLEAN
  /\ cause \in {"none", "killed", "scaleDown", "restore"}
  /\ others \in 0 .. Others /\ todo \in 0 .. MaxSpecs
  /\ at \in Busy \cup {"idle"} /\ program \in Programs /\ k \in 1 .. Len(program)
  /\ failing \in BOOLEAN /\ uncleaned \in BOOLEAN
  /\ ns \in {"none", "active", "terminating"} /\ crs \in {"none", "present", "terminating"}
  /\ app \in [is : {"none", "present", "terminating"}, want : Params,
              compared : Params, synced : BOOLEAN, healthy : BOOLEAN]
  /\ live \in Params /\ rolled \in BOOLEAN

Init ==
  /\ run = 1 /\ phase = "bootstrap" /\ pos = 1 /\ suiteFailed = FALSE
  /\ orig = 0 /\ saved = <<>> /\ others = 0 /\ todo = 0
  /\ deployed = FALSE /\ replicas = 0 /\ pods = FALSE /\ webhooks = FALSE
  /\ cause = "none"
  /\ at = "idle" /\ program = <<"normal">> /\ k = 1 /\ failing = FALSE
  /\ uncleaned = FALSE
  /\ ns = "none" /\ crs = "none" /\ app = NoApp /\ live = NoParams /\ rolled = FALSE

-----------------------------------------------------------------------------
(* SynchronizedBeforeSuite *)

Doing(s) == phase = "bootstrap" /\ pos <= Len(Bootstrap) /\ Bootstrap[pos] = s
StepOK   == pos' = pos + 1 /\ UNCHANGED <<phase, suiteFailed>>
Stop     == phase' = "afterSuite" /\ suiteFailed' = TRUE /\ UNCHANGED pos
(* In the goroutines of a stage a failure is recorded and the bootstrap    *)
(* goes on.                                                                *)
Recorded == pos' = pos + 1 /\ suiteFailed' = TRUE /\ UNCHANGED phase
Rest     == <<run, others, todo, spec, objects, operator>>

Prerequisite ==
  /\ \/ \E s \in {"argocd", "crds", "ingress", "serviceMonitor"} :
          Doing(s) /\ (StepOK \/ Stop)
     \/ Doing("overwatch") /\ (StepOK \/ Recorded)
  /\ UNCHANGED <<orig, saved, shared, Rest>>

(* helm upgrade --install: the chart's replicas and webhooks replace what  *)
(* is in the cluster.                                                      *)
InstallVMK8StackWithHelm ==
  /\ Doing("helm")
  /\ \/ /\ StepOK \/ Recorded
        /\ deployed' = TRUE /\ replicas' = ChartReplicas /\ webhooks' = TRUE
        /\ cause' = "none"
     \/ Recorded /\ UNCHANGED <<deployed, replicas, webhooks, cause>>
  /\ UNCHANGED <<orig, saved, pods, Rest>>

(* scaleDownGlobalOperator keeps what it found only when it returns; it    *)
(* returns at once, with nothing to keep, when it finds no deployment.     *)
ReadReplicas ==
  /\ Doing("get")
  /\ \/ deployed /\ StepOK /\ orig' = replicas
     \/ ~deployed /\ pos' = pos + 3 /\ UNCHANGED <<phase, suiteFailed, orig>>
     \/ Stop /\ UNCHANGED orig
  /\ UNCHANGED <<saved, shared, Rest>>

ScaleToZero ==
  /\ Doing("scale")
  /\ \/ StepOK /\ replicas' = 0 /\ UNCHANGED cause
     \/ Stop /\ replicas' = 0 /\ cause' = "scaleDown"
     \/ Stop /\ UNCHANGED <<replicas, cause>>
  /\ UNCHANGED <<orig, saved, deployed, pods, webhooks, Rest>>

WaitNoPods ==
  /\ Doing("waitPods")
  /\ \/ ~pods /\ StepOK /\ saved' = <<orig>> /\ UNCHANGED cause
     \/ Stop /\ cause' = "scaleDown" /\ UNCHANGED saved
  /\ UNCHANGED <<orig, deployed, replicas, pods, webhooks, Rest>>

RemoveGlobalOperatorWebhooks ==
  /\ Doing("webhooks")
  /\ \/ StepOK /\ webhooks' = FALSE
     \/ Stop /\ webhooks' \in {webhooks, FALSE}
  /\ UNCHANGED <<orig, saved, deployed, replicas, pods, cause, Rest>>

BootstrapEnds ==
  /\ phase = "bootstrap" /\ pos > Len(Bootstrap)
  /\ IF suiteFailed THEN phase' = "afterSuite" /\ UNCHANGED <<others, todo>>
                    ELSE phase' = "specs" /\ others' = Others /\ todo' = MaxSpecs
  /\ UNCHANGED <<run, pos, suiteFailed, orig, saved, shared, spec, objects, operator>>

-----------------------------------------------------------------------------
(* A spec *)

Go(place)  == at' = place /\ UNCHANGED <<program, k, failing, uncleaned>>
FailTo(place) == at' = place /\ failing' = TRUE /\ UNCHANGED <<program, k, uncleaned>>

(* BeforeEach: kubectl create namespace, under a name that is fixed for    *)
(* the process.                                                            *)
BeforeEach ==
  /\ phase = "specs" /\ at = "idle" /\ todo > 0
  /\ todo' = todo - 1 /\ program' \in Programs /\ k' = 1 /\ UNCHANGED uncleaned
  /\ \/ ns = "none" /\ ns' = "active" /\ at' = "apply" /\ failing' = FALSE
     \/ at' = "gather" /\ failing' = TRUE
        /\ ns' \in {ns, IF ns = "none" THEN "active" ELSE ns}
  /\ UNCHANGED <<run, phase, pos, suiteFailed, orig, saved, others, shared, crs, operator>>

(* KubectlApplyFromStringWithRetry of the Application: creates it, or      *)
(* changes the parameters of the one that is there.                        *)
Applied == [app EXCEPT !.is = IF @ = "none" THEN "present" ELSE @, !.want = program[k]]

ApplyArgoCDApplication ==
  /\ at = "apply"
  /\ \/ Go("sync") /\ app' = Applied
     \/ FailTo("gather") /\ app' \in {app, Applied}
  /\ UNCHANGED <<suite, shared, objects, live, rolled>>

(* argoCDApplicationState.current: synced, healthy, and compared with the  *)
(* parameters that are wanted now.                                         *)
MutCurrent == app.synced /\ app.healthy
Current == app.synced /\ app.healthy /\ app.compared = app.want

WaitCurrent ==
  /\ at = "sync"
  /\ (app.is # "none" /\ Current /\ Go("rollout")) \/ FailTo("gather")
  /\ UNCHANGED <<suite, shared, objects, operator>>

(* applyOperator after the sync: a deployment is there and rolled out.     *)
MutOneApplyMore ==
  /\ at = "rollout"
  /\ \/ /\ live # NoParams /\ rolled
        /\ at' = "apply" /\ k' = k + 1 /\ UNCHANGED <<program, failing, uncleaned>>
     \/ FailTo("gather")
  /\ UNCHANGED <<suite, shared, objects, operator>>

WaitRollout ==
  /\ at = "rollout"
  /\ \/ /\ live # NoParams /\ rolled
        /\ IF k < Len(program)
             THEN at' = "apply" /\ k' = k + 1 /\ UNCHANGED <<program, failing, uncleaned>>
             ELSE Go("body")
     \/ FailTo("gather")
  /\ UNCHANGED <<suite, shared, objects, operator>>

(* The body applies custom resources; where it deletes one (kubectl        *)
(* delete, which waits without a timeout), in its last lines or in a       *)
(* defer, only checks follow.                                              *)
Body ==
  /\ at = "body"
  /\ \/ ns = "active" /\ crs = "none" /\ crs' = "present" /\ UNCHANGED spec
     \/ crs = "present" /\ crs' = "terminating" /\ (Go("crWait") \/ FailTo("crWait"))
     \/ (Go("gather") \/ FailTo("gather")) /\ UNCHANGED crs
  /\ UNCHANGED <<suite, shared, ns, operator>>

ResourceGone ==
  /\ at = "crWait" /\ crs = "none"
  /\ Go("gather") \/ FailTo("gather")
  /\ UNCHANGED <<suite, shared, objects, operator>>

(* AfterEach that stops half-way: the rest is left to later specs.         *)
Unclean == at' = "idle" /\ uncleaned' = TRUE /\ UNCHANGED <<program, k, failing>>

Gather ==
  /\ at = "gather"
  /\ Go("deleteNs") \/ (failing /\ Unclean)
  /\ UNCHANGED <<suite, shared, objects, operator>>

(* kubectl delete namespace --wait, without a timeout and without          *)
(* --ignore-not-found; its error skips the deletion of the Application.    *)
MutAppFirst ==
  /\ at = "deleteNs"
  /\ app' = [app EXCEPT !.is = IF @ = "none" THEN @ ELSE "terminating"]
  /\ ns' = IF ns = "none" THEN ns ELSE "terminating"
  /\ Go("nsWait")
  /\ UNCHANGED <<suite, shared, crs, live, rolled>>

DeleteNamespace ==
  /\ at = "deleteNs"
  /\ \/ ns # "none" /\ ns' = "terminating" /\ Go("nsWait")
     \/ Unclean /\ ns' \in {ns, IF ns = "none" THEN ns ELSE "terminating"}
  /\ UNCHANGED <<suite, shared, crs, operator>>

NamespaceGone ==
  /\ at = "nsWait" /\ ns = "none" /\ Go("deleteApp")
  /\ UNCHANGED <<suite, shared, objects, operator>>

DeleteArgoCDApplication ==
  /\ at = "deleteApp"
  /\ LET deleted == [app EXCEPT !.is = IF @ = "none" THEN @ ELSE "terminating"]
     IN (Go("appWait") /\ app' = deleted) \/ (Unclean /\ app' \in {app, deleted})
  /\ UNCHANGED <<suite, shared, objects, live, rolled>>

ApplicationGone ==
  /\ at = "appWait" /\ app.is = "none"
  /\ at' = "idle" /\ uncleaned' = FALSE /\ UNCHANGED <<program, k, failing>>
  /\ UNCHANGED <<suite, shared, objects, operator>>

(* kubectl loses the API server, or gives up, while it waits.  In a defer  *)
(* of the body its error is ignored.                                       *)
DeletionWaitFails ==
  /\ \/ at \in {"nsWait", "appWait"} /\ Unclean
     \/ at = "crWait" /\ (Go("gather") \/ FailTo("gather"))
  /\ UNCHANGED <<suite, shared, objects, operator>>

SpecStep ==
  \/ ApplyArgoCDApplication \/ WaitCurrent \/ WaitRollout \/ Body
  \/ ResourceGone \/ Gather
  \/ DeleteNamespace \/ NamespaceGone \/ DeleteArgoCDApplication \/ ApplicationGone

-----------------------------------------------------------------------------
(* The cluster *)

(* One refresh of Argo CD's controller compares the wanted state with the  *)
(* live one and reports sync and health together.                          *)
Refresh ==
  /\ app.is = "present"
  /\ app' = [app EXCEPT !.compared = app.want, !.synced = (live = app.want),
                        !.healthy = (live # NoParams /\ rolled)]
  /\ UNCHANGED <<suite, shared, spec, objects, live, rolled>>

AutoSync ==
  /\ app.is = "present" /\ app.compared # NoParams /\ ~app.synced /\ live # app.want
  /\ live' = app.want /\ rolled' = FALSE
  /\ UNCHANGED <<suite, shared, spec, objects, app>>

OperatorRollsOut ==
  /\ live # NoParams /\ ~rolled /\ rolled' = TRUE
  /\ UNCHANGED <<suite, shared, spec, objects, app, live>>

(* The finalizer of the Application takes the operator with it.            *)
FinalizeApplication ==
  /\ app.is = "terminating"
  /\ app' = NoApp /\ live' = NoParams /\ rolled' = FALSE
  /\ UNCHANGED <<suite, shared, spec, objects>>

(* Custom resources go when an operator removes their finalizers.          *)
OperatorRuns == (live # NoParams /\ rolled) \/ pods

FinalizeResource ==
  /\ crs = "terminating" /\ OperatorRuns /\ crs' = "none"
  /\ UNCHANGED <<suite, shared, spec, ns, operator>>

FinalizeNamespace ==
  /\ ns = "terminating" /\ (crs # "none" => OperatorRuns)
  /\ ns' = "none" /\ crs' = "none"
  /\ UNCHANGED <<suite, shared, spec, operator>>

PodsFollow ==
  /\ pods # (replicas > 0) /\ pods' = (replicas > 0)
  /\ UNCHANGED <<suite, deployed, replicas, webhooks, cause, spec, objects, operator>>

-----------------------------------------------------------------------------
(* The end of the suite *)

OtherEnds ==
  /\ phase = "specs" /\ others > 0 /\ others' = others - 1
  /\ UNCHANGED <<run, phase, pos, suiteFailed, orig, saved, todo, shared, spec,
                 objects, operator>>

SpecsEnd ==
  /\ phase = "specs" /\ at = "idle" /\ todo = 0 /\ others = 0
  /\ phase' = "afterSuite"
  /\ UNCHANGED <<run, pos, suiteFailed, orig, saved, others, todo, shared, spec,
                 objects, operator>>

(* SynchronizedAfterSuite, also after a failed bootstrap.                  *)
MutRestoreAfterSetup ==
  /\ phase = "afterSuite" /\ phase' = "ended"
  /\ IF saved = <<>> \/ pos <= Len(Bootstrap) THEN UNCHANGED <<replicas, cause>>
     ELSE /\ replicas' = saved[1]
          /\ cause' = IF saved[1] > 0 THEN "none" ELSE cause
  /\ UNCHANGED <<run, pos, suiteFailed, orig, saved, others, todo, deployed, pods,
                 webhooks, spec, objects, operator>>

RestoreGlobalOperator ==
  /\ phase = "afterSuite" /\ phase' = "ended"
  /\ IF saved = <<>> THEN UNCHANGED <<replicas, cause>>
     ELSE \/ /\ replicas' = saved[1]
             /\ cause' = IF saved[1] > 0 THEN "none" ELSE cause
          \/ cause' = "restore" /\ UNCHANGED replicas
  /\ UNCHANGED <<run, pos, suiteFailed, orig, saved, others, todo, deployed, pods,
                 webhooks, spec, objects, operator>>

Kill ==
  /\ phase # "ended" /\ phase' = "ended" /\ at' = "idle" /\ uncleaned' = TRUE
  /\ cause' = IF replicas = 0 THEN "killed" ELSE cause
  /\ UNCHANGED <<run, pos, suiteFailed, orig, saved, others, todo, deployed, replicas,
                 pods, webhooks, program, k, failing, objects, operator>>

NextRun ==
  /\ phase = "ended" /\ run < MaxRuns
  /\ run' = run + 1 /\ phase' = "bootstrap" /\ pos' = 1 /\ suiteFailed' = FALSE
  /\ orig' = 0 /\ saved' = <<>> /\ others' = 0 /\ todo' = 0
  /\ UNCHANGED <<shared, spec, objects, operator>>

Next ==
  \/ Prerequisite \/ InstallVMK8StackWithHelm \/ ReadReplicas \/ ScaleToZero
  \/ WaitNoPods \/ RemoveGlobalOperatorWebhooks \/ BootstrapEnds
  \/ BeforeEach \/ SpecStep \/ DeletionWaitFails
  \/ Refresh \/ AutoSync \/ OperatorRollsOut \/ FinalizeApplication
  \/ FinalizeResource \/ FinalizeNamespace \/ PodsFollow
  \/ OtherEnds \/ SpecsEnd \/ RestoreGlobalOperator \/ Kill \/ NextRun

(* A spec goes on, by a timeout if by nothing else, except where it waits  *)
(* for a deletion: that ends by the deletion, which comes once the         *)
(* finalizers are removed.  Nothing is assumed of sync and rollout.        *)
Fairness ==
  /\ WF_vars(SpecStep) /\ WF_vars(FinalizeApplication)
  /\ WF_vars(FinalizeResource) /\ WF_vars(FinalizeNamespace)

Spec == Init /\ [][Next]_vars /\ Fairness

-----------------------------------------------------------------------------
(* Properties *)

(* While a body runs, the operator that reconciles its resources is the    *)
(* one with the parameters it has just applied, rolled out, and neither    *)
(* pods nor admission webhooks of the shared operator are there; and the   *)
(* shared operator stays away while another process runs specs.  It is not *)
(* promised after an AfterEach that stopped half-way: an Application that  *)
(* is being deleted still shows synced and healthy.                        *)
BodyHasItsOperatorAlone ==
  /\ at \in InBody \/ (phase = "specs" /\ others > 0) => ~pods /\ ~webhooks /\ replicas = 0
  /\ at \in InBody /\ ~uncleaned => live = program[k] /\ rolled

(* A run that has ended leaves the shared operator at zero only when it    *)
(* was killed or when one of the requests that scale it failed: neither a  *)
(* failing step after the scale-down nor failing specs keep it down.       *)
LeftDownOnlyByFailure ==
  phase = "ended" /\ deployed /\ replicas = 0 => cause # "none"

(* A spec that begins in a clean cluster ends, though deleting its         *)
(* resources and its namespace has no timeout: the operator that must      *)
(* remove the finalizers is deleted after both, and custom resources are   *)
(* made only when it runs.                                                 *)
EverySpecEnds ==
  (at \in Busy /\ ~uncleaned) ~> (at = "idle" \/ phase = "ended")
=============================================================================
