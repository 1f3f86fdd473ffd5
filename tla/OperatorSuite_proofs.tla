------------------------ MODULE OperatorSuite_proofs ------------------------
(***************************************************************************)
(* Proofs about OperatorSuite, for any numbers of replicas, processes,     *)
(* specs and runs.  Three chains of facts are carried along: how far the   *)
(* bootstrap is decides what is left of the shared operator, what Argo CD  *)
(* last compared decides what a synced Application means, and the replicas *)
(* that were read decide whether a restoration can bring the operator back *)
(***************************************************************************)
EXTENDS OperatorSuite, TLAPS

-----------------------------------------------------------------------------
(* The shared operator *)

(* Without a deployment there is nothing of it; behind the steps of the    *)
(* scale-down first its replicas, then its pods and last its webhooks are  *)
(* gone, and they stay away while specs run.                               *)
SetAside ==
  /\ ~deployed => replicas = 0 /\ ~pods /\ ~webhooks
  /\ phase = "bootstrap" /\ pos > 7 => replicas = 0
  /\ phase = "bootstrap" /\ pos > 8 => ~pods
  /\ phase = "bootstrap" /\ pos > 9 => ~webhooks
  /\ phase = "specs" => replicas = 0 /\ ~pods /\ ~webhooks
  /\ at # "idle" => phase = "specs"

(* It was at zero before the scale-down only for a cause, and what was     *)
(* read then, and kept for the restoration, tells.                         *)
DownHasCause ==
  /\ \/ phase = "bootstrap" /\ pos < 8
     \/ phase = "afterSuite" /\ saved = <<>>
     \/ phase = "ended"
     => (deployed /\ replicas = 0 => cause # "none")
  /\ phase = "bootstrap" /\ pos \in {7, 8} => deployed /\ (orig = 0 => cause # "none")
  /\ phase = "bootstrap" /\ pos < 9 => saved = <<>>
  /\ phase = "specs" \/ (phase = "bootstrap" /\ pos > 8) => (saved = <<>> => ~deployed)
  /\ saved # <<>> => deployed
  /\ saved = <<0>> => cause # "none"

-----------------------------------------------------------------------------
(* The operator of a spec *)

(* What Argo CD reports of an Application is true until its operator is    *)
(* changed, and that happens only to one that is not reported as synced.   *)
ReportIsTrue ==
  /\ app.is = "none" => app = NoApp /\ live = NoParams /\ ~rolled
  /\ app.synced => live = app.compared
  /\ app.synced /\ app.healthy => rolled /\ live # NoParams

(* Behind an AfterEach that did its work there is no Application, and a    *)
(* spec keeps its own until it deletes it.                                 *)
CleanApplication ==
  ~uncleaned =>
    /\ at = "idle" => app.is = "none"
    /\ at = "apply" => app.is # "terminating"
    /\ at \in {"sync", "rollout"} \cup InBody => app.is = "present" /\ app.want = program[k]
    /\ at \in {"rollout"} \cup InBody => Current

OperatorInv == TypeOK /\ SetAside /\ DownHasCause /\ ReportIsTrue /\ CleanApplication
-----------------------------------------------------------------------------
(* TypeOK, in the parts that the actions change together.                  *)

(* What may be kept for the restoration.                                   *)
Kept == {<<>>, <<0>>, <<ChartReplicas>>}

SuiteType ==
  /\ run \in 1 .. MaxRuns /\ phase \in {"bootstrap", "specs", "afterSuite", "ended"}
  /\ pos \in 1 .. 11 /\ suiteFailed \in BOOLEAN
  /\ orig \in {0, ChartReplicas} /\ saved \in Kept
  /\ others \in 0 .. Others /\ todo \in 0 .. MaxSpecs

SharedType ==
  /\ deployed \in BOOLEAN /\ replicas \in {0, ChartReplicas}
  /\ pods \in BOOLEAN /\ webhooks \in BOOLEAN
  /\ cause \in {"none", "killed", "scaleDown", "restore"}

SpecType ==
  /\ at \in Busy \cup {"idle"} /\ program \in Programs /\ k \in 1 .. Len(program)
  /\ failing \in BOOLEAN /\ uncleaned \in BOOLEAN

AppType == [is : {"none", "present", "terminating"}, want : Params,
            compared : Params, synced : BOOLEAN, healthy : BOOLEAN]

ObjectType ==
  /\ ns \in {"none", "active", "terminating"} /\ crs \in {"none", "present", "terminating"}
  /\ app \in AppType /\ live \in Params /\ rolled \in BOOLEAN

Types == SuiteType /\ SharedType /\ SpecType /\ ObjectType

(* The steps of the bootstrap, one by one.                                 *)
LEMMA BootstrapAt ==
  /\ Len(Bootstrap) = 10
  /\ Bootstrap[1] = "argocd" /\ Bootstrap[2] = "crds" /\ Bootstrap[3] = "ingress"
  /\ Bootstrap[4] = "helm" /\ Bootstrap[5] = "overwatch" /\ Bootstrap[6] = "get"
  /\ Bootstrap[7] = "scale" /\ Bootstrap[8] = "waitPods" /\ Bootstrap[9] = "webhooks"
  /\ Bootstrap[10] = "serviceMonitor"
BY DEF Bootstrap

(* The parts together are TypeOK.                                          *)
LEMMA TypesAreTypeOK == Types <=> TypeOK
BY BootstrapAt
   DEF Types, SuiteType, SharedType, SpecType, ObjectType, AppType, Kept, TypeOK

(* Where a step of the bootstrap is taken.                                 *)
LEMMA DoingAt ==
  ASSUME SuiteType
  PROVE  /\ \A s \in {"argocd", "crds", "ingress", "overwatch", "serviceMonitor"} :
              Doing(s) => phase = "bootstrap" /\ pos \in {1, 2, 3, 5, 10}
         /\ Doing("helm") => phase = "bootstrap" /\ pos = 4
         /\ Doing("get") => phase = "bootstrap" /\ pos = 6
         /\ Doing("scale") => phase = "bootstrap" /\ pos = 7
         /\ Doing("waitPods") => phase = "bootstrap" /\ pos = 8
         /\ Doing("webhooks") => phase = "bootstrap" /\ pos = 9
<1>1. pos \in 1 .. 11
  BY DEF SuiteType
<1>2. \/ pos = 1 \/ pos = 2 \/ pos = 3 \/ pos = 4 \/ pos = 5 \/ pos = 6
      \/ pos = 7 \/ pos = 8 \/ pos = 9 \/ pos = 10 \/ pos = 11
  BY <1>1
<1>3. ~(11 <= 10)
  OBVIOUS
<1> QED BY <1>2, <1>3, BootstrapAt, Zenon DEF Doing

(* A spec applies one or two sets of parameters.                           *)
LEMMA ProgramSteps ==
  ASSUME NEW p \in Programs
  PROVE  /\ Len(p) \in {1, 2}
         /\ \A j \in 1 .. Len(p) : p[j] \in {"normal", "other"}
<1>1. CASE p = <<"normal">>
  BY <1>1
<1>2. CASE p = <<"normal", "other">>
  <2>1. Len(p) = 2 /\ p[1] = "normal" /\ p[2] = "other"
    BY <1>2
  <2>2. \A j \in 1 .. 2 : j = 1 \/ j = 2
    OBVIOUS
  <2> QED BY <2>1, <2>2
<1> QED BY <1>1, <1>2 DEF Programs
-----------------------------------------------------------------------------
(* The bootstrap.                                                          *)

SharedInv == SuiteType /\ SharedType /\ SetAside /\ DownHasCause
SpecInv   == SpecType /\ ObjectType /\ ReportIsTrue /\ CleanApplication

BootstrapSteps ==
  \/ Prerequisite \/ InstallVMK8StackWithHelm \/ ReadReplicas \/ ScaleToZero
  \/ WaitNoPods \/ RemoveGlobalOperatorWebhooks \/ BootstrapEnds

(* No step of the bootstrap touches a spec or what belongs to it.          *)
LEMMA BootstrapLeavesSpecs == BootstrapSteps => UNCHANGED <<run, spec, objects, operator>>
BY DEF BootstrapSteps, Prerequisite, InstallVMK8StackWithHelm, ReadReplicas, ScaleToZero,
       WaitNoPods, RemoveGlobalOperatorWebhooks, BootstrapEnds, Rest

(* Every step of the bootstrap keeps what is known of the shared operator. *)
LEMMA BootstrapKeeps == SharedInv /\ BootstrapSteps => SharedInv'
<1> SUFFICES ASSUME SharedInv, BootstrapSteps PROVE SharedInv'
  OBVIOUS
<1>0. run' = run /\ at' = at
  BY BootstrapLeavesSpecs DEF spec
<1> USE <1>0 DEF SharedInv, StepOK, Stop, Recorded, shared, Rest
<1>1. CASE Prerequisite
  <2>1. /\ phase = "bootstrap" /\ pos \in {1, 2, 3, 5, 10}
        /\ StepOK \/ Stop \/ Recorded
        /\ UNCHANGED <<orig, saved, shared, Rest>>
    BY <1>1, DoingAt DEF Prerequisite
  <2>2. SuiteType'
    <3>1. pos' \in 1 .. 11
      BY <2>1 DEF SuiteType
    <3> QED BY <2>1, <3>1 DEF SuiteType
  <2>3. SharedType' /\ SetAside'
    BY <2>1 DEF SharedType, SetAside, SuiteType
  <2>4. DownHasCause'
    BY <2>1 DEF DownHasCause, SuiteType
  <2> QED BY <2>2, <2>3, <2>4
<1>2. CASE InstallVMK8StackWithHelm
  <2>1. phase = "bootstrap" /\ pos = 4
    BY <1>2, DoingAt DEF InstallVMK8StackWithHelm
  <2>2. SuiteType'
    <3>1. pos' \in 1 .. 11
      BY <1>2, <2>1 DEF InstallVMK8StackWithHelm
    <3> QED BY <1>2, <2>1, <3>1 DEF InstallVMK8StackWithHelm, SuiteType
  <2>3. SharedType'
    BY <1>2, <2>1 DEF InstallVMK8StackWithHelm, SharedType
  <2>4. SetAside'
    BY <1>2, <2>1 DEF InstallVMK8StackWithHelm, SetAside
  <2>5. DownHasCause'
    BY <1>2, <2>1, BoundAssumption DEF InstallVMK8StackWithHelm, DownHasCause
  <2> QED BY <2>2, <2>3, <2>4, <2>5
<1>3. CASE ReadReplicas
  <2>1. phase = "bootstrap" /\ pos = 6
    BY <1>3, DoingAt DEF ReadReplicas
  <2>2. SuiteType'
    <3>1. pos' \in 1 .. 11
      BY <1>3, <2>1 DEF ReadReplicas
    <3> QED BY <1>3, <2>1, <3>1 DEF ReadReplicas, SuiteType, SharedType
  <2>3. SharedType'
    BY <1>3, <2>1 DEF ReadReplicas, SharedType
  <2>4. SetAside'
    BY <1>3, <2>1 DEF ReadReplicas, SetAside
  <2>5. DownHasCause'
    BY <1>3, <2>1 DEF ReadReplicas, DownHasCause
  <2> QED BY <2>2, <2>3, <2>4, <2>5
<1>4. CASE ScaleToZero
  <2>1. phase = "bootstrap" /\ pos = 7
    BY <1>4, DoingAt DEF ScaleToZero
  <2>2. SuiteType'
    <3>1. pos' \in 1 .. 11
      BY <1>4, <2>1 DEF ScaleToZero
    <3> QED BY <1>4, <2>1, <3>1 DEF ScaleToZero, SuiteType
  <2>3. SharedType'
    BY <1>4, <2>1 DEF ScaleToZero, SharedType
  <2>4. SetAside'
    BY <1>4, <2>1 DEF ScaleToZero, SetAside
  <2>5. DownHasCause'
    BY <1>4, <2>1 DEF ScaleToZero, DownHasCause
  <2> QED BY <2>2, <2>3, <2>4, <2>5
<1>5. CASE WaitNoPods
  <2>1. phase = "bootstrap" /\ pos = 8
    BY <1>5, DoingAt DEF WaitNoPods
  <2>2. SuiteType'
    <3>1. <<orig>> \in Kept
      BY DEF SuiteType, Kept
    <3>2. pos' \in 1 .. 11
      BY <1>5, <2>1 DEF WaitNoPods
    <3> QED BY <1>5, <2>1, <3>1, <3>2 DEF WaitNoPods, SuiteType
  <2>3. SharedType'
    BY <1>5, <2>1 DEF WaitNoPods, SharedType
  <2>4. SetAside'
    BY <1>5, <2>1 DEF WaitNoPods, SetAside
  <2>5. DownHasCause'
    BY <1>5, <2>1 DEF WaitNoPods, DownHasCause
  <2> QED BY <2>2, <2>3, <2>4, <2>5
<1>6. CASE RemoveGlobalOperatorWebhooks
  <2>1. phase = "bootstrap" /\ pos = 9
    BY <1>6, DoingAt DEF RemoveGlobalOperatorWebhooks
  <2>2. /\ \/ StepOK /\ webhooks' = FALSE
           \/ Stop /\ (webhooks' = webhooks \/ webhooks' = FALSE)
        /\ UNCHANGED <<orig, saved, deployed, replicas, pods, cause, Rest>>
    BY <1>6, Zenon DEF RemoveGlobalOperatorWebhooks
  <2>3. SuiteType'
    <3>1. pos' \in 1 .. 11
      BY <2>1, <2>2
    <3> QED BY <2>1, <2>2, <3>1 DEF SuiteType
  <2>4. SharedType'
    BY <2>2 DEF SharedType
  <2>5. SetAside'
    BY <2>1, <2>2 DEF SetAside
  <2>6. DownHasCause'
    BY <2>1, <2>2 DEF DownHasCause
  <2> QED BY <2>3, <2>4, <2>5, <2>6
<1>7. CASE BootstrapEnds
  <2>1. phase = "bootstrap" /\ pos > 10
    BY <1>7, BootstrapAt DEF BootstrapEnds
  <2>2. SuiteType'
    <3>1. others' \in 0 .. Others /\ todo' \in 0 .. MaxSpecs
      BY <1>7, BoundAssumption DEF BootstrapEnds, SuiteType
    <3> QED BY <1>7, <2>1, <3>1 DEF BootstrapEnds, SuiteType
  <2>3. SharedType'
    BY <1>7 DEF BootstrapEnds, SharedType
  <2>4. SetAside'
    BY <1>7, <2>1 DEF BootstrapEnds, SetAside, SuiteType
  <2>5. DownHasCause'
    BY <1>7, <2>1 DEF BootstrapEnds, DownHasCause, SuiteType
  <2> QED BY <2>2, <2>3, <2>4, <2>5
<1> QED BY <1>1, <1>2, <1>3, <1>4, <1>5, <1>6, <1>7 DEF BootstrapSteps
-----------------------------------------------------------------------------
(* The specs.                                                              *)

SpecWork == BeforeEach \/ SpecStep \/ DeletionWaitFails

(* Specs run in their phase and do not touch the shared operator.          *)
LEMMA SpecsKeepShared == SharedInv /\ SpecWork => SharedInv'
<1> SUFFICES ASSUME SharedInv, SpecWork PROVE SharedInv'
  OBVIOUS
<1>1. /\ UNCHANGED <<run, phase, pos, suiteFailed, orig, saved, others, shared>>
      /\ todo' = todo \/ (todo > 0 /\ todo' = todo - 1)
  BY DEF SpecWork, BeforeEach, SpecStep, DeletionWaitFails, ApplyArgoCDApplication,
         WaitCurrent, WaitRollout, Body, ResourceGone, Gather, DeleteNamespace, NamespaceGone,
         DeleteArgoCDApplication, ApplicationGone, suite
<1>2. phase = "specs" \/ at # "idle"
  BY DEF SpecWork, BeforeEach, SpecStep, DeletionWaitFails, ApplyArgoCDApplication,
         WaitCurrent, WaitRollout, Body, ResourceGone, Gather, DeleteNamespace, NamespaceGone,
         DeleteArgoCDApplication, ApplicationGone
<1>3. phase = "specs"
  BY <1>2 DEF SharedInv, SetAside
<1>4. SuiteType'
  <2>1. todo' \in 0 .. MaxSpecs
    BY <1>1, BoundAssumption DEF SharedInv, SuiteType
  <2> QED BY <1>1, <2>1 DEF SharedInv, SuiteType
<1>5. SharedType' /\ SetAside'
  BY <1>1, <1>3 DEF SharedInv, SharedType, SetAside, shared
<1>6. DownHasCause'
  BY <1>1, <1>3 DEF SharedInv, DownHasCause, shared
<1> QED BY <1>4, <1>5, <1>6 DEF SharedInv

(* What the apply makes of the Application.                                *)
LEMMA AppliedIs ==
  ASSUME SpecType, ObjectType
  PROVE  /\ Applied \in AppType
         /\ Applied.is = IF app.is = "none" THEN "present" ELSE app.is
         /\ Applied.want = program[k] /\ Applied.compared = app.compared
         /\ Applied.synced = app.synced /\ Applied.healthy = app.healthy
<1>1. program[k] \in Params
  BY ProgramSteps DEF SpecType, Params
<1>2. app \in [is : {"none", "present", "terminating"}, want : Params,
               compared : Params, synced : BOOLEAN, healthy : BOOLEAN]
  BY DEF ObjectType, AppType
<1> QED BY <1>1, <1>2 DEF Applied, AppType

(* What the delete makes of it.                                            *)
Deleted == [app EXCEPT !.is = IF @ = "none" THEN @ ELSE "terminating"]

(* It is of the right shape, and reports what was reported before.         *)
LEMMA DeletedIs ==
  ASSUME ObjectType
  PROVE  /\ Deleted \in AppType
         /\ app.is = "none" => Deleted = app
         /\ app.is # "none" => Deleted.is = "terminating"
         /\ Deleted.want = app.want /\ Deleted.compared = app.compared
         /\ Deleted.synced = app.synced /\ Deleted.healthy = app.healthy
<1>2. app \in [is : {"none", "present", "terminating"}, want : Params,
               compared : Params, synced : BOOLEAN, healthy : BOOLEAN]
  BY DEF ObjectType, AppType
<1> QED BY <1>2 DEF Deleted, AppType

(* The steps of a spec keep the reports true and, behind a clean start,    *)
(* the Application its own.                                                *)
LEMMA SpecsKeepSpec == SpecInv /\ SpecWork => SpecInv'
<1> SUFFICES ASSUME SpecInv, SpecWork PROVE SpecInv'
  OBVIOUS
<1> USE DEF SpecInv, Go, FailTo, Unclean, Busy, InBody, objects, operator
<1>1. CASE BeforeEach
  <2>1. SpecType'
    <3>1. program' \in Programs /\ k' = 1
      BY <1>1 DEF BeforeEach
    <3>2. Len(program') \in {1, 2}
      BY <3>1, ProgramSteps
    <3>3. k' \in 1 .. Len(program')
      BY <3>1, <3>2
    <3> QED BY <1>1, <3>1, <3>3 DEF BeforeEach, SpecType
  <2>2. ObjectType'
    BY <1>1 DEF BeforeEach, ObjectType
  <2>3. ReportIsTrue'
    BY <1>1 DEF BeforeEach, ReportIsTrue
  <2>4. CleanApplication'
    BY <1>1 DEF BeforeEach, CleanApplication
  <2> QED BY <2>1, <2>2, <2>3, <2>4
<1>2. CASE ApplyArgoCDApplication
  <2>1. SpecType' /\ ObjectType'
    BY <1>2, AppliedIs DEF ApplyArgoCDApplication, SpecType, ObjectType
  <2>2. ReportIsTrue'
    BY <1>2, AppliedIs DEF ApplyArgoCDApplication, ReportIsTrue
  <2>3. CleanApplication'
    BY <1>2, AppliedIs DEF ApplyArgoCDApplication, CleanApplication, ObjectType, AppType
  <2> QED BY <2>1, <2>2, <2>3
<1>3. CASE WaitCurrent
  BY <1>3 DEF WaitCurrent, SpecType, ObjectType, ReportIsTrue, CleanApplication, Current
<1>4. CASE WaitRollout
  <2>1. SpecType'
    <3>1. Len(program) \in {1, 2} /\ k \in 1 .. Len(program)
      BY ProgramSteps DEF SpecType
    <3>2. program' = program /\ (k' = k \/ (k < Len(program) /\ k' = k + 1))
      BY <1>4 DEF WaitRollout
    <3>3. k' \in 1 .. Len(program')
      BY <3>1, <3>2
    <3> QED BY <1>4, <3>2, <3>3 DEF WaitRollout, SpecType
  <2>2. ObjectType' /\ ReportIsTrue'
    BY <1>4 DEF WaitRollout, ObjectType, ReportIsTrue
  <2>3. CleanApplication'
    BY <1>4 DEF WaitRollout, CleanApplication, Current
  <2> QED BY <2>1, <2>2, <2>3
<1>5. CASE Body
  BY <1>5 DEF Body, spec, SpecType, ObjectType, ReportIsTrue, CleanApplication, Current
<1>6. CASE Gather
  BY <1>6 DEF Gather, SpecType, ObjectType, ReportIsTrue, CleanApplication, Current
<1>7. CASE DeleteNamespace
  BY <1>7 DEF DeleteNamespace, SpecType, ObjectType, ReportIsTrue, CleanApplication, Current
<1>8. CASE NamespaceGone
  BY <1>8 DEF NamespaceGone, SpecType, ObjectType, ReportIsTrue, CleanApplication, Current
<1>9. CASE DeleteArgoCDApplication
  <2>1. /\ at = "deleteApp" /\ UNCHANGED <<suite, shared, objects, live, rolled>>
        /\ (Go("appWait") /\ app' = Deleted) \/ (Unclean /\ app' \in {app, Deleted})
    BY <1>9 DEF DeleteArgoCDApplication, Deleted
  <2>2. SpecType' /\ ObjectType'
    BY <2>1, DeletedIs DEF SpecType, ObjectType
  <2>3. ReportIsTrue'
    BY <2>1, DeletedIs DEF ReportIsTrue
  <2>4. CleanApplication'
    BY <2>1 DEF CleanApplication
  <2> QED BY <2>2, <2>3, <2>4
<1>10. CASE ApplicationGone
  BY <1>10 DEF ApplicationGone, SpecType, ObjectType, ReportIsTrue, CleanApplication, Current
<1>11. CASE DeletionWaitFails
  BY <1>11 DEF DeletionWaitFails, SpecType, ObjectType, ReportIsTrue, CleanApplication
<1>12. CASE ResourceGone
  BY <1>12 DEF ResourceGone, SpecType, ObjectType, ReportIsTrue, CleanApplication, Current
<1> QED
  BY <1>1, <1>2, <1>3, <1>4, <1>5, <1>6, <1>7, <1>8, <1>9, <1>10, <1>11, <1>12
     DEF SpecWork, SpecStep
-----------------------------------------------------------------------------
(* The cluster and the end of the suite.                                   *)

Cluster == Refresh \/ AutoSync \/ OperatorRollsOut \/ FinalizeApplication
             \/ FinalizeResource \/ FinalizeNamespace \/ PodsFollow
Ends    == OtherEnds \/ SpecsEnd \/ RestoreGlobalOperator \/ Kill \/ NextRun

(* Of the shared operator the cluster moves only the pods, after their     *)
(* number.                                                                 *)
LEMMA ClusterKeepsShared == SharedInv /\ Cluster => SharedInv'
<1> SUFFICES ASSUME SharedInv, Cluster PROVE SharedInv'
  OBVIOUS
<1>1. /\ UNCHANGED <<suite, deployed, replicas, webhooks, cause, at>>
      /\ pods' = pods \/ pods' = (replicas > 0)
  BY DEF Cluster, Refresh, AutoSync, OperatorRollsOut, FinalizeApplication,
         FinalizeResource, FinalizeNamespace, PodsFollow, shared, spec
<1>2. pods' \in BOOLEAN /\ (replicas = 0 /\ ~pods => ~pods')
  <2>1. (replicas > 0) \in BOOLEAN /\ (replicas = 0 => ~(replicas > 0))
    OBVIOUS
  <2>2. pods \in BOOLEAN
    BY DEF SharedInv, SharedType
  <2>3. CASE pods' = pods
    BY <2>2, <2>3
  <2>4. CASE pods' = (replicas > 0)
    BY <2>1, <2>4
  <2> QED BY <1>1, <2>3, <2>4
<1>3. SuiteType' /\ SharedType'
  BY <1>1, <1>2 DEF SharedInv, SuiteType, SharedType, suite
<1>4. SetAside'
  <2>1. UNCHANGED <<phase, pos, deployed, replicas, webhooks, at>>
    BY <1>1 DEF suite
  <2>2. pos > 8 => pos > 7
    BY DEF SharedInv, SuiteType
  <2> QED BY <1>2, <2>1, <2>2 DEF SharedInv, SetAside
<1>5. DownHasCause'
  BY <1>1 DEF SharedInv, DownHasCause, suite
<1> QED BY <1>3, <1>4, <1>5 DEF SharedInv

(* A refresh makes a report true, a sync changes only what is not reported *)
(* as synced, and a finalized Application takes its operator along.        *)
LEMMA ClusterKeepsSpec == SpecInv /\ Cluster => SpecInv'
<1> SUFFICES ASSUME SpecInv, Cluster PROVE SpecInv'
  OBVIOUS
<1> USE DEF SpecInv, spec, objects, operator
<1>1. CASE Refresh
  <2>1. /\ app.is = "present"
        /\ app' = [app EXCEPT !.compared = app.want, !.synced = (live = app.want),
                              !.healthy = (live # NoParams /\ rolled)]
        /\ UNCHANGED <<spec, objects, live, rolled>>
    BY <1>1 DEF Refresh
  <2>2. app \in [is : {"none", "present", "terminating"}, want : Params,
                 compared : Params, synced : BOOLEAN, healthy : BOOLEAN]
    BY DEF ObjectType, AppType
  <2>3. (live = app.want) \in BOOLEAN /\ (live # NoParams /\ rolled) \in BOOLEAN
    BY Zenon
  <2>4. /\ app'.is = "present" /\ app'.want = app.want /\ app'.compared = app.want
        /\ app'.synced = (live = app.want) /\ app'.healthy = (live # NoParams /\ rolled)
    BY <2>1, <2>2
  <2>5. app' \in AppType
    BY <2>1, <2>2, <2>3 DEF AppType
  <2>6. SpecType' /\ ObjectType'
    BY <2>1, <2>5 DEF SpecType, ObjectType
  <2>7. ReportIsTrue'
    BY <2>1, <2>4 DEF ReportIsTrue
  <2>8. Current => live = app.want /\ live # NoParams /\ rolled
    BY DEF Current, ReportIsTrue
  <2>9. CleanApplication'
    BY <2>1, <2>4, <2>8 DEF CleanApplication, Current
  <2> QED BY <2>6, <2>7, <2>9
<1>2. CASE AutoSync
  <2>1. SpecType' /\ ObjectType'
    BY <1>2 DEF AutoSync, SpecType, ObjectType, AppType
  <2>2. ReportIsTrue' /\ CleanApplication'
    BY <1>2 DEF AutoSync, ReportIsTrue, CleanApplication, Current
  <2> QED BY <2>1, <2>2
<1>3. CASE OperatorRollsOut
  BY <1>3 DEF OperatorRollsOut, SpecType, ObjectType, ReportIsTrue, CleanApplication, Current
<1>4. CASE FinalizeApplication
  <2>1. /\ app.is = "terminating" /\ app' = NoApp /\ live' = NoParams /\ rolled' = FALSE
        /\ UNCHANGED <<spec, objects>>
    BY <1>4 DEF FinalizeApplication
  <2>2. NoApp \in AppType /\ NoApp.is = "none" /\ NoApp.synced = FALSE
    BY DEF NoApp, AppType, Params, NoParams
  <2>3. SpecType' /\ ObjectType'
    BY <2>1, <2>2 DEF SpecType, ObjectType, Params
  <2>4. ReportIsTrue'
    BY <2>1, <2>2 DEF ReportIsTrue
  <2>5. CleanApplication'
    BY <2>1, <2>2 DEF CleanApplication
  <2> QED BY <2>3, <2>4, <2>5
<1>5. CASE FinalizeResource \/ FinalizeNamespace \/ PodsFollow
  <2>1. /\ UNCHANGED <<spec, app, live, rolled>>
        /\ ns' \in {ns, "none"} /\ crs' \in {crs, "none"}
    BY <1>5 DEF FinalizeResource, FinalizeNamespace, PodsFollow
  <2>2. SpecType' /\ ObjectType'
    BY <2>1 DEF SpecType, ObjectType
  <2>3. ReportIsTrue'
    BY <2>1 DEF ReportIsTrue
  <2>4. CleanApplication'
    BY <2>1 DEF CleanApplication, Current
  <2> QED BY <2>2, <2>3, <2>4
<1> QED BY <1>1, <1>2, <1>3, <1>4, <1>5 DEF Cluster
(* The end of a run keeps what is known of the shared operator: a run ends *)
(* with it at zero for a cause, which the next run begins with.            *)
LEMMA EndsKeepShared == SharedInv /\ SpecType /\ Ends => SharedInv'
<1> SUFFICES ASSUME SharedInv, SpecType, Ends PROVE SharedInv'
  OBVIOUS
<1> USE DEF SharedInv
<1>1. CASE OtherEnds
  <2>1. /\ others' \in 0 .. Others /\ phase = "specs"
        /\ UNCHANGED <<run, phase, pos, suiteFailed, orig, saved, todo, shared, at>>
    BY <1>1, BoundAssumption DEF OtherEnds, SuiteType, spec
  <2>2. SuiteType' /\ SharedType'
    BY <2>1 DEF SuiteType, SharedType, shared
  <2>3. SetAside' /\ DownHasCause'
    BY <2>1 DEF SetAside, DownHasCause, shared
  <2> QED BY <2>2, <2>3
<1>2. CASE SpecsEnd
  <2>1. /\ phase = "specs" /\ at = "idle" /\ phase' = "afterSuite"
        /\ UNCHANGED <<run, pos, suiteFailed, orig, saved, others, todo, shared, at>>
    BY <1>2 DEF SpecsEnd, spec
  <2>2. SuiteType' /\ SharedType'
    BY <2>1 DEF SuiteType, SharedType, shared
  <2>3. SetAside' /\ DownHasCause'
    BY <2>1 DEF SetAside, DownHasCause, shared
  <2> QED BY <2>2, <2>3
<1>3. CASE RestoreGlobalOperator
  <2>1. /\ phase = "afterSuite" /\ phase' = "ended"
        /\ UNCHANGED <<run, pos, suiteFailed, orig, saved, others, todo, deployed, pods,
                       webhooks, at>>
    BY <1>3 DEF RestoreGlobalOperator, spec
  <2>2. \/ saved = <<>> /\ replicas' = replicas /\ cause' = cause
        \/ saved = <<0>> /\ replicas' = 0 /\ cause' = cause
        \/ saved = <<ChartReplicas>> /\ replicas' = ChartReplicas /\ cause' = "none"
        \/ saved # <<>> /\ replicas' = replicas /\ cause' = "restore"
    <3>1. saved = <<>> \/ saved = <<0>> \/ saved = <<ChartReplicas>>
      BY DEF SuiteType, Kept
    <3>2. <<0>>[1] = 0 /\ ~(0 > 0) /\ <<ChartReplicas>>[1] = ChartReplicas /\ ChartReplicas > 0
      BY BoundAssumption
    <3> QED BY <1>3, <3>1, <3>2, Zenon DEF RestoreGlobalOperator
  <2>3. SuiteType' /\ SharedType'
    BY <2>1, <2>2 DEF SuiteType, SharedType
  <2>4. saved = <<ChartReplicas>> => saved # <<0>> /\ ChartReplicas # 0
    BY BoundAssumption
  <2>5. SetAside'
    BY <2>1, <2>2, <2>4 DEF SetAside, DownHasCause
  <2>6. DownHasCause'
    BY <2>1, <2>2, <2>4 DEF DownHasCause
  <2> QED BY <2>3, <2>5, <2>6
<1>4. CASE Kill
  <2>1. /\ phase' = "ended" /\ at' = "idle"
        /\ cause' = IF replicas = 0 THEN "killed" ELSE cause
        /\ UNCHANGED <<run, pos, suiteFailed, orig, saved, others, todo, deployed, replicas,
                       pods, webhooks>>
    BY <1>4 DEF Kill
  <2>2. SuiteType' /\ SharedType'
    BY <2>1 DEF SuiteType, SharedType
  <2>3. SetAside' /\ DownHasCause'
    BY <2>1 DEF SetAside, DownHasCause
  <2> QED BY <2>2, <2>3
<1>5. CASE NextRun
  <2>1. /\ phase = "ended" /\ phase' = "bootstrap" /\ pos' = 1 /\ suiteFailed' = FALSE
        /\ orig' = 0 /\ saved' = <<>> /\ others' = 0 /\ todo' = 0
        /\ UNCHANGED <<shared, at>>
    BY <1>5 DEF NextRun, spec
  <2>2. run' \in 1 .. MaxRuns /\ 0 \in 0 .. Others /\ 0 \in 0 .. MaxSpecs /\ 1 \in 1 .. 11
    BY <1>5, BoundAssumption DEF NextRun, SuiteType
  <2>3. <<>> \in Kept
    BY DEF Kept
  <2>4. SuiteType'
    BY <2>1, <2>2, <2>3 DEF SuiteType
  <2>5. SharedType' /\ SetAside'
    BY <2>1 DEF SharedType, SetAside, shared
  <2>6. DownHasCause'
    <3>1. <<>> # <<0>>
      OBVIOUS
    <3> QED BY <2>1, <3>1 DEF DownHasCause, shared
  <2> QED BY <2>4, <2>5, <2>6
<1> QED BY <1>1, <1>2, <1>3, <1>4, <1>5 DEF Ends

(* It leaves the specs as they are, but for a kill, after which nothing is *)
(* clean.                                                                  *)
LEMMA EndsKeepSpec == SpecInv /\ Ends => SpecInv'
<1> SUFFICES ASSUME SpecInv, Ends PROVE SpecInv'
  OBVIOUS
<1>1. \/ UNCHANGED <<spec, objects, operator>>
      \/ at' = "idle" /\ uncleaned' = TRUE /\ UNCHANGED <<program, k, failing, objects, operator>>
  BY DEF Ends, OtherEnds, SpecsEnd, RestoreGlobalOperator, Kill, NextRun
<1>2. SpecType' /\ ObjectType'
  BY <1>1 DEF SpecInv, SpecType, ObjectType, spec, objects, operator
<1>3. ReportIsTrue'
  BY <1>1 DEF SpecInv, ReportIsTrue, operator
<1>4. CleanApplication'
  BY <1>1 DEF SpecInv, CleanApplication, Current, spec, operator
<1> QED BY <1>2, <1>3, <1>4 DEF SpecInv

-----------------------------------------------------------------------------
(* The theorems.                                                           *)

(* The invariant holds before the first run.                               *)
LEMMA OperatorInit == Init => SharedInv /\ SpecInv
<1> SUFFICES ASSUME Init PROVE SharedInv /\ SpecInv
  OBVIOUS
<1>1. SuiteType
  <2>1. <<>> \in Kept
    BY DEF Kept
  <2>2. 1 \in 1 .. MaxRuns /\ 0 \in 0 .. Others /\ 0 \in 0 .. MaxSpecs /\ 1 \in 1 .. 11
    BY BoundAssumption
  <2> QED BY <2>1, <2>2 DEF Init, SuiteType
<1>2. SharedType /\ SetAside
  BY DEF Init, SharedType, SetAside
<1>3. DownHasCause
  <2>1. <<>> # <<0>>
    OBVIOUS
  <2> QED BY <2>1 DEF Init, DownHasCause
<1>4. SpecType
  <2>1. <<"normal">> \in Programs /\ 1 \in 1 .. Len(<<"normal">>)
    BY DEF Programs
  <2> QED BY <2>1, Zenon DEF Init, SpecType
<1>5. ObjectType
  <2>1. NoApp \in AppType
    BY DEF NoApp, AppType, Params, NoParams
  <2> QED BY <2>1 DEF Init, ObjectType, Params
<1>6. ReportIsTrue /\ CleanApplication
  <2>1. NoApp.is = "none" /\ NoApp.synced = FALSE
    BY DEF NoApp
  <2> QED BY <2>1 DEF Init, ReportIsTrue, CleanApplication, InBody
<1> QED BY <1>1, <1>2, <1>3, <1>4, <1>5, <1>6 DEF SharedInv, SpecInv

(* OperatorInv is an invariant of the specification.                       *)
THEOREM OperatorInvariant == Spec => []OperatorInv
<1> DEFINE I == SharedInv /\ SpecInv
<1>1. Init => I
  BY OperatorInit
<1>2. I /\ [Next]_vars => I'
  <2> SUFFICES ASSUME I, [Next]_vars PROVE I'
    OBVIOUS
  <2>1. CASE BootstrapSteps
    <3>1. SpecInv'
      BY <2>1, BootstrapLeavesSpecs
         DEF SpecInv, SpecType, ObjectType, ReportIsTrue, CleanApplication, Current,
             spec, objects, operator
    <3> QED BY <2>1, <3>1, BootstrapKeeps
  <2>2. CASE SpecWork
    BY <2>2, SpecsKeepShared, SpecsKeepSpec
  <2>3. CASE Cluster
    BY <2>3, ClusterKeepsShared, ClusterKeepsSpec
  <2>4. CASE Ends
    BY <2>4, EndsKeepShared, EndsKeepSpec DEF SpecInv
  <2>5. CASE UNCHANGED vars
    BY <2>5 DEF vars, suite, shared, spec, objects, operator, SharedInv, SuiteType,
                SharedType, SetAside, DownHasCause, SpecInv, SpecType, ObjectType,
                ReportIsTrue, CleanApplication, Current
  <2> QED
    BY <2>1, <2>2, <2>3, <2>4, <2>5 DEF Next, BootstrapSteps, SpecWork, Cluster, Ends
<1>3. I => OperatorInv
  BY TypesAreTypeOK DEF OperatorInv, SharedInv, SpecInv, Types
<1> QED BY <1>1, <1>2, <1>3, PTL DEF Spec

(* TypeOK holds of every state of OperatorSuite.                           *)
THEOREM TypeCorrect == Spec => []TypeOK
<1>1. OperatorInv => TypeOK
  BY DEF OperatorInv
<1> QED BY <1>1, OperatorInvariant, PTL

(* BodyHasItsOperatorAlone: behind applyOperator a body meets its own      *)
(* operator and nothing of the shared one, for any number of specs,        *)
(* processes and runs.                                                     *)
THEOREM BodyAlone == Spec => []BodyHasItsOperatorAlone
<1>1. OperatorInv => BodyHasItsOperatorAlone
  BY DEF OperatorInv, SetAside, ReportIsTrue, CleanApplication, Current, InBody,
         BodyHasItsOperatorAlone
<1> QED BY <1>1, OperatorInvariant, PTL

(* LeftDownOnlyByFailure: restoreGlobalOperator brings back what the       *)
(* scale-down took, unless a kill or a failed request left it at zero.     *)
THEOREM LeftDownByFailure == Spec => []LeftDownOnlyByFailure
<1>1. OperatorInv => LeftDownOnlyByFailure
  BY DEF OperatorInv, DownHasCause, LeftDownOnlyByFailure
<1> QED BY <1>1, OperatorInvariant, PTL
=============================================================================
