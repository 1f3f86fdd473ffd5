------------------------ MODULE SuiteBootstrap_proofs ------------------------
(***************************************************************************)
(* Proofs about SuiteBootstrap, for every set of suites and any number of  *)
(* Ginkgo processes: types, that the operator's helm release begins only   *)
(* with the CRDs there, and that no spec runs on a bootstrap that misses a *)
(* call.                                                                   *)
(***************************************************************************)
EXTENDS SuiteBootstrap, FiniteSetTheorems, TLAPS

-----------------------------------------------------------------------------
(* The suites *)

(* The calls a bootstrap is made of.                                       *)
Name ==
  {"EnsureVPACRDs", "EnsureGatewayAPICRDs", "DiscoverIngressHost", "InstallChaosMesh",
   "InstallVMGather", "InstallVMK8StackWithHelm", "InstallVictoriaLogs",
   "InstallOverwatch", "DeleteVMCluster", "AddCustomAlertRules",
   "CleanupStaleNamespaces", "InstallStrimziOperator", "InstallArgoCD",
   "scaleDownGlobalOperator", "removeGlobalOperatorWebhooks", "KubectlApply",
   "WaitForCRDsEstablished"}

(* What a task and a stage are: no task and no stage is empty.             *)
CallList  == {q \in Seq(Name) : Len(q) \in 1 .. 2}
TaskRec   == [calls : CallList, recovers : BOOLEAN]
TaskList  == {q \in Seq(TaskRec) : Len(q) \in 1 .. 3}
StageRec  == [parallel : BOOLEAN, tasks : TaskList]

(* The CRDs are installed by stages of their own, before which there is at *)
(* most the one that installs Argo CD.                                     *)
CRDsFirst(st) ==
  \E d \in 0 .. 1 :
    /\ d + 2 <= Len(st)
    /\ st[d + 1] = Inline("EnsureVPACRDs") /\ st[d + 2] = Inline("EnsureGatewayAPICRDs")
    /\ d = 1 => st[1] = Inline("InstallArgoCD")

SuiteShape(st) == st \in Seq(StageRec) /\ CRDsFirst(st)

(* A stage of one call on the main goroutine.                              *)
LEMMA InlineStage ==
  ASSUME NEW x \in Name
  PROVE  /\ Inline(x) \in StageRec /\ ~Inline(x).parallel
         /\ Len(Inline(x).tasks) = 1 /\ Inline(x).tasks[1] \in TaskRec
         /\ Len(Inline(x).tasks[1].calls) = 1
         /\ Inline(x).tasks[1].calls[1] = x
<1> DEFINE c == <<x>>
           t == [calls |-> c, recovers |-> TRUE]
           q == <<t>>
<1>1. c \in Seq(Name) /\ Len(c) = 1 /\ c[1] = x
  OBVIOUS
<1>2. c \in CallList
  BY <1>1 DEF CallList
<1> HIDE DEF c
<1>3. t \in TaskRec /\ t.calls = c
  BY <1>2 DEF TaskRec
<1> HIDE DEF t
<1>4. q \in Seq(TaskRec) /\ Len(q) = 1 /\ q[1] = t
  BY <1>3
<1>5. q \in TaskList
  BY <1>4 DEF TaskList
<1> HIDE DEF q
<1>6. Inline(x) = [parallel |-> FALSE, tasks |-> q]
  BY DEF Inline, Task, q, t, c
<1> QED
  BY <1>1, <1>3, <1>4, <1>5, <1>6 DEF StageRec

(* A goroutine of one call or of two.                                      *)
LEMMA TaskShape ==
  ASSUME NEW x \in Name, NEW y \in Name, NEW b \in BOOLEAN
  PROVE  /\ Task(<<x>>) \in TaskRec /\ Task(<<x, y>>) \in TaskRec
         /\ [calls |-> <<x>>, recovers |-> b] \in TaskRec
<1>1. <<x>> \in Seq(Name) /\ Len(<<x>>) = 1 /\ <<x, y>> \in Seq(Name) /\ Len(<<x, y>>) = 2
  OBVIOUS
<1>2. <<x>> \in CallList /\ <<x, y>> \in CallList
  BY <1>1 DEF CallList
<1> QED
  BY <1>2 DEF TaskRec, Task

(* A group of one to three goroutines.                                     *)
LEMMA ParallelStage ==
  ASSUME NEW t \in TaskRec, NEW u \in TaskRec
  PROVE  /\ Parallel(<<t>>) \in StageRec /\ Parallel(<<t, u>>) \in StageRec
<1>1. <<t>> \in Seq(TaskRec) /\ Len(<<t>>) = 1 /\ <<t, u>> \in Seq(TaskRec) /\ Len(<<t, u>>) = 2
  OBVIOUS
<1>2. <<t>> \in TaskList /\ <<t, u>> \in TaskList
  BY <1>1 DEF TaskList
<1> QED
  BY <1>2 DEF StageRec, Parallel

(* The stage that installs the overwatch and changes the stack beside it.  *)
LEMMA OverwatchStage ==
  ASSUME NEW b \in BOOLEAN, NEW c \in BOOLEAN
  PROVE  InstallOverwatchStage(b, c) \in StageRec
<1> DEFINE o == Task(<<"InstallOverwatch">>)
           d == Task(<<"DeleteVMCluster">>)
           a == Task(<<"AddCustomAlertRules">>)
<1>1. o \in TaskRec /\ d \in TaskRec /\ a \in TaskRec
  <2>1. "InstallOverwatch" \in Name /\ "DeleteVMCluster" \in Name /\ "AddCustomAlertRules" \in Name
    BY DEF Name
  <2> QED
    BY <2>1, TaskShape
<1> HIDE DEF o, d, a
<1> DEFINE x == <<o>>
           y == IF b THEN <<d>> ELSE <<>>
           z == IF c THEN <<a>> ELSE <<>>
<1>2. x \in Seq(TaskRec) /\ 1 <= Len(x) /\ Len(x) <= 1
  BY <1>1
<1>3. y \in Seq(TaskRec) /\ 0 <= Len(y) /\ Len(y) <= 1
  <2>1. CASE b
    BY <1>1, <2>1
  <2>2. CASE ~b
    BY <2>2
  <2> QED
    BY <2>1, <2>2
<1>4. z \in Seq(TaskRec) /\ 0 <= Len(z) /\ Len(z) <= 1
  <2>1. CASE c
    BY <1>1, <2>1
  <2>2. CASE ~c
    BY <2>2
  <2> QED
    BY <2>1, <2>2
<1> HIDE DEF x, y, z
<1>5. x \o y \in Seq(TaskRec) /\ 1 <= Len(x \o y) /\ Len(x \o y) <= 2
  BY <1>2, <1>3
<1> DEFINE q == (x \o y) \o z
           w == x \o y
<1> HIDE DEF w
<1>6. w \o z \in Seq(TaskRec) /\ 1 <= Len(w \o z) /\ Len(w \o z) <= 3
  BY <1>4, <1>5 DEF w
<1>7. q \in TaskList
  BY <1>6 DEF w, TaskList
<1>8. InstallOverwatchStage(b, c) = [parallel |-> TRUE, tasks |-> q]
  BY DEF InstallOverwatchStage, Parallel, x, y, z, o, d, a
<1> HIDE DEF q
<1> QED
  BY <1>7, <1>8 DEF StageRec

(* Stages after the first ones.                                            *)
LEMMA ShapeExtends ==
  ASSUME NEW a, SuiteShape(a), NEW b \in Seq(StageRec)
  PROVE  SuiteShape(a \o b)
<1>1. a \in Seq(StageRec) /\ a \o b \in Seq(StageRec)
  BY DEF SuiteShape
<1>2. Len(a \o b) = Len(a) + Len(b) /\ Len(a) \in Nat /\ Len(b) \in Nat
  BY <1>1
<1>3. \A i \in 1 .. Len(a) : (a \o b)[i] = a[i]
  BY <1>1
<1>4. PICK d \in 0 .. 1 :
    /\ d + 2 <= Len(a)
    /\ a[d + 1] = Inline("EnsureVPACRDs") /\ a[d + 2] = Inline("EnsureGatewayAPICRDs")
    /\ d = 1 => a[1] = Inline("InstallArgoCD")
  BY DEF SuiteShape, CRDsFirst
<1>5. d + 2 <= Len(a \o b) /\ 1 \in 1 .. Len(a) /\ d + 1 \in 1 .. Len(a) /\ d + 2 \in 1 .. Len(a)
  BY <1>2, <1>4
<1>6. CRDsFirst(a \o b)
  BY <1>3, <1>4, <1>5 DEF CRDsFirst
<1> QED
  BY <1>1, <1>6 DEF SuiteShape

(* The stages that several suites share, and those of one.                 *)
LEMMA StageShape ==
  /\ HostAndChaosMesh \in StageRec /\ InstallVMStackAndGather \in StageRec
  /\ \A x \in Name : Inline(x) \in StageRec
  /\ Parallel(<<Task(<<"InstallOverwatch">>), Task(<<"InstallVMGather">>)>>) \in StageRec
  /\ Parallel(<<Task(<<"DiscoverIngressHost">>),
                [calls |-> <<"InstallChaosMesh">>, recovers |-> FALSE]>>) \in StageRec
  /\ Parallel(<<Task(<<"DiscoverIngressHost">>), Task(<<"InstallStrimziOperator">>)>>) \in StageRec
<1>1. /\ "DiscoverIngressHost" \in Name /\ "InstallChaosMesh" \in Name
      /\ "InstallVMGather" \in Name /\ "InstallVMK8StackWithHelm" \in Name
      /\ "InstallVictoriaLogs" \in Name /\ "InstallOverwatch" \in Name
      /\ "InstallStrimziOperator" \in Name /\ FALSE \in BOOLEAN
  BY DEF Name
<1>2. /\ Task(<<"DiscoverIngressHost">>) \in TaskRec /\ Task(<<"InstallChaosMesh">>) \in TaskRec
      /\ Task(<<"InstallVMGather">>) \in TaskRec /\ Task(<<"InstallOverwatch">>) \in TaskRec
      /\ Task(<<"InstallStrimziOperator">>) \in TaskRec
  BY <1>1, TaskShape, Zenon
<1>3. Task(<<"InstallVMK8StackWithHelm", "InstallVictoriaLogs">>) \in TaskRec
  BY <1>1, TaskShape, Zenon
<1>4. [calls |-> <<"InstallChaosMesh">>, recovers |-> FALSE] \in TaskRec
  BY <1>1, TaskShape, Zenon
<1>5. HostAndChaosMesh \in StageRec /\ InstallVMStackAndGather \in StageRec
  BY <1>2, <1>3, ParallelStage, Zenon DEF HostAndChaosMesh, InstallVMStackAndGather
<1>6. \A x \in Name : Inline(x) \in StageRec
  BY InlineStage, Zenon
<1>7. Parallel(<<Task(<<"InstallOverwatch">>), Task(<<"InstallVMGather">>)>>) \in StageRec
  BY <1>2, ParallelStage, Zenon
<1>8. Parallel(<<Task(<<"DiscoverIngressHost">>),
                 [calls |-> <<"InstallChaosMesh">>, recovers |-> FALSE]>>) \in StageRec
  BY <1>2, <1>4, ParallelStage, Zenon
<1>9. Parallel(<<Task(<<"DiscoverIngressHost">>), Task(<<"InstallStrimziOperator">>)>>) \in StageRec
  BY <1>2, ParallelStage, Zenon
<1> QED
  BY <1>5, <1>6, <1>7, <1>8, <1>9, Zenon

(* The stages every suite begins with.                                     *)
LEMMA FrontShape ==
  SuiteShape(EnsureCRDs) /\ SuiteShape(<<Inline("InstallArgoCD")>> \o EnsureCRDs)
<1> DEFINE a == Inline("EnsureVPACRDs")
           b == Inline("EnsureGatewayAPICRDs")
           c == Inline("InstallArgoCD")
<1>1. a \in StageRec /\ b \in StageRec /\ c \in StageRec
  BY StageShape DEF Name
<1>2. EnsureCRDs = <<a, b>>
  BY DEF EnsureCRDs
<1> HIDE DEF a, b, c
<1> DEFINE x == <<a, b>>
           y == <<c>>
<1>3. x \in Seq(StageRec) /\ 2 <= Len(x) /\ Len(x) <= 2 /\ x[1] = a /\ x[2] = b
  BY <1>1
<1>4. y \in Seq(StageRec) /\ 1 <= Len(y) /\ Len(y) <= 1 /\ y[1] = c
  BY <1>1
<1>5. CRDsFirst(x)
  <2>1. 0 \in 0 .. 1 /\ 0 + 2 <= Len(x) /\ 0 + 1 = 1 /\ 0 + 2 = 2 /\ 0 # 1
    BY <1>3
  <2> HIDE DEF x
  <2> QED
    BY <1>3, <2>1 DEF CRDsFirst, a, b
<1> HIDE DEF x, y
<1> DEFINE z == y \o x
<1>6. z \in Seq(StageRec) /\ 3 <= Len(z) /\ z[1] = c /\ z[2] = a /\ z[3] = b
  BY <1>3, <1>4
<1> HIDE DEF z
<1>7. CRDsFirst(z)
  <2>1. 1 \in 0 .. 1 /\ 1 + 2 <= Len(z) /\ 1 + 1 = 2 /\ 1 + 2 = 3
    BY <1>6
  <2> QED
    BY <1>6, <2>1 DEF CRDsFirst, a, b, c
<1> QED
  BY <1>2, <1>3, <1>5, <1>6, <1>7 DEF SuiteShape, x, y, z, c

(* Lists of two to four stages.                                            *)
LEMMA StageLists ==
  ASSUME NEW a \in StageRec, NEW b \in StageRec, NEW c \in StageRec, NEW d \in StageRec
  PROVE  /\ <<a>> \in Seq(StageRec) /\ <<a, b>> \in Seq(StageRec)
         /\ <<a, b, c>> \in Seq(StageRec) /\ <<a, b, c, d>> \in Seq(StageRec)
         /\ <<>> \in Seq(StageRec)
OBVIOUS

(* Every suite has stages of this shape.                                   *)
LEMMA SuitesShape ==
  ASSUME NEW s \in Suites
  PROVE  SuiteShape(s.stages)
<1> DEFINE clean == Inline("CleanupStaleNamespaces")
           host1 == Inline("DiscoverIngressHost")
           O(b, c) == InstallOverwatchStage(b, c)
<1>1. /\ clean \in StageRec /\ host1 \in StageRec
      /\ \A x \in Name : Inline(x) \in StageRec
      /\ HostAndChaosMesh \in StageRec /\ InstallVMStackAndGather \in StageRec
  BY StageShape DEF Name
<1>2. /\ O(TRUE, TRUE) \in StageRec /\ O(TRUE, FALSE) \in StageRec /\ O(FALSE, FALSE) \in StageRec
  <2>1. TRUE \in BOOLEAN /\ FALSE \in BOOLEAN
    OBVIOUS
  <2> QED
    BY <2>1, OverwatchStage, Zenon
<1>3. VMChaos.stages = EnsureCRDs \o <<HostAndChaosMesh, InstallVMStackAndGather, clean, O(TRUE, TRUE)>>
      /\ VMLoad.stages = EnsureCRDs \o <<HostAndChaosMesh, InstallVMStackAndGather, clean, O(TRUE, TRUE)>>
      /\ VLChaos.stages = EnsureCRDs \o <<HostAndChaosMesh, InstallVMStackAndGather, clean, O(FALSE, FALSE)>>
  BY Zenon DEF VMChaos, VMLoad, VLChaos
<1> HIDE DEF clean, host1, O
<1>4. SuiteShape(VMChaos.stages) /\ SuiteShape(VMLoad.stages) /\ SuiteShape(VLChaos.stages)
  <2>1. /\ <<HostAndChaosMesh, InstallVMStackAndGather, clean, O(TRUE, TRUE)>> \in Seq(StageRec)
        /\ <<HostAndChaosMesh, InstallVMStackAndGather, clean, O(FALSE, FALSE)>> \in Seq(StageRec)
    BY <1>1, <1>2, StageLists, Zenon
  <2> QED
    BY <1>3, <2>1, FrontShape, ShapeExtends, Zenon
<1>5. SuiteShape(VLLoad.stages)
  <2> DEFINE stack == Inline("InstallVMK8StackWithHelm")
             last  == Parallel(<<Task(<<"InstallOverwatch">>), Task(<<"InstallVMGather">>)>>)
  <2>1. stack \in StageRec /\ last \in StageRec
    BY StageShape DEF Name
  <2>2. VLLoad.stages = EnsureCRDs \o <<HostAndChaosMesh, stack, clean, last>>
    BY Zenon DEF VLLoad, clean
  <2> HIDE DEF stack, last
  <2>3. <<HostAndChaosMesh, stack, clean, last>> \in Seq(StageRec)
    BY <1>1, <2>1, StageLists, Zenon
  <2> QED
    BY <2>2, <2>3, FrontShape, ShapeExtends, Zenon
<1>6. SuiteShape(VMDistributed.stages)
  <2> DEFINE first == Parallel(<<Task(<<"DiscoverIngressHost">>),
                                 [calls |-> <<"InstallChaosMesh">>, recovers |-> FALSE]>>)
  <2>1. first \in StageRec
    BY StageShape, Zenon
  <2>2. VMDistributed.stages = EnsureCRDs \o <<first, InstallVMStackAndGather, O(TRUE, FALSE)>>
    BY Zenon DEF VMDistributed, O
  <2> HIDE DEF first
  <2>3. <<first, InstallVMStackAndGather, O(TRUE, FALSE)>> \in Seq(StageRec)
    BY <1>1, <1>2, <2>1, StageLists, Zenon
  <2> QED
    BY <2>2, <2>3, FrontShape, ShapeExtends, Zenon
<1>7. \A l \in BOOLEAN : SuiteShape(VMFunctional(l).stages)
  <2> TAKE l \in BOOLEAN
  <2> DEFINE strimzi == Parallel(<<Task(<<"DiscoverIngressHost">>), Task(<<"InstallStrimziOperator">>)>>)
             mid == IF l THEN <<clean, strimzi>> ELSE <<host1>>
             end == <<InstallVMStackAndGather, O(TRUE, FALSE)>>
  <2>1. VMFunctional(l).stages = (EnsureCRDs \o mid) \o end
    BY Zenon DEF VMFunctional, clean, host1, O
  <2>2. strimzi \in StageRec
    BY StageShape, Zenon
  <2> HIDE DEF strimzi
  <2>3. mid \in Seq(StageRec)
    BY <1>1, <2>2, StageLists, Zenon
  <2>4. end \in Seq(StageRec)
    BY <1>1, <1>2, StageLists, Zenon
  <2> HIDE DEF mid, end
  <2>5. SuiteShape(EnsureCRDs \o mid)
    BY <2>3, FrontShape, ShapeExtends, Zenon
  <2> QED
    BY <2>1, <2>4, <2>5, ShapeExtends, Zenon
<1>8. \A l \in BOOLEAN : SuiteShape(VLFunctional(l).stages)
  <2> TAKE l \in BOOLEAN
  <2> DEFINE mid == IF l THEN <<clean>> ELSE <<>>
             end == <<host1, InstallVMStackAndGather, O(FALSE, FALSE)>>
  <2>1. VLFunctional(l).stages = (EnsureCRDs \o mid) \o end
    BY Zenon DEF VLFunctional, clean, host1, O
  <2>3. mid \in Seq(StageRec)
    BY <1>1, StageLists, Zenon
  <2>4. end \in Seq(StageRec)
    BY <1>1, <1>2, StageLists, Zenon
  <2> HIDE DEF mid, end
  <2>5. SuiteShape(EnsureCRDs \o mid)
    BY <2>3, FrontShape, ShapeExtends, Zenon
  <2> QED
    BY <2>1, <2>4, <2>5, ShapeExtends, Zenon
<1>9. SuiteShape(OperatorHelm.stages)
  <2> DEFINE w == Inline("scaleDownGlobalOperator")
             x == Inline("removeGlobalOperatorWebhooks")
             y == Inline("KubectlApply")
             z == Inline("WaitForCRDsEstablished")
             v == O(FALSE, FALSE)
             end == <<host1, InstallVMStackAndGather, v, w, x, y, z>>
  <2>1. OperatorHelm.stages = (<<Inline("InstallArgoCD")>> \o EnsureCRDs) \o end
    BY Zenon DEF OperatorHelm, host1, O
  <2>2. w \in StageRec /\ x \in StageRec /\ y \in StageRec /\ z \in StageRec
    BY <1>1 DEF Name
  <2>3. end \in Seq(StageRec)
    <3>1. v \in StageRec
      BY <1>2
    <3> HIDE DEF v, w, x, y, z
    <3> QED
      BY <1>1, <2>2, <3>1
  <2> HIDE DEF end
  <2> QED
    BY <2>1, <2>3, FrontShape, ShapeExtends, Zenon
<1>10. s \in AllSuites
  BY SuiteAssumption
<1> QED
  BY <1>4, <1>5, <1>6, <1>7, <1>8, <1>9, <1>10, Zenon DEF AllSuites

-----------------------------------------------------------------------------
(* The inductive invariant *)

Stage == suite.stages[stage]

(* The tasks wg.Done is still to come from.                                *)
Open == {i \in Tasks : state[i] # "over"}

(* The calls of task i that were made before the one it is at are done;    *)
(* one that is over has made them all, or has failed or panicked, and then *)
(* process 1 goes on only if it was a goroutine.                           *)
TaskInv(i) ==
  /\ state[i] # "over" => at[i] <= Len(Calls(i))
  /\ \A c \in 1 .. Len(Calls(i)) : c < at[i] => Calls(i)[c] \in done
  /\ state[i] = "over" =>
       \/ at[i] > Len(Calls(i))
       \/ (failed \/ panicked) /\ (Stage.parallel \/ outcome # "running")

DoneStage(g) ==
  \A i \in DOMAIN g.tasks : \A c \in DOMAIN g.tasks[i].calls : g.tasks[i].calls[c] \in done

(* TypeOK, and: the WaitGroup counts the open tasks; the stages left       *)
(* behind are done, or were goroutines of which one failed or panicked; a  *)
(* node that has succeeded has nothing open, and everything done unless a  *)
(* panic was not yet recorded; and specs run only after a success.         *)
BootInv ==
  /\ TypeOK
  /\ at \in [Tasks -> Nat]
  /\ wg = Cardinality(Open)
  /\ \A i \in Tasks : TaskInv(i)
  /\ \A k \in 1 .. Len(suite.stages) : k < stage =>
       DoneStage(suite.stages[k]) \/ ((failed \/ panicked) /\ suite.stages[k].parallel)
  /\ outcome = "ok" => Open = {} /\ (panicked \/ AllCalls(suite) \subseteq done)
  /\ \A p \in Proc : phase[p] = "specs" => outcome = "ok"

(* What the type of a stage says of it.                                    *)
LEMMA StageParts ==
  ASSUME NEW g \in StageRec
  PROVE  /\ g.parallel \in BOOLEAN
         /\ Len(g.tasks) \in 1 .. 3 /\ DOMAIN g.tasks = 1 .. Len(g.tasks)
         /\ \A i \in DOMAIN g.tasks :
              Len(g.tasks[i].calls) \in 1 .. 2 /\ DOMAIN g.tasks[i].calls = 1 .. Len(g.tasks[i].calls)
         /\ IsFiniteSet(DOMAIN g.tasks) /\ Cardinality(DOMAIN g.tasks) = Len(g.tasks)
<1>1. g.parallel \in BOOLEAN /\ g.tasks \in Seq(TaskRec) /\ Len(g.tasks) \in 1 .. 3
  BY DEF StageRec, TaskList
<1>2. DOMAIN g.tasks = 1 .. Len(g.tasks) /\ \A i \in DOMAIN g.tasks : g.tasks[i] \in TaskRec
  BY <1>1
<1>3. \A t \in TaskRec : Len(t.calls) \in 1 .. 2 /\ DOMAIN t.calls = 1 .. Len(t.calls)
  BY DEF TaskRec, CallList
<1>4. PICK n \in 1 .. 3 : n = Len(g.tasks)
  BY <1>1
<1>5. IsFiniteSet(1 .. n) /\ Cardinality(1 .. n) = n
  <2>1. 1 \in Int /\ n \in Int /\ ~(1 > n) /\ n - 1 + 1 = n
    OBVIOUS
  <2> QED
    BY <2>1, FS_Interval
<1> QED
  BY <1>1, <1>2, <1>3, <1>4, <1>5

(* The stages of the suite that runs.                                      *)
LEMMA SuiteParts ==
  ASSUME NEW s \in Suites
  PROVE  /\ Len(s.stages) \in Nat /\ 2 <= Len(s.stages) /\ DOMAIN s.stages = 1 .. Len(s.stages)
         /\ \A k \in 1 .. Len(s.stages) : s.stages[k] \in StageRec
<1>1. s.stages \in Seq(StageRec) /\ CRDsFirst(s.stages)
  BY SuitesShape DEF SuiteShape
<1>2. Len(s.stages) \in Nat /\ DOMAIN s.stages = 1 .. Len(s.stages)
      /\ \A k \in 1 .. Len(s.stages) : s.stages[k] \in StageRec
  BY <1>1
<1>3. 2 <= Len(s.stages)
  BY <1>1, <1>2 DEF CRDsFirst
<1> QED
  BY <1>2, <1>3

(* Every call of the suite is one of a task of a stage, and conversely.    *)
LEMMA InCalls ==
  ASSUME NEW s
  PROVE  /\ \A x \in AllCalls(s) :
              \E k \in DOMAIN s.stages : \E i \in DOMAIN s.stages[k].tasks :
                \E c \in DOMAIN s.stages[k].tasks[i].calls : x = s.stages[k].tasks[i].calls[c]
         /\ \A k \in DOMAIN s.stages : \A i \in DOMAIN s.stages[k].tasks :
              \A c \in DOMAIN s.stages[k].tasks[i].calls : s.stages[k].tasks[i].calls[c] \in AllCalls(s)
BY DEF AllCalls, ToSet

(* The stage that runs and its tasks.                                      *)
LEMMA RunningStage ==
  ASSUME BootInv
  PROVE  /\ Stage \in StageRec /\ stage \in 1 .. Len(suite.stages)
         /\ IsFiniteSet(Open)
         /\ \A i \in Tasks :
              /\ Len(Calls(i)) \in 1 .. 2
              /\ at[i] \in 1 .. Len(Calls(i)) + 1
              /\ \A c \in 1 .. Len(Calls(i)) : Calls(i)[c] \in AllCalls(suite)
              /\ DOMAIN Calls(i) = 1 .. Len(Calls(i))
<1>1. suite \in Suites /\ stage \in 1 .. Len(suite.stages)
  BY DEF BootInv, TypeOK
<1>2. Stage \in StageRec
  BY <1>1, SuiteParts DEF Stage
<1>3. IsFiniteSet(Tasks) /\ Open \subseteq Tasks
  BY <1>2, StageParts DEF Tasks, Stage, Open
<1>4. IsFiniteSet(Open)
  BY <1>3, FS_Subset
<1>5. \A i \in Tasks : Len(Calls(i)) \in 1 .. 2 /\ DOMAIN Calls(i) = 1 .. Len(Calls(i))
  BY <1>2, StageParts DEF Tasks, Calls, Stage
<1>6. \A i \in Tasks : \A c \in 1 .. Len(Calls(i)) : Calls(i)[c] \in AllCalls(suite)
  <2>1. stage \in DOMAIN suite.stages
    BY <1>1, SuiteParts
  <2> QED
    BY <1>5, <2>1, InCalls DEF Tasks, Calls
<1>7. \A i \in Tasks : at[i] \in 1 .. Len(Calls(i)) + 1
  BY DEF BootInv, TypeOK
<1> QED
  BY <1>1, <1>2, <1>4, <1>5, <1>6, <1>7

-----------------------------------------------------------------------------
(* A step of a task, summed up: it keeps what it owes to its own task, and *)
(* what it changes for the others only grows.                              *)

TaskStepOf(i) ==
  /\ state[i] # "over" /\ outcome # "crashed"
  /\ UNCHANGED <<suite, stage, phase>>
  /\ done \subseteq done' /\ done' \subseteq AllCalls(suite)
  /\ failed' \in BOOLEAN /\ (failed => failed')
  /\ panicked' \in BOOLEAN /\ (panicked => panicked')
  /\ late' \in Nat /\ host' \in [Proc -> BOOLEAN]
  /\ outcome' = outcome \/ outcome' \in {"failed", "crashed"}
  /\ \E x \in {"ready", "calling", "over"} :
       state' = [state EXCEPT ![i] = x] /\ wg' = IF x = "over" THEN wg - 1 ELSE wg
  /\ \E n \in 1 .. Len(Calls(i)) + 1 : at' = [at EXCEPT ![i] = n]
  /\ TaskInv(i)'

(* The actions of a task are such steps.                                   *)
LEMMA TaskStepSum ==
  ASSUME BootInv, NEW i \in Tasks, TaskStep(i)
  PROVE  TaskStepOf(i)
<1>0. /\ TaskInv(i) /\ state \in [Tasks -> {"ready", "calling", "over"}] /\ at \in [Tasks -> Nat]
      /\ done \subseteq AllCalls(suite) /\ failed \in BOOLEAN /\ panicked \in BOOLEAN
      /\ late \in Nat /\ host \in [Proc -> BOOLEAN]
  BY DEF BootInv, TypeOK
<1>1. /\ Len(Calls(i)) \in 1 .. 2 /\ at[i] \in 1 .. Len(Calls(i)) + 1
      /\ \A c \in 1 .. Len(Calls(i)) : Calls(i)[c] \in AllCalls(suite)
  BY RunningStage
<1>2. PICK m \in 1 .. 2 : m = Len(Calls(i))
  BY <1>1
<1>3. at' = at => at' = [at EXCEPT ![i] = at[i]]
  BY <1>0
<1>4. CASE Begin(i)
  <2>1. /\ UNCHANGED <<suite, stage, at, wg, done, failed, late, outcome, host, phase, panicked>>
        /\ state[i] = "ready" /\ outcome # "crashed" /\ state' = [state EXCEPT ![i] = "calling"]
        /\ at[i] <= Len(Calls(i))
    BY <1>4 DEF Begin
  <2>2. state'[i] = "calling"
    BY <1>0, <2>1
  <2>3. TaskInv(i)'
    BY <1>0, <2>1, <2>2 DEF TaskInv, Calls
  <2>4. \E n \in 1 .. Len(Calls(i)) + 1 : at' = [at EXCEPT ![i] = n]
    BY <1>1, <1>3, <2>1
  <2> QED
    BY <1>0, <2>1, <2>3, <2>4 DEF TaskStepOf
<1>5. CASE Succeed(i)
  <2>1. /\ UNCHANGED <<suite, stage, failed, late, outcome, phase, panicked>>
        /\ state[i] = "calling" /\ outcome # "crashed"
        /\ done' = done \cup {Calls(i)[at[i]]} /\ at' = [at EXCEPT ![i] = at[i] + 1]
        /\ IF at[i] = Len(Calls(i))
             THEN state' = [state EXCEPT ![i] = "over"] /\ wg' = wg - 1
             ELSE state' = [state EXCEPT ![i] = "ready"] /\ UNCHANGED wg
    BY <1>5 DEF Succeed
  <2>2. at[i] \in 1 .. m
    BY <1>0, <1>1, <1>2, <2>1 DEF TaskInv
  <2>3. at'[i] = at[i] + 1 /\ state'[i] = IF at[i] = m THEN "over" ELSE "ready"
    BY <1>0, <1>2, <2>1
  <2>4. \A c \in 1 .. m : c < at[i] + 1 => c < at[i] \/ c = at[i]
    BY <2>2
  <2>5. at[i] + 1 \in 1 .. m + 1 /\ (at[i] # m => at[i] + 1 <= m) /\ (at[i] = m => at[i] + 1 > m)
    BY <2>2
  <2>6. \A c \in 1 .. m : c < at'[i] => Calls(i)[c] \in done'
    BY <1>0, <1>2, <2>1, <2>3, <2>4 DEF TaskInv
  <2>7. Calls(i)' = Calls(i)
    BY <2>1 DEF Calls
  <2>8. TaskInv(i)'
    BY <1>2, <2>3, <2>5, <2>6, <2>7 DEF TaskInv
  <2>9. done \subseteq done' /\ done' \subseteq AllCalls(suite)
    BY <1>0, <1>1, <1>2, <2>1, <2>2
  <2>10. host' \in [Proc -> BOOLEAN]
    BY <1>0, <1>5, ProcAssumption DEF Succeed
  <2>11. \E x \in {"ready", "calling", "over"} :
           state' = [state EXCEPT ![i] = x] /\ wg' = IF x = "over" THEN wg - 1 ELSE wg
    BY <2>1
  <2>12. \E n \in 1 .. Len(Calls(i)) + 1 : at' = [at EXCEPT ![i] = n]
    BY <1>2, <2>1, <2>5
  <2> QED
    BY <1>0, <2>1, <2>8, <2>9, <2>10, <2>11, <2>12 DEF TaskStepOf
<1>6. CASE Fail(i) \/ Panic(i)
  <2>1. /\ UNCHANGED <<suite, stage, at, done, host, phase>>
        /\ state[i] = "calling" /\ outcome # "crashed"
        /\ state' = [state EXCEPT ![i] = "over"] /\ wg' = wg - 1
    BY <1>6 DEF Fail, Panic
  <2>2. failed' \in BOOLEAN /\ (failed => failed') /\ panicked' \in BOOLEAN /\ (panicked => panicked')
    BY <1>0, <1>6, Zenon DEF Fail, Panic
  <2>3. failed' \/ panicked'
    BY <1>6, Zenon DEF Fail, Panic
  <2>4. late' \in Nat
    BY <1>0, <1>6 DEF Fail, Panic
  <2>5. outcome' = outcome \/ outcome' \in {"failed", "crashed"}
    BY <1>6 DEF Fail, Panic
  <2>6. Stage.parallel \/ outcome' # "running"
    BY <1>6 DEF Fail, Panic, Stage
  <2>7. state'[i] = "over"
    BY <1>0, <2>1
  <2>8. Calls(i)' = Calls(i) /\ Stage' = Stage
    BY <2>1 DEF Calls, Stage
  <2>9. TaskInv(i)'
    BY <1>0, <2>1, <2>3, <2>6, <2>7, <2>8 DEF TaskInv
  <2>10. \E n \in 1 .. Len(Calls(i)) + 1 : at' = [at EXCEPT ![i] = n]
    BY <1>1, <1>3, <2>1
  <2>11. host' \in [Proc -> BOOLEAN] /\ done \subseteq done' /\ done' \subseteq AllCalls(suite)
    BY <1>0, <2>1
  <2>12. \E x \in {"ready", "calling", "over"} :
           state' = [state EXCEPT ![i] = x] /\ wg' = IF x = "over" THEN wg - 1 ELSE wg
    BY <2>1
  <2> QED
    BY <2>1, <2>2, <2>4, <2>5, <2>9, <2>10, <2>11, <2>12 DEF TaskStepOf
<1> QED
  BY <1>4, <1>5, <1>6 DEF TaskStep

(* A WaitGroup that counts one goroutine less.                             *)
LEMMA CountLess ==
  ASSUME NEW S, IsFiniteSet(S), NEW x \in S
  PROVE  /\ Cardinality(S \ {x}) = Cardinality(S) - 1
         /\ Cardinality(S) - 1 \in Nat
<1>1. Cardinality(S \ {x}) = Cardinality(S) - 1 /\ IsFiniteSet(S \ {x})
  BY FS_RemoveElement
<1> QED
  BY <1>1, FS_CardinalityType

(* The invariant outlives a step of a task.                                *)
LEMMA TaskStepKeeps ==
  ASSUME BootInv, NEW i \in Tasks, TaskStepOf(i)
  PROVE  BootInv'
<1>0. /\ state \in [Tasks -> {"ready", "calling", "over"}] /\ at \in [Tasks -> Nat]
      /\ wg = Cardinality(Open) /\ wg \in Nat /\ suite \in Suites
      /\ \A j \in Tasks : at[j] \in 1 .. Len(Calls(j)) + 1
  BY DEF BootInv, TypeOK
<1>1. /\ Tasks' = Tasks /\ Stage' = Stage /\ suite' = suite /\ stage' = stage
      /\ \A j \in Tasks : Calls(j)' = Calls(j)
  BY DEF TaskStepOf, Tasks, Stage, Calls
<1>2. PICK x \in {"ready", "calling", "over"} :
        state' = [state EXCEPT ![i] = x] /\ wg' = IF x = "over" THEN wg - 1 ELSE wg
  BY DEF TaskStepOf
<1>3. PICK n \in 1 .. Len(Calls(i)) + 1 : at' = [at EXCEPT ![i] = n]
  BY DEF TaskStepOf
<1>4. /\ \A j \in Tasks : j # i => state'[j] = state[j] /\ at'[j] = at[j]
      /\ state'[i] = x /\ at'[i] = n
  BY <1>0, <1>2, <1>3
<1>5. n \in Nat
  BY RunningStage
<1>6. /\ state' \in [Tasks -> {"ready", "calling", "over"}] /\ at' \in [Tasks -> Nat]
      /\ \A j \in Tasks : at'[j] \in 1 .. Len(Calls(j)) + 1
  BY <1>0, <1>2, <1>3, <1>4, <1>5
<1>7. i \in Open /\ IsFiniteSet(Open)
  BY RunningStage DEF TaskStepOf, Open
<1>8. wg' = Cardinality(Open') /\ wg' \in Nat
  <2>1. CASE x = "over"
    <3>1. Open' = Open \ {i}
      BY <1>0, <1>1, <1>4, <2>1 DEF Open
    <3> QED
      BY <1>0, <1>2, <1>7, <2>1, <3>1, CountLess
  <2>2. CASE x # "over"
    <3>1. Open' = Open
      BY <1>0, <1>1, <1>4, <1>7, <2>2 DEF Open
    <3> QED
      BY <1>0, <1>2, <2>2, <3>1
  <2> QED
    BY <2>1, <2>2
<1>9. TypeOK'
  <2>1. outcome' \in {"running", "ok", "failed", "crashed"}
    BY DEF TaskStepOf, BootInv, TypeOK
  <2>2. stage \in 1 .. Len(suite.stages) /\ phase \in [Proc -> {"blocked", "specs", "skipped"}]
    BY DEF BootInv, TypeOK
  <2> QED
    BY <1>0, <1>1, <1>6, <1>8, <2>1, <2>2 DEF TaskStepOf, TypeOK
<1>10. /\ done \subseteq done' /\ (failed => failed') /\ (panicked => panicked')
       /\ outcome # "ok"
       /\ outcome' = outcome \/ outcome' \in {"failed", "crashed"}
  BY <1>7 DEF TaskStepOf, BootInv
<1>11. ASSUME NEW j \in Tasks PROVE TaskInv(j)'
  <2>1. CASE j = i
    BY <2>1 DEF TaskStepOf
  <2>2. CASE j # i
    <3>1. TaskInv(j) /\ state'[j] = state[j] /\ at'[j] = at[j] /\ Calls(j)' = Calls(j)
      BY <1>1, <1>4, <2>2 DEF BootInv
    <3>2. Stage' = Stage /\ (outcome # "running" => outcome' # "running")
      BY <1>1, <1>10
    <3> QED
      BY <1>10, <3>1, <3>2 DEF TaskInv
  <2> QED
    BY <2>1, <2>2
<1>12. \A k \in 1 .. Len(suite.stages) : k < stage =>
         DoneStage(suite.stages[k])' \/ ((failed' \/ panicked') /\ suite.stages[k].parallel)
  BY <1>1, <1>10 DEF BootInv, DoneStage
<1>13. outcome' # "ok"
  BY <1>10
<1>14. \A p \in Proc : phase'[p] # "specs"
  BY <1>10 DEF TaskStepOf, BootInv
<1> QED
  BY <1>1, <1>6, <1>8, <1>9, <1>11, <1>12, <1>13, <1>14 DEF BootInv

(* The tasks of the stage that Fork starts: nothing is done of it.         *)
LEMMA ForkKeeps ==
  ASSUME NEW s \in Suites, NEW k \in 1 .. Len(s.stages), suite' = s, Fork(s, k)
  PROVE  /\ stage' \in 1 .. Len(suite'.stages)
         /\ state' \in [Tasks' -> {"ready", "calling", "over"}] /\ at' \in [Tasks' -> Nat]
         /\ \A i \in Tasks' : at'[i] \in 1 .. Len(Calls(i)') + 1
         /\ wg' = Cardinality(Open') /\ wg' \in Nat
         /\ \A i \in Tasks' : TaskInv(i)'
<1> DEFINE g == s.stages[k]
<1>0. /\ stage' = k /\ at' = [i \in DOMAIN g.tasks |-> 1]
      /\ state' = [i \in DOMAIN g.tasks |-> "ready"] /\ wg' = Len(g.tasks)
  BY DEF Fork
<1>1. g \in StageRec
  BY SuiteParts
<1>2. Tasks' = DOMAIN g.tasks /\ \A i \in DOMAIN g.tasks : Calls(i)' = g.tasks[i].calls
  BY <1>0 DEF Tasks, Calls
<1>3. /\ Len(g.tasks) \in 1 .. 3 /\ Cardinality(DOMAIN g.tasks) = Len(g.tasks)
      /\ \A i \in DOMAIN g.tasks : Len(g.tasks[i].calls) \in 1 .. 2
  BY <1>1, StageParts
<1>4. \A i \in Tasks' : at'[i] = 1 /\ state'[i] = "ready"
  BY <1>0, <1>2
<1>5. Open' = DOMAIN g.tasks
  BY <1>2, <1>4 DEF Open
<1>6. \A n \in 1 .. 2 : 1 \in 1 .. n + 1 /\ 1 <= n /\ \A c \in 1 .. n : ~(c < 1)
  OBVIOUS
<1>7. \A i \in Tasks' : Len(Calls(i)') \in 1 .. 2
  BY <1>2, <1>3
<1>8. \A i \in Tasks' : at'[i] \in 1 .. Len(Calls(i)') + 1
  BY <1>4, <1>6, <1>7
<1>9. \A i \in Tasks' : TaskInv(i)'
  BY <1>4, <1>6, <1>7 DEF TaskInv
<1>10. state' \in [Tasks' -> {"ready", "calling", "over"}] /\ at' \in [Tasks' -> Nat]
  BY <1>0, <1>2
<1>11. wg' = Cardinality(Open') /\ wg' \in Nat
  BY <1>0, <1>3, <1>5
<1> QED
  BY <1>0, <1>8, <1>9, <1>10, <1>11

(* When wg.Wait returns, the stage is done, or one of its goroutines has   *)
(* failed or panicked.                                                     *)
LEMMA WaitReturned ==
  ASSUME BootInv, outcome = "running", wg = 0
  PROVE  /\ Open = {}
         /\ DoneStage(Stage) \/ ((failed \/ panicked) /\ Stage.parallel)
<1>1. Open = {}
  BY RunningStage, FS_EmptySet DEF BootInv
<1>2. \A i \in Tasks : state[i] = "over"
  BY <1>1 DEF Open
<1>3. ASSUME ~((failed \/ panicked) /\ Stage.parallel) PROVE DoneStage(Stage)
  <2>1. SUFFICES ASSUME NEW i \in Tasks, NEW c \in 1 .. Len(Calls(i))
                 PROVE  Calls(i)[c] \in done
    BY RunningStage DEF DoneStage, Stage, Tasks, Calls
  <2>2. TaskInv(i) /\ at[i] \in Nat /\ Len(Calls(i)) \in 1 .. 2
    BY RunningStage DEF BootInv
  <2>3. at[i] > Len(Calls(i))
    BY <1>2, <1>3, <2>2 DEF TaskInv
  <2>4. c < at[i]
    BY <2>2, <2>3
  <2> QED
    BY <2>2, <2>4 DEF TaskInv
<1> QED
  BY <1>1, <1>3

(* The invariant outlives the return of wg.Wait.                           *)
LEMMA WaitKeeps ==
  ASSUME BootInv, Wait
  PROVE  BootInv'
<1>0. /\ outcome = "running" /\ wg = 0
      /\ UNCHANGED <<suite, done, failed, late, host, phase, panicked>>
  BY DEF Wait
<1>1. /\ suite \in Suites /\ stage \in 1 .. Len(suite.stages)
      /\ \A p \in Proc : phase[p] # "specs"
  BY <1>0 DEF BootInv, TypeOK
<1>2. Open = {} /\ (DoneStage(Stage) \/ ((failed \/ panicked) /\ Stage.parallel))
  BY <1>0, WaitReturned
<1>3. \A k \in 1 .. Len(suite.stages) : k < stage =>
        DoneStage(suite.stages[k]) \/ ((failed \/ panicked) /\ suite.stages[k].parallel)
  BY DEF BootInv
<1>4. Len(suite.stages) \in Nat /\ DOMAIN suite.stages = 1 .. Len(suite.stages)
  BY <1>1, SuiteParts
<1>5. \A k \in 1 .. Len(suite.stages) : k < stage + 1 =>
        DoneStage(suite.stages[k]) \/ ((failed \/ panicked) /\ suite.stages[k].parallel)
  <2>1. \A k \in 1 .. Len(suite.stages) : k < stage + 1 => k < stage \/ k = stage
    BY <1>1, <1>4
  <2> QED
    BY <1>2, <1>3, <2>1 DEF Stage
<1>6. \A g : DoneStage(g)' <=> DoneStage(g)
  BY <1>0 DEF DoneStage
<1>7. CASE stage < Len(suite.stages)
  <2>1. Fork(suite, stage + 1) /\ outcome' = outcome
    BY <1>7 DEF Wait
  <2>2. stage + 1 \in 1 .. Len(suite.stages)
    BY <1>1, <1>4, <1>7
  <2>3. stage' = stage + 1
    BY <2>1 DEF Fork
  <2>4. /\ stage' \in 1 .. Len(suite'.stages)
        /\ state' \in [Tasks' -> {"ready", "calling", "over"}] /\ at' \in [Tasks' -> Nat]
        /\ \A i \in Tasks' : at'[i] \in 1 .. Len(Calls(i)') + 1
        /\ wg' = Cardinality(Open') /\ wg' \in Nat
        /\ \A i \in Tasks' : TaskInv(i)'
    BY <1>0, <1>1, <2>1, <2>2, ForkKeeps
  <2>5. TypeOK'
    BY <1>0, <2>1, <2>4 DEF BootInv, TypeOK
  <2> QED
    BY <1>0, <1>1, <1>5, <1>6, <2>1, <2>3, <2>4, <2>5 DEF BootInv
<1>8. CASE ~(stage < Len(suite.stages))
  <2>1. /\ outcome' = IF failed THEN "failed" ELSE "ok"
        /\ UNCHANGED <<stage, at, state, wg>>
    BY <1>8 DEF Wait
  <2>2. /\ Tasks' = Tasks /\ Open' = Open /\ Stage' = Stage
        /\ \A i \in Tasks : Calls(i)' = Calls(i)
    BY <1>0, <2>1 DEF Tasks, Open, Stage, Calls
  <2>3. TypeOK'
    BY <1>0, <2>1, <2>2 DEF BootInv, TypeOK
  <2>4. \A i \in Tasks : TaskInv(i)'
    BY <1>0, <2>1, <2>2 DEF BootInv, TaskInv
  <2>5. ASSUME ~failed, ~panicked PROVE AllCalls(suite) \subseteq done
    <3>1. \A k \in 1 .. Len(suite.stages) : k < stage + 1
      BY <1>1, <1>4, <1>8
    <3>2. \A k \in 1 .. Len(suite.stages) : DoneStage(suite.stages[k])
      BY <1>5, <2>5, <3>1
    <3> QED
      BY <1>4, <3>2, InCalls DEF DoneStage
  <2>6. outcome' = "ok" => Open' = {} /\ (panicked' \/ AllCalls(suite') \subseteq done')
    BY <1>0, <1>2, <2>1, <2>2, <2>5
  <2>7. \A p \in Proc : phase'[p] # "specs"
    BY <1>0, <1>1
  <2> QED
    BY <1>0, <1>3, <1>6, <2>1, <2>2, <2>3, <2>4, <2>6, <2>7 DEF BootInv
<1> QED
  BY <1>7, <1>8

(* A panic that is recorded late weakens nothing.                          *)
LEMMA RecoverKeeps ==
  ASSUME BootInv, GinkgoRecover
  PROVE  BootInv'
<1>0. /\ UNCHANGED <<suite, stage, at, state, wg, done, outcome, host, phase, panicked>>
      /\ failed' = TRUE /\ late' = late - 1 /\ late > 0 /\ late \in Nat
  BY DEF GinkgoRecover, BootInv, TypeOK
<1>1. late' \in Nat
  BY <1>0
<1>2. /\ Tasks' = Tasks /\ Open' = Open /\ Stage' = Stage
      /\ \A i \in Tasks : Calls(i)' = Calls(i)
  BY <1>0 DEF Tasks, Open, Stage, Calls
<1>3. TypeOK'
  BY <1>0, <1>1, <1>2 DEF BootInv, TypeOK
<1>4. \A i \in Tasks : TaskInv(i)'
  BY <1>0, <1>2 DEF BootInv, TaskInv
<1>5. \A g : DoneStage(g)' <=> DoneStage(g)
  BY <1>0 DEF DoneStage
<1> QED
  BY <1>0, <1>2, <1>3, <1>4, <1>5 DEF BootInv

(* Specs start only after a success.                                       *)
LEMMA SpecsStartKeeps ==
  ASSUME BootInv, NEW q \in Proc, SpecsStart(q)
  PROVE  BootInv'
<1>0. UNCHANGED <<suite, stage, at, state, wg, done, failed, late, outcome, panicked>>
  BY DEF SpecsStart
<1>1. /\ Tasks' = Tasks /\ Open' = Open /\ Stage' = Stage
      /\ \A i \in Tasks : Calls(i)' = Calls(i)
  BY <1>0 DEF Tasks, Open, Stage, Calls
<1>2. /\ phase' \in [Proc -> {"blocked", "specs", "skipped"}]
      /\ \A p \in Proc : phase'[p] = "specs" => outcome = "ok"
  BY DEF SpecsStart, BootInv, TypeOK
<1>3. host' \in [Proc -> BOOLEAN]
  BY DEF SpecsStart, BootInv, TypeOK
<1>4. TypeOK'
  BY <1>0, <1>1, <1>2, <1>3 DEF BootInv, TypeOK
<1>5. \A i \in Tasks : TaskInv(i)'
  BY <1>0, <1>1 DEF BootInv, TaskInv
<1>6. \A g : DoneStage(g)' <=> DoneStage(g)
  BY <1>0 DEF DoneStage
<1> QED
  BY <1>0, <1>1, <1>2, <1>4, <1>5, <1>6 DEF BootInv

(* Every step keeps the invariant.                                         *)
LEMMA BootStep ==
  ASSUME BootInv, [Next]_vars
  PROVE  BootInv'
<1>1. CASE \E i \in Tasks : TaskStep(i)
  BY <1>1, TaskStepSum, TaskStepKeeps
<1>2. CASE UNCHANGED vars
  <2>0. UNCHANGED <<suite, stage, at, state, wg, done, failed, late, outcome, host, phase, panicked>>
    BY <1>2 DEF vars
  <2>1. /\ Tasks' = Tasks /\ Open' = Open /\ Stage' = Stage
        /\ \A i \in Tasks : Calls(i)' = Calls(i)
    BY <2>0 DEF Tasks, Open, Stage, Calls
  <2>2. TypeOK'
    BY <2>0, <2>1 DEF BootInv, TypeOK
  <2>3. \A i \in Tasks : TaskInv(i)'
    BY <2>0, <2>1 DEF BootInv, TaskInv
  <2>4. \A g : DoneStage(g)' <=> DoneStage(g)
    BY <2>0 DEF DoneStage
  <2> QED
    BY <2>0, <2>1, <2>2, <2>3, <2>4 DEF BootInv
<1> QED
  BY <1>1, <1>2, WaitKeeps, RecoverKeeps, SpecsStartKeeps DEF Next

(* Nothing is done and nothing is open but the first stage at first.       *)
LEMMA BootInit ==
  ASSUME Init
  PROVE  BootInv
<1> DEFINE g == suite.stages[1]
<1>0. /\ suite \in Suites /\ stage = 1 /\ at = [i \in DOMAIN g.tasks |-> 1]
      /\ state = [i \in DOMAIN g.tasks |-> "ready"] /\ wg = Len(g.tasks)
      /\ done = {} /\ failed = FALSE /\ late = 0 /\ outcome = "running"
      /\ phase = [p \in Proc |-> "blocked"] /\ panicked = FALSE
  BY DEF Init
<1>1. Len(suite.stages) \in Nat /\ 1 \in 1 .. Len(suite.stages)
  BY <1>0, SuiteParts
<1>2. g \in StageRec
  BY <1>0, <1>1, SuiteParts
<1>3. Tasks = DOMAIN g.tasks /\ \A i \in DOMAIN g.tasks : Calls(i) = g.tasks[i].calls
  BY <1>0 DEF Tasks, Calls
<1>4. /\ Len(g.tasks) \in 1 .. 3 /\ Cardinality(DOMAIN g.tasks) = Len(g.tasks)
      /\ \A i \in DOMAIN g.tasks : Len(g.tasks[i].calls) \in 1 .. 2
  BY <1>2, StageParts
<1>5. \A i \in Tasks : at[i] = 1 /\ state[i] = "ready"
  BY <1>0, <1>3
<1>6. Open = DOMAIN g.tasks
  BY <1>3, <1>5 DEF Open
<1>7. \A n \in 1 .. 2 : 1 \in 1 .. n + 1 /\ 1 <= n /\ \A c \in 1 .. n : ~(c < 1)
  OBVIOUS
<1>8. \A i \in Tasks : Len(Calls(i)) \in 1 .. 2
  BY <1>3, <1>4
<1>9. \A i \in Tasks : at[i] \in 1 .. Len(Calls(i)) + 1
  BY <1>5, <1>7, <1>8
<1>10. \A i \in Tasks : TaskInv(i)
  BY <1>5, <1>7, <1>8 DEF TaskInv
<1>11. state \in [Tasks -> {"ready", "calling", "over"}] /\ at \in [Tasks -> Nat]
  BY <1>0, <1>3
<1>12. wg = Cardinality(Open) /\ wg \in Nat
  BY <1>0, <1>4, <1>6
<1>13. host \in [Proc -> BOOLEAN] /\ phase \in [Proc -> {"blocked", "specs", "skipped"}]
  BY ProcAssumption DEF Init
<1>14. TypeOK
  BY <1>0, <1>1, <1>9, <1>11, <1>12, <1>13 DEF TypeOK
<1>15. \A k \in 1 .. Len(suite.stages) : ~(k < stage)
  BY <1>0, <1>1
<1>16. \A p \in Proc : phase[p] # "specs"
  BY <1>0
<1> QED
  BY <1>0, <1>10, <1>11, <1>12, <1>14, <1>15, <1>16 DEF BootInv

-----------------------------------------------------------------------------
(* The theorems *)

(* The invariant of the bootstrap, in every suite: the WaitGroup counts    *)
(* exactly the goroutines that have not left, also when one fails or       *)
(* panics.                                                                 *)
THEOREM BootstrapInvariant == Spec => []BootInv
<1>1. Init => BootInv
  BY BootInit
<1>2. BootInv /\ [Next]_vars => BootInv'
  BY BootStep
<1> QED
  BY <1>1, <1>2, PTL DEF Spec

(* Every variable keeps its type; wg.Done never takes the WaitGroup below  *)
(* zero.                                                                   *)
THEOREM TypeCorrect == Spec => []TypeOK
<1>1. BootInv => TypeOK
  BY DEF BootInv
<1> QED
  BY <1>1, BootstrapInvariant, PTL

(* No spec of any process runs on a bootstrap that misses a call, unless a *)
(* panic was not recorded when wg.Wait returned.                           *)
THEOREM SpecsOnWholeBootstrap == Spec => []SpecsNeedWholeBootstrap
<1>1. BootInv => SpecsNeedWholeBootstrap
  BY DEF BootInv, SpecsNeedWholeBootstrap
<1> QED
  BY <1>1, BootstrapInvariant, PTL

(* The helm release that starts the operator begins only with both kinds   *)
(* of CRDs there: they are installed on the main goroutine, which does not *)
(* outlive a failure.                                                      *)
THEOREM CRDsBeforeOperator == Spec => []OperatorFindsCRDs
<1>1. ASSUME BootInv PROVE OperatorFindsCRDs
  <2> SUFFICES ASSUME NEW i \in Tasks, state[i] = "calling",
                      Calls(i)[at[i]] = "InstallVMK8StackWithHelm"
               PROVE  "EnsureVPACRDs" \in done /\ "EnsureGatewayAPICRDs" \in done
    BY DEF OperatorFindsCRDs
  <2>1. suite \in Suites /\ stage \in 1 .. Len(suite.stages) /\ TaskInv(i)
    BY <1>1 DEF BootInv, TypeOK
  <2>2. PICK d \in 0 .. 1 :
          /\ d + 2 <= Len(suite.stages)
          /\ suite.stages[d + 1] = Inline("EnsureVPACRDs")
          /\ suite.stages[d + 2] = Inline("EnsureGatewayAPICRDs")
          /\ d = 1 => suite.stages[1] = Inline("InstallArgoCD")
    BY <2>1, SuitesShape DEF SuiteShape, CRDsFirst
  <2>3. Len(suite.stages) \in Nat
    BY <2>1, SuiteParts
  <2>4. "EnsureVPACRDs" \in Name /\ "EnsureGatewayAPICRDs" \in Name /\ "InstallArgoCD" \in Name
    BY DEF Name
  <2>5. \A x \in Name : Stage = Inline(x) => x = "InstallVMK8StackWithHelm"
    <3>1. SUFFICES ASSUME NEW x \in Name, Stage = Inline(x)
                   PROVE  x = "InstallVMK8StackWithHelm"
      OBVIOUS
    <3>2. Len(Inline(x).tasks) = 1 /\ Len(Inline(x).tasks[1].calls) = 1
          /\ Inline(x).tasks[1].calls[1] = x
      BY InlineStage
    <3>3. Stage \in StageRec /\ Len(Calls(i)) \in 1 .. 2 /\ at[i] \in 1 .. Len(Calls(i)) + 1
      BY <1>1, RunningStage
    <3>4. Tasks = 1 .. Len(Stage.tasks)
      BY <3>3, StageParts DEF Tasks, Stage
    <3>5. i = 1
      <4>1. Len(Stage.tasks) = 1
        BY <3>1, <3>2
      <4>2. i \in 1 .. 1
        BY <3>4, <4>1
      <4> QED
        BY <4>2
    <3>6. Calls(i) = Inline(x).tasks[1].calls
      BY <3>1, <3>5 DEF Calls, Stage
    <3>7. at[i] = 1
      BY <2>1, <3>2, <3>3, <3>6 DEF TaskInv
    <3> QED
      BY <3>2, <3>6, <3>7
  <2>6. /\ stage # d + 1 /\ stage # d + 2 /\ (d = 1 => stage # 1)
    BY <2>2, <2>4, <2>5 DEF Stage
  <2>7. /\ d + 1 < stage /\ d + 2 < stage
        /\ d + 1 \in 1 .. Len(suite.stages) /\ d + 2 \in 1 .. Len(suite.stages)
    BY <2>1, <2>2, <2>3, <2>6
  <2>8. ASSUME NEW x \in Name, NEW k \in 1 .. Len(suite.stages), k < stage,
               suite.stages[k] = Inline(x)
        PROVE  x \in done
    <3>1. /\ Inline(x) \in StageRec /\ ~Inline(x).parallel
          /\ Len(Inline(x).tasks) = 1 /\ Len(Inline(x).tasks[1].calls) = 1
          /\ Inline(x).tasks[1].calls[1] = x
      BY InlineStage
    <3>2. DoneStage(Inline(x))
      BY <1>1, <2>8, <3>1 DEF BootInv
    <3>3. 1 \in DOMAIN Inline(x).tasks
      BY <3>1, StageParts
    <3>4. 1 \in DOMAIN Inline(x).tasks[1].calls
      BY <3>1, <3>3, StageParts
    <3> QED
      BY <3>1, <3>2, <3>3, <3>4 DEF DoneStage
  <2> QED
    BY <2>2, <2>4, <2>7, <2>8
<1> QED
  BY <1>1, BootstrapInvariant, PTL
=============================================================================
