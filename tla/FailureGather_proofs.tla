------------------------ MODULE FailureGather_proofs ------------------------
(***************************************************************************)
(* Proofs about FailureGather: its types, that the exports of one cleanup  *)
(* follow each other, and, for the code's number of attempts, a relation   *)
(* between the timeouts under which the deletion of the namespace is begun *)
(* with more than its time left.                                           *)
(***************************************************************************)
EXTENDS FailureGather, TLAPS

(* The code's vmGatherExportAttempts is 3; the provers know a power of two *)
(* only where the exponent is a number.                                    *)
FewAttempts == vmGatherExportAttempts <= 3

JobState == {"none", "running", "completed", "failed"}
Attempts == 1 .. vmGatherExportAttempts

-----------------------------------------------------------------------------
(* The teardowns, step by step *)

(* Every teardown is the deletion of the cluster, then steps of its own,   *)
(* then the deletion of the namespace.                                     *)
LEMMA KindShape ==
  /\ Len(Chaos) = 5 /\ Len(Load) = 6 /\ Len(NFSLoad) = 11
  /\ \A k \in AllKinds :
       /\ k[1] = DeleteObject
       /\ k[2] = WaitDeleted /\ k[3] = WaitDeleted /\ k[4] = WaitDeleted
  /\ Load[5] = UninstallK6[1] /\ NFSLoad[10] = UninstallK6[1]
  /\ \A i \in 5 .. 9 : NFSLoad[i] = DeletePV
  /\ Chaos[5] = CleanupNamespace[1] /\ Load[6] = CleanupNamespace[1]
  /\ NFSLoad[11] = CleanupNamespace[1]
<1> DEFINE w == WaitDeleted  d == DeleteObject  v == DeletePV
           u == Step(RequestTime, TRUE, TRUE, TRUE)  c == Step(PollingTimeout, FALSE, TRUE, FALSE)
           S == {w, d, v, u, c}
           base == <<d, w, w, w>>
           nfs  == base \o [i \in 1 .. 5 |-> v]
<1>1. /\ Chaos = base \o <<c>> /\ Load = (base \o <<u>>) \o <<c>>
      /\ NFSLoad = (nfs \o <<u>>) \o <<c>>
      /\ UninstallK6[1] = u /\ CleanupNamespace[1] = c
  BY DEF Chaos, Load, NFSLoad, DeleteCluster, DeleteNFSResources, UninstallK6,
         CleanupNamespace
<1>2. d \in S /\ w \in S /\ v \in S /\ u \in S /\ c \in S
  OBVIOUS
<1> HIDE DEF w, d, v, u, c, S
<1>3. /\ base \in Seq(S) /\ 4 <= Len(base) /\ Len(base) <= 4
      /\ base[1] = d /\ base[2] = w /\ base[3] = w /\ base[4] = w
  BY <1>2
<1>4. /\ nfs \in Seq(S) /\ 9 <= Len(nfs) /\ Len(nfs) <= 9
      /\ nfs[1] = d /\ nfs[2] = w /\ nfs[3] = w
      /\ nfs[4] = w /\ \A i \in 5 .. 9 : nfs[i] = v
  <2> DEFINE five == [i \in 1 .. 5 |-> v]
  <2>1. /\ five \in Seq(S) /\ 5 <= Len(five) /\ Len(five) <= 5
        /\ \A i \in 1 .. 5 : five[i] = v
    BY <1>2
  <2> HIDE DEF base, five
  <2>2. nfs \in Seq(S) /\ 9 <= Len(nfs) /\ Len(nfs) <= 9
    BY <2>1, <1>3 DEF five
  <2>3. nfs[1] = d /\ nfs[2] = w /\ nfs[3] = w /\ nfs[4] = w
    BY <2>1, <1>3 DEF five
  <2>4. ASSUME NEW i \in 5 .. 9 PROVE nfs[i] = v
    BY <2>1, <1>3 DEF five
  <2> QED
    BY <2>2, <2>3, <2>4
<1> HIDE DEF base, nfs
<1> DEFINE baseU == base \o <<u>>
           nfsU == nfs \o <<u>>
<1>5. /\ baseU \in Seq(S) /\ 5 <= Len(baseU) /\ Len(baseU) <= 5 /\ baseU[5] = u
      /\ \A i \in 1 .. 4 : baseU[i] = base[i]
  BY <1>2, <1>3, SMTT(30)
<1>6. /\ nfsU \in Seq(S) /\ 10 <= Len(nfsU) /\ Len(nfsU) <= 10 /\ nfsU[10] = u
      /\ \A i \in 1 .. 9 : nfsU[i] = nfs[i]
  BY <1>2, <1>4, SMTT(30)
<1> HIDE DEF baseU, nfsU
<1>7. /\ Len(Chaos) = 5 /\ Chaos[5] = c
      /\ \A i \in 1 .. 4 : Chaos[i] = base[i]
  BY <1>1, <1>2, <1>3, SMTT(30)
<1>8. /\ Len(Load) = 6 /\ Load[6] = c
      /\ \A i \in 1 .. 5 : Load[i] = baseU[i]
  <2>1. Load = baseU \o <<c>>
    BY <1>1 DEF baseU
  <2> QED
    BY <2>1, <1>2, <1>5, SMTT(30)
<1>9. /\ Len(NFSLoad) = 11 /\ NFSLoad[11] = c
      /\ \A i \in 1 .. 10 : NFSLoad[i] = nfsU[i]
  <2>1. NFSLoad = nfsU \o <<c>>
    BY <1>1 DEF nfsU
  <2> QED
    BY <2>1, <1>2, <1>6, SMTT(30)
<1>10. Chaos[1] = d /\ Chaos[2] = w /\ Chaos[3] = w /\ Chaos[4] = w
  BY <1>3, <1>7, SMTT(30)
<1>11. Load[1] = d /\ Load[2] = w /\ Load[3] = w /\ Load[4] = w /\ Load[5] = u
  BY <1>3, <1>5, <1>8, SMTT(30)
<1>12. /\ NFSLoad[1] = d /\ NFSLoad[2] = w /\ NFSLoad[3] = w /\ NFSLoad[4] = w
       /\ NFSLoad[10] = u /\ \A i \in 5 .. 9 : NFSLoad[i] = v
  BY <1>4, <1>6, <1>9, SMTT(30)
<1>13. \A k \in AllKinds : k[1] = d /\ k[2] = w /\ k[3] = w /\ k[4] = w
  BY <1>10, <1>11, <1>12, Zenon DEF AllKinds
<1> QED
  BY <1>1, <1>7, <1>8, <1>9, <1>11, <1>12, <1>13, Zenon DEF w, d, v

(* The time each step of a teardown is allowed is a natural number.        *)
LEMMA DurationsAreNat ==
  /\ ExportTimeout \in Nat /\ GatherCleanupTimeout \in Nat
  /\ ResourceWaitTimeout \in Nat /\ PollingTimeout \in Nat
  /\ VMClusterWaitTimeout \in Nat /\ VMDistributedWaitTimeout \in Nat
  /\ vmGatherExportAttempts \in Nat \ {0}
  /\ RequestTime \in Nat /\ RequestTime <= ResourceWaitTimeout
BY DurationAssumption DEF ExportTimeout, GatherCleanupTimeout, Larger

(* What a step of each teardown is allowed before it is given up.          *)
LEMMA StepCap ==
  ASSUME NEW k \in AllKinds, NEW p \in 1 .. Len(k)
  PROVE  /\ k[p].cap \in Nat
         /\ p < Len(k) =>
              \/ p = 1 /\ k[p].cap = RequestTime
              \/ p \in 2 .. 4 /\ k[p].cap = VMClusterWaitTimeout
              \/ k = Load /\ p = 5 /\ k[p].cap = RequestTime
              \/ k = NFSLoad /\ p \in 5 .. 9 /\ k[p].cap = 3
              \/ k = NFSLoad /\ p = 10 /\ k[p].cap = RequestTime
<1>1. /\ DeleteObject.cap = RequestTime /\ WaitDeleted.cap = VMClusterWaitTimeout
      /\ DeletePV.cap = 3 /\ UninstallK6[1].cap = RequestTime
      /\ CleanupNamespace[1].cap = PollingTimeout
  BY DEF DeleteObject, WaitDeleted, DeletePV, UninstallK6, CleanupNamespace, Step
<1>2. PICK n \in 5 .. 11 : n = Len(k)
  <2>1. 5 \in 5 .. 11 /\ 6 \in 5 .. 11 /\ 11 \in 5 .. 11
    OBVIOUS
  <2>2. Len(k) \in 5 .. 11
    BY <2>1, KindShape DEF AllKinds
  <2> QED
    BY <2>2
<1>3. p \in 1 .. n /\ p \in 1 .. 11
  <2>1. p \in 1 .. n
    BY <1>2
  <2> QED
    BY <2>1, <1>2
<1>4. CASE p = 1
  BY <1>1, <1>4, KindShape, DurationsAreNat
<1>5. CASE p \in 2 .. 4
  <2>1. p = 2 \/ p = 3 \/ p = 4
    BY <1>5
  <2>2. k[p] = WaitDeleted
    BY <2>1, KindShape
  <2> QED
    BY <1>1, <1>5, <2>2, DurationsAreNat
<1>6. CASE p \in 5 .. 11
  <2>1. CASE k = Chaos
    BY <1>1, <1>2, <1>6, <2>1, KindShape, DurationsAreNat
  <2>2. CASE k = Load
    <3>1. p = 5 \/ p = 6
      BY <1>6, <2>2, KindShape
    <3> QED
      BY <1>1, <1>2, <2>2, <3>1, KindShape, DurationsAreNat
  <2>3. CASE k = NFSLoad
    <3>1. p \in 5 .. 9 \/ p = 10 \/ p = 11
      BY <1>6
    <3>2. CASE p \in 5 .. 9
      <4>1. k[p] = DeletePV
        BY <2>3, <3>2, KindShape
      <4> QED
        BY <1>1, <2>3, <3>2, <4>1
    <3>3. CASE p = 10
      BY <1>1, <2>3, <3>3, KindShape, DurationsAreNat
    <3>4. CASE p = 11
      BY <1>1, <1>2, <2>3, <3>4, KindShape, DurationsAreNat
    <3> QED
      BY <3>1, <3>2, <3>3, <3>4
  <2> QED
    BY <2>1, <2>2, <2>3 DEF AllKinds
<1> QED
  BY <1>3, <1>4, <1>5, <1>6
-----------------------------------------------------------------------------
(* Types, and the exports of one cleanup *)

(* The part of the type invariant that does not speak of the clock.        *)
ExportShape ==
  /\ tries \in Attempts
  /\ job \in [Attempts -> JobState]

(* Exports before the last have failed, later ones are not begun, the last *)
(* is begun by StartExport alone, and the archive that is downloaded is of *)
(* a job that was completed.                                               *)
ExportOrder ==
  /\ \A i \in Attempts : i < tries => job[i] = "failed"
  /\ \A i \in Attempts : i > tries => job[i] = "none"
  /\ pc = "start" => job[tries] = "none"
  /\ pc = "download" => job[tries] = "completed"
  /\ "metrics" \in attached =>
       pc \notin {"start", "poll", "download"} /\ job[tries] = "completed"

ExportInv == ExportShape /\ ExportOrder

(* A job that has failed or was not begun is left as it is by vmgather,    *)
(* and a job that has ended is not touched again.                          *)
LEMMA ExportInductive ==
  ASSUME ExportInv, [Next]_vars
  PROVE  ExportInv'
<1> USE DEF ExportInv, ExportShape, ExportOrder
<1>1. tries \in Nat /\ vmGatherExportAttempts \in Nat
  BY DurationsAreNat DEF Attempts
<1>2. ASSUME UNCHANGED export, UNCHANGED attached,
             pc' = pc \/ pc' \notin {"start", "download"}, 
             pc \notin {"start", "poll", "download"} =>
               pc' \notin {"start", "poll", "download"}
      PROVE  ExportInv'
  BY <1>2 DEF export
<1>3. CASE StartExport
  <2>1. /\ pc = "start" /\ pc' \in {"poll", "logs"} /\ UNCHANGED <<tries, attached>>
        /\ job' = [job EXCEPT ![tries] = "running"] \/ job' = job
    BY <1>3 DEF StartExport, Hang
  <2>2. "metrics" \notin attached
    BY <2>1
  <2> QED
    BY <2>1, <2>2, <1>1 DEF JobState, Attempts
<1>4. ASSUME NEW outcome \in {"completed", "failed"}, JobEnds(outcome)
      PROVE  ExportInv'
  <2>1. /\ job[tries] = "running" /\ job' = [job EXCEPT ![tries] = outcome]
        /\ UNCHANGED <<pc, tries, attached>>
    BY <1>4 DEF JobEnds
  <2> QED
    BY <2>1, <1>1 DEF JobState, Attempts
<1>5. CASE StatusSeen
  <2>1. CASE job[tries] = "completed" /\ pc' \in {"download", "logs"} /\ tries' = tries
    BY <1>5, <2>1 DEF StatusSeen
  <2>2. CASE job[tries] = "failed" /\ Retry
    <3>1. /\ pc = "poll" /\ UNCHANGED <<job, attached>>
      BY <1>5 DEF StatusSeen
    <3>2. "metrics" \notin attached
      BY <3>1
    <3>3. CASE tries < vmGatherExportAttempts
      <4>1. tries' = tries + 1 /\ pc' = "start" /\ tries + 1 \in Attempts
        BY <2>2, <3>3, <1>1 DEF Retry, Attempts
      <4>2. \A i \in Attempts : i < tries + 1 => i < tries \/ i = tries
        BY <1>1 DEF Attempts
      <4>3. \A i \in Attempts : i > tries + 1 => i > tries
        BY <1>1 DEF Attempts
      <4>4. job[tries + 1] = "none"
        BY <4>1, <1>1
      <4> QED
        BY <2>2, <3>1, <3>2, <4>1, <4>2, <4>3, <4>4
    <3>4. CASE ~(tries < vmGatherExportAttempts)
      BY <2>2, <3>1, <3>2, <3>4 DEF Retry
    <3> QED
      BY <3>3, <3>4
  <2> QED
    BY <1>5, <2>1, <2>2 DEF StatusSeen
<1>6. CASE PollOn
  BY <1>2, <1>6 DEF PollOn
<1>7. CASE PollEnds
  BY <1>2, <1>7 DEF PollEnds
<1>8. CASE Download
  <2>1. /\ pc = "download" /\ pc' = "logs" /\ UNCHANGED <<tries, job>>
        /\ attached' = attached \cup {"metrics"} \/ attached' = attached
    BY <1>8 DEF Download, Hang, export
  <2> QED
    BY <2>1
<1>9. CASE VLAfterAll
  <2>1. /\ pc = "logs" /\ pc' = "list" /\ UNCHANGED <<tries, job>>
        /\ attached' = attached \cup {"logs"} \/ attached' = attached
    BY <1>9 DEF VLAfterAll, export
  <2> QED
    BY <2>1
<1>10. CASE ListNamespaces
  BY <1>2, <1>10 DEF ListNamespaces
<1>11. CASE Dump
  <2>1. /\ pc = "dump" /\ pc' = "teardown" /\ UNCHANGED <<tries, job>>
        /\ attached' = attached \cup {"dump"} \/ attached' = attached
    BY <1>11 DEF Dump, export
  <2> QED
    BY <2>1
<1>12. CASE StepDone
  BY <1>2, <1>12 DEF StepDone
<1>13. CASE StepFails
  BY <1>2, <1>13 DEF StepFails, InTeardown
<1>14. CASE StepHangs
  BY <1>2, <1>14 DEF StepHangs
<1>15. CASE Abandon
  BY <1>2, <1>15 DEF Abandon
<1>16. CASE TeardownEnds
  BY <1>2, <1>16 DEF TeardownEnds
<1>17. CASE UNCHANGED vars
  BY <1>2, <1>17 DEF vars
<1> QED
  BY <1>3, <1>4, <1>5, <1>6, <1>7, <1>8, <1>9, <1>10, <1>11, <1>12, <1>13, <1>14,
     <1>15, <1>16, <1>17 DEF Next, GatherStep

(* For every number of attempts and every timeout: an export is started    *)
(* again only when the one before it has failed, and metrics in the report *)
(* are of the last export, which was completed.                            *)
THEOREM ExportsInOrder == Spec => []ExportsFollowEachOther
<1>1. Init => ExportInv
  <2> SUFFICES ASSUME Init PROVE ExportInv
    OBVIOUS
  <2>1. tries = 1 /\ job = [i \in Attempts |-> "none"] /\ attached = {}
        /\ pc \in {"start", "teardown"}
    BY DEF Init, Attempts
  <2>2. 1 \in Attempts /\ \A i \in Attempts : ~(i < 1)
    BY DurationsAreNat DEF Attempts
  <2> QED
    BY <2>1, <2>2 DEF ExportInv, ExportShape, ExportOrder, JobState
<1>2. ExportInv /\ [Next]_vars => ExportInv'
  BY ExportInductive
<1>3. ExportInv => ExportsFollowEachOther
  <2> SUFFICES ASSUME ExportInv PROVE ExportsFollowEachOther
    OBVIOUS
  <2>1. \A i \in 1 .. tries - 1 : i \in Attempts /\ i < tries
    BY DurationsAreNat DEF ExportInv, ExportShape, Attempts
  <2> QED
    BY <2>1 DEF ExportInv, ExportOrder, ExportsFollowEachOther
<1> QED
  BY <1>1, <1>2, <1>3, PTL DEF Spec
-----------------------------------------------------------------------------
(* Types *)

(* A pause between two exports, as long as there are few of them.          *)
LEMMA BackoffIsSmall ==
  ASSUME FewAttempts, NEW n \in Attempts, n < vmGatherExportAttempts
  PROVE  (n = 1 /\ Backoff(n) = 1) \/ (n = 2 /\ Backoff(n) = 2)
<1>1. n = 1 \/ n = 2
  BY DurationsAreNat DEF FewAttempts, Attempts
<1>2. Backoff(1) = 1 /\ Backoff(2) = 2
  BY DEF Backoff
<1>3. CASE n = 1
  BY <1>3, <1>2
<1>4. CASE n = 2
  BY <1>4, <1>2
<1> QED
  BY <1>1, <1>3, <1>4

(* The clock of the node never passes its timeout.                         *)
LEMMA ClockIsCapped ==
  ASSUME NEW e \in 0 .. GatherCleanupTimeout, NEW d \in Nat
  PROVE  /\ Smaller(e + d, GatherCleanupTimeout) \in 0 .. GatherCleanupTimeout
         /\ Smaller(e + d, GatherCleanupTimeout) <= e + d
         /\ Larger(e, Smaller(d, GatherCleanupTimeout)) \in 0 .. GatherCleanupTimeout
         /\ Larger(e, Smaller(d, GatherCleanupTimeout)) <= Larger(e, d)
BY DurationsAreNat DEF Smaller, Larger

(* The step the teardown is at is one of its own, and has a cap.           *)
LEMMA StepIsOfTeardown ==
  ASSUME TypeOK, InTeardown
  PROVE  /\ kind \in AllKinds /\ pos \in 1 .. Len(kind) /\ step.cap \in Nat
         /\ pos + 1 \in 1 .. Len(kind) + 1
<1>1. kind \in AllKinds /\ Len(kind) \in Nat
  BY KindAssumption, KindShape DEF TypeOK, AllKinds
<1>2. pos \in 1 .. Len(kind) /\ pos + 1 \in 1 .. Len(kind) + 1
  BY <1>1 DEF TypeOK, InTeardown
<1> QED
  BY <1>1, <1>2, StepCap DEF step

(* Every step keeps every variable in its type.                            *)
LEMMA TypeInductive ==
  ASSUME FewAttempts, TypeOK, [Next]_vars
  PROVE  TypeOK'
<1> DEFINE Clock == 0 .. GatherCleanupTimeout
<1>0. /\ GatherCleanupTimeout \in Clock
      /\ elapsed \in Clock /\ limit \in Nat
      /\ \A d \in Nat : After(d) \in Clock /\ Until(d) \in Clock
      /\ \A d \in Nat : elapsed + d \in Nat
  <2>1. GatherCleanupTimeout \in Clock /\ elapsed \in Clock /\ limit \in Nat
    BY DurationsAreNat DEF TypeOK
  <2>2. ASSUME NEW d \in Nat PROVE After(d) \in Clock /\ Until(d) \in Clock
    BY <2>1, ClockIsCapped DEF After, Until
  <2>3. \A d \in Nat : elapsed + d \in Nat
    BY <2>1
  <2> QED
    BY <2>1, <2>2, <2>3
<1>1. /\ ExportTimeout \in Nat /\ ResourceWaitTimeout \in Nat
  BY DurationsAreNat
<1>c. Call => elapsed' \in Clock
  BY <1>0, DurationsAreNat DEF Call
<1>n. \A e \in Clock : e + ExportTimeout \in Nat
  BY <1>1, DurationsAreNat
<1> HIDE DEF Clock
<1>2. CASE StartExport
  <2>1. pc' \in {"poll", "logs"} /\ elapsed' \in Clock
    BY <1>0, <1>2, <1>c DEF StartExport, Hang
  <2>5. limit' \in Nat
    BY <1>0, <1>2, <1>n, <2>1 DEF StartExport
  <2>2. job' = [job EXCEPT ![tries] = "running"] \/ job' = job
    BY <1>2 DEF StartExport
  <2>3. hung' \in BOOLEAN /\ failed' \in BOOLEAN
    BY <1>2 DEF StartExport, Hang, TypeOK
  <2>4. UNCHANGED <<kind, pos, tries, attached>>
    BY <1>2 DEF StartExport
  <2> QED
    BY <2>1, <2>2, <2>3, <2>4, <2>5 DEF TypeOK, Gathering, Clock
<1>3. ASSUME NEW outcome \in {"completed", "failed"}, JobEnds(outcome)
      PROVE  TypeOK'
  BY <1>3 DEF JobEnds, TypeOK
<1>4. CASE StatusSeen
  <2>1. UNCHANGED <<kind, pos, limit, job, attached, failed, hung>>
    BY <1>4 DEF StatusSeen
  <2>2. /\ pc' \in {"download", "logs", "start"} /\ tries' \in Attempts
        /\ elapsed' \in Clock
    <3>1. CASE pc' \in {"download", "logs"} /\ UNCHANGED <<tries, elapsed>>
      BY <3>1, <1>0 DEF TypeOK, Attempts
    <3>2. CASE Retry
      <4>1. CASE tries < vmGatherExportAttempts
        <5>1. Backoff(tries) \in Nat
          BY <4>1, BackoffIsSmall DEF TypeOK, Attempts
        <5>2. tries + 1 \in Attempts
          BY <4>1, DurationsAreNat DEF TypeOK, Attempts
        <5> QED
          BY <3>2, <4>1, <5>1, <5>2, <1>0 DEF Retry
      <4>2. CASE ~(tries < vmGatherExportAttempts)
        BY <3>2, <4>2, <1>0 DEF Retry, TypeOK, Attempts
      <4> QED
        BY <4>1, <4>2
    <3> QED
      BY <1>4, <3>1, <3>2 DEF StatusSeen
  <2> QED
    BY <2>1, <2>2 DEF TypeOK, Gathering, Clock, Attempts
<1>5. CASE PollOn
  <2>1. elapsed' \in Clock
    BY <1>0, <1>5 DEF PollOn
  <2> QED
    BY <1>5, <2>1 DEF PollOn, TypeOK, Clock, export
<1>6. CASE PollEnds
  BY <1>6 DEF PollEnds, TypeOK, Gathering, export
<1>7. CASE Download
  <2>1. /\ pc' = "logs" /\ elapsed' \in Clock /\ UNCHANGED <<kind, pos, limit, export>>
        /\ attached' \subseteq {"metrics", "logs", "dump"}
    BY <1>0, <1>7, <1>c DEF Download, Hang, TypeOK
  <2>2. hung' \in BOOLEAN /\ failed' \in BOOLEAN
    BY <1>7 DEF Download, Hang, TypeOK
  <2> QED
    BY <2>1, <2>2 DEF TypeOK, Gathering, Clock, export
<1>8. CASE VLAfterAll
  <2>1. /\ pc' = "list" /\ elapsed' \in Clock
        /\ UNCHANGED <<kind, pos, limit, export, failed, hung>>
    BY <1>0, <1>1, <1>8 DEF VLAfterAll
  <2>2. attached' \subseteq {"metrics", "logs", "dump"}
    BY <1>8 DEF VLAfterAll, TypeOK
  <2> QED
    BY <2>1, <2>2 DEF TypeOK, Gathering, Clock, export
<1>9. CASE ListNamespaces
  <2>1. /\ pc' \in {"dump", "over"} /\ limit' \in Nat /\ elapsed' \in Clock
        /\ UNCHANGED <<kind, pos, export, attached, hung>>
    BY <1>0, <1>1, <1>9, <1>c DEF ListNamespaces
  <2>2. failed' \in BOOLEAN
    BY <1>9 DEF ListNamespaces, TypeOK
  <2> QED
    BY <2>1, <2>2 DEF TypeOK, Gathering, export, Clock
<1>10. CASE Dump
  <2>1. /\ pc' = "teardown" /\ elapsed' \in Clock
        /\ UNCHANGED <<kind, pos, limit, export, failed, hung>>
    BY <1>0, <1>10 DEF Dump
  <2>2. attached' \subseteq {"metrics", "logs", "dump"}
    BY <1>10 DEF Dump, TypeOK
  <2> QED
    BY <2>1, <2>2 DEF TypeOK, Clock, export
<1>11. CASE StepDone
  <2>1. /\ pos' \in 1 .. Len(kind) + 1 /\ elapsed' \in Clock
        /\ UNCHANGED <<kind, pc, limit, export, attached, failed, hung>>
    BY <1>0, <1>11, StepIsOfTeardown DEF StepDone
  <2> QED
    BY <2>1 DEF TypeOK, Clock, export
<1>12. CASE StepFails
  <2>1. /\ elapsed' \in Clock /\ UNCHANGED <<kind, limit, export, attached, hung>>
    BY <1>0, <1>12, StepIsOfTeardown DEF StepFails
  <2>2. /\ pos' \in 1 .. Len(kind) + 1
        /\ pc' \in Gathering \cup {"teardown", "over", "abandoned"}
    BY <1>12, StepIsOfTeardown DEF StepFails, TypeOK
  <2>3. failed' \in BOOLEAN
    BY <1>12 DEF StepFails, TypeOK
  <2> QED
    BY <2>1, <2>2, <2>3 DEF TypeOK, Clock, export
<1>13. CASE StepHangs
  <2>1. /\ elapsed' \in Clock /\ hung' = TRUE
        /\ UNCHANGED <<kind, pc, pos, limit, export, attached, failed>>
    BY <1>0, <1>13 DEF StepHangs
  <2> QED
    BY <2>1 DEF TypeOK, Clock, export
<1>14. CASE Abandon
  BY <1>14 DEF Abandon, TypeOK, export
<1>15. CASE TeardownEnds
  BY <1>15 DEF TeardownEnds, TypeOK, export
<1>16. CASE UNCHANGED vars
  BY <1>16 DEF vars, export, TypeOK
<1> QED
  BY <1>2, <1>3, <1>4, <1>5, <1>6, <1>7, <1>8, <1>9, <1>10, <1>11, <1>12, <1>13, <1>14,
     <1>15, <1>16 DEF Next, GatherStep

(* The node begins in its types.                                           *)
LEMMA TypeAtInit == Init => TypeOK
<1> SUFFICES ASSUME Init PROVE TypeOK
  OBVIOUS
<1>1. kind \in AllKinds /\ Len(kind) \in Nat
  BY KindAssumption, KindShape DEF Init, AllKinds
<1>2. /\ 1 \in 1 .. Len(kind) + 1 /\ 0 \in 0 .. GatherCleanupTimeout /\ 0 \in Nat
      /\ 1 \in 1 .. vmGatherExportAttempts
  BY <1>1, DurationsAreNat
<1> QED
  BY <1>2 DEF Init, TypeOK, Gathering

(* Every variable keeps its type, for up to three attempts.                *)
THEOREM TypeCorrect == ASSUME FewAttempts PROVE Spec => []TypeOK
<1>1. Init => TypeOK
  BY TypeAtInit
<1>2. TypeOK /\ [Next]_vars => TypeOK'
  BY TypeInductive
<1> QED
  BY <1>1, <1>2, PTL DEF Spec

-----------------------------------------------------------------------------
(* The clock of the cleanup *)

(* All that gathering and a teardown without NFS volumes are allowed,      *)
(* added up: three exports and the pauses of 10 s and 20 s between them,   *)
(* logs and dump, three waits for the cluster to be gone, the deletion of  *)
(* the namespace, and the six calls without a limit: three starts, a       *)
(* download, two deletions.  With the code's values it says                *)
(* 309 + 6 * RequestTime < 324.  With volumes there are 15 more.           *)
TimeoutExceedsLimits ==
  (3 * ExportTimeout + 3) + 2 * ResourceWaitTimeout + 3 * VMClusterWaitTimeout
    + PollingTimeout + 6 * RequestTime < GatherCleanupTimeout

(* The most that can have passed when export number tries is started.      *)
Spent ==
  IF tries = 1 THEN 0
  ELSE IF tries = 2 THEN ExportTimeout + RequestTime + 1
  ELSE 2 * ExportTimeout + 2 * RequestTime + 3

PollLimit   == 3 * ExportTimeout + 3 * RequestTime + 3
ExportLimit == PollLimit + RequestTime
GatherLimit == ExportLimit + 2 * ResourceWaitTimeout

(* What the steps of a teardown before step p are allowed together.        *)
Allowed(p) ==
  IF p <= 1 THEN 0
  ELSE IF p = 2 THEN RequestTime
  ELSE IF p = 3 THEN RequestTime + VMClusterWaitTimeout
  ELSE IF p = 4 THEN RequestTime + 2 * VMClusterWaitTimeout
  ELSE IF p = 5 THEN RequestTime + 3 * VMClusterWaitTimeout
  ELSE IF kind # NFSLoad THEN 2 * RequestTime + 3 * VMClusterWaitTimeout
  ELSE IF p <= 10 THEN RequestTime + 3 * VMClusterWaitTimeout + 3 * (p - 5)
  ELSE 2 * RequestTime + 3 * VMClusterWaitTimeout + 15

(* The invariant behind NamespaceDeletionHasItsTime: where the node is     *)
(* bounds the time that has passed.                                        *)
OnTime ==
  /\ pc = "start" => elapsed <= Spent
  /\ pc = "poll" => elapsed <= limit /\ limit <= Spent + RequestTime + ExportTimeout
  /\ pc = "download" => elapsed <= PollLimit
  /\ pc = "logs" => elapsed <= ExportLimit
  /\ pc = "list" => elapsed <= ExportLimit + ResourceWaitTimeout
  /\ pc = "dump" => elapsed <= GatherLimit /\ limit <= GatherLimit
  /\ pc = "teardown" /\ pos <= Len(kind) => elapsed <= GatherLimit + Allowed(pos)

OnTimeInv == TypeOK /\ (~hung => OnTime)

(* The whole of it is three waits, two calls and, with volumes, five       *)
(* deletions of 30 s.                                                      *)
LEMMA AllowedIsBounded ==
  ASSUME NEW p \in Nat
  PROVE  /\ Allowed(p) \in Nat
         /\ Allowed(p) <= 2 * RequestTime + 3 * VMClusterWaitTimeout
                            + (IF kind = NFSLoad THEN 15 ELSE 0)
<1>1. VMClusterWaitTimeout \in Nat /\ RequestTime \in Nat
  BY DurationsAreNat
<1>2. CASE p <= 5
  BY <1>1, <1>2 DEF Allowed
<1>3. CASE p > 5 /\ kind # NFSLoad
  BY <1>1, <1>3 DEF Allowed
<1>4. CASE p > 5 /\ kind = NFSLoad
  BY <1>1, <1>4 DEF Allowed
<1> QED
  BY <1>2, <1>3, <1>4

(* What a step of the teardown is allowed is what Allowed grows by.        *)
LEMMA AllowedGrows ==
  ASSUME TypeOK, InTeardown, pos + 1 <= Len(kind)
  PROVE  Allowed(pos) + step.cap <= Allowed(pos + 1) /\ Allowed(pos) <= Allowed(pos + 1)
<1>1. kind \in AllKinds /\ pos \in 1 .. Len(kind) /\ Len(kind) \in Nat
  BY StepIsOfTeardown, KindShape DEF AllKinds
<1>2. pos < Len(kind)
  BY <1>1
<1>3. \/ pos = 1 /\ step.cap = RequestTime
      \/ pos \in 2 .. 4 /\ step.cap = VMClusterWaitTimeout
      \/ kind = Load /\ pos = 5 /\ step.cap = RequestTime
      \/ kind = NFSLoad /\ pos \in 5 .. 9 /\ step.cap = 3
      \/ kind = NFSLoad /\ pos = 10 /\ step.cap = RequestTime
  BY <1>1, <1>2, StepCap DEF step
<1>4. PICK c : c = step.cap
  OBVIOUS
<1>5. VMClusterWaitTimeout \in Nat /\ RequestTime \in Nat
  BY DurationsAreNat
<1>6. CASE pos = 1 /\ c = RequestTime
  BY <1>4, <1>5, <1>6 DEF Allowed
<1>7. CASE pos \in 2 .. 4 /\ c = VMClusterWaitTimeout
  BY <1>4, <1>5, <1>7 DEF Allowed
<1>8. CASE kind = Load /\ pos = 5 /\ c = RequestTime
  <2>1. kind # NFSLoad
    BY <1>8, KindShape
  <2> QED
    BY <1>4, <1>5, <1>8, <2>1 DEF Allowed
<1>9. CASE kind = NFSLoad /\ pos \in 5 .. 9 /\ c = 3
  BY <1>4, <1>5, <1>9 DEF Allowed
<1>10. CASE kind = NFSLoad /\ pos = 10 /\ c = RequestTime
  BY <1>4, <1>5, <1>10 DEF Allowed
<1> QED
  BY <1>3, <1>4, <1>6, <1>7, <1>8, <1>9, <1>10

(* Every step that does not hang keeps the node on time.                   *)
LEMMA OnTimeInductive ==
  ASSUME FewAttempts, OnTimeInv, TypeOK', [Next]_vars
  PROVE  OnTimeInv'
<1> SUFFICES ASSUME ~hung' PROVE OnTime'
  BY DEF OnTimeInv
<1> DEFINE E == ExportTimeout  R == ResourceWaitTimeout  V == VMClusterWaitTimeout
           Q == RequestTime
<1>0. /\ E \in Nat /\ R \in Nat /\ V \in Nat /\ GatherCleanupTimeout \in Nat
      /\ Q \in Nat /\ Q <= R
  BY DurationsAreNat
<1>1. elapsed \in Nat /\ limit \in Nat /\ elapsed \in 0 .. GatherCleanupTimeout
  BY <1>0 DEF OnTimeInv, TypeOK
<1>2. /\ tries \in 1 .. 3 /\ Spent \in Nat /\ Spent + Q + E <= PollLimit
      /\ PollLimit \in Nat /\ ExportLimit = PollLimit + Q /\ ExportLimit \in Nat
      /\ GatherLimit = ExportLimit + 2 * R
  <2>1. tries \in 1 .. 3
    BY DurationsAreNat DEF OnTimeInv, TypeOK, FewAttempts
  <2>2. Spent \in Nat /\ Spent + Q + E <= PollLimit
    BY <1>0, <2>1 DEF Spent, PollLimit, E, Q
  <2>3. /\ PollLimit \in Nat /\ ExportLimit = PollLimit + Q /\ ExportLimit \in Nat
        /\ GatherLimit = ExportLimit + 2 * R
    BY <1>0 DEF PollLimit, ExportLimit, GatherLimit, E, R, Q
  <2> QED
    BY <2>1, <2>2, <2>3
<1>3. \A d \in Nat : After(d) <= elapsed + d /\ Until(d) <= Larger(elapsed, d)
  BY <1>1, ClockIsCapped DEF After, Until
<1>4. \A d \in Nat : After(d) \in Nat /\ Until(d) \in Nat
  BY <1>0, <1>1, ClockIsCapped DEF After, Until
<1>c. Call => elapsed' \in Nat /\ elapsed' <= elapsed + Q
  BY <1>0, <1>1, <1>3, <1>4 DEF Call
<1>p. PollLimit' = PollLimit /\ ExportLimit' = ExportLimit /\ GatherLimit' = GatherLimit
  BY DEF PollLimit, ExportLimit, GatherLimit
<1> HIDE DEF E, R, V, Q
<1>5. hung' = hung
  <2>1. hung' = TRUE \/ hung' = hung
    BY DEF Next, GatherStep, StartExport, Hang, JobEnds, StatusSeen, PollOn, PollEnds,
           Download, VLAfterAll, ListNamespaces, Dump, StepDone, StepFails, StepHangs,
           Abandon, TeardownEnds, vars
  <2> QED
    BY <2>1
<1>6. OnTime
  BY <1>5 DEF OnTimeInv
<1>7. CASE StartExport
  <2>1. pc = "start" /\ Call /\ UNCHANGED tries
    BY <1>5, <1>7 DEF StartExport, Hang
  <2>2. Spent' = Spent /\ elapsed <= Spent /\ elapsed' <= Spent + Q /\ elapsed' \in Nat
    <3>1. Spent' = Spent /\ elapsed <= Spent
      BY <2>1, <1>6 DEF Spent, OnTime
    <3> QED
      BY <2>1, <3>1, <1>0, <1>1, <1>2, <1>c
  <2>3. CASE pc' = "poll" /\ limit' = elapsed' + ExportTimeout
    <3>1. limit' = elapsed' + E
      BY <2>3 DEF E
    <3>2. elapsed' <= limit' /\ limit' <= Spent + Q + E
      <4>1. \A a, b, c, d \in Nat : a <= b + c => a <= a + d /\ a + d <= b + c + d
        OBVIOUS
      <4> QED
        BY <2>2, <3>1, <4>1, <1>0, <1>2
    <3>3. limit' <= Spent' + RequestTime + ExportTimeout
      BY <2>2, <3>2 DEF E, Q
    <3> QED
      BY <2>3, <3>2, <3>3 DEF OnTime
  <2>4. CASE pc' = "logs"
    <3>1. elapsed' <= ExportLimit
      BY <2>2, <1>0, <1>1, <1>2
    <3> QED
      BY <2>4, <3>1, <1>p DEF OnTime
  <2> QED
    BY <1>5, <1>7, <2>3, <2>4 DEF StartExport, Hang
<1>8. CASE StatusSeen
  <2>1. pc = "poll" /\ elapsed <= Spent + Q + E
    BY <1>0, <1>1, <1>2, <1>6, <1>8 DEF StatusSeen, OnTime, E, Q
  <2>2. CASE pc' \in {"download", "logs"} /\ UNCHANGED <<tries, elapsed>>
    <3>1. elapsed' <= PollLimit /\ elapsed' <= ExportLimit
      BY <2>1, <2>2, <1>0, <1>1, <1>2
    <3> QED
      BY <2>2, <3>1, <1>p DEF OnTime
  <2>3. CASE tries < vmGatherExportAttempts /\ Retry
    <3>1. tries' = tries + 1 /\ pc' = "start" /\ elapsed' = After(Backoff(tries))
      BY <2>3 DEF Retry
    <3>2. PICK b \in 1 .. 2 : b = Backoff(tries) /\ tries = b
      BY <2>3, BackoffIsSmall DEF OnTimeInv, TypeOK, Attempts
    <3>3. elapsed' <= elapsed + b /\ elapsed' \in Nat
      BY <3>1, <3>2, <1>3, <1>4
    <3>4. elapsed' <= Spent'
      BY <2>1, <3>1, <3>2, <3>3, <1>0, <1>1 DEF Spent, E, Q
    <3> QED
      BY <3>1, <3>4 DEF OnTime
  <2> QED
    BY <1>8, <2>2, <2>3 DEF StatusSeen, Retry
<1>9. CASE PollOn
  <2>1. pc = "poll" /\ pc' = pc /\ elapsed' = Until(limit) /\ UNCHANGED <<limit, tries>>
    BY <1>9 DEF PollOn, export
  <2>2. Spent' = Spent /\ elapsed' <= limit'
    BY <2>1, <1>1, <1>3, <1>4, <1>6 DEF Spent, Larger, OnTime
  <2> QED
    BY <2>1, <2>2, <1>6 DEF OnTime
<1>10. CASE PollEnds
  <2>1. pc = "poll" /\ pc' = "logs" /\ elapsed' = elapsed
    BY <1>10 DEF PollEnds
  <2>2. elapsed <= Spent + Q + E
    BY <1>0, <1>1, <1>2, <1>6, <2>1 DEF OnTime, E, Q
  <2>3. elapsed' <= ExportLimit
    BY <2>1, <2>2, <1>0, <1>1, <1>2
  <2> QED
    BY <2>1, <2>3, <1>p DEF OnTime
<1>11. CASE Download
  <2>1. pc = "download" /\ pc' = "logs" /\ Call
    BY <1>5, <1>11 DEF Download, Hang
  <2>2. elapsed' <= ExportLimit
    BY <2>1, <1>0, <1>1, <1>2, <1>6, <1>c DEF OnTime
  <2> QED
    BY <2>1, <2>2, <1>p DEF OnTime
<1>12. CASE VLAfterAll
  <2>1. /\ pc = "logs" /\ pc' = "list"
        /\ elapsed' = elapsed \/ elapsed' = After(ResourceWaitTimeout)
    BY <1>12 DEF VLAfterAll
  <2>2. elapsed' <= elapsed + R
    BY <2>1, <1>0, <1>1, <1>3 DEF R
  <2>3. elapsed' \in Nat
    BY <2>1, <1>0, <1>1, <1>4 DEF R
  <2>4. elapsed' <= ExportLimit + ResourceWaitTimeout
    BY <2>1, <2>2, <2>3, <1>0, <1>1, <1>2, <1>6 DEF OnTime, R
  <2> QED
    BY <2>1, <2>4, <1>p DEF OnTime
<1>13. CASE ListNamespaces
  <2>1. /\ pc = "list" /\ Call /\ elapsed <= ExportLimit + R
        /\ limit' = elapsed + R
    BY <1>13, <1>6 DEF ListNamespaces, OnTime, R
  <2>2. CASE pc' = "dump"
    <3>1. elapsed' <= GatherLimit /\ limit' <= GatherLimit
      BY <2>1, <1>0, <1>1, <1>2, <1>c
    <3> QED
      BY <2>2, <3>1, <1>p DEF OnTime
  <2>3. CASE pc' = "over"
    BY <2>3 DEF OnTime
  <2> QED
    BY <1>13, <2>2, <2>3 DEF ListNamespaces
<1>14. CASE Dump
  <2>1. /\ pc = "dump" /\ pc' = "teardown"
        /\ elapsed' = elapsed \/ elapsed' = Until(limit)
    BY <1>14 DEF Dump
  <2>2. elapsed' <= GatherLimit' /\ elapsed' \in Nat /\ GatherLimit' \in Nat
    <3>1. elapsed <= GatherLimit /\ limit <= GatherLimit /\ GatherLimit \in Nat
      BY <2>1, <1>0, <1>2, <1>6 DEF OnTime
    <3>2. elapsed' \in Nat /\ elapsed' <= Larger(elapsed, limit)
      BY <2>1, <1>1, <1>3, <1>4 DEF Larger
    <3> QED
      BY <3>1, <3>2, <1>1, <1>p DEF Larger
  <2>3. Allowed(pos)' \in Nat
    <3>1. Allowed(pos)' = Allowed(pos)
      BY <1>14 DEF Dump, Allowed
    <3>2. pos \in Nat
      BY DEF OnTimeInv, TypeOK
    <3> QED
      BY <3>1, <3>2, AllowedIsBounded
  <2>4. elapsed' <= GatherLimit' + Allowed(pos)'
    BY <2>2, <2>3
  <2> QED
    BY <2>1, <2>4 DEF OnTime
<1>15. ASSUME InTeardown, pc' = "teardown", pos' = pos + 1, kind' = kind,
              elapsed' \in {elapsed, After(step.cap)}
       PROVE  OnTime'
  <2>1. SUFFICES ASSUME pos + 1 <= Len(kind)
                 PROVE  elapsed' <= GatherLimit' + Allowed(pos + 1)
    <3>1. Allowed(pos)' = Allowed(pos + 1)
      BY <1>15 DEF Allowed
    <3> QED
      BY <1>15, <3>1 DEF OnTime
  <2>2. pos \in Nat /\ elapsed <= GatherLimit + Allowed(pos)
    BY <1>6, <1>15 DEF OnTime, InTeardown, OnTimeInv, TypeOK
  <2>3. Allowed(pos) + step.cap <= Allowed(pos + 1) /\ Allowed(pos) <= Allowed(pos + 1)
    BY <1>15, <2>1, AllowedGrows DEF OnTimeInv
  <2>4. step.cap \in Nat
    BY <1>15, StepIsOfTeardown DEF OnTimeInv
  <2>5. Allowed(pos) \in Nat /\ Allowed(pos + 1) \in Nat /\ GatherLimit \in Nat
    BY <2>2, <1>0, <1>2, AllowedIsBounded
  <2>6. GatherLimit' = GatherLimit
    BY <1>p
  <2>7. CASE elapsed' = elapsed
    BY <2>2, <2>3, <2>5, <2>6, <2>7, <1>1
  <2>8. CASE elapsed' = After(step.cap)
    <3>1. elapsed' <= elapsed + step.cap /\ elapsed' \in Nat
      BY <2>4, <2>8, <1>3, <1>4
    <3> QED
      BY <2>2, <2>3, <2>4, <2>5, <2>6, <3>1, <1>1
  <2> QED
    BY <1>15, <2>7, <2>8
<1>16. CASE StepDone
  <2>1. pc' = "teardown"
    BY <1>16 DEF StepDone, InTeardown
  <2> QED
    BY <1>15, <1>16, <2>1 DEF StepDone
<1>17. CASE StepFails
  <2>1. CASE step.fatal
    BY <1>17, <2>1 DEF StepFails, OnTime
  <2>2. CASE ~step.fatal
    <3>1. pc' = "teardown"
      BY <1>17, <2>2 DEF StepFails, InTeardown
    <3> QED
      BY <1>15, <1>17, <2>2, <3>1 DEF StepFails
  <2> QED
    BY <2>1, <2>2
<1>18. CASE StepHangs
  BY <1>18 DEF StepHangs
<1>19. CASE Abandon
  BY <1>19 DEF Abandon, OnTime
<1>20. CASE TeardownEnds
  BY <1>20 DEF TeardownEnds, OnTime
<1>21. ASSUME NEW outcome \in {"completed", "failed"}, JobEnds(outcome)
       PROVE  OnTime'
  BY <1>6, <1>21 DEF JobEnds, OnTime, Spent, Allowed, PollLimit, ExportLimit, GatherLimit
<1>22. CASE UNCHANGED vars
  BY <1>6, <1>22 DEF vars, export, OnTime, Spent, Allowed, PollLimit, ExportLimit,
                        GatherLimit
<1> QED
  BY <1>7, <1>8, <1>9, <1>10, <1>11, <1>12, <1>13, <1>14, <1>16, <1>17, <1>18, <1>19,
     <1>20, <1>21, <1>22 DEF Next, GatherStep

(* consts/main.go asks that the timeout of the node exceed the summed      *)
(* limits.  If it exceeds the sum TimeoutExceedsLimits writes down, with   *)
(* the calls that have no limit in it, a teardown without NFS volumes      *)
(* begins the deletion of the namespace with more than its PollingTimeout  *)
(* left unless a call hung.  The code's values satisfy the hypothesis for  *)
(* calls of up to 20 s.                                                    *)
THEOREM DeletionHasItsTime ==
  ASSUME FewAttempts, TimeoutExceedsLimits
  PROVE  Spec => []NamespaceDeletionHasItsTime
<1>1. Init => OnTimeInv
  <2> SUFFICES ASSUME Init, TypeOK PROVE OnTimeInv
    <3>1. Init => TypeOK
      BY TypeAtInit
    <3> QED
      BY <3>1
  <2>1. /\ ExportTimeout \in Nat /\ ResourceWaitTimeout \in Nat /\ RequestTime \in Nat
    BY DurationsAreNat
  <2>2. elapsed = 0 /\ pos = 1 /\ tries = 1 /\ pc \in {"start", "teardown"}
    BY DEF Init
  <2>3. 0 <= Spent /\ 0 <= GatherLimit + Allowed(1)
    BY <2>1, <2>2 DEF Spent, GatherLimit, ExportLimit, PollLimit, Allowed
  <2> QED
    BY <2>2, <2>3 DEF OnTimeInv, OnTime
<1>2. OnTimeInv /\ [Next]_vars => OnTimeInv'
  <2> SUFFICES ASSUME OnTimeInv, [Next]_vars PROVE OnTimeInv'
    OBVIOUS
  <2>1. TypeOK'
    BY TypeInductive DEF OnTimeInv
  <2> QED
    BY <2>1, OnTimeInductive
<1>3. OnTimeInv => NamespaceDeletionHasItsTime
  <2> SUFFICES ASSUME OnTimeInv, kind # NFSLoad, pc = "teardown", pos = Len(kind), ~hung
               PROVE  elapsed + PollingTimeout < GatherCleanupTimeout
    BY DEF NamespaceDeletionHasItsTime, TimeoutExceedsSummedCaps
  <2>1. /\ ExportTimeout \in Nat /\ ResourceWaitTimeout \in Nat
        /\ VMClusterWaitTimeout \in Nat /\ PollingTimeout \in Nat
        /\ GatherCleanupTimeout \in Nat /\ RequestTime \in Nat
    BY DurationsAreNat
  <2>2. pos \in 5 .. 11 /\ elapsed \in Nat
    <3>1. 5 \in 5 .. 11 /\ 6 \in 5 .. 11 /\ 11 \in 5 .. 11
      OBVIOUS
    <3>2. Len(kind) \in 5 .. 11
      BY <3>1, KindAssumption, KindShape DEF OnTimeInv, TypeOK, AllKinds
    <3>3. elapsed \in Nat
      BY <2>1 DEF OnTimeInv, TypeOK
    <3> QED
      BY <3>2, <3>3
  <2>3. elapsed <= GatherLimit + Allowed(pos)
    <3>1. pos <= Len(kind)
      BY <2>2
    <3> QED
      BY <3>1 DEF OnTimeInv, OnTime
  <2>4. /\ Allowed(pos) \in Nat
        /\ Allowed(pos) <= 2 * RequestTime + 3 * VMClusterWaitTimeout
    <3>1. pos \in Nat
      BY <2>2
    <3> QED
      BY <2>1, <3>1, AllowedIsBounded
  <2> QED
    BY <2>1, <2>2, <2>3, <2>4 DEF TimeoutExceedsLimits, GatherLimit, ExportLimit, PollLimit
<1> QED
  BY <1>1, <1>2, <1>3, PTL DEF Spec
=============================================================================
