---------------------- MODULE ScenarioLifecycle_proofs ----------------------
(***************************************************************************)
(* Proofs about ScenarioLifecycle, for every set of scenarios, every       *)
(* number of attempts and of runs: what an earlier run has labelled is     *)
(* gone when specs run, remoteWrite is of this run, a scenario that is     *)
(* over has left nothing behind unless its cleanup failed, and a chaos     *)
(* scenario that passes has recovered.                                     *)
(***************************************************************************)
EXTENDS ScenarioLifecycle, TLAPS

-----------------------------------------------------------------------------
(* The programs of the scenarios, step by step *)

OtherSteps == {"check", "install", "remoteWrite", "applyChaos", "waitChaos",
               "installK6", "installNFS", "k6"}
Removers == {"cleanupNs", "uninstallK6", "deleteNFS"}

(* A body is Prepare at offset o, and other steps around it.               *)
Prepared(b, o) ==
  /\ b[o + 1] = "defer" /\ b[o + 2] = "deleteNs" /\ b[o + 3] = "createNs"
  /\ b[o + 4] = "goldilocks" /\ b[o + 5] = "label"
  /\ \A i \in 1 .. Len(b) : i <= o => b[i] = "check"
  /\ \A i \in 1 .. Len(b) : i > o + 5 => b[i] \in OtherSteps

Has(q, x) == \E i \in 1 .. Len(q) : q[i] = x

(* What the proofs need to know of a program: it registers its cleanup     *)
(* before it makes anything, and its cleanup has a step for whatever its   *)
(* body makes.                                                             *)
Tidy(k) ==
  /\ Len(k.body) \in 9 .. 13 /\ Len(k.cleanup) \in 3 .. 5
  /\ \E o \in 0 .. 1 : Prepared(k.body, o)
  /\ \A i \in 1 .. Len(k.cleanup) : k.cleanup[i] \in {"gather", "deleteCluster"} \cup Removers
  /\ Has(k.cleanup, "cleanupNs")
  /\ Has(k.body, "installK6") => Has(k.cleanup, "uninstallK6")
  /\ Has(k.body, "installNFS") => Has(k.cleanup, "deleteNFS")

(* The chaos scenario of VictoriaMetrics.                                  *)
LEMMA VMChaosShape == Tidy(VMChaosScenario) /\ Has(VMChaosScenario.body, "waitChaos")
<1> DEFINE S == OtherSteps \cup {"defer", "deleteNs", "createNs", "goldilocks", "label"}
           p == <<"defer", "deleteNs", "createNs", "goldilocks", "label">>
           q == <<"check", "install", "remoteWrite", "check", "applyChaos", "check",
                  "waitChaos", "check">>
           b == VMChaosScenario.body
           c == VMChaosScenario.cleanup
<1>1. b = p \o q
  BY DEF VMChaosScenario, Prepare
<1>2. /\ p \in Seq(S) /\ 5 <= Len(p) /\ Len(p) <= 5
      /\ q \in Seq(S) /\ 8 <= Len(q) /\ Len(q) <= 8
  BY DEF OtherSteps
<1>3. /\ p[1] = "defer" /\ p[2] = "deleteNs" /\ p[3] = "createNs"
      /\ p[4] = "goldilocks" /\ p[5] = "label"
      /\ q[1] = "check" /\ q[2] = "install" /\ q[3] = "remoteWrite"
      /\ q[4] = "check" /\ q[5] = "applyChaos" /\ q[6] = "check" /\ q[7] = "waitChaos"
      /\ q[8] = "check"
  OBVIOUS
<1>4. c = <<"gather", "deleteCluster", "cleanupNs">>
  BY DEF VMChaosScenario
<1> HIDE DEF p, q, b, c, S
<1>7. Len(b) = 13
  BY <1>1, <1>2
<1>8. /\ b[1] = "defer" /\ b[2] = "deleteNs" /\ b[3] = "createNs"
      /\ b[4] = "goldilocks" /\ b[5] = "label"
  BY <1>1, <1>2, <1>3, SMTT(30)
<1>9. /\ b[6] = "check" /\ b[7] = "install" /\ b[8] = "remoteWrite"
      /\ b[9] = "check" /\ b[10] = "applyChaos" /\ b[11] = "check"
      /\ b[12] = "waitChaos" /\ b[13] = "check"
  BY <1>1, <1>2, <1>3, SMTT(30)
<1>10. /\ Len(c) = 3 /\ c[1] = "gather" /\ c[2] = "deleteCluster"
       /\ c[3] = "cleanupNs"
  BY <1>4
<1>11. \A i \in 1 .. 13 : i > 5 => i = 6 \/ i = 7 \/ i = 8 \/ i = 9 \/ i = 10 \/ i = 11 \/ i = 12 \/ i = 13
  OBVIOUS
<1>12. \A i \in 1 .. 13 : i = 1 \/ i = 2 \/ i = 3 \/ i = 4 \/ i = 5 \/ i = 6 \/ i = 7 \/ i = 8 \/ i = 9 \/
           i = 10 \/ i = 11 \/ i = 12 \/ i = 13
  OBVIOUS
<1>13. \A i \in 1 .. 3 : i = 1 \/ i = 2 \/ i = 3
  OBVIOUS
<1>14. Prepared(b, 0)
  <2>1. 0 + 1 = 1 /\ 0 + 2 = 2 /\ 0 + 3 = 3 /\ 0 + 4 = 4 /\ 0 + 5 = 5
    OBVIOUS
  <2>2. \A i \in 1 .. 13 : i > 5 => b[i] \in OtherSteps
    BY <1>9, <1>11, Zenon DEF OtherSteps
  <2>3. \A i \in 1 .. 13 : ~(i <= 0)
    OBVIOUS
  <2> QED
    BY <1>7, <1>8, <2>1, <2>2, <2>3 DEF Prepared
<1>15. \A i \in 1 .. 3 : c[i] \in {"gather", "deleteCluster"} \cup Removers
  BY <1>10, <1>13, Zenon DEF Removers
<1>16. /\ Has(c, "cleanupNs")
       /\ ~Has(b, "installK6")
       /\ ~Has(b, "installNFS")
  <2>1. 3 \in 1 .. 3
    OBVIOUS
  <2>2. Has(c, "cleanupNs")
    BY <1>10, <2>1 DEF Has
  <2>3. ~Has(b, "installK6")
    BY <1>7, <1>8, <1>9, <1>12 DEF Has
  <2>4. ~Has(b, "installNFS")
    BY <1>7, <1>8, <1>9, <1>12 DEF Has
  <2> QED
    BY <2>2, <2>3, <2>4
<1>17. Len(b) \in 9 .. 13 /\ Len(c) \in 3 .. 5 /\ 0 \in 0 .. 1
  BY <1>7, <1>10
<1>18. Tidy(VMChaosScenario)
  BY <1>7, <1>10, <1>14, <1>15, <1>16, <1>17, Zenon DEF Tidy, b, c
<1>19. Has(b, "waitChaos")
  <2>1. 12 \in 1 .. 13
    OBVIOUS
  <2> QED
    BY <2>1, <1>7, <1>9 DEF Has
<1> QED
  BY <1>18, <1>19 DEF b

(* The chaos scenario of VictoriaLogs.                                     *)
LEMMA VLChaosShape == Tidy(VLChaosScenario) /\ Has(VLChaosScenario.body, "waitChaos")
<1> DEFINE S == OtherSteps \cup {"defer", "deleteNs", "createNs", "goldilocks", "label"}
           p == <<"defer", "deleteNs", "createNs", "goldilocks", "label">>
           q == <<"install", "applyChaos", "waitChaos", "check">>
           b == VLChaosScenario.body
           c == VLChaosScenario.cleanup
<1>1. b = p \o q
  BY DEF VLChaosScenario, Prepare
<1>2. /\ p \in Seq(S) /\ 5 <= Len(p) /\ Len(p) <= 5
      /\ q \in Seq(S) /\ 4 <= Len(q) /\ Len(q) <= 4
  BY DEF OtherSteps
<1>3. /\ p[1] = "defer" /\ p[2] = "deleteNs" /\ p[3] = "createNs"
      /\ p[4] = "goldilocks" /\ p[5] = "label"
      /\ q[1] = "install" /\ q[2] = "applyChaos" /\ q[3] = "waitChaos"
      /\ q[4] = "check"
  OBVIOUS
<1>4. c = <<"gather", "deleteCluster", "cleanupNs">>
  BY DEF VLChaosScenario
<1> HIDE DEF p, q, b, c, S
<1>7. Len(b) = 9
  BY <1>1, <1>2
<1>8. /\ b[1] = "defer" /\ b[2] = "deleteNs" /\ b[3] = "createNs"
      /\ b[4] = "goldilocks" /\ b[5] = "label"
  BY <1>1, <1>2, <1>3, SMTT(30)
<1>9. /\ b[6] = "install" /\ b[7] = "applyChaos" /\ b[8] = "waitChaos"
      /\ b[9] = "check"
  BY <1>1, <1>2, <1>3, SMTT(30)
<1>10. /\ Len(c) = 3 /\ c[1] = "gather" /\ c[2] = "deleteCluster"
       /\ c[3] = "cleanupNs"
  BY <1>4
<1>11. \A i \in 1 .. 9 : i > 5 => i = 6 \/ i = 7 \/ i = 8 \/ i = 9
  OBVIOUS
<1>12. \A i \in 1 .. 9 : i = 1 \/ i = 2 \/ i = 3 \/ i = 4 \/ i = 5 \/ i = 6 \/ i = 7 \/ i = 8 \/ i = 9
  OBVIOUS
<1>13. \A i \in 1 .. 3 : i = 1 \/ i = 2 \/ i = 3
  OBVIOUS
<1>14. Prepared(b, 0)
  <2>1. 0 + 1 = 1 /\ 0 + 2 = 2 /\ 0 + 3 = 3 /\ 0 + 4 = 4 /\ 0 + 5 = 5
    OBVIOUS
  <2>2. \A i \in 1 .. 9 : i > 5 => b[i] \in OtherSteps
    BY <1>9, <1>11, Zenon DEF OtherSteps
  <2>3. \A i \in 1 .. 9 : ~(i <= 0)
    OBVIOUS
  <2> QED
    BY <1>7, <1>8, <2>1, <2>2, <2>3 DEF Prepared
<1>15. \A i \in 1 .. 3 : c[i] \in {"gather", "deleteCluster"} \cup Removers
  BY <1>10, <1>13, Zenon DEF Removers
<1>16. /\ Has(c, "cleanupNs")
       /\ ~Has(b, "installK6")
       /\ ~Has(b, "installNFS")
  <2>1. 3 \in 1 .. 3
    OBVIOUS
  <2>2. Has(c, "cleanupNs")
    BY <1>10, <2>1 DEF Has
  <2>3. ~Has(b, "installK6")
    BY <1>7, <1>8, <1>9, <1>12 DEF Has
  <2>4. ~Has(b, "installNFS")
    BY <1>7, <1>8, <1>9, <1>12 DEF Has
  <2> QED
    BY <2>2, <2>3, <2>4
<1>17. Len(b) \in 9 .. 13 /\ Len(c) \in 3 .. 5 /\ 0 \in 0 .. 1
  BY <1>7, <1>10
<1>18. Tidy(VLChaosScenario)
  BY <1>7, <1>10, <1>14, <1>15, <1>16, <1>17, Zenon DEF Tidy, b, c
<1>19. Has(b, "waitChaos")
  <2>1. 8 \in 1 .. 9
    OBVIOUS
  <2> QED
    BY <2>1, <1>7, <1>9 DEF Has
<1> QED
  BY <1>18, <1>19 DEF b

(* The load scenario.                                                      *)
LEMMA LoadShape == Tidy(LoadScenario)
<1> DEFINE S == OtherSteps \cup {"defer", "deleteNs", "createNs", "goldilocks", "label"}
           p == <<"defer", "deleteNs", "createNs", "goldilocks", "label">>
           q == <<"installK6", "install", "k6", "check">>
           h == <<"check">> \o p
           b == LoadScenario.body
           c == LoadScenario.cleanup
<1>1. b = h \o q
  BY DEF LoadScenario, Prepare
<1>2. /\ p \in Seq(S) /\ 5 <= Len(p) /\ Len(p) <= 5
      /\ q \in Seq(S) /\ 4 <= Len(q) /\ Len(q) <= 4
  BY DEF OtherSteps
<1>3. /\ p[1] = "defer" /\ p[2] = "deleteNs" /\ p[3] = "createNs"
      /\ p[4] = "goldilocks" /\ p[5] = "label"
      /\ q[1] = "installK6" /\ q[2] = "install" /\ q[3] = "k6" /\ q[4] = "check"
  OBVIOUS
<1>4. c = <<"gather", "deleteCluster", "uninstallK6", "cleanupNs">>
  BY DEF LoadScenario
<1> HIDE DEF p, q, b, c
<1>5. /\ h \in Seq(S) /\ 6 <= Len(h) /\ Len(h) <= 6
  BY <1>2 DEF OtherSteps
<1>6. /\ h[1] = "check" /\ h[2] = p[1] /\ h[3] = p[2] /\ h[4] = p[3]
      /\ h[5] = p[4] /\ h[6] = p[5]
  BY <1>2
<1> HIDE DEF h, S
<1>7. Len(b) = 10
  BY <1>1, <1>2, <1>5
<1>8. /\ b[1] = "check" /\ b[2] = "defer" /\ b[3] = "deleteNs" /\ b[4] = "createNs"
      /\ b[5] = "goldilocks" /\ b[6] = "label"
  BY <1>1, <1>2, <1>3, <1>5, <1>6, SMTT(30)
<1>9. /\ b[7] = "installK6" /\ b[8] = "install" /\ b[9] = "k6" /\ b[10] = "check"
  BY <1>1, <1>2, <1>3, <1>5, <1>6, SMTT(30)
<1>10. /\ Len(c) = 4 /\ c[1] = "gather" /\ c[2] = "deleteCluster"
       /\ c[3] = "uninstallK6" /\ c[4] = "cleanupNs"
  BY <1>4
<1>11. \A i \in 1 .. 10 : i > 6 => i = 7 \/ i = 8 \/ i = 9 \/ i = 10
  OBVIOUS
<1>12. \A i \in 1 .. 10 : i = 1 \/ i = 2 \/ i = 3 \/ i = 4 \/ i = 5 \/ i = 6 \/ i = 7 \/ i = 8 \/ i = 9 \/
           i = 10
  OBVIOUS
<1>13. \A i \in 1 .. 4 : i = 1 \/ i = 2 \/ i = 3 \/ i = 4
  OBVIOUS
<1>14. Prepared(b, 1)
  <2>1. 1 + 1 = 2 /\ 1 + 2 = 3 /\ 1 + 3 = 4 /\ 1 + 4 = 5 /\ 1 + 5 = 6
    OBVIOUS
  <2>2. \A i \in 1 .. 10 : i > 6 => b[i] \in OtherSteps
    BY <1>9, <1>11, Zenon DEF OtherSteps
  <2>3. \A i \in 1 .. 10 : i <= 1 => i = 1
    OBVIOUS
  <2> QED
    BY <1>7, <1>8, <2>1, <2>2, <2>3 DEF Prepared
<1>15. \A i \in 1 .. 4 : c[i] \in {"gather", "deleteCluster"} \cup Removers
  BY <1>10, <1>13, Zenon DEF Removers
<1>16. /\ Has(c, "cleanupNs")
       /\ Has(c, "uninstallK6")
       /\ ~Has(b, "installNFS")
  <2>1. 4 \in 1 .. 4 /\ 3 \in 1 .. 4
    OBVIOUS
  <2>2. Has(c, "cleanupNs")
    BY <1>10, <2>1 DEF Has
  <2>3. Has(c, "uninstallK6")
    BY <1>10, <2>1 DEF Has
  <2>4. ~Has(b, "installNFS")
    BY <1>7, <1>8, <1>9, <1>12 DEF Has
  <2> QED
    BY <2>2, <2>3, <2>4
<1>17. Len(b) \in 9 .. 13 /\ Len(c) \in 3 .. 5 /\ 1 \in 0 .. 1
  BY <1>7, <1>10
<1>18. Tidy(LoadScenario)
  BY <1>7, <1>10, <1>14, <1>15, <1>16, <1>17, Zenon DEF Tidy, b, c
<1> QED
  BY <1>18

(* The load scenario on NFS storage.                                       *)
LEMMA NFSLoadShape == Tidy(NFSLoadScenario)
<1> DEFINE S == OtherSteps \cup {"defer", "deleteNs", "createNs", "goldilocks", "label"}
           p == <<"defer", "deleteNs", "createNs", "goldilocks", "label">>
           q == <<"installK6", "installNFS", "install", "k6", "check">>
           h == <<"check">> \o p
           b == NFSLoadScenario.body
           c == NFSLoadScenario.cleanup
<1>1. b = h \o q
  BY DEF NFSLoadScenario, Prepare
<1>2. /\ p \in Seq(S) /\ 5 <= Len(p) /\ Len(p) <= 5
      /\ q \in Seq(S) /\ 5 <= Len(q) /\ Len(q) <= 5
  BY DEF OtherSteps
<1>3. /\ p[1] = "defer" /\ p[2] = "deleteNs" /\ p[3] = "createNs"
      /\ p[4] = "goldilocks" /\ p[5] = "label"
      /\ q[1] = "installK6" /\ q[2] = "installNFS" /\ q[3] = "install" /\ q[4] = "k6"
      /\ q[5] = "check"
  OBVIOUS
<1>4. c = <<"gather", "deleteCluster", "deleteNFS", "uninstallK6", "cleanupNs">>
  BY DEF NFSLoadScenario
<1> HIDE DEF p, q, b, c
<1>5. /\ h \in Seq(S) /\ 6 <= Len(h) /\ Len(h) <= 6
  BY <1>2 DEF OtherSteps
<1>6. /\ h[1] = "check" /\ h[2] = p[1] /\ h[3] = p[2] /\ h[4] = p[3]
      /\ h[5] = p[4] /\ h[6] = p[5]
  BY <1>2
<1> HIDE DEF h, S
<1>7. Len(b) = 11
  BY <1>1, <1>2, <1>5
<1>8. /\ b[1] = "check" /\ b[2] = "defer" /\ b[3] = "deleteNs" /\ b[4] = "createNs"
      /\ b[5] = "goldilocks" /\ b[6] = "label"
  BY <1>1, <1>2, <1>3, <1>5, <1>6, SMTT(30)
<1>9. /\ b[7] = "installK6" /\ b[8] = "installNFS" /\ b[9] = "install" /\ b[10] = "k6"
      /\ b[11] = "check"
  BY <1>1, <1>2, <1>3, <1>5, <1>6, SMTT(30)
<1>10. /\ Len(c) = 5 /\ c[1] = "gather" /\ c[2] = "deleteCluster"
       /\ c[3] = "deleteNFS" /\ c[4] = "uninstallK6" /\ c[5] = "cleanupNs"
  BY <1>4
<1>11. \A i \in 1 .. 11 : i > 6 => i = 7 \/ i = 8 \/ i = 9 \/ i = 10 \/ i = 11
  OBVIOUS
<1>12. \A i \in 1 .. 11 : i = 1 \/ i = 2 \/ i = 3 \/ i = 4 \/ i = 5 \/ i = 6 \/ i = 7 \/ i = 8 \/ i = 9 \/
           i = 10 \/ i = 11
  OBVIOUS
<1>13. \A i \in 1 .. 5 : i = 1 \/ i = 2 \/ i = 3 \/ i = 4 \/ i = 5
  OBVIOUS
<1>14. Prepared(b, 1)
  <2>1. 1 + 1 = 2 /\ 1 + 2 = 3 /\ 1 + 3 = 4 /\ 1 + 4 = 5 /\ 1 + 5 = 6
    OBVIOUS
  <2>2. \A i \in 1 .. 11 : i > 6 => b[i] \in OtherSteps
    BY <1>9, <1>11, Zenon DEF OtherSteps
  <2>3. \A i \in 1 .. 11 : i <= 1 => i = 1
    OBVIOUS
  <2> QED
    BY <1>7, <1>8, <2>1, <2>2, <2>3 DEF Prepared
<1>15. \A i \in 1 .. 5 : c[i] \in {"gather", "deleteCluster"} \cup Removers
  BY <1>10, <1>13, Zenon DEF Removers
<1>16. /\ Has(c, "cleanupNs")
       /\ Has(c, "uninstallK6")
       /\ Has(c, "deleteNFS")
  <2>1. 5 \in 1 .. 5 /\ 4 \in 1 .. 5 /\ 3 \in 1 .. 5
    OBVIOUS
  <2>2. Has(c, "cleanupNs")
    BY <1>10, <2>1 DEF Has
  <2>3. Has(c, "uninstallK6")
    BY <1>10, <2>1 DEF Has
  <2>4. Has(c, "deleteNFS")
    BY <1>10, <2>1 DEF Has
  <2> QED
    BY <2>2, <2>3, <2>4
<1>17. Len(b) \in 9 .. 13 /\ Len(c) \in 3 .. 5 /\ 1 \in 0 .. 1
  BY <1>7, <1>10
<1>18. Tidy(NFSLoadScenario)
  BY <1>7, <1>10, <1>14, <1>15, <1>16, <1>17, Zenon DEF Tidy, b, c
<1> QED
  BY <1>18

ChaosKinds == {VMChaosScenario, VLChaosScenario}

(* Every program is tidy, and a chaos scenario waits for its chaos.        *)
LEMMA KindsAreTidy ==
  \A k \in Kinds : Tidy(k) /\ (k \in ChaosKinds => Has(k.body, "waitChaos"))
BY KindAssumption, VMChaosShape, VLChaosShape, LoadShape, NFSLoadShape
   DEF AllKinds, ChaosKinds

-----------------------------------------------------------------------------
(* The inductive invariant *)

(* Something of attempt id is there that step c of a cleanup removes.      *)
Left(id, c) ==
  \/ c = "cleanupNs" /\ id \in ns
  \/ c = "uninstallK6" /\ <<id, "k6">> \in scoped
  \/ c = "deleteNFS" /\ <<id, "nfs">> \in scoped

(* Scenario s is in its body, has not left it and is past step x.          *)
Past(s, x) ==
  /\ mode[s] = "body" /\ pos[s] <= Len(kind[s].body)
  /\ \E j \in 1 .. Len(kind[s].body) : j < pos[s] /\ kind[s].body[j] = x

(* Step c of the cleanup of s is still to come.                            *)
Ahead(s, c) ==
  \E i \in 1 .. Len(kind[s].cleanup) :
    kind[s].cleanup[i] = c /\ (mode[s] = "cleanup" => pos[s] <= i)

(* Scenarios run only after the bootstrap, which leaves no labelled        *)
(* namespace and no URL of an earlier run.                                 *)
Bootstrapped ==
  /\ phase \in {"stale", "overwatch"} => \A s \in Scenario : mode[s] = "waiting"
  /\ phase = "overwatch" => labelled = {}
  /\ StaleNamespacesAreGone
  /\ UrlsAreOfThisRun

(* The cleanup is registered, and the namespace is there, from the step on *)
(* that says so.                                                           *)
BodyInOrder ==
  \A s \in Scenario :
    /\ Past(s, "defer") => s \in deferred
    /\ Past(s, "createNs") => me(s) \in ns

(* Whatever is there of this run, and is not of an attempt whose cleanup   *)
(* failed, is of an attempt under way whose cleanup will come to it.       *)
LeftIsOwed ==
  \A id \in Id, c \in Removers :
    Left(id, c) =>
      /\ id.run <= run
      /\ id.run = run /\ id \notin unclean =>
           /\ id.attempt = attempt[id.of]
           /\ mode[id.of] \in {"body", "cleanup"}
           /\ mode[id.of] = "body" => id.of \in deferred
           /\ Ahead(id.of, c)

(* A chaos resource that is recovered, and a body past its wait, have a    *)
(* recovery behind them; a context that is over is a failure.              *)
Recovery ==
  \A s \in Scenario :
    /\ chaos[s] = "recovered" => s \in recovered
    /\ mode[s] \in {"body", "cleanup"} /\ s \in ctxDone => s \in failed
    /\ mode[s] = "body" /\ s \notin failed =>
         \A j \in 1 .. Len(kind[s].body) :
           j < pos[s] /\ kind[s].body[j] = "waitChaos" => s \in recovered

LifeInv == TypeOK /\ Bootstrapped /\ BodyInOrder /\ LeftIsOwed /\ Recovery

-----------------------------------------------------------------------------
(* What a step of a body or a cleanup may do *)

(* Step x succeeded, with what that says of its outcome.                   *)
Succeeds(s, x) ==
  /\ pos' = [pos EXCEPT ![s] = @ + 1] /\ failed' = failed
  /\ x = "defer" => s \in deferred'
  /\ x = "createNs" => me(s) \in ns'
  /\ x = "waitChaos" => chaos[s] = "recovered" \/ s \in ctxDone
  /\ x = "cleanupNs" => me(s) \notin ns'
  /\ x = "uninstallK6" => <<me(s), "k6">> \notin scoped'
  /\ x = "deleteNFS" => <<me(s), "nfs">> \notin scoped' \/ me(s) \in unclean'

(* What step x changes of the namespaces, and of the cluster-scoped        *)
(* objects.                                                                *)
NamespaceEffect(s, x) ==
  \/ UNCHANGED <<ns, labelled>>
  \/ x = "createNs" /\ ns' = ns \cup {me(s)} /\ labelled' = labelled
  \/ x = "label" /\ ns' = ns /\ labelled' = labelled \cup {me(s)}
  \/ /\ x \in {"deleteNs", "cleanupNs"}
     /\ ns' = ns \ {me(s)} /\ labelled' = labelled \ {me(s)}

ScopedEffect(s, x) ==
  \/ scoped' = scoped
  \/ x = "installK6" /\ scoped' = scoped \cup {<<me(s), "k6">>}
  \/ x = "installNFS" /\ scoped' = scoped \cup {<<me(s), "nfs">>}
  \/ x = "uninstallK6" /\ scoped' = scoped \ {<<me(s), "k6">>}
  \/ x = "deleteNFS" /\ scoped' = scoped \ {<<me(s), "nfs">>}

ChaosEffect(s) ==
  \/ chaos' = chaos
  \/ chaos' = [chaos EXCEPT ![s] = "running"]
  \/ chaos' = [chaos EXCEPT ![s] = IF @ = "none" THEN @ ELSE "gone"]

StepOf(s, x) ==
  /\ At(s, x)
  /\ UNCHANGED <<run, phase, kind, mode, attempt, ctxDone, recovered>>
  /\ unclean' = unclean \/ unclean' = unclean \cup {me(s)}
  /\ Succeeds(s, x) \/ (Fail(s) /\ x # "defer")
  /\ deferred' = deferred \/ (x = "defer" /\ deferred' = deferred \cup {s})
  /\ NamespaceEffect(s, x) /\ ScopedEffect(s, x) /\ ChaosEffect(s)
  /\ urls' = urls \/ urls' = urls \cup {me(s)}

(* Every step of a scenario enters its body, ends its body or its cleanup, *)
(* or is such a step.                                                      *)
LEMMA StepIsOf ==
  ASSUME NEW s \in Scenario, ScenarioStep(s)
  PROVE  Enter(s) \/ BodyEnds(s) \/ CleanupEnds(s) \/ \E x : StepOf(s, x)
<1> USE DEF StepOf, NamespaceEffect, ScopedEffect, ChaosEffect, cluster, mesh
<1>1. ASSUME Fail(s)
      PROVE  /\ UNCHANGED <<run, phase, kind, mode, attempt, ctxDone>>
             /\ unclean' = unclean \/ unclean' = unclean \cup {me(s)}
  BY <1>1 DEF Fail
<1>2. ASSUME GoOn(s)
      PROVE  /\ UNCHANGED <<run, phase, kind, mode, attempt, ctxDone, failed, unclean>>
             /\ pos' = [pos EXCEPT ![s] = @ + 1]
  BY <1>2 DEF GoOn
<1>3. CASE Defer(s)
  <2>1. StepOf(s, "defer")
    BY <1>2, <1>3 DEF Defer, Succeeds
  <2> QED
    BY <2>1
<1>4. CASE DeleteNamespace(s)
  <2>1. ASSUME NEW x \in {"deleteNs", "cleanupNs"}, At(s, x)
        PROVE  StepOf(s, x)
    <3>1. CASE GoOn(s)
      BY <1>2, <1>4, <2>1, <3>1 DEF DeleteNamespace, Succeeds
    <3>2. CASE Fail(s) /\ UNCHANGED <<ns, labelled, chaos>>
      BY <1>1, <1>4, <2>1, <3>2 DEF DeleteNamespace
    <3> QED
      BY <1>4, <3>1, <3>2 DEF DeleteNamespace
  <2> QED
    BY <1>4, <2>1 DEF DeleteNamespace
<1>5. CASE CreateNamespace(s)
  <2>1. StepOf(s, "createNs")
    BY <1>1, <1>2, <1>5 DEF CreateNamespace, Succeeds
  <2> QED
    BY <2>1
<1>6. CASE LabelNamespace(s)
  <2>1. StepOf(s, "label")
    BY <1>1, <1>2, <1>6 DEF LabelNamespace, Succeeds
  <2> QED
    BY <2>1
<1>7. CASE Request(s)
  <2>1. PICK x \in {"goldilocks", "check", "install", "k6", "deleteCluster"} : At(s, x)
    BY <1>7 DEF Request
  <2>2. StepOf(s, x)
    BY <1>1, <1>2, <1>7, <2>1 DEF Request, Succeeds
  <2> QED
    BY <2>2
<1>8. CASE RemoteWrite(s)
  <2>1. StepOf(s, "remoteWrite")
    BY <1>1, <1>2, <1>8 DEF RemoteWrite, Succeeds
  <2> QED
    BY <2>1
<1>9. CASE InstallK6(s)
  <2>1. StepOf(s, "installK6")
    BY <1>1, <1>2, <1>9 DEF InstallK6, Succeeds
  <2> QED
    BY <2>1
<1>10. CASE InstallNFSServer(s)
  <2>1. StepOf(s, "installNFS")
    BY <1>1, <1>2, <1>10 DEF InstallNFSServer, Succeeds
  <2> QED
    BY <2>1
<1>11. CASE ApplyChaosScenario(s)
  <2>1. StepOf(s, "applyChaos")
    BY <1>1, <1>2, <1>11 DEF ApplyChaosScenario, Succeeds
  <2> QED
    BY <2>1
<1>12. CASE WaitForChaosScenarioToComplete(s)
  <2>1. StepOf(s, "waitChaos")
    BY <1>1, <1>2, <1>12 DEF WaitForChaosScenarioToComplete, Succeeds
  <2> QED
    BY <2>1
<1>13. CASE Gather(s)
  <2>1. StepOf(s, "gather")
    BY <1>1, <1>2, <1>13 DEF Gather, Succeeds
  <2> QED
    BY <2>1
<1>14. CASE UninstallK6(s)
  <2>1. StepOf(s, "uninstallK6")
    BY <1>1, <1>2, <1>14 DEF UninstallK6, Succeeds
  <2> QED
    BY <2>1
<1>15. CASE DeleteNFSResources(s)
  <2>1. StepOf(s, "deleteNFS")
    BY <1>15 DEF DeleteNFSResources, Succeeds
  <2> QED
    BY <2>1
<1> QED
  BY <1>3, <1>4, <1>5, <1>6, <1>7, <1>8, <1>9, <1>10, <1>11, <1>12, <1>13, <1>14, <1>15
     DEF ScenarioStep

-----------------------------------------------------------------------------
(* Where a step can stand in a program *)

(* Cleanups are registered before anything is made, a namespace is         *)
(* labelled after it is made, and not deleted in between.                  *)
LEMMA BodyOrder ==
  ASSUME NEW k, Tidy(k), NEW i \in 1 .. Len(k.body)
  PROVE  LET b == k.body IN
         /\ b[i] \in {"createNs", "installK6", "installNFS"} =>
              \E j \in 1 .. Len(b) : j < i /\ b[j] = "defer"
         /\ b[i] = "label" => \E j \in 1 .. Len(b) : j < i /\ b[j] = "createNs"
         /\ b[i] = "deleteNs" => \A j \in 1 .. Len(b) : j < i => b[j] # "createNs"
         /\ b[i] \notin Removers
<1> DEFINE b == k.body
<1>1. PICK o \in 0 .. 1 : Prepared(b, o)
  BY DEF Tidy
<1>2. PICK n \in 9 .. 13 : n = Len(b)
  BY DEF Tidy
<1> HIDE DEF b
<1>3. i \in 1 .. n
  BY <1>2 DEF b
<1>4. /\ b[o + 1] = "defer" /\ b[o + 2] = "deleteNs" /\ b[o + 3] = "createNs"
      /\ b[o + 4] = "goldilocks" /\ b[o + 5] = "label"
      /\ \A j \in 1 .. n : j <= o => b[j] = "check"
      /\ \A j \in 1 .. n : j > o + 5 => b[j] \in OtherSteps
  BY <1>1, <1>2 DEF Prepared
<1>5. \A j \in 1 .. n : \/ j <= o \/ j = o + 1 \/ j = o + 2 \/ j = o + 3
                       \/ j = o + 4 \/ j = o + 5 \/ j > o + 5
  BY <1>2
<1>6. \A j \in 1 .. n : b[j] = "createNs" => j = o + 3
  BY <1>4, <1>5 DEF OtherSteps
<1>7. \A j \in 1 .. n : b[j] = "label" => j = o + 5
  BY <1>4, <1>5 DEF OtherSteps
<1>8. \A j \in 1 .. n : b[j] = "deleteNs" => j = o + 2
  BY <1>4, <1>5 DEF OtherSteps
<1>9. \A j \in 1 .. n : b[j] \in {"installK6", "installNFS"} => j > o + 5
  BY <1>4, <1>5
<1>10. \A j \in 1 .. n : b[j] \notin Removers
  BY <1>4, <1>5 DEF OtherSteps, Removers
<1>11. o + 1 \in 1 .. n /\ o + 3 \in 1 .. n
  BY <1>2
<1>12. /\ o + 1 < o + 3 /\ o + 3 < o + 5 /\ ~(o + 3 < o + 2)
       /\ \A j \in 1 .. n : j > o + 5 => o + 1 < j
  BY <1>2
<1>13. b[i] \in {"createNs", "installK6", "installNFS"} => o + 1 < i
  BY <1>3, <1>6, <1>9, <1>12
<1>14. b[i] = "label" => o + 3 < i
  BY <1>3, <1>7, <1>12
<1>15. b[i] = "deleteNs" => \A j \in 1 .. n : j < i => b[j] # "createNs"
  BY <1>3, <1>6, <1>8, <1>12
<1>16. b[i] \in {"createNs", "installK6", "installNFS"} =>
         \E j \in 1 .. n : j < i /\ b[j] = "defer"
  BY <1>4, <1>11, <1>13
<1>17. b[i] = "label" => \E j \in 1 .. n : j < i /\ b[j] = "createNs"
  BY <1>4, <1>11, <1>14
<1> QED
  BY <1>2, <1>3, <1>10, <1>15, <1>16, <1>17, Zenon DEF b

(* A position past the end of a program is past each of its steps, and a   *)
(* step before the next position is before this one or is this one.        *)
LEMMA Positions ==
  ASSUME NEW p \in Nat, NEW n \in Nat, NEW j \in 1 .. n
  PROVE  /\ p > n => j < p /\ ~(p <= j)
         /\ j < p + 1 => j < p \/ j = p
  OBVIOUS

(* The types a step of scenario s builds on.                               *)
LEMMA ScenarioTypes ==
  ASSUME TypeOK, NEW s \in Scenario
  PROVE  /\ kind[s] \in Kinds /\ Tidy(kind[s])
         /\ me(s) \in Id /\ me(s).run = run /\ me(s).of = s /\ me(s).attempt = attempt[s]
         /\ pos[s] \in 1 .. 20
         /\ Len(kind[s].body) \in 9 .. 13 /\ Len(kind[s].cleanup) \in 3 .. 5
         /\ Len(kind[s].body) + 1 \in 1 .. 20 /\ Len(kind[s].cleanup) + 1 \in 1 .. 20
         /\ \A i \in 1 .. Len(kind[s].body) : i + 1 \in 1 .. 20
         /\ \A i \in 1 .. Len(kind[s].cleanup) : i + 1 \in 1 .. 20
<1>1. kind[s] \in Kinds /\ run \in 1 .. MaxRuns /\ attempt[s] \in 1 .. FlakeAttempts
      /\ pos[s] \in 1 .. 20
  BY DEF TypeOK
<1>2. Tidy(kind[s])
  BY <1>1, KindsAreTidy
<1>3. PICK n \in 9 .. 13, m \in 3 .. 5 : n = Len(kind[s].body) /\ m = Len(kind[s].cleanup)
  BY <1>2 DEF Tidy
<1>4. /\ n + 1 \in 1 .. 20 /\ m + 1 \in 1 .. 20
      /\ (\A i \in 1 .. n : i + 1 \in 1 .. 20) /\ (\A i \in 1 .. m : i + 1 \in 1 .. 20)
  OBVIOUS
<1>5. /\ me(s) \in Id /\ me(s).run = run /\ me(s).of = s /\ me(s).attempt = attempt[s]
  BY <1>1 DEF me, Id
<1> QED
  BY <1>1, <1>2, <1>3, <1>4, <1>5, Zenon

(* The position of scenario s and the lengths of its programs are numbers. *)
LEMMA PositionTypes ==
  ASSUME TypeOK, NEW s \in Scenario
  PROVE  pos[s] \in Nat /\ Len(kind[s].body) \in Nat /\ Len(kind[s].cleanup) \in Nat
<1>1. \A i : (i \in 1 .. 20 \/ i \in 9 .. 13 \/ i \in 3 .. 5) => i \in Nat
  OBVIOUS
<1> QED
  BY <1>1, ScenarioTypes, Zenon

(* Where the program is when step x is taken.                              *)
LEMMA AtWhere ==
  ASSUME TypeOK, NEW s \in Scenario, NEW x, At(s, x)
  PROVE  /\ phase = "specs"
         /\ \/ /\ mode[s] = "body" /\ pos[s] \in 1 .. Len(kind[s].body)
               /\ kind[s].body[pos[s]] = x /\ x \notin Removers
            \/ /\ mode[s] = "cleanup" /\ pos[s] \in 1 .. Len(kind[s].cleanup)
               /\ kind[s].cleanup[pos[s]] = x
               /\ x \in {"gather", "deleteCluster"} \cup Removers
<1>1. phase = "specs" /\ mode[s] \in {"body", "cleanup"}
  BY DEF At
<1>2. CASE mode[s] = "body"
  <2>1. /\ pos[s] \in 1 .. Len(kind[s].body) /\ kind[s].body[pos[s]] = x
    BY <1>2, ScenarioTypes DEF At
  <2>2. x \notin Removers
    BY <2>1, ScenarioTypes, BodyOrder
  <2> QED
    BY <1>1, <1>2, <2>1, <2>2
<1>3. CASE mode[s] = "cleanup"
  <2>1. /\ pos[s] \in 1 .. Len(kind[s].cleanup) /\ kind[s].cleanup[pos[s]] = x
    BY <1>3, ScenarioTypes DEF At
  <2>2. x \in {"gather", "deleteCluster"} \cup Removers
    BY <2>1, ScenarioTypes DEF Tidy
  <2> QED
    BY <1>1, <1>3, <2>1, <2>2
<1> QED
  BY <1>1, <1>2, <1>3

(* Where the program is after it.                                          *)
LEMMA PosAfter ==
  ASSUME TypeOK, NEW s \in Scenario, NEW x, StepOf(s, x)
  PROVE  /\ pos' \in [Scenario -> 1 .. 20]
         /\ \A t \in Scenario \ {s} : pos'[t] = pos[t]
         /\ \/ Succeeds(s, x) /\ pos'[s] = pos[s] + 1
            \/ /\ Fail(s) /\ x # "defer"
               /\ mode[s] = "body" => pos'[s] = Len(kind[s].body) + 1
               /\ mode[s] = "cleanup" => pos'[s] = Len(kind[s].cleanup) + 1
<1>1. /\ Len(kind[s].body) + 1 \in 1 .. 20 /\ Len(kind[s].cleanup) + 1 \in 1 .. 20
      /\ \A i \in 1 .. Len(kind[s].body) : i + 1 \in 1 .. 20
      /\ \A i \in 1 .. Len(kind[s].cleanup) : i + 1 \in 1 .. 20
  BY ScenarioTypes
<1>2. \/ mode[s] = "body" /\ pos[s] \in 1 .. Len(kind[s].body)
      \/ mode[s] = "cleanup" /\ pos[s] \in 1 .. Len(kind[s].cleanup)
  BY AtWhere DEF StepOf
<1>3. pos \in [Scenario -> 1 .. 20]
  BY DEF TypeOK
<1>4. CASE Succeeds(s, x)
  <2>1. pos' = [pos EXCEPT ![s] = pos[s] + 1]
    BY <1>4 DEF Succeeds
  <2>2. pos[s] + 1 \in 1 .. 20
    BY <1>1, <1>2
  <2> QED
    BY <1>3, <1>4, <2>1, <2>2
<1>5. CASE Fail(s) /\ x # "defer"
  <2>1. CASE mode[s] = "body"
    <3>1. pos' = [pos EXCEPT ![s] = Len(kind[s].body) + 1]
      BY <1>5, <2>1 DEF Fail
    <3>2. Len(kind[s].body) + 1 \in 1 .. 20
      BY <1>1
    <3> QED
      BY <1>3, <1>5, <2>1, <3>1, <3>2
  <2>2. CASE mode[s] = "cleanup"
    <3>1. pos' = [pos EXCEPT ![s] = Len(kind[s].cleanup) + 1]
      BY <1>5, <2>2 DEF Fail
    <3>2. Len(kind[s].cleanup) + 1 \in 1 .. 20
      BY <1>1
    <3> QED
      BY <1>3, <1>5, <2>2, <3>1, <3>2
  <2> QED
    BY <1>2, <2>1, <2>2
<1> QED
  BY <1>4, <1>5 DEF StepOf

-----------------------------------------------------------------------------
(* Each part of the invariant is preserved *)

(* Only the labelling needs more than types: the namespace it labels is    *)
(* there.                                                                  *)
LEMMA TypePreserved ==
  ASSUME LifeInv, [Next]_vars
  PROVE  TypeOK'
<1>0. TypeOK
  BY DEF LifeInv
<1>1. CASE CleanupStaleNamespaces
  BY <1>0, <1>1 DEF CleanupStaleNamespaces, TypeOK, scenarios, mesh
<1>2. CASE InstallOverwatch
  BY <1>0, <1>2 DEF InstallOverwatch, TypeOK, scenarios, mesh
<1>3. ASSUME NEW s \in Scenario, Enter(s) PROVE TypeOK'
  <2>1. 1 \in 1 .. 20
    OBVIOUS
  <2> QED
    BY <1>0, <1>3, <2>1 DEF Enter, TypeOK
<1>4. ASSUME NEW s \in Scenario, BodyEnds(s) PROVE TypeOK'
  <2>1. 1 \in 1 .. 20 /\ Len(kind[s].cleanup) + 1 \in 1 .. 20
    BY <1>0, ScenarioTypes
  <2>2. (IF s \in deferred THEN 1 ELSE Len(kind[s].cleanup) + 1) \in 1 .. 20
    BY <2>1
  <2> QED
    BY <1>0, <1>4, <2>2 DEF BodyEnds, TypeOK, cluster, mesh
<1>5. ASSUME NEW s \in Scenario, CleanupEnds(s) PROVE TypeOK'
  <2>1. CASE s \in failed /\ attempt[s] < FlakeAttempts
    <3>1. attempt[s] + 1 \in 1 .. FlakeAttempts
      BY <1>0, <2>1, BoundAssumption DEF TypeOK
    <3> QED
      BY <1>0, <1>5, <2>1, <3>1 DEF CleanupEnds, TypeOK, cluster, mesh
  <2>2. CASE ~(s \in failed /\ attempt[s] < FlakeAttempts)
    BY <1>0, <1>5, <2>2 DEF CleanupEnds, TypeOK, cluster, mesh
  <2> QED
    BY <2>1, <2>2
<1>6. ASSUME NEW s \in Scenario, NEW x, StepOf(s, x) PROVE TypeOK'
  <2>1. me(s) \in Id /\ pos' \in [Scenario -> 1 .. 20]
    BY <1>0, <1>6, ScenarioTypes, PosAfter
  <2>2. /\ UNCHANGED <<run, phase, kind, mode, attempt, ctxDone, recovered>>
        /\ unclean' \subseteq Id /\ urls' \subseteq Id /\ deferred' \subseteq Scenario
    BY <1>0, <1>6, <2>1 DEF StepOf, TypeOK
  <2>3. failed' \subseteq Scenario
    BY <1>0, <1>6 DEF StepOf, Succeeds, Fail, TypeOK
  <2>4. ns' \subseteq Id /\ labelled' \subseteq ns'
    <3>1. CASE x = "label"
      <4>1. At(s, x)
        BY <1>6 DEF StepOf
      <4>2. /\ mode[s] = "body" /\ pos[s] \in 1 .. Len(kind[s].body)
            /\ kind[s].body[pos[s]] = "label"
        BY <1>0, <3>1, <4>1, AtWhere DEF Removers
      <4>3. Past(s, "createNs")
        BY <1>0, <4>2, ScenarioTypes, BodyOrder DEF Past
      <4>4. me(s) \in ns
        BY <4>3 DEF LifeInv, BodyInOrder
      <4> QED
        BY <1>0, <1>6, <3>1, <4>4 DEF StepOf, NamespaceEffect, TypeOK
    <3>2. CASE x # "label"
      BY <1>0, <1>6, <2>1, <3>2 DEF StepOf, NamespaceEffect, TypeOK
    <3> QED
      BY <3>1, <3>2
  <2>5. scoped' \subseteq (Id \X {"k6", "nfs"})
    <3>1. <<me(s), "k6">> \in Id \X {"k6", "nfs"} /\ <<me(s), "nfs">> \in Id \X {"k6", "nfs"}
      BY <2>1
    <3> QED
      BY <1>0, <1>6, <3>1, Zenon DEF StepOf, ScopedEffect, TypeOK
  <2>6. chaos' \in [Scenario -> {"none", "running", "recovered", "gone"}]
    BY <1>0, <1>6 DEF StepOf, ChaosEffect, TypeOK
  <2> QED
    BY <1>0, <2>1, <2>2, <2>3, <2>4, <2>5, <2>6 DEF TypeOK
<1>7. ASSUME NEW s \in Scenario, Timeout(s) PROVE TypeOK'
  BY <1>0, <1>7 DEF Timeout, TypeOK, cluster, mesh
<1>8. ASSUME NEW s \in Scenario, ChaosEnds(s) PROVE TypeOK'
  BY <1>0, <1>8 DEF ChaosEnds, TypeOK, scenarios
<1>9. CASE RunEnds \/ Abort
  BY <1>0, <1>9 DEF RunEnds, Abort, TypeOK, scenarios, cluster, mesh
<1>10. CASE NextRun
  <2>1. run + 1 \in 1 .. MaxRuns /\ 1 \in 1 .. 20 /\ 1 \in 1 .. FlakeAttempts
    BY <1>0, <1>10, BoundAssumption DEF NextRun, TypeOK
  <2> QED
    BY <1>0, <1>10, <2>1 DEF NextRun, TypeOK
<1>11. CASE UNCHANGED vars
  BY <1>0, <1>11 DEF vars, TypeOK, cluster, mesh
<1> QED
  BY <1>1, <1>2, <1>3, <1>4, <1>5, <1>6, <1>7, <1>8, <1>9, <1>10, <1>11, StepIsOf DEF Next

(* While specs run, namespaces are labelled and URLs written for this run  *)
(* only.                                                                   *)
LEMMA BootstrappedPreserved ==
  ASSUME LifeInv, [Next]_vars
  PROVE  Bootstrapped'
<1> USE DEF Bootstrapped, StaleNamespacesAreGone, UrlsAreOfThisRun
<1>0. TypeOK /\ Bootstrapped
  BY DEF LifeInv
<1>1. CASE CleanupStaleNamespaces
  BY <1>0, <1>1 DEF CleanupStaleNamespaces, scenarios
<1>2. CASE InstallOverwatch
  BY <1>0, <1>2 DEF InstallOverwatch, scenarios
<1>3. ASSUME NEW s \in Scenario, Enter(s) \/ BodyEnds(s) \/ CleanupEnds(s) \/ Timeout(s)
      PROVE  Bootstrapped'
  <2>1. phase = "specs" /\ UNCHANGED <<run, phase, labelled, urls>>
    BY <1>3 DEF Enter, BodyEnds, CleanupEnds, Timeout, cluster
  <2> QED
    BY <1>0, <2>1
<1>4. ASSUME NEW s \in Scenario, NEW x, StepOf(s, x) PROVE Bootstrapped'
  <2>1. phase = "specs" /\ UNCHANGED <<run, phase>>
    BY <1>4 DEF StepOf, At
  <2>2. me(s).run = run
    BY <1>0, ScenarioTypes
  <2>3. labelled' \subseteq labelled \cup {me(s)} /\ urls' \subseteq urls \cup {me(s)}
    BY <1>4 DEF StepOf, NamespaceEffect
  <2> QED
    BY <1>0, <2>1, <2>2, <2>3
<1>5. ASSUME NEW s \in Scenario, ChaosEnds(s) PROVE Bootstrapped'
  BY <1>0, <1>5 DEF ChaosEnds, scenarios
<1>6. CASE RunEnds \/ Abort \/ NextRun
  BY <1>0, <1>6 DEF RunEnds, Abort, NextRun, scenarios
<1>7. CASE UNCHANGED vars
  BY <1>0, <1>7 DEF vars, cluster
<1> QED
  BY <1>1, <1>2, <1>3, <1>4, <1>5, <1>6, <1>7, StepIsOf DEF Next

(* A step that leaves the program of t where it is keeps what t is past.   *)
LEMMA PastKept ==
  ASSUME NEW t \in Scenario, NEW x,
         kind'[t] = kind[t], mode'[t] = mode[t], pos'[t] = pos[t]
  PROVE  Past(t, x)' = Past(t, x)
BY DEF Past

(* A body goes on in its order, and fails by leaving it.                   *)
LEMMA BodyInOrderPreserved ==
  ASSUME LifeInv, TypeOK', [Next]_vars
  PROVE  BodyInOrder'
<1>0. TypeOK /\ Bootstrapped /\ BodyInOrder
  BY DEF LifeInv
<1> SUFFICES ASSUME NEW t \in Scenario
             PROVE  (Past(t, "defer") => t \in deferred)' /\ (Past(t, "createNs") => me(t) \in ns)'
  BY DEF BodyInOrder
<1> DEFINE Goal == /\ (Past(t, "defer") => t \in deferred)'
                   /\ (Past(t, "createNs") => me(t) \in ns)'
<1>1. ASSUME mode'[t] # "body" PROVE Goal
  BY <1>1 DEF Past
<1>2. ASSUME kind'[t] = kind[t], mode'[t] = mode[t], pos'[t] = pos[t],
             run' = run, attempt'[t] = attempt[t],
             t \in deferred => t \in deferred', me(t) \in ns => me(t) \in ns'
      PROVE  Goal
  <2>1. me(t)' = me(t)
    BY <1>2 DEF me
  <2>2. Past(t, "defer")' = Past(t, "defer") /\ Past(t, "createNs")' = Past(t, "createNs")
    BY <1>2, PastKept
  <2> QED
    BY <1>0, <1>2, <2>1, <2>2 DEF BodyInOrder
<1>3. CASE CleanupStaleNamespaces
  BY <1>0, <1>1, <1>3 DEF CleanupStaleNamespaces, scenarios, Bootstrapped
<1>4. CASE InstallOverwatch
  BY <1>2, <1>4 DEF InstallOverwatch, scenarios
<1>5. ASSUME NEW s \in Scenario, Enter(s) PROVE Goal
  <2>1. CASE t = s
    <3>1. pos'[s] = 1
      BY <1>0, <1>5 DEF Enter, TypeOK
    <3>2. \A j \in 1 .. Len(kind'[s].body) : ~(j < 1)
      OBVIOUS
    <3> QED
      BY <2>1, <3>1, <3>2 DEF Past
  <2>2. CASE t # s
    BY <1>0, <1>2, <1>5, <2>2 DEF Enter, TypeOK
  <2> QED
    BY <2>1, <2>2
<1>6. ASSUME NEW s \in Scenario, BodyEnds(s) \/ CleanupEnds(s) PROVE Goal
  <2>1. CASE t = s
    BY <1>0, <1>1, <1>6, <2>1 DEF BodyEnds, CleanupEnds, TypeOK
  <2>2. CASE t # s
    BY <1>0, <1>2, <1>6, <2>2 DEF BodyEnds, CleanupEnds, TypeOK, cluster
  <2> QED
    BY <2>1, <2>2
<1>7. ASSUME NEW s \in Scenario, NEW x, StepOf(s, x) PROVE Goal
  <2>1. /\ UNCHANGED <<run, kind, mode, attempt>> /\ deferred \subseteq deferred'
        /\ At(s, x)
    BY <1>7 DEF StepOf
  <2>2. CASE t # s
    <3>1. me(t) # me(s)
      BY <1>0, <2>2, ScenarioTypes
    <3>2. me(t) \in ns => me(t) \in ns'
      BY <1>7, <3>1 DEF StepOf, NamespaceEffect
    <3>3. pos'[t] = pos[t]
      BY <1>0, <1>7, <2>2, PosAfter
    <3> QED
      BY <1>2, <2>1, <3>2, <3>3
  <2>3. CASE t = s /\ mode[s] = "body"
    <3> DEFINE b == kind[s].body
    <3>1. PICK n \in 9 .. 13 : n = Len(b)
      BY <1>0, ScenarioTypes
    <3>2. /\ pos[s] \in 1 .. n /\ b[pos[s]] = x
      BY <1>0, <2>1, <2>3, <3>1, AtWhere
    <3>3. CASE Succeeds(s, x) /\ pos'[s] = pos[s] + 1
      <4>1. ASSUME NEW y, Past(s, y)' PROVE x = y \/ Past(s, y)
        <5>1. PICK j \in 1 .. n : j < pos[s] + 1 /\ b[j] = y
          BY <2>1, <3>1, <3>3, <4>1 DEF Past
        <5>2. j = pos[s] \/ j < pos[s]
          BY <3>2, <5>1
        <5>3. pos[s] <= n
          BY <3>2
        <5> QED
          BY <2>3, <3>1, <3>2, <5>1, <5>2, <5>3 DEF Past
      <4>2. Past(s, "defer")' => s \in deferred'
        BY <1>0, <2>1, <3>3, <4>1 DEF BodyInOrder, Succeeds
      <4>3. me(s)' = me(s)
        BY <2>1 DEF me
      <4>4. ASSUME Past(s, "createNs")' PROVE me(s) \in ns'
        <5>1. CASE x = "createNs"
          BY <3>3, <5>1 DEF Succeeds
        <5>2. CASE x # "createNs" /\ Past(s, "createNs")
          <6>1. me(s) \in ns
            BY <1>0, <5>2 DEF BodyInOrder
          <6>2. x # "deleteNs"
            BY <1>0, <3>1, <3>2, <5>2, ScenarioTypes, BodyOrder DEF Past
          <6>3. x # "cleanupNs"
            BY <1>0, <2>1, <2>3, AtWhere DEF Removers
          <6> QED
            BY <1>7, <6>1, <6>2, <6>3 DEF StepOf, NamespaceEffect
        <5> QED
          BY <4>1, <4>4, <5>1, <5>2
      <4> QED
        BY <2>3, <4>2, <4>3, <4>4
    <3>4. CASE pos'[s] = Len(kind[s].body) + 1
      <4>1. ~(n + 1 <= n)
        OBVIOUS
      <4> QED
        BY <2>1, <2>3, <3>1, <3>4, <4>1 DEF Past
    <3> QED
      BY <1>0, <1>7, <2>3, <3>3, <3>4, PosAfter
  <2>4. CASE t = s /\ mode[s] # "body"
    BY <1>1, <2>1, <2>4
  <2> QED
    BY <2>2, <2>3, <2>4
<1>8. ASSUME NEW s \in Scenario, Timeout(s) PROVE Goal
  BY <1>2, <1>8 DEF Timeout, cluster
<1>9. ASSUME NEW s \in Scenario, ChaosEnds(s) PROVE Goal
  BY <1>2, <1>9 DEF ChaosEnds, scenarios
<1>10. CASE RunEnds \/ Abort
  BY <1>2, <1>10 DEF RunEnds, Abort, scenarios, cluster
<1>11. CASE NextRun
  BY <1>1, <1>11 DEF NextRun
<1>12. CASE UNCHANGED vars
  BY <1>2, <1>12 DEF vars, cluster
<1> QED
  BY <1>3, <1>4, <1>5, <1>6, <1>7, <1>8, <1>9, <1>10, <1>11, <1>12, StepIsOf DEF Next

(* What LeftIsOwed says of one attempt and one step of its cleanup.        *)
Owed(id, c) ==
  /\ id.run <= run
  /\ id.run = run /\ id \notin unclean =>
       /\ id.attempt = attempt[id.of]
       /\ mode[id.of] \in {"body", "cleanup"}
       /\ mode[id.of] = "body" => id.of \in deferred
       /\ Ahead(id.of, c)

(* A step of a program makes and removes only what is its attempt's.       *)
LEMMA LeftAfter ==
  ASSUME NEW s \in Scenario, NEW x, StepOf(s, x), NEW id, NEW c \in Removers, Left(id, c)'
  PROVE  \/ Left(id, c)
         \/ /\ id = me(s)
            /\ \/ x = "createNs" /\ c = "cleanupNs"
               \/ x = "installK6" /\ c = "uninstallK6"
               \/ x = "installNFS" /\ c = "deleteNFS"
<1>1. CASE c = "cleanupNs"
  BY <1>1 DEF Left, StepOf, NamespaceEffect
<1>2. CASE c = "uninstallK6"
  BY <1>2 DEF Left, StepOf, ScopedEffect
<1>3. CASE c = "deleteNFS"
  BY <1>3 DEF Left, StepOf, ScopedEffect
<1> QED
  BY <1>1, <1>2, <1>3 DEF Removers

(* Whatever is made in a body is owed to a registered cleanup, and what is *)
(* left when a step of the cleanup has succeeded is not that step's.       *)
LEMMA LeftIsOwedPreserved ==
  ASSUME LifeInv, TypeOK', [Next]_vars
  PROVE  LeftIsOwed'
<1>0. TypeOK /\ Bootstrapped /\ BodyInOrder
  BY DEF LifeInv
<1> SUFFICES ASSUME NEW id \in Id, NEW c \in Removers, Left(id, c)'
             PROVE  Owed(id, c)'
  BY DEF LeftIsOwed, Owed
<1>1. Left(id, c) => Owed(id, c)
  BY DEF LifeInv, LeftIsOwed, Owed
<1>2. id.run \in Nat /\ run \in Nat /\ id.of \in Scenario /\ id.attempt \in Nat
  BY <1>0 DEF Id, TypeOK
<1>3. ASSUME Left(id, c), run' = run, attempt'[id.of] = attempt[id.of],
             mode'[id.of] = mode[id.of], kind'[id.of] = kind[id.of],
             pos'[id.of] = pos[id.of], unclean \subseteq unclean',
             id.of \in deferred => id.of \in deferred'
      PROVE  Owed(id, c)'
  <2>1. Ahead(id.of, c)' = Ahead(id.of, c)
    BY <1>3 DEF Ahead
  <2> QED
    BY <1>1, <1>3, <2>1 DEF Owed
<1>4. CASE CleanupStaleNamespaces
  <2>1. Left(id, c)
    BY <1>4 DEF CleanupStaleNamespaces, Left
  <2> QED
    BY <1>3, <1>4, <2>1 DEF CleanupStaleNamespaces, scenarios
<1>5. CASE InstallOverwatch
  <2>1. Left(id, c)
    BY <1>5 DEF InstallOverwatch, Left
  <2> QED
    BY <1>3, <1>5, <2>1 DEF InstallOverwatch, scenarios
<1>6. ASSUME NEW s \in Scenario, Enter(s) PROVE Owed(id, c)'
  <2>1. Left(id, c)
    BY <1>6 DEF Enter, Left
  <2>2. CASE id.of = s
    <3>1. mode[s] = "waiting" /\ UNCHANGED <<run, unclean>>
      BY <1>6 DEF Enter
    <3>2. id.run <= run /\ ~(id.run = run /\ id \notin unclean)
      BY <1>1, <2>1, <2>2, <3>1 DEF Owed
    <3> QED
      BY <3>1, <3>2 DEF Owed
  <2>3. CASE id.of # s
    BY <1>0, <1>2, <1>3, <1>6, <2>1, <2>3 DEF Enter, TypeOK
  <2> QED
    BY <2>2, <2>3
<1>7. ASSUME NEW s \in Scenario, BodyEnds(s) PROVE Owed(id, c)'
  <2>1. Left(id, c)
    BY <1>7 DEF BodyEnds, Left, cluster
  <2>2. CASE id.of = s
    <3>1. mode[s] = "body" /\ UNCHANGED <<run, unclean, kind, attempt>>
      BY <1>7 DEF BodyEnds
    <3>2. CASE id.run = run /\ id \notin unclean
      <4>1. s \in deferred /\ Ahead(s, c) /\ id.attempt = attempt[s]
        BY <1>1, <2>1, <2>2, <3>1, <3>2 DEF Owed
      <4>2. mode'[s] = "cleanup" /\ pos'[s] = 1
        BY <1>0, <1>7, <4>1 DEF BodyEnds, TypeOK
      <4>3. \A i \in 1 .. Len(kind[s].cleanup) : 1 <= i
        OBVIOUS
      <4>4. Ahead(s, c)'
        BY <3>1, <4>1, <4>2, <4>3 DEF Ahead
      <4> QED
        BY <1>1, <2>1, <2>2, <3>1, <4>1, <4>2, <4>4 DEF Owed
    <3>3. CASE ~(id.run = run /\ id \notin unclean)
      BY <1>1, <2>1, <3>1, <3>3 DEF Owed
    <3> QED
      BY <3>2, <3>3
  <2>3. CASE id.of # s
    BY <1>0, <1>2, <1>3, <1>7, <2>1, <2>3 DEF BodyEnds, TypeOK
  <2> QED
    BY <2>2, <2>3
<1>8. ASSUME NEW s \in Scenario, CleanupEnds(s) PROVE Owed(id, c)'
  <2>1. Left(id, c)
    BY <1>8 DEF CleanupEnds, Left, cluster
  <2>2. CASE id.of = s
    <3>1. /\ mode[s] = "cleanup" /\ pos[s] > Len(kind[s].cleanup)
          /\ UNCHANGED <<run, unclean>>
      BY <1>8 DEF CleanupEnds
    <3>2. ~Ahead(s, c)
      <4>1. pos[s] \in Nat /\ Len(kind[s].cleanup) \in Nat
        BY <1>0, PositionTypes
      <4>2. ASSUME NEW i \in 1 .. Len(kind[s].cleanup) PROVE ~(pos[s] <= i)
        BY <3>1, <4>1, Positions
      <4> QED
        BY <3>1, <4>2 DEF Ahead
    <3>3. id.run <= run /\ ~(id.run = run /\ id \notin unclean)
      BY <1>1, <2>1, <2>2, <3>2 DEF Owed
    <3> QED
      BY <3>1, <3>3 DEF Owed
  <2>3. CASE id.of # s
    BY <1>0, <1>2, <1>3, <1>8, <2>1, <2>3 DEF CleanupEnds, TypeOK
  <2> QED
    BY <2>2, <2>3
<1>9. ASSUME NEW s \in Scenario, NEW x, StepOf(s, x) PROVE Owed(id, c)'
  <2>1. /\ UNCHANGED <<run, kind, mode, attempt>> /\ At(s, x)
        /\ unclean \subseteq unclean' /\ deferred \subseteq deferred'
    BY <1>9 DEF StepOf
  <2>2. me(s).run = run /\ me(s).of = s /\ me(s).attempt = attempt[s]
    BY <1>0, ScenarioTypes
  <2>3. CASE id.of # s
    <3>1. Left(id, c)
      BY <1>9, <2>2, <2>3, LeftAfter
    <3>2. pos'[id.of] = pos[id.of]
      BY <1>0, <1>2, <1>9, <2>3, PosAfter
    <3> QED
      BY <1>3, <2>1, <3>1, <3>2
  <2>4. CASE id.of = s /\ mode[s] = "body"
    <3>1. pos[s] \in 1 .. Len(kind[s].body) /\ kind[s].body[pos[s]] = x
      BY <1>0, <2>1, <2>4, AtWhere DEF Removers
    <3>2. Ahead(s, c)' = Ahead(s, c)
      BY <2>1, <2>4 DEF Ahead
    <3>3. CASE Left(id, c)
      BY <1>1, <2>1, <2>4, <3>2, <3>3 DEF Owed
    <3>4. CASE id = me(s) /\ x \in {"createNs", "installK6", "installNFS"} /\ Ahead(s, c)
      <4>1. Past(s, "defer")
        <5>1. \E j \in 1 .. Len(kind[s].body) : j < pos[s] /\ kind[s].body[j] = "defer"
          BY <1>0, <3>1, <3>4, ScenarioTypes, BodyOrder
        <5> QED
          BY <2>4, <3>1, <5>1 DEF Past
      <4>2. s \in deferred
        BY <1>0, <4>1 DEF BodyInOrder
      <4>3. run <= run
        BY <1>2
      <4> QED
        BY <2>1, <2>2, <2>4, <3>2, <3>4, <4>2, <4>3 DEF Owed
    <3>5. CASE ~Left(id, c)
      <4>1. /\ id = me(s)
            /\ \/ x = "createNs" /\ c = "cleanupNs"
               \/ x = "installK6" /\ c = "uninstallK6"
               \/ x = "installNFS" /\ c = "deleteNFS"
        BY <1>9, <3>5, LeftAfter
      <4>2. Has(kind[s].body, x)
        BY <3>1 DEF Has
      <4>3. Has(kind[s].cleanup, c)
        BY <1>0, <4>1, <4>2, ScenarioTypes DEF Tidy
      <4>4. Ahead(s, c)
        BY <2>4, <4>3 DEF Has, Ahead
      <4> QED
        BY <3>4, <4>1, <4>4
    <3> QED
      BY <3>3, <3>5
  <2>5. CASE id.of = s /\ mode[s] = "cleanup"
    <3> DEFINE q == kind[s].cleanup
    <3>1. PICK m \in 3 .. 5 : m = Len(q)
      BY <1>0, ScenarioTypes
    <3>2. /\ pos[s] \in 1 .. m /\ q[pos[s]] = x
          /\ x \in {"gather", "deleteCluster"} \cup Removers
      BY <1>0, <2>1, <2>5, <3>1, AtWhere
    <3>3. Left(id, c)
      BY <1>9, <3>2, LeftAfter DEF Removers
    <3>4. CASE ~(id.run = run /\ id \notin unclean)
      BY <1>1, <2>1, <3>3, <3>4 DEF Owed
    <3>5. CASE id.run = run /\ id \notin unclean
      <4>1. Ahead(s, c) /\ id.attempt = attempt[s] /\ id.run <= run
        BY <1>1, <2>5, <3>3, <3>5 DEF Owed
      <4>2. id = me(s)
        <5>1. id = [run |-> id.run, of |-> id.of, attempt |-> id.attempt]
          BY DEF Id
        <5> QED
          BY <2>5, <3>5, <4>1, <5>1 DEF me
      <4>3. CASE Fail(s)
        <5>1. id \in unclean'
          BY <2>5, <4>2, <4>3 DEF Fail
        <5> QED
          BY <2>1, <4>1, <5>1 DEF Owed
      <4>4. CASE id \in unclean'
        BY <2>1, <4>1, <4>4 DEF Owed
      <4>5. CASE id \notin unclean' /\ Succeeds(s, x) /\ pos'[s] = pos[s] + 1
        <5>1. x # c
          BY <4>2, <4>5 DEF Succeeds, Left, Removers
        <5>2. PICK i \in 1 .. m : q[i] = c /\ pos[s] <= i
          BY <2>5, <3>1, <4>1 DEF Ahead
        <5>3. i # pos[s]
          BY <3>2, <5>1, <5>2
        <5>4. pos[s] + 1 <= i
          BY <3>2, <5>2, <5>3
        <5>5. Ahead(s, c)'
          BY <2>1, <2>5, <3>1, <4>5, <5>2, <5>4 DEF Ahead
        <5> QED
          BY <2>1, <2>5, <4>1, <5>5 DEF Owed
      <4> QED
        BY <1>0, <1>9, <4>3, <4>4, <4>5, PosAfter
    <3> QED
      BY <3>4, <3>5
  <2> QED
    BY <1>0, <2>1, <2>3, <2>4, <2>5, AtWhere
<1>10. ASSUME NEW s \in Scenario, Timeout(s) PROVE Owed(id, c)'
  <2>1. Left(id, c)
    BY <1>10 DEF Timeout, Left, cluster
  <2> QED
    BY <1>3, <1>10, <2>1 DEF Timeout
<1>11. ASSUME NEW s \in Scenario, ChaosEnds(s) PROVE Owed(id, c)'
  <2>1. Left(id, c)
    BY <1>11 DEF ChaosEnds, Left
  <2> QED
    BY <1>3, <1>11, <2>1 DEF ChaosEnds, scenarios
<1>12. CASE RunEnds \/ Abort
  <2>1. Left(id, c)
    BY <1>12 DEF RunEnds, Abort, Left, cluster
  <2> QED
    BY <1>3, <1>12, <2>1 DEF RunEnds, Abort, scenarios
<1>13. CASE NextRun
  <2>1. Left(id, c) /\ run' = run + 1
    BY <1>13 DEF NextRun, Left
  <2>2. id.run <= run
    BY <1>1, <2>1 DEF Owed
  <2>3. id.run <= run' /\ id.run # run'
    BY <1>2, <2>1, <2>2
  <2> QED
    BY <2>3 DEF Owed
<1>14. CASE UNCHANGED vars
  <2>1. Left(id, c)
    BY <1>14 DEF vars, cluster, Left
  <2> QED
    BY <1>3, <1>14, <2>1 DEF vars
<1> QED
  BY <1>4, <1>5, <1>6, <1>7, <1>8, <1>9, <1>10, <1>11, <1>12, <1>13, <1>14, StepIsOf
     DEF Next

(* The wait for the chaos to end is passed by recovery, or by a context    *)
(* whose end has already failed the scenario.                              *)
LEMMA RecoveryPreserved ==
  ASSUME LifeInv, [Next]_vars
  PROVE  Recovery'
<1>0. TypeOK /\ Bootstrapped /\ Recovery
  BY DEF LifeInv
<1> SUFFICES ASSUME NEW t \in Scenario
             PROVE  /\ (chaos[t] = "recovered" => t \in recovered)'
                    /\ (mode[t] \in {"body", "cleanup"} /\ t \in ctxDone => t \in failed)'
                    /\ (mode[t] = "body" /\ t \notin failed =>
                          \A j \in 1 .. Len(kind[t].body) :
                            j < pos[t] /\ kind[t].body[j] = "waitChaos" => t \in recovered)'
  BY DEF Recovery
<1> DEFINE G1 == chaos'[t] = "recovered" => t \in recovered'
           G2 == mode'[t] \in {"body", "cleanup"} /\ t \in ctxDone' => t \in failed'
           G3 == mode'[t] = "body" /\ t \notin failed' =>
                   \A j \in 1 .. Len(kind'[t].body) :
                     j < pos'[t] /\ kind'[t].body[j] = "waitChaos" => t \in recovered'
           Goal == G1 /\ G2 /\ G3
<1>1. /\ chaos[t] = "recovered" => t \in recovered
      /\ mode[t] \in {"body", "cleanup"} /\ t \in ctxDone => t \in failed
      /\ mode[t] = "body" /\ t \notin failed =>
           \A j \in 1 .. Len(kind[t].body) :
             j < pos[t] /\ kind[t].body[j] = "waitChaos" => t \in recovered
  BY <1>0 DEF Recovery
<1>2. ASSUME UNCHANGED <<kind, mode, pos, failed, ctxDone, chaos, recovered>> PROVE Goal
  BY <1>1, <1>2
<1>3. CASE CleanupStaleNamespaces
  BY <1>2, <1>3 DEF CleanupStaleNamespaces, scenarios, mesh
<1>4. CASE InstallOverwatch
  BY <1>2, <1>4 DEF InstallOverwatch, scenarios, mesh
<1>5. ASSUME NEW s \in Scenario, Enter(s) PROVE Goal
  <2>1. CASE t = s
    <3>1. pos'[s] = 1 /\ chaos'[s] = "none" /\ s \notin ctxDone'
      BY <1>0, <1>5 DEF Enter, TypeOK
    <3>2. \A j \in 1 .. Len(kind'[s].body) : ~(j < 1)
      OBVIOUS
    <3> QED
      BY <2>1, <3>1, <3>2
  <2>2. CASE t # s
    BY <1>0, <1>1, <1>5, <2>2 DEF Enter, TypeOK
  <2> QED
    BY <2>1, <2>2
<1>6. ASSUME NEW s \in Scenario, BodyEnds(s) PROVE Goal
  <2>1. G1
    BY <1>1, <1>6 DEF BodyEnds, cluster, mesh
  <2>2. CASE t = s
    <3>1. mode'[s] = "cleanup" /\ s \notin ctxDone'
      BY <1>0, <1>6 DEF BodyEnds, TypeOK
    <3> QED
      BY <2>1, <2>2, <3>1
  <2>3. CASE t # s
    BY <1>0, <1>1, <1>6, <2>1, <2>3 DEF BodyEnds, TypeOK, cluster, mesh
  <2> QED
    BY <2>2, <2>3
<1>7. ASSUME NEW s \in Scenario, CleanupEnds(s) PROVE Goal
  <2>1. G1
    BY <1>1, <1>7 DEF CleanupEnds, cluster, mesh
  <2>2. CASE t = s
    <3>1. mode'[s] \in {"waiting", "over"}
      BY <1>0, <1>7 DEF CleanupEnds, TypeOK
    <3> QED
      BY <2>1, <2>2, <3>1
  <2>3. CASE t # s
    BY <1>0, <1>1, <1>7, <2>1, <2>3 DEF CleanupEnds, TypeOK, cluster, mesh
  <2> QED
    BY <2>2, <2>3
<1>8. ASSUME NEW s \in Scenario, NEW x, StepOf(s, x) PROVE Goal
  <2>1. /\ UNCHANGED <<kind, mode, ctxDone, recovered>> /\ failed \subseteq failed'
        /\ At(s, x)
    BY <1>8 DEF StepOf, Succeeds, Fail
  <2>2. chaos'[t] = "recovered" => chaos[t] = "recovered"
    BY <1>0, <1>8 DEF StepOf, ChaosEffect, TypeOK
  <2>3. G1 /\ G2
    BY <1>1, <2>1, <2>2
  <2>4. CASE t # s
    <3>1. pos'[t] = pos[t]
      BY <1>0, <1>8, <2>4, PosAfter
    <3> QED
      BY <1>1, <2>1, <2>3, <3>1
  <2>5. CASE t = s /\ Fail(s)
    <3>1. s \in failed'
      BY <2>5 DEF Fail
    <3> QED
      BY <2>3, <2>5, <3>1
  <2>6. CASE t = s /\ Succeeds(s, x) /\ pos'[s] = pos[s] + 1
    <3> SUFFICES ASSUME mode[s] = "body", s \notin failed',
                        NEW j \in 1 .. Len(kind[s].body),
                        j < pos[s] + 1, kind[s].body[j] = "waitChaos"
                 PROVE  s \in recovered
      BY <2>1, <2>3, <2>6
    <3>1. s \notin failed
      BY <2>1
    <3>2. pos[s] \in Nat /\ Len(kind[s].body) \in Nat
      BY <1>0, PositionTypes
    <3>3. j < pos[s] \/ j = pos[s]
      BY <3>2, Positions
    <3>4. CASE j = pos[s]
      <4>1. x = "waitChaos"
        BY <1>0, <2>1, <3>4, AtWhere
      <4>2. chaos[s] = "recovered" \/ s \in ctxDone
        BY <2>6, <4>1 DEF Succeeds
      <4> QED
        BY <1>1, <2>6, <3>1, <4>2
    <3> QED
      BY <1>1, <2>6, <3>1, <3>3, <3>4
  <2> QED
    BY <1>0, <1>8, <2>4, <2>5, <2>6, PosAfter
<1>9. ASSUME NEW s \in Scenario, Timeout(s) PROVE Goal
  BY <1>1, <1>9 DEF Timeout, cluster, mesh
<1>10. ASSUME NEW s \in Scenario, ChaosEnds(s) PROVE Goal
  <2>1. UNCHANGED <<kind, mode, pos, failed, ctxDone>> /\ recovered \subseteq recovered'
    BY <1>10 DEF ChaosEnds, scenarios
  <2>2. G1
    BY <1>0, <1>1, <1>10 DEF ChaosEnds, TypeOK
  <2> QED
    BY <1>1, <2>1, <2>2
<1>11. CASE RunEnds \/ Abort
  BY <1>2, <1>11 DEF RunEnds, Abort, scenarios, cluster, mesh
<1>12. CASE NextRun
  BY <1>12 DEF NextRun
<1>13. CASE UNCHANGED vars
  BY <1>2, <1>13 DEF vars, cluster, mesh
<1> QED
  BY <1>3, <1>4, <1>5, <1>6, <1>7, <1>8, <1>9, <1>10, <1>11, <1>12, <1>13, StepIsOf
     DEF Next

-----------------------------------------------------------------------------
(* The theorems *)

(* The inductive invariant holds however scenarios fail, time out and are  *)
(* run again, and wherever a run is killed.                                *)
THEOREM LifeInvariant == Spec => []LifeInv
<1>1. Init => LifeInv
  <2> SUFFICES ASSUME Init PROVE LifeInv
    OBVIOUS
  <2>1. TypeOK
    <3>1. 1 \in 1 .. MaxRuns /\ 1 \in 1 .. FlakeAttempts /\ 1 \in 1 .. 20
      BY BoundAssumption
    <3> QED
      BY <3>1 DEF Init, TypeOK
  <2>2. Bootstrapped /\ Recovery
    BY DEF Init, Bootstrapped, StaleNamespacesAreGone, UrlsAreOfThisRun, Recovery
  <2>3. BodyInOrder
    BY DEF Init, BodyInOrder, Past
  <2>4. LeftIsOwed
    BY DEF Init, LeftIsOwed, Left
  <2> QED
    BY <2>1, <2>2, <2>3, <2>4 DEF LifeInv
<1>2. LifeInv /\ [Next]_vars => LifeInv'
  <2> SUFFICES ASSUME LifeInv, [Next]_vars PROVE LifeInv'
    OBVIOUS
  <2>1. TypeOK'
    BY TypePreserved
  <2> QED
    BY <2>1, BootstrappedPreserved, BodyInOrderPreserved, LeftIsOwedPreserved,
       RecoveryPreserved DEF LifeInv
<1> QED
  BY <1>1, <1>2, PTL DEF Spec

(* Every variable keeps its type; in particular only namespaces that are   *)
(* there are labelled.                                                     *)
THEOREM TypeCorrect == Spec => []TypeOK
<1>1. LifeInv => TypeOK
  BY DEF LifeInv
<1> QED
  BY <1>1, LifeInvariant, PTL

(* The bootstrap's deletion of labelled namespaces is enough: none of an   *)
(* earlier run is there while specs run.                                   *)
THEOREM StaleAreGone == Spec => []StaleNamespacesAreGone
<1>1. LifeInv => StaleNamespacesAreGone
  BY DEF LifeInv, Bootstrapped
<1> QED
  BY <1>1, LifeInvariant, PTL

(* The shared VMAgent forwards to clusters of this run only while specs    *)
(* run.                                                                    *)
THEOREM UrlsOfThisRun == Spec => []UrlsAreOfThisRun
<1>1. LifeInv => UrlsAreOfThisRun
  BY DEF LifeInv, Bootstrapped
<1> QED
  BY <1>1, LifeInvariant, PTL

(* A scenario that is over has left nothing of any attempt of this run     *)
(* whose cleanup did not fail.                                             *)
THEOREM NothingIsLeft == Spec => []OverLeavesNothing
<1>1. LifeInv => OverLeavesNothing
  <2> SUFFICES ASSUME LifeInv, NEW s \in Scenario, mode[s] = "over",
                      NEW id \in (ns \cup {x[1] : x \in scoped}) \ unclean,
                      id.run = run, id.of = s
               PROVE  FALSE
    BY DEF OverLeavesNothing
  <2>1. id \in Id /\ \E c \in Removers : Left(id, c)
    <3>1. CASE id \in ns
      BY <3>1 DEF LifeInv, TypeOK, Left, Removers
    <3>2. CASE id \in {x[1] : x \in scoped}
      <4>1. PICK x \in scoped : id = x[1]
        BY <3>2
      <4>2. x \in Id \X {"k6", "nfs"}
        BY DEF LifeInv, TypeOK
      <4>3. id \in Id /\ (x = <<id, "k6">> \/ x = <<id, "nfs">>)
        BY <4>1, <4>2
      <4> QED
        BY <4>3 DEF Left, Removers
    <3> QED
      BY <3>1, <3>2
  <2>2. mode[s] \in {"body", "cleanup"}
    BY <2>1 DEF LifeInv, LeftIsOwed
  <2> QED
    BY <2>2
<1> QED
  BY <1>1, LifeInvariant, PTL

(* A chaos scenario whose attempt ends without a failure has recovered     *)
(* from its chaos.                                                         *)
THEOREM PassedHasRecovered == Spec => PassedMeansRecovered
<1> DEFINE A == \A s \in Scenario :
                  /\ mode[s] = "body" /\ mode'[s] = "cleanup" /\ s \notin failed
                  /\ kind[s] \in {VMChaosScenario, VLChaosScenario}
                  => s \in recovered
<1>1. LifeInv /\ [Next]_vars => [A]_vars
  <2> SUFFICES ASSUME LifeInv, Next, NEW t \in Scenario,
                      mode[t] = "body", mode'[t] = "cleanup", t \notin failed,
                      kind[t] \in ChaosKinds
               PROVE  t \in recovered
    BY DEF ChaosKinds
  <2>0. TypeOK
    BY DEF LifeInv
  <2>1. BodyEnds(t)
    <3>1. ASSUME NEW s \in Scenario, Enter(s) PROVE FALSE
      BY <2>0, <3>1 DEF Enter, TypeOK
    <3>2. ASSUME NEW s \in Scenario, CleanupEnds(s) PROVE FALSE
      BY <2>0, <3>2 DEF CleanupEnds, TypeOK
    <3>3. ASSUME NEW s \in Scenario, NEW x, StepOf(s, x) PROVE FALSE
      BY <3>3 DEF StepOf
    <3>4. ASSUME NEW s \in Scenario, BodyEnds(s) PROVE s = t
      BY <2>0, <3>4 DEF BodyEnds, TypeOK
    <3>5. ASSUME NEW s \in Scenario, ScenarioStep(s) PROVE BodyEnds(t)
      BY <3>1, <3>2, <3>3, <3>4, <3>5, StepIsOf
    <3>6. ASSUME NEW s \in Scenario, Timeout(s) \/ ChaosEnds(s) PROVE FALSE
      BY <3>6 DEF Timeout, ChaosEnds, scenarios
    <3>7. ~CleanupStaleNamespaces /\ ~InstallOverwatch /\ ~RunEnds /\ ~Abort /\ ~NextRun
      BY DEF CleanupStaleNamespaces, InstallOverwatch, RunEnds, Abort, NextRun, scenarios
    <3> QED
      BY <3>5, <3>6, <3>7 DEF Next
  <2>2. PICK j \in 1 .. Len(kind[t].body) : kind[t].body[j] = "waitChaos"
    BY <2>0, ScenarioTypes, KindsAreTidy DEF Has
  <2>3. pos[t] \in Nat /\ Len(kind[t].body) \in Nat
    BY <2>0, PositionTypes
  <2>4. pos[t] > Len(kind[t].body)
    BY <2>1, Zenon DEF BodyEnds
  <2>5. j < pos[t]
    BY <2>3, <2>4, Positions
  <2> QED
    BY <2>2, <2>5 DEF LifeInv, Recovery
<1> QED
  BY <1>1, LifeInvariant, PTL DEF Spec, PassedMeansRecovered
=============================================================================
