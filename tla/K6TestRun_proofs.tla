-------------------------- MODULE K6TestRun_proofs --------------------------
(***************************************************************************)
(* Proofs about K6TestRun, for any number of attempts, events and watch    *)
(* closures.  What has to be carried along is whose TestRun the API server *)
(* holds: none between the delete and the apply, this attempt's from the   *)
(* starter job on, and this attempt's behind every event of a watch.       *)
(***************************************************************************)
EXTENDS K6TestRun, TLAPS

(* From a delete that worked to the apply there is no TestRun, from the    *)
(* apply to the verdict it is this attempt's.                              *)
RunIsFresh ==
  /\ pc \in Setup \ {"delete", "starter"} => run = NoRun
  /\ pc \in {"starter"} \cup Waiting => run.of = attempt

(* Every stage but the empty one was recorded when the operator set it.    *)
StageIsRecorded == run.stage # "" => <<run.of, run.stage>> \in reached

(* A watch is opened on this attempt's TestRun, after the first Get.       *)
WatchIsFresh ==
  watch # "none" => run.of = attempt /\ pc \notin Setup \cup {"get", "startWatch"}

(* Every stage an event carries was one of this attempt's TestRun.         *)
EventsAreRecorded ==
  /\ watch = "none" => events = <<>>
  /\ \A i \in DOMAIN events : events[i] # "" => <<attempt, events[i]>> \in reached

(* The shapes, and a TestRun of no attempt is no TestRun.                  *)
TypeInv == TypeOK /\ (run.of = 0 => run = NoRun)

Fresh == TypeInv /\ RunIsFresh /\ WatchIsFresh /\ StageIsRecorded

K6Inv == Fresh /\ EventsAreRecorded /\ VerdictIsOfThisRun /\ NoMissedTransition

-----------------------------------------------------------------------------
(* Facts about the stages and the operator's steps.                        *)

(* The stages of the lifecycle, one by one.                                *)
LEMMA StageAt ==
  /\ StageOrder[1] = "" /\ StageOrder[2] = "initialization"
  /\ StageOrder[3] = "initialized" /\ StageOrder[4] = "created"
  /\ StageOrder[5] = "started" /\ StageOrder[6] = "stopped"
  /\ StageOrder[7] = "finished"
BY DEF StageOrder

(* The stages, as a set: those of the lifecycle and "error".               *)
LEMMA StageSet ==
  Stage = {"", "initialization", "initialized", "created", "started",
           "stopped", "finished", "error"}
<1>1. DOMAIN StageOrder = 1 .. 7
  BY DEF StageOrder
<1>2. \A i \in 1 .. 7 : i = 1 \/ i = 2 \/ i = 3 \/ i = 4 \/ i = 5 \/ i = 6 \/ i = 7
  OBVIOUS
<1>3. {StageOrder[i] : i \in 1 .. 7} =
        {"", "initialization", "initialized", "created", "started", "stopped",
         "finished"}
  <2> SUFFICES ASSUME NEW x
               PROVE  (\E i \in 1 .. 7 : x = StageOrder[i]) <=>
                        x \in {"", "initialization", "initialized", "created",
                               "started", "stopped", "finished"}
    OBVIOUS
  <2>2. /\ 1 \in 1 .. 7 /\ 2 \in 1 .. 7 /\ 3 \in 1 .. 7 /\ 4 \in 1 .. 7
        /\ 5 \in 1 .. 7 /\ 6 \in 1 .. 7 /\ 7 \in 1 .. 7
    OBVIOUS
  <2> QED BY <1>2, <2>2, StageAt, Zenon
<1> QED BY <1>1, <1>3 DEF Stage

(* Whatever the operator does, it moves a TestRun that exists out of a     *)
(* stage that is not terminal and into one that is not empty.              *)
LEMMA OperatorSetsStage ==
  ASSUME TypeInv, OperatorAdvance \/ OperatorError
  PROVE  /\ run # NoRun /\ run.of \in Attempt
         /\ ~isTerminalStage(run.stage)
         /\ starter' \in BOOLEAN
         /\ \E stage \in Stage : stage # "" /\ SetStage(stage)
<1>1. run # NoRun
  BY DEF OperatorAdvance, OperatorError
<1>2. run.of \in Attempt
  BY <1>1, BoundAssumption DEF TypeInv, TypeOK, Attempt
<1>3. CASE OperatorAdvance
  <2>1. PICK i \in 1 .. 6 : /\ run.stage = StageOrder[i]
                           /\ SetStage(StageOrder[i + 1])
                           /\ starter' = (starter \/ StageOrder[i + 1] = "started")
    <3>1. Len(StageOrder) - 1 = 6
      BY DEF StageOrder
    <3> QED BY <1>3, <3>1 DEF OperatorAdvance
  <2>2. i = 1 \/ i = 2 \/ i = 3 \/ i = 4 \/ i = 5 \/ i = 6
    OBVIOUS
  <2>3. StageOrder[i] \notin {"finished", "error"} /\ StageOrder[i + 1] \in Stage \ {""}
    <3>1. 1 + 1 = 2 /\ 2 + 1 = 3 /\ 3 + 1 = 4 /\ 4 + 1 = 5 /\ 5 + 1 = 6 /\ 6 + 1 = 7
      OBVIOUS
    <3> QED BY <2>2, <3>1, StageSet, StageAt, Zenon
  <2>4. ~isTerminalStage(run.stage)
    BY <2>1, <2>3 DEF isTerminalStage
  <2>5. starter' \in BOOLEAN
    BY <2>1, Zenon
  <2> QED BY <1>1, <1>2, <2>1, <2>3, <2>4, <2>5
<1>4. CASE OperatorError
  <2>1. "error" \in Stage \ {""}
    BY StageSet
  <2>2. starter' \in BOOLEAN
    BY <1>4, Zenon DEF OperatorError, TypeInv, TypeOK
  <2> QED BY <1>1, <1>2, <1>4, <2>1, <2>2 DEF OperatorError
<1> QED BY <1>3, <1>4

(* No TestRun, and the TestRun an apply creates, are of the right shape.    *)
LEMMA NoRunType ==
  /\ NoRun \in [of : 0 .. MaxAttempts, stage : Stage]
  /\ \A a \in Attempt : /\ [of |-> a, stage |-> ""] \in [of : 0 .. MaxAttempts, stage : Stage]
                       /\ a # 0
<1>1. 0 \in 0 .. MaxAttempts /\ \A a \in Attempt : a \in 0 .. MaxAttempts /\ a # 0
  BY BoundAssumption DEF Attempt
<1>2. "" \in Stage
  BY StageSet
<1> QED BY <1>1, <1>2 DEF NoRun

-----------------------------------------------------------------------------
(* The type invariant.                                                     *)

(* Before the first attempt the shapes are right.                          *)
LEMMA TypeInit == Init => TypeInv
<1>1. 1 \in Attempt
  BY BoundAssumption DEF Attempt
<1>2. <<>> \in Seq(Stage)
  OBVIOUS
<1>3. 0 \in Nat
  OBVIOUS
<1>4. Init => result \in [Attempt -> Verdict \cup {"none"}]
  BY DEF Init
<1> QED BY <1>1, <1>2, <1>3, <1>4, NoRunType, Zenon DEF Init, TypeInv, TypeOK, Setup

(* What the goroutine does before the wait keeps them.                     *)
LEMMA TypeRunSteps == TypeInv /\ RunSteps => TypeInv'
<1> SUFFICES ASSUME TypeInv, RunSteps PROVE TypeInv'
  OBVIOUS
<1> USE DEF TypeInv, TypeOK, Setup, Waiting, Verdict, Goto, Finish, cluster, waiter
<1>1. CASE DeleteTestRun
  BY <1>1, NoRunType DEF DeleteTestRun
<1>2. CASE BackendsSkip
  BY <1>2 DEF BackendsSkip
<1>3. CASE BackendsCreateJob
  BY <1>3 DEF BackendsCreateJob
<1>4. CASE BackendsWait
  BY <1>4 DEF BackendsWait
<1>5. CASE ApplyConfigMap
  BY <1>5 DEF ApplyConfigMap
<1>6. CASE ApplyTestRun
  <2>1. Applied \in [of : 0 .. MaxAttempts, stage : Stage]
    BY NoRunType DEF Applied
  <2>2. Applied.of = 0 => Applied = NoRun
    BY NoRunType DEF Applied
  <2> QED BY <1>6, <2>1, <2>2 DEF ApplyTestRun
<1>7. CASE WaitStarter
  BY <1>7 DEF WaitStarter
<1> QED BY <1>1, <1>2, <1>3, <1>4, <1>5, <1>6, <1>7 DEF RunSteps

(* A queue of events with one more stage is one.                           *)
LEMMA AppendStage ==
  ASSUME NEW S, NEW s \in Seq(S), NEW x \in S
  PROVE  Append(s, x) \in Seq(S)
OBVIOUS

(* So is what a new watch may replay.                                      *)
LEMMA OneEventType ==
  ASSUME TypeOK
  PROVE  {<<>>, <<run.stage>>} \subseteq Seq(Stage)
<1>1. run.stage \in Stage
  BY DEF TypeOK
<1> QED BY <1>1

(* The wait keeps them.                                                    *)
LEMMA TypeWaitSteps == TypeInv /\ WaitSteps => TypeInv'
<1> SUFFICES ASSUME TypeInv, WaitSteps PROVE TypeInv'
  OBVIOUS
<1> USE DEF TypeInv, TypeOK, Setup, Waiting, Verdict, Goto, Finish, cluster, waiter
<1>1. CASE FirstCheck
  BY <1>1 DEF FirstCheck, CheckStage, StageVerdict
<1>2. CASE StartWatch
  BY <1>2, OneEventType DEF StartWatch, OpenWatch
<1>3. CASE Recheck
  BY <1>3 DEF Recheck, CheckStage, StageVerdict
<1>4. CASE ReadEvent
  BY <1>4 DEF ReadEvent, StageVerdict
<1>5. CASE WatchClosed
  BY <1>5 DEF WatchClosed
<1>6. CASE RestartWatch
  BY <1>6, OneEventType DEF RestartWatch, OpenWatch
<1>7. CASE Deadline
  BY <1>7 DEF Deadline
<1>8. CASE FinalCheck
  BY <1>8 DEF FinalCheck, StageVerdict
<1> QED BY <1>1, <1>2, <1>3, <1>4, <1>5, <1>6, <1>7, <1>8 DEF WaitSteps

(* So do a rerun, the operator, the watch and the clock.                   *)
LEMMA TypeStep == TypeInv /\ [Next]_vars => TypeInv'
<1> SUFFICES ASSUME TypeInv, [Next]_vars PROVE TypeInv'
  OBVIOUS
<1>1. CASE Rerun
  <2>1. attempt + 1 \in Attempt
    BY <1>1, BoundAssumption DEF Rerun, TypeInv, TypeOK, Attempt
  <2>2. <<>> \in Seq(Stage)
    OBVIOUS
  <2> QED BY <1>1, <2>1, <2>2, Zenon DEF Rerun, TypeInv, TypeOK, Setup, Waiting, cluster
<1>2. CASE OperatorAdvance \/ OperatorError
  <2>1. PICK stage \in Stage : stage # "" /\ SetStage(stage)
    BY <1>2, OperatorSetsStage
  <2>2. run.of \in Attempt /\ starter' \in BOOLEAN
    BY <1>2, OperatorSetsStage
  <2>3. run \in [of : 0 .. MaxAttempts, stage : Stage] /\ run' = [run EXCEPT !.stage = stage]
    BY <2>1 DEF SetStage, TypeInv, TypeOK
  <2>4. run' \in [of : 0 .. MaxAttempts, stage : Stage] /\ run'.of = run.of
    BY <2>3
  <2>5. events' \in Seq(Stage)
    <3>1. events \in Seq(Stage) /\ (events' = Append(events, stage) \/ events' = events)
      BY <2>1 DEF SetStage, TypeInv, TypeOK
    <3> QED BY <2>1, <3>1, AppendStage
  <2>6. reached' \in SUBSET (Attempt \X Stage)
    <3>1. reached \in SUBSET (Attempt \X Stage) /\ reached' = reached \cup {<<run.of, stage>>}
      BY <2>1 DEF SetStage, TypeInv, TypeOK
    <3>2. <<run.of, stage>> \in Attempt \X Stage
      BY <2>1, <2>2, Zenon
    <3> QED BY <3>1, <3>2, Zenon
  <2>7. run'.of # 0
    BY <2>2, <2>4, NoRunType
  <2> QED
    BY <2>1, <2>2, <2>4, <2>5, <2>6, <2>7, Zenon DEF SetStage, TypeInv, TypeOK
<1>3. CASE CloseWatch
  BY <1>3 DEF CloseWatch, TypeInv, TypeOK, cluster
<1>4. CASE Expire \/ CollectStarter
  BY <1>4 DEF Expire, CollectStarter, TypeInv, TypeOK, cluster, waiter
<1>5. CASE UNCHANGED vars
  BY <1>5 DEF vars, TypeInv, TypeOK
<1> QED
  BY <1>1, <1>2, <1>3, <1>4, <1>5, TypeRunSteps, TypeWaitSteps DEF Next

(* TypeOK holds of every state of K6TestRun.                               *)
THEOREM TypeCorrect == Spec => []TypeOK
<1>1. TypeInv => TypeOK
  BY DEF TypeInv
<1> QED BY <1>1, TypeInit, TypeStep, PTL DEF Spec
-----------------------------------------------------------------------------
(* Whose TestRun it is.                                                    *)

(* The steps of the goroutine keep the TestRun, the watch and the record   *)
(* of its stages in agreement.                                             *)
LEMMA FreshGoroutine == Fresh /\ (RunSteps \/ WaitSteps \/ Rerun) => Fresh'
<1> SUFFICES ASSUME Fresh, RunSteps \/ WaitSteps \/ Rerun
             PROVE  RunIsFresh' /\ WatchIsFresh' /\ StageIsRecorded'
  BY TypeStep DEF Fresh, Next
<1> USE DEF Fresh, RunIsFresh, WatchIsFresh, StageIsRecorded, Setup, Waiting, Goto,
            Finish, cluster, waiter
<1>1. CASE DeleteTestRun
  <2>1. NoRun.stage = ""
    BY DEF NoRun
  <2> QED BY <1>1, <2>1 DEF DeleteTestRun
<1>2. CASE BackendsSkip
  BY <1>2 DEF BackendsSkip
<1>3. CASE BackendsCreateJob
  BY <1>3 DEF BackendsCreateJob
<1>4. CASE BackendsWait
  BY <1>4 DEF BackendsWait
<1>5. CASE ApplyConfigMap
  BY <1>5 DEF ApplyConfigMap
<1>6. CASE ApplyTestRun
  <2>1. NoRun.stage = ""
    BY DEF NoRun
  <2>2. run = NoRun /\ watch = "none"
    BY <1>6 DEF ApplyTestRun, TypeInv, TypeOK
  <2>3. Applied.of = attempt /\ Applied.stage = ""
    BY <2>2 DEF Applied
  <2> QED BY <1>6, <2>1, <2>2, <2>3 DEF ApplyTestRun
<1>7. CASE WaitStarter
  BY <1>7 DEF WaitStarter
<1>8. CASE FirstCheck
  BY <1>8 DEF FirstCheck, CheckStage
<1>9. CASE StartWatch
  BY <1>9 DEF StartWatch, OpenWatch
<1>10. CASE Recheck
  BY <1>10 DEF Recheck, CheckStage
<1>11. CASE ReadEvent
  BY <1>11 DEF ReadEvent
<1>12. CASE WatchClosed
  BY <1>12 DEF WatchClosed
<1>13. CASE RestartWatch
  BY <1>13 DEF RestartWatch, OpenWatch
<1>14. CASE Deadline
  BY <1>14 DEF Deadline
<1>15. CASE FinalCheck
  BY <1>15 DEF FinalCheck
<1>16. CASE Rerun
  BY <1>16 DEF Rerun
<1> QED
  BY <1>1, <1>2, <1>3, <1>4, <1>5, <1>6, <1>7, <1>8, <1>9, <1>10, <1>11, <1>12,
     <1>13, <1>14, <1>15, <1>16 DEF RunSteps, WaitSteps

(* The operator, the watch and the clock leave it whose it is.             *)
LEMMA FreshStep == Fresh /\ [Next]_vars => Fresh'
<1> SUFFICES ASSUME Fresh, [Next]_vars
             PROVE  Fresh'
  OBVIOUS
<1>0. TypeInv'
  BY TypeStep DEF Fresh
<1> USE <1>0 DEF Fresh, RunIsFresh, WatchIsFresh, StageIsRecorded
<1>1. CASE OperatorAdvance \/ OperatorError
  <2>1. PICK stage \in Stage : stage # "" /\ SetStage(stage)
    BY <1>1, OperatorSetsStage
  <2>2. run \in [of : 0 .. MaxAttempts, stage : Stage] /\ run' = [run EXCEPT !.stage = stage]
    BY <2>1 DEF SetStage, TypeInv, TypeOK
  <2>3. run'.of = run.of /\ run'.stage = stage
    BY <2>2
  <2>4. run # NoRun
    BY <1>1, OperatorSetsStage
  <2>5. <<run'.of, run'.stage>> \in reached'
    <3>1. reached' = reached \cup {<<run.of, stage>>}
      BY <2>1 DEF SetStage
    <3> QED BY <2>3, <3>1, Zenon
  <2>6. pc' = pc /\ attempt' = attempt /\ watch' = watch
    BY <2>1 DEF SetStage
  <2> QED BY <2>3, <2>4, <2>5, <2>6
<1>2. CASE CloseWatch
  BY <1>2 DEF CloseWatch, cluster
<1>3. CASE Expire \/ CollectStarter
  BY <1>3 DEF Expire, CollectStarter, cluster, waiter
<1>4. CASE UNCHANGED vars
  BY <1>4 DEF vars
<1> QED BY <1>1, <1>2, <1>3, <1>4, FreshGoroutine DEF Next
-----------------------------------------------------------------------------
(* What the events and the verdicts are about.                             *)

(* The part of the invariant that verdicts are taken from.                 *)
Recorded == EventsAreRecorded /\ VerdictIsOfThisRun

(* A verdict that names a stage this attempt's TestRun reached is right,   *)
(* and so is one that names no stage.                                      *)
LEMMA FinishIsRight ==
  ASSUME TypeOK, VerdictIsOfThisRun, reached' = reached,
         NEW verdict, Finish(verdict),
         verdict = "passed" => <<attempt, "finished">> \in reached,
         verdict = "stageError" => <<attempt, "error">> \in reached
  PROVE  VerdictIsOfThisRun'
<1>1. \A a \in Attempt : result'[a] = IF a = attempt THEN verdict ELSE result[a]
  BY DEF TypeOK, Finish
<1> QED BY <1>1 DEF VerdictIsOfThisRun

(* A verdict taken from the stage itself names one the TestRun reached.    *)
LEMMA StageVerdictIsRight ==
  ASSUME Fresh, pc \in Waiting, isTerminalStage(run.stage)
  PROVE  /\ StageVerdict(run.stage) = "passed" => <<attempt, "finished">> \in reached
         /\ StageVerdict(run.stage) = "stageError" => <<attempt, "error">> \in reached
<1>1. run.of = attempt
  BY DEF Fresh, RunIsFresh
<1>2. run.stage = "finished" \/ run.stage = "error"
  BY DEF isTerminalStage
<1>3. <<run.of, run.stage>> \in reached
  BY <1>2 DEF Fresh, StageIsRecorded
<1> QED BY <1>1, <1>2, <1>3 DEF StageVerdict

(* The steps of the goroutine keep events and verdicts right.              *)
LEMMA RecordedGoroutine ==
  Fresh /\ Recorded /\ (RunSteps \/ WaitSteps \/ Rerun) => Recorded'
<1> SUFFICES ASSUME Fresh, Recorded, RunSteps \/ WaitSteps \/ Rerun
             PROVE  Recorded'
  OBVIOUS
<1>0. TypeOK /\ EventsAreRecorded /\ VerdictIsOfThisRun
  BY DEF Fresh, TypeInv, Recorded
<1>1. ASSUME RunSteps PROVE Recorded'
  <2>1. watch' = watch /\ events' = events /\ reached' = reached /\ attempt' = attempt
    BY <1>1 DEF RunSteps, DeleteTestRun, BackendsSkip, BackendsCreateJob, BackendsWait,
                ApplyConfigMap, ApplyTestRun, WaitStarter, Goto, Finish, cluster, waiter
  <2>2. result' = result \/ Finish("setupFailed")
    BY <1>1 DEF RunSteps, DeleteTestRun, BackendsSkip, BackendsCreateJob, BackendsWait,
                ApplyConfigMap, ApplyTestRun, WaitStarter, Goto
  <2>3. VerdictIsOfThisRun'
    BY <1>0, <2>1, <2>2, FinishIsRight DEF VerdictIsOfThisRun
  <2> QED BY <1>0, <2>1, <2>3 DEF Recorded, EventsAreRecorded
<1>2. ASSUME NEW ctxOver, NEW from \in {"get", "recheck"}, NEW to,
             CheckStage(ctxOver, from, to)
      PROVE  Recorded'
  <2>1. watch' = watch /\ events' = events /\ reached' = reached /\ attempt' = attempt
    BY <1>2 DEF CheckStage, Goto, Finish, cluster
  <2>2. \/ result' = result
        \/ isTerminalStage(run.stage) /\ Finish(StageVerdict(run.stage))
    BY <1>2 DEF CheckStage, Goto
  <2>3. pc \in Waiting
    BY <1>2 DEF CheckStage, Waiting
  <2>4. VerdictIsOfThisRun'
    BY <1>0, <2>1, <2>2, <2>3, FinishIsRight, StageVerdictIsRight DEF VerdictIsOfThisRun
  <2> QED BY <1>0, <2>1, <2>4 DEF Recorded, EventsAreRecorded
<1>3. ASSUME NEW from \in {"startWatch", "restart"}, NEW to, OpenWatch(from, to)
      PROVE  Recorded'
  <2>1. reached' = reached /\ attempt' = attempt
    BY <1>3 DEF OpenWatch, Goto, Finish, cluster
  <2>2. result' = result \/ Finish("watchError")
    BY <1>3 DEF OpenWatch, Goto
  <2>3. VerdictIsOfThisRun'
    BY <1>0, <2>1, <2>2, FinishIsRight DEF VerdictIsOfThisRun
  <2>4. EventsAreRecorded'
    <3>1. run.of = attempt /\ (run.stage # "" => <<run.of, run.stage>> \in reached)
      BY <1>3 DEF OpenWatch, Goto, Waiting, Fresh, RunIsFresh, StageIsRecorded
    <3>2. \/ watch' = watch /\ events' = events
          \/ watch' = "open" /\ events' \in {<<>>, <<run.stage>>}
      BY <1>3 DEF OpenWatch
    <3>3. CASE watch' = watch /\ events' = events
      BY <1>0, <2>1, <3>3 DEF EventsAreRecorded
    <3>4. CASE watch' = "open" /\ events' \in {<<>>, <<run.stage>>}
      <4>1. \A i \in DOMAIN events' : events'[i] = run.stage
        BY <3>4
      <4> QED BY <2>1, <3>1, <3>4, <4>1 DEF EventsAreRecorded
    <3> QED BY <3>2, <3>3, <3>4
  <2> QED BY <2>3, <2>4 DEF Recorded
<1>4. CASE ReadEvent
  <2>1. /\ events # <<>> /\ events' = Tail(events) /\ events \in Seq(Stage)
        /\ watch' = watch /\ reached' = reached /\ attempt' = attempt
    BY <1>0, <1>4 DEF ReadEvent, Goto, Finish, cluster, TypeOK
  <2>2. EventsAreRecorded'
    <3>1. \A i \in DOMAIN Tail(events) : i + 1 \in DOMAIN events /\ Tail(events)[i] = events[i + 1]
      BY <2>1
    <3> QED BY <1>0, <2>1, <3>1 DEF EventsAreRecorded
  <2>3. VerdictIsOfThisRun'
    <3>1. CASE ~isTerminalStage(Head(events))
      BY <1>0, <1>4, <2>1, <3>1 DEF ReadEvent, Goto, VerdictIsOfThisRun
    <3>2. CASE isTerminalStage(Head(events))
      <4>1. Head(events) = events[1] /\ 1 \in DOMAIN events
        BY <2>1
      <4>2. Head(events) = "finished" \/ Head(events) = "error"
        BY <3>2 DEF isTerminalStage
      <4>3. <<attempt, Head(events)>> \in reached
        BY <1>0, <4>1, <4>2 DEF EventsAreRecorded
      <4>4. Finish(StageVerdict(Head(events)))
        BY <1>4, <3>2 DEF ReadEvent
      <4> QED BY <1>0, <2>1, <4>2, <4>3, <4>4, FinishIsRight DEF StageVerdict
    <3> QED BY <3>1, <3>2
  <2> QED BY <2>2, <2>3 DEF Recorded
<1>5. CASE WatchClosed \/ Deadline
  BY <1>0, <1>5 DEF WatchClosed, Deadline, Goto, cluster, waiter, Recorded,
                    EventsAreRecorded, VerdictIsOfThisRun
<1>6. CASE FinalCheck
  <2>1. watch' = watch /\ events' = events /\ reached' = reached /\ attempt' = attempt
    BY <1>6 DEF FinalCheck, Finish, cluster
  <2>2. \/ Finish("timeout")
        \/ isTerminalStage(run.stage) /\ Finish(StageVerdict(run.stage))
    BY <1>6 DEF FinalCheck
  <2>3. pc \in Waiting
    BY <1>6 DEF FinalCheck, Waiting
  <2>4. VerdictIsOfThisRun'
    BY <1>0, <2>1, <2>2, <2>3, FinishIsRight, StageVerdictIsRight
  <2> QED BY <1>0, <2>1, <2>4 DEF Recorded, EventsAreRecorded
<1>7. CASE Rerun
  <2>1. events' = <<>> /\ reached' = reached /\ result' = result
    BY <1>7 DEF Rerun, cluster
  <2>2. EventsAreRecorded'
    BY <2>1 DEF EventsAreRecorded
  <2> QED BY <1>0, <2>1, <2>2 DEF Recorded, VerdictIsOfThisRun
<1> QED
  BY <1>1, <1>2, <1>3, <1>4, <1>5, <1>6, <1>7
     DEF WaitSteps, FirstCheck, Recheck, StartWatch, RestartWatch
(* So do the operator, which records what it appends, the watch and the    *)
(* clock.                                                                  *)
LEMMA RecordedStep == Fresh /\ Recorded /\ [Next]_vars => Recorded'
<1> SUFFICES ASSUME Fresh, Recorded, [Next]_vars
             PROVE  Recorded'
  OBVIOUS
<1>0. TypeOK /\ EventsAreRecorded /\ VerdictIsOfThisRun
  BY DEF Fresh, TypeInv, Recorded
<1>1. CASE OperatorAdvance \/ OperatorError
  <2>1. PICK stage \in Stage : stage # "" /\ SetStage(stage)
    BY <1>1, OperatorSetsStage DEF Fresh
  <2>2. /\ reached' = reached \cup {<<run.of, stage>>}
        /\ watch' = watch /\ attempt' = attempt /\ result' = result
        /\ \/ watch = "open" /\ events' = Append(events, stage)
           \/ events' = events
    BY <2>1 DEF SetStage
  <2>3. VerdictIsOfThisRun'
    BY <1>0, <2>2, Zenon DEF VerdictIsOfThisRun
  <2>4. CASE events' = events
    BY <1>0, <2>2, <2>3, <2>4, Zenon DEF Recorded, EventsAreRecorded
  <2>5. CASE watch = "open" /\ events' = Append(events, stage)
    <3>1. run.of = attempt
      BY <2>5 DEF Fresh, WatchIsFresh
    <3>2. \A i \in DOMAIN events' : events'[i] = stage \/ (i \in DOMAIN events /\ events'[i] = events[i])
      <4>1. events \in Seq(Stage)
        BY <1>0 DEF TypeOK
      <4>2. stage \in Stage
        OBVIOUS
      <4>3. \A i \in DOMAIN Append(events, stage) :
              \/ Append(events, stage)[i] = stage
              \/ i \in DOMAIN events /\ Append(events, stage)[i] = events[i]
        BY <4>1, <4>2
      <4> QED BY <2>5, <4>3, Zenon
    <3>3. <<attempt, stage>> \in reached' /\ reached \subseteq reached'
      BY <2>2, <3>1, Zenon
    <3> QED BY <1>0, <2>2, <2>3, <2>5, <3>2, <3>3 DEF Recorded, EventsAreRecorded
  <2> QED BY <2>2, <2>4, <2>5
<1>2. CASE CloseWatch
  <2>1. events' = <<>> /\ reached' = reached /\ result' = result
    BY <1>2 DEF CloseWatch, cluster
  <2>2. EventsAreRecorded'
    BY <2>1 DEF EventsAreRecorded
  <2> QED BY <1>0, <2>1, <2>2 DEF Recorded, VerdictIsOfThisRun
<1>3. CASE Expire \/ CollectStarter
  BY <1>0, <1>3 DEF Expire, CollectStarter, cluster, waiter, Recorded, EventsAreRecorded, VerdictIsOfThisRun
<1>4. CASE UNCHANGED vars
  BY <1>0, <1>4 DEF vars, Recorded, EventsAreRecorded, VerdictIsOfThisRun
<1> QED BY <1>1, <1>2, <1>3, <1>4, RecordedGoroutine DEF Next

-----------------------------------------------------------------------------
(* What the loop cannot miss.                                              *)

(* The loop is entered by a recheck that failed or found no terminal stage, *)
(* a terminal stage set while it blocks is appended to the watch, and an   *)
(* event read without ending the wait was not the terminal one.            *)
LEMMA NoMissedStep ==
  Fresh /\ NoMissedTransition /\ [Next]_vars => NoMissedTransition'
<1> SUFFICES ASSUME Fresh, NoMissedTransition, [Next]_vars,
                    pc' = "select", watch' = "open", isTerminalStage(run'.stage)
             PROVE  badGet' = "recheck" \/ \E i \in DOMAIN events' : isTerminalStage(events'[i])
  BY DEF NoMissedTransition
<1>0. TypeOK
  BY DEF Fresh, TypeInv
<1>1. CASE RunSteps
  BY <1>1 DEF RunSteps, DeleteTestRun, BackendsSkip, BackendsCreateJob, BackendsWait,
              ApplyConfigMap, ApplyTestRun, WaitStarter, Goto, Finish
<1>2. CASE FirstCheck \/ StartWatch \/ RestartWatch \/ WatchClosed \/ Deadline \/ FinalCheck \/ Rerun
  BY <1>2 DEF FirstCheck, CheckStage, StartWatch, RestartWatch, OpenWatch, WatchClosed,
              Deadline, FinalCheck, Rerun, Goto, Finish
<1>3. CASE Recheck
  BY <1>3 DEF Recheck, CheckStage, Goto, Finish, cluster
<1>4. CASE ReadEvent
  <2>1. /\ pc = "select" /\ watch = "open" /\ run' = run /\ badGet' = badGet
        /\ events # <<>> /\ events \in Seq(Stage) /\ events' = Tail(events)
        /\ ~isTerminalStage(Head(events))
    BY <1>0, <1>4 DEF ReadEvent, Finish, cluster, TypeOK
  <2>2. ASSUME NEW i \in DOMAIN events, isTerminalStage(events[i])
        PROVE  \E j \in DOMAIN events' : isTerminalStage(events'[j])
    <3>1. i # 1
      BY <2>1, <2>2
    <3>2. i - 1 \in DOMAIN Tail(events) /\ Tail(events)[i - 1] = events[i]
      BY <2>1, <3>1
    <3> QED BY <2>1, <2>2, <3>2
  <2> QED BY <2>1, <2>2 DEF NoMissedTransition
<1>5. CASE OperatorAdvance \/ OperatorError
  <2>1. PICK stage \in Stage : stage # "" /\ SetStage(stage)
    BY <1>5, OperatorSetsStage DEF Fresh
  <2>2. run' = [run EXCEPT !.stage = stage] /\ run \in [of : 0 .. MaxAttempts, stage : Stage]
    BY <1>0, <2>1 DEF SetStage, TypeOK
  <2>3. isTerminalStage(stage)
    BY <2>2
  <2>4. events' = Append(events, stage) /\ events \in Seq(Stage)
    BY <1>0, <2>1 DEF SetStage, TypeOK
  <2>5. Len(events) + 1 \in DOMAIN events' /\ events'[Len(events) + 1] = stage
    <3>1. stage \in Stage
      OBVIOUS
    <3>2. /\ Len(events) + 1 \in DOMAIN Append(events, stage)
          /\ Append(events, stage)[Len(events) + 1] = stage
      BY <2>4, <3>1
    <3> QED BY <2>4, <3>2, Zenon
  <2> QED BY <2>3, <2>5
<1>6. CASE CloseWatch
  BY <1>6 DEF CloseWatch
<1>7. CASE Expire \/ CollectStarter
  BY <1>7 DEF Expire, CollectStarter, cluster, waiter, NoMissedTransition
<1>8. CASE UNCHANGED vars
  BY <1>8 DEF vars, NoMissedTransition
<1> QED
  BY <1>1, <1>2, <1>3, <1>4, <1>5, <1>6, <1>7, <1>8 DEF Next, WaitSteps

-----------------------------------------------------------------------------
(* The theorems.                                                           *)

(* The invariant holds before the first attempt.                           *)
LEMMA K6Init == Init => K6Inv
<1> SUFFICES ASSUME Init PROVE K6Inv
  OBVIOUS
<1>1. Fresh
  <2>1. NoRun.stage = ""
    BY DEF NoRun
  <2> QED BY <2>1, TypeInit DEF Init, Fresh, RunIsFresh, WatchIsFresh, StageIsRecorded,
                                Setup, Waiting
<1>2. EventsAreRecorded
  BY DEF Init, EventsAreRecorded
<1>3. VerdictIsOfThisRun
  BY DEF Init, VerdictIsOfThisRun
<1>4. NoMissedTransition
  BY DEF Init, NoMissedTransition
<1> QED BY <1>1, <1>2, <1>3, <1>4 DEF K6Inv

(* K6Inv is an invariant of the specification.                             *)
THEOREM K6Invariant == Spec => []K6Inv
<1>1. K6Inv /\ [Next]_vars => K6Inv'
  BY FreshStep, RecordedStep, NoMissedStep DEF K6Inv, Recorded
<1> QED BY <1>1, K6Init, PTL DEF Spec

(* VerdictIsOfThisRun: for any number of attempts, a verdict taken from a  *)
(* stage is about a stage that attempt's own TestRun was in.               *)
THEOREM VerdictOfThisRun == Spec => []VerdictIsOfThisRun
<1>1. K6Inv => VerdictIsOfThisRun
  BY DEF K6Inv
<1> QED BY <1>1, K6Invariant, PTL

(* NoMissedTransition: the Get, Watch, Get sequence of waitForK6TestRun    *)
(* leaves no terminal transition between the Get and the watch.            *)
THEOREM NoTransitionMissed == Spec => []NoMissedTransition
<1>1. K6Inv => NoMissedTransition
  BY DEF K6Inv
<1> QED BY <1>1, K6Invariant, PTL

(* TimeoutIsNotFinished: only FinalCheck reports a timeout, and it looked  *)
(* at the stage unless its own Get, the one after the deadline, failed.    *)
THEOREM TimeoutNotFinished == Spec => TimeoutIsNotFinished
<1>1. ASSUME TypeOK, [Next]_vars, result[attempt] = "none", result'[attempt] = "timeout"
      PROVE  badGet' = "final" \/ ~isTerminalStage(run.stage)
  <2>1. ASSUME NEW verdict, Finish(verdict) PROVE verdict = "timeout"
    BY <1>1, <2>1 DEF Finish, TypeOK
  <2>2. result' # result
    BY <1>1
  <2>3. CASE RunSteps
    BY <2>1, <2>2, <2>3
       DEF RunSteps, DeleteTestRun, BackendsSkip, BackendsCreateJob, BackendsWait,
           ApplyConfigMap, ApplyTestRun, WaitStarter, Goto
  <2>4. CASE FirstCheck \/ Recheck \/ StartWatch \/ RestartWatch \/ ReadEvent
    BY <2>1, <2>2, <2>4
       DEF FirstCheck, Recheck, CheckStage, StartWatch, RestartWatch, OpenWatch,
           ReadEvent, StageVerdict, Goto
  <2>5. CASE FinalCheck
    BY <2>1, <2>5 DEF FinalCheck, StageVerdict
  <2>6. CASE WatchClosed \/ Deadline \/ Rerun \/ OperatorAdvance \/ OperatorError
               \/ CollectStarter \/ CloseWatch \/ Expire \/ UNCHANGED vars
    BY <2>2, <2>6
       DEF WatchClosed, Deadline, Goto, Rerun, OperatorAdvance, OperatorError, SetStage,
           CollectStarter, CloseWatch, Expire, vars
  <2> QED BY <1>1, <2>3, <2>4, <2>5, <2>6 DEF Next, WaitSteps
<1>2. TypeOK /\ [Next]_vars =>
        [result[attempt] = "none" /\ result'[attempt] = "timeout" =>
           badGet' = "final" \/ ~isTerminalStage(run.stage)]_vars
  BY <1>1
<1> QED BY <1>2, TypeCorrect, PTL DEF Spec, TimeoutIsNotFinished
=============================================================================
