------------------------------ MODULE K6TestRun ------------------------------
(***************************************************************************)
(* One k6 load scenario (pkg/install/k6.go): RunK6Scenario replaces the    *)
(* TestRun of the scenario, and WaitForK6JobsToComplete watches it until   *)
(* it reaches a terminal stage.  The k6 operator moves the TestRun through *)
(* its stages meanwhile; a Get can fail, a watch can close and lose what   *)
(* it had not delivered, and the deadline can pass between any two steps.  *)
(* RunK6Scenario may be called again for the same name in the same         *)
(* namespace: vm-distributed keeps one namespace per process, and it is    *)
(* left behind when the AfterEach of a failed spec fails itself.           *)
(***************************************************************************)
EXTENDS Naturals, Sequences

CONSTANTS
  MaxAttempts,  \* bound: calls for one scenario name in one namespace
  MaxEvents,    \* bound: undelivered watch events
  MaxCloses     \* bound: watch closures per attempt before the deadline

ASSUME BoundAssumption ==
  MaxAttempts \in Nat \ {0} /\ MaxEvents \in Nat \ {0} /\ MaxCloses \in Nat

VARIABLES
  run,       \* the TestRun at the API server: the attempt it is of, its stage
  starter,   \* a <scenario>-starter job is there that has succeeded
  readyJob,  \* the <scenario>-backend-ready job exists
  attempt,   \* attempt under way
  pc,        \* where the spec is
  watch,     \* "none", "open" or "closed": the watcher the loop reads
  events,    \* stages carried by the events it has not read yet
  closes,    \* watch closures so far in this attempt
  expired,   \* the context of the wait is over
  badGet,    \* the place whose Get was the last and returned an error, or "none"
  result,    \* verdict of each attempt
  reached    \* history: <<attempt, stage>> for every stage a TestRun was in

vars == <<run, starter, readyJob, attempt, pc, watch, events, closes, expired,
          badGet, result, reached>>

(* The lifecycle the operator follows (k6.go:437-440), "" before it acts.  *)
StageOrder == <<"", "initialization", "initialized", "created", "started",
                "stopped", "finished">>
Stage      == {StageOrder[i] : i \in DOMAIN StageOrder} \cup {"error"}
Attempt    == 1 .. MaxAttempts
NoRun      == [of |-> 0, stage |-> ""]

isTerminalStage(stage) == stage \in {"finished", "error"}

Setup   == {"delete", "backends", "backendsWait", "applyConfigMap",
            "applyTestRun", "starter"}
Waiting == {"get", "startWatch", "recheck", "select", "restart", "final"}
Verdict == {"passed", "stageError", "timeout", "watchError", "setupFailed"}

TypeOK ==
  /\ run \in [of : 0 .. MaxAttempts, stage : Stage]
  /\ starter \in BOOLEAN /\ readyJob \in BOOLEAN
  /\ attempt \in Attempt
  /\ pc \in Setup \cup Waiting \cup {"done"}
  /\ watch \in {"none", "open", "closed"}
  /\ events \in Seq(Stage)
  /\ closes \in Nat
  /\ expired \in BOOLEAN /\ badGet \in {"none", "get", "recheck", "final"}
  /\ result \in [Attempt -> Verdict \cup {"none"}]
  /\ reached \in SUBSET (Attempt \X Stage)

Init ==
  /\ run = NoRun /\ starter = FALSE /\ readyJob = FALSE
  /\ attempt = 1 /\ pc = "delete"
  /\ watch = "none" /\ events = <<>> /\ closes = 0
  /\ expired = FALSE /\ badGet = "none"
  /\ result = [a \in Attempt |-> "none"]
  /\ reached = {}

cluster == <<run, starter, readyJob, reached>>
waiter  == <<watch, events, closes, expired, badGet>>

Goto(from, to) == pc = from /\ pc' = to /\ UNCHANGED <<attempt, result>>

Finish(verdict) ==
  /\ result' = [result EXCEPT ![attempt] = verdict]
  /\ pc' = "done"
  /\ UNCHANGED attempt

-----------------------------------------------------------------------------
(* RunK6Scenario *)

(* kubectl delete testrun,configmap --wait: the old run goes, its jobs may *)
(* be collected later.  A delete that fails, or a script that cannot be    *)
(* read, fails the test; deleting old series only logs what goes wrong.    *)
MutDeleteSkipped ==
  Goto("delete", "backends") /\ UNCHANGED <<cluster, waiter>>

DeleteTestRun ==
  /\ pc = "delete"
  /\ \/ Goto("delete", "backends") /\ run' = NoRun
     \/ Finish("setupFailed") /\ run' \in {run, NoRun}
  /\ UNCHANGED <<starter, readyJob, reached, waiter>>

(* waitForK6BackendsReady: no health URL, no check; otherwise a fresh job, *)
(* removed by a deferred delete whether it succeeds or not.  The delete    *)
(* can fail too.                                                           *)
BackendsSkip == Goto("backends", "applyConfigMap") /\ UNCHANGED <<cluster, waiter>>

BackendsCreateJob ==
  /\ pc = "backends"
  /\ \/ Goto("backends", "backendsWait") /\ readyJob' = TRUE
     \/ Finish("setupFailed") /\ readyJob' \in {FALSE, readyJob}
  /\ UNCHANGED <<run, starter, reached, waiter>>

BackendsWait ==
  /\ pc = "backendsWait"
  /\ \/ Goto("backendsWait", "applyConfigMap") /\ readyJob' = FALSE
     \/ Finish("setupFailed") /\ readyJob' \in BOOLEAN
  /\ UNCHANGED <<run, starter, reached, waiter>>

ApplyConfigMap ==
  /\ pc = "applyConfigMap"
  /\ Goto("applyConfigMap", "applyTestRun") \/ Finish("setupFailed")
  /\ UNCHANGED <<cluster, waiter>>

(* kubectl apply: a TestRun that is still there is not started again, and  *)
(* an apply that fails may have been stored.                               *)
Applied == IF run = NoRun THEN [of |-> attempt, stage |-> ""] ELSE run

ApplyTestRun ==
  /\ pc = "applyTestRun"
  /\ \/ Goto("applyTestRun", "starter") /\ run' = Applied
     \/ Finish("setupFailed") /\ run' \in {run, Applied}
  /\ UNCHANGED <<starter, readyJob, reached, waiter>>

WaitStarter ==
  /\ pc = "starter"
  /\ (starter /\ Goto("starter", "get")) \/ Finish("setupFailed")
  /\ UNCHANGED <<cluster, waiter>>

-----------------------------------------------------------------------------
(* waitForK6TestRun *)

(* checkStage: a Get error and a stage that is not terminal both mean "go  *)
(* on"; a terminal stage ends the wait, "error" by failing the test.       *)
StageVerdict(stage) == IF stage = "finished" THEN "passed" ELSE "stageError"

CheckStage(ctxOver, from, to) ==
  /\ pc = from
  /\ \/ Goto(from, to) /\ badGet' = from
     \/ /\ ~ctxOver /\ ~isTerminalStage(run.stage)
        /\ Goto(from, to) /\ badGet' = "none"
     \/ /\ ~ctxOver /\ isTerminalStage(run.stage)
        /\ Finish(StageVerdict(run.stage)) /\ badGet' = "none"
  /\ UNCHANGED <<cluster, watch, events, closes, expired>>

FirstCheck == CheckStage(expired, "get", "startWatch")

(* A watch reports what happens after it was opened; whether it starts by  *)
(* replaying the current object is left to the server.                     *)
OpenWatch(from, to) ==
  /\ pc = from
  /\ \/ /\ ~expired /\ Goto(from, to)
        /\ watch' = "open"
        /\ events' \in {<<>>, <<run.stage>>}
     \/ Finish("watchError") /\ UNCHANGED <<watch, events>>
  /\ UNCHANGED <<cluster, closes, expired, badGet>>

StartWatch == OpenWatch("startWatch", "recheck")

(* "terminal transition can occur after initial Get" (k6.go:483)           *)
MutRecheckSkipped ==
  /\ Goto("recheck", "select")
  /\ UNCHANGED <<cluster, waiter>>

Recheck == CheckStage(expired, "recheck", "select")

(* case event := <-watcher.ResultChan()                                    *)
ReadEvent ==
  /\ pc = "select" /\ events # <<>>
  /\ events' = Tail(events)
  /\ IF isTerminalStage(Head(events))
       THEN Finish(StageVerdict(Head(events)))
       ELSE Goto("select", "select")
  /\ UNCHANGED <<cluster, watch, closes, expired, badGet>>

(* The channel is closed: a new watch, then the recheck.                   *)
WatchClosed ==
  /\ watch = "closed" /\ events = <<>>
  /\ Goto("select", "restart")
  /\ UNCHANGED <<cluster, waiter>>

RestartWatch == OpenWatch("restart", "recheck")

(* case <-ctx.Done(): a last look with a context of its own.               *)
MutDeadlineIgnored ==
  /\ FALSE
  /\ UNCHANGED vars

Deadline ==
  /\ expired
  /\ Goto("select", "final")
  /\ UNCHANGED <<cluster, waiter>>

MutFinalCheckSkipped ==
  /\ pc = "final"
  /\ Finish("timeout")
  /\ UNCHANGED <<cluster, waiter>>

FinalCheck ==
  /\ pc = "final"
  /\ \/ Finish("timeout") /\ badGet' = "final"
     \/ ~isTerminalStage(run.stage) /\ Finish("timeout") /\ badGet' = "none"
     \/ /\ isTerminalStage(run.stage)
        /\ Finish(StageVerdict(run.stage)) /\ badGet' = "none"
  /\ UNCHANGED <<cluster, watch, events, closes, expired>>

(* The scenario is run again: everything the wait held is gone, the        *)
(* TestRun it applied is not.                                              *)
MutRerunOnceMore ==
  /\ pc = "done" /\ result[attempt] # "passed" /\ attempt <= MaxAttempts
  /\ attempt' = attempt + 1 /\ pc' = "delete"
  /\ watch' = "none" /\ events' = <<>> /\ closes' = 0
  /\ expired' = FALSE /\ badGet' = "none"
  /\ UNCHANGED <<cluster, result>>

Rerun ==
  /\ pc = "done" /\ result[attempt] # "passed" /\ attempt < MaxAttempts
  /\ attempt' = attempt + 1 /\ pc' = "delete"
  /\ watch' = "none" /\ events' = <<>> /\ closes' = 0
  /\ expired' = FALSE /\ badGet' = "none"
  /\ UNCHANGED <<cluster, result>>

RunSteps  == DeleteTestRun \/ BackendsSkip \/ BackendsCreateJob \/ BackendsWait
               \/ ApplyConfigMap \/ ApplyTestRun \/ WaitStarter
WaitSteps == FirstCheck \/ StartWatch \/ Recheck \/ ReadEvent \/ WatchClosed
               \/ RestartWatch \/ Deadline \/ FinalCheck

-----------------------------------------------------------------------------
(* The k6 operator, the API server's watch and the clock *)

(* A new stage reaches the open watch as a Modified event.                 *)
SetStage(stage) ==
  /\ run' = [run EXCEPT !.stage = stage]
  /\ reached' = reached \cup {<<run.of, stage>>}
  /\ events' = IF watch = "open" THEN Append(events, stage) ELSE events
  /\ watch = "open" => Len(events) < MaxEvents
  /\ UNCHANGED <<readyJob, attempt, pc, watch, closes, expired, badGet, result>>

OperatorAdvance ==
  /\ run # NoRun
  /\ \E i \in 1 .. Len(StageOrder) - 1 :
       /\ run.stage = StageOrder[i]
       /\ SetStage(StageOrder[i + 1])
       /\ starter' = (starter \/ StageOrder[i + 1] = "started")

OperatorError ==
  /\ run # NoRun /\ ~isTerminalStage(run.stage)
  /\ SetStage("error")
  /\ UNCHANGED starter

(* The garbage collector removes the starter job of a TestRun that is gone *)
(* some time after it, possibly when the next one has been applied.        *)
CollectStarter ==
  /\ starter /\ <<run.of, "started">> \notin reached
  /\ starter' = FALSE
  /\ UNCHANGED <<run, readyJob, reached, attempt, pc, waiter, result>>

(* A server or proxy closes the watch; what was not delivered is lost.     *)
CloseWatch ==
  /\ watch = "open" /\ pc \in {"recheck", "select"}
  /\ expired \/ closes < MaxCloses
  /\ watch' = "closed" /\ events' = <<>>
  /\ closes' = IF expired THEN closes ELSE closes + 1
  /\ UNCHANGED <<cluster, attempt, pc, expired, badGet, result>>

Expire ==
  /\ pc \in Waiting /\ ~expired
  /\ expired' = TRUE
  /\ UNCHANGED <<cluster, attempt, pc, watch, events, closes, badGet, result>>

Next ==
  \/ RunSteps \/ WaitSteps \/ Rerun
  \/ OperatorAdvance \/ OperatorError \/ CollectStarter \/ CloseWatch \/ Expire

(* The goroutine runs on, and a deadline passes; nothing is assumed of the *)
(* operator, of the watch or of a rerun.                                   *)
Fairness == WF_vars(RunSteps) /\ WF_vars(WaitSteps) /\ WF_vars(Expire)

Spec == Init /\ [][Next]_vars /\ Fairness

-----------------------------------------------------------------------------
(* Properties *)

(* A verdict taken from a stage is about the TestRun of that very attempt, *)
(* never about the one an earlier attempt left behind.                     *)
VerdictIsOfThisRun ==
  \A a \in Attempt :
    /\ result[a] = "passed"     => <<a, "finished">> \in reached
    /\ result[a] = "stageError" => <<a, "error">> \in reached

(* Get, Watch, Get again: while the loop blocks on an open watch, a        *)
(* terminal stage is either still to be delivered or was hidden because    *)
(* the Get after this watch was opened failed; a Get that failed earlier   *)
(* excuses nothing.                                                        *)
NoMissedTransition ==
  pc = "select" /\ watch = "open" /\ isTerminalStage(run.stage) =>
    badGet = "recheck" \/ \E i \in DOMAIN events : isTerminalStage(events[i])

(* A TestRun that has ended is reported as a timeout only if the Get made  *)
(* after the deadline (k6.go:492) failed itself: neither the deadline nor  *)
(* a Get that failed before it hides a result.                             *)
TimeoutIsNotFinished ==
  [][ result[attempt] = "none" /\ result'[attempt] = "timeout" =>
        badGet' = "final" \/ ~isTerminalStage(run.stage) ]_vars

(* The wait always returns a verdict, however the watch behaves.           *)
WaitReturns == (pc = "get") ~> (pc = "done")
=============================================================================
