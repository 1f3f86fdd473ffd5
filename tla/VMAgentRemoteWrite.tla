------------------------- MODULE VMAgentRemoteWrite -------------------------
(***************************************************************************)
(* EnsureVMAgentRemoteWriteURL (pkg/install/vmagent.go): every chaos       *)
(* scenario, in every Ginkgo process, appends the URL of its own VMCluster *)
(* to the remoteWrite list of the one VMAgent they all share.  Calls of    *)
(* one process are serialised by a process-local mutex; calls of different *)
(* processes, and the operator that keeps rewriting the status of the same *)
(* object, meet only at the API server, which refuses an update that       *)
(* carries an old resourceVersion.                                         *)
(***************************************************************************)
EXTENDS Naturals, SequencesExt

CONSTANTS
  Call,        \* calls of EnsureVMAgentRemoteWriteURL
  Proc,        \* Ginkgo processes
  ProcOf,      \* the process a call is made in
  Url,         \* remoteWrite URLs
  UrlOf,       \* the URL a call has to ensure
  InitUrls,    \* the remoteWrite list of the VMAgent at bootstrap
  RetrySteps,  \* Steps of retry.DefaultRetry: runs of the update closure
  MaxRV,       \* bound: the operator begins to write only below this resourceVersion
  NoCall

ASSUME CallAssumption ==
  /\ NoCall \notin Call
  /\ ProcOf \in [Call -> Proc]
  /\ UrlOf \in [Call -> Url]

ASSUME ListAssumption ==
  /\ InitUrls \in Seq(Url)
  /\ IsInjective(InitUrls)

ASSUME BoundAssumption == RetrySteps \in Nat \ {0} /\ MaxRV \in Nat

VARIABLES
  remoteWrite, \* Spec.RemoteWrite of the shared VMAgent: a sequence of URLs
  rv,          \* its resourceVersion
  status,      \* its Status.UpdateStatus
  applied,     \* the URLs the running vmagent pods forward to
  mu,          \* vmAgentUpdateMu of each process: the call that holds it
  pc,          \* where each call is
  obj,         \* the VMAgent a call has read and modified, not yet written
  conflicts,   \* runs of the update closure that ended in a conflict
  startRV,     \* history: resourceVersion at the first read of each call
  ctxDone      \* calls whose context (SpecTimeout) is over

agent == <<remoteWrite, rv, status, applied>>
vars  == <<remoteWrite, rv, status, applied, mu, pc, obj, conflicts, startRV,
           ctxDone>>

Running  == {"get", "retryGet", "update", "wait"}
Failed   == {"apiError", "noEntries", "conflicts", "waitFailed"}
Returned == Failed \cup {"ok"}
NoObj    == [rv |-> 0, urls |-> <<>>]

(***************************************************************************)
(* One type invariant: the shapes the code's variables take.               *)
(***************************************************************************)
TypeOK ==
  /\ remoteWrite \in Seq(Url)
  /\ rv \in Nat \ {0}
  /\ status \in {"operational", "expanding", "failed"}
  /\ applied \in SUBSET Url
  /\ mu \in [Proc -> Call \cup {NoCall}]
  /\ pc \in [Call -> {"idle", "lock"} \cup Running \cup Returned]
  /\ obj \in [Call -> [rv : Nat, urls : Seq(Url)]]
  /\ conflicts \in [Call -> 0 .. RetrySteps]
  /\ startRV \in [Call -> Nat]
  /\ ctxDone \in SUBSET Call

Init ==
  /\ remoteWrite = InitUrls
  /\ rv = 1
  /\ status = "operational"
  /\ applied = ToSet(InitUrls)
  /\ mu = [p \in Proc |-> NoCall]
  /\ pc = [c \in Call |-> "idle"]
  /\ obj = [c \in Call |-> NoObj]
  /\ conflicts = [c \in Call |-> 0]
  /\ startRV = [c \in Call |-> 0]
  /\ ctxDone = {}

-----------------------------------------------------------------------------
(* The calls *)

Goto(c, from, to) ==
  /\ pc[c] = from
  /\ pc' = [pc EXCEPT ![c] = to]

(* A return, or the panic of a failed require, runs the deferred unlock.   *)
MutReturnKeepsLock(c, from, to) ==
  /\ Goto(c, from, to)
  /\ mu' = IF to = "conflicts" THEN mu ELSE [mu EXCEPT ![ProcOf[c]] = NoCall]

Return(c, from, to) ==
  /\ Goto(c, from, to)
  /\ mu' = [mu EXCEPT ![ProcOf[c]] = NoCall]

(* The scenario reaches the call and blocks on the mutex.                  *)
Start(c) ==
  /\ Goto(c, "idle", "lock")
  /\ UNCHANGED <<agent, mu, obj, conflicts, startRV, ctxDone>>

MutLockIgnored(c) ==
  /\ Goto(c, "lock", "get")
  /\ mu' = [mu EXCEPT ![ProcOf[c]] = c]
  /\ UNCHANGED <<agent, obj, conflicts, startRV, ctxDone>>

LockVMAgentUpdates(c) ==
  /\ mu[ProcOf[c]] = NoCall
  /\ Goto(c, "lock", "get")
  /\ mu' = [mu EXCEPT ![ProcOf[c]] = c]
  /\ UNCHANGED <<agent, obj, conflicts, startRV, ctxDone>>

(* The first Get: an empty list is reported, a list that has the URL is    *)
(* enough, otherwise the update closure runs.                              *)
FirstGet(c) ==
  /\ c \notin ctxDone
  /\ \/ remoteWrite = <<>> /\ Return(c, "get", "noEntries")
     \/ remoteWrite # <<>> /\ Contains(remoteWrite, UrlOf[c])
          /\ Return(c, "get", "ok")
     \/ remoteWrite # <<>> /\ ~Contains(remoteWrite, UrlOf[c])
          /\ Goto(c, "get", "retryGet") /\ UNCHANGED mu
  /\ startRV' = [startRV EXCEPT ![c] = rv]
  /\ UNCHANGED <<agent, obj, conflicts, ctxDone>>

(* A Get that fails, at either place, is not a conflict: the call fails.   *)
GetError(c) ==
  /\ \E from \in {"get", "retryGet"} : Return(c, from, "apiError")
  /\ UNCHANGED <<agent, obj, conflicts, startRV, ctxDone>>

(* The Get inside the closure: a fresh object, checked again.              *)
MutRetryGetNoCheck(c) ==
  /\ c \notin ctxDone
  /\ Goto(c, "retryGet", "update")
  /\ obj' = [obj EXCEPT ![c] = [rv |-> rv, urls |-> Append(remoteWrite, UrlOf[c])]]
  /\ UNCHANGED <<agent, mu, conflicts, startRV, ctxDone>>

RetryGet(c) ==
  /\ c \notin ctxDone
  /\ IF Contains(remoteWrite, UrlOf[c])
       THEN Goto(c, "retryGet", "wait") /\ UNCHANGED obj
       ELSE /\ Goto(c, "retryGet", "update")
            /\ obj' = [obj EXCEPT ![c] =
                 [rv |-> rv, urls |-> Append(remoteWrite, UrlOf[c])]]
  /\ UNCHANGED <<agent, mu, conflicts, startRV, ctxDone>>

(* The API server stores an object only if its resourceVersion is current. *)
MutWriteUnversioned(c) ==
  /\ remoteWrite' = obj[c].urls
  /\ rv' = rv + 1

Write(c) ==
  /\ obj[c].rv = rv
  /\ remoteWrite' = obj[c].urls
  /\ rv' = rv + 1

Drop(c) == obj' = [obj EXCEPT ![c] = NoObj]

UpdateOK(c) ==
  /\ c \notin ctxDone
  /\ Goto(c, "update", "wait")
  /\ Write(c)
  /\ Drop(c)
  /\ UNCHANGED <<status, applied, mu, conflicts, startRV, ctxDone>>

(* RetryOnConflict runs the closure again until its steps are used up.     *)
MutSpuriousConflict(c) ==
  /\ c \notin ctxDone
  /\ Drop(c)
  /\ conflicts' = [conflicts EXCEPT ![c] = @ + 1]
  /\ IF conflicts[c] + 1 < RetrySteps
       THEN Goto(c, "update", "retryGet") /\ UNCHANGED mu
       ELSE Return(c, "update", "conflicts")
  /\ UNCHANGED <<agent, startRV, ctxDone>>

MutConflictLimit(c) ==
  /\ c \notin ctxDone
  /\ obj[c].rv # rv
  /\ Drop(c)
  /\ conflicts' = [conflicts EXCEPT ![c] = @ + 1]
  /\ IF conflicts[c] <= RetrySteps
       THEN Goto(c, "update", "retryGet") /\ UNCHANGED mu
       ELSE Return(c, "update", "conflicts")
  /\ UNCHANGED <<agent, startRV, ctxDone>>

UpdateConflict(c) ==
  /\ c \notin ctxDone
  /\ obj[c].rv # rv
  /\ Drop(c)
  /\ conflicts' = [conflicts EXCEPT ![c] = @ + 1]
  /\ IF conflicts[c] + 1 < RetrySteps
       THEN Goto(c, "update", "retryGet") /\ UNCHANGED mu
       ELSE Return(c, "update", "conflicts")
  /\ UNCHANGED <<agent, startRV, ctxDone>>

(* Any other error ends the call; the write may have been applied.         *)
UpdateError(c) ==
  /\ Return(c, "update", "apiError")
  /\ Drop(c)
  /\ Write(c) \/ UNCHANGED <<remoteWrite, rv>>
  /\ UNCHANGED <<status, applied, conflicts, startRV, ctxDone>>

(* WaitForVMAgentToBeOperational, with the mutex still held: Operational   *)
(* ends it, a failed rollout or the timeout fails the test, a context that *)
(* is over ends it silently.                                               *)
WaitReturns(c) ==
  /\ \/ status = "operational" /\ c \notin ctxDone /\ Return(c, "wait", "ok")
     \/ c \notin ctxDone /\ Return(c, "wait", "waitFailed")
     \/ c \in ctxDone /\ Return(c, "wait", "ok")
  /\ UNCHANGED <<agent, obj, conflicts, startRV, ctxDone>>

CallStep(c) ==
  \/ LockVMAgentUpdates(c)
  \/ FirstGet(c)
  \/ GetError(c)
  \/ RetryGet(c)
  \/ UpdateOK(c)
  \/ UpdateConflict(c)
  \/ UpdateError(c)
  \/ WaitReturns(c)

(* SpecTimeout of the scenario a call belongs to.                          *)
CancelContext(c) ==
  /\ pc[c] \in {"lock"} \cup Running
  /\ ctxDone' = ctxDone \cup {c}
  /\ UNCHANGED <<agent, mu, pc, obj, conflicts, startRV>>

-----------------------------------------------------------------------------
(* The operator: every status write makes a new resourceVersion.           *)

WriteStatus(to) ==
  /\ rv' = rv + 1
  /\ status' = to
  /\ UNCHANGED <<remoteWrite, mu, pc, obj, conflicts, startRV, ctxDone>>

OperatorStart ==
  /\ rv < MaxRV
  /\ ToSet(remoteWrite) # applied /\ status # "expanding"
  /\ WriteStatus("expanding")
  /\ UNCHANGED applied

OperatorFinish ==
  /\ status = "expanding"
  /\ WriteStatus("operational")
  /\ applied' = ToSet(remoteWrite)

OperatorFail ==
  /\ status = "expanding"
  /\ WriteStatus("failed")
  /\ UNCHANGED applied

OperatorResync ==
  /\ rv < MaxRV
  /\ WriteStatus(status)
  /\ UNCHANGED applied

Operator == OperatorStart \/ OperatorFinish \/ OperatorFail \/ OperatorResync

Next ==
  \/ \E c \in Call : Start(c) \/ CallStep(c) \/ CancelContext(c)
  \/ Operator

(* A call that has been made runs on: every blocking step of the code has  *)
(* a timeout of its own.  Nothing is assumed of the scenario, the context  *)
(* or the operator.                                                        *)
Fairness == \A c \in Call : WF_vars(CallStep(c))

Spec == Init /\ [][Next]_vars /\ Fairness

-----------------------------------------------------------------------------
(* Properties *)

(* vmAgentUpdateMu: two calls of one process are never both past the lock. *)
MutualExclusion ==
  \A c, d \in Call :
    c # d /\ ProcOf[c] = ProcOf[d] => ~(pc[c] \in Running /\ pc[d] \in Running)

(* "Check again ... to avoid duplicates during retries" (vmagent.go:225):  *)
(* no URL is ever listed twice, whatever calls for the same URL run in     *)
(* other processes.                                                        *)
NoDuplicates == IsInjective(remoteWrite)

(* A call that returned without failing has its URL in the list, and no    *)
(* later write by another process takes it out again (no lost update).     *)
EnsuredURLStays ==
  \A c \in Call : pc[c] = "ok" => Contains(remoteWrite, UrlOf[c])

(* The closure only gives up after as many foreign writes as it had tries: *)
(* every conflict a call met is a write made since its first read.         *)
ConflictsAreForeignWrites ==
  \A c \in Call : pc[c] \in Running \cup Returned =>
                    startRV[c] + conflicts[c] <= rv

(* No step of any process removes, reorders or replaces an entry.          *)
OnlyAppends == [][IsPrefix(remoteWrite, remoteWrite')]_vars

(* Every call that was made ends, with or without a test failure: no       *)
(* early exit keeps the mutex from the calls that wait for it.             *)
EveryCallReturns ==
  \A c \in Call : (pc[c] = "lock") ~> (pc[c] \in Returned)

-----------------------------------------------------------------------------
(* What the calls promise together: a set of URLs that only grows, by the  *)
(* URLs asked for, and a verdict per call.                                 *)
Verdict(c) ==
  IF pc[c] \notin Returned THEN "none"
  ELSE IF pc[c] = "ok" THEN "ok" ELSE "failed"

Promise == INSTANCE RemoteWriteSet WITH
             urls    <- ToSet(remoteWrite),
             verdict <- [c \in Call |-> Verdict(c)]

(* The read-modify-write protocol implements one atomic insertion per call. *)
Implements == Promise!Spec
=============================================================================
