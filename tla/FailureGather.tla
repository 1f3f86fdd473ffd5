---------------------------- MODULE FailureGather ----------------------------
(***************************************************************************)
(* The cleanup node of a chaos or load scenario, on the clock.  A failed   *)
(* scenario first gathers its artefacts (GatherOnFailureFrom): an export   *)
(* of metrics by the vmgather service, which is started, polled,           *)
(* downloaded and started again when it has failed, then logs, then a dump *)
(* of the cluster.  The teardown follows and ends with the deletion of the *)
(* namespace.  All of it shares one NodeTimeout, GatherCleanupTimeout;     *)
(* when that is over the context is cancelled and Ginkgo abandons, after a *)
(* grace period, what does not heed it.                                    *)
(*                                                                         *)
(* The unit of time is 10 s.  A step takes no time or all that it is       *)
(* allowed; what the properties say of the clock is monotone in every      *)
(* step's duration.  A call the code gives no limit (a request, a kubectl) *)
(* takes up to RequestTime; one that takes longer hangs until the node     *)
(* ends.                                                                   *)
(***************************************************************************)
EXTENDS Naturals, Sequences

CONSTANTS
  Kinds,                     \* the teardowns the run has
  vmGatherExportAttempts, vmGatherExportTimeout,
  ResourceWaitTimeout, VMClusterWaitTimeout, VMDistributedWaitTimeout,
  PollingTimeout,
  RequestTime                \* what a call without a limit takes unless it hangs

ASSUME DurationAssumption ==
  /\ RequestTime \in Nat /\ RequestTime <= ResourceWaitTimeout
  /\ vmGatherExportAttempts \in Nat \ {0}
  /\ {vmGatherExportTimeout, ResourceWaitTimeout, VMClusterWaitTimeout,
      VMDistributedWaitTimeout, PollingTimeout} \subseteq Nat

Larger(a, b)  == IF a < b THEN b ELSE a
Smaller(a, b) == IF a < b THEN a ELSE b

GatherCleanupTimeout ==
  3 * ResourceWaitTimeout + 3 * VMClusterWaitTimeout + VMDistributedWaitTimeout
    + PollingTimeout + 30

MutExportTimeout == PollingTimeout
ExportTimeout == Larger(ResourceWaitTimeout, vmGatherExportTimeout)

(* wait.Backoff of 10 s and factor 2: the pause before try n + 1.          *)
Backoff(n) == 2 ^ (n - 1)

(* A step of a teardown: the time it takes at most unless it hangs,        *)
(* whether it heeds the context of the node, whether its error fails the   *)
(* node, and whether it has no limit and can hang.                         *)
Step(cap, ctx, fatal, unbounded) ==
  [cap |-> cap, ctx |-> ctx, fatal |-> fatal, unbounded |-> unbounded]

DeleteObject == Step(RequestTime, FALSE, TRUE, TRUE)
WaitDeleted  == Step(VMClusterWaitTimeout, FALSE, TRUE, FALSE)
DeleteCluster == <<DeleteObject, WaitDeleted, WaitDeleted, WaitDeleted>>
DeletePV     == Step(3, TRUE, FALSE, FALSE)
DeleteNFSResources == [i \in 1 .. 5 |-> DeletePV]
UninstallK6  == <<Step(RequestTime, TRUE, TRUE, TRUE)>>
CleanupNamespace == <<Step(PollingTimeout, FALSE, TRUE, FALSE)>>

Chaos   == DeleteCluster \o CleanupNamespace
Load    == DeleteCluster \o UninstallK6 \o CleanupNamespace
NFSLoad == DeleteCluster \o DeleteNFSResources \o UninstallK6 \o CleanupNamespace
AllKinds == {Chaos, Load, NFSLoad}

ASSUME KindAssumption == Kinds \subseteq AllKinds

VARIABLES
  kind,     \* the teardown of the scenario
  pc,       \* where the node is
  pos,      \* step of the teardown
  elapsed,  \* time since the node began
  limit,    \* when the poll, or the dump, is over
  tries,    \* exports begun
  job,      \* what vmgather has made of each of them
  attached, \* what was added to the report
  failed,   \* the node has failed
  hung      \* history: a step without a limit has hung

export == <<tries, job>>
vars   == <<kind, pc, pos, elapsed, limit, export, attached, failed, hung>>

Gathering == {"start", "poll", "download", "logs", "list", "dump"}

TypeOK ==
  /\ kind \in Kinds
  /\ pc \in Gathering \cup {"teardown", "over", "abandoned"}
  /\ pos \in 1 .. Len(kind) + 1
  /\ elapsed \in 0 .. GatherCleanupTimeout /\ limit \in Nat
  /\ tries \in 1 .. vmGatherExportAttempts
  /\ job \in [1 .. vmGatherExportAttempts -> {"none", "running", "completed", "failed"}]
  /\ attached \subseteq {"metrics", "logs", "dump"}
  /\ failed \in BOOLEAN /\ hung \in BOOLEAN

(* GatherOnFailureFrom gathers when the scenario has failed, or always     *)
(* when ALWAYS_GATHER is set.                                              *)
Init ==
  /\ kind \in Kinds /\ pc \in {"start", "teardown"} /\ pos = 1
  /\ elapsed = 0 /\ limit = 0
  /\ tries = 1 /\ job = [i \in 1 .. vmGatherExportAttempts |-> "none"]
  /\ attached = {} /\ failed = FALSE /\ hung = FALSE

NodeDone == elapsed = GatherCleanupTimeout
After(d) == Smaller(elapsed + d, GatherCleanupTimeout)
Until(t) == Larger(elapsed, Smaller(t, GatherCleanupTimeout))

(* A call that ends, with an answer or an error.                           *)
Call == elapsed' \in {elapsed, After(RequestTime)}

(* A request with the context of the node and no timeout of its own        *)
(* (http.DefaultClient) that is never answered: the end of the node fails  *)
(* it.                                                                     *)
MutHang(next) ==
  /\ elapsed' = GatherCleanupTimeout /\ hung' = TRUE
  /\ pc' = "abandoned" /\ failed' = TRUE

Hang(next) ==
  /\ elapsed' = GatherCleanupTimeout /\ hung' = TRUE
  /\ pc' = next /\ UNCHANGED failed

-----------------------------------------------------------------------------
(* VMAfterAll: the export of metrics *)

(* POST /api/export/start.  Its errors end the export, also when the job   *)
(* was started and only the answer lost.                                   *)
StartExport ==
  /\ pc = "start"
  /\ \/ /\ ~NodeDone /\ Call /\ pc' = "poll"
        /\ limit' = elapsed' + ExportTimeout
        /\ job' = [job EXCEPT ![tries] = "running"]
        /\ UNCHANGED <<failed, hung>>
     \/ /\ Call /\ pc' = "logs"
        /\ \/ ~NodeDone /\ job' = [job EXCEPT ![tries] = "running"]
           \/ UNCHANGED job
        /\ UNCHANGED <<limit, failed, hung>>
     \/ ~NodeDone /\ Hang("logs") /\ UNCHANGED <<limit, job>>
  /\ UNCHANGED <<kind, pos, tries, attached>>

JobEnds(outcome) ==
  /\ job[tries] = "running"
  /\ job' = [job EXCEPT ![tries] = outcome]
  /\ UNCHANGED <<kind, pc, pos, elapsed, limit, tries, attached, failed, hung>>

(* The whole export again, after a pause that does not heed the context.   *)
MutRetryOnce ==
  /\ tries' = tries + 1 /\ pc' = "start"
  /\ elapsed' = After(Backoff(tries))

Retry ==
  IF tries < vmGatherExportAttempts
    THEN /\ tries' = tries + 1 /\ pc' = "start"
         /\ elapsed' = After(Backoff(tries))
    ELSE pc' = "logs" /\ UNCHANGED <<tries, elapsed>>

(* GET /api/export/status.  Completed goes to the download, unless it      *)
(* names no archive; failed is the one error that is retried; anything     *)
(* else is polled on.                                                      *)
StatusSeen ==
  /\ pc = "poll" /\ elapsed <= limit /\ ~NodeDone
  /\ \/ /\ job[tries] = "completed" /\ pc' \in {"download", "logs"}
        /\ UNCHANGED <<tries, elapsed>>
     \/ job[tries] = "failed" /\ Retry
  /\ UNCHANGED <<kind, pos, limit, job, attached, failed, hung>>

PollOn ==
  /\ pc = "poll" /\ elapsed < limit /\ ~NodeDone
  /\ elapsed' = Until(limit)
  /\ UNCHANGED <<kind, pc, pos, limit, export, attached, failed, hung>>

(* The deadline of the poll, or the end of the node: not retried.          *)
MutPollEndsRetried ==
  /\ pc = "poll" /\ (elapsed = limit \/ NodeDone)
  /\ Retry
  /\ UNCHANGED <<kind, pos, limit, job, attached, failed, hung>>

PollEnds ==
  /\ pc = "poll" /\ (elapsed = limit \/ NodeDone)
  /\ pc' = "logs"
  /\ UNCHANGED <<kind, pos, elapsed, limit, export, attached, failed, hung>>

Download ==
  /\ pc = "download"
  /\ \/ /\ ~NodeDone /\ Call /\ pc' = "logs"
        /\ attached' = attached \cup {"metrics"}
        /\ UNCHANGED <<failed, hung>>
     \/ Call /\ pc' = "logs" /\ UNCHANGED <<attached, failed, hung>>
     \/ ~NodeDone /\ Hang("logs") /\ UNCHANGED attached
  /\ UNCHANGED <<kind, pos, limit, export>>

-----------------------------------------------------------------------------
(* Logs and the dump of the cluster *)

VLAfterAll ==
  /\ pc = "logs" /\ pc' = "list"
  /\ \/ ~NodeDone /\ attached' = attached \cup {"logs"}
     \/ UNCHANGED attached
  /\ elapsed' \in {elapsed, After(ResourceWaitTimeout)}
  /\ UNCHANGED <<kind, pos, limit, export, failed, hung>>

(* K8sAfterAll, first half: ListNamespaces fails the node, and with it the *)
(* whole teardown; secrets that cannot be read are skipped.  The limit of  *)
(* the dump is set before the first request.                               *)
ListNamespaces ==
  /\ pc = "list" /\ Call /\ limit' = elapsed + ResourceWaitTimeout
  /\ \/ pc' = "dump" /\ UNCHANGED failed
     \/ pc' = "over" /\ failed' = TRUE
  /\ UNCHANGED <<kind, pos, export, attached, hung>>

(* Second half: crust-gather and tar under one limit, their errors logged. *)
(* tar is not started once the limit is over; what ReadFile finds under    *)
(* the name of the archive, old or partial, is attached.                   *)
Dump ==
  /\ pc = "dump" /\ pc' = "teardown"
  /\ elapsed' \in {elapsed, Until(limit)}
  /\ attached' \in {attached, attached \cup {"dump"}}
  /\ UNCHANGED <<kind, pos, limit, export, failed, hung>>

-----------------------------------------------------------------------------
(* The teardown *)

step == kind[pos]
InTeardown == pc = "teardown" /\ pos <= Len(kind)

StepDone ==
  /\ InTeardown /\ (step.ctx => ~NodeDone)
  /\ pos' = pos + 1 /\ elapsed' \in {elapsed, After(step.cap)}
  /\ UNCHANGED <<kind, pc, limit, export, attached, failed, hung>>

(* A fatal error skips the rest, the deletion of the namespace included.   *)
StepFails ==
  /\ InTeardown
  /\ elapsed' \in {elapsed, After(step.cap)}
  /\ IF step.fatal THEN pc' = "over" /\ failed' = TRUE /\ UNCHANGED pos
                   ELSE pos' = pos + 1 /\ UNCHANGED <<pc, failed>>
  /\ UNCHANGED <<kind, limit, export, attached, hung>>

(* kubectl delete waits for finalizers as long as they take.               *)
StepHangs ==
  /\ InTeardown /\ step.unbounded /\ ~NodeDone
  /\ hung' = TRUE /\ elapsed' = GatherCleanupTimeout
  /\ UNCHANGED <<kind, pc, pos, limit, export, attached, failed>>

(* Ginkgo leaves a node behind that runs on after its grace period.        *)
Abandon ==
  /\ InTeardown /\ NodeDone
  /\ pc' = "abandoned" /\ failed' = TRUE
  /\ UNCHANGED <<kind, pos, elapsed, limit, export, attached, hung>>

TeardownEnds ==
  /\ pc = "teardown" /\ pos > Len(kind) /\ pc' = "over"
  /\ UNCHANGED <<kind, pos, elapsed, limit, export, attached, failed, hung>>

GatherStep ==
  \/ StartExport \/ StatusSeen \/ PollOn \/ PollEnds \/ Download
  \/ VLAfterAll \/ ListNamespaces \/ Dump

Next ==
  \/ GatherStep
  \/ \E outcome \in {"completed", "failed"} : JobEnds(outcome)
  \/ StepDone \/ StepFails \/ StepHangs \/ Abandon \/ TeardownEnds

(* The goroutine of the node goes on, and time passes for it; nothing is   *)
(* assumed of vmgather.                                                    *)
Spec == Init /\ [][Next]_vars /\ WF_vars(GatherStep)

-----------------------------------------------------------------------------
(* Properties *)

(* consts/main.go:44: the node's timeout "must exceed" the summed limits   *)
(* of gathering and teardown "or cleanup gets killed mid-way, leaking the  *)
(* namespace": the deletion of the namespace begins with more than its     *)
(* PollingTimeout left, unless a call without a limit hung.                *)
TimeoutExceedsSummedCaps ==
  pc = "teardown" /\ pos = Len(kind) /\ ~hung
    => elapsed + PollingTimeout < GatherCleanupTimeout

(* Without NFS volumes it is so, however the retries of the export, the    *)
(* requests, each with its RequestTime, and the waits add up.              *)
NamespaceDeletionHasItsTime == kind # NFSLoad => TimeoutExceedsSummedCaps

(* An export is started again only when vmgather has said that the one     *)
(* before failed, so it never runs two at once for one cleanup, though a   *)
(* poll may give up on a job that still runs; and metrics in the report    *)
(* are the archive of the last export, which was completed.                *)
ExportsFollowEachOther ==
  /\ \A i \in 1 .. tries - 1 : job[i] = "failed"
  /\ "metrics" \in attached => job[tries] = "completed"

(* Gathering never keeps the node from its teardown for good: it fails the *)
(* node or gets there, though vmgather never answers and a job never ends. *)
GatheringEnds == (pc \in Gathering) ~> (pc \in {"teardown", "over"})
=============================================================================
