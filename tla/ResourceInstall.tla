--------------------------- MODULE ResourceInstall ---------------------------
(***************************************************************************)
(* Installing and updating VictoriaMetrics custom resources (pkg/install)  *)
(* and waiting for the operator to report them operational                 *)
(* (WaitForOperational, pkg/helpers/wait.go).  Every Install function is a *)
(* straight line of requests that each can fail the test, so it is given   *)
(* here as the sequence of its steps; the steps are actions.  All          *)
(* resources are of one kind and in one namespace: that is what a wait     *)
(* without a name looks at.                                                *)
(***************************************************************************)
EXTENDS Naturals, Sequences

CONSTANTS
  Names,       \* the resources of the namespace, in the order List returns
  Existing,    \* those that are there, and operational, beforehand
  Caller,      \* calls of Install and Update functions
  Choices,     \* the programs each call may be a call of
  Target,      \* the resource each call installs or updates
  RetrySteps,  \* Steps of retry.DefaultRetry
  MaxRV,       \* bound: the operator writes only below this resourceVersion
  Base         \* the spec of a resource that was there beforehand

Resource == {Names[i] : i \in DOMAIN Names}
Reason   == {"webhook", "podCount", "fatal"}

-----------------------------------------------------------------------------
(* The programs: the steps, and what the wait among them is given: whether *)
(* it is restricted to the caller's own resource, and the failure reasons  *)
(* it keeps polling on.                                                    *)

EnsureNamespace == <<"nsGet", "nsCreate", "nsLabel">>

VMClusterWait     == [named |-> TRUE,  transient |-> {"podCount", "webhook"}]
VMSingleWait      == [named |-> FALSE, transient |-> {"podCount", "webhook"}]
VLClusterWait     == [named |-> FALSE, transient |-> {"webhook"}]
VMAgentWait       == [named |-> FALSE, transient |-> {"webhook"}]
VMAuthWait        == [named |-> FALSE, transient |-> {"webhook"}]
VLAgentWait       == [named |-> FALSE, transient |-> {"webhook"}]
VMDistributedWait == [named |-> TRUE,  transient |-> {"webhook"}]

InstallVMCluster ==
  [wait  |-> VMClusterWait,
   steps |-> EnsureNamespace \o <<"license", "apply", "wait", "pods",
                                  "expose", "route", "expose", "route">>]
InstallVLCluster ==
  [wait  |-> VLClusterWait,
   steps |-> EnsureNamespace \o <<"license", "apply", "wait", "pods",
                                  "expose", "route", "expose", "route">>]
InstallVMSingle ==
  [wait  |-> VMSingleWait,
   steps |-> EnsureNamespace \o <<"license", "apply", "wait", "pods",
                                  "expose", "route">>]
InstallVMAgent ==
  [wait  |-> VMAgentWait,
   steps |-> EnsureNamespace \o <<"license", "apply", "wait", "expose", "route">>]
ApplyVMAgentWithPatches ==
  [wait  |-> VMAgentWait,
   steps |-> <<"license", "apply", "wait", "expose", "route">>]
InstallVMAuth ==
  [wait  |-> VMAuthWait,
   steps |-> <<"nsGet", "nsCreate", "license", "apply", "wait">>]
InstallVLAgent ==
  [wait  |-> VLAgentWait,
   steps |-> <<"nsGet", "nsCreate", "license", "apply", "wait">>]
InstallVMDistributed ==
  [wait  |-> VMDistributedWait,
   steps |-> EnsureNamespace \o <<"license", "apply", "wait">>]
InstallVMDistributedWithHelm ==
  [wait  |-> [VMClusterWait EXCEPT !.named = FALSE],
   steps |-> <<"helm", "pods", "agentWait", "wait">>]
UpdateVMClusterSpec ==
  [wait  |-> VMClusterWait, steps |-> <<"get", "put", "wait">>]

Programs == {InstallVMCluster, InstallVLCluster, InstallVMSingle, InstallVMAgent,
             ApplyVMAgentWithPatches, InstallVMAuth, InstallVLAgent,
             InstallVMDistributed, InstallVMDistributedWithHelm,
             UpdateVMClusterSpec}

ASSUME CallAssumption ==
  /\ Choices \in [Caller -> SUBSET Programs] /\ Target \in [Caller -> Resource]
  /\ Existing \subseteq Resource /\ Base \notin Caller
ASSUME BoundAssumption == RetrySteps \in Nat \ {0} /\ MaxRV \in Nat

VARIABLES
  program,   \* what each call is a call of
  written,   \* history: calls whose write of their target was stored
  ns,        \* the namespace exists
  spec,      \* the manifests and mutations each resource's spec has
  rolled,    \* those of them the operator has rolled out
  status,    \* Status.UpdateStatus, a failure given by its reason
  rv,        \* resourceVersion of each resource, 0 when it does not exist
  pos,       \* the step each call is at
  outcome,   \* "running", or how the call ended
  obj,       \* the resource an update has read: its version and its spec
  conflicts, \* conflicts an update has met
  ctxDone    \* calls whose context is over

cluster == <<program, written, ns, spec, rolled, status, rv>>
vars    == <<cluster, pos, outcome, obj, conflicts, ctxDone>>

Status == {"", "expanding", "operational"} \cup Reason
Failed == {"stepFailed", "statusFailed", "timeout"}
NoObj  == [rv |-> 0, spec |-> {}]

TypeOK ==
  /\ program \in [Caller -> Programs] /\ written \in SUBSET Caller
  /\ ns \in BOOLEAN
  /\ spec \in [Resource -> SUBSET (Caller \cup {Base})]
  /\ rolled \in [Resource -> SUBSET (Caller \cup {Base})]
  /\ status \in [Resource -> Status]
  /\ rv \in [Resource -> Nat]
  /\ \A k \in Caller : pos[k] \in 1 .. Len(program[k].steps) + 1
  /\ outcome \in [Caller -> {"running", "ok"} \cup Failed]
  /\ obj \in [Caller -> [rv : Nat, spec : SUBSET (Caller \cup {Base})]]
  /\ conflicts \in [Caller -> 0 .. RetrySteps]
  /\ ctxDone \in SUBSET Caller

Init ==
  /\ program \in {f \in [Caller -> Programs] : \A k \in Caller : f[k] \in Choices[k]}
  /\ written = {}
  /\ ns \in {Existing # {}, TRUE}
  /\ spec = [r \in Resource |-> IF r \in Existing THEN {Base} ELSE {}]
  /\ rolled = spec
  /\ status = [r \in Resource |-> IF r \in Existing THEN "operational" ELSE ""]
  /\ rv = [r \in Resource |-> IF r \in Existing THEN 1 ELSE 0]
  /\ pos = [k \in Caller |-> 1]
  /\ outcome = [k \in Caller |-> "running"]
  /\ obj = [k \in Caller |-> NoObj]
  /\ conflicts = [k \in Caller |-> 0]
  /\ ctxDone = {}

Exists(r) == rv[r] # 0

-----------------------------------------------------------------------------
(* One step of a call: it goes on, it ends, or it fails the test. *)

At(k, step) ==
  outcome[k] = "running" /\ program[k].steps[pos[k]] = step

GoTo(k, i) ==
  /\ pos' = [pos EXCEPT ![k] = i]
  /\ outcome' = IF i > Len(program[k].steps) THEN [outcome EXCEPT ![k] = "ok"] ELSE outcome

GoOn(k) == GoTo(k, pos[k] + 1)

End(k, how) == outcome' = [outcome EXCEPT ![k] = how] /\ UNCHANGED pos

(* A Get that fails, or whose context is over, counts as "not there".      *)
NamespaceGet(k) ==
  /\ At(k, "nsGet")
  /\ \/ ns /\ k \notin ctxDone
          /\ GoTo(k, IF program[k].steps[3] = "nsLabel" THEN 4 ELSE 3)
     \/ GoOn(k)
  /\ UNCHANGED <<cluster, obj, conflicts, ctxDone>>

(* CreateNamespace fails the test if the namespace has come to exist.      *)
NamespaceCreate(k) ==
  /\ At(k, "nsCreate")
  /\ \/ ~ns /\ k \notin ctxDone /\ ns' = TRUE /\ GoOn(k)
     \/ End(k, "stepFailed") /\ ns' \in {ns, TRUE}
  /\ UNCHANGED <<program, written, spec, rolled, status, rv, obj, conflicts, ctxDone>>

(* ensureLicenseSecret: with context.Background(), so the call's context   *)
(* does not matter.                                                        *)
License(k) ==
  /\ At(k, "license")
  /\ GoOn(k) \/ End(k, "stepFailed")
  /\ UNCHANGED <<cluster, obj, conflicts, ctxDone>>

(* A write of the resources in R: each has the call's manifest from then   *)
(* on, on top of base[r].  A request that fails may have been stored.      *)
Store(k, R, base) ==
  /\ spec' = [r \in Resource |-> IF r \in R THEN base[r] \cup {k} ELSE spec[r]]
  /\ rv' = [r \in Resource |-> IF r \in R THEN rv[r] + 1 ELSE rv[r]]
  /\ written' = IF Target[k] \in R THEN written \cup {k} ELSE written

Apply(k) ==
  /\ At(k, "apply")
  /\ \/ ns /\ k \notin ctxDone /\ GoOn(k) /\ Store(k, {Target[k]}, spec)
     \/ ns /\ End(k, "stepFailed") /\ Store(k, {Target[k]}, spec)
     \/ End(k, "stepFailed") /\ UNCHANGED <<spec, rv, written>>
  /\ UNCHANGED <<program, ns, rolled, status, obj, conflicts, ctxDone>>

(* helm upgrade --wait creates every resource of the chart; it is not      *)
(* given the context, and when it fails some of them may be there.         *)
HelmUpgrade(k) ==
  /\ At(k, "helm")
  /\ \/ GoOn(k) /\ ns' = TRUE /\ Store(k, Resource, spec)
     \/ /\ End(k, "stepFailed") /\ ns' \in {ns, TRUE}
        /\ \E R \in SUBSET Resource : (R # {} => ns') /\ Store(k, R, spec)
  /\ UNCHANGED <<program, rolled, status, obj, conflicts, ctxDone>>

(* The steps that leave the resources alone: the namespace's label, the    *)
(* wait for pods or a deployment, an ingress, its route, which is not      *)
(* awaited with mTLS, and the wait for the chart's VMAgent, which returns  *)
(* silently when the context is over.  All others fail then.               *)
Request(k) ==
  /\ \E step \in {"nsLabel", "pods", "expose", "route", "agentWait"} : At(k, step)
  /\ \/ (k \notin ctxDone \/ At(k, "route") \/ At(k, "agentWait")) /\ GoOn(k)
     \/ End(k, "stepFailed")
  /\ UNCHANGED <<cluster, obj, conflicts, ctxDone>>

-----------------------------------------------------------------------------
(* updateVMClusterSpec: a context that is over makes it return silently.   *)
UpdateGet(k) ==
  /\ At(k, "get")
  /\ \/ /\ k \notin ctxDone /\ Exists(Target[k]) /\ GoOn(k)
        /\ obj' = [obj EXCEPT ![k] = [rv |-> rv[Target[k]], spec |-> spec[Target[k]]]]
     \/ k \notin ctxDone /\ End(k, "stepFailed") /\ UNCHANGED obj
     \/ k \in ctxDone /\ GoTo(k, pos[k] + 2) /\ UNCHANGED obj
  /\ UNCHANGED <<cluster, conflicts, ctxDone>>

(* The read object carries its resourceVersion: the server stores it only  *)
(* if nothing was written since.                                           *)
MutUpdateUnversioned(k) ==
  /\ At(k, "put") /\ k \notin ctxDone
  /\ Store(k, {Target[k]}, [r \in Resource |-> obj[k].spec])
  /\ GoOn(k)
  /\ UNCHANGED <<program, ns, rolled, status, obj, conflicts, ctxDone>>

UpdatePut(k) ==
  /\ At(k, "put") /\ k \notin ctxDone
  /\ obj[k].rv = rv[Target[k]]
  /\ Store(k, {Target[k]}, [r \in Resource |-> obj[k].spec])
  /\ GoOn(k)
  /\ UNCHANGED <<program, ns, rolled, status, obj, conflicts, ctxDone>>

MutConflictLimit(k) ==
  /\ At(k, "put") /\ k \notin ctxDone
  /\ obj[k].rv # rv[Target[k]]
  /\ conflicts' = [conflicts EXCEPT ![k] = @ + 1]
  /\ IF conflicts[k] <= RetrySteps THEN GoTo(k, pos[k] - 1)
                                    ELSE End(k, "stepFailed")
  /\ UNCHANGED <<cluster, obj, ctxDone>>

UpdateConflict(k) ==
  /\ At(k, "put") /\ k \notin ctxDone
  /\ obj[k].rv # rv[Target[k]]
  /\ conflicts' = [conflicts EXCEPT ![k] = @ + 1]
  /\ IF conflicts[k] + 1 < RetrySteps THEN GoTo(k, pos[k] - 1)
                                       ELSE End(k, "stepFailed")
  /\ UNCHANGED <<cluster, obj, ctxDone>>

UpdateError(k) ==
  /\ At(k, "put")
  /\ IF k \in ctxDone THEN GoOn(k) ELSE End(k, "stepFailed")
  /\ \/ /\ obj[k].rv = rv[Target[k]]
        /\ Store(k, {Target[k]}, [r \in Resource |-> obj[k].spec])
     \/ UNCHANGED <<spec, rv, written>>
  /\ UNCHANGED <<program, ns, rolled, status, obj, conflicts, ctxDone>>

-----------------------------------------------------------------------------
(* WaitForOperational *)

(* What a poll fetches, by its place in the list: all there is, or the one *)
(* resource the wait is named for.                                         *)
MutListedUnfiltered(k) == {i \in DOMAIN Names : Exists(Names[i])}

Listed(k) ==
  {i \in DOMAIN Names :
     Exists(Names[i]) /\ (program[k].wait.named => Names[i] = Target[k])}

(* The scan stops at the first resource that has no status yet, is         *)
(* operational, or has failed for a reason that is not transient; it       *)
(* passes over every other one.                                            *)
Decisive(k, s) ==
  s \in {"", "operational"} \cup (Reason \ program[k].wait.transient)

FirstDecisive(k) ==
  LET I == {i \in Listed(k) : Decisive(k, status[Names[i]])}
  IN  {status[Names[i]] : i \in {i \in I : \A j \in I : i <= j}}

(* One poll that ends the wait; a fetch error, an empty list and an        *)
(* undecided scan mean another one.                                        *)
MutPollEmptyStatusPasses(k) ==
  /\ At(k, "wait") /\ k \notin ctxDone
  /\ \/ FirstDecisive(k) \subseteq {"", "operational"} /\ GoOn(k)
     \/ FirstDecisive(k) \cap Reason # {} /\ End(k, "statusFailed")
  /\ UNCHANGED <<cluster, obj, conflicts, ctxDone>>

Poll(k) ==
  /\ At(k, "wait") /\ k \notin ctxDone
  /\ \/ "operational" \in FirstDecisive(k) /\ GoOn(k)
     \/ FirstDecisive(k) \cap Reason # {} /\ End(k, "statusFailed")
  /\ UNCHANGED <<cluster, obj, conflicts, ctxDone>>

(* The timeout fails the test; a context that is over just ends the wait.  *)
PollEnds(k) ==
  /\ At(k, "wait")
  /\ IF k \in ctxDone THEN GoOn(k) ELSE End(k, "timeout")
  /\ UNCHANGED <<cluster, obj, conflicts, ctxDone>>

CallStep(k) ==
  \/ NamespaceGet(k)  \/ NamespaceCreate(k) \/ License(k)    \/ Apply(k)
  \/ HelmUpgrade(k)   \/ Request(k)         \/ UpdateGet(k)  \/ UpdatePut(k)
  \/ UpdateConflict(k) \/ UpdateError(k)    \/ Poll(k)       \/ PollEnds(k)

CancelContext(k) ==
  /\ outcome[k] = "running"
  /\ ctxDone' = ctxDone \cup {k}
  /\ UNCHANGED <<cluster, pos, outcome, obj, conflicts>>

-----------------------------------------------------------------------------
(* The operator *)

WriteStatus(r, to) ==
  /\ Exists(r) /\ rv[r] < MaxRV
  /\ status' = [status EXCEPT ![r] = to]
  /\ rv' = [rv EXCEPT ![r] = @ + 1]
  /\ UNCHANGED <<program, written, ns, spec, pos, outcome, obj, conflicts, ctxDone>>

(* It starts on a spec it has not rolled out, or again on one that failed. *)
OperatorStart(r) ==
  /\ rolled[r] # spec[r] /\ status[r] # "expanding"
  /\ WriteStatus(r, "expanding")
  /\ UNCHANGED rolled

OperatorFinish(r) ==
  /\ status[r] = "expanding"
  /\ WriteStatus(r, "operational")
  /\ rolled' = [rolled EXCEPT ![r] = spec[r]]

OperatorFail(r) ==
  /\ status[r] = "expanding"
  /\ \E reason \in Reason : WriteStatus(r, reason)
  /\ UNCHANGED rolled

Operator(r) == OperatorStart(r) \/ OperatorFinish(r) \/ OperatorFail(r)

Next ==
  \/ \E k \in Caller : CallStep(k) \/ CancelContext(k)
  \/ \E r \in Resource : Operator(r)

Spec == Init /\ [][Next]_vars

-----------------------------------------------------------------------------
(* Properties *)

(* A failed status that ends a named wait is the status of the resource    *)
(* the caller asked about, never of a neighbour in the same namespace      *)
(* (vmcluster.go:284-286), and never one the wait calls transient.         *)
FailureIsOwn ==
  [][ \A k \in Caller :
        /\ program[k].wait.named
        /\ outcome[k] = "running" /\ outcome'[k] = "statusFailed"
        => status[Target[k]] \in Reason \ program[k].wait.transient ]_vars

(* An Install function whose wait looks at its own resource only never     *)
(* returns normally before the operator has rolled that resource out: no   *)
(* status, a rollout under way and a transient failure keep the poll       *)
(* going.  When the wait has returned silently because the context was     *)
(* over, the wait for pods that InstallVMCluster makes next fails.  It     *)
(* takes a resource that one call alone installs: with two installers the  *)
(* operational status may be that of the other manifest.                   *)
InstalledIsRolledOut ==
  \A k \in Caller :
    /\ outcome[k] = "ok" /\ Target[k] \notin Existing
    /\ program[k].wait.named \/ Resource = {Target[k]}
    /\ k \in ctxDone => program[k] = InstallVMCluster
    => k \in rolled[Target[k]]

(* What a call has written stays written, whatever other callers and the   *)
(* operator write meanwhile: the update closure mutates the version it     *)
(* read, and no older one.                                                 *)
WrittenIsKept == \A k \in written : k \in spec[Target[k]]

(* vmcluster.go:314-315: after a successful update the function waits for  *)
(* the cluster to return to operational status.  The status can still be   *)
(* the one of the spec before the update.                                  *)
UpdateIsRolledOut ==
  \A k \in Caller :
    outcome[k] = "ok" /\ k \notin ctxDone /\ program[k] = UpdateVMClusterSpec
      => k \in rolled[Target[k]]
=============================================================================
