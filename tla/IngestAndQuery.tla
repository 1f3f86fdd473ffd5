--------------------------- MODULE IngestAndQuery ---------------------------
(***************************************************************************)
(* The path of a functional test from outside the cluster, as in the test  *)
(* of streaming aggregation (functional_test.go:445-492): it finds the     *)
(* address of the ingress, applies its manifests, waits for the route,     *)
(* writes samples, lets them settle and reads their sum back.  Every leg   *)
(* has retries of its own (a watch, kubectl apply with backoff, polling,   *)
(* five attempts at a write, attempts at a query inside attempts at a      *)
(* scan), any request can fail, be lost or be answered late, and the       *)
(* context of the spec can end at any time.                                *)
(***************************************************************************)
EXTENDS Naturals, Sequences, FiniteSets

CONSTANTS
  Samples,        \* samples the test writes, each of value 1
  ApplyAttempts,  \* webhookRetryAttempts
  WriteAttempts,  \* attempts of RemoteWrite
  QueryAttempts,  \* retryAttempts of promquery
  ScanRetries,    \* maxRetries of RetryVectorScan
  MaxEvents       \* bound: updates of the ingress Service while it is watched

ASSUME BoundAssumption ==
  /\ {Samples, ApplyAttempts, WriteAttempts, QueryAttempts, ScanRetries} \subseteq Nat \ {0}
  /\ MaxEvents \in Nat

VARIABLES
  pc,        \* the leg of the path, or its verdict
  tries,     \* attempts made in the loop it is in
  inner,     \* attempts of the query inside a scan
  ctxDone,   \* the context of the spec is over
  preset,    \* -ingress-host was given
  address,   \* the Service has a LoadBalancer IP
  events,    \* undelivered events of the watch
  updates,   \* updates of the Service so far
  sent,      \* samples whose write has returned
  received,  \* times each sample has arrived
  visible,   \* times each sample is counted in what a query sees
  value,     \* the sum the scan has returned
  early,     \* history: the scan was taken before everything was visible
  lost       \* history: samples with a write that arrived and was not answered

net  == <<preset, address, events, updates>>
data == <<sent, received, visible, lost>>
scan == <<value, early>>
vars == <<pc, tries, inner, ctxDone, net, data, scan>>

Legs == {"discover", "deployment", "get", "openWatch", "watch", "apply", "route",
         "write", "settle", "scan", "compare"}
Verdicts == {"passed", "wrong", "failed"}
Larger(a, b) == IF a < b THEN b ELSE a

TypeOK ==
  /\ pc \in Legs \cup Verdicts
  /\ tries \in 0 .. Larger(Larger(ApplyAttempts, WriteAttempts), ScanRetries) - 1
  /\ inner \in 0 .. QueryAttempts - 1
  /\ ctxDone \in BOOLEAN /\ preset \in BOOLEAN /\ address \in BOOLEAN
  /\ events \in Seq([type : {"ADDED", "MODIFIED"}, ip : BOOLEAN])
  /\ updates \in 0 .. MaxEvents
  /\ sent \in 0 .. Samples /\ lost \subseteq 1 .. Samples
  /\ received \in [1 .. Samples -> 0 .. WriteAttempts]
  /\ visible \in [1 .. Samples -> 0 .. WriteAttempts]
  /\ value \in 0 .. Samples * WriteAttempts /\ early \in BOOLEAN

Init ==
  /\ pc = "discover" /\ tries = 0 /\ inner = 0 /\ ctxDone = FALSE
  /\ preset \in BOOLEAN /\ address \in BOOLEAN /\ events = <<>> /\ updates = 0
  /\ sent = 0 /\ lost = {}
  /\ received = [i \in 1 .. Samples |-> 0] /\ visible = received
  /\ value = 0 /\ early = FALSE

GoTo(leg) == pc' = leg /\ tries' = 0 /\ UNCHANGED inner
Fail      == GoTo("failed")
MutRetryOneMore(attempts) ==
  IF tries < attempts THEN tries' = tries + 1 /\ UNCHANGED <<pc, inner>> ELSE Fail

Retry(attempts) ==
  IF tries + 1 < attempts THEN tries' = tries + 1 /\ UNCHANGED <<pc, inner>> ELSE Fail

-----------------------------------------------------------------------------
(* DiscoverIngressHost *)

(* A host that was given is only dialled until it answers or               *)
(* ResourceWaitTimeout is over.  On kind the host is known as soon as the  *)
(* controller is deployed.                                                 *)
Discover ==
  /\ \/ pc = "discover" /\ preset /\ ((~ctxDone /\ GoTo("apply")) \/ Fail)
     \/ pc = "discover" /\ ~preset /\ GoTo("deployment")
     \/ pc = "deployment" /\ ((~ctxDone /\ (GoTo("apply") \/ GoTo("get"))) \/ Fail)
  /\ UNCHANGED <<ctxDone, net, data, scan>>

GetService ==
  /\ pc = "get"
  /\ (~ctxDone /\ GoTo(IF address THEN "apply" ELSE "openWatch")) \/ Fail
  /\ UNCHANGED <<ctxDone, net, data, scan>>

(* A watch without a resourceVersion begins with the object as it is.      *)
OpenWatch ==
  /\ pc = "openWatch"
  /\ \/ ~ctxDone /\ GoTo("watch") /\ events' = <<[type |-> "ADDED", ip |-> address]>>
     \/ Fail /\ UNCHANGED events
  /\ UNCHANGED <<ctxDone, preset, address, updates, data, scan>>

MutOnlyModified ==
  /\ pc = "watch" /\ events # <<>> /\ events' = Tail(events)
  /\ IF Head(events).ip /\ Head(events).type = "MODIFIED"
       THEN GoTo("apply") ELSE UNCHANGED <<pc, tries, inner>>
  /\ UNCHANGED <<ctxDone, preset, address, updates, data, scan>>

WatchEvent ==
  /\ pc = "watch" /\ events # <<>> /\ events' = Tail(events)
  /\ IF Head(events).ip THEN GoTo("apply") ELSE UNCHANGED <<pc, tries, inner>>
  /\ UNCHANGED <<ctxDone, preset, address, updates, data, scan>>

(* UntilWithoutRetry: a closed watch is an error, and so is the end of     *)
(* ResourceWaitTimeout.                                                    *)
WatchEnds ==
  /\ pc = "watch" /\ Fail
  /\ UNCHANGED <<ctxDone, net, data, scan>>

(* The load balancer sets an IP, a hostname only, or something else.       *)
ServiceChanges ==
  /\ updates < MaxEvents /\ updates' = updates + 1
  /\ address' \in {address, TRUE}
  /\ events' = IF pc = "watch"
                 THEN Append(events, [type |-> "MODIFIED", ip |-> address'])
                 ELSE events
  /\ UNCHANGED <<pc, tries, inner, ctxDone, preset, data, scan>>

-----------------------------------------------------------------------------
(* KubectlApplyFromStringWithRetry and WaitForHTTPRoutes *)

(* Webhook errors and a lost race for a shared object are retried, with    *)
(* backoff; any other error is not.                                        *)
KubectlApply ==
  /\ pc = "apply"
  /\ (~ctxDone /\ (GoTo("route") \/ Retry(ApplyAttempts))) \/ Fail
  /\ UNCHANGED <<ctxDone, net, data, scan>>

WaitForHTTPRoutes ==
  /\ pc = "route"
  /\ (~ctxDone /\ GoTo("write")) \/ Fail
  /\ UNCHANGED <<ctxDone, net, data, scan>>

-----------------------------------------------------------------------------
(* RemoteWrite *)

Arrives(i) == received' = [received EXCEPT ![i] = @ + 1]

(* 204 ends the write; anything else, also no answer to a write that has   *)
(* arrived, is tried again.                                                *)
WriteAcknowledged ==
  /\ pc = "write" /\ ~ctxDone
  /\ Arrives(sent + 1) /\ sent' = sent + 1
  /\ GoTo(IF sent' = Samples THEN "settle" ELSE "write")
  /\ UNCHANGED <<lost, ctxDone, net, visible, scan>>

MutGivesUpQuietly ==
  /\ pc = "write"
  /\ \/ ~ctxDone /\ Arrives(sent + 1) /\ lost' = lost \cup {sent + 1}
     \/ UNCHANGED <<received, lost>>
  /\ IF ~ctxDone /\ tries + 1 < WriteAttempts
       THEN tries' = tries + 1 /\ UNCHANGED <<pc, inner, sent>>
       ELSE sent' = sent + 1 /\ GoTo(IF sent' = Samples THEN "settle" ELSE "write")
  /\ UNCHANGED <<ctxDone, net, visible, scan>>

WriteFails ==
  /\ pc = "write"
  /\ \/ ~ctxDone /\ Arrives(sent + 1) /\ lost' = lost \cup {sent + 1}
     \/ UNCHANGED <<received, lost>>
  /\ IF ctxDone THEN Fail ELSE Retry(WriteAttempts)
  /\ UNCHANGED <<sent, ctxDone, net, visible, scan>>

(* Aggregation and storage make what has arrived visible, in their time.   *)
Settle ==
  /\ pc = "settle" /\ GoTo("scan")
  /\ UNCHANGED <<ctxDone, net, data, scan>>

Flush(i) ==
  /\ visible[i] # received[i]
  /\ visible' = [visible EXCEPT ![i] = received[i]]
  /\ UNCHANGED <<pc, tries, inner, ctxDone, net, sent, received, lost, scan>>

-----------------------------------------------------------------------------
(* RetryVectorScan around VectorScan around withRetry *)

(* Every sample is worth 1, so what a query sums up is how often samples   *)
(* are counted.                                                            *)
Counted == {c \in (1 .. Samples) \X (1 .. WriteAttempts) : c[2] <= visible[c[1]]}
Visible == Cardinality(Counted)

(* The first sum that is seen is taken.                                    *)
ScanReturns ==
  /\ pc = "scan" /\ ~ctxDone /\ Visible > 0
  /\ pc' = "compare" /\ tries' = 0 /\ inner' = 0
  /\ value' = Visible /\ early' = (visible # received)
  /\ UNCHANGED <<ctxDone, net, data>>

(* Inside a scan only transient errors are retried, and not once the       *)
(* context is over.                                                        *)
QueryRetried ==
  /\ pc = "scan" /\ ~ctxDone /\ inner + 1 < QueryAttempts
  /\ inner' = inner + 1 /\ UNCHANGED <<pc, tries>>
  /\ UNCHANGED <<ctxDone, net, data, scan>>

(* The scan has failed, by an error that lasts, by transient ones that do  *)
(* not stop, by the context or for want of data: all of them, and without  *)
(* a look at the context, are tried again after DataPropagationDelay.      *)
MutScanForEver ==
  /\ pc = "scan" /\ tries' = (tries + 1) % ScanRetries /\ inner' = 0
  /\ UNCHANGED <<pc, ctxDone, net, data, scan>>

ScanFails ==
  /\ pc = "scan" /\ inner' = 0
  /\ IF tries + 1 < ScanRetries THEN tries' = tries + 1 /\ UNCHANGED pc
                                ELSE pc' = "failed" /\ tries' = 0
  /\ UNCHANGED <<ctxDone, net, data, scan>>

(* ScannedMetric.EqualTo                                                   *)
Compare ==
  /\ pc = "compare" /\ GoTo(IF value = Samples THEN "passed" ELSE "wrong")
  /\ UNCHANGED <<ctxDone, net, data, scan>>

SpecTimeout ==
  /\ pc \in Legs /\ ~ctxDone /\ ctxDone' = TRUE
  /\ UNCHANGED <<pc, tries, inner, net, data, scan>>

Test ==
  \/ Discover \/ GetService \/ OpenWatch \/ WatchEvent \/ WatchEnds
  \/ KubectlApply \/ WaitForHTTPRoutes \/ WriteAcknowledged \/ WriteFails
  \/ Settle \/ ScanReturns \/ QueryRetried \/ ScanFails \/ Compare

Next ==
  \/ Test \/ ServiceChanges \/ SpecTimeout
  \/ \E i \in 1 .. Samples : Flush(i)

(* Every request has a timeout, so the test goes on; nothing is assumed of *)
(* the load balancer or of the storage.                                    *)
Spec == Init /\ [][Next]_vars /\ WF_vars(Test)

-----------------------------------------------------------------------------
(* Properties *)

(* An address that is set between the look at the Service and the watch,   *)
(* or later, is never missed: while the test watches, an event that shows  *)
(* it is on its way.                                                       *)
NoMissedAddress ==
  pc = "watch" /\ address => \E n \in DOMAIN events : events[n].ip

(* A sum that is wrong has a cause outside of the code: a write arrived    *)
(* and its answer was lost, so that the retry counted it twice, or the     *)
(* scan was taken before all that had arrived was visible.  And without a  *)
(* lost answer a test passes only when every sample is there.              *)
VerdictIsAboutTheWrites ==
  /\ pc = "wrong" => lost # {} \/ early
  /\ pc = "passed" /\ lost = {} => \A i \in 1 .. Samples : received[i] = 1

(* The test ends, although the ingress gets no address, no write is        *)
(* acknowledged and no data appears.                                       *)
TestEnds == <>(pc \in Verdicts)
=============================================================================
