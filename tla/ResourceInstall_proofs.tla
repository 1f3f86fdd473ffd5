----------------------- MODULE ResourceInstall_proofs -----------------------
(***************************************************************************)
(* Proofs about ResourceInstall, for every set of resources, of calls and  *)
(* of programs they may be: types, that no write is lost, that a failed    *)
(* status which ends a named wait is the caller's own, and that an Install *)
(* function returns normally only from a resource that was rolled out, as  *)
(* long as nobody else writes a resource that is being installed.          *)
(***************************************************************************)
EXTENDS ResourceInstall, TLAPS

-----------------------------------------------------------------------------
(* The programs *)

Has(q, x) == \E i \in 1 .. Len(q) : q[i] = x

(* What the proofs need to know of the steps q of a program: where the     *)
(* steps that jump stand, and that there is a wait.                        *)
WellFormed(q) ==
  /\ Len(q) \in 3 .. 11
  /\ \A i \in 1 .. Len(q) : q[i] = "nsGet" => i = 1 /\ 5 <= Len(q) /\ q[2] = "nsCreate"
  /\ \A i \in 1 .. Len(q) : q[i] = "get" => i = 1 /\ q[2] = "put"
  /\ \A i \in 1 .. Len(q) : q[i] = "put" => i = 2
  /\ Has(q, "wait")

(* The wait for pods comes after the wait for the resource.                *)
PodsAfterWait(q) ==
  \A i \in 1 .. Len(q) : q[i] = "pods" => \E j \in 1 .. Len(q) : j < i /\ q[j] = "wait"

TailSteps == {"license", "apply", "wait", "pods", "expose", "route"}

(* EnsureNamespace in front of steps that do not jump.                     *)
LEMMA EnsureShape ==
  ASSUME NEW t \in Seq(TailSteps), NEW n \in 3 .. 8, n <= Len(t), Len(t) <= n,
         Has(t, "wait")
  PROVE  /\ WellFormed(EnsureNamespace \o t)
         /\ Has(t, "pods") => Has(EnsureNamespace \o t, "pods")
         /\ PodsAfterWait(t) => PodsAfterWait(EnsureNamespace \o t)
<1> DEFINE S == TailSteps \cup {"nsGet", "nsCreate", "nsLabel"}
           e == EnsureNamespace
           q == e \o t
<1>1. /\ e \in Seq(S) /\ 3 <= Len(e) /\ Len(e) <= 3
      /\ e[1] = "nsGet" /\ e[2] = "nsCreate" /\ e[3] = "nsLabel"
  BY DEF EnsureNamespace
<1>2. t \in Seq(S) /\ \A i \in 1 .. n : t[i] \in TailSteps
  BY DEF TailSteps
<1> HIDE DEF e
<1>3. Len(q) = n + 3
  BY <1>1, <1>2
<1>4. q[1] = "nsGet" /\ q[2] = "nsCreate" /\ q[3] = "nsLabel"
  BY <1>1, <1>2
<1>5. \A i \in 1 .. n : q[i + 3] = t[i]
  BY <1>1, <1>2
<1> HIDE DEF q
<1>6. ASSUME NEW i \in 1 .. n + 3
      PROVE  i = 1 \/ i = 2 \/ i = 3 \/ q[i] \in TailSteps
  <2>1. CASE i > 3
    <3>1. i - 3 \in 1 .. n /\ (i - 3) + 3 = i
      BY <2>1
    <3>2. q[(i - 3) + 3] = t[i - 3]
      BY <1>5, <3>1
    <3> QED
      BY <1>2, <3>1, <3>2
  <2> QED
    BY <2>1
<1>7. ASSUME NEW x, Has(t, x) PROVE Has(q, x)
  <2>1. PICK i \in 1 .. n : t[i] = x
    BY <1>7 DEF Has
  <2>2. i + 3 \in 1 .. n + 3
    OBVIOUS
  <2> QED
    BY <1>3, <1>5, <2>1, <2>2 DEF Has
<1>8. Len(q) \in 3 .. 11 /\ 5 <= Len(q)
  BY <1>3
<1>11. ASSUME PodsAfterWait(t) PROVE PodsAfterWait(q)
  <2> SUFFICES ASSUME NEW i \in 1 .. n + 3, q[i] = "pods"
               PROVE  \E j \in 1 .. n + 3 : j < i /\ q[j] = "wait"
    BY <1>3 DEF PodsAfterWait
  <2>1. i > 3
    BY <1>4
  <2>2. i - 3 \in 1 .. n /\ (i - 3) + 3 = i
    BY <2>1
  <2>3. t[i - 3] = "pods"
    BY <1>5, <2>2
  <2>4. PICK j \in 1 .. n : j < i - 3 /\ t[j] = "wait"
    BY <1>11, <2>2, <2>3 DEF PodsAfterWait
  <2>5. j + 3 \in 1 .. n + 3 /\ j + 3 < i
    BY <2>4
  <2> QED
    BY <1>5, <2>4, <2>5
<1>9. \A i \in 1 .. n + 3 : q[i] = "nsGet" => i = 1
  BY <1>4, <1>6 DEF TailSteps
<1>10. \A i \in 1 .. n + 3 : q[i] # "get" /\ q[i] # "put"
  BY <1>4, <1>6 DEF TailSteps
<1> QED
  BY <1>3, <1>4, <1>7, <1>8, <1>9, <1>10, <1>11 DEF WellFormed, q, e

(* Every program is well formed, and the one of InstallVMCluster waits for *)
(* pods after the wait for the resource.                                   *)
LEMMA ProgramShape ==
  ASSUME NEW p \in Programs
  PROVE  /\ WellFormed(p.steps)
         /\ p = InstallVMCluster => Has(p.steps, "pods") /\ PodsAfterWait(p.steps)
<1> DEFINE a == <<"license", "apply", "wait", "pods", "expose", "route", "expose", "route">>
           b == <<"license", "apply", "wait", "pods", "expose", "route">>
           c == <<"license", "apply", "wait", "expose", "route">>
           d == <<"license", "apply", "wait">>
<1>1. /\ a \in Seq(TailSteps) /\ 8 <= Len(a) /\ Len(a) <= 8
      /\ Has(a, "wait") /\ Has(a, "pods") /\ PodsAfterWait(a)
  <2>1. a \in Seq(TailSteps) /\ 8 <= Len(a) /\ Len(a) <= 8 /\ Len(a) = 8
    BY DEF TailSteps
  <2>2. a[3] = "wait" /\ a[4] = "pods" /\ 3 \in 1 .. 8 /\ 4 \in 1 .. 8
    OBVIOUS
  <2>3. a[1] = "license" /\ a[2] = "apply"
    OBVIOUS
  <2> HIDE DEF a
  <2>4. \A i \in 1 .. 8 : i = 1 \/ i = 2 \/ i = 3 \/ 3 < i
    OBVIOUS
  <2>5. PodsAfterWait(a)
    BY <2>1, <2>2, <2>3, <2>4 DEF PodsAfterWait
  <2> QED
    BY <2>1, <2>2, <2>5 DEF Has
<1>2. b \in Seq(TailSteps) /\ 6 <= Len(b) /\ Len(b) <= 6 /\ Has(b, "wait")
  <2>1. b \in Seq(TailSteps) /\ 6 <= Len(b) /\ Len(b) <= 6 /\ Len(b) = 6
    BY DEF TailSteps
  <2>2. b[3] = "wait" /\ 3 \in 1 .. 6
    OBVIOUS
  <2> QED
    BY <2>1, <2>2 DEF Has
<1>3. c \in Seq(TailSteps) /\ 5 <= Len(c) /\ Len(c) <= 5 /\ Has(c, "wait")
  <2>1. c \in Seq(TailSteps) /\ 5 <= Len(c) /\ Len(c) <= 5 /\ Len(c) = 5
    BY DEF TailSteps
  <2>2. c[3] = "wait" /\ 3 \in 1 .. 5
    OBVIOUS
  <2> QED
    BY <2>1, <2>2 DEF Has
<1>4. d \in Seq(TailSteps) /\ 3 <= Len(d) /\ Len(d) <= 3 /\ Has(d, "wait")
  <2>1. d \in Seq(TailSteps) /\ 3 <= Len(d) /\ Len(d) <= 3 /\ Len(d) = 3
    BY DEF TailSteps
  <2>2. d[3] = "wait" /\ 3 \in 1 .. 3
    OBVIOUS
  <2> QED
    BY <2>1, <2>2 DEF Has
<1>5. 8 \in 3 .. 8 /\ 6 \in 3 .. 8 /\ 5 \in 3 .. 8 /\ 3 \in 3 .. 8
  OBVIOUS
<1>6. /\ InstallVMCluster.steps = EnsureNamespace \o a
      /\ InstallVLCluster.steps = EnsureNamespace \o a
      /\ InstallVMSingle.steps = EnsureNamespace \o b
      /\ InstallVMAgent.steps = EnsureNamespace \o c
      /\ InstallVMDistributed.steps = EnsureNamespace \o d
  BY DEF InstallVMCluster, InstallVLCluster, InstallVMSingle, InstallVMAgent,
         InstallVMDistributed
<1> HIDE DEF a, b, c, d
<1>7. /\ WellFormed(EnsureNamespace \o a) /\ Has(EnsureNamespace \o a, "pods")
      /\ PodsAfterWait(EnsureNamespace \o a)
  BY <1>1, <1>5, EnsureShape
<1>8. /\ WellFormed(EnsureNamespace \o b) /\ WellFormed(EnsureNamespace \o c)
      /\ WellFormed(EnsureNamespace \o d)
  BY <1>2, <1>3, <1>4, <1>5, EnsureShape
<1>9. WellFormed(ApplyVMAgentWithPatches.steps)
  <2>1. c[3] = "wait" /\ Len(c) = 5
    BY DEF c
  <2>2. \A i \in 1 .. 5 : c[i] \in TailSteps
    BY <1>3
  <2>3. ApplyVMAgentWithPatches.steps = c
    BY DEF ApplyVMAgentWithPatches, c
  <2>4. Len(c) \in 3 .. 11
    BY <2>1
  <2> QED
    BY <1>3, <2>1, <2>2, <2>3, <2>4 DEF WellFormed, TailSteps
<1>10. WellFormed(InstallVMAuth.steps) /\ WellFormed(InstallVLAgent.steps)
  <2> DEFINE f == <<"nsGet", "nsCreate", "license", "apply", "wait">>
  <2>1. /\ f[1] = "nsGet" /\ f[2] = "nsCreate" /\ f[3] = "license" /\ f[4] = "apply"
        /\ f[5] = "wait" /\ Len(f) = 5
    OBVIOUS
  <2>2. InstallVMAuth.steps = f /\ InstallVLAgent.steps = f
    BY DEF InstallVMAuth, InstallVLAgent
  <2> HIDE DEF f
  <2>3. \A i \in 1 .. 5 : i = 1 \/ i = 2 \/ i = 3 \/ i = 4 \/ i = 5
    OBVIOUS
  <2>4. 5 \in 3 .. 11 /\ 5 \in 1 .. 5 /\ 5 <= 5
    OBVIOUS
  <2> QED
    BY <2>1, <2>2, <2>3, <2>4 DEF WellFormed, Has
<1>11. WellFormed(InstallVMDistributedWithHelm.steps)
  <2> DEFINE f == <<"helm", "pods", "agentWait", "wait">>
  <2>1. /\ f[1] = "helm" /\ f[2] = "pods" /\ f[3] = "agentWait" /\ f[4] = "wait"
        /\ Len(f) = 4
    OBVIOUS
  <2>2. InstallVMDistributedWithHelm.steps = f
    BY DEF InstallVMDistributedWithHelm
  <2> HIDE DEF f
  <2>3. \A i \in 1 .. 4 : i = 1 \/ i = 2 \/ i = 3 \/ i = 4
    OBVIOUS
  <2>4. 4 \in 3 .. 11 /\ 4 \in 1 .. 4
    OBVIOUS
  <2> QED
    BY <2>1, <2>2, <2>3, <2>4 DEF WellFormed, Has
<1>12. WellFormed(UpdateVMClusterSpec.steps)
  <2> DEFINE f == <<"get", "put", "wait">>
  <2>1. f[1] = "get" /\ f[2] = "put" /\ f[3] = "wait" /\ Len(f) = 3
    OBVIOUS
  <2>2. UpdateVMClusterSpec.steps = f
    BY DEF UpdateVMClusterSpec
  <2> HIDE DEF f
  <2>3. \A i \in 1 .. 3 : i = 1 \/ i = 2 \/ i = 3
    OBVIOUS
  <2>4. 3 \in 3 .. 11 /\ 3 \in 1 .. 3
    OBVIOUS
  <2> QED
    BY <2>1, <2>2, <2>3, <2>4 DEF WellFormed, Has
<1>13. WellFormed(p.steps)
  BY <1>6, <1>7, <1>8, <1>9, <1>10, <1>11, <1>12, Zenon DEF Programs
<1>14. p = InstallVMCluster => Has(p.steps, "pods") /\ PodsAfterWait(p.steps)
  BY <1>6, <1>7
<1> QED
  BY <1>13, <1>14
-----------------------------------------------------------------------------
(* The inductive invariants *)

(* TypeOK, and what it needs: a call that runs is at a step of its         *)
(* program, one that returned normally is behind the last, and an update   *)
(* gives up at the conflict that reaches RetrySteps.                       *)
TypeInv ==
  /\ TypeOK
  /\ pos \in [Caller -> Nat]
  /\ \A k \in Caller : program[k] \in Choices[k]
  /\ \A k \in Caller : outcome[k] = "running" =>
       pos[k] <= Len(program[k].steps) /\ conflicts[k] < RetrySteps
  /\ \A k \in Caller : outcome[k] = "ok" => pos[k] > Len(program[k].steps)

(* What an update has read is not newer than what is stored, and is what   *)
(* is stored if its version still is.                                      *)
ObjSeen ==
  \A k \in Caller :
    /\ obj[k].rv <= rv[Target[k]]
    /\ obj[k].rv = rv[Target[k]] => obj[k].spec = spec[Target[k]]

KeptInv == TypeInv /\ ObjSeen /\ WrittenIsKept

(* Nobody but its installer writes a resource that was not there           *)
(* beforehand: no other call has it as target, or can be one of helm,      *)
(* which writes every resource of the chart.                               *)
SoleWriter ==
  \A k \in Caller : Target[k] \notin Existing =>
    \A j \in Caller : j # k =>
      Target[j] # Target[k] /\ \A p \in Choices[j] : ~Has(p.steps, "helm")

(* The wait of k looks at the target of k alone.                           *)
Own(k) == program[k].wait.named \/ Resource = {Target[k]}

(* The call k has left a step x of its program behind.                     *)
Past(k, x) ==
  \E j \in 1 .. Len(program[k].steps) : j < pos[k] /\ program[k].steps[j] = x

(* A resource under installation has the manifest of its installer as soon *)
(* as it exists, is operational only with it, and is so once the wait has  *)
(* ended with the context alive, or the wait for pods has.                 *)
RolledOut(k) ==
  /\ Exists(Target[k]) => k \in spec[Target[k]]
  /\ status[Target[k]] = "operational" => k \in rolled[Target[k]]
  /\ Own(k) /\ outcome[k] \in {"running", "ok"} =>
       /\ Past(k, "wait") /\ k \notin ctxDone => k \in rolled[Target[k]]
       /\ Past(k, "pods") /\ program[k] = InstallVMCluster => k \in rolled[Target[k]]

RolledInv == KeptInv /\ \A k \in Caller : Target[k] \notin Existing => RolledOut(k)

-----------------------------------------------------------------------------
(* One step of a call, summed up *)

Specs == SUBSET (Caller \cup {Base})

(* What k writes: nothing, or resources it may write, on top of what is    *)
(* stored, or of what it has read if that is what is stored.               *)
Writes(k) ==
  \/ UNCHANGED <<spec, rv, written>>
  \/ \E R \in SUBSET Resource, base \in [Resource -> Specs] :
       /\ Store(k, R, base)
       /\ R \subseteq {Target[k]} \/ Has(program[k].steps, "helm")
       /\ \/ base = spec
          \/ /\ R = {Target[k]} /\ obj[k].rv = rv[Target[k]]
             /\ base = [r \in Resource |-> obj[k].spec]

Ends(k) == \E how \in Failed : End(k, how)

(* k goes to a step of its program, or behind it; it passes a wait, which  *)
(* only lets it pass when it has seen the resource operational or the      *)
(* context is over, or a wait for pods, which fails when it is over, only  *)
(* when it is at one.                                                      *)
Passes(k, i) ==
  \A j \in 1 .. Len(program[k].steps) :
    /\ j < i /\ program[k].steps[j] = "wait" =>
         j < pos[k] \/ (j = pos[k] /\ (k \in ctxDone \/ "operational" \in FirstDecisive(k)))
    /\ j < i /\ program[k].steps[j] = "pods" => j < pos[k] \/ (j = pos[k] /\ k \notin ctxDone)

Proceeds(k) == \E i \in 1 .. Len(program[k].steps) + 1 : GoTo(k, i) /\ Passes(k, i)

Reads(k) ==
  \/ UNCHANGED obj
  \/ /\ obj' = [obj EXCEPT ![k] = [rv |-> rv[Target[k]], spec |-> spec[Target[k]]]]
     /\ UNCHANGED <<spec, rv, written>>

Counts(k) ==
  \/ UNCHANGED conflicts
  \/ conflicts' = [conflicts EXCEPT ![k] = @ + 1] /\ (conflicts[k] + 1 < RetrySteps \/ Ends(k))

StepOf(k) ==
  /\ outcome[k] = "running"
  /\ UNCHANGED <<program, rolled, status, ctxDone>> /\ ns' \in BOOLEAN
  /\ Writes(k) /\ Reads(k) /\ Counts(k)
  /\ Ends(k) \/ Proceeds(k)

(* A call that goes on to the step after the one it is at proceeds, if it  *)
(* is allowed to pass a wait it is at.                                     *)
LEMMA GoOnProceeds ==
  ASSUME TypeInv, NEW k \in Caller, outcome[k] = "running", GoOn(k),
         program[k].steps[pos[k]] = "wait" =>
           k \in ctxDone \/ "operational" \in FirstDecisive(k),
         program[k].steps[pos[k]] = "pods" => k \notin ctxDone
  PROVE  Proceeds(k)
<1> DEFINE q == program[k].steps
<1>1. WellFormed(q)
  BY ProgramShape DEF TypeInv, TypeOK
<1>2. PICK n \in 3 .. 11 : n = Len(q)
  BY <1>1 DEF WellFormed
<1>3. pos[k] \in 1 .. n
  BY <1>2 DEF TypeInv, TypeOK
<1> DEFINE i == pos[k] + 1
<1>4. i \in 1 .. n + 1 /\ \A j \in 1 .. n : j < i => j < pos[k] \/ j = pos[k]
  BY <1>3
<1>5. Passes(k, i)
  BY <1>2, <1>4 DEF Passes
<1> QED
  BY <1>2, <1>4, <1>5 DEF Proceeds, GoOn

(* The jumps of nsGet, get and put stay in the program and pass neither a  *)
(* wait nor a wait for pods.                                               *)
LEMMA JumpProceeds ==
  ASSUME TypeInv, NEW k \in Caller, outcome[k] = "running", NEW i, GoTo(k, i),
         \/ /\ program[k].steps[pos[k]] = "nsGet"
            /\ i = IF program[k].steps[3] = "nsLabel" THEN 4 ELSE 3
         \/ program[k].steps[pos[k]] = "get" /\ i = pos[k] + 2
         \/ program[k].steps[pos[k]] = "put" /\ i = pos[k] - 1
  PROVE  Proceeds(k)
<1> DEFINE q == program[k].steps
<1>1. WellFormed(q)
  BY ProgramShape DEF TypeInv, TypeOK
<1>2. PICK n \in 3 .. 11 : n = Len(q)
  BY <1>1 DEF WellFormed
<1>3. pos[k] \in 1 .. n
  BY <1>2 DEF TypeInv, TypeOK
<1>4. CASE q[pos[k]] = "nsGet" /\ i = IF q[3] = "nsLabel" THEN 4 ELSE 3
  <2>1. pos[k] = 1 /\ 5 <= n /\ q[2] = "nsCreate" /\ q[1] = "nsGet"
    BY <1>1, <1>2, <1>3, <1>4 DEF WellFormed
  <2>2. i \in 1 .. n + 1 /\ \A j \in 1 .. n : j < i => j = 1 \/ j = 2 \/ (j = 3 /\ q[3] = "nsLabel")
    BY <1>4, <2>1
  <2>3. Passes(k, i)
    BY <1>2, <2>1, <2>2 DEF Passes
  <2> QED
    BY <1>2, <2>2, <2>3 DEF Proceeds
<1>5. CASE q[pos[k]] = "get" /\ i = pos[k] + 2
  <2>1. pos[k] = 1 /\ q[1] = "get" /\ q[2] = "put"
    BY <1>1, <1>2, <1>3, <1>5 DEF WellFormed
  <2>2. i \in 1 .. n + 1 /\ \A j \in 1 .. n : j < i => j = 1 \/ j = 2
    BY <1>5, <2>1
  <2>3. Passes(k, i)
    BY <1>2, <2>1, <2>2 DEF Passes
  <2> QED
    BY <1>2, <2>2, <2>3 DEF Proceeds
<1>6. CASE q[pos[k]] = "put" /\ i = pos[k] - 1
  <2>1. pos[k] = 2
    BY <1>1, <1>2, <1>3, <1>6 DEF WellFormed
  <2>2. i \in 1 .. n + 1 /\ \A j \in 1 .. n : j < i => j < pos[k]
    BY <1>6, <2>1
  <2>3. Passes(k, i)
    BY <1>2, <2>1, <2>2 DEF Passes
  <2> QED
    BY <1>2, <2>2, <2>3 DEF Proceeds
<1> QED
  BY <1>4, <1>5, <1>6

(* A write of the target alone, on top of what is stored or of what was    *)
(* read and still is.                                                      *)
LEMMA TargetWrites ==
  ASSUME TypeInv, NEW k \in Caller,
         \/ Store(k, {Target[k]}, spec)
         \/ /\ Store(k, {Target[k]}, [r \in Resource |-> obj[k].spec])
            /\ obj[k].rv = rv[Target[k]]
         \/ UNCHANGED <<spec, rv, written>>
  PROVE  Writes(k)
<1>1. {Target[k]} \in SUBSET Resource /\ {Target[k]} \subseteq {Target[k]}
  BY CallAssumption
<1>2. spec \in [Resource -> Specs] /\ [r \in Resource |-> obj[k].spec] \in [Resource -> Specs]
  BY DEF TypeInv, TypeOK, Specs
<1> QED
  BY <1>1, <1>2, Zenon DEF Writes

(* Every action of a call is such a step.                                  *)
LEMMA CallStepSum ==
  ASSUME TypeInv, NEW k \in Caller, CallStep(k)
  PROVE  StepOf(k)
<1> USE DEF At
<1>0. /\ "stepFailed" \in Failed /\ "statusFailed" \in Failed /\ "timeout" \in Failed
      /\ ns \in BOOLEAN /\ TRUE \in BOOLEAN
  BY DEF Failed, TypeInv, TypeOK
<1>1. CASE NamespaceGet(k)
  <2>1. outcome[k] = "running" /\ program[k].steps[pos[k]] = "nsGet"
    BY <1>1 DEF NamespaceGet
  <2>2. Proceeds(k)
    <3>1. CASE GoOn(k)
      BY <2>1, <3>1, GoOnProceeds
    <3>2. CASE GoTo(k, IF program[k].steps[3] = "nsLabel" THEN 4 ELSE 3)
      BY <2>1, <3>2, JumpProceeds
    <3> QED
      BY <1>1, <3>1, <3>2 DEF NamespaceGet
  <2> QED
    BY <1>0, <1>1, <2>1, <2>2 DEF NamespaceGet, StepOf, Writes, Reads, Counts, cluster
<1>2. CASE NamespaceCreate(k)
  <2>1. outcome[k] = "running" /\ program[k].steps[pos[k]] = "nsCreate"
    BY <1>2 DEF NamespaceCreate
  <2>2. Ends(k) \/ Proceeds(k)
    <3>1. CASE GoOn(k)
      BY <2>1, <3>1, GoOnProceeds
    <3> QED
      BY <1>0, <1>2, <3>1 DEF NamespaceCreate, Ends
  <2> QED
    BY <1>0, <1>2, <2>1, <2>2 DEF NamespaceCreate, StepOf, Writes, Reads, Counts
<1>3. CASE License(k)
  <2>1. outcome[k] = "running" /\ program[k].steps[pos[k]] = "license"
    BY <1>3 DEF License
  <2>2. Ends(k) \/ Proceeds(k)
    <3>1. CASE GoOn(k)
      BY <2>1, <3>1, GoOnProceeds
    <3> QED
      BY <1>0, <1>3, <3>1 DEF License, Ends
  <2> QED
    BY <1>0, <1>3, <2>1, <2>2 DEF License, StepOf, Writes, Reads, Counts, cluster
<1>4. CASE Apply(k)
  <2>1. outcome[k] = "running" /\ program[k].steps[pos[k]] = "apply"
    BY <1>4 DEF Apply
  <2>2. Ends(k) \/ Proceeds(k)
    <3>1. CASE GoOn(k)
      BY <2>1, <3>1, GoOnProceeds
    <3> QED
      BY <1>0, <1>4, <3>1 DEF Apply, Ends
  <2>3. Writes(k)
    BY <1>4, TargetWrites DEF Apply
  <2> QED
    BY <1>0, <1>4, <2>1, <2>2, <2>3 DEF Apply, StepOf, Reads, Counts
<1>5. CASE HelmUpgrade(k)
  <2>1. outcome[k] = "running" /\ program[k].steps[pos[k]] = "helm"
    BY <1>5 DEF HelmUpgrade
  <2>2. Ends(k) \/ Proceeds(k)
    <3>1. CASE GoOn(k)
      BY <2>1, <3>1, GoOnProceeds
    <3> QED
      BY <1>0, <1>5, <3>1 DEF HelmUpgrade, Ends
  <2>3. Has(program[k].steps, "helm")
    <3>1. pos[k] \in Nat /\ pos[k] \in 1 .. Len(program[k].steps) + 1 /\ pos[k] <= Len(program[k].steps)
      BY <2>1 DEF TypeInv, TypeOK
    <3>2. Len(program[k].steps) \in 3 .. 11
      BY ProgramShape DEF TypeInv, TypeOK, WellFormed
    <3>3. pos[k] \in 1 .. Len(program[k].steps)
      BY <3>1, <3>2
    <3> QED
      BY <2>1, <3>3 DEF Has
  <2>4. PICK R \in SUBSET Resource : Store(k, R, spec)
    BY <1>5 DEF HelmUpgrade
  <2>5. spec \in [Resource -> Specs]
    BY DEF TypeInv, TypeOK, Specs
  <2>6. Writes(k)
    BY <2>3, <2>4, <2>5, Zenon DEF Writes
  <2>7. ns' \in BOOLEAN
    BY <1>0, <1>5, Zenon DEF HelmUpgrade
  <2> QED
    BY <1>5, <2>1, <2>2, <2>6, <2>7 DEF HelmUpgrade, StepOf, Reads, Counts
<1>6. CASE Request(k)
  <2>1. /\ outcome[k] = "running"
        /\ program[k].steps[pos[k]] \in {"nsLabel", "pods", "expose", "route", "agentWait"}
    BY <1>6 DEF Request
  <2>2. Ends(k) \/ Proceeds(k)
    <3>1. CASE GoOn(k) /\ (k \notin ctxDone \/ At(k, "route") \/ At(k, "agentWait"))
      BY <2>1, <3>1, GoOnProceeds
    <3> QED
      BY <1>0, <1>6, <3>1 DEF Request, Ends
  <2> QED
    BY <1>0, <1>6, <2>1, <2>2 DEF Request, StepOf, Writes, Reads, Counts, cluster
<1>7. CASE UpdateGet(k)
  <2>1. outcome[k] = "running" /\ program[k].steps[pos[k]] = "get"
    BY <1>7 DEF UpdateGet
  <2>2. Ends(k) \/ Proceeds(k)
    <3>1. CASE GoOn(k)
      BY <2>1, <3>1, GoOnProceeds
    <3>2. CASE GoTo(k, pos[k] + 2)
      BY <2>1, <3>2, JumpProceeds
    <3> QED
      BY <1>0, <1>7, <3>1, <3>2 DEF UpdateGet, Ends
  <2>3. Reads(k)
    BY <1>7 DEF UpdateGet, Reads, cluster
  <2> QED
    BY <1>0, <1>7, <2>1, <2>2, <2>3 DEF UpdateGet, StepOf, Writes, Counts, cluster
<1>8. CASE UpdatePut(k)
  <2>1. outcome[k] = "running" /\ program[k].steps[pos[k]] = "put"
    BY <1>8 DEF UpdatePut
  <2>2. Proceeds(k)
    BY <1>8, <2>1, GoOnProceeds DEF UpdatePut
  <2>3. Writes(k)
    BY <1>8, TargetWrites DEF UpdatePut
  <2> QED
    BY <1>0, <1>8, <2>1, <2>2, <2>3 DEF UpdatePut, StepOf, Reads, Counts
<1>9. CASE UpdateConflict(k)
  <2>1. outcome[k] = "running" /\ program[k].steps[pos[k]] = "put"
    BY <1>9 DEF UpdateConflict
  <2>2. Ends(k) \/ (conflicts[k] + 1 < RetrySteps /\ GoTo(k, pos[k] - 1))
    BY <1>0, <1>9 DEF UpdateConflict, Ends
  <2>3. GoTo(k, pos[k] - 1) => Proceeds(k)
    BY <2>1, JumpProceeds
  <2> QED
    BY <1>0, <1>9, <2>1, <2>2, <2>3 DEF UpdateConflict, StepOf, Writes, Reads, Counts, cluster
<1>10. CASE UpdateError(k)
  <2>1. outcome[k] = "running" /\ program[k].steps[pos[k]] = "put"
    BY <1>10 DEF UpdateError
  <2>2. Ends(k) \/ Proceeds(k)
    <3>1. CASE GoOn(k)
      BY <2>1, <3>1, GoOnProceeds
    <3> QED
      BY <1>0, <1>10, <3>1 DEF UpdateError, Ends
  <2>3. Writes(k)
    BY <1>10, TargetWrites DEF UpdateError
  <2> QED
    BY <1>0, <1>10, <2>1, <2>2, <2>3 DEF UpdateError, StepOf, Reads, Counts
<1>11. CASE Poll(k)
  <2>1. outcome[k] = "running" /\ program[k].steps[pos[k]] = "wait"
    BY <1>11 DEF Poll
  <2>2. Ends(k) \/ Proceeds(k)
    <3>1. CASE GoOn(k) /\ "operational" \in FirstDecisive(k)
      BY <2>1, <3>1, GoOnProceeds
    <3> QED
      BY <1>0, <1>11, <3>1 DEF Poll, Ends
  <2> QED
    BY <1>0, <1>11, <2>1, <2>2 DEF Poll, StepOf, Writes, Reads, Counts, cluster
<1>12. CASE PollEnds(k)
  <2>1. outcome[k] = "running" /\ program[k].steps[pos[k]] = "wait"
    BY <1>12 DEF PollEnds
  <2>2. Ends(k) \/ Proceeds(k)
    <3>1. CASE GoOn(k) /\ k \in ctxDone
      BY <2>1, <3>1, GoOnProceeds
    <3> QED
      BY <1>0, <1>12, <3>1 DEF PollEnds, Ends
  <2> QED
    BY <1>0, <1>12, <2>1, <2>2 DEF PollEnds, StepOf, Writes, Reads, Counts, cluster
<1> QED
  BY <1>1, <1>2, <1>3, <1>4, <1>5, <1>6, <1>7, <1>8, <1>9, <1>10, <1>11, <1>12 DEF CallStep
-----------------------------------------------------------------------------
(* Types *)

(* Where an ended or a proceeding call stands.                             *)
LEMMA PlaceType ==
  ASSUME TypeInv, NEW k \in Caller, outcome[k] = "running", Ends(k) \/ Proceeds(k)
  PROVE  /\ pos' \in [Caller -> Nat]
         /\ outcome' \in [Caller -> {"running", "ok"} \cup Failed]
         /\ \A j \in Caller : pos'[j] \in 1 .. Len(program[j].steps) + 1
         /\ \A j \in Caller : outcome'[j] = "running" =>
              /\ outcome[j] = "running" /\ pos'[j] <= Len(program[j].steps)
              /\ Ends(k) => j # k
         /\ \A j \in Caller : outcome'[j] = "ok" => pos'[j] > Len(program[j].steps)
<1>0. /\ pos \in [Caller -> Nat]
      /\ outcome \in [Caller -> {"running", "ok"} \cup Failed]
      /\ \A j \in Caller : pos[j] \in 1 .. Len(program[j].steps) + 1
      /\ \A j \in Caller : outcome[j] = "running" => pos[j] <= Len(program[j].steps)
      /\ \A j \in Caller : outcome[j] = "ok" => pos[j] > Len(program[j].steps)
  BY DEF TypeInv, TypeOK
<1>1. CASE Ends(k)
  <2>1. PICK how \in Failed : outcome' = [outcome EXCEPT ![k] = how] /\ pos' = pos
    BY <1>1 DEF Ends, End
  <2>2. how # "running" /\ how # "ok"
    BY DEF Failed
  <2> QED
    BY <1>0, <2>1, <2>2
<1>2. CASE Proceeds(k) /\ ~Ends(k)
  <2>1. PICK n \in 3 .. 11 : n = Len(program[k].steps)
    BY ProgramShape DEF TypeInv, TypeOK, WellFormed
  <2>2. PICK i \in 1 .. n + 1 :
          /\ pos' = [pos EXCEPT ![k] = i]
          /\ outcome' = IF i > n THEN [outcome EXCEPT ![k] = "ok"] ELSE outcome
    BY <1>2, <2>1 DEF Proceeds, GoTo
  <2>3. i \in Nat /\ (i > n \/ i <= n)
    OBVIOUS
  <2>4. \A j \in Caller : j # k => pos'[j] = pos[j] /\ outcome'[j] = outcome[j]
    BY <1>0, <2>2
  <2>5. pos'[k] = i /\ outcome'[k] = IF i > n THEN "ok" ELSE "running"
    BY <1>0, <2>2
  <2>6. pos' \in [Caller -> Nat] /\ outcome' \in [Caller -> {"running", "ok"} \cup Failed]
    BY <1>0, <2>2, <2>3
  <2> QED
    BY <1>0, <1>2, <2>1, <2>3, <2>4, <2>5, <2>6
<1> QED
  BY <1>1, <1>2

(* What k writes has its type.                                             *)
LEMMA WritesType ==
  ASSUME TypeInv, NEW k \in Caller, Writes(k)
  PROVE  spec' \in [Resource -> Specs] /\ rv' \in [Resource -> Nat] /\ written' \in SUBSET Caller
<1>0. spec \in [Resource -> Specs] /\ rv \in [Resource -> Nat] /\ written \in SUBSET Caller
  BY DEF TypeInv, TypeOK, Specs
<1>1. CASE UNCHANGED <<spec, rv, written>>
  BY <1>0, <1>1
<1>2. CASE ~UNCHANGED <<spec, rv, written>>
  <2>1. PICK R \in SUBSET Resource, base \in [Resource -> Specs] : Store(k, R, base)
    BY <1>2 DEF Writes
  <2>2. \A r \in Resource : base[r] \cup {k} \in Specs
    BY DEF Specs
  <2>3. spec' \in [Resource -> Specs]
    BY <1>0, <2>1, <2>2 DEF Store
  <2>4. rv' \in [Resource -> Nat]
    BY <1>0, <2>1 DEF Store
  <2> QED
    BY <1>0, <2>1, <2>3, <2>4 DEF Store
<1> QED
  BY <1>1, <1>2

(* A step of a call keeps the types.                                       *)
LEMMA StepType ==
  ASSUME TypeInv, NEW k \in Caller, StepOf(k)
  PROVE  TypeInv'
<1>0. /\ outcome[k] = "running" /\ UNCHANGED <<program, rolled, status, ctxDone>>
      /\ ns' \in BOOLEAN /\ Writes(k) /\ Reads(k) /\ Counts(k)
      /\ Ends(k) \/ Proceeds(k)
  BY DEF StepOf
<1>1. /\ pos' \in [Caller -> Nat]
      /\ outcome' \in [Caller -> {"running", "ok"} \cup Failed]
      /\ \A j \in Caller : pos'[j] \in 1 .. Len(program[j].steps) + 1
      /\ \A j \in Caller : outcome'[j] = "running" =>
           /\ outcome[j] = "running" /\ pos'[j] <= Len(program[j].steps)
           /\ Ends(k) => j # k
      /\ \A j \in Caller : outcome'[j] = "ok" => pos'[j] > Len(program[j].steps)
  BY <1>0, PlaceType
<1>2. spec' \in [Resource -> Specs] /\ rv' \in [Resource -> Nat] /\ written' \in SUBSET Caller
  BY <1>0, WritesType
<1>3. obj' \in [Caller -> [rv : Nat, spec : Specs]]
  <2>1. obj \in [Caller -> [rv : Nat, spec : Specs]] /\ Target[k] \in Resource
        /\ spec \in [Resource -> Specs] /\ rv \in [Resource -> Nat]
    BY CallAssumption DEF TypeInv, TypeOK, Specs
  <2>2. [rv |-> rv[Target[k]], spec |-> spec[Target[k]]] \in [rv : Nat, spec : Specs]
    BY <2>1
  <2> QED
    BY <1>0, <2>1, <2>2 DEF Reads
<1>4. /\ conflicts' \in [Caller -> 0 .. RetrySteps]
      /\ \A j \in Caller : outcome'[j] = "running" => conflicts'[j] < RetrySteps
  <2>1. /\ conflicts \in [Caller -> 0 .. RetrySteps] /\ RetrySteps \in Nat
        /\ \A j \in Caller : outcome[j] = "running" => conflicts[j] < RetrySteps
    BY BoundAssumption DEF TypeInv, TypeOK
  <2>2. CASE UNCHANGED conflicts
    BY <1>1, <2>1, <2>2
  <2>3. CASE /\ conflicts' = [conflicts EXCEPT ![k] = @ + 1]
             /\ conflicts[k] + 1 < RetrySteps \/ Ends(k)
    <3>1. conflicts[k] \in 0 .. RetrySteps /\ conflicts[k] < RetrySteps
      BY <1>0, <2>1
    <3>2. conflicts[k] + 1 \in 0 .. RetrySteps
      BY <2>1, <3>1
    <3>3. \A j \in Caller : conflicts'[j] = IF j = k THEN conflicts[k] + 1 ELSE conflicts[j]
      BY <2>1, <2>3
    <3>4. conflicts' \in [Caller -> 0 .. RetrySteps]
      BY <2>1, <2>3, <3>2
    <3> QED
      BY <1>1, <2>1, <2>3, <3>3, <3>4
  <2> QED
    BY <1>0, <2>2, <2>3 DEF Counts
<1>5. TypeOK'
  BY <1>0, <1>1, <1>2, <1>3, <1>4 DEF TypeInv, TypeOK, Specs
<1> QED
  BY <1>0, <1>1, <1>4, <1>5 DEF TypeInv

(* What a status write of the operator leaves alone, and what it changes.  *)
LEMMA OperatorSum ==
  ASSUME TypeInv, NEW r \in Resource, Operator(r)
  PROVE  /\ UNCHANGED <<program, written, ns, spec, pos, outcome, obj, conflicts, ctxDone>>
         /\ rv[r] \in Nat /\ rv[r] # 0
         /\ rv' = [rv EXCEPT ![r] = rv[r] + 1]
         /\ \E to \in Status :
              /\ status' = [status EXCEPT ![r] = to]
              /\ \/ UNCHANGED rolled /\ to # "operational"
                 \/ rolled' = [rolled EXCEPT ![r] = spec[r]]
<1>0. rv[r] \in Nat
  BY DEF TypeInv, TypeOK
<1>1. PICK to \in Status :
        /\ WriteStatus(r, to)
        /\ (UNCHANGED rolled /\ to # "operational") \/ rolled' = [rolled EXCEPT ![r] = spec[r]]
  <2>1. /\ "expanding" \in Status /\ "operational" \in Status /\ Reason \subseteq Status
        /\ "expanding" # "operational" /\ "operational" \notin Reason
    BY DEF Status, Reason
  <2>2. CASE OperatorStart(r)
    BY <2>1, <2>2 DEF OperatorStart
  <2>3. CASE OperatorFinish(r)
    BY <2>1, <2>3 DEF OperatorFinish
  <2>4. CASE OperatorFail(r)
    <3>1. PICK reason \in Reason : WriteStatus(r, reason)
      BY <2>4 DEF OperatorFail
    <3>2. UNCHANGED rolled /\ reason \in Status /\ reason # "operational"
      BY <2>1, <2>4 DEF OperatorFail
    <3> QED
      BY <3>1, <3>2
  <2> QED
    BY <2>2, <2>3, <2>4 DEF Operator
<1> QED
  BY <1>0, <1>1 DEF WriteStatus, Exists

(* So does one of the operator.                                            *)
LEMMA OperatorType ==
  ASSUME TypeInv, NEW r \in Resource, Operator(r)
  PROVE  TypeInv'
<1>0. /\ spec \in [Resource -> Specs] /\ rolled \in [Resource -> Specs]
      /\ status \in [Resource -> Status] /\ rv \in [Resource -> Nat]
  BY DEF TypeInv, TypeOK, Specs
<1>1. /\ UNCHANGED <<program, written, ns, spec, pos, outcome, obj, conflicts, ctxDone>>
      /\ rv[r] \in Nat
      /\ rv' = [rv EXCEPT ![r] = rv[r] + 1]
  BY OperatorSum
<1>2. PICK to \in Status :
        /\ status' = [status EXCEPT ![r] = to]
        /\ UNCHANGED rolled \/ rolled' = [rolled EXCEPT ![r] = spec[r]]
  BY OperatorSum
<1>3. rv' \in [Resource -> Nat]
  BY <1>0, <1>1
<1>4. status' \in [Resource -> Status]
  BY <1>0, <1>2
<1>5. rolled' \in [Resource -> Specs]
  BY <1>0, <1>2
<1>6. TypeOK'
  BY <1>1, <1>3, <1>4, <1>5 DEF TypeInv, TypeOK, Specs
<1> QED
  BY <1>1, <1>6 DEF TypeInv

(* Hence every step does.                                                  *)
LEMMA TypeStep ==
  ASSUME TypeInv, [Next]_vars
  PROVE  TypeInv'
<1>1. CASE \E k \in Caller : CallStep(k)
  BY <1>1, CallStepSum, StepType
<1>2. CASE \E k \in Caller : CancelContext(k)
  BY <1>2 DEF CancelContext, cluster, TypeInv, TypeOK
<1>3. CASE \E r \in Resource : Operator(r)
  BY <1>3, OperatorType
<1>4. CASE UNCHANGED vars
  BY <1>4 DEF vars, cluster, TypeInv, TypeOK
<1> QED
  BY <1>1, <1>2, <1>3, <1>4 DEF Next

(* The initial states have them.                                           *)
LEMMA TypeInit ==
  ASSUME Init
  PROVE  TypeInv
<1>a. \A n \in 3 .. 11 : 1 \in 1 .. n + 1 /\ 1 <= n
  OBVIOUS
<1>b. 0 \in 0 .. RetrySteps /\ 0 < RetrySteps
  BY BoundAssumption
<1> USE DEF Init
<1>1. \A k \in Caller : program[k] \in Programs /\ program[k] \in Choices[k]
  OBVIOUS
<1>2. \A k \in Caller : Len(program[k].steps) \in 3 .. 11
  BY <1>1, ProgramShape DEF WellFormed
<1>3. \A k \in Caller : pos[k] \in 1 .. Len(program[k].steps) + 1 /\ pos[k] <= Len(program[k].steps)
  <2>1. \A k \in Caller : pos[k] = 1
    OBVIOUS
  <2> HIDE DEF Init
  <2> QED
    BY <1>2, <2>1, <1>a
<1>4. spec \in [Resource -> Specs] /\ rolled \in [Resource -> Specs]
  BY DEF Specs
<1>5. status \in [Resource -> Status] /\ rv \in [Resource -> Nat]
  BY DEF Status
<1>6. NoObj \in [rv : Nat, spec : Specs]
  BY DEF NoObj, Specs
<1>7. obj \in [Caller -> [rv : Nat, spec : Specs]]
  BY <1>6
<1>8. conflicts \in [Caller -> 0 .. RetrySteps] /\ \A k \in Caller : conflicts[k] < RetrySteps
  <2>2. conflicts = [k \in Caller |-> 0]
    OBVIOUS
  <2> HIDE DEF Init
  <2> QED
    BY <1>b, <2>2
<1>9. ns \in BOOLEAN
  OBVIOUS
<1>10. /\ outcome \in [Caller -> {"running", "ok"} \cup Failed] /\ pos \in [Caller -> Nat]
       /\ \A k \in Caller : outcome[k] = "running"
  OBVIOUS
<1>11. program \in [Caller -> Programs] /\ written \in SUBSET Caller /\ ctxDone \in SUBSET Caller
  OBVIOUS
<1> HIDE DEF Init
<1>12. TypeOK
  BY <1>3, <1>4, <1>5, <1>7, <1>8, <1>9, <1>10, <1>11 DEF TypeOK, Specs
<1> QED
  BY <1>1, <1>3, <1>8, <1>10, <1>12 DEF TypeInv

(* Every variable keeps its type; a call is always at a step of its        *)
(* program, whatever the jumps over the namespace and back to the read,    *)
(* and an update never meets more than RetrySteps conflicts.               *)
THEOREM TypeCorrect == Spec => []TypeOK
<1>1. Init => TypeInv
  BY TypeInit
<1>2. TypeInv /\ [Next]_vars => TypeInv'
  BY TypeStep
<1>3. TypeInv => TypeOK
  BY DEF TypeInv
<1> QED
  BY <1>1, <1>2, <1>3, PTL DEF Spec
-----------------------------------------------------------------------------
(* What is written is kept *)

(* A write of k only adds to the specs, and every resource it changes gets *)
(* a new version and has the manifest of k: what k read is on top of       *)
(* nothing older.                                                          *)
LEMMA WritesGrow ==
  ASSUME TypeInv, ObjSeen, NEW k \in Caller, Writes(k)
  PROVE  /\ \A r \in Resource :
              /\ rv[r] \in Nat /\ rv'[r] \in Nat
              /\ spec[r] \subseteq spec'[r]
              /\ \/ rv'[r] = rv[r] /\ spec'[r] = spec[r]
                 \/ /\ rv'[r] = rv[r] + 1 /\ k \in spec'[r]
                    /\ r = Target[k] \/ Has(program[k].steps, "helm")
         /\ \A j \in written' : j \in written \/ (j = k /\ k \in spec'[Target[k]])
<1>0. spec \in [Resource -> Specs] /\ rv \in [Resource -> Nat] /\ Target[k] \in Resource
  BY CallAssumption DEF TypeInv, TypeOK, Specs
<1>1. CASE UNCHANGED <<spec, rv, written>>
  BY <1>0, <1>1
<1>2. CASE ~UNCHANGED <<spec, rv, written>>
  <2>1. PICK R \in SUBSET Resource, base \in [Resource -> Specs] :
          /\ Store(k, R, base)
          /\ R \subseteq {Target[k]} \/ Has(program[k].steps, "helm")
          /\ \/ base = spec
             \/ /\ R = {Target[k]} /\ obj[k].rv = rv[Target[k]]
                /\ base = [r \in Resource |-> obj[k].spec]
    BY <1>2 DEF Writes
  <2>2. \A r \in R : base[r] = spec[r]
    BY <1>0, <2>1 DEF ObjSeen
  <2>3. \A r \in Resource :
          /\ spec'[r] = IF r \in R THEN base[r] \cup {k} ELSE spec[r]
          /\ rv'[r] = IF r \in R THEN rv[r] + 1 ELSE rv[r]
    BY <2>1 DEF Store
  <2>4. written' = IF Target[k] \in R THEN written \cup {k} ELSE written
    BY <2>1 DEF Store
  <2>5. ASSUME NEW r \in Resource
        PROVE  /\ rv[r] \in Nat /\ rv'[r] \in Nat
               /\ spec[r] \subseteq spec'[r]
               /\ \/ rv'[r] = rv[r] /\ spec'[r] = spec[r]
                  \/ /\ rv'[r] = rv[r] + 1 /\ k \in spec'[r]
                     /\ r = Target[k] \/ Has(program[k].steps, "helm")
    <3>1. rv[r] \in Nat
      BY <1>0
    <3>2. CASE r \in R
      <4>1. spec'[r] = spec[r] \cup {k} /\ rv'[r] = rv[r] + 1
        BY <2>2, <2>3, <3>2
      <4>2. r = Target[k] \/ Has(program[k].steps, "helm")
        BY <2>1, <3>2
      <4>3. rv'[r] \in Nat
        BY <3>1, <4>1
      <4> QED
        BY <3>1, <4>1, <4>2, <4>3, Zenon
    <3>3. CASE r \notin R
      BY <2>3, <3>1, <3>3
    <3> QED
      BY <3>2, <3>3
  <2>6. \A j \in written' : j \in written \/ (j = k /\ k \in spec'[Target[k]])
    BY <1>0, <2>3, <2>4
  <2> QED
    BY <2>5, <2>6
<1> QED
  BY <1>1, <1>2

(* A step of a call keeps what was written, and what the other updates     *)
(* have read stays old or right.                                           *)
LEMMA StepKept ==
  ASSUME KeptInv, NEW k \in Caller, StepOf(k)
  PROVE  ObjSeen' /\ WrittenIsKept'
<1>0. TypeInv /\ ObjSeen /\ WrittenIsKept /\ Writes(k) /\ Reads(k)
  BY DEF KeptInv, StepOf
<1>1. /\ \A r \in Resource :
           /\ rv[r] \in Nat /\ rv'[r] \in Nat
           /\ spec[r] \subseteq spec'[r]
           /\ (rv'[r] = rv[r] /\ spec'[r] = spec[r]) \/ rv'[r] = rv[r] + 1
      /\ \A j \in written' : j \in written \/ (j = k /\ k \in spec'[Target[k]])
  BY <1>0, WritesGrow
<1>2. \A j \in Caller : Target[j] \in Resource
  BY CallAssumption
<1>3. obj \in [Caller -> [rv : Nat, spec : Specs]] /\ written \in SUBSET Caller
  BY <1>0 DEF TypeInv, TypeOK, Specs
<1>4. WrittenIsKept'
  BY <1>0, <1>1, <1>2, <1>3 DEF WrittenIsKept
<1>5. ASSUME NEW j \in Caller
      PROVE  obj'[j].rv <= rv'[Target[j]] /\ (obj'[j].rv = rv'[Target[j]] => obj'[j].spec = spec'[Target[j]])
  <2>0. obj[j].rv \in Nat /\ obj[j].rv <= rv[Target[j]]
        /\ (obj[j].rv = rv[Target[j]] => obj[j].spec = spec[Target[j]])
    BY <1>0, <1>3 DEF ObjSeen
  <2>1. CASE obj'[j] = obj[j]
    <3> DEFINE a == obj[j].rv
               b == rv[Target[j]]
               c == rv'[Target[j]]
    <3>1. a \in Nat /\ b \in Nat /\ c \in Nat /\ a <= b /\ (c = b \/ c = b + 1)
      BY <1>1, <1>2, <2>0
    <3> HIDE DEF a, b, c
    <3>2. a <= c /\ (a = c => c = b)
      BY <3>1
    <3>3. c = b => rv'[Target[j]] = rv[Target[j]]
      BY DEF b, c
    <3>4. c = b => spec'[Target[j]] = spec[Target[j]]
      <4>1. rv[Target[j]] # rv[Target[j]] + 1
        BY <1>1, <1>2
      <4> QED
        BY <1>1, <1>2, <3>3, <4>1
    <3> QED
      BY <2>0, <2>1, <3>2, <3>4 DEF a, b, c
  <2>2. CASE obj'[j] # obj[j]
    <3>1. /\ obj' = [obj EXCEPT ![k] = [rv |-> rv[Target[k]], spec |-> spec[Target[k]]]]
          /\ UNCHANGED <<spec, rv>>
      BY <1>0, <2>2 DEF Reads
    <3>2. j = k /\ obj'[j] = [rv |-> rv[Target[k]], spec |-> spec[Target[k]]]
      BY <1>3, <2>2, <3>1
    <3> QED
      BY <1>1, <1>2, <3>1, <3>2
  <2> QED
    BY <2>1, <2>2
<1> QED
  BY <1>4, <1>5 DEF ObjSeen

(* Every step keeps it: the operator only makes what was read older.       *)
LEMMA KeptStep ==
  ASSUME KeptInv, [Next]_vars
  PROVE  KeptInv'
<1>0. TypeInv /\ ObjSeen /\ WrittenIsKept
  BY DEF KeptInv
<1>1. TypeInv'
  BY <1>0, TypeStep
<1>2. CASE \E k \in Caller : CallStep(k)
  BY <1>0, <1>1, <1>2, CallStepSum, StepKept DEF KeptInv
<1>3. CASE \E k \in Caller : CancelContext(k)
  BY <1>0, <1>1, <1>3 DEF CancelContext, cluster, KeptInv, ObjSeen, WrittenIsKept
<1>4. CASE \E r \in Resource : Operator(r)
  <2>1. PICK r \in Resource : Operator(r)
    BY <1>4
  <2>2. /\ UNCHANGED <<written, spec, obj>> /\ rv[r] \in Nat
        /\ rv' = [rv EXCEPT ![r] = rv[r] + 1]
    BY <1>0, <2>1, OperatorSum
  <2>3. rv \in [Resource -> Nat] /\ obj \in [Caller -> [rv : Nat, spec : Specs]]
    BY <1>0 DEF TypeInv, TypeOK, Specs
  <2>4. ASSUME NEW j \in Caller
        PROVE  obj[j].rv <= rv'[Target[j]] /\ (obj[j].rv = rv'[Target[j]] => obj[j].spec = spec[Target[j]])
    <3>1. Target[j] \in Resource
      BY CallAssumption
    <3>2. obj[j].rv \in Nat /\ obj[j].rv <= rv[Target[j]] /\ rv[Target[j]] \in Nat
      BY <1>0, <2>3, <3>1 DEF ObjSeen
    <3>3. rv'[Target[j]] = IF Target[j] = r THEN rv[Target[j]] + 1 ELSE rv[Target[j]]
      BY <2>2, <2>3, <3>1
    <3>4. CASE Target[j] = r
      BY <3>2, <3>3, <3>4
    <3>5. CASE Target[j] # r
      BY <1>0, <3>2, <3>3, <3>5 DEF ObjSeen
    <3> QED
      BY <3>4, <3>5
  <2>5. ObjSeen' /\ WrittenIsKept'
    BY <1>0, <2>2, <2>4 DEF ObjSeen, WrittenIsKept
  <2> QED
    BY <1>1, <2>5 DEF KeptInv
<1>5. CASE UNCHANGED vars
  BY <1>0, <1>1, <1>5 DEF vars, cluster, KeptInv, ObjSeen, WrittenIsKept
<1> QED
  BY <1>2, <1>3, <1>4, <1>5 DEF Next

(* Nothing is read or written at first.                                    *)
LEMMA KeptInit ==
  ASSUME Init
  PROVE  KeptInv
<1>1. TypeInv
  BY TypeInit
<1>2. \A k \in Caller : obj[k] = [rv |-> 0, spec |-> {}] /\ Target[k] \in Resource
  BY CallAssumption DEF Init, NoObj
<1>3. \A r \in Resource : (rv[r] = 0 /\ spec[r] = {}) \/ rv[r] = 1
  BY DEF Init
<1>4. 0 <= 0 /\ 0 <= 1 /\ 0 # 1
  OBVIOUS
<1>5. ObjSeen
  BY <1>2, <1>3, <1>4 DEF ObjSeen
<1> QED
  BY <1>1, <1>5 DEF KeptInv, WrittenIsKept, Init

(* What a call has written stays written: concurrent updates of the same   *)
(* resource, however they and the operator interleave, lose nothing.       *)
THEOREM NoLostUpdate == Spec => []WrittenIsKept
<1>1. Init => KeptInv
  BY KeptInit
<1>2. KeptInv /\ [Next]_vars => KeptInv'
  BY KeptStep
<1>3. KeptInv => WrittenIsKept
  BY DEF KeptInv
<1> QED
  BY <1>1, <1>2, <1>3, PTL DEF Spec

-----------------------------------------------------------------------------
(* The wait *)

(* Every status that decides a poll is the one of a listed resource, and   *)
(* of the target, if the wait looks at nothing else.                       *)
LEMMA DecidedBy ==
  ASSUME NEW k \in Caller, NEW s \in FirstDecisive(k)
  PROVE  Decisive(k, s) /\ (Own(k) => s = status[Target[k]])
<1>1. PICK i \in Listed(k) : Decisive(k, status[Names[i]]) /\ s = status[Names[i]]
  BY DEF FirstDecisive
<1>2. i \in DOMAIN Names /\ (program[k].wait.named => Names[i] = Target[k])
  BY DEF Listed
<1>3. Names[i] \in Resource
  BY <1>2 DEF Resource
<1> QED
  BY <1>1, <1>2, <1>3 DEF Own

(* A failed status that ends a named wait is the one of the caller's own   *)
(* resource, and none the wait calls transient.                            *)
THEOREM FailureOfOwnResource == Spec => FailureIsOwn
<1> DEFINE A == \A k \in Caller :
                  /\ program[k].wait.named
                  /\ outcome[k] = "running" /\ outcome'[k] = "statusFailed"
                  => status[Target[k]] \in Reason \ program[k].wait.transient
<1>1. TypeInv /\ [Next]_vars => [A]_vars
  <2> SUFFICES ASSUME TypeInv, Next, NEW k \in Caller, program[k].wait.named,
                      outcome[k] = "running", outcome'[k] = "statusFailed"
               PROVE  status[Target[k]] \in Reason \ program[k].wait.transient
    OBVIOUS
  <2>0. outcome \in [Caller -> {"running", "ok"} \cup Failed]
    BY DEF TypeInv, TypeOK
  <2>1. ASSUME NEW j \in Caller, CallStep(j) PROVE Poll(k)
    <3>1. ASSUME NEW how, End(j, how), how # "statusFailed" PROVE FALSE
      BY <2>0, <3>1 DEF End
    <3>2. ASSUME NEW i, GoTo(j, i) PROVE FALSE
      BY <2>0, <3>2 DEF GoTo
    <3>3. ~GoOn(j)
      BY <3>2 DEF GoOn
    <3>4. ~NamespaceGet(j) /\ ~NamespaceCreate(j) /\ ~License(j)
      BY <3>1, <3>2, <3>3 DEF NamespaceGet, NamespaceCreate, License
    <3>5. ~Apply(j) /\ ~HelmUpgrade(j) /\ ~Request(j)
      BY <3>1, <3>3 DEF Apply, HelmUpgrade, Request
    <3>6. ~UpdateGet(j) /\ ~UpdatePut(j)
      BY <3>1, <3>2, <3>3 DEF UpdateGet, UpdatePut
    <3>7. ~UpdateConflict(j) /\ ~UpdateError(j)
      BY <3>1, <3>2, <3>3 DEF UpdateConflict, UpdateError
    <3>8. ~PollEnds(j)
      BY <3>1, <3>3 DEF PollEnds
    <3>9. Poll(j)
      BY <2>1, <3>4, <3>5, <3>6, <3>7, <3>8 DEF CallStep
    <3>10. j = k
      BY <2>0, <3>3, <3>9 DEF Poll, End
    <3> QED
      BY <3>9, <3>10
  <2>2. ~\E j \in Caller : CancelContext(j)
    BY DEF CancelContext
  <2>3. ~\E r \in Resource : Operator(r)
    BY OperatorSum
  <2>4. Poll(k)
    BY <2>1, <2>2, <2>3 DEF Next
  <2>5. ~GoOn(k)
    BY <2>0 DEF GoOn, GoTo
  <2>6. PICK s \in FirstDecisive(k) : s \in Reason
    BY <2>4, <2>5 DEF Poll
  <2>7. Decisive(k, s) /\ s = status[Target[k]]
    BY <2>6, DecidedBy DEF Own
  <2> QED
    BY <2>6, <2>7 DEF Decisive, Reason
<1>2. Init => TypeInv
  BY TypeInit
<1>3. TypeInv /\ [Next]_vars => TypeInv'
  BY TypeStep
<1> QED
  BY <1>1, <1>2, <1>3, PTL DEF Spec, FailureIsOwn
-----------------------------------------------------------------------------
(* Installed means rolled out *)

(* A step of the installer k itself: what it passes tells of the rollout.  *)
LEMMA OwnStepRolled ==
  ASSUME KeptInv, NEW k \in Caller, RolledOut(k), StepOf(k)
  PROVE  RolledOut(k)'
<1> DEFINE T == Target[k]
           q == program[k].steps
<1>0. /\ TypeInv /\ ObjSeen /\ outcome[k] = "running"
      /\ UNCHANGED <<program, rolled, status, ctxDone>> /\ Writes(k)
      /\ Ends(k) \/ Proceeds(k)
  BY DEF KeptInv, StepOf
<1>1. T \in Resource /\ program[k] \in Programs
  BY <1>0, CallAssumption DEF TypeInv, TypeOK
<1>2. rv'[T] # 0 => k \in spec'[T]
  BY <1>0, <1>1, WritesGrow DEF RolledOut, Exists
<1>3. status[T] = "operational" => k \in rolled[T]
  BY DEF RolledOut
<1>4. ASSUME Own(k), outcome'[k] \in {"running", "ok"}
      PROVE  /\ Past(k, "wait")' /\ k \notin ctxDone => k \in rolled[T]
             /\ Past(k, "pods")' /\ program[k] = InstallVMCluster => k \in rolled[T]
  <2>0. outcome \in [Caller -> {"running", "ok"} \cup Failed] /\ pos \in [Caller -> Nat]
    BY <1>0 DEF TypeInv, TypeOK
  <2>1. ~Ends(k)
    BY <1>4, <2>0 DEF Ends, End, Failed
  <2>2. PICK i \in 1 .. Len(q) + 1 : GoTo(k, i) /\ Passes(k, i)
    BY <1>0, <2>1 DEF Proceeds
  <2>3. pos'[k] = i
    BY <2>0, <2>2 DEF GoTo
  <2>4. ASSUME Past(k, "wait")', k \notin ctxDone
        PROVE  k \in rolled[T]
    <3>1. PICK j \in 1 .. Len(q) : j < i /\ q[j] = "wait"
      BY <1>0, <2>3, <2>4 DEF Past
    <3>2. j < pos[k] \/ "operational" \in FirstDecisive(k)
      BY <2>2, <2>4, <3>1 DEF Passes
    <3>3. CASE j < pos[k]
      BY <1>0, <1>4, <2>4, <3>1, <3>3 DEF RolledOut, Past
    <3>4. CASE "operational" \in FirstDecisive(k)
      BY <1>3, <1>4, <3>4, DecidedBy
    <3> QED
      BY <3>2, <3>3, <3>4
  <2>5. ASSUME Past(k, "pods")', program[k] = InstallVMCluster
        PROVE  k \in rolled[T]
    <3>1. PICK j \in 1 .. Len(q) : j < i /\ q[j] = "pods"
      BY <1>0, <2>3, <2>5 DEF Past
    <3>2. j < pos[k] \/ (j = pos[k] /\ k \notin ctxDone)
      BY <2>2, <3>1 DEF Passes
    <3>3. CASE j < pos[k]
      BY <1>0, <1>4, <2>5, <3>1, <3>3 DEF RolledOut, Past
    <3>4. CASE j = pos[k] /\ k \notin ctxDone
      <4>1. PodsAfterWait(q)
        BY <1>1, <2>5, ProgramShape
      <4>2. PICK h \in 1 .. Len(q) : h < j /\ q[h] = "wait"
        BY <3>1, <4>1 DEF PodsAfterWait
      <4> QED
        BY <1>0, <1>4, <3>4, <4>2 DEF RolledOut, Past
    <3> QED
      BY <3>2, <3>3, <3>4
  <2> QED
    BY <2>4, <2>5
<1> QED
  BY <1>0, <1>2, <1>3, <1>4 DEF RolledOut, Exists, Own

(* A step of another call j, which does not write the resource of k.       *)
LEMMA OtherStepRolled ==
  ASSUME KeptInv, NEW k \in Caller, RolledOut(k), NEW j \in Caller, j # k, StepOf(j),
         Target[j] # Target[k], ~Has(program[j].steps, "helm")
  PROVE  RolledOut(k)'
<1> DEFINE T == Target[k]
<1>0. /\ TypeInv /\ ObjSeen /\ outcome[j] = "running"
      /\ UNCHANGED <<program, rolled, status, ctxDone>> /\ Writes(j)
      /\ Ends(j) \/ Proceeds(j)
  BY DEF KeptInv, StepOf
<1>1. T \in Resource
  BY CallAssumption
<1>2. rv'[T] = rv[T] /\ spec'[T] = spec[T]
  BY <1>0, <1>1, WritesGrow
<1>3. outcome \in [Caller -> {"running", "ok"} \cup Failed] /\ pos \in [Caller -> Nat]
  BY <1>0 DEF TypeInv, TypeOK
<1>4. pos'[k] = pos[k] /\ outcome'[k] = outcome[k]
  BY <1>0, <1>3 DEF Ends, End, Proceeds, GoTo
<1> QED
  BY <1>0, <1>2, <1>4 DEF RolledOut, Exists, Own, Past

(* A step of the operator, which rolls out what is stored.                 *)
LEMMA OperatorRolled ==
  ASSUME KeptInv, NEW k \in Caller, RolledOut(k), NEW r \in Resource, Operator(r)
  PROVE  RolledOut(k)'
<1> DEFINE T == Target[k]
<1>0. TypeInv
  BY DEF KeptInv
<1>1. /\ UNCHANGED <<program, spec, pos, outcome, ctxDone>> /\ rv[r] \in Nat /\ rv[r] # 0
      /\ rv' = [rv EXCEPT ![r] = rv[r] + 1]
  BY <1>0, OperatorSum
<1>2. PICK to \in Status :
        /\ status' = [status EXCEPT ![r] = to]
        /\ (UNCHANGED rolled /\ to # "operational") \/ rolled' = [rolled EXCEPT ![r] = spec[r]]
  BY <1>0, OperatorSum
<1>3. /\ T \in Resource /\ rv \in [Resource -> Nat] /\ status \in [Resource -> Status]
      /\ rolled \in [Resource -> Specs]
  BY <1>0, CallAssumption DEF TypeInv, TypeOK, Specs
<1>4. CASE T # r
  <2>1. rv'[T] = rv[T] /\ status'[T] = status[T] /\ rolled'[T] = rolled[T]
    BY <1>1, <1>2, <1>3, <1>4
  <2> QED
    BY <1>1, <2>1 DEF RolledOut, Exists, Own, Past
<1>5. CASE T = r
  <2>1. k \in spec[T]
    BY <1>1, <1>5 DEF RolledOut, Exists
  <2>2. status'[T] = to
    BY <1>2, <1>3, <1>5
  <2>3. k \in rolled[T] => k \in rolled'[T]
    BY <1>2, <1>3, <1>5, <2>1
  <2>4. status'[T] = "operational" => k \in rolled'[T]
    BY <1>2, <1>3, <1>5, <2>1, <2>2
  <2> QED
    BY <1>1, <2>1, <2>3, <2>4 DEF RolledOut, Own, Past
<1> QED
  BY <1>4, <1>5

(* Every step keeps what is known of the rollouts.                         *)
LEMMA RolledStep ==
  ASSUME SoleWriter, RolledInv, [Next]_vars
  PROVE  RolledInv'
<1>0. KeptInv /\ TypeInv
  BY DEF RolledInv, KeptInv
<1>1. KeptInv'
  BY <1>0, KeptStep
<1>2. SUFFICES ASSUME NEW k \in Caller, Target[k] \notin Existing
               PROVE  RolledOut(k)'
  BY <1>1 DEF RolledInv
<1>3. RolledOut(k)
  BY <1>2 DEF RolledInv
<1>4. ASSUME NEW j \in Caller, CallStep(j) PROVE RolledOut(k)'
  <2>1. StepOf(j)
    BY <1>0, <1>4, CallStepSum
  <2>2. CASE j = k
    BY <1>0, <1>3, <2>1, <2>2, OwnStepRolled
  <2>3. CASE j # k
    <3>1. Target[j] # Target[k] /\ ~Has(program[j].steps, "helm")
      BY <1>0, <1>2, <2>3 DEF SoleWriter, TypeInv
    <3> QED
      BY <1>0, <1>3, <2>1, <2>3, <3>1, OtherStepRolled
  <2> QED
    BY <2>2, <2>3
<1>5. ASSUME NEW j \in Caller, CancelContext(j) PROVE RolledOut(k)'
  BY <1>3, <1>5 DEF CancelContext, cluster, RolledOut, Exists, Own, Past
<1>6. ASSUME NEW r \in Resource, Operator(r) PROVE RolledOut(k)'
  BY <1>0, <1>3, <1>6, OperatorRolled
<1>7. CASE UNCHANGED vars
  BY <1>3, <1>7 DEF vars, cluster, RolledOut, Exists, Own, Past
<1> QED
  BY <1>4, <1>5, <1>6, <1>7 DEF Next

(* What is being installed is not there at first.                          *)
LEMMA RolledInit ==
  ASSUME Init
  PROVE  RolledInv
<1>1. KeptInv
  BY KeptInit
<1>2. ASSUME NEW k \in Caller, Target[k] \notin Existing PROVE RolledOut(k)
  <2>1. rv[Target[k]] = 0 /\ status[Target[k]] = "" /\ pos[k] = 1
    BY <1>2, CallAssumption DEF Init
  <2>2. program[k] \in Programs
    BY DEF Init
  <2>3. PICK n \in 3 .. 11 : n = Len(program[k].steps)
    BY <2>2, ProgramShape DEF WellFormed
  <2>4. \A x : ~Past(k, x)
    <3>1. \A j \in 1 .. n : ~(j < 1)
      OBVIOUS
    <3> QED
      BY <2>1, <2>3, <3>1 DEF Past
  <2> QED
    BY <2>1, <2>4 DEF RolledOut, Exists
<1> QED
  BY <1>1, <1>2 DEF RolledInv

(* A call that has returned normally has all of its program behind it.     *)
LEMMA RolledImplies ==
  ASSUME RolledInv
  PROVE  InstalledIsRolledOut
<1> SUFFICES ASSUME NEW k \in Caller, outcome[k] = "ok", Target[k] \notin Existing, Own(k),
                    k \in ctxDone => program[k] = InstallVMCluster
             PROVE  k \in rolled[Target[k]]
  BY DEF InstalledIsRolledOut, Own
<1>1. RolledOut(k) /\ TypeInv
  BY DEF RolledInv, KeptInv
<1>2. program[k] \in Programs /\ pos[k] \in Nat /\ pos[k] > Len(program[k].steps)
  BY <1>1 DEF TypeInv, TypeOK
<1>3. PICK n \in 3 .. 11 : n = Len(program[k].steps)
  BY <1>2, ProgramShape DEF WellFormed
<1>4. \A j \in 1 .. n : j < pos[k]
  BY <1>2, <1>3
<1>5. \A x : Has(program[k].steps, x) => Past(k, x)
  BY <1>3, <1>4 DEF Has, Past
<1>6. CASE k \notin ctxDone
  <2>1. Past(k, "wait")
    BY <1>2, <1>5, ProgramShape DEF WellFormed
  <2> QED
    BY <1>1, <1>6, <2>1 DEF RolledOut
<1>7. CASE program[k] = InstallVMCluster
  <2>1. Past(k, "pods")
    BY <1>2, <1>5, <1>7, ProgramShape
  <2> QED
    BY <1>1, <1>7, <2>1 DEF RolledOut
<1> QED
  BY <1>6, <1>7

(* An Install function whose wait looks at its own resource only returns   *)
(* normally only after the operator has rolled that resource out, for any  *)
(* calls beside it that write other resources.  With a second writer of    *)
(* the same new resource it need not: the operational status can be the    *)
(* one of the other manifest.                                              *)
THEOREM InstalledMeansRolledOut ==
  ASSUME SoleWriter
  PROVE  Spec => []InstalledIsRolledOut
<1>1. Init => RolledInv
  BY RolledInit
<1>2. RolledInv /\ [Next]_vars => RolledInv'
  BY RolledStep
<1>3. RolledInv => InstalledIsRolledOut
  BY RolledImplies
<1> QED
  BY <1>1, <1>2, <1>3, PTL DEF Spec
=============================================================================
