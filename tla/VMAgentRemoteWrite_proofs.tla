--------------------- MODULE VMAgentRemoteWrite_proofs ---------------------
(***************************************************************************)
(* Proofs about VMAgentRemoteWrite, for any number of calls, processes,    *)
(* URLs and retries.  The inductive invariant says what a call's place in  *)
(* the code implies: past the lock it holds the mutex, before the update   *)
(* its object is either out of date or exactly the stored list with its    *)
(* URL appended, and after the update its URL is stored.                   *)
(***************************************************************************)
EXTENDS VMAgentRemoteWrite, TLAPS

(* Past the lock, before the unlock: the call holds the mutex.             *)
HoldsMutex == \A c \in Call : pc[c] \in Running => mu[ProcOf[c]] = c

(* What the closure is about to write: current objects append, old ones    *)
(* will be refused.                                                        *)
FreshOrStale ==
  \A c \in Call : pc[c] = "update" =>
    /\ obj[c].rv <= rv
    /\ obj[c].rv = rv => /\ obj[c].urls = Append(remoteWrite, UrlOf[c])
                         /\ ~Contains(remoteWrite, UrlOf[c])

(* From the successful update on, the URL is in the list.                  *)
Stored == \A c \in Call : pc[c] \in {"wait", "ok"} => Contains(remoteWrite, UrlOf[c])

(* Nothing is counted before the first read, and a run of the closure      *)
(* begins only while there are steps left.                                 *)
Counted ==
  \A c \in Call :
    /\ pc[c] \in {"idle", "lock", "get"} => conflicts[c] = 0
    /\ pc[c] \in {"idle", "lock", "get"} => startRV[c] = 0
    /\ pc[c] \in {"retryGet", "update"} => conflicts[c] < RetrySteps

(* The object about to be written was read after all conflicts so far.     *)
ReadAfterConflicts ==
  \A c \in Call : pc[c] = "update" => startRV[c] + conflicts[c] <= obj[c].rv

TypeInv == TypeOK /\ Counted

-----------------------------------------------------------------------------
(* Facts about the sequence operators the list is handled with.            *)

(* Appending to the list keeps what it contains and adds the URL.          *)
LEMMA ContainsAppend ==
  ASSUME NEW S, NEW s \in Seq(S), NEW u \in S
  PROVE  /\ Contains(Append(s, u), u)
         /\ \A v : Contains(s, v) => Contains(Append(s, u), v)
BY DEF Contains

(* Appending a URL the list does not contain keeps it free of duplicates.  *)
LEMMA InjectiveAppend ==
  ASSUME NEW S, NEW s \in Seq(S), NEW u \in S, IsInjective(s), ~Contains(s, u)
  PROVE  IsInjective(Append(s, u))
BY DEF Contains, IsInjective

(* A list is a prefix of itself and of what is appended to it.             *)
LEMMA PrefixAppend ==
  ASSUME NEW S, NEW s \in Seq(S), NEW u \in S
  PROVE  IsPrefix(s, s) /\ IsPrefix(s, Append(s, u))
<1>1. IsPrefix(s, s)
  BY DEF IsPrefix
<1>2. Len(s) <= Len(Append(s, u))
  OBVIOUS
<1>3. SubSeq(s, 1, Len(s)) = SubSeq(Append(s, u), 1, Len(s))
  OBVIOUS
<1> QED BY <1>1, <1>2, <1>3 DEF IsPrefix

-----------------------------------------------------------------------------
(* The type invariant, with what bounds the number of retries.             *)

(* Before the first call the shapes are right and no step has been used.   *)
LEMMA TypeInit == Init => TypeInv
BY CallAssumption, ListAssumption, BoundAssumption
   DEF Init, TypeInv, TypeOK, Counted, Running, Returned, Failed, NoObj, ToSet

(* Every step of a call, of a context or of the operator keeps them.       *)
LEMMA TypeStep == TypeInv /\ [Next]_vars => TypeInv'
<1> SUFFICES ASSUME TypeInv, [Next]_vars PROVE TypeInv'
  OBVIOUS
<1> USE CallAssumption, BoundAssumption DEF TypeInv
<1>1. ASSUME NEW c \in Call, Start(c) PROVE TypeInv'
  BY <1>1 DEF TypeOK, Counted, Start, Goto, agent, Running, Returned, Failed
<1>2. ASSUME NEW c \in Call, LockVMAgentUpdates(c) PROVE TypeInv'
  BY <1>2 DEF TypeOK, Counted, LockVMAgentUpdates, Goto, agent, Running,
              Returned, Failed
<1>3. ASSUME NEW c \in Call, FirstGet(c) PROVE TypeInv'
  <2>1. TypeOK'
    BY <1>3 DEF TypeOK, FirstGet, Return, Goto, agent, Running, Returned, Failed
  <2>2. Counted'
    BY <1>3 DEF TypeOK, Counted, FirstGet, Return, Goto
  <2> QED BY <2>1, <2>2
<1>4. ASSUME NEW c \in Call, GetError(c) PROVE TypeInv'
  BY <1>4 DEF TypeOK, Counted, GetError, Return, Goto, agent, Running, Returned,
              Failed
<1>5. ASSUME NEW c \in Call, RetryGet(c) PROVE TypeInv'
  <2>1. obj' \in [Call -> [rv : Nat, urls : Seq(Url)]]
    <3>1. Append(remoteWrite, UrlOf[c]) \in Seq(Url)
      BY DEF TypeOK
    <3>2. [rv |-> rv, urls |-> Append(remoteWrite, UrlOf[c])]
            \in [rv : Nat, urls : Seq(Url)]
      BY <3>1 DEF TypeOK
    <3> QED BY <1>5, <3>2 DEF TypeOK, RetryGet
  <2>2. pc' \in [Call -> {"idle", "lock"} \cup Running \cup Returned]
    BY <1>5 DEF TypeOK, RetryGet, Goto, Running
  <2>3. TypeOK'
    BY <1>5, <2>1, <2>2 DEF TypeOK, RetryGet, agent
  <2>4. Counted'
    BY <1>5 DEF TypeOK, Counted, RetryGet, Goto
  <2> QED BY <2>3, <2>4
<1>6. ASSUME NEW c \in Call, UpdateOK(c) PROVE TypeInv'
  BY <1>6 DEF TypeOK, Counted, UpdateOK, Write, Drop, NoObj, Goto, Running,
              Returned, Failed
<1>7. ASSUME NEW c \in Call, UpdateConflict(c) PROVE TypeInv'
  <2>1. pc[c] = "update" /\ conflicts[c] + 1 \in 0 .. RetrySteps
    BY <1>7 DEF TypeOK, Counted, UpdateConflict, Return, Goto
  <2>2. conflicts' \in [Call -> 0 .. RetrySteps]
    BY <1>7, <2>1 DEF TypeOK, UpdateConflict
  <2>3. pc' \in [Call -> {"idle", "lock"} \cup Running \cup Returned]
    BY <1>7 DEF TypeOK, UpdateConflict, Return, Goto, Running, Returned, Failed
  <2>4. mu' \in [Proc -> Call \cup {NoCall}]
    BY <1>7 DEF TypeOK, UpdateConflict, Return
  <2>5. obj' \in [Call -> [rv : Nat, urls : Seq(Url)]]
    BY <1>7 DEF TypeOK, UpdateConflict, Drop, NoObj
  <2>6. TypeOK'
    BY <1>7, <2>2, <2>3, <2>4, <2>5 DEF TypeOK, UpdateConflict, agent
  <2>7. Counted'
    BY <1>7 DEF TypeOK, Counted, UpdateConflict, Return, Goto
  <2> QED BY <2>6, <2>7
<1>8. ASSUME NEW c \in Call, UpdateError(c) PROVE TypeInv'
  BY <1>8 DEF TypeOK, Counted, UpdateError, Write, Drop, NoObj, Return, Goto,
              Running, Returned, Failed
<1>9. ASSUME NEW c \in Call, WaitReturns(c) PROVE TypeInv'
  BY <1>9 DEF TypeOK, Counted, WaitReturns, Return, Goto, agent, Running,
              Returned, Failed
<1>10. ASSUME NEW c \in Call, CancelContext(c) PROVE TypeInv'
  BY <1>10 DEF TypeOK, Counted, CancelContext, agent
<1>11. CASE Operator
  BY <1>11 DEF TypeOK, Counted, Operator, OperatorStart, OperatorFinish,
               OperatorFail, OperatorResync, WriteStatus, ToSet
<1>12. CASE UNCHANGED vars
  BY <1>12 DEF TypeOK, Counted, vars
<1> QED
  BY <1>1, <1>2, <1>3, <1>4, <1>5, <1>6, <1>7, <1>8, <1>9, <1>10, <1>11, <1>12
     DEF Next, CallStep

(* The variables of the code keep their shapes; in particular the closure  *)
(* of vmagent.go:218-237 meets no more conflicts than RetryOnConflict has  *)
(* steps.                                                                  *)
THEOREM TypeCorrect == Spec => []TypeOK
<1>1. Spec => []TypeInv
  BY TypeInit, TypeStep, PTL DEF Spec
<1> QED BY <1>1, PTL DEF TypeInv

-----------------------------------------------------------------------------
(* The mutex.                                                              *)

(* Every step that enters or leaves the critical section keeps the mutex   *)
(* with the call that is inside.                                           *)
LEMMA MutexStep == TypeOK /\ HoldsMutex /\ [Next]_vars => HoldsMutex'
<1> SUFFICES ASSUME TypeOK, HoldsMutex, [Next]_vars PROVE HoldsMutex'
  OBVIOUS
<1> USE CallAssumption
<1>1. ASSUME NEW c \in Call, Start(c) PROVE HoldsMutex'
  BY <1>1 DEF TypeOK, HoldsMutex, Start, Goto, Running
<1>2. ASSUME NEW c \in Call, LockVMAgentUpdates(c) PROVE HoldsMutex'
  BY <1>2 DEF TypeOK, HoldsMutex, LockVMAgentUpdates, Goto, Running
<1>3. ASSUME NEW c \in Call, NEW from, NEW to, from \in Running, to \notin Running,
             Return(c, from, to)
      PROVE  HoldsMutex'
  BY <1>3 DEF TypeOK, HoldsMutex, Return, Goto
<1>4. ASSUME NEW c \in Call, NEW from, NEW to, from \in Running,
             Goto(c, from, to), mu' = mu
      PROVE  HoldsMutex'
  BY <1>4 DEF TypeOK, HoldsMutex, Goto
<1>5. ASSUME NEW c \in Call, CallStep(c), ~LockVMAgentUpdates(c) PROVE HoldsMutex'
  <2>1. {"get", "retryGet", "update", "wait"} \subseteq Running
    BY DEF Running
  <2>2. \A x \in {"apiError", "noEntries", "conflicts", "waitFailed", "ok"} : x \notin Running
    BY DEF Running
  <2>3. CASE FirstGet(c)
    BY <1>3, <1>4, <2>1, <2>2, <2>3 DEF FirstGet
  <2>4. CASE GetError(c)
    BY <1>3, <2>1, <2>2, <2>4 DEF GetError
  <2>5. CASE RetryGet(c)
    BY <1>4, <2>1, <2>5 DEF RetryGet
  <2>6. CASE UpdateOK(c)
    BY <1>4, <2>1, <2>6 DEF UpdateOK
  <2>7. CASE UpdateConflict(c)
    BY <1>3, <1>4, <2>1, <2>2, <2>7 DEF UpdateConflict
  <2>8. CASE UpdateError(c)
    BY <1>3, <2>1, <2>2, <2>8 DEF UpdateError
  <2>9. CASE WaitReturns(c)
    BY <1>3, <2>1, <2>2, <2>9 DEF WaitReturns
  <2> QED BY <1>5, <2>3, <2>4, <2>5, <2>6, <2>7, <2>8, <2>9 DEF CallStep
<1>6. CASE UNCHANGED <<pc, mu>>
  BY <1>6 DEF HoldsMutex
<1>7. ASSUME NEW c \in Call, CancelContext(c) PROVE HoldsMutex'
  BY <1>6, <1>7 DEF CancelContext
<1>8. CASE Operator
  BY <1>6, <1>8 DEF Operator, OperatorStart, OperatorFinish, OperatorFail,
                    OperatorResync, WriteStatus
<1>9. CASE UNCHANGED vars
  BY <1>6, <1>9 DEF vars
<1> QED BY <1>1, <1>2, <1>5, <1>7, <1>8, <1>9 DEF Next

(* vmAgentUpdateMu serialises the calls of one process, however they end:  *)
(* lockVMAgentUpdates and the deferred unlock bracket the whole function.  *)
THEOREM Mutex == Spec => []MutualExclusion
<1>1. Init => HoldsMutex
  BY DEF Init, HoldsMutex, Running
<1>2. HoldsMutex => MutualExclusion
  BY DEF HoldsMutex, MutualExclusion
<1> QED BY <1>1, <1>2, TypeCorrect, MutexStep, PTL DEF Spec

-----------------------------------------------------------------------------
(* The list.                                                               *)

(* All a step ever does to the list, whichever process takes it: nothing,  *)
(* or the append of one URL that is missing, with a new resourceVersion.   *)
ListStep ==
  \/ remoteWrite' = remoteWrite /\ rv' \in Nat /\ rv <= rv'
  \/ \E c \in Call : /\ ~Contains(remoteWrite, UrlOf[c])
                     /\ remoteWrite' = Append(remoteWrite, UrlOf[c])
                     /\ rv' = rv + 1

(* Only a write with the current resourceVersion is stored, and such an    *)
(* object is the stored list plus the caller's URL.                        *)
LEMMA ListIsAppended == TypeOK /\ FreshOrStale /\ [Next]_vars => ListStep
<1> SUFFICES ASSUME TypeOK, FreshOrStale, [Next]_vars PROVE ListStep
  OBVIOUS
<1>1. ASSUME NEW c \in Call, pc[c] = "update", Write(c) PROVE ListStep
  BY <1>1 DEF FreshOrStale, Write, ListStep
<1>2. CASE UNCHANGED <<remoteWrite, rv>>
  BY <1>2 DEF TypeOK, ListStep
<1>3. ASSUME NEW c \in Call, UpdateOK(c) PROVE ListStep
  BY <1>1, <1>3 DEF UpdateOK, Goto
<1>4. ASSUME NEW c \in Call, UpdateError(c) PROVE ListStep
  BY <1>1, <1>2, <1>4 DEF UpdateError, Return, Goto
<1>5. CASE Operator
  BY <1>5 DEF TypeOK, ListStep, Operator, OperatorStart, OperatorFinish,
              OperatorFail, OperatorResync, WriteStatus
<1>6. ASSUME NEW c \in Call,
             Start(c) \/ LockVMAgentUpdates(c) \/ FirstGet(c) \/ GetError(c)
               \/ RetryGet(c) \/ UpdateConflict(c) \/ WaitReturns(c) \/ CancelContext(c)
      PROVE  ListStep
  BY <1>2, <1>6 DEF Start, LockVMAgentUpdates, FirstGet, GetError, RetryGet,
                    UpdateConflict, WaitReturns, CancelContext, agent
<1>7. CASE UNCHANGED vars
  BY <1>2, <1>7 DEF vars
<1> QED BY <1>3, <1>4, <1>5, <1>6, <1>7 DEF Next, CallStep

(* What such a step keeps: entries, their order, and their uniqueness.     *)
LEMMA ListKept ==
  ASSUME TypeOK, ListStep
  PROVE  /\ \A v : Contains(remoteWrite, v) => Contains(remoteWrite', v)
         /\ IsPrefix(remoteWrite, remoteWrite')
         /\ NoDuplicates => NoDuplicates'
<1> remoteWrite \in Seq(Url)
  BY DEF TypeOK
<1>1. CASE remoteWrite' = remoteWrite
  <2>1. IsPrefix(remoteWrite, remoteWrite)
    BY DEF IsPrefix
  <2> QED BY <1>1, <2>1 DEF NoDuplicates
<1>2. ASSUME NEW c \in Call, ~Contains(remoteWrite, UrlOf[c]),
             remoteWrite' = Append(remoteWrite, UrlOf[c])
      PROVE  /\ \A v : Contains(remoteWrite, v) => Contains(remoteWrite', v)
             /\ IsPrefix(remoteWrite, remoteWrite')
             /\ NoDuplicates => NoDuplicates'
  <2>1. UrlOf[c] \in Url
    BY CallAssumption
  <2>2. \A v : Contains(remoteWrite, v) => Contains(remoteWrite', v)
    BY <1>2, <2>1, ContainsAppend
  <2>3. IsPrefix(remoteWrite, remoteWrite')
    BY <1>2, <2>1, PrefixAppend
  <2>4. NoDuplicates => NoDuplicates'
    BY <1>2, <2>1, InjectiveAppend DEF NoDuplicates
  <2> QED BY <2>2, <2>3, <2>4
<1> QED BY <1>1, <1>2 DEF ListStep

(* A read inside the closure makes a fresh object; a write makes every     *)
(* other one stale.                                                        *)
LEMMA FreshStep == TypeOK /\ FreshOrStale /\ [Next]_vars => FreshOrStale'
<1> SUFFICES ASSUME TypeOK, FreshOrStale, [Next]_vars,
                    NEW d \in Call, pc'[d] = "update"
             PROVE  /\ obj'[d].rv <= rv'
                    /\ obj'[d].rv = rv' =>
                         /\ obj'[d].urls = Append(remoteWrite', UrlOf[d])
                         /\ ~Contains(remoteWrite', UrlOf[d])
  BY DEF FreshOrStale
<1> DEFINE Goal == /\ obj'[d].rv <= rv'
                   /\ obj'[d].rv = rv' =>
                        /\ obj'[d].urls = Append(remoteWrite', UrlOf[d])
                        /\ ~Contains(remoteWrite', UrlOf[d])
<1>1. CASE pc[d] = "update" /\ obj'[d] = obj[d] /\ UNCHANGED <<remoteWrite, rv>>
  BY <1>1 DEF FreshOrStale
<1>2. CASE pc[d] = "update" /\ obj'[d] = obj[d] /\ rv' = rv + 1
  BY <1>2 DEF FreshOrStale, TypeOK
<1> HIDE DEF Goal
<1>3. ASSUME NEW c \in Call,
             Start(c) \/ LockVMAgentUpdates(c) \/ FirstGet(c) \/ GetError(c)
               \/ WaitReturns(c) \/ CancelContext(c)
      PROVE  Goal
  <2>1. UNCHANGED <<remoteWrite, rv, obj>>
    BY <1>3 DEF Start, LockVMAgentUpdates, FirstGet, GetError, WaitReturns,
                CancelContext, agent
  <2>2. pc[d] = "update"
    BY <1>3 DEF TypeOK, Start, LockVMAgentUpdates, FirstGet, GetError, WaitReturns,
                CancelContext, Return, Goto
  <2> QED BY <1>1, <2>1, <2>2 DEF Goal
<1>4. ASSUME NEW c \in Call, RetryGet(c) PROVE Goal
  <2>1. CASE d = c
    <3>1. /\ ~Contains(remoteWrite, UrlOf[c])
          /\ obj' = [obj EXCEPT ![c] = [rv |-> rv, urls |-> Append(remoteWrite, UrlOf[c])]]
      BY <1>4, <2>1 DEF TypeOK, RetryGet, Goto
    <3>2. obj'[d] = [rv |-> rv, urls |-> Append(remoteWrite, UrlOf[d])]
      BY <2>1, <3>1 DEF TypeOK
    <3>3. UNCHANGED <<remoteWrite, rv>>
      BY <1>4 DEF RetryGet, agent
    <3> QED BY <2>1, <3>1, <3>2, <3>3 DEF Goal, TypeOK
  <2>2. CASE d # c
    <3>1. pc[d] = "update" /\ obj'[d] = obj[d] /\ UNCHANGED <<remoteWrite, rv>>
      BY <1>4, <2>2 DEF TypeOK, RetryGet, Goto, agent
    <3> QED BY <1>1, <3>1 DEF Goal
  <2> QED BY <2>1, <2>2
<1>5. ASSUME NEW c \in Call, UpdateOK(c) PROVE Goal
  <2>1. pc[d] = "update" /\ obj'[d] = obj[d] /\ rv' = rv + 1
    BY <1>5 DEF TypeOK, UpdateOK, Goto, Write, Drop
  <2> QED BY <1>2, <2>1 DEF Goal
<1>6. ASSUME NEW c \in Call, UpdateConflict(c) PROVE Goal
  <2>1. pc[d] = "update" /\ obj'[d] = obj[d] /\ UNCHANGED <<remoteWrite, rv>>
    BY <1>6 DEF TypeOK, UpdateConflict, Return, Goto, Drop, agent
  <2> QED BY <1>1, <2>1 DEF Goal
<1>7. ASSUME NEW c \in Call, UpdateError(c) PROVE Goal
  <2>1. pc[d] = "update" /\ obj'[d] = obj[d]
    BY <1>7 DEF TypeOK, UpdateError, Return, Goto, Drop
  <2>2. UNCHANGED <<remoteWrite, rv>> \/ rv' = rv + 1
    BY <1>7 DEF UpdateError, Write
  <2> QED BY <1>1, <1>2, <2>1, <2>2 DEF Goal
<1>8. ASSUME Operator PROVE Goal
  <2>1. pc[d] = "update" /\ obj'[d] = obj[d] /\ rv' = rv + 1
    BY <1>8 DEF Operator, OperatorStart, OperatorFinish, OperatorFail,
                OperatorResync, WriteStatus
  <2> QED BY <1>2, <2>1 DEF Goal
<1>9. ASSUME UNCHANGED vars PROVE Goal
  <2>1. pc[d] = "update" /\ obj'[d] = obj[d] /\ UNCHANGED <<remoteWrite, rv>>
    BY <1>9 DEF vars
  <2> QED BY <1>1, <2>1 DEF Goal
<1>10. Goal
  BY <1>3, <1>4, <1>5, <1>6, <1>7, <1>8, <1>9 DEF Next, CallStep
<1> QED BY <1>10 DEF Goal

(* A call gets past its update only with its URL in the list.              *)
LEMMA StoredStep == TypeOK /\ FreshOrStale /\ Stored /\ [Next]_vars => Stored'
<1> SUFFICES ASSUME TypeOK, FreshOrStale, Stored, [Next]_vars,
                    NEW d \in Call, pc'[d] \in {"wait", "ok"}
             PROVE  Contains(remoteWrite', UrlOf[d])
  BY DEF Stored
<1> USE CallAssumption
<1>1. \A v : Contains(remoteWrite, v) => Contains(remoteWrite', v)
  BY ListIsAppended, ListKept
<1>2. CASE pc[d] \in {"wait", "ok"}
  BY <1>1, <1>2 DEF Stored
<1>3. CASE pc[d] \notin {"wait", "ok"}
  <2>1. ASSUME NEW c \in Call, FirstGet(c) PROVE Contains(remoteWrite, UrlOf[d])
    BY <1>3, <2>1 DEF TypeOK, FirstGet, Return, Goto
  <2>2. ASSUME NEW c \in Call, RetryGet(c) PROVE Contains(remoteWrite, UrlOf[d])
    BY <1>3, <2>2 DEF TypeOK, RetryGet, Goto
  <2>3. ASSUME NEW c \in Call, UpdateOK(c) PROVE Contains(remoteWrite', UrlOf[d])
    <3>1. d = c /\ pc[d] = "update" /\ obj[d].rv = rv /\ remoteWrite' = obj[d].urls
      BY <1>3, <2>3 DEF TypeOK, UpdateOK, Goto, Write
    <3>2. remoteWrite' = Append(remoteWrite, UrlOf[d])
      BY <3>1 DEF FreshOrStale
    <3>3. remoteWrite \in Seq(Url) /\ UrlOf[d] \in Url
      BY DEF TypeOK
    <3> QED BY <3>2, <3>3, ContainsAppend
  <2>4. ASSUME NEW c \in Call,
               Start(c) \/ LockVMAgentUpdates(c) \/ GetError(c) \/ UpdateConflict(c)
                 \/ UpdateError(c) \/ WaitReturns(c) \/ CancelContext(c)
        PROVE  FALSE
    BY <1>3, <2>4 DEF TypeOK, Start, LockVMAgentUpdates, GetError, UpdateConflict,
                      UpdateError, WaitReturns, CancelContext, Return, Goto
  <2>5. ~Operator
    BY <1>3 DEF Operator, OperatorStart, OperatorFinish, OperatorFail,
                OperatorResync, WriteStatus
  <2>6. ~UNCHANGED vars
    BY <1>3 DEF vars
  <2> QED BY <1>1, <2>1, <2>2, <2>3, <2>4, <2>5, <2>6 DEF Next, CallStep
<1> QED BY <1>2, <1>3

(* The part of the inductive invariant that is about the list.             *)
ListInv == FreshOrStale /\ Stored /\ NoDuplicates

(* It holds in every reachable state, next to the type invariant.          *)
LEMMA ListInvariant == Spec => [](TypeOK /\ ListInv)
<1>1. Init => ListInv
  BY ListAssumption DEF Init, ListInv, FreshOrStale, Stored, NoDuplicates
<1>2. TypeOK /\ ListInv /\ [Next]_vars => ListInv'
  BY FreshStep, StoredStep, ListIsAppended, ListKept DEF ListInv
<1> QED BY <1>1, <1>2, TypeCorrect, PTL DEF Spec

(* No URL is ever listed twice (vmagent.go:225-230): a check made on the   *)
(* version that is written, not on an older one, is enough.                *)
THEOREM Unique == Spec => []NoDuplicates
BY ListInvariant, PTL DEF ListInv

(* No lost update: once a call has returned normally its URL is in the     *)
(* list for good, whatever other processes and the operator write.         *)
THEOREM Ensured == Spec => []EnsuredURLStays
<1>1. ListInv => EnsuredURLStays
  BY DEF ListInv, Stored, EnsuredURLStays
<1> QED BY <1>1, ListInvariant, PTL

(* No step removes, reorders or replaces an entry of the shared list.      *)
THEOREM AppendOnly == Spec => OnlyAppends
<1>1. TypeOK /\ ListInv /\ [Next]_vars => IsPrefix(remoteWrite, remoteWrite')
  BY ListIsAppended, ListKept DEF ListInv
<1>2. TypeOK /\ ListInv /\ [Next]_vars => [IsPrefix(remoteWrite, remoteWrite')]_vars
  BY <1>1
<1> QED BY <1>2, ListInvariant, PTL DEF Spec, OnlyAppends

-----------------------------------------------------------------------------
(* Conflicts.                                                              *)

(* A conflict is counted against a version that is older than the current  *)
(* one and was read after all earlier conflicts.                           *)
LEMMA ConflictStep ==
  /\ TypeInv /\ FreshOrStale /\ ReadAfterConflicts /\ ConflictsAreForeignWrites
  /\ [Next]_vars
  => ReadAfterConflicts' /\ ConflictsAreForeignWrites'
<1> SUFFICES ASSUME TypeInv, FreshOrStale, ReadAfterConflicts,
                    ConflictsAreForeignWrites, [Next]_vars, NEW d \in Call
             PROVE  /\ pc'[d] = "update" => startRV'[d] + conflicts'[d] <= obj'[d].rv
                    /\ pc'[d] \in Running \cup Returned =>
                         startRV'[d] + conflicts'[d] <= rv'
  BY DEF ReadAfterConflicts, ConflictsAreForeignWrites
<1> DEFINE Goal == /\ pc'[d] = "update" => startRV'[d] + conflicts'[d] <= obj'[d].rv
                   /\ pc'[d] \in Running \cup Returned =>
                        startRV'[d] + conflicts'[d] <= rv'
<1>a. /\ TypeOK /\ rv \in Nat /\ rv' \in Nat /\ rv <= rv'
      /\ startRV[d] \in Nat /\ conflicts[d] \in Nat /\ obj[d].rv \in Nat
  <2>1. ListStep
    BY ListIsAppended DEF TypeInv
  <2> QED BY <2>1 DEF TypeInv, TypeOK, ListStep
<1>1. ASSUME UNCHANGED <<pc[d], startRV[d], conflicts[d], obj[d]>> PROVE Goal
  BY <1>a, <1>1 DEF ReadAfterConflicts, ConflictsAreForeignWrites
<1>2. ASSUME pc[d] \in Running, pc'[d] # "update",
             UNCHANGED <<startRV[d], conflicts[d]>>
      PROVE  Goal
  BY <1>a, <1>2 DEF ConflictsAreForeignWrites
<1> HIDE DEF Goal
<1>3. ASSUME NEW c \in Call, d # c, CallStep(c) \/ Start(c) PROVE Goal
  <2>1. UNCHANGED <<pc[d], startRV[d], conflicts[d], obj[d]>>
    BY <1>a, <1>3 DEF TypeOK, CallStep, Start, LockVMAgentUpdates, FirstGet, GetError,
         RetryGet, UpdateOK, UpdateConflict, UpdateError, WaitReturns, Return, Goto, Drop
  <2> QED BY <1>1, <2>1
<1>4. ASSUME Start(d) PROVE Goal
  BY <1>a, <1>4 DEF Goal, TypeOK, Start, Goto, Running, Returned, Failed
<1>5. ASSUME LockVMAgentUpdates(d) \/ FirstGet(d) PROVE Goal
  <2>1. conflicts[d] = 0 /\ conflicts' = conflicts /\ pc'[d] # "update"
    BY <1>a, <1>5 DEF TypeInv, Counted, TypeOK, LockVMAgentUpdates, FirstGet,
                      Return, Goto
  <2>2. CASE FirstGet(d)
    <3>1. startRV'[d] = rv
      BY <1>a, <2>2 DEF TypeOK, FirstGet
    <3> QED BY <1>a, <2>1, <3>1 DEF Goal
  <2>3. CASE LockVMAgentUpdates(d)
    <3>1. startRV[d] = 0
      BY <2>3 DEF LockVMAgentUpdates, Goto, TypeInv, Counted
    <3> QED BY <1>a, <2>1, <2>3, <3>1 DEF Goal, LockVMAgentUpdates
  <2> QED BY <1>5, <2>2, <2>3
<1>6. ASSUME GetError(d) \/ WaitReturns(d) PROVE Goal
  BY <1>a, <1>2, <1>6 DEF TypeOK, GetError, WaitReturns, Return, Goto, Running
<1>7. ASSUME RetryGet(d) PROVE Goal
  <2>1. pc[d] \in Running /\ UNCHANGED <<rv, startRV, conflicts>>
    BY <1>7 DEF RetryGet, Goto, Running, agent
  <2>2. pc'[d] = "update" => obj'[d].rv = rv
    BY <1>a, <1>7 DEF TypeOK, RetryGet, Goto
  <2> QED BY <1>a, <2>1, <2>2 DEF Goal, ConflictsAreForeignWrites
<1>8. ASSUME UpdateOK(d) \/ UpdateError(d) PROVE Goal
  BY <1>a, <1>2, <1>8 DEF TypeOK, UpdateOK, UpdateError, Return, Goto, Running
<1>9. ASSUME UpdateConflict(d) PROVE Goal
  <2>1. pc[d] = "update" /\ obj[d].rv # rv
    BY <1>9 DEF UpdateConflict, Return, Goto
  <2>2. startRV[d] + conflicts[d] <= obj[d].rv /\ obj[d].rv <= rv
    BY <2>1 DEF ReadAfterConflicts, FreshOrStale
  <2>3. pc'[d] # "update" /\ conflicts'[d] = conflicts[d] + 1 /\ startRV' = startRV
    BY <1>a, <1>9 DEF TypeOK, UpdateConflict, Return, Goto
  <2> QED BY <1>a, <2>1, <2>2, <2>3 DEF Goal
<1>10. ASSUME NEW c \in Call, CancelContext(c) PROVE Goal
  BY <1>1, <1>10 DEF CancelContext
<1>11. ASSUME Operator PROVE Goal
  BY <1>1, <1>11 DEF Operator, OperatorStart, OperatorFinish, OperatorFail,
                     OperatorResync, WriteStatus
<1>12. ASSUME UNCHANGED vars PROVE Goal
  BY <1>1, <1>12 DEF vars
<1>13. Goal
  BY <1>3, <1>4, <1>5, <1>6, <1>7, <1>8, <1>9, <1>10, <1>11, <1>12 DEF Next, CallStep
<1> QED BY <1>13 DEF Goal

(* RetryOnConflict gives up only on contention: every conflict a call has  *)
(* met is a write somebody made after the call first read the VMAgent.     *)
THEOREM Contention == Spec => []ConflictsAreForeignWrites
<1>1. Init => ReadAfterConflicts /\ ConflictsAreForeignWrites
  BY DEF Init, ReadAfterConflicts, ConflictsAreForeignWrites, Running, Returned, Failed
<1>2. Spec => []TypeInv
  BY TypeInit, TypeStep, PTL DEF Spec
<1>3. ListInv => FreshOrStale
  BY DEF ListInv
<1> QED BY <1>1, <1>2, <1>3, ListInvariant, ConflictStep, PTL DEF Spec

-----------------------------------------------------------------------------
(* Refinement: the calls implement atomic insertions into a set.           *)

(* The set behind the list.                                                *)
LEMMA SetOfList ==
  ASSUME NEW S, NEW s \in Seq(S), NEW u \in S
  PROVE  /\ ToSet(Append(s, u)) = ToSet(s) \cup {u}
         /\ Contains(s, u) => u \in ToSet(s)
         /\ ToSet(s) \subseteq S
<1>1. Contains(s, u) => u \in ToSet(s)
  BY DEF Contains, ToSet
<1>2. ToSet(s) \subseteq S
  BY DEF ToSet
<1>3. ToSet(Append(s, u)) \subseteq ToSet(s) \cup {u}
  BY DEF ToSet
<1>4. ToSet(s) \subseteq ToSet(Append(s, u))
  <2> SUFFICES ASSUME NEW i \in DOMAIN s PROVE s[i] \in ToSet(Append(s, u))
    BY DEF ToSet
  <2>1. i \in DOMAIN Append(s, u) /\ Append(s, u)[i] = s[i]
    OBVIOUS
  <2> QED BY <2>1 DEF ToSet
<1>5. u \in ToSet(Append(s, u))
  <2>1. Len(s) + 1 \in DOMAIN Append(s, u) /\ Append(s, u)[Len(s) + 1] = u
    OBVIOUS
  <2> QED BY <2>1 DEF ToSet
<1> QED BY <1>1, <1>2, <1>3, <1>4, <1>5

(* How one call's move shows in the verdicts.                              *)
LEMMA VerdictMove ==
  ASSUME TypeOK, NEW c \in Call, NEW to, pc' = [pc EXCEPT ![c] = to],
         pc[c] \notin Returned
  PROVE  /\ Verdict(c) = "none"
         /\ to \notin Returned =>
              [d \in Call |-> Verdict(d)]' = [d \in Call |-> Verdict(d)]
         /\ to = "ok" =>
              [d \in Call |-> Verdict(d)]' =
                [[d \in Call |-> Verdict(d)] EXCEPT ![c] = "ok"]
         /\ to \in Failed =>
              [d \in Call |-> Verdict(d)]' =
                [[d \in Call |-> Verdict(d)] EXCEPT ![c] = "failed"]
<1>1. pc'[c] = to /\ \A d \in Call \ {c} : pc'[d] = pc[d]
  BY DEF TypeOK
<1>2. \A d \in Call \ {c} : Verdict(d)' = Verdict(d)
  BY <1>1 DEF Verdict
<1>3. Verdict(c) = "none"
  BY DEF Verdict
<1>4. to \notin Returned => Verdict(c)' = "none"
  BY <1>1 DEF Verdict
<1>5. to = "ok" => Verdict(c)' = "ok"
  BY <1>1 DEF Verdict, Returned
<1>6. to \in Failed => Verdict(c)' = "failed"
  BY <1>1 DEF Verdict, Returned, Failed
<1> QED BY <1>2, <1>3, <1>4, <1>5, <1>6

(* Every step of the code is an insertion, a verdict or a stutter of the   *)
(* abstract specification.                                                 *)
LEMMA RefinementStep ==
  TypeOK /\ ListInv /\ [Next]_vars => [Promise!Next]_(Promise!avars)
<1> SUFFICES ASSUME TypeOK, ListInv, [Next]_vars
             PROVE  Promise!Next \/ UNCHANGED Promise!avars
  OBVIOUS
<1> DEFINE urls == ToSet(remoteWrite)
           verdict == [d \in Call |-> Verdict(d)]
           Abs == \/ \E c \in Call : Promise!Insert(c) \/ Promise!Succeed(c) \/ Promise!Fail(c)
                  \/ urls' = urls /\ verdict' = verdict
<1> USE CallAssumption
<1>a. remoteWrite \in Seq(Url)
  BY DEF TypeOK
<1>b. ASSUME NEW c \in Call, NEW from, from \notin Returned, NEW to, to \notin Returned,
             Goto(c, from, to), remoteWrite' = remoteWrite
      PROVE  urls' = urls /\ verdict' = verdict
  BY <1>b, VerdictMove DEF Goto
<1>c. ASSUME NEW c \in Call, NEW from, from \notin Returned, NEW to, to \in Failed,
             Goto(c, from, to), remoteWrite' = remoteWrite
      PROVE  Promise!Fail(c)
  BY <1>c, VerdictMove DEF Goto, Promise!Fail
<1>d. ASSUME NEW c \in Call, NEW from, from \notin Returned, Goto(c, from, "ok"),
             remoteWrite' = remoteWrite, Contains(remoteWrite, UrlOf[c])
      PROVE  Promise!Succeed(c)
  BY <1>a, <1>d, VerdictMove, SetOfList DEF Goto, Promise!Succeed
<1>e. ASSUME UNCHANGED <<remoteWrite, pc>> PROVE urls' = urls /\ verdict' = verdict
  BY <1>e DEF Verdict
<1>f. \A x \in {"idle", "lock", "get", "retryGet", "update", "wait"} : x \notin Returned
  BY DEF Returned, Failed
<1>g. \A x \in {"apiError", "noEntries", "conflicts", "waitFailed"} : x \in Failed
  BY DEF Failed
<1> HIDE DEF urls, verdict
<1>1. ASSUME NEW c \in Call, Start(c) \/ LockVMAgentUpdates(c) \/ RetryGet(c) PROVE Abs
  <2>1. remoteWrite' = remoteWrite
    BY <1>1 DEF Start, LockVMAgentUpdates, RetryGet, agent
  <2> QED BY <1>1, <1>b, <1>f, <2>1 DEF Start, LockVMAgentUpdates, RetryGet
<1>2. ASSUME NEW c \in Call, FirstGet(c) PROVE Abs
  BY <1>2, <1>b, <1>c, <1>d, <1>f, <1>g DEF FirstGet, Return, agent
<1>3. ASSUME NEW c \in Call, GetError(c) PROVE Abs
  BY <1>3, <1>c, <1>f, <1>g DEF GetError, Return, agent
<1>4. ASSUME NEW c \in Call, pc[c] = "update", Write(c)
      PROVE  urls' = urls \cup {UrlOf[c]}
  <2>1. remoteWrite' = Append(remoteWrite, UrlOf[c])
    BY <1>4 DEF Write, ListInv, FreshOrStale
  <2>2. ToSet(Append(remoteWrite, UrlOf[c])) = ToSet(remoteWrite) \cup {UrlOf[c]}
    BY <1>a, SetOfList
  <2> QED BY <2>1, <2>2 DEF urls
<1>5. ASSUME NEW c \in Call, UpdateOK(c) PROVE Abs
  <2>1. urls' = urls \cup {UrlOf[c]}
    BY <1>4, <1>5 DEF UpdateOK, Goto
  <2>2. verdict[c] = "none" /\ verdict' = verdict
    BY <1>5, <1>f, VerdictMove DEF UpdateOK, Goto, verdict
  <2> QED BY <2>1, <2>2 DEF Promise!Insert, urls, verdict
<1>6. ASSUME NEW c \in Call, UpdateConflict(c) PROVE Abs
  BY <1>6, <1>b, <1>c, <1>f, <1>g DEF UpdateConflict, Return, agent
<1>7. ASSUME NEW c \in Call, UpdateError(c) PROVE Abs
  <2>1. urls' \in {urls, urls \cup {UrlOf[c]}}
    BY <1>4, <1>7 DEF UpdateError, Return, Goto, urls
  <2>2. verdict[c] = "none" /\ verdict' = [verdict EXCEPT ![c] = "failed"]
    BY <1>7, <1>f, <1>g, VerdictMove DEF UpdateError, Return, Goto, verdict
  <2> QED BY <2>1, <2>2 DEF Promise!Fail, urls, verdict
<1>8. ASSUME NEW c \in Call, WaitReturns(c) PROVE Abs
  <2>1. pc[c] = "wait" /\ remoteWrite' = remoteWrite
    BY <1>8 DEF WaitReturns, Return, Goto, agent
  <2>2. Contains(remoteWrite, UrlOf[c])
    BY <2>1 DEF ListInv, Stored
  <2> QED BY <1>8, <1>c, <1>d, <1>f, <1>g, <2>1, <2>2 DEF WaitReturns, Return
<1>9. ASSUME NEW c \in Call, CancelContext(c) PROVE Abs
  BY <1>9, <1>e DEF CancelContext, agent
<1>10. ASSUME Operator PROVE Abs
  BY <1>10, <1>e DEF Operator, OperatorStart, OperatorFinish, OperatorFail,
                     OperatorResync, WriteStatus
<1>11. ASSUME UNCHANGED vars PROVE Abs
  BY <1>11, <1>e DEF vars
<1>12. Abs
  BY <1>1, <1>2, <1>3, <1>5, <1>6, <1>7, <1>8, <1>9, <1>10, <1>11 DEF Next, CallStep
<1> QED BY <1>12 DEF Promise!Next, Promise!avars, urls, verdict

(* EnsureVMAgentRemoteWriteURL keeps its promise: the read-modify-write    *)
(* protocol of all processes together is one atomic insertion per call.    *)
THEOREM Refinement == Spec => Implements
<1>1. Init => Promise!Init
  <2>1. ASSUME Init PROVE ToSet(remoteWrite) \in SUBSET Url
    BY <2>1, ListAssumption DEF Init, ToSet
  <2>2. ASSUME Init PROVE [c \in Call |-> Verdict(c)] = [c \in Call |-> "none"]
    BY <2>2 DEF Init, Verdict, Returned, Failed
  <2> QED BY <2>1, <2>2 DEF Promise!Init
<1> QED BY <1>1, RefinementStep, ListInvariant, PTL DEF Spec, Implements, Promise!Spec
=============================================================================
