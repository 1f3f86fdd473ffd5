------------------------ MODULE IngestAndQuery_proofs ------------------------
(***************************************************************************)
(* Proofs about IngestAndQuery, for any numbers of samples, attempts and   *)
(* updates.  Two things are carried along: a loop's counter stays below    *)
(* the attempts of the loop it is in, and, as long as no answer to a write *)
(* was lost, every sample whose write returned has arrived exactly once    *)
(* and no other has arrived at all.                                        *)
(***************************************************************************)
EXTENDS IngestAndQuery, FiniteSetTheorems, TLAPS

(* Outside of the three loops nothing is counted; inside, the counter is   *)
(* below the attempts of that loop.                                        *)
TriesBelowAttempts ==
  /\ tries \in Nat
  /\ pc \notin {"apply", "write", "scan"} => tries = 0
  /\ pc = "apply" => tries < ApplyAttempts
  /\ pc = "write" => tries < WriteAttempts
  /\ pc = "scan"  => tries < ScanRetries

(* The samples are written one after the other, all of them before the     *)
(* test goes on, and a write has arrived at most once per attempt.         *)
Written == {"settle", "scan", "compare", "passed", "wrong"}

WritesInOrder ==
  /\ pc = "write" => sent < Samples /\ received[sent + 1] <= tries
  /\ pc \in Written => sent = Samples
  /\ \A i \in 1 .. Samples : i > sent + 1 => received[i] = 0
  /\ pc \in Legs \ (Written \cup {"write"}) => sent = 0 /\ \A i \in 1 .. Samples : received[i] = 0

(* Without a lost answer there is one arrival for each write that returned *)
(* and none for the others.                                                *)
OneArrivalEach ==
  lost = {} => \A i \in 1 .. Samples : received[i] = IF i <= sent THEN 1 ELSE 0

(* A sum that was taken when all was visible is right if no answer was     *)
(* lost, and the verdict is that of the comparison.                        *)
SumIsRight ==
  /\ pc \in {"compare", "passed", "wrong"} /\ lost = {} /\ ~early => value = Samples
  /\ pc = "wrong" => value # Samples

Shape ==
  /\ pc \in Legs \cup Verdicts
  /\ inner \in 0 .. QueryAttempts - 1
  /\ ctxDone \in BOOLEAN /\ preset \in BOOLEAN /\ address \in BOOLEAN
  /\ events \in Seq([type : {"ADDED", "MODIFIED"}, ip : BOOLEAN])
  /\ updates \in 0 .. MaxEvents

DataShape ==
  /\ sent \in 0 .. Samples /\ lost \subseteq 1 .. Samples
  /\ received \in [1 .. Samples -> 0 .. WriteAttempts]
  /\ visible \in [1 .. Samples -> 0 .. WriteAttempts]
  /\ value \in 0 .. Samples * WriteAttempts /\ early \in BOOLEAN

PathInv ==
  /\ Shape /\ TriesBelowAttempts /\ DataShape
  /\ WritesInOrder /\ OneArrivalEach /\ SumIsRight /\ NoMissedAddress
-----------------------------------------------------------------------------
(* The bounds and the sum.                                                 *)

(* Every loop of the code makes at least one attempt.                      *)
LEMMA Bounds ==
  /\ Samples \in Nat /\ Samples > 0
  /\ ApplyAttempts \in Nat /\ ApplyAttempts > 0
  /\ WriteAttempts \in Nat /\ WriteAttempts > 0
  /\ QueryAttempts \in Nat /\ QueryAttempts > 0
  /\ ScanRetries \in Nat /\ ScanRetries > 0
  /\ MaxEvents \in Nat
BY BoundAssumption

(* The sum is bounded by the number of writes there can be.                *)
LEMMA VisibleBound == Visible \in 0 .. Samples * WriteAttempts
<1>1. IsFiniteSet(1 .. Samples) /\ Cardinality(1 .. Samples) = Samples
  BY Bounds, FS_Interval
<1>2. IsFiniteSet(1 .. WriteAttempts) /\ Cardinality(1 .. WriteAttempts) = WriteAttempts
  BY Bounds, FS_Interval
<1> DEFINE Pairs == (1 .. Samples) \X (1 .. WriteAttempts)
<1>3. IsFiniteSet(Pairs) /\ Cardinality(Pairs) = Samples * WriteAttempts
  <2>1. IsFiniteSet(Pairs)
    BY <1>1, <1>2, FS_Product
  <2>2. Cardinality(Pairs) = Cardinality(1 .. Samples) * Cardinality(1 .. WriteAttempts)
    BY <1>1, <1>2, FS_Product
  <2> QED BY <1>1, <1>2, <2>1, <2>2
<1>4. Counted \in SUBSET Pairs
  BY DEF Counted
<1>5. IsFiniteSet(Counted) /\ Cardinality(Counted) <= Cardinality(Pairs)
  BY <1>3, <1>4, FS_Subset
<1>6. Cardinality(Counted) \in Nat
  BY <1>5, FS_CardinalityType
<1>7. Samples * WriteAttempts \in Nat
  BY Bounds
<1> QED BY <1>3, <1>5, <1>6, <1>7 DEF Visible

(* One count for every sample sums up to the number of samples.            *)
LEMMA OneEachSumsUp ==
  ASSUME \A i \in 1 .. Samples : visible[i] = 1
  PROVE  Visible = Samples
<1>1. Counted = (1 .. Samples) \X {1}
  <2>1. 1 \in 1 .. WriteAttempts
    BY Bounds
  <2>2. \A n \in 1 .. WriteAttempts : n <= 1 <=> n = 1
    BY Bounds
  <2>3. ASSUME NEW c \in (1 .. Samples) \X (1 .. WriteAttempts)
        PROVE  c[2] <= visible[c[1]] <=> c[2] = 1
    BY <2>2
  <2> QED BY <2>1, <2>3 DEF Counted
<1>2. IsFiniteSet(1 .. Samples) /\ Cardinality(1 .. Samples) = Samples
  BY Bounds, FS_Interval
<1>3. IsFiniteSet({1}) /\ Cardinality({1}) = 1
  BY FS_Singleton, Zenon
<1>4. Cardinality((1 .. Samples) \X {1}) = Cardinality(1 .. Samples) * Cardinality({1})
  BY <1>2, <1>3, FS_Product
<1> QED BY <1>1, <1>2, <1>3, <1>4, Bounds DEF Visible

-----------------------------------------------------------------------------
(* Control: the legs, the counters of the loops and the watch.             *)

Control == Shape /\ TriesBelowAttempts

(* A watch begins with one event.                                          *)
LEMMA OneEvent ==
  ASSUME NEW S, NEW e \in S
  PROVE  <<e>> \in Seq(S)
OBVIOUS

(* It gets more.                                                           *)
LEMMA MoreEvents ==
  ASSUME NEW S, NEW s \in Seq(S), NEW e \in S
  PROVE  Append(s, e) \in Seq(S)
OBVIOUS

(* Every step stays on the path and within the attempts of its loop.       *)
LEMMA ControlStep == Control /\ [Next]_vars => Control'
<1> SUFFICES ASSUME Control, [Next]_vars PROVE Control'
  OBVIOUS
<1> USE Bounds DEF Control, Shape, TriesBelowAttempts, Legs, Verdicts, GoTo, Fail, Retry,
                   net
<1>1. CASE Discover
  BY <1>1 DEF Discover
<1>2. CASE GetService
  BY <1>2 DEF GetService
<1>3. CASE OpenWatch
  <2>1. [type |-> "ADDED", ip |-> address] \in [type : {"ADDED", "MODIFIED"}, ip : BOOLEAN]
    OBVIOUS
  <2>2. events' \in Seq([type : {"ADDED", "MODIFIED"}, ip : BOOLEAN])
    BY <1>3, <2>1, OneEvent DEF OpenWatch
  <2> QED BY <1>3, <2>2 DEF OpenWatch
<1>4. CASE WatchEvent
  BY <1>4 DEF WatchEvent
<1>5. CASE WatchEnds
  BY <1>5 DEF WatchEnds
<1>6. CASE KubectlApply
  BY <1>6 DEF KubectlApply
<1>7. CASE WaitForHTTPRoutes
  BY <1>7 DEF WaitForHTTPRoutes
<1>8. CASE WriteAcknowledged
  BY <1>8 DEF WriteAcknowledged
<1>9. CASE WriteFails
  BY <1>9 DEF WriteFails
<1>10. CASE Settle
  BY <1>10 DEF Settle
<1>11. CASE ScanReturns
  BY <1>11 DEF ScanReturns
<1>12. CASE QueryRetried
  BY <1>12 DEF QueryRetried
<1>13. CASE ScanFails
  BY <1>13 DEF ScanFails
<1>14. CASE Compare
  BY <1>14 DEF Compare
<1>15. CASE ServiceChanges
  <2>1. address' \in BOOLEAN
    BY <1>15 DEF ServiceChanges
  <2>2. [type |-> "MODIFIED", ip |-> address'] \in [type : {"ADDED", "MODIFIED"}, ip : BOOLEAN]
    BY <2>1
  <2>3. events' \in Seq([type : {"ADDED", "MODIFIED"}, ip : BOOLEAN])
    BY <1>15, <2>2, MoreEvents DEF ServiceChanges
  <2> QED BY <1>15, <2>1, <2>3 DEF ServiceChanges
<1>16. CASE SpecTimeout
  BY <1>16 DEF SpecTimeout
<1>17. ASSUME NEW i \in 1 .. Samples, Flush(i) PROVE Control'
  BY <1>17 DEF Flush
<1>18. CASE UNCHANGED vars
  BY <1>18 DEF vars
<1> QED
  BY <1>1, <1>2, <1>3, <1>4, <1>5, <1>6, <1>7, <1>8, <1>9, <1>10, <1>11, <1>12,
     <1>13, <1>14, <1>15, <1>16, <1>17, <1>18 DEF Next, Test
-----------------------------------------------------------------------------
(* What has arrived, and what the verdict says of it.                      *)

DataInv == DataShape /\ WritesInOrder /\ OneArrivalEach /\ SumIsRight

(* A write that arrives counts one more for the sample being written.      *)
LEMMA ArrivesOnce ==
  ASSUME Control, DataInv, pc = "write", Arrives(sent + 1)
  PROVE  /\ sent + 1 \in 1 .. Samples
         /\ received' \in [1 .. Samples -> 0 .. WriteAttempts]
         /\ received'[sent + 1] = received[sent + 1] + 1
         /\ received[sent + 1] \in Nat
         /\ \A i \in 1 .. Samples : i # sent + 1 => received'[i] = received[i]
<1> USE Bounds
<1>1. sent + 1 \in 1 .. Samples
  BY DEF DataInv, DataShape, WritesInOrder
<1>2. received \in [1 .. Samples -> 0 .. WriteAttempts]
  BY DEF DataInv, DataShape
<1>3. received[sent + 1] <= tries /\ tries < WriteAttempts /\ tries \in Nat
  BY DEF DataInv, WritesInOrder, Control, TriesBelowAttempts
<1>4. received[sent + 1] + 1 \in 0 .. WriteAttempts
  BY <1>1, <1>2, <1>3
<1> QED BY <1>1, <1>2, <1>4 DEF Arrives

(* An acknowledged write brings its sample, and the next one is begun with *)
(* nothing of it there.                                                    *)
LEMMA AcknowledgedKeeps ==
  Control /\ DataInv /\ WriteAcknowledged => DataInv'
<1> SUFFICES ASSUME Control, DataInv, WriteAcknowledged PROVE DataInv'
  OBVIOUS
<1> USE Bounds
<1>0. /\ pc = "write" /\ Arrives(sent + 1) /\ sent' = sent + 1 /\ tries' = 0
      /\ pc' = IF sent' = Samples THEN "settle" ELSE "write"
      /\ lost' = lost /\ visible' = visible /\ value' = value /\ early' = early
  BY DEF WriteAcknowledged, GoTo, scan
<1>1. /\ sent \in 0 .. Samples /\ sent + 1 \in 1 .. Samples
  BY <1>0, ArrivesOnce DEF DataInv, DataShape
<1>a. received' \in [1 .. Samples -> 0 .. WriteAttempts]
  BY <1>0, ArrivesOnce
<1>b. sent' \in 0 .. Samples
  BY <1>0, <1>1
<1>2. DataShape'
  BY <1>0, <1>a, <1>b DEF DataInv, DataShape
<1>3. \A i \in 1 .. Samples : i > sent + 1 => received'[i] = 0
  BY <1>0, <1>1, ArrivesOnce DEF DataInv, WritesInOrder
<1>4. WritesInOrder'
  BY <1>0, <1>1, <1>3 DEF WritesInOrder, Written, Legs
<1>5. OneArrivalEach'
  <2> SUFFICES ASSUME lost = {}, NEW i \in 1 .. Samples
               PROVE  received'[i] = IF i <= sent + 1 THEN 1 ELSE 0
    BY <1>0 DEF OneArrivalEach
  <2>1. received[i] = IF i <= sent THEN 1 ELSE 0
    BY DEF DataInv, OneArrivalEach
  <2>2. received[sent + 1] = 0
    BY <1>1 DEF DataInv, OneArrivalEach
  <2> QED BY <1>0, <1>1, <2>1, <2>2, ArrivesOnce
<1>6. SumIsRight'
  BY <1>0 DEF SumIsRight
<1> QED BY <1>2, <1>4, <1>5, <1>6 DEF DataInv

(* A failed write may have arrived; its answer is then lost.               *)
LEMMA FailedWriteKeeps ==
  Control /\ DataInv /\ WriteFails => DataInv'
<1> SUFFICES ASSUME Control, DataInv, WriteFails PROVE DataInv'
  OBVIOUS
<1> USE Bounds
<1>0. /\ pc = "write" /\ sent' = sent
      /\ pc' = "failed" \/ (pc' = "write" /\ tries' = tries + 1)
      /\ visible' = visible /\ value' = value /\ early' = early
      /\ \/ Arrives(sent + 1) /\ lost' = lost \cup {sent + 1}
         \/ received' = received /\ lost' = lost
  BY DEF WriteFails, Retry, Fail, GoTo, scan
<1>1. sent \in 0 .. Samples /\ tries \in Nat /\ sent < Samples /\ received[sent + 1] <= tries
  BY <1>0 DEF DataInv, DataShape, WritesInOrder, Control, TriesBelowAttempts
<1>2. SumIsRight'
  BY <1>0 DEF SumIsRight
<1>3. CASE Arrives(sent + 1) /\ lost' = lost \cup {sent + 1}
  <2>1. DataShape'
    BY <1>0, <1>3, ArrivesOnce DEF DataInv, DataShape
  <2>2. \A i \in 1 .. Samples : i > sent + 1 => received'[i] = 0
    BY <1>0, <1>3, <1>1, ArrivesOnce DEF DataInv, WritesInOrder
  <2>3. received'[sent + 1] <= tries + 1
    BY <1>0, <1>1, <1>3, ArrivesOnce
  <2>4. WritesInOrder'
    BY <1>0, <1>1, <2>2, <2>3 DEF WritesInOrder, Written, Legs
  <2>5. OneArrivalEach'
    BY <1>3 DEF OneArrivalEach
  <2> QED BY <1>2, <2>1, <2>4, <2>5 DEF DataInv
<1>4. CASE received' = received /\ lost' = lost
  <2>1. DataShape' /\ OneArrivalEach'
    BY <1>0, <1>4 DEF DataInv, DataShape, OneArrivalEach
  <2>2. received[sent + 1] \in Nat
    BY <1>1 DEF DataInv, DataShape
  <2>3. WritesInOrder'
    BY <1>0, <1>1, <1>4, <2>2 DEF DataInv, WritesInOrder, Written, Legs
  <2> QED BY <1>2, <2>1, <2>3 DEF DataInv
<1> QED BY <1>0, <1>3, <1>4

(* The scan takes the sum that is visible, and knows if that is all.       *)
LEMMA ScanKeeps ==
  Control /\ DataInv /\ ScanReturns => DataInv'
<1> SUFFICES ASSUME Control, DataInv, ScanReturns PROVE DataInv'
  OBVIOUS
<1>0. /\ pc = "scan" /\ pc' = "compare" /\ value' = Visible
      /\ early' = (visible # received)
      /\ sent' = sent /\ received' = received /\ visible' = visible /\ lost' = lost
  BY DEF ScanReturns, data
<1>1. DataShape'
  <2>1. early' \in BOOLEAN
    BY <1>0, Zenon
  <2> QED BY <1>0, <2>1, VisibleBound DEF DataInv, DataShape
<1>2. WritesInOrder' /\ OneArrivalEach' /\ sent = Samples
  BY <1>0 DEF DataInv, WritesInOrder, OneArrivalEach, Written, Legs
<1>3. ASSUME lost = {}, visible = received PROVE Visible = Samples
  <2>1. \A i \in 1 .. Samples : visible[i] = 1
    BY <1>2, <1>3, Bounds DEF DataInv, OneArrivalEach
  <2> QED BY <2>1, OneEachSumsUp
<1>4. SumIsRight'
  <2>1. ~early' => visible = received
    BY <1>0, Zenon
  <2> QED BY <1>0, <1>3, <2>1 DEF SumIsRight
<1> QED BY <1>1, <1>2, <1>4 DEF DataInv

(* No other step touches what has arrived.                                 *)
LEMMA DataStep == Control /\ DataInv /\ [Next]_vars => DataInv'
<1> SUFFICES ASSUME Control, DataInv, [Next]_vars PROVE DataInv'
  OBVIOUS
<1> USE DEF GoTo, Fail, Retry, data, scan, Written, Legs
<1>1. ASSUME UNCHANGED <<data, scan>>,
             \/ pc' = pc /\ tries' = tries
             \/ /\ pc \in Legs \ (Written \cup {"write"})
                /\ pc' \in (Legs \ Written) \cup {"failed"} /\ tries' \in Nat
             \/ pc \in Written /\ pc' \in {"scan", "failed"}
      PROVE  DataInv'
  <2>1. DataShape'
    BY <1>1 DEF DataInv, DataShape
  <2>2. OneArrivalEach'
    BY <1>1 DEF DataInv, OneArrivalEach
  <2>3. SumIsRight'
    BY <1>1 DEF DataInv, SumIsRight
  <2>4. WritesInOrder'
    <3>1. CASE pc' = pc /\ tries' = tries
      BY <1>1, <3>1 DEF DataInv, WritesInOrder
    <3>2. CASE /\ pc \in Legs \ (Written \cup {"write"})
               /\ pc' \in (Legs \ Written) \cup {"failed"} /\ tries' \in Nat
      <4>1. sent = 0 /\ sent + 1 \in 1 .. Samples /\ \A i \in 1 .. Samples : received[i] = 0
        BY <3>2, Bounds DEF DataInv, WritesInOrder
      <4> QED BY <1>1, <3>2, <4>1, Bounds DEF WritesInOrder
    <3>3. CASE pc \in Written /\ pc' \in {"scan", "failed"}
      BY <1>1, <3>3 DEF DataInv, WritesInOrder
    <3> QED BY <1>1, <3>1, <3>2, <3>3
  <2> QED BY <2>1, <2>2, <2>3, <2>4 DEF DataInv
<1>2. CASE Discover \/ GetService \/ OpenWatch \/ WatchEvent \/ WatchEnds
  BY <1>1, <1>2 DEF Discover, GetService, OpenWatch, WatchEvent, WatchEnds
<1>3. CASE KubectlApply \/ WaitForHTTPRoutes
  <2>1. tries' \in Nat
    BY ControlStep DEF Control, TriesBelowAttempts
  <2> QED BY <1>1, <1>3, <2>1 DEF KubectlApply, WaitForHTTPRoutes
<1>4. CASE Settle \/ QueryRetried \/ ScanFails
  BY <1>1, <1>4 DEF Settle, QueryRetried, ScanFails
<1>5. CASE Compare
  <2>1. /\ pc = "compare" /\ pc' = IF value = Samples THEN "passed" ELSE "wrong"
        /\ UNCHANGED <<data, scan>>
    BY <1>5 DEF Compare
  <2>2. DataShape' /\ OneArrivalEach' /\ WritesInOrder'
    BY <2>1 DEF DataInv, DataShape, OneArrivalEach, WritesInOrder
  <2>3. SumIsRight'
    BY <2>1 DEF DataInv, SumIsRight
  <2> QED BY <2>2, <2>3 DEF DataInv
<1>6. CASE ServiceChanges \/ SpecTimeout \/ UNCHANGED vars
  BY <1>1, <1>6 DEF ServiceChanges, SpecTimeout, vars
<1>7. ASSUME NEW i \in 1 .. Samples, Flush(i) PROVE DataInv'
  <2>1. /\ visible' = [visible EXCEPT ![i] = received[i]]
        /\ UNCHANGED <<pc, tries, sent, received, lost, value, early>>
    BY <1>7 DEF Flush
  <2>2. DataShape'
    BY <2>1 DEF DataInv, DataShape
  <2>3. WritesInOrder' /\ OneArrivalEach' /\ SumIsRight'
    BY <2>1 DEF DataInv, WritesInOrder, OneArrivalEach, SumIsRight
  <2> QED BY <2>2, <2>3 DEF DataInv
<1> QED
  BY <1>2, <1>3, <1>4, <1>5, <1>6, <1>7, AcknowledgedKeeps, FailedWriteKeeps, ScanKeeps
     DEF Next, Test
-----------------------------------------------------------------------------
(* The address.                                                            *)

(* A watch begins with the Service as it is, every later change is an      *)
(* event, and an event that shows the address ends the watch.              *)
LEMMA AddressStep == Control /\ NoMissedAddress /\ [Next]_vars => NoMissedAddress'
<1> SUFFICES ASSUME Control, NoMissedAddress, [Next]_vars, pc' = "watch", address'
             PROVE  \E n \in DOMAIN events' : events'[n].ip
  BY DEF NoMissedAddress
<1> DEFINE Event == [type : {"ADDED", "MODIFIED"}, ip : BOOLEAN]
<1>0. events \in Seq(Event)
  BY DEF Control, Shape
<1>1. CASE OpenWatch
  <2>1. events' = <<[type |-> "ADDED", ip |-> address]>> /\ address' = address
    BY <1>1 DEF OpenWatch, Fail, GoTo
  <2>2. 1 \in DOMAIN events' /\ events'[1].ip = address
    BY <2>1
  <2> QED BY <2>1, <2>2
<1>2. CASE WatchEvent
  <2>1. /\ pc = "watch" /\ address /\ events # <<>> /\ events' = Tail(events)
        /\ ~Head(events).ip
    BY <1>2 DEF WatchEvent, GoTo
  <2>2. PICK n \in DOMAIN events : events[n].ip
    BY <2>1 DEF NoMissedAddress
  <2>3. n # 1
    <3>1. Head(events) = events[1]
      BY <1>0, <2>1
    <3> QED BY <2>1, <2>2, <3>1
  <2>4. n - 1 \in DOMAIN Tail(events) /\ Tail(events)[n - 1] = events[n]
    BY <1>0, <2>1, <2>3
  <2> QED BY <2>1, <2>2, <2>4
<1>3. CASE ServiceChanges
  <2>1. /\ pc = "watch"
        /\ events' = Append(events, [type |-> "MODIFIED", ip |-> address'])
    BY <1>3 DEF ServiceChanges
  <2>2. /\ Len(events) + 1 \in DOMAIN events'
        /\ events'[Len(events) + 1] = [type |-> "MODIFIED", ip |-> address']
    BY <1>0, <2>1
  <2> QED BY <2>2
<1>4. CASE UNCHANGED <<pc, address, events>>
  BY <1>4 DEF NoMissedAddress
<1>5. pc' # "watch" \/ OpenWatch \/ WatchEvent \/ ServiceChanges \/ UNCHANGED <<pc, address, events>>
  BY DEF Next, Test, Discover, GetService, WatchEnds, KubectlApply, WaitForHTTPRoutes,
         WriteAcknowledged, WriteFails, Settle, Flush, ScanReturns, QueryRetried, ScanFails,
         Compare, SpecTimeout, GoTo, Fail, Retry, net, vars
<1> QED BY <1>1, <1>2, <1>3, <1>4, <1>5

-----------------------------------------------------------------------------
(* The theorems.                                                           *)

(* The invariant holds before the test begins.                             *)
LEMMA PathInit == Init => Control /\ DataInv /\ NoMissedAddress
<1> SUFFICES ASSUME Init PROVE Control /\ DataInv /\ NoMissedAddress
  OBVIOUS
<1>1. Control
  <2>1. <<>> \in Seq([type : {"ADDED", "MODIFIED"}, ip : BOOLEAN])
    OBVIOUS
  <2>2. 0 \in 0 .. QueryAttempts - 1 /\ 0 \in 0 .. MaxEvents
    BY Bounds
  <2>3. Shape
    BY <2>1, <2>2, Zenon DEF Init, Shape, Legs
  <2>4. TriesBelowAttempts
    BY Bounds DEF Init, TriesBelowAttempts
  <2> QED BY <2>3, <2>4 DEF Control
<1>2. DataShape
  <2>1. 0 \in 0 .. WriteAttempts /\ 0 \in 0 .. Samples /\ 0 \in 0 .. Samples * WriteAttempts
    BY Bounds
  <2> QED BY <2>1 DEF Init, DataShape
<1>3. WritesInOrder /\ OneArrivalEach /\ SumIsRight
  BY Bounds DEF Init, WritesInOrder, OneArrivalEach, SumIsRight, Written, Legs
<1>4. NoMissedAddress
  BY DEF Init, NoMissedAddress
<1> QED BY <1>1, <1>2, <1>3, <1>4 DEF DataInv

(* PathInv is an invariant of the specification.                           *)
THEOREM PathInvariant == Spec => []PathInv
<1> DEFINE I == Control /\ DataInv /\ NoMissedAddress
<1>1. Init => I
  BY PathInit
<1>2. I /\ [Next]_vars => I'
  BY ControlStep, DataStep, AddressStep
<1>3. I => PathInv
  BY DEF PathInv, Control, DataInv
<1> QED BY <1>1, <1>2, <1>3, PTL DEF Spec

(* TypeOK, for any numbers of samples and attempts; that the sum stays in  *)
(* its range rests on the cardinality of what is counted.                  *)
THEOREM TypeCorrect == Spec => []TypeOK
<1>1. PathInv => TypeOK
  <2> SUFFICES ASSUME PathInv PROVE TypeOK
    OBVIOUS
  <2>1. tries \in 0 .. Larger(Larger(ApplyAttempts, WriteAttempts), ScanRetries) - 1
    BY Bounds DEF PathInv, TriesBelowAttempts, Larger
  <2> QED BY <2>1 DEF PathInv, Shape, DataShape, TypeOK
<1> QED BY <1>1, PathInvariant, PTL

(* NoMissedAddress: no address set between the Get of the Service and the  *)
(* watch, or during the watch, is missed by DiscoverIngressHost.           *)
THEOREM AddressNotMissed == Spec => []NoMissedAddress
<1>1. PathInv => NoMissedAddress
  BY DEF PathInv
<1> QED BY <1>1, PathInvariant, PTL

(* VerdictIsAboutTheWrites: for any numbers of samples and attempts, a     *)
(* wrong sum has one of its two causes, and without a lost answer a test   *)
(* that passed has every sample exactly once.                              *)
THEOREM VerdictAboutTheWrites == Spec => []VerdictIsAboutTheWrites
<1>1. PathInv => VerdictIsAboutTheWrites
  <2> SUFFICES ASSUME PathInv PROVE VerdictIsAboutTheWrites
    OBVIOUS
  <2>1. pc = "wrong" => lost # {} \/ early
    BY DEF PathInv, SumIsRight
  <2>2. pc = "passed" /\ lost = {} => \A i \in 1 .. Samples : received[i] = 1
    BY Bounds DEF PathInv, WritesInOrder, Written, OneArrivalEach
  <2> QED BY <2>1, <2>2 DEF VerdictIsAboutTheWrites
<1> QED BY <1>1, PathInvariant, PTL
=============================================================================
