--------------------------- MODULE RemoteWriteSet ---------------------------
(***************************************************************************)
(* What EnsureVMAgentRemoteWriteURL promises its callers, with the         *)
(* processes, the mutex, the resourceVersions and the operator taken away: *)
(* the set of remoteWrite URLs grows one requested URL at a time, and a    *)
(* call succeeds only once its URL is in the set.                          *)
(***************************************************************************)
CONSTANTS Call, Url, UrlOf

VARIABLES urls, verdict

avars == <<urls, verdict>>

Init ==
  /\ urls \in SUBSET Url
  /\ verdict = [c \in Call |-> "none"]

(* The append of an update takes effect, as long as its call is undecided. *)
Insert(c) ==
  /\ verdict[c] = "none"
  /\ urls' = urls \cup {UrlOf[c]}
  /\ UNCHANGED verdict

Succeed(c) ==
  /\ verdict[c] = "none"
  /\ UrlOf[c] \in urls
  /\ verdict' = [verdict EXCEPT ![c] = "ok"]
  /\ UNCHANGED urls

(* A failed test: its URL may have been stored all the same.               *)
Fail(c) ==
  /\ verdict[c] = "none"
  /\ urls' \in {urls, urls \cup {UrlOf[c]}}
  /\ verdict' = [verdict EXCEPT ![c] = "failed"]

Next == \E c \in Call : Insert(c) \/ Succeed(c) \/ Fail(c)

Spec == Init /\ [][Next]_avars
=============================================================================
