----------------------- MODULE MCVMAgentRemoteWrite -----------------------
(* An instance of VMAgentRemoteWrite: three calls in two processes, two of *)
(* them for one URL in different processes.                                *)
EXTENDS VMAgentRemoteWrite

CONSTANTS c1, c2, c3, p1, p2, u0, u1, u2

MCCall     == {c1, c2, c3}
MCProc     == {p1, p2}
MCProcOf   == (c1 :> p1) @@ (c2 :> p1) @@ (c3 :> p2)
MCUrl      == {u0, u1, u2}
MCUrlOf    == (c1 :> u1) @@ (c2 :> u2) @@ (c3 :> u1)
MCInitUrls == <<u0>>
=============================================================================
