------------------------- MODULE MCResourceInstall -------------------------
(* Instances of ResourceInstall.                                           *)
EXTENDS ResourceInstall, TLC

CONSTANTS i, u, v

\* A namespace with an operational cluster "a", which two goroutines update
\* while "b" is installed next to it, or both with the chart.
MCNames    == <<"a", "b">>
MCExisting == {"a"}
MCCaller   == {i, u, v}
MCChoices  == (i :> {InstallVMCluster, InstallVMDistributedWithHelm})
                @@ (u :> {UpdateVMClusterSpec}) @@ (v :> {UpdateVMClusterSpec})
MCTarget   == (i :> "b") @@ (u :> "a") @@ (v :> "a")

\* The updates differ in nothing but their names.
MCSymmetry == Permutations({u, v})

\* The call behind the finding.
MCOneCaller    == {i}
MCUpdateChoice == (i :> {UpdateVMClusterSpec})
MCUpdateTarget == (i :> "a")
=============================================================================
