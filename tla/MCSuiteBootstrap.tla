-------------------------- MODULE MCSuiteBootstrap --------------------------
(* Instances of SuiteBootstrap: every suite, with and without a license.   *)
EXTENDS SuiteBootstrap

CONSTANTS p1, p2

MCProc     == {p1, p2}
MCPreset   == BOOLEAN
MCVMChaos  == {VMChaos}
MCNoPreset == {FALSE}
=============================================================================
