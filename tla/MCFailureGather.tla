-------------------------- MODULE MCFailureGather --------------------------
(* Instances of FailureGather, with the durations of pkg/consts/main.go    *)
(* and pkg/gather/vm.go in units of 10 s: every teardown, and the one that *)
(* deletes NFS volumes.                                                    *)
EXTENDS FailureGather

MCAllKinds == AllKinds
MCOnlyNFS == {NFSLoad}
=============================================================================
