------------------------ MODULE MCScenarioLifecycle ------------------------
(* Instance for TLC: every kind of scenario. *)
EXTENDS ScenarioLifecycle

MCKinds == AllKinds
=============================================================================
