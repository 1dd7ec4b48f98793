-------------------------- MODULE MCResourceMonitor --------------------------
(***************************************************************************)
(* An instance of ResourceMonitor: a node with one source, and rule lists  *)
(* that are empty or name a partition the node does not have.              *)
(***************************************************************************)
EXTENDS ResourceMonitor

MCConfigs == {<<>>, <<"disk", "cpu">>}

=============================================================================
