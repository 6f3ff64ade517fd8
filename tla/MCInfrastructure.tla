-------------------------- MODULE MCInfrastructure --------------------------
(* Two experiments whose panels share a name.                              *)
EXTENDS Infrastructure

MCPanels == << {"judge-1"}, {"judge-1", "judge-2"} >>
MCNobody == -1

=============================================================================
