------------------------ MODULE MCDomainMaintenance ------------------------
(* Small instances of DomainMaintenance for TLC.                           *)
EXTENDS DomainMaintenance

============================================================================
