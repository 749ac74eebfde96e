--------------------------- MODULE MCDomainLifecycle ---------------------------
(* Small instances of DomainLifecycle for TLC.                             *)
EXTENDS DomainLifecycle, TLC

\* Keys, names and threads are interchangeable in every definition.
Symmetry == Permutations(Ids) \cup Permutations(Names) \cup Permutations(Handlers)
===============================================================================
