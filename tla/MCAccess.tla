------------------------------ MODULE MCAccess ------------------------------
(* The accounts the runs start with; request threads and domains are       *)
(* interchangeable.                                                        *)
EXTENDS Access, TLC

Teams == {1 :> "super-admin" @@ 2 :> "super-admin",
          1 :> "super-admin" @@ 2 :> "admin" @@ 3 :> "manager"}
Symmetry == Permutations(Handlers) \union Permutations(Domains)
=============================================================================
