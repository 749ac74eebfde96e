---------------------------- MODULE MCSessions ----------------------------
(* Request threads are interchangeable.                                    *)
EXTENDS Sessions, TLC

Symmetry == Permutations(Handlers)
=============================================================================
