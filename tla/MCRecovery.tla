------------------------------ MODULE MCRecovery -------------------------------
(* An instance of Recovery for TLC. *)
EXTENDS Recovery

\* One user with a plain name, and one whose name may contain the separator.
MCNames == [u \in Users |-> IF u = 1 THEN {"plain"} ELSE {"plain", "pi|ped"}]
=============================================================================
