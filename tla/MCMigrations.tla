---------------------------- MODULE MCMigrations ---------------------------
(***************************************************************************)
(* Instances of Migrations for TLC.                                        *)
(***************************************************************************)
EXTENDS Migrations

CONSTANTS p1, p2, event, api

\* Bound: in turn it does not matter which process it is; three commands overlap.
Bounded == IF overlap THEN starts <= 3 ELSE pc[p2] = "off"

BoundedSpec == Init /\ [][Next /\ Bounded']_vars /\ \A p \in Procs : WF_vars(Step(p))

=============================================================================
