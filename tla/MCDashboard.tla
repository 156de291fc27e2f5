---------------------------- MODULE MCDashboard ----------------------------
(* The dashboard with two client rows and every page of the module. *)
EXTENDS Dashboard

MCPages == KnownPages

\* The client rows are interchangeable; the run checks no liveness property.
Symmetry == Permutations(Clients)
=============================================================================
