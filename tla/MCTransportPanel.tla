-------------------------- MODULE MCTransportPanel --------------------------
(* The access and certificates panel for TLC. *)
EXTENDS TransportPanel

\* Off, and on with a base domain as it is typed.
MCDrafts == {[enabled |-> FALSE, base |-> ""], [enabled |-> TRUE, base |-> "A."]}
=============================================================================
