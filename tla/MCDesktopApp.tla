---------------------------- MODULE MCDesktopApp ----------------------------
(* The desktop window, the tray and the service for TLC: the application starts *)
(* with or without a complete connection, and the calls of the window are alike. *)
EXTENDS DesktopApp, TLC

MCInitialConfigs == {[network |-> v, general |-> ""] : v \in Values}
WindowSymmetry == Permutations(WindowSlots)
=============================================================================
