------------------------- MODULE MCSetupCalibration -------------------------
(***************************************************************************)
(* Small instances of SetupCalibration for TLC.                            *)
(***************************************************************************)
EXTENDS SetupCalibration

\* Levels for an entry at 2 are target 3 and stop 1: a bar that touches
\* neither, one that touches the target, and one that touches
\* both.
MCBar == {[low |-> 2, high |-> 2], [low |-> 2, high |-> 3], [low |-> 1, high |-> 3]}

=============================================================================
