--------------------------- MODULE MCLiveContext ---------------------------
(***************************************************************************)
(* A small instance of LiveContext for TLC.                                *)
(***************************************************************************)
EXTENDS LiveContext

\* A long and a short position.
MCLot == {[quantity |-> 1, cost |-> 2], [quantity |-> -1, cost |-> 2]}

=============================================================================
