--------------------------- MODULE MCMaintenance ---------------------------
(* A small instance of Maintenance for TLC.                                 *)
EXTENDS Maintenance, TLC

CONSTANTS p1, p2, i1

\* The second backup may be so much later that the first one is too old.
TwoDaysApart == <<1, 3>>

\* The configuration is edited between the starts of the two commands.
OneThenTwo == p1 :> 1 @@ p2 :> 2
=============================================================================
