---------------------------- MODULE MCCoordinator ----------------------------
(* A small instance of Coordinator for TLC.                                 *)
EXTENDS Coordinator, TLC

CONSTANTS t1, t2, early, late, off

TwoTopics == <<t1, t2>>

\* Days of three ticks.  The window of "early" opens before its midnight, the
\* day of "late" starts one tick before the others, "off" is disabled.
OffsetOf == (early :> 0) @@ (late :> 1) @@ (off :> 0)
DeadlineOf == (early :> 0) @@ (late :> 2) @@ (off :> 1)
PreparationOf == (early :> 1) @@ (late :> 1) @@ (off :> 1)
EnabledOf == (early :> TRUE) @@ (late :> TRUE) @@ (off :> FALSE)

Start1 == (t1 :> [version |-> 1, content |-> early]) @@ (t2 :> [version |-> 1, content |-> late])
=============================================================================
