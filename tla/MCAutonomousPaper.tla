------------------------- MODULE MCAutonomousPaper -------------------------
(* Instances of AutonomousPaper for TLC. *)
EXTENDS AutonomousPaper

\* r reduces the position in one instrument, i opens one in another.
CONSTANTS r, i
Apart == [o \in Orders |-> o]

\* Bound: of the two orders, one is asked to be canceled.
OneCancellation == Len(asked) =< 1
=============================================================================
