----------------------- MODULE MCStatefulController -----------------------
(* Small instances of StatefulController for TLC. *)
EXTENDS StatefulController

\* Without option -i the iteration count is -1 and never counts down.
Unlimited == -1
=============================================================================
