------------------------------ MODULE MCScene ------------------------------
(***************************************************************************)
(* Two tracks, two zones: the row of z1 is edited, created and deleted,    *)
(* z2 is open to everybody and may overflow.                               *)
(***************************************************************************)
EXTENDS Scene

CONSTANTS z1, z2

Row(r, h) == [restricted |-> r, capacity |-> 1, hours |-> h]
MCRows == [z \in {z1, z2} |->
  IF z = z2 THEN {Row(FALSE, "unset")}
  ELSE {NoRow, Row(TRUE, "never"), Row(TRUE, "always")}]
=============================================================================
