------------------------------- MODULE Places -------------------------------
(***************************************************************************)
(* Where a track can be, as TrackWriter records it and Scene judges it.    *)
(***************************************************************************)

CONSTANTS
  Zone,      \* zones
  Outside    \* the place of a foot point in none of them

Place == Zone \cup {Outside}
=============================================================================
