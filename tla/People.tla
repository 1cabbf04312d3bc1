------------------------------- MODULE People -------------------------------
(***************************************************************************)
(* The persons of src/vms/db/models.py, as Enrolment and IdentityEngine    *)
(* refer to them.                                                          *)
(***************************************************************************)

CONSTANTS
  Person,   \* person_ids
  Nobody    \* None
=============================================================================
