---------------------------- MODULE MCAuditChain ----------------------------
(***************************************************************************)
(* The constants are plain model values and bounds: the configurations say *)
(* it all.  The sessions are interchangeable, but symmetry would not be    *)
(* sound for the liveness property.                                        *)
(***************************************************************************)
EXTENDS AuditChain
=============================================================================
