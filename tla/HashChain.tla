----------------------------- MODULE HashChain -----------------------------
(***************************************************************************)
(* What the audit log promises (2026-05-01-vms-db-edge-cases.md, section   *)
(* 14): one chain.  A new row links to the row that was the head, becomes  *)
(* the head, and nothing is ever relinked.  Row 0 stands for the genesis   *)
(* hash.                                                                   *)
(***************************************************************************)
EXTENDS Naturals

CONSTANT Id          \* audit_id

VARIABLES
  head,              \* the last row of the chain
  links              \* {<<row it links to, row>>}

Init == head = 0 /\ links = {}

Append(id) ==
  /\ id > head
  /\ links' = links \cup {<<head, id>>}
  /\ head' = id

Next == \E id \in Id : Append(id)

Spec == Init /\ [][Next]_<<head, links>>
=============================================================================
