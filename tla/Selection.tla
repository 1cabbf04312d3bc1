----------------------------- MODULE Selection -----------------------------
(***************************************************************************)
(* A loop that goes on to the next entry unless the entry passes.          *)
(***************************************************************************)
EXTENDS SequencesExt

\* The entries of a sequence at the indices I, in order.
At(seq, I) ==
  MapThenFoldSet(LAMBDA x, kept : Append(kept, x), <<>>,
                 LAMBDA i : seq[i], LAMBDA S : Max(S), I)
=============================================================================
