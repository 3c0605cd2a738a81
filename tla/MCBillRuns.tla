------------------------------ MODULE MCBillRuns ------------------------------
(* Instances of BillRuns for TLC: ids, properties and units are model values.  *)
EXTENDS BillRuns, TLC

\* Nothing orders or names them.
MCSymmetry ==
  Permutations(Runs) \cup Permutations(Users)
  \cup Permutations(Clients) \cup Permutations(Reviewers)
=============================================================================
