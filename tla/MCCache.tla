----------------------------- MODULE MCCache -----------------------------
(* Small instances of Cache for TLC. *)
EXTENDS Cache, TLC

\* No action and no property tells one thread, URI, address or response from
\* another.
Symmetry ==
  Permutations(Threads) \cup Permutations(Keys)
  \cup Permutations(Nodes) \cup Permutations(Responses)
===========================================================================
