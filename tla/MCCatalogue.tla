----------------------------- MODULE MCCatalogue -----------------------------
(* Ids of one kind are interchangeable. *)
EXTENDS Catalogue, TLC

Symmetry ==
  Permutations(Provider) \cup Permutations(UpstreamKey) \cup Permutations(Candidate)
    \cup Permutations(Protocol) \cup Permutations(Name) \cup Permutations(Request)
=============================================================================
