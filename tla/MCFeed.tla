-------------------------------- MODULE MCFeed --------------------------------
(* Instances of Feed for TLC. *)
EXTENDS Feed, TLC
FeedSymmetry == Permutations(Users) \cup Permutations(Refs) \cup Permutations(Topics)
                  \cup Permutations(Polls) \cup Permutations(Dives)
\* No reference is longer than what a card keeps.
Whole == [r \in Refs |-> r]
=============================================================================
