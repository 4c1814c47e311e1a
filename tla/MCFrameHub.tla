----------------------------- MODULE MCFrameHub -----------------------------
(* Instances of FrameHub for TLC. *)
EXTENDS FrameHubRefinement, TLC

CONSTANTS k1, k2

\* A reader of everything with a one-frame channel, and one of a single key.
MCOptions == {[capacity |-> 1, accepts |-> {k1, k2}],
              [capacity |-> 2, accepts |-> {k1}]}

Symmetry == Permutations(Sessions)
=============================================================================
