-------------------------- MODULE MCStreamSession --------------------------
(* Instances of StreamSession for TLC. *)
EXTENDS StreamSession

CONSTANTS k1, early, silent, capture

\* Channels of one and of two frames, that accept every frame.
MCOptions == {[capacity |-> c, accepts |-> {k1}] : c \in {1, 2}}

\* A channel of one frame: the smallest that still overflows and recovers.
MCOneSlot == {[capacity |-> 1, accepts |-> {k1}]}

\* The same, and a subscription whose filter matches no frame of the bus.
MCOneSlotOrSilent == MCOneSlot \cup {[capacity |-> 1, accepts |-> {}]}

-----------------------------------------------------------------------------
\* A scenario inside StreamSession, to keep the search for a counterexample
\* short: "early" and then "silent", whose filter matches nothing, subscribe,
\* "early" leaves, and only then "capture" connects and runs to its limit.
Scenario ==
  /\ client[silent] # "done"
  /\ client[silent] # "new" => phase[early] # "new"
  /\ client[early] = "done" => phase[silent] = "open"
  /\ client[capture] # "new" => handler[early] = "done"
  /\ client[capture] = "done" => Succeeded(capture)
  /\ ~due[capture]
  /\ \A s \in Sessions \ {silent} : phase[s] # "new" => Accepts(s, k1)
  /\ phase[silent] # "new" => ~Accepts(silent, k1)
=============================================================================
