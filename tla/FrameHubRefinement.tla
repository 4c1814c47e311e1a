------------------------ MODULE FrameHubRefinement -------------------------
(***************************************************************************)
(* FrameHub, seen as a LossyBroadcast.                                     *)
(***************************************************************************)
EXTENDS FrameHub

SequenceNumbers(events) == [i \in 1 .. Len(events) |-> events[i].sequence]
SequenceSet(events) == {events[i].sequence : i \in 1 .. Len(events)}

Broadcast == INSTANCE LossyBroadcast WITH
  Readers <- Sessions,
  Items   <- Keys,
  log     <- frames,
  known   <- {s \in Sessions : phase[s] # "new"},
  members <- subscribers,
  reading <- {s \in Sessions : phase[s] \in {"open", "left"}},
  wants   <- [s \in Sessions |-> options[s].accepts],
  waiting <- [s \in Sessions |-> SequenceSet(queue[s])],
  got     <- [s \in Sessions |-> SequenceNumbers(received[s])],
  lost    <- dropped

\* The hub implements the lossy broadcast: bounded channels, entries found by
\* their ids and disconnected receivers lose nothing unannounced and reorder
\* nothing, whoever joins, leaves and overflows.
ImplementsBroadcast == Broadcast!BroadcastSpec
=============================================================================
