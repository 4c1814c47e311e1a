---------------------------- MODULE MCGuiStream ----------------------------
(* Instances of GuiStream for TLC, and the frame rates that it shows. *)
EXTENDS GuiStream, RateBuckets

\* The numbers of frames whose rate is right whenever they were received.
RightCounts ==
  {n \in 0 .. MaxFrames : \A times \in [1 .. n -> 0 .. 4], now \in 0 .. 6 : RightAt(times, now)}

\* The rate that is shown counts exactly the frames received in the window,
\* whenever those in the latest-frame table were received, in whatever order,
\* and although older buckets are thrown away as frames arrive; it counts too
\* few only if the host clock was set back and a frame is dated after now, and
\* never too many.
RateExact == latest \in RightCounts
=============================================================================
