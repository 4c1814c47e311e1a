---------------------------- MODULE RateBuckets ----------------------------
(***************************************************************************)
(* How often a frame is received: canrush-core counts the frames of a key  *)
(* in buckets of 500 ms (LatestFrame::ingest_rate_bucket, server.rs) and   *)
(* the desktop application shows the rate of the last full buckets         *)
(* (format_bucket_rate_hz, apps/desktop/src-tauri/src/main.rs).  A time is *)
(* the index of its bucket.                                                *)
(***************************************************************************)
EXTENDS Naturals, SequencesExt, FiniteSets

RateWindow == 2 \* FRAME_RATE_WINDOW_BUCKETS and GUI_RATE_WINDOW_BUCKETS

\* rate_buckets with one more frame of bucket i.
Counted(buckets, i) ==
  IF buckets # <<>> /\ Last(buckets).index = i
  THEN [buckets EXCEPT ![Len(buckets)].count = @ + 1]
  ELSE Append(buckets, [index |-> i, count |-> 1])

\* Mutated form of Kept: the oldest bucket of the window goes as well.
KeptShort(bucket, i) == bucket.index + RateWindow > i

Kept(bucket, i) == bucket.index + RateWindow >= i

\* Buckets leave at the front only.
IngestRateBucket(buckets, i) ==
  LET counted == Counted(buckets, i)
      first   == SelectInSeq(counted, LAMBDA bucket : Kept(bucket, i))
  IN  SubSeq(counted, first, Len(counted))

RateBucketsOf(times) == FoldLeft(IngestRateBucket, <<>>, times)

\* The last full buckets before now.
InWindow(i, now) == i < now /\ i + RateWindow >= now

FormatBucketRate(buckets, now) ==
  FoldLeft(LAMBDA sum, bucket : IF InWindow(bucket.index, now) THEN sum + bucket.count ELSE sum,
           0, buckets)

\* What the rate is meant to be.
FramesInWindow(times, now) == Cardinality({i \in DOMAIN times : InWindow(times[i], now)})

RateOf(times, now) == FormatBucketRate(RateBucketsOf(times), now)

\* Too few are counted only if one is dated after now.
RightAt(times, now) ==
  /\ RateOf(times, now) <= FramesInWindow(times, now)
  /\ (\A i \in DOMAIN times : times[i] <= now) => RateOf(times, now) = FramesInWindow(times, now)
=============================================================================
