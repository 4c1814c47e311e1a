-------------------------- MODULE GuiStreamProofs --------------------------
(***************************************************************************)
(* What the live plot is told of the frames it misses, what a paused view  *)
(* shows, the types of the desktop application's stream, and the frame     *)
(* rates that it shows, for any limit of the history and any bounds.       *)
(*                                                                         *)
(* PlotInv is inductive.  It says what PlotAccounts rests on: the history  *)
(* holds the last sequence numbers without a gap, it is empty only right   *)
(* after a clear, and nothing from before a clear is in it.  GuiInv adds   *)
(* the types and ViewInv, what PausedViewHolds rests on.                   *)
(*                                                                         *)
(* A rate is a fold over buckets that are themselves a fold over frames.   *)
(* RateSteps and BucketSteps give what each item does to them; by these a  *)
(* frame adds one to the rate (CountedRate), and the buckets that leave    *)
(* take along only what is too old to count (IngestRate).                  *)
(***************************************************************************)
EXTENDS MCGuiStream, FoldLemmas

\* The history holds the last numbers given, in order.
Contiguous(history, next) ==
  /\ Len(history) < next
  /\ \A i \in 1 .. Len(history) : history[i] = (next - 1 - Len(history)) + i

PlotTypes ==
  /\ nextSequence \in Nat \ {0}
  /\ entries \in Seq(Nat)
  /\ asked \in BOOLEAN
  /\ since \in Nat /\ clearedTo \in Nat
  /\ missed \in Nat /\ toldMissed \in Nat /\ wiped \in Nat

PlotInv ==
  /\ PlotTypes
  /\ Contiguous(entries, nextSequence)
  /\ since < nextSequence
  /\ clearedTo + Len(entries) < nextSequence
  /\ entries = <<>> => clearedTo + 1 = nextSequence
  /\ PlotAccounts

-----------------------------------------------------------------------------
LEMMA ContiguousWhen ==
  ASSUME NEW s, NEW next, Len(s) < next,
         \A i \in 1 .. Len(s) : s[i] = (next - 1 - Len(s)) + i
  PROVE  Contiguous(s, next)
  BY DEF Contiguous

\* push adds the next number and evicts, at most, the oldest one.
LEMMA PushedOK ==
  ASSUME Limit \in Nat \ {0}, PlotTypes, Contiguous(entries, nextSequence)
  PROVE  /\ Pushed \in Seq(Nat) /\ Pushed # <<>>
         /\ Len(Pushed) \in {Len(entries), Len(entries) + 1}
         /\ Len(entries) <= Limit => Len(Pushed) <= Limit
         /\ Contiguous(Pushed, nextSequence + 1)
  <1> DEFINE pushed == Append(entries, nextSequence)
             n      == Len(entries)
  <1>1. /\ n \in Nat
        /\ pushed \in Seq(Nat) /\ pushed # <<>>
        /\ Len(pushed) = n + 1
        /\ \A i \in 1 .. n : pushed[i] = entries[i]
        /\ pushed[n + 1] = nextSequence
    BY AppendProperties, LenProperties DEF PlotTypes
  <1>2. \A i \in 1 .. n + 1 : pushed[i] = (nextSequence - 1 - n) + i
    <2> SUFFICES ASSUME NEW i \in 1 .. n + 1 PROVE pushed[i] = (nextSequence - 1 - n) + i
      OBVIOUS
    <2>1. CASE i \in 1 .. n
      BY <1>1, <2>1 DEF Contiguous
    <2>2. CASE i = n + 1
      BY <1>1, <2>2 DEF PlotTypes
    <2> QED
      BY <1>1, <2>1, <2>2
  <1>3. /\ Tail(pushed) \in Seq(Nat)
        /\ Len(Tail(pushed)) = n
        /\ \A i \in 1 .. n : Tail(pushed)[i] = pushed[i + 1]
    BY <1>1, HeadTailProperties
  <1>4. n < nextSequence /\ nextSequence \in Nat
    BY DEF Contiguous, PlotTypes
  <1>5. Pushed = IF n + 1 > Limit THEN Tail(pushed) ELSE pushed
    BY <1>1 DEF Pushed
  <1>6. CASE n + 1 > Limit
    <2>1. n # 0
      BY <1>1, <1>6
    <2>2. Len(Tail(pushed)) # 0
      BY <1>3, <2>1
    <2>3. Tail(pushed) # <<>>
      BY <2>2
    <2>4. \A i \in 1 .. n : i + 1 \in 1 .. n + 1
      BY <1>1
    <2>5. \A i \in 1 .. n : pushed[i + 1] = (nextSequence - 1 - n) + (i + 1)
      BY <1>2, <2>4
    <2> HIDE DEF pushed
    <2>6. \A i \in 1 .. n : Tail(pushed)[i] = (nextSequence + 1 - 1 - n) + i
      BY <1>1, <1>3, <1>4, <2>5
    <2>7. Contiguous(Tail(pushed), nextSequence + 1)
      <3> DEFINE rest  == Tail(pushed)
                 after == nextSequence + 1
      <3>1. /\ n < after /\ after \in Nat
            /\ \A i \in 1 .. n : rest[i] = (after - 1 - n) + i
        BY <1>1, <1>4, <2>6
      <3>2. Len(rest) = n
        BY <1>3
      <3> HIDE DEF n, rest, after
      <3>3. Contiguous(rest, after)
        BY <3>1, <3>2, ContiguousWhen
      <3> QED
        BY <3>3 DEF rest, after
    <2> QED
      BY <1>1, <1>3, <1>5, <1>6, <2>3, <2>7
  <1>7. CASE ~(n + 1 > Limit)
    <2> HIDE DEF pushed
    <2>1. \A i \in 1 .. n + 1 : pushed[i] = (nextSequence + 1 - 1 - (n + 1)) + i
      BY <1>1, <1>2, <1>4
    <2>2. Contiguous(pushed, nextSequence + 1)
      <3>1. n + 1 < nextSequence + 1 /\ n + 1 \in Nat /\ nextSequence + 1 \in Nat
        BY <1>1, <1>4
      <3> HIDE DEF n
      <3>2. \A i \in 1 .. Len(pushed) :
              pushed[i] = (nextSequence + 1 - 1 - Len(pushed)) + i
        BY <1>1, <2>1
      <3> QED
        BY <1>1, <3>1, <3>2 DEF Contiguous
    <2> QED
      BY <1>1, <1>5, <1>7, <2>2
  <1> QED
    BY <1>6, <1>7

LEMMA HandleFrameKeepsPlotInv ==
  ASSUME PlotInv, HandleFrame
  PROVE  PlotInv'
  <1>1. /\ entries' = Pushed
        /\ nextSequence' = nextSequence + 1
        /\ asked' = asked /\ since' = since /\ clearedTo' = clearedTo
        /\ missed' = missed /\ toldMissed' = toldMissed /\ wiped' = wiped
    BY DEF HandleFrame, plotVars
  <1>2. Limit \in Nat \ {0}
    BY GuiAssumption
  <1>3. /\ Pushed \in Seq(Nat) /\ Pushed # <<>>
        /\ Len(Pushed) \in {Len(entries), Len(entries) + 1}
        /\ Contiguous(Pushed, nextSequence + 1)
    BY <1>2, PushedOK DEF PlotInv
  <1>4. PlotTypes'
    BY <1>1, <1>3 DEF PlotInv, PlotTypes
  <1>5. Contiguous(entries, nextSequence)'
    BY <1>1, <1>3 DEF Contiguous
  <1>6. clearedTo' + Len(entries') < nextSequence'
    <2>1. Len(entries) \in Nat /\ clearedTo + Len(entries) < nextSequence
      BY LenProperties DEF PlotInv, PlotTypes
    <2>2. Len(entries') \in {Len(entries), Len(entries) + 1}
      BY <1>1, <1>3
    <2> QED
      BY <1>1, <2>1, <2>2 DEF PlotInv, PlotTypes
  <1>7. since' < nextSequence'
    BY <1>1 DEF PlotInv, PlotTypes
  <1>8. PlotAccounts'
    BY <1>1 DEF PlotInv, PlotAccounts
  <1> QED
    BY <1>1, <1>3, <1>4, <1>5, <1>6, <1>7, <1>8 DEF PlotInv

LEMMA ClearLatestKeepsPlotInv ==
  ASSUME PlotInv, ClearLatest
  PROVE  PlotInv'
  <1>1. /\ entries' = <<>>
        /\ clearedTo' = nextSequence - 1
        /\ nextSequence' = nextSequence
        /\ asked' = asked /\ since' = since
        /\ missed' = missed /\ toldMissed' = toldMissed /\ wiped' = wiped
    BY DEF ClearLatest, plotVars
  <1>2. Len(<<>>) = 0 /\ <<>> \in Seq(Nat)
    BY EmptySeq
  <1>3. PlotTypes'
    BY <1>1, <1>2 DEF PlotInv, PlotTypes
  <1>4. Contiguous(entries, nextSequence)'
    BY <1>1, <1>2 DEF PlotInv, PlotTypes, Contiguous
  <1>5. PlotAccounts'
    BY <1>1 DEF PlotInv, PlotAccounts
  <1> QED
    BY <1>1, <1>2, <1>3, <1>4, <1>5 DEF PlotInv, PlotTypes

\* How many entries a reader gets that has asked before: all of them, or those
\* behind its cursor if that is among them.
LEMMA SinceCounted ==
  ASSUME PlotInv, asked
  PROVE  Cardinality(Since) = IF nextSequence - Len(entries) > since + 1 THEN Len(entries)
                              ELSE nextSequence - 1 - since
  <1> DEFINE n    == Len(entries)
             skip == nextSequence - 1 - n
  <1>1. /\ n \in Nat /\ nextSequence \in Nat /\ since \in Nat
        /\ n < nextSequence /\ since < nextSequence
        /\ \A i \in 1 .. n : entries[i] = skip + i
    BY LenProperties DEF PlotInv, PlotTypes, Contiguous
  <1>2. Since = {i \in 1 .. n : entries[i] > since}
    BY DEF Since
  <1> HIDE DEF n
  <1>3. CASE nextSequence - n > since + 1
    <2>1. \A i \in 1 .. n : entries[i] > since
      BY <1>1, <1>3
    <2>2. Since = 1 .. n
      BY <1>2, <2>1
    <2>3. Cardinality(1 .. n) = n
      BY <1>1, FS_Interval
    <2> QED
      BY <1>3, <2>2, <2>3 DEF n
  <1>4. CASE ~(nextSequence - n > since + 1)
    <2>1. \A i \in 1 .. n : entries[i] > since <=> i \in (since - skip) + 1 .. n
      BY <1>1, <1>4
    <2>2. (since - skip) + 1 .. n \subseteq 1 .. n
      BY <1>1, <1>4
    <2>3. Since = (since - skip) + 1 .. n
      BY <1>2, <2>1, <2>2
    <2>4. Cardinality((since - skip) + 1 .. n) = nextSequence - 1 - since
      <3>1. (since - skip) + 1 \in Int /\ n \in Int /\ (since - skip) + 1 <= n + 1
        BY <1>1
      <3>2. Cardinality((since - skip) + 1 .. n) =
              IF (since - skip) + 1 > n THEN 0 ELSE n - ((since - skip) + 1) + 1
        BY <3>1, FS_Interval
      <3> QED
        BY <1>1, <3>1, <3>2
    <2> QED
      BY <1>4, <2>3, <2>4 DEF n
  <1> QED
    BY <1>3, <1>4 DEF n

LEMMA ParsePlotKeepsPlotInv ==
  ASSUME PlotInv, ParsePlotLiveSince
  PROVE  PlotInv'
  <1>1. /\ asked' = TRUE
        /\ since' = nextSequence - 1
        /\ missed' = IF asked THEN missed + (nextSequence - 1 - since) - Cardinality(Since) ELSE missed
        /\ toldMissed' = toldMissed + DroppedFrames
        /\ wiped' = IF asked /\ clearedTo > since THEN wiped + (clearedTo - since) ELSE wiped
        /\ nextSequence' = nextSequence /\ entries' = entries /\ clearedTo' = clearedTo
    BY DEF ParsePlotLiveSince, latestVars
  <1>2. /\ nextSequence \in Nat \ {0} /\ since \in Nat /\ clearedTo \in Nat
        /\ missed \in Nat /\ toldMissed \in Nat /\ wiped \in Nat
        /\ entries \in Seq(Nat) /\ Len(entries) \in Nat
        /\ Len(entries) < nextSequence /\ since < nextSequence
        /\ clearedTo + Len(entries) < nextSequence
        /\ entries = <<>> => clearedTo + 1 = nextSequence
        /\ toldMissed <= missed /\ missed <= toldMissed + wiped
    BY LenProperties DEF PlotInv, PlotTypes, Contiguous, PlotAccounts
  <1>3. /\ missed' \in Nat /\ toldMissed' \in Nat /\ wiped' \in Nat
        /\ toldMissed' <= missed' /\ missed' <= toldMissed' + wiped'
    <2>1. CASE ~asked
      BY <1>1, <1>2, <2>1 DEF DroppedFrames
    <2>2. CASE asked /\ entries = <<>>
      <3>1. Len(entries) = 0 /\ OldestSequence = 0
        BY <2>2 DEF OldestSequence
      <3>2. DroppedFrames = 0
        BY <1>2, <3>1 DEF DroppedFrames
      <3>3. Cardinality(Since) \in {0, nextSequence - 1 - since}
        BY <1>2, <2>2, <3>1, SinceCounted
      <3> QED
        BY <1>1, <1>2, <2>2, <3>2, <3>3
    <2>3. CASE asked /\ entries # <<>>
      <3>1. Head(entries) = entries[1] /\ Len(entries) # 0
        BY <1>2, <2>3, HeadTailProperties, EmptySeq
      <3>2. 1 \in 1 .. Len(entries)
        BY <1>2, <3>1
      <3>3. OldestSequence = nextSequence - Len(entries)
        <4>1. entries[1] = (nextSequence - 1 - Len(entries)) + 1
          BY <3>2 DEF PlotInv, Contiguous
        <4> QED
          BY <1>2, <2>3, <3>1, <4>1 DEF OldestSequence
      <3>4. DroppedFrames = IF nextSequence - Len(entries) > since + 1
                            THEN nextSequence - Len(entries) - (since + 1) ELSE 0
        BY <2>3, <3>3 DEF DroppedFrames
      <3>5. Cardinality(Since) = IF nextSequence - Len(entries) > since + 1 THEN Len(entries)
                                 ELSE nextSequence - 1 - since
        BY <2>3, SinceCounted
      <3>6. DroppedFrames \in Nat
        BY <1>2, <3>4
      <3>7. missed' = missed + DroppedFrames
        <4>1. CASE nextSequence - Len(entries) > since + 1
          BY <1>1, <1>2, <2>3, <3>4, <3>5, <4>1
        <4>2. CASE ~(nextSequence - Len(entries) > since + 1)
          BY <1>1, <1>2, <2>3, <3>4, <3>5, <4>2
        <4> QED
          BY <4>1, <4>2
      <3>8. wiped' \in Nat /\ wiped <= wiped'
        BY <1>1, <1>2, <2>3
      <3> QED
        BY <1>1, <1>2, <3>6, <3>7, <3>8
    <2> QED
      BY <2>1, <2>2, <2>3 DEF PlotInv, PlotTypes
  <1>4. PlotTypes'
    BY <1>1, <1>2, <1>3 DEF PlotTypes
  <1>5. Contiguous(entries, nextSequence)'
    BY <1>1 DEF PlotInv, Contiguous
  <1> QED
    BY <1>1, <1>2, <1>3, <1>4, <1>5 DEF PlotInv, PlotAccounts

\* No other step touches the history or the reader of the plot.
LEMMA OthersKeepPlotInv ==
  ASSUME PlotInv, UNCHANGED <<plotVars, nextSequence, entries, clearedTo>>
  PROVE  PlotInv'
  BY DEF PlotInv, PlotTypes, Contiguous, PlotAccounts, plotVars

LEMMA PlotInvInit == GuiStreamInit => PlotInv
  <1> SUFFICES ASSUME GuiStreamInit PROVE PlotInv
    OBVIOUS
  <1>1. Len(<<>>) = 0 /\ <<>> \in Seq(Nat)
    BY EmptySeq
  <1>2. /\ nextSequence = 1 /\ entries = <<>> /\ asked = FALSE /\ since = 0
        /\ clearedTo = 0 /\ missed = 0 /\ toldMissed = 0 /\ wiped = 0
    BY DEF GuiStreamInit
  <1>3. PlotTypes
    <2>1. asked \in BOOLEAN
      BY <1>2
    <2>2. nextSequence \in Nat \ {0} /\ since \in Nat /\ clearedTo \in Nat
      BY <1>2
    <2>3. missed \in Nat /\ toldMissed \in Nat /\ wiped \in Nat
      BY <1>2
    <2>4. entries \in Seq(Nat)
      BY <1>1, <1>2
    <2> QED
      BY <2>1, <2>2, <2>3, <2>4 DEF PlotTypes
  <1>4. Contiguous(entries, nextSequence)
    BY <1>1, <1>2 DEF Contiguous
  <1>5. PlotAccounts
    BY <1>2 DEF PlotAccounts
  <1> QED
    BY <1>1, <1>2, <1>3, <1>4, <1>5 DEF PlotInv

LEMMA PlotInvStep ==
  ASSUME PlotInv, [GuiStreamNext]_streamGuiVars
  PROVE  PlotInv'
  <1> DEFINE Others == UNCHANGED <<plotVars, nextSequence, entries, clearedTo>>
  <1> USE DEF latestVars
  <1>1. CASE Publish \/ ReportDrops
    BY <1>1, OthersKeepPlotInv DEF Publish, ReportDrops
  <1>2. CASE StreamEnds
    BY <1>2, OthersKeepPlotInv DEF StreamEnds
  <1>3. CASE ServerComes
    BY <1>3, OthersKeepPlotInv DEF ServerComes
  <1>4. CASE RunStreamWorker
    <2>1. CASE Connect
      BY <2>1, OthersKeepPlotInv DEF Connect
    <2>2. CASE ReadFails
      BY <2>2, OthersKeepPlotInv DEF ReadFails
    <2>3. CASE HandleDiagnostic
      BY <2>3, OthersKeepPlotInv DEF HandleDiagnostic
    <2> QED
      BY <1>4, <2>1, <2>2, <2>3, HandleFrameKeepsPlotInv DEF RunStreamWorker
  <1>5. CASE AskSnapshot
    BY <1>5, OthersKeepPlotInv DEF AskSnapshot
  <1>6. ASSUME NEW e \in Effects, LatestSnapshot(e) PROVE PlotInv'
    BY <1>6, OthersKeepPlotInv DEF LatestSnapshot
  <1>7. ASSUME NEW e \in Effects, ApplySnapshot(e) PROVE PlotInv'
    BY <1>7, OthersKeepPlotInv DEF ApplySnapshot
  <1>8. CASE TogglePaused
    BY <1>8, OthersKeepPlotInv DEF TogglePaused
  <1>9. CASE Reconnected
    BY <1>9, OthersKeepPlotInv DEF Reconnected
  <1>10. CASE ClearView
    BY <1>10, OthersKeepPlotInv DEF ClearView
  <1>11. CASE ApplyClear
    BY <1>11, OthersKeepPlotInv DEF ApplyClear
  <1>12. CASE UNCHANGED streamGuiVars
    BY <1>12, OthersKeepPlotInv DEF streamGuiVars
  <1> QED
    BY <1>1, <1>2, <1>3, <1>4, <1>5, <1>6, <1>7, <1>8, <1>9, <1>10, <1>11, <1>12,
       ParsePlotKeepsPlotInv, ClearLatestKeepsPlotInv DEF GuiStreamNext

\* The live plot is never told of more missing frames than it misses, and all
\* that it misses it is told of or were cleared, for any limit of the history.
THEOREM PlotIsToldWhatItMisses == GuiStreamSpec => []PlotAccounts
  <1>1. PlotInv => PlotAccounts
    BY DEF PlotInv
  <1> QED
    BY PlotInvInit, PlotInvStep, <1>1, PTL DEF GuiStreamSpec

-----------------------------------------------------------------------------
\* The present effect has captured whether the view is paused, the effects to
\* come have no poll under way, and a poll that was asked for in a paused view
\* belongs to an effect that knows.
ViewInv ==
  /\ polls[effect].paused = paused
  /\ \A e \in Effects : e > effect => polls[e].stage = "none"
  /\ \A e \in Effects : polls[e].stage # "none" /\ ~polls[e].before => polls[e].paused

GuiInv == PlotInv /\ GuiStreamTypeOK /\ ViewInv

LEMMA GuiInvInit == GuiStreamInit => GuiInv
  <1> SUFFICES ASSUME GuiStreamInit PROVE GuiInv
    OBVIOUS
  <1>1. Len(<<>>) = 0 /\ <<>> \in Seq(Nat) /\ <<>> \in Seq(Messages)
    BY EmptySeq
  <1>2. 1 \in Effects
    BY GuiAssumption DEF Effects
  <1>3. /\ polls = [e \in Effects |-> NoPoll]
        /\ NoPoll \in [stage : {"none", "asked", "answered"}, paused : BOOLEAN,
                       before : BOOLEAN, snapshot : Snapshots]
        /\ NoPoll.stage = "none" /\ NoPoll.paused = FALSE
    BY DEF GuiStreamInit, NoPoll, Poll, Snapshots
  <1>4. GuiStreamTypeOK
    <2>1. /\ {published, lost, reported, connections, dropped, latest, since, clears, clearedTo} \subseteq Nat
          /\ {missed, toldMissed, wiped} \subseteq Nat
          /\ nextSequence \in Nat \ {0}
      BY DEF GuiStreamInit
    <2>2. wire \in Seq(Messages) /\ entries \in Seq(Nat) /\ Len(entries) <= Limit
      BY <1>1, GuiAssumption DEF GuiStreamInit
    <2>3. up \in BOOLEAN /\ asked \in BOOLEAN /\ paused \in BOOLEAN
      BY DEF GuiStreamInit
    <2>4. link \in Links /\ clearing \in {"idle", "asked", "cleared"} /\ shown \in Snapshots
      BY DEF GuiStreamInit, Links, Snapshots
    <2>5. polls \in [Effects -> [stage : {"none", "asked", "answered"}, paused : BOOLEAN,
                                 before : BOOLEAN, snapshot : Snapshots]]
      BY <1>3
    <2> QED
      BY <1>2, <2>1, <2>2, <2>3, <2>4, <2>5 DEF GuiStreamTypeOK, GuiStreamInit
  <1>5. ViewInv
    BY <1>2, <1>3 DEF GuiStreamInit, ViewInv
  <1> QED
    BY <1>4, <1>5, PlotInvInit DEF GuiInv

\* The server, the worker and the plot leave the view alone.
LEMMA StreamKeepsGuiInv ==
  ASSUME GuiInv, PlotInv', Publish \/ ReportDrops \/ StreamEnds \/ ServerComes \/ RunStreamWorker \/ ParsePlotLiveSince
  PROVE  GuiInv'
  <1>1. ViewInv'
    BY DEF GuiInv, ViewInv, Publish, ReportDrops, StreamEnds, ServerComes, RunStreamWorker, Connect, ReadFails,
           HandleFrame, HandleDiagnostic, ParsePlotLiveSince, viewVars
  <1>2. /\ UNCHANGED <<paused, effect, polls, clearing, shown>>
        /\ paused \in BOOLEAN /\ effect \in Effects /\ clearing \in {"idle", "asked", "cleared"}
        /\ shown \in Snapshots
        /\ polls \in [Effects -> [stage : {"none", "asked", "answered"}, paused : BOOLEAN,
                                  before : BOOLEAN, snapshot : Snapshots]]
    BY DEF GuiInv, GuiStreamTypeOK, Publish, ReportDrops, StreamEnds, ServerComes, RunStreamWorker, Connect,
           ReadFails, HandleFrame, HandleDiagnostic, ParsePlotLiveSince, viewVars
  <1>3. /\ up \in BOOLEAN /\ link \in Links /\ wire \in Seq(Messages)
        /\ published \in Nat /\ lost \in Nat /\ reported \in Nat /\ connections \in Nat
        /\ dropped \in Nat /\ latest \in Nat /\ clears \in Nat /\ entries \in Seq(Nat)
        /\ Len(entries) <= Limit
    BY DEF GuiInv, GuiStreamTypeOK
  <1>4. /\ {since, clearedTo, missed, toldMissed, wiped}' \subseteq Nat
        /\ nextSequence' \in Nat \ {0} /\ asked' \in BOOLEAN /\ entries' \in Seq(Nat)
    BY DEF PlotInv, PlotTypes
  <1> SUFFICES /\ up' \in BOOLEAN /\ link' \in Links /\ wire' \in Seq(Messages)
               /\ {published, lost, reported, connections, dropped, latest, clears}' \subseteq Nat
               /\ Len(entries') <= Limit
    BY <1>1, <1>2, <1>4 DEF GuiInv, GuiStreamTypeOK
  <1>5. CASE Publish \/ ReportDrops
    <2>1. \A n \in Nat : Frame \in Messages /\ Diagnostic(n) \in Messages
      BY DEF Frame, Diagnostic, Messages
    <2>2. \A m \in Messages : Append(wire, m) \in Seq(Messages)
      BY <1>3, AppendProperties
    <2>3. published' \in Nat /\ lost' \in Nat /\ reported' \in Nat
      BY <1>3, <1>5 DEF Publish, ReportDrops
    <2>4. wire' \in Seq(Messages)
      BY <1>3, <1>5, <2>1, <2>2, <2>3 DEF Publish, ReportDrops
    <2> QED
      BY <1>3, <1>5, <2>3, <2>4 DEF Publish, ReportDrops, latestVars
  <1>6. CASE StreamEnds
    BY <1>3, <1>6 DEF StreamEnds, latestVars, dropVars, Links
  <1>7. CASE ServerComes
    BY <1>3, <1>7 DEF ServerComes, latestVars, dropVars
  <1>8. CASE Connect
    BY <1>3, <1>8 DEF Connect, latestVars, dropVars, Links
  <1>9. CASE ReadFails
    BY <1>3, <1>9 DEF ReadFails, AfterError, latestVars, dropVars, Links
  <1>10. CASE HandleFrame
    <2>1. Len(entries') <= Limit
      BY <1>3, <1>10, GuiAssumption, PushedOK DEF HandleFrame, GuiInv, PlotInv
    <2>2. wire' \in Seq(Messages)
      BY <1>3, <1>10, HeadTailProperties DEF HandleFrame
    <2> QED
      BY <1>3, <1>10, <2>1, <2>2 DEF HandleFrame, dropVars
  <1>11. CASE HandleDiagnostic
    <2>1. Head(wire) \in Messages /\ wire' \in Seq(Messages)
      BY <1>3, <1>11, HeadTailProperties DEF HandleDiagnostic
    <2>2. Head(wire).value \in Nat
      BY <2>1 DEF Messages
    <2>3. dropped' \in Nat
      BY <1>3, <1>11, <2>2 DEF HandleDiagnostic
    <2> QED
      BY <1>3, <1>11, <2>1, <2>3 DEF HandleDiagnostic, latestVars, dropVars
  <1>12. CASE ParsePlotLiveSince
    BY <1>3, <1>12 DEF ParsePlotLiveSince, streamVars, latestVars, dropVars
  <1> QED
    BY <1>5, <1>6, <1>7, <1>8, <1>9, <1>10, <1>11, <1>12 DEF RunStreamWorker

\* The view polls, is paused and is cleared.
LEMMA ViewKeepsGuiInv ==
  ASSUME GuiInv, PlotInv',
         \/ AskSnapshot \/ TogglePaused \/ Reconnected \/ ClearView \/ ClearLatest \/ ApplyClear
         \/ \E e \in Effects : LatestSnapshot(e) \/ ApplySnapshot(e)
  PROVE  GuiInv'
  <1> DEFINE Asked == [stage : {"none", "asked", "answered"}, paused : BOOLEAN,
                       before : BOOLEAN, snapshot : Snapshots]
  <1>1. /\ up \in BOOLEAN /\ link \in Links /\ wire \in Seq(Messages)
        /\ published \in Nat /\ lost \in Nat /\ reported \in Nat /\ connections \in Nat
        /\ dropped \in Nat /\ latest \in Nat /\ clears \in Nat /\ entries \in Seq(Nat)
        /\ Len(entries) <= Limit
    BY DEF GuiInv, GuiStreamTypeOK
  <1>2. /\ paused \in BOOLEAN /\ effect \in Effects /\ clearing \in {"idle", "asked", "cleared"}
        /\ shown \in Snapshots /\ polls \in [Effects -> Asked]
    BY DEF GuiInv, GuiStreamTypeOK
  <1>3. /\ {since, clearedTo, missed, toldMissed, wiped}' \subseteq Nat
        /\ nextSequence' \in Nat \ {0} /\ asked' \in BOOLEAN /\ entries' \in Seq(Nat)
    BY DEF PlotInv, PlotTypes
  <1>4. /\ polls[effect].paused = paused
        /\ \A e \in Effects : e > effect => polls[e].stage = "none"
        /\ \A e \in Effects : polls[e].stage # "none" /\ ~polls[e].before => polls[e].paused
    BY DEF GuiInv, ViewInv
  <1>5. Effects \subseteq Nat /\ (effect < MaxEffects => effect + 1 \in Effects)
    BY <1>2, GuiAssumption DEF Effects
  <1>6. Now \in Snapshots
    BY <1>1 DEF Now, Snapshots
  <1> HIDE DEF Asked
  <1> DEFINE Streams == /\ up' \in BOOLEAN /\ link' \in Links /\ wire' \in Seq(Messages)
                        /\ {published, lost, reported, connections, dropped, latest, clears}' \subseteq Nat
                        /\ Len(entries') <= Limit
             View == /\ paused' \in BOOLEAN /\ effect' \in Effects
                     /\ clearing' \in {"idle", "asked", "cleared"}
                     /\ shown' \in Snapshots
             Polls == /\ polls' \in [Effects -> Asked]
                      /\ polls'[effect'].paused = paused'
                      /\ \A e \in Effects : e > effect' => polls'[e].stage = "none"
                      /\ \A e \in Effects :
                           polls'[e].stage # "none" /\ ~polls'[e].before => polls'[e].paused
  <1> SUFFICES Streams /\ View /\ Polls
    BY <1>3 DEF GuiInv, GuiStreamTypeOK, ViewInv, Asked
  <1>7. CASE AskSnapshot
    <2>1. /\ polls' = [polls EXCEPT ![effect] = Poll("asked", polls[effect].paused, ~paused,
                                                     polls[effect].snapshot)]
          /\ UNCHANGED <<up, link, wire, published, lost, reported, connections, dropped, latest, clears,
                         entries, paused, effect, clearing, shown>>
      BY <1>7 DEF AskSnapshot, streamVars, plotVars, latestVars, dropVars
    <2> DEFINE asks == Poll("asked", polls[effect].paused, ~paused, polls[effect].snapshot)
    <2>2. asks \in Asked /\ asks.paused = paused /\ asks.before = ~paused
      BY <1>2, <1>4 DEF Asked, Poll
    <2> HIDE DEF asks
    <2>3. /\ polls' \in [Effects -> Asked]
          /\ polls'[effect] = asks
          /\ \A e \in Effects \ {effect} : polls'[e] = polls[e]
      BY <1>2, <2>1, <2>2 DEF asks
    <2>4. Streams /\ View
      BY <1>1, <1>2, <2>1
    <2>5. Polls
      <3>1. polls'[effect'].paused = paused'
        BY <2>1, <2>2, <2>3
      <3>2. \A e \in Effects : e > effect' => polls'[e].stage = "none"
        <4>1. \A e \in Effects : e > effect => e \in Effects \ {effect}
          BY <1>2, <1>5
        <4> QED
          BY <1>4, <2>1, <2>3, <4>1
      <3>3. ASSUME NEW e \in Effects, polls'[e].stage # "none", ~polls'[e].before
            PROVE  polls'[e].paused
        BY <1>4, <2>2, <2>3, <3>3
      <3> QED
        BY <2>3, <3>1, <3>2, <3>3
    <2> QED
      BY <2>4, <2>5
  <1>8. ASSUME NEW held \in BOOLEAN, effect < MaxEffects, NextEffect(held), paused' = held,
               UNCHANGED <<streamVars, plotVars, latestVars, dropped, clearing, shown>>
        PROVE  Streams /\ View /\ Polls
    <2>1. /\ effect' = effect + 1 /\ effect + 1 \in Effects
          /\ polls' = [polls EXCEPT ![effect + 1].paused = held]
          /\ UNCHANGED <<up, link, wire, published, lost, reported, connections, dropped, latest, clears,
                         entries, clearing, shown>>
      BY <1>5, <1>8 DEF NextEffect, streamVars, plotVars, latestVars, dropVars
    <2> DEFINE next == [polls[effect + 1] EXCEPT !.paused = held]
    <2>2. polls[effect + 1] \in Asked
      BY <1>2, <2>1
    <2>3. next \in Asked /\ next.paused = held /\ next.stage = polls[effect + 1].stage
      BY <2>2 DEF Asked
    <2>4. /\ polls' \in [Effects -> Asked]
          /\ polls'[effect + 1] = next
          /\ \A e \in Effects \ {effect + 1} : polls'[e] = polls[e]
      BY <1>2, <2>1, <2>3
    <2> HIDE DEF next
    <2>5. polls[effect + 1].stage = "none"
      BY <1>2, <1>4, <1>5, <2>1
    <2>6. \A e \in Effects : e > effect + 1 => e > effect /\ e \in Effects \ {effect + 1}
      BY <1>2, <1>5
    <2>7. Streams /\ View
      BY <1>1, <1>2, <1>8, <2>1
    <2>8. Polls
      BY <1>2, <1>4, <1>8, <2>1, <2>3, <2>4, <2>5, <2>6
    <2> QED
      BY <2>7, <2>8
  <1> HIDE DEF Streams, View, Polls
  <1>9. CASE TogglePaused
    BY <1>2, <1>8, <1>9 DEF TogglePaused
  <1>10. CASE Reconnected
    BY <1>2, <1>8, <1>10 DEF Reconnected
  <1> USE DEF Streams, View, Polls
  <1>11. CASE ClearView \/ ClearLatest \/ ApplyClear
    <2>1. /\ UNCHANGED <<up, link, wire, published, lost, reported, connections, dropped, paused, effect, polls>>
          /\ clearing' \in {"idle", "asked", "cleared"}
      BY <1>11 DEF ClearView, ClearLatest, ApplyClear, streamVars, plotVars, latestVars, dropVars
    <2>2. Len(<<>>) = 0 /\ 0 <= Limit
      BY GuiAssumption
    <2>3. latest' \in Nat /\ clears' \in Nat /\ Len(entries') <= Limit
      BY <1>1, <1>11, <2>2 DEF ClearView, ClearLatest, ApplyClear, latestVars
    <2>4. shown' \in Snapshots
      BY <1>1, <1>2, <1>11 DEF ClearView, ClearLatest, ApplyClear, Snapshots
    <2>5. Polls
      BY <1>2, <1>4, <2>1
    <2> QED
      BY <1>1, <1>2, <2>1, <2>3, <2>4, <2>5
  <1>12. ASSUME NEW e \in Effects, LatestSnapshot(e) \/ ApplySnapshot(e)
         PROVE  Streams /\ View /\ Polls
    <2>1. /\ UNCHANGED <<up, wire, published, lost, reported, connections, dropped, latest, clears,
                         entries, paused, effect, clearing>>
          /\ link' \in {link, "connecting"}
          /\ polls[e].stage # "none"
      BY <1>12 DEF LatestSnapshot, ApplySnapshot, streamVars, plotVars, latestVars, dropVars
    <2>2. polls[e] \in Asked
      BY <1>2
    <2>3. shown' \in Snapshots
      BY <1>2, <1>12, <2>2 DEF LatestSnapshot, ApplySnapshot, Asked
    <2>4. \E next \in Asked :
             /\ polls' = [polls EXCEPT ![e] = next]
             /\ next.paused = polls[e].paused /\ next.before = polls[e].before
      <3>1. CASE LatestSnapshot(e)
        <4>1. polls' = [polls EXCEPT ![e] = [@ EXCEPT !.stage = "answered", !.snapshot = Now]]
          BY <3>1 DEF LatestSnapshot
        <4> DEFINE next == [polls[e] EXCEPT !.stage = "answered", !.snapshot = Now]
        <4>2. next \in Asked /\ next.paused = polls[e].paused /\ next.before = polls[e].before
          BY <1>6, <2>2 DEF Asked
        <4> QED
          BY <4>1, <4>2
      <3>2. CASE ApplySnapshot(e)
        <4>1. polls' = [polls EXCEPT ![e] = [@ EXCEPT !.stage = "none"]]
          BY <3>2 DEF ApplySnapshot
        <4> DEFINE next == [polls[e] EXCEPT !.stage = "none"]
        <4>2. next \in Asked /\ next.paused = polls[e].paused /\ next.before = polls[e].before
          BY <2>2 DEF Asked
        <4> QED
          BY <4>1, <4>2
      <3> QED
        BY <1>12, <3>1, <3>2
    <2>5. PICK next \in Asked : /\ polls' = [polls EXCEPT ![e] = next]
                                /\ next.paused = polls[e].paused /\ next.before = polls[e].before
      BY <2>4
    <2>6. /\ polls' \in [Effects -> Asked]
          /\ polls'[e] = next
          /\ \A f \in Effects \ {e} : polls'[f] = polls[f]
      BY <1>2, <2>5
    <2>7. link' \in Links
      BY <1>1, <2>1 DEF Links
    <2>8. polls'[effect].paused = paused
      BY <1>2, <1>4, <2>5, <2>6
    <2>9. ~(e > effect)
      BY <1>4, <2>1
    <2>10. Streams /\ View
      BY <1>1, <1>2, <2>1, <2>3, <2>7
    <2>11. Polls
      BY <1>2, <1>4, <2>1, <2>5, <2>6, <2>8, <2>9
    <2> QED
      BY <2>10, <2>11
  <1> QED
    BY <1>7, <1>9, <1>10, <1>11, <1>12

LEMMA GuiInvStep ==
  ASSUME GuiInv, [GuiStreamNext]_streamGuiVars
  PROVE  GuiInv'
  <1>1. PlotInv'
    BY PlotInvStep DEF GuiInv
  <1>2. CASE UNCHANGED streamGuiVars
    BY <1>1, <1>2 DEF GuiInv, GuiStreamTypeOK, ViewInv, streamGuiVars, streamVars, plotVars,
                      latestVars, dropVars, viewVars
  <1> QED
    BY <1>1, <1>2, StreamKeepsGuiInv, ViewKeepsGuiInv DEF GuiStreamNext

LEMMA GuiInvariant == GuiStreamSpec => []GuiInv
  BY GuiInvInit, GuiInvStep, PTL DEF GuiStreamSpec

\* The stream worker, the plot and the view keep to their types, and the
\* history of the plot to its limit, for any limit and any bounds.
THEOREM GuiStreamTyped == GuiStreamSpec => []GuiStreamTypeOK
  <1>1. GuiInv => GuiStreamTypeOK
    BY DEF GuiInv
  <1> QED
    BY GuiInvariant, <1>1, PTL

\* A poll that has captured that the view is paused shows nothing.
LEMMA PausedStep ==
  ASSUME GuiInv, [GuiStreamNext]_streamGuiVars, paused,
         \A e \in Effects : ~(polls[e].stage # "none" /\ polls[e].before)
  PROVE  shown' = shown \/ ApplyClear
  <1>1. ASSUME NEW e \in Effects, ApplySnapshot(e) PROVE shown' = shown
    <2>1. polls[e].stage # "none"
      BY <1>1 DEF ApplySnapshot
    <2>2. polls[e].paused
      BY <2>1 DEF GuiInv, ViewInv
    <2> QED
      BY <1>1, <2>2 DEF ApplySnapshot
  <1>2. CASE GuiStreamNext
    <2> SUFFICES ASSUME ~ApplyClear, \A e \in Effects : ~ApplySnapshot(e) PROVE shown' = shown
      BY <1>1
    <2>1. CASE \E e \in Effects : LatestSnapshot(e)
      BY <2>1 DEF LatestSnapshot
    <2>2. CASE RunStreamWorker
      BY <2>2 DEF RunStreamWorker, Connect, ReadFails, HandleFrame, HandleDiagnostic, viewVars
    <2> QED
      BY <1>2, <2>1, <2>2 DEF GuiStreamNext, Publish, ReportDrops, StreamEnds, ServerComes, ParsePlotLiveSince,
         AskSnapshot, TogglePaused, Reconnected, ClearView, ClearLatest, viewVars
  <1> QED
    BY <1>2 DEF streamGuiVars, viewVars

\* Nothing but a clear changes what a paused view shows once the polls that
\* were asked for before have returned, for any number of effects and polls.
THEOREM PausedViewStays == GuiStreamSpec => PausedViewHolds
  <1>1. ASSUME GuiInv, [GuiStreamNext]_streamGuiVars
        PROVE  [(paused /\ \A e \in Effects : ~(polls[e].stage # "none" /\ polls[e].before))
                  => shown' = shown \/ ApplyClear]_streamGuiVars
    BY <1>1, PausedStep
  <1> QED
    BY GuiInvariant, <1>1, PTL DEF GuiStreamSpec, PausedViewHolds

-----------------------------------------------------------------------------
(* The frame rates *)

Buckets == [index : Nat, count : Nat]

\* What a bucket adds to the rate, and what a frame should.
Value(bucket, now) == IF InWindow(bucket.index, now) THEN bucket.count ELSE 0
One(i, now) == IF InWindow(i, now) THEN 1 ELSE 0

\* The recursion of FormatBucketRate.
RateEquation(buckets, now, iter) ==
  [s \in SUBSET (1..Len(buckets)) |->
     IF s = {} THEN 0
     ELSE IF InWindow(buckets[Max(s)].index, now)
          THEN iter[s \ {Max(s)}] + buckets[Max(s)].count
          ELSE iter[s \ {Max(s)}]]

RateFold(buckets, now) == CHOOSE iter : iter = RateEquation(buckets, now, iter)

\* The sums after each bucket.
Sums(f, buckets, now) ==
  /\ f[0] = 0
  /\ \A k \in 1..Len(buckets) : f[k] = f[k - 1] + Value(buckets[k], now)

\* The rate is the sum over the buckets.
LEMMA RateSteps ==
  ASSUME NEW buckets \in Seq(Buckets), NEW now
  PROVE  \E f \in [0..Len(buckets) -> Nat] :
           Sums(f, buckets, now) /\ FormatBucketRate(buckets, now) = f[Len(buckets)]
  <1> DEFINE n == Len(buckets)
             g == [i \in 1..n |-> [v \in Nat |-> v + Value(buckets[i], now)]]
             I == RateFold(buckets, now)
  <1>1. n \in Nat /\ DOMAIN buckets = 1..n /\ \A i \in 1..n : buckets[i] \in Buckets
    BY LenProperties
  <1>2. \A i \in 1..n : Value(buckets[i], now) \in Nat
    BY <1>1 DEF Value, Buckets
  <1>3. FormatBucketRate(buckets, now) = I[1..n]
    <2>1. FormatBucketRate(buckets, now) =
            (CHOOSE iter : iter = [s \in SUBSET (DOMAIN buckets) |->
                                     IF s = {} THEN 0
                                     ELSE LET x == Max(s)
                                          IN  IF InWindow(buckets[x].index, now)
                                              THEN iter[s \ {x}] + buckets[x].count
                                              ELSE iter[s \ {x}]])[DOMAIN buckets]
      BY DEF FormatBucketRate, FoldLeft, MapThenFoldSet
    <2> QED
      BY <1>1, <2>1 DEF RateFold, RateEquation
  <1>4. g \in [1..n -> [Nat -> Nat]]
    BY <1>1, <1>2
  <1>5. \A i \in 1..n, v \in Nat :
           g[i][v] = IF InWindow(buckets[i].index, now) THEN v + buckets[i].count ELSE v
    BY <1>1 DEF Value, Buckets
  <1>6. \A i \in 1..n, v \in Nat : g[i][v] = v + Value(buckets[i], now)
    OBVIOUS
  <1> HIDE DEF n, g
  <1>7. PICK h \in [SUBSET (1..n) -> Nat] : FoldSolves(h, n, 0, g)
    BY <1>1, <1>4, FoldExists
  <1>8. h = RateEquation(buckets, now, h)
    <2>1. ASSUME NEW s \in SUBSET (1..n), s # {}
          PROVE  h[s] = IF InWindow(buckets[Max(s)].index, now)
                        THEN h[s \ {Max(s)}] + buckets[Max(s)].count ELSE h[s \ {Max(s)}]
      <3>1. Max(s) \in 1..n
        BY <1>1, <2>1, MaxOfInterval
      <3>2. h[s \ {Max(s)}] \in Nat
        OBVIOUS
      <3> QED
        BY <1>5, <1>7, <2>1, <3>1, <3>2 DEF FoldSolves
    <2>2. h = [s \in SUBSET (1..n) |-> h[s]]
      OBVIOUS
    <2>3. \A s \in SUBSET (1..n) :
             h[s] = IF s = {} THEN 0
                    ELSE IF InWindow(buckets[Max(s)].index, now)
                         THEN h[s \ {Max(s)}] + buckets[Max(s)].count ELSE h[s \ {Max(s)}]
      BY <1>7, <2>1 DEF FoldSolves
    <2> QED
      BY <2>2, <2>3 DEF RateEquation, n
  <1>9. I = RateEquation(buckets, now, I)
    BY <1>8 DEF RateFold
  <1> HIDE DEF I
  <1>10. \A s \in SUBSET (1..n) :
           I[s] = IF s = {} THEN 0
                  ELSE IF InWindow(buckets[Max(s)].index, now)
                       THEN I[s \ {Max(s)}] + buckets[Max(s)].count ELSE I[s \ {Max(s)}]
    BY <1>9 DEF RateEquation, n
  <1>11. I[{}] = 0
    BY <1>10
  <1>12. ASSUME NEW s \in SUBSET (1..n), s # {}, I[s \ {Max(s)}] \in Nat
         PROVE  I[s] = g[Max(s)][I[s \ {Max(s)}]]
    <2>1. Max(s) \in 1..n
      BY <1>1, <1>12, MaxOfInterval
    <2> QED
      BY <1>5, <1>10, <1>12, <2>1
  <1>13. 0 \in Nat /\ FoldMeets(I, n, Nat, 0, g)
    BY <1>11, <1>12 DEF FoldMeets
  <1>14. PICK f \in [0..n -> Nat] : FoldRuns(f, n, 0, g, I)
    BY <1>1, <1>4, <1>13, FoldSteps
  <1>15. ASSUME NEW k \in 1..n PROVE f[k] = f[k - 1] + Value(buckets[k], now)
    <2>1. k - 1 \in 0..n
      BY <1>1
    <2>2. f[k - 1] \in Nat
      BY <2>1
    <2>3. f[k] = g[k][f[k - 1]]
      BY <1>14 DEF FoldRuns
    <2> QED
      BY <1>6, <2>2, <2>3
  <1> QED
    BY <1>3, <1>14, <1>15 DEF Sums, FoldRuns, n

\* The first n buckets of b are those of c after the first o.
Alike(b, c, o, n) ==
  n <= Len(b) /\ o + n <= Len(c) /\ \A k \in 1..n : c[o + k] = b[k]

Adds(g, f, o, n) == g[o + n] = g[o] + f[n]

\* Buckets that are the same add the same, wherever they are.
LEMMA SumsAlike ==
  ASSUME NEW b \in Seq(Buckets), NEW c \in Seq(Buckets), NEW now, NEW o \in Nat,
         NEW f \in [0..Len(b) -> Nat], NEW g \in [0..Len(c) -> Nat],
         Sums(f, b, now), Sums(g, c, now),
         NEW n \in Nat, Alike(b, c, o, n)
  PROVE  Adds(g, f, o, n)
  <1> DEFINE S == {k \in Nat : k <= n => g[o + k] = g[o] + f[k]}
  <1>1. Len(b) \in Nat /\ Len(c) \in Nat
    BY LenProperties
  <1>2. 0 \in S
    <2>1. f[0] = 0 /\ o \in 0..Len(c)
      BY <1>1 DEF Sums, Alike
    <2>2. g[o] \in Nat
      BY <2>1
    <2> QED
      BY <2>1, <2>2
  <1>3. ASSUME NEW k \in Nat, k \in S PROVE k + 1 \in S
    <2> SUFFICES ASSUME k + 1 <= n PROVE g[o + (k + 1)] = g[o] + f[k + 1]
      OBVIOUS
    <2>1. /\ k + 1 \in 1..n /\ k + 1 \in 1..Len(b) /\ o + (k + 1) \in 1..Len(c)
          /\ (k + 1) - 1 = k /\ (o + (k + 1)) - 1 = o + k
          /\ k \in 0..Len(b) /\ o \in 0..Len(c)
      BY <1>1 DEF Alike
    <2>2. g[o + k] = g[o] + f[k]
      BY <1>3
    <2>3. f[k + 1] = f[k] + Value(b[k + 1], now)
      BY <2>1 DEF Sums
    <2>4. g[o + (k + 1)] = g[o + k] + Value(c[o + (k + 1)], now)
      BY <2>1 DEF Sums
    <2>5. c[o + (k + 1)] = b[k + 1]
      BY <2>1 DEF Alike
    <2>6. b[k + 1] \in Buckets
      BY <2>1
    <2>7. Value(b[k + 1], now) \in Nat /\ f[k] \in Nat /\ g[o] \in Nat
      BY <2>1, <2>6 DEF Value, Buckets
    <2> QED
      BY <2>2, <2>3, <2>4, <2>5, <2>7
  <1> HIDE DEF S
  <1>4. n \in S
    BY <1>2, <1>3, NatSetInduction
  <1> QED
    BY <1>4 DEF S, Adds

\* The same at the front.
LEMMA FrontsAlike ==
  ASSUME NEW b \in Seq(Buckets), NEW c \in Seq(Buckets), NEW now,
         NEW f \in [0..Len(b) -> Nat], NEW g \in [0..Len(c) -> Nat],
         Sums(f, b, now), Sums(g, c, now),
         NEW n \in Nat, n <= Len(b), n <= Len(c), \A k \in 1..n : c[k] = b[k]
  PROVE  g[n] = f[n]
  <1>1. ASSUME NEW o \in Nat, o = 0 PROVE g[o + n] = g[o] + f[n]
    <2>1. Alike(b, c, o, n)
      BY <1>1 DEF Alike
    <2> QED
      BY <2>1, SumsAlike DEF Adds
  <1>2. Len(b) \in Nat /\ n \in 0..Len(b)
    BY LenProperties
  <1>3. f[n] \in Nat /\ g[0] = 0
    BY <1>2 DEF Sums
  <1>4. 0 \in Nat /\ 0 + n = n
    OBVIOUS
  <1>5. g[0 + n] = g[0] + f[n]
    BY <1>1, <1>4
  <1> QED
    BY <1>3, <1>4, <1>5

\* A bucket more, or one more frame in the last one.
Opened(c, b, i) ==
  /\ Len(c) = Len(b) + 1
  /\ c[Len(b) + 1] = [index |-> i, count |-> 1]
  /\ \A k \in 1..Len(b) : c[k] = b[k]

CountedIn(c, b, i) ==
  /\ Len(b) > 0 /\ Len(c) = Len(b)
  /\ b[Len(b)].index = i
  /\ c[Len(b)] = [index |-> i, count |-> b[Len(b)].count + 1]
  /\ \A k \in 1..Len(b) - 1 : c[k] = b[k]

\* rate_buckets with one more frame.
LEMMA CountedIs ==
  ASSUME NEW b \in Seq(Buckets), NEW i \in Nat
  PROVE  /\ Counted(b, i) \in Seq(Buckets)
         /\ Opened(Counted(b, i), b, i) \/ CountedIn(Counted(b, i), b, i)
  <1> DEFINE n == Len(b)
  <1>1. n \in Nat /\ (\A k \in 1..n : b[k] \in Buckets) /\ (b = <<>> <=> n = 0)
    BY LenProperties, EmptySeq
  <1>2. CASE b # <<>> /\ Last(b).index = i
    <2> DEFINE c == [b EXCEPT ![n].count = @ + 1]
    <2>1. n \in 1..n /\ b[n] \in Buckets /\ b[n].index = i
      BY <1>1, <1>2 DEF Last
    <2>2. Counted(b, i) = c
      BY <1>2 DEF Counted
    <2>3. b[n] = [index |-> i, count |-> b[n].count] /\ b[n].count \in Nat
      BY <2>1 DEF Buckets
    <2>4. b \in [1..n -> Buckets]
      BY <1>1
    <2>5. c = [b EXCEPT ![n] = [b[n] EXCEPT !.count = @ + 1]]
      BY <2>1
    <2>6. [b[n] EXCEPT !.count = @ + 1] = [index |-> i, count |-> b[n].count + 1]
      BY <2>3
    <2>7. [index |-> i, count |-> b[n].count + 1] \in Buckets
      BY <2>3 DEF Buckets
    <2>8. c \in [1..n -> Buckets] /\ c[n] = [index |-> i, count |-> b[n].count + 1]
          /\ \A k \in 1..n - 1 : c[k] = b[k]
      BY <1>1, <2>1, <2>4, <2>5, <2>6, <2>7
    <2>9. c \in Seq(Buckets) /\ Len(c) = n
      <3> HIDE DEF c
      <3> QED
        BY <1>1, <2>8, FunctionIsSeq
    <2>10. CountedIn(c, b, i)
      <3> HIDE DEF c
      <3> QED
        BY <1>1, <2>1, <2>8, <2>9 DEF CountedIn
    <2> HIDE DEF c
    <2> QED
      BY <2>2, <2>9, <2>10
  <1>3. CASE ~ (b # <<>> /\ Last(b).index = i)
    <2>1. Counted(b, i) = Append(b, [index |-> i, count |-> 1])
      BY <1>3 DEF Counted
    <2>2. [index |-> i, count |-> 1] \in Buckets
      BY DEF Buckets
    <2> QED
      BY <1>1, <2>1, <2>2, AppendProperties DEF Opened
  <1> QED
    BY <1>2, <1>3

\* One more frame counts once.
LEMMA CountedRate ==
  ASSUME NEW b \in Seq(Buckets), NEW i \in Nat, NEW now
  PROVE  FormatBucketRate(Counted(b, i), now) = FormatBucketRate(b, now) + One(i, now)
  <1> DEFINE c == Counted(b, i)
             n == Len(b)
  <1>1. c \in Seq(Buckets) /\ (Opened(c, b, i) \/ CountedIn(c, b, i))
    BY CountedIs
  <1>2. n \in Nat /\ Len(c) \in Nat /\ 0 \in Nat /\ \A k \in 1..n : b[k] \in Buckets
    BY <1>1, LenProperties
  <1> HIDE DEF c
  <1>3. PICK f \in [0..n -> Nat] : Sums(f, b, now) /\ FormatBucketRate(b, now) = f[n]
    BY RateSteps
  <1>4. PICK g \in [0..Len(c) -> Nat] : Sums(g, c, now) /\ FormatBucketRate(c, now) = g[Len(c)]
    BY <1>1, RateSteps
  <1>5. g[0] = 0 /\ f[0] = 0
    BY <1>3, <1>4 DEF Sums
  <1>6. CASE Opened(c, b, i)
    <2>1. /\ n <= Len(b) /\ n <= Len(c) /\ Len(c) = n + 1
          /\ \A k \in 1..n : c[k] = b[k]
      BY <1>2, <1>6 DEF Opened
    <2>2. g[n] = f[n]
      BY <1>1, <1>2, <1>3, <1>4, <2>1, FrontsAlike
    <2>3. f[n] \in Nat /\ n + 1 \in 1..Len(c) /\ (n + 1) - 1 = n
      BY <1>2, <2>1
    <2>5. g[n + 1] = g[n] + Value(c[n + 1], now)
      BY <1>4, <2>3 DEF Sums
    <2>6. Value(c[n + 1], now) = One(i, now)
      BY <1>6 DEF Opened, Value, One
    <2> QED
      BY <1>3, <1>4, <2>1, <2>2, <2>3, <2>5, <2>6 DEF c
  <1>7. CASE CountedIn(c, b, i)
    <2>1. /\ n - 1 \in Nat /\ n - 1 <= Len(b) /\ n - 1 <= Len(c) /\ Len(c) = n
          /\ n - 1 \in 0..n
          /\ \A k \in 1..n - 1 : c[k] = b[k]
      BY <1>2, <1>7 DEF CountedIn
    <2>2. g[n - 1] = f[n - 1]
      BY <1>1, <1>2, <1>3, <1>4, <2>1, FrontsAlike
    <2>3. f[n - 1] \in Nat /\ n \in 1..Len(c) /\ n \in 1..n
      <3> HIDE DEF n
      <3>1. n \in 1..Len(c) /\ n \in 1..n
        BY <1>2, <2>1
      <3>2. f[n - 1] \in Nat
        BY <2>1
      <3> QED
        BY <3>1, <3>2
    <2>5. g[n] = g[n - 1] + Value(c[n], now)
      BY <1>4, <2>3 DEF Sums
    <2>6. f[n] = f[n - 1] + Value(b[n], now)
      BY <1>3, <2>3 DEF Sums
    <2>7. /\ Value(c[n], now) = Value(b[n], now) + One(i, now)
          /\ Value(b[n], now) \in Nat /\ One(i, now) \in Nat
      <3>1. b[n].index = i /\ c[n].index = i /\ c[n].count = b[n].count + 1 /\ b[n].count \in Nat
        BY <1>2, <1>7, <2>3 DEF CountedIn, Buckets
      <3> QED
        BY <3>1 DEF Value, One
    <2> QED
      BY <1>3, <1>4, <2>1, <2>2, <2>3, <2>5, <2>6, <2>7 DEF c
  <1> QED
    BY <1>1, <1>6, <1>7

\* The first bucket that is kept; the one of this frame is.
LEMMA FirstKept ==
  ASSUME NEW c \in Seq(Buckets), NEW i \in Nat, Len(c) > 0, c[Len(c)].index = i
  PROVE  \E m \in 1..Len(c) : /\ SelectInSeq(c, LAMBDA bucket : Kept(bucket, i)) = m
                              /\ \A k \in 1..m - 1 : ~ Kept(c[k], i)
  <1> DEFINE n == Len(c)
             J == {k \in 1..n : Kept(c[k], i)}
  <1>1. n \in Nat /\ n \in 1..n
    BY LenProperties
  <1>2. Kept(c[n], i)
    BY DEF Kept, RateWindow
  <1>3. J # {} /\ J \subseteq Nat
    BY <1>1, <1>2
  <1>4. SelectInSeq(c, LAMBDA bucket : Kept(bucket, i)) = Min(J)
    BY <1>3 DEF SelectInSeq
  <1>5. Min(J) \in J /\ \A y \in J : Min(J) <= y
    <2> HIDE DEF J
    <2>1. \E x \in J : \A y \in J : x <= y
      BY <1>3, LeastElement
    <2> QED
      BY <2>1 DEF Min
  <1>6. ASSUME NEW k \in 1..Min(J) - 1 PROVE ~ Kept(c[k], i)
    <2>1. Min(J) \in 1..n
      BY <1>5
    <2>2. k \in 1..n /\ ~ (Min(J) <= k)
      BY <1>1, <2>1
    <2>3. k \notin J
      BY <1>5, <2>2
    <2> QED
      BY <2>2, <2>3
  <1> QED
    BY <1>4, <1>5, <1>6

\* Buckets that leave take their frames along, and these are too old for any
\* window that ends when the newest frame came, or later.
LEMMA IngestRate ==
  ASSUME NEW b \in Seq(Buckets), NEW i \in Nat, NEW now \in Nat
  PROVE  /\ IngestRateBucket(b, i) \in Seq(Buckets)
         /\ FormatBucketRate(b, now) \in Nat
         /\ FormatBucketRate(IngestRateBucket(b, i), now) <= FormatBucketRate(b, now) + One(i, now)
         /\ i <= now => FormatBucketRate(IngestRateBucket(b, i), now)
                          = FormatBucketRate(b, now) + One(i, now)
  <1> DEFINE c == Counted(b, i)
             n == Len(c)
  <1>1. /\ c \in Seq(Buckets)
        /\ FormatBucketRate(c, now) = FormatBucketRate(b, now) + One(i, now)
    BY CountedIs, CountedRate
  <1>2. Len(c) \in Nat /\ Len(c) > 0 /\ c[Len(c)].index = i
    <2>1. Opened(c, b, i) \/ CountedIn(c, b, i)
      BY CountedIs
    <2>2. Len(c) \in Nat /\ Len(b) \in Nat
      BY <1>1, LenProperties
    <2> HIDE DEF c
    <2> QED
      BY <2>1, <2>2 DEF Opened, CountedIn
  <1>3. PICK m \in 1..n : /\ SelectInSeq(c, LAMBDA bucket : Kept(bucket, i)) = m
                          /\ \A k \in 1..m - 1 : ~ Kept(c[k], i)
    <2> HIDE DEF c
    <2> QED
      BY <1>1, <1>2, FirstKept
  <1> DEFINE d == SubSeq(c, m, n)
  <1>4. IngestRateBucket(b, i) = d
    BY <1>3 DEF IngestRateBucket
  <1> HIDE DEF c
  <1>5. /\ m \in Nat /\ m - 1 \in Nat /\ (n - m) + 1 \in Nat /\ (m - 1) + ((n - m) + 1) = n
        /\ m - 1 \in 0..n
    BY <1>2
  <1>6. /\ d \in Seq(Buckets) /\ Len(d) = (n - m) + 1
        /\ \A k \in 1..(n - m) + 1 : d[k] = c[(m - 1) + k]
    <2>1. \A k \in m..n : c[k] \in Buckets
      BY <1>1, <1>2, LenProperties
    <2>2. Len(d) = (n - m) + 1 /\ d \in Seq(Buckets)
      BY <1>1, <1>2, <1>5, <2>1, SubSeqProperties
    <2>3. ASSUME NEW k \in 1..(n - m) + 1 PROVE d[k] = c[(m - 1) + k]
      <3>1. d[k] = c[m + k - 1] /\ m + k - 1 = (m - 1) + k
        BY <1>1, <1>2, <1>5, SubSeqProperties
      <3> QED
        BY <3>1
    <2> QED
      BY <2>2, <2>3
  <1> HIDE DEF d
  <1>7. PICK g \in [0..n -> Nat] : Sums(g, c, now) /\ FormatBucketRate(c, now) = g[n]
    BY <1>1, RateSteps
  <1>8. PICK f \in [0..Len(d) -> Nat] : Sums(f, d, now) /\ FormatBucketRate(d, now) = f[Len(d)]
    BY <1>6, RateSteps
  <1>9. g[n] = g[m - 1] + f[Len(d)]
    <2> DEFINE o == m - 1
               l == (n - m) + 1
    <2>1. o \in Nat /\ l \in Nat /\ l = Len(d) /\ o + l = n /\ Alike(d, c, o, l)
      BY <1>5, <1>6 DEF Alike
    <2> HIDE DEF o, l
    <2>2. /\ d \in Seq(Buckets) /\ Sums(f, d, now) /\ Sums(g, c, now)
          /\ f \in [0..Len(d) -> Nat] /\ g \in [0..Len(c) -> Nat]
      BY <1>6, <1>7, <1>8
    <2>3. Adds(g, f, o, l)
      BY <1>1, <2>1, <2>2, SumsAlike
    <2>4. g[o + l] = g[o] + f[l]
      BY <2>3 DEF Adds
    <2> QED
      BY <2>1, <2>4 DEF o
  <1>10. g[m - 1] \in Nat /\ f[Len(d)] \in Nat
    <2>1. Len(d) \in 0..Len(d)
      BY <1>5, <1>6
    <2> QED
      BY <1>5, <2>1
  <1>11. ASSUME i <= now PROVE g[m - 1] = 0
    <2> DEFINE S == {k \in Nat : k <= m - 1 => g[k] = 0}
    <2>1. 0 \in S
      BY <1>7 DEF Sums
    <2>2. ASSUME NEW k \in Nat, k \in S PROVE k + 1 \in S
      <3> SUFFICES ASSUME k + 1 <= m - 1 PROVE g[k + 1] = 0
        OBVIOUS
      <3>1. k + 1 \in 1..m - 1 /\ k + 1 \in 1..Len(c) /\ (k + 1) - 1 = k /\ g[k] = 0
        <4>1. m - 1 \in Nat /\ m - 1 <= Len(c) /\ Len(c) \in Nat
          BY <1>2, <1>5
        <4>2. k <= m - 1
          BY <4>1
        <4>3. g[k] = 0
          BY <2>2, <4>2
        <4>4. k + 1 \in 1..m - 1 /\ k + 1 \in 1..Len(c) /\ (k + 1) - 1 = k
          BY <4>1
        <4> QED
          BY <4>3, <4>4
      <3>2. g[k + 1] = g[k] + Value(c[k + 1], now)
        BY <1>7, <3>1 DEF Sums
      <3>3. ~ Kept(c[k + 1], i) /\ c[k + 1] \in Buckets
        BY <1>1, <1>3, <3>1, LenProperties
      <3>4. Value(c[k + 1], now) = 0
        BY <1>11, <3>3 DEF Value, Kept, InWindow, Buckets, RateWindow
      <3> QED
        BY <3>1, <3>2, <3>4
    <2> HIDE DEF S
    <2>3. m - 1 \in S
      BY <1>5, <2>1, <2>2, NatSetInduction
    <2> QED
      BY <1>5, <2>3 DEF S
  <1>12. FormatBucketRate(b, now) \in Nat
    <2>1. PICK e \in [0..Len(b) -> Nat] : FormatBucketRate(b, now) = e[Len(b)]
      BY RateSteps
    <2>2. Len(b) \in 0..Len(b)
      BY LenProperties
    <2> QED
      BY <2>1, <2>2
  <1>13. /\ FormatBucketRate(c, now) = g[m - 1] + FormatBucketRate(d, now)
         /\ FormatBucketRate(d, now) \in Nat
    BY <1>7, <1>8, <1>9, <1>10
  <1> QED
    BY <1>1, <1>4, <1>6, <1>10, <1>11, <1>12, <1>13

\* The buckets after each frame.
BucketsRun(h, times) ==
  /\ h[0] = <<>>
  /\ \A k \in 1..Len(times) : h[k] = IngestRateBucket(h[k - 1], times[k])

BucketsEquation(times, iter) ==
  [s \in SUBSET (1..Len(times)) |->
     IF s = {} THEN <<>> ELSE IngestRateBucket(iter[s \ {Max(s)}], times[Max(s)])]

BucketsFold(times) == CHOOSE iter : iter = BucketsEquation(times, iter)

\* RateBucketsOf counts one frame after the other.
LEMMA BucketSteps ==
  ASSUME NEW times \in Seq(Nat)
  PROVE  \E h \in [0..Len(times) -> Seq(Buckets)] :
           BucketsRun(h, times) /\ RateBucketsOf(times) = h[Len(times)]
  <1> DEFINE n == Len(times)
             V == Seq(Buckets)
             g == [i \in 1..n |-> [v \in V |-> IngestRateBucket(v, times[i])]]
             I == BucketsFold(times)
  <1>1. n \in Nat /\ DOMAIN times = 1..n /\ \A i \in 1..n : times[i] \in Nat
    BY LenProperties
  <1>2. \A v \in V, i \in Nat : IngestRateBucket(v, i) \in V
    <2> TAKE v \in V, i \in Nat
    <2> QED
      BY IngestRate
  <1>3. RateBucketsOf(times) = I[1..n]
    <2>1. RateBucketsOf(times) =
            (CHOOSE iter : iter = [s \in SUBSET (DOMAIN times) |->
                                     IF s = {} THEN <<>>
                                     ELSE LET x == Max(s)
                                          IN  IngestRateBucket(iter[s \ {x}], times[x])])[DOMAIN times]
      BY DEF RateBucketsOf, FoldLeft, MapThenFoldSet
    <2> QED
      BY <1>1, <2>1 DEF BucketsFold, BucketsEquation
  <1>4. g \in [1..n -> [V -> V]] /\ <<>> \in V
    BY <1>1, <1>2, EmptySeq
  <1>5. \A i \in 1..n, v \in V : g[i][v] = IngestRateBucket(v, times[i])
    OBVIOUS
  <1> HIDE DEF n, g, V
  <1>7. PICK h \in [SUBSET (1..n) -> V] : FoldSolves(h, n, <<>>, g)
    BY <1>1, <1>4, FoldExists
  <1>8. h = BucketsEquation(times, h)
    <2>1. ASSUME NEW s \in SUBSET (1..n), s # {}
          PROVE  h[s] = IngestRateBucket(h[s \ {Max(s)}], times[Max(s)])
      <3>1. Max(s) \in 1..n
        BY <1>1, <2>1, MaxOfInterval
      <3>2. h[s \ {Max(s)}] \in V
        OBVIOUS
      <3> QED
        BY <1>5, <1>7, <2>1, <3>1, <3>2 DEF FoldSolves
    <2>2. h = [s \in SUBSET (1..n) |-> h[s]]
      OBVIOUS
    <2>3. \A s \in SUBSET (1..n) :
             h[s] = IF s = {} THEN <<>> ELSE IngestRateBucket(h[s \ {Max(s)}], times[Max(s)])
      BY <1>7, <2>1 DEF FoldSolves
    <2> QED
      BY <2>2, <2>3 DEF BucketsEquation, n
  <1>9. I = BucketsEquation(times, I)
    BY <1>8 DEF BucketsFold
  <1> HIDE DEF I
  <1>10. \A s \in SUBSET (1..n) :
           I[s] = IF s = {} THEN <<>> ELSE IngestRateBucket(I[s \ {Max(s)}], times[Max(s)])
    BY <1>9 DEF BucketsEquation, n
  <1>11. I[{}] = <<>>
    BY <1>10
  <1>12. ASSUME NEW s \in SUBSET (1..n), s # {}, I[s \ {Max(s)}] \in V
         PROVE  I[s] = g[Max(s)][I[s \ {Max(s)}]]
    <2>1. Max(s) \in 1..n
      BY <1>1, <1>12, MaxOfInterval
    <2> QED
      BY <1>5, <1>10, <1>12, <2>1
  <1>13. FoldMeets(I, n, V, <<>>, g)
    BY <1>11, <1>12 DEF FoldMeets
  <1>14. PICK f \in [0..n -> V] : FoldRuns(f, n, <<>>, g, I)
    BY <1>1, <1>4, <1>13, FoldSteps
  <1>15. ASSUME NEW k \in 1..n PROVE f[k] = IngestRateBucket(f[k - 1], times[k])
    <2>1. k - 1 \in 0..n
      BY <1>1
    <2>2. f[k - 1] \in V
      BY <2>1
    <2>3. f[k] = g[k][f[k - 1]]
      BY <1>14 DEF FoldRuns
    <2> QED
      BY <1>5, <2>2, <2>3
  <1> QED
    BY <1>3, <1>14, <1>15 DEF BucketsRun, FoldRuns, n, V

\* The frames of the window among the first k.
FirstInWindow(times, k, now) == {i \in 1..k : InWindow(times[i], now)}

LEMMA FirstInWindowStep ==
  ASSUME NEW times \in Seq(Nat), NEW now \in Nat, NEW k \in Nat
  PROVE  /\ Cardinality(FirstInWindow(times, k, now)) \in Nat
         /\ Cardinality(FirstInWindow(times, k + 1, now))
              = Cardinality(FirstInWindow(times, k, now)) + One(times[k + 1], now)
  <1> DEFINE W == FirstInWindow(times, k, now)
  <1>1. IsFiniteSet(W) /\ Cardinality(W) \in Nat
    <2>1. W \subseteq 1..k /\ IsFiniteSet(1..k)
      BY FS_Interval DEF FirstInWindow
    <2> QED
      BY <2>1, FS_Subset, FS_CardinalityType
  <1>2. k + 1 \notin W
    BY DEF FirstInWindow
  <1>3. CASE InWindow(times[k + 1], now)
    <2>1. FirstInWindow(times, k + 1, now) = W \cup {k + 1}
      <3>1. \A i : i \in 1..k + 1 <=> i \in 1..k \/ i = k + 1
        OBVIOUS
      <3> QED
        BY <1>3, <3>1, Zenon DEF FirstInWindow
    <2>2. Cardinality(W \cup {k + 1}) = Cardinality(W) + 1
      <3> HIDE DEF W
      <3> QED
        BY <1>1, <1>2, FS_AddElement
    <2> QED
      BY <1>1, <1>3, <2>1, <2>2 DEF One
  <1>4. CASE ~ InWindow(times[k + 1], now)
    <2>1. FirstInWindow(times, k + 1, now) = W
      <3>1. \A i : i \in 1..k + 1 <=> i \in 1..k \/ i = k + 1
        OBVIOUS
      <3> QED
        BY <1>4, <3>1, Zenon DEF FirstInWindow
    <2> QED
      BY <1>1, <1>4, <2>1 DEF One
  <1> QED
    BY <1>3, <1>4

\* The rate counts exactly the frames of the window, and if one is dated after
\* now not more than those.
THEOREM RatesAreRight ==
  ASSUME NEW times \in Seq(Nat), NEW now \in Nat
  PROVE  RightAt(times, now)
  <1> DEFINE n == Len(times)
             W(k) == Cardinality(FirstInWindow(times, k, now))
  <1>1. PICK h \in [0..n -> Seq(Buckets)] : BucketsRun(h, times) /\ RateBucketsOf(times) = h[n]
    BY BucketSteps
  <1>2. n \in Nat /\ DOMAIN times = 1..n /\ \A i \in 1..n : times[i] \in Nat
    BY LenProperties
  <1> DEFINE R(k) == FormatBucketRate(h[k], now)
             Right(k) == /\ R(k) \in Nat /\ R(k) <= W(k)
                         /\ (\A i \in 1..n : times[i] <= now) => R(k) = W(k)
             S == {k \in Nat : k <= n => Right(k)}
  <1>3. 0 \in S
    <2>1. h[0] = <<>> /\ <<>> \in Seq(Buckets) /\ Len(<<>>) = 0
      BY <1>1, EmptySeq DEF BucketsRun
    <2>2. FormatBucketRate(<<>>, now) = 0
      <3> DEFINE e == <<>>
      <3>1. e \in Seq(Buckets) /\ Len(e) = 0
        BY <2>1
      <3> HIDE DEF e
      <3>2. PICK f \in [0..Len(e) -> Nat] : Sums(f, e, now) /\ FormatBucketRate(e, now) = f[Len(e)]
        BY <3>1, RateSteps
      <3>3. FormatBucketRate(e, now) = 0
        BY <3>1, <3>2 DEF Sums
      <3> QED
        BY <3>3 DEF e
    <2>3. W(0) = 0
      BY FS_EmptySet DEF FirstInWindow
    <2> QED
      BY <2>1, <2>2, <2>3
  <1>4. ASSUME NEW k \in Nat, k \in S PROVE k + 1 \in S
    <2> SUFFICES ASSUME k + 1 <= n PROVE Right(k + 1)
      OBVIOUS
    <2>1. Right(k) /\ k + 1 \in 1..n /\ (k + 1) - 1 = k /\ k \in 0..n
      BY <1>2, <1>4
    <2>2. h[k + 1] = IngestRateBucket(h[k], times[k + 1])
      BY <1>1, <2>1 DEF BucketsRun
    <2>3. h[k] \in Seq(Buckets) /\ times[k + 1] \in Nat
      BY <1>2, <2>1
    <2>4. /\ R(k + 1) <= R(k) + One(times[k + 1], now)
          /\ times[k + 1] <= now => R(k + 1) = R(k) + One(times[k + 1], now)
      <3> DEFINE b == h[k]
                 i == times[k + 1]
      <3>1. b \in Seq(Buckets) /\ i \in Nat
        BY <2>3
      <3>2. R(k + 1) = FormatBucketRate(IngestRateBucket(b, i), now) /\ R(k) = FormatBucketRate(b, now)
        BY <2>2
      <3> HIDE DEF b, i
      <3>3. /\ FormatBucketRate(IngestRateBucket(b, i), now) <= FormatBucketRate(b, now) + One(i, now)
            /\ i <= now => FormatBucketRate(IngestRateBucket(b, i), now)
                             = FormatBucketRate(b, now) + One(i, now)
        BY <3>1, IngestRate
      <3> HIDE DEF R
      <3> QED
        BY <3>2, <3>3 DEF i
    <2>5. R(k + 1) \in Nat
      <3>1. h[k + 1] \in Seq(Buckets)
        BY <2>1
      <3> QED
        BY <3>1, IngestRate
    <2>6. W(k) \in Nat /\ W(k + 1) = W(k) + One(times[k + 1], now)
      BY FirstInWindowStep
    <2>7. One(times[k + 1], now) \in Nat
      BY DEF One
    <2> HIDE DEF R, W
    <2>8. R(k + 1) <= W(k + 1)
      BY <2>1, <2>4, <2>5, <2>6, <2>7
    <2>9. ASSUME \A i \in 1..n : times[i] <= now PROVE R(k + 1) = W(k + 1)
      <3>1. times[k + 1] <= now /\ R(k) = W(k)
        BY <2>1, <2>9
      <3> QED
        BY <2>4, <2>6, <3>1
    <2> QED
      BY <2>5, <2>8, <2>9
  <1>5. Right(n)
    <2> HIDE DEF S, Right
    <2>1. n \in S
      BY <1>2, <1>3, <1>4, NatSetInduction
    <2> QED
      BY <1>2, <2>1 DEF S
  <1>6. RateOf(times, now) = R(n) /\ FramesInWindow(times, now) = W(n)
    BY <1>1, <1>2 DEF RateOf, FramesInWindow, FirstInWindow
  <1> QED
    BY <1>2, <1>5, <1>6 DEF RightAt

-----------------------------------------------------------------------------
\* Every frame in the latest-frame table was published.
FrameBound ==
  /\ latest + Len(wire) + lost <= published + reported
  /\ reported <= lost
  /\ published <= MaxFrames

LEMMA FrameBoundStep ==
  ASSUME GuiInv, FrameBound, [GuiStreamNext]_streamGuiVars
  PROVE  FrameBound'
  <1>1. /\ latest \in Nat /\ published \in Nat /\ MaxFrames \in Nat
        /\ wire \in Seq(Messages) /\ Len(wire) \in Nat
        /\ lost \in Nat /\ reported \in Nat
    BY GuiAssumption, LenProperties DEF GuiInv, GuiStreamTypeOK
  <1>2. CASE Publish
    <2>1. \A m : Len(Append(wire, m)) = Len(wire) + 1
      BY <1>1
    <2>2. latest' = latest /\ published' = published + 1 /\ published < MaxFrames
      BY <1>2 DEF Publish, latestVars
    <2>3. /\ reported' = reported
          /\ \/ Len(wire') = Len(wire) + 1 /\ lost' = lost
             \/ wire' = wire /\ lost' = lost + 1
      BY <1>2, <2>1 DEF Publish
    <2> QED
      BY <1>1, <2>2, <2>3 DEF FrameBound
  <1>3. CASE ReportDrops
    <2>1. \A m : Len(Append(wire, m)) = Len(wire) + 1
      BY <1>1
    <2>2. /\ latest' = latest /\ published' = published /\ lost' = lost
          /\ reported' = lost /\ reported < lost
          /\ Len(wire') = Len(wire) + 1
      BY <1>1, <1>3, <2>1 DEF ReportDrops, latestVars
    <2> QED
      BY <1>1, <2>2 DEF FrameBound
  <1>4. CASE Connect
    <2>1. /\ latest' = latest /\ published' = published /\ wire' = wire
          /\ lost' = 0 /\ reported' = 0
      BY <1>4 DEF Connect, latestVars
    <2> QED
      BY <1>1, <2>1 DEF FrameBound
  <1>5. CASE HandleFrame \/ HandleDiagnostic
    <2>1. /\ wire # <<>> /\ wire' = Tail(wire) /\ published' = published
          /\ UNCHANGED <<lost, reported>>
      BY <1>5 DEF HandleFrame, HandleDiagnostic, dropVars
    <2>2. Len(wire') = Len(wire) - 1
      BY <1>1, <2>1, HeadTailProperties
    <2>3. latest' \in {latest, latest + 1}
      BY <1>5 DEF HandleFrame, HandleDiagnostic, latestVars
    <2> QED
      BY <1>1, <2>1, <2>2, <2>3 DEF FrameBound
  <1>6. CASE ClearLatest
    <2>1. /\ latest' = 0 /\ wire' = wire /\ published' = published
          /\ UNCHANGED <<lost, reported>>
      BY <1>6 DEF ClearLatest, streamVars, dropVars
    <2> QED
      BY <1>1, <2>1 DEF FrameBound
  <1>7. CASE \/ StreamEnds \/ ServerComes \/ ReadFails
             \/ ParsePlotLiveSince \/ AskSnapshot
             \/ \E e \in Effects : LatestSnapshot(e) \/ ApplySnapshot(e)
             \/ TogglePaused \/ Reconnected \/ ClearView \/ ApplyClear
             \/ UNCHANGED streamGuiVars
    <2>1. /\ latest' = latest /\ wire' = wire /\ published' = published
          /\ UNCHANGED <<lost, reported>>
      BY <1>7 DEF StreamEnds, ServerComes, ReadFails, ParsePlotLiveSince, AskSnapshot,
         LatestSnapshot, ApplySnapshot, TogglePaused, Reconnected, ClearView, ApplyClear,
         streamGuiVars, streamVars, dropVars, latestVars
    <2> QED
      BY <2>1 DEF FrameBound
  <1> QED
    BY <1>2, <1>3, <1>4, <1>5, <1>6, <1>7 DEF GuiStreamNext, RunStreamWorker

\* The rate that is shown counts exactly the frames received in the window,
\* for any bound on the frames.
THEOREM RatesAreExact == GuiStreamSpec => []RateExact
  <1>1. GuiStreamInit => FrameBound
    <2> SUFFICES ASSUME GuiStreamInit PROVE FrameBound
      OBVIOUS
    <2>1. latest = 0 /\ wire = <<>> /\ published = 0 /\ lost = 0 /\ reported = 0
      BY DEF GuiStreamInit
    <2> QED
      BY <2>1, GuiAssumption DEF FrameBound
  <1>2. ASSUME GuiInv, FrameBound PROVE RateExact
    <2>1. latest \in 0 .. MaxFrames
      <3>1. /\ latest \in Nat /\ published \in Nat /\ MaxFrames \in Nat /\ Len(wire) \in Nat
            /\ lost \in Nat /\ reported \in Nat
        BY <1>2, GuiAssumption, LenProperties DEF GuiInv, GuiStreamTypeOK
      <3> QED
        BY <1>2, <3>1 DEF FrameBound
    <2>2. ASSUME NEW times \in [1 .. latest -> 0 .. 4], NEW now \in 0 .. 6
          PROVE  RightAt(times, now)
      <3>1. times \in [1 .. latest -> Nat] /\ now \in Nat /\ latest \in Nat
        BY <2>1
      <3>2. times \in Seq(Nat)
        BY <3>1, FunctionIsSeq
      <3> QED
        BY <3>1, <3>2, RatesAreRight
    <2> QED
      BY <2>1, <2>2 DEF RateExact, RightCounts
  <1> QED
    BY GuiInvariant, <1>1, <1>2, FrameBoundStep, PTL DEF GuiStreamSpec
=============================================================================
