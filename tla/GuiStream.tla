----------------------------- MODULE GuiStream -----------------------------
(***************************************************************************)
(* What the desktop application makes of the server's stream: the worker   *)
(* that keeps the stream connected and the state it fills                  *)
(* (apps/desktop/src-tauri/src/stream.rs and state.rs), the live plot that *)
(* reads it with a cursor (parse_plot.rs), and the monitor view that polls *)
(* it, is paused and is cleared (commands.rs, useSnapshotPolling.ts and    *)
(* App.tsx).                                                               *)
(*                                                                         *)
(* All frames have one key here.  ReceiverInner is behind a mutex, and the *)
(* worker and every command hold it once, so that each is one step.  An    *)
(* effect of React polls until the next one replaces it; a poll under way  *)
(* is not cancelled, and replies come back in any order.                   *)
(***************************************************************************)
EXTENDS Naturals, Sequences, FiniteSets

CONSTANTS
  Limit,           \* PLOT_FRAME_HISTORY_LIMIT
  MaxFrames,       \* bound: frames published to the stream
  MaxDrops,        \* bound: frames dropped in a connection
  MaxConnections,  \* bound: connections of the stream
  MaxEffects,      \* bound: effects that poll
  MaxClears        \* bound: times the view is cleared

ASSUME GuiAssumption ==
  /\ {Limit, MaxEffects} \subseteq Nat \ {0}
  /\ {MaxFrames, MaxDrops, MaxConnections, MaxClears} \subseteq Nat

VARIABLES
  up,            \* the server answers
  published,     \* frames published since the start
  lost,          \* FrameSubscriber.dropped_count of the present subscription
  reported,      \* reported_dropped_count of its handle_stream
  link,          \* the worker and its socket
  wire,          \* messages on their way to it
  connections,   \* connections made so far
  nextSequence,  \* PlotFrameHistory.next_sequence
  entries,       \* PlotFrameHistory.entries: their sequence numbers
  latest,        \* LatestFrame.receive_count, 0 without a LatestFrame
  dropped,       \* ReceiverInner.stream_dropped_count
  asked, since,  \* the plot has asked before; its since_sequence
  paused,        \* the view is paused
  effect,        \* the present effect of useSnapshotPolling
  polls,         \* the poll of every effect
  clearing,      \* the progress of clearView
  shown,         \* the frames shown by the view
  clears,        \* history: times the latest frames were cleared
  clearedTo,     \* history: the last sequence number before the last clear
  missed,        \* history: frames that the plot passed over
  toldMissed,    \* history: the sum of dropped_frames
  wiped          \* history: frames cleared before the plot read them

dropVars   == <<lost, reported>>
streamVars == <<up, published, dropVars, link, wire, connections>>
plotVars   == <<asked, since, missed, toldMissed, wiped>>
latestVars == <<nextSequence, entries, latest, clears, clearedTo>>
viewVars   == <<paused, effect, polls, clearing, shown>>
streamGuiVars == <<streamVars, plotVars, latestVars, dropped, viewVars>>

Effects == 1 .. MaxEffects
Links   == {"none", "connecting", "open", "cut"}

Frame         == [event |-> "frame", value |-> 0]
Diagnostic(n) == [event |-> "diagnostic", value |-> n]
Messages      == [event : {"frame", "diagnostic"}, value : Nat]

\* A snapshot: how many frames there were since which clear.
Snapshots == [clears : Nat, count : Nat]
Now       == [clears |-> clears, count |-> latest]

Poll(stage, held, before, snapshot) ==
  [stage |-> stage, paused |-> held, before |-> before, snapshot |-> snapshot]
NoPoll == Poll("none", FALSE, FALSE, [clears |-> 0, count |-> 0])

GuiStreamInit ==
  /\ up \in BOOLEAN
  /\ published = 0
  /\ lost = 0
  /\ reported = 0
  /\ link = "none"
  /\ wire = <<>>
  /\ connections = 0
  /\ nextSequence = 1
  /\ entries = <<>>
  /\ latest = 0
  /\ dropped = 0
  /\ asked = FALSE
  /\ since = 0
  /\ paused = FALSE
  /\ effect = 1
  /\ polls = [e \in Effects |-> NoPoll]
  /\ clearing = "idle"
  /\ shown = [clears |-> 0, count |-> 0]
  /\ clears = 0
  /\ clearedTo = 0
  /\ missed = 0
  /\ toldMissed = 0
  /\ wiped = 0

-----------------------------------------------------------------------------
(* The server's side of the stream (modules FrameHub and StreamSession) *)

\* A frame for the subscription is sent, or finds its queue full.
Publish ==
  /\ link = "open"
  /\ published < MaxFrames
  /\ published' = published + 1
  /\ \/ wire' = Append(wire, Frame) /\ UNCHANGED lost
     \/ lost < MaxDrops /\ lost' = lost + 1 /\ UNCHANGED wire
  /\ UNCHANGED <<up, reported, link, connections, plotVars, latestVars, dropped, viewVars>>

\* Between two batches the server tells how many frames were dropped so far.
ReportDrops ==
  /\ link = "open"
  /\ lost > reported
  /\ wire' = Append(wire, Diagnostic(lost))
  /\ reported' = lost
  /\ UNCHANGED <<up, published, lost, link, connections, plotVars, latestVars, dropped, viewVars>>

\* The server ends, or closes the stream.
StreamEnds ==
  /\ link = "open"
  /\ connections < MaxConnections
  /\ link' = "cut"
  /\ up' \in BOOLEAN
  /\ UNCHANGED <<published, dropVars, wire, connections, plotVars, latestVars, dropped, viewVars>>

ServerComes ==
  /\ ~up
  /\ up' = TRUE
  /\ UNCHANGED <<published, dropVars, link, wire, connections, plotVars, latestVars, dropped, viewVars>>

-----------------------------------------------------------------------------
(* The stream worker *)

\* A new subscription, whose drops are counted from zero.
Connect ==
  /\ link = "connecting"
  /\ up
  /\ link' = "open"
  /\ connections' = connections + 1
  /\ lost' = 0
  /\ reported' = 0
  /\ UNCHANGED <<up, published, wire, plotVars, latestVars, dropped, viewVars>>

\* Mutated form of AfterError: only a failed connect is tried again.
AfterErrorEnded == "none"

AfterError == "connecting"

ReadFails ==
  /\ link = "cut"
  /\ wire = <<>>
  /\ link' = AfterError
  /\ UNCHANGED <<up, published, dropVars, wire, connections, plotVars, latestVars, dropped, viewVars>>

\* Mutated form of Pushed: nothing is evicted.
PushedUnlimited == Append(entries, nextSequence)

\* PlotFrameHistory::push.
Pushed ==
  LET pushed == Append(entries, nextSequence)
  IN  IF Len(pushed) > Limit THEN Tail(pushed) ELSE pushed

HandleFrame ==
  /\ wire # <<>>
  /\ Head(wire).event = "frame"
  /\ wire' = Tail(wire)
  /\ latest' = latest + 1
  /\ entries' = Pushed
  /\ nextSequence' = nextSequence + 1
  /\ UNCHANGED <<up, published, dropVars, link, connections, clears, clearedTo, plotVars,
                 dropped, viewVars>>

HandleDiagnostic ==
  /\ wire # <<>>
  /\ Head(wire).event = "diagnostic"
  /\ wire' = Tail(wire)
  /\ dropped' = IF dropped > Head(wire).value THEN dropped ELSE Head(wire).value
  /\ UNCHANGED <<up, published, dropVars, link, connections, plotVars, latestVars, viewVars>>

RunStreamWorker == Connect \/ ReadFails \/ HandleFrame \/ HandleDiagnostic

-----------------------------------------------------------------------------
(* The live plot *)

OldestSequence == IF entries = <<>> THEN 0 ELSE Head(entries)

\* PlotFrameHistory::since.
Since == {i \in 1 .. Len(entries) : ~asked \/ entries[i] > since}

\* Mutated form of DroppedFrames: what was read last counts, too.
DroppedFramesOffByOne ==
  IF asked /\ OldestSequence > since THEN OldestSequence - since ELSE 0

DroppedFrames ==
  IF asked /\ OldestSequence > since + 1 THEN OldestSequence - (since + 1) ELSE 0

\* parse_plot_live_since; the plot asks next for what came after.
ParsePlotLiveSince ==
  /\ asked' = TRUE
  /\ since' = nextSequence - 1
  /\ missed' = IF asked THEN missed + (nextSequence - 1 - since) - Cardinality(Since) ELSE missed
  /\ toldMissed' = toldMissed + DroppedFrames
  /\ wiped' = IF asked /\ clearedTo > since THEN wiped + (clearedTo - since) ELSE wiped
  /\ UNCHANGED <<streamVars, latestVars, dropped, viewVars>>

-----------------------------------------------------------------------------
(* The monitor view *)

\* The timer of the present effect, which has no poll under way.
AskSnapshot ==
  /\ polls[effect].stage = "none"
  /\ polls' = [polls EXCEPT ![effect] = Poll("asked", polls[effect].paused, ~paused, @.snapshot)]
  /\ UNCHANGED <<streamVars, plotVars, latestVars, dropped, paused, effect, clearing, shown>>

\* latest_snapshot, with ensure_stream_worker.
LatestSnapshot(e) ==
  /\ polls[e].stage = "asked"
  /\ polls' = [polls EXCEPT ![e].stage = "answered", ![e].snapshot = Now]
  /\ link' = IF link = "none" /\ connections = 0 THEN "connecting" ELSE link
  /\ UNCHANGED <<up, published, dropVars, wire, connections, plotVars, latestVars, dropped,
                 paused, effect, clearing, shown>>

\* setFrames of a reply.
ApplySnapshot(e) ==
  /\ polls[e].stage = "answered"
  /\ polls' = [polls EXCEPT ![e].stage = "none"]
  /\ shown' = IF polls[e].paused THEN shown ELSE polls[e].snapshot
  /\ UNCHANGED <<streamVars, plotVars, latestVars, dropped, paused, effect, clearing>>

\* Mutated form of NextEffect: paused is no dependency of the effect.
NextEffectOnce(held) == effect' = effect /\ polls' = polls

\* The effect is replaced by one that has captured what it depends on.
NextEffect(held) ==
  /\ effect' = effect + 1
  /\ polls' = [polls EXCEPT ![effect + 1].paused = held]

TogglePaused ==
  /\ effect < MaxEffects
  /\ paused' = ~paused
  /\ NextEffect(paused')
  /\ UNCHANGED <<streamVars, plotVars, latestVars, dropped, clearing, shown>>

\* serverConnected has changed.
Reconnected ==
  /\ effect < MaxEffects
  /\ NextEffect(paused)
  /\ UNCHANGED <<streamVars, plotVars, latestVars, dropped, paused, clearing, shown>>

ClearView ==
  /\ clearing = "idle"
  /\ clears < MaxClears
  /\ clearing' = "asked"
  /\ UNCHANGED <<streamVars, plotVars, latestVars, dropped, paused, effect, polls, shown>>

ClearLatest ==
  /\ clearing = "asked"
  /\ clearing' = "cleared"
  /\ latest' = 0
  /\ entries' = <<>>
  /\ clears' = clears + 1
  /\ clearedTo' = nextSequence - 1
  /\ UNCHANGED <<streamVars, plotVars, dropped, nextSequence, paused, effect, polls, shown>>

\* setFrames([]).
ApplyClear ==
  /\ clearing = "cleared"
  /\ clearing' = "idle"
  /\ shown' = [clears |-> clears, count |-> 0]
  /\ UNCHANGED <<streamVars, plotVars, latestVars, dropped, paused, effect, polls>>

GuiStreamNext ==
  \/ Publish \/ ReportDrops \/ StreamEnds \/ ServerComes
  \/ RunStreamWorker
  \/ ParsePlotLiveSince
  \/ AskSnapshot
  \/ \E e \in Effects : LatestSnapshot(e) \/ ApplySnapshot(e)
  \/ TogglePaused \/ Reconnected
  \/ ClearView \/ ClearLatest \/ ApplyClear

GuiStreamSpec == GuiStreamInit /\ [][GuiStreamNext]_streamGuiVars

\* The worker and the timer go on, and commands are answered.
FairGuiStreamSpec ==
  /\ GuiStreamSpec
  /\ WF_streamGuiVars(RunStreamWorker)
  /\ WF_streamGuiVars(AskSnapshot)
  /\ \A e \in Effects : WF_streamGuiVars(LatestSnapshot(e)) /\ WF_streamGuiVars(ApplySnapshot(e))
  /\ WF_streamGuiVars(ClearLatest) /\ WF_streamGuiVars(ApplyClear)

-----------------------------------------------------------------------------
(* Properties *)

\* Types; the history is never longer than its limit.
GuiStreamTypeOK ==
  /\ up \in BOOLEAN
  /\ {published, lost, reported, connections, dropped, latest, since, clears, clearedTo} \subseteq Nat
  /\ {missed, toldMissed, wiped} \subseteq Nat
  /\ nextSequence \in Nat \ {0}
  /\ link \in Links
  /\ wire \in Seq(Messages)
  /\ entries \in Seq(Nat) /\ Len(entries) <= Limit
  /\ asked \in BOOLEAN
  /\ paused \in BOOLEAN
  /\ effect \in Effects
  /\ polls \in [Effects -> [stage : {"none", "asked", "answered"}, paused : BOOLEAN,
                            before : BOOLEAN, snapshot : Snapshots]]
  /\ clearing \in {"idle", "asked", "cleared"}
  /\ shown \in Snapshots

\* The plot reads each frame once, and the frames it misses because they were
\* evicted before it asked are told to it as dropped_frames: all of them if the
\* view is never cleared, and never more than it missed.
PlotAccounts == toldMissed <= missed /\ missed <= toldMissed + wiped

\* Once the view is paused and the polls asked for before that have returned,
\* nothing but a clear changes what it shows.
PausedViewHolds ==
  [][(paused /\ \A e \in Effects : ~(polls[e].stage # "none" /\ polls[e].before))
       => shown' = shown \/ ApplyClear]_streamGuiVars

\* A server that stays up gets its stream back, and a view that is not paused
\* ends up with the latest frames, whatever older polls have shown meanwhile.
ViewCatchesUp ==
  <>[](up /\ ~paused) => <>[](link = "open" /\ shown = Now)

\* "drop時は累積数を必ず表示する" (doc/overview.md:290, when frames are dropped the
\* cumulative number is always shown): the server reports only drops that it has
\* not reported before, so each report raises the number that is shown.
DropsShownInFull == [][HandleDiagnostic => dropped' > dropped]_streamGuiVars
=============================================================================
