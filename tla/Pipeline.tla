------------------------------ MODULE Pipeline ------------------------------
(***************************************************************************)
(* The way of a frame through the program: from the line of a device into  *)
(* a capture file, in Standalone mode or over the stream in Client mode,   *)
(* from the capture to a file of signals and on to the points of a plot    *)
(* (capture, parse and plot of crates/canrush-cli/src/main.rs), and beside *)
(* the files over the stream to the live plot of the desktop application   *)
(* (apps/desktop/src-tauri/src/parse_plot.rs).                             *)
(***************************************************************************)
EXTENDS DataFiles

CONSTANTS
  Sent,       \* frames that a device sends
  BusNames,   \* names of buses, as texts
  Times,      \* host times
  Arguments,  \* arguments of a capture
  Configs,    \* parse configurations
  Layouts,    \* plot layouts
  Sources,    \* signal sources, to compare the extraction with its reference
  MaxFrames   \* bound: frames received

\* Frames as new_rx makes them that a line can carry: none has the error state
\* indicator, and a classic one has no bitrate switch.
SentFrames ==
  [id : Nat, id_format : IdFormats, frame_format : FrameFormats, frame_type : FrameTypes,
   dlc : Nat, data_length : Nat, data : Seq(Bytes), bitrate_switch : BOOLEAN,
   error_state_indicator : {FALSE}, timestamp_device : {{}}, raw : {{}}]

CaptureArguments ==
  [bus : SUBSET Text, include_tx : BOOLEAN, ranges : SUBSET [start : Nat, end : Nat],
   max_frames : SUBSET (Nat \ {0})]

ASSUME SentAssumption ==
  /\ Sent \subseteq SentFrames
  /\ \A frame \in Sent :
       /\ [frame EXCEPT !.bitrate_switch = FALSE] \in
            NewRx(frame.id, frame.id_format, frame.frame_format, frame.frame_type, frame.dlc,
                  frame.data)
       /\ frame.bitrate_switch => frame.frame_format = "fd"

ASSUME InputAssumption ==
  /\ Times \subseteq [secs : Nat, nanos : 0 .. Second - 1]
  /\ BusNames \subseteq Text
  /\ Arguments \subseteq CaptureArguments
  /\ \A chosen \in Arguments : \A m, n \in chosen.max_frames : m = n
  /\ Sources \subseteq SignalSources
  /\ Configs \subseteq ParseConfigs
  /\ Layouts \subseteq PlotLayouts

VARIABLES
  stage,    \* how far the user has gone
  reading,  \* the last line: the frame sent, its damage, the line, and what was read
  frames,   \* the frames received
  args,     \* the arguments of the capture
  window,   \* the numbers of the frames that arrived during the capture
  capture,  \* the text of the capture file
  config,   \* the parse configuration
  signals,  \* the text of the file of signals
  layout,   \* the plot layout
  points    \* the points of the plot

pipelineVars == <<stage, reading, frames, args, window, capture, config, signals, layout, points>>

Damages == {"none", "timestamp", "cut", "cut4", "extra", "noise", "bigId"}
NoLine  == [sent |-> {}, damage |-> "none", line |-> {}, read |-> {}]

PipelineInit ==
  /\ stage = "receiving"
  /\ reading = NoLine
  /\ frames = <<>>
  /\ args = {}
  /\ window = <<>>
  /\ capture = <<>>
  /\ config = {}
  /\ signals = {}
  /\ layout = {}
  /\ points = {}

\* The line as it arrives: whole, with a device timestamp, cut short by one
\* digit or by as many as a timestamp has, one digit longer, with a character
\* that is no digit, or with an identifier that does not exist.
Damaged(line, damage) ==
  LET n == Len(line.body)
  IN  [line EXCEPT !.body =
         CASE damage = "none"      -> @
           [] damage = "timestamp" -> @ \o <<0, 10, 9, 15>>
           [] damage = "cut"       -> SubSeq(@, 1, n - 1)
           [] damage = "cut4"      -> SubSeq(@, 1, n - 4)
           [] damage = "extra"     -> Append(@, 5)
           [] damage = "noise"     -> [@ EXCEPT ![n] = NoDigit]
           [] damage = "bigId"     -> [@ EXCEPT ![1] = IF line.header \in {"t", "r", "d", "b"}
                                                        THEN 8 ELSE 7]]

\* What new_rx adds: the bus and the name of the adapter, the host time, the
\* direction.
Received(frame, bus, time) ==
  [bus |-> bus, timestamp_host |-> time, timestamp_device |-> frame.timestamp_device,
   direction |-> "rx", id |-> frame.id, id_format |-> frame.id_format,
   frame_format |-> frame.frame_format, frame_type |-> frame.frame_type, dlc |-> frame.dlc,
   data_length |-> frame.data_length, data |-> frame.data,
   bitrate_switch |-> frame.bitrate_switch,
   error_state_indicator |-> frame.error_state_indicator,
   adapter |-> "weact_slcan_fd", raw |-> frame.raw]

\* The adapter reads a line; one that is no frame ends the reading.
ReceiveLine(sent, damage, bus, time) ==
  /\ stage = "receiving"
  /\ Len(frames) < MaxFrames
  /\ \E line \in FrameToLine(sent) :
       LET arrived == Damaged(line, damage)
           read    == ParseLine(arrived)
       IN  /\ reading' = [sent |-> {sent}, damage |-> damage, line |-> {arrived}, read |-> read]
           /\ \/ read = {} /\ stage' = "failed" /\ UNCHANGED frames
              \/ \E frame \in read : /\ frames' = Append(frames, Received(frame, bus, time))
                                     /\ UNCHANGED stage
  /\ UNCHANGED <<args, window, capture, config, signals, layout, points>>

\* A capture sees the frames from one on to another: it begins later than other
\* readers of the bus, and ends at its deadline, with its source, which a serial
\* port that is silent for 200 ms does in Standalone mode, or at its size.
Windows == {[i \in 1 .. last - first |-> first + i] : first, last \in 0 .. Len(frames)}

\* --max-frames.
Limited(chosen, kept) == SubSeq(kept, 1, Min({Len(kept)} \cup chosen.max_frames))

\* The numbers of the frames that capture_from_source keeps.
Held(chosen, seen) == Limited(chosen, KeptOf(seen, LAMBDA n : CaptureAccepts(chosen, frames[n])))

\* run_capture: capture_from_source and write_csv_file.
StandaloneText(chosen, seen) ==
  LET held == Held(chosen, seen)
  IN  FileText([i \in DOMAIN held |-> CaptureRow(frames[held[i]])])

\* run_client_capture: the events that the server sends of the frames that its
\* subscription accepts, less those of frames that were transmitted.
ClientText(queried, seen) ==
  LET Event(n) == FrameEvent(n - 1, frames[n])
      held == Limited(queried, KeptOf(seen, LAMBDA n :
                /\ StreamAccepts(queried, frames[n])
                /\ queried.include_tx \/ Event(n).direction = "rx"))
  IN  FileText([i \in DOMAIN held |-> EventRow(Event(held[i]))])

RunCapture(chosen, seen, text) ==
  /\ stage' = "captured"
  /\ args' = chosen
  /\ window' = seen
  /\ capture' = text
  /\ reading' = NoLine
  /\ UNCHANGED <<frames, config, signals, layout, points>>

\* A capture of its own fails with the adapter and writes no file; the server
\* has published what its worker received before it failed.
RunStandalone(chosen, seen) ==
  /\ stage = "receiving"
  /\ IdFilters(chosen.ranges) # {}
  /\ RunCapture(chosen, seen, StandaloneText(chosen, seen))

\* A query that is refused leaves no file.
RunClient(chosen, seen) ==
  /\ stage \in {"receiving", "failed"}
  /\ \E queried \in Queried(chosen) :
       RunCapture(queried, seen, ClientText(queried, seen))

\* A configuration that is not valid is refused, and so is a capture.
RunParse(chosen) ==
  /\ stage = "captured"
  /\ ValidConfig(chosen)
  /\ stage' = "parsed"
  /\ config' = chosen
  /\ signals' = {LET samples == ParseFrames(chosen, read)
                 IN  FileText([i \in DOMAIN samples |-> SampleRow(samples[i])]) :
                   read \in ReadCapture(capture)}
  /\ UNCHANGED <<reading, frames, args, window, capture, layout, points>>

RunPlot(chosen) ==
  /\ stage = "parsed"
  /\ ValidLayout(chosen)
  /\ stage' = "plotted"
  /\ layout' = chosen
  /\ points' = {BuildPlotPoints(chosen, samples) :
                  samples \in UNION {ReadSignals(text) : text \in signals}}
  /\ UNCHANGED <<reading, frames, args, window, capture, config, signals>>

PipelineNext ==
  \/ \E sent \in Sent, damage \in Damages, bus \in BusNames, time \in Times :
       ReceiveLine(sent, damage, bus, time)
  \/ \E chosen \in Arguments, seen \in Windows : \/ RunStandalone(chosen, seen)
                                                \/ RunClient(chosen, seen)
  \/ \E chosen \in Configs : RunParse(chosen)
  \/ \E chosen \in Layouts : RunPlot(chosen)

PipelineSpec == PipelineInit /\ [][PipelineNext]_pipelineVars

-----------------------------------------------------------------------------
(* Properties *)

\* A line that arrives whole is read as the frame that was sent, with the time
\* of the device if it carries one (0A9F is 2719) and with the line itself; one
\* damaged behind its header is not read as a frame, also not one that lost as
\* much as a timestamp; and the length of a frame gives back its DLC.
LinesReadBack ==
  /\ reading.read =
       IF reading.damage \in {"none", "timestamp"}
       THEN {[sent EXCEPT !.timestamp_device = IF reading.damage = "timestamp" THEN {2719} ELSE {},
                          !.raw = reading.line] : sent \in reading.sent}
       ELSE {}
  /\ \A frame \in reading.read :
       DlcFromDataLength(frame.frame_format, frame.data_length) = {frame.dlc}

\* The same arguments capture the same rows in both modes, from a device and
\* from the stream of a server that reads it (doc/server-cli.md:114), of the
\* frames that reach both: write_csv makes them of a frame, frame_event_csv_line
\* of the texts of an event.  Of other arguments this is not so: the server
\* refuses identifiers, and may find another name of a bus in the query.
ModesAgree ==
  stage \in {"receiving", "failed"} =>
    \A chosen \in Arguments, seen \in Windows :
      Queried(chosen) = {chosen} => StandaloneText(chosen, seen) = ClientText(chosen, seen)

\* What the stream has carried is the frame that was received, its host time to
\* the nanosecond, but for what an event does not hold: the time of the device
\* and the line are lost, and the adapter is the server.
StreamKeepsFrames ==
  \A i \in DOMAIN frames :
    FrameFromEvent(FrameEvent(i - 1, frames[i])) =
      {[frames[i] EXCEPT !.timestamp_device = {}, !.adapter = "server", !.raw = {}]}

Numbers == Held(args, window)
Kept == [i \in DOMAIN Numbers |-> frames[Numbers[i]]]
HasNewline(text) == Newline \in ToSet(text)

\* A frame as a capture tells of it: its host time to the millisecond, without
\* the time of the device, its adapter the file and its line the row.
AsCaptured(frame) ==
  [frame EXCEPT !.timestamp_host.nanos = 1000000 * (@ \div 1000000), !.timestamp_device = {},
                !.adapter = "capture-csv", !.raw = {CaptureRow(frame)}]

\* A capture is read back frame by frame, whatever the name of the bus.  A name
\* with a line break, which csv_escape puts in quotes, makes the whole file
\* unreadable, but never a different capture.
CaptureReadsBack ==
  stage = "captured" =>
    ReadCapture(capture) =
      IF \E i \in DOMAIN Kept : HasNewline(Kept[i].bus) THEN {}
      ELSE {[i \in DOMAIN Kept |-> AsCaptured(Kept[i])]}

\* The bytes of a frame as one number, least or most significant byte first.
AsNumber(data, endian) ==
  FoldLeft(LAMBDA value, byte : 256 * value + byte, 0,
           IF endian = "little" THEN Reverse(data) ELSE data)

\* The number of bits below a signal in that number.
BitsBelow(data, source) ==
  IF source.endian = "little" THEN StartBit(source)
  ELSE 8 * Len(data) - StartBit(source) - source.bit_length

ReferenceBits(data, source) ==
  (AsNumber(data, source.endian) \div TwoTo[BitsBelow(data, source)]) % TwoTo[source.bit_length]

\* The number in two's complement.
ReferenceValue(data, source) ==
  LET bits == ReferenceBits(data, source)
  IN  IF EffectiveDataType(source) = "signed-int" /\ 2 * bits >= TwoTo[source.bit_length]
      THEN bits - TwoTo[source.bit_length] ELSE bits

\* The float nearest to n, among those with a mantissa of MantissaBits bits; of
\* two it is the one whose last bit is zero.
IsFloatOf(v, n) ==
  \A e \in 0 .. WordBits :
    /\ Magnitude(n) < TwoTo[MantissaBits + e] => 2 * Magnitude(v - n) <= TwoTo[e]
    /\ (e > 0 /\ Magnitude(n) >= TwoTo[MantissaBits + e - 1]) =>
         v % TwoTo[IF 2 * Magnitude(v - n) = TwoTo[e] THEN e + 1 ELSE e] = 0

\* An integer signal of a valid configuration is a field of bits of the data
\* as one number, in two's complement if it is signed, rounded to a float, and
\* is missing exactly when it ends behind the data.
ExtractedAsReference(data, source) ==
  (ValidSource(source) /\ source.data_type # "float32") =>
    IF StartBit(source) + source.bit_length > 8 * Len(data) THEN ExtractValue(data, source) = {}
    ELSE \E v \in ExtractValue(data, source) :
           /\ ExtractValue(data, source) = {v}
           /\ IsFloatOf(v, ReferenceValue(data, source))

\* This holds of every source and the first frame, if it is short enough for
\* the numbers of the model checker.
ExtractionMatchesReference ==
  (stage = "receiving" /\ Len(frames) = 1 /\ reading.damage = "none") =>
    \A source \in Sources :
      Len(frames[1].data) <= 3 => ExtractedAsReference(frames[1].data, source)

\* parse_plot_live_since of all frames: the desktop application has them over
\* its own stream, which is of all buses, and numbers them as they arrive.
LivePoints(selected) ==
  LET chosen  == SelectPlotLayout(layout, selected)
      ids     == UNION {{s.signal_id : s \in ToSet(p.series)} : p \in ToSet(chosen.panels)}
      history == FlattenSeq([i \in DOMAIN frames |->
                   SetToSeq(FrameFromEvent(FrameEvent(i - 1, frames[i])))])
      samples == KeptOf(ParseFrames(config, history), LAMBDA s : s.signal_id \in ids)
  IN  BuildPlotPoints(chosen, samples)

AllSeries == UNION {{s.id : s \in ToSet(p.series)} : p \in ToSet(layout.panels)}
Scales == UNION {{s.scale : s \in ToSet(p.series)} : p \in ToSet(layout.panels)}

\* Two values that differ by no more than the digits a file leaves out.
Near(v, w) ==
  \/ v.nan /\ w.nan
  \/ ~v.nan /\ ~w.nan /\ \E scale \in Scales, rest \in -5 .. 5 :
                             v.steps - w.steps = scale * rest

\* The points that the live plot of any choice of series shows of the frames of
\* a capture are those that the files make of the capture, in the same order;
\* their values differ only by the six decimals of the file between, and a file
\* numbers the frames of its capture where the application numbers all.
PlotsAgree ==
  \A made \in points : \A selected \in SUBSET AllSeries :
    LET live == KeptOf(LivePoints(selected), LAMBDA point : point.source_sequence \in ToSet(Numbers))
        own  == KeptOf(made, LAMBDA point : point.series_id \in selected)
    IN  /\ Len(live) = Len(own)
        /\ \A i \in DOMAIN live :
             /\ live[i].source_sequence = Numbers[own[i].source_sequence]
             /\ Near(live[i].value, own[i].value)
             /\ [live[i] EXCEPT !.value = NaN, !.source_sequence = 0] =
                  [own[i] EXCEPT !.value = NaN, !.source_sequence = 0]
=============================================================================
