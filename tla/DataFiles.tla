----------------------------- MODULE DataFiles -----------------------------
(***************************************************************************)
(* What the program makes of its data for others to read: the events of    *)
(* the stream (crates/canrush-core/src/api.rs, read by stream.rs of the    *)
(* desktop application), the rows of a capture (capture.rs, and main.rs of *)
(* the CLI in Client mode), and the files of signals and of plot points    *)
(* (parser.rs and plot.rs), with the arguments that choose what a capture  *)
(* holds.                                                                  *)
(*                                                                         *)
(* Host times are those of 1970 and later, which SystemTime::now returns.  *)
(* A flag text is the set of its flags, and header lines are left out.     *)
(***************************************************************************)
EXTENDS Signals

-----------------------------------------------------------------------------
(* Frames on the stream and in the capture *)

Flags(frame) == {flag \in {"brs", "esi"} : \/ flag = "brs" /\ frame.bitrate_switch
                                           \/ flag = "esi" /\ frame.error_state_indicator}

\* The nanoseconds of a second.
Second == 1000000000

\* system_time_unix_ns_string.
UnixNs(time) == Decimal(time.secs * Second + time.nanos)

\* FrameEventDto::from_frame; dlc and data_length are numbers in JSON too.
FrameEvent(sequence, frame) ==
  [sequence |-> sequence, timestamp_host_unix_ns |-> UnixNs(frame.timestamp_host),
   bus |-> frame.bus, direction |-> frame.direction, id |-> PrefixedHex(frame.id),
   id_format |-> frame.id_format, frame_format |-> frame.frame_format,
   frame_type |-> frame.frame_type, dlc |-> frame.dlc, data_length |-> frame.data_length,
   flags |-> Flags(frame), data_hex |-> DataHex(frame.data)]

\* A CanFrame made of what an event or a row says.
FrameOf(fields, time, adapter, raw) ==
  {[bus |-> fields.bus, timestamp_host |-> time, timestamp_device |-> {},
    direction |-> fields.direction, id |-> fields.id, id_format |-> fields.id_format,
    frame_format |-> fields.frame_format, frame_type |-> fields.frame_type,
    dlc |-> fields.dlc, data_length |-> fields.data_length, data |-> data,
    bitrate_switch |-> "brs" \in fields.flags,
    error_state_indicator |-> "esi" \in fields.flags,
    adapter |-> adapter, raw |-> raw] : data \in HexBytes(fields.data_hex)}

\* Mutated form of ParseUnixNs: what is beyond the milliseconds is lost.
ParseUnixMs(ns) ==
  [secs |-> ns \div Second, nanos |-> 1000000 * ((ns % Second) \div 1000000)]

\* parse_unix_ns, of a text that holds a number.
ParseUnixNs(ns) == [secs |-> ns \div Second, nanos |-> ns % Second]

\* frame_from_event of the desktop's stream worker.
FrameFromEvent(event) ==
  UNION {FrameOf([event EXCEPT !.id = id], ParseUnixNs(ns), "server", {}) :
           id \in ReadCanId(event.id), ns \in ReadDecimal(event.timestamp_host_unix_ns)}

\* write_csv.
CaptureRow(frame) ==
  Joined(<<Field(FormatTimestamp(frame.timestamp_host)), Escape(frame.bus),
           Field(frame.direction), Field(PrefixedHex(frame.id)), Field(frame.id_format),
           Field(frame.frame_format), Field(frame.frame_type), Field(UpperHex(frame.dlc)),
           Field(Decimal(frame.data_length)), Escape(Field(Flags(frame))),
           Field(DataHex(frame.data))>>)

\* Mutated form of CsvTimestamp: the milliseconds are rounded.
CsvTimestampRounded(ns) ==
  [secs |-> ns \div Second, millis |-> ((ns % Second) + 500000) \div 1000000]

\* unix_ns_to_csv_timestamp, of a text that holds a number.
CsvTimestamp(ns) == [secs |-> ns \div Second, millis |-> (ns % Second) \div 1000000]

\* frame_event_csv_line of a capture in Client mode.
EventRow(event) ==
  Joined(<<Field(CsvTimestamp(CHOOSE ns \in ReadDecimal(event.timestamp_host_unix_ns) : TRUE)),
           Escape(event.bus), Field(event.direction), Field(event.id), Field(event.id_format),
           Field(event.frame_format), Field(event.frame_type), Field(UpperHex(event.dlc)),
           Field(Decimal(event.data_length)), Escape(Field(event.flags)),
           Field(event.data_hex)>>)

\* parse_csv_timestamp.
ParseCsvTimestamp(time) == [secs |-> time.secs, nanos |-> 1000000 * time.millis]

CaptureFields(columns, id, dlc, length) ==
  [bus |-> columns[2], direction |-> FieldOf(columns[3]), id |-> id,
   id_format |-> FieldOf(columns[5]), frame_format |-> FieldOf(columns[6]),
   frame_type |-> FieldOf(columns[7]), dlc |-> dlc, data_length |-> length,
   flags |-> FieldOf(columns[10]), data_hex |-> FieldOf(columns[11])]

\* parse_capture_csv_line.
ReadCaptureRow(line) ==
  LET columns == SplitLine(line)
  IN  IF Len(columns) # 11 \/ \E i \in 1 .. 11 \ {2} : ~IsField(columns[i]) THEN {}
      ELSE UNION {FrameOf(CaptureFields(columns, id, dlc, length),
                          ParseCsvTimestamp(FieldOf(columns[1])), "capture-csv", {line}) :
                    id \in ReadCanId(FieldOf(columns[4])), dlc \in ReadHex(FieldOf(columns[8])),
                    length \in ReadDecimal(FieldOf(columns[9]))}

\* read_capture_csv_file.
ReadCapture(text) == ReadRows(text, ReadCaptureRow)

-----------------------------------------------------------------------------
(* Which frames a capture holds *)

\* CanIdFilter: one identifier is a range of one.
RangeHolds(range, id) == range.start <= id /\ id <= range.end

\* parse_id_filters of the CLI, and parse_stream_id_filters of the server.
IdFilters(ranges) ==
  IF \E range \in ranges : range.start > range.end THEN {} ELSE {ranges}

IdMatches(filters, id) == filters = {} \/ \E range \in filters : RangeHolds(range, id)

\* CaptureOptions::accepts; an empty set of buses stands for all buses.
CaptureAccepts(args, frame) ==
  /\ args.bus = {} \/ frame.bus \in args.bus
  /\ args.include_tx \/ frame.direction = "rx"
  /\ IdMatches(args.ranges, frame.id)

\* SubscribeOptions::accepts in the server.
StreamAccepts(args, frame) ==
  /\ args.bus = {} \/ frame.bus \in args.bus
  /\ IdMatches(args.ranges, frame.id)

\* The name of a bus as the server finds it in the query of a URL that holds it
\* as it is: what stands for itself there, up to the next key or the fragment,
\* a plus sign being a blank; a name with a character that no URL may have is
\* none.  Names with a percent sign, and with a key of the query behind an
\* ampersand, are left out.
NotInUrl == {Quote, Newline, Char(" "), Char("<"), Char(">")}
UrlEnds  == {Char("&"), Char("#")}

QueriedBus(name) ==
  LET end == CHOOSE n \in 0 .. Len(name) :
               /\ \A i \in 1 .. n : name[i] \notin UrlEnds
               /\ n < Len(name) => name[n + 1] \in UrlEnds
  IN  IF ToSet(name) \cap NotInUrl # {} THEN {}
      ELSE {[i \in 1 .. end |-> IF name[i] = Char("+") THEN Char(" ") ELSE name[i]]}

\* What the server makes of the query of a capture's stream: keys id and
\* id_range are refused, since Query reads no list from them.
Queried(args) ==
  IF args.ranges # {} THEN {}
  ELSE {[args EXCEPT !.bus = bus] :
          bus \in IF args.bus = {} THEN {{}} ELSE {QueriedBus(name) : name \in args.bus} \ {{}}}

-----------------------------------------------------------------------------
(* Samples and points in files *)

\* Mutated form of Printed: one digit less.
PrintedShort(value) == IF value.nan THEN NaN ELSE Number(100 * ((value.steps + 50) \div 100))

\* format_float: six decimals, ten steps each.
Printed(value) == IF value.nan THEN NaN ELSE Number(10 * ((value.steps + 5) \div 10))

\* write_signal_csv.
SampleRow(sample) ==
  Joined(<<Field(sample.timestamp_host), Escape(sample.bus), Field(sample.frame_id),
           Escape(sample.signal_id), Escape(sample.name), Field(Printed(sample.value)),
           Escape(sample.unit), Field(sample.quality), Field(sample.source_sequence)>>)

\* parse_signal_csv_line.
ReadSampleRow(line) ==
  LET columns == SplitLine(line)
  IN  IF Len(columns) # 9 \/ \E i \in {1, 3, 6, 8, 9} : ~IsField(columns[i]) THEN {}
      ELSE {[timestamp_host |-> FieldOf(columns[1]), bus |-> columns[2],
             frame_id |-> FieldOf(columns[3]), signal_id |-> columns[4], name |-> columns[5],
             value |-> FieldOf(columns[6]), unit |-> columns[7], quality |-> FieldOf(columns[8]),
             source_sequence |-> FieldOf(columns[9])]}

\* read_signal_csv_file.
ReadSignals(text) == ReadRows(text, ReadSampleRow)

\* write_plot_csv.
PointRow(point) ==
  Joined(<<Field(point.timestamp_host), Escape(point.panel_id), Escape(point.series_id),
           Escape(point.source_signal_id), Escape(point.name), Field(Printed(point.value)),
           Escape(point.unit), Field(point.quality), Field(point.source_sequence)>>)
=============================================================================
