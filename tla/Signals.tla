------------------------------ MODULE Signals ------------------------------
(***************************************************************************)
(* From a frame to signal values and plot points: the parse configuration  *)
(* and the plot layout with their validation, the extraction of a signal   *)
(* from the bits of a frame, and the points of a plot                      *)
(* (crates/canrush-core/src/parser.rs and plot.rs, and select_plot_layout  *)
(* of apps/desktop/src-tauri/src/parse_plot.rs).                           *)
(*                                                                         *)
(* A value is an integral number of steps of 10^-7, ten of which are the   *)
(* last digit that a CSV file prints.  An integer becomes a float as the   *)
(* code makes it one, rounded to the bits of a mantissa; the products and  *)
(* sums of floats after that are exact here, so that what is said of       *)
(* values is said of those an f64 holds.  A float32 is told apart by its   *)
(* four bytes and stands for the number these are in base 256.             *)
(*                                                                         *)
(* A host time is seconds and the nanoseconds beyond them.                 *)
(***************************************************************************)
EXTENDS Integers, FrameCodec, CsvText

CONSTANTS
  WordBits,     \* bits of the integers a signal is extracted to: 64
  MantissaBits  \* bits of a float that hold its leading digits: 53

ASSUME WordAssumption == WordBits \in Nat \ {0}
ASSUME MantissaAssumption == MantissaBits \in Nat \ {0}

DataTypes == {"unsigned-int", "signed-int", "float32"}

SignalSources ==
  [data_type : DataTypes, byte_offset : Nat, bit_offset : Nat, bit_length : Nat,
   endian : {"little", "big"}, signed : BOOLEAN]

\* An empty set stands for a field left out.
FrameSelectors ==
  [bus : SUBSET Text, id : Nat, id_format : SUBSET IdFormats,
   frame_format : SUBSET FrameFormats, frame_type : SUBSET FrameTypes]

SignalDefinitions ==
  [id : Text, name : Text, unit : Text, source : SignalSources, scale : Int, offset : Int,
   selector : FrameSelectors]

ParseConfigs == [version : Nat, signals : Seq(SignalDefinitions)]

SeriesConfigs ==
  [id : Text, signal_id : Text, label : Text, scale : Int, offset : Int,
   unit_override : SUBSET Text]

PlotPanels  == [id : Text, series : Seq(SeriesConfigs)]
PlotLayouts == [version : Nat, panels : Seq(PlotPanels)]

-----------------------------------------------------------------------------
(* Validation *)

EffectiveDataType(source) ==
  IF source.signed /\ source.data_type = "unsigned-int" THEN "signed-int"
  ELSE source.data_type

ValidSource(source) ==
  /\ IF EffectiveDataType(source) = "float32"
     THEN source.bit_offset = 0 /\ source.bit_length = 32
     ELSE source.bit_length \in 1 .. WordBits
  /\ source.bit_offset <= 7

\* ParseConfig::validate; a text that is blank is empty.
ValidConfig(config) ==
  /\ config.version > 0
  /\ config.signals # <<>>
  /\ \A i \in DOMAIN config.signals :
       /\ config.signals[i].id # <<>>
       /\ config.signals[i].name # <<>>
       /\ ValidSource(config.signals[i].source)

\* PlotLayout::validate.
ValidLayout(layout) ==
  /\ layout.version > 0
  /\ layout.panels # <<>>
  /\ \A i \in DOMAIN layout.panels :
       /\ layout.panels[i].id # <<>>
       /\ layout.panels[i].series # <<>>
       /\ \A j \in DOMAIN layout.panels[i].series :
            /\ layout.panels[i].series[j].id # <<>>
            /\ layout.panels[i].series[j].signal_id # <<>>

-----------------------------------------------------------------------------
(* Extraction *)

\* 1 << n.
TwoTo[n \in Nat] == IF n = 0 THEN 1 ELSE 2 * TwoTo[n - 1]

StartBit(source) == 8 * source.byte_offset + source.bit_offset

\* The bits of a byte, from the lowest and from the highest.
LowBit(byte, n)  == (byte \div TwoTo[n]) % 2
HighBit(byte, n) == LowBit(byte, 7 - n)

\* value |= bit << output_bit, for each bit of the signal.
ExtractLittleEndian(data, start, length) ==
  FoldLeft(LAMBDA value, n : value + LowBit(data[1 + (start + n) \div 8], (start + n) % 8) * TwoTo[n],
           0, [i \in 1 .. length |-> i - 1])

\* value = (value << 1) | bit.
ExtractBigEndian(data, start, length) ==
  FoldLeft(LAMBDA value, n : 2 * value + HighBit(data[1 + (start + n) \div 8], (start + n) % 8),
           0, [i \in 1 .. length |-> i - 1])

HasBits(data, source) == StartBit(source) + source.bit_length <= 8 * Len(data)

ExtractRaw(data, source) ==
  IF ~HasBits(data, source) THEN {}
  ELSE IF source.endian = "little"
       THEN {ExtractLittleEndian(data, StartBit(source), source.bit_length)}
       ELSE {ExtractBigEndian(data, StartBit(source), source.bit_length)}

\* A word of WordBits bits taken for a signed one.
AsSigned(word) == IF word >= TwoTo[WordBits - 1] THEN word - TwoTo[WordBits] ELSE word

\* Mutated form of SignExtend: a full word is left unsigned.
SignExtendNarrow(value, length) ==
  IF length = WordBits THEN value
  ELSE IF (value \div TwoTo[length - 1]) % 2 = 0 THEN value
  ELSE AsSigned(value + TwoTo[WordBits] - TwoTo[length])

\* sign_extend: the bits above the sign bit are filled with it.
SignExtend(value, length) ==
  IF length = WordBits THEN AsSigned(value)
  ELSE IF (value \div TwoTo[length - 1]) % 2 = 0 THEN value
  ELSE AsSigned(value + TwoTo[WordBits] - TwoTo[length])

ExtractFloat32(data, source) ==
  LET bytes == SubSeq(data, source.byte_offset + 1, source.byte_offset + 4)
      order == IF source.endian = "little" THEN Reverse(bytes) ELSE bytes
  IN  IF source.byte_offset + 4 > Len(data) THEN {}
      ELSE {FoldLeft(LAMBDA value, byte : 256 * value + byte, 0, order)}

Magnitude(n) == IF n < 0 THEN -n ELSE n

\* How many bits a number has beyond those of a mantissa.
Excess(n) ==
  CHOOSE e \in 0 .. WordBits :
    /\ Magnitude(n) < TwoTo[MantissaBits + e]
    /\ \A d \in 0 .. WordBits : Magnitude(n) < TwoTo[MantissaBits + d] => e <= d

\* A number to the nearest multiple of 2^e, to the even one of two.
Rounded(n, e) ==
  LET whole == n \div TwoTo[e]
      rest  == n % TwoTo[e]
  IN  IF 2 * rest > TwoTo[e] \/ (2 * rest = TwoTo[e] /\ whole % 2 = 1)
      THEN (whole + 1) * TwoTo[e] ELSE whole * TwoTo[e]

\* n as f64.
AsFloat(n) ==
  IF n < 0 THEN -Rounded(Magnitude(n), Excess(n)) ELSE Rounded(n, Excess(n))

\* extract_signal_value.
ExtractValue(data, source) ==
  CASE EffectiveDataType(source) = "unsigned-int" ->
         {AsFloat(value) : value \in ExtractRaw(data, source)}
    [] EffectiveDataType(source) = "signed-int" ->
         {AsFloat(SignExtend(value, source.bit_length)) : value \in ExtractRaw(data, source)}
    [] EffectiveDataType(source) = "float32" -> ExtractFloat32(data, source)

-----------------------------------------------------------------------------
(* Samples and points *)

\* FrameSelector::matches.
Matches(selector, frame) ==
  /\ selector.bus # {} => frame.bus \in selector.bus
  /\ selector.id = frame.id
  /\ selector.id_format # {} => frame.id_format \in selector.id_format
  /\ selector.frame_format # {} => frame.frame_format \in selector.frame_format
  /\ selector.frame_type # {} => frame.frame_type \in selector.frame_type

\* NaN is a value of its own.
Number(value) == [nan |-> FALSE, steps |-> value]
NaN           == [nan |-> TRUE, steps |-> 0]

Affine(value, scale, offset) ==
  IF value.nan THEN NaN ELSE Number(value.steps * scale + offset)

\* format_timestamp, and format_system_time of a capture, which is the same:
\* "{}.{:03}" of the seconds and the milliseconds beyond them.
FormatTimestamp(time) == [secs |-> time.secs, millis |-> time.nanos \div 1000000]

\* signal_sample.
Sample(signal, frame, sequence) ==
  LET raw == ExtractValue(frame.data, signal.source)
  IN  [timestamp_host |-> FormatTimestamp(frame.timestamp_host), bus |-> frame.bus,
       frame_id |-> PrefixedHex(frame.id),
       signal_id |-> signal.id, name |-> signal.name,
       value |-> IF raw = {} THEN NaN
                 ELSE Affine(Number(CHOOSE r \in raw : TRUE), signal.scale, signal.offset),
       unit |-> signal.unit,
       quality |-> IF raw = {} THEN "parse-error" ELSE "ok",
       source_sequence |-> sequence]

\* parse_frame.
ParseFrame(config, frame, sequence) ==
  LET matching == KeptOf(config.signals, LAMBDA signal : Matches(signal.selector, frame))
  IN  [i \in DOMAIN matching |-> Sample(matching[i], frame, sequence)]

\* parse_frames: the sequence of a frame is its row.
ParseFrames(config, frames) ==
  FlattenSeq([i \in DOMAIN frames |-> ParseFrame(config, frames[i], i)])

Point(panel, series, sample) ==
  [timestamp_host |-> sample.timestamp_host, panel_id |-> panel.id, series_id |-> series.id,
   source_signal_id |-> sample.signal_id,
   name |-> IF series.label = <<>> THEN sample.name ELSE series.label,
   value |-> Affine(sample.value, series.scale, series.offset),
   unit |-> IF series.unit_override = {} THEN sample.unit
            ELSE CHOOSE unit \in series.unit_override : TRUE,
   quality |-> sample.quality, source_sequence |-> sample.source_sequence]

\* build_plot_points: panel by panel, series by series, sample by sample.
BuildPlotPoints(layout, samples) ==
  FlattenSeq([p \in DOMAIN layout.panels |->
    FlattenSeq([s \in DOMAIN layout.panels[p].series |->
      LET series == layout.panels[p].series[s]
          own    == KeptOf(samples, LAMBDA sample : sample.signal_id = series.signal_id)
      IN  [i \in DOMAIN own |-> Point(layout.panels[p], series, own[i])]])])

\* select_plot_layout: the chosen series, and the panels that hold any.
SelectPlotLayout(layout, selected) ==
  LET chosen == [p \in DOMAIN layout.panels |->
                   [layout.panels[p] EXCEPT !.series =
                      KeptOf(@, LAMBDA series : series.id \in selected)]]
  IN  [layout EXCEPT !.panels = KeptOf(chosen, LAMBDA panel : panel.series # <<>>)]
=============================================================================
