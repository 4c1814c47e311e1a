----------------------------- MODULE FrameCodec -----------------------------
(***************************************************************************)
(* The CAN frame of canrush-core and its SLCAN line, as the WeAct device   *)
(* sends and takes it (crates/canrush-core/src/model.rs, protocol/slcan.rs *)
(* and protocol/weact.rs).                                                 *)
(*                                                                         *)
(* A line is its header and the hex digits behind it, digits as numbers; a *)
(* character that is no hex digit is NoDigit (a plus sign, which Rust's    *)
(* from_str_radix takes in front of a number, is left out).  A function    *)
(* that returns a Result is the set of its outcomes: empty for Err, one    *)
(* element for Ok.                                                         *)
(***************************************************************************)
EXTENDS Naturals, Sequences, SequencesExt

Digits  == 0 .. 15
NoDigit == 16
Bytes   == 0 .. 255

Line == [header : STRING, body : Seq(Digits \cup {NoDigit})]

IdFormats    == {"standard", "extended"}
FrameFormats == {"classic", "fd"}
FrameTypes   == {"data", "remote", "error"}

-----------------------------------------------------------------------------
(* Data lengths, identifiers and frames *)

MaxDlc(format) == IF format = "classic" THEN 8 ELSE 15

LongLengths == <<12, 16, 20, 24, 32, 48, 64>>

\* data_length_from_dlc, for a DLC up to MaxDlc.
DataLength(dlc) == IF dlc <= 8 THEN dlc ELSE LongLengths[dlc - 8]

\* dlc_from_data_length.
DlcFromDataLength(format, length) == {dlc \in 0 .. MaxDlc(format) : DataLength(dlc) = length}

MaxId(idFormat) == IF idFormat = "standard" THEN 2047 ELSE 536870911

FitsDlc(type, dlc, data) ==
  /\ type = "data" => Len(data) = DataLength(dlc)
  /\ type = "remote" => data = <<>>

\* CanFrame::new_rx, without what Pipeline adds; an Option is a set of at most
\* one element.
NewRx(id, idFormat, format, type, dlc, data) ==
  {frame \in {[id |-> id, id_format |-> idFormat, frame_format |-> format,
               frame_type |-> type, dlc |-> dlc,
               data_length |-> IF dlc <= MaxDlc(format) THEN DataLength(dlc) ELSE 0,
               data |-> data, bitrate_switch |-> FALSE,
               error_state_indicator |-> FALSE, timestamp_device |-> {}, raw |-> {}]} :
     /\ id <= MaxId(idFormat)
     /\ dlc <= MaxDlc(format)
     /\ FitsDlc(type, dlc, data)}

-----------------------------------------------------------------------------
(* Hex digits *)

HexValue(digits) == FoldLeft(LAMBDA value, digit : 16 * value + digit, 0, digits)

\* The last n digits of a number, "{:03X}" and "{:08X}".
HexDigits(value, n) == [i \in 1 .. n |-> (value \div 16 ^ (n - i)) % 16]

AllDigits(digits) == NoDigit \notin ToSet(digits)

\* CanFrame::data_hex.
DataHex(data) ==
  [i \in 1 .. 2 * Len(data) |->
     IF i % 2 = 1 THEN data[(i + 1) \div 2] \div 16 ELSE data[i \div 2] % 16]

\* parse_data_bytes, and parse_hex_bytes of the capture and of the stream.
HexBytes(digits) ==
  {data \in {[i \in 1 .. Len(digits) \div 2 |-> 16 * digits[2 * i - 1] + digits[2 * i]]} :
     Len(digits) % 2 = 0 /\ AllDigits(digits)}

-----------------------------------------------------------------------------
(* Lines *)

Header == [t |-> [id_format |-> "standard", frame_format |-> "classic", frame_type |-> "data",   brs |-> FALSE],
           T |-> [id_format |-> "extended", frame_format |-> "classic", frame_type |-> "data",   brs |-> FALSE],
           r |-> [id_format |-> "standard", frame_format |-> "classic", frame_type |-> "remote", brs |-> FALSE],
           R |-> [id_format |-> "extended", frame_format |-> "classic", frame_type |-> "remote", brs |-> FALSE],
           d |-> [id_format |-> "standard", frame_format |-> "fd",      frame_type |-> "data",   brs |-> FALSE],
           D |-> [id_format |-> "extended", frame_format |-> "fd",      frame_type |-> "data",   brs |-> FALSE],
           b |-> [id_format |-> "standard", frame_format |-> "fd",      frame_type |-> "data",   brs |-> TRUE],
           B |-> [id_format |-> "extended", frame_format |-> "fd",      frame_type |-> "data",   brs |-> TRUE]]

IdDigits(idFormat) == IF idFormat = "standard" THEN 3 ELSE 8

\* Mutated form of LengthFits: a longer line is cut to what its DLC says.
LengthFitsCut(length, base) == length >= base

\* With or without the four digits of a device timestamp.
LengthFits(length, base) == length \in {base, base + 4}

\* parse_classic_line, and parse_fd_line with the DLCs of CAN FD.
ParseAs(kind, line) ==
  LET n    == IdDigits(kind.id_format)
      dlc  == line.body[n + 1]
      base == n + 1 + IF kind.frame_type = "data" THEN 2 * DataLength(dlc) ELSE 0
      hex  == SubSeq(line.body, n + 2, base)
      rest == SubSeq(line.body, base + 1, Len(line.body))
  IN  IF /\ Len(line.body) >= n + 1
         /\ AllDigits(SubSeq(line.body, 1, n + 1))
         /\ dlc <= MaxDlc(kind.frame_format)
         /\ LengthFits(Len(line.body), base)
         /\ AllDigits(rest)
      THEN UNION {{[frame EXCEPT !.bitrate_switch = kind.brs,
                                 !.timestamp_device = IF rest = <<>> THEN {} ELSE {HexValue(rest)},
                                 !.raw = {line}] :
                     frame \in NewRx(HexValue(SubSeq(line.body, 1, n)), kind.id_format,
                                     kind.frame_format, kind.frame_type, dlc, data)} :
                    data \in HexBytes(hex)}
      ELSE {}

\* weact::parse_line.
ParseLine(line) ==
  IF line.header \in DOMAIN Header THEN ParseAs(Header[line.header], line) ELSE {}

HeadersOf(frame) ==
  {h \in DOMAIN Header :
     Header[h] = [id_format |-> frame.id_format, frame_format |-> frame.frame_format,
                  frame_type |-> frame.frame_type,
                  brs |-> frame.frame_format = "fd" /\ frame.bitrate_switch]}

\* frame_to_line: error frames, and remote frames of CAN FD, have no line.
FrameToLine(frame) ==
  {[header |-> h, body |-> HexDigits(frame.id, IdDigits(frame.id_format)) \o <<frame.dlc>>
                             \o DataHex(frame.data)] : h \in HeadersOf(frame)}
=============================================================================
