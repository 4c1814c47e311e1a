----------------------------- MODULE MCPipeline -----------------------------
(* Instances of Pipeline for TLC. *)
EXTENDS Pipeline

\* Frames of every kind: remote, with a length that only CAN FD has, and at the
\* limits of identifiers.
MCSent ==
  UNION {NewRx(291, "standard", "classic", "data", 2, <<52, 210>>),
         NewRx(2047, "standard", "classic", "remote", 8, <<>>),
         NewRx(536870911, "extended", "classic", "data", 3, <<255, 0, 129>>),
         NewRx(291, "standard", "fd", "data", 4, <<1, 2, 3, 4>>),
         {[frame EXCEPT !.bitrate_switch = TRUE] :
            frame \in NewRx(0, "extended", "fd", "data", 9, [i \in 1 .. 12 |-> 20 * i])}}

Letter(c) == <<Char(c)>>

\* A plain name, one with a comma and a quote, and one with a line break.
MCBusNames == {Letter("a"), <<Comma, Quote, Char("a")>>, <<Quote, Newline>>}
MCTimes == {[secs |-> 1, nanos |-> 7999999]}

\* All frames, those of a bus, of one whose name a query cuts, of an identifier,
\* of a range that is none; with a limit of one frame and without.
MCArguments ==
  {[bus |-> {}, include_tx |-> FALSE, ranges |-> {}, max_frames |-> {}],
   [bus |-> {Letter("a")}, include_tx |-> FALSE, ranges |-> {}, max_frames |-> {1}],
   [bus |-> {<<Char("a"), Char("&")>>}, include_tx |-> FALSE, ranges |-> {}, max_frames |-> {}]} \cup
  {[bus |-> {}, include_tx |-> FALSE, ranges |-> {range}, max_frames |-> {}] :
     range \in {[start |-> 291, end |-> 291], [start |-> 2, end |-> 1]}}

MCSources ==
  [data_type : {"unsigned-int", "signed-int"}, byte_offset : 0 .. 2, bit_offset : 0 .. 8,
   bit_length : 0 .. 17, endian : {"little", "big"}, signed : BOOLEAN]

\* A name that needs quoting, a unit that is empty.
Signal(id, source, scale) ==
  [id |-> Letter(id), name |-> <<Quote, Comma>>, unit |-> <<>>, source |-> source,
   scale |-> scale, offset |-> 3,
   selector |-> [bus |-> {}, id |-> 291, id_format |-> {"standard"},
                 frame_format |-> {}, frame_type |-> {"data"}]]

Source(type, length, endian) ==
  [data_type |-> type, byte_offset |-> 0, bit_offset |-> 0, bit_length |-> length,
   endian |-> endian, signed |-> TRUE]

\* A configuration of three signals whose values need rounding in a file, and
\* one that is refused.
MCConfigs ==
  {[version |-> 1, signals |-> <<Signal("x", Source("unsigned-int", 12, "big"), 7),
                                 Signal("y", Source("float32", 32, "little"), 1),
                                 Signal("z", Source("signed-int", 16, "little"), -1)>>],
   [version |-> 1, signals |-> <<Signal("x", Source("signed-int", 0, "big"), 1)>>]}

Series(id, signal, label, scale) ==
  [id |-> Letter(id), signal_id |-> Letter(signal), label |-> label, scale |-> scale,
   offset |-> 1, unit_override |-> IF id = "p" THEN {} ELSE {<<Char("V")>>}]

\* A layout with two panels, of which one shows a signal twice, and one that
\* is refused.
MCLayouts ==
  {[version |-> 1, panels |->
      <<[id |-> <<Comma>>, series |-> <<Series("p", "x", <<>>, 2), Series("q", "x", Letter("L"), -2)>>],
        [id |-> Letter("P"), series |-> <<Series("r", "y", Letter("L"), 1)>>]>>],
   [version |-> 1, panels |-> <<[id |-> <<>>, series |-> <<Series("p", "x", <<>>, 1)>>]>>]}
=============================================================================
