---------------------------- MODULE SerialAdapter ----------------------------
(***************************************************************************)
(* WeActSerialAdapter (crates/canrush-core/src/adapter.rs) on one serial   *)
(* port, with the device behind it and its two owners: the receive worker  *)
(* of the server and the standalone capture                                *)
(* (crates/canrush-core/src/capture.rs).                                   *)
(*                                                                         *)
(* connect writes one command after the other and waits for an answer to   *)
(* each: a bare CR, a BEL, or for V a line.  Nothing in an answer says     *)
(* which command it is about, and the lines of received frames come over   *)
(* the same wire.  A line is cut in two pieces before its CR, so that a    *)
(* deadline or a read may fall in the middle of it.                        *)
(***************************************************************************)
EXTENDS Naturals, Sequences, SequencesExt

CONSTANTS
  MaxFrames,   \* bound: frames the device receives from the bus
  MaxConnects, \* bound: times the port is opened
  MaxKept      \* CaptureOptions.max_frames

ASSUME AdapterAssumption ==
  /\ MaxFrames \in Nat
  /\ MaxConnects \in Nat
  /\ MaxKept \in Nat \ {0}

VARIABLES
  device,    \* the CAN channel of the device
  settings,  \* the settings it has accepted since it was last closed
  commands,  \* commands written to it that it has not yet executed
  emitted,   \* frames it has sent
  wire,      \* what it has sent and the host has not yet read
  step,      \* where the owner of the port is
  owner,     \* who that is
  command,   \* the command of connect that is written or answered
  line,      \* what was read of a line since the last CR
  version,   \* did the device tell its version
  buffer,    \* WeActSerialAdapter.buffer
  delivered, \* frames returned by next_frame
  kept,      \* how many of them a capture has accepted
  over,      \* the stop flag of a worker, the deadline of a capture
  result,    \* how the owner ended
  connects,  \* times the port was opened
  inStep     \* history: at that time nothing was under way in either direction

deviceVars  == <<device, settings, emitted>>
connectVars == <<command, line, version>>
receiveVars == <<buffer, delivered, kept, result>>
openVars    == <<owner, connects, inStep>>
adapterVars == <<deviceVars, commands, wire, step, connectVars, receiveVars, over, openVars>>

Token(kind, n) == [kind |-> kind, frame |-> n]
Cr          == Token("cr", 0)
Bel         == Token("bel", 0)
VersionText == Token("version", 0)
FrameLine(n) == <<Token("head", n), Token("tail", n), Cr>>
Tokens == {Cr, Bel, VersionText} \cup {Token(k, n) : k \in {"head", "tail"}, n \in 1..MaxFrames}

\* The commands of connect; both owners give a data bitrate.
Dialogue == <<"V", "C", "M", "A", "S", "Y", "O">>
Settings == {"M", "A", "S", "Y"}

Connecting == {"write", "wait"}
Receiving  == {"loop", "take", "read"}
Results == {"none", "stopped", "duration-elapsed", "max-frames-reached", "source-ended",
            "error", "port-error"}

AdapterInit ==
  /\ device \in {"closed", "open"}
  /\ settings = {}
  /\ commands = <<>>
  /\ emitted = 0
  /\ wire = <<>>
  /\ step = "closed"
  /\ owner = "worker"
  /\ command = 1
  /\ line = <<>>
  /\ version = FALSE
  /\ buffer = <<>>
  /\ delivered = <<>>
  /\ kept = 0
  /\ over = FALSE
  /\ result = "none"
  /\ connects = 0
  /\ inStep = FALSE

-----------------------------------------------------------------------------
(* connect *)

\* The operating system may still hold what was sent to the last owner.
OpenPort(who) ==
  /\ step = "closed"
  /\ connects < MaxConnects
  /\ connects' = connects + 1
  /\ owner' = who
  /\ wire' \in {<<>>, wire}
  /\ inStep' = (commands = <<>> /\ wire' = <<>>)
  /\ step' = "write"
  /\ command' = 1
  /\ line' = <<>>
  /\ version' = FALSE
  /\ buffer' = <<>>
  /\ delivered' = <<>>
  /\ kept' = 0
  /\ over' = FALSE
  /\ result' = "none"
  /\ UNCHANGED <<deviceVars, commands>>

WriteCommand ==
  /\ step = "write"
  /\ step' = "wait"
  /\ commands' = Append(commands, Dialogue[command])
  /\ line' = <<>>
  /\ UNCHANGED <<deviceVars, wire, command, version, receiveVars, over, openVars>>

\* The current command is done; after the last one the adapter is connected.
NextCommand ==
  IF command = Len(Dialogue)
  THEN step' = "loop" /\ UNCHANGED command
  ELSE step' = "write" /\ command' = command + 1

\* The error is returned by connect, and the port is dropped as it is.
ConnectFails == step' = "closed" /\ UNCHANGED command

\* query_command_line: only a line that begins with V is the answer.
ReadVersion(byte) ==
  \/ /\ byte = Cr
     /\ line # <<>> /\ Head(line) = VersionText
     /\ version' = TRUE
     /\ line' = <<>>
     /\ NextCommand
  \/ /\ byte = Cr
     /\ ~ (line # <<>> /\ Head(line) = VersionText)
     /\ line' = <<>>
     /\ UNCHANGED <<version, step, command>>
  \/ /\ byte = Bel
     /\ NextCommand
     /\ UNCHANGED <<version, line>>
  \/ /\ byte \notin {Cr, Bel}
     /\ line' = Append(line, byte)
     /\ UNCHANGED <<version, step, command>>

\* Mutated form of Accepted: any CR is taken for the answer.
AcceptedByAnyCr(byte) == byte = Cr

\* A bare CR accepts a command; one that ends a line does not.
Accepted(byte) == byte = Cr /\ line = <<>>

\* send_command: allow_error is set for C alone.
ReadAnswer(byte) ==
  /\ \/ /\ Accepted(byte) \/ (byte = Bel /\ Dialogue[command] = "C")
        /\ NextCommand
        /\ UNCHANGED line
     \/ /\ byte = Bel /\ Dialogue[command] # "C"
        /\ ConnectFails
        /\ UNCHANGED line
     \/ /\ byte = Cr /\ ~Accepted(byte)
        /\ line' = <<>>
        /\ UNCHANGED <<step, command>>
     \/ /\ byte \notin {Cr, Bel}
        /\ line' = Append(line, byte)
        /\ UNCHANGED <<step, command>>
  /\ UNCHANGED version

ReadByte ==
  /\ step = "wait"
  /\ wire # <<>>
  /\ wire' = Tail(wire)
  /\ IF Dialogue[command] = "V" THEN ReadVersion(Head(wire)) ELSE ReadAnswer(Head(wire))
  /\ UNCHANGED <<deviceVars, commands, receiveVars, over, openVars>>

\* A write or a read fails, or the deadline passes: only V may go unanswered.
CommandFails ==
  /\ step \in Connecting
  /\ IF Dialogue[command] = "V" THEN NextCommand ELSE ConnectFails
  /\ UNCHANGED <<deviceVars, commands, wire, line, version, receiveVars, over, openVars>>

-----------------------------------------------------------------------------
(* next_frame, and the loop around it *)

\* Mutated form of Closing: the port is dropped as it is.
ClosingSilently == commands

\* Drop: the device is told to close its channel.
Closing == Append(commands, "C")

Finish(why) ==
  /\ step' = "closed"
  /\ result' = why
  /\ commands' = Closing

Again ==
  /\ step' = "loop"
  /\ UNCHANGED <<result, commands>>

\* while !stop, while now < deadline.
TestOver ==
  /\ step = "loop"
  /\ IF over
     THEN Finish(IF owner = "worker" THEN "stopped" ELSE "duration-elapsed")
     ELSE step' = "take" /\ UNCHANGED <<result, commands>>
  /\ UNCHANGED <<deviceVars, wire, connectVars, buffer, delivered, kept, over, openVars>>

\* What the caller of next_frame does with None.
NoFrame == IF owner = "worker" THEN Again ELSE Finish("source-ended")

\* Mutated form of TakesFrame: the limit is noticed one frame late.
TakesFrameLate ==
  \/ Again /\ UNCHANGED kept
  \/ /\ owner = "capture"
     /\ kept' = kept + 1
     /\ IF kept' > MaxKept THEN Finish("max-frames-reached") ELSE Again

\* What it does with a frame: a worker publishes it, a capture may keep it.
TakesFrame ==
  \/ Again /\ UNCHANGED kept
  \/ /\ owner = "capture"
     /\ kept' = kept + 1
     /\ IF kept' >= MaxKept THEN Finish("max-frames-reached") ELSE Again

Position(token) == SelectInSeq(buffer, LAMBDA t : t = token)
\* weact::parse_line, as far as a line is whole: the rest of a line that lost its
\* head is taken for an error, although its digits could by chance make a frame.
IsFrame(text) == \E n \in 1..MaxFrames : text = FrameLine(n)

\* try_take_frame: a BEL anywhere comes first and takes with it what is before it.
TakeBel ==
  /\ step = "take"
  /\ Position(Bel) # 0
  /\ buffer' = SubSeq(buffer, Position(Bel) + 1, Len(buffer))
  /\ Finish("error")
  /\ UNCHANGED <<deviceVars, wire, connectVars, delivered, kept, over, openVars>>

\* Mutated form of Rest: the buffer is cleared with the line.
RestCleared == <<>>

Rest == SubSeq(buffer, Position(Cr) + 1, Len(buffer))

\* The first line, if there is one: a frame, not to be parsed, or empty. After
\* an empty one the port is read, whatever is left in the buffer.
TakeLine ==
  /\ step = "take"
  /\ Position(Bel) = 0
  /\ Position(Cr) # 0
  /\ buffer' = Rest
  /\ LET text == SubSeq(buffer, 1, Position(Cr))
     IN  \/ /\ text = <<Cr>>
            /\ step' = "read"
            /\ UNCHANGED <<delivered, kept, result, commands>>
         \/ /\ IsFrame(text)
            /\ delivered' = Append(delivered, Head(text).frame)
            /\ TakesFrame
         \/ /\ text # <<Cr>> /\ ~IsFrame(text)
            /\ Finish("error")
            /\ UNCHANGED <<delivered, kept>>
  /\ UNCHANGED <<deviceVars, wire, connectVars, over, openVars>>

\* There is no line, and the port is read.
NoLine ==
  /\ step = "take"
  /\ Position(Bel) = 0
  /\ Position(Cr) = 0
  /\ step' = "read"
  /\ UNCHANGED <<deviceVars, commands, wire, connectVars, receiveVars, over, openVars>>

\* At most a chunk of what is there.
ReadChunk ==
  /\ step = "read"
  /\ \E n \in 1..Len(wire) :
       /\ buffer' = buffer \o SubSeq(wire, 1, n)
       /\ wire' = SubSeq(wire, n + 1, Len(wire))
  /\ step' = "take"
  /\ UNCHANGED <<deviceVars, commands, connectVars, delivered, kept, result, over, openVars>>

\* Mutated form of ReadTimesOut: next_frame goes on until there is a frame.
ReadTriesAgain ==
  /\ step = "read"
  /\ wire = <<>>
  /\ UNCHANGED adapterVars

\* Nothing came within the timeout of the port.
ReadTimesOut ==
  /\ step = "read"
  /\ wire = <<>>
  /\ NoFrame
  /\ UNCHANGED <<deviceVars, wire, connectVars, buffer, delivered, kept, over, openVars>>

\* The cable is pulled: the read fails, and so does the write of Drop.
PortFails ==
  /\ step = "read"
  /\ step' = "closed"
  /\ result' = "port-error"
  /\ UNCHANGED <<deviceVars, commands, wire, connectVars, buffer, delivered, kept, over, openVars>>

\* disconnect_bus sets the stop flag; the deadline of a capture passes.
IsOver ==
  /\ step \in Receiving
  /\ ~over
  /\ over' = TRUE
  /\ UNCHANGED <<deviceVars, commands, wire, step, connectVars, receiveVars, openVars>>

OwnerNext ==
  \/ WriteCommand \/ ReadByte \/ CommandFails
  \/ TestOver \/ TakeBel \/ TakeLine \/ NoLine \/ ReadChunk \/ ReadTimesOut

-----------------------------------------------------------------------------
(* The device, as far as the code relies on it *)

Reply(tokens) == wire' = wire \o tokens

\* V is answered with the version, with a BEL, or not at all
\* (doc/server-cli.md:132); settings and O only while the channel is closed.
Execute ==
  /\ commands # <<>>
  /\ commands' = Tail(commands)
  /\ LET c == Head(commands)
     IN  \/ /\ c = "V"
            /\ \E answer \in {<<VersionText, Cr>>, <<Bel>>, <<>>} : Reply(answer)
            /\ UNCHANGED <<device, settings>>
         \/ /\ c = "C" /\ device = "open"
            /\ device' = "closed"
            /\ settings' = {}
            /\ Reply(<<Cr>>)
         \/ /\ c = "C" /\ device = "closed"
            /\ settings' = {}
            /\ Reply(<<Bel>>)
            /\ UNCHANGED device
         \/ /\ c \in Settings /\ device = "closed"
            /\ settings' = settings \cup {c}
            /\ Reply(<<Cr>>)
            /\ UNCHANGED device
         \/ /\ c = "O" /\ device = "closed"
            /\ device' = "open"
            /\ Reply(<<Cr>>)
            /\ UNCHANGED settings
         \/ /\ c \notin {"V", "C"}
            /\ Reply(<<Bel>>)
            /\ UNCHANGED <<device, settings>>
  /\ UNCHANGED <<emitted, step, connectVars, receiveVars, over, openVars>>

\* A frame from the bus.
Emit ==
  /\ device = "open"
  /\ emitted < MaxFrames
  /\ emitted' = emitted + 1
  /\ Reply(FrameLine(emitted + 1))
  /\ UNCHANGED <<device, settings, commands, step, connectVars, receiveVars, over, openVars>>

AdapterNext ==
  \/ \E who \in {"worker", "capture"} : OpenPort(who)
  \/ OwnerNext
  \/ PortFails \/ IsOver
  \/ Execute \/ Emit

AdapterSpec == AdapterInit /\ [][AdapterNext]_adapterVars

\* The owner's thread is scheduled, and the device executes its commands.
FairAdapterSpec ==
  /\ AdapterSpec
  /\ WF_adapterVars(OwnerNext)
  /\ WF_adapterVars(Execute)

-----------------------------------------------------------------------------
(* Properties *)

AdapterTypeOK ==
  /\ device \in {"closed", "open"}
  /\ settings \subseteq Settings
  /\ commands \in Seq(Settings \cup {"V", "C", "O"})
  /\ emitted \in 0..MaxFrames
  /\ wire \in Seq(Tokens) /\ line \in Seq(Tokens \ {Cr, Bel}) /\ buffer \in Seq(Tokens)
  /\ step \in {"closed"} \cup Connecting \cup Receiving
  /\ owner \in {"worker", "capture"}
  /\ command \in DOMAIN Dialogue
  /\ delivered \in Seq(1..MaxFrames)
  /\ kept \in 0..MaxKept
  /\ kept = MaxKept <=> result = "max-frames-reached"
  /\ version \in BOOLEAN /\ over \in BOOLEAN /\ inStep \in BOOLEAN
  /\ result \in Results
  /\ connects \in 0..MaxConnects

IsHead(token) == token.kind = "head"

\* The lines in these tokens carry the frames from first to last, in order.
Carry(tokens, first, last) ==
  /\ first <= last + 1
  /\ \A i \in DOMAIN tokens : IsHead(tokens[i]) => tokens[i].frame \in first..last
  /\ \A n \in first..last : \E i \in DOMAIN tokens : IsHead(tokens[i]) /\ tokens[i].frame = n
  /\ \A i, j \in DOMAIN tokens :
       i < j /\ IsHead(tokens[i]) /\ IsHead(tokens[j]) => tokens[i].frame < tokens[j].frame

\* While an owner receives, the frames it was given and those still on the way
\* are the latest that the device sent, without a gap and in order, however
\* connect ended and wherever the reads cut the lines.
NoFrameMissing ==
  step \in Receiving =>
    \E first \in 1..emitted + 1 :
      /\ \A i \in DOMAIN delivered : delivered[i] = first + i - 1
      /\ Carry(buffer \o wire, first + Len(delivered), emitted)

\* The CR at i ends a whole line of a frame.
EndsFrame(tokens, i) ==
  /\ i >= 3
  /\ tokens[i] = Cr
  /\ tokens[i - 1].kind = "tail"
  /\ IsHead(tokens[i - 2])
  /\ tokens[i - 1].frame = tokens[i - 2].frame
  /\ i > 3 => tokens[i - 3] \in {Cr, Bel}

\* Where anything but the lines of frames comes: an answer, or half a line.
Answers(tokens) ==
  {i \in DOMAIN tokens : \/ tokens[i] \in {Bel, VersionText}
                         \/ tokens[i] = Cr /\ ~EndsFrame(tokens, i)}

\* A version that was asked for with nothing under way is the answer to this
\* connect's question, and then so are all answers after it: a connected
\* device is open, with every setting accepted, nothing but whole lines of
\* frames comes from it, and next_frame never ends in an error.
VersionPutsInStep ==
  inStep /\ version =>
    /\ result # "error"
    /\ step \in Receiving => /\ device = "open"
                             /\ settings = Settings
                             /\ commands = <<>>
                             /\ Answers(buffer \o wire) = {}

\* A stop flag is heeded, or a deadline: next_frame returns.
StopHeeded == over ~> step = "closed"

\* After an owner has let go of a port that still works, the device is closed
\* or somebody has opened the port again.
DeviceLeftClosed ==
  result \notin {"none", "port-error"} ~> (device = "closed" \/ step # "closed")
=============================================================================
