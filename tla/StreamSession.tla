--------------------------- MODULE StreamSession ---------------------------
(***************************************************************************)
(* One WebSocket stream of the server and the client that reads it:        *)
(* handle_stream in crates/canrush-server/src/main.rs over a FrameHub, and *)
(* at the other end of the socket either the CLI capture in Client mode    *)
(* (run_client_capture of crates/canrush-cli/src/main.rs) or a monitor,    *)
(* the stream worker of the desktop application.                           *)
(*                                                                         *)
(* A handler holds the hub's lock only inside subscriber_stats, subscribe, *)
(* unsubscribe and publish, and awaits in every send, so each of these is  *)
(* a step of its own and other sessions and publishers run in between.     *)
(***************************************************************************)
EXTENDS FrameHub

CONSTANTS
  Captures,        \* the sessions whose client is a CLI capture
  MaxFrames,       \* --max-frames or --max-bytes in frames; 0 is no limit
  SocketCapacity,  \* bound: messages in flight before a send has to wait
  PeerMayClose     \* whether the peer may end the stream by a close handshake

ASSUME SessionAssumption ==
  /\ Captures \subseteq Sessions
  /\ MaxFrames \in Nat
  /\ SocketCapacity \in Nat \ {0}
  /\ PeerMayClose \in BOOLEAN

VARIABLES
  handler,      \* where handle_stream is
  observed,     \* its local dropped_count
  reported,     \* its local reported_dropped_count
  sent,         \* its local sent
  hand,         \* the event taken from the channel and not yet sent
  diagnostics,  \* the overflow counts pushed to AppState.diagnostics
  socket,       \* messages sent and not yet read
  client,       \* where the client is
  due,          \* Instant::now() >= deadline
  read,         \* the sequence numbers read: the rows a capture has written
  told,         \* the largest dropped_count read (stream_dropped_count)
  result        \* how run_client_capture returned

handlerVars == <<handler, observed, reported, sent, hand, diagnostics>>
clientVars  == <<client, due, read, told, result>>
sessionVars == <<hubVars, handlerVars, socket, clientVars>>

Monitors == Sessions \ Captures

HandlerSteps == {"idle", "hello", "subscribe", "check", "report", "drain",
                 "send", "unsubscribe", "drop", "done"}
ClientSteps == {"new", "loop", "reading", "done"}
Results == {"none", "error", "duration-elapsed", "limit-reached", "stream-closed"}
Messages == [event : {"hello", "frame", "diagnostic"}, value : Nat]

SessionInit ==
  /\ HubInit
  /\ handler = [s \in Sessions |-> "idle"]
  /\ observed = [s \in Sessions |-> 0]
  /\ reported = [s \in Sessions |-> 0]
  /\ sent = [s \in Sessions |-> 0]
  /\ hand = [s \in Sessions |-> <<>>]
  /\ diagnostics = [s \in Sessions |-> <<>>]
  /\ socket = [s \in Sessions |-> <<>>]
  /\ client = [s \in Sessions |-> "new"]
  /\ due = [s \in Sessions |-> FALSE]
  /\ read = [s \in Sessions |-> <<>>]
  /\ told = [s \in Sessions |-> 0]
  /\ result = [s \in Sessions |-> "none"]

-----------------------------------------------------------------------------
(* The socket *)

HandlerAt(s, here, next) ==
  /\ handler[s] = here
  /\ handler' = [handler EXCEPT ![s] = next]

\* socket.send returns Ok: it waits for room while the client is there, and
\* what is sent after the client has gone may still be accepted and is lost.
SendOk(s, event, value) ==
  \/ /\ client[s] # "done"
     /\ Len(socket[s]) < SocketCapacity
     /\ socket' = [socket EXCEPT ![s] = Append(@, [event |-> event, value |-> value])]
  \/ /\ client[s] = "done"
     /\ UNCHANGED socket

\* socket.send returns an error: only possible once the client has gone.
SendErr(s) == client[s] = "done" /\ UNCHANGED socket

-----------------------------------------------------------------------------
(* handle_stream *)

\* The query names a filter that does not parse, which the client is told; or
\* the hello goes out, before the subscription exists.
SendHello(s) ==
  /\ \/ HandlerAt(s, "hello", "subscribe") /\ SendOk(s, "hello", 0)
     \/ HandlerAt(s, "hello", "done") /\ SendOk(s, "diagnostic", 0)
     \/ HandlerAt(s, "hello", "done") /\ SendErr(s)
  /\ UNCHANGED <<hubVars, observed, reported, sent, hand, diagnostics, clientVars>>

SubscribeStream(s, o) ==
  /\ HandlerAt(s, "subscribe", "check")
  /\ Subscribe(s, o)
  /\ UNCHANGED <<observed, reported, sent, hand, diagnostics, socket, clientVars>>

\* subscriber_stats(subscription_id), unwrap_or(reported_dropped_count).
DroppedCount(s) ==
  LET stats == SubscriberStats(id[s])
  IN  IF stats = {} THEN reported[s] ELSE CHOOSE d \in stats : TRUE

\* Mutated form of CheckDropped: the overflow is looked at only while the
\* channel is empty, after everything in it was sent.
CheckDroppedLate(s) ==
  LET d == DroppedCount(s)
      overflow == d > reported[s] /\ queue[s] = <<>>
  IN  /\ HandlerAt(s, "check", IF overflow THEN "report" ELSE "drain")
      /\ observed' = [observed EXCEPT ![s] = d]
      /\ sent' = [sent EXCEPT ![s] = 0]
      /\ diagnostics' = IF overflow THEN [diagnostics EXCEPT ![s] = Append(@, d)]
                                    ELSE diagnostics
      /\ UNCHANGED <<hubVars, reported, hand, socket, clientVars>>

\* The top of the loop.  The diagnostic is pushed after the hub's lock is
\* released, without an await in between: it uses the count read under the
\* lock, and no step of a stream reads AppState.diagnostics, so both are one
\* step here.
CheckDropped(s) ==
  LET d == DroppedCount(s)
      overflow == d > reported[s]
  IN  /\ HandlerAt(s, "check", IF overflow THEN "report" ELSE "drain")
      /\ observed' = [observed EXCEPT ![s] = d]
      /\ sent' = [sent EXCEPT ![s] = 0]
      /\ diagnostics' = IF overflow THEN [diagnostics EXCEPT ![s] = Append(@, d)]
                                    ELSE diagnostics
      /\ UNCHANGED <<hubVars, reported, hand, socket, clientVars>>

\* Mutated form of SendDiagnostic: reported_dropped_count is never updated.
SendDiagnosticAgain(s) ==
  /\ \/ HandlerAt(s, "report", "drain") /\ SendOk(s, "diagnostic", observed[s])
     \/ HandlerAt(s, "report", "unsubscribe") /\ SendErr(s)
  /\ UNCHANGED <<hubVars, observed, reported, sent, hand, diagnostics, clientVars>>

\* Mutated form of SendDiagnostic: only the server's own list is told.
SendDiagnosticNowhere(s) ==
  /\ HandlerAt(s, "report", "drain")
  /\ reported' = [reported EXCEPT ![s] = observed[s]]
  /\ UNCHANGED <<hubVars, observed, sent, hand, diagnostics, socket, clientVars>>

SendDiagnostic(s) ==
  /\ \/ /\ HandlerAt(s, "report", "drain")
        /\ SendOk(s, "diagnostic", observed[s])
        /\ reported' = [reported EXCEPT ![s] = observed[s]]
     \/ /\ HandlerAt(s, "report", "unsubscribe")
        /\ SendErr(s)
        /\ UNCHANGED reported
  /\ UNCHANGED <<hubVars, observed, sent, hand, diagnostics, clientVars>>

\* The next event of the channel is taken out, which frees its slot.
TakeEvent(s) ==
  /\ HandlerAt(s, "drain", "send")
  /\ TryRecv(s)
  /\ hand' = [hand EXCEPT ![s] = <<Head(queue[s])>>]
  /\ UNCHANGED <<observed, reported, sent, diagnostics, socket, clientVars>>

\* The channel is empty: back to the top of the loop, after a short sleep if
\* nothing was sent.
EndDrain(s) ==
  /\ queue[s] = <<>>
  /\ HandlerAt(s, "drain", "check")
  /\ UNCHANGED <<hubVars, observed, reported, sent, hand, diagnostics, socket, clientVars>>

\* Mutated form of Batch: the drain goes on until the channel is empty.
BatchUnbounded(s) == MaxSequence + 1

\* Events sent before the drop counter is looked at again: queue_capacity.
Batch(s) == options[s].capacity

SendFrame(s) ==
  /\ \/ /\ HandlerAt(s, "send", IF sent[s] + 1 >= Batch(s) THEN "check" ELSE "drain")
        /\ SendOk(s, "frame", hand[s][1].sequence)
        /\ sent' = [sent EXCEPT ![s] = @ + 1]
     \/ /\ HandlerAt(s, "send", "unsubscribe")
        /\ SendErr(s)
        /\ UNCHANGED sent
  /\ hand' = [hand EXCEPT ![s] = <<>>]
  /\ UNCHANGED <<hubVars, observed, reported, diagnostics, clientVars>>

UnsubscribeStream(s) ==
  /\ HandlerAt(s, "unsubscribe", "drop")
  /\ Unsubscribe(s)
  /\ UNCHANGED <<observed, reported, sent, hand, diagnostics, socket, clientVars>>

DropSubscription(s) ==
  /\ HandlerAt(s, "drop", "done")
  /\ DropReceiver(s)
  /\ UNCHANGED <<observed, reported, sent, hand, diagnostics, socket, clientVars>>

HandlerNext(s) ==
  \/ SendHello(s)
  \/ \E o \in Options : SubscribeStream(s, o)
  \/ CheckDropped(s)
  \/ SendDiagnostic(s)
  \/ TakeEvent(s)
  \/ EndDrain(s)
  \/ SendFrame(s)
  \/ UnsubscribeStream(s)
  \/ DropSubscription(s)

-----------------------------------------------------------------------------
(* The clients *)

\* The WebSocket upgrade: tungstenite::connect succeeds, handle_stream runs.
Connect(s) ==
  /\ client[s] = "new"
  /\ client' = [client EXCEPT ![s] = IF s \in Captures THEN "loop" ELSE "reading"]
  /\ HandlerAt(s, "idle", "hello")
  /\ UNCHANGED <<hubVars, observed, reported, sent, hand, diagnostics, socket,
                 due, read, told, result>>

\* The time of --duration runs out.
DeadlinePasses(s) ==
  /\ s \in Captures
  /\ client[s] \in {"loop", "reading"}
  /\ ~due[s]
  /\ due' = [due EXCEPT ![s] = TRUE]
  /\ UNCHANGED <<hubVars, handlerVars, socket, client, read, told, result>>

\* The client returns or is killed, and its end of the socket is gone.
Hangs(s) ==
  /\ client' = [client EXCEPT ![s] = "done"]
  /\ socket' = [socket EXCEPT ![s] = <<>>]

\* The end of run_client_capture: a passed deadline overrides the reason, the
\* file is flushed and the command succeeds.
Finish(s, reason) ==
  /\ Hangs(s)
  /\ result' = [result EXCEPT ![s] = IF due[s] THEN "duration-elapsed" ELSE reason]

Fail(s) == Hangs(s) /\ result' = [result EXCEPT ![s] = "error"]

\* while Instant::now() < deadline: tested between reads only.
TestDeadline(s) ==
  /\ client[s] = "loop"
  /\ IF due[s] THEN Finish(s, "duration-elapsed")
     ELSE /\ client' = [client EXCEPT ![s] = "reading"]
          /\ UNCHANGED <<socket, result>>
  /\ UNCHANGED <<hubVars, handlerVars, due, read, told>>

Consume(s, next) ==
  /\ socket' = [socket EXCEPT ![s] = Tail(@)]
  /\ client' = [client EXCEPT ![s] = next]
  /\ UNCHANGED result

\* One message read by run_client_capture.  The messages that handle_stream
\* never sends are left out: an event "closed" ends a capture as PeerCloses
\* does, what is no JSON or no frame event fails it, and what is no text, an
\* unknown event or a frame that is not "rx" is read over.
CaptureReads(s) ==
  /\ s \in Captures
  /\ client[s] = "reading"
  /\ socket[s] # <<>>
  /\ LET message == Head(socket[s])
         rows == Append(read[s], message.value)
     IN  \/ /\ message.event = "hello"
            /\ Consume(s, "loop")
            /\ UNCHANGED <<read, told>>
         \/ /\ message.event = "frame"
            /\ read' = [read EXCEPT ![s] = rows]
            /\ IF Len(rows) = MaxFrames THEN Finish(s, "limit-reached")
                                        ELSE Consume(s, "loop")
            /\ UNCHANGED told
         \/ /\ message.event = "diagnostic"
            /\ Fail(s)
            /\ told' = [told EXCEPT ![s] = message.value]
            /\ UNCHANGED read
  /\ UNCHANGED <<hubVars, handlerVars, due>>

\* One message read by the stream worker of the desktop application, which
\* keeps the largest drop count it was told (handle_stream_message).
MonitorReads(s) ==
  /\ s \in Monitors
  /\ client[s] = "reading"
  /\ socket[s] # <<>>
  /\ LET message == Head(socket[s])
     IN  /\ read' = IF message.event = "frame"
                    THEN [read EXCEPT ![s] = Append(@, message.value)] ELSE read
         /\ told' = IF message.event = "diagnostic" /\ message.value > told[s]
                    THEN [told EXCEPT ![s] = message.value] ELSE told
  /\ Consume(s, "reading")
  /\ UNCHANGED <<hubVars, handlerVars, due>>

\* The handler has returned and its socket was dropped without a handshake:
\* a reader that has read everything gets an error.
ReadFails(s) ==
  /\ client[s] = "reading"
  /\ socket[s] = <<>>
  /\ handler[s] = "done"
  /\ Fail(s)
  /\ UNCHANGED <<hubVars, handlerVars, due, read, told>>

\* The peer ends the stream with a close handshake, which read reports as
\* ConnectionClosed.  handle_stream never sends one; an intermediary may.
PeerCloses(s) ==
  /\ PeerMayClose
  /\ s \in Captures
  /\ client[s] = "reading"
  /\ socket[s] = <<>>
  /\ Finish(s, "stream-closed")
  /\ UNCHANGED <<hubVars, handlerVars, due, read, told>>

\* The client process is killed.
ClientKilled(s) ==
  /\ client[s] \in {"loop", "reading"}
  /\ Hangs(s)
  /\ UNCHANGED <<hubVars, handlerVars, due, read, told, result>>

ReaderNext(s) ==
  \/ TestDeadline(s)
  \/ CaptureReads(s)
  \/ MonitorReads(s)
  \/ ReadFails(s)

PublishFrame(k) ==
  /\ Publish(k)
  /\ UNCHANGED <<handlerVars, socket, clientVars>>

SessionNext ==
  \/ \E k \in Keys : PublishFrame(k)
  \/ \E s \in Sessions :
       \/ HandlerNext(s)
       \/ ReaderNext(s)
       \/ Connect(s)
       \/ DeadlinePasses(s)
       \/ PeerCloses(s)
       \/ ClientKilled(s)

SessionSpec == SessionInit /\ [][SessionNext]_sessionVars

\* The runtime schedules every handler and the system every reader, and time
\* passes.  Nothing makes frames arrive, or clients connect.
Fairness ==
  \A s \in Sessions :
    /\ WF_sessionVars(HandlerNext(s))
    /\ WF_sessionVars(ReaderNext(s))
    /\ WF_sessionVars(DeadlinePasses(s))

FairSessionSpec == SessionSpec /\ Fairness

-----------------------------------------------------------------------------
(* Properties *)

\* Every variable has the type of what it stands for, and neither a drain nor
\* the socket holds more than it may.
SessionTypeOK ==
  /\ HubTypeOK
  /\ handler \in [Sessions -> HandlerSteps]
  /\ observed \in [Sessions -> Nat]
  /\ reported \in [Sessions -> Nat]
  /\ sent \in [Sessions -> Nat]
  /\ hand \in [Sessions -> Seq(SequencedFrame)]
  /\ diagnostics \in [Sessions -> Seq(Nat)]
  /\ socket \in [Sessions -> Seq(Messages)]
  /\ client \in [Sessions -> ClientSteps]
  /\ due \in [Sessions -> BOOLEAN]
  /\ read \in [Sessions -> Seq(Nat)]
  /\ told \in [Sessions -> Nat]
  /\ result \in [Sessions -> Results]
  /\ \A s \in Sessions :
       /\ sent[s] <= options[s].capacity
       /\ Len(hand[s]) = IF handler[s] = "send" THEN 1 ELSE 0
       /\ Len(socket[s]) <= SocketCapacity

\* The frames a client has missed: those it asked for that were published
\* before the last frame it has read, and that it has not read.
Missed(s) ==
  {n \in Offered(s) : /\ \E i \in 1 .. Len(read[s]) : n < read[s][i]
                      /\ \A i \in 1 .. Len(read[s]) : n # read[s][i]}

\* As long as no id was given twice, a client is told of a loss before it reads
\* the first frame behind it: at no time has it missed more frames than the
\* last diagnostic said.
LossAnnouncedFirst ==
  ~clash => \A s \in Sessions : Cardinality(Missed(s)) <= told[s]

\* As long as no id was given twice, every drop count the server reports, in
\* its diagnostics list or to the client, is one the subscription really
\* reached, and is reported once.  After a clash a stream reads the counter of
\* another subscription (main.rs:368), which the run session_gap shows.
DiagnosticsHonest ==
  ~clash => \A s \in Sessions :
    /\ told[s] <= dropped[s]
    /\ \A i \in 1 .. Len(diagnostics[s]) :
         /\ diagnostics[s][i] <= dropped[s]
         /\ \A j \in 1 .. i - 1 : diagnostics[s][j] < diagnostics[s][i]

\* A monitor that goes on reading is shown every loss (doc/overview.md:290), as
\* long as no id was given twice: a stream whose id an older subscription has
\* too looks at the count of that one and never tells its own.
DropsShown ==
  \A s \in Monitors :
    dropped[s] > told[s] ~> (told[s] >= dropped[s] \/ client[s] = "done" \/ clash)

Succeeded(s) == result[s] \notin {"none", "error"}

\* A capture that returns successfully has written every frame it asked for
\* between its first and its last row (doc/overview.md:104 and 245).
CaptureWithoutGaps ==
  \A s \in Captures : Succeeded(s) => Missed(s) = {}

\* A capture returns once its --duration has passed.
CaptureEndsByDeadline ==
  \A s \in Captures : due[s] ~> client[s] = "done"
=============================================================================
