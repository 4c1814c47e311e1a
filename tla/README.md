# CANRush: models, model checking and proofs

CANRush receives CAN frames from USB-serial adapters and distributes them to a
desktop GUI and to command line tools. It is a Rust workspace
(`crates/canrush-core`, `crates/canrush-server`, `crates/canrush-cli`) with a
Tauri/React application (`apps/desktop`). This directory holds TLA+ modules of
the system, TLC configurations that check them on small instances, and TLAPS
proofs of what holds for every instance. Paths below are relative to the
repository root.

## The system

| Component | State it keeps | Operations | Talks to |
|---|---|---|---|
| Frame hub, `canrush-core/src/server.rs` | all frames, latest frame per key, next sequence number, subscribers with a bounded channel and a drop count each | `publish`, `subscribe`, `unsubscribe`, `subscriber_stats`, `try_recv` | shared as `Arc<Mutex<FrameHub>>` by all workers and streams |
| Bus runtimes, `canrush-server/src/main.rs:103-309,430-599,647-685` | map from bus name to a runtime: stop flag, counters, worker state, thread handle | connect, disconnect, shutdown; receive workers | HTTP handlers, worker threads, serial adapter, hub |
| Stream handler, `canrush-server/src/main.rs:321-428` | a subscription, the drop count last reported | hello, overflow diagnostics, frames in batches | hub, WebSocket client |
| Client capture, `canrush-cli/src/main.rs:394-501` | output file, counts, deadline | reads the stream until a limit, the deadline, a diagnostic or an error | stream handler |
| Standalone capture, `canrush-core/src/capture.rs`, `canrush-cli/src/main.rs:338-392` | frames, deadline | reads a frame source directly | adapters |
| Serial adapter, `canrush-core/src/adapter.rs`, `protocol/weact.rs` | port, byte buffer | connect (a dialogue of commands and responses), next_frame, close on drop | device |
| Codec and model, `protocol/slcan.rs`, `model.rs` | none | line to frame and back, DLC tables, validation | adapter, capture |
| Parser and plot, `parser.rs`, `plot.rs` | none | signals out of frames, plot points, their files | GUI, CLI |
| Desktop server process, `apps/desktop/src-tauri/src/server_process.rs`, `commands.rs`, `server_client.rs` | the child process it watches, why the last one ended, what is known of the server | start, snapshot, connect, disconnect | server, frontend |
| Desktop stream, `stream.rs`, `state.rs`, `parse_plot.rs` | latest frames, plot history, drop count | a worker that reconnects; snapshot, clear, live plot | stream handler, frontend |
| Desktop frontend, `apps/desktop/src` | React state | polls snapshots, pauses, clears | backend |

What is hard in it:

* **Interleaving.** Any number of stream handlers and workers meet in the hub,
  whose lock is held for one method at a time. `handle_stream` reads its drop
  counter under the lock and uses it after the lock and after an await.
  `connect_bus_runtime` removes, stops, joins, spawns and inserts with the lock
  held only for the first and the last. In the frontend, replies of overlapping
  polls come back in any order.
* **Bounded channels and histories.** A slow reader overflows its channel: the
  publisher must not block, the loss must be counted and the reader told. The
  plot history evicts frames that a slow plot has not read.
* **Failure.** Workers end by themselves, adapters open late or not at all,
  sockets die between two sends, clients go away without notice, children of the
  desktop application end, are replaced, or lose the port to somebody else.
* **Time.** A startup timeout of three seconds, a capture deadline that is
  looked at between blocking reads, read timeouts of the serial port, requests of
  the desktop application that time out while the server goes on with them.
* **Data.** Identifiers and lengths at their limits, lines cut anywhere, bus names
  with commas and line breaks, signals across byte borders in two orders, and two
  ways (files and live) to everything.

`PROJECT.json` lists every hazard at its line.

## Modules

| Module | Models |
|---|---|
| `FrameHub` | the hub, each method one action |
| `LossyBroadcast`, `FrameHubRefinement` | what the hub promises, and the mapping under which it does |
| `RateBuckets` | the rate buckets of a latest frame and the rate shown of them |
| `StreamSession` (EXTENDS `FrameHub`) | `handle_stream`, its socket and both kinds of client, composed with the hub |
| `BusRuntime` | requests, worker threads and shutdown of the server |
| `SerialAdapter` | the serial adapter, its device, and its owners: the worker loop and the standalone capture |
| `ServerProcess` | the desktop application, its child processes and the commands that go to the server |
| `GuiStream` | the stream worker, the state it fills, the live plot and the polling view |
| `FrameCodec` | the CAN frame and its SLCAN line |
| `CsvText`, `DataFiles` | CSV quoting; stream events and the files of frames, signals and points |
| `Signals` | parse configurations, bit extraction, plot points |
| `Pipeline` (EXTENDS `DataFiles`) | the way of frames through all of these, in both modes and live |
| `...Proofs` | theorems |
| `FoldLemmas` | lemmas on natural numbers, sequences (joined, cut, mapped, kept) and folds, which three of the proof modules cite |
| `MC...` | instances for TLC |

### FrameHub

A *session* owns one `FrameSubscription`. A frame is its `FrameKey`, and frames
are told apart by their place in `frames`. `SubscribeOptions` becomes a record of
a capacity and the set of keys accepted, which is all that `accepts` and
`sync_channel` make of it. The `Vec` of subscribers is a set with a position
(`joined`), because `position` and `find` take the first entry of an id. `id` is
given as the code gives it, the length of the `Vec` plus one, so it may be given
twice; the history variable `clash` says that it was. `Publish` is the whole of
`publish`: deliver to everybody who accepts, count the full channels, remove the
disconnected entries, update the table and the history. A subscription that is
dropped without `unsubscribe` keeps its entry until a publish that it accepts.
The rate buckets of a table entry are pure and are in `RateBuckets`.

History variables, which no action reads: `since`, `received`, `clash`.

### LossyBroadcast

The abstract specification: a log, and for every reader the numbers that wait for
it, those it has got, and how many it has lost. Any frame may be lost to any
reader, but is then counted; capacities, channels, entries and ids are gone.
`FrameHubRefinement` maps the hub to it. One promise is missing on purpose: a
reader that leaves may end somebody else's membership, because ids are reused.

### StreamSession

One handler per session. Its steps are cut where the code gives up the lock or awaits:
hello, subscribe, read the drop counter, send a diagnostic, take an event from the
channel, send it, unsubscribe, drop. A send waits while the socket is full
(`SocketCapacity` messages) and the client is there; after the client has gone it may
still succeed (the message is lost) or fail. A capture client tests its deadline between
reads, stops at `MaxFrames`, fails on a diagnostic and on a read error, and succeeds
when the peer closes the stream. A monitor keeps the largest drop count that it was
told, as `handle_stream_message` does. `PeerMayClose` allows a close handshake in the
middle of the stream: `handle_stream` never sends one, something between the two may.
What `handle_stream` never sends (an event `closed`, text that is no JSON, binary
messages, frames that are not `rx`) is left out of the reading. The drop count that is
read under the hub's lock and the diagnostic that is pushed with it are one step: there
is no await between them, and the diagnostics list is read by no step of a stream. The
diagnostic that is *sent* is a later step.

### BusRuntime

A runtime is named by the connect request that made it, so `buses` maps a bus to a
request. A request handler is a synchronous function without an await: nothing cancels
it, and it steps `remove` (under the lock), `stop`, `join`, `spawn`, `startup`,
`status`, `insert` (under the lock). `AwaitStartup` may find the worker's message or
time out; on a timeout the worker is joined *without* its stop flag set (`joinLate`).
`Spawn` may fail for each adapter. `Insert` replaces whatever another request has
inserted, and the replaced runtime's thread is detached. A worker opens its adapter,
then alternates between the stop flag and `next_frame`. Ctrl-C makes the server wait for
the requests in flight, then drain the map and stop one worker after the other.
`overlap` (buses that two requests were busy with at the same time) and `last` (the
latest request about a bus) are history variables.

### SerialAdapter

One port and its device, opened by one owner after the other: the receive worker
of the server or a standalone capture (`capture_from_source`). `connect` is a
dialogue of seven commands (`Dialogue`). Each is written and answered byte by
byte: a CR accepts it if no byte of a line came before (`saw_line_content`), a
BEL rejects it, which only `C` tolerates; `V` looks for a line that begins with V
and may go unanswered. The deadline of a command may pass at any time. `next_frame`
alternates between `take` (`try_take_frame` on the buffer) and `read` (a chunk of
any length, a timeout, or an error); after an empty line it reads the port even if
the buffer holds a frame. The loop around it tests the stop flag of a worker or
the deadline of a capture, both of which are `over`. Dropping the adapter writes
`C`; a failed `connect` and a dead port drop the port without it.

Frames are numbered and a frame's line is two pieces and a CR, so that a deadline
or a read can cut it. The device is external. It executes commands in its own
time and as the code relies on it: settings and `O` only while its channel is
closed, `V` perhaps not at all (`doc/server-cli.md:132`). When a port is opened
again the operating system may or may not have kept what the last owner did not
read, and the commands it wrote last may still be under way. `inStep` is a
history variable: nothing was.

### ServerProcess

Tauri runs the synchronous commands one after the other on its main thread, so
`at` is where that thread is, and `start_local_server`, `latest_snapshot` and the
bus commands never overlap; the *view* asks for them in any order and applies
their replies when they arrive. What does overlap is the outside: children, which
are numbered and may listen, lose the port or end at any time, a server of
somebody else, and connect requests that the server goes on with after the
desktop has given up on them. A start first asks whether anybody answers, then
spawns (`SpawnChild`) and puts the new child in the place of the old one
(`ReplaceChild`), which kills that. `latest_snapshot` refreshes what is known of
the server when the cache of one second (`fresh`) has run out, and polls the child
(`try_wait`). A bus command lists the buses and disconnects one after the other;
each request succeeds, fails or times out. The buses of the server that listens
are only `absent`, `connected` or `error` here. `listed` and `inserted` are
history variables.

### GuiStream

The worker connects, reads messages and, when the socket ends, connects again
after 500 ms; each new subscription counts its drops from zero. The server side is
`Publish`, which sends a frame or drops it, and `ReportDrops`, which tells between two
batches how many were dropped so far if that is more than it told before. A frame enters the
table of latest frames and the plot history, which evicts at `Limit`. The live
plot reads the history behind its cursor `since` and tells how many it missed
(`parse_plot_live_since`). The view is one *effect* of React after the other: an
effect polls until the next replaces it, a poll that was asked for is never
cancelled, and its reply is applied unless the effect says otherwise, which is
what `useSnapshotPolling.ts` tests before and after the await. Pausing, resuming
and clearing are steps of the user. All frames have one key here.

### FrameCodec, CsvText, DataFiles, Signals, RateBuckets, Pipeline

Pure code as operators. A function that returns a `Result` or an `Option` is the
set of its outcomes. A frame has all fields of `CanFrame`, those that the stream and
the files lose included (`timestamp_device`, `adapter`, `raw`). A line is a header and
its hex digits; text is a sequence of characters of which comma, quote and line break
are told apart, and what is formatted from a number is one symbol that says in which
format (`Decimal`, `UpperHex`, `PrefixedHex`), so that a text printed in one and read
in another is refused. A host time is seconds and nanoseconds. Each of its texts is
made as the code makes it: `UnixNs` of an event, which `ParseUnixNs` reads;
`FormatTimestamp` of a row of a Standalone capture; `CsvTimestamp`, from the text of an
event, of a row in Client mode; `ParseCsvTimestamp` of a file. The rows of the two modes
have two formatters here as in the code, `CaptureRow` (`write_csv`) and `EventRow`
(`frame_event_csv_line`).

What a capture keeps (`KeptOf`) and how a file falls into lines are folds, as the
loops of the code are, with one step for each item. A capture sees a window of the
frames received (`Windows`): it begins after some of them and ends before others, at
its deadline, at `--max-bytes`, or, in Standalone mode, when the adapter is silent for
200 ms. Of these it keeps at most `--max-frames` (`Limited`). In Client mode the
arguments reach the server through the query of a URL (`Queried`): keys `id` and
`id_range` are refused, and a bus name is not percent-encoded, so that it ends at `&`
or `#`, a plus sign becomes a blank, and a blank, quote or line break makes the URL
one that cannot be opened.

An integer signal is extracted in a word of `WordBits` bits and becomes a float of
`MantissaBits` bits, rounded to the nearest and to the even one of two (`AsFloat`, `raw
as f64`); they stand for 64 and 53. Values are integral numbers of steps of 10^-7, ten
of which are the last digit that a file prints, so that this rounding is modelled too.
Scaling and offset are exact. `LivePoints` numbers the frames as the desktop application
does, in the order in which its own stream, which is of all buses, brings them; a file
numbers its rows.

`Pipeline` is the user's way through the commands: frames are received one line
at a time (whole, with a timestamp, or damaged), then captured, parsed and
plotted, each with chosen arguments, and may be refused.

## Runs

| Run | Checks | Instance |
|---|---|---|
| `hub` | `HubTypeOK`, `DeliveryInOrder`, `NothingUncounted`, `LatestMatchesHistory`, `OwnEntry`, `ImplementsBroadcast` | 3 sessions, capacities 1 and 2, 2 keys, 2 frames, sessions symmetric |
| `session_pair` | `SessionTypeOK`, `LossAnnouncedFirst`, `DiagnosticsHonest` | a capture and a monitor, one-frame channels, 3 frames |
| `session_live` | `DropsShown` | one monitor, capacities 1 and 2, 5 frames, fairness; its id is never shared |
| `session_gap` (violation) | `CaptureWithoutGaps` | 3 sessions, restricted to one scenario |
| `session_silence` (violation) | `CaptureEndsByDeadline` | one capture, fairness |
| `bus` | `BusTypeOK`, `ExclusiveHolder`, `NoOrphan`, `OneReceiverPerBus`, `LastAnswerHolds`, `DeadWorkerExplained` | 3 requests, 2 buses, requests and buses symmetric |
| `bus_live` | `RequestAnswered`, `ServerExits` | 2 requests, 1 bus, fairness |
| `serial` | `AdapterTypeOK`, `NoFrameMissing`, `VersionPutsInStep`, `StopHeeded`, `DeviceLeftClosed` | 3 frames, the port opened twice, fairness |
| `gui_server` | `ServerTypeOK`, `NoChildLost`, `ExitTold`, `DisconnectReaches`, `StartReturns`, `ServerShown` | 1 bus, 2 children and another server, fairness |
| `gui_stream` | `GuiStreamTypeOK`, `PlotAccounts`, `RateExact`, `PausedViewHolds`, `ViewCatchesUp` | 3 frames, 1 drop a connection, a history of 1, 2 connections, 2 effects, 1 clear, fairness |
| `gui_drops` (violation) | `DropsShownInFull` | 2 frames, 2 drops a connection, 2 connections |
| `pipeline` | `LinesReadBack`, `ModesAgree`, `StreamKeepsFrames`, `CaptureReadsBack`, `ExtractionMatchesReference`, `PlotsAgree` | 5 frames, one of each kind, up to 2 in a file, 3 bus names, a timestamp and 5 damages, every window; arguments: all, one bus and one frame, a name that a query cuts, an identifier, no range; every signal of up to 17 bits in words of 16 with mantissas of 12 |

What they show:

* **Loss is accounted for.** A frame that a subscription asked for is received,
  waits, or is counted (`NothingUncounted`), and arrives in order and once
  (`DeliveryInOrder`). Together that is the promise of `LossyBroadcast`, which
  the hub implements (`ImplementsBroadcast`).
* **Loss is announced before it can be read past** (`LossAnnouncedFirst`): as long as no
  id was given twice, at no time has a client missed more frames than the last
  diagnostic told it. This is not obvious, since the counter is looked at once per
  batch. It holds because a frame is dropped only behind a full channel, and a batch is
  at most as long as the channel, so the counter is read again before the first frame
  behind the gap is sent. Without that bound on a batch it fails.
* **Diagnostics are honest and complete** (`DiagnosticsHonest`, `DropsShown`): each
  count was reached, none is reported twice, and a monitor that goes on reading is told
  of every drop. All three hold until an id is given twice (`clash`). After that a
  stream may look at the counter of another subscription and its client is told nothing,
  ever: `session_gap` shows that. A clash takes three sessions, with which the graph has
  over 12 million states and liveness is out of TLC's reach, so `DropsShown` names
  `clash` and its run has one session.
* **Workers have one owner** (`ExclusiveHolder`), whatever the requests do. That
  a running worker is held by the map, by the shutdown or by the request that removed
  it, or is about to be put into the map (`NoOrphan`), that no adapter is opened twice
  (`OneReceiverPerBus`) and that the map agrees with the last answer
  (`LastAnswerHolds`) holds for the buses about which no two requests were in
  flight together; without that condition two connects of one bus leave a
  worker that nobody can stop. `NoOrphan` also excepts a worker whose connect gave up
  after the startup timeout: nobody can stop that one either. Both are divergences,
  see below.
* **Requests are answered and the server exits** (`RequestAnswered`,
  `ServerExits`), except when an adapter opens after the startup timeout: the
  request then waits for a worker that was never told to stop, and the shutdown
  waits for the request.
* **The adapter loses nothing** (`NoFrameMissing`): however `connect` ended and
  wherever reads cut the lines, what an owner was given and what is on the way are
  the latest frames of the device in order.
* **A version puts the dialogue in step** (`VersionPutsInStep`). An answer does
  not say which command it is about. If the port was quiet when it was opened and
  `V` was answered, each later answer is that of its command, and a connected
  device is open with all its settings accepted. Without a version it need not be: a
  late answer to `V` may be taken for that of `C`, and so on down the dialogue.
* **Stopping works** (`StopHeeded`, `DeviceLeftClosed`): `next_frame` returns on
  silence, and an adapter that is dropped closes the device. This is what
  `BusRuntime` assumes of `next_frame`.
* **No child is lost** (`NoChildLost`): a child that lives is the one that the
  application watches, also when a start follows a start that timed out, and an
  exit is told of the present child only (`ExitTold`). A start, which blocks every
  other command, returns (`StartReturns`), and a server that keeps listening is
  shown (`ServerShown`), unless the application's own child has ended: see below.
* **A successful disconnect has disconnected** (`DisconnectReaches`) every bus it
  set out with, but for those that a connect request still under way has connected
  again since.
* **The plot knows what it missed** (`PlotAccounts`): between evictions, clears and
  a cursor that lags behind, the number told is exactly that of the frames missed,
  less at most those that a clear has taken.
* **The view is neither overwritten nor stuck**: a paused view changes only by a
  clear once the polls asked for before the pause have returned
  (`PausedViewHolds`), and a view that is not paused ends up with the latest
  frames whatever stale replies it has shown (`ViewCatchesUp`).
* **The rate is exact** (`RateExact`), in whatever order the frames are dated, unless
  one of them is dated after now, and then it is never too high. The run compares
  every sequence of up to three times; the proof is for all.
* **Every conversion is undone by its inverse or says why not.** Lines are read
  back, and no damaged line is taken for a frame (`LinesReadBack`). The stream keeps all
  of a frame, its time to the nanosecond, but what an event does not hold: the device
  time and the line are gone and the adapter is the server (`StreamKeepsFrames`). The two
  formatters write the same rows of the frames that reach both modes, for arguments that
  the server takes as they were meant (`ModesAgree`; not for identifiers, which it
  refuses, nor for names that a URL changes). A capture file is read back to the
  millisecond, unless a bus name has a line break, which makes it unreadable
  (`CaptureReadsBack`).
* **Signals are what a reference says** (`ExtractionMatchesReference`): the
  bit-by-bit extraction is compared with a division of the whole frame as one
  number, for every offset, length up to the full word, order and sign, and its
  conversion with the nearest float, which is another number when the field is longer
  than a mantissa.
* **Both ways to a plot agree** (`PlotsAgree`): of the frames that a capture kept, the
  live plot shows the points that the files make, in the same order and with the same
  times, names and units. Only the last digits and the numbers differ: the file counts
  the frames of its capture, the application all that it was sent, and the run compares
  through the place of each frame.

The violations, each also a finding in `PROJECT.json`:

* `session_gap`: ids are `subscribers.len() + 1`, and a later subscription may get
  the id of one still there. Its handler then reads the drop count of the older
  one, its own overflow goes unreported, and a capture succeeds with a gap
  (`canrush-server/src/main.rs:368`, against `doc/overview.md:104,245`). TLC
  searches it inside `Scenario`, a constraint that only keeps the search short.
* `session_silence`: on a silent bus the deadline is never looked at
  (`canrush-cli/src/main.rs:429`, against `doc/server-cli.md:116,124`).
* `gui_drops`: drops on two connections are shown as the larger of the two counts, so
  a report of new drops may leave the number shown as it was (`stream.rs:97`, against
  `doc/overview.md:290`).

### Divergences that no run is about

Met while modelling. The steps that show them are in the models; a property that
only said that such a step is not taken would say nothing.

* A stream that is closed by the peer ends a capture with success
  (`canrush-cli/src/main.rs:432`, against `doc/overview.md:104,245`): `PeerCloses`
  of `StreamSession`.
* The serial adapter returns `None` after 200 ms of silence, and
  `capture_from_source` takes `None` for the end of the source
  (`canrush-core/src/capture.rs:95`, against `doc/server-cli.md:114-124`): `NoFrame`
  of `SerialAdapter`.
* After `unsubscribe`, `subscriber_stats` of the id may still answer, for another
  session (`canrush-core/src/server.rs:125`, against the assertion of the test at
  line 343).
* Once a child's exit is recorded, every later poll tells `exited`, also while
  somebody else's server listens (`server_process.rs:192`, against `doc/gui.md:16`).
  `ServerShown` therefore excepts it.
* A second start labels the application's own child `external` until the next
  refresh, and a child that has lost the port to another server is labelled `gui`.
* In `disconnect_all` buses in state `error` are skipped; their runtimes stay.
* A remote frame is written to a capture with the data length of its DLC, where
  `doc/server-cli.md:104` speaks of the bytes of the payload.
* A bus name with a line break makes a whole capture file unreadable.
* A connect of a bus puts its worker into the map with `insert`, which drops whatever
  an overlapping connect of the same bus has put there
  (`canrush-server/src/main.rs:212`). The dropped runtime's thread goes on receiving and
  nothing has its stop flag any more: it does so after a disconnect that was answered
  (`doc/server-cli.md:56`), until the process exits. `Insert` of `BusRuntime`; `overlap` in
  its properties names the case.
* A connect whose worker reports nothing for three seconds joins it without setting the
  stop flag (`canrush-server/src/main.rs:566-568`). If the adapter then opens, the worker
  receives without being in the map, the request is never answered, and the server, which
  waits for requests in flight, never exits, against `doc/overview.md:86`, by which it is
  to start, serve and end without the GUI: `AwaitStartup` and `joinLate` of `BusRuntime`.
* A Client mode capture with `--id` or `--id-range` fails: the server's
  `Query<StreamQuery>` (`canrush-server/src/main.rs:312-323`) has no lists, so keys `id` and
  `id_range` are answered with 400 and the upgrade fails (`canrush-cli/src/main.rs:418`),
  where `doc/server-cli.md:114-118` wants the same conditions in both modes: `Queried` of
  `DataFiles`.
* The bus name goes into that query as it is (`canrush-cli/src/main.rs:506`): one with `&`,
  `#` or `+` selects another bus, and one with a blank, a quote or a line break cannot be
  asked for. Also `Queried`.
* `doc/server-cli.md:72,83,84` lists the device time, the adapter and the raw line as
  fields of a frame; over the stream the first and the last are lost and the second
  becomes `server` (`stream.rs:130,141-142`): `StreamKeepsFrames` says so.

### Bounds, and why they are enough

Actors of a kind are interchangeable in the code: two show any conflict, a third is
needed where an id or a runtime is to be taken over from somebody who has left. A
channel of one frame overflows and recovers; one of two shows a batch that is cut short
and order inside the channel. `MaxSequence` bounds the frames published, `MaxReceived`
the frame counter of a worker (a worker at the bound goes on receiving without
counting), `SocketCapacity` the messages in flight. `MaxFrames` of `SerialAdapter`
bounds the frames of a device: three are one read, one cut and one behind it.
`MaxConnects` is two, an owner and the one after it. `MaxKept` is `--max-frames`.
`MaxSpawns` is two, a child and the one that replaces it; the proofs hold for any
number. In `GuiStream` a history of one frame evicts at every second frame, two
connections are needed for counts to start again, two effects for a poll to be stale,
one clear for a cursor to be reset, and `MaxDrops` drops a connection for counts of two
connections to be compared. `Pipeline` has one frame of every path through the codec and
two frames in a file, with words of 16 bits and mantissas of 12: the shift at the full
width, the field across bytes and integers of more bits than a mantissa are there, as
with 64 and 53. Two frames are the least of which a window or a limit can keep one and
lose another. Bus names are plain, with comma and quote, and with a line break. Runs
stop where the bounds are used up and where every request has been answered, so deadlock
is not checked; that nothing waits forever is what the liveness properties are for.

### Fairness

`FairSessionSpec` lets the tokio runtime and the operating system schedule every
handler and every reader (weak fairness of each) and time pass. It assumes
nothing of publishers or of new clients. `FairBusSpec` assumes that request
handlers, worker threads and the shutdown are scheduled, that an adapter's
`connect` returns (its commands have timeouts) and that `next_frame` returns (its
reads have a timeout of 200 ms, `canrush-server/src/main.rs:494`).
`FairAdapterSpec` assumes that the owner's thread is scheduled and that the device
executes its commands, not that it answers in time. Its frames are finitely many;
`StopHeeded` does not rest on that in the code, where `next_frame` returns at the
latest with the next frame, but a device that sends bytes without a CR for ever
is left out.

`FairGuiSpec` assumes that a command that has begun goes on (its requests have
timeouts), that the deadline of a start and the cache of a second run out, that
replies reach the view, and, by strong fairness, that the view polls again and
again although other commands take turns with it, and that a listening server
answers a status request at times. `FairGuiStreamSpec` assumes that the worker is
scheduled and its retries come, that the view's timer ticks and that every
command is answered. Nobody has to start a server, connect a bus or resume a view.

## Proofs

`FrameHubProofs` proves for any finite set of sessions, any keys and options
(`HubAssumption`) and any number of frames:

| Theorem | States |
|---|---|
| `HubTyped` | `HubSpec => []HubTypeOK`, with no channel beyond its capacity |
| `HubDeliversInOrder` | `HubSpec => []DeliveryInOrder` |
| `HubCountsLoss` | `HubSpec => []NothingUncounted` |
| `HubLatestMatches` | `HubSpec => []LatestMatchesHistory` |
| `HubOwnEntry` | `HubSpec => []OwnEntry` |

The types alone are not inductive. `HubInv` adds that `next_sequence` counts the
history, that no subscription was made in the future, and that a session that has
not subscribed has no channel, no counter and no entry: `Subscribe` hands out a
fresh channel only because of the last of these. On top of `HubInv` the other
properties are proved one by one, each from itself and `HubInv`:
`DeliveryInOrder` because reading moves an event from `queue` to `received`
without changing their concatenation and publishing extends it by the highest
number so far; `NothingUncounted` because a publish adds one offered frame and
either one queued frame or one drop; `OwnEntry` through `DistinctIds`, which
holds until `clash`.

It also proves `HubImplementsBroadcast`, `HubSpec => ImplementsBroadcast`. Initial
states map to initial states; `Publish` maps to `Send` with the sessions whose channel
has room as those that take the frame; `TryRecv` to `Get`, where the order of the
channel shows that the head is the least number that waits; `Unsubscribe` to a `Leave`
that ends the membership of at most one reader.

`BusRuntimeProofs` proves for any requests and buses (`BusAssumption`: the value
that stands for no runtime is not a request) and any number of frames:

| Theorem | States |
|---|---|
| `BusTyped` | `BusSpec => []BusTypeOK`, with answers that fit their operations |
| `WorkersHaveOneOwner` | `BusSpec => []ExclusiveHolder` |
| `WorkersAreNotOrphaned` | `BusSpec => []NoOrphan`, with the two exceptions that it names |
| `BusHasOneReceiver` | `BusSpec => []OneReceiverPerBus` |
| `MapAgreesWithAnswers` | `BusSpec => []LastAnswerHolds` |
| `DeadWorkersAreExplained` | `BusSpec => []DeadWorkerExplained` |

None of these is inductive. `BusInv` adds, per request, how far its worker can
be at each step of the handler (`Stage`); per bus, that the runtime in the map
was never told to stop and is in no other hands (`InMap`); per request that has
removed a runtime, that no other has it (`TakenOut`); what the shutdown has and
that it waits for the requests (`Leaving`); why a worker has ended (`Explained`);
and, for a bus outside `overlap`, that the request in flight is the latest and
that the bus has no runtime from its `remove` to its `insert` (`Alone`). The last
is what makes `Insert` replace nothing: it holds although no lock is held in
between. Each action has a lemma that says what it changes, and from that alone
each part of the invariant follows.

`StreamSessionProofs` proves for any sessions, captures and bounds
(`SessionAssumption`):

| Theorem | States |
|---|---|
| `SessionTyped` | `SessionSpec => []SessionTypeOK`, with the batch and the socket within their bounds |
| `ReportsAreHonest` | `SessionSpec => []DiagnosticsHonest` |
| `LossIsAnnouncedFirst` | `SessionSpec => []LossAnnouncedFirst` |

Every step of a session is a step of the hub or leaves it alone
(`SessionsUseHub`), so that the theorems about the hub hold here. `SessionInv`
adds to the types where a handler can be at each phase of its subscription and
that a batch is not complete while it is drained. `HonestInv` adds that
`observed`, `reported` and every message under way say no more than the drop
count, and that `diagnostics` is never ahead of what the handler is about to
report; it needs `OwnEntry`, that `subscriber_stats` answers about the
handler's own subscription, and so holds until `clash`.

`LossIsAnnouncedFirst` takes two more invariants. `OrderedInv` says that as long
as the client is there, what its handler has received was read, is in the socket
or is in the handler's hand, in this order; so what is missed when a frame is
read is what was *lost before* it: offered with a lower number, and neither
received nor waiting. `LossInv` counts that. Every loss of an open subscription
is in its drop count (`LossCounted`). For every frame in the socket, as many
losses as were before it have been told, or are in a diagnostic in front of it;
the losses before the frame in hand are reported (`Announced`). For the channel
(`Covered`) let `Room` be the number of events that the handler can still take
before it looks at the counter again, the capacity less what it has sent and
holds. The first `Room` events of the channel have no more losses before them
than are reported at the end of this turn (`Basis`); and if more were dropped
since the counter was read, the channel holds at least `Room` events. A publish
that drops finds the channel full, which is at least `Room`, and one that
appends after a drop appends behind the first `Room`; taking an event lowers both
sides by one. With a longer batch `Room` could exceed the capacity and the
argument breaks, as the run does under that mutant. The invariant is only claimed
while the client is there, because messages sent to one that has gone are lost.

`SerialAdapterProofs` proves for any number of frames, connects and kept frames
(`AdapterAssumption`):

| Theorem | States |
|---|---|
| `AdapterTypes` | `AdapterSpec => []AdapterTypeOK` |
| `NoFrameIsMissing` | `AdapterSpec => []NoFrameMissing` |
| `VersionKeepsInStep` | `AdapterSpec => []VersionPutsInStep` |

They rest on lemmas about what is left of a text when its first tokens are gone
and what is added to one (`After`, `CarryAfter`, `AnswersMore`, ...).
`NoFrameMissing` speaks of receiving only; `FramesInv` adds that at any time what
is on the wire are the latest frames (`LatestOnWire`). A `connect` that throws away
what it reads, a cut line included, keeps that, because it takes from the front.
`VersionPutsInStep` is far from inductive. `DialogueInv` says for every step of
`connect` what has been answered: before command k is written the device has
executed the first k - 1, did what they ask for, and nothing but whole lines of
frames is under way (`Quiet`); while it waits, the command has not been executed or
its answer is the only one and, for a BEL, says whether it was accepted
(`Waiting`). This holds during `V` when the port was quiet at the start (`inStep`),
and from there on only if `V` was answered: an answer that is late is then
impossible, because there is no command left whose answer it could be.

`ServerProcessProofs` holds for any buses and any number of children:

| Theorem | States |
|---|---|
| `ServerTyped` | `GuiSpec => []ServerTypeOK` |
| `ChildrenAreWatched` | `GuiSpec => []NoChildLost` |
| `ExitsAreReal` | `GuiSpec => []ExitTold` |
| `DisconnectsReach` | `GuiSpec => DisconnectReaches` |

The conjunction of the first three is inductive, because the types include that the
child watched is the one spawned last. `DisconnectReaches` is an action property;
it follows from `DisconnectInv`: a bus of the list that the command is through with
is not connected, or has been connected by a request under way.

`GuiStreamProofs` holds for any limit of the history, any number of frames,
effects, clears and polls:

| Theorem | States |
|---|---|
| `PlotIsToldWhatItMisses` | `GuiStreamSpec => []PlotAccounts` |
| `GuiStreamTyped` | `GuiStreamSpec => []GuiStreamTypeOK` |
| `PausedViewStays` | `GuiStreamSpec => PausedViewHolds` |
| `RatesAreRight` | `RightAt(times, now)` for every sequence of times and every now |
| `RatesAreExact` | `GuiStreamSpec => []RateExact` |

`PlotInv` adds that the history holds the last sequence numbers without a gap, is
empty only right after a clear, and holds nothing from before it: that is what
makes the difference of the cursor and the first entry the number of frames
missed. `ViewInv` adds what an effect has captured: the present one knows whether
the view is paused, those to come have no poll, and a poll asked for in a paused
view belongs to an effect that drops its reply. The rate is an induction over the
times: with each, the sum over the buckets of the window grows by one if the time
is in the window, and a bucket that leaves has an index below that of the new
frame by more than the window, so that it counts for no moment from then on.
Moments before are why a frame dated after now may hide others.

`PipelineProofs` holds for any frames that a line can carry (`SentAssumption`: those
that `new_rx` makes) and any arguments, configurations, layouts, sources and word
size. `InputAssumption` only says what they are: a host time is seconds and the
nanoseconds beyond them, a name is a sequence of characters,
and a configuration, a layout and a source have the fields of the structures that
`serde` makes of them, with whole numbers for scales and offsets. Whether they are
valid is left to the code.

| Theorem | States |
|---|---|
| `LinesAreRead` | `PipelineSpec => []LinesReadBack` |
| `StreamIsFaithful` | `PipelineSpec => []StreamKeepsFrames` |
| `BothModesAgree` | `PipelineSpec => []ModesAgree` |
| `CapturesReadBack` | `PipelineSpec => []CaptureReadsBack` |
| `ExtractionIsRight` | `ExtractedAsReference(data, source)` for every sequence of bytes and every source |
| `ExtractionMatches` | `PipelineSpec => []ExtractionMatchesReference` |
| `PlotsAreAlike` | `PipelineSpec => []PlotsAgree` |

`PipelineInv` says that what has been received are frames that were sent and that
the last line was read as it should be. Its step is `ReadOfLine`: digits give back
the identifier and the bytes, a whole line has the length that its header and DLC
ask for, and each damage makes a length, a digit or an identifier that is refused.

`StreamIsFaithful` and `BothModesAgree` rest on one fact about times (`NsBack`): the
nanoseconds of the whole give back seconds and the rest, and the milliseconds that
`CsvTimestamp` cuts from them are those that `FormatTimestamp` cuts from the rest.
`EventBack` then takes the event apart again, field by field (`FrameMade`), and
`RowOfEvent` shows the row of the event to be the row of the frame although each column
is made by another function. The modes choose alike by an induction over the frames of
the window (`CarriedIs`, `SameChoice`), and `TextsAlike` puts both together for arguments
that `Queried` leaves as they are.

`CapturesReadBack` goes through the whole text of a file. Once there is a capture, it
is the text that a standalone capture with the arguments that arrived writes of the
frames of its window (`CaptureInv`; for Client mode by `TextsAlike`). The
text of rows without a line break has these rows as its lines (`FileOfLines`). A row
is scanned column by column: what `csv_escape` makes of a text, scanned outside of
quotes, adds just that text to the last column and leaves no quote open
(`EscapeScan`), because a quote inside comes twice; so a row is split into the columns
it was made of (`RowReads`). A name with a line break is quoted, but lines are split
before quotes are looked at: the first such row ends in a line of two columns
(`BrokenName`), which is refused, and the file with it. `FileReads` says both of any
file of rows, for any function that makes a row's columns and any that reads them
back; `CaptureRead` uses it for captures and `SamplesRead` for files of signals.

`ExtractionIsRight` compares a loop over single bits with a field of one number. The
data, read as digits in base 256, are a number (`BaseNumber`) of which each byte is a
digit, so that a bit of a byte is a bit of that number (`BitOfBytes`). The loop of
`extract_little_endian` puts each bit above those before it (`BitAbove`), that of
`extract_big_endian` shifts and puts it below (`BitBelow`); by induction over the bits
done, both have that many bits of the field (`LittleField`, `BigField`). The sign
extension shifts by what the word has beyond the field, which is never more than the
word because the field has at least one bit (`SignExtended`). `RoundedIs` shows that
`Rounded` gives a nearest multiple of a power of two, and the even one of two; `ExcessIs`
that a number of the word has a least power at which it fits a mantissa; and `FloatIs`
joins them to `IsFloatOf`, where for each power at which the number fits it must be as
near as that power allows, and above a mantissa be a multiple. The provers know
nothing of `2^n` with a variable exponent: powers of two are a recursive function
(`TwoTo`) whose facts are `PowersOfTwo`, `PowerOfSum` and `PowersGrow`.

`PlotsAreAlike` joins these. `PlotInv` says that the file of signals was made of the
capture, with a valid configuration, and the points of that file. Then the capture gives
back the frames to the millisecond (`CaptureRead`), which changes no sample
(`FramesParsed`); the file of signals gives back the samples with six decimals
(`SignalsBack`); and the events of the stream give back the frames (`HistoryIs`). What
is left is three things. The live plot is of all frames, the files of some: the numbers of
a capture rise (`NumbersRise`), so that the samples of the frames with these numbers are,
in order, the samples of the capture with its numbers put in place of the rows
(`SamplesOfSome`), and so for points (`LayoutOfSome`, `LiveIs`). The points of nearly the
same samples are nearly the same (`NearValues`: rounding a value moves its point by at
most half a unit of the last digit times the scale; a value that is not a number stays
so). And choosing the series before making the points, as `select_plot_layout` does,
gives the points that choosing afterwards leaves: for one series, for a panel, from which
the empty ones are dropped, and for the layout (`SeriesAlike`, `PanelAlike`,
`LayoutAlike`, `LayoutFits`). `PointsAgree` reads the three together as `PlotsAgree`.

The induction theorems of the library take an operator as a parameter, which the
provers cannot instantiate. `FoldLemmas` gets round that for folds: `LeastElement`
and `NatSetInduction` (induction as a fact about a set of numbers) follow from the
well-foundedness of inclusion between finite sets, which the library states without
a parameter; from them, `FoldExists` shows that the recursion of a fold has a
solution and `FoldSteps` that its value after each item follows from that before.
The other lemmas are about sequences joined, cut, mapped and flattened, and about
what is kept of them: since an operator cannot be a variable of a lemma, what is kept
is given by a set (`KeptIn`) and what is made of an element by a function (`FlatMap`).

Only model-checked, because TLAPS does not treat liveness: `DropsShown`,
`RequestAnswered`, `ServerExits`, `StopHeeded`, `DeviceLeftClosed`, `StartReturns`,
`ServerShown`, `ViewCatchesUp`. Every invariant that a passing run checks is a theorem.

## Not modelled

* Poisoned mutexes (`lock()` failing after another thread has panicked) and
  panics; failures of the output file of a capture.
* JSON: configurations, requests and events are taken as the values they carry.
  The diagnostics list of the server, except the overflow diagnostics of the
  streams.
* The text of a frame line inside `SerialAdapter`. A remnant of a line is an error
  there; in the code its digits could by chance begin with the header of another
  frame. A device that sends bytes without a CR.
* Floating point, beyond NaN, the conversion of an integer and the digits of a file:
  products and sums of scale and offset are exact, and a `float32` stands for its bytes.
* The messages that `handle_stream` never sends to a capture.
* Percent signs in a bus name, and a name that brings a key of the query behind its `&`.
  Host times before 1970.
* The CLI's `check`, `stats` and `server` commands, which print what a server or a
  port answers, and the fake adapter of `run_check`; the listing of ports.
* Two Tauri commands at the same time: they are synchronous and run on the main
  thread. React's StrictMode (`main.tsx`) mounts effects twice and a webview may be
  reloaded; both show as repeated starts and overlapping effects, which are
  modelled.
* The commands of parser and plot previews, and the hooks of the live plot, which
  `App.tsx` no longer mounts (the backend half of the live plot is in `GuiStream`).
* Rendering of the views.

## Plan

Done: the hub with its abstract specification, streams, bus runtimes, the serial
adapter, the desktop's server process and stream, the codecs and files, and the
proofs above. Left, in this order:

1. `StreamSession` as an implementation of a broadcast that announces its losses,
   composed with `GuiStream` across a reconnection.
2. The diagnostics list of the server and the counters read by `stats`.
