--------------------------- MODULE ServerProcess ---------------------------
(***************************************************************************)
(* The desktop application and its local server: starting one or using the *)
(* one that is there, watching it, and the commands that go to it          *)
(* (apps/desktop/src-tauri/src/server_process.rs, commands.rs,             *)
(* server_client.rs and state.rs).                                         *)
(*                                                                         *)
(* Tauri runs these commands one after the other on its main thread.  What *)
(* goes on meanwhile are the servers: the children that the application    *)
(* has spawned, numbered in that order, and one of somebody else's.  One   *)
(* process at a time listens at the port.  Of the server that listens only *)
(* the buses are modelled here (module BusRuntime has the rest).           *)
(***************************************************************************)
EXTENDS Naturals

CONSTANTS
  Buses,     \* bus names
  MaxSpawns  \* bound: children spawned

ASSUME SpawnAssumption == MaxSpawns \in Nat

VARIABLES
  child,       \* what has become of each child
  external,    \* another server listens
  buses,       \* what the listening server tells of its buses
  pending,     \* its buses with a connect request under way
  spawned,     \* children spawned
  own,         \* ServerProcessRuntime.child, 0 if server_process is None
  exitReason,  \* ServerProcessRuntime.exit_reason is set
  info,        \* ReceiverInner.server_info
  fresh,       \* it was checked less than SERVER_INFO_REFRESH_INTERVAL ago
  at,          \* where the main thread is
  late,        \* the deadline of start_local_server_for_state has passed
  todo,        \* the buses that a disconnect command has still to disconnect
  startReply,  \* the result of start_local_server on its way to the view
  pollReply,   \* the result of latest_snapshot on its way to the view
  shown,       \* the server information shown by the view
  listed,      \* history: buses that the disconnect command set out with
  inserted     \* history: buses connected since then

serverVars  == <<child, external, buses, pending>>
processVars == <<spawned, own, exitReason>>
infoVars    == <<info, fresh>>
viewVars    == <<startReply, pollReply, shown>>
doneVars    == <<todo, listed>>
guiVars     == <<serverVars, processVars, infoVars, at, late, viewVars, doneVars, inserted>>

Children    == 1 .. MaxSpawns
ChildStates == {"none", "starting", "listening", "gone"}
BusStates   == {"absent", "connected", "error"}
Steps == {"idle", "adopt", "spawn", "replace", "wait", "check", "refresh", "status",
          "buses", "connect", "list", "disconnect"}

Info(owner, state) == [owner |-> owner, process_state |-> state]
NoInfo == Info("none", "none")
Infos  == [owner : {"none", "external", "gui"},
           process_state : {"none", "running", "exited", "starting", "not-running", "unknown"}]

GuiInit ==
  /\ child = [c \in Children |-> "none"]
  /\ external \in BOOLEAN
  /\ buses = [b \in Buses |-> "absent"]
  /\ pending = {}
  /\ spawned = 0
  /\ own = 0
  /\ exitReason = FALSE
  /\ info = NoInfo
  /\ fresh = FALSE
  /\ at = "idle"
  /\ late = FALSE
  /\ todo = {}
  /\ startReply = NoInfo
  /\ pollReply = NoInfo
  /\ shown = NoInfo
  /\ listed = {}
  /\ inserted = {}

Live(c)   == child[c] \in {"starting", "listening"}
Listening == external \/ \E c \in Children : child[c] = "listening"

-----------------------------------------------------------------------------
(* The servers *)

\* Nothing is left of the buses of a server that has gone.
BusesGone ==
  /\ buses' = [b \in Buses |-> "absent"]
  /\ pending' = {}

\* A child that finds the port taken ends with an error.
ChildListens(c) ==
  /\ child[c] = "starting"
  /\ child' = [child EXCEPT ![c] = IF Listening THEN "gone" ELSE "listening"]
  /\ UNCHANGED <<external, buses, pending, processVars, infoVars, at, late, viewVars,
                 doneVars, inserted>>

ChildEnds(c) ==
  /\ Live(c)
  /\ child' = [child EXCEPT ![c] = "gone"]
  /\ IF child[c] = "listening" THEN BusesGone ELSE UNCHANGED <<buses, pending>>
  /\ UNCHANGED <<external, processVars, infoVars, at, late, viewVars, doneVars, inserted>>

ExternalListens ==
  /\ ~Listening
  /\ external' = TRUE
  /\ UNCHANGED <<child, buses, pending, processVars, infoVars, at, late, viewVars,
                 doneVars, inserted>>

ExternalEnds ==
  /\ external
  /\ external' = FALSE
  /\ BusesGone
  /\ UNCHANGED <<child, processVars, infoVars, at, late, viewVars, doneVars, inserted>>

\* A connect request ends, also when nobody waits for it any more.
ConnectEnds(b, status) ==
  /\ b \in pending
  /\ pending' = pending \ {b}
  /\ buses' = [buses EXCEPT ![b] = status]
  /\ inserted' = IF status = "connected" THEN inserted \cup {b} ELSE inserted
  /\ UNCHANGED <<child, external, processVars, infoVars, at, late, viewVars, doneVars>>

WorkerFails(b) ==
  /\ buses[b] = "connected"
  /\ buses' = [buses EXCEPT ![b] = "error"]
  /\ UNCHANGED <<child, external, pending, processVars, infoVars, at, late, viewVars,
                 doneVars, inserted>>

ServerNext ==
  \/ \E c \in Children : ChildListens(c) \/ ChildEnds(c)
  \/ ExternalListens
  \/ ExternalEnds
  \/ \E b \in Buses, status \in {"absent", "connected"} : ConnectEnds(b, status)
  \/ \E b \in Buses : WorkerFails(b)

-----------------------------------------------------------------------------
(* start_local_server *)

Goto(here, next) == at = here /\ at' = next

\* update_server_info.
UpdateServerInfo(owner, state) ==
  /\ info' = Info(owner, state)
  /\ fresh' = TRUE

BeginStart ==
  /\ Goto("idle", "adopt")
  /\ startReply = NoInfo
  /\ late' = FALSE
  /\ UNCHANGED <<serverVars, processVars, infoVars, viewVars, doneVars, inserted>>

\* A server answers GET /status: it is used, whoever has started it.
UseExisting ==
  /\ Goto("adopt", "idle")
  /\ Listening
  /\ UpdateServerInfo("external", "running")
  /\ startReply' = info'
  /\ UNCHANGED <<serverVars, processVars, late, pollReply, shown, doneVars, inserted>>

\* No answer within SERVER_HTTP_TIMEOUT, although a server may listen.
NoneAnswers ==
  /\ \/ Goto("adopt", "spawn")
     \/ Goto("wait", "check")
  /\ UNCHANGED <<serverVars, processVars, infoVars, late, viewVars, doneVars, inserted>>

\* The executable is missing, or does not start.
SpawnFails ==
  /\ Goto("spawn", "idle")
  /\ startReply' = Info("none", "not-running")
  /\ UNCHANGED <<serverVars, processVars, infoVars, late, pollReply, shown, doneVars, inserted>>

SpawnChild ==
  /\ spawned < MaxSpawns
  /\ Goto("spawn", "replace")
  /\ spawned' = spawned + 1
  /\ child' = [child EXCEPT ![spawned + 1] = "starting"]
  /\ UNCHANGED <<external, buses, pending, own, exitReason, infoVars, late, viewVars,
                 doneVars, inserted>>

\* Mutated form of Killed: server_process without its Drop.
KilledNone(c) == {}

\* The children that dropping the ServerProcessRuntime of c kills.
Killed(c) == {c} \cap Children

\* Mutated form of ExitReasonOfNew: the new child inherits it.
ExitReasonOfOld == exitReason

ExitReasonOfNew == FALSE

\* Mutated form of Owned: the first runtime is kept.
OwnedFirst == IF own = 0 THEN spawned ELSE own

Owned == spawned

\* server_process = Some(..) drops the previous one.
ReplaceChild ==
  /\ Goto("replace", "wait")
  /\ own' = Owned
  /\ exitReason' = ExitReasonOfNew
  /\ child' = [c \in Children |-> IF c \in Killed(own) THEN "gone" ELSE child[c]]
  /\ IF \E c \in Killed(own) : child[c] = "listening" THEN BusesGone
     ELSE UNCHANGED <<buses, pending>>
  /\ info' = NoInfo
  /\ fresh' = FALSE
  /\ UNCHANGED <<external, spawned, late, viewVars, doneVars, inserted>>

ServerStarted ==
  /\ Goto("wait", "idle")
  /\ Listening
  /\ UpdateServerInfo("gui", "running")
  /\ startReply' = info'
  /\ UNCHANGED <<serverVars, processVars, late, pollReply, shown, doneVars, inserted>>

\* poll_server_process: the child has ended, which is remembered for good.
HasExited == own # 0 /\ (exitReason \/ child[own] = "gone")

StartupFails ==
  /\ Goto("check", "idle")
  /\ HasExited
  /\ exitReason' = TRUE
  /\ UpdateServerInfo("gui", "exited")
  /\ startReply' = info'
  /\ UNCHANGED <<serverVars, spawned, own, late, pollReply, shown, doneVars, inserted>>

\* Mutated form of TimedOut: the deadline is not looked at.
NeverTimedOut == FALSE

TimedOut == late

\* The child is kept, and may listen later.
StartupTimesOut ==
  /\ Goto("check", "idle")
  /\ ~HasExited
  /\ TimedOut
  /\ UpdateServerInfo("gui", "starting")
  /\ startReply' = info'
  /\ UNCHANGED <<serverVars, processVars, late, pollReply, shown, doneVars, inserted>>

TryAgain ==
  /\ Goto("check", "wait")
  /\ ~HasExited
  /\ ~TimedOut
  /\ UNCHANGED <<serverVars, processVars, infoVars, late, viewVars, doneVars, inserted>>

\* SERVER_STARTUP_TIMEOUT.
DeadlinePasses ==
  /\ at \in {"wait", "check"}
  /\ ~late
  /\ late' = TRUE
  /\ UNCHANGED <<serverVars, processVars, infoVars, at, viewVars, doneVars, inserted>>

StartNext ==
  \/ UseExisting \/ NoneAnswers \/ SpawnFails \/ SpawnChild \/ ReplaceChild
  \/ ServerStarted \/ StartupFails \/ StartupTimesOut \/ TryAgain

-----------------------------------------------------------------------------
(* latest_snapshot: refresh_server_info, then the buses *)

BeginSnapshot ==
  /\ Goto("idle", "refresh")
  /\ pollReply = NoInfo
  /\ UNCHANGED <<serverVars, processVars, infoVars, late, viewVars, doneVars, inserted>>

CurrentServerOwner == IF own # 0 THEN "gui" ELSE "external"

TellExit ==
  /\ Goto("refresh", "buses")
  /\ HasExited
  /\ exitReason' = TRUE
  /\ UpdateServerInfo(CurrentServerOwner, "exited")
  /\ UNCHANGED <<serverVars, spawned, own, late, viewVars, doneVars, inserted>>

\* Mutated form of Cached: what was found once is told for ever.
CachedForEver == info # NoInfo

Cached == info # NoInfo /\ fresh

TellCached ==
  /\ Goto("refresh", "buses")
  /\ ~HasExited
  /\ Cached
  /\ UNCHANGED <<serverVars, processVars, infoVars, late, viewVars, doneVars, inserted>>

AskStatus ==
  /\ Goto("refresh", "status")
  /\ ~HasExited
  /\ ~Cached
  /\ UNCHANGED <<serverVars, processVars, infoVars, late, viewVars, doneVars, inserted>>

StatusOk ==
  /\ Goto("status", "buses")
  /\ Listening
  /\ UpdateServerInfo(CurrentServerOwner, "running")
  /\ UNCHANGED <<serverVars, processVars, late, viewVars, doneVars, inserted>>

StatusFails ==
  /\ Goto("status", "buses")
  /\ UpdateServerInfo(CurrentServerOwner, "not-running")
  /\ UNCHANGED <<serverVars, processVars, late, viewVars, doneVars, inserted>>

\* The buses, or none if the server does not answer; they do not change what
\* is told of the server.
Snapshot ==
  /\ Goto("buses", "idle")
  /\ pollReply' = info
  /\ UNCHANGED <<serverVars, processVars, infoVars, late, startReply, shown, doneVars, inserted>>

\* SERVER_INFO_REFRESH_INTERVAL.
CacheExpires ==
  /\ fresh
  /\ fresh' = FALSE
  /\ UNCHANGED <<serverVars, processVars, info, at, late, viewVars, doneVars, inserted>>

SnapshotNext == TellExit \/ TellCached \/ AskStatus \/ StatusFails \/ Snapshot

-----------------------------------------------------------------------------
(* connect_bus, disconnect_bus and disconnect_all *)

\* The server removes a running bus before it connects it again.
BeginConnect(b) ==
  /\ Goto("idle", "connect")
  /\ IF Listening
     THEN pending' = pending \cup {b} /\ buses' = [buses EXCEPT ![b] = "absent"]
     ELSE UNCHANGED <<buses, pending>>
  /\ UNCHANGED <<child, external, processVars, infoVars, late, viewVars, doneVars, inserted>>

\* The answer, or none within SERVER_HTTP_TIMEOUT.
ConnectReturns ==
  /\ Goto("connect", "idle")
  /\ UNCHANGED <<serverVars, processVars, infoVars, late, viewVars, doneVars, inserted>>

BeginDisconnect(b) ==
  /\ Goto("idle", "disconnect")
  /\ todo' = {b}
  /\ listed' = {b}
  /\ inserted' = {}
  /\ UNCHANGED <<serverVars, processVars, infoVars, late, viewVars>>

BeginDisconnectAll ==
  /\ Goto("idle", "list")
  /\ UNCHANGED <<serverVars, processVars, infoVars, late, viewVars, doneVars, inserted>>

\* No status of the server is "connecting".
ToDisconnect == {b \in Buses : buses[b] = "connected"}

ListBuses ==
  /\ Goto("list", "disconnect")
  /\ Listening
  /\ todo' = ToDisconnect
  /\ listed' = {b \in Buses : buses[b] = "connected"}
  /\ inserted' = {}
  /\ UNCHANGED <<serverVars, processVars, infoVars, late, viewVars>>

\* POST /disconnect is answered.
DisconnectOne(b) ==
  /\ at = "disconnect"
  /\ b \in todo
  /\ Listening
  /\ buses' = [buses EXCEPT ![b] = "absent"]
  /\ todo' = todo \ {b}
  /\ UNCHANGED <<child, external, pending, processVars, infoVars, at, late, viewVars,
                 listed, inserted>>

\* Mutated form of DisconnectFails: the error is passed over.
DisconnectForgiven(b) ==
  /\ at = "disconnect"
  /\ b \in todo
  /\ todo' = todo \ {b}
  /\ UNCHANGED <<serverVars, processVars, infoVars, at, late, viewVars, listed, inserted>>

\* It is not, and the command ends; the server may have removed the bus.
DisconnectFails(b) ==
  /\ Goto("disconnect", "idle")
  /\ b \in todo
  /\ \/ UNCHANGED buses
     \/ Listening /\ buses' = [buses EXCEPT ![b] = "absent"]
  /\ todo' = {}
  /\ listed' = {}
  /\ UNCHANGED <<child, external, pending, processVars, infoVars, late, viewVars, inserted>>

ListFails ==
  /\ Goto("list", "idle")
  /\ UNCHANGED <<serverVars, processVars, infoVars, late, viewVars, doneVars, inserted>>

DisconnectOk ==
  /\ Goto("disconnect", "idle")
  /\ todo = {}
  /\ listed' = {}
  /\ UNCHANGED <<serverVars, processVars, infoVars, late, viewVars, todo, inserted>>

BusNext ==
  \/ ConnectReturns \/ ListBuses \/ ListFails \/ DisconnectOk
  \/ \E b \in Buses : DisconnectOne(b) \/ DisconnectFails(b)

-----------------------------------------------------------------------------
(* The view *)

\* startServer of App.tsx; a command that failed has disconnected the view.
ApplyStart ==
  /\ startReply # NoInfo
  /\ shown' = IF startReply.process_state = "running" THEN startReply
              ELSE IF shown.process_state = "running" THEN [shown EXCEPT !.process_state = "unknown"]
              ELSE shown
  /\ startReply' = NoInfo
  /\ UNCHANGED <<serverVars, processVars, infoVars, at, late, pollReply, doneVars, inserted>>

\* setServerInfo of useSnapshotPolling.
ApplySnapshot ==
  /\ pollReply # NoInfo
  /\ shown' = pollReply
  /\ pollReply' = NoInfo
  /\ UNCHANGED <<serverVars, processVars, infoVars, at, late, startReply, doneVars, inserted>>

BeginCommand ==
  \/ BeginStart
  \/ BeginSnapshot
  \/ \E b \in Buses : BeginConnect(b) \/ BeginDisconnect(b)
  \/ BeginDisconnectAll

GuiNext ==
  \/ ServerNext
  \/ BeginCommand
  \/ StartNext \/ DeadlinePasses
  \/ SnapshotNext \/ StatusOk \/ CacheExpires
  \/ BusNext
  \/ ApplyStart \/ ApplySnapshot

GuiSpec == GuiInit /\ [][GuiNext]_guiVars

\* Commands go on; timers expire; every poll gets its turn on the main thread
\* and, if a server listens again and again, an answer; replies arrive.
FairGuiSpec ==
  /\ GuiSpec
  /\ WF_guiVars(StartNext) /\ WF_guiVars(SnapshotNext) /\ WF_guiVars(BusNext)
  /\ WF_guiVars(DeadlinePasses) /\ WF_guiVars(CacheExpires)
  /\ SF_guiVars(BeginSnapshot) /\ SF_guiVars(StatusOk)
  /\ WF_guiVars(ApplyStart) /\ WF_guiVars(ApplySnapshot)

-----------------------------------------------------------------------------
(* Properties *)

\* Types; the child watched is the one spawned last.
ServerTypeOK ==
  /\ child \in [Children -> ChildStates]
  /\ external \in BOOLEAN
  /\ buses \in [Buses -> BusStates]
  /\ pending \subseteq Buses
  /\ spawned \in 0 .. MaxSpawns
  /\ own \in 0 .. spawned
  /\ at # "replace" => own = spawned
  /\ exitReason \in BOOLEAN
  /\ info \in Infos
  /\ fresh \in BOOLEAN
  /\ at \in Steps
  /\ late \in BOOLEAN
  /\ todo \subseteq Buses
  /\ startReply \in Infos
  /\ pollReply \in Infos
  /\ shown \in Infos
  /\ listed \subseteq Buses
  /\ inserted \subseteq Buses

\* The application never loses a child: one that lives is the one it watches
\* and kills, or the one just spawned, which is about to become that.
NoChildLost ==
  \A c \in Children : Live(c) => c = own \/ (at = "replace" /\ c = spawned)

\* An exit is told only of the present child, and only once it has ended.
ExitTold ==
  /\ exitReason => own # 0 /\ child[own] = "gone"
  /\ info.process_state = "exited" => exitReason

\* A disconnect command that succeeds has disconnected every bus it was about,
\* but for those that a connect request still under way has connected since.
DisconnectReaches ==
  [][DisconnectOk => \A b \in listed \ inserted : buses[b] # "connected"]_guiVars

\* start_local_server, which blocks every other command, returns.
StartReturns == at = "adopt" ~> at = "idle"

\* A server that keeps listening is shown, again and again, unless the last
\* child of the application has ended, whoever the listening server belongs to.
ServerShown ==
  <>[](Listening /\ ~HasExited) => []<>(shown.process_state = "running")
=============================================================================
