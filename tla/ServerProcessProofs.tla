------------------------ MODULE ServerProcessProofs ------------------------
(***************************************************************************)
(* The desktop application and its servers, for any buses and any number   *)
(* of children: the types, that no child is lost, that an exit is told     *)
(* only of a child that has ended, and what a disconnect command reaches.  *)
(*                                                                         *)
(* ServerInv is inductive as it stands, because the type invariant says    *)
(* that the child watched is the one spawned last but in the one step      *)
(* between spawn and server_process = Some(..), so that a new child is     *)
(* never the one watched before it.  DisconnectInv adds what a disconnect  *)
(* command has done so far.                                                *)
(***************************************************************************)
EXTENDS ServerProcess, TLAPS

ServerInv == ServerTypeOK /\ NoChildLost /\ ExitTold

-----------------------------------------------------------------------------
LEMMA ServerInvInit == GuiInit => ServerInv
  <1> SUFFICES ASSUME GuiInit PROVE ServerInv
    OBVIOUS
  <1>1. ServerTypeOK
    <2>1. /\ exitReason \in BOOLEAN /\ external \in BOOLEAN
          /\ fresh \in BOOLEAN /\ late \in BOOLEAN
      BY DEF GuiInit
    <2>2. child \in [Children -> ChildStates] /\ buses \in [Buses -> BusStates]
      BY DEF GuiInit, ChildStates, BusStates
    <2>3. spawned \in 0 .. MaxSpawns /\ own \in 0 .. spawned /\ own = spawned
      BY SpawnAssumption DEF GuiInit
    <2>4. /\ info \in Infos /\ startReply \in Infos
          /\ pollReply \in Infos /\ shown \in Infos
      BY DEF GuiInit, NoInfo, Info, Infos
    <2>5. /\ at \in Steps /\ pending \subseteq Buses /\ todo \subseteq Buses
          /\ listed \subseteq Buses /\ inserted \subseteq Buses
      BY DEF GuiInit, Steps
    <2> QED
      BY <2>1, <2>2, <2>3, <2>4, <2>5 DEF ServerTypeOK
  <1>2. NoChildLost
    BY DEF GuiInit, NoChildLost, Live, Children
  <1>3. ExitTold
    BY DEF GuiInit, ExitTold, NoInfo, Info
  <1> QED
    BY <1>1, <1>2, <1>3 DEF ServerInv

\* The servers come and go, and their buses with them.
LEMMA ServersKeep ==
  ASSUME ServerInv, ServerNext
  PROVE  ServerInv'
  <1> USE SpawnAssumption DEF ServerInv, ServerTypeOK, NoChildLost, ExitTold, Live, Children,
        ChildStates, BusStates, Steps, Infos, Info, NoInfo, serverVars, processVars, infoVars,
        viewVars, doneVars, Goto, UpdateServerInfo, BusesGone
  <1>1. ASSUME NEW c \in Children, ChildListens(c) PROVE ServerInv'
    BY <1>1 DEF ChildListens, Listening
  <1>2. ASSUME NEW c \in Children, ChildEnds(c) PROVE ServerInv'
    BY <1>2 DEF ChildEnds
  <1>3. CASE ExternalListens
    BY <1>3 DEF ExternalListens
  <1>4. CASE ExternalEnds
    <2>1. external' \in BOOLEAN /\ buses' \in [Buses -> BusStates] /\ pending' \subseteq Buses
      BY <1>4 DEF ExternalEnds
    <2> QED
      BY <1>4, <2>1 DEF ExternalEnds
  <1>5. ASSUME NEW b \in Buses, NEW status \in {"absent", "connected"}, ConnectEnds(b, status)
        PROVE  ServerInv'
    BY <1>5 DEF ConnectEnds
  <1>6. ASSUME NEW b \in Buses, WorkerFails(b) PROVE ServerInv'
    BY <1>6 DEF WorkerFails
  <1> QED
    BY <1>1, <1>2, <1>3, <1>4, <1>5, <1>6 DEF ServerNext

\* start_local_server.
LEMMA StartKeeps ==
  ASSUME ServerInv, StartNext
  PROVE  ServerInv'
  <1> USE SpawnAssumption DEF ServerInv, ServerTypeOK, NoChildLost, ExitTold, Live, Children,
        ChildStates, BusStates, Steps, Infos, Info, NoInfo, serverVars, processVars, infoVars,
        viewVars, doneVars, Goto, UpdateServerInfo, BusesGone
  <1>1. CASE UseExisting
    BY <1>1 DEF UseExisting
  <1>2. CASE NoneAnswers
    BY <1>2 DEF NoneAnswers
  <1>3. CASE SpawnFails
    BY <1>3 DEF SpawnFails
  <1>4. CASE SpawnChild
    BY <1>4 DEF SpawnChild
  <1>5. CASE ReplaceChild
    <2> USE DEF Owned, ExitReasonOfNew, Killed
    <2>1. /\ at = "replace" /\ at' = "wait"
          /\ own' = spawned /\ spawned' = spawned
          /\ exitReason' = FALSE
          /\ child' = [c \in Children |-> IF c = own THEN "gone" ELSE child[c]]
          /\ info' = NoInfo /\ fresh' = FALSE
          /\ UNCHANGED <<external, late, viewVars, doneVars, inserted>>
      BY <1>5 DEF ReplaceChild
    <2>2. buses' \in [Buses -> BusStates] /\ pending' \subseteq Buses
      <3>1. \/ BusesGone
            \/ UNCHANGED <<buses, pending>>
        BY <1>5 DEF ReplaceChild
      <3> QED
        BY <3>1
    <2>3. child' \in [Children -> ChildStates]
      BY <2>1
    <2>4. exitReason' \in BOOLEAN /\ fresh' \in BOOLEAN
      BY <2>1
    <2>5. ServerTypeOK'
      BY <2>1, <2>2, <2>3, <2>4
    <2>6. NoChildLost'
      BY <2>1
    <2>7. ExitTold'
      BY <2>1
    <2> QED
      BY <2>5, <2>6, <2>7
  <1>6. CASE ServerStarted
    BY <1>6 DEF ServerStarted
  <1>7. CASE StartupFails
    BY <1>7 DEF StartupFails, HasExited
  <1>8. CASE StartupTimesOut
    BY <1>8 DEF StartupTimesOut
  <1>9. CASE TryAgain
    BY <1>9 DEF TryAgain
  <1> QED
    BY <1>1, <1>2, <1>3, <1>4, <1>5, <1>6, <1>7, <1>8, <1>9 DEF StartNext

\* latest_snapshot.
LEMMA SnapshotKeeps ==
  ASSUME ServerInv, SnapshotNext
  PROVE  ServerInv'
  <1> USE SpawnAssumption DEF ServerInv, ServerTypeOK, NoChildLost, ExitTold, Live, Children,
        ChildStates, BusStates, Steps, Infos, Info, NoInfo, serverVars, processVars, infoVars,
        viewVars, doneVars, Goto, UpdateServerInfo, BusesGone
  <1>1. CASE TellExit
    BY <1>1 DEF TellExit, HasExited, CurrentServerOwner
  <1>2. CASE TellCached
    BY <1>2 DEF TellCached
  <1>3. CASE AskStatus
    BY <1>3 DEF AskStatus
  <1>4. CASE StatusFails
    BY <1>4 DEF StatusFails, CurrentServerOwner
  <1>5. CASE Snapshot
    BY <1>5 DEF Snapshot
  <1> QED
    BY <1>1, <1>2, <1>3, <1>4, <1>5 DEF SnapshotNext

\* connect_bus, disconnect_bus and disconnect_all.
LEMMA BusCommandsKeep ==
  ASSUME ServerInv, BusNext
  PROVE  ServerInv'
  <1> USE SpawnAssumption DEF ServerInv, ServerTypeOK, NoChildLost, ExitTold, Live, Children,
        ChildStates, BusStates, Steps, Infos, Info, NoInfo, serverVars, processVars, infoVars,
        viewVars, doneVars, Goto, UpdateServerInfo, BusesGone
  <1>1. CASE ConnectReturns
    BY <1>1 DEF ConnectReturns
  <1>2. CASE ListBuses
    BY <1>2 DEF ListBuses, ToDisconnect
  <1>3. CASE ListFails
    BY <1>3 DEF ListFails
  <1>4. CASE DisconnectOk
    BY <1>4 DEF DisconnectOk
  <1>5. ASSUME NEW b \in Buses, DisconnectOne(b) PROVE ServerInv'
    BY <1>5 DEF DisconnectOne
  <1>6. ASSUME NEW b \in Buses, DisconnectFails(b) PROVE ServerInv'
    BY <1>6 DEF DisconnectFails
  <1> QED
    BY <1>1, <1>2, <1>3, <1>4, <1>5, <1>6 DEF BusNext

\* A command takes the main thread.
LEMMA BeginKeeps ==
  ASSUME ServerInv, BeginCommand
  PROVE  ServerInv'
  <1> USE SpawnAssumption DEF ServerInv, ServerTypeOK, NoChildLost, ExitTold, Live, Children,
        ChildStates, BusStates, Steps, Infos, Info, NoInfo, serverVars, processVars, infoVars,
        viewVars, doneVars, Goto, UpdateServerInfo, BusesGone
  <1>1. CASE BeginStart
    <2>1. late' \in BOOLEAN
      BY <1>1 DEF BeginStart
    <2> QED
      BY <1>1, <2>1 DEF BeginStart
  <1>2. CASE BeginSnapshot
    BY <1>2 DEF BeginSnapshot
  <1>3. ASSUME NEW b \in Buses, BeginConnect(b) PROVE ServerInv'
    BY <1>3 DEF BeginConnect
  <1>4. ASSUME NEW b \in Buses, BeginDisconnect(b) PROVE ServerInv'
    BY <1>4 DEF BeginDisconnect
  <1>5. CASE BeginDisconnectAll
    BY <1>5 DEF BeginDisconnectAll
  <1> QED
    BY <1>1, <1>2, <1>3, <1>4, <1>5 DEF BeginCommand

LEMMA ServerInvStep ==
  ASSUME ServerInv, [GuiNext]_guiVars
  PROVE  ServerInv'
  <1> USE SpawnAssumption DEF ServerInv, ServerTypeOK, NoChildLost, ExitTold, Live, Children,
        ChildStates, BusStates, Steps, Infos, Info, NoInfo, serverVars, processVars, infoVars,
        viewVars, doneVars, Goto, UpdateServerInfo, BusesGone
  <1>1. CASE DeadlinePasses
    BY <1>1 DEF DeadlinePasses
  <1>2. CASE StatusOk
    BY <1>2 DEF StatusOk, CurrentServerOwner
  <1>3. CASE CacheExpires
    <2>1. fresh' \in BOOLEAN
      BY <1>3 DEF CacheExpires
    <2> QED
      BY <1>3, <2>1 DEF CacheExpires
  <1>4. CASE ApplyStart
    BY <1>4 DEF ApplyStart
  <1>5. CASE ApplySnapshot
    BY <1>5 DEF ApplySnapshot
  <1>6. CASE UNCHANGED guiVars
    BY <1>6 DEF guiVars
  <1> QED
    BY <1>1, <1>2, <1>3, <1>4, <1>5, <1>6, ServersKeep, StartKeeps, SnapshotKeeps,
       BusCommandsKeep, BeginKeeps DEF GuiNext

LEMMA ServerInvAlways == GuiSpec => []ServerInv
  BY ServerInvInit, ServerInvStep, PTL DEF GuiSpec

-----------------------------------------------------------------------------
\* Every variable of the application keeps its type, and the child watched is
\* the one spawned last.
THEOREM ServerTyped == GuiSpec => []ServerTypeOK
  <1>1. ServerInv => ServerTypeOK
    BY DEF ServerInv
  <1> QED
    BY ServerInvAlways, <1>1, PTL

\* However often a server is started, no child that lives is one that the
\* application has forgotten: it will kill it when it ends.
THEOREM ChildrenAreWatched == GuiSpec => []NoChildLost
  <1>1. ServerInv => NoChildLost
    BY DEF ServerInv
  <1> QED
    BY ServerInvAlways, <1>1, PTL

\* An exit is told only once the child that the application watches has ended.
THEOREM ExitsAreReal == GuiSpec => []ExitTold
  <1>1. ServerInv => ExitTold
    BY DEF ServerInv
  <1> QED
    BY ServerInvAlways, <1>1, PTL

-----------------------------------------------------------------------------
\* While a disconnect command goes on, each of its buses is still to be
\* disconnected, is not connected, or has been connected since.
DisconnectInv ==
  at = "disconnect" => \A b \in listed \ inserted : b \in todo \/ buses[b] # "connected"

\* No step that leaves the command alone connects a bus without noting it.
LEMMA OthersKeepDisconnecting ==
  ASSUME ServerTypeOK, DisconnectInv,
         at' = "disconnect" => at = "disconnect" /\ listed' = listed,
         \A b \in Buses : b \in todo /\ b \notin todo' => buses'[b] # "connected",
         inserted \subseteq inserted',
         \A b \in Buses : buses'[b] = "connected" => buses[b] = "connected" \/ b \in inserted'
  PROVE  DisconnectInv'
  <1> SUFFICES ASSUME at' = "disconnect", NEW b \in listed \ inserted', b \notin todo'
               PROVE  buses'[b] # "connected"
    BY DEF DisconnectInv
  <1>1. b \in Buses /\ b \in listed \ inserted
    BY DEF ServerTypeOK
  <1> QED
    BY <1>1 DEF DisconnectInv

LEMMA DisconnectStep ==
  ASSUME ServerTypeOK, DisconnectInv, [GuiNext]_guiVars
  PROVE  DisconnectInv'
  <1> DEFINE Keeps ==
        /\ at' = "disconnect" => at = "disconnect" /\ listed' = listed
        /\ \A b \in Buses : b \in todo /\ b \notin todo' => buses'[b] # "connected"
        /\ inserted \subseteq inserted'
        /\ \A b \in Buses : buses'[b] = "connected" => buses[b] = "connected" \/ b \in inserted'
  <1>1. Keeps => DisconnectInv'
    BY OthersKeepDisconnecting
  <1>2. buses \in [Buses -> BusStates] /\ inserted \subseteq Buses
    BY DEF ServerTypeOK
  <1> USE DEF Goto, serverVars, processVars, infoVars, viewVars, doneVars
  <1>3. CASE ServerNext
    <2> USE DEF BusesGone
    <2>1. ASSUME NEW c \in Children, ChildListens(c) \/ ChildEnds(c) PROVE Keeps
      BY <1>2, <2>1 DEF ChildListens, ChildEnds
    <2>2. ASSUME ExternalListens PROVE Keeps
      BY <2>2 DEF ExternalListens
    <2>3. ASSUME ExternalEnds PROVE Keeps
      <3>1. \A x \in Buses : buses'[x] = "absent"
        BY <2>3 DEF ExternalEnds
      <3> QED
        BY <2>3, <3>1 DEF ExternalEnds
    <2>4. ASSUME NEW b \in Buses, NEW status \in {"absent", "connected"}, ConnectEnds(b, status)
          PROVE  Keeps
      <3>1. /\ buses' = [buses EXCEPT ![b] = status]
            /\ inserted' = IF status = "connected" THEN inserted \cup {b} ELSE inserted
            /\ UNCHANGED <<at, todo, listed>>
        BY <2>4 DEF ConnectEnds
      <3>2. \A x \in Buses : buses'[x] = IF x = b THEN status ELSE buses[x]
        BY <1>2, <3>1
      <3> QED
        BY <3>1, <3>2
    <2>5. ASSUME NEW b \in Buses, WorkerFails(b) PROVE Keeps
      <3>1. buses' = [buses EXCEPT ![b] = "error"] /\ UNCHANGED <<at, todo, listed, inserted>>
        BY <2>5 DEF WorkerFails
      <3>2. \A x \in Buses : buses'[x] = IF x = b THEN "error" ELSE buses[x]
        BY <1>2, <3>1
      <3> QED
        BY <3>1, <3>2
    <2> QED
      BY <1>1, <1>3, <2>1, <2>2, <2>3, <2>4, <2>5 DEF ServerNext
  <1>4. CASE BeginCommand
    <2>1. CASE BeginStart \/ BeginSnapshot \/ BeginDisconnectAll
      <3>1. Keeps
        BY <2>1 DEF BeginStart, BeginSnapshot, BeginDisconnectAll
      <3> QED
        BY <1>1, <3>1
    <2>2. ASSUME NEW b \in Buses, BeginConnect(b) PROVE DisconnectInv'
      BY <2>2 DEF BeginConnect, DisconnectInv
    <2>3. ASSUME NEW b \in Buses, BeginDisconnect(b) PROVE DisconnectInv'
      BY <2>3 DEF BeginDisconnect, DisconnectInv
    <2> QED
      BY <1>4, <2>1, <2>2, <2>3 DEF BeginCommand
  <1>5. CASE StartNext
    <2>1. at' # "disconnect"
      BY <1>5 DEF StartNext, UseExisting, NoneAnswers, SpawnFails, SpawnChild, ReplaceChild,
                  ServerStarted, StartupFails, StartupTimesOut, TryAgain
    <2> QED
      BY <2>1 DEF DisconnectInv
  <1>6. CASE SnapshotNext \/ StatusOk
    <2>1. at' # "disconnect"
      BY <1>6 DEF SnapshotNext, StatusOk, TellExit, TellCached, AskStatus, StatusFails, Snapshot
    <2> QED
      BY <2>1 DEF DisconnectInv
  <1>7. CASE DeadlinePasses \/ CacheExpires
    <2>1. Keeps
      BY <1>7 DEF DeadlinePasses, CacheExpires
    <2> QED
      BY <1>1, <2>1
  <1>8. CASE BusNext
    <2>1. CASE ConnectReturns \/ ListFails \/ DisconnectOk
      BY <2>1 DEF ConnectReturns, ListFails, DisconnectOk, DisconnectInv
    <2>2. CASE ListBuses
      BY <2>2 DEF ListBuses, ToDisconnect, DisconnectInv
    <2>3. ASSUME NEW b \in Buses, DisconnectOne(b) PROVE Keeps
      <3>1. /\ buses' = [buses EXCEPT ![b] = "absent"] /\ todo' = todo \ {b}
            /\ UNCHANGED <<at, listed, inserted>>
        BY <2>3 DEF DisconnectOne
      <3>2. \A x \in Buses : buses'[x] = IF x = b THEN "absent" ELSE buses[x]
        BY <1>2, <3>1
      <3> QED
        BY <3>1, <3>2
    <2>4. ASSUME NEW b \in Buses, DisconnectFails(b) PROVE DisconnectInv'
      BY <2>4 DEF DisconnectFails, DisconnectInv
    <2> QED
      BY <1>1, <1>8, <2>1, <2>2, <2>3, <2>4 DEF BusNext
  <1>9. CASE ApplyStart \/ ApplySnapshot \/ UNCHANGED guiVars
    <2>1. Keeps
      BY <1>9 DEF ApplyStart, ApplySnapshot, guiVars
    <2> QED
      BY <1>1, <2>1
  <1> QED
    BY <1>3, <1>4, <1>5, <1>6, <1>7, <1>8, <1>9 DEF GuiNext

\* A disconnect command that succeeds has disconnected all of its buses but
\* those connected since by a request under way, for any number of buses.
THEOREM DisconnectsReach == GuiSpec => DisconnectReaches
  <1>1. GuiInit => DisconnectInv
    BY DEF GuiInit, DisconnectInv
  <1>2. ServerInv => ServerTypeOK
    BY DEF ServerInv
  <1>3. ASSUME DisconnectInv, DisconnectOk
        PROVE  \A b \in listed \ inserted : buses[b] # "connected"
    BY <1>3 DEF DisconnectInv, DisconnectOk, Goto
  <1>4. ASSUME DisconnectInv
        PROVE  [DisconnectOk => \A b \in listed \ inserted : buses[b] # "connected"]_guiVars
    BY <1>3, <1>4
  <1> QED
    BY <1>1, <1>2, <1>4, DisconnectStep, ServerInvAlways, PTL DEF GuiSpec, DisconnectReaches
=============================================================================
