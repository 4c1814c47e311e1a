----------------------------- MODULE BusRuntime -----------------------------
(***************************************************************************)
(* The buses of the server (crates/canrush-server/src/main.rs): connect,   *)
(* disconnect and shutdown on one side, one receive worker thread per      *)
(* connected bus on the other.                                             *)
(*                                                                         *)
(* A request handler locks ServerRuntime only to remove or to insert a     *)
(* BusRuntime.  Stopping, joining and spawning a worker happen outside the *)
(* lock, so requests, also for the same bus, interleave there; and a       *)
(* handler is a synchronous function, which a client that gives up waiting *)
(* does not cancel.  A BusRuntime and its worker are named by the connect  *)
(* request that creates them.                                              *)
(***************************************************************************)
EXTENDS Naturals

CONSTANTS
  Requests,    \* HTTP requests, each sent at most once
  Buses,       \* bus names
  NoWorker,    \* no BusRuntime
  MaxReceived  \* bound: frames a worker publishes

ASSUME BusAssumption ==
  /\ NoWorker \notin Requests
  /\ MaxReceived \in Nat

VARIABLES
  buses,     \* ServerRuntime.buses
  at,        \* where a request handler is
  request,   \* what it was asked: the operation, the bus and the adapter
  old,       \* the BusRuntime it has removed from the map
  answer,    \* how it was answered
  thread,    \* where a worker thread is
  stop,      \* its stop flag
  startup,   \* the message in its startup channel
  status,    \* WorkerState.status
  received,  \* its frames counter: frames published into the hub
  errors,    \* its errors counter
  server,    \* where run is
  leaving,   \* the runtimes drained by stop_all_workers, still to be joined
  overlap,   \* history: buses that two requests were busy with at a time
  last       \* history: the latest request about a bus

askedVars   == <<request, overlap, last>>
requestVars == <<askedVars, at, old, answer>>
workerVars  == <<thread, startup, status, received, errors>>
serverVars  == <<server, leaving>>
busVars     == <<buses, requestVars, workerVars, stop, serverVars>>

Adapters == {"fake", "weact", "unsupported"}
ConnectBusRequest == [op : {"connect"}, bus : Buses, adapter : Adapters]
DisconnectRequest == [op : {"disconnect"}, bus : Buses, adapter : {"none"}]
NoRequest == [op |-> "none", bus |-> NoWorker, adapter |-> "none"]
RequestSteps == {"idle", "remove", "stop", "join", "spawn", "startup",
                 "joinFailed", "joinLate", "status", "insert", "answered"}
Answers == {"none", "connected", "error", "failed", "disconnected"}
ThreadSteps == {"none", "opening", "loop", "receiving", "finished"}
ServerSteps == {"serving", "draining", "stopping", "exited"}

BusInit ==
  /\ buses = [b \in Buses |-> NoWorker]
  /\ at = [r \in Requests |-> "idle"]
  /\ request = [r \in Requests |-> NoRequest]
  /\ old = [r \in Requests |-> NoWorker]
  /\ answer = [r \in Requests |-> "none"]
  /\ thread = [r \in Requests |-> "none"]
  /\ stop = [r \in Requests |-> FALSE]
  /\ startup = [r \in Requests |-> "none"]
  /\ status = [r \in Requests |-> "connected"]
  /\ received = [r \in Requests |-> 0]
  /\ errors = [r \in Requests |-> 0]
  /\ server = "serving"
  /\ leaving = {}
  /\ overlap = {}
  /\ last = [b \in Buses |-> NoWorker]

Alive(w) == thread[w] \notin {"none", "finished"}
InFlight(r) == at[r] \notin {"idle", "answered"}

-----------------------------------------------------------------------------
(* Requests *)

RequestAt(r, here, next) ==
  /\ at[r] = here
  /\ at' = [at EXCEPT ![r] = next]

Answer(r, here, text) ==
  /\ RequestAt(r, here, "answered")
  /\ answer' = [answer EXCEPT ![r] = text]

\* Mutated form of FirstStep: a connect does not disconnect the bus first.
FirstStepSpawns(ask) == IF ask.op = "connect" THEN "spawn" ELSE "remove"

\* Both handlers begin with disconnect_bus_runtime.
FirstStep(ask) == "remove"

Begin(r, ask) ==
  /\ server = "serving"
  /\ RequestAt(r, "idle", FirstStep(ask))
  /\ request' = [request EXCEPT ![r] = ask]
  /\ overlap' = IF \E q \in Requests : InFlight(q) /\ request[q].bus = ask.bus
                THEN overlap \cup {ask.bus} ELSE overlap
  /\ last' = [last EXCEPT ![ask.bus] = r]
  /\ UNCHANGED <<buses, old, answer, workerVars, stop, serverVars>>

\* A connect with an empty bus name is refused at once.
Refuse(r) ==
  /\ server = "serving"
  /\ Answer(r, "idle", "failed")
  /\ UNCHANGED <<buses, askedVars, old, workerVars, stop, serverVars>>

\* Mutated form of Disconnected: a connect answers as a disconnect does.
DisconnectedAnswers(r, here) == Answer(r, here, "disconnected")

\* After disconnect_bus_runtime: a connect goes on, a disconnect answers.
Disconnected(r, here) ==
  \/ /\ request[r].op = "connect"
     /\ RequestAt(r, here, "spawn")
     /\ UNCHANGED answer
  \/ /\ request[r].op = "disconnect"
     /\ Answer(r, here, "disconnected")

\* Mutated form of Remove: the entry is looked up and stays in the map.
RemoveLeavesEntry(r) ==
  /\ at[r] = "remove"
  /\ old' = [old EXCEPT ![r] = buses[request[r].bus]]
  /\ \/ /\ buses[request[r].bus] = NoWorker
        /\ Disconnected(r, "remove")
     \/ /\ buses[request[r].bus] # NoWorker
        /\ RequestAt(r, "remove", "stop")
        /\ UNCHANGED answer
  /\ UNCHANGED <<buses, askedVars, workerVars, stop, serverVars>>

\* Under the lock: the BusRuntime, if there is one, is taken out of the map.
Remove(r) ==
  /\ at[r] = "remove"
  /\ old' = [old EXCEPT ![r] = buses[request[r].bus]]
  /\ buses' = [buses EXCEPT ![request[r].bus] = NoWorker]
  /\ \/ /\ buses[request[r].bus] = NoWorker
        /\ Disconnected(r, "remove")
     \/ /\ buses[request[r].bus] # NoWorker
        /\ RequestAt(r, "remove", "stop")
        /\ UNCHANGED answer
  /\ UNCHANGED <<askedVars, workerVars, stop, serverVars>>

\* Mutated form of StopOld: the worker is joined without being told to stop.
StopOldForgets(r) ==
  /\ RequestAt(r, "stop", "join")
  /\ UNCHANGED <<buses, askedVars, old, answer, workerVars, stop, serverVars>>

StopOld(r) ==
  /\ RequestAt(r, "stop", "join")
  /\ stop' = [stop EXCEPT ![old[r]] = TRUE]
  /\ UNCHANGED <<buses, askedVars, old, answer, workerVars, serverVars>>

\* Mutated form of Joined: the handle is dropped instead of joined.
JoinedAtOnce(w) == TRUE

\* JoinHandle::join returns.
Joined(w) == thread[w] = "finished"

JoinOld(r) ==
  /\ at[r] = "join"
  /\ Joined(old[r])
  /\ old' = [old EXCEPT ![r] = NoWorker]
  /\ Disconnected(r, "join")
  /\ UNCHANGED <<buses, askedVars, workerVars, stop, serverVars>>

\* spawn_fake_bus_worker and spawn_weact_bus_worker.  Both can fail, the latter
\* for a request without a port, and any other adapter is refused.
Spawn(r) ==
  /\ \/ /\ request[r].adapter = "fake"
        /\ RequestAt(r, "spawn", "status")
        /\ thread' = [thread EXCEPT ![r] = "loop"]
        /\ UNCHANGED answer
     \/ /\ request[r].adapter = "weact"
        /\ RequestAt(r, "spawn", "startup")
        /\ thread' = [thread EXCEPT ![r] = "opening"]
        /\ UNCHANGED answer
     \/ /\ Answer(r, "spawn", "failed")
        /\ UNCHANGED thread
  /\ UNCHANGED <<buses, askedVars, old, startup, status, received, errors,
                 stop, serverVars>>

\* startup_receiver.recv_timeout: the worker's message, or three seconds
\* without one, after which the worker is joined but not told to stop.
AwaitStartup(r) ==
  /\ \/ startup[r] = "ok" /\ RequestAt(r, "startup", "status")
     \/ startup[r] = "failed" /\ RequestAt(r, "startup", "joinFailed")
     \/ startup[r] = "none" /\ RequestAt(r, "startup", "joinLate")
  /\ UNCHANGED <<buses, askedVars, old, answer, workerVars, stop, serverVars>>

JoinStartup(r) ==
  /\ Joined(r)
  /\ \E here \in {"joinFailed", "joinLate"} : Answer(r, here, "failed")
  /\ UNCHANGED <<buses, askedVars, old, workerVars, stop, serverVars>>

\* BusRuntime::status_dto of a runtime that is not disconnected.
StatusDto(w) ==
  IF status[w] = "connected" /\ thread[w] = "finished" THEN "error" ELSE status[w]

\* The answer is made before the lock is taken and the runtime inserted.
TakeStatus(r) ==
  /\ RequestAt(r, "status", "insert")
  /\ answer' = [answer EXCEPT ![r] = StatusDto(r)]
  /\ UNCHANGED <<buses, askedVars, old, workerVars, stop, serverVars>>

\* Mutated form of Insert: a dead worker is answered but not registered.
InsertIfAlive(r) ==
  /\ RequestAt(r, "insert", "answered")
  /\ buses' = IF Alive(r) THEN [buses EXCEPT ![request[r].bus] = r] ELSE buses
  /\ UNCHANGED <<askedVars, old, answer, workerVars, stop, serverVars>>

\* Under the lock: HashMap::insert.  A BusRuntime that another request has
\* inserted meanwhile is replaced and dropped, its worker detached.
Insert(r) ==
  /\ RequestAt(r, "insert", "answered")
  /\ buses' = [buses EXCEPT ![request[r].bus] = r]
  /\ UNCHANGED <<askedVars, old, answer, workerVars, stop, serverVars>>

RequestNext(r) ==
  \/ Remove(r)
  \/ StopOld(r)
  \/ JoinOld(r)
  \/ Spawn(r)
  \/ AwaitStartup(r)
  \/ JoinStartup(r)
  \/ TakeStatus(r)
  \/ Insert(r)

-----------------------------------------------------------------------------
(* Worker threads *)

ThreadAt(w, here, next) ==
  /\ thread[w] = here
  /\ thread' = [thread EXCEPT ![w] = next]

\* WeActSerialAdapter::connect returns, and its outcome is sent.
OpenAdapter(w) ==
  /\ \/ /\ ThreadAt(w, "opening", "loop")
        /\ startup' = [startup EXCEPT ![w] = "ok"]
        /\ UNCHANGED errors
     \/ /\ ThreadAt(w, "opening", "finished")
        /\ startup' = [startup EXCEPT ![w] = "failed"]
        /\ errors' = [errors EXCEPT ![w] = @ + 1]
  /\ UNCHANGED <<buses, requestVars, status, received, stop, serverVars>>

\* Mutated form of TestStop: the flag is not read.
TestStopNever(w) ==
  /\ ThreadAt(w, "loop", "receiving")
  /\ UNCHANGED <<buses, requestVars, startup, status, received, errors, stop, serverVars>>

\* while !stop.load(): the flag is read once per frame.
TestStop(w) ==
  /\ ThreadAt(w, "loop", IF stop[w] THEN "finished" ELSE "receiving")
  /\ UNCHANGED <<buses, requestVars, startup, status, received, errors, stop, serverVars>>

\* One frame, into the hub and counted; or none, within the read timeout.
Receive(w) ==
  /\ ThreadAt(w, "receiving", "loop")
  /\ \/ /\ received[w] < MaxReceived
        /\ received' = [received EXCEPT ![w] = @ + 1]
     \/ UNCHANGED received
  /\ UNCHANGED <<buses, requestVars, startup, status, errors, stop, serverVars>>

\* Mutated form of ReceiveFails: set_worker_error is forgotten.
ReceiveFailsSilently(w) ==
  /\ request[w].adapter = "weact"
  /\ ThreadAt(w, "receiving", "finished")
  /\ errors' = [errors EXCEPT ![w] = @ + 1]
  /\ UNCHANGED <<buses, requestVars, startup, status, received, stop, serverVars>>

\* next_frame returns an error: the worker says so and ends.
ReceiveFails(w) ==
  /\ request[w].adapter = "weact"
  /\ ThreadAt(w, "receiving", "finished")
  /\ errors' = [errors EXCEPT ![w] = @ + 1]
  /\ status' = [status EXCEPT ![w] = "error"]
  /\ UNCHANGED <<buses, requestVars, startup, received, stop, serverVars>>

WorkerNext(w) ==
  \/ OpenAdapter(w)
  \/ TestStop(w)
  \/ Receive(w)
  \/ ReceiveFails(w)

-----------------------------------------------------------------------------
(* Shutdown *)

\* Ctrl-C: axum stops accepting and waits for the requests in flight.
CtrlC ==
  /\ server = "serving"
  /\ server' = "draining"
  /\ UNCHANGED <<buses, requestVars, workerVars, stop, leaving>>

\* serve returns, and stop_all_workers drains the map.
Drain ==
  /\ server = "draining"
  /\ \A r \in Requests : ~InFlight(r)
  /\ server' = "stopping"
  /\ leaving' = {buses[b] : b \in Buses} \ {NoWorker}
  /\ buses' = [b \in Buses |-> NoWorker]
  /\ UNCHANGED <<requestVars, workerVars, stop>>

\* One runtime after the other is told to stop, and joined.
StopLeaving(w) ==
  /\ w \in leaving
  /\ \A v \in leaving : ~stop[v]
  /\ stop' = [stop EXCEPT ![w] = TRUE]
  /\ UNCHANGED <<buses, requestVars, workerVars, server, leaving>>

JoinLeaving(w) ==
  /\ w \in leaving
  /\ stop[w]
  /\ Joined(w)
  /\ leaving' = leaving \ {w}
  /\ UNCHANGED <<buses, requestVars, workerVars, stop, server>>

\* main returns.
Exit ==
  /\ server = "stopping"
  /\ leaving = {}
  /\ server' = "exited"
  /\ UNCHANGED <<buses, requestVars, workerVars, stop, leaving>>

ShutdownNext ==
  \/ Drain
  \/ \E w \in Requests : StopLeaving(w) \/ JoinLeaving(w)
  \/ Exit

BusNext ==
  /\ server # "exited"
  /\ \/ \E r \in Requests, ask \in ConnectBusRequest \cup DisconnectRequest : Begin(r, ask)
     \/ \E r \in Requests : Refuse(r) \/ RequestNext(r) \/ WorkerNext(r)
     \/ CtrlC
     \/ ShutdownNext

BusSpec == BusInit /\ [][BusNext]_busVars

\* The runtime and the operating system schedule every thread, an adapter's
\* connect and its next_frame return, and time passes.
FairBusSpec ==
  /\ BusSpec
  /\ \A r \in Requests : WF_busVars(RequestNext(r)) /\ WF_busVars(WorkerNext(r))
  /\ WF_busVars(ShutdownNext)

-----------------------------------------------------------------------------
(* Properties *)

\* What an operation can be answered with; without a bus it is refused.
AnswersTo(op) ==
  {"none"} \cup CASE op = "connect"    -> {"connected", "error", "failed"}
                 [] op = "disconnect" -> {"disconnected"}
                 [] op = "none"       -> {"failed"}

\* Every variable has the type of what it stands for, a bus holds a runtime
\* made for it, a request in flight is about a bus and an answer fits it.
BusTypeOK ==
  /\ buses \in [Buses -> Requests \cup {NoWorker}]
  /\ at \in [Requests -> RequestSteps]
  /\ request \in [Requests -> ConnectBusRequest \cup DisconnectRequest \cup {NoRequest}]
  /\ old \in [Requests -> Requests \cup {NoWorker}]
  /\ answer \in [Requests -> Answers]
  /\ thread \in [Requests -> ThreadSteps]
  /\ stop \in [Requests -> BOOLEAN]
  /\ startup \in [Requests -> {"none", "ok", "failed"}]
  /\ status \in [Requests -> {"connected", "error"}]
  /\ received \in [Requests -> Nat]
  /\ errors \in [Requests -> Nat]
  /\ server \in ServerSteps
  /\ leaving \subseteq Requests
  /\ overlap \subseteq Buses
  /\ last \in [Buses -> Requests \cup {NoWorker}]
  /\ \A b \in Buses : buses[b] # NoWorker => request[buses[b]].bus = b
  /\ \A r \in Requests : /\ InFlight(r) => request[r] # NoRequest
                         /\ answer[r] \in AnswersTo(request[r].op)

\* Who may still stop and join a worker: the map, the requests that took it
\* out of the map, and the shutdown.
Holders(w) ==
  {b \in Buses : buses[b] = w} \cup {r \in Requests : old[r] = w}
    \cup {"shutdown" : v \in leaving \cap {w}}

\* A worker is never held twice, so that it is joined once and by the request
\* that removed it, and a worker in the map was not yet told to stop.
ExclusiveHolder ==
  \A w \in Requests :
    /\ \A x, y \in Holders(w) : x = y
    /\ Holders(w) # {} => at[w] = "answered"
    /\ (\E b \in Buses : buses[b] = w) => ~stop[w]

\* Its own connect request will put a worker into the map.  One that waits in
\* joinLate will not, and has given the worker no order to stop.
HandsOver(w) == at[w] \in {"startup", "status", "insert"}

\* As long as no two requests about a bus were in flight together, a running
\* worker of that bus can still be stopped: it is held, or its own connect
\* request may still register it.  So after a disconnect was answered,
\* nothing receives on the bus.  Two workers are not covered, and the code has
\* no way to stop either: one that an overlapping request has replaced in the
\* map (main.rs:212), and one whose connect gave up after the startup timeout
\* and waits for it without having told it to stop (main.rs:566-568).
NoOrphan ==
  \A w \in Requests :
    Alive(w) /\ request[w].bus \notin overlap /\ at[w] # "joinLate" =>
      Holders(w) # {} \/ HandsOver(w)

\* And there is never more than one of them: the adapter of a bus is not
\* opened again before the previous worker has closed it.
OneReceiverPerBus ==
  \A v, w \in Requests :
    Alive(v) /\ Alive(w) /\ request[v].bus = request[w].bus
      /\ request[v].bus \notin overlap => v = w

\* A bus is registered exactly when the latest answered request about it was
\* a connect that was not refused; one that failed has left it disconnected.
LastAnswerHolds ==
  server = "serving" => \A b \in Buses \ overlap :
    last[b] # NoWorker /\ ~InFlight(last[b]) =>
      buses[b] = IF answer[last[b]] \in {"connected", "error"} THEN last[b] ELSE NoWorker

\* A registered worker that has ended has recorded the error that ended it,
\* so the bus is not shown as connected (doc/overview.md:128 and 244).
DeadWorkerExplained ==
  \A b \in Buses :
    buses[b] # NoWorker /\ thread[buses[b]] = "finished" =>
      status[buses[b]] = "error" /\ errors[buses[b]] > 0

\* Every request is answered, unless its worker took longer to open the
\* adapter than the startup timeout.
RequestAnswered ==
  \A r \in Requests : InFlight(r) ~> (at[r] \in {"answered", "joinLate"})

\* After Ctrl-C the server exits, unless such a request is still waiting.
ServerExits ==
  server = "draining" ~> (server = "exited" \/ \E r \in Requests : at[r] = "joinLate")
=============================================================================
