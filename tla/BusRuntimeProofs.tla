-------------------------- MODULE BusRuntimeProofs --------------------------
(***************************************************************************)
(* Safety of the bus runtimes, for any requests, buses and workers.        *)
(*                                                                         *)
(* BusInv is inductive.  Its parts say how far a request and its worker    *)
(* have come (Stage), who owns a worker (Custody), why a worker has ended  *)
(* (Explained), and what holds of a bus as long as requests about it did   *)
(* not overlap (Alone, Owned).                                             *)
(***************************************************************************)
EXTENDS BusRuntime, TLAPS

Connecting == {"spawn", "startup", "joinFailed", "joinLate", "status", "insert"}

\* Where a request stands tells what it holds and how far its worker is.
Stage(r) ==
  /\ old[r] # NoWorker <=> at[r] \in {"stop", "join"}
  /\ at[r] \in {"idle", "remove", "stop", "join", "spawn"} => thread[r] = "none"
  /\ thread[r] = "opening" => at[r] \in {"startup", "joinLate"}
  /\ startup[r] # "none" => thread[r] \notin {"none", "opening"}
  /\ startup[r] = "failed" => thread[r] = "finished"
  /\ at[r] \in {"status", "insert"} =>
       startup[r] # "failed" /\ thread[r] \notin {"none", "opening"}
  /\ at[r] \in Connecting => request[r].op = "connect"
  /\ at[r] = "idle" => request[r] = NoRequest
  /\ at[r] # "answered" => ~stop[r]
  /\ at[r] \notin {"insert", "answered"} => answer[r] = "none"
  /\ at[r] = "insert" => answer[r] \in {"connected", "error"}

\* A runtime in the map is started, was not told to stop, and is nowhere else.
InMap(b) ==
  buses[b] # NoWorker =>
    /\ at[buses[b]] = "answered"
    /\ ~stop[buses[b]]
    /\ startup[buses[b]] # "failed"
    /\ thread[buses[b]] \notin {"none", "opening"}
    /\ \A r \in Requests : old[r] # buses[b]
    /\ buses[b] \notin leaving

\* A runtime taken out by a request about its bus is in no other hands.
TakenOut(r) ==
  old[r] # NoWorker =>
    /\ at[old[r]] = "answered"
    /\ request[old[r]].bus = request[r].bus
    /\ old[r] \notin leaving
    /\ \A q \in Requests : old[q] = old[r] => q = r

\* The shutdown has the runtimes of different buses, and begins when no
\* request is in flight any more.
Leaving ==
  /\ \A w \in leaving : at[w] = "answered"
  /\ \A v, w \in leaving : request[v].bus = request[w].bus => v = w
  /\ server \in {"serving", "draining"} => leaving = {}
  /\ server \in {"stopping", "exited"} =>
       /\ \A r \in Requests : ~InFlight(r)
       /\ \A b \in Buses : buses[b] = NoWorker

\* A worker has ended because it was told to, because its adapter did not
\* open, or with an error that it has recorded.
Explained(w) ==
  thread[w] = "finished" =>
    stop[w] \/ startup[w] = "failed" \/ (status[w] = "error" /\ errors[w] > 0)

\* A bus about which requests never overlapped: the one in flight is the
\* latest, and once it has begun to act the bus has no runtime.
Alone(b) ==
  b \notin overlap =>
    /\ \A r \in Requests :
         InFlight(r) /\ request[r].bus = b =>
           /\ last[b] = r
           /\ at[r] # "remove" => buses[b] = NoWorker
    /\ last[b] # NoWorker => at[last[b]] # "idle" /\ request[last[b]].bus = b

\* Somebody can still stop the worker.
Held(w) ==
  \/ \E b \in Buses : buses[b] = w
  \/ \E r \in Requests : old[r] = w
  \/ w \in leaving

\* NoOrphan, with the three kinds of holders told apart.
Owned(w) ==
  Alive(w) /\ request[w].bus \notin overlap /\ at[w] # "joinLate" =>
    Held(w) \/ HandsOver(w)

Custody ==
  /\ \A b \in Buses : InMap(b)
  /\ \A r \in Requests : TakenOut(r)
  /\ Leaving

BusInv ==
  /\ BusTypeOK
  /\ Custody
  /\ \A r \in Requests : Stage(r) /\ Explained(r) /\ Owned(r)
  /\ \A b \in Buses : Alone(b)
  /\ LastAnswerHolds

-----------------------------------------------------------------------------
(* A request in flight is about a bus. *)

LEMMA AskedBus ==
  ASSUME BusTypeOK, NEW r \in Requests, InFlight(r)
  PROVE  /\ request[r].bus \in Buses
         /\ request[r].op \in {"connect", "disconnect"}
         /\ request[r] \in ConnectBusRequest \cup DisconnectRequest
  BY DEF BusTypeOK, ConnectBusRequest, DisconnectRequest

(* AnswersTo, without its cases. *)

LEMMA AnswersOfOperations ==
  /\ \A op : "none" \in AnswersTo(op)
  /\ {"connected", "error", "failed"} \subseteq AnswersTo("connect")
  /\ "disconnected" \in AnswersTo("disconnect")
  /\ "failed" \in AnswersTo("none")
  BY DEF AnswersTo

USE DEF RequestAt, Answer, ThreadAt, requestVars, askedVars, workerVars, serverVars,
        BusInv, Custody

\* A request that begins is about its bus alone, or the bus is in overlap from
\* now on.
LEMMA BeginPreservesInv ==
  ASSUME BusInv, NEW r \in Requests,
         NEW ask \in ConnectBusRequest \cup DisconnectRequest, Begin(r, ask)
  PROVE  BusInv'
  <1>1. UNCHANGED <<buses, old, answer, thread, stop, startup, status, received, errors,
                   server, leaving>>
    BY DEF Begin, FirstStep, ConnectBusRequest, DisconnectRequest
  <1>2. /\ at[r] = "idle"
        /\ server = "serving"
        /\ ask.bus \in Buses
        /\ ask.op \in {"connect", "disconnect"}
        /\ ask # NoRequest
        /\ answer[r] = "none"
    BY BusAssumption DEF Begin, FirstStep, ConnectBusRequest, DisconnectRequest,
       ConnectBusRequest, DisconnectRequest, NoRequest, Stage
  <1>3. /\ at' \in [Requests -> RequestSteps]
        /\ \A q \in Requests : at'[q] = IF q = r THEN "remove" ELSE at[q]
        /\ request' \in [Requests -> ConnectBusRequest \cup DisconnectRequest \cup {NoRequest}]
        /\ \A q \in Requests : request'[q] = IF q = r THEN ask ELSE request[q]
        /\ overlap' = (IF \E q \in Requests : InFlight(q) /\ request[q].bus = ask.bus
                     THEN overlap \cup {ask.bus} ELSE overlap)
        /\ last' \in [Buses -> Requests \cup {NoWorker}]
        /\ \A c \in Buses : last'[c] = IF c = ask.bus THEN r ELSE last[c]
    BY <1>2, BusAssumption DEF Begin, FirstStep, ConnectBusRequest, DisconnectRequest,
       BusTypeOK, Answers, RequestSteps, ThreadSteps
  <1>4. BusTypeOK'
    BY <1>1, <1>2, <1>3, BusAssumption, AnswersOfOperations DEF BusTypeOK, InFlight,
       Stage, ServerSteps, InMap
  <1>5. \A q \in Requests : Stage(q)'
    BY <1>1, <1>2, <1>3, BusAssumption DEF Stage, Connecting
  <1>6. \A c \in Buses : InMap(c)'
    BY <1>1, <1>2, <1>3, BusAssumption DEF InMap, BusTypeOK
  <1>7. \A q \in Requests : TakenOut(q)'
    BY <1>1, <1>2, <1>3, BusAssumption DEF TakenOut, BusTypeOK, Stage
  <1>8. Leaving'
    BY <1>1, <1>2, <1>3 DEF Leaving, InFlight, BusTypeOK
  <1>9. \A q \in Requests : Explained(q)'
    BY <1>1, <1>2, <1>3 DEF Explained, BusTypeOK
  <1>10. \A c \in Buses : Alone(c)'
    BY <1>1, <1>2, <1>3, BusAssumption DEF Alone, InFlight, BusTypeOK
  <1>11. \A q \in Requests : Owned(q)'
    BY <1>1, <1>2, <1>3 DEF Held, Alive, BusTypeOK, Owned, InFlight, Stage,
       HandsOver
  <1>12. LastAnswerHolds'
    BY <1>1, <1>2, <1>3, BusAssumption DEF LastAnswerHolds, Alone, InFlight, BusTypeOK
  <1> QED
    BY <1>4, <1>5, <1>6, <1>7, <1>8, <1>9, <1>10, <1>11, <1>12

\* A refused request was about no bus and has no worker.
LEMMA RefusePreservesInv ==
  ASSUME BusInv, NEW r \in Requests, Refuse(r)
  PROVE  BusInv'
  <1>1. UNCHANGED <<buses, request, old, thread, stop, startup, status, received, errors,
                   server, leaving, overlap, last>>
    BY DEF Refuse
  <1>2. /\ at[r] = "idle"
        /\ request[r].op = "none"
    BY BusAssumption DEF Refuse, Stage, NoRequest
  <1>3. /\ at' \in [Requests -> RequestSteps]
        /\ \A q \in Requests : at'[q] = IF q = r THEN "answered" ELSE at[q]
        /\ answer' \in [Requests -> Answers]
        /\ \A q \in Requests : answer'[q] = IF q = r THEN "failed" ELSE answer[q]
    BY <1>2, BusAssumption DEF Refuse, BusTypeOK, Answers, RequestSteps, ThreadSteps
  <1>4. BusTypeOK'
    BY <1>1, <1>2, <1>3, BusAssumption, AnswersOfOperations DEF BusTypeOK, InFlight,
       Stage, ServerSteps, InMap
  <1>5. \A q \in Requests : Stage(q)'
    BY <1>1, <1>2, <1>3, BusAssumption DEF Stage, Connecting
  <1>6. \A c \in Buses : InMap(c)'
    BY <1>1, <1>2, <1>3, BusAssumption DEF InMap, BusTypeOK
  <1>7. \A q \in Requests : TakenOut(q)'
    BY <1>1, <1>2, <1>3, BusAssumption DEF TakenOut, BusTypeOK
  <1>8. Leaving'
    BY <1>1, <1>2, <1>3 DEF Leaving, InFlight, BusTypeOK
  <1>9. \A q \in Requests : Explained(q)'
    BY <1>1, <1>2, <1>3 DEF Explained, BusTypeOK
  <1>10. \A c \in Buses : Alone(c)'
    BY <1>1, <1>2, <1>3, BusAssumption DEF Alone, InFlight, BusTypeOK
  <1>11. \A q \in Requests : Owned(q)'
    BY <1>1, <1>2, <1>3 DEF Held, Alive, BusTypeOK, Owned, InFlight, Stage,
       HandsOver
  <1>12. LastAnswerHolds'
    BY <1>1, <1>2, <1>3, BusAssumption DEF LastAnswerHolds, Alone, InFlight, BusTypeOK
  <1> QED
    BY <1>4, <1>5, <1>6, <1>7, <1>8, <1>9, <1>10, <1>11, <1>12

\* Taking a runtime out of the map hands it, and it alone, to the request.
LEMMA RemovePreservesInv ==
  ASSUME BusInv, NEW r \in Requests, Remove(r)
  PROVE  BusInv'
  <1>1. CASE buses[request[r].bus] = NoWorker /\ request[r].op = "connect"
    <2>1. UNCHANGED <<request, answer, thread, stop, startup, status, received, errors,
                     server, leaving, overlap, last>>
      BY <1>1, SMT DEF Remove, Disconnected
    <2>2. /\ at[r] = "remove"
          /\ InFlight(r)
          /\ old[r] = NoWorker
          /\ buses[request[r].bus] = NoWorker
          /\ request[r].op = "connect"
          /\ request[r].bus \in Buses
      BY <1>1, AskedBus, BusAssumption DEF Remove, Disconnected, InFlight, Stage,
         Connecting
    <2>3. /\ at' \in [Requests -> RequestSteps]
          /\ \A q \in Requests : at'[q] = IF q = r THEN "spawn" ELSE at[q]
          /\ old' \in [Requests -> Requests \cup {NoWorker}]
          /\ \A q \in Requests : old'[q] = IF q = r THEN NoWorker ELSE old[q]
          /\ buses' \in [Buses -> Requests \cup {NoWorker}]
          /\ \A c \in Buses : buses'[c] = IF c = request[r].bus THEN NoWorker ELSE buses[c]
      BY <1>1, <2>2, BusAssumption DEF Remove, Disconnected, BusTypeOK, Answers,
         RequestSteps, ThreadSteps
    <2>4. BusTypeOK'
      BY <2>1, <2>2, <2>3, BusAssumption, AnswersOfOperations DEF BusTypeOK, InFlight,
         Stage, ServerSteps, InMap
    <2>5. \A q \in Requests : Stage(q)'
      BY <2>1, <2>2, <2>3, BusAssumption DEF Stage, Connecting
    <2>6. \A c \in Buses : InMap(c)'
      BY <2>1, <2>2, <2>3, BusAssumption DEF InMap, BusTypeOK
    <2>7. \A q \in Requests : TakenOut(q)'
      BY <2>1, <2>2, <2>3, BusAssumption DEF TakenOut, BusTypeOK, InMap
    <2>8. Leaving'
      BY <2>1, <2>2, <2>3 DEF Leaving, InFlight, BusTypeOK
    <2>9. \A q \in Requests : Explained(q)'
      BY <2>1, <2>2, <2>3 DEF Explained, BusTypeOK
    <2>10. \A c \in Buses : Alone(c)'
      BY <2>1, <2>2, <2>3, BusAssumption DEF Alone, InFlight, BusTypeOK
    <2>11. \A q \in Requests : Owned(q)'
      BY <2>1, <2>2, <2>3 DEF Held, Alive, BusTypeOK, Owned, InFlight, Stage,
         HandsOver
    <2>12. LastAnswerHolds'
      BY <2>1, <2>2, <2>3, BusAssumption DEF LastAnswerHolds, Alone, InFlight,
         BusTypeOK
    <2> QED
      BY <2>4, <2>5, <2>6, <2>7, <2>8, <2>9, <2>10, <2>11, <2>12
  <1>2. CASE buses[request[r].bus] = NoWorker /\ request[r].op = "disconnect"
    <2>1. UNCHANGED <<request, thread, stop, startup, status, received, errors, server,
                     leaving, overlap, last>>
      BY <1>2, SMT DEF Remove, Disconnected
    <2>2. /\ at[r] = "remove"
          /\ InFlight(r)
          /\ old[r] = NoWorker
          /\ buses[request[r].bus] = NoWorker
          /\ request[r].op = "disconnect"
          /\ request[r].bus \in Buses
      BY <1>2, AskedBus, BusAssumption DEF Remove, Disconnected, InFlight, Stage
    <2>3. /\ at' \in [Requests -> RequestSteps]
          /\ \A q \in Requests : at'[q] = IF q = r THEN "answered" ELSE at[q]
          /\ answer' \in [Requests -> Answers]
          /\ \A q \in Requests : answer'[q] = IF q = r THEN "disconnected" ELSE answer[q]
          /\ old' \in [Requests -> Requests \cup {NoWorker}]
          /\ \A q \in Requests : old'[q] = IF q = r THEN NoWorker ELSE old[q]
          /\ buses' \in [Buses -> Requests \cup {NoWorker}]
          /\ \A c \in Buses : buses'[c] = IF c = request[r].bus THEN NoWorker ELSE buses[c]
      BY <1>2, <2>2, BusAssumption DEF Remove, Disconnected, BusTypeOK, Answers,
         RequestSteps, ThreadSteps
    <2>4. BusTypeOK'
      BY <2>1, <2>2, <2>3, BusAssumption, AnswersOfOperations DEF BusTypeOK, InFlight,
         Stage, ServerSteps, InMap
    <2>5. \A q \in Requests : Stage(q)'
      BY <2>1, <2>2, <2>3, BusAssumption DEF Stage, Connecting
    <2>6. \A c \in Buses : InMap(c)'
      BY <2>1, <2>2, <2>3, BusAssumption DEF InMap, BusTypeOK
    <2>7. \A q \in Requests : TakenOut(q)'
      BY <2>1, <2>2, <2>3, BusAssumption DEF TakenOut, BusTypeOK, InMap
    <2>8. Leaving'
      BY <2>1, <2>2, <2>3 DEF Leaving, InFlight, BusTypeOK
    <2>9. \A q \in Requests : Explained(q)'
      BY <2>1, <2>2, <2>3 DEF Explained, BusTypeOK
    <2>10. \A c \in Buses : Alone(c)'
      BY <2>1, <2>2, <2>3, BusAssumption DEF Alone, InFlight, BusTypeOK
    <2>11. \A q \in Requests : Owned(q)'
      BY <2>1, <2>2, <2>3 DEF Held, Alive, BusTypeOK, Owned, InFlight, Stage,
         HandsOver
    <2>12. LastAnswerHolds'
      BY <2>1, <2>2, <2>3, BusAssumption DEF LastAnswerHolds, Alone, InFlight,
         BusTypeOK
    <2> QED
      BY <2>4, <2>5, <2>6, <2>7, <2>8, <2>9, <2>10, <2>11, <2>12
  <1>3. CASE buses[request[r].bus] # NoWorker
    <2>1. UNCHANGED <<request, answer, thread, stop, startup, status, received, errors,
                     server, leaving, overlap, last>>
      BY <1>3, SMT DEF Remove, Disconnected
    <2>2. /\ at[r] = "remove"
          /\ InFlight(r)
          /\ old[r] = NoWorker
          /\ buses[request[r].bus] # NoWorker
          /\ RequestAt(r, "remove", "stop")
          /\ request[r].bus \in Buses
      BY <1>3, AskedBus, BusAssumption DEF Remove, Disconnected, InFlight, Stage
    <2>3. /\ at' \in [Requests -> RequestSteps]
          /\ \A q \in Requests : at'[q] = IF q = r THEN "stop" ELSE at[q]
          /\ old' \in [Requests -> Requests \cup {NoWorker}]
          /\ \A q \in Requests : old'[q] = IF q = r THEN buses[request[r].bus] ELSE old[q]
          /\ buses' \in [Buses -> Requests \cup {NoWorker}]
          /\ \A c \in Buses : buses'[c] = IF c = request[r].bus THEN NoWorker ELSE buses[c]
      BY <1>3, <2>2, BusAssumption DEF Remove, Disconnected, BusTypeOK, Answers,
         RequestSteps, ThreadSteps
    <2>4. BusTypeOK'
      BY <2>1, <2>2, <2>3, BusAssumption, AnswersOfOperations DEF BusTypeOK, InFlight,
         Stage, ServerSteps, InMap
    <2>5. \A q \in Requests : Stage(q)'
      BY <2>1, <2>2, <2>3, BusAssumption DEF Stage, Connecting
    <2>6. \A c \in Buses : InMap(c)'
      BY <2>1, <2>2, <2>3, BusAssumption DEF InMap, BusTypeOK
    <2>7. \A q \in Requests : TakenOut(q)'
      BY <2>1, <2>2, <2>3, BusAssumption DEF TakenOut, BusTypeOK, InMap
    <2>8. Leaving'
      BY <2>1, <2>2, <2>3 DEF Leaving, InFlight, BusTypeOK
    <2>9. \A q \in Requests : Explained(q)'
      BY <2>1, <2>2, <2>3 DEF Explained, BusTypeOK
    <2>10. \A c \in Buses : Alone(c)'
      BY <2>1, <2>2, <2>3, BusAssumption DEF Alone, InFlight, BusTypeOK
    <2>11. \A q \in Requests : Owned(q)'
      BY <2>1, <2>2, <2>3 DEF Held, Alive, BusTypeOK, Owned, InFlight, Stage,
         HandsOver
    <2>12. LastAnswerHolds'
      BY <2>1, <2>2, <2>3, BusAssumption DEF LastAnswerHolds, Alone, InFlight,
         BusTypeOK
    <2> QED
      BY <2>4, <2>5, <2>6, <2>7, <2>8, <2>9, <2>10, <2>11, <2>12
  <1> QED
    BY <1>1, <1>2, <1>3 DEF Remove, Disconnected

\* The worker told to stop is not in the map any more.
LEMMA StopOldPreservesInv ==
  ASSUME BusInv, NEW r \in Requests, StopOld(r)
  PROVE  BusInv'
  <1>1. UNCHANGED <<buses, request, old, answer, thread, startup, status, received,
                   errors, server, leaving, overlap, last>>
    BY DEF StopOld
  <1>2. /\ at[r] = "stop"
        /\ old[r] \in Requests
    BY BusAssumption DEF StopOld, BusTypeOK, Stage
  <1>3. /\ at' \in [Requests -> RequestSteps]
        /\ \A q \in Requests : at'[q] = IF q = r THEN "join" ELSE at[q]
        /\ stop' \in [Requests -> BOOLEAN]
        /\ stop'[old[r]]
        /\ \A q \in Requests : q # old[r] => stop'[q] = stop[q]
    BY <1>2, BusAssumption DEF StopOld, BusTypeOK, Answers, RequestSteps, ThreadSteps
  <1>4. BusTypeOK'
    BY <1>1, <1>2, <1>3, BusAssumption, AnswersOfOperations DEF BusTypeOK, InFlight,
       Stage, ServerSteps, InMap
  <1>5. \A q \in Requests : Stage(q)'
    BY <1>1, <1>2, <1>3, BusAssumption DEF Stage, Connecting, TakenOut
  <1>6. \A c \in Buses : InMap(c)'
    BY <1>1, <1>2, <1>3, BusAssumption DEF InMap, BusTypeOK
  <1>7. \A q \in Requests : TakenOut(q)'
    BY <1>1, <1>2, <1>3, BusAssumption DEF TakenOut, BusTypeOK
  <1>8. Leaving'
    BY <1>1, <1>2, <1>3 DEF Leaving, InFlight, BusTypeOK
  <1>9. \A q \in Requests : Explained(q)'
    BY <1>1, <1>2, <1>3 DEF Explained, BusTypeOK
  <1>10. \A c \in Buses : Alone(c)'
    BY <1>1, <1>2, <1>3, BusAssumption DEF Alone, InFlight, BusTypeOK
  <1>11. \A q \in Requests : Owned(q)'
    BY <1>1, <1>2, <1>3 DEF Held, Alive, BusTypeOK, Owned, InFlight, Stage,
       HandsOver
  <1>12. LastAnswerHolds'
    BY <1>1, <1>2, <1>3, BusAssumption DEF LastAnswerHolds, Alone, InFlight, BusTypeOK
  <1> QED
    BY <1>4, <1>5, <1>6, <1>7, <1>8, <1>9, <1>10, <1>11, <1>12

\* The request gives up a runtime only after its worker has ended.
LEMMA JoinOldPreservesInv ==
  ASSUME BusInv, NEW r \in Requests, JoinOld(r)
  PROVE  BusInv'
  <1>1. CASE request[r].op = "connect"
    <2>1. UNCHANGED <<buses, request, answer, thread, stop, startup, status, received,
                     errors, server, leaving, overlap, last>>
      BY <1>1, SMT DEF JoinOld, Joined, Disconnected
    <2>2. /\ at[r] = "join"
          /\ InFlight(r)
          /\ old[r] \in Requests
          /\ thread[old[r]] = "finished"
          /\ request[r].op = "connect"
          /\ request[r].bus \in Buses
      BY <1>1, AskedBus, BusAssumption DEF JoinOld, Joined, Disconnected, InFlight,
         BusTypeOK, Stage, Connecting
    <2>3. /\ at' \in [Requests -> RequestSteps]
          /\ \A q \in Requests : at'[q] = IF q = r THEN "spawn" ELSE at[q]
          /\ old' \in [Requests -> Requests \cup {NoWorker}]
          /\ \A q \in Requests : old'[q] = IF q = r THEN NoWorker ELSE old[q]
      BY <1>1, <2>2, BusAssumption DEF JoinOld, Joined, Disconnected, BusTypeOK,
         Answers, RequestSteps, ThreadSteps
    <2>4. BusTypeOK'
      BY <2>1, <2>2, <2>3, BusAssumption, AnswersOfOperations DEF BusTypeOK, InFlight,
         Stage, ServerSteps, InMap
    <2>5. \A q \in Requests : Stage(q)'
      BY <2>1, <2>2, <2>3, BusAssumption DEF Stage, Connecting
    <2>6. \A c \in Buses : InMap(c)'
      BY <2>1, <2>2, <2>3, BusAssumption DEF InMap, BusTypeOK
    <2>7. \A q \in Requests : TakenOut(q)'
      BY <2>1, <2>2, <2>3, BusAssumption DEF TakenOut, BusTypeOK
    <2>8. Leaving'
      BY <2>1, <2>2, <2>3 DEF Leaving, InFlight, BusTypeOK
    <2>9. \A q \in Requests : Explained(q)'
      BY <2>1, <2>2, <2>3 DEF Explained, BusTypeOK
    <2>10. \A c \in Buses : Alone(c)'
      BY <2>1, <2>2, <2>3, BusAssumption DEF Alone, InFlight, BusTypeOK
    <2>11. \A q \in Requests : Owned(q)'
      BY <2>1, <2>2, <2>3 DEF Held, Alive, BusTypeOK, Owned, InFlight, Stage,
         HandsOver
    <2>12. LastAnswerHolds'
      BY <2>1, <2>2, <2>3, BusAssumption DEF LastAnswerHolds, Alone, InFlight,
         BusTypeOK
    <2> QED
      BY <2>4, <2>5, <2>6, <2>7, <2>8, <2>9, <2>10, <2>11, <2>12
  <1>2. CASE request[r].op = "disconnect"
    <2>1. UNCHANGED <<buses, request, thread, stop, startup, status, received, errors,
                     server, leaving, overlap, last>>
      BY <1>2, SMT DEF JoinOld, Joined, Disconnected
    <2>2. /\ at[r] = "join"
          /\ InFlight(r)
          /\ old[r] \in Requests
          /\ thread[old[r]] = "finished"
          /\ request[r].op = "disconnect"
          /\ request[r].bus \in Buses
      BY <1>2, AskedBus, BusAssumption DEF JoinOld, Joined, Disconnected, InFlight,
         BusTypeOK, Stage
    <2>3. /\ at' \in [Requests -> RequestSteps]
          /\ \A q \in Requests : at'[q] = IF q = r THEN "answered" ELSE at[q]
          /\ answer' \in [Requests -> Answers]
          /\ \A q \in Requests : answer'[q] = IF q = r THEN "disconnected" ELSE answer[q]
          /\ old' \in [Requests -> Requests \cup {NoWorker}]
          /\ \A q \in Requests : old'[q] = IF q = r THEN NoWorker ELSE old[q]
      BY <1>2, <2>2, BusAssumption DEF JoinOld, Joined, Disconnected, BusTypeOK,
         Answers, RequestSteps, ThreadSteps
    <2>4. BusTypeOK'
      BY <2>1, <2>2, <2>3, BusAssumption, AnswersOfOperations DEF BusTypeOK, InFlight,
         Stage, ServerSteps, InMap
    <2>5. \A q \in Requests : Stage(q)'
      BY <2>1, <2>2, <2>3, BusAssumption DEF Stage, Connecting
    <2>6. \A c \in Buses : InMap(c)'
      BY <2>1, <2>2, <2>3, BusAssumption DEF InMap, BusTypeOK
    <2>7. \A q \in Requests : TakenOut(q)'
      BY <2>1, <2>2, <2>3, BusAssumption DEF TakenOut, BusTypeOK
    <2>8. Leaving'
      BY <2>1, <2>2, <2>3 DEF Leaving, InFlight, BusTypeOK
    <2>9. \A q \in Requests : Explained(q)'
      BY <2>1, <2>2, <2>3 DEF Explained, BusTypeOK
    <2>10. \A c \in Buses : Alone(c)'
      BY <2>1, <2>2, <2>3, BusAssumption DEF Alone, InFlight, BusTypeOK
    <2>11. \A q \in Requests : Owned(q)'
      BY <2>1, <2>2, <2>3 DEF Held, Alive, BusTypeOK, Owned, InFlight, Stage,
         HandsOver
    <2>12. LastAnswerHolds'
      BY <2>1, <2>2, <2>3, BusAssumption DEF LastAnswerHolds, Alone, InFlight,
         BusTypeOK
    <2> QED
      BY <2>4, <2>5, <2>6, <2>7, <2>8, <2>9, <2>10, <2>11, <2>12
  <1> QED
    BY <1>1, <1>2 DEF JoinOld, Joined, Disconnected

\* A worker starts for a request in flight; if none does, the bus has no
\* runtime.
LEMMA SpawnPreservesInv ==
  ASSUME BusInv, NEW r \in Requests, Spawn(r)
  PROVE  BusInv'
  <1>1. CASE thread' = [thread EXCEPT ![r] = "loop"] /\ at' = [at EXCEPT ![r] = "status"]
            /\ answer' = answer
    <2>1. UNCHANGED <<buses, request, old, answer, stop, startup, status, received,
                     errors, server, leaving, overlap, last>>
      BY <1>1, SMT DEF Spawn
    <2>2. /\ at[r] = "spawn"
          /\ InFlight(r)
          /\ request[r].op = "connect"
          /\ request[r].bus \in Buses
          /\ thread[r] = "none"
      BY <1>1, AskedBus, BusAssumption DEF Spawn, InFlight, Stage, Connecting
    <2>3. /\ at' \in [Requests -> RequestSteps]
          /\ \A q \in Requests : at'[q] = IF q = r THEN "status" ELSE at[q]
          /\ thread' \in [Requests -> ThreadSteps]
          /\ \A q \in Requests : thread'[q] = IF q = r THEN "loop" ELSE thread[q]
      BY <1>1, <2>2, BusAssumption DEF Spawn, BusTypeOK, Answers, RequestSteps,
         ThreadSteps
    <2>4. BusTypeOK'
      BY <2>1, <2>2, <2>3, BusAssumption, AnswersOfOperations DEF BusTypeOK, InFlight,
         Stage, ServerSteps, InMap
    <2>5. \A q \in Requests : Stage(q)'
      BY <2>1, <2>2, <2>3, BusAssumption DEF Stage, Connecting
    <2>6. \A c \in Buses : InMap(c)'
      BY <2>1, <2>2, <2>3, BusAssumption DEF InMap, BusTypeOK
    <2>7. \A q \in Requests : TakenOut(q)'
      BY <2>1, <2>2, <2>3, BusAssumption DEF TakenOut, BusTypeOK
    <2>8. Leaving'
      BY <2>1, <2>2, <2>3 DEF Leaving, InFlight, BusTypeOK
    <2>9. \A q \in Requests : Explained(q)'
      BY <2>1, <2>2, <2>3 DEF Explained, BusTypeOK
    <2>10. \A c \in Buses : Alone(c)'
      BY <2>1, <2>2, <2>3, BusAssumption DEF Alone, InFlight, BusTypeOK
    <2>11. \A q \in Requests : Owned(q)'
      BY <2>1, <2>2, <2>3 DEF Held, Alive, BusTypeOK, Owned, InFlight, Stage,
         HandsOver
    <2>12. LastAnswerHolds'
      BY <2>1, <2>2, <2>3, BusAssumption DEF LastAnswerHolds, Alone, InFlight,
         BusTypeOK
    <2> QED
      BY <2>4, <2>5, <2>6, <2>7, <2>8, <2>9, <2>10, <2>11, <2>12
  <1>2. CASE thread' = [thread EXCEPT ![r] = "opening"] /\ at' = [at EXCEPT ![r] = "startup"]
            /\ answer' = answer
    <2>1. UNCHANGED <<buses, request, old, answer, stop, startup, status, received,
                     errors, server, leaving, overlap, last>>
      BY <1>2, SMT DEF Spawn
    <2>2. /\ at[r] = "spawn"
          /\ InFlight(r)
          /\ request[r].op = "connect"
          /\ request[r].bus \in Buses
          /\ thread[r] = "none"
      BY <1>2, AskedBus, BusAssumption DEF Spawn, InFlight, Stage, Connecting
    <2>3. /\ at' \in [Requests -> RequestSteps]
          /\ \A q \in Requests : at'[q] = IF q = r THEN "startup" ELSE at[q]
          /\ thread' \in [Requests -> ThreadSteps]
          /\ \A q \in Requests : thread'[q] = IF q = r THEN "opening" ELSE thread[q]
      BY <1>2, <2>2, BusAssumption DEF Spawn, BusTypeOK, Answers, RequestSteps,
         ThreadSteps
    <2>4. BusTypeOK'
      BY <2>1, <2>2, <2>3, BusAssumption, AnswersOfOperations DEF BusTypeOK, InFlight,
         Stage, ServerSteps, InMap
    <2>5. \A q \in Requests : Stage(q)'
      BY <2>1, <2>2, <2>3, BusAssumption DEF Stage, Connecting
    <2>6. \A c \in Buses : InMap(c)'
      BY <2>1, <2>2, <2>3, BusAssumption DEF InMap, BusTypeOK
    <2>7. \A q \in Requests : TakenOut(q)'
      BY <2>1, <2>2, <2>3, BusAssumption DEF TakenOut, BusTypeOK
    <2>8. Leaving'
      BY <2>1, <2>2, <2>3 DEF Leaving, InFlight, BusTypeOK
    <2>9. \A q \in Requests : Explained(q)'
      BY <2>1, <2>2, <2>3 DEF Explained, BusTypeOK
    <2>10. \A c \in Buses : Alone(c)'
      BY <2>1, <2>2, <2>3, BusAssumption DEF Alone, InFlight, BusTypeOK
    <2>11. \A q \in Requests : Owned(q)'
      BY <2>1, <2>2, <2>3 DEF Held, Alive, BusTypeOK, Owned, InFlight, Stage,
         HandsOver
    <2>12. LastAnswerHolds'
      BY <2>1, <2>2, <2>3, BusAssumption DEF LastAnswerHolds, Alone, InFlight,
         BusTypeOK
    <2> QED
      BY <2>4, <2>5, <2>6, <2>7, <2>8, <2>9, <2>10, <2>11, <2>12
  <1>3. CASE thread' = thread /\ Answer(r, "spawn", "failed")
    <2>1. UNCHANGED <<buses, request, old, thread, stop, startup, status, received,
                     errors, server, leaving, overlap, last>>
      BY <1>3, SMT DEF Spawn
    <2>2. /\ at[r] = "spawn"
          /\ InFlight(r)
          /\ request[r].op = "connect"
          /\ request[r].bus \in Buses
          /\ thread[r] = "none"
      BY <1>3, AskedBus, BusAssumption DEF Spawn, InFlight, Stage, Connecting
    <2>3. /\ at' \in [Requests -> RequestSteps]
          /\ \A q \in Requests : at'[q] = IF q = r THEN "answered" ELSE at[q]
          /\ answer' \in [Requests -> Answers]
          /\ \A q \in Requests : answer'[q] = IF q = r THEN "failed" ELSE answer[q]
      BY <1>3, <2>2, BusAssumption DEF Spawn, BusTypeOK, Answers, RequestSteps,
         ThreadSteps
    <2>4. BusTypeOK'
      BY <2>1, <2>2, <2>3, BusAssumption, AnswersOfOperations DEF BusTypeOK, InFlight,
         Stage, ServerSteps, InMap
    <2>5. \A q \in Requests : Stage(q)'
      BY <2>1, <2>2, <2>3, BusAssumption DEF Stage, Connecting
    <2>6. \A c \in Buses : InMap(c)'
      BY <2>1, <2>2, <2>3, BusAssumption DEF InMap, BusTypeOK
    <2>7. \A q \in Requests : TakenOut(q)'
      BY <2>1, <2>2, <2>3, BusAssumption DEF TakenOut, BusTypeOK
    <2>8. Leaving'
      BY <2>1, <2>2, <2>3 DEF Leaving, InFlight, BusTypeOK
    <2>9. \A q \in Requests : Explained(q)'
      BY <2>1, <2>2, <2>3 DEF Explained, BusTypeOK
    <2>10. \A c \in Buses : Alone(c)'
      BY <2>1, <2>2, <2>3, BusAssumption DEF Alone, InFlight, BusTypeOK
    <2>11. \A q \in Requests : Owned(q)'
      BY <2>1, <2>2, <2>3 DEF Held, Alive, BusTypeOK, Owned, InFlight, Stage,
         HandsOver
    <2>12. LastAnswerHolds'
      BY <2>1, <2>2, <2>3, BusAssumption DEF LastAnswerHolds, Alone, InFlight,
         BusTypeOK
    <2> QED
      BY <2>4, <2>5, <2>6, <2>7, <2>8, <2>9, <2>10, <2>11, <2>12
  <1> QED
    BY <1>1, <1>2, <1>3 DEF Spawn

\* The startup message tells how far the worker is.
LEMMA AwaitStartupPreservesInv ==
  ASSUME BusInv, NEW r \in Requests, AwaitStartup(r)
  PROVE  BusInv'
  <1>1. UNCHANGED <<buses, request, old, answer, thread, stop, startup, status, received,
                   errors, server, leaving, overlap, last>>
    BY DEF AwaitStartup
  <1>2. /\ at[r] = "startup"
        /\ InFlight(r)
        /\ startup[r] \in {"none", "ok", "failed"}
        /\ startup[r] = "failed" => thread[r] = "finished"
    BY AskedBus, BusAssumption DEF AwaitStartup, InFlight, BusTypeOK, Stage
  <1>3. /\ at' \in [Requests -> RequestSteps]
        /\ \A q \in Requests : at'[q] = IF q = r THEN IF startup[r] = "ok" THEN "status" ELSE IF startup[r] = "failed" THEN "joinFailed" ELSE "joinLate" ELSE at[q]
    BY <1>2, BusAssumption DEF AwaitStartup, BusTypeOK, Answers, RequestSteps,
       ThreadSteps
  <1>4. BusTypeOK'
    BY <1>1, <1>2, <1>3, BusAssumption, AnswersOfOperations DEF BusTypeOK, InFlight,
       Stage, ServerSteps, InMap
  <1>5. \A q \in Requests : Stage(q)'
    BY <1>1, <1>2, <1>3, BusAssumption DEF Stage, Connecting
  <1>6. \A c \in Buses : InMap(c)'
    BY <1>1, <1>2, <1>3, BusAssumption DEF InMap, BusTypeOK
  <1>7. \A q \in Requests : TakenOut(q)'
    BY <1>1, <1>2, <1>3, BusAssumption DEF TakenOut, BusTypeOK
  <1>8. Leaving'
    BY <1>1, <1>2, <1>3 DEF Leaving, InFlight, BusTypeOK
  <1>9. \A q \in Requests : Explained(q)'
    BY <1>1, <1>2, <1>3 DEF Explained, BusTypeOK
  <1>10. \A c \in Buses : Alone(c)'
    BY <1>1, <1>2, <1>3, BusAssumption DEF Alone, InFlight, BusTypeOK
  <1>11. \A q \in Requests : Owned(q)'
    BY <1>1, <1>2, <1>3 DEF Held, Alive, BusTypeOK, Owned, InFlight, Stage,
       HandsOver
  <1>12. LastAnswerHolds'
    BY <1>1, <1>2, <1>3, BusAssumption DEF LastAnswerHolds, Alone, InFlight, BusTypeOK
  <1> QED
    BY <1>4, <1>5, <1>6, <1>7, <1>8, <1>9, <1>10, <1>11, <1>12

\* A connect fails only when its worker has ended, and its bus has no runtime.
LEMMA JoinStartupPreservesInv ==
  ASSUME BusInv, NEW r \in Requests, JoinStartup(r)
  PROVE  BusInv'
  <1>1. UNCHANGED <<buses, request, old, thread, stop, startup, status, received, errors,
                   server, leaving, overlap, last>>
    BY DEF JoinStartup, Joined
  <1>2. /\ at[r] \in {"joinFailed", "joinLate"}
        /\ InFlight(r)
        /\ thread[r] = "finished"
        /\ request[r].op = "connect"
        /\ request[r].bus \in Buses
    BY AskedBus, BusAssumption DEF JoinStartup, Joined, InFlight, Stage, Connecting
  <1>3. /\ at' \in [Requests -> RequestSteps]
        /\ \A q \in Requests : at'[q] = IF q = r THEN "answered" ELSE at[q]
        /\ answer' \in [Requests -> Answers]
        /\ \A q \in Requests : answer'[q] = IF q = r THEN "failed" ELSE answer[q]
    BY <1>2, BusAssumption DEF JoinStartup, Joined, BusTypeOK, Answers, RequestSteps,
       ThreadSteps
  <1>4. BusTypeOK'
    BY <1>1, <1>2, <1>3, BusAssumption, AnswersOfOperations DEF BusTypeOK, InFlight,
       Stage, ServerSteps, InMap
  <1>5. \A q \in Requests : Stage(q)'
    BY <1>1, <1>2, <1>3, BusAssumption DEF Stage, Connecting
  <1>6. \A c \in Buses : InMap(c)'
    BY <1>1, <1>2, <1>3, BusAssumption DEF InMap, BusTypeOK
  <1>7. \A q \in Requests : TakenOut(q)'
    BY <1>1, <1>2, <1>3, BusAssumption DEF TakenOut, BusTypeOK
  <1>8. Leaving'
    BY <1>1, <1>2, <1>3 DEF Leaving, InFlight, BusTypeOK
  <1>9. \A q \in Requests : Explained(q)'
    BY <1>1, <1>2, <1>3 DEF Explained, BusTypeOK
  <1>10. \A c \in Buses : Alone(c)'
    BY <1>1, <1>2, <1>3, BusAssumption DEF Alone, InFlight, BusTypeOK
  <1>11. \A q \in Requests : Owned(q)'
    BY <1>1, <1>2, <1>3 DEF Held, Alive, BusTypeOK, Owned, InFlight, Stage,
       HandsOver
  <1>12. LastAnswerHolds'
    BY <1>1, <1>2, <1>3, BusAssumption DEF LastAnswerHolds, Alone, InFlight, BusTypeOK
  <1> QED
    BY <1>4, <1>5, <1>6, <1>7, <1>8, <1>9, <1>10, <1>11, <1>12

\* The status is that of a worker that has started.
LEMMA TakeStatusPreservesInv ==
  ASSUME BusInv, NEW r \in Requests, TakeStatus(r)
  PROVE  BusInv'
  <1>1. UNCHANGED <<buses, request, old, thread, stop, startup, status, received, errors,
                   server, leaving, overlap, last>>
    BY DEF TakeStatus
  <1>2. /\ at[r] = "status"
        /\ InFlight(r)
        /\ request[r].op = "connect"
        /\ StatusDto(r) \in {"connected", "error"}
    BY AskedBus, BusAssumption DEF TakeStatus, InFlight, BusTypeOK, StatusDto, Stage,
       Connecting
  <1>3. /\ at' \in [Requests -> RequestSteps]
        /\ \A q \in Requests : at'[q] = IF q = r THEN "insert" ELSE at[q]
        /\ answer' \in [Requests -> Answers]
        /\ \A q \in Requests : answer'[q] = IF q = r THEN StatusDto(r) ELSE answer[q]
    BY <1>2, BusAssumption DEF TakeStatus, BusTypeOK, Answers, RequestSteps,
       ThreadSteps
  <1>4. BusTypeOK'
    BY <1>1, <1>2, <1>3, BusAssumption, AnswersOfOperations DEF BusTypeOK, InFlight,
       Stage, ServerSteps, InMap
  <1>5. \A q \in Requests : Stage(q)'
    BY <1>1, <1>2, <1>3, BusAssumption DEF Stage, Connecting
  <1>6. \A c \in Buses : InMap(c)'
    BY <1>1, <1>2, <1>3, BusAssumption DEF InMap, BusTypeOK
  <1>7. \A q \in Requests : TakenOut(q)'
    BY <1>1, <1>2, <1>3, BusAssumption DEF TakenOut, BusTypeOK
  <1>8. Leaving'
    BY <1>1, <1>2, <1>3 DEF Leaving, InFlight, BusTypeOK
  <1>9. \A q \in Requests : Explained(q)'
    BY <1>1, <1>2, <1>3 DEF Explained, BusTypeOK
  <1>10. \A c \in Buses : Alone(c)'
    BY <1>1, <1>2, <1>3, BusAssumption DEF Alone, InFlight, BusTypeOK
  <1>11. \A q \in Requests : Owned(q)'
    BY <1>1, <1>2, <1>3 DEF Held, Alive, BusTypeOK, Owned, InFlight, Stage,
       HandsOver
  <1>12. LastAnswerHolds'
    BY <1>1, <1>2, <1>3, BusAssumption DEF LastAnswerHolds, Alone, InFlight, BusTypeOK
  <1> QED
    BY <1>4, <1>5, <1>6, <1>7, <1>8, <1>9, <1>10, <1>11, <1>12

\* On a bus without overlap nothing is replaced, and the new runtime is in no
\* other hands.
LEMMA InsertPreservesInv ==
  ASSUME BusInv, NEW r \in Requests, Insert(r)
  PROVE  BusInv'
  <1>1. UNCHANGED <<request, old, answer, thread, stop, startup, status, received, errors,
                   server, leaving, overlap, last>>
    BY DEF Insert
  <1>2. /\ at[r] = "insert"
        /\ InFlight(r)
        /\ request[r].op = "connect"
        /\ request[r].bus \in Buses
        /\ answer[r] \in {"connected", "error"}
        /\ \A p \in Requests : old[p] # r
        /\ r \notin leaving
        /\ ~stop[r] /\ startup[r] # "failed" /\ thread[r] \notin {"none", "opening"}
    BY AskedBus, BusAssumption DEF Insert, InFlight, Stage, TakenOut, Leaving,
       Connecting
  <1>3. /\ at' \in [Requests -> RequestSteps]
        /\ \A q \in Requests : at'[q] = IF q = r THEN "answered" ELSE at[q]
        /\ buses' \in [Buses -> Requests \cup {NoWorker}]
        /\ \A c \in Buses : buses'[c] = IF c = request[r].bus THEN r ELSE buses[c]
    BY <1>2, BusAssumption DEF Insert, BusTypeOK, Answers, RequestSteps, ThreadSteps
  <1>4. BusTypeOK'
    <2>1. \A b \in Buses : buses'[b] # NoWorker => request'[buses'[b]].bus = b
      BY <1>1, <1>2, <1>3, BusAssumption DEF BusTypeOK, InMap
    <2>2. ASSUME NEW q \in Requests
          PROVE  (InFlight(q) => request[q] # NoRequest)' /\ (answer[q] \in AnswersTo(request[q].op))'
      BY <1>1, <1>2, <1>3, AnswersOfOperations DEF BusTypeOK, InFlight, Stage
    <2> QED
      BY <2>1, <2>2, <1>1, <1>2, <1>3 DEF BusTypeOK, ServerSteps
  <1>5. \A q \in Requests : Stage(q)'
    BY <1>1, <1>2, <1>3, BusAssumption DEF Stage, Connecting
  <1>6. \A c \in Buses : InMap(c)'
    BY <1>1, <1>2, <1>3, BusAssumption DEF InMap, BusTypeOK
  <1>7. \A q \in Requests : TakenOut(q)'
    BY <1>1, <1>2, <1>3, BusAssumption DEF TakenOut, BusTypeOK
  <1>8. Leaving'
    BY <1>1, <1>2, <1>3 DEF Leaving, InFlight, BusTypeOK
  <1>9. \A q \in Requests : Explained(q)'
    BY <1>1, <1>2, <1>3 DEF Explained, BusTypeOK
  <1>10. \A c \in Buses : Alone(c)'
    BY <1>1, <1>2, <1>3, BusAssumption DEF Alone, InFlight, BusTypeOK
  <1>11. \A q \in Requests : Owned(q)'
    BY <1>1, <1>2, <1>3, BusAssumption DEF Held, Alive, BusTypeOK, Alone, Owned,
       InFlight, Stage, HandsOver
  <1>12. LastAnswerHolds'
    BY <1>1, <1>2, <1>3, BusAssumption DEF LastAnswerHolds, Alone, InFlight, BusTypeOK
  <1> QED
    BY <1>4, <1>5, <1>6, <1>7, <1>8, <1>9, <1>10, <1>11, <1>12

\* A worker that is still opening its adapter is in nobody's hands.
LEMMA OpenAdapterPreservesInv ==
  ASSUME BusInv, NEW w \in Requests, OpenAdapter(w)
  PROVE  BusInv'
  <1>1. CASE thread' = [thread EXCEPT ![w] = "loop"] /\ errors' = errors
            /\ startup' = [startup EXCEPT ![w] = "ok"]
    <2>1. UNCHANGED <<buses, at, request, old, answer, stop, status, received, errors,
                     server, leaving, overlap, last>>
      BY <1>1, SMT DEF OpenAdapter
    <2>2. thread[w] = "opening"
      BY <1>1, BusAssumption DEF OpenAdapter
    <2>3. /\ thread' \in [Requests -> ThreadSteps]
          /\ \A q \in Requests : thread'[q] = IF q = w THEN "loop" ELSE thread[q]
          /\ startup' \in [Requests -> {"none", "ok", "failed"}]
          /\ \A q \in Requests : startup'[q] = IF q = w THEN "ok" ELSE startup[q]
      BY <1>1, <2>2, BusAssumption DEF BusTypeOK, BusTypeOK, Answers, RequestSteps,
         ThreadSteps
    <2>4. BusTypeOK'
      BY <2>1, <2>2, <2>3, BusAssumption, AnswersOfOperations DEF BusTypeOK, InFlight,
         Stage, ServerSteps, InMap
    <2>5. \A q \in Requests : Stage(q)'
      BY <2>1, <2>2, <2>3, BusAssumption DEF Stage, Connecting
    <2>6. \A c \in Buses : InMap(c)'
      BY <2>1, <2>2, <2>3, BusAssumption DEF InMap, BusTypeOK
    <2>7. \A q \in Requests : TakenOut(q)'
      BY <2>1, <2>2, <2>3, BusAssumption DEF TakenOut, BusTypeOK
    <2>8. Leaving'
      BY <2>1, <2>2, <2>3 DEF Leaving, InFlight, BusTypeOK
    <2>9. \A q \in Requests : Explained(q)'
      BY <2>1, <2>2, <2>3 DEF Explained, BusTypeOK
    <2>10. \A c \in Buses : Alone(c)'
      BY <2>1, <2>2, <2>3, BusAssumption DEF Alone, InFlight, BusTypeOK
    <2>11. \A q \in Requests : Owned(q)'
      BY <2>1, <2>2, <2>3 DEF Held, Alive, BusTypeOK, Owned, InFlight, Stage,
         HandsOver
    <2>12. LastAnswerHolds'
      BY <2>1, <2>2, <2>3, BusAssumption DEF LastAnswerHolds, Alone, InFlight,
         BusTypeOK
    <2> QED
      BY <2>4, <2>5, <2>6, <2>7, <2>8, <2>9, <2>10, <2>11, <2>12
  <1>2. CASE thread' = [thread EXCEPT ![w] = "finished"] /\ errors' = [errors EXCEPT ![w] = @ + 1]
            /\ startup' = [startup EXCEPT ![w] = "failed"]
    <2>1. UNCHANGED <<buses, at, request, old, answer, stop, status, received, server,
                     leaving, overlap, last>>
      BY <1>2, SMT DEF OpenAdapter
    <2>2. /\ thread[w] = "opening"
          /\ errors[w] \in Nat
      BY <1>2, BusAssumption DEF OpenAdapter, BusTypeOK
    <2>3. /\ thread' \in [Requests -> ThreadSteps]
          /\ \A q \in Requests : thread'[q] = IF q = w THEN "finished" ELSE thread[q]
          /\ startup' \in [Requests -> {"none", "ok", "failed"}]
          /\ \A q \in Requests : startup'[q] = IF q = w THEN "failed" ELSE startup[q]
          /\ errors' \in [Requests -> Nat]
          /\ \A q \in Requests : errors'[q] = IF q = w THEN errors[w] + 1 ELSE errors[q]
      BY <1>2, <2>2, BusAssumption DEF BusTypeOK, BusTypeOK, Answers, RequestSteps,
         ThreadSteps
    <2>4. BusTypeOK'
      BY <2>1, <2>2, <2>3, BusAssumption, AnswersOfOperations DEF BusTypeOK, InFlight,
         Stage, ServerSteps, InMap
    <2>5. \A q \in Requests : Stage(q)'
      BY <2>1, <2>2, <2>3, BusAssumption DEF Stage, Connecting
    <2>6. \A c \in Buses : InMap(c)'
      BY <2>1, <2>2, <2>3, BusAssumption DEF InMap, BusTypeOK
    <2>7. \A q \in Requests : TakenOut(q)'
      BY <2>1, <2>2, <2>3, BusAssumption DEF TakenOut, BusTypeOK
    <2>8. Leaving'
      BY <2>1, <2>2, <2>3 DEF Leaving, InFlight, BusTypeOK
    <2>9. \A q \in Requests : Explained(q)'
      BY <2>1, <2>2, <2>3 DEF Explained, BusTypeOK
    <2>10. \A c \in Buses : Alone(c)'
      BY <2>1, <2>2, <2>3, BusAssumption DEF Alone, InFlight, BusTypeOK
    <2>11. \A q \in Requests : Owned(q)'
      BY <2>1, <2>2, <2>3 DEF Held, Alive, BusTypeOK, Owned, InFlight, Stage,
         HandsOver
    <2>12. LastAnswerHolds'
      BY <2>1, <2>2, <2>3, BusAssumption DEF LastAnswerHolds, Alone, InFlight,
         BusTypeOK
    <2> QED
      BY <2>4, <2>5, <2>6, <2>7, <2>8, <2>9, <2>10, <2>11, <2>12
  <1> QED
    BY <1>1, <1>2 DEF OpenAdapter

\* A worker that finds its stop flag set was told to stop.
LEMMA TestStopPreservesInv ==
  ASSUME BusInv, NEW w \in Requests, TestStop(w)
  PROVE  BusInv'
  <1>1. UNCHANGED <<buses, at, request, old, answer, stop, startup, status, received,
                   errors, server, leaving, overlap, last>>
    BY DEF TestStop
  <1>2. thread[w] = "loop"
    BY BusAssumption DEF TestStop
  <1>3. /\ thread' \in [Requests -> ThreadSteps]
        /\ \A q \in Requests : thread'[q] = IF q = w THEN IF stop[w] THEN "finished" ELSE "receiving" ELSE thread[q]
    BY <1>2, BusAssumption DEF TestStop, BusTypeOK, Answers, RequestSteps, ThreadSteps
  <1>4. BusTypeOK'
    BY <1>1, <1>2, <1>3, BusAssumption, AnswersOfOperations DEF BusTypeOK, InFlight,
       Stage, ServerSteps, InMap
  <1>5. \A q \in Requests : Stage(q)'
    BY <1>1, <1>2, <1>3, BusAssumption DEF Stage, Connecting
  <1>6. \A c \in Buses : InMap(c)'
    BY <1>1, <1>2, <1>3, BusAssumption DEF InMap, BusTypeOK
  <1>7. \A q \in Requests : TakenOut(q)'
    BY <1>1, <1>2, <1>3, BusAssumption DEF TakenOut, BusTypeOK
  <1>8. Leaving'
    BY <1>1, <1>2, <1>3 DEF Leaving, InFlight, BusTypeOK
  <1>9. \A q \in Requests : Explained(q)'
    BY <1>1, <1>2, <1>3 DEF Explained, BusTypeOK
  <1>10. \A c \in Buses : Alone(c)'
    BY <1>1, <1>2, <1>3, BusAssumption DEF Alone, InFlight, BusTypeOK
  <1>11. \A q \in Requests : Owned(q)'
    BY <1>1, <1>2, <1>3 DEF Held, Alive, BusTypeOK, Owned, InFlight, Stage,
       HandsOver
  <1>12. LastAnswerHolds'
    BY <1>1, <1>2, <1>3, BusAssumption DEF LastAnswerHolds, Alone, InFlight, BusTypeOK
  <1> QED
    BY <1>4, <1>5, <1>6, <1>7, <1>8, <1>9, <1>10, <1>11, <1>12

\* Receiving a frame changes nothing but the worker.
LEMMA ReceivePreservesInv ==
  ASSUME BusInv, NEW w \in Requests, Receive(w)
  PROVE  BusInv'
  <1>1. CASE received' = [received EXCEPT ![w] = @ + 1]
    <2>1. UNCHANGED <<buses, at, request, old, answer, stop, startup, status, errors,
                     server, leaving, overlap, last>>
      BY <1>1, SMT DEF Receive
    <2>2. /\ thread[w] = "receiving"
          /\ received[w] \in Nat
      BY <1>1, BusAssumption DEF Receive, BusTypeOK
    <2>3. /\ thread' \in [Requests -> ThreadSteps]
          /\ \A q \in Requests : thread'[q] = IF q = w THEN "loop" ELSE thread[q]
          /\ received' \in [Requests -> Nat]
          /\ \A q \in Requests : received'[q] = IF q = w THEN received[w] + 1 ELSE received[q]
      BY <1>1, <2>2, BusAssumption DEF Receive, BusTypeOK, Answers, RequestSteps,
         ThreadSteps
    <2>4. BusTypeOK'
      BY <2>1, <2>2, <2>3, BusAssumption, AnswersOfOperations DEF BusTypeOK, InFlight,
         Stage, ServerSteps, InMap
    <2>5. \A q \in Requests : Stage(q)'
      BY <2>1, <2>2, <2>3, BusAssumption DEF Stage, Connecting
    <2>6. \A c \in Buses : InMap(c)'
      BY <2>1, <2>2, <2>3, BusAssumption DEF InMap, BusTypeOK
    <2>7. \A q \in Requests : TakenOut(q)'
      BY <2>1, <2>2, <2>3, BusAssumption DEF TakenOut, BusTypeOK
    <2>8. Leaving'
      BY <2>1, <2>2, <2>3 DEF Leaving, InFlight, BusTypeOK
    <2>9. \A q \in Requests : Explained(q)'
      BY <2>1, <2>2, <2>3 DEF Explained, BusTypeOK
    <2>10. \A c \in Buses : Alone(c)'
      BY <2>1, <2>2, <2>3, BusAssumption DEF Alone, InFlight, BusTypeOK
    <2>11. \A q \in Requests : Owned(q)'
      BY <2>1, <2>2, <2>3 DEF Held, Alive, BusTypeOK, Owned, InFlight, Stage,
         HandsOver
    <2>12. LastAnswerHolds'
      BY <2>1, <2>2, <2>3, BusAssumption DEF LastAnswerHolds, Alone, InFlight,
         BusTypeOK
    <2> QED
      BY <2>4, <2>5, <2>6, <2>7, <2>8, <2>9, <2>10, <2>11, <2>12
  <1>2. CASE received' = received
    <2>1. UNCHANGED <<buses, at, request, old, answer, stop, startup, status, received,
                     errors, server, leaving, overlap, last>>
      BY <1>2, SMT DEF Receive
    <2>2. thread[w] = "receiving"
      BY <1>2, BusAssumption DEF Receive
    <2>3. /\ thread' \in [Requests -> ThreadSteps]
          /\ \A q \in Requests : thread'[q] = IF q = w THEN "loop" ELSE thread[q]
      BY <1>2, <2>2, BusAssumption DEF Receive, BusTypeOK, Answers, RequestSteps,
         ThreadSteps
    <2>4. BusTypeOK'
      BY <2>1, <2>2, <2>3, BusAssumption, AnswersOfOperations DEF BusTypeOK, InFlight,
         Stage, ServerSteps, InMap
    <2>5. \A q \in Requests : Stage(q)'
      BY <2>1, <2>2, <2>3, BusAssumption DEF Stage, Connecting
    <2>6. \A c \in Buses : InMap(c)'
      BY <2>1, <2>2, <2>3, BusAssumption DEF InMap, BusTypeOK
    <2>7. \A q \in Requests : TakenOut(q)'
      BY <2>1, <2>2, <2>3, BusAssumption DEF TakenOut, BusTypeOK
    <2>8. Leaving'
      BY <2>1, <2>2, <2>3 DEF Leaving, InFlight, BusTypeOK
    <2>9. \A q \in Requests : Explained(q)'
      BY <2>1, <2>2, <2>3 DEF Explained, BusTypeOK
    <2>10. \A c \in Buses : Alone(c)'
      BY <2>1, <2>2, <2>3, BusAssumption DEF Alone, InFlight, BusTypeOK
    <2>11. \A q \in Requests : Owned(q)'
      BY <2>1, <2>2, <2>3 DEF Held, Alive, BusTypeOK, Owned, InFlight, Stage,
         HandsOver
    <2>12. LastAnswerHolds'
      BY <2>1, <2>2, <2>3, BusAssumption DEF LastAnswerHolds, Alone, InFlight,
         BusTypeOK
    <2> QED
      BY <2>4, <2>5, <2>6, <2>7, <2>8, <2>9, <2>10, <2>11, <2>12
  <1> QED
    BY <1>1, <1>2 DEF Receive

\* A worker that fails has recorded an error.
LEMMA ReceiveFailsPreservesInv ==
  ASSUME BusInv, NEW w \in Requests, ReceiveFails(w)
  PROVE  BusInv'
  <1>1. UNCHANGED <<buses, at, request, old, answer, stop, startup, received, server,
                   leaving, overlap, last>>
    BY DEF ReceiveFails
  <1>2. /\ thread[w] = "receiving"
        /\ errors[w] \in Nat
    BY BusAssumption DEF ReceiveFails, BusTypeOK
  <1>3. /\ thread' \in [Requests -> ThreadSteps]
        /\ \A q \in Requests : thread'[q] = IF q = w THEN "finished" ELSE thread[q]
        /\ errors' \in [Requests -> Nat]
        /\ \A q \in Requests : errors'[q] = IF q = w THEN errors[w] + 1 ELSE errors[q]
        /\ status' \in [Requests -> {"connected", "error"}]
        /\ \A q \in Requests : status'[q] = IF q = w THEN "error" ELSE status[q]
    BY <1>2, BusAssumption DEF ReceiveFails, BusTypeOK, Answers, RequestSteps,
       ThreadSteps
  <1>4. BusTypeOK'
    BY <1>1, <1>2, <1>3, BusAssumption, AnswersOfOperations DEF BusTypeOK, InFlight,
       Stage, ServerSteps, InMap
  <1>5. \A q \in Requests : Stage(q)'
    BY <1>1, <1>2, <1>3, BusAssumption DEF Stage, Connecting
  <1>6. \A c \in Buses : InMap(c)'
    BY <1>1, <1>2, <1>3, BusAssumption DEF InMap, BusTypeOK
  <1>7. \A q \in Requests : TakenOut(q)'
    BY <1>1, <1>2, <1>3, BusAssumption DEF TakenOut, BusTypeOK
  <1>8. Leaving'
    BY <1>1, <1>2, <1>3 DEF Leaving, InFlight, BusTypeOK
  <1>9. \A q \in Requests : Explained(q)'
    BY <1>1, <1>2, <1>3 DEF Explained, BusTypeOK
  <1>10. \A c \in Buses : Alone(c)'
    BY <1>1, <1>2, <1>3, BusAssumption DEF Alone, InFlight, BusTypeOK
  <1>11. \A q \in Requests : Owned(q)'
    BY <1>1, <1>2, <1>3 DEF Held, Alive, BusTypeOK, Owned, InFlight, Stage,
       HandsOver
  <1>12. LastAnswerHolds'
    BY <1>1, <1>2, <1>3, BusAssumption DEF LastAnswerHolds, Alone, InFlight, BusTypeOK
  <1> QED
    BY <1>4, <1>5, <1>6, <1>7, <1>8, <1>9, <1>10, <1>11, <1>12

\* Requests in flight go on.
LEMMA CtrlCPreservesInv ==
  ASSUME BusInv, CtrlC
  PROVE  BusInv'
  <1>1. UNCHANGED <<buses, at, request, old, answer, thread, stop, startup, status,
                   received, errors, leaving, overlap, last>>
    BY DEF CtrlC
  <1>2. server = "serving"
    BY BusAssumption DEF CtrlC
  <1>3. server' = "draining"
    BY <1>2, BusAssumption DEF CtrlC, BusTypeOK, Answers, RequestSteps, ThreadSteps
  <1>4. BusTypeOK'
    BY <1>1, <1>2, <1>3, BusAssumption, AnswersOfOperations DEF BusTypeOK, InFlight,
       Stage, ServerSteps, InMap
  <1>5. \A q \in Requests : Stage(q)'
    BY <1>1, <1>2, <1>3, BusAssumption DEF Stage, Connecting
  <1>6. \A c \in Buses : InMap(c)'
    BY <1>1, <1>2, <1>3, BusAssumption DEF InMap, BusTypeOK
  <1>7. \A q \in Requests : TakenOut(q)'
    BY <1>1, <1>2, <1>3, BusAssumption DEF TakenOut, BusTypeOK
  <1>8. Leaving'
    BY <1>1, <1>2, <1>3 DEF Leaving, InFlight, BusTypeOK
  <1>9. \A q \in Requests : Explained(q)'
    BY <1>1, <1>2, <1>3 DEF Explained, BusTypeOK
  <1>10. \A c \in Buses : Alone(c)'
    BY <1>1, <1>2, <1>3, BusAssumption DEF Alone, InFlight, BusTypeOK
  <1>11. \A q \in Requests : Owned(q)'
    BY <1>1, <1>2, <1>3 DEF Held, Alive, BusTypeOK, Owned, InFlight, Stage,
       HandsOver
  <1>12. LastAnswerHolds'
    BY <1>1, <1>2, <1>3, BusAssumption DEF LastAnswerHolds, Alone, InFlight, BusTypeOK
  <1> QED
    BY <1>4, <1>5, <1>6, <1>7, <1>8, <1>9, <1>10, <1>11, <1>12

\* No request is in flight, so the shutdown has every runtime, one per bus.
LEMMA DrainPreservesInv ==
  ASSUME BusInv, Drain
  PROVE  BusInv'
  <1>1. UNCHANGED <<at, request, old, answer, thread, stop, startup, status, received,
                   errors, overlap, last>>
    BY DEF Drain
  <1>2. /\ server = "draining"
        /\ \A r \in Requests : ~InFlight(r)
        /\ \A p \in Requests : old[p] = NoWorker
        /\ leaving = {}
        /\ \A v \in {buses[b] : b \in Buses} \ {NoWorker} : at[v] = "answered" /\ v \in Requests
    BY BusAssumption DEF Drain, Stage, InFlight, Leaving, InMap, BusTypeOK
  <1>3. /\ server' = "stopping"
        /\ leaving' = {buses[b] : b \in Buses} \ {NoWorker}
        /\ buses' = [b \in Buses |-> NoWorker]
    BY <1>2, BusAssumption DEF Drain, BusTypeOK, Answers, RequestSteps, ThreadSteps
  <1>4. BusTypeOK'
    BY <1>1, <1>2, <1>3, BusAssumption, AnswersOfOperations DEF BusTypeOK, InFlight,
       Stage, ServerSteps, InMap
  <1>5. \A q \in Requests : Stage(q)'
    BY <1>1, <1>2, <1>3, BusAssumption DEF Stage, Connecting
  <1>6. \A c \in Buses : InMap(c)'
    BY <1>1, <1>2, <1>3, BusAssumption DEF InMap, BusTypeOK
  <1>7. \A q \in Requests : TakenOut(q)'
    BY <1>1, <1>2, <1>3, BusAssumption DEF TakenOut, BusTypeOK
  <1>8. Leaving'
    BY <1>1, <1>2, <1>3 DEF Leaving, InFlight, BusTypeOK
  <1>9. \A q \in Requests : Explained(q)'
    BY <1>1, <1>2, <1>3 DEF Explained, BusTypeOK
  <1>10. \A c \in Buses : Alone(c)'
    BY <1>1, <1>2, <1>3, BusAssumption DEF Alone, InFlight, BusTypeOK
  <1>11. \A q \in Requests : Owned(q)'
    BY <1>1, <1>2, <1>3 DEF Held, Alive, BusTypeOK, Owned, InFlight, Stage,
       HandsOver
  <1>12. LastAnswerHolds'
    BY <1>1, <1>2, <1>3, BusAssumption DEF LastAnswerHolds, Alone, InFlight, BusTypeOK
  <1> QED
    BY <1>4, <1>5, <1>6, <1>7, <1>8, <1>9, <1>10, <1>11, <1>12

\* A worker of the shutdown is in nobody else's hands.
LEMMA StopLeavingPreservesInv ==
  ASSUME BusInv, NEW w \in Requests, StopLeaving(w)
  PROVE  BusInv'
  <1>1. UNCHANGED <<buses, at, request, old, answer, thread, startup, status, received,
                   errors, server, leaving, overlap, last>>
    BY DEF StopLeaving
  <1>2. /\ w \in leaving
        /\ at[w] = "answered"
        /\ \A b \in Buses : buses[b] # w
    BY BusAssumption DEF StopLeaving, Leaving, InMap
  <1>3. /\ stop' \in [Requests -> BOOLEAN]
        /\ stop'[w]
        /\ \A q \in Requests : q # w => stop'[q] = stop[q]
    BY <1>2, BusAssumption DEF StopLeaving, BusTypeOK, Answers, RequestSteps,
       ThreadSteps
  <1>4. BusTypeOK'
    BY <1>1, <1>2, <1>3, BusAssumption, AnswersOfOperations DEF BusTypeOK, InFlight,
       Stage, ServerSteps, InMap
  <1>5. \A q \in Requests : Stage(q)'
    BY <1>1, <1>2, <1>3, BusAssumption DEF Stage, Connecting
  <1>6. \A c \in Buses : InMap(c)'
    BY <1>1, <1>2, <1>3, BusAssumption DEF InMap, BusTypeOK
  <1>7. \A q \in Requests : TakenOut(q)'
    BY <1>1, <1>2, <1>3, BusAssumption DEF TakenOut, BusTypeOK
  <1>8. Leaving'
    BY <1>1, <1>2, <1>3 DEF Leaving, InFlight, BusTypeOK
  <1>9. \A q \in Requests : Explained(q)'
    BY <1>1, <1>2, <1>3 DEF Explained, BusTypeOK
  <1>10. \A c \in Buses : Alone(c)'
    BY <1>1, <1>2, <1>3, BusAssumption DEF Alone, InFlight, BusTypeOK
  <1>11. \A q \in Requests : Owned(q)'
    BY <1>1, <1>2, <1>3 DEF Held, Alive, BusTypeOK, Owned, InFlight, Stage,
       HandsOver
  <1>12. LastAnswerHolds'
    BY <1>1, <1>2, <1>3, BusAssumption DEF LastAnswerHolds, Alone, InFlight, BusTypeOK
  <1> QED
    BY <1>4, <1>5, <1>6, <1>7, <1>8, <1>9, <1>10, <1>11, <1>12

\* The shutdown gives up a runtime only after its worker has ended.
LEMMA JoinLeavingPreservesInv ==
  ASSUME BusInv, NEW w \in Requests, JoinLeaving(w)
  PROVE  BusInv'
  <1>1. UNCHANGED <<buses, at, request, old, answer, thread, stop, startup, status,
                   received, errors, server, overlap, last>>
    BY DEF JoinLeaving, Joined
  <1>2. /\ w \in leaving
        /\ thread[w] = "finished"
    BY BusAssumption DEF JoinLeaving, Joined
  <1>3. leaving' = leaving \ {w}
    BY <1>2, BusAssumption DEF JoinLeaving, Joined, BusTypeOK, Answers, RequestSteps,
       ThreadSteps
  <1>4. BusTypeOK'
    BY <1>1, <1>2, <1>3, BusAssumption, AnswersOfOperations DEF BusTypeOK, InFlight,
       Stage, ServerSteps, InMap
  <1>5. \A q \in Requests : Stage(q)'
    BY <1>1, <1>2, <1>3, BusAssumption DEF Stage, Connecting
  <1>6. \A c \in Buses : InMap(c)'
    BY <1>1, <1>2, <1>3, BusAssumption DEF InMap, BusTypeOK
  <1>7. \A q \in Requests : TakenOut(q)'
    BY <1>1, <1>2, <1>3, BusAssumption DEF TakenOut, BusTypeOK
  <1>8. Leaving'
    BY <1>1, <1>2, <1>3 DEF Leaving, InFlight, BusTypeOK
  <1>9. \A q \in Requests : Explained(q)'
    BY <1>1, <1>2, <1>3 DEF Explained, BusTypeOK
  <1>10. \A c \in Buses : Alone(c)'
    BY <1>1, <1>2, <1>3, BusAssumption DEF Alone, InFlight, BusTypeOK
  <1>11. \A q \in Requests : Owned(q)'
    BY <1>1, <1>2, <1>3 DEF Held, Alive, BusTypeOK, Owned, InFlight, Stage,
       HandsOver
  <1>12. LastAnswerHolds'
    BY <1>1, <1>2, <1>3, BusAssumption DEF LastAnswerHolds, Alone, InFlight, BusTypeOK
  <1> QED
    BY <1>4, <1>5, <1>6, <1>7, <1>8, <1>9, <1>10, <1>11, <1>12

\* Nothing is left to stop.
LEMMA ExitPreservesInv ==
  ASSUME BusInv, Exit
  PROVE  BusInv'
  <1>1. UNCHANGED <<buses, at, request, old, answer, thread, stop, startup, status,
                   received, errors, leaving, overlap, last>>
    BY DEF Exit
  <1>2. /\ server = "stopping"
        /\ leaving = {}
    BY BusAssumption DEF Exit
  <1>3. server' = "exited"
    BY <1>2, BusAssumption DEF Exit, BusTypeOK, Answers, RequestSteps, ThreadSteps
  <1>4. BusTypeOK'
    BY <1>1, <1>2, <1>3, BusAssumption, AnswersOfOperations DEF BusTypeOK, InFlight,
       Stage, ServerSteps, InMap
  <1>5. \A q \in Requests : Stage(q)'
    BY <1>1, <1>2, <1>3, BusAssumption DEF Stage, Connecting
  <1>6. \A c \in Buses : InMap(c)'
    BY <1>1, <1>2, <1>3, BusAssumption DEF InMap, BusTypeOK
  <1>7. \A q \in Requests : TakenOut(q)'
    BY <1>1, <1>2, <1>3, BusAssumption DEF TakenOut, BusTypeOK
  <1>8. Leaving'
    BY <1>1, <1>2, <1>3 DEF Leaving, InFlight, BusTypeOK
  <1>9. \A q \in Requests : Explained(q)'
    BY <1>1, <1>2, <1>3 DEF Explained, BusTypeOK
  <1>10. \A c \in Buses : Alone(c)'
    BY <1>1, <1>2, <1>3, BusAssumption DEF Alone, InFlight, BusTypeOK
  <1>11. \A q \in Requests : Owned(q)'
    BY <1>1, <1>2, <1>3 DEF Held, Alive, BusTypeOK, Owned, InFlight, Stage,
       HandsOver
  <1>12. LastAnswerHolds'
    BY <1>1, <1>2, <1>3, BusAssumption DEF LastAnswerHolds, Alone, InFlight, BusTypeOK
  <1> QED
    BY <1>4, <1>5, <1>6, <1>7, <1>8, <1>9, <1>10, <1>11, <1>12

-----------------------------------------------------------------------------
(* BusInv is inductive. *)

\* The invariant holds before the first request.
LEMMA InitBusInv == BusInit => BusInv
  <1> SUFFICES ASSUME BusInit PROVE BusInv
    OBVIOUS
  <1>1. BusTypeOK
    BY AnswersOfOperations, BusAssumption
    DEF BusInit, BusTypeOK, RequestSteps, Answers, ThreadSteps, ServerSteps, NoRequest,
        InFlight
  <1>2. /\ \A q \in Requests : Stage(q) /\ Explained(q) /\ TakenOut(q) /\ Owned(q)
        /\ \A c \in Buses : InMap(c) /\ Alone(c)
        /\ Leaving
    BY BusAssumption
    DEF BusInit, Stage, Connecting, Explained, TakenOut, Owned, Alive, InMap, Alone,
        InFlight, Leaving
  <1>3. LastAnswerHolds
    BY DEF BusInit, LastAnswerHolds
  <1> QED
    BY <1>1, <1>2, <1>3

\* Every step of BusNext, and no step, keeps it.
LEMMA NextBusInv == BusInv /\ [BusNext]_busVars => BusInv'
  <1> SUFFICES ASSUME BusInv, [BusNext]_busVars PROVE BusInv'
    OBVIOUS
  <1>1. ASSUME NEW r \in Requests, NEW ask \in ConnectBusRequest \cup DisconnectRequest,
               Begin(r, ask)
        PROVE  BusInv'
    BY <1>1, BeginPreservesInv
  <1>2. ASSUME NEW r \in Requests, Refuse(r) PROVE BusInv'
    BY <1>2, RefusePreservesInv
  <1>3. ASSUME NEW r \in Requests, RequestNext(r) PROVE BusInv'
    BY <1>3, RemovePreservesInv, StopOldPreservesInv, JoinOldPreservesInv,
       SpawnPreservesInv, AwaitStartupPreservesInv, JoinStartupPreservesInv,
       TakeStatusPreservesInv, InsertPreservesInv DEF RequestNext
  <1>4. ASSUME NEW w \in Requests, WorkerNext(w) PROVE BusInv'
    BY <1>4, OpenAdapterPreservesInv, TestStopPreservesInv, ReceivePreservesInv,
       ReceiveFailsPreservesInv DEF WorkerNext
  <1>5. CASE CtrlC
    BY <1>5, CtrlCPreservesInv
  <1>6. CASE ShutdownNext
    BY <1>6, DrainPreservesInv, StopLeavingPreservesInv, JoinLeavingPreservesInv,
       ExitPreservesInv DEF ShutdownNext
  <1>7. CASE UNCHANGED busVars
    <2>1. UNCHANGED <<buses, at, request, old, answer, thread, stop, startup, status,
                     received, errors, server, leaving, overlap, last>>
      BY <1>7 DEF busVars
    <2>2. BusTypeOK' /\ LastAnswerHolds'
      BY <2>1 DEF BusTypeOK, LastAnswerHolds, InFlight
    <2>3. /\ \A q \in Requests : Stage(q)' /\ Explained(q)' /\ TakenOut(q)' /\ Owned(q)'
          /\ \A c \in Buses : InMap(c)' /\ Alone(c)'
          /\ Leaving'
      BY <2>1 DEF Stage, Explained, TakenOut, Owned, Held, Alive, InMap, Alone, InFlight,
                  Leaving, HandsOver
    <2> QED
      BY <2>2, <2>3
  <1> QED
    BY <1>1, <1>2, <1>3, <1>4, <1>5, <1>6, <1>7 DEF BusNext

\* BusInv holds of every state of the server that the code can reach.
THEOREM BusInvariant == BusSpec => []BusInv
  <1>1. BusInit => BusInv
    BY InitBusInv
  <1>2. BusInv /\ [BusNext]_busVars => BusInv'
    BY NextBusInv
  <1> HIDE DEF BusInv
  <1> QED
    BY <1>1, <1>2, PTL DEF BusSpec

-----------------------------------------------------------------------------
(* What follows from it. *)

\* A worker in the map is in no other hands, and so for the other holders.
LEMMA HoldersExclude == BusInv => ExclusiveHolder
  <1> SUFFICES ASSUME BusInv, NEW w \in Requests
               PROVE  /\ \A x, y \in Holders(w) : x = y
                      /\ Holders(w) # {} => at[w] = "answered"
                      /\ (\E b \in Buses : buses[b] = w) => ~stop[w]
    BY DEF ExclusiveHolder
  <1> w # NoWorker
    BY BusAssumption
  <1>1. CASE \E b \in Buses : buses[b] = w
    <2>1. PICK b \in Buses : buses[b] = w
      BY <1>1
    <2>2. InMap(b) /\ request[w].bus = b
      BY <2>1 DEF BusTypeOK
    <2>3. \A c \in Buses : buses[c] = w => c = b
      BY <2>2 DEF BusTypeOK
    <2>4. Holders(w) = {b}
      BY <2>1, <2>2, <2>3 DEF Holders, InMap
    <2> QED
      BY <2>1, <2>2, <2>4 DEF InMap
  <1>2. CASE /\ ~ \E b \in Buses : buses[b] = w
             /\ \E r \in Requests : old[r] = w
    <2>1. PICK r \in Requests : old[r] = w
      BY <1>2
    <2>2. TakenOut(r)
      BY <2>1
    <2>3. Holders(w) = {r}
      BY <1>2, <2>1, <2>2 DEF Holders, TakenOut
    <2> QED
      BY <1>2, <2>1, <2>2, <2>3 DEF TakenOut
  <1>3. CASE /\ ~ \E b \in Buses : buses[b] = w
             /\ ~ \E r \in Requests : old[r] = w
    <2>1. Holders(w) \subseteq {"shutdown"}
      BY <1>3 DEF Holders
    <2>2. Holders(w) # {} => w \in leaving
      BY <1>3 DEF Holders
    <2> QED
      BY <1>3, <2>1, <2>2 DEF Leaving
  <1> QED
    BY <1>1, <1>2, <1>3

\* Held is Holders(w) # {}, told apart.
LEMMA OwnedNotOrphaned == BusInv => NoOrphan
  <1> SUFFICES ASSUME BusInv, NEW w \in Requests, Alive(w),
                      request[w].bus \notin overlap, at[w] # "joinLate"
               PROVE  Holders(w) # {} \/ HandsOver(w)
    BY DEF NoOrphan
  <1>1. Held(w) \/ HandsOver(w)
    BY DEF Owned
  <1>2. Held(w) => Holders(w) # {}
    BY DEF Held, Holders
  <1> QED
    BY <1>1, <1>2

\* A running worker of a bus without overlapping requests is in the map, with the
\* request that is replacing it, with the shutdown, or its request is on the way.
Place(w, b) ==
  \/ /\ leaving = {}
     /\ b \in Buses
     /\ \/ buses[b] = w
        \/ /\ buses[b] = NoWorker
           /\ at[last[b]] \in {"stop", "join"}
           /\ old[last[b]] = w
        \/ /\ buses[b] = NoWorker
           /\ at[last[b]] \notin {"stop", "join"}
           /\ last[b] = w
  \/ w \in leaving

\* Of two such workers both would be in the same place, and each place has room for
\* one of a bus.
LEMMA OneReceiver == BusInv => OneReceiverPerBus
  <1> SUFFICES ASSUME BusInv, NEW v \in Requests, NEW w \in Requests, NEW b,
                      Alive(v), Alive(w), request[v].bus = b, request[w].bus = b,
                      b \notin overlap
               PROVE  v = w
    BY DEF OneReceiverPerBus
  <1>1. leaving # {} => /\ \A r \in Requests : ~InFlight(r)
                        /\ \A c \in Buses : buses[c] = NoWorker
    BY DEF Leaving, BusTypeOK, ServerSteps
  <1>2. ASSUME NEW x \in Requests, Alive(x), request[x].bus = b
        PROVE  Place(x, b)
    <2>1. CASE InFlight(x)
      <3>1. b \in Buses
        BY <1>2, <2>1, AskedBus
      <3>2. at[x] \notin {"remove", "stop", "join"}
        BY <1>2 DEF Stage, Alive
      <3> QED
        BY <1>1, <1>2, <2>1, <3>1, <3>2 DEF Place, Alone
    <2>2. ASSUME NEW c \in Buses, buses[c] = x PROVE Place(x, b)
      <3>1. c = b /\ x # NoWorker
        BY <1>2, <2>2, BusAssumption DEF BusTypeOK
      <3> QED
        BY <1>1, <2>2, <3>1 DEF Place
    <2>3. ASSUME NEW r \in Requests, old[r] = x PROVE Place(x, b)
      <3>1. Stage(r) /\ TakenOut(r) /\ x # NoWorker
        BY BusAssumption
      <3>2. InFlight(r) /\ request[r].bus = b /\ at[r] \in {"stop", "join"}
        BY <1>2, <2>3, <3>1 DEF Stage, TakenOut, InFlight
      <3>3. b \in Buses
        BY <3>2, AskedBus
      <3>4. last[b] = r /\ buses[b] = NoWorker
        BY <3>2, <3>3 DEF Alone
      <3> QED
        BY <1>1, <2>3, <3>2, <3>3, <3>4 DEF Place
    <2>4. CASE x \in leaving
      BY <2>4 DEF Place
    <2> QED
      BY <1>2, <2>1, <2>2, <2>3, <2>4 DEF Owned, Held, HandsOver, InFlight
  <1>3. Place(v, b) /\ Place(w, b)
    BY <1>2
  <1>4. v # NoWorker /\ w # NoWorker
    BY BusAssumption
  <1> QED
    BY <1>3, <1>4 DEF Place, Leaving

\* A registered worker was neither stopped nor did it fail to start.
LEMMA DeadExplained == BusInv => DeadWorkerExplained
  BY BusAssumption DEF DeadWorkerExplained, InMap, Explained, BusTypeOK

\* The types of BusRuntime, answers that fit the operations included.
THEOREM BusTyped == BusSpec => []BusTypeOK
  <1>1. BusInv => BusTypeOK
    OBVIOUS
  <1> HIDE DEF BusInv
  <1> QED
    BY <1>1, BusInvariant, PTL

\* Whatever the requests do, a worker has at most one owner to stop and join it.
THEOREM WorkersHaveOneOwner == BusSpec => []ExclusiveHolder
  <1> HIDE DEF BusInv
  <1> QED
    BY HoldersExclude, BusInvariant, PTL

\* No worker of a bus without overlapping requests is left without an owner.
THEOREM WorkersAreNotOrphaned == BusSpec => []NoOrphan
  <1> HIDE DEF BusInv
  <1> QED
    BY OwnedNotOrphaned, BusInvariant, PTL

\* No two workers run for such a bus.
THEOREM BusHasOneReceiver == BusSpec => []OneReceiverPerBus
  <1> HIDE DEF BusInv
  <1> QED
    BY OneReceiver, BusInvariant, PTL

\* The map of such a bus agrees with the latest answer about it.
THEOREM MapAgreesWithAnswers == BusSpec => []LastAnswerHolds
  <1>1. BusInv => LastAnswerHolds
    OBVIOUS
  <1> HIDE DEF BusInv
  <1> QED
    BY <1>1, BusInvariant, PTL

\* A dead worker that is still registered has recorded its error.
THEOREM DeadWorkersAreExplained == BusSpec => []DeadWorkerExplained
  <1> HIDE DEF BusInv
  <1> QED
    BY DeadExplained, BusInvariant, PTL
=============================================================================
