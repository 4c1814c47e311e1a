------------------------ MODULE StreamSessionProofs ------------------------
(***************************************************************************)
(* Safety of the streams of the server, for any sessions, clients,         *)
(* subscriptions and bounds.                                               *)
(*                                                                         *)
(* SessionInv places each handler against its subscription and bounds its  *)
(* batch; HonestInv bounds every drop count known, on its way or told by   *)
(* the one the hub holds.  OrderedInv says that what a handler has taken   *)
(* from its channel was read, is in the socket or in the hand, in this     *)
(* order; LossInv rests on it and says what has to be reported before      *)
(* which frame, as long as the client is there.  What is proved of the hub *)
(* holds under its sessions: each of their steps is one of the hub's.      *)
(***************************************************************************)
EXTENDS StreamSession, FrameHubProofs

-----------------------------------------------------------------------------
(* The hub underneath *)

\* What a session does to the hub is a step of the hub, or none.
LEMMA SessionStepIsHubStep ==
  ASSUME [SessionNext]_sessionVars
  PROVE  [HubNext]_hubVars
  <1>1. CASE UNCHANGED sessionVars
    BY <1>1 DEF sessionVars
  <1>2. ASSUME NEW k \in Keys, PublishFrame(k) PROVE HubNext
    BY <1>2 DEF PublishFrame, HubNext
  <1>3. ASSUME NEW s \in Sessions, HandlerNext(s) PROVE [HubNext]_hubVars
    <2>1. CASE SendHello(s)
      BY <2>1 DEF SendHello
    <2>2. ASSUME NEW o \in Options, SubscribeStream(s, o) PROVE HubNext
      BY <2>2 DEF SubscribeStream, HubNext
    <2>3. CASE CheckDropped(s)
      BY <2>3 DEF CheckDropped
    <2>4. CASE SendDiagnostic(s)
      BY <2>4 DEF SendDiagnostic
    <2>5. CASE TakeEvent(s)
      BY <2>5 DEF TakeEvent, HubNext
    <2>6. CASE EndDrain(s)
      BY <2>6 DEF EndDrain
    <2>7. CASE SendFrame(s)
      BY <2>7 DEF SendFrame
    <2>8. CASE UnsubscribeStream(s)
      BY <2>8 DEF UnsubscribeStream, HubNext
    <2>9. CASE DropSubscription(s)
      BY <2>9 DEF DropSubscription, HubNext
    <2> QED
      BY <1>3, <2>1, <2>2, <2>3, <2>4, <2>5, <2>6, <2>7, <2>8, <2>9 DEF HandlerNext
  <1>4. ASSUME NEW s \in Sessions,
               ReaderNext(s) \/ Connect(s) \/ DeadlinePasses(s) \/ PeerCloses(s) \/ ClientKilled(s)
        PROVE  UNCHANGED hubVars
    BY <1>4 DEF ReaderNext, TestDeadline, CaptureReads, MonitorReads, ReadFails, Connect,
       DeadlinePasses, PeerCloses, ClientKilled
  <1> QED
    BY <1>1, <1>2, <1>3, <1>4 DEF SessionNext

\* So all that is proved of the hub holds under its sessions.
LEMMA SessionsUseHub == SessionSpec => HubSpec
  <1>1. SessionInit => HubInit
    BY DEF SessionInit
  <1> QED
    BY <1>1, SessionStepIsHubStep, PTL DEF SessionSpec, HubSpec

HubOK == HubInv /\ DeliveryInOrder /\ OwnEntry

LEMMA HubStaysOK == SessionSpec => []HubOK
  BY SessionsUseHub, HubInvariant, HubDeliversInOrder, HubOwnEntry, PTL DEF HubOK

-----------------------------------------------------------------------------
(* Types, and where the handler may be *)

\* The steps of the handler follow those of its subscription, and a batch is
\* never complete while it is drained.
Progress(s) ==
  /\ handler[s] \in {"idle", "hello", "subscribe"} => phase[s] = "new"
  /\ handler[s] \in {"check", "report", "drain", "send", "unsubscribe"} => phase[s] = "open"
  /\ handler[s] = "drop" => phase[s] = "left"
  /\ handler[s] = "done" => phase[s] \in {"new", "closed"}
  /\ handler[s] = "report" => sent[s] = 0
  /\ handler[s] \in {"drain", "send"} => sent[s] < options[s].capacity
  /\ IF phase[s] = "new" THEN sent[s] = 0 ELSE options[s].capacity > 0

SessionInv == SessionTypeOK /\ \A s \in Sessions : Progress(s)

LEMMA SessionInvInit == SessionInit => SessionInv
  <1> SUFFICES ASSUME SessionInit PROVE SessionInv
    OBVIOUS
  <1>1. HubTypeOK
    BY HubInvInit DEF SessionInit, HubInv
  <1>2. \A S : <<>> \in Seq(S)
    BY EmptySeq
  <1>3. Len(<<>>) = 0
    BY EmptySeq
  <1>4. /\ handler \in [Sessions -> HandlerSteps] /\ client \in [Sessions -> ClientSteps]
        /\ result \in [Sessions -> Results]
    BY DEF SessionInit, HandlerSteps, ClientSteps, Results
  <1>5. /\ observed \in [Sessions -> Nat] /\ reported \in [Sessions -> Nat]
        /\ sent \in [Sessions -> Nat] /\ told \in [Sessions -> Nat]
    BY DEF SessionInit
  <1>6. due \in [Sessions -> BOOLEAN]
    BY DEF SessionInit
  <1>7. /\ hand \in [Sessions -> Seq(SequencedFrame)] /\ diagnostics \in [Sessions -> Seq(Nat)]
        /\ socket \in [Sessions -> Seq(Messages)] /\ read \in [Sessions -> Seq(Nat)]
    BY <1>2 DEF SessionInit
  <1>8. \A s \in Sessions : options[s].capacity = 0
    BY DEF SessionInit, HubInit, NoOptions
  <1>9. SessionTypeOK
    BY <1>1, <1>3, <1>4, <1>5, <1>6, <1>7, <1>8, SessionAssumption DEF SessionTypeOK, SessionInit
  <1>10. \A s \in Sessions : Progress(s)
    BY DEF SessionInit, HubInit, Progress
  <1> QED
    BY <1>9, <1>10 DEF SessionInv

-----------------------------------------------------------------------------
(* What a step of a session does *)

\* Nothing happens to the handler and the client of t.
Untouched(t) ==
  /\ handler'[t] = handler[t] /\ observed'[t] = observed[t] /\ reported'[t] = reported[t]
  /\ sent'[t] = sent[t] /\ hand'[t] = hand[t] /\ diagnostics'[t] = diagnostics[t]
  /\ socket'[t] = socket[t] /\ client'[t] = client[t] /\ read'[t] = read[t]
  /\ told'[t] = told[t]

\* Nor to what the hub holds for it.
HubUntouched(t) ==
  /\ queue'[t] = queue[t] /\ dropped'[t] = dropped[t] /\ options'[t] = options[t]
  /\ received'[t] = received[t] /\ phase'[t] = phase[t] /\ since'[t] = since[t]
  /\ frames' = frames /\ nextSequence' = nextSequence

\* A message was sent to a client that is still there.
Sent(s, event, value) ==
  /\ client[s] # "done"
  /\ socket'[s] \in Seq(Messages)
  /\ Len(socket'[s]) = Len(socket[s]) + 1
  /\ \A i \in 1 .. Len(socket[s]) : socket'[s][i] = socket[s][i]
  /\ socket'[s][Len(socket[s]) + 1] = [event |-> event, value |-> value]

\* There is a message to read.
Pending(s) ==
  /\ Len(socket[s]) \in Nat /\ Len(socket[s]) >= 1
  /\ Head(socket[s]) = socket[s][1] /\ Head(socket[s]) \in Messages

\* It was taken from the socket.
Taken(s) ==
  /\ Len(socket'[s]) = Len(socket[s]) - 1
  /\ \A i \in 1 .. Len(socket[s]) - 1 : socket'[s][i] = socket[s][i + 1]

Gone(s) == client'[s] = "done" /\ socket'[s] = <<>>

SocketsOK ==
  /\ socket \in [Sessions -> Seq(Messages)]
  /\ \A s \in Sessions : Len(socket[s]) <= SocketCapacity

LEMMA SendingWorks ==
  ASSUME SessionTypeOK, NEW s \in Sessions, NEW event \in {"hello", "frame", "diagnostic"},
         NEW value \in Nat, SendOk(s, event, value)
  PROVE  /\ SocketsOK'
         /\ \A t \in Sessions \ {s} : socket'[t] = socket[t]
         /\ \/ Sent(s, event, value)
            \/ client[s] = "done" /\ socket'[s] = socket[s]
  <1> DEFINE message == [event |-> event, value |-> value]
  <1>1. /\ socket \in [Sessions -> Seq(Messages)] /\ socket[s] \in Seq(Messages)
        /\ \A t \in Sessions : Len(socket[t]) <= SocketCapacity
    BY DEF SessionTypeOK
  <1>2. CASE client[s] = "done"
    BY <1>1, <1>2 DEF SendOk, SocketsOK
  <1>3. CASE client[s] # "done"
    <2>1. message \in Messages
      BY DEF Messages
    <2>2. /\ Append(socket[s], message) \in Seq(Messages)
          /\ Len(Append(socket[s], message)) = Len(socket[s]) + 1
          /\ \A i \in 1 .. Len(socket[s]) : Append(socket[s], message)[i] = socket[s][i]
          /\ Append(socket[s], message)[Len(socket[s]) + 1] = message
      BY <1>1, <2>1, AppendProperties
    <2>3. Len(socket[s]) < SocketCapacity /\ socket' = [socket EXCEPT ![s] = Append(@, message)]
      BY <1>3 DEF SendOk
    <2>4. socket'[s] = Append(socket[s], message) /\ \A t \in Sessions \ {s} : socket'[t] = socket[t]
      BY <1>1, <2>3
    <2>5. Len(socket[s]) \in Nat
      BY <1>1, LenProperties
    <2>6. Len(socket'[s]) <= SocketCapacity
      BY <2>2, <2>3, <2>4, <2>5, SessionAssumption
    <2>7. socket' \in [Sessions -> Seq(Messages)]
      BY <1>1, <2>2, <2>3
    <2>8. SocketsOK'
      BY <1>1, <2>4, <2>6, <2>7 DEF SocketsOK
    <2>9. Sent(s, event, value)
      BY <1>3, <2>2, <2>4 DEF Sent
    <2> QED
      BY <2>4, <2>8, <2>9
  <1> QED
    BY <1>2, <1>3

LEMMA PendingWhen ==
  ASSUME SessionTypeOK, NEW s \in Sessions, socket[s] # <<>>
  PROVE  Pending(s)
  <1>1. socket[s] \in Seq(Messages)
    BY DEF SessionTypeOK
  <1>2. Head(socket[s]) = socket[s][1] /\ Head(socket[s]) \in Messages
    BY <1>1, HeadTailProperties
  <1>3. Len(socket[s]) \in Nat /\ Len(socket[s]) # 0
    BY <1>1, LenProperties, EmptySeq
  <1> QED
    BY <1>2, <1>3 DEF Pending

LEMMA ReadingWorks ==
  ASSUME SessionTypeOK, NEW s \in Sessions, socket[s] # <<>>,
         socket' = [socket EXCEPT ![s] = Tail(@)]
  PROVE  /\ SocketsOK'
         /\ \A t \in Sessions \ {s} : socket'[t] = socket[t]
         /\ Taken(s)
  <1>1. /\ socket \in [Sessions -> Seq(Messages)] /\ socket[s] \in Seq(Messages)
        /\ \A t \in Sessions : Len(socket[t]) <= SocketCapacity
    BY DEF SessionTypeOK
  <1>2. /\ Tail(socket[s]) \in Seq(Messages)
        /\ Len(Tail(socket[s])) = Len(socket[s]) - 1
        /\ \A i \in 1 .. Len(Tail(socket[s])) : Tail(socket[s])[i] = socket[s][i + 1]
    BY <1>1, HeadTailProperties
  <1>3. Len(socket[s]) \in Nat /\ Len(socket[s]) # 0
    BY <1>1, LenProperties, EmptySeq
  <1>4. socket'[s] = Tail(socket[s]) /\ \A t \in Sessions \ {s} : socket'[t] = socket[t]
    BY <1>1
  <1>5. Len(socket'[s]) <= SocketCapacity
    BY <1>1, <1>2, <1>3, <1>4, SessionAssumption
  <1>6. socket' \in [Sessions -> Seq(Messages)]
    BY <1>1, <1>2
  <1>7. SocketsOK'
    BY <1>1, <1>4, <1>5, <1>6 DEF SocketsOK
  <1>8. Len(socket[s]) >= 1 /\ 1 .. Len(Tail(socket[s])) = 1 .. Len(socket[s]) - 1
    BY <1>2, <1>3
  <1>9. \A i \in 1 .. Len(socket[s]) - 1 : socket'[s][i] = socket[s][i + 1]
    BY <1>2, <1>4, <1>8
  <1>10. Taken(s)
    BY <1>2, <1>4, <1>8, <1>9 DEF Taken
  <1> QED
    BY <1>4, <1>7, <1>10

LEMMA HangingUpWorks ==
  ASSUME SessionTypeOK, NEW s \in Sessions, Hangs(s)
  PROVE  /\ SocketsOK' /\ client' \in [Sessions -> ClientSteps]
         /\ \A t \in Sessions \ {s} : socket'[t] = socket[t] /\ client'[t] = client[t]
         /\ Gone(s)
  <1>1. <<>> \in Seq(Messages) /\ Len(<<>>) = 0
    BY EmptySeq
  <1>2. /\ socket \in [Sessions -> Seq(Messages)] /\ client \in [Sessions -> ClientSteps]
        /\ \A t \in Sessions : Len(socket[t]) <= SocketCapacity
    BY DEF SessionTypeOK
  <1>3. /\ client' = [client EXCEPT ![s] = "done"] /\ socket' = [socket EXCEPT ![s] = <<>>]
    BY DEF Hangs
  <1>4. /\ client' \in [Sessions -> ClientSteps] /\ socket' \in [Sessions -> Seq(Messages)]
        /\ \A t \in Sessions \ {s} : socket'[t] = socket[t] /\ client'[t] = client[t]
        /\ client'[s] = "done" /\ socket'[s] = <<>>
    BY <1>1, <1>2, <1>3 DEF ClientSteps
  <1>5. \A t \in Sessions : Len(socket'[t]) <= SocketCapacity
    <2>1. Len(socket'[s]) = 0
      BY <1>1, <1>4
    <2>2. 0 <= SocketCapacity
      BY SessionAssumption
    <2> QED
      BY <1>2, <1>4, <2>1, <2>2
  <1> QED
    BY <1>4, <1>5 DEF Gone, SocketsOK

\* The handler is at one of its steps and goes to another; all the others stay.
LEMMA HandlerGoes ==
  ASSUME SessionTypeOK, NEW s \in Sessions, NEW here, NEW next \in HandlerSteps,
         HandlerAt(s, here, next)
  PROVE  /\ handler[s] = here /\ handler'[s] = next
         /\ \A t \in Sessions \ {s} : handler'[t] = handler[t]
         /\ handler' \in [Sessions -> HandlerSteps]
  BY DEF SessionTypeOK, HandlerAt

LEMMA SendHelloDoes ==
  ASSUME SessionTypeOK, NEW s \in Sessions, SendHello(s)
  PROVE  /\ UNCHANGED <<hubVars, observed, reported, sent, hand, diagnostics, clientVars>>
         /\ SocketsOK' /\ handler' \in [Sessions -> HandlerSteps]
         /\ \A t \in Sessions \ {s} : Untouched(t)
         /\ handler[s] = "hello" /\ handler'[s] \in {"subscribe", "done"}
         /\ \/ Sent(s, "hello", 0) \/ Sent(s, "diagnostic", 0)
            \/ client[s] = "done" /\ socket'[s] = socket[s]
  <1>1. UNCHANGED <<hubVars, observed, reported, sent, hand, diagnostics, clientVars>>
    BY DEF SendHello
  <1>2. {"subscribe", "done"} \subseteq HandlerSteps
    BY DEF HandlerSteps
  <1>3. /\ handler[s] = "hello" /\ handler'[s] \in {"subscribe", "done"}
        /\ \A t \in Sessions \ {s} : handler'[t] = handler[t]
        /\ handler' \in [Sessions -> HandlerSteps]
    <2>1. HandlerAt(s, "hello", "subscribe") \/ HandlerAt(s, "hello", "done")
      BY DEF SendHello
    <2> QED
      BY <1>2, <2>1, HandlerGoes
  <1>4. /\ SocketsOK'
        /\ \A t \in Sessions \ {s} : socket'[t] = socket[t]
        /\ \/ Sent(s, "hello", 0) \/ Sent(s, "diagnostic", 0)
           \/ client[s] = "done" /\ socket'[s] = socket[s]
    <2>1. CASE SendOk(s, "hello", 0)
      BY <2>1, SendingWorks
    <2>2. CASE SendOk(s, "diagnostic", 0)
      BY <2>2, SendingWorks
    <2>3. CASE SendErr(s)
      BY <2>3 DEF SendErr, SessionTypeOK, SocketsOK
    <2> QED
      BY <2>1, <2>2, <2>3 DEF SendHello
  <1>5. \A t \in Sessions \ {s} : Untouched(t)
    BY <1>1, <1>3, <1>4 DEF Untouched, clientVars
  <1> QED
    BY <1>1, <1>3, <1>4, <1>5

\* subscriber_stats is read, and an increase is pushed to the diagnostics.
LEMMA CheckDroppedDoes ==
  ASSUME SessionTypeOK, NEW s \in Sessions, CheckDropped(s)
  PROVE  LET d == DroppedCount(s)
         IN  /\ UNCHANGED <<hubVars, reported, hand, socket, clientVars>>
             /\ handler' \in [Sessions -> HandlerSteps] /\ d \in Nat
             /\ observed' \in [Sessions -> Nat] /\ sent' \in [Sessions -> Nat]
             /\ diagnostics' \in [Sessions -> Seq(Nat)]
             /\ \A t \in Sessions \ {s} : Untouched(t)
             /\ handler[s] = "check" /\ observed'[s] = d /\ sent'[s] = 0
             /\ \/ /\ d > reported[s] /\ handler'[s] = "report"
                   /\ diagnostics'[s] = Append(diagnostics[s], d)
                \/ /\ d <= reported[s] /\ handler'[s] = "drain"
                   /\ diagnostics'[s] = diagnostics[s]
  <1> DEFINE d == DroppedCount(s)
  <1>1. d \in Nat
    <2>1. SubscriberStats(id[s]) \subseteq Nat
      BY DEF SubscriberStats, First, Holding, SessionTypeOK, HubTypeOK
    <2>2. reported[s] \in Nat
      BY DEF SessionTypeOK
    <2> QED
      BY <2>1, <2>2 DEF DroppedCount
  <1> HIDE DEF d
  <1>2. /\ UNCHANGED <<hubVars, reported, hand, socket, clientVars>>
        /\ HandlerAt(s, "check", IF d > reported[s] THEN "report" ELSE "drain")
        /\ observed' = [observed EXCEPT ![s] = d]
        /\ sent' = [sent EXCEPT ![s] = 0]
        /\ diagnostics' = IF d > reported[s] THEN [diagnostics EXCEPT ![s] = Append(@, d)]
                                             ELSE diagnostics
    BY DEF CheckDropped, d
  <1>3. {"report", "drain"} \subseteq HandlerSteps
    BY DEF HandlerSteps
  <1>4. /\ handler[s] = "check"
        /\ handler'[s] = IF d > reported[s] THEN "report" ELSE "drain"
        /\ \A t \in Sessions \ {s} : handler'[t] = handler[t]
        /\ handler' \in [Sessions -> HandlerSteps]
    BY <1>2, <1>3, HandlerGoes
  <1>5. /\ observed' \in [Sessions -> Nat] /\ sent' \in [Sessions -> Nat]
        /\ observed'[s] = d /\ sent'[s] = 0
        /\ \A t \in Sessions \ {s} : observed'[t] = observed[t] /\ sent'[t] = sent[t]
    BY <1>1, <1>2 DEF SessionTypeOK
  <1>6. diagnostics \in [Sessions -> Seq(Nat)] /\ reported[s] \in Nat
    BY DEF SessionTypeOK
  <1>7. Append(diagnostics[s], d) \in Seq(Nat)
    BY <1>1, <1>6, AppendProperties
  <1>8. /\ diagnostics' \in [Sessions -> Seq(Nat)]
        /\ \A t \in Sessions \ {s} : diagnostics'[t] = diagnostics[t]
        /\ diagnostics'[s] = IF d > reported[s] THEN Append(diagnostics[s], d) ELSE diagnostics[s]
    BY <1>2, <1>6, <1>7
  <1>9. \A t \in Sessions \ {s} : Untouched(t)
    BY <1>2, <1>4, <1>5, <1>8 DEF Untouched, clientVars
  <1> QED
    BY <1>1, <1>2, <1>4, <1>5, <1>6, <1>8, <1>9 DEF d

LEMMA SendDiagnosticDoes ==
  ASSUME SessionTypeOK, NEW s \in Sessions, SendDiagnostic(s)
  PROVE  /\ UNCHANGED <<hubVars, observed, sent, hand, diagnostics, clientVars>>
         /\ SocketsOK' /\ handler' \in [Sessions -> HandlerSteps]
         /\ reported' \in [Sessions -> Nat]
         /\ \A t \in Sessions \ {s} : Untouched(t)
         /\ handler[s] = "report"
         /\ \/ /\ handler'[s] = "drain" /\ reported'[s] = observed[s]
               /\ \/ Sent(s, "diagnostic", observed[s])
                  \/ client[s] = "done" /\ socket'[s] = socket[s]
            \/ /\ handler'[s] = "unsubscribe" /\ reported'[s] = reported[s]
               /\ client[s] = "done" /\ socket'[s] = socket[s]
  <1>1. UNCHANGED <<hubVars, observed, sent, hand, diagnostics, clientVars>>
    BY DEF SendDiagnostic
  <1>2. {"drain", "unsubscribe"} \subseteq HandlerSteps
    BY DEF HandlerSteps
  <1>3. observed[s] \in Nat /\ reported \in [Sessions -> Nat]
    BY DEF SessionTypeOK
  <1>4. CASE /\ HandlerAt(s, "report", "drain") /\ SendOk(s, "diagnostic", observed[s])
             /\ reported' = [reported EXCEPT ![s] = observed[s]]
    <2>1. /\ handler[s] = "report" /\ handler'[s] = "drain"
          /\ \A t \in Sessions \ {s} : handler'[t] = handler[t]
          /\ handler' \in [Sessions -> HandlerSteps]
      BY <1>2, <1>4, HandlerGoes
    <2>2. /\ SocketsOK' /\ \A t \in Sessions \ {s} : socket'[t] = socket[t]
          /\ \/ Sent(s, "diagnostic", observed[s])
             \/ client[s] = "done" /\ socket'[s] = socket[s]
      BY <1>3, <1>4, SendingWorks
    <2>3. /\ reported' \in [Sessions -> Nat] /\ reported'[s] = observed[s]
          /\ \A t \in Sessions \ {s} : reported'[t] = reported[t]
      BY <1>3, <1>4
    <2>4. \A t \in Sessions \ {s} : Untouched(t)
      BY <1>1, <2>1, <2>2, <2>3 DEF Untouched, clientVars
    <2> QED
      BY <1>1, <2>1, <2>2, <2>3, <2>4
  <1>5. CASE HandlerAt(s, "report", "unsubscribe") /\ SendErr(s) /\ UNCHANGED reported
    <2>1. /\ handler[s] = "report" /\ handler'[s] = "unsubscribe"
          /\ \A t \in Sessions \ {s} : handler'[t] = handler[t]
          /\ handler' \in [Sessions -> HandlerSteps]
      BY <1>2, <1>5, HandlerGoes
    <2>2. socket' = socket /\ client[s] = "done" /\ SocketsOK'
      BY <1>5 DEF SendErr, SessionTypeOK, SocketsOK
    <2>3. \A t \in Sessions \ {s} : Untouched(t)
      BY <1>1, <1>5, <2>1, <2>2 DEF Untouched, clientVars
    <2> QED
      BY <1>1, <1>3, <1>5, <2>1, <2>2, <2>3
  <1> QED
    BY <1>4, <1>5 DEF SendDiagnostic

LEMMA TakeEventDoes ==
  ASSUME SessionTypeOK, NEW s \in Sessions, TakeEvent(s)
  PROVE  /\ UNCHANGED <<observed, reported, sent, diagnostics, socket, clientVars>>
         /\ TryRecv(s)
         /\ handler' \in [Sessions -> HandlerSteps]
         /\ hand' \in [Sessions -> Seq(SequencedFrame)]
         /\ \A t \in Sessions \ {s} : Untouched(t)
         /\ handler[s] = "drain" /\ handler'[s] = "send"
         /\ Len(hand'[s]) = 1 /\ hand'[s][1] = Head(queue[s])
  <1>1. /\ UNCHANGED <<observed, reported, sent, diagnostics, socket, clientVars>>
        /\ TryRecv(s) /\ HandlerAt(s, "drain", "send")
        /\ hand' = [hand EXCEPT ![s] = <<Head(queue[s])>>]
    BY DEF TakeEvent
  <1>2. /\ handler[s] = "drain" /\ handler'[s] = "send"
        /\ \A t \in Sessions \ {s} : handler'[t] = handler[t]
        /\ handler' \in [Sessions -> HandlerSteps]
    <2>1. "send" \in HandlerSteps
      BY DEF HandlerSteps
    <2> QED
      BY <1>1, <2>1, HandlerGoes
  <1>3. Head(queue[s]) \in SequencedFrame
    <2>1. queue[s] \in Seq(SequencedFrame) /\ queue[s] # <<>>
      BY DEF SessionTypeOK, HubTypeOK, TakeEvent, TryRecv
    <2> QED
      BY <2>1, HeadTailProperties
  <1>4. /\ <<Head(queue[s])>> \in Seq(SequencedFrame)
        /\ Len(<<Head(queue[s])>>) = 1 /\ <<Head(queue[s])>>[1] = Head(queue[s])
    BY <1>3
  <1>5. /\ hand' \in [Sessions -> Seq(SequencedFrame)]
        /\ hand'[s] = <<Head(queue[s])>>
        /\ \A t \in Sessions \ {s} : hand'[t] = hand[t]
    BY <1>1, <1>4 DEF SessionTypeOK
  <1>6. \A t \in Sessions \ {s} : Untouched(t)
    BY <1>1, <1>2, <1>5 DEF Untouched, clientVars
  <1> QED
    BY <1>1, <1>2, <1>4, <1>5, <1>6

LEMMA SendFrameDoes ==
  ASSUME SessionTypeOK, NEW s \in Sessions, SendFrame(s)
  PROVE  /\ UNCHANGED <<hubVars, observed, reported, diagnostics, clientVars>>
         /\ SocketsOK' /\ handler' \in [Sessions -> HandlerSteps]
         /\ hand' \in [Sessions -> Seq(SequencedFrame)] /\ sent' \in [Sessions -> Nat]
         /\ \A t \in Sessions \ {s} : Untouched(t)
         /\ handler[s] = "send" /\ Len(hand[s]) = 1 /\ hand[s][1] \in SequencedFrame
         /\ hand'[s] = <<>> /\ Len(hand'[s]) = 0
         /\ \/ /\ handler'[s] = IF sent[s] + 1 >= options[s].capacity THEN "check" ELSE "drain"
               /\ sent'[s] = sent[s] + 1
               /\ \/ Sent(s, "frame", hand[s][1].sequence)
                  \/ client[s] = "done" /\ socket'[s] = socket[s]
            \/ /\ handler'[s] = "unsubscribe" /\ sent'[s] = sent[s]
               /\ client[s] = "done" /\ socket'[s] = socket[s]
  <1> DEFINE next == IF sent[s] + 1 >= options[s].capacity THEN "check" ELSE "drain"
  <1>1. /\ UNCHANGED <<hubVars, observed, reported, diagnostics, clientVars>>
        /\ hand' = [hand EXCEPT ![s] = <<>>]
    BY DEF SendFrame
  <1>2. next \in HandlerSteps /\ "unsubscribe" \in HandlerSteps
    BY DEF HandlerSteps
  <1>3. handler[s] = "send"
    BY DEF SendFrame, HandlerAt
  <1>4. Len(hand[s]) = 1 /\ hand[s][1] \in SequencedFrame
    <2>1. hand[s] \in Seq(SequencedFrame) /\ Len(hand[s]) = 1
      BY <1>3 DEF SessionTypeOK
    <2>2. 1 \in 1 .. Len(hand[s])
      BY <2>1
    <2> QED
      BY <2>1, <2>2, ElementOfSeq
  <1>5. hand[s][1].sequence \in Nat
    BY <1>4 DEF SequencedFrame
  <1>6. /\ hand' \in [Sessions -> Seq(SequencedFrame)]
        /\ hand'[s] = <<>> /\ Len(hand'[s]) = 0
        /\ \A t \in Sessions \ {s} : hand'[t] = hand[t]
    <2>1. <<>> \in Seq(SequencedFrame) /\ Len(<<>>) = 0
      BY EmptySeq
    <2> QED
      BY <1>1, <2>1 DEF SessionTypeOK
  <1>7. sent \in [Sessions -> Nat]
    BY DEF SessionTypeOK
  <1>8. CASE /\ HandlerAt(s, "send", next) /\ SendOk(s, "frame", hand[s][1].sequence)
             /\ sent' = [sent EXCEPT ![s] = @ + 1]
    <2>1. /\ handler'[s] = next
          /\ \A t \in Sessions \ {s} : handler'[t] = handler[t]
          /\ handler' \in [Sessions -> HandlerSteps]
      <3> HIDE DEF next
      <3> QED
        BY <1>2, <1>8, HandlerGoes
    <2>2. /\ SocketsOK' /\ \A t \in Sessions \ {s} : socket'[t] = socket[t]
          /\ \/ Sent(s, "frame", hand[s][1].sequence)
             \/ client[s] = "done" /\ socket'[s] = socket[s]
      BY <1>5, <1>8, SendingWorks
    <2>3. /\ sent' \in [Sessions -> Nat] /\ sent'[s] = sent[s] + 1
          /\ \A t \in Sessions \ {s} : sent'[t] = sent[t]
      BY <1>7, <1>8
    <2>4. \A t \in Sessions \ {s} : Untouched(t)
      BY <1>1, <1>6, <2>1, <2>2, <2>3 DEF Untouched, clientVars
    <2> QED
      BY <1>1, <1>3, <1>4, <1>6, <2>1, <2>2, <2>3, <2>4
  <1>9. CASE HandlerAt(s, "send", "unsubscribe") /\ SendErr(s) /\ UNCHANGED sent
    <2>1. /\ handler'[s] = "unsubscribe"
          /\ \A t \in Sessions \ {s} : handler'[t] = handler[t]
          /\ handler' \in [Sessions -> HandlerSteps]
      BY <1>2, <1>9, HandlerGoes
    <2>2. socket' = socket /\ client[s] = "done" /\ SocketsOK'
      BY <1>9 DEF SendErr, SessionTypeOK, SocketsOK
    <2>3. \A t \in Sessions \ {s} : Untouched(t)
      BY <1>1, <1>6, <1>9, <2>1, <2>2 DEF Untouched, clientVars
    <2> QED
      BY <1>1, <1>3, <1>4, <1>6, <1>7, <1>9, <2>1, <2>2, <2>3
  <1> QED
    BY <1>8, <1>9 DEF SendFrame, Batch

\* What a reader, its deadline or its end may do.
ReaderStep(s) ==
  \/ TestDeadline(s) \/ CaptureReads(s) \/ MonitorReads(s) \/ ReadFails(s)
  \/ DeadlinePasses(s) \/ PeerCloses(s) \/ ClientKilled(s)

Idles(s) ==
  /\ client[s] # "done" /\ client'[s] # "done"
  /\ socket'[s] = socket[s] /\ read'[s] = read[s] /\ told'[s] = told[s]

Ends(s) == Gone(s) /\ read'[s] = read[s] /\ told'[s] = told[s]

GoesOn(s) == client[s] # "done" /\ client'[s] # "done" /\ Taken(s)

ReadsHello(s) ==
  /\ Pending(s) /\ Head(socket[s]).event = "hello"
  /\ GoesOn(s)
  /\ read'[s] = read[s] /\ told'[s] = told[s]

ReadsFrame(s) ==
  /\ Pending(s) /\ Head(socket[s]).event = "frame"
  /\ client[s] # "done"
  /\ GoesOn(s) \/ Gone(s)
  /\ read'[s] = Append(read[s], Head(socket[s]).value) /\ told'[s] = told[s]

ReadsDiagnostic(s) ==
  /\ Pending(s) /\ Head(socket[s]).event = "diagnostic"
  /\ client[s] # "done"
  /\ read'[s] = read[s]
  /\ \/ s \in Captures /\ Gone(s) /\ told'[s] = Head(socket[s]).value
     \/ /\ GoesOn(s)
        /\ told'[s] = IF Head(socket[s]).value > told[s] THEN Head(socket[s]).value ELSE told[s]

ReaderTyped ==
  /\ SocketsOK' /\ client' \in [Sessions -> ClientSteps]
  /\ due' \in [Sessions -> BOOLEAN]
  /\ read' \in [Sessions -> Seq(Nat)] /\ told' \in [Sessions -> Nat]
  /\ result' \in [Sessions -> Results]

LEMMA ReadTypes ==
  ASSUME SessionTypeOK, NEW s \in Sessions, Pending(s)
  PROVE  /\ Head(socket[s]).value \in Nat
         /\ Head(socket[s]).event \in {"hello", "frame", "diagnostic"}
         /\ Append(read[s], Head(socket[s]).value) \in Seq(Nat)
  <1>1. /\ Head(socket[s]).value \in Nat
        /\ Head(socket[s]).event \in {"hello", "frame", "diagnostic"}
    BY DEF Pending, Messages
  <1>2. read[s] \in Seq(Nat)
    BY DEF SessionTypeOK
  <1> QED
    BY <1>1, <1>2, AppendProperties

LEMMA ReaderDoes ==
  ASSUME SessionTypeOK, NEW s \in Sessions, ReaderStep(s)
  PROVE  /\ UNCHANGED <<hubVars, handlerVars>>
         /\ ReaderTyped
         /\ \A t \in Sessions \ {s} : Untouched(t)
         /\ Idles(s) \/ Ends(s) \/ ReadsHello(s) \/ ReadsFrame(s) \/ ReadsDiagnostic(s)
  <1> DEFINE message == Head(socket[s])
             Same    == \A t \in Sessions \ {s} :
                          /\ socket'[t] = socket[t] /\ client'[t] = client[t]
                          /\ read'[t] = read[t] /\ told'[t] = told[t]
  <1>1. /\ SocketsOK /\ client \in [Sessions -> ClientSteps]
        /\ due \in [Sessions -> BOOLEAN]
        /\ read \in [Sessions -> Seq(Nat)] /\ told \in [Sessions -> Nat]
        /\ result \in [Sessions -> Results]
    BY DEF SessionTypeOK, SocketsOK
  <1>2. {"loop", "reading", "done"} \subseteq ClientSteps
    BY DEF ClientSteps
  <1>3. {"error", "duration-elapsed", "limit-reached", "stream-closed"} \subseteq Results
    BY DEF Results
  <1>4. UNCHANGED <<hubVars, handlerVars>>
    BY DEF ReaderStep, TestDeadline, CaptureReads, MonitorReads, ReadFails, DeadlinePasses,
       PeerCloses, ClientKilled
  <1>5. ReaderTyped /\ Same
        /\ (Idles(s) \/ Ends(s) \/ ReadsHello(s) \/ ReadsFrame(s) \/ ReadsDiagnostic(s))
    <2>1. CASE TestDeadline(s)
      <3>1. UNCHANGED <<due, read, told>> /\ client[s] = "loop"
        BY <2>1 DEF TestDeadline
      <3>2. CASE Hangs(s) /\ result' = [result EXCEPT ![s] = "duration-elapsed"]
        BY <1>1, <1>3, <3>1, <3>2, HangingUpWorks DEF ReaderTyped, Ends
      <3>3. CASE client' = [client EXCEPT ![s] = "reading"] /\ UNCHANGED <<socket, result>>
        BY <1>1, <1>2, <3>1, <3>3 DEF ReaderTyped, SocketsOK, Idles
      <3> QED
        BY <2>1, <3>2, <3>3 DEF TestDeadline, Finish
    <2>2. CASE CaptureReads(s)
      <3>1. /\ s \in Captures /\ client[s] = "reading" /\ socket[s] # <<>> /\ UNCHANGED due
            /\ Pending(s)
        BY <2>2, PendingWhen DEF CaptureReads
      <3>2. message.value \in Nat /\ Append(read[s], message.value) \in Seq(Nat)
        BY <3>1, ReadTypes
      <3>3. CASE message.event = "hello" /\ Consume(s, "loop") /\ UNCHANGED <<read, told>>
        <4>1. SocketsOK' /\ Taken(s) /\ \A t \in Sessions \ {s} : socket'[t] = socket[t]
          BY <3>1, <3>3, ReadingWorks DEF Consume
        <4>2. /\ client' \in [Sessions -> ClientSteps] /\ client'[s] = "loop"
              /\ \A t \in Sessions \ {s} : client'[t] = client[t]
          BY <1>1, <1>2, <3>3 DEF Consume
        <4> QED
          BY <1>1, <3>1, <3>3, <4>1, <4>2 DEF ReaderTyped, ReadsHello, GoesOn, Consume
      <3>4. CASE /\ message.event = "frame"
                 /\ read' = [read EXCEPT ![s] = Append(read[s], message.value)]
                 /\ Finish(s, "limit-reached") \/ Consume(s, "loop")
                 /\ UNCHANGED told
        <4>1. /\ read' \in [Sessions -> Seq(Nat)] /\ read'[s] = Append(read[s], message.value)
              /\ \A t \in Sessions \ {s} : read'[t] = read[t]
          BY <1>1, <3>2, <3>4
        <4>2. CASE Finish(s, "limit-reached")
          <5>1. /\ SocketsOK' /\ client' \in [Sessions -> ClientSteps] /\ Gone(s)
                /\ \A t \in Sessions \ {s} : socket'[t] = socket[t] /\ client'[t] = client[t]
            BY <4>2, HangingUpWorks DEF Finish
          <5>2. result' \in [Sessions -> Results]
            BY <1>1, <1>3, <4>2 DEF Finish
          <5> QED
            BY <1>1, <3>1, <3>4, <4>1, <5>1, <5>2 DEF ReaderTyped, ReadsFrame
        <4>3. CASE Consume(s, "loop")
          <5>1. SocketsOK' /\ Taken(s) /\ \A t \in Sessions \ {s} : socket'[t] = socket[t]
            BY <3>1, <4>3, ReadingWorks DEF Consume
          <5>2. /\ client' \in [Sessions -> ClientSteps] /\ client'[s] = "loop"
                /\ \A t \in Sessions \ {s} : client'[t] = client[t]
            BY <1>1, <1>2, <4>3 DEF Consume
          <5> QED
            BY <1>1, <3>1, <3>4, <4>1, <4>3, <5>1, <5>2
            DEF ReaderTyped, ReadsFrame, GoesOn, Consume
        <4> QED
          BY <3>4, <4>2, <4>3
      <3>5. CASE /\ message.event = "diagnostic" /\ Fail(s) /\ UNCHANGED read
                 /\ told' = [told EXCEPT ![s] = message.value]
        <4>1. /\ told' \in [Sessions -> Nat] /\ told'[s] = message.value
              /\ \A t \in Sessions \ {s} : told'[t] = told[t]
          BY <1>1, <3>2, <3>5
        <4>2. /\ SocketsOK' /\ client' \in [Sessions -> ClientSteps] /\ Gone(s)
              /\ \A t \in Sessions \ {s} : socket'[t] = socket[t] /\ client'[t] = client[t]
          BY <3>5, HangingUpWorks DEF Fail
        <4>3. result' \in [Sessions -> Results]
          BY <1>1, <1>3, <3>5 DEF Fail
        <4> QED
          BY <1>1, <3>1, <3>5, <4>1, <4>2, <4>3 DEF ReaderTyped, ReadsDiagnostic
      <3> QED
        BY <2>2, <3>3, <3>4, <3>5 DEF CaptureReads
    <2>3. CASE MonitorReads(s)
      <3>1. /\ client[s] = "reading" /\ socket[s] # <<>> /\ UNCHANGED <<due, result>>
            /\ Pending(s) /\ Consume(s, "reading")
        BY <2>3, PendingWhen DEF MonitorReads, Consume
      <3>2. /\ message.value \in Nat /\ Append(read[s], message.value) \in Seq(Nat)
            /\ message.event \in {"hello", "frame", "diagnostic"}
        BY <3>1, ReadTypes
      <3>3. SocketsOK' /\ Taken(s) /\ \A t \in Sessions \ {s} : socket'[t] = socket[t]
        BY <3>1, ReadingWorks DEF Consume
      <3>4. /\ client' \in [Sessions -> ClientSteps] /\ client'[s] = "reading"
            /\ \A t \in Sessions \ {s} : client'[t] = client[t]
        BY <1>1, <1>2, <3>1 DEF Consume
      <3>5. /\ read' = IF message.event = "frame"
                       THEN [read EXCEPT ![s] = Append(@, message.value)] ELSE read
            /\ told' = IF message.event = "diagnostic" /\ message.value > told[s]
                       THEN [told EXCEPT ![s] = message.value] ELSE told
        BY <2>3 DEF MonitorReads
      <3>6. /\ read' \in [Sessions -> Seq(Nat)] /\ \A t \in Sessions \ {s} : read'[t] = read[t]
            /\ read'[s] = IF message.event = "frame" THEN Append(read[s], message.value) ELSE read[s]
        BY <1>1, <3>2, <3>5
      <3>7. /\ told' \in [Sessions -> Nat] /\ \A t \in Sessions \ {s} : told'[t] = told[t]
            /\ told'[s] = IF message.event = "diagnostic" /\ message.value > told[s]
                          THEN message.value ELSE told[s]
        BY <1>1, <3>2, <3>5
      <3>8. GoesOn(s)
        BY <3>1, <3>3, <3>4 DEF GoesOn
      <3>9. ReaderTyped /\ Same
        BY <1>1, <3>1, <3>3, <3>4, <3>6, <3>7 DEF ReaderTyped
      <3>10. ReadsHello(s) \/ ReadsFrame(s) \/ ReadsDiagnostic(s)
        BY <3>1, <3>2, <3>6, <3>7, <3>8 DEF ReadsHello, ReadsFrame, ReadsDiagnostic
      <3> QED
        BY <3>9, <3>10
    <2>4. CASE DeadlinePasses(s)
      BY <1>1, <2>4 DEF DeadlinePasses, ReaderTyped, SocketsOK, Idles
    <2>5. CASE Hangs(s) /\ UNCHANGED <<due, read, told>> /\ result' \in [Sessions -> Results]
      BY <1>1, <2>5, HangingUpWorks DEF ReaderTyped, Ends
    <2>6. CASE ReadFails(s) \/ PeerCloses(s) \/ ClientKilled(s)
      BY <1>1, <1>3, <2>5, <2>6 DEF ReadFails, PeerCloses, ClientKilled, Fail, Finish
    <2> QED
      BY <2>1, <2>2, <2>3, <2>4, <2>6 DEF ReaderStep
  <1>6. \A t \in Sessions \ {s} : Untouched(t)
    BY <1>4, <1>5 DEF Untouched, handlerVars
  <1> QED
    BY <1>4, <1>5, <1>6

-----------------------------------------------------------------------------
(* The types and the progress of the handler are kept *)

\* A session that nothing happens to keeps its progress.
LEMMA OthersKeepProgress ==
  ASSUME NEW t \in Sessions, Untouched(t), HubUntouched(t), Progress(t)
  PROVE  Progress(t)'
  BY DEF Untouched, HubUntouched, Progress

\* What is left to show of the types, once the hub's are known.
BoundsOK(s) ==
  /\ sent[s] <= options[s].capacity
  /\ Len(hand[s]) = IF handler[s] = "send" THEN 1 ELSE 0

LEMMA OthersKeepBounds ==
  ASSUME NEW t \in Sessions, Untouched(t), HubUntouched(t), BoundsOK(t)
  PROVE  BoundsOK(t)'
  BY DEF Untouched, HubUntouched, BoundsOK

HandlerTyped ==
  /\ handler \in [Sessions -> HandlerSteps]
  /\ observed \in [Sessions -> Nat] /\ reported \in [Sessions -> Nat]
  /\ sent \in [Sessions -> Nat]
  /\ hand \in [Sessions -> Seq(SequencedFrame)]
  /\ diagnostics \in [Sessions -> Seq(Nat)]

ClientTyped ==
  /\ SocketsOK
  /\ client \in [Sessions -> ClientSteps] /\ due \in [Sessions -> BOOLEAN]
  /\ read \in [Sessions -> Seq(Nat)] /\ told \in [Sessions -> Nat]
  /\ result \in [Sessions -> Results]

LEMMA TypesSplit ==
  SessionTypeOK <=> HubTypeOK /\ HandlerTyped /\ ClientTyped /\ \A s \in Sessions : BoundsOK(s)
  BY DEF SessionTypeOK, HandlerTyped, ClientTyped, SocketsOK, BoundsOK

\* A step of session s keeps the invariant if it does so for s.
LEMMA SessionInvAgain ==
  ASSUME SessionInv, HubOK', NEW s \in Sessions,
         HandlerTyped', ClientTyped',
         \A t \in Sessions \ {s} : Untouched(t) /\ HubUntouched(t),
         BoundsOK(s)', Progress(s)'
  PROVE  SessionInv'
  <1>1. \A t \in Sessions : BoundsOK(t)'
    BY TypesSplit, OthersKeepBounds DEF SessionInv
  <1>2. \A t \in Sessions : Progress(t)'
    BY OthersKeepProgress DEF SessionInv
  <1>3. (SessionTypeOK)'
    BY <1>1 DEF SessionTypeOK, HandlerTyped, ClientTyped, SocketsOK, BoundsOK, HubOK, HubInv
  <1> QED
    BY <1>2, <1>3 DEF SessionInv

\* What the other sessions see of a session's calls to the hub.
LEMMA HubCallsAreOwn ==
  ASSUME HubTypeOK, NEW s \in Sessions, NEW t \in Sessions \ {s},
         \/ UNCHANGED hubVars
         \/ \E o \in Options : Subscribe(s, o)
         \/ Unsubscribe(s) \/ DropReceiver(s) \/ TryRecv(s)
  PROVE  HubUntouched(t)
  BY DEF HubUntouched, hubVars, Subscribe, Unsubscribe, DropReceiver, TryRecv, HubTypeOK

LEMMA CapacityOK ==
  ASSUME HubTypeOK, NEW s \in Sessions
  PROVE  /\ options[s].capacity \in Nat
         /\ \A o \in Options : o.capacity \in Nat \ {0}
  BY HubAssumption DEF HubTypeOK, NoOptions

\* With an open subscription, the capacity is that asked for.
LEMMA OpenCapacity ==
  ASSUME HubOK, HubOK', NEW s \in Sessions, NEW o \in Options, Subscribe(s, o)
  PROVE  options'[s] = o /\ phase[s] = "new" /\ phase'[s] = "open"
  BY DEF Subscribe, HubOK, HubInv, HubTypeOK

\* A step of a session leaves the other sessions alone.
LEMMA HandlerOwn ==
  ASSUME SessionTypeOK, NEW s \in Sessions, NEW t \in Sessions \ {s}, HandlerNext(s)
  PROVE  Untouched(t) /\ HubUntouched(t)
  <1>1. Untouched(t)
    <2>1. ASSUME NEW o \in Options, SubscribeStream(s, o) PROVE Untouched(t)
      BY <2>1 DEF SubscribeStream, HandlerAt, Untouched, SessionTypeOK, clientVars
    <2>2. CASE EndDrain(s) \/ UnsubscribeStream(s) \/ DropSubscription(s)
      BY <2>2 DEF EndDrain, UnsubscribeStream, DropSubscription, HandlerAt, Untouched,
         SessionTypeOK, clientVars
    <2> QED
      BY <2>1, <2>2, SendHelloDoes, CheckDroppedDoes, SendDiagnosticDoes, TakeEventDoes,
         SendFrameDoes DEF HandlerNext
  <1>2. \/ UNCHANGED hubVars
        \/ \E o \in Options : Subscribe(s, o)
        \/ Unsubscribe(s) \/ DropReceiver(s) \/ TryRecv(s)
    BY DEF HandlerNext, SendHello, SubscribeStream, CheckDropped, SendDiagnostic, TakeEvent,
       EndDrain, SendFrame, UnsubscribeStream, DropSubscription
  <1>3. HubTypeOK
    BY DEF SessionTypeOK
  <1> QED
    BY <1>1, <1>2, <1>3, HubCallsAreOwn

LEMMA ClientOwn ==
  ASSUME SessionTypeOK, NEW s \in Sessions, NEW t \in Sessions \ {s},
         ReaderStep(s) \/ Connect(s)
  PROVE  Untouched(t) /\ HubUntouched(t)
  <1>1. HubTypeOK
    BY DEF SessionTypeOK
  <1>2. CASE ReaderStep(s)
    BY <1>1, <1>2, ReaderDoes, HubCallsAreOwn
  <1>3. CASE Connect(s)
    <2>1. UNCHANGED hubVars
      BY <1>3 DEF Connect
    <2>2. Untouched(t)
      BY <1>3 DEF Connect, HandlerAt, Untouched, SessionTypeOK
    <2> QED
      BY <1>1, <2>1, <2>2, HubCallsAreOwn
  <1> QED
    BY <1>2, <1>3

LEMMA HandlerKeepsInv ==
  ASSUME HubOK, HubOK', SessionInv, NEW s \in Sessions, HandlerNext(s)
  PROVE  SessionInv'
  <1> USE DEF HubOK, HubInv
  <1>1. SessionTypeOK /\ HandlerTyped /\ ClientTyped /\ Progress(s) /\ BoundsOK(s)
    BY TypesSplit DEF SessionInv
  <1>2. options[s].capacity \in Nat
    BY CapacityOK
  <1>3. CASE SendHello(s)
    <2>1. HandlerTyped' /\ ClientTyped'
      BY <1>1, <1>3, SendHelloDoes DEF HandlerTyped, ClientTyped, clientVars, SocketsOK
    <2>2. \A t \in Sessions \ {s} : Untouched(t) /\ HubUntouched(t)
      BY <1>1, <1>3, SendHelloDoes, HubCallsAreOwn
    <2>3. BoundsOK(s)'
      BY <1>1, <1>2, <1>3, SendHelloDoes DEF BoundsOK, hubVars, HandlerTyped, Progress, clientVars
    <2>4. Progress(s)'
      BY <1>1, <1>2, <1>3, SendHelloDoes DEF Progress, hubVars, HandlerTyped, clientVars
    <2> QED
      BY <2>1, <2>2, <2>3, <2>4, SessionInvAgain
  <1>4. CASE CheckDropped(s)
    <2>1. HandlerTyped' /\ ClientTyped'
      BY <1>1, <1>4, CheckDroppedDoes DEF HandlerTyped, ClientTyped, clientVars, SocketsOK
    <2>2. \A t \in Sessions \ {s} : Untouched(t) /\ HubUntouched(t)
      BY <1>1, <1>4, CheckDroppedDoes, HubCallsAreOwn
    <2>3. BoundsOK(s)'
      BY <1>1, <1>2, <1>4, CheckDroppedDoes DEF BoundsOK, hubVars, HandlerTyped, Progress, clientVars
    <2>4. Progress(s)'
      BY <1>1, <1>2, <1>4, CheckDroppedDoes DEF Progress, hubVars, HandlerTyped, clientVars
    <2> QED
      BY <2>1, <2>2, <2>3, <2>4, SessionInvAgain
  <1>5. CASE SendDiagnostic(s)
    <2>1. HandlerTyped' /\ ClientTyped'
      BY <1>1, <1>5, SendDiagnosticDoes DEF HandlerTyped, ClientTyped, clientVars, SocketsOK
    <2>2. \A t \in Sessions \ {s} : Untouched(t) /\ HubUntouched(t)
      BY <1>1, <1>5, SendDiagnosticDoes, HubCallsAreOwn
    <2>3. BoundsOK(s)'
      BY <1>1, <1>2, <1>5, SendDiagnosticDoes DEF BoundsOK, hubVars, HandlerTyped, Progress, clientVars
    <2>4. Progress(s)'
      BY <1>1, <1>2, <1>5, SendDiagnosticDoes DEF Progress, hubVars, HandlerTyped, clientVars
    <2> QED
      BY <2>1, <2>2, <2>3, <2>4, SessionInvAgain
  <1>6. CASE TakeEvent(s)
    <2>1. HandlerTyped' /\ ClientTyped'
      BY <1>1, <1>6, TakeEventDoes DEF HandlerTyped, ClientTyped, clientVars, SocketsOK
    <2>2. \A t \in Sessions \ {s} : Untouched(t) /\ HubUntouched(t)
      BY <1>1, <1>6, TakeEventDoes, HubCallsAreOwn
    <2>3. BoundsOK(s)'
      BY <1>1, <1>2, <1>6, TakeEventDoes DEF BoundsOK, hubVars, HubTypeOK, TryRecv, HandlerTyped, Progress, clientVars
    <2>4. Progress(s)'
      BY <1>1, <1>2, <1>6, TakeEventDoes DEF Progress, hubVars, HubTypeOK, TryRecv, HandlerTyped, clientVars
    <2> QED
      BY <2>1, <2>2, <2>3, <2>4, SessionInvAgain
  <1>7. CASE SendFrame(s)
    <2>1. HandlerTyped' /\ ClientTyped'
      BY <1>1, <1>7, SendFrameDoes DEF HandlerTyped, ClientTyped, clientVars, SocketsOK
    <2>2. \A t \in Sessions \ {s} : Untouched(t) /\ HubUntouched(t)
      BY <1>1, <1>7, SendFrameDoes, HubCallsAreOwn
    <2>3. BoundsOK(s)'
      BY <1>1, <1>2, <1>7, SendFrameDoes DEF BoundsOK, hubVars, HandlerTyped, Progress, clientVars
    <2>4. Progress(s)'
      BY <1>1, <1>2, <1>7, SendFrameDoes DEF Progress, hubVars, HandlerTyped, clientVars
    <2> QED
      BY <2>1, <2>2, <2>3, <2>4, SessionInvAgain
  <1>8. CASE EndDrain(s)
    <2> USE DEF EndDrain, HandlerAt
    <2>1. HandlerTyped' /\ ClientTyped'
      BY <1>1, <1>8 DEF HandlerTyped, ClientTyped, clientVars, SocketsOK, HandlerSteps
    <2>2. \A t \in Sessions \ {s} : Untouched(t) /\ HubUntouched(t)
      BY <1>1, <1>8, HubCallsAreOwn DEF Untouched, HandlerTyped, clientVars
    <2>3. BoundsOK(s)' /\ Progress(s)'
      BY <1>1, <1>8 DEF BoundsOK, Progress, hubVars, HubTypeOK, HandlerTyped, clientVars
    <2> QED
      BY <2>1, <2>2, <2>3, SessionInvAgain
  <1>9. CASE UnsubscribeStream(s)
    <2> USE DEF UnsubscribeStream, HandlerAt, Unsubscribe
    <2>1. HandlerTyped' /\ ClientTyped'
      BY <1>1, <1>9 DEF HandlerTyped, ClientTyped, clientVars, SocketsOK, HandlerSteps
    <2>2. \A t \in Sessions \ {s} : Untouched(t) /\ HubUntouched(t)
      BY <1>1, <1>9, HubCallsAreOwn DEF Untouched, HandlerTyped, clientVars
    <2>3. BoundsOK(s)' /\ Progress(s)'
      BY <1>1, <1>9 DEF BoundsOK, Progress, hubVars, HubTypeOK, HandlerTyped, clientVars
    <2> QED
      BY <2>1, <2>2, <2>3, SessionInvAgain
  <1>10. CASE DropSubscription(s)
    <2> USE DEF DropSubscription, HandlerAt, DropReceiver
    <2>1. HandlerTyped' /\ ClientTyped'
      BY <1>1, <1>10 DEF HandlerTyped, ClientTyped, clientVars, SocketsOK, HandlerSteps
    <2>2. \A t \in Sessions \ {s} : Untouched(t) /\ HubUntouched(t)
      BY <1>1, <1>10, HubCallsAreOwn DEF Untouched, HandlerTyped, clientVars
    <2>3. BoundsOK(s)' /\ Progress(s)'
      BY <1>1, <1>10 DEF BoundsOK, Progress, hubVars, HubTypeOK, HandlerTyped, clientVars
    <2> QED
      BY <2>1, <2>2, <2>3, SessionInvAgain
  <1>11. ASSUME NEW o \in Options, SubscribeStream(s, o) PROVE SessionInv'
    <2> USE DEF SubscribeStream, HandlerAt
    <2>1. HandlerTyped' /\ ClientTyped'
      BY <1>1, <1>11 DEF HandlerTyped, ClientTyped, clientVars, SocketsOK, HandlerSteps
    <2>2. \A t \in Sessions \ {s} : Untouched(t) /\ HubUntouched(t)
      BY <1>1, <1>11, HubCallsAreOwn DEF Untouched, HandlerTyped, clientVars
    <2>3. /\ options'[s] = o /\ o.capacity \in Nat /\ o.capacity > 0
          /\ phase[s] = "new" /\ phase'[s] = "open"
      BY <1>11, OpenCapacity, CapacityOK
    <2>4. handler[s] = "subscribe" /\ handler'[s] = "check" /\ sent'[s] = sent[s] /\ hand'[s] = hand[s]
      BY <1>1, <1>11 DEF HandlerTyped
    <2>5. sent[s] = 0
      BY <1>1, <2>3 DEF Progress
    <2>6. BoundsOK(s)'
      BY <1>1, <2>3, <2>4, <2>5 DEF BoundsOK
    <2>7. Progress(s)'
      BY <2>3, <2>4 DEF Progress
    <2> QED
      BY <2>1, <2>2, <2>6, <2>7, SessionInvAgain
  <1> QED
    BY <1>3, <1>4, <1>5, <1>6, <1>7, <1>8, <1>9, <1>10, <1>11 DEF HandlerNext

LEMMA ClientKeepsInv ==
  ASSUME HubOK, HubOK', SessionInv, NEW s \in Sessions, ReaderStep(s) \/ Connect(s)
  PROVE  SessionInv'
  <1> USE DEF HubOK, HubInv
  <1>1. SessionTypeOK /\ HandlerTyped /\ ClientTyped /\ Progress(s) /\ BoundsOK(s)
    BY TypesSplit DEF SessionInv
  <1>2. CASE ReaderStep(s)
    <2>1. HandlerTyped' /\ ClientTyped'
      BY <1>1, <1>2, ReaderDoes DEF HandlerTyped, ClientTyped, ReaderTyped, handlerVars, SocketsOK
    <2>2. \A t \in Sessions \ {s} : Untouched(t) /\ HubUntouched(t)
      BY <1>1, <1>2, ReaderDoes, HubCallsAreOwn
    <2>3. BoundsOK(s)'
      BY <1>1, <1>2, ReaderDoes DEF BoundsOK, hubVars, handlerVars
    <2>4. Progress(s)'
      BY <1>1, <1>2, ReaderDoes DEF Progress, hubVars, handlerVars
    <2> QED
      BY <2>1, <2>2, <2>3, <2>4, SessionInvAgain
  <1>3. CASE Connect(s)
    <2> USE DEF Connect, HandlerAt
    <2>1. HandlerTyped' /\ ClientTyped'
      BY <1>1, <1>3 DEF HandlerTyped, ClientTyped, ClientSteps, SocketsOK, HandlerSteps
    <2>2. \A t \in Sessions \ {s} : Untouched(t) /\ HubUntouched(t)
      BY <1>1, <1>3, HubCallsAreOwn DEF Untouched, HandlerTyped, ClientTyped
    <2>3. BoundsOK(s)' /\ Progress(s)'
      BY <1>1, <1>3 DEF BoundsOK, Progress, hubVars, HandlerTyped
    <2> QED
      BY <2>1, <2>2, <2>3, SessionInvAgain
  <1> QED
    BY <1>2, <1>3

LEMMA PublishKeepsSessions ==
  ASSUME HubOK, HubOK', SessionInv, NEW k \in Keys, PublishFrame(k)
  PROVE  SessionInv'
  <1>1. /\ UNCHANGED <<handlerVars, socket, clientVars>>
        /\ UNCHANGED <<options, phase, since, received>>
    BY DEF PublishFrame, Publish
  <1>2. (SessionTypeOK)'
    BY <1>1 DEF SessionInv, SessionTypeOK, handlerVars, clientVars, HubOK, HubInv
  <1>3. \A s \in Sessions : Progress(s)'
    BY <1>1 DEF SessionInv, Progress, handlerVars
  <1> QED
    BY <1>2, <1>3 DEF SessionInv

LEMMA SessionInvStep ==
  ASSUME HubOK, HubOK', SessionInv, [SessionNext]_sessionVars
  PROVE  SessionInv'
  <1>1. CASE UNCHANGED sessionVars
    BY <1>1 DEF SessionInv, SessionTypeOK, Progress, sessionVars, handlerVars, clientVars,
       hubVars, HubTypeOK
  <1>2. ASSUME NEW s \in Sessions,
               \/ ReaderNext(s) \/ Connect(s) \/ DeadlinePasses(s)
               \/ PeerCloses(s) \/ ClientKilled(s)
        PROVE  SessionInv'
    BY <1>2, ClientKeepsInv DEF ReaderNext, ReaderStep
  <1> QED
    BY <1>1, <1>2, HandlerKeepsInv, PublishKeepsSessions DEF SessionNext

LEMMA SessionInvAlways == SessionSpec => []SessionInv
  BY HubStaysOK, SessionInvInit, SessionInvStep, PTL DEF SessionSpec

\* Every variable of the streams keeps its type: the handler never has more
\* than one event in its hand, never sends more than a batch between two looks
\* at the drop counter, and the socket is never over its bound.
THEOREM SessionTyped == SessionSpec => []SessionTypeOK
  <1>1. SessionInv => SessionTypeOK
    BY DEF SessionInv
  <1> QED
    BY SessionInvAlways, <1>1, PTL

-----------------------------------------------------------------------------
(* What is reported of drops *)

Carries(s, i) == socket[s][i].event = "frame"

\* No drop count that is known, on its way or told is more than the
\* subscription has reached, and those pushed to the diagnostics increase.
Honest(s) ==
  /\ observed[s] <= dropped[s] /\ reported[s] <= dropped[s] /\ told[s] <= dropped[s]
  /\ \A i \in 1 .. Len(socket[s]) : ~Carries(s, i) => socket[s][i].value <= dropped[s]
  /\ \A i \in 1 .. Len(diagnostics[s]) :
       /\ diagnostics[s][i] <= dropped[s]
       /\ \A j \in 1 .. i - 1 : diagnostics[s][j] < diagnostics[s][i]
       /\ handler[s] \in {"check", "drain", "send"} => diagnostics[s][i] <= reported[s]
       /\ handler[s] = "report" => diagnostics[s][i] <= observed[s]

HonestInv == ~clash => \A s \in Sessions : Honest(s)

\* As long as no id was given twice, subscriber_stats tells a session its own
\* drop count.
LEMMA OwnCount ==
  ASSUME HubOK, ~clash, NEW s \in Sessions, phase[s] = "open"
  PROVE  DroppedCount(s) = dropped[s]
  <1>1. First(id[s]) = {s}
    BY DEF HubOK, OwnEntry
  <1>2. SubscriberStats(id[s]) = {dropped[s]}
    BY <1>1 DEF SubscriberStats
  <1> QED
    BY <1>2 DEF DroppedCount

\* Drop counts only grow, and a clash is never undone.
LEMMA DropsGrow ==
  ASSUME HubTypeOK, [HubNext]_hubVars
  PROVE  /\ \A s \in Sessions : dropped[s] <= dropped'[s]
         /\ clash => clash'
  <1>1. ASSUME NEW k \in Keys, Publish(k)
        PROVE  (\A s \in Sessions : dropped[s] <= dropped'[s]) /\ clash' = clash
    <2>1. clash' = clash
      BY <1>1 DEF Publish
    <2>2. ASSUME NEW s \in Sessions PROVE dropped[s] <= dropped'[s]
      <3>1. dropped[s] \in Nat
        BY DEF HubTypeOK
      <3>2. dropped'[s] \in {dropped[s], dropped[s] + 1}
        BY <1>1 DEF Publish, DropCount
      <3> QED
        BY <3>1, <3>2
    <2> QED
      BY <2>1, <2>2
  <1>2. ASSUME NEW s \in Sessions,
               (\E o \in Options : Subscribe(s, o)) \/ Unsubscribe(s) \/ DropReceiver(s) \/ TryRecv(s)
        PROVE  dropped' = dropped /\ (clash => clash')
    <2>1. ASSUME NEW o \in Options, Subscribe(s, o) PROVE dropped' = dropped /\ (clash => clash')
      <3>1. dropped' = dropped /\ clash' = (clash \/ Holding(NextId) # {})
        BY <2>1 DEF Subscribe
      <3> QED
        BY <3>1
    <2>2. CASE Unsubscribe(s) \/ DropReceiver(s) \/ TryRecv(s)
      <3>1. dropped' = dropped /\ clash' = clash
        BY <2>2 DEF Unsubscribe, DropReceiver, TryRecv
      <3> QED
        BY <3>1
    <2> QED
      BY <1>2, <2>1, <2>2
  <1>3. CASE UNCHANGED hubVars
    BY <1>3 DEF hubVars, HubTypeOK
  <1>4. \A s \in Sessions : dropped[s] \in Nat
    BY DEF HubTypeOK
  <1> QED
    BY <1>1, <1>2, <1>3, <1>4 DEF HubNext

LEMMA NumbersTyped ==
  ASSUME SessionTypeOK, NEW s \in Sessions
  PROVE  /\ observed[s] \in Nat /\ reported[s] \in Nat /\ told[s] \in Nat /\ dropped[s] \in Nat
         /\ Len(diagnostics[s]) \in Nat
         /\ \A i \in 1 .. Len(diagnostics[s]) : diagnostics[s][i] \in Nat
         /\ Len(socket[s]) \in Nat
         /\ \A i \in 1 .. Len(socket[s]) :
              socket[s][i].value \in Nat /\ socket[s][i].event \in {"hello", "frame", "diagnostic"}
  <1>1. /\ observed[s] \in Nat /\ reported[s] \in Nat /\ told[s] \in Nat /\ dropped[s] \in Nat
        /\ diagnostics[s] \in Seq(Nat) /\ socket[s] \in Seq(Messages)
    BY DEF SessionTypeOK, HubTypeOK
  <1>2. \A i \in 1 .. Len(socket[s]) : socket[s][i] \in Messages
    BY <1>1, ElementOfSeq
  <1> QED
    BY <1>1, <1>2, ElementOfSeq, LenProperties DEF Messages

\* More drops make no report of them false.
LEMMA OthersStayHonest ==
  ASSUME SessionTypeOK, NEW t \in Sessions, Untouched(t), Honest(t),
         dropped'[t] \in Nat, dropped[t] <= dropped'[t]
  PROVE  Honest(t)'
  <1>1. /\ dropped[t] \in Nat /\ observed[t] \in Nat /\ reported[t] \in Nat /\ told[t] \in Nat
        /\ \A i \in 1 .. Len(socket[t]) : socket[t][i].value \in Nat
        /\ \A i \in 1 .. Len(diagnostics[t]) : diagnostics[t][i] \in Nat
    BY NumbersTyped
  <1> QED
    BY <1>1 DEF Untouched, Honest, Carries

\* A message that says no more than the drop count may be sent.
LEMMA SendingStaysHonest ==
  ASSUME SessionTypeOK, NEW s \in Sessions, NEW event, NEW value \in Nat,
         Sent(s, event, value) \/ socket'[s] = socket[s],
         event # "frame" => value <= dropped[s],
         Honest(s)
  PROVE  \A i \in 1 .. Len(socket'[s]) : ~Carries(s, i)' => socket'[s][i].value <= dropped[s]
  <1>1. CASE socket'[s] = socket[s]
    BY <1>1 DEF Honest, Carries
  <1>2. CASE Sent(s, event, value)
    <2> SUFFICES ASSUME NEW i \in 1 .. Len(socket'[s]), ~Carries(s, i)'
                 PROVE  socket'[s][i].value <= dropped[s]
      OBVIOUS
    <2>1. Len(socket[s]) \in Nat /\ Len(socket'[s]) = Len(socket[s]) + 1
      BY <1>2, NumbersTyped DEF Sent
    <2>2. CASE i \in 1 .. Len(socket[s])
      BY <1>2, <2>2 DEF Sent, Honest, Carries
    <2>3. CASE i = Len(socket[s]) + 1
      BY <1>2, <2>3 DEF Sent, Carries
    <2> QED
      BY <2>1, <2>2, <2>3
  <1> QED
    BY <1>1, <1>2

LEMMA HandlerStaysHonest ==
  ASSUME HubOK, HubOK', SessionInv, ~clash, NEW s \in Sessions, Honest(s),
         HandlerNext(s)
  PROVE  Honest(s)'
  <1> USE DEF HubOK, HubInv
  <1>1. SessionTypeOK /\ Progress(s)
    BY DEF SessionInv
  <1>2. /\ observed[s] \in Nat /\ reported[s] \in Nat /\ told[s] \in Nat /\ dropped[s] \in Nat
        /\ Len(diagnostics[s]) \in Nat
        /\ \A i \in 1 .. Len(diagnostics[s]) : diagnostics[s][i] \in Nat
    BY <1>1, NumbersTyped
  <1>3. CASE SendHello(s)
    <2>1. /\ UNCHANGED <<hubVars, observed, reported, sent, hand, diagnostics, clientVars>>
          /\ handler'[s] \in {"subscribe", "done"}
          /\ Sent(s, "hello", 0) \/ Sent(s, "diagnostic", 0) \/ socket'[s] = socket[s]
      BY <1>1, <1>3, SendHelloDoes
    <2>2. \A i \in 1 .. Len(socket'[s]) : ~Carries(s, i)' => socket'[s][i].value <= dropped[s]
      <3>1. 0 \in Nat /\ 0 <= dropped[s]
        BY <1>2
      <3>2. CASE Sent(s, "hello", 0)
        BY <1>1, <3>1, <3>2, SendingStaysHonest
      <3>3. CASE Sent(s, "diagnostic", 0)
        BY <1>1, <3>1, <3>3, SendingStaysHonest
      <3>4. CASE socket'[s] = socket[s]
        BY <3>4 DEF Honest, Carries
      <3> QED
        BY <2>1, <3>2, <3>3, <3>4
    <2> QED
      BY <2>1, <2>2 DEF Honest, hubVars, clientVars
  <1>4. CASE CheckDropped(s)
    <2>1. phase[s] = "open"
      BY <1>1, <1>4 DEF Progress, CheckDropped, HandlerAt
    <2>2. DroppedCount(s) = dropped[s]
      BY <2>1, OwnCount
    <2>3. /\ UNCHANGED <<hubVars, reported, hand, socket, clientVars>>
          /\ handler[s] = "check" /\ observed'[s] = dropped[s]
          /\ \/ /\ dropped[s] > reported[s] /\ handler'[s] = "report"
                /\ diagnostics'[s] = Append(diagnostics[s], dropped[s])
             \/ /\ dropped[s] <= reported[s] /\ handler'[s] = "drain"
                /\ diagnostics'[s] = diagnostics[s]
      BY <1>1, <1>4, <2>2, CheckDroppedDoes
    <2>4. CASE handler'[s] = "drain"
      BY <1>2, <2>3, <2>4 DEF Honest, Carries, hubVars, clientVars
    <2>5. CASE handler'[s] = "report"
      <3>1. diagnostics'[s] = Append(diagnostics[s], dropped[s]) /\ reported[s] < dropped[s]
        BY <2>3, <2>5
      <3>2. /\ Len(diagnostics'[s]) = Len(diagnostics[s]) + 1
            /\ \A i \in 1 .. Len(diagnostics[s]) : diagnostics'[s][i] = diagnostics[s][i]
            /\ diagnostics'[s][Len(diagnostics[s]) + 1] = dropped[s]
        <4>1. diagnostics[s] \in Seq(Nat)
          BY <1>1 DEF SessionTypeOK
        <4> QED
          BY <1>2, <3>1, <4>1, AppendProperties
      <3>3. \A i \in 1 .. Len(diagnostics[s]) :
              /\ diagnostics[s][i] < dropped[s]
              /\ \A j \in 1 .. i - 1 : diagnostics[s][j] < diagnostics[s][i]
        <4>1. \A i \in 1 .. Len(diagnostics[s]) :
                /\ diagnostics[s][i] <= reported[s]
                /\ \A j \in 1 .. i - 1 : diagnostics[s][j] < diagnostics[s][i]
          BY <2>3 DEF Honest
        <4> QED
          BY <1>2, <3>1, <4>1
      <3>4. \A i \in 1 .. Len(diagnostics'[s]) :
              /\ diagnostics'[s][i] <= dropped[s]
              /\ \A j \in 1 .. i - 1 : diagnostics'[s][j] < diagnostics'[s][i]
        <4> SUFFICES ASSUME NEW i \in 1 .. Len(diagnostics[s]) + 1
                     PROVE  /\ diagnostics'[s][i] <= dropped[s]
                            /\ \A j \in 1 .. i - 1 : diagnostics'[s][j] < diagnostics'[s][i]
          BY <3>2
        <4>1. CASE i \in 1 .. Len(diagnostics[s])
          <5>1. 1 .. i - 1 \subseteq 1 .. Len(diagnostics[s])
            BY <1>2, <4>1
          <5> QED
            BY <1>2, <3>2, <3>3, <4>1, <5>1
        <4>2. CASE i = Len(diagnostics[s]) + 1
          <5>1. 1 .. i - 1 = 1 .. Len(diagnostics[s])
            BY <1>2, <4>2
          <5> QED
            BY <1>2, <3>2, <3>3, <4>2, <5>1
        <4> QED
          BY <1>2, <4>1, <4>2
      <3> QED
        BY <1>2, <2>3, <2>5, <3>4 DEF Honest, Carries, hubVars, clientVars
    <2> QED
      BY <2>3, <2>4, <2>5
  <1>5. CASE SendDiagnostic(s)
    <2>1. /\ UNCHANGED <<hubVars, observed, sent, hand, diagnostics, clientVars>>
          /\ handler[s] = "report"
          /\ Sent(s, "diagnostic", observed[s]) \/ socket'[s] = socket[s]
          /\ \/ handler'[s] = "drain" /\ reported'[s] = observed[s]
             \/ handler'[s] = "unsubscribe" /\ reported'[s] = reported[s]
      BY <1>1, <1>5, SendDiagnosticDoes
    <2>2. observed[s] <= dropped[s]
      BY DEF Honest
    <2>3. \A i \in 1 .. Len(socket'[s]) : ~Carries(s, i)' => socket'[s][i].value <= dropped[s]
      BY <1>1, <1>2, <2>1, <2>2, SendingStaysHonest
    <2> QED
      BY <1>2, <2>1, <2>3 DEF Honest, hubVars, clientVars
  <1>6. CASE SendFrame(s)
    <2>1. /\ UNCHANGED <<hubVars, observed, reported, diagnostics, clientVars>>
          /\ handler[s] = "send" /\ handler'[s] \in {"check", "drain", "unsubscribe"}
          /\ Sent(s, "frame", hand[s][1].sequence) \/ socket'[s] = socket[s]
          /\ hand[s][1].sequence \in Nat
      BY <1>1, <1>6, SendFrameDoes DEF SequencedFrame
    <2>2. \A i \in 1 .. Len(socket'[s]) : ~Carries(s, i)' => socket'[s][i].value <= dropped[s]
      BY <1>1, <2>1, SendingStaysHonest
    <2> QED
      BY <2>1, <2>2 DEF Honest, hubVars, clientVars
  <1>7. CASE TakeEvent(s)
    <2>1. /\ UNCHANGED <<observed, reported, sent, diagnostics, socket, clientVars>>
          /\ dropped' = dropped /\ handler[s] = "drain" /\ handler'[s] = "send"
      BY <1>1, <1>7, TakeEventDoes DEF TryRecv
    <2> QED
      BY <2>1 DEF Honest, Carries, clientVars
  <1>8. CASE EndDrain(s)
    <2>1. /\ UNCHANGED <<observed, reported, diagnostics, socket, clientVars>>
          /\ dropped' = dropped /\ handler[s] = "drain" /\ handler'[s] = "check"
      BY <1>1, <1>8 DEF EndDrain, HandlerAt, hubVars, SessionTypeOK
    <2> QED
      BY <2>1 DEF Honest, Carries, clientVars
  <1>9. CASE UnsubscribeStream(s) \/ DropSubscription(s)
    <2>1. /\ UNCHANGED <<observed, reported, diagnostics, socket, clientVars>>
          /\ dropped' = dropped /\ handler'[s] \in {"drop", "done"}
      BY <1>1, <1>9 DEF UnsubscribeStream, DropSubscription, HandlerAt, Unsubscribe, DropReceiver,
         SessionTypeOK
    <2> QED
      BY <2>1 DEF Honest, Carries, clientVars
  <1>10. ASSUME NEW o \in Options, SubscribeStream(s, o) PROVE Honest(s)'
    <2>1. /\ UNCHANGED <<observed, reported, diagnostics, socket, clientVars>>
          /\ dropped' = dropped /\ handler'[s] = "check" /\ phase[s] = "new"
      BY <1>1, <1>10 DEF SubscribeStream, HandlerAt, Subscribe, SessionTypeOK
    <2>2. dropped[s] = 0
      BY <2>1 DEF Fresh
    <2>3. \A i \in 1 .. Len(diagnostics[s]) : diagnostics[s][i] <= reported[s]
      BY <1>2, <2>2 DEF Honest
    <2> QED
      BY <2>1, <2>3 DEF Honest, Carries, clientVars
  <1> QED
    BY <1>3, <1>4, <1>5, <1>6, <1>7, <1>8, <1>9, <1>10 DEF HandlerNext

LEMMA ClientStaysHonest ==
  ASSUME HubOK, SessionInv, NEW s \in Sessions, Honest(s),
         ReaderStep(s) \/ Connect(s)
  PROVE  Honest(s)'
  <1>1. SessionTypeOK
    BY DEF SessionInv
  <1>2. /\ Len(socket[s]) \in Nat
        /\ observed[s] \in Nat /\ reported[s] \in Nat /\ told[s] \in Nat /\ dropped[s] \in Nat
    BY <1>1, NumbersTyped
  <1>3. CASE Connect(s)
    <2>1. /\ UNCHANGED <<dropped, observed, reported, diagnostics, socket, told>>
          /\ handler'[s] = "hello"
      BY <1>1, <1>3 DEF Connect, HandlerAt, hubVars, SessionTypeOK
    <2> QED
      BY <2>1 DEF Honest, Carries
  <1>4. CASE ReaderStep(s)
    <2>1. /\ UNCHANGED <<dropped, observed, reported, diagnostics, handler>>
          /\ Idles(s) \/ Ends(s) \/ ReadsHello(s) \/ ReadsFrame(s) \/ ReadsDiagnostic(s)
      BY <1>1, <1>4, ReaderDoes DEF hubVars, handlerVars
    <2>2. told'[s] <= dropped[s]
      <3>1. CASE ReadsDiagnostic(s)
        <4>1. ~Carries(s, 1) /\ 1 \in 1 .. Len(socket[s]) /\ Head(socket[s]) = socket[s][1]
          BY <1>2, <3>1 DEF ReadsDiagnostic, Pending, Carries
        <4>2. Head(socket[s]).value <= dropped[s]
          BY <4>1 DEF Honest
        <4> QED
          BY <3>1, <4>2 DEF ReadsDiagnostic, Honest
      <3>2. CASE told'[s] = told[s]
        BY <3>2 DEF Honest
      <3> QED
        BY <2>1, <3>1, <3>2 DEF Idles, Ends, ReadsHello, ReadsFrame
    <2>3. \A i \in 1 .. Len(socket'[s]) : ~Carries(s, i)' => socket'[s][i].value <= dropped[s]
      <3>1. CASE Taken(s) /\ Pending(s)
        <4>1. \A i \in 1 .. Len(socket'[s]) :
                socket'[s][i] = socket[s][i + 1] /\ i + 1 \in 1 .. Len(socket[s])
          BY <1>2, <3>1 DEF Taken
        <4> QED
          BY <4>1 DEF Honest, Carries
      <3>2. CASE Gone(s)
        <4>1. Len(socket'[s]) = 0
          BY <3>2, EmptySeq DEF Gone
        <4> QED
          BY <4>1
      <3>3. CASE socket'[s] = socket[s]
        BY <3>3 DEF Honest, Carries
      <3> QED
        BY <2>1, <3>1, <3>2, <3>3
        DEF Idles, Ends, ReadsHello, ReadsFrame, ReadsDiagnostic, GoesOn
    <2> QED
      BY <2>1, <2>2, <2>3 DEF Honest
  <1> QED
    BY <1>3, <1>4

LEMMA HonestInvStep ==
  ASSUME HubOK, HubOK', SessionInv, HonestInv, [SessionNext]_sessionVars
  PROVE  HonestInv'
  <1> SUFFICES ASSUME ~clash', NEW t \in Sessions PROVE Honest(t)'
    BY DEF HonestInv
  <1>1. /\ dropped[t] <= dropped'[t] /\ dropped'[t] \in Nat
        /\ clash => clash'
    <2>1. HubTypeOK /\ (HubTypeOK)'
      BY DEF HubOK, HubInv
    <2>2. dropped'[t] \in Nat
      BY <2>1 DEF HubTypeOK
    <2> QED
      BY <2>1, <2>2, SessionStepIsHubStep, DropsGrow
  <1>2. ~clash /\ Honest(t) /\ SessionTypeOK
    BY <1>1 DEF HonestInv, SessionInv
  <1>3. CASE Untouched(t)
    BY <1>1, <1>2, <1>3, OthersStayHonest
  <1>4. ASSUME NEW k \in Keys, PublishFrame(k) PROVE Untouched(t)
    BY <1>4 DEF PublishFrame, Untouched, handlerVars, clientVars
  <1>5. CASE UNCHANGED sessionVars
    BY <1>5, <1>3 DEF sessionVars, Untouched, handlerVars, clientVars
  <1>6. ASSUME NEW s \in Sessions, HandlerNext(s) PROVE Honest(t)'
    <2>1. CASE t = s
      BY <1>2, <1>6, <2>1, HandlerStaysHonest
    <2>2. CASE t # s
      BY <1>2, <1>3, <1>6, <2>2, HandlerOwn
    <2> QED
      BY <2>1, <2>2
  <1>7. ASSUME NEW s \in Sessions, ReaderStep(s) \/ Connect(s) PROVE Honest(t)'
    <2>1. CASE t = s
      BY <1>2, <1>7, <2>1, ClientStaysHonest
    <2>2. CASE t # s
      BY <1>2, <1>3, <1>7, <2>2, ClientOwn
    <2> QED
      BY <2>1, <2>2
  <1> QED
    BY <1>3, <1>4, <1>5, <1>6, <1>7 DEF SessionNext, ReaderNext, ReaderStep

LEMMA HonestInvInit == SessionInit => HonestInv
  <1> SUFFICES ASSUME SessionInit, NEW s \in Sessions PROVE Honest(s)
    BY DEF HonestInv
  <1>1. Len(<<>>) = 0
    BY EmptySeq
  <1>2. /\ observed[s] = 0 /\ reported[s] = 0 /\ told[s] = 0 /\ dropped[s] = 0
        /\ Len(socket[s]) = 0 /\ Len(diagnostics[s]) = 0
    BY <1>1 DEF SessionInit, HubInit
  <1> QED
    BY <1>2 DEF Honest

\* Every drop count that the server reports is one that the subscription has
\* reached, and is reported once, for any number of streams and clients.
THEOREM ReportsAreHonest == SessionSpec => []DiagnosticsHonest
  <1>1. HonestInv => DiagnosticsHonest
    BY DEF HonestInv, Honest, DiagnosticsHonest
  <1>2. SessionSpec => []HonestInv
    BY HubStaysOK, SessionInvAlways, HonestInvInit, HonestInvStep, PTL DEF SessionSpec
  <1> QED
    BY <1>1, <1>2, PTL

-----------------------------------------------------------------------------
(* The order of what was received, is on its way and was read *)

Numbers(events) == {events[i].sequence : i \in 1 .. Len(events)}

Seen(s)    == Numbers(received[s])
Waiting(s) == Numbers(queue[s])
InHand(s)  == Numbers(hand[s])
Reads(s)   == {read[s][i] : i \in 1 .. Len(read[s])}
Carried(s) == {socket[s][i].value : i \in {j \in 1 .. Len(socket[s]) : Carries(s, j)}}

\* As long as the client is there, what its handler has taken from the channel
\* was read, is in the socket or in the handler's hand, in this order.
Ordered(s) ==
  /\ Reads(s) \subseteq Seen(s)
  /\ client[s] # "done" =>
       /\ Seen(s) = Reads(s) \cup Carried(s) \cup InHand(s)
       /\ \A m \in Reads(s), n \in Carried(s) \cup InHand(s) : m < n
       /\ \A m \in Carried(s), n \in InHand(s) : m < n
       /\ \A i, j \in 1 .. Len(socket[s]) :
            i < j /\ Carries(s, i) /\ Carries(s, j) => socket[s][i].value < socket[s][j].value

OrderedInv == \A s \in Sessions : Ordered(s)

\* What waits is behind what was received, and in order.
LEMMA ArrivalOrder ==
  ASSUME HubOK, NEW s \in Sessions
  PROVE  /\ Seen(s) \subseteq Offered(s) /\ Waiting(s) \subseteq Offered(s)
         /\ Offered(s) \subseteq Nat
         /\ \A m \in Seen(s), n \in Waiting(s) : m < n
         /\ \A i, j \in 1 .. Len(queue[s]) : i < j => queue[s][i].sequence < queue[s][j].sequence
  <1> DEFINE r == Len(received[s])
             q == Len(queue[s])
             a == Arrivals(s)
  <1>1. /\ received[s] \in Seq(SequencedFrame) /\ queue[s] \in Seq(SequencedFrame)
        /\ since[s] \in Nat /\ nextSequence \in Nat
    BY DEF HubOK, HubInv, HubTypeOK
  <1>2. r \in Nat /\ q \in Nat
    BY <1>1, LenProperties
  <1>3. /\ Len(a) = r + q
        /\ \A i \in 1 .. r + q : a[i] = IF i <= r THEN received[s][i] ELSE queue[s][i - r]
    BY <1>1, ConcatProperties DEF Arrivals
  <1>4. \A i \in 1 .. r + q :
          /\ a[i].sequence \in Offered(s)
          /\ \A j \in 1 .. i - 1 : a[j].sequence < a[i].sequence
    BY <1>3 DEF HubOK, DeliveryInOrder, InOrder
  <1> HIDE DEF r, q, a
  <1>5. \A i \in 1 .. r : i \in 1 .. r + q /\ a[i] = received[s][i]
    BY <1>2, <1>3
  <1>6. \A i \in 1 .. q : r + i \in 1 .. r + q /\ a[r + i] = queue[s][i]
    BY <1>2, <1>3
  <1>7. Seen(s) \subseteq Offered(s)
    BY <1>4, <1>5 DEF Seen, Numbers, r
  <1>8. Waiting(s) \subseteq Offered(s)
    BY <1>4, <1>6 DEF Waiting, Numbers, q
  <1>9. \A i \in 1 .. r, j \in 1 .. q : received[s][i].sequence < queue[s][j].sequence
    <2> SUFFICES ASSUME NEW i \in 1 .. r, NEW j \in 1 .. q
                 PROVE  received[s][i].sequence < queue[s][j].sequence
      OBVIOUS
    <2>1. i \in 1 .. (r + j) - 1
      BY <1>2
    <2> QED
      BY <1>4, <1>5, <1>6, <2>1
  <1>10. \A i, j \in 1 .. q : i < j => queue[s][i].sequence < queue[s][j].sequence
    <2> SUFFICES ASSUME NEW i \in 1 .. q, NEW j \in 1 .. q, i < j
                 PROVE  queue[s][i].sequence < queue[s][j].sequence
      OBVIOUS
    <2>1. r + i \in 1 .. (r + j) - 1
      BY <1>2
    <2> QED
      BY <1>4, <1>6, <2>1
  <1>11. Offered(s) \subseteq Nat
    BY <1>1 DEF Offered
  <1>12. \A m \in Seen(s), n \in Waiting(s) : m < n
    BY <1>9 DEF Seen, Waiting, Numbers, r, q
  <1> QED
    BY <1>7, <1>8, <1>10, <1>11, <1>12 DEF q

\* try_recv moves the first number that waits to those seen.
LEMMA TakingMoves ==
  ASSUME HubOK, NEW s \in Sessions, TryRecv(s)
  PROVE  LET h == queue[s][1].sequence
         IN  /\ Len(queue[s]) \in Nat /\ Len(queue[s]) >= 1
             /\ Head(queue[s]) = queue[s][1] /\ h \in Waiting(s) /\ h \in Nat
             /\ Len(queue'[s]) = Len(queue[s]) - 1
             /\ \A i \in 1 .. Len(queue[s]) - 1 : queue'[s][i] = queue[s][i + 1]
             /\ Seen(s)' = Seen(s) \cup {h} /\ Seen(s)' \cup Waiting(s)' = Seen(s) \cup Waiting(s)
             /\ \A m \in Seen(s) : m < h
  <1> DEFINE h == queue[s][1].sequence
  <1>1. /\ received[s] \in Seq(SequencedFrame) /\ queue[s] \in Seq(SequencedFrame)
        /\ queue[s] # <<>>
        /\ received'[s] = Append(received[s], Head(queue[s])) /\ queue'[s] = Tail(queue[s])
    BY DEF HubOK, HubInv, HubTypeOK, TryRecv
  <1>2. /\ Head(queue[s]) = queue[s][1] /\ Head(queue[s]) \in SequencedFrame
        /\ Len(Tail(queue[s])) = Len(queue[s]) - 1
        /\ \A i \in 1 .. Len(Tail(queue[s])) : Tail(queue[s])[i] = queue[s][i + 1]
    BY <1>1, HeadTailProperties
  <1>3. Len(queue[s]) \in Nat /\ Len(queue[s]) >= 1 /\ Len(received[s]) \in Nat
    <2>1. Len(queue[s]) # 0
      BY <1>1, EmptySeq
    <2> QED
      BY <1>1, <2>1, LenProperties
  <1>4. /\ Len(queue'[s]) = Len(queue[s]) - 1
        /\ \A i \in 1 .. Len(queue[s]) - 1 : queue'[s][i] = queue[s][i + 1]
    BY <1>1, <1>2
  <1>5. h \in Waiting(s) /\ h \in Nat
    <2>1. 1 \in 1 .. Len(queue[s])
      BY <1>3
    <2> QED
      BY <1>2, <2>1 DEF Waiting, Numbers, SequencedFrame
  <1>6. Seen(s)' = Seen(s) \cup {h}
    <2>1. /\ Len(received'[s]) = Len(received[s]) + 1
          /\ \A i \in 1 .. Len(received[s]) : received'[s][i] = received[s][i]
          /\ received'[s][Len(received[s]) + 1] = queue[s][1]
      BY <1>1, <1>2, AppendProperties
    <2>2. 1 .. Len(received[s]) + 1 = (1 .. Len(received[s])) \cup {Len(received[s]) + 1}
      BY <1>3
    <2> QED
      BY <2>1, <2>2 DEF Seen, Numbers
  <1>7. Waiting(s) = Waiting(s)' \cup {h}
    <2>1. Waiting(s)' = {queue[s][i + 1].sequence : i \in 1 .. Len(queue[s]) - 1}
      BY <1>4 DEF Waiting, Numbers
    <2>2. \A i \in 1 .. Len(queue[s]) - 1 : i + 1 \in 1 .. Len(queue[s])
      BY <1>3
    <2>3. \A i \in 1 .. Len(queue[s]) : i = 1 \/ (i - 1 \in 1 .. Len(queue[s]) - 1 /\ (i - 1) + 1 = i)
      BY <1>3
    <2>4. 1 \in 1 .. Len(queue[s])
      BY <1>3
    <2>5. \A n \in Waiting(s) : n = h \/ n \in Waiting(s)'
      <3> SUFFICES ASSUME NEW i \in 1 .. Len(queue[s])
                   PROVE  queue[s][i].sequence = h \/ queue[s][i].sequence \in Waiting(s)'
        BY DEF Waiting, Numbers
      <3>1. CASE i = 1
        BY <3>1
      <3>2. CASE i - 1 \in 1 .. Len(queue[s]) - 1 /\ (i - 1) + 1 = i
        BY <2>1, <3>2
      <3> QED
        BY <2>3, <3>1, <3>2
    <2>6. Waiting(s)' \subseteq Waiting(s)
      BY <2>1, <2>2 DEF Waiting, Numbers
    <2> QED
      BY <1>5, <2>5, <2>6
  <1>8. \A m \in Seen(s) : m < h
    BY <1>5, ArrivalOrder
  <1> QED
    BY <1>2, <1>3, <1>4, <1>5, <1>6, <1>7, <1>8

\* Sending adds to what is carried, behind all of it.
LEMMA SentCarries ==
  ASSUME SessionTypeOK, NEW s \in Sessions, NEW event, NEW value, Sent(s, event, value)
  PROVE  /\ Len(socket[s]) \in Nat
         /\ \A i \in 1 .. Len(socket[s]) : Carries(s, i)' = Carries(s, i)
         /\ \A i : i = Len(socket[s]) + 1 => (Carries(s, i)' <=> event = "frame")
         /\ Carried(s)' = IF event = "frame" THEN Carried(s) \cup {value} ELSE Carried(s)
         /\ 1 .. Len(socket'[s]) = (1 .. Len(socket[s])) \cup {Len(socket[s]) + 1}
  <1>1. /\ Len(socket[s]) \in Nat /\ Len(socket'[s]) = Len(socket[s]) + 1
        /\ \A i \in 1 .. Len(socket[s]) : socket'[s][i] = socket[s][i]
        /\ socket'[s][Len(socket[s]) + 1] = [event |-> event, value |-> value]
    BY NumbersTyped DEF Sent
  <1>2. 1 .. Len(socket'[s]) = (1 .. Len(socket[s])) \cup {Len(socket[s]) + 1}
    BY <1>1
  <1>3. \A i \in 1 .. Len(socket[s]) : Carries(s, i)' = Carries(s, i)
    BY <1>1 DEF Carries
  <1>4. [event |-> event, value |-> value].event = event /\ [event |-> event, value |-> value].value = value
    OBVIOUS
  <1>5. ASSUME NEW i, i = Len(socket[s]) + 1
        PROVE  (Carries(s, i)' <=> event = "frame") /\ socket'[s][i].value = value
    BY <1>1, <1>4, <1>5 DEF Carries
  <1>6. Carried(s) \subseteq Carried(s)'
    <2> SUFFICES ASSUME NEW i \in 1 .. Len(socket[s]), Carries(s, i)
                 PROVE  socket[s][i].value \in Carried(s)'
      BY DEF Carried
    <2>1. i \in 1 .. Len(socket'[s]) /\ Carries(s, i)' /\ socket'[s][i].value = socket[s][i].value
      BY <1>1, <1>2, <1>3
    <2> QED
      BY <2>1 DEF Carried
  <1>7. event = "frame" => value \in Carried(s)'
    <2> SUFFICES ASSUME event = "frame" PROVE value \in Carried(s)'
      OBVIOUS
    <2>1. PICK i : i = Len(socket[s]) + 1
      OBVIOUS
    <2>2. i \in 1 .. Len(socket'[s]) /\ Carries(s, i)' /\ socket'[s][i].value = value
      BY <1>2, <1>5, <2>1
    <2> QED
      BY <2>2 DEF Carried
  <1>8. \A n \in Carried(s)' : n \in Carried(s) \/ (event = "frame" /\ n = value)
    <2> SUFFICES ASSUME NEW i \in 1 .. Len(socket'[s]), Carries(s, i)'
                 PROVE  socket'[s][i].value \in Carried(s) \/ (event = "frame" /\ socket'[s][i].value = value)
      BY DEF Carried
    <2>1. CASE i \in 1 .. Len(socket[s])
      BY <1>1, <1>3, <2>1 DEF Carried
    <2>2. CASE i = Len(socket[s]) + 1
      BY <1>5, <2>2
    <2> QED
      BY <1>2, <2>1, <2>2
  <1> QED
    BY <1>1, <1>2, <1>3, <1>5, <1>6, <1>7, <1>8

\* Reading takes away the first message.
LEMMA TakenCarries ==
  ASSUME SessionTypeOK, NEW s \in Sessions, Pending(s), Taken(s)
  PROVE  /\ \A i \in 1 .. Len(socket'[s]) :
              /\ i + 1 \in 1 .. Len(socket[s])
              /\ socket'[s][i] = socket[s][i + 1] /\ Carries(s, i)' = Carries(s, i + 1)
         /\ Carries(s, 1) <=> Head(socket[s]).event = "frame"
         /\ Carried(s) = Carried(s)' \cup (IF Carries(s, 1) THEN {Head(socket[s]).value} ELSE {})
         /\ Len(socket'[s]) \in Nat /\ 1 \in 1 .. Len(socket[s])
  <1>1. /\ Len(socket[s]) \in Nat /\ Len(socket[s]) >= 1
        /\ Len(socket'[s]) = Len(socket[s]) - 1
        /\ \A i \in 1 .. Len(socket[s]) - 1 : socket'[s][i] = socket[s][i + 1]
        /\ Head(socket[s]) = socket[s][1]
    BY DEF Pending, Taken
  <1>2. \A i \in 1 .. Len(socket'[s]) : i + 1 \in 1 .. Len(socket[s]) /\ i + 1 # 1
    BY <1>1
  <1>3. \A i \in 1 .. Len(socket'[s]) :
          socket'[s][i] = socket[s][i + 1] /\ Carries(s, i)' = Carries(s, i + 1)
    BY <1>1 DEF Carries
  <1>4. Carries(s, 1) <=> Head(socket[s]).event = "frame"
    BY <1>1 DEF Carries
  <1>5. \A i \in 1 .. Len(socket[s]) : i = 1 \/ (i - 1 \in 1 .. Len(socket'[s]) /\ (i - 1) + 1 = i)
    BY <1>1
  <1>6. 1 \in 1 .. Len(socket[s]) /\ Len(socket'[s]) \in Nat
    BY <1>1
  <1>7. Carried(s)' \subseteq Carried(s)
    BY <1>2, <1>3 DEF Carried
  <1>8. Carries(s, 1) => Head(socket[s]).value \in Carried(s)
    BY <1>1, <1>6 DEF Carried
  <1>9. \A n \in Carried(s) : n \in Carried(s)' \/ (Carries(s, 1) /\ n = Head(socket[s]).value)
    <2> SUFFICES ASSUME NEW i \in 1 .. Len(socket[s]), Carries(s, i)
                 PROVE  \/ socket[s][i].value \in Carried(s)'
                        \/ Carries(s, 1) /\ socket[s][i].value = Head(socket[s]).value
      BY DEF Carried
    <2>1. CASE i = 1
      BY <1>1, <2>1
    <2>2. CASE i - 1 \in 1 .. Len(socket'[s]) /\ (i - 1) + 1 = i
      BY <1>3, <2>2 DEF Carried
    <2> QED
      BY <1>5, <2>1, <2>2
  <1> QED
    BY <1>2, <1>3, <1>4, <1>6, <1>7, <1>8, <1>9

\* Where nothing moves, the order stays.
LEMMA SameOrder ==
  ASSUME NEW t \in Sessions, Ordered(t),
         socket'[t] = socket[t], hand'[t] = hand[t], read'[t] = read[t],
         received'[t] = received[t], client'[t] # "done" => client[t] # "done"
  PROVE  Ordered(t)'
  <1>1. Seen(t)' = Seen(t) /\ InHand(t)' = InHand(t) /\ Reads(t)' = Reads(t)
    BY DEF Seen, Reads, InHand, Numbers
  <1>2. \A i : Carries(t, i)' = Carries(t, i)
    BY DEF Carries
  <1>3. Carried(t)' = Carried(t)
    BY DEF Carried, Carries
  <1> QED
    BY <1>1, <1>2, <1>3 DEF Ordered

\* Of a client that has gone, only what it has read is left.
LEMMA GoneOrder ==
  ASSUME NEW s \in Sessions, Ordered(s), client'[s] = "done",
         read'[s] = read[s], Seen(s) \subseteq Seen(s)'
  PROVE  Ordered(s)'
  <1>1. Reads(s)' = Reads(s) /\ Reads(s) \subseteq Seen(s)
    BY DEF Ordered, Reads
  <1> QED
    BY <1>1 DEF Ordered

LEMMA HandHolds ==
  ASSUME SessionTypeOK, NEW s \in Sessions
  PROVE  /\ handler[s] # "send" => InHand(s) = {}
         /\ handler[s] = "send" => InHand(s) = {hand[s][1].sequence}
  <1>1. Len(hand[s]) = IF handler[s] = "send" THEN 1 ELSE 0
    BY DEF SessionTypeOK
  <1>2. 1 .. 0 = {} /\ 1 .. 1 = {1}
    OBVIOUS
  <1> QED
    BY <1>1, <1>2 DEF InHand, Numbers

LEMMA HandlerKeepsOrder ==
  ASSUME HubOK, SessionInv, SessionTypeOK', NEW s \in Sessions, Ordered(s), HandlerNext(s)
  PROVE  Ordered(s)'
  <1>1. SessionTypeOK /\ HubTypeOK
    BY DEF SessionInv, HubOK, HubInv
  <1>2. ASSUME NEW event \in {"hello", "diagnostic"}, NEW value,
               Sent(s, event, value) \/ (client[s] = "done" /\ socket'[s] = socket[s]),
               UNCHANGED <<received, hand, clientVars>>
        PROVE  Ordered(s)'
    <2>1. /\ hand'[s] = hand[s] /\ read'[s] = read[s] /\ received'[s] = received[s]
          /\ client'[s] = client[s]
      BY <1>2 DEF clientVars
    <2>2. CASE client[s] = "done" /\ socket'[s] = socket[s]
      BY <2>1, <2>2, SameOrder
    <2>3. CASE Sent(s, event, value)
      <3>1. /\ Carried(s)' = Carried(s)
            /\ \A i \in 1 .. Len(socket'[s]) : Carries(s, i)' => i \in 1 .. Len(socket[s]) /\ Carries(s, i)
            /\ \A i \in 1 .. Len(socket[s]) : socket'[s][i] = socket[s][i]
        BY <1>1, <1>2, <2>3, SentCarries DEF Sent
      <3>2. Seen(s)' = Seen(s) /\ Reads(s)' = Reads(s) /\ InHand(s)' = InHand(s)
        BY <2>1 DEF Seen, Reads, InHand, Numbers
      <3> QED
        BY <2>1, <3>1, <3>2 DEF Ordered
    <2> QED
      BY <1>2, <2>2, <2>3
  <1>3. CASE SendHello(s)
    BY <1>1, <1>2, <1>3, SendHelloDoes DEF hubVars
  <1>4. CASE SendDiagnostic(s)
    BY <1>1, <1>2, <1>4, SendDiagnosticDoes DEF hubVars
  <1>5. ASSUME NEW o \in Options, SubscribeStream(s, o) PROVE Ordered(s)'
    BY <1>5, SameOrder DEF SubscribeStream, Subscribe, clientVars
  <1>6. CASE CheckDropped(s)
    BY <1>6, SameOrder DEF CheckDropped, hubVars, clientVars
  <1>7. CASE EndDrain(s)
    BY <1>7, SameOrder DEF EndDrain, hubVars, clientVars
  <1>8. CASE UnsubscribeStream(s)
    BY <1>8, SameOrder DEF UnsubscribeStream, Unsubscribe, clientVars
  <1>9. CASE DropSubscription(s)
    BY <1>9, SameOrder DEF DropSubscription, DropReceiver, clientVars
  <1>10. CASE TakeEvent(s)
    <2> DEFINE h == queue[s][1].sequence
    <2>1. /\ TryRecv(s) /\ UNCHANGED <<socket, clientVars>> /\ handler[s] = "drain"
          /\ handler'[s] = "send" /\ hand'[s][1] = Head(queue[s])
      BY <1>1, <1>10, TakeEventDoes
    <2>2. /\ Head(queue[s]) = queue[s][1] /\ Seen(s)' = Seen(s) \cup {h}
          /\ \A m \in Seen(s) : m < h
      BY <2>1, TakingMoves
    <2>3. InHand(s) = {}
      BY <1>1, <2>1, HandHolds
    <2>4. InHand(s)' = {h}
      <3>1. Len(hand'[s]) = 1 /\ 1 .. 1 = {1}
        BY <1>1, <1>10, TakeEventDoes
      <3> QED
        BY <2>1, <2>2, <3>1 DEF InHand, Numbers
    <2>5. /\ Carried(s)' = Carried(s) /\ Reads(s)' = Reads(s) /\ client' = client
          /\ socket' = socket
      BY <2>1 DEF clientVars, Carried, Carries, Reads
    <2>6. \A i : Carries(s, i)' = Carries(s, i)
      BY <2>5 DEF Carries
    <2> HIDE DEF h
    <2> QED
      BY <2>2, <2>3, <2>4, <2>5, <2>6 DEF Ordered
  <1>11. CASE SendFrame(s)
    <2> DEFINE n == hand[s][1].sequence
    <2>1. /\ UNCHANGED <<hubVars, clientVars>> /\ handler[s] = "send"
          /\ hand'[s] = <<>> /\ Len(hand'[s]) = 0
          /\ \/ Sent(s, "frame", n)
             \/ client[s] = "done" /\ socket'[s] = socket[s]
      BY <1>1, <1>11, SendFrameDoes
    <2>2. InHand(s) = {n}
      BY <1>1, <2>1, HandHolds
    <2>3. InHand(s)' = {}
      <3>1. 1 .. 0 = {}
        OBVIOUS
      <3> QED
        BY <2>1, <3>1 DEF InHand, Numbers
    <2>4. Seen(s)' = Seen(s) /\ Reads(s)' = Reads(s) /\ client' = client /\ read' = read
      BY <2>1 DEF hubVars, clientVars, Seen, Numbers, Reads
    <2>5. CASE client[s] = "done"
      BY <2>4, <2>5, GoneOrder
    <2>6. CASE client[s] # "done"
      <3>1. Sent(s, "frame", n)
        BY <2>1, <2>6
      <3> HIDE DEF n
      <3>2. /\ Carried(s)' = Carried(s) \cup {n}
            /\ Len(socket[s]) \in Nat
            /\ \A i \in 1 .. Len(socket[s]) : socket'[s][i] = socket[s][i] /\ Carries(s, i)' = Carries(s, i)
            /\ 1 .. Len(socket'[s]) = (1 .. Len(socket[s])) \cup {Len(socket[s]) + 1}
        BY <1>1, <3>1, SentCarries DEF Sent
      <3>3. socket'[s][Len(socket[s]) + 1].value = n
        BY <3>1 DEF Sent
      <3>4. ASSUME NEW i \in 1 .. Len(socket'[s]), NEW j \in 1 .. Len(socket'[s]), i < j,
                   Carries(s, i)', Carries(s, j)'
            PROVE  socket'[s][i].value < socket'[s][j].value
        <4>1. i \in 1 .. Len(socket[s]) /\ Carries(s, i)
          BY <3>2, <3>4
        <4>2. CASE j \in 1 .. Len(socket[s])
          BY <2>6, <3>2, <3>4, <4>1, <4>2 DEF Ordered
        <4>3. CASE j = Len(socket[s]) + 1
          <5>1. socket[s][i].value \in Carried(s)
            BY <4>1 DEF Carried
          <5> QED
            BY <2>2, <2>6, <3>2, <3>3, <4>1, <4>3, <5>1 DEF Ordered, n
        <4> QED
          BY <3>2, <4>2, <4>3
      <3> QED
        BY <2>2, <2>3, <2>4, <2>6, <3>2, <3>4 DEF Ordered, n
    <2> QED
      BY <2>5, <2>6
  <1> QED
    BY <1>3, <1>4, <1>5, <1>6, <1>7, <1>8, <1>9, <1>10, <1>11 DEF HandlerNext

LEMMA ReaderKeepsOrder ==
  ASSUME HubOK, SessionInv, NEW s \in Sessions, Ordered(s), ReaderStep(s)
  PROVE  Ordered(s)'
  <1> DEFINE h == Head(socket[s]).value
  <1>1. SessionTypeOK
    BY DEF SessionInv
  <1>2. /\ UNCHANGED <<hubVars, handlerVars>>
        /\ Idles(s) \/ Ends(s) \/ ReadsHello(s) \/ ReadsFrame(s) \/ ReadsDiagnostic(s)
    BY <1>1, ReaderDoes
  <1>3. /\ received' = received /\ hand' = hand /\ Seen(s)' = Seen(s) /\ InHand(s)' = InHand(s)
    BY <1>2 DEF hubVars, handlerVars, Seen, InHand, Numbers
  <1>4. CASE Idles(s)
    BY <1>3, <1>4, SameOrder DEF Idles
  <1>5. CASE Ends(s)
    BY <1>3, <1>5, GoneOrder DEF Ends, Gone
  <1>6. ASSUME Pending(s), GoesOn(s), ~Carries(s, 1), read'[s] = read[s]
        PROVE  Ordered(s)'
    <2>1. /\ Carried(s)' = Carried(s)
          /\ \A i \in 1 .. Len(socket'[s]) :
               /\ i + 1 \in 1 .. Len(socket[s])
               /\ socket'[s][i] = socket[s][i + 1] /\ Carries(s, i)' = Carries(s, i + 1)
      BY <1>1, <1>6, TakenCarries DEF GoesOn
    <2>2. Reads(s)' = Reads(s) /\ client[s] # "done"
      BY <1>6 DEF Reads, GoesOn
    <2>3. \A i, j \in 1 .. Len(socket'[s]) :
            i < j /\ Carries(s, i)' /\ Carries(s, j)' => socket'[s][i].value < socket'[s][j].value
      <3> SUFFICES ASSUME NEW i \in 1 .. Len(socket'[s]), NEW j \in 1 .. Len(socket'[s]), i < j,
                          Carries(s, i)', Carries(s, j)'
                   PROVE  socket'[s][i].value < socket'[s][j].value
        OBVIOUS
      <3>1. i + 1 < j + 1
        OBVIOUS
      <3> QED
        BY <2>1, <2>2, <3>1 DEF Ordered
    <2> QED
      BY <1>3, <2>1, <2>2, <2>3 DEF Ordered
  <1>7. CASE ReadsHello(s)
    <2>1. Pending(s) /\ GoesOn(s) /\ read'[s] = read[s] /\ ~Carries(s, 1)
      BY <1>7 DEF ReadsHello, Carries, Pending
    <2> QED
      BY <1>6, <2>1
  <1>8. CASE ReadsDiagnostic(s)
    <2>1. Pending(s) /\ read'[s] = read[s] /\ ~Carries(s, 1) /\ (GoesOn(s) \/ Gone(s))
      BY <1>8 DEF ReadsDiagnostic, Carries, Pending
    <2>2. CASE GoesOn(s)
      BY <1>6, <2>1, <2>2
    <2>3. CASE Gone(s)
      BY <1>3, <2>1, <2>3, GoneOrder DEF Gone
    <2> QED
      BY <2>1, <2>2, <2>3
  <1>9. CASE ReadsFrame(s)
    <2>1. Pending(s) /\ Carries(s, 1) /\ client[s] # "done" /\ (GoesOn(s) \/ Gone(s))
      BY <1>9 DEF ReadsFrame, Carries, Pending
    <2>2. Reads(s)' = Reads(s) \cup {h}
      <3>1. read[s] \in Seq(Nat) /\ h \in Nat /\ read'[s] = Append(read[s], h)
        BY <1>1, <1>9, <2>1, ReadTypes DEF ReadsFrame, SessionTypeOK
      <3>2. /\ Len(read[s]) \in Nat /\ Len(read'[s]) = Len(read[s]) + 1
            /\ \A i \in 1 .. Len(read[s]) : read'[s][i] = read[s][i]
            /\ read'[s][Len(read[s]) + 1] = h
        BY <3>1, AppendProperties, LenProperties
      <3>3. 1 .. Len(read[s]) + 1 = (1 .. Len(read[s])) \cup {Len(read[s]) + 1}
        BY <3>2
      <3> QED
        BY <3>2, <3>3 DEF Reads
    <2>3. h \in Carried(s) /\ h = socket[s][1].value
      <3>1. 1 \in 1 .. Len(socket[s])
        BY <2>1 DEF Pending
      <3> QED
        BY <2>1, <3>1 DEF Carried, Pending
    <2>4. Reads(s)' \subseteq Seen(s)'
      BY <1>3, <2>1, <2>2, <2>3 DEF Ordered
    <2>5. CASE Gone(s)
      BY <2>4, <2>5 DEF Ordered, Gone
    <2>6. CASE GoesOn(s)
      <3>1. /\ \A i \in 1 .. Len(socket'[s]) :
                 /\ i + 1 \in 1 .. Len(socket[s])
                 /\ socket'[s][i] = socket[s][i + 1] /\ Carries(s, i)' = Carries(s, i + 1)
            /\ Carried(s) = Carried(s)' \cup {h}
            /\ 1 \in 1 .. Len(socket[s])
        BY <1>1, <2>1, <2>6, TakenCarries DEF GoesOn
      <3>2. \A n \in Carried(s)' : h < n
        <4> SUFFICES ASSUME NEW i \in 1 .. Len(socket'[s]), Carries(s, i)'
                     PROVE  h < socket'[s][i].value
          BY DEF Carried
        <4>1. 1 < i + 1
          OBVIOUS
        <4> QED
          BY <2>1, <2>3, <3>1, <4>1 DEF Ordered
      <3>3. \A i, j \in 1 .. Len(socket'[s]) :
              i < j /\ Carries(s, i)' /\ Carries(s, j)' => socket'[s][i].value < socket'[s][j].value
        <4> SUFFICES ASSUME NEW i \in 1 .. Len(socket'[s]), NEW j \in 1 .. Len(socket'[s]), i < j,
                            Carries(s, i)', Carries(s, j)'
                     PROVE  socket'[s][i].value < socket'[s][j].value
          OBVIOUS
        <4>1. i + 1 < j + 1
          OBVIOUS
        <4> QED
          BY <2>1, <3>1, <4>1 DEF Ordered
      <3> HIDE DEF h
      <3>4. /\ Seen(s) = Reads(s) \cup Carried(s) \cup InHand(s)
            /\ \A m \in Reads(s), n \in Carried(s) \cup InHand(s) : m < n
            /\ \A m \in Carried(s), n \in InHand(s) : m < n
        BY <2>1 DEF Ordered
      <3>5. Seen(s)' = Reads(s)' \cup Carried(s)' \cup InHand(s)'
        BY <1>3, <2>2, <3>1, <3>4
      <3>6. \A m \in Reads(s)', n \in Carried(s)' \cup InHand(s)' : m < n
        BY <1>3, <2>2, <2>3, <3>1, <3>2, <3>4
      <3>7. \A m \in Carried(s)', n \in InHand(s)' : m < n
        BY <1>3, <3>1, <3>4
      <3> QED
        BY <2>4, <3>3, <3>5, <3>6, <3>7 DEF Ordered
    <2> QED
      BY <2>1, <2>5, <2>6
  <1> QED
    BY <1>2, <1>4, <1>5, <1>7, <1>8, <1>9

LEMMA OrderedInit == SessionInit => OrderedInv
  <1> SUFFICES ASSUME SessionInit, NEW s \in Sessions PROVE Ordered(s)
    BY DEF OrderedInv
  <1>1. Len(<<>>) = 0 /\ 1 .. 0 = {}
    BY EmptySeq
  <1>2. received[s] = <<>> /\ read[s] = <<>> /\ hand[s] = <<>> /\ socket[s] = <<>>
    BY DEF SessionInit, HubInit
  <1>3. Seen(s) = {} /\ Reads(s) = {} /\ InHand(s) = {} /\ Carried(s) = {}
    BY <1>1, <1>2 DEF Seen, Reads, InHand, Carried, Numbers
  <1>4. 1 .. Len(socket[s]) = {}
    BY <1>1, <1>2
  <1> QED
    BY <1>3, <1>4 DEF Ordered

LEMMA OrderedStep ==
  ASSUME HubOK, SessionInv, SessionTypeOK', OrderedInv, [SessionNext]_sessionVars
  PROVE  OrderedInv'
  <1> SUFFICES ASSUME NEW t \in Sessions PROVE Ordered(t)'
    BY DEF OrderedInv
  <1>1. Ordered(t) /\ SessionTypeOK /\ HubTypeOK
    BY DEF OrderedInv, SessionInv, HubOK, HubInv
  <1>2. CASE UNCHANGED sessionVars
    BY <1>1, <1>2, SameOrder DEF sessionVars, hubVars, handlerVars, clientVars
  <1>3. ASSUME NEW k \in Keys, PublishFrame(k) PROVE Ordered(t)'
    BY <1>1, <1>3, SameOrder DEF PublishFrame, Publish, handlerVars, clientVars
  <1>4. ASSUME NEW s \in Sessions, HandlerNext(s) PROVE Ordered(t)'
    <2>1. CASE s = t
      BY <1>1, <1>4, <2>1, HandlerKeepsOrder
    <2>2. CASE s # t
      BY <1>1, <1>4, <2>2, HandlerOwn, SameOrder DEF Untouched, HubUntouched
    <2> QED
      BY <2>1, <2>2
  <1>5. ASSUME NEW s \in Sessions, ReaderStep(s) \/ Connect(s) PROVE Ordered(t)'
    <2>1. CASE s # t
      BY <1>1, <1>5, <2>1, ClientOwn, SameOrder DEF Untouched, HubUntouched
    <2>2. CASE s = t /\ ReaderStep(s)
      BY <1>1, <2>2, ReaderKeepsOrder
    <2>3. CASE s = t /\ Connect(s)
      BY <1>1, <2>3, SameOrder DEF Connect, hubVars
    <2> QED
      BY <1>5, <2>1, <2>2, <2>3
  <1> QED
    BY <1>2, <1>3, <1>4, <1>5 DEF SessionNext, ReaderNext, ReaderStep

-----------------------------------------------------------------------------
(* What is lost, and when it is told *)

\* The frames before number n that can no longer be received.
Lost(s, n) == {m \in Offered(s) : m < n /\ m \notin Seen(s) /\ m \notin Waiting(s)}
LostBefore(s, n) == Cardinality(Lost(s, n))

\* What the client will have been told when it has read all messages in front
\* of the i-th, is at least v.
Told(s, i, v) ==
  \/ v <= told[s]
  \/ \E j \in 1 .. i - 1 : socket[s][j].event = "diagnostic" /\ v <= socket[s][j].value

\* The losses before a frame on its way are told in front of it, and those
\* before the frame in the handler's hand are reported.
Announced(s) ==
  /\ \A i \in 1 .. Len(socket[s]), n \in Nat :
       Carries(s, i) /\ n = socket[s][i].value => Told(s, i, LostBefore(s, n))
  /\ \A i \in Nat : i = Len(socket[s]) + 1 => Told(s, i, reported[s])
  /\ s \in Captures => told[s] = 0
  /\ \A n \in InHand(s) : LostBefore(s, n) <= reported[s]

\* What is reported by the end of this turn of the loop, and how many frames of
\* the channel the turn can still send.
Basis(s) == IF handler[s] = "report" THEN observed[s] ELSE reported[s]
Room(s)  == options[s].capacity - sent[s] - Len(hand[s])

\* Every loss of an open subscription is counted.
LossCounted(s) ==
  phase[s] = "open" => \A n \in Nat : n = nextSequence => LostBefore(s, n) <= dropped[s]

\* If frames were dropped since the counter was looked at, the turn will end
\* before the channel is empty; and all that it can still send was in the
\* channel before them.
Covered(s) ==
  handler[s] \in {"report", "drain", "send"} =>
    /\ Basis(s) < dropped[s] => Len(queue[s]) >= Room(s)
    /\ \A p \in 1 .. Len(queue[s]), n \in Nat :
         p <= Room(s) /\ n = queue[s][p].sequence => LostBefore(s, n) <= Basis(s)

\* The handler leaves its loop only when the client has gone.
Serving(s) ==
  client[s] # "done" =>
    /\ handler[s] \notin {"unsubscribe", "drop"}
    /\ Announced(s) /\ LossCounted(s) /\ Covered(s)

NoneMissedUntold(s) == Cardinality(Missed(s)) <= told[s]

LossInv == ~clash => \A s \in Sessions : Serving(s) /\ NoneMissedUntold(s)

LEMMA LostFinite ==
  ASSUME HubOK, NEW s \in Sessions
  PROVE  /\ \A n : Lost(s, n) \subseteq Offered(s) /\ IsFiniteSet(Lost(s, n)) /\ LostBefore(s, n) \in Nat
         /\ Missed(s) \subseteq Offered(s) /\ IsFiniteSet(Missed(s)) /\ Cardinality(Missed(s)) \in Nat
  <1>1. IsFiniteSet(Offered(s))
    BY OfferedFinite DEF HubOK
  <1>2. ASSUME NEW n
        PROVE  Lost(s, n) \subseteq Offered(s) /\ IsFiniteSet(Lost(s, n)) /\ LostBefore(s, n) \in Nat
    <2>1. Lost(s, n) \subseteq Offered(s)
      BY DEF Lost
    <2>2. IsFiniteSet(Lost(s, n))
      BY <1>1, <2>1, FS_Subset
    <2> QED
      BY <2>1, <2>2, FS_CardinalityType DEF LostBefore
  <1>3. Missed(s) \subseteq Offered(s)
    BY DEF Missed
  <1>4. IsFiniteSet(Missed(s))
    BY <1>1, <1>3, FS_Subset
  <1> QED
    BY <1>2, <1>3, <1>4, FS_CardinalityType

\* Less is lost before an earlier frame.
LEMMA LessLostBefore ==
  ASSUME HubOK, NEW s \in Sessions, NEW m \in Nat, NEW n \in Nat, m <= n
  PROVE  LostBefore(s, m) <= LostBefore(s, n)
  <1>1. Lost(s, m) \subseteq Lost(s, n)
    <2>1. Offered(s) \subseteq Nat
      BY ArrivalOrder
    <2> QED
      BY <2>1 DEF Lost
  <1>2. IsFiniteSet(Lost(s, n))
    BY LostFinite
  <1> QED
    BY <1>1, <1>2, FS_Subset DEF LostBefore

LEMMA OfferedBounds ==
  ASSUME HubOK, NEW s \in Sessions
  PROVE  nextSequence \in Nat /\ \A m \in Offered(s) : m \in Nat /\ m < nextSequence
  <1>1. since[s] \in Nat /\ nextSequence \in Nat
    BY DEF HubOK, HubInv, HubTypeOK
  <1> QED
    BY <1>1 DEF Offered

\* What a publish does to the channel of a session.
LEMMA PublishWaiting ==
  ASSUME HubOK, NEW k \in Keys, Publish(k), NEW s \in Sessions
  PROVE  /\ received' = received /\ phase' = phase /\ options' = options /\ clash' = clash
         /\ nextSequence' = nextSequence + 1
         /\ Seen(s)' = Seen(s)
         /\ Waiting(s) \subseteq Waiting(s)' /\ Waiting(s)' \subseteq Waiting(s) \cup {nextSequence}
         /\ Offered(s) \subseteq Offered(s)' /\ Offered(s)' \subseteq Offered(s) \cup {nextSequence}
         /\ queue'[s] = queue[s] => Waiting(s)' = Waiting(s)
         /\ queue'[s] # queue[s] =>
              /\ Waiting(s)' = Waiting(s) \cup {nextSequence}
              /\ Len(queue'[s]) = Len(queue[s]) + 1
              /\ \A i \in 1 .. Len(queue[s]) : queue'[s][i] = queue[s][i]
              /\ queue'[s][Len(queue[s]) + 1].sequence = nextSequence
  <1> DEFINE event        == [sequence |-> nextSequence, frame |-> k]
             accepting    == {t \in subscribers : Accepts(t, k)}
             disconnected == {t \in accepting : phase[t] = "closed"}
             fits         == {t \in accepting \ disconnected : HasRoom(t)}
  <1>1. /\ received' = received /\ phase' = phase /\ options' = options /\ clash' = clash
        /\ nextSequence' = nextSequence + 1
    BY DEF Publish
  <1>2. queue'[s] = IF s \in fits THEN Append(queue[s], event) ELSE queue[s]
    BY DEF Publish, Delivered
  <1>3. Seen(s)' = Seen(s)
    BY <1>1 DEF Seen, Numbers
  <1>4. Offered(s) \subseteq Offered(s)' /\ Offered(s)' \subseteq Offered(s) \cup {nextSequence}
    BY OfferedGrows DEF HubOK
  <1>5. event \in SequencedFrame /\ event.sequence = nextSequence /\ queue[s] \in Seq(SequencedFrame)
    BY DEF HubOK, HubInv, HubTypeOK, SequencedFrame
  <1> HIDE DEF event, fits
  <1>6. queue'[s] = queue[s] => Waiting(s)' = Waiting(s)
    BY DEF Waiting, Numbers
  <1>7. ASSUME queue'[s] # queue[s]
        PROVE  /\ Waiting(s)' = Waiting(s) \cup {nextSequence}
               /\ Len(queue'[s]) = Len(queue[s]) + 1
               /\ \A i \in 1 .. Len(queue[s]) : queue'[s][i] = queue[s][i]
               /\ queue'[s][Len(queue[s]) + 1].sequence = nextSequence
    <2>1. queue'[s] = Append(queue[s], event)
      BY <1>2, <1>7
    <2>2. /\ Len(queue[s]) \in Nat /\ Len(queue'[s]) = Len(queue[s]) + 1
          /\ \A i \in 1 .. Len(queue[s]) : queue'[s][i] = queue[s][i]
          /\ queue'[s][Len(queue[s]) + 1] = event
      BY <1>5, <2>1, AppendProperties, LenProperties
    <2>3. 1 .. Len(queue[s]) + 1 = (1 .. Len(queue[s])) \cup {Len(queue[s]) + 1}
      BY <2>2
    <2>4. Waiting(s)' = Waiting(s) \cup {nextSequence}
      BY <1>5, <2>2, <2>3 DEF Waiting, Numbers
    <2> QED
      BY <1>5, <2>2, <2>4
  <1> QED
    BY <1>1, <1>3, <1>4, <1>6, <1>7

\* An open subscription gets the frame, has it counted, or did not ask for it.
LEMMA PublishToOpen ==
  ASSUME HubOK, NEW k \in Keys, Publish(k), NEW s \in Sessions, ~clash, phase[s] = "open"
  PROVE  /\ Len(queue[s]) \in Nat /\ options[s].capacity \in Nat
         /\ \/ /\ queue'[s] = queue[s] /\ dropped'[s] = dropped[s]
               /\ Offered(s)' = Offered(s)
            \/ /\ queue'[s] # queue[s] /\ dropped'[s] = dropped[s]
            \/ /\ queue'[s] = queue[s] /\ dropped'[s] = dropped[s] + 1
               /\ Len(queue[s]) >= options[s].capacity
  <1> DEFINE event        == [sequence |-> nextSequence, frame |-> k]
             accepting    == {t \in subscribers : Accepts(t, k)}
             disconnected == {t \in accepting : phase[t] = "closed"}
             fits         == {t \in accepting \ disconnected : HasRoom(t)}
             full         == accepting \ (disconnected \cup fits)
  <1>1. HubTypeOK /\ s \in subscribers
    BY DEF HubOK, HubInv, OwnEntry
  <1>2. /\ queue'[s] = IF s \in fits THEN Append(queue[s], event) ELSE queue[s]
        /\ dropped'[s] = IF s \in full THEN dropped[s] + 1 ELSE dropped[s]
    BY DEF Publish, Delivered, DropCount
  <1>3. /\ s \in accepting <=> Accepts(s, k)
        /\ s \notin disconnected
    BY <1>1
  <1>4. queue[s] \in Seq(SequencedFrame) /\ Len(queue[s]) \in Nat /\ options[s].capacity \in Nat
    BY <1>1, CapacityOK, LenProperties DEF HubTypeOK
  <1>5. CASE ~Accepts(s, k)
    <2>1. Offered(s)' = Offered(s)
      BY <1>5, OfferedGrows DEF HubOK
    <2> QED
      BY <1>2, <1>3, <1>4, <1>5, <2>1
  <1>6. CASE Accepts(s, k) /\ HasRoom(s)
    <2>1. s \in fits /\ s \notin full
      BY <1>3, <1>6
    <2>2. event \in SequencedFrame
      BY <1>1 DEF HubTypeOK, SequencedFrame
    <2> HIDE DEF event, fits, full
    <2>3. Len(Append(queue[s], event)) = Len(queue[s]) + 1
      BY <1>4, <2>2, AppendProperties
    <2>4. queue'[s] # queue[s]
      BY <1>2, <1>4, <2>1, <2>3
    <2> QED
      BY <1>2, <1>4, <2>1, <2>4
  <1>7. CASE Accepts(s, k) /\ ~HasRoom(s)
    <2>1. s \notin fits /\ s \in full
      BY <1>3, <1>7
    <2> HIDE DEF fits, full
    <2> QED
      BY <1>2, <1>4, <1>7, <2>1 DEF HasRoom
  <1> QED
    BY <1>5, <1>6, <1>7

\* What was lost before a frame stays lost, and no more is lost before it.
LostKept(s, n) == Lost(s, n)' = Lost(s, n) /\ LostBefore(s, n)' = LostBefore(s, n)

LEMMA LostKeptWhen ==
  ASSUME NEW s \in Sessions, NEW n, Lost(s, n)' = Lost(s, n)
  PROVE  LostKept(s, n)
  BY DEF LostKept, LostBefore

LEMMA HubUntouchedKeepsLost ==
  ASSUME NEW s \in Sessions, HubUntouched(s), NEW n
  PROVE  LostKept(s, n)
  <1>1. Offered(s)' = Offered(s) /\ Seen(s)' = Seen(s) /\ Waiting(s)' = Waiting(s)
    BY DEF HubUntouched, Offered, Accepts, Seen, Waiting, Numbers
  <1>2. Lost(s, n)' = Lost(s, n)
    BY <1>1 DEF Lost
  <1> QED
    BY <1>2, LostKeptWhen

LEMMA PublishKeepsLost ==
  ASSUME HubOK, NEW k \in Keys, Publish(k), NEW s \in Sessions, NEW n \in Nat, n <= nextSequence
  PROVE  LostKept(s, n)
  <1>1. nextSequence \in Nat /\ \A m \in Offered(s) : m \in Nat
    BY OfferedBounds
  <1>2. /\ Seen(s)' = Seen(s)
        /\ Waiting(s) \subseteq Waiting(s)' /\ Waiting(s)' \subseteq Waiting(s) \cup {nextSequence}
        /\ Offered(s) \subseteq Offered(s)' /\ Offered(s)' \subseteq Offered(s) \cup {nextSequence}
    BY PublishWaiting
  <1>3. ~(nextSequence < n)
    BY <1>1
  <1>4. Lost(s, n)' = Lost(s, n)
    BY <1>2, <1>3 DEF Lost
  <1> QED
    BY <1>4, LostKeptWhen

LEMMA TakingKeepsLost ==
  ASSUME HubOK, NEW s \in Sessions, TryRecv(s), NEW n
  PROVE  LostKept(s, n)
  <1>1. Seen(s)' \cup Waiting(s)' = Seen(s) \cup Waiting(s)
    BY TakingMoves
  <1>2. Offered(s)' = Offered(s)
    BY DEF TryRecv, Offered, Accepts
  <1>3. Lost(s, n)' = Lost(s, n)
    BY <1>1, <1>2 DEF Lost
  <1> QED
    BY <1>3, LostKeptWhen

LEMMA OfferedMoves ==
  ASSUME HubOK, [HubNext]_hubVars, NEW s \in Sessions
  PROVE  Offered(s)' \subseteq Offered(s) \cup {nextSequence}
  <1>1. HubTypeOK
    BY DEF HubOK, HubInv
  <1>2. ASSUME NEW k \in Keys, Publish(k)
        PROVE  Offered(s)' \subseteq Offered(s) \cup {nextSequence}
    BY <1>2, PublishWaiting
  <1>3. ASSUME NEW t \in Sessions, NEW o \in Options, Subscribe(t, o)
        PROVE  Offered(s)' \subseteq Offered(s) \cup {nextSequence}
    <2>1. CASE t = s
      <3>1. since'[s] = nextSequence /\ nextSequence' = nextSequence /\ nextSequence \in Nat
        BY <1>1, <1>3, <2>1 DEF Subscribe, HubTypeOK
      <3>2. nextSequence .. nextSequence - 1 = {}
        BY <3>1
      <3> QED
        BY <3>1, <3>2 DEF Offered
    <2>2. CASE t # s
      BY <1>1, <1>3, <2>2, HubCallsAreOwn DEF HubUntouched, Offered, Accepts
    <2> QED
      BY <2>1, <2>2
  <1>4. ASSUME NEW t \in Sessions, Unsubscribe(t) \/ DropReceiver(t) \/ TryRecv(t)
        PROVE  Offered(s)' \subseteq Offered(s) \cup {nextSequence}
    <2>1. UNCHANGED <<since, nextSequence, options, frames>>
      BY <1>4 DEF Unsubscribe, DropReceiver, TryRecv
    <2> QED
      BY <2>1 DEF Offered, Accepts
  <1>5. CASE UNCHANGED hubVars
    BY <1>5 DEF hubVars, Offered, Accepts
  <1> QED
    BY <1>2, <1>3, <1>4, <1>5 DEF HubNext

\* Without a frame read, nothing more is missed.
LEMMA MissedKept ==
  ASSUME HubOK, HubOK', SessionTypeOK, SessionTypeOK', NEW s \in Sessions, Ordered(s),
         Offered(s)' \subseteq Offered(s) \cup {nextSequence},
         read'[s] = read[s], told[s] <= told'[s], NoneMissedUntold(s)
  PROVE  NoneMissedUntold(s)'
  <1>1. ASSUME NEW i \in 1 .. Len(read[s]) PROVE read[s][i] \in Nat /\ read[s][i] < nextSequence
    <2>1. read[s][i] \in Seen(s)
      BY DEF Ordered, Reads
    <2> QED
      BY <2>1, ArrivalOrder, OfferedBounds
  <1>2. Missed(s)' \subseteq Missed(s)
    <2> SUFFICES ASSUME NEW m \in Missed(s)' PROVE m \in Missed(s)
      OBVIOUS
    <2>1. /\ m \in Offered(s) \cup {nextSequence}
          /\ \E i \in 1 .. Len(read[s]) : m < read[s][i]
          /\ \A i \in 1 .. Len(read[s]) : m # read[s][i]
      BY DEF Missed
    <2>2. nextSequence \in Nat
      BY OfferedBounds
    <2>3. m # nextSequence
      BY <1>1, <2>1, <2>2
    <2> QED
      BY <2>1, <2>3 DEF Missed
  <1>3. /\ Cardinality(Missed(s)) \in Nat /\ Cardinality(Missed(s))' \in Nat
        /\ Cardinality(Missed(s))' <= Cardinality(Missed(s))
    <2>1. IsFiniteSet(Missed(s)) /\ Cardinality(Missed(s)) \in Nat
      BY LostFinite
    <2>2. Cardinality(Missed(s)') <= Cardinality(Missed(s))
      BY <1>2, <2>1, FS_Subset
    <2>3. IsFiniteSet(Missed(s)')
      BY <1>2, <2>1, FS_Subset
    <2> QED
      BY <2>1, <2>2, <2>3, FS_CardinalityType
  <1>4. told[s] \in Nat /\ told'[s] \in Nat
    BY DEF SessionTypeOK
  <1> QED
    BY <1>3, <1>4 DEF NoneMissedUntold

\* What is missed once the first frame in the socket was read.
LEMMA MissedOnReading ==
  ASSUME HubOK, HubOK', SessionTypeOK, SessionTypeOK', NEW s \in Sessions, Ordered(s),
         Announced(s), UNCHANGED hubVars, ReadsFrame(s)
  PROVE  NoneMissedUntold(s)'
  <1> DEFINE h == Head(socket[s]).value
  <1>1. /\ Pending(s) /\ Carries(s, 1) /\ client[s] # "done" /\ told'[s] = told[s]
        /\ h \in Nat /\ h = socket[s][1].value
        /\ read'[s] = Append(read[s], h)
    BY ReadTypes DEF ReadsFrame, Carries, Pending
  <1>2. 1 \in 1 .. Len(socket[s])
    BY <1>1 DEF Pending
  <1>3. h \in Carried(s)
    BY <1>1, <1>2 DEF Carried
  <1>4. LostBefore(s, h) <= told[s]
    <2>1. Told(s, 1, LostBefore(s, h))
      BY <1>1, <1>2 DEF Announced
    <2>2. 1 .. 1 - 1 = {}
      OBVIOUS
    <2> HIDE DEF h
    <2> QED
      BY <2>1, <2>2 DEF Told
  <1>5. Reads(s)' = Reads(s) \cup {h}
    <2>1. read[s] \in Seq(Nat)
      BY DEF SessionTypeOK
    <2>2. /\ Len(read[s]) \in Nat /\ Len(read'[s]) = Len(read[s]) + 1
          /\ \A i \in 1 .. Len(read[s]) : read'[s][i] = read[s][i]
          /\ read'[s][Len(read[s]) + 1] = h
      BY <1>1, <2>1, AppendProperties, LenProperties
    <2>3. 1 .. Len(read[s]) + 1 = (1 .. Len(read[s])) \cup {Len(read[s]) + 1}
      BY <2>2
    <2> QED
      BY <2>2, <2>3 DEF Reads
  <1>6. Missed(s)' = {n \in Offered(s) : (\E r \in Reads(s)' : n < r) /\ n \notin Reads(s)'}
    <2>1. Offered(s)' = Offered(s)
      BY DEF hubVars, Offered, Accepts
    <2> QED
      BY <2>1 DEF Missed, Reads
  <1> HIDE DEF h
  <1>7. /\ \A r \in Reads(s) : r < h /\ r \in Nat
        /\ \A n \in (Carried(s) \cup InHand(s)) : n = h \/ h < n
        /\ Seen(s) = Reads(s) \cup Carried(s) \cup InHand(s)
        /\ Seen(s) \subseteq Offered(s) /\ Offered(s) \subseteq Nat
    <2>1. /\ Seen(s) \subseteq Offered(s) /\ Offered(s) \subseteq Nat
          /\ Reads(s) \subseteq Seen(s)
          /\ Seen(s) = Reads(s) \cup Carried(s) \cup InHand(s)
          /\ \A m \in Reads(s), n \in Carried(s) \cup InHand(s) : m < n
          /\ \A m \in Carried(s), n \in InHand(s) : m < n
      BY <1>1, ArrivalOrder DEF Ordered
    <2>2. ASSUME NEW n \in Carried(s) PROVE n = h \/ h < n
      <3>1. PICK i \in 1 .. Len(socket[s]) : Carries(s, i) /\ n = socket[s][i].value
        BY DEF Carried
      <3>2. i = 1 \/ 1 < i
        BY <3>1
      <3> QED
        BY <1>1, <1>2, <3>1, <3>2 DEF Ordered
    <2> QED
      BY <1>3, <2>1, <2>2
  <1>8. Missed(s)' \subseteq Lost(s, h)
    <2> SUFFICES ASSUME NEW m \in Offered(s), NEW r \in Reads(s)', m < r, m \notin Reads(s)'
                 PROVE  m \in Lost(s, h)
      BY <1>6
    <2>1. m \in Nat /\ m < h
      BY <1>1, <1>5, <1>7
    <2>2. m \notin Seen(s)
      BY <1>1, <1>5, <1>7, <2>1
    <2>3. m \notin Waiting(s)
      <3>1. h \in Seen(s) /\ Waiting(s) \subseteq Nat
        BY <1>3, <1>7, ArrivalOrder
      <3> QED
        BY <1>1, <2>1, <3>1, ArrivalOrder
    <2> QED
      BY <2>1, <2>2, <2>3 DEF Lost
  <1>9. IsFiniteSet(Lost(s, h))
    BY LostFinite
  <1>10. Cardinality(Missed(s)') <= LostBefore(s, h) /\ Cardinality(Missed(s)') \in Nat
    <2>1. IsFiniteSet(Missed(s)')
      BY <1>8, <1>9, FS_Subset
    <2> QED
      BY <1>8, <1>9, <2>1, FS_Subset, FS_CardinalityType DEF LostBefore
  <1>11. told[s] \in Nat /\ LostBefore(s, h) \in Nat
    BY LostFinite DEF SessionTypeOK
  <1> QED
    BY <1>1, <1>4, <1>10, <1>11 DEF NoneMissedUntold

-----------------------------------------------------------------------------
(* Losses under a step of the session *)

\* All numbers on their way are of frames published.
LEMMA OnTheWay ==
  ASSUME HubOK, NEW s \in Sessions, Ordered(s), client[s] # "done"
  PROVE  \A n \in Carried(s) \cup InHand(s) : n \in Nat /\ n <= nextSequence
  <1>1. Carried(s) \cup InHand(s) \subseteq Offered(s)
    BY ArrivalOrder DEF Ordered
  <1> QED
    BY <1>1, OfferedBounds

\* Told, after the step.
ToldNext(s, i, v) ==
  \/ v <= told'[s]
  \/ \E j \in 1 .. i - 1 : socket'[s][j].event = "diagnostic" /\ v <= socket'[s][j].value

LEMMA AnnouncedNext ==
  ASSUME NEW s \in Sessions,
         \A i \in 1 .. Len(socket'[s]), n \in Nat :
           Carries(s, i)' /\ n = socket'[s][i].value => ToldNext(s, i, LostBefore(s, n)'),
         \A i \in Nat : i = Len(socket'[s]) + 1 => ToldNext(s, i, reported'[s]),
         s \in Captures => told'[s] = 0,
         \A n \in InHand(s)' : LostBefore(s, n)' <= reported'[s]
  PROVE  Announced(s)'
  BY DEF Announced, Told, ToldNext

LEMMA AnnouncedKept ==
  ASSUME HubOK, NEW s \in Sessions, Ordered(s), client[s] # "done", Announced(s),
         socket'[s] = socket[s], told'[s] = told[s], reported'[s] = reported[s],
         hand'[s] = hand[s], \A n \in Nat : n <= nextSequence => LostKept(s, n)
  PROVE  Announced(s)'
  <1>1. /\ InHand(s)' = InHand(s)
        /\ \A i : Carries(s, i)' = Carries(s, i)
    BY DEF InHand, Numbers, Carries
  <1>2. \A i, v : ToldNext(s, i, v) <=> Told(s, i, v)
    BY DEF Told, ToldNext
  <1>3. ASSUME NEW i \in 1 .. Len(socket'[s]), NEW n \in Nat, Carries(s, i)', n = socket'[s][i].value
        PROVE  ToldNext(s, i, LostBefore(s, n)')
    <2>1. i \in 1 .. Len(socket[s]) /\ Carries(s, i) /\ n = socket[s][i].value
      BY <1>1, <1>3
    <2>2. Told(s, i, LostBefore(s, n))
      BY <2>1 DEF Announced
    <2>3. n \in Carried(s)
      BY <2>1 DEF Carried
    <2>4. LostBefore(s, n)' = LostBefore(s, n)
      BY <2>3, OnTheWay DEF LostKept
    <2> QED
      BY <1>2, <2>2, <2>4
  <1>4. ASSUME NEW n \in InHand(s) PROVE LostBefore(s, n)' <= reported[s]
    BY <1>4, OnTheWay DEF LostKept, Announced
  <1>5. \A i \in Nat : i = Len(socket'[s]) + 1 => ToldNext(s, i, reported'[s])
    BY <1>2 DEF Announced
  <1>6. s \in Captures => told'[s] = 0
    BY DEF Announced
  <1> QED
    BY <1>1, <1>3, <1>4, <1>5, <1>6, AnnouncedNext

\* A message that is not a frame leaves what is told in front of the others.
LEMMA SendingTells ==
  ASSUME SessionTypeOK, HubOK, NEW s \in Sessions, Ordered(s), Announced(s), client[s] # "done",
         NEW event \in {"hello", "diagnostic"}, NEW value \in Nat, Sent(s, event, value),
         told'[s] = told[s], hand'[s] = hand[s], \A n \in Nat : n <= nextSequence => LostKept(s, n),
         \/ reported'[s] = reported[s]
         \/ event = "diagnostic" /\ reported'[s] = value /\ InHand(s) = {}
  PROVE  Announced(s)'
  <1>1. /\ Len(socket[s]) \in Nat /\ Len(socket'[s]) = Len(socket[s]) + 1
        /\ \A i \in 1 .. Len(socket[s]) : socket'[s][i] = socket[s][i] /\ Carries(s, i)' = Carries(s, i)
        /\ \A i \in 1 .. Len(socket'[s]) : Carries(s, i)' => i \in 1 .. Len(socket[s])
        /\ socket'[s][Len(socket[s]) + 1] = [event |-> event, value |-> value]
    BY SentCarries DEF Sent
  <1>2. ASSUME NEW i \in 1 .. Len(socket[s]) + 2, NEW v, i <= Len(socket[s]) + 1, Told(s, i, v)
        PROVE  ToldNext(s, i, v) /\ ToldNext(s, i + 1, v)
    <2>1. CASE v <= told[s]
      BY <2>1 DEF ToldNext
    <2>2. ASSUME NEW j \in 1 .. i - 1, socket[s][j].event = "diagnostic", v <= socket[s][j].value
          PROVE  ToldNext(s, i, v) /\ ToldNext(s, i + 1, v)
      <3>1. j \in 1 .. Len(socket[s]) /\ j \in 1 .. (i + 1) - 1
        BY <1>1, <1>2
      <3>2. socket'[s][j] = socket[s][j]
        BY <1>1, <3>1
      <3> QED
        BY <2>2, <3>1, <3>2 DEF ToldNext
    <2> QED
      BY <1>2, <2>1, <2>2 DEF Told
  <1>3. ASSUME NEW i \in 1 .. Len(socket'[s]), NEW n \in Nat, Carries(s, i)', n = socket'[s][i].value
        PROVE  ToldNext(s, i, LostBefore(s, n)')
    <2>1. i \in 1 .. Len(socket[s]) /\ Carries(s, i) /\ n = socket[s][i].value
      BY <1>1, <1>3
    <2>2. Told(s, i, LostBefore(s, n))
      BY <2>1 DEF Announced
    <2>3. n \in Carried(s)
      BY <2>1 DEF Carried
    <2>4. LostBefore(s, n)' = LostBefore(s, n)
      BY <2>3, OnTheWay DEF LostKept
    <2>5. i \in 1 .. Len(socket[s]) + 2 /\ i <= Len(socket[s]) + 1
      BY <1>1, <2>1
    <2> QED
      BY <1>2, <2>2, <2>4, <2>5
  <1>4. ASSUME NEW i \in Nat, i = Len(socket'[s]) + 1 PROVE ToldNext(s, i, reported'[s])
    <2>1. CASE reported'[s] = reported[s]
      <3>1. PICK j \in Nat : j = Len(socket[s]) + 1
        BY <1>1
      <3>2. Told(s, j, reported[s]) /\ j \in 1 .. Len(socket[s]) + 2 /\ j <= Len(socket[s]) + 1
        BY <1>1, <3>1 DEF Announced
      <3> QED
        BY <1>1, <1>2, <1>4, <2>1, <3>1, <3>2
    <2>2. CASE event = "diagnostic" /\ reported'[s] = value
      <3>1. Len(socket[s]) + 1 \in 1 .. i - 1
        BY <1>1, <1>4
      <3>2. [event |-> event, value |-> value].event = event /\ [event |-> event, value |-> value].value = value
        OBVIOUS
      <3> QED
        BY <1>1, <2>2, <3>1, <3>2 DEF ToldNext
    <2> QED
      BY <2>1, <2>2
  <1>5. ASSUME NEW n \in InHand(s)' PROVE LostBefore(s, n)' <= reported'[s]
    <2>1. InHand(s)' = InHand(s)
      BY DEF InHand, Numbers
    <2>2. reported'[s] = reported[s] /\ n \in InHand(s)
      BY <1>5, <2>1
    <2> QED
      BY <2>2, OnTheWay DEF LostKept, Announced
  <1>6. s \in Captures => told'[s] = 0
    BY DEF Announced
  <1> QED
    BY <1>3, <1>4, <1>5, <1>6, AnnouncedNext

\* Nor does reading one that is not a frame, or one that is.
LEMMA ReadingTells ==
  ASSUME SessionTypeOK, SessionTypeOK', HubOK, NEW s \in Sessions, Ordered(s), Announced(s),
         Pending(s), GoesOn(s), UNCHANGED <<hubVars, handlerVars>>, told[s] <= told'[s],
         s \in Captures => told'[s] = told[s],
         Head(socket[s]).event = "diagnostic" => Head(socket[s]).value <= told'[s]
  PROVE  Announced(s)'
  <1>1. /\ \A i \in 1 .. Len(socket'[s]) :
             /\ i + 1 \in 1 .. Len(socket[s])
             /\ socket'[s][i] = socket[s][i + 1] /\ Carries(s, i)' = Carries(s, i + 1)
        /\ Len(socket'[s]) \in Nat /\ Len(socket[s]) \in Nat
        /\ Len(socket'[s]) = Len(socket[s]) - 1
        /\ Head(socket[s]) = socket[s][1] /\ Head(socket[s]).value \in Nat
        /\ client[s] # "done"
    BY TakenCarries, ReadTypes DEF GoesOn, Taken, Pending
  <1>2. told[s] \in Nat /\ told'[s] \in Nat
    BY DEF SessionTypeOK
  <1>3. \A n \in Nat : LostKept(s, n)
    <2>1. HubUntouched(s)
      BY DEF hubVars, HubUntouched
    <2> QED
      BY <2>1, HubUntouchedKeepsLost
  <1>4. ASSUME NEW i \in Nat, NEW v \in Nat, i <= Len(socket'[s]) + 1, Told(s, i + 1, v)
        PROVE  ToldNext(s, i, v)
    <2>1. CASE v <= told[s]
      BY <1>2, <2>1 DEF ToldNext
    <2>2. ASSUME NEW j \in 1 .. (i + 1) - 1, socket[s][j].event = "diagnostic", v <= socket[s][j].value
          PROVE  ToldNext(s, i, v)
      <3>1. CASE j = 1
        BY <1>1, <1>2, <2>2, <3>1 DEF ToldNext
      <3>2. CASE j # 1
        <4>1. j - 1 \in 1 .. i - 1 /\ j - 1 \in 1 .. Len(socket'[s]) /\ (j - 1) + 1 = j
          BY <1>1, <1>4, <3>2
        <4>2. socket'[s][j - 1] = socket[s][j]
          BY <1>1, <4>1
        <4> QED
          BY <2>2, <4>1, <4>2 DEF ToldNext
      <3> QED
        BY <3>1, <3>2
    <2> QED
      BY <1>4, <2>1, <2>2 DEF Told
  <1>5. ASSUME NEW i \in 1 .. Len(socket'[s]), NEW n \in Nat, Carries(s, i)', n = socket'[s][i].value
        PROVE  ToldNext(s, i, LostBefore(s, n)')
    <2>1. i + 1 \in 1 .. Len(socket[s]) /\ Carries(s, i + 1) /\ n = socket[s][i + 1].value
      BY <1>1, <1>5
    <2>2. Told(s, i + 1, LostBefore(s, n))
      BY <2>1 DEF Announced
    <2>3. LostBefore(s, n)' = LostBefore(s, n) /\ LostBefore(s, n) \in Nat
      BY <1>3, LostFinite DEF LostKept
    <2>4. i \in Nat /\ i <= Len(socket'[s]) + 1
      BY <1>1
    <2> QED
      BY <1>4, <2>2, <2>3, <2>4
  <1>6. /\ InHand(s)' = InHand(s) /\ reported'[s] = reported[s] /\ reported[s] \in Nat
    BY DEF InHand, Numbers, handlerVars, SessionTypeOK
  <1>7. ASSUME NEW i \in Nat, i = Len(socket'[s]) + 1 PROVE ToldNext(s, i, reported'[s])
    <2>1. i + 1 \in Nat /\ i + 1 = Len(socket[s]) + 1 /\ i <= Len(socket'[s]) + 1
      BY <1>1, <1>7
    <2>2. Told(s, i + 1, reported[s])
      BY <2>1 DEF Announced
    <2> QED
      BY <1>4, <1>6, <2>1, <2>2
  <1>8. ASSUME NEW n \in InHand(s)' PROVE LostBefore(s, n)' <= reported'[s]
    BY <1>1, <1>3, <1>6, <1>8, OnTheWay DEF LostKept, Announced
  <1>9. s \in Captures => told'[s] = 0
    BY DEF Announced
  <1> QED
    BY <1>5, <1>7, <1>8, <1>9, AnnouncedNext

LEMMA LossCountedKept ==
  ASSUME NEW s \in Sessions, HubUntouched(s), LossCounted(s)
  PROVE  LossCounted(s)'
  <1>1. \A n \in Nat : LostBefore(s, n)' = LostBefore(s, n)
    BY HubUntouchedKeepsLost DEF LostKept
  <1>2. phase'[s] = phase[s] /\ nextSequence' = nextSequence /\ dropped'[s] = dropped[s]
    BY DEF HubUntouched
  <1> QED
    BY <1>1, <1>2 DEF LossCounted

LEMMA CoveredKept ==
  ASSUME NEW s \in Sessions, HubUntouched(s), Covered(s),
         handler'[s] = handler[s], observed'[s] = observed[s], reported'[s] = reported[s],
         sent'[s] = sent[s], hand'[s] = hand[s]
  PROVE  Covered(s)'
  <1>1. \A n \in Nat : LostBefore(s, n)' = LostBefore(s, n)
    BY HubUntouchedKeepsLost DEF LostKept
  <1>2. Basis(s)' = Basis(s) /\ Room(s)' = Room(s)
    BY DEF Basis, Room, HubUntouched
  <1>3. dropped'[s] = dropped[s] /\ queue'[s] = queue[s]
    BY DEF HubUntouched
  <1> QED
    BY <1>1, <1>2, <1>3 DEF Covered

LEMMA ServingKept ==
  ASSUME HubOK, NEW s \in Sessions, Untouched(s), HubUntouched(s), Ordered(s), Serving(s)
  PROVE  Serving(s)'
  <1> SUFFICES ASSUME client'[s] # "done"
               PROVE  /\ handler'[s] \notin {"unsubscribe", "drop"}
                      /\ Announced(s)' /\ LossCounted(s)' /\ Covered(s)'
    BY DEF Serving
  <1>1. /\ client[s] # "done" /\ handler'[s] \notin {"unsubscribe", "drop"}
        /\ Announced(s) /\ LossCounted(s) /\ Covered(s)
    BY DEF Serving, Untouched
  <1>2. \A n \in Nat : LostKept(s, n)
    BY HubUntouchedKeepsLost
  <1>3. Announced(s)'
    BY <1>1, <1>2, AnnouncedKept DEF Untouched
  <1>4. LossCounted(s)'
    BY <1>1, LossCountedKept
  <1>5. Covered(s)'
    BY <1>1, CoveredKept DEF Untouched
  <1> QED
    BY <1>1, <1>3, <1>4, <1>5

\* Numbers of a session that its turn is reckoned with.
LEMMA TurnNumbers ==
  ASSUME SessionTypeOK, NEW s \in Sessions
  PROVE  /\ Len(queue[s]) \in Nat /\ dropped[s] \in Nat /\ Basis(s) \in Nat
         /\ options[s].capacity \in Nat /\ sent[s] \in Nat /\ Len(hand[s]) \in Nat
         /\ Room(s) \in Int /\ Room(s) <= options[s].capacity
         /\ \A p \in 1 .. Len(queue[s]) : queue[s][p].sequence \in Nat
  <1>1. /\ HubTypeOK /\ queue[s] \in Seq(SequencedFrame) /\ hand[s] \in Seq(SequencedFrame)
        /\ dropped[s] \in Nat /\ observed[s] \in Nat /\ reported[s] \in Nat /\ sent[s] \in Nat
    BY DEF SessionTypeOK, HubTypeOK
  <1>2. Len(queue[s]) \in Nat /\ Len(hand[s]) \in Nat /\ options[s].capacity \in Nat
    BY <1>1, LenProperties, CapacityOK
  <1>3. \A p \in 1 .. Len(queue[s]) : queue[s][p].sequence \in Nat
    <2>1. \A p \in 1 .. Len(queue[s]) : queue[s][p] \in SequencedFrame
      BY <1>1, ElementOfSeq
    <2> QED
      BY <2>1 DEF SequencedFrame
  <1>4. Basis(s) \in Nat
    BY <1>1 DEF Basis
  <1> QED
    BY <1>1, <1>2, <1>3, <1>4 DEF Room

LEMMA PublishKeepsLossCounted ==
  ASSUME HubOK, HubOK', NEW k \in Keys, Publish(k), NEW s \in Sessions, ~clash, LossCounted(s)
  PROVE  LossCounted(s)'
  <1> SUFFICES ASSUME phase[s] = "open", NEW n \in Nat, n = nextSequence + 1
               PROVE  LostBefore(s, n)' <= dropped'[s]
    BY PublishWaiting DEF LossCounted
  <1> DEFINE N == nextSequence
  <1>1. N \in Nat /\ \A m \in Offered(s) : m \in Nat /\ m < N
    BY OfferedBounds
  <1>2. IsFiniteSet(Lost(s, N)) /\ LostBefore(s, N) \in Nat /\ LostBefore(s, N) <= dropped[s]
    BY <1>1, LostFinite DEF LossCounted
  <1>3. dropped[s] \in Nat
    BY DEF HubOK, HubInv, HubTypeOK
  <1>4. /\ Seen(s)' = Seen(s)
        /\ Waiting(s) \subseteq Waiting(s)' /\ Waiting(s)' \subseteq Waiting(s) \cup {N}
        /\ Offered(s)' \subseteq Offered(s) \cup {N}
        /\ queue'[s] # queue[s] => N \in Waiting(s)'
    BY PublishWaiting
  <1>5. IsFiniteSet(Lost(s, n)') /\ LostBefore(s, n)' = Cardinality(Lost(s, n)')
    <2>1. IsFiniteSet(Offered(s)')
      <3>1. IsFiniteSet(Offered(s) \cup {N})
        BY OfferedFinite, FS_AddElement DEF HubOK
      <3> QED
        BY <1>4, <3>1, FS_Subset
    <2>2. Lost(s, n)' \subseteq Offered(s)'
      BY DEF Lost
    <2> QED
      BY <2>1, <2>2, FS_Subset DEF LostBefore
  <1>6. CASE dropped'[s] = dropped[s] /\ (queue'[s] # queue[s] \/ Offered(s)' = Offered(s))
    <2>1. Lost(s, n)' \subseteq Lost(s, N)
      <3> SUFFICES ASSUME NEW m \in Offered(s)', m \notin Seen(s)', m \notin Waiting(s)'
                   PROVE  m \in Lost(s, N)
        BY DEF Lost
      <3>1. m \in Offered(s)
        BY <1>4, <1>6
      <3> QED
        BY <1>1, <1>4, <3>1 DEF Lost
    <2>2. Cardinality(Lost(s, n)') <= Cardinality(Lost(s, N)) /\ Cardinality(Lost(s, n)') \in Nat
      BY <1>2, <1>5, <2>1, FS_Subset, FS_CardinalityType
    <2> QED
      BY <1>2, <1>3, <1>5, <1>6, <2>2 DEF LostBefore
  <1>7. CASE dropped'[s] = dropped[s] + 1
    <2>1. Lost(s, n)' \subseteq Lost(s, N) \cup {N}
      <3> SUFFICES ASSUME NEW m \in Offered(s)', m \notin Seen(s)', m \notin Waiting(s)'
                   PROVE  m \in Lost(s, N) \cup {N}
        BY DEF Lost
      <3> QED
        BY <1>1, <1>4 DEF Lost
    <2>2. N \notin Lost(s, N)
      BY <1>1 DEF Lost
    <2>3. /\ IsFiniteSet(Lost(s, N) \cup {N})
          /\ Cardinality(Lost(s, N) \cup {N}) = Cardinality(Lost(s, N)) + 1
      BY <1>2, <2>2, FS_AddElement
    <2>4. /\ Cardinality(Lost(s, n)') <= Cardinality(Lost(s, N)) + 1
          /\ Cardinality(Lost(s, n)') \in Nat
      <3>1. Cardinality(Lost(s, n)') <= Cardinality(Lost(s, N) \cup {N})
        BY <2>1, <2>3, FS_Subset
      <3> QED
        BY <1>5, <2>3, <3>1, FS_CardinalityType
    <2> QED
      BY <1>2, <1>3, <1>5, <1>7, <2>4 DEF LostBefore
  <1> QED
    BY <1>6, <1>7, PublishToOpen

LEMMA PublishKeepsCovered ==
  ASSUME HubOK, HubOK', SessionInv, NEW k \in Keys, Publish(k), NEW s \in Sessions, ~clash,
         Untouched(s), LossCounted(s), Covered(s)
  PROVE  Covered(s)'
  <1>1. SessionTypeOK /\ Progress(s)
    BY DEF SessionInv
  <1> SUFFICES ASSUME handler[s] \in {"report", "drain", "send"}
               PROVE  Covered(s)'
    BY DEF Covered, Untouched
  <1>2. phase[s] = "open"
    BY <1>1 DEF Progress
  <1>3. /\ Len(queue[s]) \in Nat /\ dropped[s] \in Nat /\ Basis(s) \in Nat
        /\ options[s].capacity \in Nat /\ Room(s) \in Int /\ Room(s) <= options[s].capacity
        /\ \A p \in 1 .. Len(queue[s]) : queue[s][p].sequence \in Nat
    BY <1>1, TurnNumbers
  <1>4. Basis(s)' = Basis(s) /\ Room(s)' = Room(s)
    BY PublishWaiting DEF Basis, Room, Untouched
  <1>5. /\ Basis(s) < dropped[s] => Len(queue[s]) >= Room(s)
        /\ \A p \in 1 .. Len(queue[s]), n \in Nat :
             p <= Room(s) /\ n = queue[s][p].sequence => LostBefore(s, n) <= Basis(s)
    BY DEF Covered
  <1>6. nextSequence \in Nat /\ LostBefore(s, nextSequence) <= dropped[s] /\ LostBefore(s, nextSequence) \in Nat
    BY <1>2, OfferedBounds, LostFinite DEF LossCounted
  <1>7. \A n \in Nat : n <= nextSequence => LostBefore(s, n)' = LostBefore(s, n)
    BY PublishKeepsLost DEF LostKept
  <1>8. \A p \in 1 .. Len(queue[s]) : queue[s][p].sequence <= nextSequence
    <2> SUFFICES ASSUME NEW p \in 1 .. Len(queue[s]) PROVE queue[s][p].sequence <= nextSequence
      OBVIOUS
    <2>1. queue[s][p].sequence \in Waiting(s)
      BY DEF Waiting, Numbers
    <2> QED
      BY <1>6, <2>1, ArrivalOrder, OfferedBounds
  <1>9. Basis(s) < dropped'[s] => Len(queue'[s]) >= Room(s)
    BY <1>2, <1>3, <1>5, PublishToOpen, PublishWaiting
  <1>10. ASSUME NEW p \in 1 .. Len(queue'[s]), NEW n \in Nat, p <= Room(s), n = queue'[s][p].sequence
         PROVE  LostBefore(s, n)' <= Basis(s)
    <2>1. CASE p \in 1 .. Len(queue[s])
      <3>1. queue'[s][p] = queue[s][p]
        BY <2>1, PublishWaiting
      <3> QED
        BY <1>5, <1>7, <1>8, <1>10, <2>1, <3>1
    <2>2. CASE p \notin 1 .. Len(queue[s])
      <3>1. queue'[s] # queue[s]
        BY <1>10, <2>2
      <3>2. p = Len(queue[s]) + 1 /\ n = nextSequence
        BY <1>3, <1>10, <2>2, <3>1, PublishWaiting
      <3>3. dropped[s] <= Basis(s)
        BY <1>3, <1>5, <1>10, <3>2
      <3> QED
        BY <1>3, <1>6, <1>7, <3>2, <3>3
    <2> QED
      BY <2>1, <2>2
  <1> QED
    BY <1>4, <1>9, <1>10 DEF Covered

LEMMA PublishKeepsServing ==
  ASSUME HubOK, HubOK', SessionInv, NEW k \in Keys, PublishFrame(k), NEW s \in Sessions, ~clash,
         Ordered(s), Serving(s)
  PROVE  Serving(s)'
  <1>1. Publish(k) /\ Untouched(s)
    BY DEF PublishFrame, Untouched, handlerVars, clientVars
  <1> SUFFICES ASSUME client'[s] # "done"
               PROVE  /\ handler'[s] \notin {"unsubscribe", "drop"}
                      /\ Announced(s)' /\ LossCounted(s)' /\ Covered(s)'
    BY DEF Serving
  <1>2. /\ client[s] # "done" /\ handler'[s] \notin {"unsubscribe", "drop"}
        /\ Announced(s) /\ LossCounted(s) /\ Covered(s)
    BY <1>1 DEF Serving, Untouched
  <1>3. Announced(s)'
    BY <1>1, <1>2, PublishKeepsLost, AnnouncedKept DEF Untouched
  <1> QED
    BY <1>1, <1>2, <1>3, PublishKeepsLossCounted, PublishKeepsCovered

\* What Serving asks for while the client is there.
Accounted(s) ==
  /\ handler[s] \notin {"unsubscribe", "drop"}
  /\ Announced(s) /\ LossCounted(s) /\ Covered(s)

LEMMA ServingSplit ==
  ASSUME NEW s \in Sessions
  PROVE  Serving(s) <=> (client[s] # "done" => Accounted(s))
  BY DEF Serving, Accounted

\* Before there is a subscription nothing is on its way.
LEMMA SubscribingAccounts ==
  ASSUME HubOK, HubOK', SessionTypeOK, NEW s \in Sessions, NEW o \in Options, SubscribeStream(s, o),
         Ordered(s), client[s] # "done", Accounted(s)
  PROVE  Accounted(s)'
  <1>1. HubTypeOK /\ Fresh
    BY DEF HubOK, HubInv
  <1>2. /\ UNCHANGED <<observed, reported, sent, hand, socket, clientVars>>
        /\ handler'[s] = "check" /\ phase[s] = "new"
        /\ since'[s] = nextSequence /\ nextSequence' = nextSequence /\ nextSequence \in Nat
    BY <1>1 DEF SubscribeStream, Subscribe, HandlerAt, SessionTypeOK, HubTypeOK
  <1>3. Carried(s) = {} /\ InHand(s) = {}
    <2>1. received[s] = <<>> /\ Len(<<>>) = 0 /\ 1 .. 0 = {}
      BY <1>1, <1>2, EmptySeq DEF Fresh
    <2>2. Seen(s) = {}
      BY <2>1 DEF Seen, Numbers
    <2> QED
      BY <2>2 DEF Ordered
  <1>4. \A n \in Nat : LostBefore(s, n)' = 0
    <2>1. nextSequence .. nextSequence - 1 = {}
      BY <1>2
    <2>2. Offered(s)' = {}
      BY <1>2, <2>1 DEF Offered
    <2> QED
      BY <2>2, FS_EmptySet DEF LostBefore, Lost
  <1>5. Announced(s)'
    <2>1. ASSUME NEW i \in 1 .. Len(socket'[s]), Carries(s, i)' PROVE FALSE
      <3>1. i \in 1 .. Len(socket[s]) /\ Carries(s, i)
        BY <1>2, <2>1 DEF Carries
      <3> QED
        BY <1>3, <3>1 DEF Carried
    <2>2. InHand(s)' = {}
      BY <1>2, <1>3 DEF InHand, Numbers
    <2>3. \A i \in Nat : i = Len(socket'[s]) + 1 => ToldNext(s, i, reported'[s])
      BY <1>2 DEF Accounted, Announced, Told, ToldNext, clientVars
    <2>4. s \in Captures => told'[s] = 0
      BY <1>2 DEF Accounted, Announced, clientVars
    <2> QED
      BY <2>1, <2>2, <2>3, <2>4, AnnouncedNext
  <1>6. LossCounted(s)'
    <2>1. dropped'[s] \in Nat
      BY DEF HubOK, HubInv, HubTypeOK
    <2> QED
      BY <1>4, <2>1 DEF LossCounted
  <1> QED
    BY <1>2, <1>5, <1>6 DEF Accounted, Covered

\* A look at the drop count: all that waits is in front of what it counts.
LEMMA CheckingAccounts ==
  ASSUME HubOK, SessionInv, ~clash, NEW s \in Sessions, CheckDropped(s),
         Ordered(s), client[s] # "done", Accounted(s)
  PROVE  Accounted(s)'
  <1>1. SessionTypeOK /\ phase[s] = "open"
    BY DEF SessionInv, Progress, CheckDropped, HandlerAt
  <1>2. /\ UNCHANGED <<hubVars, reported, hand, socket, clientVars>>
        /\ observed'[s] = dropped[s]
        /\ \/ handler'[s] = "report"
           \/ handler'[s] = "drain" /\ dropped[s] <= reported[s]
    BY <1>1, CheckDroppedDoes, OwnCount
  <1>3. HubUntouched(s) /\ \A n \in Nat : LostKept(s, n)
    <2>1. HubUntouched(s)
      BY <1>2 DEF HubUntouched, hubVars
    <2> QED
      BY <2>1, HubUntouchedKeepsLost
  <1>4. Announced(s)'
    BY <1>2, <1>3, AnnouncedKept DEF Accounted, clientVars
  <1>5. LossCounted(s)'
    BY <1>3, LossCountedKept DEF Accounted
  <1>6. Covered(s)'
    <2>1. Basis(s)' \in Nat /\ dropped[s] \in Nat /\ dropped[s] <= Basis(s)'
      BY <1>1, <1>2 DEF Basis, SessionTypeOK, HubTypeOK
    <2>2. ASSUME NEW p \in 1 .. Len(queue[s]), NEW n \in Nat, n = queue[s][p].sequence
          PROVE  LostBefore(s, n) \in Nat /\ LostBefore(s, n) <= dropped[s]
      <3>1. n \in Waiting(s)
        BY <2>2 DEF Waiting, Numbers
      <3>2. nextSequence \in Nat /\ n <= nextSequence
        BY <3>1, ArrivalOrder, OfferedBounds
      <3>3. LostBefore(s, n) <= LostBefore(s, nextSequence)
        BY <3>2, LessLostBefore
      <3>4. LostBefore(s, nextSequence) <= dropped[s]
        BY <1>1, <3>2 DEF Accounted, LossCounted
      <3> QED
        BY <2>1, <3>3, <3>4, LostFinite
    <2>3. queue'[s] = queue[s] /\ dropped'[s] = dropped[s]
      BY <1>3 DEF HubUntouched
    <2>4. ~(Basis(s)' < dropped'[s])
      BY <2>1, <2>3
    <2>5. ASSUME NEW p \in 1 .. Len(queue'[s]), NEW n \in Nat, n = queue'[s][p].sequence
          PROVE  LostBefore(s, n)' <= Basis(s)'
      <3>1. LostBefore(s, n)' = LostBefore(s, n)
        BY <1>3 DEF LostKept
      <3>2. LostBefore(s, n) \in Nat /\ LostBefore(s, n) <= dropped[s]
        BY <2>2, <2>3, <2>5
      <3> QED
        BY <2>1, <3>1, <3>2
    <2> QED
      BY <2>4, <2>5 DEF Covered
  <1> QED
    BY <1>2, <1>4, <1>5, <1>6 DEF Accounted

\* The diagnostic goes out before any frame that the loss is in front of.
LEMMA ReportingAccounts ==
  ASSUME HubOK, SessionInv, NEW s \in Sessions, SendDiagnostic(s),
         Ordered(s), client[s] # "done", Accounted(s)
  PROVE  Accounted(s)'
  <1>1. SessionTypeOK
    BY DEF SessionInv
  <1>2. /\ UNCHANGED <<hubVars, observed, sent, hand, diagnostics, clientVars>>
        /\ handler[s] = "report" /\ handler'[s] = "drain" /\ reported'[s] = observed[s]
        /\ Sent(s, "diagnostic", observed[s]) /\ observed[s] \in Nat
    BY <1>1, SendDiagnosticDoes DEF SessionTypeOK
  <1>3. HubUntouched(s) /\ \A n \in Nat : LostKept(s, n)
    <2>1. HubUntouched(s)
      BY <1>2 DEF HubUntouched, hubVars
    <2> QED
      BY <2>1, HubUntouchedKeepsLost
  <1>4. Announced(s)'
    <2>1. InHand(s) = {}
      BY <1>1, <1>2, HandHolds
    <2>2. told'[s] = told[s] /\ hand'[s] = hand[s]
      BY <1>2 DEF clientVars
    <2> QED
      BY <1>1, <1>2, <1>3, <2>1, <2>2, SendingTells DEF Accounted
  <1>5. LossCounted(s)'
    BY <1>3, LossCountedKept DEF Accounted
  <1>6. Covered(s)'
    <2>1. Basis(s)' = Basis(s) /\ Room(s)' = Room(s)
      BY <1>2 DEF Basis, Room, hubVars
    <2>2. queue'[s] = queue[s] /\ dropped'[s] = dropped[s]
      BY <1>3 DEF HubUntouched
    <2> QED
      BY <1>2, <1>3, <2>1, <2>2 DEF Accounted, Covered, LostKept
  <1> QED
    BY <1>2, <1>4, <1>5, <1>6 DEF Accounted

\* The first event of the channel comes into the hand: what was lost before it
\* is reported.
LEMMA TakingAccounts ==
  ASSUME HubOK, SessionInv, SessionTypeOK', NEW s \in Sessions, TakeEvent(s),
         Ordered(s), client[s] # "done", Accounted(s)
  PROVE  Accounted(s)'
  <1> DEFINE h == queue[s][1].sequence
  <1>1. SessionTypeOK /\ Progress(s)
    BY DEF SessionInv
  <1>2. /\ UNCHANGED <<observed, reported, sent, diagnostics, socket, clientVars>>
        /\ TryRecv(s) /\ handler[s] = "drain" /\ handler'[s] = "send"
        /\ Len(hand'[s]) = 1 /\ hand'[s][1] = Head(queue[s])
    BY <1>1, TakeEventDoes
  <1>3. /\ Len(queue[s]) \in Nat /\ Len(queue[s]) >= 1
        /\ Head(queue[s]) = queue[s][1] /\ h \in Nat
        /\ Len(queue'[s]) = Len(queue[s]) - 1
        /\ \A i \in 1 .. Len(queue[s]) - 1 : queue'[s][i] = queue[s][i + 1]
    BY <1>2, TakingMoves
  <1>4. \A n \in Nat : LostKept(s, n)
    BY <1>2, TakingKeepsLost
  <1>5. /\ dropped'[s] = dropped[s] /\ options'[s] = options[s] /\ phase'[s] = phase[s]
        /\ nextSequence' = nextSequence
    BY <1>2 DEF TryRecv
  <1>6. Len(hand[s]) = 0
    BY <1>1, <1>2 DEF SessionTypeOK
  <1>7. Room(s) \in Int /\ Room(s) >= 1 /\ Room(s)' = Room(s) - 1 /\ Basis(s)' = Basis(s) /\ Basis(s) = reported[s]
    <2>1. options[s].capacity \in Nat /\ sent[s] \in Nat /\ sent[s] < options[s].capacity
      BY <1>1, <1>2, TurnNumbers DEF Progress
    <2>2. Room(s) = options[s].capacity - sent[s] - 0
      BY <1>6 DEF Room
    <2>3. Room(s)' = options[s].capacity - sent[s] - 1
      BY <1>2, <1>5 DEF Room
    <2>4. Basis(s)' = Basis(s) /\ Basis(s) = reported[s]
      BY <1>2 DEF Basis
    <2> QED
      BY <2>1, <2>2, <2>3, <2>4
  <1>8. /\ Basis(s) < dropped[s] => Len(queue[s]) >= Room(s)
        /\ \A p \in 1 .. Len(queue[s]), n \in Nat :
             p <= Room(s) /\ n = queue[s][p].sequence => LostBefore(s, n) <= Basis(s)
    BY <1>2 DEF Accounted, Covered
  <1>9. InHand(s) = {} /\ InHand(s)' = {h}
    <2>1. InHand(s) = {}
      BY <1>1, <1>2, HandHolds
    <2>2. 1 .. 1 = {1}
      OBVIOUS
    <2> QED
      BY <1>2, <1>3, <2>1, <2>2 DEF InHand, Numbers
  <1>10. \A n \in Nat : n = h => LostBefore(s, n)' <= reported[s]
    <2>1. 1 \in 1 .. Len(queue[s])
      BY <1>3
    <2>2. LostBefore(s, h) <= reported[s]
      BY <1>3, <1>7, <1>8, <2>1
    <2> QED
      BY <1>3, <1>4, <2>2 DEF LostKept
  <1> HIDE DEF h
  <1>11. Announced(s)'
    <2>1. \A i : Carries(s, i)' = Carries(s, i)
      BY <1>2 DEF Carries
    <2>2. \A i, v : ToldNext(s, i, v) <=> Told(s, i, v)
      BY <1>2 DEF Told, ToldNext, clientVars
    <2>3. ASSUME NEW i \in 1 .. Len(socket'[s]), NEW n \in Nat, Carries(s, i)', n = socket'[s][i].value
          PROVE  ToldNext(s, i, LostBefore(s, n)')
      <3>1. Told(s, i, LostBefore(s, n))
        BY <1>2, <2>1, <2>3 DEF Accounted, Announced
      <3> QED
        BY <1>4, <2>2, <3>1 DEF LostKept
    <2>4. \A i \in Nat : i = Len(socket'[s]) + 1 => ToldNext(s, i, reported'[s])
      BY <1>2, <2>2 DEF Accounted, Announced
    <2>5. \A n \in InHand(s)' : LostBefore(s, n)' <= reported'[s]
      BY <1>2, <1>3, <1>9, <1>10
    <2>6. s \in Captures => told'[s] = 0
      BY <1>2 DEF Accounted, Announced, clientVars
    <2> QED
      BY <2>3, <2>4, <2>5, <2>6, AnnouncedNext
  <1>12. LossCounted(s)'
    BY <1>4, <1>5 DEF Accounted, LossCounted, LostKept
  <1>13. Covered(s)'
    <2>1. Basis(s) < dropped[s] => Len(queue'[s]) >= Room(s) - 1
      BY <1>3, <1>7, <1>8
    <2>2. ASSUME NEW p \in 1 .. Len(queue'[s]), NEW n \in Nat, p <= Room(s) - 1, n = queue'[s][p].sequence
          PROVE  LostBefore(s, n)' <= Basis(s)
      <3>1. p \in 1 .. Len(queue[s]) - 1 /\ p + 1 \in 1 .. Len(queue[s]) /\ p + 1 <= Room(s)
        BY <1>3, <1>7, <2>2
      <3>2. n = queue[s][p + 1].sequence
        BY <1>3, <2>2, <3>1
      <3>3. LostBefore(s, n) <= Basis(s)
        BY <1>8, <3>1, <3>2
      <3> QED
        BY <1>4, <3>3 DEF LostKept
    <2> QED
      BY <1>5, <1>7, <2>1, <2>2 DEF Covered
  <1> QED
    BY <1>2, <1>11, <1>12, <1>13 DEF Accounted

\* The frame in the hand is sent behind the report of what was lost before it.
LEMMA FrameSentTells ==
  ASSUME SessionTypeOK, HubOK, NEW s \in Sessions, Ordered(s), Announced(s), client[s] # "done",
         NEW value \in Nat, Sent(s, "frame", value), InHand(s) = {value}, InHand(s)' = {},
         told'[s] = told[s], reported'[s] = reported[s], \A n \in Nat : LostKept(s, n)
  PROVE  Announced(s)'
  <1>1. /\ Len(socket[s]) \in Nat /\ Len(socket'[s]) = Len(socket[s]) + 1
        /\ \A i \in 1 .. Len(socket[s]) : socket'[s][i] = socket[s][i] /\ Carries(s, i)' = Carries(s, i)
        /\ 1 .. Len(socket'[s]) = (1 .. Len(socket[s])) \cup {Len(socket[s]) + 1}
        /\ socket'[s][Len(socket[s]) + 1] = [event |-> "frame", value |-> value]
    BY SentCarries DEF Sent
  <1>2. reported[s] \in Nat /\ told[s] \in Nat
    BY DEF SessionTypeOK
  <1>3. ASSUME NEW i \in Nat, NEW k \in Nat, NEW v, i <= k, k <= Len(socket[s]) + 2,
               i <= Len(socket[s]) + 1, Told(s, i, v)
        PROVE  ToldNext(s, k, v)
    <2>1. CASE v <= told[s]
      BY <2>1 DEF ToldNext
    <2>2. ASSUME NEW j \in 1 .. i - 1, socket[s][j].event = "diagnostic", v <= socket[s][j].value
          PROVE  ToldNext(s, k, v)
      <3>1. j \in 1 .. Len(socket[s]) /\ j \in 1 .. k - 1
        BY <1>1, <1>3
      <3>2. socket'[s][j] = socket[s][j]
        BY <1>1, <3>1
      <3> QED
        BY <2>2, <3>1, <3>2 DEF ToldNext
    <2> QED
      BY <1>3, <2>1, <2>2 DEF Told
  <1>4. ASSUME NEW i \in Nat, i = Len(socket[s]) + 1
        PROVE  Told(s, i, reported[s])
    BY <1>4 DEF Announced
  <1>5. ASSUME NEW i \in 1 .. Len(socket'[s]), NEW n \in Nat, Carries(s, i)', n = socket'[s][i].value
        PROVE  ToldNext(s, i, LostBefore(s, n)')
    <2>1. LostBefore(s, n)' = LostBefore(s, n) /\ LostBefore(s, n) \in Nat
      BY LostFinite DEF LostKept
    <2>2. CASE i \in 1 .. Len(socket[s])
      <3>1. Told(s, i, LostBefore(s, n))
        BY <1>1, <1>5, <2>2 DEF Announced
      <3>2. i \in Nat /\ i <= i /\ i <= Len(socket[s]) + 2 /\ i <= Len(socket[s]) + 1
        BY <1>1, <2>2
      <3>3. ToldNext(s, i, LostBefore(s, n))
        BY <1>3, <3>1, <3>2
      <3> QED
        BY <2>1, <3>3
    <2>3. CASE i = Len(socket[s]) + 1
      <3>1. n = value
        BY <1>1, <1>5, <2>3
      <3>2. LostBefore(s, n) <= reported[s]
        BY <3>1 DEF Announced
      <3>3. i \in Nat /\ i <= i /\ i <= Len(socket[s]) + 2 /\ i <= Len(socket[s]) + 1
        BY <1>1, <2>3
      <3>4. ToldNext(s, i, reported[s])
        BY <1>3, <1>4, <2>3, <3>3
      <3>5. ToldNext(s, i, LostBefore(s, n))
        <4>1. CASE reported[s] <= told'[s]
          BY <1>2, <2>1, <3>2, <4>1 DEF ToldNext
        <4>2. ASSUME NEW j \in 1 .. i - 1, socket'[s][j].event = "diagnostic", reported[s] <= socket'[s][j].value
              PROVE  ToldNext(s, i, LostBefore(s, n))
          <5>1. j \in 1 .. Len(socket[s]) /\ socket'[s][j] = socket[s][j]
            BY <1>1, <2>3
          <5>2. socket'[s][j].value \in Nat
            <6>1. socket[s] \in Seq(Messages)
              BY DEF SessionTypeOK
            <6>2. socket[s][j] \in Messages
              BY <5>1, <6>1, ElementOfSeq
            <6> QED
              BY <5>1, <6>2 DEF Messages
          <5> QED
            BY <1>2, <2>1, <3>2, <4>2, <5>2 DEF ToldNext
        <4> QED
          BY <3>4, <4>1, <4>2 DEF ToldNext
      <3> QED
        BY <2>1, <3>5
    <2> QED
      BY <1>1, <1>5, <2>2, <2>3
  <1>6. ASSUME NEW i \in Nat, i = Len(socket'[s]) + 1 PROVE ToldNext(s, i, reported'[s])
    <2>1. PICK j \in Nat : j = Len(socket[s]) + 1
      BY <1>1
    <2>2. Told(s, j, reported[s])
      BY <1>4, <2>1
    <2>3. j <= i /\ i <= Len(socket[s]) + 2 /\ j <= Len(socket[s]) + 1
      BY <1>1, <1>6, <2>1
    <2>4. ToldNext(s, i, reported[s])
      BY <1>3, <1>6, <2>2, <2>3
    <2> QED
      BY <2>4
  <1>7. s \in Captures => told'[s] = 0
    BY DEF Announced
  <1> QED
    BY <1>5, <1>6, <1>7, AnnouncedNext

LEMMA SendingAccounts ==
  ASSUME HubOK, SessionInv, SessionTypeOK', NEW s \in Sessions, SendFrame(s),
         Ordered(s), client[s] # "done", Accounted(s)
  PROVE  Accounted(s)'
  <1>1. SessionTypeOK
    BY DEF SessionInv
  <1>2. /\ UNCHANGED <<hubVars, observed, reported, diagnostics, clientVars>>
        /\ handler[s] = "send" /\ Len(hand[s]) = 1 /\ hand[s][1] \in SequencedFrame
        /\ Len(hand'[s]) = 0
        /\ handler'[s] = "check" \/ handler'[s] = "drain"
        /\ sent'[s] = sent[s] + 1
        /\ Sent(s, "frame", hand[s][1].sequence)
    BY <1>1, SendFrameDoes
  <1>3. HubUntouched(s) /\ \A n \in Nat : LostKept(s, n)
    <2>1. HubUntouched(s)
      BY <1>2 DEF HubUntouched, hubVars
    <2> QED
      BY <2>1, HubUntouchedKeepsLost
  <1>4. Announced(s)'
    <2>1. hand[s][1].sequence \in Nat
      BY <1>2 DEF SequencedFrame
    <2>2. InHand(s) = {hand[s][1].sequence}
      BY <1>1, <1>2, HandHolds
    <2>3. InHand(s)' = {}
      <3>1. 1 .. 0 = {}
        OBVIOUS
      <3> QED
        BY <1>2, <3>1 DEF InHand, Numbers
    <2>4. told'[s] = told[s] /\ reported'[s] = reported[s]
      BY <1>2 DEF clientVars
    <2> QED
      BY <1>1, <1>2, <1>3, <2>1, <2>2, <2>3, <2>4, FrameSentTells DEF Accounted
  <1>5. LossCounted(s)'
    BY <1>3, LossCountedKept DEF Accounted
  <1>6. Covered(s)'
    <2>1. Room(s)' = Room(s)
      <3>1. options[s].capacity \in Nat /\ sent[s] \in Nat /\ options'[s] = options[s]
        BY <1>1, <1>3, TurnNumbers DEF HubUntouched
      <3> QED
        BY <1>2, <3>1 DEF Room
    <2>2. Basis(s)' = Basis(s)
      BY <1>2 DEF Basis
    <2>3. queue'[s] = queue[s] /\ dropped'[s] = dropped[s]
      BY <1>3 DEF HubUntouched
    <2> QED
      BY <1>2, <1>3, <2>1, <2>2, <2>3 DEF Accounted, Covered, LostKept
  <1> QED
    BY <1>2, <1>4, <1>5, <1>6 DEF Accounted

LEMMA HandlerKeepsServing ==
  ASSUME HubOK, HubOK', SessionInv, SessionTypeOK', ~clash, NEW s \in Sessions,
         Ordered(s), Serving(s), HandlerNext(s)
  PROVE  Serving(s)'
  <1>1. client' = client /\ told' = told
    BY DEF HandlerNext, SendHello, SubscribeStream, CheckDropped, SendDiagnostic, TakeEvent,
       EndDrain, SendFrame, UnsubscribeStream, DropSubscription, clientVars
  <1> SUFFICES ASSUME client[s] # "done" PROVE Accounted(s)'
    BY <1>1 DEF Serving, Accounted
  <1>2. Accounted(s) /\ SessionTypeOK
    BY DEF Serving, Accounted, SessionInv
  <1>3. CASE SendHello(s)
    <2>1. /\ UNCHANGED <<hubVars, observed, reported, sent, hand, diagnostics, clientVars>>
          /\ handler'[s] \in {"subscribe", "done"}
          /\ Sent(s, "hello", 0) \/ Sent(s, "diagnostic", 0)
      BY <1>2, <1>3, SendHelloDoes
    <2>2. HubUntouched(s) /\ \A n \in Nat : LostKept(s, n)
      <3>1. HubUntouched(s)
        BY <2>1 DEF HubUntouched, hubVars
      <3> QED
        BY <3>1, HubUntouchedKeepsLost
    <2>3. Announced(s)'
      <3>1. told'[s] = told[s] /\ hand'[s] = hand[s] /\ reported'[s] = reported[s]
        BY <2>1 DEF clientVars
      <3> QED
        BY <1>2, <2>1, <2>2, <3>1, SendingTells DEF Accounted
    <2>4. LossCounted(s)'
      BY <1>2, <2>2, LossCountedKept DEF Accounted
    <2> QED
      BY <2>1, <2>3, <2>4 DEF Accounted, Covered
  <1>4. CASE EndDrain(s)
    <2>1. /\ UNCHANGED <<hubVars, observed, reported, sent, hand, diagnostics, socket, clientVars>>
          /\ handler'[s] = "check"
      BY <1>2, <1>4 DEF EndDrain, HandlerAt, SessionTypeOK
    <2>2. HubUntouched(s) /\ \A n \in Nat : LostKept(s, n)
      <3>1. HubUntouched(s)
        BY <2>1 DEF HubUntouched, hubVars
      <3> QED
        BY <3>1, HubUntouchedKeepsLost
    <2>3. Announced(s)'
      BY <1>2, <2>1, <2>2, AnnouncedKept DEF Accounted, clientVars
    <2>4. LossCounted(s)'
      BY <1>2, <2>2, LossCountedKept DEF Accounted
    <2> QED
      BY <2>1, <2>3, <2>4 DEF Accounted, Covered
  <1>5. CASE UnsubscribeStream(s) \/ DropSubscription(s)
    BY <1>2, <1>5 DEF Accounted, UnsubscribeStream, DropSubscription, HandlerAt
  <1> QED
    BY <1>2, <1>3, <1>4, <1>5, SubscribingAccounts, CheckingAccounts, ReportingAccounts,
       TakingAccounts, SendingAccounts DEF HandlerNext

\* A capture that reads a diagnostic fails.
LEMMA CapturesFail ==
  ASSUME SessionTypeOK, NEW s \in Captures, ReaderStep(s), ReadsDiagnostic(s), client'[s] # "done"
  PROVE  FALSE
  <1>1. s \in Sessions /\ s \notin Monitors
    BY SessionAssumption DEF Monitors
  <1>2. client \in [Sessions -> ClientSteps] /\ Pending(s)
    BY DEF SessionTypeOK, ReadsDiagnostic
  <1>3. Taken(s) /\ Len(socket'[s]) # Len(socket[s])
    BY <1>2 DEF ReadsDiagnostic, GoesOn, Gone, Taken, Pending
  <1>4. CaptureReads(s)
    BY <1>1, <1>2, <1>3 DEF ReaderStep, TestDeadline, MonitorReads, ReadFails, DeadlinePasses,
       PeerCloses, ClientKilled, Finish, Fail, Hangs
  <1>5. Head(socket[s]).event = "diagnostic"
    BY DEF ReadsDiagnostic
  <1>6. Fail(s)
    BY <1>4, <1>5 DEF CaptureReads
  <1> QED
    BY <1>1, <1>2, <1>6 DEF Fail, Hangs

LEMMA ReaderKeepsServing ==
  ASSUME HubOK, SessionTypeOK, SessionTypeOK', NEW s \in Sessions,
         Ordered(s), Serving(s), ReaderStep(s) \/ Connect(s)
  PROVE  Serving(s)'
  <1> SUFFICES ASSUME client'[s] # "done" PROVE Accounted(s)'
    BY DEF Serving, Accounted
  <1>1. UNCHANGED <<hubVars, observed, reported, sent, hand, diagnostics>>
    BY ReaderDoes DEF Connect, handlerVars
  <1>2. HubUntouched(s) /\ \A n \in Nat : LostKept(s, n)
    <2>1. HubUntouched(s)
      BY <1>1 DEF HubUntouched, hubVars
    <2> QED
      BY <2>1, HubUntouchedKeepsLost
  <1>3. CASE Connect(s)
    <2>1. /\ client[s] # "done" /\ handler'[s] = "hello" /\ socket' = socket /\ told' = told
      BY <1>3 DEF Connect, HandlerAt, SessionTypeOK
    <2>2. Announced(s)'
      BY <1>1, <1>2, <2>1, AnnouncedKept DEF Serving
    <2>3. LossCounted(s)'
      BY <1>2, <2>1, LossCountedKept DEF Serving
    <2> QED
      BY <2>1, <2>2, <2>3 DEF Accounted, Covered
  <1>4. CASE ReaderStep(s)
    <2>1. /\ UNCHANGED <<hubVars, handlerVars>>
          /\ Idles(s) \/ Ends(s) \/ ReadsHello(s) \/ ReadsFrame(s) \/ ReadsDiagnostic(s)
      BY <1>4, ReaderDoes
    <2>2. ~Gone(s) /\ client[s] # "done"
      BY <2>1 DEF Gone, Idles, Ends, ReadsHello, ReadsFrame, ReadsDiagnostic, GoesOn
    <2>3. Announced(s) /\ LossCounted(s) /\ Covered(s) /\ handler[s] \notin {"unsubscribe", "drop"}
      BY <2>2 DEF Serving
    <2>4. LossCounted(s)'
      BY <1>2, <2>3, LossCountedKept
    <2>5. Covered(s)'
      BY <1>2, <2>1, <2>3, CoveredKept DEF handlerVars
    <2>6. Announced(s)'
      <3>1. CASE Idles(s)
        BY <1>1, <1>2, <2>2, <2>3, <3>1, AnnouncedKept DEF Idles
      <3>2. CASE ~Idles(s)
        <4>1. told[s] \in Nat /\ Head(socket[s]).value \in Nat /\ Pending(s) /\ GoesOn(s)
          BY <2>1, <2>2, <3>2, ReadTypes
          DEF Ends, ReadsHello, ReadsFrame, ReadsDiagnostic, SessionTypeOK
        <4>2. /\ told[s] <= told'[s]
              /\ Head(socket[s]).event = "diagnostic" => Head(socket[s]).value <= told'[s]
          BY <2>1, <2>2, <3>2, <4>1 DEF Ends, ReadsHello, ReadsFrame, ReadsDiagnostic
        <4>3. s \in Captures => told'[s] = told[s]
          <5>1. CASE ReadsDiagnostic(s)
            BY <1>4, <2>2, <4>1, <5>1, CapturesFail
          <5> QED
            BY <2>1, <2>2, <3>2, <5>1 DEF Ends, ReadsHello, ReadsFrame
        <4> QED
          BY <2>1, <2>3, <4>1, <4>2, <4>3, ReadingTells
      <3> QED
        BY <3>1, <3>2
    <2> QED
      BY <2>1, <2>3, <2>4, <2>5, <2>6 DEF Accounted, handlerVars
  <1> QED
    BY <1>3, <1>4

\* A client misses no more than it was told of, whatever step it takes.
LEMMA ReaderMissesNone ==
  ASSUME HubOK, HubOK', SessionTypeOK, SessionTypeOK', NEW s \in Sessions,
         Ordered(s), Serving(s), NoneMissedUntold(s), ReaderStep(s) \/ Connect(s)
  PROVE  NoneMissedUntold(s)'
  <1>1. /\ told[s] \in Nat /\ told'[s] \in Nat
        /\ UNCHANGED hubVars
    BY ReaderDoes DEF SessionTypeOK, Connect
  <1>2. CASE ReadsFrame(s)
    <2>1. Announced(s)
      BY <1>2 DEF ReadsFrame, Serving
    <2> QED
      BY <1>1, <1>2, <2>1, MissedOnReading
  <1>3. CASE read'[s] = read[s] /\ told[s] <= told'[s]
    <2>1. Offered(s)' \subseteq Offered(s) \cup {nextSequence}
      BY <1>1 DEF hubVars, Offered, Accepts
    <2> QED
      BY <1>3, <2>1, MissedKept
  <1>4. CASE Connect(s)
    BY <1>1, <1>3, <1>4 DEF Connect
  <1>5. CASE ReaderStep(s) /\ ~ReadsFrame(s)
    <2>1. Idles(s) \/ Ends(s) \/ ReadsHello(s) \/ ReadsDiagnostic(s)
      BY <1>5, ReaderDoes
    <2>2. CASE ReadsDiagnostic(s)
      <3>1. Head(socket[s]).value \in Nat
        BY <2>2, ReadTypes DEF ReadsDiagnostic
      <3>2. s \in Captures => told[s] = 0
        BY <2>2 DEF ReadsDiagnostic, Serving, Announced
      <3>3. told[s] <= told'[s]
        BY <1>1, <2>2, <3>1, <3>2 DEF ReadsDiagnostic
      <3> QED
        BY <1>3, <2>2, <3>3 DEF ReadsDiagnostic
    <2>3. CASE ~ReadsDiagnostic(s)
      BY <1>1, <1>3, <2>1, <2>3 DEF Idles, Ends, ReadsHello
    <2> QED
      BY <2>2, <2>3
  <1> QED
    BY <1>2, <1>4, <1>5

LEMMA LossInvInit == SessionInit => LossInv
  <1> SUFFICES ASSUME SessionInit, NEW s \in Sessions PROVE Serving(s) /\ NoneMissedUntold(s)
    BY DEF LossInv
  <1>1. Len(<<>>) = 0 /\ 1 .. 0 = {}
    BY EmptySeq
  <1>2. /\ hand[s] = <<>> /\ socket[s] = <<>> /\ read[s] = <<>>
        /\ handler[s] = "idle" /\ phase[s] = "new" /\ told[s] = 0 /\ reported[s] = 0
    BY DEF SessionInit, HubInit
  <1>3. InHand(s) = {} /\ 1 .. Len(socket[s]) = {} /\ 1 .. Len(read[s]) = {}
    BY <1>1, <1>2 DEF InHand, Numbers
  <1>4. Announced(s)
    BY <1>2, <1>3 DEF Announced, Told
  <1>5. Missed(s) = {}
    BY <1>3 DEF Missed
  <1>6. NoneMissedUntold(s)
    BY <1>2, <1>5, FS_EmptySet DEF NoneMissedUntold
  <1> QED
    BY <1>2, <1>4, <1>6 DEF Serving, LossCounted, Covered

LEMMA LossInvStep ==
  ASSUME HubOK, HubOK', SessionInv, SessionInv', OrderedInv, LossInv, [SessionNext]_sessionVars
  PROVE  LossInv'
  <1> SUFFICES ASSUME ~clash', NEW t \in Sessions PROVE Serving(t)' /\ NoneMissedUntold(t)'
    BY DEF LossInv
  <1>1. HubTypeOK /\ [HubNext]_hubVars
    BY SessionStepIsHubStep DEF HubOK, HubInv
  <1>2. /\ ~clash /\ SessionTypeOK /\ SessionTypeOK'
        /\ Ordered(t) /\ Serving(t) /\ NoneMissedUntold(t)
    BY <1>1, DropsGrow DEF LossInv, OrderedInv, SessionInv
  <1>3. Offered(t)' \subseteq Offered(t) \cup {nextSequence}
    BY <1>1, OfferedMoves
  <1>4. ASSUME read'[t] = read[t], told'[t] = told[t] PROVE NoneMissedUntold(t)'
    <2>1. told[t] <= told'[t]
      BY <1>2, <1>4 DEF SessionTypeOK
    <2> QED
      BY <1>2, <1>3, <1>4, <2>1, MissedKept
  <1>5. CASE Untouched(t) /\ HubUntouched(t)
    BY <1>2, <1>4, <1>5, ServingKept DEF Untouched
  <1>6. CASE UNCHANGED sessionVars
    BY <1>5, <1>6 DEF sessionVars, hubVars, handlerVars, clientVars, Untouched, HubUntouched
  <1>7. ASSUME NEW k \in Keys, PublishFrame(k) PROVE Serving(t)' /\ NoneMissedUntold(t)'
    <2>1. read'[t] = read[t] /\ told'[t] = told[t]
      BY <1>7 DEF PublishFrame, clientVars
    <2> QED
      BY <1>2, <1>4, <1>7, <2>1, PublishKeepsServing
  <1>8. ASSUME NEW s \in Sessions, HandlerNext(s) PROVE Serving(t)' /\ NoneMissedUntold(t)'
    <2>1. CASE s = t
      <3>1. read'[t] = read[t] /\ told'[t] = told[t]
        BY <1>8 DEF HandlerNext, SendHello, SubscribeStream, CheckDropped, SendDiagnostic, TakeEvent,
           EndDrain, SendFrame, UnsubscribeStream, DropSubscription, clientVars
      <3> QED
        BY <1>2, <1>4, <1>8, <2>1, <3>1, HandlerKeepsServing
    <2>2. CASE s # t
      BY <1>2, <1>5, <1>8, <2>2, HandlerOwn
    <2> QED
      BY <2>1, <2>2
  <1>9. ASSUME NEW s \in Sessions, ReaderStep(s) \/ Connect(s)
        PROVE  Serving(t)' /\ NoneMissedUntold(t)'
    <2>1. CASE s = t
      BY <1>2, <1>9, <2>1, ReaderKeepsServing, ReaderMissesNone
    <2>2. CASE s # t
      BY <1>2, <1>5, <1>9, <2>2, ClientOwn
    <2> QED
      BY <2>1, <2>2
  <1> QED
    BY <1>6, <1>7, <1>8, <1>9 DEF SessionNext, ReaderNext, ReaderStep

\* No client reads a frame behind a gap before it was told of the gap: at no
\* time has it missed more frames than the last diagnostic it has read said,
\* for any number of streams, clients, frames and any capacities.
THEOREM LossIsAnnouncedFirst == SessionSpec => []LossAnnouncedFirst
  <1>1. SessionSpec => []OrderedInv
    <2>1. SessionInv => SessionTypeOK
      BY DEF SessionInv
    <2> QED
      BY HubStaysOK, SessionInvAlways, OrderedInit, OrderedStep, <2>1, PTL DEF SessionSpec
  <1>2. SessionSpec => []LossInv
    BY HubStaysOK, SessionInvAlways, LossInvInit, LossInvStep, <1>1, PTL DEF SessionSpec
  <1>3. LossInv => LossAnnouncedFirst
    BY DEF LossInv, LossAnnouncedFirst, NoneMissedUntold
  <1> QED
    BY <1>2, <1>3, PTL
=============================================================================
