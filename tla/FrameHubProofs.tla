--------------------------- MODULE FrameHubProofs ---------------------------
(***************************************************************************)
(* Safety of the frame hub, for any set of sessions, keys and options.     *)
(*                                                                         *)
(* HubInv is inductive.  It adds to the types what ties a subscription to  *)
(* the time it was made: before, the session has no channel, and its       *)
(* options are those it subscribed with from then on.  Each of the other   *)
(* properties is then an invariant of its own on top of HubInv.            *)
(***************************************************************************)
EXTENDS FrameHubRefinement, FiniteSetTheorems, SequenceTheorems, TLAPS

\* next_sequence counts the history, and no subscription is from the future.
Counting ==
  /\ nextSequence = Len(frames)
  /\ \A s \in Sessions : since[s] <= nextSequence

\* A session that has not subscribed has received nothing, and no entry or
\* channel exists for it.
Fresh ==
  \A s \in Sessions :
    phase[s] = "new" =>
      queue[s] = <<>> /\ received[s] = <<>> /\ dropped[s] = 0 /\ s \notin subscribers

HubInv == HubTypeOK /\ Counting /\ Fresh

\* At most one entry with an id, and one for every session still open.
DistinctIds ==
  ~clash =>
    /\ \A s, t \in subscribers : id[s] = id[t] => s = t
    /\ \A s \in Sessions : phase[s] = "open" => s \in subscribers

-----------------------------------------------------------------------------
\* The Vec of subscribers is finite, so that its length is a number.
LEMMA SubscribersFinite ==
  ASSUME subscribers \subseteq Sessions
  PROVE  IsFiniteSet(subscribers) /\ NextId \in Nat
  <1>1. IsFiniteSet(subscribers)
    BY FS_Subset, HubAssumption
  <1>2. Cardinality(subscribers) \in Nat
    BY <1>1, FS_CardinalityType
  <1> QED
    BY <1>1, <1>2 DEF NextId

\* The same of the sessions that have ever subscribed, which order the Vec.
LEMMA JoinedFinite ==
  Cardinality({t \in Sessions : phase[t] # "new"}) \in Nat
  <1>1. IsFiniteSet({t \in Sessions : phase[t] # "new"})
    BY FS_Subset, HubAssumption
  <1> QED
    BY <1>1, FS_CardinalityType

\* A channel that has room, and only that one, grows by the event.
LEMMA DeliveredOK ==
  ASSUME NEW s \in Sessions, NEW sent \in SUBSET Sessions,
         NEW event \in SequencedFrame, HubTypeOK,
         s \in sent => HasRoom(s)
  PROVE  /\ Delivered(s, sent, event) \in Seq(SequencedFrame)
         /\ Len(Delivered(s, sent, event)) <= options[s].capacity
  <1>1. queue[s] \in Seq(SequencedFrame) /\ Len(queue[s]) <= options[s].capacity
    BY DEF HubTypeOK
  <1>2. options[s].capacity \in Nat
    BY HubAssumption DEF HubTypeOK, NoOptions
  <1>3. CASE s \in sent
    <2>1. /\ Append(queue[s], event) \in Seq(SequencedFrame)
          /\ Len(Append(queue[s], event)) = Len(queue[s]) + 1
      BY <1>1, AppendProperties
    <2>2. Len(queue[s]) \in Nat
      BY <1>1, LenProperties
    <2> QED
      BY <1>2, <1>3, <2>1, <2>2 DEF Delivered, HasRoom
  <1>4. CASE s \notin sent
    BY <1>1, <1>4 DEF Delivered
  <1> QED
    BY <1>3, <1>4

-----------------------------------------------------------------------------
(* The inductive invariant *)

LEMMA HubInvInit == HubInit => HubInv
  <1> SUFFICES ASSUME HubInit PROVE HubInv
    OBVIOUS
  <1> USE DEF HubInit
  <1>1. \A S : <<>> \in Seq(S)
    BY EmptySeq
  <1>2. latest \in [Keys -> LatestFrame]
    BY DEF NoLatest, LatestFrame
  <1>3. phase \in [Sessions -> Phases]
    BY DEF Phases
  <1>4. \A s \in Sessions : Len(queue[s]) <= options[s].capacity
    BY DEF NoOptions
  <1>5. HubTypeOK
    BY <1>1, <1>2, <1>3, <1>4 DEF HubTypeOK
  <1>6. Counting
    BY DEF Counting
  <1>7. Fresh
    BY DEF Fresh
  <1> QED
    BY <1>5, <1>6, <1>7 DEF HubInv

LEMMA PublishPreservesInv ==
  ASSUME HubInv, NEW k \in Keys, Publish(k)
  PROVE  HubInv'
  <1> DEFINE event        == [sequence |-> nextSequence, frame |-> k]
             accepting    == {s \in subscribers : Accepts(s, k)}
             disconnected == {s \in accepting : phase[s] = "closed"}
             fits         == {s \in accepting \ disconnected : HasRoom(s)}
             full         == accepting \ (disconnected \cup fits)
  <1>1. /\ queue' = [s \in Sessions |-> Delivered(s, fits, event)]
        /\ dropped' = [s \in Sessions |-> DropCount(s, full)]
        /\ subscribers' = subscribers \ disconnected
    BY Zenon DEF Publish
  <1>2. /\ nextSequence' = nextSequence + 1
        /\ latest' = [latest EXCEPT ![k] = Ingest(k)]
        /\ frames' = Append(frames, k)
        /\ UNCHANGED <<joined, id, options, phase, since, received, clash>>
    BY DEF Publish
  <1>3. HubTypeOK /\ Counting /\ Fresh
    BY DEF HubInv
  <1>4. event \in SequencedFrame
    BY <1>3 DEF HubTypeOK, SequencedFrame
  <1>5. frames \in Seq(Keys) /\ Len(frames) \in Nat /\ frames' \in Seq(Keys)
        /\ Len(frames') = Len(frames) + 1
    BY <1>2, <1>3, AppendProperties, LenProperties DEF HubTypeOK
  <1>6. HubTypeOK'
    <2>1. Ingest(k) \in LatestFrame
      BY <1>3, <1>5 DEF HubTypeOK, Ingest, LatestFrame
    <2>2. latest' \in [Keys -> LatestFrame]
      BY <1>2, <1>3, <2>1 DEF HubTypeOK
    <2>3. subscribers \subseteq Sessions /\ fits \subseteq Sessions
      BY <1>3 DEF HubTypeOK
    <2>4. \A s \in Sessions : DropCount(s, full) \in Nat
      BY <1>3 DEF HubTypeOK, DropCount
    <2>5. dropped' \in [Sessions -> Nat]
      BY <1>1, <2>4
    <2>6. \A s \in Sessions : /\ Delivered(s, fits, event) \in Seq(SequencedFrame)
                              /\ Len(Delivered(s, fits, event)) <= options[s].capacity
      <3> HIDE DEF event
      <3> QED
        BY <1>3, <1>4, <2>3, DeliveredOK
    <2>7. /\ queue' \in [Sessions -> Seq(SequencedFrame)]
          /\ \A s \in Sessions : Len(queue'[s]) <= options'[s].capacity
      <3> HIDE DEF event, fits
      <3> QED
        BY <1>1, <1>2, <2>6
    <2>8. subscribers' \subseteq Sessions
      BY <1>1, <2>3
    <2>9. nextSequence' \in Nat
      BY <1>2, <1>3 DEF HubTypeOK
    <2> QED
      BY <1>2, <1>3, <1>5, <2>2, <2>5, <2>7, <2>8, <2>9 DEF HubTypeOK
  <1>7. Counting'
    BY <1>2, <1>3, <1>5 DEF Counting, HubTypeOK
  <1>8. Fresh'
    <2> SUFFICES ASSUME NEW s \in Sessions, phase'[s] = "new"
                 PROVE  /\ queue'[s] = <<>> /\ received'[s] = <<>>
                        /\ dropped'[s] = 0 /\ s \notin subscribers'
      BY DEF Fresh
    <2>1. /\ queue[s] = <<>> /\ received[s] = <<>>
          /\ dropped[s] = 0 /\ s \notin subscribers
      BY <1>2, <1>3 DEF Fresh
    <2>2. s \notin fits /\ s \notin full
      BY <2>1
    <2> QED
      BY <1>1, <1>2, <2>1, <2>2 DEF Delivered, DropCount
  <1> QED
    BY <1>6, <1>7, <1>8 DEF HubInv

LEMMA SubscribePreservesInv ==
  ASSUME HubInv, NEW s \in Sessions, NEW o \in Options, Subscribe(s, o)
  PROVE  HubInv'
  <1> USE DEF HubInv, Subscribe
  <1>1. NextId \in Nat /\ IsFiniteSet(subscribers)
    BY SubscribersFinite DEF HubTypeOK
  <1>2. id' \in [Sessions -> Nat]
    BY <1>1 DEF HubTypeOK
  <1>3. joined' \in [Sessions -> Nat]
    BY JoinedFinite DEF HubTypeOK
  <1>4. phase' \in [Sessions -> Phases]
    BY DEF HubTypeOK, Phases
  <1>5. options' \in [Sessions -> Options \cup {NoOptions}]
    BY DEF HubTypeOK
  <1>6. \A t \in Sessions : Len(queue'[t]) <= options'[t].capacity
    <2>1. o.capacity \in Nat
      BY HubAssumption
    <2>2. Len(queue'[s]) <= options'[s].capacity
      BY <2>1 DEF HubTypeOK, Fresh
    <2> QED
      BY <2>2 DEF HubTypeOK
  <1>7. HubTypeOK'
    BY <1>2, <1>3, <1>4, <1>5, <1>6 DEF HubTypeOK
  <1>8. Counting'
    BY DEF Counting, HubTypeOK
  <1>9. Fresh'
    BY DEF Fresh, HubTypeOK
  <1> QED
    BY <1>7, <1>8, <1>9

LEMMA UnsubscribePreservesInv ==
  ASSUME HubInv, NEW s \in Sessions, Unsubscribe(s)
  PROVE  HubInv'
  <1> USE DEF HubInv, Unsubscribe
  <1>1. HubTypeOK'
    BY DEF HubTypeOK, Phases
  <1>2. Counting'
    BY DEF Counting
  <1>3. Fresh'
    BY DEF Fresh, HubTypeOK
  <1> QED
    BY <1>1, <1>2, <1>3

LEMMA DropReceiverPreservesInv ==
  ASSUME HubInv, NEW s \in Sessions, DropReceiver(s)
  PROVE  HubInv'
  <1> USE DEF HubInv, DropReceiver
  <1>1. <<>> \in Seq(SequencedFrame) /\ Len(<<>>) = 0
    BY EmptySeq
  <1>2. options[s].capacity \in Nat
    BY HubAssumption DEF HubTypeOK, NoOptions
  <1>3. HubTypeOK'
    BY <1>1, <1>2 DEF HubTypeOK, Phases
  <1>4. Counting'
    BY DEF Counting
  <1>5. Fresh'
    BY DEF Fresh, HubTypeOK
  <1> QED
    BY <1>3, <1>4, <1>5

LEMMA TryRecvPreservesInv ==
  ASSUME HubInv, NEW s \in Sessions, TryRecv(s)
  PROVE  HubInv'
  <1> USE DEF HubInv, TryRecv
  <1>1. queue[s] \in Seq(SequencedFrame) /\ received[s] \in Seq(SequencedFrame)
    BY DEF HubTypeOK
  <1>2. /\ Head(queue[s]) \in SequencedFrame
        /\ Tail(queue[s]) \in Seq(SequencedFrame)
        /\ Len(Tail(queue[s])) = Len(queue[s]) - 1
    BY <1>1, HeadTailProperties
  <1>3. Append(received[s], Head(queue[s])) \in Seq(SequencedFrame)
    BY <1>1, <1>2, AppendProperties
  <1>4. Len(queue[s]) \in Nat /\ options[s].capacity \in Nat
    BY <1>1, LenProperties, HubAssumption DEF HubTypeOK, NoOptions
  <1>5. /\ queue' \in [Sessions -> Seq(SequencedFrame)]
        /\ received' \in [Sessions -> Seq(SequencedFrame)]
    BY <1>2, <1>3 DEF HubTypeOK
  <1>6. \A t \in Sessions : Len(queue'[t]) <= options'[t].capacity
    BY <1>2, <1>4 DEF HubTypeOK
  <1>7. HubTypeOK'
    BY <1>5, <1>6 DEF HubTypeOK
  <1>8. Counting'
    BY DEF Counting
  <1>9. Fresh'
    BY DEF Fresh, HubTypeOK
  <1> QED
    BY <1>7, <1>8, <1>9

LEMMA StutterPreservesInv ==
  ASSUME HubInv, UNCHANGED hubVars
  PROVE  HubInv'
  BY DEF HubInv, HubTypeOK, Counting, Fresh, hubVars

\* HubInv is an invariant of the hub.
THEOREM HubInvariant == HubSpec => []HubInv
  <1>1. HubInv /\ [HubNext]_hubVars => HubInv'
    BY PublishPreservesInv, SubscribePreservesInv, UnsubscribePreservesInv,
       DropReceiverPreservesInv, TryRecvPreservesInv, StutterPreservesInv DEF HubNext
  <1> QED
    BY HubInvInit, <1>1, PTL DEF HubSpec

\* Every variable always has its type, and no channel ever holds more frames
\* than the capacity its subscriber asked for.
THEOREM HubTyped == HubSpec => []HubTypeOK
  <1>1. HubInv => HubTypeOK
    BY DEF HubInv
  <1> QED
    BY HubInvariant, <1>1, PTL

-----------------------------------------------------------------------------
(* Delivery in order *)

\* What a session has received and what waits for it are events.
LEMMA ArrivalsTyped ==
  ASSUME HubTypeOK, NEW s \in Sessions
  PROVE  /\ Arrivals(s) \in Seq(SequencedFrame)
         /\ Len(Arrivals(s)) = Len(received[s]) + Len(queue[s])
         /\ Len(Arrivals(s)) \in Nat
  <1>1. received[s] \in Seq(SequencedFrame) /\ queue[s] \in Seq(SequencedFrame)
    BY DEF HubTypeOK
  <1>2. /\ received[s] \o queue[s] \in Seq(SequencedFrame)
        /\ Len(received[s] \o queue[s]) = Len(received[s]) + Len(queue[s])
    BY <1>1, ConcatProperties
  <1>3. Len(received[s] \o queue[s]) \in Nat
    BY <1>2, LenProperties
  <1> QED
    BY <1>2, <1>3 DEF Arrivals

\* A session without events has no arrivals.
LEMMA NoArrivals ==
  ASSUME HubTypeOK, NEW s \in Sessions, received[s] = <<>>, queue[s] = <<>>
  PROVE  Len(Arrivals(s)) = 0
  <1>1. Len(<<>>) = 0
    OBVIOUS
  <1>2. Len(Arrivals(s)) = Len(received[s]) + Len(queue[s])
    BY ArrivalsTyped
  <1>3. Len(received[s]) = 0 /\ Len(queue[s]) = 0
    BY <1>1
  <1> QED
    BY <1>2, <1>3

\* Reading moves an event from one half of the arrivals to the other.
LEMMA TakingKeepsArrivals ==
  ASSUME NEW S, NEW r \in Seq(S), NEW q \in Seq(S), q # <<>>
  PROVE  Append(r, Head(q)) \o Tail(q) = r \o q
  <1>1. /\ Head(q) \in S
        /\ Tail(q) \in Seq(S)
        /\ Len(Tail(q)) = Len(q) - 1
        /\ \A i \in 1 .. Len(Tail(q)) : Tail(q)[i] = q[i + 1]
    BY HeadTailProperties
  <1>2. <<Head(q)>> \in Seq(S) /\ Len(<<Head(q)>>) = 1 /\ <<Head(q)>>[1] = Head(q)
    BY <1>1
  <1>3. Len(q) \in Nat \ {0} /\ q \in Seq(S)
    BY EmptySeq
  <1>4. <<Head(q)>> \o Tail(q) = q
    <2>1. /\ <<Head(q)>> \o Tail(q) \in Seq(S)
          /\ Len(<<Head(q)>> \o Tail(q)) = Len(q)
          /\ \A i \in 1 .. Len(q) : (<<Head(q)>> \o Tail(q))[i] =
                 IF i <= 1 THEN <<Head(q)>>[i] ELSE Tail(q)[i - 1]
      BY <1>1, <1>2, <1>3, ConcatProperties
    <2>2. \A i \in 1 .. Len(q) : (<<Head(q)>> \o Tail(q))[i] = q[i]
      <3> SUFFICES ASSUME NEW i \in 1 .. Len(q)
                   PROVE  (<<Head(q)>> \o Tail(q))[i] = q[i]
        OBVIOUS
      <3>1. CASE i = 1
        BY <2>1, <1>2, <1>3, <3>1
      <3>2. CASE i # 1
        <4>1. i - 1 \in 1 .. Len(Tail(q)) /\ ~(i <= 1) /\ (i - 1) + 1 = i
          BY <1>1, <1>3, <3>2
        <4> QED
          BY <1>1, <2>1, <4>1
      <3> QED
        BY <3>1, <3>2
    <2> QED
      BY <2>1, <2>2, SeqEqual
  <1>5. Append(r, Head(q)) = r \o <<Head(q)>>
    BY <1>1, AppendIsConcat
  <1>6. (r \o <<Head(q)>>) \o Tail(q) = r \o (<<Head(q)>> \o Tail(q))
    BY <1>1, <1>2, ConcatAssociative
  <1> QED
    BY <1>4, <1>5, <1>6

\* Delivering adds an event behind the arrivals.
LEMMA DeliveringExtendsArrivals ==
  ASSUME NEW S, NEW r \in Seq(S), NEW q \in Seq(S), NEW e \in S
  PROVE  r \o Append(q, e) = Append(r \o q, e)
  <1>1. <<e>> \in Seq(S)
    OBVIOUS
  <1>2. Append(q, e) = q \o <<e>>
    BY AppendIsConcat
  <1>3. r \o q \in Seq(S)
    BY ConcatProperties
  <1>4. Append(r \o q, e) = (r \o q) \o <<e>>
    BY <1>3, AppendIsConcat
  <1> QED
    BY <1>1, <1>2, <1>4, ConcatAssociative

\* The history only grows at its end.
LEMMA HistoryKept ==
  ASSUME HubInv, NEW k \in Keys, Publish(k)
  PROVE  /\ nextSequence \in Nat /\ nextSequence' = nextSequence + 1
         /\ \A n \in 0 .. nextSequence - 1 : frames'[n + 1] = frames[n + 1]
         /\ frames'[nextSequence + 1] = k
  <1>1. /\ frames \in Seq(Keys) /\ nextSequence = Len(frames)
        /\ frames' = Append(frames, k) /\ nextSequence' = nextSequence + 1
    BY DEF HubInv, HubTypeOK, Counting, Publish
  <1>2. Len(frames) \in Nat
    BY <1>1, LenProperties
  <1>3. /\ \A i \in 1 .. Len(frames) : Append(frames, k)[i] = frames[i]
        /\ Append(frames, k)[Len(frames) + 1] = k
    BY <1>1, AppendProperties
  <1> QED
    BY <1>1, <1>2, <1>3

\* A published frame is offered to the sessions that accept it, and what was
\* offered before still is.
LEMMA OfferedGrows ==
  ASSUME HubInv, NEW k \in Keys, Publish(k), NEW s \in Sessions
  PROVE  Offered(s)' = IF Accepts(s, k) THEN Offered(s) \cup {nextSequence}
                                        ELSE Offered(s)
  <1>1. /\ nextSequence \in Nat /\ nextSequence' = nextSequence + 1
        /\ \A n \in 0 .. nextSequence - 1 : frames'[n + 1] = frames[n + 1]
        /\ frames'[nextSequence + 1] = k
    BY HistoryKept
  <1>2. since' = since /\ options' = options
    BY DEF Publish
  <1>3. since[s] \in Nat /\ since[s] <= nextSequence
    BY DEF HubInv, HubTypeOK, Counting
  <1>4. Offered(s)' = {n \in since[s] .. nextSequence : frames'[n + 1] \in options[s].accepts}
    BY <1>1, <1>2 DEF Offered, Accepts
  <1>5. Offered(s) = {n \in since[s] .. nextSequence - 1 : frames[n + 1] \in options[s].accepts}
    BY DEF Offered, Accepts
  <1>6. since[s] .. nextSequence = (since[s] .. nextSequence - 1) \cup {nextSequence}
    BY <1>1, <1>3
  <1>7. \A n \in since[s] .. nextSequence - 1 : frames'[n + 1] = frames[n + 1]
    BY <1>1, <1>3
  <1> QED
    BY <1>1, <1>4, <1>5, <1>6, <1>7 DEF Accepts

LEMMA PublishKeepsOrder ==
  ASSUME HubInv, DeliveryInOrder, NEW k \in Keys, Publish(k)
  PROVE  DeliveryInOrder'
  <1> DEFINE event        == [sequence |-> nextSequence, frame |-> k]
             accepting    == {s \in subscribers : Accepts(s, k)}
             disconnected == {s \in accepting : phase[s] = "closed"}
             fits         == {s \in accepting \ disconnected : HasRoom(s)}
  <1> SUFFICES ASSUME NEW s \in Sessions PROVE InOrder(s)'
    BY DEF DeliveryInOrder
  <1>1. queue' = [t \in Sessions |-> Delivered(t, fits, event)] /\ received' = received
    BY Zenon DEF Publish
  <1>2. HubTypeOK /\ InOrder(s)
    BY DEF HubInv, DeliveryInOrder
  <1>3. /\ nextSequence \in Nat /\ nextSequence' = nextSequence + 1
        /\ \A n \in 0 .. nextSequence - 1 : frames'[n + 1] = frames[n + 1]
        /\ frames'[nextSequence + 1] = k
    BY HistoryKept
  <1>4. event \in SequencedFrame /\ event.sequence = nextSequence /\ event.frame = k
    BY <1>3 DEF SequencedFrame
  <1>5. Offered(s)' = IF Accepts(s, k) THEN Offered(s) \cup {nextSequence} ELSE Offered(s)
    BY OfferedGrows
  <1>6. \A n \in Offered(s) : n \in 0 .. nextSequence - 1 /\ n < nextSequence
    BY <1>2, <1>3 DEF Offered, HubTypeOK
  <1>7. Arrivals(s) \in Seq(SequencedFrame) /\ Len(Arrivals(s)) \in Nat
    BY <1>2, ArrivalsTyped
  <1>8. \A i \in 1 .. Len(Arrivals(s)) :
          /\ Arrivals(s)[i].sequence \in Offered(s)'
          /\ frames'[Arrivals(s)[i].sequence + 1] = Arrivals(s)[i].frame
          /\ Arrivals(s)[i].sequence < nextSequence
          /\ \A j \in 1 .. i - 1 : Arrivals(s)[j].sequence < Arrivals(s)[i].sequence
    BY <1>2, <1>3, <1>5, <1>6 DEF InOrder
  <1>9. CASE s \notin fits
    <2>1. Arrivals(s)' = Arrivals(s)
      BY <1>1, <1>9 DEF Arrivals, Delivered
    <2> QED
      BY <1>8, <2>1 DEF InOrder
  <1>10. CASE s \in fits
    <2> HIDE DEF event
    <2>1. Arrivals(s)' = Append(Arrivals(s), event)
      <3>1. received[s] \in Seq(SequencedFrame) /\ queue[s] \in Seq(SequencedFrame)
        BY <1>2 DEF HubTypeOK
      <3>2. Arrivals(s)' = received[s] \o Append(queue[s], event)
        BY <1>1, <1>10 DEF Arrivals, Delivered
      <3> DEFINE r == received[s]
                 q == queue[s]
      <3>3. r \o Append(q, event) = Append(r \o q, event)
        <4> HIDE DEF r, q
        <4> SUFFICES ASSUME r \in Seq(SequencedFrame), q \in Seq(SequencedFrame),
                            event \in SequencedFrame
                     PROVE  r \o Append(q, event) = Append(r \o q, event)
          BY <1>4, <3>1 DEF r, q
        <4> QED
          BY DeliveringExtendsArrivals
      <3> QED
        BY <3>2, <3>3 DEF Arrivals
    <2>2. /\ Len(Arrivals(s)') = Len(Arrivals(s)) + 1
          /\ \A i \in 1 .. Len(Arrivals(s)) : Arrivals(s)'[i] = Arrivals(s)[i]
          /\ Arrivals(s)'[Len(Arrivals(s)) + 1] = event
      BY <1>4, <1>7, <2>1, AppendProperties
    <2>3. Accepts(s, k)
      BY <1>10
    <2>4. nextSequence \in Offered(s)'
      BY <1>5, <2>3
    <2> SUFFICES ASSUME NEW i \in 1 .. Len(Arrivals(s)')
                 PROVE  /\ Arrivals(s)'[i].sequence \in Offered(s)'
                        /\ frames'[Arrivals(s)'[i].sequence + 1] = Arrivals(s)'[i].frame
                        /\ \A j \in 1 .. i - 1 :
                             Arrivals(s)'[j].sequence < Arrivals(s)'[i].sequence
      BY DEF InOrder
    <2>5. CASE i = Len(Arrivals(s)) + 1
      <3>1. \A j \in 1 .. i - 1 : j \in 1 .. Len(Arrivals(s))
        BY <1>7, <2>5
      <3> QED
        BY <1>3, <1>4, <1>8, <2>2, <2>4, <2>5, <3>1
    <2>6. CASE i # Len(Arrivals(s)) + 1
      <3>1. i \in 1 .. Len(Arrivals(s))
        BY <1>7, <2>2, <2>6
      <3>2. \A j \in 1 .. i - 1 : j \in 1 .. Len(Arrivals(s))
        BY <1>7, <3>1
      <3> QED
        BY <1>8, <2>2, <3>1, <3>2
    <2> QED
      BY <2>5, <2>6
  <1> QED
    BY <1>9, <1>10

LEMMA SubscribeKeepsOrder ==
  ASSUME HubInv, DeliveryInOrder, NEW s \in Sessions, NEW o \in Options, Subscribe(s, o)
  PROVE  DeliveryInOrder'
  <1> SUFFICES ASSUME NEW t \in Sessions PROVE InOrder(t)'
    BY DEF DeliveryInOrder
  <1>1. UNCHANGED <<frames, nextSequence, queue, received>>
    BY DEF Subscribe
  <1>2. CASE t = s
    <2>1. received[s] = <<>> /\ queue[s] = <<>>
      BY DEF HubInv, Fresh, Subscribe
    <2>2. Len(Arrivals(s)) = 0
      BY <2>1, NoArrivals DEF HubInv
    <2>3. Len(Arrivals(s)') = 0
      BY <1>1, <2>2 DEF Arrivals
    <2> QED
      BY <1>2, <2>3 DEF InOrder
  <1>3. CASE t # s
    <2>1. options'[t] = options[t] /\ since'[t] = since[t]
      BY <1>3 DEF Subscribe, HubInv, HubTypeOK
    <2>2. Offered(t)' = Offered(t) /\ Arrivals(t)' = Arrivals(t)
      BY <1>1, <2>1 DEF Offered, Accepts, Arrivals
    <2> QED
      BY <1>1, <2>2 DEF InOrder, DeliveryInOrder
  <1> QED
    BY <1>2, <1>3

LEMMA DropReceiverKeepsOrder ==
  ASSUME HubInv, DeliveryInOrder, NEW s \in Sessions, DropReceiver(s)
  PROVE  DeliveryInOrder'
  <1> SUFFICES ASSUME NEW t \in Sessions PROVE InOrder(t)'
    BY DEF DeliveryInOrder
  <1>1. UNCHANGED <<frames, nextSequence, options, since, received>>
    BY DEF DropReceiver
  <1>2. Offered(t)' = Offered(t)
    BY <1>1 DEF Offered, Accepts
  <1>3. CASE t = s
    <2>1. /\ received[s] \in Seq(SequencedFrame) /\ queue[s] \in Seq(SequencedFrame)
          /\ queue'[s] = <<>>
      BY DEF HubInv, HubTypeOK, DropReceiver
    <2>2. Arrivals(s)' = received[s]
      BY <1>1, <2>1, ConcatEmptySeq DEF Arrivals
    <2>3. Len(received[s]) \in Nat /\ Len(queue[s]) \in Nat
      BY <2>1, LenProperties
    <2>4. \A i \in 1 .. Len(received[s]) :
            i \in 1 .. Len(Arrivals(s)) /\ Arrivals(s)[i] = received[s][i]
      <3>1. \A i \in 1 .. Len(received[s]) + Len(queue[s]) :
              Arrivals(s)[i] = IF i <= Len(received[s]) THEN received[s][i]
                               ELSE queue[s][i - Len(received[s])]
        BY <2>1, ConcatProperties DEF Arrivals
      <3>2. Len(Arrivals(s)) = Len(received[s]) + Len(queue[s])
        BY ArrivalsTyped DEF HubInv
      <3> DEFINE m == Len(received[s])
                 n == Len(queue[s])
      <3>3. \A i \in 1 .. m : i \in 1 .. m + n /\ i <= m
        <4>1. m \in Nat /\ n \in Nat
          BY <2>3
        <4> HIDE DEF m, n
        <4> QED
          BY <4>1
      <3> QED
        BY <3>1, <3>2, <3>3
    <2>5. \A i \in 1 .. Len(received[s]) : \A j \in 1 .. i - 1 : j \in 1 .. Len(received[s])
      BY <2>3
    <2> QED
      BY <1>1, <1>2, <1>3, <2>2, <2>4, <2>5 DEF InOrder, DeliveryInOrder
  <1>4. CASE t # s
    <2>1. queue'[t] = queue[t]
      BY <1>4 DEF DropReceiver, HubInv, HubTypeOK
    <2>2. Arrivals(t)' = Arrivals(t)
      BY <1>1, <2>1 DEF Arrivals
    <2> QED
      BY <1>1, <1>2, <2>2 DEF InOrder, DeliveryInOrder
  <1> QED
    BY <1>3, <1>4

LEMMA TryRecvKeepsOrder ==
  ASSUME HubInv, DeliveryInOrder, NEW s \in Sessions, TryRecv(s)
  PROVE  DeliveryInOrder'
  <1> SUFFICES ASSUME NEW t \in Sessions PROVE InOrder(t)'
    BY DEF DeliveryInOrder
  <1>1. UNCHANGED <<frames, nextSequence, options, since>>
    BY DEF TryRecv
  <1>2. Offered(t)' = Offered(t)
    BY <1>1 DEF Offered, Accepts
  <1>3. CASE t = s
    <2>1. /\ received[s] \in Seq(SequencedFrame) /\ queue[s] \in Seq(SequencedFrame)
          /\ queue[s] # <<>>
          /\ queue'[s] = Tail(queue[s])
          /\ received'[s] = Append(received[s], Head(queue[s]))
      BY DEF HubInv, HubTypeOK, TryRecv
    <2>2. Arrivals(s)' = Arrivals(s)
      BY <2>1, TakingKeepsArrivals DEF Arrivals
    <2> QED
      BY <1>1, <1>2, <1>3, <2>2 DEF InOrder, DeliveryInOrder
  <1>4. CASE t # s
    <2>1. queue'[t] = queue[t] /\ received'[t] = received[t]
      BY <1>4 DEF TryRecv, HubInv, HubTypeOK
    <2>2. Arrivals(t)' = Arrivals(t)
      BY <2>1 DEF Arrivals
    <2> QED
      BY <1>1, <1>2, <2>2 DEF InOrder, DeliveryInOrder
  <1> QED
    BY <1>3, <1>4

\* A subscription receives published frames it asked for, in the order of
\* their sequence numbers and none twice, whatever the interleaving.
THEOREM HubDeliversInOrder == HubSpec => []DeliveryInOrder
  <1>1. HubInit => DeliveryInOrder
    <2> SUFFICES ASSUME HubInit, NEW s \in Sessions PROVE InOrder(s)
      BY DEF DeliveryInOrder
    <2>1. received[s] = <<>> /\ queue[s] = <<>>
      BY DEF HubInit
    <2>2. Len(Arrivals(s)) = 0
      BY <2>1, HubInvInit, NoArrivals DEF HubInv
    <2> QED
      BY <2>2 DEF InOrder
  <1>2. HubInv /\ DeliveryInOrder /\ [HubNext]_hubVars => DeliveryInOrder'
    <2> SUFFICES ASSUME HubInv, DeliveryInOrder, [HubNext]_hubVars PROVE DeliveryInOrder'
      OBVIOUS
    <2>1. ASSUME NEW s \in Sessions, Unsubscribe(s) PROVE DeliveryInOrder'
      BY <2>1 DEF Unsubscribe, DeliveryInOrder, InOrder, Arrivals, Offered, Accepts
    <2>2. CASE UNCHANGED hubVars
      BY <2>2 DEF hubVars, DeliveryInOrder, InOrder, Arrivals, Offered, Accepts
    <2> QED
      BY <2>1, <2>2, PublishKeepsOrder, SubscribeKeepsOrder, DropReceiverKeepsOrder,
         TryRecvKeepsOrder DEF HubNext
  <1> QED
    BY <1>1, <1>2, HubInvariant, PTL DEF HubSpec

-----------------------------------------------------------------------------
(* Ids and entries *)

LEMMA PublishKeepsDistinctIds ==
  ASSUME HubInv, DistinctIds, NEW k \in Keys, Publish(k)
  PROVE  DistinctIds'
  <1>1. UNCHANGED <<id, phase, clash>>
    BY DEF Publish
  <1>2. subscribers' \subseteq subscribers
    BY DEF Publish
  <1>3. \A s \in subscribers : phase[s] = "open" => s \in subscribers'
    BY DEF Publish
  <1> QED
    BY <1>1, <1>2, <1>3 DEF DistinctIds

LEMMA SubscribeKeepsDistinctIds ==
  ASSUME HubInv, DistinctIds, NEW s \in Sessions, NEW o \in Options, Subscribe(s, o)
  PROVE  DistinctIds'
  <1> SUFFICES ASSUME ~clash'
               PROVE  /\ \A t, u \in subscribers' : id'[t] = id'[u] => t = u
                      /\ \A t \in Sessions : phase'[t] = "open" => t \in subscribers'
    BY DEF DistinctIds
  <1>1. ~clash /\ Holding(NextId) = {}
    BY DEF Subscribe
  <1>2. \A t, u \in subscribers : id[t] = id[u] => t = u
    BY <1>1 DEF DistinctIds
  <1>3. s \notin subscribers /\ subscribers' = subscribers \cup {s} /\ subscribers \subseteq Sessions
    BY DEF Subscribe, HubInv, HubTypeOK, Fresh
  <1>4. id'[s] = NextId /\ \A t \in subscribers : id'[t] = id[t]
    BY <1>3 DEF Subscribe, HubInv, HubTypeOK
  <1>5. \A t \in subscribers : id[t] # NextId
    BY <1>1 DEF Holding
  <1>6. \A t, u \in subscribers' : id'[t] = id'[u] => t = u
    BY <1>2, <1>3, <1>4, <1>5
  <1>7. \A t \in Sessions : phase'[t] = "open" => t = s \/ phase[t] = "open"
    BY DEF Subscribe, HubInv, HubTypeOK
  <1>8. \A t \in Sessions : phase'[t] = "open" => t \in subscribers'
    BY <1>1, <1>3, <1>7 DEF DistinctIds
  <1> QED
    BY <1>6, <1>8

LEMMA UnsubscribeKeepsDistinctIds ==
  ASSUME HubInv, DistinctIds, NEW s \in Sessions, Unsubscribe(s)
  PROVE  DistinctIds'
  <1> SUFFICES ASSUME ~clash
               PROVE  DistinctIds'
    BY DEF DistinctIds, Unsubscribe
  <1>1. /\ \A t, u \in subscribers : id[t] = id[u] => t = u
        /\ \A t \in Sessions : phase[t] = "open" => t \in subscribers
    BY DEF DistinctIds
  <1>2. s \in subscribers
    BY <1>1 DEF Unsubscribe
  <1>3. Removed(id[s]) \subseteq {s}
    BY <1>1, <1>2 DEF Removed, First, Holding
  <1>4. /\ id' = id
        /\ subscribers' = subscribers \ Removed(id[s])
        /\ phase' = [phase EXCEPT ![s] = "left"]
    BY DEF Unsubscribe
  <1>5. \A t \in Sessions : phase'[t] = "open" => t # s /\ phase[t] = "open"
    BY <1>4 DEF HubInv, HubTypeOK
  <1> QED
    BY <1>1, <1>3, <1>4, <1>5 DEF DistinctIds

\* As long as subscribe has given every id only once at a time, a session
\* that has not left keeps an entry of its own under its id.
THEOREM HubOwnEntry == HubSpec => []OwnEntry
  <1>1. HubInit => DistinctIds
    BY DEF HubInit, DistinctIds
  <1>2. HubInv /\ DistinctIds /\ [HubNext]_hubVars => DistinctIds'
    <2> SUFFICES ASSUME HubInv, DistinctIds, [HubNext]_hubVars PROVE DistinctIds'
      OBVIOUS
    <2>1. ASSUME NEW s \in Sessions, DropReceiver(s) PROVE DistinctIds'
      BY <2>1 DEF DropReceiver, DistinctIds, HubInv, HubTypeOK
    <2>2. ASSUME NEW s \in Sessions, TryRecv(s) PROVE DistinctIds'
      BY <2>2 DEF TryRecv, DistinctIds
    <2>3. CASE UNCHANGED hubVars
      BY <2>3 DEF hubVars, DistinctIds
    <2> QED
      BY <2>1, <2>2, <2>3, PublishKeepsDistinctIds, SubscribeKeepsDistinctIds,
         UnsubscribeKeepsDistinctIds DEF HubNext
  <1>3. HubInv /\ DistinctIds => OwnEntry
    <2> SUFFICES ASSUME HubInv, DistinctIds, ~clash, NEW s \in Sessions, phase[s] = "open"
                 PROVE  s \in subscribers /\ First(id[s]) = {s}
      BY DEF OwnEntry
    <2>1. s \in subscribers /\ joined[s] \in Nat
      BY DEF DistinctIds, HubInv, HubTypeOK
    <2>2. Holding(id[s]) = {s}
      BY <2>1 DEF DistinctIds, Holding
    <2> QED
      BY <2>1, <2>2 DEF First
  <1> QED
    BY <1>1, <1>2, <1>3, HubInvariant, PTL DEF HubSpec

-----------------------------------------------------------------------------
(* Loss accounting *)

\* What a session asked for is a finite set of sequence numbers.
LEMMA OfferedFinite ==
  ASSUME HubInv, NEW s \in Sessions
  PROVE  /\ IsFiniteSet(Offered(s))
         /\ Cardinality(Offered(s)) \in Nat
         /\ nextSequence \notin Offered(s)
  <1>1. since[s] \in Nat /\ nextSequence \in Nat
    BY DEF HubInv, HubTypeOK
  <1>2. IsFiniteSet(since[s] .. nextSequence - 1)
    BY <1>1, FS_Interval
  <1>3. Offered(s) \subseteq since[s] .. nextSequence - 1
    BY DEF Offered
  <1>4. IsFiniteSet(Offered(s))
    BY <1>2, <1>3, FS_Subset
  <1>5. Cardinality(Offered(s)) \in Nat
    BY <1>4, FS_CardinalityType
  <1> QED
    BY <1>1, <1>3, <1>4, <1>5

\* The sums that the steps below compare.
LEMMA CountsAgree ==
  ASSUME NEW a \in Nat, NEW b \in Nat, NEW c \in Nat
  PROVE  /\ (a + b + c) + 1 = a + (b + 1) + c
         /\ (a + b + c) + 1 = a + b + (c + 1)
         /\ a + b + c = (a + 1) + (b - 1) + c
  OBVIOUS

LEMMA PublishKeepsCount ==
  ASSUME HubInv, NothingUncounted, NEW k \in Keys, Publish(k)
  PROVE  NothingUncounted'
  <1> DEFINE event        == [sequence |-> nextSequence, frame |-> k]
             accepting    == {s \in subscribers : Accepts(s, k)}
             disconnected == {s \in accepting : phase[s] = "closed"}
             fits         == {s \in accepting \ disconnected : HasRoom(s)}
             full         == accepting \ (disconnected \cup fits)
  <1> SUFFICES ASSUME NEW s \in subscribers', phase'[s] = "open"
               PROVE  Cardinality(Offered(s)') =
                        Len(received'[s]) + Len(queue'[s]) + dropped'[s]
    BY DEF NothingUncounted
  <1>1. /\ queue' = [t \in Sessions |-> Delivered(t, fits, event)]
        /\ dropped' = [t \in Sessions |-> DropCount(t, full)]
        /\ subscribers' \subseteq subscribers
        /\ phase' = phase /\ received' = received
    BY Zenon DEF Publish
  <1>2. HubTypeOK
    BY DEF HubInv
  <1>3. s \in Sessions /\ s \in subscribers /\ phase[s] = "open"
    BY <1>1, <1>2 DEF HubTypeOK
  <1>4. /\ received[s] \in Seq(SequencedFrame)
        /\ queue[s] \in Seq(SequencedFrame)
        /\ dropped[s] \in Nat
        /\ nextSequence \in Nat
    BY <1>2, <1>3 DEF HubTypeOK
  <1>5. Len(received[s]) \in Nat /\ Len(queue[s]) \in Nat
    BY <1>4, LenProperties
  <1>6. event \in SequencedFrame
    BY <1>4 DEF SequencedFrame
  <1>7. /\ IsFiniteSet(Offered(s))
        /\ Cardinality(Offered(s)) \in Nat
        /\ nextSequence \notin Offered(s)
    BY <1>3, OfferedFinite
  <1>8. Offered(s)' = IF Accepts(s, k) THEN Offered(s) \cup {nextSequence} ELSE Offered(s)
    BY <1>3, OfferedGrows
  <1>9. Cardinality(Offered(s)) = Len(received[s]) + Len(queue[s]) + dropped[s]
    BY <1>3 DEF NothingUncounted
  <1>10. Cardinality(Offered(s) \cup {nextSequence}) = Cardinality(Offered(s)) + 1
    BY <1>7, FS_AddElement
  <1>11. LET a == Len(received[s])
             b == Len(queue[s])
             c == dropped[s]
         IN  /\ (a + b + c) + 1 = a + (b + 1) + c
             /\ (a + b + c) + 1 = a + b + (c + 1)
    <2>1. dropped[s] \in Nat
      BY <1>4
    <2> QED
      BY <1>5, <2>1, CountsAgree, Zenon
  <1>12. CASE s \in fits
    <2>1. queue'[s] = Append(queue[s], event) /\ dropped'[s] = dropped[s]
      <3> HIDE DEF event
      <3> QED
        BY <1>1, <1>3, <1>12 DEF Delivered, DropCount
    <2>2. Len(queue'[s]) = Len(queue[s]) + 1
      <3> HIDE DEF event
      <3> QED
        BY <1>4, <1>6, <2>1, AppendProperties
    <2>3. Cardinality(Offered(s)') = Cardinality(Offered(s)) + 1
      BY <1>8, <1>10, <1>12
    <2> QED
      BY <1>1, <1>9, <1>11, <2>1, <2>2, <2>3, Zenon
  <1>13. CASE s \in full
    <2>1. queue'[s] = queue[s] /\ dropped'[s] = dropped[s] + 1
      <3> HIDE DEF event
      <3> QED
        BY <1>1, <1>3, <1>13 DEF Delivered, DropCount
    <2>2. Cardinality(Offered(s)') = Cardinality(Offered(s)) + 1
      BY <1>8, <1>10, <1>13
    <2> QED
      BY <1>1, <1>9, <1>11, <2>1, <2>2, Zenon
  <1>14. CASE s \notin accepting
    <2>1. queue'[s] = queue[s] /\ dropped'[s] = dropped[s]
      <3> HIDE DEF event
      <3> QED
        BY <1>1, <1>3, <1>14 DEF Delivered, DropCount
    <2>2. Offered(s)' = Offered(s)
      BY <1>3, <1>8, <1>14
    <2> QED
      BY <1>1, <1>9, <2>1, <2>2
  <1> QED
    BY <1>3, <1>12, <1>13, <1>14

LEMMA SubscribeKeepsCount ==
  ASSUME HubInv, NothingUncounted, NEW s \in Sessions, NEW o \in Options, Subscribe(s, o)
  PROVE  NothingUncounted'
  <1> SUFFICES ASSUME NEW t \in subscribers', phase'[t] = "open"
               PROVE  Cardinality(Offered(t)') =
                        Len(received'[t]) + Len(queue'[t]) + dropped'[t]
    BY DEF NothingUncounted
  <1>1. UNCHANGED <<frames, nextSequence, queue, received, dropped>>
    BY DEF Subscribe
  <1>2. subscribers' = subscribers \cup {s} /\ nextSequence \in Nat
    BY DEF Subscribe, HubInv, HubTypeOK
  <1>3. CASE t = s
    <2>1. queue[s] = <<>> /\ received[s] = <<>> /\ dropped[s] = 0
      BY DEF HubInv, Fresh, Subscribe
    <2>2. since'[s] = nextSequence
      BY DEF Subscribe, HubInv, HubTypeOK
    <2>3. Offered(s)' = {}
      BY <1>1, <1>2, <2>2 DEF Offered
    <2>4. Cardinality(Offered(s)') = 0
      BY <2>3, FS_EmptySet
    <2>5. Len(received'[s]) = 0 /\ Len(queue'[s]) = 0 /\ dropped'[s] = 0
      BY <1>1, <2>1
    <2> QED
      BY <1>3, <2>4, <2>5
  <1>4. CASE t # s
    <2>1. t \in subscribers /\ phase[t] = "open" /\ options'[t] = options[t] /\ since'[t] = since[t]
      BY <1>2, <1>4 DEF Subscribe, HubInv, HubTypeOK
    <2>2. Offered(t)' = Offered(t)
      BY <1>1, <2>1 DEF Offered, Accepts
    <2> QED
      BY <1>1, <2>1, <2>2 DEF NothingUncounted
  <1> QED
    BY <1>3, <1>4

LEMMA TryRecvKeepsCount ==
  ASSUME HubInv, NothingUncounted, NEW s \in Sessions, TryRecv(s)
  PROVE  NothingUncounted'
  <1> SUFFICES ASSUME NEW t \in subscribers, phase[t] = "open"
               PROVE  Cardinality(Offered(t)) =
                        Len(received'[t]) + Len(queue'[t]) + dropped[t]
    BY DEF NothingUncounted, TryRecv, Offered, Accepts
  <1>1. Cardinality(Offered(t)) = Len(received[t]) + Len(queue[t]) + dropped[t]
    BY DEF NothingUncounted
  <1>2. CASE t = s
    <2>1. /\ received[s] \in Seq(SequencedFrame) /\ queue[s] \in Seq(SequencedFrame)
          /\ queue[s] # <<>>
          /\ queue'[s] = Tail(queue[s])
          /\ received'[s] = Append(received[s], Head(queue[s]))
          /\ dropped[s] \in Nat
      BY DEF HubInv, HubTypeOK, TryRecv
    <2>2. Head(queue[s]) \in SequencedFrame /\ Len(queue'[s]) = Len(queue[s]) - 1
      BY <2>1, HeadTailProperties
    <2>3. Len(received'[s]) = Len(received[s]) + 1
      BY <2>1, <2>2, AppendProperties
    <2>4. Len(received[s]) \in Nat /\ Len(queue[s]) \in Nat
      BY <2>1, LenProperties
    <2>5. LET a == Len(received[s])
              b == Len(queue[s])
              c == dropped[s]
          IN  a + b + c = (a + 1) + (b - 1) + c
      BY <2>1, <2>4, CountsAgree, Zenon
    <2> QED
      BY <1>1, <1>2, <2>2, <2>3, <2>5, Zenon
  <1>3. CASE t # s
    <2>1. queue'[t] = queue[t] /\ received'[t] = received[t]
      BY <1>3 DEF TryRecv, HubInv, HubTypeOK
    <2> QED
      BY <1>1, <2>1
  <1> QED
    BY <1>2, <1>3

\* No frame is lost silently: each one that an open subscription asked for was
\* received, waits in the channel, or was counted as dropped.
THEOREM HubCountsLoss == HubSpec => []NothingUncounted
  <1>1. HubInit => NothingUncounted
    BY DEF HubInit, NothingUncounted
  <1>2. HubInv /\ NothingUncounted /\ [HubNext]_hubVars => NothingUncounted'
    <2> SUFFICES ASSUME HubInv, NothingUncounted, [HubNext]_hubVars PROVE NothingUncounted'
      OBVIOUS
    <2>1. ASSUME NEW s \in Sessions, Unsubscribe(s) PROVE NothingUncounted'
      <3>1. /\ subscribers' \subseteq subscribers
            /\ UNCHANGED <<frames, nextSequence, options, since, queue, received, dropped>>
        BY <2>1 DEF Unsubscribe
      <3>2. \A t \in subscribers' : phase'[t] = "open" => phase[t] = "open"
        BY <2>1, <3>1 DEF Unsubscribe, HubInv, HubTypeOK
      <3> QED
        BY <3>1, <3>2 DEF NothingUncounted, Offered, Accepts
    <2>2. ASSUME NEW s \in Sessions, DropReceiver(s) PROVE NothingUncounted'
      <3>1. UNCHANGED <<frames, nextSequence, options, since, subscribers, received, dropped>>
        BY <2>2 DEF DropReceiver
      <3>2. \A t \in subscribers' :
              phase'[t] = "open" => phase[t] = "open" /\ queue'[t] = queue[t]
        BY <2>2 DEF DropReceiver, HubInv, HubTypeOK
      <3> QED
        BY <3>1, <3>2 DEF NothingUncounted, Offered, Accepts
    <2>3. CASE UNCHANGED hubVars
      BY <2>3 DEF hubVars, NothingUncounted, Offered, Accepts
    <2> QED
      BY <2>1, <2>2, <2>3, PublishKeepsCount, SubscribeKeepsCount, TryRecvKeepsCount DEF HubNext
  <1> QED
    BY <1>1, <1>2, HubInvariant, PTL DEF HubSpec

-----------------------------------------------------------------------------
(* The latest-frame table *)

\* A published frame is one more place of its own key, behind all others.
LEMMA PlacesGrow ==
  ASSUME HubInv, NEW k \in Keys, Publish(k), NEW j \in Keys
  PROVE  /\ Places(j)' = IF j = k THEN Places(j) \cup {nextSequence + 1} ELSE Places(j)
         /\ IsFiniteSet(Places(j))
         /\ Places(j) \subseteq 1 .. nextSequence
         /\ nextSequence + 1 \notin Places(j)
  <1>1. /\ nextSequence \in Nat /\ nextSequence' = nextSequence + 1
        /\ \A n \in 0 .. nextSequence - 1 : frames'[n + 1] = frames[n + 1]
        /\ frames'[nextSequence + 1] = k
    BY HistoryKept
  <1>2. Len(frames) = nextSequence
    BY DEF HubInv, Counting
  <1>3. Len(frames') = nextSequence + 1
    BY <1>2, AppendProperties DEF HubInv, HubTypeOK, Publish
  <1>4. Places(j) = {i \in 1 .. nextSequence : frames[i] = j}
    BY <1>2 DEF Places
  <1>5. Places(j)' = {i \in 1 .. nextSequence + 1 : frames'[i] = j}
    BY <1>3 DEF Places
  <1>6. 1 .. nextSequence + 1 = (1 .. nextSequence) \cup {nextSequence + 1}
    BY <1>1
  <1>7. \A i \in 1 .. nextSequence : frames'[i] = frames[i]
    <2> SUFFICES ASSUME NEW i \in 1 .. nextSequence PROVE frames'[i] = frames[i]
      OBVIOUS
    <2>1. i - 1 \in 0 .. nextSequence - 1 /\ (i - 1) + 1 = i
      BY <1>1
    <2> QED
      BY <1>1, <2>1
  <1>8. IsFiniteSet(1 .. nextSequence)
    BY <1>1, FS_Interval
  <1>9. IsFiniteSet(Places(j)) /\ Places(j) \subseteq 1 .. nextSequence
    BY <1>4, <1>8, FS_Subset
  <1>10. nextSequence + 1 \notin Places(j)
    BY <1>1, <1>9
  <1>11. Places(j)' = IF j = k THEN Places(j) \cup {nextSequence + 1} ELSE Places(j)
    BY <1>1, <1>4, <1>5, <1>6, <1>7
  <1> QED
    BY <1>9, <1>10, <1>11

LEMMA PublishKeepsLatest ==
  ASSUME HubInv, LatestMatchesHistory, NEW k \in Keys, Publish(k)
  PROVE  LatestMatchesHistory'
  <1> SUFFICES ASSUME NEW j \in Keys PROVE LatestOK(j)'
    BY DEF LatestMatchesHistory
  <1>1. LatestOK(j)
    BY DEF LatestMatchesHistory
  <1>2. latest' = [latest EXCEPT ![k] = Ingest(k)] /\ latest \in [Keys -> LatestFrame]
    BY DEF Publish, HubInv, HubTypeOK
  <1>3. /\ Places(j)' = IF j = k THEN Places(j) \cup {nextSequence + 1} ELSE Places(j)
        /\ IsFiniteSet(Places(j))
        /\ Places(j) \subseteq 1 .. nextSequence
        /\ nextSequence + 1 \notin Places(j)
    BY PlacesGrow
  <1>4. nextSequence \in Nat
    BY DEF HubInv, HubTypeOK
  <1>5. CASE j # k
    <2>1. latest'[j] = latest[j] /\ Places(j)' = Places(j)
      BY <1>2, <1>3, <1>5
    <2> QED
      BY <1>1, <2>1 DEF LatestOK, LastOf
  <1>6. CASE j = k
    <2>1. /\ latest'[j].receive_count = latest[j].receive_count + 1
          /\ latest'[j].frame = nextSequence + 1
          /\ latest'[j].previous = latest[j].frame
      BY <1>2, <1>6 DEF Ingest, HubInv, Counting
    <2>2. Places(j)' = Places(j) \cup {nextSequence + 1}
      BY <1>3, <1>6
    <2>3. Cardinality(Places(j)') = Cardinality(Places(j)) + 1
      BY <1>3, <2>2, FS_AddElement
    <2>4. latest'[j].receive_count = Cardinality(Places(j)')
      BY <1>1, <2>1, <2>3 DEF LatestOK
    <2>5. LastOf(Places(j)', latest'[j].frame)
      BY <1>3, <1>4, <2>1, <2>2 DEF LastOf
    <2>6. Places(j)' \ {latest'[j].frame} = Places(j)
      BY <1>3, <2>1, <2>2
    <2>7. LastOf(Places(j)' \ {latest'[j].frame}, latest'[j].previous)
      BY <1>1, <2>1, <2>6 DEF LatestOK
    <2> QED
      BY <2>4, <2>5, <2>7 DEF LatestOK, LastOf
  <1> QED
    BY <1>5, <1>6

\* The table of latest frames, which the snapshots of the API show, is at any
\* time what the whole history says.
THEOREM HubLatestMatches == HubSpec => []LatestMatchesHistory
  <1>1. HubInit => LatestMatchesHistory
    <2> SUFFICES ASSUME HubInit, NEW k \in Keys PROVE LatestOK(k)
      BY DEF LatestMatchesHistory
    <2>1. Len(frames) = 0
      BY DEF HubInit
    <2>2. Places(k) = {}
      BY <2>1 DEF Places
    <2>3. latest[k] = NoLatest
      BY DEF HubInit
    <2>4. latest[k].receive_count = 0 /\ latest[k].frame = 0 /\ latest[k].previous = 0
      BY <2>3 DEF NoLatest
    <2>5. Places(k) = {} /\ Places(k) \ {latest[k].frame} = {} /\ Cardinality(Places(k)) = 0
      BY <2>2, FS_EmptySet
    <2> QED
      BY <2>4, <2>5 DEF LatestOK, LastOf
  <1>2. HubInv /\ LatestMatchesHistory /\ [HubNext]_hubVars => LatestMatchesHistory'
    <2> SUFFICES ASSUME HubInv, LatestMatchesHistory, [HubNext]_hubVars
                 PROVE  LatestMatchesHistory'
      OBVIOUS
    <2>1. CASE UNCHANGED <<frames, latest>>
      <3> SUFFICES ASSUME NEW k \in Keys PROVE LatestOK(k)'
        BY DEF LatestMatchesHistory
      <3>1. Places(k)' = Places(k) /\ latest' = latest
        BY <2>1 DEF Places
      <3>2. LatestOK(k)
        BY DEF LatestMatchesHistory
      <3> QED
        BY <3>1, <3>2 DEF LatestOK, LastOf
    <2>2. CASE \E k \in Keys : Publish(k)
      BY <2>2, PublishKeepsLatest
    <2>3. UNCHANGED <<frames, latest>> \/ \E k \in Keys : Publish(k)
      BY DEF HubNext, Subscribe, Unsubscribe, DropReceiver, TryRecv, hubVars
    <2> QED
      BY <2>1, <2>2, <2>3
  <1> QED
    BY <1>1, <1>2, HubInvariant, PTL DEF HubSpec

-----------------------------------------------------------------------------
(* Events and their sequence numbers *)

\* The numbers of an empty channel.
LEMMA NothingQueued ==
  SequenceSet(<<>>) = {} /\ SequenceNumbers(<<>>) = <<>>
  <1>1. Len(<<>>) = 0
    OBVIOUS
  <1>2. 1 .. 0 = {}
    OBVIOUS
  <1>3. SequenceSet(<<>>) = {}
    BY <1>1, <1>2 DEF SequenceSet
  <1>4. SequenceNumbers(<<>>) = [i \in {} |-> <<>>[i].sequence]
    BY <1>1, <1>2 DEF SequenceNumbers
  <1>5. [i \in {} |-> <<>>[i].sequence] = <<>>
    <2>1. [i \in {} |-> <<>>[i].sequence] \in Seq({})
      BY <1>2
    <2> QED
      BY <2>1, EmptySeq
  <1> QED
    BY <1>3, <1>4, <1>5

\* A channel that grows by an event.
LEMMA SetGrows ==
  ASSUME NEW q \in Seq(SequencedFrame), NEW event \in SequencedFrame
  PROVE  SequenceSet(Append(q, event)) = SequenceSet(q) \cup {event.sequence}
  <1>1. /\ Len(q) \in Nat
        /\ Len(Append(q, event)) = Len(q) + 1
        /\ \A i \in 1 .. Len(q) : Append(q, event)[i] = q[i]
        /\ Append(q, event)[Len(q) + 1] = event
    BY AppendProperties, LenProperties
  <1>2. 1 .. Len(q) + 1 = (1 .. Len(q)) \cup {Len(q) + 1}
    BY <1>1
  <1>3. SequenceSet(Append(q, event)) = {Append(q, event)[i].sequence : i \in (1 .. Len(q)) \cup {Len(q) + 1}}
    BY <1>1, <1>2 DEF SequenceSet
  <1>4. SequenceSet(q) = {Append(q, event)[i].sequence : i \in 1 .. Len(q)}
    BY <1>1 DEF SequenceSet
  <1> QED
    BY <1>1, <1>3, <1>4

\* What has been received, with one more event.
LEMMA NumbersGrow ==
  ASSUME NEW r \in Seq(SequencedFrame), NEW event \in SequencedFrame
  PROVE  SequenceNumbers(Append(r, event)) = Append(SequenceNumbers(r), event.sequence)
  <1>1. /\ Len(r) \in Nat
        /\ Len(Append(r, event)) = Len(r) + 1
        /\ \A i \in 1 .. Len(r) : Append(r, event)[i] = r[i] /\ r[i] \in SequencedFrame
        /\ Append(r, event)[Len(r) + 1] = event
    BY AppendProperties, LenProperties, ElementOfSeq
  <1>2. SequenceNumbers(r) \in Seq(Nat) /\ Len(SequenceNumbers(r)) = Len(r)
    <2>1. \A i \in 1 .. Len(r) : r[i].sequence \in Nat
      BY <1>1 DEF SequencedFrame
    <2> QED
      BY <1>1, <2>1, IsASeq DEF SequenceNumbers
  <1>3. event.sequence \in Nat
    BY DEF SequencedFrame
  <1>4. /\ Append(SequenceNumbers(r), event.sequence) \in Seq(Nat)
        /\ Len(Append(SequenceNumbers(r), event.sequence)) = Len(r) + 1
        /\ \A i \in 1 .. Len(r) : Append(SequenceNumbers(r), event.sequence)[i] = r[i].sequence
        /\ Append(SequenceNumbers(r), event.sequence)[Len(r) + 1] = event.sequence
    <2>1. \A i \in 1 .. Len(r) : SequenceNumbers(r)[i] = r[i].sequence
      BY <1>1 DEF SequenceNumbers
    <2> QED
      BY <1>2, <1>3, <2>1, AppendProperties
  <1>5. /\ SequenceNumbers(Append(r, event)) \in Seq(Nat)
        /\ Len(SequenceNumbers(Append(r, event))) = Len(r) + 1
        /\ \A i \in 1 .. Len(r) + 1 : SequenceNumbers(Append(r, event))[i] = Append(r, event)[i].sequence
    <2>1. \A i \in 1 .. Len(r) + 1 : Append(r, event)[i].sequence \in Nat
      <3> SUFFICES ASSUME NEW i \in 1 .. Len(r) + 1 PROVE Append(r, event)[i].sequence \in Nat
        OBVIOUS
      <3>1. i \in 1 .. Len(r) \/ i = Len(r) + 1
        BY <1>1
      <3> QED
        BY <1>1, <1>3, <3>1 DEF SequencedFrame
    <2> QED
      BY <1>1, <2>1, IsASeq DEF SequenceNumbers
  <1>6. \A i \in 1 .. Len(r) + 1 :
          SequenceNumbers(Append(r, event))[i] = Append(SequenceNumbers(r), event.sequence)[i]
    <2> SUFFICES ASSUME NEW i \in 1 .. Len(r) + 1
                 PROVE  SequenceNumbers(Append(r, event))[i] = Append(SequenceNumbers(r), event.sequence)[i]
      OBVIOUS
    <2>1. i \in 1 .. Len(r) \/ i = Len(r) + 1
      BY <1>1
    <2> QED
      BY <1>1, <1>4, <1>5, <2>1
  <1> QED
    BY <1>4, <1>5, <1>6, SeqEqual

\* What waits for a session waits in the order of the sequence numbers.
LEMMA QueueOrdered ==
  ASSUME HubTypeOK, DeliveryInOrder, NEW s \in Sessions,
         NEW i \in 1 .. Len(queue[s]), NEW j \in 1 .. Len(queue[s]), i < j
  PROVE  queue[s][i].sequence < queue[s][j].sequence
  <1>1. received[s] \in Seq(SequencedFrame) /\ queue[s] \in Seq(SequencedFrame)
    BY DEF HubTypeOK
  <1> DEFINE n == Len(received[s])
             m == Len(queue[s])
  <1>2. n \in Nat /\ m \in Nat
    BY <1>1, LenProperties
  <1>3. Len(Arrivals(s)) = n + m
    BY ArrivalsTyped
  <1>4. \A l \in 1 .. n + m : Arrivals(s)[l] = IF l <= n THEN received[s][l] ELSE queue[s][l - n]
    BY <1>1, ConcatProperties DEF Arrivals
  <1> HIDE DEF n, m
  <1>5. i \in 1 .. m /\ j \in 1 .. m
    BY DEF m
  <1>6. /\ n + i \in 1 .. n + m /\ n + j \in 1 .. n + m
        /\ ~(n + i <= n) /\ ~(n + j <= n) /\ (n + i) - n = i /\ (n + j) - n = j
        /\ n + i \in 1 .. (n + j) - 1
    BY <1>2, <1>5
  <1>7. Arrivals(s)[n + i] = queue[s][i] /\ Arrivals(s)[n + j] = queue[s][j]
    BY <1>4, <1>6
  <1>8. Arrivals(s)[n + i].sequence < Arrivals(s)[n + j].sequence
    BY <1>3, <1>6 DEF DeliveryInOrder, InOrder
  <1> QED
    BY <1>7, <1>8

\* The first event of a channel has the least number, and taking it removes
\* that number.
LEMMA HeadIsLeast ==
  ASSUME NEW q \in Seq(SequencedFrame), q # <<>>,
         \A i, j \in 1 .. Len(q) : i < j => q[i].sequence < q[j].sequence
  PROVE  /\ Head(q).sequence \in SequenceSet(q)
         /\ \A n \in SequenceSet(q) : Head(q).sequence <= n
         /\ SequenceSet(Tail(q)) = SequenceSet(q) \ {Head(q).sequence}
  <1>1. /\ Head(q) = q[1]
        /\ Len(q) \in Nat \ {0}
        /\ Len(Tail(q)) = Len(q) - 1
        /\ \A i \in 1 .. Len(Tail(q)) : Tail(q)[i] = q[i + 1]
    BY HeadTailProperties, EmptySeq, LenProperties
  <1>2. \A i \in 1 .. Len(q) : q[i].sequence \in Nat
    <2>1. \A i \in 1 .. Len(q) : q[i] \in SequencedFrame
      BY ElementOfSeq
    <2> QED
      BY <2>1 DEF SequencedFrame
  <1>3. 1 \in 1 .. Len(q)
    BY <1>1
  <1>4. Head(q).sequence \in SequenceSet(q)
    BY <1>1, <1>3 DEF SequenceSet
  <1>5. \A i \in 1 .. Len(q) : i = 1 \/ q[1].sequence < q[i].sequence
    <2>1. \A i \in 1 .. Len(q) : i = 1 \/ 1 < i
      BY <1>1
    <2> QED
      BY <1>3, <2>1
  <1>6. \A n \in SequenceSet(q) : Head(q).sequence <= n
    BY <1>1, <1>2, <1>3, <1>5 DEF SequenceSet
  <1>7. ASSUME NEW n \in SequenceSet(Tail(q))
        PROVE  n \in SequenceSet(q) \ {Head(q).sequence}
    <2>1. PICK i \in 1 .. Len(Tail(q)) : n = Tail(q)[i].sequence
      BY DEF SequenceSet
    <2>2. i + 1 \in 1 .. Len(q) /\ i + 1 # 1
      BY <1>1
    <2>3. n = q[i + 1].sequence
      BY <1>1, <2>1
    <2>4. q[1].sequence < q[i + 1].sequence
      BY <1>5, <2>2
    <2>5. n # q[1].sequence
      BY <1>2, <1>3, <2>2, <2>3, <2>4
    <2>6. n \in SequenceSet(q)
      BY <2>2, <2>3 DEF SequenceSet
    <2> QED
      BY <1>1, <2>5, <2>6
  <1>8. ASSUME NEW n \in SequenceSet(q) \ {Head(q).sequence}
        PROVE  n \in SequenceSet(Tail(q))
    <2>1. PICK i \in 1 .. Len(q) : n = q[i].sequence
      BY DEF SequenceSet
    <2>2. i # 1
      BY <1>1, <2>1
    <2>3. i - 1 \in 1 .. Len(Tail(q)) /\ (i - 1) + 1 = i
      BY <1>1, <2>2
    <2>4. n = Tail(q)[i - 1].sequence
      BY <1>1, <2>1, <2>3
    <2> QED
      BY <2>3, <2>4 DEF SequenceSet
  <1> QED
    BY <1>4, <1>6, <1>7, <1>8

-----------------------------------------------------------------------------
(* Every action of the hub is an action of the broadcast *)

\* The hub begins where the broadcast begins.
LEMMA InitRefines == HubInit => Broadcast!BroadcastInit
  <1> SUFFICES ASSUME HubInit PROVE Broadcast!BroadcastInit
    OBVIOUS
  <1>1. /\ frames = <<>>
        /\ subscribers = {}
        /\ \A s \in Sessions : phase[s] = "new"
        /\ \A s \in Sessions : options[s].accepts = {}
        /\ \A s \in Sessions : queue[s] = <<>> /\ received[s] = <<>>
        /\ dropped = [s \in Sessions |-> 0]
    BY DEF HubInit, NoOptions
  <1>2. \A s \in Sessions : SequenceSet(queue[s]) = {} /\ SequenceNumbers(received[s]) = <<>>
    BY <1>1, NothingQueued
  <1> QED
    BY <1>1, <1>2 DEF Broadcast!BroadcastInit

\* A published frame is sent: the sessions whose channel has room take it.
LEMMA PublishRefines ==
  ASSUME HubInv, NEW k \in Keys, Publish(k)
  PROVE  Broadcast!Send(k)
  <1> DEFINE event        == [sequence |-> nextSequence, frame |-> k]
             accepting    == {s \in subscribers : Accepts(s, k)}
             disconnected == {s \in accepting : phase[s] = "closed"}
             fits         == {s \in accepting \ disconnected : HasRoom(s)}
             full         == accepting \ (disconnected \cup fits)
             reading      == {s \in Sessions : phase[s] \in {"open", "left"}}
  <1>1. /\ queue' = [s \in Sessions |-> Delivered(s, fits, event)]
        /\ dropped' = [s \in Sessions |-> DropCount(s, full)]
        /\ subscribers' = subscribers \ disconnected
    BY Zenon DEF Publish
  <1>2. /\ frames' = Append(frames, k)
        /\ options' = options /\ phase' = phase /\ received' = received
    BY DEF Publish
  <1>3. /\ nextSequence = Len(frames) /\ nextSequence \in Nat
        /\ subscribers \subseteq Sessions
        /\ phase \in [Sessions -> Phases]
        /\ \A s \in Sessions : queue[s] \in Seq(SequencedFrame)
        /\ \A s \in subscribers : phase[s] # "new"
    BY DEF HubInv, HubTypeOK, Counting, Fresh
  <1>4. event \in SequencedFrame /\ event.sequence = Len(frames)
    BY <1>3 DEF SequencedFrame
  <1>5. {s \in subscribers : k \in [t \in Sessions |-> options[t].accepts][s]} = accepting
    BY <1>3 DEF Accepts
  <1>6. accepting \cap reading = accepting \ disconnected /\ accepting \ reading = disconnected
    BY <1>3 DEF Phases
  <1>7. fits \in SUBSET (accepting \cap reading) /\ full = (accepting \cap reading) \ fits
    BY <1>6
  <1> HIDE DEF event, accepting, disconnected, fits, full, reading
  <1>8. \A s \in Sessions : SequenceSet(queue'[s]) =
          IF s \in fits THEN SequenceSet(queue[s]) \cup {Len(frames)} ELSE SequenceSet(queue[s])
    BY <1>1, <1>3, <1>4, SetGrows DEF Delivered
  <1>9. \A s \in Sessions : DropCount(s, full) = IF s \in full THEN dropped[s] + 1 ELSE dropped[s]
    BY DEF DropCount
  <1>10. [s \in Sessions |-> SequenceSet(queue'[s])] =
           [s \in Sessions |-> IF s \in fits THEN [t \in Sessions |-> SequenceSet(queue[t])][s] \cup {Len(frames)}
                               ELSE [t \in Sessions |-> SequenceSet(queue[t])][s]]
    BY <1>8
  <1>11. dropped' = [s \in Sessions |-> IF s \in (accepting \cap reading) \ fits
                                       THEN dropped[s] + 1 ELSE dropped[s]]
    BY <1>1, <1>7, <1>9
  <1>12. subscribers' = subscribers \ (accepting \ reading)
    BY <1>1, <1>6
  <1> USE DEF reading
  <1> QED
    BY <1>2, <1>5, <1>7, <1>10, <1>11, <1>12 DEF Broadcast!Send

\* A subscription joins.
LEMMA SubscribeRefines ==
  ASSUME HubInv, NEW s \in Sessions, NEW o \in Options, Subscribe(s, o)
  PROVE  Broadcast!Join(s, o.accepts) /\ o.accepts \in SUBSET Keys
  <1>1. /\ phase[s] = "new"
        /\ phase' = [phase EXCEPT ![s] = "open"]
        /\ options' = [options EXCEPT ![s] = o]
        /\ subscribers' = subscribers \cup {s}
        /\ frames' = frames /\ queue' = queue /\ received' = received /\ dropped' = dropped
    BY DEF Subscribe
  <1>2. /\ phase \in [Sessions -> Phases]
        /\ options \in [Sessions -> Options \cup {NoOptions}]
    BY DEF HubInv, HubTypeOK
  <1>3. \A t \in Sessions : phase'[t] = IF t = s THEN "open" ELSE phase[t]
    BY <1>1, <1>2
  <1>4. {t \in Sessions : phase'[t] # "new"} = {t \in Sessions : phase[t] # "new"} \cup {s}
    BY <1>3
  <1>5. {t \in Sessions : phase'[t] \in {"open", "left"}} =
          {t \in Sessions : phase[t] \in {"open", "left"}} \cup {s}
    BY <1>3
  <1>6. [t \in Sessions |-> options'[t].accepts] =
          [[t \in Sessions |-> options[t].accepts] EXCEPT ![s] = o.accepts]
    BY <1>1, <1>2
  <1>7. s \notin {t \in Sessions : phase[t] # "new"}
    BY <1>1
  <1>8. o.accepts \in SUBSET Keys
    BY HubAssumption
  <1> QED
    BY <1>1, <1>4, <1>5, <1>6, <1>7, <1>8 DEF Broadcast!Join

\* The places of the sessions in the Vec are all different.
Joined == {s \in Sessions : phase[s] # "new"}

JoinedDistinct ==
  /\ \A s \in Joined : joined[s] <= Cardinality(Joined)
  /\ \A s, t \in Joined : joined[s] = joined[t] => s = t

LEMMA JoinedDistinctInit == HubInit => JoinedDistinct
  BY DEF HubInit, JoinedDistinct, Joined

LEMMA JoinedDistinctStep ==
  ASSUME HubInv, JoinedDistinct, [HubNext]_hubVars
  PROVE  JoinedDistinct'
  <1>1. phase \in [Sessions -> Phases] /\ joined \in [Sessions -> Nat]
    BY DEF HubInv, HubTypeOK
  <1>2. Cardinality(Joined) \in Nat /\ IsFiniteSet(Joined)
    <2>1. IsFiniteSet(Joined)
      BY FS_Subset, HubAssumption DEF Joined
    <2> QED
      BY <2>1, FS_CardinalityType
  <1>3. ASSUME NEW s \in Sessions, NEW o \in Options, Subscribe(s, o)
        PROVE  JoinedDistinct'
    <2>1. /\ phase[s] = "new"
          /\ phase' = [phase EXCEPT ![s] = "open"]
          /\ joined' = [joined EXCEPT ![s] = 1 + Cardinality({t \in Sessions : phase[t] # "new"})]
      BY <1>3 DEF Subscribe
    <2>2. \A t \in Sessions : joined'[t] = IF t = s THEN 1 + Cardinality(Joined) ELSE joined[t]
      BY <1>1, <2>1 DEF Joined
    <2>3. Joined' = Joined \cup {s} /\ s \notin Joined
      BY <1>1, <2>1 DEF Joined
    <2>4. Cardinality(Joined') = Cardinality(Joined) + 1
      BY <1>2, <2>3, FS_AddElement
    <2>5. Joined \subseteq Sessions
      BY DEF Joined
    <2>6. \A t \in Joined' : joined'[t] <= Cardinality(Joined')
      BY <1>1, <1>2, <2>2, <2>3, <2>4, <2>5 DEF JoinedDistinct
    <2>7. ASSUME NEW t \in Joined', NEW u \in Joined', joined'[t] = joined'[u]
          PROVE  t = u
      BY <1>1, <1>2, <2>2, <2>3, <2>5, <2>7 DEF JoinedDistinct
    <2> QED
      BY <2>6, <2>7 DEF JoinedDistinct
  <1>4. ASSUME joined' = joined, Joined' = Joined PROVE JoinedDistinct'
    BY <1>4 DEF JoinedDistinct
  <1>5. ASSUME NEW s \in Sessions, Unsubscribe(s) \/ DropReceiver(s) PROVE JoinedDistinct'
    <2>1. /\ joined' = joined
          /\ phase[s] # "new"
          /\ phase' = [phase EXCEPT ![s] = "left"] \/ phase' = [phase EXCEPT ![s] = "closed"]
      BY <1>5 DEF Unsubscribe, DropReceiver
    <2>2. Joined' = Joined
      BY <1>1, <2>1 DEF Joined
    <2> QED
      BY <1>4, <2>1, <2>2
  <1>6. ASSUME joined' = joined, phase' = phase PROVE JoinedDistinct'
    BY <1>4, <1>6 DEF Joined
  <1>7. ASSUME NEW k \in Keys, Publish(k) PROVE JoinedDistinct'
    BY <1>6, <1>7 DEF Publish
  <1>8. ASSUME NEW s \in Sessions, TryRecv(s) PROVE JoinedDistinct'
    BY <1>6, <1>8 DEF TryRecv
  <1>9. CASE UNCHANGED hubVars
    BY <1>6, <1>9 DEF hubVars
  <1> QED
    BY <1>3, <1>5, <1>7, <1>8, <1>9 DEF HubNext

\* An unsubscribe ends the membership of the first entry with the id, or none.
LEMMA UnsubscribeRefines ==
  ASSUME HubInv, JoinedDistinct, NEW s \in Sessions, Unsubscribe(s)
  PROVE  Broadcast!Leave \/ UNCHANGED Broadcast!broadcastVars
  <1>1. /\ phase[s] = "open"
        /\ phase' = [phase EXCEPT ![s] = "left"]
        /\ subscribers' = subscribers \ First(id[s])
        /\ frames' = frames /\ options' = options /\ queue' = queue
        /\ received' = received /\ dropped' = dropped
    BY DEF Unsubscribe, Removed
  <1>2. /\ phase \in [Sessions -> Phases]
        /\ joined \in [Sessions -> Nat]
        /\ subscribers \subseteq Joined
        /\ subscribers \subseteq Sessions
    BY DEF HubInv, HubTypeOK, Fresh, Joined
  <1>3. \A t \in Sessions : phase'[t] = IF t = s THEN "left" ELSE phase[t]
    BY <1>1, <1>2
  <1>4. {t \in Sessions : phase'[t] # "new"} = {t \in Sessions : phase[t] # "new"}
    BY <1>1, <1>3
  <1>5. {t \in Sessions : phase'[t] \in {"open", "left"}} =
          {t \in Sessions : phase[t] \in {"open", "left"}}
    BY <1>1, <1>3
  <1>6. \A t, u \in First(id[s]) : t = u
    <2> SUFFICES ASSUME NEW t \in First(id[s]), NEW u \in First(id[s]) PROVE t = u
      OBVIOUS
    <2>1. t \in subscribers /\ u \in subscribers /\ joined[t] <= joined[u] /\ joined[u] <= joined[t]
      BY DEF First, Holding
    <2>2. joined[t] = joined[u]
      BY <1>2, <2>1
    <2> QED
      BY <1>2, <2>1, <2>2 DEF JoinedDistinct
  <1>7. subscribers' = subscribers \/ \E r \in Sessions : subscribers' = subscribers \ {r}
    <2>1. CASE First(id[s]) = {}
      BY <1>1, <2>1
    <2>2. CASE First(id[s]) # {}
      <3>1. PICK r : r \in First(id[s])
        BY <2>2
      <3>2. r \in subscribers /\ First(id[s]) = {r}
        BY <1>6, <3>1 DEF First, Holding
      <3> QED
        BY <1>1, <1>2, <3>2
    <2> QED
      BY <2>1, <2>2
  <1> QED
    BY <1>1, <1>4, <1>5, <1>7 DEF Broadcast!Leave, Broadcast!broadcastVars

\* A receiver that is dropped stops reading, and its channel is gone.
LEMMA DropReceiverRefines ==
  ASSUME HubInv, NEW s \in Sessions, DropReceiver(s)
  PROVE  Broadcast!StopReading(s)
  <1>1. /\ phase[s] \in {"open", "left"}
        /\ phase' = [phase EXCEPT ![s] = "closed"]
        /\ queue' = [queue EXCEPT ![s] = <<>>]
        /\ frames' = frames /\ options' = options /\ subscribers' = subscribers
        /\ received' = received /\ dropped' = dropped
    BY DEF DropReceiver
  <1>2. /\ phase \in [Sessions -> Phases]
        /\ queue \in [Sessions -> Seq(SequencedFrame)]
    BY DEF HubInv, HubTypeOK
  <1>3. \A t \in Sessions : phase'[t] = IF t = s THEN "closed" ELSE phase[t]
    BY <1>1, <1>2
  <1>4. {t \in Sessions : phase'[t] # "new"} = {t \in Sessions : phase[t] # "new"}
    BY <1>1, <1>3
  <1>5. {t \in Sessions : phase'[t] \in {"open", "left"}} =
          {t \in Sessions : phase[t] \in {"open", "left"}} \ {s}
    BY <1>3
  <1>6. \A t \in Sessions : SequenceSet(queue'[t]) = IF t = s THEN {} ELSE SequenceSet(queue[t])
    BY <1>1, <1>2, NothingQueued
  <1>7. [t \in Sessions |-> SequenceSet(queue'[t])] =
          [[t \in Sessions |-> SequenceSet(queue[t])] EXCEPT ![s] = {}]
    BY <1>6
  <1> QED
    BY <1>1, <1>4, <1>5, <1>7 DEF Broadcast!StopReading

\* What is read is the least of what waits.
LEMMA TryRecvRefines ==
  ASSUME HubInv, DeliveryInOrder, NEW s \in Sessions, TryRecv(s)
  PROVE  Broadcast!Get(s)
  <1> DEFINE n == Head(queue[s]).sequence
  <1>1. /\ phase[s] = "open"
        /\ queue[s] # <<>>
        /\ received' = [received EXCEPT ![s] = Append(@, Head(queue[s]))]
        /\ queue' = [queue EXCEPT ![s] = Tail(@)]
        /\ frames' = frames /\ options' = options /\ subscribers' = subscribers
        /\ phase' = phase /\ dropped' = dropped
    BY DEF TryRecv
  <1>2. /\ HubTypeOK
        /\ queue \in [Sessions -> Seq(SequencedFrame)]
        /\ received \in [Sessions -> Seq(SequencedFrame)]
    BY DEF HubInv, HubTypeOK
  <1>3. queue[s] \in Seq(SequencedFrame) /\ Head(queue[s]) \in SequencedFrame
    BY <1>1, <1>2, HeadTailProperties
  <1>4. \A i, j \in 1 .. Len(queue[s]) : i < j => queue[s][i].sequence < queue[s][j].sequence
    BY <1>2, QueueOrdered
  <1>5. /\ n \in SequenceSet(queue[s])
        /\ \A m \in SequenceSet(queue[s]) : n <= m
        /\ SequenceSet(Tail(queue[s])) = SequenceSet(queue[s]) \ {n}
    BY <1>1, <1>3, <1>4, HeadIsLeast
  <1>6. SequenceNumbers(Append(received[s], Head(queue[s]))) = Append(SequenceNumbers(received[s]), n)
    BY <1>2, <1>3, NumbersGrow
  <1> HIDE DEF n
  <1>7. [t \in Sessions |-> SequenceSet(queue'[t])] =
          [[t \in Sessions |-> SequenceSet(queue[t])] EXCEPT ![s] = @ \ {n}]
    <2>1. \A t \in Sessions : SequenceSet(queue'[t]) =
            IF t = s THEN SequenceSet(queue[s]) \ {n} ELSE SequenceSet(queue[t])
      BY <1>1, <1>2, <1>5
    <2> QED
      BY <2>1
  <1>8. [t \in Sessions |-> SequenceNumbers(received'[t])] =
          [[t \in Sessions |-> SequenceNumbers(received[t])] EXCEPT ![s] = Append(@, n)]
    <2>1. \A t \in Sessions : SequenceNumbers(received'[t]) =
            IF t = s THEN Append(SequenceNumbers(received[s]), n) ELSE SequenceNumbers(received[t])
      BY <1>1, <1>2, <1>6
    <2> QED
      BY <2>1
  <1>9. s \in {t \in Sessions : phase[t] \in {"open", "left"}}
    BY <1>1
  <1> QED
    BY <1>1, <1>5, <1>7, <1>8, <1>9 DEF Broadcast!Get

-----------------------------------------------------------------------------
\* The hub implements the lossy broadcast: whatever capacity a channel has and
\* whoever joins, leaves or is dropped, every step of the hub is one of the
\* broadcast's or changes nothing that can be seen there.
THEOREM HubImplementsBroadcast == HubSpec => ImplementsBroadcast
  <1>1. ASSUME HubInv, DeliveryInOrder, JoinedDistinct, [HubNext]_hubVars
        PROVE  [Broadcast!BroadcastNext]_(Broadcast!broadcastVars)
    <2>1. CASE UNCHANGED hubVars
      BY <2>1 DEF hubVars, Broadcast!broadcastVars
    <2>2. CASE HubNext
      BY <1>1, <2>2, PublishRefines, SubscribeRefines, UnsubscribeRefines,
         DropReceiverRefines, TryRecvRefines DEF HubNext, Broadcast!BroadcastNext
    <2> QED
      BY <1>1, <2>1, <2>2
  <1>2. HubSpec => []JoinedDistinct
    BY JoinedDistinctInit, JoinedDistinctStep, HubInvariant, PTL DEF HubSpec
  <1> QED
    BY <1>1, <1>2, InitRefines, HubInvariant, HubDeliversInOrder, PTL
       DEF HubSpec, ImplementsBroadcast, Broadcast!BroadcastSpec
=============================================================================
